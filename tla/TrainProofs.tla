----------------------------- MODULE TrainProofs -----------------------------
(***************************************************************************)
(* Proofs about the merge train: bisect (TrainBisect), for a batch of any  *)
(* length, and the train (MergeTrain), for any tasks, flushers, foreign    *)
(* changes, breaks and bounds.                                             *)
(*                                                                         *)
(* Histories are sequences, so the proofs about the train start with       *)
(* lemmas about prefixes and cherry-picks.  Five invariants follow, each   *)
(* resting on earlier ones: FlushInv (what a flush may rely on), TrainInv  *)
(* (where the work of each task is), BlameInv (who is blamed), SoloInv     *)
(* (what a process that flushes alone may rely on) and LandInv (what lands *)
(* is reported).                                                           *)
(***************************************************************************)
EXTENDS TrainBisect, MergeTrain, WellFoundedInduction, FiniteSetTheorems, TLAPS

-----------------------------------------------------------------------------
(* Bisect                                                                   *)

\* The middle of a non-empty interval lies inside it.
LEMMA MidInside ==
    ASSUME TypeOK, low <= high
    PROVE  /\ Mid \in Int
           /\ low <= Mid /\ Mid <= high
           /\ Mid \in 1..n
<1>1. low \in Int /\ high \in Int /\ 1 <= low /\ high <= n /\ n \in Int
  BY MaxCommitsAssumption DEF TypeOK
<1>2. QED BY <1>1 DEF Mid

\* bisect starts with an empty record of runs and the whole batch to search.
LEMMA BisectInit == Init => BisectInv
<1> SUFFICES ASSUME Init PROVE BisectInv
  OBVIOUS
<1>1. n \in Nat
  BY MaxCommitsAssumption DEF Init
<1>2. TypeOK
  BY <1>1 DEF Init, TypeOK, Shown, None
<1>3. Interval
  BY <1>1 DEF Init, Interval, None
<1>4. GreenIsTrue
  BY DEF Init, GreenIsTrue
<1>5. QED BY <1>2, <1>3, <1>4 DEF BisectInv

\* A failing run moves high below the prefix it ran on.
LEMMA RedStep == BisectInv /\ ProbeRed => BisectInv'
<1> SUFFICES ASSUME BisectInv, ProbeRed PROVE BisectInv'
  OBVIOUS
<1> USE MaxCommitsAssumption DEF None
<1>1. /\ Mid \in Int /\ low <= Mid /\ Mid <= high /\ Mid \in 1..n
  BY MidInside DEF BisectInv, ProbeRed
<1>2. TypeOK /\ Interval /\ GreenIsTrue /\ n \in Nat
  BY DEF BisectInv, TypeOK
<1>3. /\ high' = Mid - 1 /\ culprit' = Mid /\ runs' = Tick
      /\ seen' = [seen EXCEPT ![Mid] = "red"]
      /\ n' = n /\ red' = red /\ low' = low /\ pc' = pc /\ pc = "search"
  BY DEF ProbeRed, HighAfterRed
<1>4. TypeOK'
  <2>1. seen' \in [1..n' -> Shown]
    BY <1>2, <1>3 DEF TypeOK, Shown
  <2>2. high' \in 0..n' /\ culprit' \in 0..n' /\ runs' \in Nat
    BY <1>1, <1>2, <1>3 DEF TypeOK, Tick
  <2>3. QED BY <1>2, <1>3, <2>1, <2>2 DEF TypeOK
<1>5. Interval'
  <2>1. low \in Int /\ high \in Int
    BY <1>2 DEF TypeOK
  <2>2. low > 1 => seen'[low - 1] = "green"
    BY <1>1, <1>2, <1>3, <2>1 DEF TypeOK, Interval
  <2>3. seen'[Mid] = "red"
    BY <1>1, <1>2, <1>3 DEF TypeOK
  <2>4. runs' # 0
    BY <1>2, <1>3 DEF TypeOK, Tick
  <2>5. QED BY <1>1, <1>2, <1>3, <2>1, <2>2, <2>3, <2>4 DEF Interval
<1>6. GreenIsTrue'
  BY <1>1, <1>2, <1>3 DEF GreenIsTrue, TypeOK
<1>7. QED BY <1>4, <1>5, <1>6 DEF BisectInv

\* A passing run moves low above the prefix it ran on.
LEMMA GreenStep == BisectInv /\ ProbeGreen => BisectInv'
<1> SUFFICES ASSUME BisectInv, ProbeGreen PROVE BisectInv'
  OBVIOUS
<1> USE MaxCommitsAssumption DEF None
<1>1. /\ Mid \in Int /\ low <= Mid /\ Mid <= high /\ Mid \in 1..n
  BY MidInside DEF BisectInv, ProbeGreen
<1>2. TypeOK /\ Interval /\ GreenIsTrue /\ n \in Nat
  BY DEF BisectInv, TypeOK
<1>3. /\ low' = Mid + 1 /\ runs' = Tick /\ ~red[Mid]
      /\ seen' = [seen EXCEPT ![Mid] = "green"]
      /\ n' = n /\ red' = red /\ high' = high /\ pc' = pc /\ pc = "search"
      /\ culprit' = culprit
  BY DEF ProbeGreen, LowAfterGreen
<1>4. TypeOK'
  <2>1. seen' \in [1..n' -> Shown]
    BY <1>2, <1>3 DEF TypeOK, Shown
  <2>2. low' \in 1..(n' + 1) /\ runs' \in Nat
    BY <1>1, <1>2, <1>3 DEF TypeOK, Tick
  <2>3. QED BY <1>2, <1>3, <2>1, <2>2 DEF TypeOK
<1>5. Interval'
  <2>1. low \in Int /\ high \in Int
    BY <1>2 DEF TypeOK
  <2>2. seen'[Mid] = "green"
    BY <1>1, <1>2, <1>3 DEF TypeOK
  <2>3. high < n => seen'[high + 1] = "red"
    BY <1>1, <1>2, <1>3, <2>1 DEF TypeOK, Interval
  <2>4. runs' # 0
    BY <1>2, <1>3 DEF TypeOK, Tick
  <2>5. QED BY <1>1, <1>2, <1>3, <2>1, <2>2, <2>3, <2>4 DEF Interval
<1>6. GreenIsTrue'
  BY <1>1, <1>2, <1>3 DEF GreenIsTrue, TypeOK
<1>7. QED BY <1>4, <1>5, <1>6 DEF BisectInv

\* Every step of bisect preserves the invariant.
LEMMA BisectStep == BisectInv /\ [Next]_vars => BisectInv'
<1> SUFFICES ASSUME BisectInv, [Next]_vars PROVE BisectInv'
  OBVIOUS
<1> USE DEF BisectInv, TypeOK, Interval, GreenIsTrue
<1>1. CASE Begin
  BY <1>1 DEF Begin
<1>2. CASE GiveUp
  BY <1>2 DEF GiveUp
<1>3. CASE Raise
  BY <1>3 DEF Raise
<1>4. CASE ProbeRed
  BY <1>4, RedStep
<1>5. CASE ProbeGreen
  BY <1>5, GreenStep
<1>6. CASE Return
  BY <1>6, MaxCommitsAssumption DEF Return
<1>7. CASE UNCHANGED vars
  BY <1>7 DEF vars
<1>8. QED BY <1>1, <1>2, <1>3, <1>4, <1>5, <1>6, <1>7 DEF Next, Search

\* The interval invariant of the search holds in every reachable state.
THEOREM SearchInvariant == Spec => []BisectInv
<1>1. QED BY BisectInit, BisectStep, PTL DEF Spec

\* The culprit failed and its predecessor passed, whatever the suite does.
THEOREM CulpritIsATurn == Spec => []CulpritTurnsTheBatch
<1>1. BisectInv => CulpritTurnsTheBatch
  <2> SUFFICES ASSUME BisectInv, pc = "done", culprit # None
               PROVE  /\ seen[culprit] = "red"
                      /\ culprit > 1 => seen[culprit - 1] = "green"
    BY DEF CulpritTurnsTheBatch
  <2>1. low = high + 1 /\ high < n /\ culprit = high + 1
    BY MaxCommitsAssumption DEF BisectInv, TypeOK, Interval, None
  <2>2. QED BY <2>1 DEF BisectInv, TypeOK, Interval
<1>2. QED BY <1>1, SearchInvariant, PTL

\* A search that names nobody ended with a passing run on the snapshot.
THEOREM NoneMeansFlake == Spec => []NoneMeansSnapshotPassed
<1>1. BisectInv => NoneMeansSnapshotPassed
  <2> SUFFICES ASSUME BisectInv, pc = "done", culprit = None, runs > 0
               PROVE  seen[n] = "green"
    BY DEF NoneMeansSnapshotPassed
  <2>1. low = high + 1 /\ high = n
    BY MaxCommitsAssumption DEF BisectInv, TypeOK, Interval, None
  <2>2. n > 0
    BY <2>1 DEF BisectInv, TypeOK, Interval
  <2>3. QED BY <2>1, <2>2 DEF BisectInv, TypeOK, Interval
<1>2. QED BY <1>1, SearchInvariant, PTL

\* With an honest suite and a batch that stays broken, bisect returns the
\* smallest failing k, as its docstring says.
THEOREM FirstFailing == Spec => []FindsFirstFailing
<1>1. BisectInv => FindsFirstFailing
  <2> SUFFICES ASSUME BisectInv, pc = "done", runs > 0, Honest, StaysBroken
               PROVE  IF culprit = None THEN \A k \in 1..n : ~red[k]
                      ELSE red[culprit] /\ \A k \in 1..(culprit - 1) : ~red[k]
    BY DEF FindsFirstFailing
  <2>0. n \in Nat /\ low = high + 1 /\ low \in Nat /\ high \in Nat
    BY MaxCommitsAssumption DEF BisectInv, TypeOK, Interval
  <2>1. low > 1 => ~red[low - 1] /\ low - 1 \in 1..n
    BY <2>0 DEF BisectInv, TypeOK, Interval, GreenIsTrue
  <2>2. \A k \in 1..(low - 1) : ~red[k]
    BY <2>0, <2>1 DEF StaysBroken
  <2>3. CASE culprit = None
    <3>1. high = n
      BY <2>0, <2>3 DEF BisectInv, TypeOK, Interval, None
    <3>2. QED BY <2>0, <2>2, <2>3, <3>1
  <2>4. CASE culprit # None
    <3>1. culprit = low /\ seen[culprit] = "red" /\ culprit \in 1..n
      BY <2>0, <2>4 DEF BisectInv, TypeOK, Interval, None
    <3>2. QED BY <2>0, <2>2, <2>4, <3>1 DEF Honest
  <2>5. QED BY <2>3, <2>4
<1>2. QED BY <1>1, SearchInvariant, PTL

\* Each run of the suite at least halves what is left to search, so a search
\* of n commits ends after about log2(n) of them.  This is the measure behind
\* the fairness of Search: nothing it does can be repeated for ever.
THEOREM SearchHalves ==
    Spec => [][ProbeRed \/ ProbeGreen =>
                 2 * (high' - low' + 1) <= high - low + 1]_vars
<1>1. BisectInv /\ [Next]_vars
        => [ProbeRed \/ ProbeGreen =>
              2 * (high' - low' + 1) <= high - low + 1]_vars
  <2> SUFFICES ASSUME BisectInv, ProbeRed \/ ProbeGreen
               PROVE  2 * (high' - low' + 1) <= high - low + 1
    OBVIOUS
  <2>1. low \in Int /\ high \in Int /\ low <= high
    BY MaxCommitsAssumption DEF BisectInv, TypeOK, ProbeRed, ProbeGreen
  <2>2. /\ Mid \in Int
        /\ 2 * (Mid - low) <= high - low + 1
        /\ 2 * (high - Mid) <= high - low + 1
    BY <2>1 DEF Mid
  <2>3. CASE ProbeRed
    <3>1. high' - low' + 1 = Mid - low
      BY <2>1, <2>2, <2>3 DEF ProbeRed, HighAfterRed
    <3>2. QED BY <2>2, <3>1
  <2>4. CASE ProbeGreen
    <3>1. high' - low' + 1 = high - Mid
      BY <2>1, <2>2, <2>4 DEF ProbeGreen, LowAfterGreen
    <3>2. QED BY <2>2, <3>1
  <2>5. QED BY <2>3, <2>4
<1>2. QED BY <1>1, BisectInit, BisectStep, PTL DEF Spec

-----------------------------------------------------------------------------
(* Numbers, and histories as sequences                                      *)

\* A non-empty set of naturals has a least member: what stands in for
\* induction in this module.
LEMMA LeastNatural ==
    ASSUME NEW T, T \subseteq Nat, T # {}
    PROVE  \E x \in T : \A y \in T : x <= y
<1> DEFINE R == OpToRel(<, Nat)
<1>1. IsWellFoundedOn(R, Nat)
  BY NatLessThanWellFounded
<1>2. \E x \in T : \A y \in T : ~ (<<y, x>> \in R)
  BY <1>1, WFMin
<1>3. \A x, y \in Nat : y < x => <<y, x>> \in R
  BY DEF OpToRel
<1> HIDE DEF R
<1>4. PICK x \in T : \A y \in T : ~ (<<y, x>> \in R)
  BY <1>2
<1>5. \A y \in T : ~(y < x)
  BY <1>3, <1>4
<1>6. QED BY <1>5

\* A bounded one has a greatest.
LEMMA GreatestNatural ==
    ASSUME NEW T, T \subseteq Nat, T # {},
           NEW bound \in Nat, \A x \in T : x <= bound
    PROVE  /\ Max(T) \in T
           /\ \A y \in T : y <= Max(T)
<1> DEFINE U == {bound - x : x \in T}
<1>1. U \subseteq Nat
  <2>1. \A x \in T : x \in Nat /\ x <= bound
    OBVIOUS
  <2>2. QED BY <2>1
<1>2. U # {}
  OBVIOUS
<1> HIDE DEF U
<1>3. PICK u \in U : \A y \in U : u <= y
  BY <1>1, <1>2, LeastNatural
<1>4. PICK x \in T : u = bound - x
  BY <1>3 DEF U
<1>5. \A y \in T : bound - x <= bound - y
  BY <1>3, <1>4 DEF U
<1>6. \A y \in T : x >= y
  BY <1>5
<1>7. Max(T) \in T /\ \A y \in T : Max(T) >= y
  BY <1>6 DEF Max
<1>8. QED BY <1>7

\* Ancestry, element by element.
LEMMA PrefixElements ==
    ASSUME NEW S, NEW a \in Seq(S), NEW b \in Seq(S)
    PROVE  IsPrefix(a, b) <=>
             Len(a) <= Len(b) /\ \A i \in 1..Len(a) : a[i] = b[i]
  BY DEF IsPrefix

\* The root is in every history.
LEMMA EmptyPrefix ==
    ASSUME NEW S, NEW a \in Seq(S), NEW b \in Seq(S), Len(a) = 0
    PROVE  IsPrefix(a, b)
<1>1. Len(b) \in Nat /\ Len(a) <= Len(b)
  OBVIOUS
<1>2. \A i \in 1..Len(a) : a[i] = b[i]
  OBVIOUS
<1>3. QED BY <1>1, <1>2, PrefixElements

\* A history is its own prefix.
LEMMA PrefixReflexive ==
    ASSUME NEW S, NEW a \in Seq(S)
    PROVE  IsPrefix(a, a)
  BY DEF IsPrefix

\* Ancestry is transitive.
LEMMA PrefixTransitive ==
    ASSUME NEW S, NEW a \in Seq(S), NEW b \in Seq(S), NEW c \in Seq(S),
           IsPrefix(a, b), IsPrefix(b, c)
    PROVE  IsPrefix(a, c)
  BY PrefixElements

\* Two commits of one history: one is the other's ancestor.
LEMMA PrefixComparable ==
    ASSUME NEW S, NEW a \in Seq(S), NEW b \in Seq(S), NEW c \in Seq(S),
           IsPrefix(a, c), IsPrefix(b, c), Len(a) <= Len(b)
    PROVE  IsPrefix(a, b)
  BY PrefixElements

\* A commit's place in a history determines it.
LEMMA PrefixSameLength ==
    ASSUME NEW S, NEW a \in Seq(S), NEW b \in Seq(S),
           IsPrefix(a, b), Len(a) = Len(b)
    PROVE  a = b
  BY PrefixElements

\* A commit has its ancestors' changes.
LEMMA PrefixContents ==
    ASSUME NEW S, NEW a \in Seq(S), NEW b \in Seq(S), IsPrefix(a, b)
    PROVE  ToSet(a) \subseteq ToSet(b)
  BY PrefixElements DEF ToSet

\* A commit on top of another is its descendant, with one change more.
LEMMA PrefixAppend ==
    ASSUME NEW S, NEW a \in Seq(S), NEW x \in S
    PROVE  /\ Append(a, x) \in Seq(S)
           /\ IsPrefix(a, Append(a, x))
           /\ ToSet(Append(a, x)) = ToSet(a) \cup {x}
<1> DEFINE c == Append(a, x)
<1>1. c \in Seq(S) /\ Len(c) = Len(a) + 1
  OBVIOUS
<1>2. \A i \in 1..Len(a) : c[i] = a[i]
  OBVIOUS
<1>3. c[Len(a) + 1] = x
  OBVIOUS
<1> HIDE DEF c
<1>4. IsPrefix(a, c)
  BY <1>1, <1>2, PrefixElements
<1>5. ToSet(c) = ToSet(a) \cup {x}
  BY <1>1, <1>2, <1>3 DEF ToSet
<1> USE DEF c
<1>6. QED BY <1>1, <1>4, <1>5

\* The beginnings of a history.
LEMMA Beginning ==
    ASSUME NEW S, NEW a \in Seq(S), NEW i \in 0..Len(a)
    PROVE  /\ SubSeq(a, 1, i) \in Seq(S)
           /\ Len(SubSeq(a, 1, i)) = i
           /\ \A j \in 1..i : SubSeq(a, 1, i)[j] = a[j]
           /\ IsPrefix(SubSeq(a, 1, i), a)
<1> DEFINE c == SubSeq(a, 1, i)
<1>1. c \in Seq(S) /\ Len(c) = i /\ \A j \in 1..i : c[j] = a[j]
  OBVIOUS
<1> HIDE DEF c
<1>2. IsPrefix(c, a)
  BY <1>1, PrefixElements
<1> USE DEF c
<1>3. QED BY <1>1, <1>2

\* An ancestor is the beginning of a history.
LEMMA PrefixIsBeginning ==
    ASSUME NEW S, NEW a \in Seq(S), NEW b \in Seq(S), IsPrefix(a, b)
    PROVE  a = SubSeq(b, 1, Len(a)) /\ Len(a) \in 0..Len(b)
<1>1. Len(a) \in 0..Len(b)
  BY PrefixElements
<1> DEFINE c == SubSeq(b, 1, Len(a))
<1>2. c \in Seq(S) /\ Len(c) = Len(a) /\ \A j \in 1..Len(a) : c[j] = b[j]
  BY <1>1, Beginning
<1> HIDE DEF c
<1>3. IsPrefix(a, c)
  BY <1>2, PrefixElements
<1>4. a = c
  BY <1>2, <1>3, PrefixSameLength
<1> USE DEF c
<1>5. QED BY <1>1, <1>4

\* The fork of two histories is the longest one they share.
LEMMA ForkShared ==
    ASSUME NEW a \in Commit, NEW b \in Commit
    PROVE  /\ Fork(a, b) \in Commit
           /\ IsPrefix(Fork(a, b), a)
           /\ IsPrefix(Fork(a, b), b)
           /\ \A c \in Commit :
                IsPrefix(c, a) /\ IsPrefix(c, b) => IsPrefix(c, Fork(a, b))
<1> DEFINE T == {i \in 0..Len(a) : IsPrefix(SubSeq(a, 1, i), b)}
<1> USE DEF Commit
<1>1. T \subseteq Nat /\ \A i \in T : i <= Len(a)
  OBVIOUS
<1>2. 0 \in T
  <2> DEFINE c == SubSeq(a, 1, 0)
  <2>1. c \in Seq(Change) /\ Len(c) = 0
    BY Beginning
  <2> HIDE DEF c
  <2>2. IsPrefix(c, b)
    BY <2>1, EmptyPrefix
  <2> USE DEF c
  <2>3. QED BY <2>2
<1>3. Max(T) \in T /\ \A i \in T : i <= Max(T)
  <2> HIDE DEF T
  <2>1. Len(a) \in Nat
    OBVIOUS
  <2>2. QED BY <1>1, <1>2, <2>1, GreatestNatural
<1>4. Fork(a, b) = SubSeq(a, 1, Max(T))
  BY DEF Fork
<1> DEFINE m == Max(T)
<1>5. m \in 0..Len(a) /\ IsPrefix(SubSeq(a, 1, m), b)
  BY <1>3
<1>6. \A c \in Commit : IsPrefix(c, a) /\ IsPrefix(c, b) => Len(c) <= m
  <2> SUFFICES ASSUME NEW c \in Commit, IsPrefix(c, a), IsPrefix(c, b)
               PROVE  Len(c) \in T
    BY <1>3
  <2>1. QED BY PrefixIsBeginning
<1> HIDE DEF m, T
<1>7. /\ Fork(a, b) \in Commit
      /\ Len(Fork(a, b)) = m
      /\ IsPrefix(Fork(a, b), a)
      /\ IsPrefix(Fork(a, b), b)
  BY <1>4, <1>5, Beginning DEF m
<1>8. \A c \in Commit :
        IsPrefix(c, a) /\ IsPrefix(c, b) => IsPrefix(c, Fork(a, b))
  BY <1>6, <1>7, PrefixComparable
<1>9. QED BY <1>7, <1>8

-----------------------------------------------------------------------------
(* The cherry-picks of a restack                                            *)

Pick == [change : Change, owners : SUBSET Task]

\* What one cherry-pick makes of a tip.
Grown(tip, change, bad) ==
    IF change \in bad \cup ToSet(tip) THEN tip ELSE Append(tip, change)

\* f holds the tips after 0, 1, ..., m picks.
TipsOf(f, bottom, picks, bad, m) ==
    /\ f \in [0..m -> Commit]
    /\ f[0] = bottom
    /\ \A i \in 1..m : f[i] = Grown(f[i - 1], picks[i].change, bad)

\* A cherry-pick makes a commit of a commit.
LEMMA GrownCommit ==
    ASSUME NEW tip \in Commit, NEW change \in Change, NEW bad
    PROVE  /\ Grown(tip, change, bad) \in Commit
           /\ IsPrefix(tip, Grown(tip, change, bad))
           /\ ToSet(Grown(tip, change, bad)) \subseteq ToSet(tip) \cup {change}
           /\ change \notin bad => change \in ToSet(Grown(tip, change, bad))
<1>1. CASE change \in bad \cup ToSet(tip)
  BY <1>1, PrefixReflexive DEF Grown, Commit
<1>2. CASE change \notin bad \cup ToSet(tip)
  <2>1. Grown(tip, change, bad) = Append(tip, change)
    BY <1>2 DEF Grown
  <2>2. QED BY <2>1, PrefixAppend DEF Commit
<1>3. QED BY <1>1, <1>2

\* The tips exist, for any number of picks.
LEMMA TipsExist ==
    ASSUME NEW bottom \in Commit, NEW picks \in Seq(Pick), NEW bad,
           NEW m \in 0..Len(picks)
    PROVE  \E f : TipsOf(f, bottom, picks, bad, m)
<1> DEFINE T == {i \in 0..Len(picks) :
                    ~ \E f : TipsOf(f, bottom, picks, bad, i)}
<1>1. T = {}
  <2>1. SUFFICES ASSUME T # {} PROVE FALSE
    OBVIOUS
  <2>2. T \subseteq Nat
    OBVIOUS
  <2>3. PICK i \in T : \A j \in T : i <= j
    <3> HIDE DEF T
    <3>1. QED BY <2>1, <2>2, LeastNatural
  <2>4. CASE i = 0
    <3> DEFINE f == [j \in 0..0 |-> bottom]
    <3>1. TipsOf(f, bottom, picks, bad, 0)
      BY DEF TipsOf
    <3>2. QED BY <2>4, <3>1
  <2>5. CASE i # 0
    <3>1. i - 1 \in 0..Len(picks) /\ i - 1 \notin T /\ i \in 1..Len(picks)
      BY <2>3, <2>5
    <3>2. PICK f : TipsOf(f, bottom, picks, bad, i - 1)
      BY <3>1
    <3> DEFINE next == Grown(f[i - 1], picks[i].change, bad)
               h == [j \in 0..i |-> IF j = i THEN next ELSE f[j]]
    <3>3. picks[i] \in Pick
      BY <3>1
    <3>4. f[i - 1] \in Commit
      BY <3>1, <3>2 DEF TipsOf
    <3>5. next \in Commit
      BY <3>3, <3>4, GrownCommit DEF Pick
    <3> HIDE DEF next
    <3>6. h \in [0..i -> Commit]
      BY <3>1, <3>2, <3>5 DEF TipsOf
    <3>7. h[0] = bottom
      BY <2>5, <3>1, <3>2 DEF TipsOf
    <3>8. \A j \in 1..i : h[j] = Grown(h[j - 1], picks[j].change, bad)
      <4>1. TAKE j \in 1..i
      <4>2. CASE j = i
        BY <3>1, <4>2 DEF next
      <4>3. CASE j # i
        <5>1. j \in 1..(i - 1) /\ h[j] = f[j] /\ h[j - 1] = f[j - 1]
          BY <3>1, <4>3
        <5>2. QED BY <3>2, <5>1 DEF TipsOf
      <4>4. QED BY <4>2, <4>3
    <3>9. TipsOf(h, bottom, picks, bad, i)
      BY <3>6, <3>7, <3>8 DEF TipsOf
    <3>10. QED BY <2>3, <3>9
  <2>6. QED BY <2>4, <2>5
<1>2. QED BY <1>1

\* Picked is the last of them.
LEMMA PickedTips ==
    ASSUME NEW bottom \in Commit, NEW picks \in Seq(Pick), NEW bad
    PROVE  \E f : /\ TipsOf(f, bottom, picks, bad, Len(picks))
                  /\ Picked(bottom, picks, bad) = f[Len(picks)]
<1> DEFINE N == Len(picks)
           def(f) == [i \in 0..N |->
                IF i = 0 THEN bottom
                ELSE IF picks[i].change \in bad \cup ToSet(f[i - 1])
                THEN f[i - 1]
                ELSE Append(f[i - 1], picks[i].change)]
           h == CHOOSE f : f = def(f)
<1>1. N \in Nat
  OBVIOUS
<1>2. Picked(bottom, picks, bad) = h[N]
  BY DEF Picked
<1>3. PICK f : TipsOf(f, bottom, picks, bad, N)
  BY <1>1, TipsExist
<1>4. f = def(f)
  <2>1. ASSUME NEW i \in 0..N PROVE f[i] = def(f)[i]
    <3>1. CASE i = 0
      BY <1>3, <3>1 DEF TipsOf
    <3>2. CASE i # 0
      <4>1. i \in 1..N
        BY <1>1, <3>2
      <4>2. f[i] = Grown(f[i - 1], picks[i].change, bad)
        BY <1>3, <4>1 DEF TipsOf
      <4>3. QED BY <3>2, <4>2 DEF Grown
    <3>3. QED BY <3>1, <3>2
  <2>2. QED BY <1>3, <2>1 DEF TipsOf
<1>5. h = def(h)
  <2> HIDE DEF def
  <2>1. QED BY <1>4
<1> HIDE DEF h
<1>6. h[0] = bottom
  BY <1>1, <1>5
<1>7. \A i \in 1..N : h[i] = Grown(h[i - 1], picks[i].change, bad)
  <2>1. TAKE i \in 1..N
  <2>2. i \in 0..N /\ i # 0
    BY <1>1
  <2>3. h[i] = def(h)[i]
    BY <1>5
  <2>4. QED BY <2>2, <2>3 DEF Grown
<1> DEFINE T == {i \in 0..N : h[i] # f[i]}
<1>8. T = {}
  <2>1. SUFFICES ASSUME T # {} PROVE FALSE
    OBVIOUS
  <2>2. T \subseteq Nat
    BY <1>1
  <2>3. PICK i \in T : \A j \in T : i <= j
    <3> HIDE DEF T
    <3>1. QED BY <2>1, <2>2, LeastNatural
  <2>4. i # 0
    BY <1>3, <1>6 DEF TipsOf
  <2>5. i - 1 \in 0..N /\ i \in 1..N /\ h[i - 1] = f[i - 1]
    BY <1>1, <2>3, <2>4
  <2>6. h[i] = f[i]
    BY <1>3, <1>7, <2>5 DEF TipsOf
  <2>7. QED BY <2>6
<1>9. h[N] = f[N]
  BY <1>1, <1>8
<1>10. QED BY <1>2, <1>3, <1>9

\* What one more cherry-pick makes of the tips before it.
LEMMA TipsStep ==
    ASSUME NEW bottom \in Commit, NEW picks \in Seq(Pick), NEW bad, NEW f,
           TipsOf(f, bottom, picks, bad, Len(picks)),
           NEW i \in 1..Len(picks)
    PROVE  /\ f[i] = Grown(f[i - 1], picks[i].change, bad)
           /\ f[i] \in Commit /\ f[i - 1] \in Commit
           /\ picks[i].change \in Change
<1>1. picks[i] \in Pick
  OBVIOUS
<1>2. picks[i].change \in Change
  BY <1>1 DEF Pick
<1>3. i \in 0..Len(picks) /\ i - 1 \in 0..Len(picks)
  OBVIOUS
<1>4. QED BY <1>2, <1>3 DEF TipsOf

\* Picks only add to a tip.
LEMMA TipsGrow ==
    ASSUME NEW bottom \in Commit, NEW picks \in Seq(Pick), NEW bad, NEW f,
           TipsOf(f, bottom, picks, bad, Len(picks)),
           NEW i \in 0..Len(picks), NEW j \in i..Len(picks)
    PROVE  IsPrefix(f[i], f[j])
<1> DEFINE T == {x \in i..Len(picks) : ~IsPrefix(f[i], f[x])}
<1>1. T = {}
  <2>1. SUFFICES ASSUME T # {} PROVE FALSE
    OBVIOUS
  <2>2. T \subseteq Nat
    OBVIOUS
  <2>3. PICK x \in T : \A y \in T : x <= y
    <3> HIDE DEF T
    <3>1. QED BY <2>1, <2>2, LeastNatural
  <2>4. x # i
    <3>1. f[i] \in Seq(Change)
      BY DEF TipsOf, Commit
    <3>2. QED BY <2>3, <3>1, PrefixReflexive
  <2>5. x - 1 \in i..Len(picks) /\ x \in 1..Len(picks) /\ x - 1 \in 0..Len(picks)
    BY <2>3, <2>4
  <2>6. IsPrefix(f[i], f[x - 1])
    BY <2>3, <2>5
  <2>7. /\ f[x] = Grown(f[x - 1], picks[x].change, bad)
        /\ f[i] \in Commit /\ f[x - 1] \in Commit /\ picks[x].change \in Change
    BY <2>5, TipsStep DEF TipsOf
  <2>8. f[x] \in Commit /\ IsPrefix(f[x - 1], f[x])
    BY <2>7, GrownCommit
  <2>9. IsPrefix(f[i], f[x])
    BY <2>6, <2>7, <2>8, PrefixTransitive DEF Commit
  <2>10. QED BY <2>3, <2>9
<1>2. QED BY <1>1

\* What is left of the changes picked so far is in the tip, unless it
\* conflicts.
LEMMA TipsHold ==
    ASSUME NEW bottom \in Commit, NEW picks \in Seq(Pick), NEW bad, NEW f,
           TipsOf(f, bottom, picks, bad, Len(picks)),
           NEW i \in 1..Len(picks), NEW j \in i..Len(picks)
    PROVE  picks[i].change \in bad \cup ToSet(f[j])
<1>1. /\ i \in 0..Len(picks) /\ i - 1 \in 0..Len(picks)
      /\ j \in 0..Len(picks)
  OBVIOUS
<1>2. /\ f[i] = Grown(f[i - 1], picks[i].change, bad)
      /\ f[i] \in Commit /\ f[i - 1] \in Commit /\ f[j] \in Commit
      /\ picks[i].change \in Change
  BY <1>1, TipsStep DEF TipsOf
<1>3. picks[i].change \in bad \cup ToSet(f[i])
  BY <1>2, GrownCommit
<1>4. IsPrefix(f[i], f[j])
  BY <1>1, TipsGrow
<1>5. ToSet(f[i]) \subseteq ToSet(f[j])
  BY <1>2, <1>4, PrefixContents DEF Commit
<1>6. QED BY <1>3, <1>5

\* A tip holds nothing but the bottom and picks that did not fail.
LEMMA TipsFrom ==
    ASSUME NEW bottom \in Commit, NEW picks \in Seq(Pick), NEW bad, NEW f,
           TipsOf(f, bottom, picks, bad, Len(picks)),
           NEW i \in 0..Len(picks)
    PROVE  \A c \in ToSet(f[i]) :
             \/ c \in ToSet(bottom)
             \/ \E j \in 1..i : /\ ~PickFails(picks, j, bottom, bad)
                               /\ picks[j].change = c
<1> DEFINE From1(x) == \A c \in ToSet(f[x]) :
             \/ c \in ToSet(bottom)
             \/ \E j \in 1..x : /\ ~PickFails(picks, j, bottom, bad)
                               /\ picks[j].change = c
           T == {x \in 0..Len(picks) : ~From1(x)}
<1>1. T = {}
  <2>1. SUFFICES ASSUME T # {} PROVE FALSE
    OBVIOUS
  <2>2. T \subseteq Nat
    OBVIOUS
  <2>3. PICK x \in T : \A y \in T : x <= y
    <3> HIDE DEF T
    <3>1. QED BY <2>1, <2>2, LeastNatural
  <2>4. x # 0
    BY <2>3 DEF TipsOf
  <2>5. x - 1 \in 0..Len(picks) /\ x \in 1..Len(picks) /\ From1(x - 1)
    BY <2>3, <2>4
  <2>6. /\ f[x] = Grown(f[x - 1], picks[x].change, bad)
        /\ f[x - 1] \in Commit /\ picks[x].change \in Change
    BY <2>5, TipsStep
  <2>7. CASE picks[x].change \in bad \cup ToSet(f[x - 1])
    <3>1. f[x] = f[x - 1]
      BY <2>6, <2>7 DEF Grown
    <3>2. From1(x)
      BY <2>5, <3>1
    <3>3. QED BY <2>3, <3>2
  <2>8. CASE picks[x].change \notin bad \cup ToSet(f[x - 1])
    <3>1. ToSet(f[x]) \subseteq ToSet(f[x - 1]) \cup {picks[x].change}
      BY <2>6, GrownCommit
    <3>2. picks[x].change \notin ToSet(bottom)
      <4>1. IsPrefix(f[0], f[x - 1])
        BY <2>5, TipsGrow
      <4>2. f[0] = bottom
        BY DEF TipsOf
      <4>3. ToSet(bottom) \subseteq ToSet(f[x - 1])
        BY <2>6, <4>1, <4>2, PrefixContents DEF Commit
      <4>4. QED BY <2>8, <4>3
    <3>3. ~ \E j \in 1..(x - 1) : picks[j].change = picks[x].change
      <4>1. SUFFICES ASSUME NEW j \in 1..(x - 1),
                            picks[j].change = picks[x].change
                     PROVE  FALSE
        OBVIOUS
      <4>2. j \in 1..Len(picks) /\ x - 1 \in j..Len(picks)
        BY <2>5
      <4>3. QED BY <2>8, <4>1, <4>2, TipsHold
    <3>4. ~PickFails(picks, x, bottom, bad)
      BY <2>8, <3>2, <3>3 DEF PickFails
    <3>5. From1(x)
      BY <2>5, <3>1, <3>4
    <3>6. QED BY <2>3, <3>5
  <2>9. QED BY <2>7, <2>8
<1>2. QED BY <1>1

\* What a restack leaves: the commits below the culprit, and above them the
\* changes that could be picked, no others.
LEMMA PickedContents ==
    ASSUME NEW bottom \in Commit, NEW picks \in Seq(Pick), NEW bad
    PROVE  /\ Picked(bottom, picks, bad) \in Commit
           /\ IsPrefix(bottom, Picked(bottom, picks, bad))
           /\ \A i \in 1..Len(picks) :
                ~PickFails(picks, i, bottom, bad) =>
                    picks[i].change \in ToSet(Picked(bottom, picks, bad))
           /\ \A c \in ToSet(Picked(bottom, picks, bad)) :
                \/ c \in ToSet(bottom)
                \/ \E j \in 1..Len(picks) :
                      /\ ~PickFails(picks, j, bottom, bad)
                      /\ picks[j].change = c
<1>1. PICK f : /\ TipsOf(f, bottom, picks, bad, Len(picks))
               /\ Picked(bottom, picks, bad) = f[Len(picks)]
  BY PickedTips
<1> DEFINE m == Len(picks)
<1>2. m \in Nat /\ 0 \in 0..m /\ m \in 0..m
  OBVIOUS
<1>3. f[0] = bottom /\ f[m] \in Commit
  BY <1>1, <1>2 DEF TipsOf
<1>4. IsPrefix(f[0], f[m])
  BY <1>1, <1>2, TipsGrow
<1>5. \A i \in 1..m : ~PickFails(picks, i, bottom, bad) =>
                          picks[i].change \in ToSet(f[m])
  <2>1. TAKE i \in 1..m
  <2>2. m \in i..m
    BY <1>2
  <2>3. picks[i].change \in bad \cup ToSet(f[m])
    BY <1>1, <2>2, TipsHold
  <2>4. QED BY <2>3 DEF PickFails
<1>6. \A c \in ToSet(f[m]) :
        \/ c \in ToSet(bottom)
        \/ \E j \in 1..m : /\ ~PickFails(picks, j, bottom, bad)
                          /\ picks[j].change = c
  BY <1>1, <1>2, TipsFrom
<1>7. QED BY <1>1, <1>3, <1>4, <1>5, <1>6

-----------------------------------------------------------------------------
(* Types                                                                    *)

\* Finitely many naturals have a bound.
LEMMA FiniteBound ==
    ASSUME NEW S, IsFiniteSet(S), NEW g \in [S -> Nat]
    PROVE  \E b \in Nat : \A x \in S : g[x] <= b
<1> DEFINE Bounded(U) == \E b \in Nat : \A x \in U : g[x] <= b
           T == {m \in Nat : \E U \in SUBSET S :
                    IsFiniteSet(U) /\ Cardinality(U) = m /\ ~Bounded(U)}
<1>1. T = {}
  <2>1. SUFFICES ASSUME T # {} PROVE FALSE
    OBVIOUS
  <2>2. T \subseteq Nat
    OBVIOUS
  <2>3. PICK m \in T : \A y \in T : m <= y
    <3> HIDE DEF T
    <3>1. QED BY <2>1, <2>2, LeastNatural
  <2>4. PICK U \in SUBSET S :
              IsFiniteSet(U) /\ Cardinality(U) = m /\ ~Bounded(U)
    BY <2>3
  <2>5. U # {}
    <3>1. Bounded({})
      OBVIOUS
    <3>2. QED BY <2>4, <3>1
  <2>6. PICK x \in U : TRUE
    BY <2>5
  <2>7. /\ IsFiniteSet(U \ {x})
        /\ Cardinality(U \ {x}) = m - 1
        /\ m \in Nat /\ m - 1 \in Nat
    <3>1. IsFiniteSet(U \ {x}) /\ Cardinality(U \ {x}) = Cardinality(U) - 1
      BY <2>4, <2>6, FS_RemoveElement
    <3>2. Cardinality(U \ {x}) \in Nat
      BY <3>1, FS_CardinalityType
    <3>3. QED BY <2>4, <3>1, <3>2
  <2>8. Bounded(U \ {x})
    BY <2>3, <2>7
  <2>9. PICK b \in Nat : \A y \in U \ {x} : g[y] <= b
    BY <2>8
  <2>10. g[x] \in Nat /\ \A y \in U : g[y] \in Nat
    BY <2>6
  <2>11. \A y \in U : g[y] <= b + g[x]
    BY <2>9, <2>10
  <2>12. b + g[x] \in Nat
    BY <2>9, <2>10
  <2>13. QED BY <2>4, <2>11, <2>12
<1>2. IsFiniteSet(S) /\ Cardinality(S) \in Nat
  BY FS_CardinalityType
<1>3. Bounded(S)
  BY <1>1, <1>2
<1>4. QED BY <1>3

\* A new marker's place is a natural number.
LEMMA NextPositionNat == TrainTypeOK => NextPosition \in Nat
<1> SUFFICES ASSUME TrainTypeOK PROVE NextPosition \in Nat
  OBVIOUS
<1>1. position \in [Task -> Nat]
  BY DEF TrainTypeOK
<1>2. PICK b \in Nat : \A t \in Task : position[t] <= b
  BY <1>1, FiniteBound, TrainAssumption
<1> DEFINE taken == {position[t] : t \in {u \in Task : marker[u] # Nil}} \cup {0}
<1>3. taken \subseteq Nat /\ taken # {} /\ \A x \in taken : x <= b
  BY <1>1, <1>2
<1>4. NextPosition = 1 + Max(taken)
  BY DEF NextPosition
<1> HIDE DEF taken
<1>5. Max(taken) \in taken
  BY <1>2, <1>3, GreatestNatural
<1>6. Max(taken) \in Nat
  BY <1>3, <1>5
<1>7. QED BY <1>4, <1>6

\* An owner is a task, and a restack replays commits of tasks or others.
LEMMA OwnerTask ==
    ASSUME NEW c, NEW i
    PROVE  Owner(c, i) \in SUBSET Task
  BY DEF Owner, ByMarker, ByPlace

\* What Replay lists: the changes of the snapshot behind the culprit.
LEMMA ReplayPicks ==
    ASSUME NEW base \in Commit, NEW tip \in Commit, IsPrefix(base, tip),
           NEW k \in 1..Count(base, tip)
    PROVE  /\ Replay(base, tip, k) \in Seq(Pick)
           /\ Len(Replay(base, tip, k)) = Count(base, tip) - k
           /\ \A j \in 1..(Count(base, tip) - k) :
                Replay(base, tip, k)[j] =
                    [change |-> tip[Len(base) + k + j],
                     owners |-> Owner(Staged(base, tip, k + j), k + j)]
<1> DEFINE m == Count(base, tip) - k
           s == Replay(base, tip, k)
<1>1. Len(base) \in Nat /\ Len(tip) \in Nat /\ Len(base) <= Len(tip)
  BY PrefixElements DEF Commit
<1>2. m \in Nat /\ m = Count(base, tip) + 1 - From(k) /\ k \in Nat
  BY <1>1 DEF Count, From
<1>3. ASSUME NEW j \in 1..m
      PROVE  /\ [change |-> tip[Len(base) + k + j],
                 owners |-> Owner(Staged(base, tip, k + j), k + j)] \in Pick
             /\ From(k) + j - 1 = k + j
             /\ Len(base) + (k + j) = Len(base) + k + j
  <2>1. Len(base) + k + j \in 1..Len(tip)
    BY <1>1, <1>2 DEF Count
  <2>2. tip[Len(base) + k + j] \in Change
    BY <2>1 DEF Commit
  <2>3. From(k) + j - 1 = k + j /\ Len(base) + (k + j) = Len(base) + k + j
    BY <1>1, <1>2 DEF From
  <2>4. QED BY <2>2, <2>3, OwnerTask DEF Pick
<1>4. s = [j \in 1..m |->
              [change |-> tip[Len(base) + k + j],
               owners |-> Owner(Staged(base, tip, k + j), k + j)]]
  BY <1>2, <1>3 DEF Replay
<1> HIDE DEF s, m
<1>5. s \in [1..m -> Pick]
  BY <1>3, <1>4
<1>6. s \in Seq(Pick) /\ Len(s) = m
  BY <1>2, <1>5
<1>7. QED BY <1>4, <1>6 DEF s, m

\* What Later lists: the changes staged after the snapshot.
LEMMA LaterPicks ==
    ASSUME NEW snapshot \in Commit, NEW tip \in Commit
    PROVE  /\ Later(snapshot, tip) \in Seq(Pick)
           /\ Fork(snapshot, tip) \in Commit
           /\ Len(Later(snapshot, tip)) = Len(tip) - Len(Fork(snapshot, tip))
           /\ \A i \in 1..(Len(tip) - Len(Fork(snapshot, tip))) :
                Later(snapshot, tip)[i] =
                    [change |-> tip[Len(Fork(snapshot, tip)) + i],
                     owners |-> ByMarker(SubSeq(tip, 1,
                                          Len(Fork(snapshot, tip)) + i))]
<1> DEFINE base == Fork(snapshot, tip)
           m == Len(tip) - Len(base)
           s == Later(snapshot, tip)
<1>1. base \in Commit /\ IsPrefix(base, tip)
  BY ForkShared
<1>2. Len(base) \in Nat /\ Len(tip) \in Nat /\ Len(base) <= Len(tip)
  BY <1>1, PrefixElements DEF Commit
<1>3. m \in Nat /\ m = Count(base, tip)
  BY <1>2 DEF Count
<1>4. s = [i \in 1..m |->
              [change |-> tip[Len(base) + i],
               owners |-> ByMarker(SubSeq(tip, 1, Len(base) + i))]]
  BY <1>3 DEF Later, Staged
<1>5. ASSUME NEW i \in 1..m
      PROVE  [change |-> tip[Len(base) + i],
              owners |-> ByMarker(SubSeq(tip, 1, Len(base) + i))] \in Pick
  <2>1. Len(base) + i \in 1..Len(tip)
    BY <1>2
  <2>2. tip[Len(base) + i] \in Change
    BY <2>1 DEF Commit
  <2>3. QED BY <2>2 DEF Pick, ByMarker
<1> HIDE DEF s, m, base
<1>6. s \in [1..m -> Pick]
  BY <1>4, <1>5
<1>7. s \in Seq(Pick) /\ Len(s) = m
  BY <1>3, <1>6
<1>8. QED BY <1>1, <1>4, <1>7 DEF s, m, base

-----------------------------------------------------------------------------
(* The restack of an ejection                                               *)

\* What an ejection cherry-picks.
Replayed(base, snapshot, k, tip) ==
    Replay(base, snapshot, k) \o Later(snapshot, tip)

\* The elements of a concatenation.
LEMMA Concatenation ==
    ASSUME NEW S, NEW a \in Seq(S), NEW b \in Seq(S)
    PROVE  /\ a \o b \in Seq(S)
           /\ Len(a \o b) = Len(a) + Len(b)
           /\ \A i \in 1..Len(a) : (a \o b)[i] = a[i]
           /\ \A i \in (Len(a) + 1)..(Len(a) + Len(b)) :
                (a \o b)[i] = b[i - Len(a)]
  OBVIOUS

\* What an ejection cherry-picks, by index.
LEMMA ReplayedPicks ==
    ASSUME NEW base \in Commit, NEW snapshot \in Commit, NEW tip \in Commit,
           IsPrefix(base, snapshot), NEW k \in 1..Count(base, snapshot),
           NEW m, m = Count(base, snapshot) - k,
           NEW fork, fork = Fork(snapshot, tip),
           NEW picks, picks = Replayed(base, snapshot, k, tip)
    PROVE  /\ m \in Nat /\ fork \in Commit
           /\ Len(tip) - Len(fork) \in Nat
           /\ picks \in Seq(Pick)
           /\ Len(picks) = m + (Len(tip) - Len(fork))
           /\ \A i \in 1..Len(picks) : i <= m =>
                /\ picks[i].change = snapshot[Len(base) + k + i]
                /\ picks[i].owners = Owner(Staged(base, snapshot, k + i), k + i)
           /\ \A i \in 1..Len(picks) : i > m =>
                /\ picks[i].change = tip[Len(fork) + (i - m)]
                /\ picks[i].owners = ByMarker(SubSeq(tip, 1,
                                                     Len(fork) + (i - m)))
<1> DEFINE s == Replay(base, snapshot, k)
           u == Later(snapshot, tip)
           w == Len(tip) - Len(fork)
<1>1. /\ s \in Seq(Pick) /\ Len(s) = m
      /\ \A j \in 1..m :
            s[j] = [change |-> snapshot[Len(base) + k + j],
                    owners |-> Owner(Staged(base, snapshot, k + j), k + j)]
  BY ReplayPicks
<1>2. /\ u \in Seq(Pick) /\ fork \in Commit /\ Len(u) = w
      /\ \A i \in 1..w :
            u[i] = [change |-> tip[Len(fork) + i],
                    owners |-> ByMarker(SubSeq(tip, 1, Len(fork) + i))]
  BY LaterPicks
<1>3. m \in Nat /\ w \in Nat
  <2>1. Len(s) \in Nat
    BY <1>1
  <2>2. Len(u) \in Nat
    BY <1>2
  <2>3. QED BY <1>1, <1>2, <2>1, <2>2
<1>4. picks = s \o u
  BY DEF Replayed
<1> HIDE DEF s, u, w
<1>5. /\ picks \in Seq(Pick) /\ Len(picks) = m + w
      /\ \A i \in 1..m : picks[i] = s[i]
      /\ \A i \in (m + 1)..(m + w) : picks[i] = u[i - m]
  <2>1. s \in Seq(Pick) /\ u \in Seq(Pick)
    BY <1>1, <1>2
  <2>2. /\ s \o u \in Seq(Pick)
        /\ Len(s \o u) = Len(s) + Len(u)
        /\ \A i \in 1..Len(s) : (s \o u)[i] = s[i]
        /\ \A i \in (Len(s) + 1)..(Len(s) + Len(u)) :
             (s \o u)[i] = u[i - Len(s)]
    BY <2>1, Concatenation
  <2>3. Len(s) = m /\ Len(u) = w
    BY <1>1, <1>2
  <2>4. QED BY <1>4, <2>2, <2>3
<1>6. ASSUME NEW i \in 1..Len(picks), i <= m
      PROVE  /\ picks[i].change = snapshot[Len(base) + k + i]
             /\ picks[i].owners = Owner(Staged(base, snapshot, k + i), k + i)
  <2>1. i \in 1..m
    BY <1>3, <1>6
  <2>2. picks[i] = s[i]
    BY <1>5, <2>1
  <2>3. QED BY <1>1, <2>1, <2>2
<1>7. ASSUME NEW i \in 1..Len(picks), i > m
      PROVE  /\ picks[i].change = tip[Len(fork) + (i - m)]
             /\ picks[i].owners = ByMarker(SubSeq(tip, 1, Len(fork) + (i - m)))
  <2>1. i \in (m + 1)..(m + w) /\ i - m \in 1..w
    BY <1>3, <1>5, <1>7
  <2>2. picks[i] = u[i - m]
    BY <1>5, <2>1
  <2> DEFINE j == i - m
  <2>3. j \in 1..w /\ picks[i] = u[j]
    BY <2>1, <2>2
  <2> HIDE DEF j
  <2>4. u[j] = [change |-> tip[Len(fork) + j],
                owners |-> ByMarker(SubSeq(tip, 1, Len(fork) + j))]
    BY <1>2, <2>3
  <2>5. /\ picks[i].change = tip[Len(fork) + j]
        /\ picks[i].owners = ByMarker(SubSeq(tip, 1, Len(fork) + j))
    BY <2>3, <2>4
  <2>6. QED BY <2>5 DEF j
<1>8. QED BY <1>2, <1>3, <1>5, <1>6, <1>7 DEF w

\* A commit in a history, by its length.
LEMMA HistoryCommit ==
    ASSUME NEW c \in Commit, NEW tip \in Commit, IsPrefix(c, tip), Len(c) > 0
    PROVE  /\ Len(c) \in 1..Len(tip)
           /\ c = SubSeq(tip, 1, Len(c))
           /\ c[Len(c)] = tip[Len(c)]
<1>1. c = SubSeq(tip, 1, Len(c)) /\ Len(c) \in 0..Len(tip)
  BY PrefixIsBeginning DEF Commit
<1>2. Len(c) \in 1..Len(c) /\ Len(c) \in 1..Len(tip)
  BY <1>1
<1>3. c[Len(c)] = tip[Len(c)]
  BY <1>2, PrefixElements DEF Commit
<1>4. QED BY <1>1, <1>2, <1>3

\* The prefix of a history at a place is a commit and ends in that change.
LEMMA HistoryAt ==
    ASSUME NEW tip \in Commit, NEW i \in 1..Len(tip),
           NEW c, c = SubSeq(tip, 1, i)
    PROVE  /\ c \in Commit /\ IsPrefix(c, tip)
           /\ Len(c) = i
           /\ c[Len(c)] = tip[i]
<1>1. i \in 0..Len(tip) /\ i \in 1..i
  OBVIOUS
<1>2. QED BY <1>1, Beginning DEF Commit

\* A marker on a commit that is replayed owns its pick.
LEMMA MarkerOwnsPick ==
    ASSUME NEW base \in Commit, NEW snapshot \in Commit, NEW tip \in Commit,
           IsPrefix(base, snapshot), NEW k \in 1..Count(base, snapshot),
           NEW picks, picks = Replayed(base, snapshot, k, tip),
           NEW c \in Commit, NEW t \in Task, marker[t] = c,
           \/ IsPrefix(c, snapshot) /\ Len(c) > Len(base) + k
           \/ IsPrefix(c, tip) /\ Len(c) > Len(Fork(snapshot, tip))
    PROVE  \E i \in 1..Len(picks) :
             t \in picks[i].owners /\ picks[i].change = c[Len(c)]
<1> DEFINE m == Count(base, snapshot) - k
           fork == Fork(snapshot, tip)
<1>1. /\ m \in Nat /\ fork \in Commit
      /\ Len(picks) = m + (Len(tip) - Len(fork))
      /\ \A i \in 1..Len(picks) : i <= m =>
           /\ picks[i].change = snapshot[Len(base) + k + i]
           /\ picks[i].owners = Owner(Staged(base, snapshot, k + i), k + i)
      /\ \A i \in 1..Len(picks) : i > m =>
           /\ picks[i].change = tip[Len(fork) + (i - m)]
           /\ picks[i].owners = ByMarker(SubSeq(tip, 1, Len(fork) + (i - m)))
      /\ Len(tip) - Len(fork) \in Nat
  <2> HIDE DEF m, fork
  <2>1. m = Count(base, snapshot) - k /\ fork = Fork(snapshot, tip)
    BY DEF m, fork
  <2>2. /\ m \in Nat /\ fork \in Commit
        /\ Len(picks) = m + (Len(tip) - Len(fork))
        /\ Len(tip) - Len(fork) \in Nat
    BY <2>1, ReplayedPicks
  <2>3. ASSUME NEW i \in 1..Len(picks)
        PROVE  /\ i <= m =>
                    /\ picks[i].change = snapshot[Len(base) + k + i]
                    /\ picks[i].owners
                          = Owner(Staged(base, snapshot, k + i), k + i)
               /\ i > m =>
                    /\ picks[i].change = tip[Len(fork) + (i - m)]
                    /\ picks[i].owners
                          = ByMarker(SubSeq(tip, 1, Len(fork) + (i - m)))
    BY <2>1, ReplayedPicks
  <2>4. QED BY <2>2, <2>3
<1>2. /\ Len(base) \in Nat /\ Len(snapshot) \in Nat /\ Len(tip) \in Nat
      /\ Len(fork) \in Nat /\ Len(c) \in Nat /\ k \in Nat
      /\ m = Len(snapshot) - Len(base) - k
  BY <1>1 DEF Commit, Count
<1>3. t \in ByMarker(c)
  BY DEF ByMarker
<1> HIDE DEF fork, m
<1>4. CASE IsPrefix(c, snapshot) /\ Len(c) > Len(base) + k
  <2>1. /\ c = SubSeq(snapshot, 1, Len(c)) /\ Len(c) <= Len(snapshot)
        /\ c[Len(c)] = snapshot[Len(c)]
    BY <1>2, <1>4, HistoryCommit
  <2> DEFINE j == Len(c) - Len(base) - k
  <2>2. /\ j \in 1..Len(picks) /\ j <= m
        /\ Len(base) + k + j = Len(c) /\ Len(base) + (k + j) = Len(c)
    BY <1>1, <1>2, <1>4, <2>1
  <2> HIDE DEF j
  <2>3. Staged(base, snapshot, k + j) = c
    BY <2>1, <2>2 DEF Staged
  <2>4. Owner(c, k + j) = ByMarker(c)
    BY <1>3 DEF Owner
  <2>5. /\ picks[j].change = snapshot[Len(base) + k + j]
        /\ picks[j].owners = Owner(Staged(base, snapshot, k + j), k + j)
    BY <1>1, <2>2
  <2>6. t \in picks[j].owners /\ picks[j].change = c[Len(c)]
    BY <1>3, <2>1, <2>2, <2>3, <2>4, <2>5
  <2>7. QED BY <2>2, <2>6
<1>5. CASE IsPrefix(c, tip) /\ Len(c) > Len(fork)
  <2>1. /\ c = SubSeq(tip, 1, Len(c)) /\ Len(c) <= Len(tip)
        /\ c[Len(c)] = tip[Len(c)]
    BY <1>2, <1>5, HistoryCommit
  <2> DEFINE j == m + (Len(c) - Len(fork))
  <2>2. /\ j \in 1..Len(picks) /\ j > m /\ Len(fork) + (j - m) = Len(c)
    BY <1>1, <1>2, <1>5, <2>1
  <2> HIDE DEF j
  <2>3. /\ picks[j].change = tip[Len(fork) + (j - m)]
        /\ picks[j].owners = ByMarker(SubSeq(tip, 1, Len(fork) + (j - m)))
    BY <1>1, <2>2
  <2>4. t \in picks[j].owners /\ picks[j].change = c[Len(c)]
    BY <1>3, <2>1, <2>2, <2>3
  <2>5. QED BY <2>2, <2>4
<1>6. QED BY <1>4, <1>5 DEF fork

\* An owner that is not guessed has the replayed commit as its marker.
LEMMA PickOwnersMarker ==
    ASSUME NEW base \in Commit, NEW snapshot \in Commit, NEW tip \in Commit,
           IsPrefix(base, snapshot), NEW k \in 1..Count(base, snapshot),
           NEW picks, picks = Replayed(base, snapshot, k, tip),
           NEW i \in 1..Len(picks), NEW t \in picks[i].owners,
           t \notin GuessedFrom(base, snapshot, k)
    PROVE  /\ marker[t] \in Commit
           /\ Len(marker[t]) > 0
           /\ picks[i].change = marker[t][Len(marker[t])]
<1> DEFINE m == Count(base, snapshot) - k
           fork == Fork(snapshot, tip)
<1>1. /\ m \in Nat /\ fork \in Commit
      /\ Len(picks) = m + (Len(tip) - Len(fork))
      /\ i <= m =>
           /\ picks[i].change = snapshot[Len(base) + k + i]
           /\ picks[i].owners = Owner(Staged(base, snapshot, k + i), k + i)
      /\ i > m =>
           /\ picks[i].change = tip[Len(fork) + (i - m)]
           /\ picks[i].owners = ByMarker(SubSeq(tip, 1, Len(fork) + (i - m)))
      /\ Len(tip) - Len(fork) \in Nat
  <2> HIDE DEF m, fork
  <2>1. m = Count(base, snapshot) - k /\ fork = Fork(snapshot, tip)
    BY DEF m, fork
  <2>2. QED BY <2>1, ReplayedPicks
<1>2. /\ Len(base) \in Nat /\ Len(snapshot) \in Nat /\ Len(tip) \in Nat
      /\ Len(fork) \in Nat /\ k \in Nat
      /\ m = Len(snapshot) - Len(base) - k
      /\ Count(base, snapshot) = Len(snapshot) - Len(base)
  <2>1. /\ Len(base) \in Nat /\ Len(snapshot) \in Nat /\ Len(tip) \in Nat
        /\ Len(fork) \in Nat
    BY <1>1 DEF Commit
  <2>2. Count(base, snapshot) = Len(snapshot) - Len(base)
    BY DEF Count
  <2> HIDE DEF fork
  <2>3. QED BY <2>1, <2>2
<1> HIDE DEF fork, m
<1>3. CASE i <= m
  <2> DEFINE x == Len(base) + k + i
             c == SubSeq(snapshot, 1, x)
  <2>1. x \in 1..Len(snapshot) /\ Len(base) + (k + i) = x
        /\ k + i \in k..Count(base, snapshot)
    BY <1>2, <1>3
  <2>2. c = Staged(base, snapshot, k + i)
    BY <2>1 DEF Staged
  <2>3. picks[i].change = snapshot[x] /\ picks[i].owners = Owner(c, k + i)
    BY <1>1, <1>3, <2>2
  <2>8. x \in 1..Len(snapshot) /\ c = SubSeq(snapshot, 1, x)
    BY <2>1
  <2> HIDE DEF x, c
  <2>4. c \in Commit /\ Len(c) = x /\ c[Len(c)] = snapshot[x]
    BY <2>8, HistoryAt
  <2>5. ByMarker(c) # {}
    <3>1. SUFFICES ASSUME ByMarker(c) = {} PROVE FALSE
      OBVIOUS
    <3>2. t \in ByPlace(k + i)
      BY <2>3, <3>1 DEF Owner
    <3>3. t \in GuessedFrom(base, snapshot, k)
      BY <2>1, <2>2, <3>1, <3>2 DEF GuessedFrom
    <3>4. QED BY <3>3
  <2>6. marker[t] = c
    BY <2>3, <2>5 DEF Owner, ByMarker
  <2>7. QED BY <2>1, <2>3, <2>4, <2>6
<1>4. CASE ~(i <= m)
  <2> DEFINE x == Len(fork) + (i - m)
             c == SubSeq(tip, 1, x)
  <2>1. i > m /\ x \in 1..Len(tip)
    BY <1>1, <1>2, <1>4
  <2>2. picks[i].change = tip[x] /\ picks[i].owners = ByMarker(c)
    BY <1>1, <2>1
  <2> HIDE DEF x
  <2>3. c \in Commit /\ Len(c) = x /\ c[Len(c)] = tip[x]
    BY <2>1, HistoryAt
  <2> HIDE DEF c
  <2>4. marker[t] = c
    BY <2>2 DEF ByMarker
  <2>5. QED BY <2>1, <2>2, <2>3, <2>4
<1>5. QED BY <1>3, <1>4

\* The commit that carries a task: its last change is the task's.
Ends(c, t) == c \in Commit /\ Len(c) > 0 /\ c[Len(c)] = t

\* What an ejection at base, snapshot and k makes of the train tip, when the
\* commits in bad conflict.
Ejection(base, snapshot, k, now, bad, bottom, picks, tip, r) ==
    /\ base \in Commit /\ snapshot \in Commit /\ now \in Commit
    /\ IsPrefix(base, snapshot)
    /\ k \in 1..Count(base, snapshot)
    /\ bad \in SUBSET Task
    /\ bottom = Staged(base, snapshot, k - 1)
    /\ picks = Replayed(base, snapshot, k, now)
    /\ tip = Picked(bottom, picks, bad)
    /\ r = Restack(base, bottom, tip,
                   Owner(Staged(base, snapshot, k), k), picks, bad)

\* The commits and the picks of an ejection have their types.
LEMMA EjectionTypes ==
    ASSUME TrainTypeOK,
           NEW base, NEW snapshot, NEW k, NEW now, NEW bad, NEW bottom,
           NEW picks, NEW tip, NEW r,
           Ejection(base, snapshot, k, now, bad, bottom, picks, tip, r)
    PROVE  /\ picks \in Seq(Pick)
           /\ bottom \in Commit /\ IsPrefix(bottom, snapshot)
           /\ Len(bottom) = Len(base) + (k - 1)
           /\ tip \in Commit
<1>1. /\ base \in Commit /\ snapshot \in Commit /\ now \in Commit
      /\ IsPrefix(base, snapshot) /\ k \in 1..Count(base, snapshot)
  BY DEF Ejection
<1>2. /\ Len(base) \in Nat /\ Len(snapshot) \in Nat
      /\ Count(base, snapshot) = Len(snapshot) - Len(base)
  BY <1>1 DEF Commit, Count
<1>3. picks \in Seq(Pick)
  <2> DEFINE m == Count(base, snapshot) - k
             fork == Fork(snapshot, now)
  <2> HIDE DEF m, fork
  <2>1. m = Count(base, snapshot) - k /\ fork = Fork(snapshot, now)
    BY DEF m, fork
  <2>2. QED BY <1>1, <2>1, ReplayedPicks DEF Ejection
<1>4. /\ bottom \in Commit /\ IsPrefix(bottom, snapshot)
      /\ Len(bottom) = Len(base) + (k - 1)
  <2>1. Len(base) + (k - 1) \in 0..Len(snapshot)
    BY <1>1, <1>2
  <2>2. bottom = SubSeq(snapshot, 1, Len(base) + (k - 1))
    BY DEF Ejection, Staged
  <2>3. QED BY <1>1, <2>1, <2>2, Beginning DEF Commit
<1>5. tip \in Commit
  BY <1>3, <1>4, PickedContents DEF Ejection
<1>6. QED BY <1>3, <1>4, <1>5

\* What a restack says of each task.
RestackParts(bottom, tip, picks, bad, r) ==
    /\ r.gone \in SUBSET Task
    /\ r.kept \in [Task -> Commit \cup {Nil}]
    /\ \A i \in 1..Len(picks) : \A t \in picks[i].owners :
         PickFails(picks, i, bottom, bad) => t \in r.gone
    /\ \A t \in r.gone : \E i \in 1..Len(picks) :
         PickFails(picks, i, bottom, bad) /\ t \in picks[i].owners

\* The marker of a task after a restack: on the last commit booked on it, or
\* where it was.
Repointed(t, bottom, tip, picks, bad, r) ==
    \/ /\ r.kept[t] = marker[t]
       /\ \A i \in 1..Len(picks) :
            /\ t \in picks[i].owners
            /\ ~PickFails(picks, i, bottom, bad)
            => picks[i].change \notin ToSet(tip)
    \/ \E m \in 1..Len(tip), i \in 1..Len(picks) :
         /\ r.kept[t] = SubSeq(tip, 1, m)
         /\ t \in picks[i].owners
         /\ ~PickFails(picks, i, bottom, bad)
         /\ picks[i].change = tip[m]

\* Where a restack leaves the marker of a task.
LEMMA RestackMarkers ==
    ASSUME TrainTypeOK,
           NEW base, NEW snapshot, NEW k, NEW now, NEW bad, NEW bottom,
           NEW picks, NEW tip, NEW r,
           Ejection(base, snapshot, k, now, bad, bottom, picks, tip, r)
    PROVE  /\ r.tip = tip
           /\ r.emptied = (tip = base)
           /\ RestackParts(bottom, tip, picks, bad, r)
           /\ \A t \in Task :
                /\ r.kept[t] = Nil <=>
                     \/ t \in Owner(Staged(base, snapshot, k), k)
                     \/ t \in r.gone
                     \/ marker[t] = Nil
                /\ r.kept[t] # Nil => Repointed(t, bottom, tip, picks, bad, r)
<1> DEFINE culprits == Owner(Staged(base, snapshot, k), k)
<1>0. /\ picks \in Seq(Pick) /\ bottom \in Commit /\ tip \in Commit
      /\ culprits \in SUBSET Task
      /\ r = Restack(base, bottom, tip, culprits, picks, bad)
  <2>1. picks \in Seq(Pick) /\ bottom \in Commit /\ tip \in Commit
    BY EjectionTypes
  <2>2. r = Restack(base, bottom, tip, culprits, picks, bad)
    BY DEF Ejection
  <2>3. QED BY <2>1, <2>2, OwnerTask
<1> HIDE DEF culprits
<1> DEFINE failed == {i \in DOMAIN picks : PickFails(picks, i, bottom, bad)}
           gone == UNION {picks[i].owners : i \in failed}
           places(t) == {m \in DOMAIN tip : \E i \in DOMAIN picks \ failed :
                            t \in picks[i].owners /\ picks[i].change = tip[m]}
           kept(t) == IF t \in culprits \cup gone \/ marker[t] = Nil THEN Nil
                      ELSE IF places(t) = {} THEN marker[t]
                      ELSE SubSeq(tip, 1, Max(places(t)))
<1>1. /\ r.tip = tip /\ r.gone = gone /\ r.emptied = (tip = base)
      /\ r.kept = [t \in Task |-> kept(t)]
  BY <1>0 DEF Restack
<1>2. DOMAIN picks = 1..Len(picks) /\ DOMAIN tip = 1..Len(tip)
      /\ Len(tip) \in Nat /\ Len(picks) \in Nat
  BY <1>0 DEF Commit
<1>3. \A i \in 1..Len(picks) : picks[i].owners \in SUBSET Task
  <2>1. \A i \in 1..Len(picks) : picks[i] \in Pick
    BY <1>0
  <2>2. QED BY <2>1 DEF Pick
<1>4. gone \in SUBSET Task
  BY <1>2, <1>3
<1>5. \A i \in 1..Len(picks) : \A t \in picks[i].owners :
         PickFails(picks, i, bottom, bad) => t \in gone
  BY <1>2
<1>6. \A t \in gone : \E i \in 1..Len(picks) :
         PickFails(picks, i, bottom, bad) /\ t \in picks[i].owners
  BY <1>2
<1> HIDE DEF gone
<1>7. ASSUME NEW t \in Task, places(t) # {}
      PROVE  /\ Max(places(t)) \in places(t)
             /\ Max(places(t)) \in 1..Len(tip)
             /\ SubSeq(tip, 1, Max(places(t))) \in Commit
  <2>1. places(t) \subseteq 1..Len(tip)
    BY <1>2
  <2>2. places(t) \subseteq Nat /\ \A x \in places(t) : x <= Len(tip)
    BY <1>0, <2>1
  <2> HIDE DEF places
  <2>3. Max(places(t)) \in places(t)
    BY <1>2, <1>7, <2>2, GreatestNatural
  <2>4. Max(places(t)) \in 1..Len(tip)
    BY <2>1, <2>3
  <2>5. Max(places(t)) \in 0..Len(tip)
    BY <2>4
  <2>6. SubSeq(tip, 1, Max(places(t))) \in Commit
    BY <1>0, <2>5, Beginning DEF Commit
  <2>7. QED BY <2>3, <2>4, <2>6
<1>8. ASSUME NEW t \in Task
      PROVE  /\ kept(t) \in Commit \cup {Nil}
             /\ kept(t) = Nil <=> t \in culprits \cup gone \/ marker[t] = Nil
             /\ kept(t) # Nil =>
                  \/ /\ kept(t) = marker[t]
                     /\ \A i \in 1..Len(picks) :
                          /\ t \in picks[i].owners
                          /\ ~PickFails(picks, i, bottom, bad)
                          => picks[i].change \notin ToSet(tip)
                  \/ \E m \in 1..Len(tip), i \in 1..Len(picks) :
                       /\ kept(t) = SubSeq(tip, 1, m)
                       /\ t \in picks[i].owners
                       /\ ~PickFails(picks, i, bottom, bad)
                       /\ picks[i].change = tip[m]
  <2>1. CASE t \in culprits \cup gone \/ marker[t] = Nil
    BY <2>1
  <2>2. CASE /\ ~(t \in culprits \cup gone \/ marker[t] = Nil)
             /\ places(t) = {}
    <3>1. kept(t) = marker[t]
      BY <2>2
    <3>2. marker[t] \in Commit
      BY <2>2 DEF TrainTypeOK
    <3>3. ASSUME NEW i \in 1..Len(picks), t \in picks[i].owners,
                 ~PickFails(picks, i, bottom, bad),
                 picks[i].change \in ToSet(tip)
          PROVE  FALSE
      <4>1. PICK m \in 1..Len(tip) : tip[m] = picks[i].change
        BY <1>2, <3>3 DEF ToSet
      <4>2. m \in places(t)
        BY <1>2, <3>3, <4>1
      <4>3. QED BY <2>2, <4>2
    <3> HIDE DEF kept, places
    <3>4. QED BY <2>2, <3>1, <3>2, <3>3
  <2>3. CASE /\ ~(t \in culprits \cup gone \/ marker[t] = Nil)
             /\ places(t) # {}
    <3>1. kept(t) = SubSeq(tip, 1, Max(places(t)))
      BY <2>3
    <3>2. /\ Max(places(t)) \in 1..Len(tip)
          /\ SubSeq(tip, 1, Max(places(t))) \in Commit
          /\ Max(places(t)) \in places(t)
      BY <1>7, <2>3
    <3>3. PICK i \in DOMAIN picks \ failed :
             t \in picks[i].owners /\ picks[i].change = tip[Max(places(t))]
      BY <3>2
    <3>4. i \in 1..Len(picks) /\ ~PickFails(picks, i, bottom, bad)
      BY <1>2, <3>3
    <3> HIDE DEF kept, places
    <3>5. kept(t) \in Commit /\ kept(t) # Nil
      BY <3>1, <3>2, TrainAssumption
    <3>6. QED BY <2>3, <3>1, <3>2, <3>3, <3>4, <3>5
  <2>4. QED BY <2>1, <2>2, <2>3
<1> HIDE DEF kept
<1>9. r.kept \in [Task -> Commit \cup {Nil}] /\ \A t \in Task : r.kept[t] = kept(t)
  BY <1>1, <1>8
<1>10. ASSUME NEW t \in Task
       PROVE  /\ r.kept[t] = Nil <=>
                   t \in culprits \cup r.gone \/ marker[t] = Nil
              /\ r.kept[t] # Nil => Repointed(t, bottom, tip, picks, bad, r)
  <2>1. r.kept[t] = kept(t) /\ r.gone = gone
    BY <1>1, <1>9
  <2>2. QED BY <1>8, <2>1 DEF Repointed
<1>11. RestackParts(bottom, tip, picks, bad, r)
  BY <1>1, <1>4, <1>5, <1>6, <1>9 DEF RestackParts
<1>12. QED BY <1>1, <1>10, <1>11 DEF culprits

\* A marker that a restack keeps still ends in its task, and follows the
\* train where it was on it.
LEMMA EjectionKeepsMarker ==
    ASSUME TrainTypeOK,
           NEW base, NEW snapshot, NEW k, NEW now, NEW bad, NEW bottom,
           NEW picks, NEW tip, NEW r,
           Ejection(base, snapshot, k, now, bad, bottom, picks, tip, r),
           NEW t \in Task, t \notin GuessedFrom(base, snapshot, k),
           r.kept[t] # Nil, Ends(marker[t], t)
    PROVE  /\ Ends(r.kept[t], t)
           /\ IsPrefix(marker[t], now) => IsPrefix(r.kept[t], tip)
<1> DEFINE culprits == Owner(Staged(base, snapshot, k), k)
           c == marker[t]
<1>1. /\ base \in Commit /\ snapshot \in Commit /\ now \in Commit
      /\ IsPrefix(base, snapshot) /\ k \in 1..Count(base, snapshot)
      /\ picks = Replayed(base, snapshot, k, now)
      /\ tip = Picked(bottom, picks, bad)
      /\ bottom = Staged(base, snapshot, k - 1)
      /\ bad \in SUBSET Task
  BY DEF Ejection
<1>2. /\ picks \in Seq(Pick) /\ bottom \in Commit /\ tip \in Commit
      /\ IsPrefix(bottom, snapshot) /\ Len(bottom) = Len(base) + (k - 1)
      /\ Len(base) \in Nat
  <2>1. /\ picks \in Seq(Pick) /\ bottom \in Commit /\ tip \in Commit
        /\ IsPrefix(bottom, snapshot) /\ Len(bottom) = Len(base) + (k - 1)
    BY EjectionTypes
  <2>2. QED BY <1>1, <2>1 DEF Commit
<1>3. /\ IsPrefix(bottom, tip)
      /\ \A i \in 1..Len(picks) :
           ~PickFails(picks, i, bottom, bad) => picks[i].change \in ToSet(tip)
  BY <1>1, <1>2, PickedContents
<1>4. c \in Commit /\ Len(c) > 0 /\ c[Len(c)] = t
  BY DEF Ends
<1> HIDE DEF culprits
<1>5. /\ t \notin culprits /\ t \notin r.gone
      /\ RestackParts(bottom, tip, picks, bad, r)
      /\ Repointed(t, bottom, tip, picks, bad, r)
  BY RestackMarkers DEF culprits
<1>6. CASE \E m \in 1..Len(tip), i \in 1..Len(picks) :
              /\ r.kept[t] = SubSeq(tip, 1, m)
              /\ t \in picks[i].owners
              /\ picks[i].change = tip[m]
  <2>1. PICK m \in 1..Len(tip), i \in 1..Len(picks) :
              /\ r.kept[t] = SubSeq(tip, 1, m)
              /\ t \in picks[i].owners
              /\ picks[i].change = tip[m]
    BY <1>6
  <2>2. picks[i].change = c[Len(c)]
    BY <1>1, <2>1, PickOwnersMarker
  <2>3. /\ r.kept[t] \in Commit /\ IsPrefix(r.kept[t], tip)
        /\ Len(r.kept[t]) = m /\ r.kept[t][Len(r.kept[t])] = tip[m]
    BY <1>2, <2>1, HistoryAt
  <2>4. QED BY <1>4, <2>1, <2>2, <2>3 DEF Ends
<1>7. CASE /\ r.kept[t] = c
           /\ \A i \in 1..Len(picks) :
                /\ t \in picks[i].owners
                /\ ~PickFails(picks, i, bottom, bad)
                => picks[i].change \notin ToSet(tip)
  <2>1. \A i \in 1..Len(picks) : t \notin picks[i].owners
    BY <1>3, <1>5, <1>7 DEF RestackParts
  <2>2. /\ ~(IsPrefix(c, snapshot) /\ Len(c) > Len(base) + k)
        /\ ~(IsPrefix(c, now) /\ Len(c) > Len(Fork(snapshot, now)))
    BY <1>1, <1>4, <2>1, MarkerOwnsPick
  <2>3. SUFFICES ASSUME IsPrefix(c, now) PROVE IsPrefix(c, tip)
    BY <1>4, <1>7 DEF Ends
  <2> DEFINE fork == Fork(snapshot, now)
  <2>4. fork \in Commit /\ IsPrefix(fork, snapshot) /\ IsPrefix(fork, now)
    BY <1>1, ForkShared
  <2>5. Len(c) \in Nat /\ Len(fork) \in Nat /\ Len(bottom) \in Nat
        /\ Len(base) \in Nat /\ k \in Nat
    <3>1. Len(c) \in Nat /\ Len(bottom) \in Nat /\ Len(base) \in Nat
      BY <1>1, <1>2, <1>4 DEF Commit
    <3>2. Len(snapshot) \in Nat
      BY <1>1 DEF Commit
    <3>3. k \in Nat
      BY <1>1, <3>1, <3>2 DEF Count
    <3> HIDE DEF c
    <3>4. Len(fork) \in Nat
      BY <2>4 DEF Commit
    <3>5. QED BY <3>1, <3>3, <3>4 DEF c
  <2>6. IsPrefix(c, snapshot)
    <3>1. Len(c) <= Len(fork)
      BY <2>2, <2>3, <2>5
    <3> HIDE DEF fork, c
    <3>2. IsPrefix(c, fork)
      BY <1>1, <1>4, <2>3, <2>4, <3>1, PrefixComparable DEF Commit
    <3>3. QED BY <1>1, <1>4, <2>4, <3>2, PrefixTransitive DEF Commit
  <2>7. Len(c) # Len(base) + k
    <3>1. SUFFICES ASSUME Len(c) = Len(base) + k PROVE FALSE
      OBVIOUS
    <3>2. c = Staged(base, snapshot, k)
      BY <1>1, <1>4, <2>6, <3>1, HistoryCommit DEF Staged
    <3>3. t \in ByMarker(Staged(base, snapshot, k))
      BY <3>2 DEF ByMarker
    <3>4. QED BY <1>5, <3>3 DEF Owner, culprits
  <2>8. Len(c) <= Len(bottom)
    BY <1>2, <2>2, <2>5, <2>6, <2>7
  <2> HIDE DEF c
  <2>9. IsPrefix(c, bottom)
    BY <1>1, <1>2, <1>4, <2>6, <2>8, PrefixComparable DEF Commit
  <2>10. QED BY <1>2, <1>3, <1>4, <2>9, PrefixTransitive DEF Commit
<1>8. QED BY <1>5, <1>6, <1>7 DEF Repointed

-----------------------------------------------------------------------------
(* What every flush may rely on                                             *)

\* The tracked branch lags behind origin, a commit that lands has passed and
\* is in the local branch about to be pushed, a commit that is being recorded
\* has landed, and a culprit lies between a base on origin and the snapshot.
Tracks == IsPrefix(tracked, origin)
Knows(f) ==
    /\ flush[f].at \in {"landing", "pushing"} => flush[f].snapshot \in passed
    /\ At(f, "pushing") =>
         /\ lock = f /\ IsPrefix(flush[f].snapshot, local)
         /\ \A t \in Task : t \in ToSet(local) =>
              t \in ToSet(flush[f].snapshot) \cup ToSet(origin)
    /\ flush[f].at \in {"recording", "sealing"} =>
         lock = f /\ IsPrefix(flush[f].snapshot, tracked)
    /\ At(f, "ejecting") =>
         /\ IsPrefix(flush[f].base, origin)
         /\ IsPrefix(flush[f].base, flush[f].snapshot)
         /\ flush[f].k \in 1..Count(flush[f].base, flush[f].snapshot)
Held ==
    lock # Nil => /\ lock \in Flusher
                  /\ flush[lock].at \in {"pushing", "recording", "sealing"}
FlushInv == TrainTypeOK /\ Tracks /\ (\A f \in Flusher : Knows(f)) /\ Held

\* Every step of Eject is an Ejection.
LEMMA EjectUnfolds ==
    ASSUME FlushInv, NEW f \in Flusher, Eject(f)
    PROVE  /\ At(f, "ejecting") /\ lock = Nil
           /\ \E bad, bottom, picks, tip, r :
                /\ Ejection(flush[f].base, flush[f].snapshot, flush[f].k,
                            TipNow(f), bad, bottom, picks, tip, r)
                /\ Ejected(f, r)
<1> DEFINE base == flush[f].base
           snapshot == flush[f].snapshot
           k == flush[f].k
           now == TipNow(f)
           bottom == Staged(base, snapshot, k - 1)
           culprits == Culprits(f)
           picks == Replay(base, snapshot, k) \o Later(snapshot, now)
<1>1. At(f, "ejecting") /\ lock = Nil
  BY DEF Eject, Unlocked
<1>2. /\ base \in Commit /\ snapshot \in Commit /\ now \in Commit
      /\ IsPrefix(base, snapshot) /\ k \in 1..Count(base, snapshot)
  <2>1. flush[f] \in FlushState
    BY DEF FlushInv, TrainTypeOK
  <2>2. IsPrefix(base, snapshot) /\ k \in 1..Count(base, snapshot)
    BY <1>1 DEF FlushInv, Knows
  <2>3. now \in Commit
    BY <2>1 DEF FlushInv, TrainTypeOK, TipNow, FlushState
  <2>4. QED BY <2>1, <2>2, <2>3 DEF FlushState
<1>3. \E bad \in SUBSET Conflicting : \E tip, r :
        /\ tip = Picked(bottom, picks, bad)
        /\ r = Restack(base, bottom, tip, culprits, picks, bad)
        /\ Ejected(f, r)
  <2>1. \E bad \in SUBSET Conflicting, some \in {picks} :
          \E tip \in {Picked(bottom, some, bad)} :
          \E r \in {Restack(base, bottom, tip, culprits, some, bad)} :
            Ejected(f, r)
    BY DEF Eject
  <2> HIDE DEF picks, bottom, culprits, base
  <2>2. PICK bad \in SUBSET Conflicting, some \in {picks} :
          \E tip \in {Picked(bottom, some, bad)} :
          \E r \in {Restack(base, bottom, tip, culprits, some, bad)} :
            Ejected(f, r)
    BY <2>1
  <2>3. QED BY <2>2
<1>4. PICK bad, tip, r :
        /\ bad \in SUBSET Conflicting
        /\ tip = Picked(bottom, picks, bad)
        /\ r = Restack(base, bottom, tip, culprits, picks, bad)
        /\ Ejected(f, r)
  BY <1>3
<1>5. bad \in SUBSET Task
  BY <1>4, TrainAssumption
<1>6. picks = Replayed(base, snapshot, k, now)
  BY DEF Replayed
<1>7. Ejection(base, snapshot, k, now, bad, bottom, picks, tip, r)
  BY <1>2, <1>4, <1>5, <1>6 DEF Ejection, Culprits
<1>8. QED BY <1>1, <1>4, <1>7

\* A change committed on top.
LEMMA AppendCommit ==
    ASSUME NEW c \in Commit, NEW x \in Change
    PROVE  /\ Append(c, x) \in Commit
           /\ IsPrefix(c, Append(c, x))
           /\ ToSet(Append(c, x)) = ToSet(c) \cup {x}
           /\ Len(Append(c, x)) = Len(c) + 1
           /\ Append(c, x)[Len(Append(c, x))] = x
<1>1. c \in Seq(Change)
  BY DEF Commit
<1>2. Append(c, x)[Len(Append(c, x))] = x /\ Len(Append(c, x)) = Len(c) + 1
  BY <1>1
<1>3. QED BY <1>1, <1>2, PrefixAppend DEF Commit

\* An idle flush remembers the root.
LEMMA EmptyCommit == <<>> \in Commit /\ Idle \in FlushState
<1>1. <<>> \in Commit
  BY DEF Commit
<1>2. QED BY <1>1 DEF Idle, FlushState, Stages

\* What a flush may rely on holds at the start,
LEMMA FlushInvInit == TrainInit => FlushInv
<1> SUFFICES ASSUME TrainInit PROVE FlushInv
  OBVIOUS
<1>1. TrainTypeOK
  BY EmptyCommit, TrainAssumption
  DEF TrainInit, TrainTypeOK, States, Reasons
<1>2. Tracks
  BY EmptyCommit, PrefixReflexive DEF TrainInit, Tracks, Commit
<1>3. \A f \in Flusher : Knows(f)
  BY DEF TrainInit, Knows, At, Idle
<1>4. Held
  BY DEF TrainInit, Held
<1>5. QED BY <1>1, <1>2, <1>3, <1>4 DEF FlushInv

\* An ejection writes records and a ref of the right types.
LEMMA EjectTypes ==
    ASSUME FlushInv, NEW f \in Flusher, Eject(f)
    PROVE  TrainTypeOK'
<1>1. PICK bad, bottom, picks, tip, r :
        /\ Ejection(flush[f].base, flush[f].snapshot, flush[f].k,
                    TipNow(f), bad, bottom, picks, tip, r)
        /\ Ejected(f, r)
  BY EjectUnfolds
<1>2. TrainTypeOK
  BY DEF FlushInv
<1>3. /\ r.kept \in [Task -> Commit \cup {Nil}] /\ r.gone \in SUBSET Task
      /\ r.tip = tip
  BY <1>1, <1>2, RestackMarkers DEF RestackParts
<1>4. tip \in Commit
  BY <1>1, <1>2, EjectionTypes
<1>5. Culprits(f) \in SUBSET Task
  BY OwnerTask DEF Culprits
<1>6. flush[f].base \in Commit
  BY <1>2 DEF TrainTypeOK, FlushState
<1>7. position' \in [Task -> Nat]
  <2>1. ASSUME NEW t \in Task PROVE Renumber(t, r, flush[f].base) \in Nat
    <3>1. CASE r.kept[t] = Nil
      BY <3>1 DEF Renumber
    <3>2. CASE r.kept[t] # Nil
      <4>1. r.kept[t] \in Commit
        BY <1>3, <3>2
      <4>2. Len(r.kept[t]) \in Nat /\ Len(flush[f].base) \in Nat
        BY <1>6, <4>1 DEF Commit
      <4>3. position[t] \in Nat
        BY <1>2 DEF TrainTypeOK
      <4>4. QED BY <3>2, <4>2, <4>3 DEF Renumber
    <3>3. QED BY <3>1, <3>2
  <2>2. position' = [t \in Task |-> Renumber(t, r, flush[f].base)]
    BY <1>1 DEF Ejected
  <2>3. QED BY <2>1, <2>2
<1>8. flush' \in [Flusher -> FlushState]
  <2>1. [Idle EXCEPT !.at = "starting"] \in FlushState
    BY EmptyCommit DEF Idle, FlushState, Stages
  <2>2. flush' = [flush EXCEPT ![f] =
               IF r.emptied THEN Idle ELSE [Idle EXCEPT !.at = "starting"]]
    BY <1>1 DEF Ejected
  <2>3. QED BY <1>2, <2>1, <2>2, EmptyCommit DEF TrainTypeOK
<1>9. state' \in [Task -> States] /\ diag' \in [Task -> Reasons]
  BY <1>1, <1>2 DEF Ejected, TrainTypeOK, States, Reasons
<1>10. guessed' \subseteq Task
  <2>1. GuessedFrom(flush[f].base, flush[f].snapshot, flush[f].k) \subseteq Task
    BY DEF GuessedFrom, ByPlace
  <2>2. guessed' = guessed \cup Unwritten
          \cup GuessedFrom(flush[f].base, flush[f].snapshot, flush[f].k)
    BY <1>1 DEF Ejected
  <2>3. QED BY <1>2, <2>1, <2>2 DEF TrainTypeOK, Unwritten
<1>11. train' = Nil \/ train' \in Commit
  BY <1>1, <1>3, <1>4 DEF Ejected
<1>12. marker' \in [Task -> Commit \cup {Nil}]
  BY <1>1, <1>3 DEF Ejected
<1>13. UNCHANGED <<origin, tracked, local, lock, branch, pending, evidence,
                   passed, outside, orphans, unseen, counters>>
  BY <1>1 DEF Ejected
<1>14. QED
  BY <1>2, <1>7, <1>8, <1>9, <1>10, <1>11, <1>12, <1>13
  DEF TrainTypeOK, counters

\* The stages of a flush keep their type when the flush moves on.
LEMMA MovesOn ==
    ASSUME TrainTypeOK, NEW f \in Flusher, NEW stage \in Stages,
           flush' = [flush EXCEPT ![f].at = stage]
    PROVE  flush' \in [Flusher -> FlushState]
<1>1. flush \in [Flusher -> FlushState]
  BY DEF TrainTypeOK
<1>2. [flush[f] EXCEPT !.at = stage] \in FlushState
  BY <1>1 DEF FlushState
<1>3. QED BY <1>1, <1>2

\* every step keeps the types,
LEMMA TypeStep == FlushInv /\ [TrainNext]_trainVars => TrainTypeOK'
<1> SUFFICES ASSUME FlushInv, [TrainNext]_trainVars PROVE TrainTypeOK'
  OBVIOUS
<1>0. TrainTypeOK
  BY DEF FlushInv
<1> USE DEF refs, records, world, counters
<1>1. ASSUME NEW t \in Task, StageRefused(t) PROVE TrainTypeOK'
  BY <1>0, <1>1 DEF StageRefused, TrainTypeOK, States, Reasons
<1>2. ASSUME NEW t \in Task, Stage(t) PROVE TrainTypeOK'
  <2>1. t \in Change /\ origin \in Commit /\ (train = Nil \/ train \in Commit)
    BY <1>0 DEF TrainTypeOK, Change
  <2> DEFINE staged == Append(IF train = Nil THEN origin ELSE train, t)
  <2>2. staged \in Commit
    BY <2>1, AppendCommit
  <2>3. train' = staged /\ pending' = [pending EXCEPT ![t] = staged]
    BY <1>2 DEF Stage
  <2> HIDE DEF staged
  <2>4. QED BY <1>0, <1>2, <2>2, <2>3 DEF Stage, TrainTypeOK
<1>3. ASSUME NEW t \in Task, Mark(t) PROVE TrainTypeOK'
  <2>1. NextPosition \in Nat
    BY <1>0, NextPositionNat
  <2>2. QED BY <1>0, <1>3, <2>1 DEF Mark, TrainTypeOK, States
<1>4. ASSUME NEW t \in Task, CrashIntegrate(t) PROVE TrainTypeOK'
  BY <1>0, <1>4 DEF CrashIntegrate, TrainTypeOK
<1>5. ASSUME NEW f \in Flusher, Start(f) PROVE TrainTypeOK'
  <2>1. flush' \in [Flusher -> FlushState]
    BY <1>0, <1>5, MovesOn DEF Start, Stages
  <2>2. QED BY <1>0, <1>5, <2>1 DEF Start, TrainTypeOK
<1>6. ASSUME NEW f \in Flusher, Snapshot(f) PROVE TrainTypeOK'
  <2>1. Covered(train) \subseteq Task /\ Unwritten \subseteq Task
    BY DEF Covered, Unwritten
  <2>2. train \in Commit /\ local \in Commit
    BY <1>0, <1>6 DEF Snapshot, Ref, TrainTypeOK
  <2>3. [Idle EXCEPT !.at = "validating", !.snapshot = train,
                     !.ids = Covered(train), !.expected = local] \in FlushState
    BY <2>1, <2>2, EmptyCommit DEF Idle, FlushState, Stages
  <2>4. QED BY <1>0, <1>6, <2>1, <2>3 DEF Snapshot, TrainTypeOK
<1>7. ASSUME NEW f \in Flusher, Empty(f) \/ Halt(f) \/ LandRefused(f)
      PROVE TrainTypeOK'
  BY <1>0, <1>7, EmptyCommit DEF Empty, Halt, LandRefused, TrainTypeOK
<1>8. ASSUME NEW f \in Flusher, RunGreen(f) PROVE TrainTypeOK'
  <2>1. flush' \in [Flusher -> FlushState]
    BY <1>0, <1>8, MovesOn DEF RunGreen, Stages
  <2>2. flush[f].snapshot \in Commit
    BY <1>0 DEF TrainTypeOK, FlushState
  <2>3. QED BY <1>0, <1>8, <2>1, <2>2 DEF RunGreen, TrainTypeOK
<1>9. ASSUME NEW f \in Flusher, RunRed(f) PROVE TrainTypeOK'
  <2>1. flakes' \in Nat
    BY <1>0, <1>9 DEF RunRed, ShowsRed, TrainTypeOK
  <2>2. flush' \in [Flusher -> FlushState]
    BY <1>0, <1>9, MovesOn DEF RunRed, Stages
  <2>3. QED BY <1>0, <1>9, <2>1, <2>2 DEF RunRed, TrainTypeOK
<1>10. ASSUME NEW f \in Flusher, RetryRed(f) PROVE TrainTypeOK'
  <2>1. flakes' \in Nat
    BY <1>0, <1>10 DEF RetryRed, ShowsRed, TrainTypeOK
  <2>2. flush' \in [Flusher -> FlushState]
    BY <1>0, <1>10, EmptyCommit DEF RetryRed, TrainTypeOK
  <2>3. QED BY <1>0, <1>10, <2>1, <2>2 DEF RetryRed, TrainTypeOK
<1>11. ASSUME NEW f \in Flusher, BisectFinds(f) PROVE TrainTypeOK'
  <2> DEFINE tip == flush[f].snapshot
             base == TrainBase(tip)
  <2>1. tip \in Commit /\ tracked \in Commit
    BY <1>0 DEF TrainTypeOK, FlushState
  <2>2. base \in Commit
    BY <2>1, ForkShared DEF TrainBase
  <2>3. PICK k \in 1..Count(base, tip) :
          /\ ShowsRed(Staged(base, tip, k))
          /\ flush' = [flush EXCEPT ![f].at = "ejecting", ![f].base = base,
                                    ![f].k = k]
    BY <1>11 DEF BisectFinds
  <2>4. k \in Nat
    <3>1. Count(base, tip) \in Int
      BY <2>1, <2>2 DEF Count, Commit
    <3>2. QED BY <2>3, <3>1
  <2> HIDE DEF base, tip
  <2>5. flush' \in [Flusher -> FlushState]
    <3>1. flush \in [Flusher -> FlushState] /\ flush[f] \in FlushState
      BY <1>0 DEF TrainTypeOK
    <3>2. flush' = [flush EXCEPT ![f] = [flush[f] EXCEPT !.at = "ejecting",
                                             !.base = base, !.k = k]]
      BY <2>3, <3>1
    <3>3. [flush[f] EXCEPT !.at = "ejecting", !.base = base, !.k = k]
             \in FlushState
      BY <2>2, <2>4, <3>1 DEF FlushState, Stages
    <3>4. QED BY <3>1, <3>2, <3>3
  <2>6. flakes' \in Nat
    BY <1>0, <2>3 DEF ShowsRed, TrainTypeOK
  <2>7. QED BY <1>0, <1>11, <2>5, <2>6 DEF BisectFinds, TrainTypeOK
<1>12. ASSUME NEW f \in Flusher, BisectFindsNone(f) PROVE TrainTypeOK'
  <2>1. flush' \in [Flusher -> FlushState]
    BY <1>0, <1>12, MovesOn DEF BisectFindsNone, Stages
  <2>2. QED BY <1>0, <1>12, <2>1 DEF BisectFindsNone, TrainTypeOK
<1>13. ASSUME NEW f \in Flusher, Eject(f) PROVE TrainTypeOK'
  BY <1>13, EjectTypes
<1>14. ASSUME NEW f \in Flusher,
              LandCheckedOut(f) \/ MoveBranch(f) \/ PushBranch(f)
       PROVE TrainTypeOK'
  <2>1. /\ flush[f].snapshot \in Commit /\ local \in Commit
        /\ flush \in [Flusher -> FlushState]
    BY <1>0 DEF TrainTypeOK, FlushState
  <2>2. CASE MoveBranch(f)
    <3>1. flush' \in [Flusher -> FlushState]
      BY <2>1, <2>2 DEF MoveBranch, FlushState, Stages
    <3>2. QED BY <1>0, <2>1, <2>2, <3>1 DEF MoveBranch, TrainTypeOK
  <2>3. ASSUME NEW c \in Commit, Push(f, c), UNCHANGED local PROVE TrainTypeOK'
    <3>1. /\ origin' \in Commit /\ tracked' \in Commit
          /\ train' = Nil \/ train' \in Commit
          /\ lock' \in Flusher \cup {Nil}
          /\ flush' \in [Flusher -> FlushState]
      BY <1>0, <2>1, <2>3
      DEF Push, Landed, AfterLanding, TrainTypeOK, FlushState, Stages
    <3>2. QED BY <1>0, <1>14, <2>3, <3>1
              DEF LandCheckedOut, MoveBranch, PushBranch, TrainTypeOK
  <2>4. ASSUME NEW c, Rejected(f, c), UNCHANGED local PROVE TrainTypeOK'
    BY <1>0, <1>14, <2>4, EmptyCommit
    DEF LandCheckedOut, MoveBranch, PushBranch, Rejected, TrainTypeOK
  <2>5. QED BY <1>14, <2>1, <2>2, <2>3, <2>4 DEF LandCheckedOut, PushBranch
<1>15. ASSUME NEW f \in Flusher, Record(f) PROVE TrainTypeOK'
  <2>1. flush[f].snapshot \in Commit
    BY <1>0 DEF TrainTypeOK, FlushState
  <2>2. /\ evidence' \in [Task -> Commit \cup {Nil}]
        /\ marker' \in [Task -> Commit \cup {Nil}]
        /\ position' \in [Task -> Nat]
    BY <1>0, <1>15, <2>1 DEF Record, TrainTypeOK
  <2>3. flush' \in [Flusher -> FlushState]
    BY <1>0, <1>15 DEF Record, TrainTypeOK, FlushState, Stages
  <2>4. QED BY <1>0, <1>15, <2>2, <2>3 DEF Record, TrainTypeOK
<1>16. ASSUME NEW f \in Flusher, Seal(f) PROVE TrainTypeOK'
  BY <1>0, <1>16, EmptyCommit DEF Seal, TrainTypeOK, States
<1>17. ASSUME NEW f \in Flusher, CrashFlush(f) PROVE TrainTypeOK'
  BY <1>0, <1>17, EmptyCommit DEF CrashFlush, TrainTypeOK
<1>18. ASSUME NEW o \in Outsider, PushOutside(o) \/ CommitLocally(o)
       PROVE TrainTypeOK'
  <2>1. o \in Change
    BY DEF Change
  <2>2. Append(origin, o) \in Commit /\ Append(local, o) \in Commit
    BY <1>0, <2>1, AppendCommit DEF TrainTypeOK
  <2>3. QED BY <1>0, <1>18, <2>2 DEF PushOutside, CommitLocally, TrainTypeOK
<1>19. CASE Pull
  BY <1>0, <1>19 DEF Pull, TrainTypeOK
<1>20. CASE UNCHANGED trainVars
  BY <1>0, <1>20 DEF trainVars, TrainTypeOK
<1>21. QED
  BY <1>1, <1>2, <1>3, <1>4, <1>5, <1>6, <1>7, <1>8, <1>9, <1>10, <1>11,
     <1>12, <1>13, <1>14, <1>15, <1>16, <1>17, <1>18, <1>19, <1>20
  DEF TrainNext, FlushStep

\* The local branch gets what others commit and what is on origin.
LocalGrows ==
    /\ IsPrefix(local, local')
    /\ \A t \in Task : t \in ToSet(local') => t \in ToSet(local) \cup ToSet(origin')

\* Origin only grows, and so do the tested commits, the local branch while a
\* flush is about to push it, and the tracked branch while one records.
Growth ==
    /\ IsPrefix(origin, origin')
    /\ IsPrefix(tracked', origin')
    /\ passed \subseteq passed'
    /\ \A g \in Flusher :
         /\ At(g, "pushing") => LocalGrows
         /\ flush[g].at \in {"recording", "sealing"} => IsPrefix(tracked, tracked')

\* origin only grows,
LEMMA GrowthStep == FlushInv /\ [TrainNext]_trainVars => Growth
<1> SUFFICES ASSUME FlushInv, [TrainNext]_trainVars PROVE Growth
  OBVIOUS
<1>1. /\ origin \in Commit /\ tracked \in Commit /\ local \in Commit
      /\ IsPrefix(tracked, origin)
  BY DEF FlushInv, TrainTypeOK, Tracks
<1>2. /\ IsPrefix(origin, origin) /\ IsPrefix(tracked, tracked)
      /\ IsPrefix(local, local)
      /\ local' = local => LocalGrows
  BY <1>1, PrefixReflexive DEF Commit, LocalGrows
<1>3. CASE /\ origin' = origin /\ passed' = passed /\ local' = local
           /\ tracked' = tracked \/ tracked' = origin
  BY <1>1, <1>2, <1>3 DEF Growth
<1> USE DEF refs, records, world, counters
<1>4. ASSUME NEW t \in Task, StageRefused(t) PROVE Growth
  BY <1>3, <1>4 DEF StageRefused
<1>5. ASSUME NEW t \in Task, Stage(t) PROVE Growth
  BY <1>3, <1>5 DEF Stage
<1>6. ASSUME NEW t \in Task, Mark(t) \/ CrashIntegrate(t) PROVE Growth
  BY <1>3, <1>6 DEF Mark, CrashIntegrate
<1>7. ASSUME NEW f \in Flusher, Start(f) \/ CrashFlush(f) PROVE Growth
  BY <1>3, <1>7 DEF Start, CrashFlush
<1>8. ASSUME NEW f \in Flusher, RunGreen(f) PROVE Growth
  BY <1>1, <1>2, <1>8 DEF RunGreen, Growth
<1>9. ASSUME NEW f \in Flusher, Eject(f) PROVE Growth
  BY <1>3, <1>9, EjectUnfolds DEF Ejected
<1>10. ASSUME NEW f \in Flusher,
              LandCheckedOut(f) \/ MoveBranch(f) \/ PushBranch(f)
       PROVE  Growth
  <2>1. flush[f].snapshot \in Commit
    BY DEF FlushInv, TrainTypeOK, FlushState
  <2>2. CASE MoveBranch(f)
    <3>1. lock = Nil /\ UNCHANGED <<origin, tracked, passed>>
      BY <2>2 DEF MoveBranch, Unlocked
    <3>2. \A g \in Flusher : ~At(g, "pushing")
      BY <3>1, TrainAssumption DEF FlushInv, Knows
    <3>3. QED BY <1>1, <1>2, <3>1, <3>2 DEF Growth
  <2>3. ASSUME NEW c \in Commit, Push(f, c), UNCHANGED <<local, passed>>,
               IsPrefix(flush[f].snapshot, c),
               \A g \in Flusher : flush[g].at \notin {"recording", "sealing"}
        PROVE  Growth
    <3>1. IsPrefix(origin, c) /\ origin' = c /\ tracked' = flush[f].snapshot
      BY <2>3 DEF Push, Accepts, Landed
    <3>2. QED BY <1>2, <2>3, <3>1 DEF Growth
  <2>4. ASSUME NEW c, Rejected(f, c), UNCHANGED <<local, passed>> PROVE Growth
    BY <1>3, <2>4 DEF Rejected
  <2>5. CASE LandCheckedOut(f)
    <3>1. lock = Nil /\ UNCHANGED <<local, passed>>
      BY <2>5 DEF LandCheckedOut, Unlocked
    <3>2. \A g \in Flusher : flush[g].at \notin {"recording", "sealing"}
      BY <3>1, TrainAssumption DEF FlushInv, Knows
    <3>3. IsPrefix(flush[f].snapshot, flush[f].snapshot)
      BY <2>1, PrefixReflexive DEF Commit
    <3>4. QED BY <2>1, <2>3, <2>4, <2>5, <3>1, <3>2, <3>3 DEF LandCheckedOut
  <2>6. CASE PushBranch(f)
    <3>1. flush[f].at = "pushing" /\ UNCHANGED <<local, passed>>
      BY <2>6 DEF PushBranch, At
    <3>2. lock = f /\ IsPrefix(flush[f].snapshot, local)
      BY <3>1 DEF FlushInv, Knows, At
    <3>3. \A g \in Flusher : flush[g].at \notin {"recording", "sealing"}
      BY <3>1, <3>2 DEF FlushInv, Knows
    <3>4. QED BY <1>1, <2>3, <2>4, <2>6, <3>1, <3>2, <3>3 DEF PushBranch
  <2>7. QED BY <1>10, <2>2, <2>5, <2>6
<1>11. ASSUME NEW f \in Flusher,
              \/ Snapshot(f) \/ Empty(f) \/ RunRed(f) \/ RetryRed(f)
              \/ BisectFinds(f) \/ BisectFindsNone(f) \/ Halt(f)
              \/ LandRefused(f) \/ Record(f) \/ Seal(f)
       PROVE  Growth
  BY <1>3, <1>11
  DEF Snapshot, Empty, RunRed, RetryRed, BisectFinds, BisectFindsNone, Halt,
      LandRefused, Record, Seal
<1>12. ASSUME NEW o \in Outsider, PushOutside(o) PROVE Growth
  <2>1. /\ origin' = Append(origin, o)
        /\ UNCHANGED <<tracked, passed, local>>
    BY <1>12 DEF PushOutside
  <2>2. o \in Change
    BY DEF Change
  <2>3. Append(origin, o) \in Commit /\ IsPrefix(origin, Append(origin, o))
    BY <1>1, <2>2, AppendCommit
  <2>4. IsPrefix(tracked, Append(origin, o))
    BY <1>1, <2>3, PrefixTransitive DEF Commit
  <2>5. QED BY <1>2, <2>1, <2>3, <2>4 DEF Growth
<1>13. ASSUME NEW o \in Outsider, CommitLocally(o) PROVE Growth
  <2>1. /\ UNCHANGED <<origin, tracked, passed>>
        /\ local' = Append(local, o) /\ o \in Change /\ o \notin Task
    BY <1>13, TrainAssumption DEF CommitLocally, Change
  <2>2. /\ IsPrefix(local, Append(local, o))
        /\ ToSet(Append(local, o)) = ToSet(local) \cup {o}
    BY <1>1, <2>1, AppendCommit
  <2>3. LocalGrows
    BY <2>1, <2>2 DEF LocalGrows
  <2>4. QED BY <1>1, <1>2, <2>1, <2>3 DEF Growth
<1>14. CASE Pull
  <2>1. LocalGrows
    BY <1>14 DEF Pull, LocalGrows
  <2>2. QED BY <1>1, <1>2, <1>14, <2>1 DEF Pull, Growth
<1>15. CASE UNCHANGED trainVars
  BY <1>3, <1>15 DEF trainVars
<1>16. QED
  BY <1>4, <1>5, <1>6, <1>7, <1>8, <1>9, <1>10, <1>11, <1>12, <1>13, <1>14,
     <1>15 DEF TrainNext, FlushStep

\* A flush that does not move keeps what it relies on.
LEMMA KnowsStays ==
    ASSUME FlushInv, TrainTypeOK', Growth, NEW g \in Flusher,
           flush'[g] = flush[g], lock = g => lock' = g
    PROVE  Knows(g)'
<1>1. /\ Knows(g) /\ origin \in Commit /\ tracked \in Commit
      /\ origin' \in Commit /\ tracked' \in Commit
      /\ local \in Commit /\ local' \in Commit
      /\ flush[g].snapshot \in Commit /\ flush[g].base \in Commit
  BY DEF FlushInv, TrainTypeOK, FlushState
<1>2. IsPrefix(flush[g].base, origin) => IsPrefix(flush[g].base, origin')
  BY <1>1, PrefixTransitive DEF Growth, Commit
<1>3. flush[g].at \in {"recording", "sealing"}
        /\ IsPrefix(flush[g].snapshot, tracked)
      => IsPrefix(flush[g].snapshot, tracked')
  BY <1>1, PrefixTransitive DEF Growth, Commit
<1>4. ASSUME At(g, "pushing")
      PROVE  /\ lock = g /\ IsPrefix(flush[g].snapshot, local')
             /\ \A t \in Task : t \in ToSet(local') =>
                  t \in ToSet(flush[g].snapshot) \cup ToSet(origin')
  <2>1. LocalGrows /\ IsPrefix(origin, origin')
    BY <1>4 DEF Growth
  <2>2. IsPrefix(flush[g].snapshot, local')
    BY <1>1, <1>4, <2>1, PrefixTransitive DEF Knows, LocalGrows, Commit
  <2>3. ToSet(origin) \subseteq ToSet(origin')
    BY <1>1, <2>1, PrefixContents DEF Commit
  <2>4. QED BY <1>1, <1>4, <2>1, <2>2, <2>3 DEF Knows, LocalGrows
<1>5. QED BY <1>1, <1>2, <1>3, <1>4 DEF Knows, Growth, At

\* A flush that is not about to land or to eject relies on nothing.
LEMMA KnowsNothing ==
    ASSUME NEW g \in Flusher,
           flush'[g].at \notin {"landing", "pushing", "recording", "sealing",
                               "ejecting"}
    PROVE  Knows(g)'
  BY DEF Knows, At

\* The holder of the lock is the flush that lands.
LEMMA HeldStays ==
    ASSUME FlushInv, UNCHANGED lock,
           lock # Nil => flush'[lock] = flush[lock]
    PROVE  Held'
  BY DEF FlushInv, Held

\* and a flush keeps what it knows.
LEMMA KnowsStep ==
    FlushInv /\ [TrainNext]_trainVars
        => (\A g \in Flusher : Knows(g)') /\ Held'
<1> SUFFICES ASSUME FlushInv, [TrainNext]_trainVars
             PROVE  (\A g \in Flusher : Knows(g)') /\ Held'
  OBVIOUS
<1>1. Growth /\ TrainTypeOK'
  BY GrowthStep, TypeStep
<1>2. TrainTypeOK /\ flush \in [Flusher -> FlushState]
  BY DEF FlushInv, TrainTypeOK
<1>3. CASE UNCHANGED <<flush, lock>>
  <2>1. \A g \in Flusher : Knows(g)'
    BY <1>1, <1>3, KnowsStays
  <2>2. QED BY <1>3, <2>1, HeldStays
<1>4. ASSUME NEW f \in Flusher, UNCHANGED lock, lock # f,
             \A g \in Flusher \ {f} : flush'[g] = flush[g],
             Knows(f)'
      PROVE  (\A g \in Flusher : Knows(g)') /\ Held'
  <2>1. \A g \in Flusher \ {f} : Knows(g)'
    BY <1>1, <1>4, KnowsStays
  <2>2. lock # Nil => lock \in Flusher
    BY DEF FlushInv, Held
  <2>3. Held'
    BY <1>4, <2>2, HeldStays
  <2>4. QED BY <1>4, <2>1, <2>3
<1>5. ASSUME NEW f \in Flusher,
             flush[f].at \notin {"pushing", "recording", "sealing"}
      PROVE  lock # f
  BY <1>5, TrainAssumption DEF FlushInv, Held
<1> USE DEF refs, records, world, counters
<1>6. ASSUME NEW t \in Task,
             StageRefused(t) \/ Stage(t) \/ Mark(t) \/ CrashIntegrate(t)
      PROVE  UNCHANGED <<flush, lock>>
  BY <1>6 DEF StageRefused, Stage, Mark, CrashIntegrate
<1>7. ASSUME NEW o \in Outsider, PushOutside(o) \/ CommitLocally(o)
      PROVE  UNCHANGED <<flush, lock>>
  BY <1>7 DEF PushOutside, CommitLocally
<1>8. ASSUME NEW f \in Flusher, Start(f)
      PROVE  (\A g \in Flusher : Knows(g)') /\ Held'
  <2>1. /\ flush[f].at = "idle" /\ lock' = lock
        /\ flush' = [flush EXCEPT ![f].at = "starting"]
    BY <1>8 DEF Start, At
  <2>2. lock # f
    BY <1>5, <2>1
  <2>3. Knows(f)'
    BY <1>2, <2>1, KnowsNothing DEF FlushState
  <2>4. QED BY <1>2, <1>4, <2>1, <2>2, <2>3
<1>9. ASSUME NEW f \in Flusher, Snapshot(f)
      PROVE  (\A g \in Flusher : Knows(g)') /\ Held'
  <2>1. /\ flush[f].at = "starting" /\ lock' = lock
        /\ flush' = [flush EXCEPT ![f] =
                       [Idle EXCEPT !.at = "validating", !.snapshot = train,
                          !.ids = Covered(train), !.expected = local]]
    BY <1>9 DEF Snapshot, At
  <2>2. lock # f
    BY <1>5, <2>1
  <2>3. flush'[f].at = "validating"
    BY <1>2, <2>1 DEF Idle
  <2>4. Knows(f)'
    BY <2>3, KnowsNothing
  <2>5. QED BY <1>2, <1>4, <2>1, <2>2, <2>4
<1>10. ASSUME NEW f \in Flusher,
              Empty(f) \/ Halt(f) \/ LandRefused(f) \/ RetryRed(f)
       PROVE  (\A g \in Flusher : Knows(g)') /\ Held'
  <2>1. /\ flush[f].at \notin {"pushing", "recording", "sealing"}
        /\ lock' = lock
        /\ flush' = [flush EXCEPT ![f] = Idle]
    BY <1>10 DEF Empty, Halt, LandRefused, RetryRed, At
  <2>2. lock # f
    BY <1>5, <2>1
  <2>3. flush'[f].at = "idle"
    BY <1>2, <2>1 DEF Idle
  <2>4. Knows(f)'
    BY <2>3, KnowsNothing
  <2>5. QED BY <1>2, <1>4, <2>1, <2>2, <2>4
<1>11. ASSUME NEW f \in Flusher, RunGreen(f)
       PROVE  (\A g \in Flusher : Knows(g)') /\ Held'
  <2>1. /\ flush[f].at \in {"validating", "retrying"} /\ lock' = lock
        /\ flush' = [flush EXCEPT ![f].at = "landing"]
        /\ flush[f].snapshot \in passed'
    BY <1>11 DEF RunGreen
  <2>2. lock # f
    BY <1>5, <2>1
  <2>3. flush'[f].at = "landing" /\ flush'[f].snapshot = flush[f].snapshot
    BY <1>2, <2>1 DEF FlushState
  <2>4. Knows(f)'
    BY <2>1, <2>3 DEF Knows, At
  <2>5. QED BY <1>2, <1>4, <2>1, <2>2, <2>4
<1>12. ASSUME NEW f \in Flusher, RunRed(f) \/ BisectFindsNone(f)
       PROVE  (\A g \in Flusher : Knows(g)') /\ Held'
  <2>1. /\ flush[f].at \in {"validating", "bisecting"} /\ lock' = lock
        /\ \/ flush' = [flush EXCEPT ![f].at = "bisecting"]
           \/ flush' = [flush EXCEPT ![f].at = "retrying"]
    BY <1>12 DEF RunRed, BisectFindsNone, At
  <2>2. lock # f
    BY <1>5, <2>1
  <2>3. flush'[f].at \in {"bisecting", "retrying"}
    BY <1>2, <2>1 DEF FlushState
  <2>4. Knows(f)'
    BY <2>3, KnowsNothing
  <2>5. QED BY <1>2, <1>4, <2>1, <2>2, <2>4
<1>13. ASSUME NEW f \in Flusher, BisectFinds(f)
       PROVE  (\A g \in Flusher : Knows(g)') /\ Held'
  <2> DEFINE tip == flush[f].snapshot
             base == TrainBase(tip)
  <2>1. tip \in Commit /\ tracked \in Commit /\ origin \in Commit
    BY <1>2 DEF TrainTypeOK, FlushState
  <2>2. base \in Commit /\ IsPrefix(base, tip) /\ IsPrefix(base, tracked)
    BY <2>1, ForkShared DEF TrainBase
  <2>3. IsPrefix(base, origin)
    BY <2>1, <2>2, PrefixTransitive DEF FlushInv, Tracks, Commit
  <2>4. PICK k \in 1..Count(base, tip) :
          flush' = [flush EXCEPT ![f].at = "ejecting", ![f].base = base,
                                 ![f].k = k]
    BY <1>13 DEF BisectFinds
  <2>5. flush[f].at = "bisecting" /\ lock' = lock /\ origin' = origin
    BY <1>13 DEF BisectFinds, At
  <2> HIDE DEF base
  <2>6. /\ flush'[f].at = "ejecting" /\ flush'[f].base = base
        /\ flush'[f].k = k /\ flush'[f].snapshot = tip
        /\ \A g \in Flusher \ {f} : flush'[g] = flush[g]
    <3>1. flush' = [flush EXCEPT ![f] = [flush[f] EXCEPT !.at = "ejecting",
                                             !.base = base, !.k = k]]
      BY <1>2, <2>4
    <3>2. flush'[f] = [flush[f] EXCEPT !.at = "ejecting", !.base = base, !.k = k]
      BY <1>2, <3>1
    <3>3. flush[f] \in FlushState
      BY <1>2
    <3>4. QED BY <1>2, <3>1, <3>2, <3>3 DEF FlushState
  <2>7. Knows(f)'
    BY <2>2, <2>3, <2>5, <2>6 DEF Knows, At
  <2>8. QED BY <1>4, <1>5, <2>5, <2>6, <2>7
<1>14. ASSUME NEW f \in Flusher, Eject(f)
       PROVE  (\A g \in Flusher : Knows(g)') /\ Held'
  <2>1. PICK r : Ejected(f, r)
    BY <1>14, EjectUnfolds
  <2>2. /\ flush[f].at = "ejecting" /\ lock' = lock
        /\ flush' = [flush EXCEPT ![f] =
               IF r.emptied THEN Idle ELSE [Idle EXCEPT !.at = "starting"]]
    BY <1>14, <2>1 DEF Ejected, Eject, At
  <2>3. flush'[f].at \in {"idle", "starting"}
    BY <1>2, <2>2 DEF Idle
  <2>4. Knows(f)'
    BY <2>3, KnowsNothing
  <2>5. QED BY <1>2, <1>4, <1>5, <2>2, <2>4
<1>15. ASSUME NEW f \in Flusher,
              LandCheckedOut(f) \/ MoveBranch(f) \/ PushBranch(f)
       PROVE  (\A g \in Flusher : Knows(g)') /\ Held'
  <2>1. lock \in {Nil, f}
    BY <1>15 DEF LandCheckedOut, MoveBranch, PushBranch, Unlocked, FlushInv,
                 Knows
  <2>2. \A g \in Flusher \ {f} : lock # g
    BY <2>1, TrainAssumption
  <2>3. CASE MoveBranch(f)
    <3>1. /\ flush[f].at = "landing"
          /\ lock' = f /\ flush' = [flush EXCEPT ![f].at = "pushing"]
          /\ local' = flush[f].snapshot /\ passed' = passed
      BY <2>3 DEF MoveBranch, At
    <3>2. /\ flush'[f].at = "pushing"
          /\ flush'[f].snapshot = flush[f].snapshot
          /\ \A g \in Flusher \ {f} : flush'[g] = flush[g]
      BY <1>2, <3>1 DEF FlushState
    <3>3. IsPrefix(local', local') /\ flush[f].snapshot \in passed
      BY <1>1, <3>1, PrefixReflexive DEF TrainTypeOK, Commit, FlushInv, Knows
    <3>4. Knows(f)'
      BY <3>1, <3>2, <3>3 DEF Knows, At
    <3>5. \A g \in Flusher \ {f} : Knows(g)'
      BY <1>1, <2>2, <3>2, KnowsStays
    <3>6. Held'
      BY <3>1, <3>2 DEF Held
    <3>7. QED BY <3>4, <3>5, <3>6
  <2>4. ASSUME NEW c, Push(f, c)
        PROVE  (\A g \in Flusher : Knows(g)') /\ Held'
    <3>1. /\ lock' = f /\ flush' = [flush EXCEPT ![f].at = "recording"]
          /\ tracked' = flush[f].snapshot
      BY <2>4 DEF Push
    <3>2. /\ flush'[f].at = "recording"
          /\ flush'[f].snapshot = flush[f].snapshot
          /\ \A g \in Flusher \ {f} : flush'[g] = flush[g]
      BY <1>2, <3>1 DEF FlushState
    <3>3. IsPrefix(tracked', tracked')
      BY <1>1, PrefixReflexive DEF TrainTypeOK, Commit
    <3>4. Knows(f)'
      BY <3>1, <3>2, <3>3 DEF Knows, At
    <3>5. \A g \in Flusher \ {f} : Knows(g)'
      BY <1>1, <2>2, <3>2, KnowsStays
    <3>6. Held'
      BY <3>1, <3>2 DEF Held
    <3>7. QED BY <3>4, <3>5, <3>6
  <2>5. ASSUME NEW c, Rejected(f, c)
        PROVE  (\A g \in Flusher : Knows(g)') /\ Held'
    <3>1. flush' = [flush EXCEPT ![f] = Idle] /\ lock' = Nil
      BY <2>5 DEF Rejected
    <3>2. /\ flush'[f].at = "idle"
          /\ \A g \in Flusher \ {f} : flush'[g] = flush[g]
      BY <1>2, <3>1 DEF Idle
    <3>3. Knows(f)'
      BY <3>2, KnowsNothing
    <3>4. \A g \in Flusher \ {f} : Knows(g)'
      BY <1>1, <2>2, <3>2, KnowsStays
    <3>5. QED BY <3>1, <3>3, <3>4 DEF Held
  <2>6. QED BY <1>15, <2>3, <2>4, <2>5 DEF LandCheckedOut, PushBranch
<1>16. ASSUME NEW f \in Flusher, Record(f)
       PROVE  (\A g \in Flusher : Knows(g)') /\ Held'
  <2>1. /\ flush[f].at = "recording" /\ lock' = lock /\ tracked' = tracked
        /\ flush' = [flush EXCEPT ![f].at = "sealing"]
    BY <1>16 DEF Record, At
  <2>2. lock = f /\ IsPrefix(flush[f].snapshot, tracked)
    BY <2>1 DEF FlushInv, Knows
  <2>3. /\ flush'[f].at = "sealing" /\ flush'[f].snapshot = flush[f].snapshot
        /\ \A g \in Flusher \ {f} : flush'[g] = flush[g]
    BY <1>2, <2>1 DEF FlushState
  <2>4. Knows(f)'
    BY <2>1, <2>2, <2>3 DEF Knows, At
  <2>5. \A g \in Flusher \ {f} : Knows(g)'
    BY <1>1, <2>1, <2>3, KnowsStays
  <2>6. Held'
    BY <2>1, <2>2, <2>3 DEF Held
  <2>7. QED BY <2>4, <2>5, <2>6
<1>17. ASSUME NEW f \in Flusher, Seal(f) \/ CrashFlush(f)
       PROVE  (\A g \in Flusher : Knows(g)') /\ Held'
  <2>1. /\ flush' = [flush EXCEPT ![f] = Idle]
        /\ lock = f => lock' = Nil
        /\ lock # f => lock' = lock \/ lock' = Nil
        /\ \A g \in Flusher \ {f} : lock = g => lock' = g
    <3>1. CASE Seal(f)
      <4>1. lock = f
        BY <3>1 DEF Seal, At, FlushInv, Knows
      <4>2. QED BY <3>1, <4>1 DEF Seal
    <3>2. CASE CrashFlush(f)
      BY <3>2 DEF CrashFlush
    <3>3. QED BY <1>17, <3>1, <3>2
  <2>2. flush'[f].at = "idle" /\ \A g \in Flusher \ {f} : flush'[g] = flush[g]
    BY <1>2, <2>1 DEF Idle
  <2>3. Knows(f)'
    BY <2>2, KnowsNothing
  <2>4. \A g \in Flusher \ {f} : Knows(g)'
    BY <1>1, <2>1, <2>2, KnowsStays
  <2>5. Held'
    BY <2>1, <2>2 DEF FlushInv, Held
  <2>6. QED BY <2>3, <2>4, <2>5
<1>18. CASE Pull
  BY <1>3, <1>18 DEF Pull
<1>19. CASE UNCHANGED trainVars
  BY <1>3, <1>19 DEF trainVars
<1>20. QED
  BY <1>3, <1>6, <1>7, <1>8, <1>9, <1>10, <1>11, <1>12, <1>13, <1>14, <1>15,
     <1>16, <1>17, <1>18, <1>19 DEF TrainNext, FlushStep

\* What a flush relies on holds in every reachable state.
LEMMA FlushInvStep == FlushInv /\ [TrainNext]_trainVars => FlushInv'
  BY TypeStep, GrowthStep, KnowsStep DEF FlushInv, Growth, Tracks

-----------------------------------------------------------------------------
(* Where the work of a task is                                              *)

\* A commit of task t, on origin or still on the train.
OnItsWay(c, t) ==
    /\ Ends(c, t)
    /\ t \in ToSet(origin) \/ (train # Nil /\ IsPrefix(c, train))

\* What the records and the flushes say of a task is true of the refs.
Carried(t) ==
    /\ marker[t] # Nil => OnItsWay(marker[t], t)
    /\ pending[t] # Nil => OnItsWay(pending[t], t)
    /\ evidence[t] # Nil => t \in ToSet(evidence[t]) \cup ToSet(origin)
    /\ \A f \in Flusher : t \in flush[f].ids =>
         t \in ToSet(flush[f].snapshot) \cup ToSet(origin)
    /\ state[t] = "merged" => t \in ToSet(origin)
    /\ \/ t \in branch \/ pending[t] # Nil \/ marker[t] # Nil
       \/ t \in ToSet(origin)
       \/ diag[t] \in {"batch", "restack"}
       \/ t \in orphans
TrainInv == FlushInv /\ \A t \in Task \ guessed : Carried(t)

\* A task is among the changes of the commit that carries it.
LEMMA EndsInside ==
    ASSUME NEW c, NEW t, Ends(c, t)
    PROVE  t \in ToSet(c)
<1>1. Len(c) \in 1..Len(c) /\ c[Len(c)] = t
  BY DEF Ends, Commit
<1>2. QED BY <1>1 DEF ToSet

\* The train grows, or it lands, or an ejection restacks it.
TrainMoves ==
    \/ train' = train
    \/ train = Nil
    \/ train \in Commit /\ train' \in Commit /\ IsPrefix(train, train')
    \/ train \in Commit /\ IsPrefix(train, origin')

\* What each step may do to the train.
LEMMA TrainMovesStep ==
    FlushInv /\ [TrainNext]_trainVars
        => TrainMoves \/ \E f \in Flusher : Eject(f)
<1> SUFFICES ASSUME FlushInv, [TrainNext]_trainVars,
                    \A f \in Flusher : ~Eject(f)
             PROVE  TrainMoves
  OBVIOUS
<1>0. train = Nil \/ train \in Commit
  BY DEF FlushInv, TrainTypeOK
<1>1. CASE train' = train
  BY <1>1 DEF TrainMoves
<1> USE DEF refs, records, world, counters
<1>2. ASSUME NEW t \in Task, Stage(t) PROVE TrainMoves
  <2>1. CASE train = Nil
    BY <2>1 DEF TrainMoves
  <2>2. CASE train # Nil
    <3>1. train' = Append(train, t) /\ train \in Commit /\ t \in Change
      BY <1>0, <1>2, <2>2 DEF Stage, Change
    <3>2. QED BY <3>1, AppendCommit DEF TrainMoves
  <2>3. QED BY <2>1, <2>2
<1>3. ASSUME NEW f \in Flusher,
             LandCheckedOut(f) \/ MoveBranch(f) \/ PushBranch(f)
      PROVE  TrainMoves
  <2>1. ASSUME NEW c, Push(f, c), IsPrefix(flush[f].snapshot, c)
        PROVE  TrainMoves
    BY <1>0, <2>1 DEF Push, AfterLanding, Landed, TrainMoves
  <2>2. ASSUME NEW c, Rejected(f, c) PROVE TrainMoves
    BY <2>2 DEF Rejected, TrainMoves
  <2>3. CASE LandCheckedOut(f)
    <3>1. IsPrefix(flush[f].snapshot, flush[f].snapshot)
      BY PrefixReflexive DEF FlushInv, TrainTypeOK, FlushState, Commit
    <3>2. QED BY <2>1, <2>2, <2>3, <3>1 DEF LandCheckedOut
  <2>4. CASE PushBranch(f)
    <3>1. IsPrefix(flush[f].snapshot, local)
      BY <2>4 DEF PushBranch, FlushInv, Knows
    <3>2. QED BY <2>1, <2>2, <2>4, <3>1 DEF PushBranch
  <2>5. CASE MoveBranch(f)
    BY <2>5 DEF MoveBranch, TrainMoves
  <2>6. QED BY <1>3, <2>3, <2>4, <2>5
<1>4. ASSUME NEW t \in Task, StageRefused(t) \/ Mark(t) \/ CrashIntegrate(t)
      PROVE  train' = train
  BY <1>4 DEF StageRefused, Mark, CrashIntegrate
<1>5. ASSUME NEW f \in Flusher,
             \/ Start(f) \/ CrashFlush(f) \/ Snapshot(f) \/ Empty(f)
             \/ RunGreen(f) \/ RunRed(f) \/ RetryRed(f)
             \/ BisectFinds(f) \/ BisectFindsNone(f) \/ Halt(f)
             \/ LandRefused(f) \/ Record(f) \/ Seal(f)
      PROVE  train' = train
  BY <1>5
  DEF Start, CrashFlush, Snapshot, Empty, RunGreen, RunRed, RetryRed,
      BisectFinds, BisectFindsNone, Halt, LandRefused, Record, Seal
<1>6. ASSUME NEW o \in Outsider, PushOutside(o) \/ CommitLocally(o)
      PROVE  train' = train
  BY <1>6 DEF PushOutside, CommitLocally
<1>7. CASE Pull
  BY <1>1, <1>7 DEF Pull
<1>8. CASE UNCHANGED trainVars
  BY <1>1, <1>8 DEF trainVars
<1>9. QED
  BY <1>1, <1>2, <1>3, <1>4, <1>5, <1>6, <1>7, <1>8 DEF TrainNext, FlushStep

\* What is on its way stays so, or lands.
WayAfter(c, t) ==
    /\ Ends(c, t)
    /\ t \in ToSet(origin') \/ (train' # Nil /\ IsPrefix(c, train'))

\* A commit of a task stays on its way.
LEMMA WayStep ==
    ASSUME FlushInv, FlushInv', Growth, TrainMoves, NEW u \in Task
    PROVE  /\ u \in ToSet(origin) => u \in ToSet(origin')
           /\ \A c \in Commit : OnItsWay(c, u) => WayAfter(c, u)
<1>1. origin \in Commit /\ origin' \in Commit
  BY DEF FlushInv, TrainTypeOK
<1>2. u \in ToSet(origin) => u \in ToSet(origin')
  BY <1>1, PrefixContents DEF Growth, Commit
<1>3. ASSUME NEW c \in Commit, OnItsWay(c, u) PROVE WayAfter(c, u)
  <2>1. Ends(c, u) /\ u \in ToSet(c)
    BY <1>3, EndsInside DEF OnItsWay
  <2>2. CASE u \in ToSet(origin)
    BY <1>2, <2>1, <2>2 DEF WayAfter
  <2>3. CASE u \notin ToSet(origin)
    <3>1. train # Nil /\ IsPrefix(c, train)
      BY <1>3, <2>3 DEF OnItsWay
    <3>2. CASE train' = train
      BY <2>1, <3>1, <3>2 DEF WayAfter
    <3>3. CASE train \in Commit /\ train' \in Commit /\ IsPrefix(train, train')
      <4>1. IsPrefix(c, train') /\ train' # Nil
        BY <3>1, <3>3, PrefixTransitive, TrainAssumption DEF Commit
      <4>2. QED BY <2>1, <4>1 DEF WayAfter
    <3>4. CASE train \in Commit /\ IsPrefix(train, origin')
      <4>1. u \in ToSet(train)
        BY <2>1, <3>1, <3>4, PrefixContents DEF Commit
      <4>2. u \in ToSet(origin')
        BY <1>1, <3>4, <4>1, PrefixContents DEF Commit
      <4>3. QED BY <2>1, <4>2 DEF WayAfter
    <3>5. QED BY <3>1, <3>2, <3>3, <3>4 DEF TrainMoves
  <2>4. QED BY <2>2, <2>3
<1>4. QED BY <1>2, <1>3

\* Where the work is, at the start and after every step.
LEMMA TrainInvInit == TrainInit => TrainInv
<1> SUFFICES ASSUME TrainInit PROVE TrainInv
  OBVIOUS
<1>1. FlushInv
  BY FlushInvInit
<1>2. \A t \in Task : Carried(t)
  BY DEF TrainInit, Carried, Idle
<1>3. QED BY <1>1, <1>2 DEF TrainInv

\* An ejection.
LEMMA CarriedEject ==
    ASSUME TrainInv, FlushInv', NEW f \in Flusher, Eject(f),
           NEW u \in Task \ guessed'
    PROVE  Carried(u)'
<1>1. PICK bad, bottom, picks, tip, r :
        /\ Ejection(flush[f].base, flush[f].snapshot, flush[f].k,
                    TipNow(f), bad, bottom, picks, tip, r)
        /\ Ejected(f, r)
  BY EjectUnfolds DEF TrainInv
<1> DEFINE base == flush[f].base
           snapshot == flush[f].snapshot
           k == flush[f].k
<1>2. FlushInv /\ TrainTypeOK /\ FlushInv' /\ TrainTypeOK'
  BY DEF TrainInv, FlushInv
<1>3. /\ u \in Task \ guessed /\ pending[u] = Nil
      /\ u \notin GuessedFrom(base, snapshot, k)
      /\ UNCHANGED <<origin, branch, pending, evidence, orphans>>
  BY <1>1 DEF Ejected, Unwritten
<1>4. Carried(u)
  BY <1>3 DEF TrainInv
<1>5. marker' = r.kept /\ r.tip = tip /\ r.emptied = (tip = base)
      /\ r.gone \in SUBSET Task
  BY <1>1, <1>2, RestackMarkers DEF Ejected, RestackParts
<1>6. /\ base \in Commit /\ tip \in Commit /\ IsPrefix(base, origin)
      /\ origin \in Commit
  <2>1. tip \in Commit
    BY <1>1, <1>2, EjectionTypes
  <2>2. At(f, "ejecting")
    BY DEF Eject
  <2>3. QED BY <1>2, <2>1, <2>2 DEF FlushInv, TrainTypeOK, FlushState, Knows
<1>7. marker'[u] # Nil => OnItsWay(marker[u], u)'
  <2>0. SUFFICES ASSUME marker'[u] # Nil PROVE OnItsWay(marker[u], u)'
    OBVIOUS
  <2>1. marker[u] # Nil
    BY <1>1, <1>2, <1>5, <2>0, RestackMarkers
  <2>2. OnItsWay(marker[u], u) /\ Ends(marker[u], u)
    BY <1>4, <2>1 DEF Carried, OnItsWay
  <2>3. /\ Ends(marker'[u], u)
        /\ IsPrefix(marker[u], TipNow(f)) => IsPrefix(marker'[u], tip)
    BY <1>1, <1>2, <1>3, <1>5, <2>0, <2>2, EjectionKeepsMarker
  <2>4. CASE u \in ToSet(origin)
    BY <1>3, <2>3, <2>4 DEF OnItsWay
  <2>5. CASE u \notin ToSet(origin)
    <3>1. train # Nil /\ IsPrefix(marker[u], train)
      BY <2>2, <2>5 DEF OnItsWay
    <3>2. IsPrefix(marker'[u], tip)
      BY <2>3, <3>1 DEF TipNow
    <3>3. tip # base
      <4>1. SUFFICES ASSUME tip = base PROVE FALSE
        OBVIOUS
      <4>2. marker'[u] \in Commit /\ u \in ToSet(marker'[u])
        BY <2>3, EndsInside DEF Ends
      <4>3. u \in ToSet(base)
        BY <1>6, <3>2, <4>1, <4>2, PrefixContents DEF Commit
      <4>4. u \in ToSet(origin)
        BY <1>6, <4>3, PrefixContents DEF Commit
      <4>5. QED BY <2>5, <4>4
    <3>4. train' = tip
      BY <1>1, <1>5, <3>1, <3>3 DEF Ejected
    <3>5. QED BY <1>6, <2>3, <3>2, <3>4, TrainAssumption DEF OnItsWay
  <2>6. QED BY <2>4, <2>5
<1>8. \A g \in Flusher : u \in flush'[g].ids =>
         u \in ToSet(flush'[g].snapshot) \cup ToSet(origin')
  <2>1. ASSUME NEW g \in Flusher, u \in flush'[g].ids
        PROVE  flush'[g] = flush[g]
    <3>1. SUFFICES ASSUME g = f PROVE FALSE
      BY <1>1, <1>2 DEF Ejected, TrainTypeOK
    <3>2. flush'[f].ids = {}
      BY <1>1, <1>2 DEF Ejected, Idle, TrainTypeOK
    <3>3. QED BY <2>1, <3>1, <3>2
  <2>2. QED BY <1>3, <1>4, <2>1 DEF Carried
<1>9. state'[u] = "merged" => u \in ToSet(origin')
  BY <1>1, <1>3, <1>4 DEF Carried, Ejected
<1>10. \/ u \in branch' \/ pending'[u] # Nil \/ marker'[u] # Nil
       \/ u \in ToSet(origin')
       \/ diag'[u] \in {"batch", "restack"}
       \/ u \in orphans'
  <2>1. CASE marker'[u] # Nil
    BY <2>1
  <2>2. CASE marker'[u] = Nil /\ marker[u] # Nil
    <3>1. \/ u \in Owner(Staged(base, snapshot, k), k)
          \/ u \in r.gone
      BY <1>1, <1>2, <1>5, <2>2, RestackMarkers
    <3>2. u \in Culprits(f) \cup r.gone
      BY <3>1 DEF Culprits
    <3>3. QED BY <1>1, <3>2 DEF Ejected
  <2>3. CASE marker[u] = Nil
    <3>1. \/ u \in branch \/ u \in ToSet(origin) \/ u \in orphans
          \/ diag[u] \in {"batch", "restack"}
      BY <1>3, <1>4, <2>3 DEF Carried
    <3>2. diag[u] \in {"batch", "restack"} => diag'[u] \in {"batch", "restack"}
      BY <1>1 DEF Ejected
    <3>3. QED BY <1>3, <3>1, <3>2
  <2>4. QED BY <2>1, <2>2, <2>3
<1>11. QED BY <1>3, <1>4, <1>7, <1>8, <1>9, <1>10 DEF Carried

\* A step that writes nothing of a task keeps what is known of it.
LEMMA CarriedStays ==
    ASSUME FlushInv, FlushInv', Growth, TrainMoves,
           NEW u \in Task, Carried(u),
           marker'[u] = marker[u], evidence'[u] = evidence[u],
           pending'[u] = pending[u], u \in branch => u \in branch',
           state'[u] = "merged" => state[u] = "merged",
           diag[u] # "none" => diag'[u] = diag[u],
           u \in orphans => u \in orphans',
           \A g \in Flusher : u \in flush'[g].ids =>
              /\ u \in flush[g].ids
              /\ flush'[g].snapshot = flush[g].snapshot
    PROVE  Carried(u)'
<1>1. /\ u \in ToSet(origin) => u \in ToSet(origin')
      /\ \A c \in Commit : OnItsWay(c, u) => WayAfter(c, u)
  BY WayStep
<1>2. marker[u] \in Commit \cup {Nil} /\ pending[u] \in Commit \cup {Nil}
  BY DEF FlushInv, TrainTypeOK
<1>3. marker[u] # Nil => WayAfter(marker[u], u)
  BY <1>1, <1>2 DEF Carried
<1>4. pending[u] # Nil => WayAfter(pending[u], u)
  BY <1>1, <1>2 DEF Carried
<1>5. marker'[u] # Nil => OnItsWay(marker[u], u)'
  BY <1>3 DEF WayAfter, OnItsWay
<1>6. pending'[u] # Nil => OnItsWay(pending[u], u)'
  BY <1>4 DEF WayAfter, OnItsWay
<1>7. \A f \in Flusher : u \in flush'[f].ids =>
         u \in ToSet(flush'[f].snapshot) \cup ToSet(origin')
  BY <1>1 DEF Carried
<1>8. /\ evidence'[u] # Nil => u \in ToSet(evidence'[u]) \cup ToSet(origin')
      /\ state'[u] = "merged" => u \in ToSet(origin')
      /\ \/ u \in branch' \/ pending'[u] # Nil \/ marker'[u] # Nil
         \/ u \in ToSet(origin')
         \/ diag'[u] \in {"batch", "restack"}
         \/ u \in orphans'
  BY <1>1 DEF Carried
<1>9. QED BY <1>5, <1>6, <1>7, <1>8 DEF Carried

\* The steps of integrate.
LEMMA CarriedIntegrate ==
    ASSUME FlushInv, FlushInv', Growth, TrainMoves,
           NEW t \in Task,
           StageRefused(t) \/ Stage(t) \/ Mark(t) \/ CrashIntegrate(t),
           NEW u \in Task, Carried(u)
    PROVE  Carried(u)'
<1>0. TrainTypeOK /\ TrainTypeOK'
  BY DEF FlushInv
<1> USE DEF refs, records, world, counters
<1>1. CASE StageRefused(t)
  <2>1. /\ marker' = marker /\ evidence' = evidence /\ pending' = pending
        /\ branch' = branch /\ orphans' = orphans /\ flush' = flush
        /\ state'[u] = "merged" => state[u] = "merged"
        /\ diag[u] # "none" => diag'[u] = diag[u]
    BY <1>0, <1>1 DEF StageRefused, TrainTypeOK
  <2>2. QED BY <2>1, CarriedStays
<1>2. ASSUME t # u PROVE Carried(u)'
  <2>1. /\ marker'[u] = marker[u] /\ evidence'[u] = evidence[u]
        /\ pending'[u] = pending[u] /\ flush' = flush
        /\ u \in branch => u \in branch'
        /\ u \in orphans => u \in orphans'
        /\ state'[u] = "merged" => state[u] = "merged"
        /\ diag'[u] = diag[u]
    BY <1>0, <1>2 DEF StageRefused, Stage, Mark, CrashIntegrate, TrainTypeOK
  <2>2. QED BY <2>1, CarriedStays
<1>3. /\ u \in ToSet(origin) => u \in ToSet(origin')
      /\ \A c \in Commit : OnItsWay(c, u) => WayAfter(c, u)
  BY WayStep
<1>4. marker[u] \in Commit \cup {Nil} /\ pending[u] \in Commit \cup {Nil}
  BY <1>0 DEF TrainTypeOK
<1>5. /\ marker[u] # Nil => WayAfter(marker[u], u)
      /\ pending[u] # Nil => WayAfter(pending[u], u)
  BY <1>3, <1>4 DEF Carried
<1>6. CASE Stage(t) /\ t = u
  <2> DEFINE staged == Append(IF train = Nil THEN origin ELSE train, u)
  <2>1. /\ train' = staged /\ pending'[u] = staged /\ branch' = branch \ {u}
        /\ origin' = origin /\ flush' = flush
        /\ UNCHANGED <<state, marker, evidence, diag, orphans>>
    BY <1>0, <1>6 DEF Stage, TrainTypeOK
  <2>2. u \in Change /\ (IF train = Nil THEN origin ELSE train) \in Commit
    BY <1>0 DEF TrainTypeOK, Change
  <2>3. staged \in Commit /\ Len(staged) > 0 /\ staged[Len(staged)] = u
    <3>1. /\ Append(IF train = Nil THEN origin ELSE train, u) \in Commit
          /\ Len(staged) = Len(IF train = Nil THEN origin ELSE train) + 1
          /\ staged[Len(staged)] = u
      BY <2>2, AppendCommit
    <3>2. Len(IF train = Nil THEN origin ELSE train) \in Nat
      BY <2>2 DEF Commit
    <3>3. QED BY <3>1, <3>2
  <2> HIDE DEF staged
  <2>4. IsPrefix(staged, staged) /\ staged # Nil
    BY <2>3, PrefixReflexive, TrainAssumption DEF Commit
  <2>5. OnItsWay(pending[u], u)' /\ pending'[u] # Nil
    BY <2>1, <2>3, <2>4 DEF OnItsWay, Ends
  <2>6. marker'[u] # Nil => OnItsWay(marker[u], u)'
    BY <1>5, <2>1 DEF WayAfter, OnItsWay
  <2>7. QED BY <2>1, <2>5, <2>6 DEF Carried
<1>7. CASE Mark(t) /\ t = u
  <2>1. /\ pending[u] # Nil /\ marker'[u] = pending[u] /\ pending'[u] = Nil
        /\ state'[u] = "awaiting_merge" /\ flush' = flush /\ origin' = origin
        /\ UNCHANGED <<evidence, diag, branch, orphans>>
    BY <1>0, <1>7 DEF Mark, TrainTypeOK
  <2>2. OnItsWay(marker[u], u)'
    BY <1>5, <2>1 DEF WayAfter, OnItsWay
  <2>3. QED BY <2>1, <2>2 DEF Carried
<1>8. CASE CrashIntegrate(t) /\ t = u
  <2>1. /\ pending'[u] = Nil /\ u \in orphans' /\ flush' = flush
        /\ origin' = origin
        /\ UNCHANGED <<state, marker, evidence, diag, branch>>
    BY <1>0, <1>8 DEF CrashIntegrate, TrainTypeOK
  <2>2. marker'[u] # Nil => OnItsWay(marker[u], u)'
    BY <1>5, <2>1 DEF WayAfter, OnItsWay
  <2>3. QED BY <2>1, <2>2 DEF Carried
<1>9. QED BY <1>1, <1>2, <1>6, <1>7, <1>8

\* The steps of a flush that write records, and its snapshot.
LEMMA CarriedFlush ==
    ASSUME FlushInv, FlushInv', Growth, TrainMoves,
           NEW f \in Flusher, Snapshot(f) \/ Record(f) \/ Seal(f),
           NEW u \in Task, Carried(u)
    PROVE  Carried(u)'
<1>0. /\ TrainTypeOK /\ TrainTypeOK' /\ flush \in [Flusher -> FlushState]
      /\ origin \in Commit /\ tracked \in Commit
      /\ flush[f].snapshot \in Commit
  BY DEF FlushInv, TrainTypeOK, FlushState
<1> USE DEF refs, records, world, counters
<1>1. CASE Snapshot(f)
  <2>1. /\ UNCHANGED <<origin, train, branch, pending, state, marker, evidence,
                       diag, orphans>>
        /\ \A g \in Flusher \ {f} : flush'[g] = flush[g]
        /\ flush'[f].snapshot = train /\ flush'[f].ids = Covered(train)
    BY <1>0, <1>1 DEF Snapshot, Idle
  <2>2. u \in Covered(train) => u \in ToSet(train) \cup ToSet(origin)
    <3>1. SUFFICES ASSUME u \in Covered(train), u \notin ToSet(origin)
                   PROVE  u \in ToSet(train)
      OBVIOUS
    <3>2. OnItsWay(marker[u], u)
      BY <3>1 DEF Covered, Carried
    <3>3. /\ marker[u] \in Commit /\ u \in ToSet(marker[u])
          /\ train # Nil /\ IsPrefix(marker[u], train)
      BY <3>1, <3>2, EndsInside DEF OnItsWay, Ends
    <3>4. train \in Commit
      BY <1>0, <3>3 DEF TrainTypeOK
    <3>5. QED BY <3>3, <3>4, PrefixContents DEF Commit
  <2>3. OnItsWay(marker[u], u) => OnItsWay(marker[u], u)'
    BY <2>1 DEF OnItsWay
  <2>4. OnItsWay(pending[u], u) => OnItsWay(pending[u], u)'
    BY <2>1 DEF OnItsWay
  <2>5. \A g \in Flusher : u \in flush'[g].ids =>
           u \in ToSet(flush'[g].snapshot) \cup ToSet(origin')
    BY <2>1, <2>2 DEF Carried
  <2>6. QED BY <2>1, <2>3, <2>4, <2>5 DEF Carried
<1>2. CASE Record(f)
  <2> DEFINE ids == flush[f].ids
  <2>1. /\ UNCHANGED <<origin, train, branch, pending, state, diag, orphans>>
        /\ evidence'[u] = IF u \notin ids THEN evidence[u]
                          ELSE IF marker[u] = Nil THEN flush[f].snapshot
                          ELSE marker[u]
        /\ marker'[u] = IF u \in ids THEN Nil ELSE marker[u]
        /\ \A g \in Flusher : /\ flush'[g].ids = flush[g].ids
                              /\ flush'[g].snapshot = flush[g].snapshot
    BY <1>0, <1>2 DEF Record, FlushState
  <2>2. u \notin ids => Carried(u)'
    BY <2>1, CarriedStays
  <2>3. ASSUME u \in ids PROVE Carried(u)'
    <3>1. u \in ToSet(flush[f].snapshot) \cup ToSet(origin)
      BY <2>3 DEF Carried
    <3>2. IsPrefix(flush[f].snapshot, tracked) /\ IsPrefix(tracked, origin)
      BY <1>2 DEF Record, At, FlushInv, Knows, Tracks
    <3>3. ToSet(flush[f].snapshot) \subseteq ToSet(tracked)
      BY <1>0, <3>2, PrefixContents DEF Commit
    <3>4. ToSet(tracked) \subseteq ToSet(origin)
      BY <1>0, <3>2, PrefixContents DEF Commit
    <3>5. u \in ToSet(origin')
      BY <2>1, <3>1, <3>3, <3>4
    <3>6. OnItsWay(pending[u], u) => OnItsWay(pending[u], u)'
      BY <2>1 DEF OnItsWay
    <3>7. QED BY <2>1, <2>3, <3>5, <3>6 DEF Carried
  <2>4. QED BY <2>2, <2>3
<1>3. CASE Seal(f)
  <2>1. /\ UNCHANGED <<origin, train, branch, pending, marker, evidence, diag,
                       orphans>>
        /\ \/ state'[u] = state[u]
           \/ evidence[u] # Nil /\ IsPrefix(evidence[u], tracked)
        /\ \A g \in Flusher \ {f} : flush'[g] = flush[g]
        /\ flush'[f].ids = {}
    BY <1>0, <1>3 DEF Seal, Idle, TrainTypeOK
  <2>2. CASE state'[u] = state[u]
    BY <2>1, <2>2, CarriedStays
  <2>3. CASE evidence[u] # Nil /\ IsPrefix(evidence[u], tracked)
    <3>1. u \in ToSet(evidence[u]) \cup ToSet(origin)
      BY <2>3 DEF Carried
    <3>2. evidence[u] \in Commit
      BY <1>0, <2>3 DEF TrainTypeOK
    <3>3. ToSet(evidence[u]) \subseteq ToSet(tracked)
      BY <1>0, <2>3, <3>2, PrefixContents DEF Commit
    <3>4. ToSet(tracked) \subseteq ToSet(origin)
      BY <1>0, PrefixContents DEF FlushInv, Tracks, Commit
    <3>5. u \in ToSet(origin')
      BY <2>1, <3>1, <3>3, <3>4
    <3>6. /\ OnItsWay(pending[u], u) => OnItsWay(pending[u], u)'
          /\ OnItsWay(marker[u], u) => OnItsWay(marker[u], u)'
      BY <2>1 DEF OnItsWay
    <3>7. QED BY <2>1, <3>5, <3>6 DEF Carried
  <2>4. QED BY <2>1, <2>2, <2>3
<1>4. QED BY <1>1, <1>2, <1>3

\* Every step keeps track of the work of every task.
LEMMA TrainInvStep == TrainInv /\ [TrainNext]_trainVars => TrainInv'
<1> SUFFICES ASSUME TrainInv, [TrainNext]_trainVars PROVE TrainInv'
  OBVIOUS
<1>1. FlushInv /\ FlushInv' /\ Growth /\ TrainTypeOK /\ TrainTypeOK'
  BY FlushInvStep, GrowthStep DEF TrainInv, FlushInv
<1> USE DEF refs, records, world, counters
<1>2. guessed \subseteq guessed'
  <2>1. ASSUME NEW f \in Flusher, Eject(f) PROVE guessed \subseteq guessed'
    BY <1>1, <2>1, EjectUnfolds DEF Ejected
  <2>2. CASE \A f \in Flusher : ~Eject(f)
    <3>1. guessed' = guessed
      BY <2>2
      DEF TrainNext, FlushStep, StageRefused, Stage, Mark, CrashIntegrate,
          Start, CrashFlush, Snapshot, Empty, RunGreen, RunRed, RetryRed,
          BisectFinds, BisectFindsNone, Halt, LandCheckedOut, MoveBranch,
          PushBranch,
          LandRefused, Record, Seal, PushOutside, CommitLocally, Pull,
          trainVars
    <3>2. QED BY <3>1
  <2>3. QED BY <2>1, <2>2
<1>3. SUFFICES ASSUME NEW u \in Task \ guessed' PROVE Carried(u)'
  BY <1>1 DEF TrainInv
<1>4. u \in Task \ guessed /\ Carried(u)
  BY <1>2 DEF TrainInv
<1>5. ASSUME NEW f \in Flusher, Eject(f) PROVE Carried(u)'
  BY <1>1, <1>5, CarriedEject
<1>6. CASE \A f \in Flusher : ~Eject(f)
  <2>1. TrainMoves
    BY <1>1, <1>6, TrainMovesStep
  <2>2. ASSUME NEW t \in Task,
               StageRefused(t) \/ Stage(t) \/ Mark(t) \/ CrashIntegrate(t)
        PROVE  Carried(u)'
    BY <1>1, <1>4, <2>1, <2>2, CarriedIntegrate
  <2>3. ASSUME NEW f \in Flusher, Snapshot(f) \/ Record(f) \/ Seal(f)
        PROVE  Carried(u)'
    BY <1>1, <1>4, <2>1, <2>3, CarriedFlush
  <2>4. CASE /\ UNCHANGED <<branch, pending, state, marker, evidence, diag,
                            orphans>>
             /\ \A g \in Flusher :
                  \/ flush'[g].ids = {}
                  \/ /\ flush'[g].ids = flush[g].ids
                     /\ flush'[g].snapshot = flush[g].snapshot
    BY <1>1, <1>4, <2>1, <2>4, CarriedStays
  <2>5. ASSUME NEW f \in Flusher, NEW after \in FlushState,
               flush' = [flush EXCEPT ![f] = after],
               \/ after.ids = {}
               \/ /\ after.ids = flush[f].ids
                  /\ after.snapshot = flush[f].snapshot
        PROVE  \A g \in Flusher :
                 \/ flush'[g].ids = {}
                 \/ /\ flush'[g].ids = flush[g].ids
                    /\ flush'[g].snapshot = flush[g].snapshot
    BY <1>1, <2>5 DEF TrainTypeOK
  <2>6. ASSUME NEW f \in Flusher,
               \/ flush' = [flush EXCEPT ![f] = Idle]
               \/ \E at \in Stages : flush' = [flush EXCEPT ![f].at = at]
               \/ BisectFinds(f)
        PROVE  \A g \in Flusher :
                 \/ flush'[g].ids = {}
                 \/ /\ flush'[g].ids = flush[g].ids
                    /\ flush'[g].snapshot = flush[g].snapshot
    <3>1. flush \in [Flusher -> FlushState] /\ flush[f] \in FlushState
      BY <1>1 DEF TrainTypeOK
    <3>2. CASE flush' = [flush EXCEPT ![f] = Idle]
      BY <3>1, <3>2 DEF Idle
    <3>3. CASE \E at \in Stages : flush' = [flush EXCEPT ![f].at = at]
      BY <3>1, <3>3 DEF FlushState
    <3>4. CASE BisectFinds(f)
      <4>1. PICK k : flush' = [flush EXCEPT ![f].at = "ejecting",
                     ![f].base = TrainBase(flush[f].snapshot), ![f].k = k]
        BY <3>4 DEF BisectFinds
      <4>2. QED BY <3>1, <4>1 DEF FlushState
    <3>5. QED BY <2>6, <3>2, <3>3, <3>4
  <2>7. ASSUME NEW f \in Flusher,
               \/ Start(f) \/ CrashFlush(f) \/ Empty(f)
               \/ RunGreen(f) \/ RunRed(f) \/ RetryRed(f)
               \/ BisectFinds(f) \/ BisectFindsNone(f) \/ Halt(f)
               \/ LandCheckedOut(f) \/ MoveBranch(f)
               \/ PushBranch(f) \/ LandRefused(f)
        PROVE  Carried(u)'
    <3>1. UNCHANGED <<branch, pending, state, marker, evidence, diag, orphans>>
      BY <2>7
      DEF Start, CrashFlush, Empty, RunGreen, RunRed, RetryRed, BisectFinds,
          BisectFindsNone, Halt, LandCheckedOut, MoveBranch, PushBranch,
          LandRefused
    <3>2. \/ flush' = [flush EXCEPT ![f] = Idle]
          \/ \E at \in Stages : flush' = [flush EXCEPT ![f].at = at]
          \/ BisectFinds(f)
      BY <2>7
      DEF Start, CrashFlush, Empty, RunGreen, RunRed, RetryRed,
          BisectFindsNone, Halt, LandCheckedOut, MoveBranch, PushBranch,
          LandRefused,
          Push, Rejected, Stages
    <3>3. QED BY <2>4, <2>6, <3>1, <3>2
  <2>8. ASSUME NEW o \in Outsider, PushOutside(o) \/ CommitLocally(o)
        PROVE  Carried(u)'
    BY <2>4, <2>8 DEF PushOutside, CommitLocally
  <2>9. CASE Pull
    BY <2>4, <2>9 DEF Pull
  <2>10. CASE UNCHANGED trainVars
    BY <2>4, <2>10 DEF trainVars
  <2>11. QED BY <1>6, <2>2, <2>3, <2>7, <2>8, <2>9, <2>10
             DEF TrainNext, FlushStep
<1>7. QED BY <1>5, <1>6

-----------------------------------------------------------------------------
(* What is tested                                                           *)

\* Origin and the local branch, which is pushed by its name, hold no change
\* of a task but in a commit that the suite has passed on.
TestedInv == FlushInv /\ Tested(origin) /\ Tested(local)

\* A tested commit stays so when others commit on top of it.
LEMMA TestedAppend ==
    ASSUME NEW c \in Commit, passed \subseteq Commit, Tested(c),
           NEW o \in Outsider
    PROVE  Tested(Append(c, o))
<1>1. PICK d \in passed \cup {<<>>} :
        /\ IsPrefix(d, c)
        /\ \A i \in (Len(d) + 1)..Len(c) : c[i] \in Outsider
  BY DEF Tested
<1>2. d \in Commit /\ o \in Change
  BY EmptyCommit DEF Change
<1> DEFINE e == Append(c, o)
<1>3. /\ e \in Commit /\ IsPrefix(c, e) /\ Len(e) = Len(c) + 1
      /\ e[Len(e)] = o
  BY <1>2, AppendCommit
<1>4. \A i \in 1..Len(c) : e[i] = c[i]
  BY <1>3, PrefixElements DEF Commit
<1>5. Len(d) \in Nat /\ Len(c) \in Nat
  BY <1>2 DEF Commit
<1> HIDE DEF e
<1>6. IsPrefix(d, e)
  BY <1>1, <1>2, <1>3, PrefixTransitive DEF Commit
<1>7. ASSUME NEW i \in (Len(d) + 1)..Len(e) PROVE e[i] \in Outsider
  <2>1. CASE i = Len(e)
    BY <1>3, <2>1
  <2>2. CASE i # Len(e)
    <3>1. i \in (Len(d) + 1)..Len(c) /\ i \in 1..Len(c)
      BY <1>3, <1>5, <2>2
    <3>2. QED BY <1>1, <1>4, <3>1
  <2>3. QED BY <2>1, <2>2
<1>8. Tested(e)
  BY <1>6, <1>7 DEF Tested
<1>9. QED BY <1>8 DEF e

\* What the suite has passed on is tested, and so is nothing.
LEMMA PassedIsTested ==
    ASSUME NEW c \in Commit, c \in passed \cup {<<>>}
    PROVE  Tested(c)
<1>1. IsPrefix(c, c) /\ Len(c) \in Nat
  BY PrefixReflexive DEF Commit
<1>2. QED BY <1>1 DEF Tested

\* Nothing is on any branch at the start,
LEMMA TestedInvInit == TrainInit => TestedInv
  BY FlushInvInit, EmptyCommit, PassedIsTested DEF TrainInit, TestedInv

\* and every step moves origin and the local branch to what was tested.
LEMMA TestedInvStep == TestedInv /\ [TrainNext]_trainVars => TestedInv'
<1> SUFFICES ASSUME TestedInv, [TrainNext]_trainVars PROVE TestedInv'
  OBVIOUS
<1>1. /\ FlushInv /\ FlushInv' /\ passed \subseteq passed' /\ TrainTypeOK
      /\ passed' \subseteq Commit /\ origin \in Commit /\ local \in Commit
  BY FlushInvStep, GrowthStep DEF TestedInv, FlushInv, TrainTypeOK, Growth
<1>2. Tested(origin) /\ Tested(local)
  BY DEF TestedInv
<1>3. CASE origin' \in {origin, local} /\ local' \in {origin, local}
  <2>1. ASSUME NEW c \in {origin, local}
        PROVE  \E e \in passed' \cup {<<>>} :
                 /\ IsPrefix(e, c)
                 /\ \A i \in (Len(e) + 1)..Len(c) : c[i] \in Outsider
    BY <1>1, <1>2, <2>1 DEF Tested
  <2>2. QED BY <1>1, <1>3, <2>1 DEF TestedInv, Tested
<1> USE DEF refs, records, world, counters
<1>4. ASSUME NEW o \in Outsider, PushOutside(o) \/ CommitLocally(o)
      PROVE  TestedInv'
  <2>1. /\ passed' = passed
        /\ origin' \in {origin, Append(origin, o)}
        /\ local' \in {local, Append(local, o)}
    BY <1>4 DEF PushOutside, CommitLocally
  <2>2. Tested(Append(origin, o)) /\ Tested(Append(local, o))
    BY <1>1, <1>2, <2>1, TestedAppend
  <2>3. QED BY <1>1, <1>2, <2>1, <2>2 DEF TestedInv, Tested
<1>5. ASSUME NEW f \in Flusher,
             LandCheckedOut(f) \/ MoveBranch(f) \/ PushBranch(f)
      PROVE  TestedInv'
  <2>1. /\ passed' = passed
        /\ origin' \in {origin, local, flush[f].snapshot}
        /\ local' \in {local, flush[f].snapshot}
    BY <1>5 DEF LandCheckedOut, MoveBranch, PushBranch, Push, Rejected, Landed
  <2>2. Tested(flush[f].snapshot)
    <3>1. flush[f].snapshot \in passed /\ flush[f].snapshot \in Commit
      BY <1>1, <1>5
      DEF LandCheckedOut, MoveBranch, PushBranch, FlushInv, Knows, At,
          TrainTypeOK, FlushState
    <3>2. QED BY <3>1, PassedIsTested
  <2>3. QED BY <1>1, <1>2, <2>1, <2>2 DEF TestedInv, Tested
<1>6. ASSUME NEW f \in Flusher, Eject(f) PROVE UNCHANGED <<origin, local>>
  BY <1>1, <1>6, EjectUnfolds DEF Ejected
<1>7. CASE /\ \A f \in Flusher : /\ ~LandCheckedOut(f) /\ ~MoveBranch(f)
                                 /\ ~PushBranch(f) /\ ~Eject(f)
           /\ \A o \in Outsider : ~PushOutside(o) /\ ~CommitLocally(o)
  <2>1. origin' = origin /\ local' \in {origin, local}
    BY <1>7
    DEF TrainNext, FlushStep, StageRefused, Stage, Mark, CrashIntegrate,
        Start, CrashFlush, Snapshot, Empty, RunGreen, RunRed, RetryRed,
        BisectFinds, BisectFindsNone, Halt, LandRefused, Record, Seal, Pull,
        trainVars
  <2>2. QED BY <1>3, <2>1
<1>8. QED BY <1>3, <1>4, <1>5, <1>6, <1>7

-----------------------------------------------------------------------------
(* Who is blamed                                                            *)

Domestic == \A b \in Breaks : b \subseteq Task

\* A commit that passed does not break, nor does origin, which has nothing
\* of a task untested, when others break nothing; and while no run was a
\* flake, the culprit's prefix is the first to break.
PassedIsGreen == \A c \in passed : ~Red(c)
CulpritBreaks(f) ==
    At(f, "ejecting") =>
      /\ Red(Staged(flush[f].base, flush[f].snapshot, flush[f].k))
      /\ Turns(flush[f].base, flush[f].snapshot, flush[f].k)
BlameInv ==
    /\ TrainInv /\ TestedInv /\ PassedIsGreen
    /\ flakes = 0 => \A f \in Flusher : CulpritBreaks(f)
    /\ OnlyCulpritsBlamed

\* What is tested does not break, when others break nothing.
LEMMA TestedIsGreen ==
    ASSUME PassedIsGreen, passed \subseteq Commit, Domestic,
           NEW c \in Commit, Tested(c)
    PROVE  ~Red(c)
<1>1. PICK d \in passed \cup {<<>>} :
        /\ IsPrefix(d, c)
        /\ \A i \in (Len(d) + 1)..Len(c) : c[i] \in Outsider
  BY DEF Tested
<1>2. d \in Commit
  BY EmptyCommit
<1>3. ~Red(d)
  <2>1. CASE d = <<>>
    <3>1. ToSet(d) = {}
      BY <2>1 DEF ToSet
    <3>2. QED BY <3>1, TrainAssumption DEF Red
  <2>2. QED BY <1>1, <2>1 DEF PassedIsGreen
<1>4. ASSUME NEW t \in Task, t \in ToSet(c) PROVE t \in ToSet(d)
  <2>1. PICK i \in 1..Len(c) : c[i] = t
    BY <1>4 DEF ToSet, Commit
  <2>2. t \notin Outsider
    BY TrainAssumption
  <2>3. Len(d) \in Nat /\ Len(c) \in Nat
    BY <1>2 DEF Commit
  <2>4. i \in 1..Len(d)
    BY <1>1, <2>1, <2>2, <2>3
  <2>5. d[i] = c[i]
    BY <1>1, <1>2, <2>4, PrefixElements DEF Commit
  <2>6. QED BY <1>2, <2>1, <2>4, <2>5 DEF ToSet, Commit
<1>5. QED BY <1>3, <1>4 DEF Red, Domestic

\* Nobody is blamed at the start.
LEMMA BlameInvInit == TrainInit => BlameInv
<1> SUFFICES ASSUME TrainInit PROVE BlameInv
  OBVIOUS
<1>2. \A f \in Flusher : CulpritBreaks(f)
  BY DEF TrainInit, CulpritBreaks, At, Idle
<1>3. OnlyCulpritsBlamed
  BY DEF TrainInit, OnlyCulpritsBlamed
<1>4. PassedIsGreen
  BY DEF TrainInit, PassedIsGreen
<1>5. QED BY <1>2, <1>3, <1>4, TrainInvInit, TestedInvInit DEF BlameInv

\* Flakes, guesses and tested commits only add up.
LEMMA Monotone ==
    TrainInv /\ [TrainNext]_trainVars =>
        /\ flakes' = 0 => flakes = 0
        /\ guessed \subseteq guessed'
<1> SUFFICES ASSUME TrainInv, [TrainNext]_trainVars
             PROVE  /\ flakes' = 0 => flakes = 0
                    /\ guessed \subseteq guessed'
  OBVIOUS
<1>1. flakes \in Nat
  BY DEF TrainInv, FlushInv, TrainTypeOK
<1> USE DEF refs, records, world, counters
<1>2. ASSUME NEW f \in Flusher, Eject(f)
      PROVE  flakes' = flakes /\ guessed \subseteq guessed'
  BY <1>2, EjectUnfolds DEF Ejected, TrainInv
<1>3. ASSUME NEW f \in Flusher, RunRed(f) \/ RetryRed(f) \/ BisectFinds(f)
      PROVE  (flakes' = flakes \/ flakes' = flakes + 1) /\ guessed' = guessed
  BY <1>3 DEF RunRed, RetryRed, BisectFinds, ShowsRed
<1>4. CASE \A f \in Flusher :
             ~Eject(f) /\ ~RunRed(f) /\ ~RetryRed(f) /\ ~BisectFinds(f)
  <2>1. flakes' = flakes /\ guessed' = guessed
    BY <1>4
    DEF TrainNext, FlushStep, StageRefused, Stage, Mark, CrashIntegrate,
        Start, CrashFlush, Snapshot, Empty, RunGreen, BisectFindsNone, Halt,
        LandCheckedOut, MoveBranch, PushBranch, LandRefused, Record, Seal,
        PushOutside,
        CommitLocally, Pull, trainVars
  <2>2. QED BY <2>1
<1>5. QED BY <1>1, <1>2, <1>3, <1>4

\* Who is ejected for a failure has a part in it.
LEMMA CulpritHasPart ==
    ASSUME BlameInv, NEW f \in Flusher, Eject(f), flakes = 0, guessed' = {},
           Domestic, NEW t \in Culprits(f)
    PROVE  \E b \in Breaks : t \in b
<1> DEFINE base == flush[f].base
           snapshot == flush[f].snapshot
           k == flush[f].k
           x == Len(base) + k
           c == Staged(base, snapshot, k)
<1>1. FlushInv /\ TrainTypeOK /\ flush[f] \in FlushState
  BY DEF BlameInv, TrainInv, FlushInv, TrainTypeOK
<1>2. At(f, "ejecting")
  BY DEF Eject
<1>3. /\ base \in Commit /\ snapshot \in Commit
      /\ IsPrefix(base, snapshot) /\ IsPrefix(base, origin)
      /\ k \in 1..Count(base, snapshot)
  BY <1>1, <1>2 DEF FlushInv, Knows, FlushState
<1> HIDE DEF base, snapshot, k
<1>4. /\ Len(base) \in Nat /\ Len(snapshot) \in Nat /\ k \in Nat /\ k >= 1
      /\ x \in 1..Len(snapshot) /\ Count(base, snapshot) = Len(snapshot) - Len(base)
  <2>1. Len(base) \in Nat /\ Len(snapshot) \in Nat
    BY <1>3 DEF Commit
  <2>2. Count(base, snapshot) = Len(snapshot) - Len(base)
    BY DEF Count
  <2>3. k \in 1..(Len(snapshot) - Len(base))
    BY <1>3, <2>2
  <2>4. QED BY <2>1, <2>2, <2>3 DEF x
<1>5. Red(c) /\ Turns(base, snapshot, k)
  BY <1>2 DEF BlameInv, CulpritBreaks, base, snapshot, k, c
<1>6. c = SubSeq(snapshot, 1, x)
  BY DEF Staged, c, x
<1> HIDE DEF x, c
<1>7. c \in Commit /\ IsPrefix(c, snapshot) /\ Len(c) = x /\ c[Len(c)] = snapshot[x]
  BY <1>3, <1>4, <1>6, HistoryAt
<1>8. guessed = {} /\ ByMarker(c) # {}
  <2>1. PICK r : Ejected(f, r)
    BY <1>1, EjectUnfolds
  <2>2. GuessedFrom(base, snapshot, k) = {} /\ guessed = {}
    BY <2>1 DEF Ejected, base, snapshot, k
  <2>3. SUFFICES ASSUME ByMarker(c) = {} PROVE FALSE
    BY <2>2
  <2>4. t \in ByPlace(k)
    BY <2>3 DEF Culprits, Owner, base, snapshot, k, c
  <2>5. k \in k..Count(base, snapshot)
    BY <1>3, <1>4
  <2>6. t \in GuessedFrom(base, snapshot, k)
    BY <2>3, <2>4, <2>5 DEF GuessedFrom, c
  <2>7. QED BY <2>2, <2>6
<1>9. t \in Task /\ marker[t] = c
  BY <1>8 DEF Culprits, Owner, ByMarker, base, snapshot, k, c
<1>10. c[Len(c)] = t
  <2>1. Carried(t) /\ marker[t] # Nil
    BY <1>7, <1>8, <1>9, TrainAssumption DEF BlameInv, TrainInv
  <2>2. Ends(marker[t], t)
    BY <2>1 DEF Carried, OnItsWay
  <2>3. QED BY <1>9, <2>2 DEF Ends
\* What the culprit's prefix adds to its predecessor is t.
<1> DEFINE y == Len(base) + (k - 1)
           d == SubSeq(snapshot, 1, y)
<1>11. y \in 0..Len(snapshot) /\ x = y + 1
  BY <1>4 DEF x, y
<1>12. /\ d \in Commit /\ IsPrefix(d, snapshot) /\ Len(d) = y
       /\ \A j \in 1..y : d[j] = snapshot[j]
  BY <1>3, <1>11, Beginning DEF Commit, d
<1> HIDE DEF d, y
<1>13. ToSet(c) \subseteq ToSet(d) \cup {t}
  <2>1. SUFFICES ASSUME NEW j \in 1..x
                 PROVE  c[j] \in ToSet(d) \cup {t}
    <3>1. DOMAIN c = 1..x
      BY <1>7 DEF Commit
    <3>2. QED BY <3>1 DEF ToSet
  <2>2. CASE j = x
    BY <1>7, <1>10, <2>2
  <2>3. CASE j # x
    <3>1. j \in 1..y /\ y \in Nat
      BY <1>11, <2>3
    <3>2. c[j] = snapshot[j]
      BY <1>3, <1>7, PrefixElements DEF Commit
    <3>3. d[j] = snapshot[j] /\ j \in DOMAIN d
      BY <1>12, <3>1 DEF Commit
    <3>4. QED BY <3>2, <3>3 DEF ToSet
  <2>4. QED BY <2>2, <2>3
<1>14. ~Red(d)
  <2>1. CASE k > 1
    <3>1. d = Staged(base, snapshot, k - 1)
      BY DEF Staged, d, y
    <3>2. QED BY <1>5, <2>1, <3>1 DEF Turns
  <2>2. CASE ~(k > 1)
    <3>1. y = Len(base)
      BY <1>4, <2>2 DEF y
    <3>2. d = base
      BY <1>3, <3>1, PrefixIsBeginning DEF d, Commit
    <3>3. origin \in Commit
      BY <1>1 DEF TrainTypeOK
    <3>4. ToSet(d) \subseteq ToSet(origin)
      BY <1>3, <3>2, <3>3, PrefixContents DEF Commit
    <3>5. ~Red(origin)
      BY <1>1, <3>3, TestedIsGreen DEF BlameInv, TestedInv, TrainTypeOK
    <3>6. QED BY <3>4, <3>5 DEF Red
  <2>3. QED BY <2>1, <2>2
<1>15. PICK b \in Breaks : b \subseteq ToSet(c)
  BY <1>5 DEF Red
<1>16. ~(b \subseteq ToSet(d))
  BY <1>14 DEF Red
<1>17. QED BY <1>13, <1>15, <1>16

\* Every step blames only who has a part in the failure.
LEMMA BlameInvStep == BlameInv /\ [TrainNext]_trainVars => BlameInv'
<1> SUFFICES ASSUME BlameInv, [TrainNext]_trainVars PROVE BlameInv'
  OBVIOUS
<1>1. TrainInv /\ TrainInv' /\ FlushInv /\ TrainTypeOK /\ Growth
  BY TrainInvStep, GrowthStep DEF BlameInv, TrainInv, FlushInv
<1>2. (flakes' = 0 => flakes = 0) /\ guessed \subseteq guessed'
  BY <1>1, Monotone
<1>3. flush \in [Flusher -> FlushState]
  BY <1>1 DEF TrainTypeOK
<1> USE DEF refs, records, world, counters
<1>4. PassedIsGreen'
  <2>1. ASSUME NEW f \in Flusher, RunGreen(f) PROVE PassedIsGreen'
    BY <2>1 DEF RunGreen, BlameInv, PassedIsGreen, Red
  <2>2. CASE passed' = passed
    BY <2>2 DEF BlameInv, PassedIsGreen, Red
  <2>3. CASE \A f \in Flusher : ~RunGreen(f)
    <3>1. ASSUME NEW f \in Flusher, Eject(f) PROVE passed' = passed
      BY <1>1, <3>1, EjectUnfolds DEF Ejected
    <3>2. CASE \A f \in Flusher : ~Eject(f)
      <4>1. passed' = passed
        BY <2>3, <3>2
        DEF TrainNext, FlushStep, StageRefused, Stage, Mark, CrashIntegrate,
            Start, CrashFlush, Snapshot, Empty, RunRed, RetryRed, BisectFinds,
            BisectFindsNone, Halt, LandCheckedOut, MoveBranch, PushBranch,
            LandRefused,
            Record, Seal, PushOutside, CommitLocally, Pull, trainVars
      <4>2. QED BY <2>2, <4>1
    <3>3. QED BY <2>2, <3>1, <3>2
  <2>4. QED BY <2>1, <2>3
<1>5. TestedInv'
  BY TestedInvStep DEF BlameInv
<1>6. flakes' = 0 => \A f \in Flusher : CulpritBreaks(f)'
  <2>1. SUFFICES ASSUME flakes' = 0, NEW g \in Flusher, flush'[g].at = "ejecting"
                 PROVE  CulpritBreaks(g)'
    BY DEF CulpritBreaks, At
  <2>2. flakes = 0 /\ CulpritBreaks(g)
    BY <1>2, <2>1 DEF BlameInv
  <2>3. CASE flush'[g] = flush[g]
    BY <2>2, <2>3 DEF CulpritBreaks, At, Red, Staged, Turns
  <2>4. CASE BisectFinds(g)
    <3> DEFINE tip == flush[g].snapshot
               base == TrainBase(tip)
    <3>1. PICK k \in 1..Count(base, tip) :
            /\ Turns(base, tip, k)
            /\ ShowsRed(Staged(base, tip, k))
            /\ flush' = [flush EXCEPT ![g].at = "ejecting", ![g].base = base,
                                      ![g].k = k]
      BY <2>4 DEF BisectFinds
    <3>2. Red(Staged(base, tip, k))
      BY <2>1, <2>2, <3>1 DEF ShowsRed
    <3> HIDE DEF base
    <3>3. flush'[g].base = base /\ flush'[g].k = k /\ flush'[g].snapshot = tip
      BY <1>3, <3>1 DEF FlushState
    <3>4. QED BY <3>1, <3>2, <3>3 DEF CulpritBreaks, Turns, Staged, Red
  <2>5. CASE flush' # flush /\ ~BisectFinds(g) /\ flush'[g] # flush[g]
    <3>1. ASSUME NEW f \in Flusher, Eject(f) PROVE FALSE
      <4>1. PICK r : Ejected(f, r)
        BY <1>1, <3>1, EjectUnfolds
      <4>2. flush' = [flush EXCEPT ![f] =
               IF r.emptied THEN Idle ELSE [Idle EXCEPT !.at = "starting"]]
        BY <4>1 DEF Ejected
      <4>3. QED BY <1>3, <2>1, <2>5, <4>2 DEF Idle
    <3>2. ASSUME NEW f \in Flusher, BisectFinds(f) PROVE FALSE
      <4>1. f # g
        BY <2>5, <3>2
      <4>2. PICK k : flush' = [flush EXCEPT ![f].at = "ejecting",
                     ![f].base = TrainBase(flush[f].snapshot), ![f].k = k]
        BY <3>2 DEF BisectFinds
      <4>3. flush'[g] = flush[g]
        BY <1>3, <4>1, <4>2
      <4>4. QED BY <2>5, <4>3
    <3>3. ASSUME NEW f \in Flusher,
                 \/ flush' = [flush EXCEPT ![f] = Idle]
                 \/ \E at \in Stages \ {"ejecting"} :
                      flush' = [flush EXCEPT ![f].at = at]
                 \/ Snapshot(f)
          PROVE  FALSE
      <4>1. flush[f] \in FlushState
        BY <1>3
      <4>2. CASE flush' = [flush EXCEPT ![f] = Idle]
        BY <1>3, <2>1, <2>5, <4>2 DEF Idle
      <4>3. CASE \E at \in Stages \ {"ejecting"} :
                      flush' = [flush EXCEPT ![f].at = at]
        BY <1>3, <2>1, <2>5, <4>1, <4>3 DEF FlushState
      <4>4. CASE Snapshot(f)
        BY <1>3, <2>1, <2>5, <4>4 DEF Snapshot, Idle
      <4>5. QED BY <3>3, <4>2, <4>3, <4>4
    <3>4. ASSUME NEW f \in Flusher,
                 \/ Start(f) \/ CrashFlush(f) \/ Empty(f)
                 \/ RunGreen(f) \/ RunRed(f) \/ RetryRed(f)
                 \/ BisectFindsNone(f) \/ Halt(f) \/ Record(f) \/ Seal(f)
                 \/ LandCheckedOut(f) \/ MoveBranch(f)
                 \/ PushBranch(f) \/ LandRefused(f)
          PROVE  \/ flush' = [flush EXCEPT ![f] = Idle]
                 \/ \E at \in Stages \ {"ejecting"} :
                      flush' = [flush EXCEPT ![f].at = at]
      BY <3>4
      DEF Start, CrashFlush, Empty, RunGreen, RunRed, RetryRed,
          BisectFindsNone, Halt, LandCheckedOut, MoveBranch, PushBranch,
          LandRefused,
          Push, Rejected, Record, Seal, Stages
    <3>5. ASSUME NEW t \in Task,
                 StageRefused(t) \/ Stage(t) \/ Mark(t) \/ CrashIntegrate(t)
          PROVE  FALSE
      BY <2>5, <3>5 DEF StageRefused, Stage, Mark, CrashIntegrate
    <3>6. ASSUME NEW o \in Outsider, PushOutside(o) \/ CommitLocally(o)
          PROVE  FALSE
      BY <2>5, <3>6 DEF PushOutside, CommitLocally
    <3>7. CASE Pull \/ UNCHANGED trainVars
      BY <2>5, <3>7 DEF Pull, trainVars
    <3>8. QED BY <3>1, <3>2, <3>3, <3>4, <3>5, <3>6, <3>7
              DEF TrainNext, FlushStep
  <2>6. QED BY <2>3, <2>4, <2>5
<1>7. OnlyCulpritsBlamed'
  <2>1. SUFFICES ASSUME flakes' = 0, guessed' = {}, Domestic,
                        NEW t \in Task, diag'[t] = "batch"
                 PROVE  \E b \in Breaks : t \in b
    BY DEF OnlyCulpritsBlamed, Domestic
  <2>2. flakes = 0 /\ guessed = {}
    BY <1>2, <2>1
  <2>3. CASE diag[t] = "batch"
    BY <2>1, <2>2, <2>3 DEF BlameInv, OnlyCulpritsBlamed, Domestic
  <2>4. CASE diag[t] # "batch"
    <3>1. ASSUME NEW f \in Flusher, Eject(f)
          PROVE  \E b \in Breaks : t \in b
      <4>1. PICK r : Ejected(f, r)
        BY <1>1, <3>1, EjectUnfolds
      <4>2. t \in Culprits(f)
        BY <2>1, <2>4, <4>1 DEF Ejected
      <4>3. QED BY <2>1, <2>2, <3>1, <4>2, CulpritHasPart
    <3>2. ASSUME NEW u \in Task, StageRefused(u) PROVE FALSE
      BY <1>1, <2>1, <2>4, <3>2 DEF StageRefused, TrainTypeOK
    <3>3. CASE /\ \A f \in Flusher : ~Eject(f)
               /\ \A u \in Task : ~StageRefused(u)
      <4>1. diag' = diag
        BY <3>3
        DEF TrainNext, FlushStep, Stage, Mark, CrashIntegrate,
            Start, CrashFlush, Snapshot, Empty, RunGreen, RunRed, RetryRed,
            BisectFinds, BisectFindsNone, Halt, LandCheckedOut, MoveBranch,
            PushBranch,
            LandRefused, Record, Seal, PushOutside, CommitLocally, Pull,
            trainVars
      <4>2. QED BY <2>1, <2>4, <4>1
    <3>4. QED BY <3>1, <3>2, <3>3
  <2>5. QED BY <2>3, <2>4
<1>8. QED BY <1>1, <1>4, <1>5, <1>6, <1>7 DEF BlameInv

-----------------------------------------------------------------------------
(* What an ejection does to a train that has the snapshot                   *)

\* A change stands at one place of a history at most.
Once(c, t) == \A i, j \in 1..Len(c) : c[i] = t /\ c[j] = t => i = j

\* A change on top of a history that does not have it.
LEMMA OnceAppend ==
    ASSUME NEW c \in Commit, NEW x \in Change, NEW t
    PROVE  /\ x # t /\ Once(c, t) => Once(Append(c, x), t)
           /\ t \notin ToSet(c) => Once(Append(c, t), t)
<1>1. c \in Seq(Change) /\ Len(c) \in Nat
  BY DEF Commit
<1>2. ASSUME x # t, Once(c, t) PROVE Once(Append(c, x), t)
  <2>1. SUFFICES ASSUME NEW i \in 1..Len(Append(c, x)), NEW j \in 1..Len(Append(c, x)),
                        Append(c, x)[i] = t, Append(c, x)[j] = t
                 PROVE  i = j
    BY DEF Once
  <2>2. i # Len(c) + 1 /\ j # Len(c) + 1
    BY <1>1, <1>2, <2>1
  <2>3. i \in 1..Len(c) /\ j \in 1..Len(c) /\ c[i] = t /\ c[j] = t
    BY <1>1, <2>1, <2>2
  <2>4. QED BY <1>2, <2>3 DEF Once
<1>3. ASSUME t \notin ToSet(c) PROVE Once(Append(c, t), t)
  <2>1. SUFFICES ASSUME NEW i \in 1..Len(Append(c, t)), NEW j \in 1..Len(Append(c, t)),
                        Append(c, t)[i] = t, Append(c, t)[j] = t
                 PROVE  i = j
    BY DEF Once
  <2>2. ASSUME NEW n1 \in 1..Len(c) PROVE Append(c, t)[n1] # t
    BY <1>1, <1>3 DEF ToSet
  <2>3. Len(Append(c, t)) = Len(c) + 1
    BY <1>1
  <2>4. i \notin 1..Len(c) /\ j \notin 1..Len(c)
    BY <2>1, <2>2
  <2>5. QED BY <1>1, <2>3, <2>4
<1>4. QED BY <1>2, <1>3

\* A change that a history has once, its ancestors have once.
LEMMA OnceBefore ==
    ASSUME NEW c \in Commit, NEW d \in Commit, IsPrefix(c, d), NEW t, Once(d, t)
    PROVE  Once(c, t)
<1>1. /\ Len(c) <= Len(d) /\ Len(c) \in Nat /\ Len(d) \in Nat
      /\ \A i \in 1..Len(c) : c[i] = d[i]
  BY PrefixElements DEF Commit
<1>2. QED BY <1>1 DEF Once

\* Picks do not repeat a change.
LEMMA OncePicked ==
    ASSUME NEW bottom \in Commit, NEW picks \in Seq(Pick), NEW bad,
           NEW t, Once(bottom, t)
    PROVE  Once(Picked(bottom, picks, bad), t)
<1>1. PICK f : /\ TipsOf(f, bottom, picks, bad, Len(picks))
               /\ Picked(bottom, picks, bad) = f[Len(picks)]
  BY PickedTips
<1> DEFINE T == {x \in 0..Len(picks) : ~Once(f[x], t)}
<1>2. Len(picks) \in Nat
  OBVIOUS
<1>3. T = {}
  <2>1. SUFFICES ASSUME T # {} PROVE FALSE
    OBVIOUS
  <2>2. T \subseteq Nat
    OBVIOUS
  <2>3. PICK x \in T : \A y \in T : x <= y
    <3> HIDE DEF T
    <3>1. QED BY <2>1, <2>2, LeastNatural
  <2>4. x # 0
    BY <1>1, <2>3 DEF TipsOf
  <2>5. x - 1 \in 0..Len(picks) /\ x \in 1..Len(picks) /\ Once(f[x - 1], t)
    BY <2>3, <2>4
  <2>6. /\ f[x] = Grown(f[x - 1], picks[x].change, bad)
        /\ f[x - 1] \in Commit /\ picks[x].change \in Change
    BY <1>1, <2>5, TipsStep
  <2>7. Once(f[x], t)
    <3>1. CASE picks[x].change \in bad \cup ToSet(f[x - 1])
      BY <2>5, <2>6, <3>1 DEF Grown
    <3>2. CASE picks[x].change \notin bad \cup ToSet(f[x - 1])
      <4>1. f[x] = Append(f[x - 1], picks[x].change)
        BY <2>6, <3>2 DEF Grown
      <4>2. CASE picks[x].change = t
        BY <2>6, <3>2, <4>1, <4>2, OnceAppend
      <4>3. CASE picks[x].change # t
        BY <2>5, <2>6, <4>1, <4>3, OnceAppend
      <4>4. QED BY <4>2, <4>3
    <3>3. QED BY <3>1, <3>2
  <2>8. QED BY <2>3, <2>7
<1>4. QED BY <1>1, <1>2, <1>3

\* A pick adds one commit at most.
LEMMA PickedLength ==
    ASSUME NEW bottom \in Commit, NEW picks \in Seq(Pick), NEW bad
    PROVE  Len(Picked(bottom, picks, bad)) <= Len(bottom) + Len(picks)
<1>1. PICK f : /\ TipsOf(f, bottom, picks, bad, Len(picks))
               /\ Picked(bottom, picks, bad) = f[Len(picks)]
  BY PickedTips
<1>2. Len(picks) \in Nat /\ Len(bottom) \in Nat
  BY DEF Commit
<1> DEFINE T == {x \in 0..Len(picks) : ~(Len(f[x]) <= Len(bottom) + x)}
<1>3. T = {}
  <2>1. SUFFICES ASSUME T # {} PROVE FALSE
    OBVIOUS
  <2>2. T \subseteq Nat
    OBVIOUS
  <2>3. PICK x \in T : \A y \in T : x <= y
    <3> HIDE DEF T
    <3>1. QED BY <2>1, <2>2, LeastNatural
  <2>4. x # 0
    BY <1>1, <1>2, <2>3 DEF TipsOf
  <2>5. /\ x - 1 \in 0..Len(picks) /\ x \in 1..Len(picks)
        /\ Len(f[x - 1]) <= Len(bottom) + (x - 1)
    BY <2>3, <2>4
  <2>6. /\ f[x] = Grown(f[x - 1], picks[x].change, bad)
        /\ f[x - 1] \in Commit /\ picks[x].change \in Change
    BY <1>1, <2>5, TipsStep
  <2>7. Len(f[x - 1]) \in Nat /\ Len(f[x]) <= Len(f[x - 1]) + 1
    <3>1. Len(f[x - 1]) \in Nat
      BY <2>6 DEF Commit
    <3>2. Len(Append(f[x - 1], picks[x].change)) = Len(f[x - 1]) + 1
      BY <2>6, AppendCommit
    <3>3. f[x] = f[x - 1] \/ f[x] = Append(f[x - 1], picks[x].change)
      BY <2>6 DEF Grown
    <3>4. QED BY <3>1, <3>2, <3>3
  <2>8. f[x] \in Commit
    BY <1>1, <2>5, TipsStep
  <2>9. Len(f[x]) \in Nat
    BY <2>8 DEF Commit
  <2>10. Len(f[x]) <= Len(bottom) + x
    BY <1>2, <2>5, <2>7, <2>9
  <2>11. QED BY <2>3, <2>10
<1>4. QED BY <1>1, <1>2, <1>3

\* Where the train still has the snapshot, an ejection picks what stands on
\* it past the culprit, in order.
LEMMA PicksOfTrain ==
    ASSUME TrainTypeOK,
           NEW base, NEW snapshot, NEW k, NEW now, NEW bad, NEW bottom,
           NEW picks, NEW tip, NEW r,
           Ejection(base, snapshot, k, now, bad, bottom, picks, tip, r),
           IsPrefix(snapshot, now),
           NEW p, p = Len(base) + k
    PROVE  /\ p \in 1..Len(now) /\ Len(now) \in Nat
           /\ bottom \in Commit /\ IsPrefix(bottom, now) /\ Len(bottom) = p - 1
           /\ Staged(base, snapshot, k) = SubSeq(now, 1, p)
           /\ picks \in Seq(Pick) /\ Len(picks) = Len(now) - p
           /\ \A i \in 1..Len(picks) :
                p + i \in 1..Len(now) /\ picks[i].change = now[p + i]
<1>1. /\ base \in Commit /\ snapshot \in Commit /\ now \in Commit
      /\ IsPrefix(base, snapshot) /\ k \in 1..Count(base, snapshot)
      /\ picks = Replayed(base, snapshot, k, now)
  BY DEF Ejection
<1>2. /\ picks \in Seq(Pick) /\ bottom \in Commit /\ IsPrefix(bottom, snapshot)
      /\ Len(bottom) = Len(base) + (k - 1)
  BY EjectionTypes
<1>3. /\ Len(base) \in Nat /\ Len(snapshot) \in Nat /\ Len(now) \in Nat
      /\ Count(base, snapshot) = Len(snapshot) - Len(base)
      /\ Len(snapshot) <= Len(now)
      /\ \A i \in 1..Len(snapshot) : snapshot[i] = now[i]
  BY <1>1, PrefixElements DEF Commit, Count
<1>4. /\ k \in Nat /\ p \in 1..Len(snapshot) /\ p \in 1..Len(now)
      /\ Len(bottom) = p - 1
  BY <1>1, <1>2, <1>3
<1>5. IsPrefix(bottom, now)
  BY <1>1, <1>2, PrefixTransitive DEF Commit
<1>6. Staged(base, snapshot, k) = SubSeq(now, 1, p)
  <2> DEFINE c == SubSeq(snapshot, 1, p)
  <2>1. c = Staged(base, snapshot, k)
    BY DEF Staged
  <2>2. c \in Commit /\ IsPrefix(c, snapshot) /\ Len(c) = p
    BY <1>1, <1>4, HistoryAt
  <2> HIDE DEF c
  <2>3. IsPrefix(c, now)
    BY <1>1, <2>2, PrefixTransitive DEF Commit
  <2>4. c = SubSeq(now, 1, Len(c))
    BY <1>1, <2>2, <2>3, PrefixIsBeginning DEF Commit
  <2>5. QED BY <2>1, <2>2, <2>4
<1> DEFINE m == Count(base, snapshot) - k
           fork == Fork(snapshot, now)
<1>7. fork = snapshot
  <2>1. /\ fork \in Commit /\ IsPrefix(fork, snapshot)
        /\ IsPrefix(snapshot, snapshot)
    BY <1>1, ForkShared, PrefixReflexive DEF Commit
  <2>2. IsPrefix(snapshot, fork)
    BY <1>1, <2>1, ForkShared
  <2> HIDE DEF fork
  <2>3. Len(fork) = Len(snapshot)
    BY <1>1, <2>1, <2>2, PrefixElements DEF Commit
  <2>4. QED BY <1>1, <2>1, <2>3, PrefixSameLength DEF Commit
<1> HIDE DEF m, fork
<1>8. /\ Len(picks) = m + (Len(now) - Len(fork))
      /\ \A i \in 1..Len(picks) :
           /\ i <= m => picks[i].change = snapshot[Len(base) + k + i]
           /\ i > m => picks[i].change = now[Len(fork) + (i - m)]
  <2>1. m = Count(base, snapshot) - k /\ fork = Fork(snapshot, now)
    BY DEF m, fork
  <2>2. Len(picks) = m + (Len(now) - Len(fork))
    BY <1>1, <2>1, ReplayedPicks
  <2>3. ASSUME NEW i \in 1..Len(picks)
        PROVE  /\ i <= m =>
                    /\ picks[i].change = snapshot[Len(base) + k + i]
                    /\ picks[i].owners
                          = Owner(Staged(base, snapshot, k + i), k + i)
               /\ i > m =>
                    /\ picks[i].change = now[Len(fork) + (i - m)]
                    /\ picks[i].owners
                          = ByMarker(SubSeq(now, 1, Len(fork) + (i - m)))
    BY <1>1, <2>1, ReplayedPicks
  <2>4. QED BY <2>2, <2>3
<1>9. m = Len(snapshot) - p
  BY <1>3, <1>4 DEF m
<1>10. Len(picks) = Len(now) - p
  BY <1>3, <1>4, <1>7, <1>8, <1>9
<1>11. ASSUME NEW i \in 1..Len(picks)
       PROVE  p + i \in 1..Len(now) /\ picks[i].change = now[p + i]
  <2>1. p + i \in 1..Len(now)
    BY <1>3, <1>4, <1>10
  <2>2. CASE i <= m
    <3>1. p + i \in 1..Len(snapshot) /\ Len(base) + k + i = p + i
      BY <1>3, <1>4, <1>9, <2>2
    <3>2. QED BY <1>3, <1>8, <2>1, <2>2, <3>1
  <2>3. CASE i > m
    <3>1. Len(fork) + (i - m) = p + i
      BY <1>3, <1>4, <1>7, <1>9
    <3>2. QED BY <1>8, <2>1, <2>3, <3>1
  <2>4. QED BY <1>3, <1>4, <1>9, <2>2, <2>3
<1>12. QED BY <1>2, <1>3, <1>4, <1>5, <1>6, <1>10, <1>11

\* An ejection takes commits off the train.
LEMMA EjectionShrinks ==
    ASSUME TrainTypeOK,
           NEW base, NEW snapshot, NEW k, NEW now, NEW bad, NEW bottom,
           NEW picks, NEW tip, NEW r,
           Ejection(base, snapshot, k, now, bad, bottom, picks, tip, r),
           IsPrefix(snapshot, now)
    PROVE  /\ Len(tip) < Len(now)
           /\ ToSet(tip) \subseteq ToSet(now)
<1> DEFINE p == Len(base) + k
<1> HIDE DEF p
<1>1. /\ p \in 1..Len(now) /\ Len(now) \in Nat
      /\ bottom \in Commit /\ IsPrefix(bottom, now) /\ Len(bottom) = p - 1
      /\ picks \in Seq(Pick) /\ Len(picks) = Len(now) - p
      /\ \A i \in 1..Len(picks) :
           p + i \in 1..Len(now) /\ picks[i].change = now[p + i]
  <2>1. p = Len(base) + k
    BY DEF p
  <2>2. QED BY <2>1, PicksOfTrain
<1>2. tip = Picked(bottom, picks, bad) /\ now \in Commit
  BY DEF Ejection
<1>3. tip \in Commit /\ Len(tip) <= Len(bottom) + Len(picks)
  BY <1>1, <1>2, PickedContents, PickedLength
<1>4. Len(tip) < Len(now)
  <2>1. Len(tip) \in Nat
    BY <1>3 DEF Commit
  <2>2. QED BY <1>1, <1>3, <2>1
<1>5. ASSUME NEW c \in ToSet(tip) PROVE c \in ToSet(now)
  <2>1. CASE c \in ToSet(bottom)
    BY <1>1, <1>2, <2>1, PrefixContents DEF Commit
  <2>2. CASE \E j \in 1..Len(picks) : picks[j].change = c
    <3>1. \E i \in 1..Len(now) : now[i] = c
      BY <1>1, <2>2
    <3>2. QED BY <3>1 DEF ToSet
  <2>3. QED BY <1>1, <1>2, <2>1, <2>2, PickedContents
<1>6. QED BY <1>4, <1>5

\* A task that stands once on the train, and still on the restacked one,
\* keeps a marker, when no owner had to be guessed.
LEMMA EjectionKeepsOwners ==
    ASSUME TrainTypeOK,
           NEW base, NEW snapshot, NEW k, NEW now, NEW bad, NEW bottom,
           NEW picks, NEW tip, NEW r,
           Ejection(base, snapshot, k, now, bad, bottom, picks, tip, r),
           IsPrefix(snapshot, now), GuessedFrom(base, snapshot, k) = {},
           NEW t \in Task, Ends(marker[t], t),
           Once(now, t), t \in ToSet(tip)
    PROVE  r.kept[t] # Nil /\ Once(tip, t)
<1> DEFINE p == Len(base) + k
<1> HIDE DEF p
<1>1. /\ p \in 1..Len(now) /\ Len(now) \in Nat
      /\ bottom \in Commit /\ IsPrefix(bottom, now) /\ Len(bottom) = p - 1
      /\ Staged(base, snapshot, k) = SubSeq(now, 1, p)
      /\ picks \in Seq(Pick)
      /\ \A i \in 1..Len(picks) :
           p + i \in 1..Len(now) /\ picks[i].change = now[p + i]
  <2>1. p = Len(base) + k
    BY DEF p
  <2>2. QED BY <2>1, PicksOfTrain
<1>2. /\ tip = Picked(bottom, picks, bad) /\ now \in Commit
      /\ base \in Commit /\ snapshot \in Commit /\ IsPrefix(base, snapshot)
      /\ k \in 1..Count(base, snapshot)
      /\ picks = Replayed(base, snapshot, k, now)
  BY DEF Ejection
<1>3. \A i, j \in 1..Len(now) : now[i] = t /\ now[j] = t => i = j
  BY DEF Once
<1>4. ASSUME t \in ToSet(bottom)
      PROVE  \E i \in 1..Len(now) : i < p /\ now[i] = t
  <2>1. PICK i \in 1..Len(bottom) : bottom[i] = t
    BY <1>4 DEF ToSet
  <2>2. /\ Len(bottom) <= Len(now) /\ Len(bottom) \in Nat
        /\ \A j \in 1..Len(bottom) : bottom[j] = now[j]
    BY <1>1, <1>2, PrefixElements DEF Commit
  <2>3. i \in 1..Len(now) /\ i < p
    BY <1>1, <2>2
  <2>4. QED BY <2>1, <2>2, <2>3
<1>5. \/ t \in ToSet(bottom)
      \/ \E j \in 1..Len(picks) : /\ ~PickFails(picks, j, bottom, bad)
                                  /\ picks[j].change = t
  BY <1>1, <1>2, PickedContents
<1>6. now[p] # t
  <2>1. SUFFICES ASSUME now[p] = t PROVE FALSE
    OBVIOUS
  <2>2. \A i \in 1..Len(now) : now[i] = t => i = p
    BY <1>1, <1>3, <2>1
  <2>3. t \notin ToSet(bottom)
    BY <1>1, <1>4, <2>2
  <2>4. PICK j \in 1..Len(picks) : picks[j].change = t
    BY <1>5, <2>3
  <2>5. p + j = p
    BY <1>1, <2>2, <2>4
  <2>6. p \in Nat /\ j \in Nat /\ j > 0
    BY <1>1
  <2>7. QED BY <2>5, <2>6
<1>7. t \notin Owner(Staged(base, snapshot, k), k)
  <2>1. SUFFICES ASSUME t \in Owner(Staged(base, snapshot, k), k) PROVE FALSE
    OBVIOUS
  <2> DEFINE c == Staged(base, snapshot, k)
  <2>0. c = SubSeq(now, 1, p)
    BY <1>1
  <2> HIDE DEF c
  <2>2. c \in Commit /\ Len(c) = p /\ c[Len(c)] = now[p]
    BY <1>1, <1>2, <2>0, HistoryAt
  <2> USE DEF c
  <2>3. ByMarker(c) # {}
    <3>1. SUFFICES ASSUME ByMarker(c) = {} PROVE FALSE
      OBVIOUS
    <3>2. t \in ByPlace(k)
      BY <2>1, <3>1 DEF Owner
    <3>3. k \in k..Count(base, snapshot)
      BY <1>2
    <3>4. t \in GuessedFrom(base, snapshot, k)
      BY <3>1, <3>2, <3>3 DEF GuessedFrom
    <3>5. QED BY <3>4
  <2>4. marker[t] = c
    BY <2>1, <2>3 DEF Owner, ByMarker
  <2> HIDE DEF c
  <2>5. c[Len(c)] = t
    BY <2>4 DEF Ends
  <2>6. QED BY <1>6, <2>2, <2>5
<1>8. RestackParts(bottom, tip, picks, bad, r)
  BY RestackMarkers
<1>9. t \notin r.gone
  <2>1. SUFFICES ASSUME t \in r.gone PROVE FALSE
    OBVIOUS
  <2>2. PICK i \in 1..Len(picks) :
          PickFails(picks, i, bottom, bad) /\ t \in picks[i].owners
    BY <1>8, <2>1 DEF RestackParts
  <2>3. picks[i].change = marker[t][Len(marker[t])]
    BY <1>2, <2>2, PickOwnersMarker
  <2>4. picks[i].change = t /\ p + i \in 1..Len(now) /\ now[p + i] = t
    BY <1>1, <2>2, <2>3 DEF Ends
  <2>5. \A j \in 1..Len(now) : now[j] = t => j = p + i
    BY <1>3, <2>4
  <2>6. t \notin ToSet(bottom)
    <3>1. ~(p + i < p)
      BY <1>1
    <3>2. QED BY <1>4, <2>5, <3>1
  <2>7. PICK j \in 1..Len(picks) :
          ~PickFails(picks, j, bottom, bad) /\ picks[j].change = t
    BY <1>5, <2>6
  <2>8. p + j = p + i
    BY <1>1, <2>5, <2>7
  <2>9. i = j
    BY <1>1, <2>8
  <2>10. QED BY <2>2, <2>7, <2>9
<1>10. r.kept[t] # Nil
  <2>1. marker[t] # Nil
    BY TrainAssumption DEF Ends
  <2>2. QED BY <1>7, <1>9, <2>1, RestackMarkers
<1>11. Once(tip, t)
  <2>1. Once(bottom, t)
    BY <1>1, <1>2, OnceBefore
  <2>2. QED BY <1>1, <1>2, <2>1, OncePicked
<1>12. QED BY <1>10, <1>11


-----------------------------------------------------------------------------
(* One process that flushes                                                 *)

\* Only a flush that was started works, and the snapshot of one that works
\* alone stays where it was taken: at the bottom of the train.
Holding == {"validating", "bisecting", "retrying", "ejecting", "landing",
            "pushing"}
Single == \A f \in Flusher : starts[f] = 0 => At(f, "idle")
HasSnapshot(f) ==
    flush[f].at \in Holding => train # Nil /\ IsPrefix(flush[f].snapshot, train)
SoloInv ==
    FlushInv /\ Single /\ (Solo => \A f \in Flusher : HasSnapshot(f))

\* Of two flushes that work at once, both have been started.
LEMMA OnlyOneWorks ==
    ASSUME TrainTypeOK, Solo, Single, NEW f \in Flusher, NEW g \in Flusher,
           ~At(f, "idle"), ~At(g, "idle")
    PROVE  f = g
<1>1. starts[f] \in Nat /\ starts[g] \in Nat
  BY DEF TrainTypeOK
<1>2. starts[f] # 0 /\ starts[g] # 0
  BY DEF Single
<1>3. starts[f] > 0 /\ starts[g] > 0
  BY <1>1, <1>2
<1>4. QED BY <1>3 DEF Solo

\* The counters of a run only grow.
LEMMA CountersGrow ==
    ASSUME FlushInv, [TrainNext]_trainVars
    PROVE  /\ crashes' = crashes \/ crashes' = crashes + 1
           /\ unseen \subseteq unseen' /\ guessed \subseteq guessed'
           /\ \A f \in Flusher :
                starts'[f] = starts[f] \/ starts'[f] = starts[f] + 1
<1>0. starts \in [Flusher -> Nat]
  BY DEF FlushInv, TrainTypeOK
<1> USE DEF refs, records, world, counters
<1>1. CASE UNCHANGED <<crashes, unseen, guessed, starts>>
  BY <1>1
<1>2. ASSUME NEW t \in Task, StageRefused(t) \/ Stage(t) \/ Mark(t)
      PROVE  UNCHANGED <<crashes, unseen, guessed, starts>>
  BY <1>2 DEF StageRefused, Stage, Mark
<1>3. ASSUME NEW t \in Task, CrashIntegrate(t)
      PROVE  crashes' = crashes + 1 /\ UNCHANGED <<unseen, guessed, starts>>
  BY <1>3 DEF CrashIntegrate
<1>4. ASSUME NEW f \in Flusher, CrashFlush(f)
      PROVE  crashes' = crashes + 1 /\ UNCHANGED <<unseen, guessed, starts>>
  BY <1>4 DEF CrashFlush
<1>5. ASSUME NEW f \in Flusher, Start(f)
      PROVE  /\ UNCHANGED <<crashes, unseen, guessed>>
             /\ starts' = [starts EXCEPT ![f] = @ + 1]
  BY <1>5 DEF Start
<1>6. ASSUME NEW f \in Flusher, Snapshot(f)
      PROVE  /\ UNCHANGED <<crashes, guessed, starts>>
             /\ unseen \subseteq unseen'
  BY <1>6 DEF Snapshot
<1>7. ASSUME NEW f \in Flusher, Eject(f)
      PROVE  /\ UNCHANGED <<crashes, unseen, starts>>
             /\ guessed \subseteq guessed'
  BY <1>7, EjectUnfolds DEF Ejected
<1>8. ASSUME NEW f \in Flusher,
             \/ Empty(f) \/ RunGreen(f) \/ RunRed(f) \/ RetryRed(f)
             \/ BisectFinds(f) \/ BisectFindsNone(f) \/ Halt(f)
             \/ LandCheckedOut(f) \/ MoveBranch(f)
             \/ PushBranch(f) \/ LandRefused(f)
             \/ Record(f) \/ Seal(f)
      PROVE  UNCHANGED <<crashes, unseen, guessed, starts>>
  BY <1>8
  DEF Empty, RunGreen, RunRed, RetryRed, BisectFinds, BisectFindsNone, Halt,
      LandCheckedOut, MoveBranch, PushBranch, LandRefused, Record, Seal
<1>9. ASSUME NEW o \in Outsider, PushOutside(o) \/ CommitLocally(o)
      PROVE  UNCHANGED <<crashes, unseen, guessed, starts>>
  BY <1>9 DEF PushOutside, CommitLocally
<1>10. CASE Pull
  BY <1>1, <1>10 DEF Pull
<1>11. CASE UNCHANGED trainVars
  BY <1>1, <1>11 DEF trainVars
<1>12. ASSUME NEW f \in Flusher, Start(f)
       PROVE  \A g \in Flusher :
                starts'[g] = starts[g] \/ starts'[g] = starts[g] + 1
  BY <1>0, <1>5, <1>12
<1>13. QED
  BY <1>1, <1>2, <1>3, <1>4, <1>5, <1>6, <1>7, <1>8, <1>9, <1>10, <1>11,
     <1>12 DEF TrainNext, FlushStep

\* A flush step is taken by a flush that works, and moves no other.
LEMMA FlushActs ==
    ASSUME FlushInv, NEW f \in Flusher, FlushStep(f) \/ CrashFlush(f)
    PROVE  /\ ~At(f, "idle") /\ starts' = starts
           /\ \A g \in Flusher : g # f => flush'[g] = flush[g]
<1>1. flush \in [Flusher -> FlushState]
  BY DEF FlushInv, TrainTypeOK
<1> USE DEF counters
<1>2. CASE Snapshot(f) \/ Empty(f) \/ CrashFlush(f)
  BY <1>1, <1>2 DEF Snapshot, Empty, CrashFlush, At
<1>3. CASE RunGreen(f) \/ RunRed(f) \/ RetryRed(f)
  BY <1>1, <1>3 DEF RunGreen, RunRed, RetryRed, At
<1>4. CASE BisectFindsNone(f) \/ Halt(f)
  BY <1>1, <1>4 DEF BisectFindsNone, Halt, At
<1>5. CASE BisectFinds(f)
  <2>1. /\ At(f, "bisecting") /\ starts' = starts
        /\ \E k : flush' = [flush EXCEPT ![f].at = "ejecting",
                     ![f].base = TrainBase(flush[f].snapshot), ![f].k = k]
    BY <1>5 DEF BisectFinds
  <2>2. \A g \in Flusher : g # f => flush'[g] = flush[g]
    BY <1>1, <2>1
  <2>3. QED BY <2>1, <2>2 DEF At
<1>6. CASE Eject(f)
  <2>1. PICK r : Ejected(f, r)
    BY <1>6, EjectUnfolds
  <2>2. At(f, "ejecting")
    BY <1>6 DEF Eject
  <2>3. QED BY <1>1, <2>1, <2>2 DEF Ejected, At
<1>7. CASE \/ LandCheckedOut(f) \/ MoveBranch(f)
           \/ PushBranch(f) \/ LandRefused(f)
  <2>1. flush[f].at \in {"landing", "pushing"} /\ starts' = starts
    BY <1>7 DEF LandCheckedOut, MoveBranch, PushBranch, LandRefused, At
  <2>2. \/ flush' = [flush EXCEPT ![f].at = "recording"]
        \/ flush' = [flush EXCEPT ![f].at = "pushing"]
        \/ flush' = [flush EXCEPT ![f] = Idle]
    BY <1>7 DEF LandCheckedOut, MoveBranch, PushBranch, LandRefused, Push,
                Rejected
  <2>3. QED BY <1>1, <2>1, <2>2 DEF At
<1>8. CASE Record(f) \/ Seal(f)
  BY <1>1, <1>8 DEF Record, Seal, At
<1>9. QED
  BY <1>2, <1>3, <1>4, <1>5, <1>6, <1>7, <1>8 DEF FlushStep

\* Only flushes that were started work.
LEMMA SingleStep == FlushInv /\ Single /\ [TrainNext]_trainVars => Single'
<1> SUFFICES ASSUME FlushInv, Single, [TrainNext]_trainVars PROVE Single'
  OBVIOUS
<1>1. flush \in [Flusher -> FlushState] /\ starts \in [Flusher -> Nat]
  BY DEF FlushInv, TrainTypeOK
<1> USE DEF refs, records, world, counters
<1>2. CASE UNCHANGED <<flush, starts>>
  BY <1>2 DEF Single, At
<1>3. ASSUME NEW f \in Flusher, FlushStep(f) \/ CrashFlush(f) PROVE Single'
  <2>1. /\ ~At(f, "idle") /\ starts' = starts
        /\ \A g \in Flusher : g # f => flush'[g] = flush[g]
    BY <1>3, FlushActs
  <2>2. QED BY <2>1 DEF Single, At
<1>4. ASSUME NEW f \in Flusher, Start(f) PROVE Single'
  <2>1. /\ starts' = [starts EXCEPT ![f] = @ + 1]
        /\ \A g \in Flusher : g # f => flush'[g] = flush[g]
    BY <1>1, <1>4 DEF Start
  <2>2. starts'[f] # 0
    BY <1>1, <2>1
  <2>3. \A g \in Flusher : g # f => starts'[g] = starts[g]
    BY <1>1, <2>1
  <2>4. QED BY <2>1, <2>2, <2>3 DEF Single, At
<1>5. ASSUME NEW t \in Task,
             StageRefused(t) \/ Stage(t) \/ Mark(t) \/ CrashIntegrate(t)
      PROVE  UNCHANGED <<flush, starts>>
  BY <1>5 DEF StageRefused, Stage, Mark, CrashIntegrate
<1>6. ASSUME NEW o \in Outsider, PushOutside(o) \/ CommitLocally(o)
      PROVE  UNCHANGED <<flush, starts>>
  BY <1>6 DEF PushOutside, CommitLocally
<1>7. CASE Pull
  BY <1>2, <1>7 DEF Pull
<1>8. CASE UNCHANGED trainVars
  BY <1>2, <1>8 DEF trainVars
<1>9. QED
  BY <1>2, <1>3, <1>4, <1>5, <1>6, <1>7, <1>8 DEF TrainNext

\* A flush that works alone: the others are idle, before and after.
LEMMA OthersIdle ==
    ASSUME FlushInv, Solo, Single, NEW f \in Flusher,
           FlushStep(f) \/ CrashFlush(f)
    PROVE  \A g \in Flusher : g # f => /\ flush'[g] = flush[g]
                                      /\ flush'[g].at = "idle"
<1>1. SUFFICES ASSUME NEW g \in Flusher, g # f
               PROVE  flush'[g] = flush[g] /\ flush'[g].at = "idle"
  OBVIOUS
<1>2. ~At(f, "idle") /\ flush'[g] = flush[g]
  BY <1>1, FlushActs
<1>3. At(g, "idle")
  BY <1>1, <1>2, OnlyOneWorks DEF FlushInv
<1>4. QED BY <1>2, <1>3 DEF At

\* Nobody else moves the train under its snapshot,
LEMMA SnapshotStep ==
    ASSUME FlushInv, FlushInv', Single, Solo, \A f \in Flusher : HasSnapshot(f),
           [TrainNext]_trainVars
    PROVE  \A f \in Flusher : HasSnapshot(f)'
<1>1. /\ flush \in [Flusher -> FlushState] /\ train \in Commit \cup {Nil}
      /\ train' \in Commit \cup {Nil}
  BY DEF FlushInv, TrainTypeOK
<1> USE DEF refs, records, world, counters
<1>2. CASE UNCHANGED <<flush, train>>
  BY <1>2 DEF HasSnapshot
<1>3. ASSUME NEW t \in Task, Stage(t) PROVE \A f \in Flusher : HasSnapshot(f)'
  <2>1. SUFFICES ASSUME NEW f \in Flusher, flush[f].at \in Holding
                 PROVE  train' # Nil /\ IsPrefix(flush[f].snapshot, train')
    BY <1>3 DEF Stage, HasSnapshot
  <2>2. train # Nil /\ IsPrefix(flush[f].snapshot, train)
    BY <2>1 DEF HasSnapshot
  <2>3. /\ train' = Append(train, t) /\ t \in Change
        /\ flush[f].snapshot \in Commit
    BY <1>1, <1>3, <2>2 DEF Stage, Change, FlushState
  <2>4. train' \in Commit /\ IsPrefix(train, train')
    BY <1>1, <2>2, <2>3, AppendCommit
  <2>5. QED BY <1>1, <2>2, <2>3, <2>4, PrefixTransitive, TrainAssumption DEF Commit
<1>4. ASSUME NEW f \in Flusher, Start(f)
      PROVE  \A g \in Flusher : HasSnapshot(g)'
  <2>1. /\ train' = train /\ flush'[f].at = "starting"
        /\ \A g \in Flusher : g # f => flush'[g] = flush[g]
    BY <1>1, <1>4 DEF Start, FlushState
  <2>2. QED BY <2>1 DEF HasSnapshot, Holding
<1>5. ASSUME NEW f \in Flusher, FlushStep(f) \/ CrashFlush(f), HasSnapshot(f)'
      PROVE  \A g \in Flusher : HasSnapshot(g)'
  <2>1. \A g \in Flusher : g # f => flush'[g].at = "idle"
    BY <1>5, OthersIdle
  <2>2. QED BY <1>5, <2>1 DEF HasSnapshot, Holding
<1>6. ASSUME NEW f \in Flusher, flush'[f].at \notin Holding
      PROVE  HasSnapshot(f)'
  BY <1>6 DEF HasSnapshot
<1>7. ASSUME NEW f \in Flusher,
             \/ Empty(f) \/ RetryRed(f) \/ Halt(f) \/ LandRefused(f)
             \/ Seal(f) \/ CrashFlush(f) \/ Record(f)
      PROVE  HasSnapshot(f)'
  <2>1. \/ flush' = [flush EXCEPT ![f] = Idle]
        \/ flush' = [flush EXCEPT ![f].at = "sealing"]
    BY <1>7 DEF Empty, RetryRed, Halt, LandRefused, Seal, CrashFlush, Record
  <2>2. flush'[f].at \in {"idle", "sealing"}
    BY <1>1, <2>1 DEF Idle, FlushState
  <2>3. QED BY <1>6, <2>2 DEF Holding
<1>8. ASSUME NEW f \in Flusher, Snapshot(f) PROVE HasSnapshot(f)'
  <2>1. /\ train' = train /\ train # Nil
        /\ flush' = [flush EXCEPT ![f] =
                       [Idle EXCEPT !.at = "validating", !.snapshot = train,
                          !.ids = Covered(train), !.expected = local]]
    BY <1>8 DEF Snapshot, Ref
  <2>2. flush'[f].snapshot = train
    BY <1>1, <2>1 DEF Idle
  <2>3. IsPrefix(train, train)
    BY <1>1, <2>1, PrefixReflexive DEF Commit
  <2>4. QED BY <2>1, <2>2, <2>3 DEF HasSnapshot
<1>9. ASSUME NEW f \in Flusher,
             RunGreen(f) \/ RunRed(f) \/ BisectFindsNone(f) \/ BisectFinds(f)
      PROVE  HasSnapshot(f)'
  <2>1. train' = train /\ flush[f].at \in Holding
    BY <1>9 DEF RunGreen, RunRed, BisectFindsNone, BisectFinds, At, Holding
  <2>2. flush'[f].snapshot = flush[f].snapshot
    <3>1. CASE RunGreen(f) \/ RunRed(f) \/ BisectFindsNone(f)
      BY <1>1, <3>1 DEF RunGreen, RunRed, BisectFindsNone, FlushState
    <3>2. CASE BisectFinds(f)
      <4>1. PICK k : flush' = [flush EXCEPT ![f].at = "ejecting",
                     ![f].base = TrainBase(flush[f].snapshot), ![f].k = k]
        BY <3>2 DEF BisectFinds
      <4>2. QED BY <1>1, <4>1 DEF FlushState
    <3>3. QED BY <1>9, <3>1, <3>2
  <2>3. QED BY <2>1, <2>2 DEF HasSnapshot
<1>10. ASSUME NEW f \in Flusher, Eject(f) PROVE HasSnapshot(f)'
  <2>1. PICK r : Ejected(f, r)
    BY <1>10, EjectUnfolds
  <2>2. flush'[f].at \in {"idle", "starting"}
    BY <1>1, <2>1 DEF Ejected, Idle
  <2>3. QED BY <1>6, <2>2 DEF Holding
<1>11. ASSUME NEW f \in Flusher,
              LandCheckedOut(f) \/ MoveBranch(f) \/ PushBranch(f)
       PROVE  HasSnapshot(f)'
  <2>1. CASE MoveBranch(f)
    <3>1. /\ train' = train /\ flush[f].at \in Holding
          /\ flush' = [flush EXCEPT ![f].at = "pushing"]
      BY <2>1 DEF MoveBranch, At, Holding
    <3>2. flush'[f].snapshot = flush[f].snapshot
      BY <1>1, <3>1 DEF FlushState
    <3>3. QED BY <1>11, <3>1, <3>2 DEF HasSnapshot
  <2>2. CASE LandCheckedOut(f) \/ PushBranch(f)
    <3>1. \/ flush' = [flush EXCEPT ![f].at = "recording"]
          \/ flush' = [flush EXCEPT ![f] = Idle]
      BY <2>2 DEF LandCheckedOut, PushBranch, Push, Rejected
    <3>2. flush'[f].at \in {"idle", "recording"}
      BY <1>1, <3>1 DEF Idle, FlushState
    <3>3. QED BY <1>6, <3>2 DEF Holding
  <2>3. QED BY <1>11, <2>1, <2>2
<1>12. ASSUME NEW t \in Task, StageRefused(t) \/ Mark(t) \/ CrashIntegrate(t)
       PROVE  UNCHANGED <<flush, train>>
  BY <1>12 DEF StageRefused, Mark, CrashIntegrate
<1>13. ASSUME NEW o \in Outsider, PushOutside(o) \/ CommitLocally(o)
       PROVE  UNCHANGED <<flush, train>>
  BY <1>13 DEF PushOutside, CommitLocally
<1>14. CASE Pull
  BY <1>2, <1>14 DEF Pull
<1>15. CASE UNCHANGED trainVars
  BY <1>2, <1>15 DEF trainVars
<1>16. ASSUME NEW f \in Flusher, FlushStep(f) \/ CrashFlush(f)
       PROVE  HasSnapshot(f)'
  BY <1>7, <1>8, <1>9, <1>10, <1>11, <1>16 DEF FlushStep
<1>17. QED
  BY <1>2, <1>3, <1>4, <1>5, <1>12, <1>13, <1>14, <1>15, <1>16 DEF TrainNext

\* and a process that flushed alone has always done so.
LEMMA SoloBefore ==
    ASSUME FlushInv, [TrainNext]_trainVars, Solo'
    PROVE  Solo
<1>1. SUFFICES ASSUME NEW f \in Flusher, NEW g \in Flusher,
                      starts[f] > 0, starts[g] > 0
               PROVE  f = g
  BY DEF Solo
<1>2. starts[f] \in Nat /\ starts[g] \in Nat
  BY DEF FlushInv, TrainTypeOK
<1>3. \A h \in Flusher : starts'[h] = starts[h] \/ starts'[h] = starts[h] + 1
  BY CountersGrow
<1>4. starts'[f] > 0 /\ starts'[g] > 0
  BY <1>1, <1>2, <1>3
<1>5. QED BY <1>4 DEF Solo

\* No flush has started at first.
LEMMA SoloInvInit == TrainInit => SoloInv
<1> SUFFICES ASSUME TrainInit PROVE SoloInv
  OBVIOUS
<1>1. FlushInv
  BY FlushInvInit
<1>2. Single /\ \A f \in Flusher : HasSnapshot(f)
  BY DEF TrainInit, Single, HasSnapshot, Holding, At, Idle
<1>3. QED BY <1>1, <1>2 DEF SoloInv

\* Every step keeps the snapshot of a flush that works alone.
LEMMA SoloInvStep == SoloInv /\ [TrainNext]_trainVars => SoloInv'
<1> SUFFICES ASSUME SoloInv, [TrainNext]_trainVars PROVE SoloInv'
  OBVIOUS
<1>1. FlushInv /\ FlushInv' /\ Single /\ Single'
  BY FlushInvStep, SingleStep DEF SoloInv
<1>2. ASSUME Solo' PROVE \A f \in Flusher : HasSnapshot(f)'
  BY <1>1, <1>2, SoloBefore, SnapshotStep DEF SoloInv
<1>3. QED BY <1>1, <1>2 DEF SoloInv

-----------------------------------------------------------------------------
(* What lands is reported                                                   *)

\* What is true of a run without crashes, late markers, guesses and a second
\* flusher.
Sound == crashes = 0 /\ unseen \cup guessed = {} /\ Solo

\* Before a task has its marker, nobody has seen its commit but the train;
Unlanded(t) ==
    /\ marker[t] = Nil /\ t \notin ToSet(origin)
    /\ \A f \in Flusher :
         t \notin flush[f].ids /\ t \notin ToSet(flush[f].snapshot)
Before ==
    \A t \in Task :
        /\ t \in branch \/ pending[t] # Nil => Unlanded(t)
        /\ t \in branch => /\ pending[t] = Nil
                           /\ train # Nil => t \notin ToSet(train)

\* with its marker it waits, and what is on the train has one commit there
\* and will be found by it;
Waiting == \A t \in Task : marker[t] # Nil => state[t] = "awaiting_merge"
OnTrain ==
    train # Nil =>
        \A t \in Task : t \in ToSet(train) =>
            \/ t \in ToSet(origin)
            \/ Once(train, t) /\ (pending[t] # Nil \/ marker[t] # Nil)

\* a flush covers every task of its snapshot that has not landed, has their
\* markers until it records them, and then has evidence of each;
CoversHeld(f) ==
    flush[f].at \in Holding =>
        \A t \in Task : t \in ToSet(flush[f].snapshot) =>
            t \in flush[f].ids \/ t \in ToSet(origin)
CoversMarked(f) ==
    flush[f].at \in Holding \cup {"recording"} =>
        \A t \in flush[f].ids :
            marker[t] # Nil /\ IsPrefix(marker[t], flush[f].snapshot)
CoversSealing(f) ==
    At(f, "sealing") =>
        \A t \in flush[f].ids :
            /\ marker[t] = Nil /\ state[t] = "awaiting_merge"
            /\ evidence[t] # Nil /\ IsPrefix(evidence[t], flush[f].snapshot)
Covers(f) == CoversHeld(f) /\ CoversMarked(f) /\ CoversSealing(f)

\* and a task on origin is merged, or the flush that landed it is about to
\* say so.
Told ==
    \A t \in Task : t \in ToSet(origin) =>
        \/ state[t] = "merged"
        \/ /\ lock # Nil /\ flush[lock].at \in {"recording", "sealing"}
           /\ t \in flush[lock].ids
LandParts ==
    /\ Before /\ Waiting /\ OnTrain /\ (\A f \in Flusher : Covers(f)) /\ Told
LandInv == TrainInv /\ SoloInv /\ (Sound => LandParts)

\* so a sound state comes after sound states only, and no crash.
LEMMA SoundBefore ==
    ASSUME TrainInv, TrainTypeOK', [TrainNext]_trainVars, Sound'
    PROVE  /\ Sound
           /\ \A f \in Flusher : ~CrashFlush(f)
           /\ \A t \in Task : ~CrashIntegrate(t)
<1>1. /\ crashes' = crashes \/ crashes' = crashes + 1
      /\ unseen \subseteq unseen' /\ guessed \subseteq guessed'
      /\ \A f \in Flusher :
           starts'[f] = starts[f] \/ starts'[f] = starts[f] + 1
  BY CountersGrow DEF TrainInv
<1>2. /\ crashes \in Nat /\ crashes' = 0 /\ starts \in [Flusher -> Nat]
  BY DEF TrainInv, FlushInv, TrainTypeOK, Sound
<1>3. crashes + 1 # 0
  BY <1>2
<1>4. crashes = 0
  BY <1>1, <1>2, <1>3
<1>5. unseen \cup guessed = {}
  BY <1>1 DEF Sound
<1>6. Solo
  BY SoloBefore DEF TrainInv, Sound
<1>7. \A f \in Flusher : ~CrashFlush(f)
  BY <1>2, <1>3 DEF CrashFlush
<1>8. \A t \in Task : ~CrashIntegrate(t)
  BY <1>2, <1>3 DEF CrashIntegrate
<1>9. QED BY <1>4, <1>5, <1>6, <1>7, <1>8 DEF Sound

\* A flush that has nothing, or goes on with what it has.
Carries(g) ==
    \/ flush'[g] = flush[g]
    \/ /\ flush[g].at \notin {"recording", "sealing"}
       /\ flush'[g].at \notin {"recording", "sealing"}
       /\ \/ /\ flush'[g].ids = {} /\ flush'[g].snapshot = <<>>
             /\ flush'[g].at \notin Holding
          \/ /\ flush'[g].ids = flush[g].ids
             /\ flush'[g].snapshot = flush[g].snapshot
             /\ flush'[g].at \in Holding => flush[g].at \in Holding

\* A step that leaves the train, the records and a recorder's lock alone, and
\* lands nothing of a task, changes nothing of the above.
LEMMA LandStays ==
    ASSUME FlushInv, LandParts,
           UNCHANGED <<train, branch, pending, state, marker, evidence>>,
           lock # Nil /\ flush[lock].at \in {"recording", "sealing"}
             => lock' = lock,
           \A t \in Task : t \in ToSet(origin') <=> t \in ToSet(origin),
           \A g \in Flusher : Carries(g)
    PROVE  LandParts'
<1>0. ToSet(<<>>) = {}
  BY DEF ToSet
<1>1. Before'
  <2>1. ASSUME NEW t \in Task, Unlanded(t) PROVE Unlanded(t)'
    BY <1>0, <2>1 DEF Unlanded, Carries
  <2>2. QED BY <2>1 DEF Before, LandParts
<1>2. Waiting' /\ OnTrain'
  BY DEF Waiting, OnTrain, LandParts
<1>3. ASSUME NEW g \in Flusher PROVE Covers(g)'
  <2>1. Covers(g) /\ Carries(g)
    BY DEF LandParts
  <2>2. CoversHeld(g)'
    BY <2>1 DEF Covers, CoversHeld, Carries
  <2>3. CoversMarked(g)'
    BY <2>1 DEF Covers, CoversMarked, Carries
  <2>4. CoversSealing(g)'
    BY <2>1 DEF Covers, CoversSealing, Carries, At
  <2>5. QED BY <2>2, <2>3, <2>4 DEF Covers
<1>4. Told'
  <2>1. lock # Nil => lock \in Flusher
    BY DEF FlushInv, Held
  <2>2. lock # Nil /\ flush[lock].at \in {"recording", "sealing"}
          => lock' = lock /\ flush'[lock] = flush[lock]
    BY <2>1 DEF Carries
  <2>3. QED BY <2>2 DEF Told, LandParts
<1>5. QED BY <1>1, <1>2, <1>3, <1>4 DEF LandParts

\* The steps that leave it so.
LEMMA LandStaysFlush ==
    ASSUME FlushInv, LandParts, NEW f \in Flusher,
           \/ Start(f) \/ Empty(f) \/ RunGreen(f) \/ RunRed(f) \/ RetryRed(f)
           \/ BisectFinds(f) \/ BisectFindsNone(f) \/ Halt(f)
           \/ LandRefused(f) \/ MoveBranch(f)
           \/ LandCheckedOut(f) /\ Rejected(f, flush[f].snapshot)
           \/ PushBranch(f) /\ Rejected(f, local)
    PROVE  LandParts'
<1>1. flush \in [Flusher -> FlushState] /\ flush[f] \in FlushState
  BY DEF FlushInv, TrainTypeOK
<1> USE DEF refs, records, world, counters
<1>2. \/ Start(f) \/ Empty(f)
      \/ RunGreen(f) \/ RunRed(f) \/ RetryRed(f)
      \/ BisectFinds(f) \/ BisectFindsNone(f) \/ Halt(f)
      \/ LandRefused(f) \/ MoveBranch(f)
      \/ LandCheckedOut(f) /\ Rejected(f, flush[f].snapshot)
      \/ PushBranch(f) /\ Rejected(f, local)
  OBVIOUS
<1>3. /\ UNCHANGED <<train, branch, pending, state, marker, evidence, origin>>
      /\ lock' = lock \/ lock = Nil \/ (lock = f /\ flush[f].at = "pushing")
  <2>1. CASE Start(f) \/ Empty(f) \/ RunGreen(f) \/ RunRed(f) \/ RetryRed(f)
    BY <2>1 DEF Start, Empty, RunGreen, RunRed, RetryRed
  <2>2. CASE BisectFinds(f) \/ BisectFindsNone(f) \/ Halt(f) \/ LandRefused(f)
    BY <2>2 DEF BisectFinds, BisectFindsNone, Halt, LandRefused
  <2>3. CASE MoveBranch(f)
    BY <2>3 DEF MoveBranch, Unlocked
  <2>4. CASE LandCheckedOut(f) /\ Rejected(f, flush[f].snapshot)
    BY <2>4 DEF LandCheckedOut, Rejected, Unlocked
  <2>5. CASE PushBranch(f) /\ Rejected(f, local)
    BY <2>5 DEF PushBranch, Rejected, FlushInv, Knows, At
  <2>6. QED BY <1>2, <2>1, <2>2, <2>3, <2>4, <2>5
<1>4. /\ flush[f].at \notin {"recording", "sealing"}
      /\ \/ flush' = [flush EXCEPT ![f] = Idle]
         \/ flush' = [flush EXCEPT ![f].at = "starting"]
         \/ /\ flush[f].at \in Holding
            /\ \E at \in Holding : flush' = [flush EXCEPT ![f].at = at]
         \/ BisectFinds(f)
  <2>1. CASE Start(f) \/ Empty(f)
    BY <2>1 DEF Start, Empty, At
  <2>2. CASE RunGreen(f) \/ RunRed(f) \/ RetryRed(f)
    BY <2>2 DEF RunGreen, RunRed, RetryRed, At, Holding
  <2>3. CASE BisectFinds(f) \/ BisectFindsNone(f) \/ Halt(f)
    BY <2>3 DEF BisectFinds, BisectFindsNone, Halt, At, Holding
  <2>4. CASE LandRefused(f) \/ MoveBranch(f)
    BY <2>4 DEF LandRefused, MoveBranch, At, Holding
  <2>5. CASE \/ LandCheckedOut(f) /\ Rejected(f, flush[f].snapshot)
             \/ PushBranch(f) /\ Rejected(f, local)
    BY <2>5 DEF LandCheckedOut, PushBranch, Rejected, At
  <2>6. QED BY <1>2, <2>1, <2>2, <2>3, <2>4, <2>5
<1>5. Carries(f) /\ \A g \in Flusher : g # f => Carries(g)
  <2>1. CASE flush' = [flush EXCEPT ![f] = Idle]
    <3>1. /\ flush'[f].at = "idle" /\ flush'[f].ids = {}
          /\ flush'[f].snapshot = <<>>
          /\ \A g \in Flusher : g # f => flush'[g] = flush[g]
      BY <1>1, <2>1 DEF Idle
    <3>2. QED BY <1>4, <3>1 DEF Carries, Holding
  <2>2. CASE flush' = [flush EXCEPT ![f].at = "starting"]
    <3>1. /\ flush'[f].at = "starting" /\ flush'[f].ids = flush[f].ids
          /\ flush'[f].snapshot = flush[f].snapshot
          /\ \A g \in Flusher : g # f => flush'[g] = flush[g]
      BY <1>1, <2>2 DEF FlushState
    <3>2. QED BY <1>4, <3>1 DEF Carries, Holding
  <2>3. CASE /\ flush[f].at \in Holding
             /\ \E at \in Holding : flush' = [flush EXCEPT ![f].at = at]
    <3>1. PICK at \in Holding : flush' = [flush EXCEPT ![f].at = at]
      BY <2>3
    <3>2. /\ flush'[f].at = at /\ flush'[f].ids = flush[f].ids
          /\ flush'[f].snapshot = flush[f].snapshot
          /\ \A g \in Flusher : g # f => flush'[g] = flush[g]
      BY <1>1, <3>1 DEF FlushState
    <3>3. QED BY <1>4, <2>3, <3>1, <3>2 DEF Carries, Holding
  <2>4. CASE BisectFinds(f)
    <3>1. At(f, "bisecting")
      BY <2>4 DEF BisectFinds
    <3>2. PICK k : flush' = [flush EXCEPT ![f].at = "ejecting",
                     ![f].base = TrainBase(flush[f].snapshot), ![f].k = k]
      BY <2>4 DEF BisectFinds
    <3>3. /\ flush'[f].at = "ejecting" /\ flush'[f].ids = flush[f].ids
          /\ flush'[f].snapshot = flush[f].snapshot
          /\ \A g \in Flusher : g # f => flush'[g] = flush[g]
      BY <1>1, <3>2 DEF FlushState
    <3>4. QED BY <1>4, <3>1, <3>3 DEF Carries, Holding, At
  <2>5. QED BY <1>4, <2>1, <2>2, <2>3, <2>4
<1>6. lock # Nil /\ flush[lock].at \in {"recording", "sealing"} => lock' = lock
  BY <1>3
<1>7. QED BY <1>3, <1>5, <1>6, LandStays

\* Others push, commit and pull.
LEMMA LandStaysOutside ==
    ASSUME FlushInv, LandParts,
           \/ \E o \in Outsider : PushOutside(o) \/ CommitLocally(o)
           \/ Pull \/ UNCHANGED trainVars
    PROVE  LandParts'
<1>1. TrainTypeOK /\ origin \in Commit
  BY DEF FlushInv, TrainTypeOK
<1> USE DEF refs, records, world, counters
<1>2. CASE /\ UNCHANGED <<train, branch, pending, state, marker, evidence,
                          lock, flush>>
           /\ \A t \in Task : t \in ToSet(origin') <=> t \in ToSet(origin)
  BY <1>2, LandStays DEF Carries
<1>3. ASSUME NEW o \in Outsider, PushOutside(o) PROVE LandParts'
  <2>1. o \in Change /\ o \notin Task /\ origin' = Append(origin, o)
    BY <1>3, TrainAssumption DEF PushOutside, Change
  <2>2. ToSet(Append(origin, o)) = ToSet(origin) \cup {o}
    BY <1>1, <2>1, AppendCommit
  <2>3. QED BY <1>2, <1>3, <2>1, <2>2 DEF PushOutside
<1>4. ASSUME NEW o \in Outsider, CommitLocally(o) PROVE LandParts'
  BY <1>2, <1>4 DEF CommitLocally
<1>5. CASE Pull
  BY <1>2, <1>5 DEF Pull
<1>6. CASE UNCHANGED trainVars
  BY <1>2, <1>6 DEF trainVars
<1>7. QED BY <1>3, <1>4, <1>5, <1>6

\* integrate refuses, stages and marks.
LEMMA LandStageRefused ==
    ASSUME FlushInv, LandParts, NEW x \in Task, StageRefused(x)
    PROVE  LandParts'
<1> USE DEF refs, records, world, counters
<1>1. /\ UNCHANGED <<train, branch, pending, marker, evidence, lock, origin,
                     flush>>
      /\ x \in branch /\ state' = [state EXCEPT ![x] = "awaiting_merge"]
  BY DEF StageRefused
<1>2. /\ state'[x] = "awaiting_merge"
      /\ \A t \in Task : t # x => state'[t] = state[t]
  BY <1>1 DEF FlushInv, TrainTypeOK
<1>3. x \notin ToSet(origin)
  BY <1>1 DEF LandParts, Before, Unlanded
<1>4. Before' /\ OnTrain'
  BY <1>1 DEF LandParts, Before, Unlanded, OnTrain
<1>5. Waiting' /\ Told'
  BY <1>1, <1>2, <1>3 DEF LandParts, Waiting, Told
<1>6. ASSUME NEW g \in Flusher PROVE Covers(g)'
  BY <1>1, <1>2
  DEF LandParts, Covers, CoversHeld, CoversMarked, CoversSealing, At
<1>7. QED BY <1>4, <1>5, <1>6 DEF LandParts

\* integrate stages the commit on the train.
LEMMA LandStage ==
    ASSUME FlushInv, LandParts, NEW x \in Task, Stage(x)
    PROVE  LandParts'
<1> DEFINE under == IF train = Nil THEN origin ELSE train
           staged == Append(under, x)
<1>0. under \in Commit /\ x \in Change /\ train \in Commit \cup {Nil}
  BY DEF FlushInv, TrainTypeOK, Change
<1> USE DEF refs, records, world, counters
<1>1. /\ UNCHANGED <<marker, evidence, lock, origin, flush, state>>
      /\ x \in branch /\ branch' = branch \ {x} /\ train' = staged
      /\ pending'[x] = staged
      /\ \A t \in Task : t # x => pending'[t] = pending[t]
  BY DEF Stage, FlushInv, TrainTypeOK
<1>2. Unlanded(x) /\ (train # Nil => x \notin ToSet(train))
  BY <1>1 DEF LandParts, Before
<1>3. x \notin ToSet(under)
  <2>1. CASE train = Nil
    BY <1>2, <2>1 DEF Unlanded
  <2>2. CASE train # Nil
    BY <1>2, <2>2
  <2>3. QED BY <2>1, <2>2
<1>4. /\ staged \in Commit /\ ToSet(staged) = ToSet(under) \cup {x}
      /\ staged # Nil /\ Once(staged, x)
      /\ \A t \in Task : t # x /\ Once(under, t) => Once(staged, t)
  <2> HIDE DEF under
  <2>1. /\ staged \in Commit /\ ToSet(staged) = ToSet(under) \cup {x}
    BY <1>0, AppendCommit
  <2>2. Once(staged, x)
    BY <1>0, <1>3, OnceAppend
  <2>3. ASSUME NEW t \in Task, t # x, Once(under, t) PROVE Once(staged, t)
    BY <1>0, <2>3, OnceAppend
  <2>4. QED BY <2>1, <2>2, <2>3, TrainAssumption
<1> HIDE DEF staged
<1>5. ASSUME NEW t \in Task, Unlanded(t) PROVE Unlanded(t)'
  BY <1>1, <1>5 DEF Unlanded
<1>6. Before'
  <2>1. ASSUME NEW t \in Task, t # x, t \in branch PROVE t \notin ToSet(staged)
    BY <1>4, <2>1 DEF LandParts, Before, Unlanded
  <2>2. ASSUME NEW t \in Task
        PROVE  /\ t \in branch' \/ pending'[t] # Nil => Unlanded(t)
               /\ t \in branch' => /\ pending'[t] = Nil
                                   /\ train' # Nil => t \notin ToSet(train')
    BY <1>1, <1>2, <2>1 DEF LandParts, Before
  <2>3. QED BY <1>5, <2>2 DEF Before
<1>7. Waiting' /\ Told'
  BY <1>1 DEF LandParts, Waiting, Told
<1>8. OnTrain'
  <2>1. ASSUME NEW t \in Task, t \in ToSet(staged)
        PROVE  \/ t \in ToSet(origin)
               \/ Once(staged, t) /\ (pending'[t] # Nil \/ marker[t] # Nil)
    <3>1. CASE t = x
      BY <1>1, <1>4, <3>1
    <3>2. CASE t # x
      BY <1>1, <1>4, <2>1, <3>2 DEF LandParts, OnTrain
    <3>3. QED BY <3>1, <3>2
  <2>2. QED BY <1>1, <2>1 DEF OnTrain
<1>9. ASSUME NEW g \in Flusher PROVE Covers(g)'
  <2>1. Covers(g)
    BY DEF LandParts
  <2>2. CoversHeld(g)'
    BY <1>1, <2>1 DEF Covers, CoversHeld
  <2>3. CoversMarked(g)' /\ CoversSealing(g)'
    BY <1>1, <2>1 DEF Covers, CoversMarked, CoversSealing, At
  <2>4. QED BY <2>2, <2>3 DEF Covers
<1>10. QED BY <1>6, <1>7, <1>8, <1>9 DEF LandParts

\* integrate writes the marker of what it staged.
LEMMA LandMark ==
    ASSUME FlushInv, LandParts, NEW x \in Task, Mark(x)
    PROVE  LandParts'
<1> USE DEF refs, records, world, counters
<1>1. /\ UNCHANGED <<train, branch, evidence, lock, origin, flush>>
      /\ pending[x] # Nil /\ pending'[x] = Nil
      /\ marker'[x] = pending[x] /\ state'[x] = "awaiting_merge"
      /\ \A t \in Task : t # x =>
           /\ pending'[t] = pending[t] /\ marker'[t] = marker[t]
           /\ state'[t] = state[t]
  BY DEF Mark, FlushInv, TrainTypeOK
<1>2. Unlanded(x) /\ x \notin branch
  BY <1>1 DEF LandParts, Before
<1>3. Before'
  <2>1. ASSUME NEW t \in Task, t # x, Unlanded(t) PROVE Unlanded(t)'
    BY <1>1, <2>1 DEF Unlanded
  <2>2. QED BY <1>1, <1>2, <2>1 DEF LandParts, Before
<1>4. Waiting'
  BY <1>1 DEF LandParts, Waiting
<1>5. OnTrain'
  BY <1>1 DEF LandParts, OnTrain
<1>6. Told'
  BY <1>1, <1>2 DEF LandParts, Told, Unlanded
<1>7. ASSUME NEW g \in Flusher PROVE Covers(g)'
  <2>1. Covers(g) /\ x \notin flush[g].ids
    BY <1>2 DEF LandParts, Unlanded
  <2>2. flush[g].ids \subseteq Task
    BY DEF FlushInv, TrainTypeOK, FlushState
  <2>3. QED BY <1>1, <2>1, <2>2
            DEF Covers, CoversHeld, CoversMarked, CoversSealing, At
<1>8. QED BY <1>3, <1>4, <1>5, <1>6, <1>7 DEF LandParts

\* The others cover nothing.
LEMMA LandAlone ==
    ASSUME FlushInv, Solo, Single, NEW f \in Flusher, FlushStep(f)
    PROVE  \A g \in Flusher : g # f => flush'[g] = flush[g] /\ Covers(g)'
<1>1. \A g \in Flusher : g # f => /\ flush'[g] = flush[g]
                                  /\ flush'[g].at = "idle"
  BY OthersIdle
<1>2. QED
  BY <1>1
  DEF Covers, CoversHeld, CoversMarked, CoversSealing, At, Holding

\* A snapshot that no marker is late for.
LEMMA LandSnapshot ==
    ASSUME TrainInv, LandParts, Single, Sound, Sound', NEW f \in Flusher,
           Snapshot(f)
    PROVE  LandParts'
<1>0. FlushInv /\ TrainTypeOK /\ Solo /\ guessed = {}
  BY DEF TrainInv, FlushInv, Sound
<1> USE DEF refs, records, world, counters
<1>1. /\ UNCHANGED <<train, branch, pending, state, marker, evidence, lock,
                     origin>>
      /\ lock = Nil /\ train # Nil
      /\ unseen' = unseen \cup Unwritten
  BY DEF Snapshot, Unlocked, Ref
<1>2. /\ flush'[f].at = "validating" /\ flush'[f].snapshot = train
      /\ flush'[f].ids = Covered(train)
      /\ \A g \in Flusher : g # f => flush'[g] = flush[g] /\ Covers(g)'
  <2>1. flush' = [flush EXCEPT ![f] =
                    [Idle EXCEPT !.at = "validating", !.snapshot = train,
                                 !.ids = Covered(train), !.expected = local]]
    BY DEF Snapshot
  <2>2. \A g \in Flusher : g # f => flush'[g] = flush[g] /\ Covers(g)'
    BY <1>0, LandAlone DEF FlushStep
  <2>3. QED BY <1>0, <2>1, <2>2 DEF TrainTypeOK, Idle
<1>3. \A t \in Task : pending[t] = Nil
  BY <1>1 DEF Sound, Unwritten
<1>4. Before'
  <2>1. ASSUME NEW t \in Task, t \in branch PROVE Unlanded(t)'
    <3>1. Unlanded(t) /\ t \notin ToSet(train)
      BY <1>1, <2>1 DEF LandParts, Before
    <3>2. t \notin Covered(train)
      BY <3>1 DEF Unlanded, Covered
    <3>3. QED BY <1>1, <1>2, <3>1, <3>2 DEF Unlanded
  <2>2. QED BY <1>1, <1>3, <2>1 DEF LandParts, Before
<1>5. Waiting' /\ OnTrain' /\ Told'
  BY <1>1 DEF LandParts, Waiting, OnTrain, Told
<1>6. Covers(f)'
  <2>1. ASSUME NEW t \in Task, t \in ToSet(train), t \notin ToSet(origin)
        PROVE  t \in Covered(train)
    <3>1. marker[t] # Nil
      BY <1>1, <1>3, <2>1 DEF LandParts, OnTrain
    <3>2. OnItsWay(marker[t], t)
      BY <1>0, <3>1 DEF TrainInv, Carried
    <3>3. QED BY <2>1, <3>1, <3>2 DEF OnItsWay, Covered
  <2>2. CoversHeld(f)'
    BY <1>1, <1>2, <2>1 DEF CoversHeld
  <2>3. CoversMarked(f)' /\ CoversSealing(f)'
    BY <1>1, <1>2 DEF CoversMarked, CoversSealing, Covered, At
  <2>4. QED BY <2>2, <2>3 DEF Covers
<1>7. QED BY <1>2, <1>4, <1>5, <1>6 DEF LandParts

\* The push.
LEMMA LandPush ==
    ASSUME TrainInv, LandParts, Single, Sound, NEW f \in Flusher,
           \/ LandCheckedOut(f) /\ Push(f, flush[f].snapshot)
           \/ PushBranch(f) /\ Push(f, local)
    PROVE  LandParts'
<1>0. FlushInv /\ TrainTypeOK /\ Solo
  BY DEF TrainInv, FlushInv, Sound
<1> USE DEF refs, records, world, counters
<1>1. /\ UNCHANGED <<branch, pending, state, marker, evidence>>
      /\ flush[f].at \in {"landing", "pushing"}
      /\ lock = Nil \/ (lock = f /\ flush[f].at = "pushing")
      /\ IsPrefix(origin, origin') /\ lock' = f
      /\ train' = Nil \/ train' = train
      /\ flush' = [flush EXCEPT ![f].at = "recording"]
  BY <1>0
  DEF LandCheckedOut, PushBranch, Unlocked, Push, Landed, AfterLanding,
      Accepts, FlushInv, Knows, At
<1>2. /\ flush'[f].at = "recording" /\ flush'[f].snapshot = flush[f].snapshot
      /\ flush'[f].ids = flush[f].ids
      /\ \A g \in Flusher : g # f => flush'[g] = flush[g] /\ Covers(g)'
  <2>1. \A g \in Flusher : g # f => flush'[g] = flush[g] /\ Covers(g)'
    BY <1>0, LandAlone DEF FlushStep
  <2>2. QED BY <1>0, <1>1, <2>1 DEF TrainTypeOK, FlushState
<1>3. /\ ToSet(origin) \subseteq ToSet(origin')
      /\ \A t \in Task : t \in ToSet(origin') =>
           t \in ToSet(flush[f].snapshot) \cup ToSet(origin)
  <2>1. origin \in Commit /\ local \in Commit /\ flush[f].snapshot \in Commit
    BY <1>0 DEF TrainTypeOK, FlushState
  <2>2. origin' \in Commit
    BY <2>1 DEF Push, Landed
  <2>3. ToSet(origin) \subseteq ToSet(origin')
    BY <1>1, <2>1, <2>2, PrefixContents DEF Commit
  <2>4. CASE LandCheckedOut(f) /\ Push(f, flush[f].snapshot)
    BY <2>3, <2>4 DEF Push, Landed
  <2>5. CASE PushBranch(f) /\ Push(f, local)
    BY <1>0, <2>3, <2>5 DEF PushBranch, Push, Landed, FlushInv, Knows
  <2>6. QED BY <2>4, <2>5
<1>4. Before'
  <2>1. ASSUME NEW t \in Task, Unlanded(t) PROVE Unlanded(t)'
    BY <1>1, <1>2, <1>3, <2>1 DEF Unlanded
  <2>2. QED BY <1>1, <2>1 DEF LandParts, Before
<1>5. Waiting'
  BY <1>1 DEF LandParts, Waiting
<1>6. OnTrain'
  BY <1>1, <1>3 DEF LandParts, OnTrain
<1>7. Covers(f)'
  <2>1. CoversMarked(f)'
    BY <1>1, <1>2 DEF LandParts, Covers, CoversMarked, Holding, At
  <2>2. QED BY <1>2, <2>1 DEF Covers, CoversHeld, CoversSealing, Holding, At
<1>8. Told'
  <2>1. SUFFICES ASSUME NEW t \in Task, t \in ToSet(origin')
                 PROVE  state[t] = "merged" \/ t \in flush[f].ids
    BY <1>1, <1>2, TrainAssumption DEF Told
  <2>2. t \in flush[f].ids \/ t \in ToSet(origin)
    BY <1>1, <1>3, <2>1 DEF LandParts, Covers, CoversHeld, Holding
  <2>3. QED BY <1>1, <2>2 DEF LandParts, Told
<1>9. QED BY <1>2, <1>4, <1>5, <1>6, <1>7, <1>8 DEF LandParts

\* The records of what landed.
LEMMA LandRecord ==
    ASSUME TrainInv, LandParts, Single, Sound, NEW f \in Flusher, Record(f)
    PROVE  LandParts'
<1>0. FlushInv /\ TrainTypeOK /\ Solo /\ guessed = {}
  BY DEF TrainInv, FlushInv, Sound
<1> USE DEF refs, records, world, counters
<1> DEFINE ids == flush[f].ids
<1>1. /\ UNCHANGED <<train, branch, pending, state, lock, origin>>
      /\ At(f, "recording") /\ flush' = [flush EXCEPT ![f].at = "sealing"]
      /\ \A t \in Task :
           /\ marker'[t] = IF t \in ids THEN Nil ELSE marker[t]
           /\ t \in ids => evidence'[t] = IF marker[t] = Nil
                                          THEN flush[f].snapshot ELSE marker[t]
  BY DEF Record
<1>2. /\ flush'[f].at = "sealing" /\ flush'[f].snapshot = flush[f].snapshot
      /\ flush'[f].ids = ids /\ ids \subseteq Task
      /\ \A g \in Flusher : g # f => flush'[g] = flush[g] /\ Covers(g)'
  <2>1. \A g \in Flusher : g # f => flush'[g] = flush[g] /\ Covers(g)'
    BY <1>0, LandAlone DEF FlushStep
  <2>2. QED BY <1>0, <1>1, <2>1 DEF TrainTypeOK, FlushState
<1>3. \A g \in Flusher : /\ flush'[g].ids = flush[g].ids
                         /\ flush'[g].snapshot = flush[g].snapshot
  BY <1>2
<1>4. \A t \in ids : marker[t] # Nil /\ IsPrefix(marker[t], flush[f].snapshot)
  BY <1>1 DEF LandParts, Covers, CoversMarked, At
<1>5. Before'
  <2>1. ASSUME NEW t \in Task, Unlanded(t) PROVE Unlanded(t)'
    BY <1>1, <1>3, <2>1 DEF Unlanded
  <2>2. QED BY <1>1, <2>1 DEF LandParts, Before
<1>6. Waiting'
  BY <1>1 DEF LandParts, Waiting
<1>7. OnTrain'
  <2>1. ASSUME NEW t \in ids PROVE t \in ToSet(origin)
    <3>1. t \in ToSet(flush[f].snapshot) \cup ToSet(origin)
      BY <1>0, <1>2 DEF TrainInv, Carried
    <3>2. IsPrefix(flush[f].snapshot, tracked) /\ IsPrefix(tracked, origin)
      BY <1>0, <1>1 DEF FlushInv, Knows, Tracks, At
    <3>3. /\ flush[f].snapshot \in Commit /\ tracked \in Commit
          /\ origin \in Commit
      BY <1>0 DEF TrainTypeOK, FlushState
    <3>4. /\ ToSet(flush[f].snapshot) \subseteq ToSet(tracked)
          /\ ToSet(tracked) \subseteq ToSet(origin)
      BY <3>2, <3>3, PrefixContents DEF Commit
    <3>5. QED BY <3>1, <3>4
  <2>2. QED BY <1>1, <2>1 DEF LandParts, OnTrain
<1>8. Told'
  <2>1. lock = f
    BY <1>0, <1>1 DEF FlushInv, Knows, At
  <2>2. QED BY <1>1, <1>2, <2>1 DEF LandParts, Told
<1>9. Covers(f)'
  <2>1. CoversSealing(f)'
    BY <1>1, <1>2, <1>4 DEF CoversSealing, LandParts, Waiting
  <2>2. QED BY <1>2, <2>1 DEF Covers, CoversHeld, CoversMarked, Holding, At
<1>10. QED BY <1>2, <1>5, <1>6, <1>7, <1>8, <1>9 DEF LandParts

\* The transitions of what landed.
LEMMA LandSeal ==
    ASSUME TrainInv, LandParts, Single, Sound, NEW f \in Flusher, Seal(f)
    PROVE  LandParts'
<1>0. FlushInv /\ TrainTypeOK /\ Solo
  BY DEF TrainInv, FlushInv, Sound
<1> USE DEF refs, records, world, counters
<1> DEFINE ids == flush[f].ids
<1>1. /\ UNCHANGED <<train, branch, pending, marker, evidence, origin>>
      /\ At(f, "sealing") /\ flush' = [flush EXCEPT ![f] = Idle]
      /\ \A t \in Task : state'[t] =
           IF /\ t \in ids /\ state[t] = "awaiting_merge"
              /\ evidence[t] # Nil /\ IsPrefix(evidence[t], tracked)
           THEN "merged" ELSE state[t]
  BY DEF Seal
<1>2. /\ flush'[f].at = "idle" /\ flush'[f].snapshot = <<>>
      /\ flush'[f].ids = {}
      /\ \A g \in Flusher : g # f => flush'[g] = flush[g] /\ Covers(g)'
  <2>1. \A g \in Flusher : g # f => flush'[g] = flush[g] /\ Covers(g)'
    BY <1>0, LandAlone DEF FlushStep
  <2>2. QED BY <1>0, <1>1, <2>1 DEF TrainTypeOK, Idle
<1>3. /\ lock = f /\ IsPrefix(flush[f].snapshot, tracked)
      /\ \A t \in ids : /\ marker[t] = Nil /\ state[t] = "awaiting_merge"
                        /\ evidence[t] # Nil
                        /\ IsPrefix(evidence[t], flush[f].snapshot)
  BY <1>0, <1>1 DEF FlushInv, Knows, At, LandParts, Covers, CoversSealing
<1>4. \A t \in Task : t \in ids => state'[t] = "merged"
  <2>1. SUFFICES ASSUME NEW t \in Task, t \in ids PROVE state'[t] = "merged"
    OBVIOUS
  <2>2. /\ evidence[t] \in Commit /\ flush[f].snapshot \in Commit
        /\ tracked \in Commit
    BY <1>0, <1>3, <2>1 DEF TrainTypeOK, FlushState
  <2>3. IsPrefix(evidence[t], tracked)
    BY <1>3, <2>1, <2>2, PrefixTransitive DEF Commit
  <2>4. QED BY <1>1, <1>3, <2>1, <2>3
<1>5. Before'
  <2>1. ASSUME NEW t \in Task, Unlanded(t) PROVE Unlanded(t)'
    BY <1>1, <1>2, <2>1 DEF Unlanded, ToSet
  <2>2. QED BY <1>1, <2>1 DEF LandParts, Before
<1>6. Waiting'
  BY <1>1, <1>3 DEF LandParts, Waiting
<1>7. OnTrain'
  BY <1>1 DEF LandParts, OnTrain
<1>8. Told'
  <2>1. ASSUME NEW t \in Task, t \in ToSet(origin) PROVE state'[t] = "merged"
    BY <1>1, <1>3, <1>4, <2>1 DEF LandParts, Told
  <2>2. QED BY <1>1, <2>1 DEF Told
<1>9. Covers(f)'
  BY <1>2 DEF Covers, CoversHeld, CoversMarked, CoversSealing, Holding, At
<1>10. QED BY <1>2, <1>5, <1>6, <1>7, <1>8, <1>9 DEF LandParts

\* The commit an ejection takes out.
LEMMA CulpritCommit ==
    ASSUME NEW base, NEW snapshot, NEW k, NEW now, NEW bad, NEW bottom,
           NEW picks, NEW tip, NEW r,
           Ejection(base, snapshot, k, now, bad, bottom, picks, tip, r)
    PROVE  Staged(base, snapshot, k) \in Commit
<1>1. /\ base \in Commit /\ snapshot \in Commit
      /\ k \in 1..Count(base, snapshot) /\ IsPrefix(base, snapshot)
  BY DEF Ejection
<1>2. Len(base) + k \in 1..Len(snapshot)
  BY <1>1, PrefixElements DEF Commit, Count
<1>3. QED BY <1>1, <1>2, HistoryAt DEF Staged

\* An ejection that guesses nobody.
LEMMA LandEject ==
    ASSUME TrainInv, SoloInv, LandParts, Sound, Sound', NEW f \in Flusher,
           Eject(f)
    PROVE  LandParts'
<1>0. /\ FlushInv /\ TrainTypeOK /\ Solo /\ Single /\ HasSnapshot(f)
      /\ guessed = {} /\ guessed' = {}
  BY DEF TrainInv, FlushInv, Sound, SoloInv
<1> DEFINE base == flush[f].base
           snapshot == flush[f].snapshot
           k == flush[f].k
<1>1. At(f, "ejecting") /\ lock = Nil
  BY <1>0, EjectUnfolds
<1>2. TipNow(f) = train /\ train # Nil /\ IsPrefix(snapshot, train)
  BY <1>0, <1>1 DEF HasSnapshot, Holding, At, TipNow
<1>3. PICK bad, bottom, picks, tip, r :
        /\ Ejection(base, snapshot, k, train, bad, bottom, picks, tip, r)
        /\ Ejected(f, r)
  BY <1>0, <1>2, EjectUnfolds
<1>4. /\ UNCHANGED <<origin, lock, branch, pending, evidence>>
      /\ marker' = r.kept
      /\ \A t \in Task : state'[t] = IF t \in Culprits(f) \cup r.gone
                                     THEN "awaiting_merge" ELSE state[t]
      /\ train' = Nil \/ train' = r.tip
  BY <1>3 DEF Ejected
<1>5. /\ Unwritten = {} /\ GuessedFrom(base, snapshot, k) = {}
  BY <1>0, <1>3 DEF Ejected
<1>6. \A t \in Task : pending[t] = Nil
  BY <1>5 DEF Unwritten
<1>7. /\ flush'[f].at \in {"idle", "starting"}
      /\ flush'[f].ids = {} /\ flush'[f].snapshot = <<>>
      /\ \A g \in Flusher : g # f => flush'[g] = flush[g] /\ Covers(g)'
  <2>1. flush' = [flush EXCEPT ![f] =
            IF r.emptied THEN Idle ELSE [Idle EXCEPT !.at = "starting"]]
    BY <1>3 DEF Ejected
  <2>2. \A g \in Flusher : g # f => flush'[g] = flush[g] /\ Covers(g)'
    BY <1>0, LandAlone DEF FlushStep
  <2>3. QED BY <1>0, <2>1, <2>2 DEF TrainTypeOK, Idle
<1>8. r.tip = tip /\ ToSet(tip) \subseteq ToSet(train)
  BY <1>0, <1>2, <1>3, RestackMarkers, EjectionShrinks
<1>9. \A t \in Task : marker[t] = Nil => marker'[t] = Nil
  BY <1>0, <1>3, <1>4, RestackMarkers
<1>10. Before'
  <2>1. ASSUME NEW t \in Task, Unlanded(t) PROVE Unlanded(t)'
    BY <1>4, <1>7, <1>9, <2>1 DEF Unlanded, ToSet
  <2>2. ASSUME NEW t \in Task, t \in branch PROVE t \notin ToSet(tip)
    BY <1>2, <1>8, <2>2 DEF LandParts, Before
  <2>3. QED BY <1>4, <1>6, <1>8, <2>1, <2>2 DEF LandParts, Before
<1>11. Waiting'
  <2>1. SUFFICES ASSUME NEW t \in Task, marker'[t] # Nil
                 PROVE  state'[t] = "awaiting_merge"
    BY DEF Waiting
  <2>2. state[t] = "awaiting_merge"
    BY <1>9, <2>1 DEF LandParts, Waiting
  <2>3. QED BY <1>4, <2>2
<1>12. OnTrain'
  <2>1. ASSUME NEW t \in Task, t \in ToSet(tip), t \notin ToSet(origin)
        PROVE  Once(tip, t) /\ r.kept[t] # Nil
    <3>1. Once(train, t) /\ marker[t] # Nil
      BY <1>2, <1>6, <1>8, <2>1 DEF LandParts, OnTrain
    <3>2. Ends(marker[t], t)
      BY <1>0, <3>1 DEF TrainInv, Carried, OnItsWay
    <3>3. QED BY <1>0, <1>2, <1>3, <1>5, <2>1, <3>1, <3>2, EjectionKeepsOwners
  <2>2. QED BY <1>4, <1>8, <2>1 DEF OnTrain
<1>13. ASSUME NEW t \in Task, t \in Culprits(f) \cup r.gone
       PROVE  marker[t] # Nil
  <2>1. CASE t \in Culprits(f)
    <3>1. Staged(base, snapshot, k) \in Commit
      BY <1>3, CulpritCommit
    <3>2. QED BY <2>1, <3>1, TrainAssumption
              DEF Culprits, Owner, ByMarker, ByPlace
  <2>2. CASE t \in r.gone
    <3>1. RestackParts(bottom, tip, picks, bad, r)
      BY <1>0, <1>3, RestackMarkers
    <3>2. PICK i \in 1..Len(picks) : t \in picks[i].owners
      BY <2>2, <3>1 DEF RestackParts
    <3>3. /\ base \in Commit /\ snapshot \in Commit /\ train \in Commit
          /\ IsPrefix(base, snapshot) /\ k \in 1..Count(base, snapshot)
          /\ picks = Replayed(base, snapshot, k, train)
      BY <1>3 DEF Ejection
    <3>4. marker[t] \in Commit
      BY <1>5, <3>2, <3>3, PickOwnersMarker
    <3>5. QED BY <3>4, TrainAssumption
  <2>3. QED BY <1>13, <2>1, <2>2
<1>14. Told'
  <2>1. SUFFICES ASSUME NEW t \in Task, t \in ToSet(origin)
                 PROVE  state'[t] = "merged"
    BY <1>4 DEF Told
  <2>2. state[t] = "merged"
    BY <1>1, <2>1 DEF LandParts, Told
  <2>3. marker[t] = Nil
    BY <2>2 DEF LandParts, Waiting
  <2>4. QED BY <1>4, <1>13, <2>2, <2>3
<1>15. Covers(f)'
  BY <1>7 DEF Covers, CoversHeld, CoversMarked, CoversSealing, Holding, At
<1>16. QED BY <1>7, <1>10, <1>11, <1>12, <1>14, <1>15 DEF LandParts

\* What lands is reported, at the start
LEMMA LandInvInit == TrainInit => LandInv
<1> SUFFICES ASSUME TrainInit PROVE LandInv
  OBVIOUS
<1>1. TrainInv /\ SoloInv
  BY TrainInvInit, SoloInvInit
<1>3. ToSet(<<>>) = {}
  BY DEF ToSet
<1>4. Before
  BY <1>3 DEF TrainInit, Before, Unlanded, Idle
<1>5. Waiting /\ OnTrain /\ Told
  BY <1>3 DEF TrainInit, Waiting, OnTrain, Told
<1>6. \A f \in Flusher : Covers(f)
  BY DEF TrainInit, Covers, CoversHeld, CoversMarked, CoversSealing, Holding,
         At, Idle
<1>7. QED BY <1>1, <1>4, <1>5, <1>6 DEF LandInv, LandParts

\* and after every step.
LEMMA LandInvStep == LandInv /\ [TrainNext]_trainVars => LandInv'
<1> SUFFICES ASSUME LandInv, [TrainNext]_trainVars PROVE LandInv'
  OBVIOUS
<1>1. /\ TrainInv /\ TrainInv' /\ FlushInv /\ TrainTypeOK'
      /\ SoloInv /\ Single
  BY TrainInvStep DEF LandInv, TrainInv, SoloInv, FlushInv
<1>2. SoloInv'
  BY <1>1, SoloInvStep
<1>3. SUFFICES ASSUME Sound' PROVE LandParts'
  BY <1>1, <1>2 DEF LandInv
<1>4. /\ Sound /\ \A f \in Flusher : ~CrashFlush(f)
      /\ \A t \in Task : ~CrashIntegrate(t)
  BY <1>1, <1>3, SoundBefore
<1>5. LandParts
  BY <1>4 DEF LandInv
<1>6. ASSUME NEW t \in Task, StageRefused(t) \/ Stage(t) \/ Mark(t)
      PROVE  LandParts'
  BY <1>1, <1>5, <1>6, LandStageRefused, LandStage, LandMark
<1>7. ASSUME NEW f \in Flusher,
             \/ Start(f) \/ Empty(f) \/ RunGreen(f) \/ RunRed(f) \/ RetryRed(f)
             \/ BisectFinds(f) \/ BisectFindsNone(f) \/ Halt(f)
             \/ LandRefused(f)
      PROVE  LandParts'
  BY <1>1, <1>5, <1>7, LandStaysFlush
<1>8. ASSUME NEW f \in Flusher,
             LandCheckedOut(f) \/ MoveBranch(f) \/ PushBranch(f)
      PROVE  LandParts'
  <2>1. CASE \/ LandCheckedOut(f) /\ Push(f, flush[f].snapshot)
             \/ PushBranch(f) /\ Push(f, local)
    BY <1>1, <1>4, <1>5, <2>1, LandPush
  <2>2. CASE \/ MoveBranch(f)
             \/ LandCheckedOut(f) /\ Rejected(f, flush[f].snapshot)
             \/ PushBranch(f) /\ Rejected(f, local)
    BY <1>1, <1>5, <2>2, LandStaysFlush
  <2>3. QED BY <1>8, <2>1, <2>2 DEF LandCheckedOut, PushBranch
<1>9. ASSUME NEW f \in Flusher, Snapshot(f) \/ Eject(f)
      PROVE  LandParts'
  BY <1>1, <1>3, <1>4, <1>5, <1>9, LandSnapshot, LandEject
<1>10. ASSUME NEW f \in Flusher, Record(f) \/ Seal(f)
       PROVE  LandParts'
  BY <1>1, <1>4, <1>5, <1>10, LandRecord, LandSeal
<1>11. CASE \/ \E o \in Outsider : PushOutside(o) \/ CommitLocally(o)
            \/ Pull \/ UNCHANGED trainVars
  BY <1>1, <1>5, <1>11, LandStaysOutside
<1>12. QED
  BY <1>4, <1>6, <1>7, <1>8, <1>9, <1>10, <1>11 DEF TrainNext, FlushStep

-----------------------------------------------------------------------------

\* Every variable of the train keeps its type, however often it is restacked.
THEOREM TrainTypes == TrainSpec => []TrainTypeOK
<1>1. FlushInv => TrainTypeOK
  BY DEF FlushInv
<1>2. QED BY <1>1, FlushInvInit, FlushInvStep, PTL DEF TrainSpec

\* The train moves the branch on origin only to a commit that the suite has
\* passed on, or to the local branch with what others have committed on top of
\* such a commit.
THEOREM TestedTreesLand == TrainSpec => OnlyTestedTreesLand
<1>1. TestedInv /\ [TrainNext]_trainVars
        => [origin' # origin => \/ outside' # outside
                                \/ origin' \in passed
                                \/ origin' = local /\ Tested(local)]_trainVars
  <2> SUFFICES ASSUME TestedInv, TrainNext, origin' # origin,
                      outside' = outside
               PROVE  origin' \in passed \/ (origin' = local /\ Tested(local))
    OBVIOUS
  <2>0. FlushInv /\ Tested(local)
    BY DEF TestedInv
  <2> USE DEF refs, records, world, counters
  <2>1. ASSUME NEW f \in Flusher, LandCheckedOut(f) PROVE origin' \in passed
    BY <2>0, <2>1 DEF LandCheckedOut, Push, Rejected, Landed, FlushInv, Knows, At
  <2>2. ASSUME NEW f \in Flusher, PushBranch(f) PROVE origin' = local
    BY <2>2 DEF PushBranch, Push, Rejected, Landed
  <2>3. ASSUME NEW o \in Outsider, PushOutside(o) PROVE FALSE
    BY <2>3 DEF PushOutside
  <2>4. ASSUME NEW f \in Flusher, Eject(f) PROVE FALSE
    BY <2>0, <2>4, EjectUnfolds DEF Ejected
  <2>5. CASE /\ \A f \in Flusher :
                   ~LandCheckedOut(f) /\ ~PushBranch(f) /\ ~Eject(f)
             /\ \A o \in Outsider : ~PushOutside(o)
    BY <2>5
    DEF TrainNext, FlushStep, StageRefused, Stage, Mark, CrashIntegrate,
        Start, CrashFlush, Snapshot, Empty, RunGreen, RunRed, RetryRed,
        BisectFinds, BisectFindsNone, Halt, MoveBranch, LandRefused, Record,
        Seal, CommitLocally, Pull
  <2>6. QED BY <2>0, <2>1, <2>2, <2>3, <2>4, <2>5
<1>2. QED BY <1>1, TestedInvInit, TestedInvStep, PTL
          DEF TrainSpec, OnlyTestedTreesLand

\* Where the work of each task is, in every reachable state.
LEMMA TrainInvariant == TrainSpec => []TrainInv
  BY TrainInvInit, TrainInvStep, PTL DEF TrainSpec

\* A merged task's change is on origin, but for a task a restack guessed.
THEOREM MergedTasksLanded == TrainSpec => []MergedIsLanded
<1>1. TrainInv => MergedIsLanded
  BY DEF TrainInv, Carried, MergedIsLanded
<1>2. QED BY <1>1, TrainInvariant, PTL

\* A task that integrate took off its branch is on the train, on origin or
\* ejected with a reason, but for a task a restack guessed or whose integrate
\* died before it wrote the marker.
THEOREM NothingStagedIsLost == TrainSpec => []StagedWorkIsKept
<1>1. TrainInv => StagedWorkIsKept
  <2> SUFFICES ASSUME TrainInv, NEW t \in Task \ guessed,
                      t \notin branch, t \notin ToSet(origin),
                      diag[t] \notin {"batch", "restack"}, t \notin orphans
               PROVE  train # Nil /\ t \in ToSet(train)
    BY DEF StagedWorkIsKept
  <2>1. Carried(t)
    BY DEF TrainInv
  <2>2. PICK c \in {marker[t], pending[t]} : c # Nil /\ OnItsWay(c, t)
    BY <2>1 DEF Carried
  <2>3. /\ c \in Commit /\ t \in ToSet(c)
        /\ train # Nil /\ IsPrefix(c, train)
    BY <2>2, EndsInside DEF OnItsWay, Ends
  <2>4. train \in Commit
    BY <2>3 DEF TrainInv, FlushInv, TrainTypeOK
  <2>5. QED BY <2>3, <2>4, PrefixContents DEF Commit
<1>2. QED BY <1>1, TrainInvariant, PTL

\* With runs that tell the truth, only a task with a part in a failure is
\* ejected for it.
THEOREM CulpritsBlamed == TrainSpec => []OnlyCulpritsBlamed
<1>1. BlameInv => OnlyCulpritsBlamed
  BY DEF BlameInv
<1>2. QED BY <1>1, BlameInvInit, BlameInvStep, PTL DEF TrainSpec

\* Every task whose commit a flush lands becomes merged, unless a process
\* died on the way, a marker was late, an owner was guessed or another process
\* restacked the train meanwhile.
THEOREM LandedAreMerged == TrainSpec => []LandedIsMerged
<1>1. LandInv => LandedIsMerged
  BY DEF LandInv, Sound, LandParts, Told, LandedIsMerged
<1>2. QED BY <1>1, LandInvInit, LandInvStep, PTL DEF TrainSpec

\* With one process that flushes, an ejection leaves a shorter train than it
\* found, or none.
LEMMA EjectShrinksTrain ==
    ASSUME SoloInv, Solo, NEW f \in Flusher, Eject(f)
    PROVE  train # Nil /\ (train' = Nil \/ Len(train') < Len(train))
<1>1. FlushInv /\ TrainTypeOK /\ HasSnapshot(f)
  BY DEF SoloInv, FlushInv
<1>2. At(f, "ejecting")
  BY <1>1, EjectUnfolds
<1>3. /\ TipNow(f) = train /\ train # Nil
      /\ IsPrefix(flush[f].snapshot, train)
  BY <1>1, <1>2 DEF HasSnapshot, Holding, At, TipNow
<1>4. PICK bad, bottom, picks, tip, r :
        /\ Ejection(flush[f].base, flush[f].snapshot, flush[f].k,
                    train, bad, bottom, picks, tip, r)
        /\ Ejected(f, r)
  BY <1>1, <1>3, EjectUnfolds
<1>5. Len(tip) < Len(train) /\ r.tip = tip
  BY <1>1, <1>3, <1>4, EjectionShrinks, RestackMarkers
<1>6. train' = Nil \/ train' = r.tip
  BY <1>4 DEF Ejected
<1>7. QED BY <1>3, <1>5, <1>6

\* How far a flush is from its end: the commits it may still have to eject,
\* then the stages of one round.
TrainSize == IF train = Nil THEN 0 ELSE Len(train) + 1
StepsLeft(stage) ==
    CASE stage = "starting" -> 9
      [] stage = "validating" -> 8
      [] stage = "bisecting" -> 7
      [] stage = "retrying" -> 6
      [] stage = "ejecting" -> 5
      [] stage = "landing" -> 4
      [] stage = "pushing" -> 3
      [] stage = "recording" -> 2
      [] stage = "sealing" -> 1
      [] OTHER -> 0
Nearer(f) ==
    \/ TrainSize' < TrainSize
    \/ TrainSize' = TrainSize /\ StepsLeft(flush'[f].at) < StepsLeft(flush[f].at)

\* Each stage of a flush that works alone brings it nearer to its end.
LEMMA FlushStepNearer ==
    ASSUME SoloInv, Solo, NEW f \in Flusher, FlushStep(f)
    PROVE  Nearer(f) /\ branch' = branch
<1>1. FlushInv /\ TrainTypeOK /\ HasSnapshot(f)
  BY DEF SoloInv, FlushInv
<1>2. flush \in [Flusher -> FlushState]
  BY <1>1 DEF TrainTypeOK
<1>3. ASSUME train' = train, NEW a, NEW b, flush[f].at = a, flush'[f].at = b,
             StepsLeft(b) < StepsLeft(a)
      PROVE  Nearer(f)
  BY <1>3 DEF Nearer, TrainSize
<1>14. ASSUME NEW b, flush' = [flush EXCEPT ![f].at = b] PROVE flush'[f].at = b
  BY <1>2, <1>14 DEF FlushState
<1>15. ASSUME flush' = [flush EXCEPT ![f] = Idle] PROVE flush'[f].at = "idle"
  BY <1>2, <1>15 DEF Idle
<1> USE DEF refs, At
<1>4. CASE Snapshot(f) \/ Empty(f)
  <2>1. /\ train' = train /\ branch' = branch /\ flush[f].at = "starting"
        /\ flush'[f].at \in {"validating", "idle"}
    <3>1. CASE Snapshot(f)
      <4>1. PICK snap, ids, exp :
              flush' = [flush EXCEPT ![f] =
                          [Idle EXCEPT !.at = "validating", !.snapshot = snap,
                                       !.ids = ids, !.expected = exp]]
        BY <3>1 DEF Snapshot
      <4>2. flush'[f].at = "validating"
        BY <1>2, <4>1 DEF Idle
      <4>3. QED BY <3>1, <4>2 DEF Snapshot
    <3>2. CASE Empty(f)
      BY <1>15, <3>2 DEF Empty
    <3>3. QED BY <1>4, <3>1, <3>2
  <2>2. QED BY <1>3, <2>1 DEF StepsLeft
<1>5. CASE RunGreen(f) \/ RunRed(f) \/ RetryRed(f)
  <2>1. /\ train' = train /\ branch' = branch
        /\ \/ flush[f].at = "validating" /\ flush'[f].at \in {"landing", "bisecting"}
           \/ flush[f].at = "retrying" /\ flush'[f].at \in {"landing", "idle"}
    BY <1>14, <1>15, <1>5 DEF RunGreen, RunRed, RetryRed
  <2>2. QED BY <1>3, <2>1 DEF StepsLeft
<1>6. CASE BisectFinds(f)
  <2>1. PICK k : flush' = [flush EXCEPT ![f].at = "ejecting",
                    ![f].base = TrainBase(flush[f].snapshot), ![f].k = k]
    BY <1>6 DEF BisectFinds
  <2>2. train' = train /\ branch' = branch /\ flush[f].at = "bisecting"
    BY <1>6 DEF BisectFinds
  <2>3. flush'[f].at = "ejecting"
    BY <1>2, <2>1 DEF FlushState
  <2>4. QED BY <1>3, <2>2, <2>3 DEF StepsLeft
<1>7. CASE BisectFindsNone(f) \/ Halt(f)
  <2>1. /\ train' = train /\ branch' = branch
        /\ \/ flush[f].at = "bisecting" /\ flush'[f].at = "retrying"
           \/ /\ flush[f].at \in {"validating", "bisecting", "retrying"}
              /\ flush'[f].at = "idle"
    BY <1>14, <1>15, <1>7 DEF BisectFindsNone, Halt
  <2>2. QED BY <1>3, <2>1 DEF StepsLeft
<1>8. CASE Eject(f)
  <2>1. train # Nil /\ (train' = Nil \/ Len(train') < Len(train))
    BY <1>8, EjectShrinksTrain
  <2>2. branch' = branch
    <3>1. PICK r : Ejected(f, r)
      BY <1>1, <1>8, EjectUnfolds
    <3>2. QED BY <3>1 DEF Ejected
  <2>3. (train' = Nil \/ train' \in Commit) /\ train \in Commit
    BY <1>1, <1>8, <2>1, FlushInvStep DEF TrainNext, FlushStep, FlushInv, TrainTypeOK
  <2>4. Len(train) \in Nat /\ (train' # Nil => Len(train') \in Nat)
    BY <2>3 DEF Commit
  <2>5. TrainSize' < TrainSize
    BY <2>1, <2>4 DEF TrainSize
  <2>6. QED BY <2>2, <2>5 DEF Nearer
<1>9. CASE \/ LandCheckedOut(f) \/ MoveBranch(f)
           \/ PushBranch(f) \/ LandRefused(f)
  <2>1. flush[f].at \in {"landing", "pushing"} /\ branch' = branch
    BY <1>9 DEF LandCheckedOut, MoveBranch, PushBranch, LandRefused
  <2>2. \/ flush' = [flush EXCEPT ![f].at = "recording"]
        \/ flush' = [flush EXCEPT ![f] = Idle]
        \/ /\ flush[f].at = "landing"
           /\ flush' = [flush EXCEPT ![f].at = "pushing"]
    BY <1>9
    DEF LandCheckedOut, MoveBranch, PushBranch, LandRefused, Push, Rejected
  <2>3. \/ flush'[f].at \in {"recording", "idle"}
        \/ flush[f].at = "landing" /\ flush'[f].at = "pushing"
    BY <1>14, <1>15, <2>2
  <2>4. train' \in {train, Nil} /\ train # Nil
    BY <1>1, <1>9, <2>1
    DEF LandCheckedOut, MoveBranch, PushBranch, LandRefused, Push, Rejected,
        AfterLanding, HasSnapshot, Holding
  <2>5. CASE train' = train
    BY <1>3, <2>1, <2>3, <2>5 DEF StepsLeft
  <2>6. CASE train' = Nil
    <3>1. Len(train) \in Nat
      BY <1>1, <2>4 DEF TrainTypeOK, Commit
    <3>2. TrainSize' < TrainSize
      BY <2>4, <2>6, <3>1 DEF TrainSize
    <3>3. QED BY <2>1, <3>2 DEF Nearer
  <2>7. QED BY <2>1, <2>4, <2>5, <2>6
<1>10. CASE Record(f) \/ Seal(f)
  <2>1. /\ train' = train /\ branch' = branch
        /\ \/ flush[f].at = "recording" /\ flush'[f].at = "sealing"
           \/ flush[f].at = "sealing" /\ flush'[f].at = "idle"
    BY <1>14, <1>15, <1>10 DEF Record, Seal
  <2>2. QED BY <1>3, <2>1 DEF StepsLeft
<1>11. QED
  BY <1>4, <1>5, <1>6, <1>7, <1>8, <1>9, <1>10 DEF FlushStep

\* No other step takes it farther from its end, but for a staging, which uses
\* up a branch.
LEMMA OthersKeepNear ==
    ASSUME SoloInv, Solo, [TrainNext]_trainVars, NEW f \in Flusher,
           ~At(f, "idle"), ~FlushStep(f)
    PROVE  /\ branch' \subseteq branch
           /\ branch' = branch =>
                \/ Nearer(f)
                \/ TrainSize' = TrainSize /\ flush'[f].at = flush[f].at
<1>1. FlushInv /\ TrainTypeOK /\ Single
  BY DEF SoloInv, FlushInv
<1>2. flush \in [Flusher -> FlushState]
  BY <1>1 DEF TrainTypeOK
<1> USE DEF refs
<1>3. ASSUME train' = train, branch' = branch, flush'[f].at = flush[f].at
      PROVE  TrainSize' = TrainSize
  BY <1>3 DEF TrainSize
<1>4. ASSUME NEW t \in Task, Stage(t) PROVE branch' \subseteq branch /\ branch' # branch
  BY <1>4 DEF Stage
<1>5. ASSUME NEW t \in Task, StageRefused(t) \/ Mark(t) \/ CrashIntegrate(t)
      PROVE  train' = train /\ branch' = branch /\ flush' = flush
  BY <1>5 DEF StageRefused, Mark, CrashIntegrate
<1>6. ASSUME NEW g \in Flusher, Start(g)
      PROVE  train' = train /\ branch' = branch /\ flush'[f] = flush[f]
  <2>1. g # f
    BY <1>6 DEF Start
  <2>2. QED BY <1>2, <1>6, <2>1 DEF Start
<1>7. ASSUME NEW g \in Flusher, FlushStep(g) PROVE FALSE
  BY <1>1, <1>7, FlushActs, OnlyOneWorks
<1>8. ASSUME NEW g \in Flusher, CrashFlush(g)
      PROVE  branch' = branch /\ Nearer(f)
  <2>1. g = f
    BY <1>1, <1>8, OnlyOneWorks DEF CrashFlush
  <2>2. train' = train /\ branch' = branch /\ flush'[f].at = "idle"
    BY <1>2, <1>8, <2>1 DEF CrashFlush, Idle
  <2>3. flush[f].at \in Stages
    BY <1>2 DEF FlushState
  <2>4. StepsLeft("idle") < StepsLeft(flush[f].at)
    BY <2>3 DEF At, StepsLeft, Stages
  <2>5. QED BY <2>2, <2>4 DEF Nearer, TrainSize
<1>9. ASSUME NEW o \in Outsider, PushOutside(o) \/ CommitLocally(o)
      PROVE  train' = train /\ branch' = branch /\ flush' = flush
  BY <1>9 DEF PushOutside, CommitLocally
<1>10. ASSUME Pull PROVE train' = train /\ branch' = branch /\ flush' = flush
  BY <1>10 DEF Pull
<1>11. ASSUME UNCHANGED trainVars PROVE train' = train /\ branch' = branch /\ flush' = flush
  BY <1>11 DEF trainVars
<1>12. QED
  BY <1>3, <1>4, <1>5, <1>6, <1>7, <1>8, <1>9, <1>10, <1>11 DEF TrainNext

\* What there is to the end of a flush but for fairness: with one process that
\* flushes, every stage brings it nearer, ejections and the rounds that follow
\* them included, and nothing takes it back but a staging.  A staging uses up
\* a branch, and branches do not come back (AloneFlushEnds).
THEOREM FlushDescends ==
    TrainSpec =>
        [][Solo => \A f \in Flusher : ~At(f, "idle") =>
              /\ branch' \subseteq branch
              /\ FlushStep(f) => Nearer(f)
              /\ branch' = branch =>
                    \/ Nearer(f)
                    \/ TrainSize' = TrainSize /\ flush'[f].at = flush[f].at]_trainVars
<1>1. SoloInv /\ [TrainNext]_trainVars
        => [Solo => \A f \in Flusher : ~At(f, "idle") =>
              /\ branch' \subseteq branch
              /\ FlushStep(f) => Nearer(f)
              /\ branch' = branch =>
                    \/ Nearer(f)
                    \/ TrainSize' = TrainSize /\ flush'[f].at = flush[f].at]_trainVars
  <2> SUFFICES ASSUME SoloInv, Solo, [TrainNext]_trainVars, NEW f \in Flusher,
                      ~At(f, "idle")
               PROVE  /\ branch' \subseteq branch
                      /\ FlushStep(f) => Nearer(f)
                      /\ branch' = branch =>
                            \/ Nearer(f)
                            \/ TrainSize' = TrainSize /\ flush'[f].at = flush[f].at
    OBVIOUS
  <2>1. CASE FlushStep(f)
    BY <2>1, FlushStepNearer
  <2>2. CASE ~FlushStep(f)
    BY <2>2, OthersKeepNear
  <2>3. QED BY <2>1, <2>2
<1>2. QED BY <1>1, SoloInvInit, SoloInvStep, PTL DEF TrainSpec

\* What bisect answers is what flush takes for a culprit: on the batch between
\* a base and a tip, with a run on each prefix that really fails where the
\* prefix is Red, a search that ends with a commit ends with one of the batch
\* whose predecessor passes (BisectFinds chooses among these).
THEOREM BisectAnswers ==
    ASSUME NEW base \in Commit, NEW tip \in Commit
    PROVE  Spec /\ [](/\ n = Count(base, tip)
                     /\ \A i \in 1..n : red[i] = Red(Staged(base, tip, i)))
             => [](pc = "done" /\ culprit # None =>
                     /\ culprit \in 1..Count(base, tip)
                     /\ Turns(base, tip, culprit)
                     /\ Honest => Red(Staged(base, tip, culprit)))
<1> DEFINE Batch == /\ n = Count(base, tip)
                    /\ \A i \in 1..n : red[i] = Red(Staged(base, tip, i))
           Answer == pc = "done" /\ culprit # None =>
                       /\ culprit \in 1..Count(base, tip)
                       /\ Turns(base, tip, culprit)
                       /\ Honest => Red(Staged(base, tip, culprit))
<1>1. BisectInv /\ CulpritTurnsTheBatch /\ Batch => Answer
  <2>1. SUFFICES ASSUME BisectInv, CulpritTurnsTheBatch, Batch,
                        pc = "done", culprit # None
                 PROVE  /\ culprit \in 1..Count(base, tip)
                        /\ Turns(base, tip, culprit)
                        /\ Honest => Red(Staged(base, tip, culprit))
    OBVIOUS
  <2>2. /\ n \in Nat /\ culprit \in 1..n /\ red \in [1..n -> BOOLEAN]
        /\ seen \in [1..n -> Shown]
    BY <2>1, MaxCommitsAssumption DEF BisectInv, TypeOK, None
  <2>3. seen[culprit] = "red" /\ (culprit > 1 => seen[culprit - 1] = "green")
    BY <2>1 DEF CulpritTurnsTheBatch
  <2>4. Turns(base, tip, culprit)
    <3>1. SUFFICES ASSUME culprit > 1
                   PROVE  ~Red(Staged(base, tip, culprit - 1))
      BY DEF Turns
    <3>2. culprit - 1 \in 1..n
      BY <2>2, <3>1
    <3>3. ~red[culprit - 1]
      BY <2>1, <2>3, <3>1, <3>2 DEF BisectInv, GreenIsTrue
    <3>4. QED BY <2>1, <3>2, <3>3
  <2>5. Honest => Red(Staged(base, tip, culprit))
    BY <2>1, <2>2, <2>3 DEF Honest
  <2>6. QED BY <2>1, <2>2, <2>4, <2>5
<1>2. QED BY <1>1, SearchInvariant, CulpritIsATurn, PTL
=============================================================================
