--------------------------- MODULE CommandProofs ---------------------------
(***************************************************************************)
(* Proofs about the commands and the lease they run under.  RunLease: when *)
(* no process starts while another is between its check and what it does   *)
(* on it, the lease excludes, for any number of runs, commands and linked  *)
(* worktrees, whichever runs are killed, forced or left over from an       *)
(* earlier release.  Ship: for any files, conflicts, plans and number of   *)
(* commands, with a session, a colleague and a reviewer at work on the     *)
(* branch, a split keeps the work, a push is tested, and a push takes off  *)
(* the remote branch only what the local one did not hold at the gate.     *)
(***************************************************************************)
EXTENDS RunLease, Ship, WellFoundedInduction, TLAPS

USE DEF None, Common

Ending == {"releasing", "removing"}
Holding == {"running"} \cup Ending

-----------------------------------------------------------------------------
(* What holds whoever starts when. *)

\* Which processes come where.
Shape ==
    /\ \A r \in Run : pc[r] # "writing"
    /\ \A c \in Command : pc[c] \notin Holding \cup {"done"}
    /\ \A r \in Old : pc[r] \in Holding \cup {"done"}
    /\ \A p \in Process : at[p] \in {Common, Home[p]}

\* A lease file names a run that has claimed the board and has not come past
\* that file on its way out.
HolderHolds ==
    \A q \in Paths, r \in Run : file[q] = r =>
        /\ q \in {Common, Home[r]}
        /\ pc[r] \in Holding
        /\ pc[r] \in Ending /\ at[r] # Common => q # Common

BaseInv == TypeOK /\ Shape /\ HolderHolds

\* The initial states satisfy BaseInv.
LEMMA InitBase == Init => BaseInv
<1> SUFFICES ASSUME Init PROVE BaseInv
    OBVIOUS
<1> USE LeaseAssumption DEF Init, Process, Paths
<1>1. \A q \in Paths : file[q] = None \/ (file[q] \in Old /\ Home[file[q]] = q)
  <2> SUFFICES ASSUME NEW q \in Paths
               PROVE  file[q] = None \/ (file[q] \in Old /\ Home[file[q]] = q)
      OBVIOUS
  <2>1. CASE \E r \in Old : Home[r] = q
    <3>1. file[q] = CHOOSE r \in Old : Home[r] = q
      BY <2>1
    <3> QED
      BY <2>1, <3>1
  <2>2. CASE ~\E r \in Old : Home[r] = q
    BY <2>2
  <2> QED
    BY <2>1, <2>2
<1>2. TypeOK
  BY <1>1 DEF TypeOK, Pcs
<1>3. Shape
  BY DEF Shape, Holding, Ending
<1>4. HolderHolds
  BY <1>1 DEF HolderHolds, Holding, Ending
<1> QED
  BY <1>2, <1>3, <1>4 DEF BaseInv

\* Every step preserves the types.
LEMMA NextTypeOK == TypeOK /\ [Next]_vars => TypeOK'
<1> SUFFICES ASSUME TypeOK, [Next]_vars PROVE TypeOK'
    OBVIOUS
<1> USE LeaseAssumption DEF TypeOK, Process, Paths, Pcs
<1>1. ASSUME NEW p \in Process, Start(p) \/ CheckFree(p) \/ CheckStale(p) \/ Reclaim(p) \/ CheckHeld(p)
      PROVE  TypeOK'
  <2>1. CASE Start(p) \/ CheckFree(p)
    BY <2>1 DEF Start, CheckFree, Advance
  <2>2. CASE CheckStale(p) \/ CheckHeld(p)
    BY <2>2 DEF CheckStale, CheckHeld, Advance
  <2>3. CASE Reclaim(p)
    BY <2>3 DEF Reclaim, RemovedAt, Advance
  <2>4. QED BY <1>1, <2>1, <2>2, <2>3
<1>2. ASSUME NEW r \in Run, Claim(r) PROVE TypeOK'
  BY <1>2 DEF Claim, LeasePath
<1>3. ASSUME NEW r \in Run, BeginRelease(r) PROVE TypeOK'
  BY <1>3 DEF BeginRelease
<1>4. ASSUME NEW r \in Run, ReleaseRead(r) \/ ReleaseRemove(r) PROVE TypeOK'
  <2>1. lock' \in [Checkout -> Process \cup {None}]
    BY <1>4 DEF ReleaseRead, ReleaseRemove, RemovedAt, ReleaseNext
  <2>2. pc' \in [Process -> Pcs] /\ at' \in [Process -> Paths]
    BY <1>4 DEF ReleaseRead, ReleaseRemove, RemovedAt, ReleaseNext
  <2> QED
    BY <1>4, <2>1, <2>2 DEF ReleaseRead, ReleaseRemove, RemovedAt
<1>5. ASSUME NEW r \in Run, Kill(r) PROVE TypeOK'
  BY <1>5 DEF Kill
<1>6. ASSUME NEW c \in Command, BeginWrite(c) \/ EndWrite(c) PROVE TypeOK'
  BY <1>6 DEF BeginWrite, EndWrite
<1>7. CASE UNCHANGED vars
  BY <1>7 DEF vars
<1> QED
  BY <1>1, <1>2, <1>3, <1>4, <1>5, <1>6, <1>7 DEF Next

\* Every step preserves BaseInv.
LEMMA NextBase == BaseInv /\ [Next]_vars => BaseInv'
<1> SUFFICES ASSUME BaseInv, [Next]_vars PROVE (Shape /\ HolderHolds)'
    BY NextTypeOK DEF BaseInv
<1> USE LeaseAssumption
        DEF BaseInv, TypeOK, Shape, HolderHolds, Process, Paths, Pcs, Holding, Ending
<1>1. ASSUME NEW p \in Process, Start(p) PROVE (Shape /\ HolderHolds)'
  BY <1>1 DEF Start
<1>2. ASSUME NEW p \in Process, CheckFree(p) \/ CheckStale(p) \/ CheckHeld(p)
      PROVE  (Shape /\ HolderHolds)'
  BY <1>2 DEF CheckFree, CheckStale, CheckHeld, Checks, Advance
<1>3. ASSUME NEW p \in Process, Reclaim(p) PROVE (Shape /\ HolderHolds)'
  BY <1>3 DEF Reclaim, RemovedAt, Advance
<1>4. ASSUME NEW r \in Run, Claim(r) PROVE (Shape /\ HolderHolds)'
  BY <1>4 DEF Claim, LeasePath
<1>5. ASSUME NEW r \in Run, BeginRelease(r) PROVE (Shape /\ HolderHolds)'
  BY <1>5 DEF BeginRelease, ChildOf
<1>6. ASSUME NEW r \in Run, ReleaseRead(r) PROVE (Shape /\ HolderHolds)'
  BY <1>6 DEF ReleaseRead, ReleaseNext, Owns, Holder
<1>7. ASSUME NEW r \in Run, ReleaseRemove(r) PROVE (Shape /\ HolderHolds)'
  BY <1>7 DEF ReleaseRemove, RemovedAt, ReleaseNext
<1>8. ASSUME NEW r \in Run, Kill(r) PROVE (Shape /\ HolderHolds)'
  BY <1>8 DEF Kill
<1>9. ASSUME NEW c \in Command, BeginWrite(c) \/ EndWrite(c)
      PROVE  (Shape /\ HolderHolds)'
  BY <1>9 DEF BeginWrite, EndWrite
<1>10. CASE UNCHANGED vars
  BY <1>10 DEF vars
<1> QED
  BY <1>1, <1>2, <1>3, <1>4, <1>5, <1>6, <1>7, <1>8, <1>9, <1>10 DEF Next

\* A run that finishes leaves no lease behind, whoever starts meanwhile
\* (release_lease removes the lease on both paths).
THEOREM NothingLeftBehind == Spec => []NoLeaseLeftBehind
<1>1. BaseInv => NoLeaseLeftBehind
  BY DEF BaseInv, HolderHolds, NoLeaseLeftBehind, Holding, Ending
<1> QED
  BY InitBase, NextBase, <1>1, PTL DEF Spec

-----------------------------------------------------------------------------
(* What holds when checks and the acts they allow do not overlap.          *)

\* A run that starts is alone between check and act; one that ends shares the
\* window with commands only.
Alone ==
    \A r \in Run : \A p \in Process \ {r} :
        InWindow(r) /\ InWindow(p) => p \in Command /\ pc[r] \in Ending

\* What a process that was not forced knows of the paths it has checked.
Clear(p, q) == file[q] \in {None, Acts(p)}
Knows ==
    \A p \in Process \ Forced : InWindow(p) =>
        /\ pc[p] \in {"cleared", "writing"} => Clear(p, Common) /\ Clear(p, Home[p])
        /\ pc[p] \in {"checking", "reclaiming"} /\ at[p] # Common => Clear(p, Common)

\* What is about to be removed may be removed.
RemovesRightly ==
    \A p \in Process : InWindow(p) =>
        /\ pc[p] = "reclaiming" => Holder(p) = None \/ Holder(p) \in gone
        /\ pc[p] = "removing" => Holder(p) = p

Guarded == Alone /\ Knows /\ RemovesRightly
Exclusion == LeaseNamesTheOwner /\ OneOwner

\* The initial states satisfy both.
LEMMA InitGuarded == Init => Guarded /\ Exclusion
<1> SUFFICES ASSUME Init PROVE Guarded /\ Exclusion
    OBVIOUS
<1> USE LeaseAssumption DEF Init, Process, Paths
<1>1. Guarded
  BY DEF Guarded, Alone, Knows, RemovesRightly, InWindow, Ending
<1>2. ASSUME NEW r \in Old PROVE file[Home[r]] = r
  <2>1. PICK q \in Checkout : q = Home[r]
    OBVIOUS
  <2>2. file[q] = CHOOSE s \in Old : Home[s] = q
    BY <2>1
  <2>3. file[q] \in Old /\ Home[file[q]] = q
    BY <2>1, <2>2
  <2> QED
    BY <2>1, <2>3
<1>3. Exclusion
  BY <1>2 DEF Exclusion, LeaseNamesTheOwner, OneOwner, Owner, Unseen
<1> QED
  BY <1>1, <1>3

\* Only a run that starts adds a claim, and it is alone then.
LEMMA ClaimIsAlone ==
    ASSUME BaseInv, Alone, NEW r \in Run, Claim(r), NEW p \in Process, p # r
    PROVE  ~InWindow(p)
BY DEF Alone, Claim, InWindow, Ending, Process

\* Every step preserves Guarded, when checks and acts do not overlap.
LEMMA NextGuarded ==
    ASSUME Overlap = FALSE, BaseInv, Guarded, [Next]_vars
    PROVE  Guarded'
<1> USE LeaseAssumption, Overlap = FALSE
        DEF BaseInv, TypeOK, Shape, Guarded, Process, Paths, Pcs, Holding, Ending
<1>1. ASSUME NEW p \in Process, Start(p) PROVE Guarded'
  <2>1. Alone'
    BY <1>1 DEF Alone, Start, MayStart, InWindow
  <2>2. Knows'
    BY <1>1 DEF Knows, Clear, Acts, Start, InWindow
  <2>3. RemovesRightly'
    BY <1>1 DEF RemovesRightly, Holder, Start, InWindow
  <2> QED
    BY <2>1, <2>2, <2>3
<1>2. ASSUME NEW p \in Process, CheckFree(p) \/ CheckStale(p) \/ CheckHeld(p)
      PROVE  Guarded'
  <2>1. Alone'
    BY <1>2 DEF Alone, CheckFree, CheckStale, CheckHeld, Checks, Advance, InWindow
  <2>2. Knows'
    BY <1>2 DEF Knows, Clear, CheckFree, CheckStale, CheckHeld, Checks, Advance,
                InWindow, Mine, Stale, Holder, Acts
  <2>3. CheckStale(p) => Holder(p) \in gone
    <3>1. \A q \in Paths, r \in Run : file[q] = r => pc[r] # "done"
      BY DEF HolderHolds
    <3>2. at[p] \in Paths
      OBVIOUS
    <3> QED
      BY <3>1, <3>2 DEF CheckStale, Stale, Alive, Holder
  <2>4. RemovesRightly'
    BY <1>2, <2>3 DEF RemovesRightly, CheckFree, CheckStale, CheckHeld, Checks,
                      Advance, InWindow, Holder
  <2> QED
    BY <2>1, <2>2, <2>4
<1>3. ASSUME NEW p \in Process, Reclaim(p) PROVE Guarded'
  <2>1. Alone'
    BY <1>3 DEF Alone, Reclaim, RemovedAt, Advance, InWindow
  <2>2. Knows'
    BY <1>3 DEF Knows, Clear, Acts, Reclaim, RemovedAt, Advance, InWindow
  <2>3. RemovesRightly'
    BY <1>3 DEF RemovesRightly, Reclaim, RemovedAt, Advance, InWindow, Holder
  <2> QED
    BY <2>1, <2>2, <2>3
<1>4. ASSUME NEW r \in Run, Claim(r) PROVE Guarded'
  <2>1. \A p \in Process \ {r} : ~InWindow(p) /\ ~InWindow(p)'
    BY <1>4, ClaimIsAlone DEF Claim, InWindow
  <2>2. ~InWindow(r)'
    BY <1>4 DEF Claim, InWindow
  <2> QED
    BY <2>1, <2>2 DEF Alone, Knows, RemovesRightly
<1>5. ASSUME NEW r \in Run, BeginRelease(r) PROVE Guarded'
  <2>1. Alone'
    BY <1>5 DEF Alone, BeginRelease, InWindow, ChildOf
  <2>2. Knows'
    BY <1>5 DEF Knows, Clear, Acts, BeginRelease, InWindow, ChildOf
  <2>3. RemovesRightly'
    BY <1>5 DEF RemovesRightly, BeginRelease, InWindow, Holder, ChildOf
  <2> QED
    BY <2>1, <2>2, <2>3
<1>6. ASSUME NEW r \in Run, ReleaseRead(r) PROVE Guarded'
  <2>1. Alone'
    BY <1>6 DEF Alone, ReleaseRead, ReleaseNext, InWindow
  <2>2. Knows'
    BY <1>6 DEF Knows, Clear, Acts, ReleaseRead, ReleaseNext, InWindow
  <2>3. RemovesRightly'
    BY <1>6 DEF RemovesRightly, ReleaseRead, ReleaseNext, InWindow, Owns, Holder
  <2> QED
    BY <2>1, <2>2, <2>3
<1>7. ASSUME NEW r \in Run, ReleaseRemove(r) PROVE Guarded'
  <2>1. Alone'
    BY <1>7 DEF Alone, ReleaseRemove, RemovedAt, ReleaseNext, InWindow
  <2>2. Knows'
    BY <1>7 DEF Knows, Clear, Acts, ReleaseRemove, RemovedAt, ReleaseNext, InWindow
  <2>3. RemovesRightly'
    BY <1>7 DEF RemovesRightly, Alone, ReleaseRemove, RemovedAt, ReleaseNext, InWindow, Holder
  <2> QED
    BY <2>1, <2>2, <2>3
<1>8. ASSUME NEW r \in Run, Kill(r) PROVE Guarded'
  BY <1>8 DEF Kill, Alone, Knows, Clear, Acts, RemovesRightly, InWindow, Holder
<1>9. ASSUME NEW c \in Command, BeginWrite(c) \/ EndWrite(c) PROVE Guarded'
  <2>1. Alone'
    BY <1>9 DEF Alone, BeginWrite, EndWrite, InWindow
  <2>2. Knows'
    BY <1>9 DEF Knows, Clear, Acts, BeginWrite, EndWrite, InWindow
  <2>3. RemovesRightly'
    BY <1>9 DEF RemovesRightly, BeginWrite, EndWrite, InWindow, Holder
  <2> QED
    BY <2>1, <2>2, <2>3
<1>10. CASE UNCHANGED vars
  BY <1>10 DEF vars, Alone, Knows, Clear, Acts, RemovesRightly, InWindow, Holder
<1> QED
  BY <1>1, <1>2, <1>3, <1>4, <1>5, <1>6, <1>7, <1>8, <1>9, <1>10 DEF Next

\* Every step preserves Exclusion, where Guarded holds.
LEMMA NextExclusion ==
    ASSUME BaseInv, Guarded, Exclusion, [Next]_vars
    PROVE  Exclusion'
<1> USE LeaseAssumption
        DEF BaseInv, TypeOK, Shape, Guarded, Exclusion, LeaseNamesTheOwner, OneOwner,
            Owner, Unseen, Process, Paths, Pcs, Holding, Ending
<1>1. ASSUME NEW p \in Process,
             Start(p) \/ CheckFree(p) \/ CheckStale(p) \/ CheckHeld(p)
      PROVE  Exclusion'
  BY <1>1 DEF Start, CheckFree, CheckStale, CheckHeld, Checks, Advance
<1>2. ASSUME NEW p \in Process, Reclaim(p) PROVE Exclusion'
  <2>1. file[at[p]] = None \/ file[at[p]] \in gone
    BY <1>2 DEF Reclaim, RemovedAt, RemovesRightly, InWindow, Holder
  <2> QED
    BY <1>2, <2>1 DEF Reclaim, RemovedAt, Advance
<1>3. ASSUME NEW r \in Run, Claim(r) PROVE Exclusion'
  <2>1. r \notin Old /\ pc[r] = "cleared"
    BY <1>3 DEF Claim
  <2>2. \A s \in Run \ {r} : Owner(s)' <=> Owner(s) /\ r \notin Forced
    BY <1>3 DEF Claim
  <2>3. r \notin Forced => Clear(r, Common) /\ Clear(r, Home[r])
    BY <1>3 DEF Claim, Knows, InWindow
  <2>4. ASSUME NEW s \in Run \ {r}, Owner(s)'
        PROVE  s \in Old /\ Home[s] # Home[r] /\ file'[Home[s]] = s
    BY <1>3, <2>2, <2>3, <2>4 DEF Claim, Clear, Acts, LeasePath
  <2>5. file'[Common] = r
    BY <1>3 DEF Claim, LeasePath
  <2>6. LeaseNamesTheOwner'
    BY <2>1, <2>4, <2>5
  <2>7. \A s, t \in Run \ {r} : Owner(s)' /\ Owner(t)' => Owner(s) /\ Owner(t)
    BY <2>2
  <2>8. OneOwner'
    BY <2>1, <2>4, <2>7
  <2> QED
    BY <2>6, <2>8
<1>4. ASSUME NEW r \in Run, BeginRelease(r) PROVE Exclusion'
  BY <1>4 DEF BeginRelease
<1>5. ASSUME NEW r \in Run, ReleaseRead(r) PROVE Exclusion'
  BY <1>5 DEF ReleaseRead, ReleaseNext
<1>6. ASSUME NEW r \in Run, ReleaseRemove(r) PROVE Exclusion'
  <2>1. file[at[r]] = r
    BY <1>6 DEF ReleaseRemove, RemovedAt, RemovesRightly, InWindow, Holder
  <2> QED
    BY <1>6, <2>1 DEF ReleaseRemove, RemovedAt, ReleaseNext
<1>7. ASSUME NEW r \in Run, Kill(r) PROVE Exclusion'
  BY <1>7 DEF Kill
<1>8. ASSUME NEW c \in Command, BeginWrite(c) \/ EndWrite(c) PROVE Exclusion'
  BY <1>8 DEF BeginWrite, EndWrite
<1>9. CASE UNCHANGED vars
  BY <1>9 DEF vars
<1> QED
  BY <1>1, <1>2, <1>3, <1>4, <1>5, <1>6, <1>7, <1>8, <1>9 DEF Next

\* When no process starts between another's check and its act, at most one run
\* owns the board, its lease is on disk for as long as it works, and nobody
\* else's command is writing (acquire_lease, release_lease, lease_guard).
THEOREM LeaseExcludes ==
    ASSUME Overlap = FALSE
    PROVE  Spec => [](OneOwner /\ LeaseNamesTheOwner /\ WriterActsForTheOwner)
<1> DEFINE IInv == BaseInv /\ Guarded /\ Exclusion
<1>1. Init => IInv
  BY InitBase, InitGuarded
<1>2. IInv /\ [Next]_vars => IInv'
  BY NextBase, NextGuarded, NextExclusion
<1>3. IInv => OneOwner /\ LeaseNamesTheOwner
  BY DEF Exclusion
<1>4. IInv => WriterActsForTheOwner
  <2> SUFFICES ASSUME IInv, NEW c \in Command, NEW r \in Run, pc[c] = "writing",
                      Owner(r), c \notin Forced, ~Unseen(r, Home[c])
               PROVE  Acts(c) = r
      BY DEF WriterActsForTheOwner
  <2>1. c \in Process /\ c \notin gone
    BY LeaseAssumption DEF Process, BaseInv, TypeOK
  <2>2. Clear(c, Common) /\ Clear(c, Home[c])
    BY <2>1 DEF Guarded, Knows, InWindow
  <2>3. file[Common] = r \/ file[Home[c]] = r
    BY DEF Exclusion, LeaseNamesTheOwner, Unseen
  <2> QED
    BY <2>2, <2>3, LeaseAssumption DEF Clear, Process
<1> QED
  BY <1>1, <1>2, <1>3, <1>4, PTL DEF Spec

\* Under the same condition a command that has passed lease_guard writes for
\* the owner, or for a run the guard could not see or was told to ignore.
COROLLARY WritersAreTheOwners ==
    ASSUME Overlap = FALSE
    PROVE  Spec => []WriterActsForTheOwner
BY LeaseExcludes, PTL

-----------------------------------------------------------------------------
(* The commands of aet ship: types                                         *)

Item == Files \cup {"parent", "foreign"}
Logs == Seq(SUBSET Item)
Tips == [base : Nat, log : Logs]
Trees == [base : Nat, work : SUBSET Item]
Checkouts == [edits : SUBSET Item, midway : BOOLEAN]
Steps == {"idle", "workspace", "flush first", "precheck", "split", "close",
          "rebase", "clean", "check", "verdict", "guard", "push",
          "pull request", "wipe", "restack", "merge guards", "stage", "remove",
          "mark", "flush", "splitting", "delete"}
Groupings == Seq(UNION {ToSet(g) : g \in Groups})
Ops == [begun : Nat, cmd : ShipCommands \cup {Nil}, at : Steps,
        second : BOOLEAN, rebased : BOOLEAN, base : {"trunk", "parent"},
        tested : Trees \cup {Nil}, head : Tips \cup {Nil}, pre : Tips \cup {Nil},
        groups : Groupings]
Refs == [local : Tips \cup {Nil}, origin : Tips \cup {Nil},
         tracking : Tips \cup {Nil}]
Boards == {"in_progress", "awaiting_merge", "merged", "failed"}

\* Nil is a value of its own.
NilIsApart == Nil \notin Tips \cup Trees \cup Checkouts

ShipTypeOK ==
    /\ op \in Ops /\ tips \in Refs /\ known \in Nat
    /\ dir \in Checkouts \cup {Nil}
    /\ trunk \in Logs /\ staged \subseteq Item /\ late \subseteq Item
    /\ pr \in {"none", "open", "merged"} /\ board \in Boards

\* A branch may have no commits.
LEMMA EmptyLog == <<>> \in Logs
  BY DEF Logs

\* A branch with one more commit is a branch.
LEMMA LongerLog ==
  ASSUME NEW log \in Logs, NEW s \in SUBSET Item
  PROVE  Append(log, s) \in Logs
  BY DEF Logs

\* A non-empty set of naturals has a least member: what stands in for
\* induction in this module.
LEMMA LeastNatural ==
    ASSUME NEW T, T \subseteq Nat, T # {}
    PROVE  \E x \in T : \A y \in T : x <= y
<1> DEFINE R == OpToRel(<, Nat)
<1>1. IsWellFoundedOn(R, Nat)
  BY NatLessThanWellFounded
<1>2. \E x \in T : \A y \in T : ~ (<<y, x>> \in R)
  BY <1>1, WFMin
<1>3. \A x, y \in Nat : y < x => <<y, x>> \in R
  BY DEF OpToRel
<1> HIDE DEF R
<1>4. PICK x \in T : \A y \in T : ~ (<<y, x>> \in R)
  BY <1>2
<1>5. \A y \in T : ~(y < x)
  BY <1>3, <1>4
<1>6. QED BY <1>5

\* The tips after 0, 1, ..., m commits of a replay.
KeptOf(f, log, there, m) ==
    /\ f \in [0..m -> Logs]
    /\ f[0] = <<>>
    /\ \A i \in 1..m : f[i] = IF log[i] \subseteq there THEN f[i - 1]
                              ELSE Append(f[i - 1], log[i])

\* A replay of any number of the commits of a branch is defined.
LEMMA KeptExist ==
  ASSUME NEW log \in Logs, NEW there, NEW m \in 0..Len(log)
  PROVE  \E f : KeptOf(f, log, there, m)
<1> DEFINE T == {i \in 0..Len(log) : ~ \E f : KeptOf(f, log, there, i)}
<1>1. T = {}
  <2>1. SUFFICES ASSUME T # {} PROVE FALSE
    OBVIOUS
  <2>2. T \subseteq Nat
    OBVIOUS
  <2>3. PICK i \in T : \A j \in T : i <= j
    <3> HIDE DEF T
    <3>1. QED BY <2>1, <2>2, LeastNatural
  <2>4. CASE i = 0
    <3> DEFINE f == [j \in 0..0 |-> <<>>]
    <3>1. KeptOf(f, log, there, 0)
      BY EmptyLog DEF KeptOf
    <3>2. QED BY <2>4, <3>1
  <2>5. CASE i # 0
    <3>1. i - 1 \in 0..Len(log) /\ i - 1 \notin T /\ i \in 1..Len(log)
      BY <2>3, <2>5
    <3>2. PICK f : KeptOf(f, log, there, i - 1)
      BY <3>1
    <3> DEFINE next == IF log[i] \subseteq there THEN f[i - 1]
                       ELSE Append(f[i - 1], log[i])
               h == [j \in 0..i |-> IF j = i THEN next ELSE f[j]]
    <3>3. log[i] \in SUBSET Item
      BY <3>1 DEF Logs
    <3>4. f[i - 1] \in Logs
      BY <3>1, <3>2 DEF KeptOf
    <3>5. next \in Logs
      BY <3>3, <3>4, LongerLog
    <3> HIDE DEF next
    <3>6. h \in [0..i -> Logs]
      BY <3>1, <3>2, <3>5 DEF KeptOf
    <3>7. h[0] = <<>>
      BY <2>5, <3>1, <3>2 DEF KeptOf
    <3>8. \A j \in 1..i : h[j] = IF log[j] \subseteq there THEN h[j - 1]
                                 ELSE Append(h[j - 1], log[j])
      <4>1. TAKE j \in 1..i
      <4>2. CASE j = i
        BY <3>1, <4>2 DEF next
      <4>3. CASE j # i
        <5>1. j \in 1..(i - 1) /\ h[j] = f[j] /\ h[j - 1] = f[j - 1]
          BY <3>1, <4>3
        <5>2. QED BY <3>2, <5>1 DEF KeptOf
      <4>4. QED BY <4>2, <4>3
    <3>9. KeptOf(h, log, there, i)
      BY <3>6, <3>7, <3>8 DEF KeptOf
    <3>10. QED BY <2>3, <3>9
  <2>6. QED BY <2>4, <2>5
<1>2. QED BY <1>1

\* A replay is the last of its tips (_rebase_independent_branch).
LEMMA WithoutKept ==
  ASSUME NEW log \in Logs, NEW there
  PROVE  \E h : /\ KeptOf(h, log, there, Len(log))
               /\ Without(log, there) = h[Len(log)]
<1> DEFINE N == Len(log)
           def(f) == [i \in 0..N |->
                IF i = 0 THEN <<>>
                ELSE IF log[i] \subseteq there THEN f[i - 1]
                ELSE Append(f[i - 1], log[i])]
           h == CHOOSE f : f = def(f)
<1>1. N \in Nat /\ N \in 0..Len(log)
  BY DEF Logs
<1>2. Without(log, there) = h[N]
  BY DEF Without
<1>3. PICK f : KeptOf(f, log, there, N)
  BY <1>1, KeptExist
<1>4. f = def(f)
  <2>1. ASSUME NEW i \in 0..N PROVE f[i] = def(f)[i]
    <3>1. CASE i = 0
      BY <1>3, <3>1 DEF KeptOf
    <3>2. CASE i # 0
      <4>1. i \in 1..N
        BY <1>1, <3>2
      <4>2. QED BY <1>3, <3>2, <4>1 DEF KeptOf
    <3>3. QED BY <3>1, <3>2
  <2>2. QED BY <1>3, <2>1 DEF KeptOf
<1>5. h = def(h)
  <2> HIDE DEF def
  <2>1. QED BY <1>4
<1> HIDE DEF h
<1>6. h[0] = <<>>
  BY <1>1, <1>5
<1>7. ASSUME NEW i \in 1..N
      PROVE  h[i] = IF log[i] \subseteq there THEN h[i - 1]
                    ELSE Append(h[i - 1], log[i])
  <2>1. i \in 0..N /\ i # 0
    BY <1>1
  <2>2. h[i] = def(h)[i]
    BY <1>5
  <2>3. QED BY <2>1, <2>2
<1> DEFINE T == {i \in 0..N : h[i] \notin Logs}
<1>8. T = {}
  <2>1. SUFFICES ASSUME T # {} PROVE FALSE
    OBVIOUS
  <2>2. T \subseteq Nat
    BY <1>1
  <2>3. PICK i \in T : \A j \in T : i <= j
    <3> HIDE DEF T
    <3>1. QED BY <2>1, <2>2, LeastNatural
  <2>4. i # 0
    BY <1>6, EmptyLog
  <2>5. i - 1 \in 0..N /\ i \in 1..N /\ h[i - 1] \in Logs
    BY <1>1, <2>3, <2>4
  <2>6. log[i] \in SUBSET Item
    BY <2>5 DEF Logs
  <2>7. h[i] \in Logs
    <3>1. h[i] = h[i - 1] \/ h[i] = Append(h[i - 1], log[i])
      BY <1>7, <2>5
    <3>2. QED BY <2>5, <2>6, <3>1, LongerLog
  <2>8. QED BY <2>7
<1>10. h = [i \in 0..N |-> h[i]]
  <2> DEFINE body(i) == IF i = 0 THEN <<>>
                        ELSE IF log[i] \subseteq there THEN h[i - 1]
                        ELSE Append(h[i - 1], log[i])
  <2>1. h = [i \in 0..N |-> body(i)]
    BY <1>5 DEF def
  <2> HIDE DEF body
  <2>2. QED BY <2>1
<1>11. h \in [0..N -> Logs]
  BY <1>8, <1>10
<1>9. KeptOf(h, log, there, N)
  BY <1>6, <1>7, <1>11 DEF KeptOf
<1>12. QED BY <1>2, <1>9

\* A replay, and the groups of a plan, are sequences of changes.
LEMMA WithoutType ==
  ASSUME NEW log \in Logs, NEW there
  PROVE  Without(log, there) \in Logs
<1>1. PICK h : KeptOf(h, log, there, Len(log)) /\ Without(log, there) = h[Len(log)]
  BY WithoutKept
<1>2. Len(log) \in 0..Len(log)
  BY DEF Logs
<1>3. QED BY <1>1, <1>2 DEF KeptOf

\* A rebase makes a tip of a tip (_rebase_independent_branch).
LEMMA ReplayedType ==
  ASSUME NEW t \in Tips, NEW v \in Nat
  PROVE  Replayed(t, v) \in Tips
<1>1. t.log \in Logs
  BY DEF Tips
<1>2. QED BY <1>1, WithoutType DEF Replayed, Tips

\* What a branch changes are items.
LEMMA WorkType ==
  ASSUME NEW t \in Tips
  PROVE  Work(t) \subseteq Item
  BY DEF Work, Tips, Logs, ToSet

\* The groups a plan offers for a split are groups of files.
LEMMA GroupsType ==
  ASSUME NEW t
  PROVE  PlanGroups(t) \in Logs
<1> DEFINE g == [i \in DOMAIN Tasks |-> Tasks[i] \cap Work(t)]
<1>1. g \in Logs
  BY ShipAssumption DEF Item, Logs
<1> HIDE DEF g
<1>2. Without(g, {}) \in Logs
  BY <1>1, WithoutType
<1>3. QED BY <1>2 DEF PlanGroups, g

\* A commit adds its files to a branch.
LEMMA CommitWork ==
  ASSUME NEW log \in Logs, NEW s \in SUBSET Item
  PROVE  /\ Append(log, s) \in Logs
         /\ UNION ToSet(Append(log, s)) = (UNION ToSet(log)) \cup s
         /\ IsPrefix(log, Append(log, s))
<1>1. Append(log, s) \in Logs
  BY LongerLog
<1>2. ToSet(Append(log, s)) = ToSet(log) \cup {s}
  <2> DEFINE n == Append(log, s)
  <2>1. Len(n) = Len(log) + 1 /\ n[Len(n)] = s /\ Len(log) \in Nat
    BY DEF Logs
  <2>2. \A i \in 1..Len(log) : n[i] = log[i]
    BY DEF Logs
  <2>3. DOMAIN n = 1..Len(n) /\ DOMAIN log = 1..Len(log)
    BY DEF Logs
  <2> HIDE DEF n
  <2>4. \A i \in 1..Len(n) : i \in 1..Len(log) \/ i = Len(n)
    BY <2>1
  <2>5. \A i \in 1..Len(log) : i \in 1..Len(n)
    BY <2>1
  <2>6. Len(n) \in 1..Len(n)
    BY <2>1
  <2>7. ToSet(n) = ToSet(log) \cup {s}
    BY <2>1, <2>2, <2>3, <2>4, <2>5, <2>6 DEF ToSet
  <2>8. QED BY <2>7 DEF n
<1>3. UNION ToSet(Append(log, s)) = (UNION ToSet(log)) \cup s
  <2> DEFINE a == ToSet(log)
             b == ToSet(Append(log, s))
  <2>1. b = a \cup {s}
    BY <1>2
  <2> HIDE DEF a, b
  <2>2. UNION b = (UNION a) \cup s
    BY <2>1
  <2>3. QED BY <2>2 DEF a, b
<1>4. IsPrefix(log, Append(log, s))
  BY DEF IsPrefix, Logs
<1>5. QED BY <1>1, <1>3, <1>4

-----------------------------------------------------------------------------
(* The commands of aet ship: what a command may rely on                    *)

Testing == {"check", "verdict", "guard", "push"}
Untouched == {"rebase", "clean", "splitting", "merge guards", "stage", "remove"}
                 \cup Testing

\* A commit and what was tested of it differ in what changed since only.
Agrees(t) ==
    /\ op.tested # Nil /\ op.tested.base = t.base
    /\ (Work(t) \ op.tested.work) \cup (op.tested.work \ Work(t)) \subseteq late

\* A worktree has its branch; between the fetch and the push, in a split and
\* in an integration past its rebase no rebase is stopped in it.
DirSafe ==
    /\ dir # Nil => tips.local # Nil
    /\ op.at \in Untouched /\ dir # Nil => ~dir.midway
    /\ op.at \in Testing /\ dir # Nil => dir.edits \subseteq late

\* What a command has in hand at each of its points.
HandSafe ==
    /\ op.at \in {"clean", "check", "merge guards", "stage"} => op.head # Nil
    /\ op.at \in {"merge guards", "splitting"} => op.pre # Nil
    /\ op.at = "splitting" => dir # Nil
    /\ op.at \in {"verdict", "guard", "push"} /\ tips.local # Nil => Agrees(tips.local)
    /\ op.at = "remove" /\ tips.local # Nil =>
          Work(tips.local) \subseteq staged \cup late
    /\ op.at = "delete" => board = "merged"

ShipInv == ShipTypeOK /\ DirSafe /\ HandSafe /\ SplitKeepsWork

\* A command that splits nothing has no groups left.
LEMMA NoGroups == <<>> \in Groupings
  BY DEF Groupings

\* Between two commands nothing is remembered.
LEMMA IdleType == Idle \in Ops /\ Idle.at = "idle"
  BY NoGroups DEF Idle, Ops, Steps

\* A stacked branch starts from the commit of its parent.
LEMMA ParentLog == <<ParentWork>> \in Logs
<1>1. ParentWork \in SUBSET Item
  BY DEF ParentWork, Item
<1>2. QED BY <1>1 DEF Logs

\* The initial states satisfy ShipInv.
LEMMA ShipInitial ==
  ASSUME NilIsApart, ShipInit PROVE ShipInv
<1>1. op \in Ops /\ op.at = "idle"
  BY IdleType DEF ShipInit
<1>2. tips \in Refs /\ tips.local # Nil
  <2>1. PICK l \in {<<>>, <<ParentWork>>} :
          tips = [local |-> [base |-> 0, log |-> l], origin |-> Nil, tracking |-> Nil]
    BY DEF ShipInit
  <2>2. l \in Logs
    BY EmptyLog, ParentLog
  <2>3. [base |-> 0, log |-> l] \in Tips
    BY <2>2 DEF Tips
  <2>4. QED BY <2>1, <2>3 DEF Refs, NilIsApart
<1>3. dir \in Checkouts /\ trunk \in Logs
  BY EmptyLog DEF ShipInit, Checkouts
<1>4. QED BY <1>1, <1>2, <1>3 DEF ShipInv, ShipTypeOK, DirSafe, HandSafe, SplitKeepsWork,
          Untouched, Testing, ShipInit, Boards, At

\* What the tips and the worktree are made of.
LEMMA Fields ==
  ASSUME ShipTypeOK
  PROVE  /\ op.at \in Steps /\ op.begun \in Nat
         /\ op.head \in Tips \cup {Nil} /\ op.pre \in Tips \cup {Nil}
         /\ op.tested \in Trees \cup {Nil}
         /\ tips.local \in Tips \cup {Nil} /\ tips.origin \in Tips \cup {Nil}
         /\ tips.tracking \in Tips \cup {Nil}
         /\ Feature \in Tips \cup {Nil}
  BY DEF ShipTypeOK, Ops, Refs, Feature

\* Where a command goes, with what it had.
LEMMA Moving ==
  ASSUME ShipTypeOK, NEW p \in Steps
  PROVE  /\ Goto(p) => /\ op' \in Ops /\ op'.at = p
                       /\ op'.head = op.head /\ op'.pre = op.pre
                       /\ op'.tested = op.tested /\ op'.rebased = op.rebased
         /\ End => op' \in Ops /\ op'.at = "idle"
<1>1. Goto(p) => /\ op' \in Ops /\ op'.at = p
                 /\ op'.head = op.head /\ op'.pre = op.pre
                 /\ op'.tested = op.tested /\ op'.rebased = op.rebased
  BY DEF ShipTypeOK, Goto, Ops
<1>2. End => op' \in Ops /\ op'.at = "idle"
  BY IdleType DEF ShipTypeOK, End, Ops
<1>3. QED BY <1>1, <1>2


\* A command starts (_resolve_ship_task).
LEMMA BeginStep ==
  ASSUME ShipInv, NEW c \in ShipCommands, Begin(c) PROVE ShipInv'
<1>1. op' \in Ops /\ op'.at = FirstStep(c)
  <2>1. FirstStep(c) \in Steps
    BY DEF FirstStep, Steps
  <2>2. op.begun + 1 \in Nat
    BY DEF ShipInv, ShipTypeOK, Ops
  <2>3. op' = [Idle EXCEPT !.begun = op.begun + 1, !.cmd = c, !.at = FirstStep(c)]
    BY DEF Begin
  <2>4. QED BY <2>1, <2>2, <2>3, IdleType DEF Ops
<1>2. op'.at \notin Untouched \cup {"delete"}
  BY <1>1 DEF FirstStep, Untouched, Testing
<1>3. ShipTypeOK'
  BY <1>1 DEF ShipInv, ShipTypeOK, Begin, world
<1>4. DirSafe'
  BY <1>2 DEF ShipInv, DirSafe, Begin, Untouched
<1>5. QED BY <1>2, <1>3, <1>4 DEF ShipInv, HandSafe, SplitKeepsWork, At, Untouched, Testing

\* A step that leaves the branch here and at origin alone, or rewrites it here.
Rewrites == tips'.origin = tips.origin /\ (tips.local # Nil => tips'.local # Nil)

\* A step that changes nothing but where the command is.
LEMMA EndStep ==
  ASSUME ShipInv, End, UNCHANGED <<tips, known, trunk, pr, board, staged>>,
         late' \subseteq Item, dir' \in Checkouts \cup {Nil}, dir' # Nil => dir # Nil
  PROVE  ShipInv'
<1>1. op' \in Ops /\ op'.at = "idle"
  BY Moving DEF ShipInv, Steps
<1>2. ShipTypeOK'
  BY <1>1 DEF ShipInv, ShipTypeOK
<1>3. DirSafe'
  BY <1>1 DEF ShipInv, DirSafe, Untouched, Testing
<1>4. QED BY <1>1, <1>2, <1>3 DEF ShipInv, HandSafe, SplitKeepsWork, At

\* The train is flushed before the epic is opened (cmd_open_epic).
LEMMA FlushFirstStep ==
  ASSUME ShipInv, FlushFirst PROVE ShipInv'
<1>1. CASE End
  BY <1>1, EndStep DEF FlushFirst, ShipInv, ShipTypeOK, world
<1>2. CASE Goto("workspace")
  <2>1. op' \in Ops /\ op'.at = "workspace"
    BY <1>2, Moving DEF ShipInv, Steps
  <2>2. ShipTypeOK'
    BY <2>1 DEF ShipInv, ShipTypeOK, FlushFirst, world
  <2>3. QED BY <2>1, <2>2 DEF ShipInv, DirSafe, HandSafe, SplitKeepsWork, At,
                             FlushFirst, Untouched, Testing
<1>3. QED BY <1>1, <1>2 DEF FlushFirst

\* The gate fetches (_fetch_origin).
LEMMA FetchStep ==
  ASSUME ShipInv, Fetch PROVE ShipInv' /\ Rewrites
<1>1. CASE End /\ UNCHANGED <<tips, known>>
  BY <1>1, EndStep DEF Fetch, ShipInv, ShipTypeOK, world, Rewrites
<1>2. CASE (dir # Nil => ~dir.midway) /\ Fetched /\ Goto("rebase")
  <2>1. op' \in Ops /\ op'.at = "rebase"
    BY <1>2, Moving DEF ShipInv, Steps
  <2>2. tips' \in Refs /\ tips'.local = tips.local /\ known' \in Nat
        /\ tips'.origin = tips.origin
    BY <1>2 DEF Fetched, ShipInv, ShipTypeOK, Refs
  <2>3. UNCHANGED <<dir, trunk, pr, board, staged, late>>
    BY DEF Fetch, world
  <2>4. ShipTypeOK'
    BY <2>1, <2>2, <2>3 DEF ShipInv, ShipTypeOK
  <2>5. QED BY <1>2, <2>1, <2>2, <2>3, <2>4 DEF ShipInv, DirSafe, HandSafe, SplitKeepsWork, At,
                             Untouched, Testing, Rewrites
<1>3. QED BY <1>1, <1>2 DEF Fetch

\* The gate looks at the worktree (_is_working_tree_clean).
LEMMA CleanStep ==
  ASSUME ShipInv, Clean PROVE ShipInv'
<1>1. CASE End
  BY <1>1, EndStep DEF Clean, ShipInv, ShipTypeOK, world
<1>2. CASE ~Dirty /\ Goto("check")
  <2>1. op' \in Ops /\ op'.at = "check" /\ op'.head = op.head
    BY <1>2, Moving DEF ShipInv, Steps
  <2>2. UNCHANGED <<tips, known, dir, trunk, pr, board, staged>> /\ late' = {}
    BY DEF Clean, world
  <2>3. ShipTypeOK'
    BY <2>1, <2>2 DEF ShipInv, ShipTypeOK
  <2>4. dir # Nil => ~dir.midway /\ dir.edits = {}
    BY <1>2 DEF Dirty, Clean, At, ShipInv, DirSafe, Untouched
  <2>5. DirSafe'
    BY <2>1, <2>2, <2>4 DEF ShipInv, DirSafe
  <2>6. op.head # Nil
    BY DEF Clean, At, ShipInv, HandSafe
  <2>7. QED BY <2>1, <2>2, <2>3, <2>5, <2>6 DEF ShipInv, HandSafe, SplitKeepsWork, At
<1>3. QED BY <1>1, <1>2 DEF Clean, RefusedDirty

\* The gate rebases an independent branch (_rebase_independent_branch).
LEMMA RebaseStep ==
  ASSUME NilIsApart, ShipInv, Rebase PROVE ShipInv' /\ Rewrites
<1> DEFINE t == Feature
<1>0. op.at = "rebase" /\ UNCHANGED <<known, trunk, pr, board, staged, late>>
  BY DEF Rebase, At, world
<1>1. CASE End /\ UNCHANGED <<tips, dir>>
  BY <1>0, <1>1, EndStep DEF ShipInv, ShipTypeOK, Rewrites
<1>2. CASE /\ t # Nil
           /\ op' = [op EXCEPT !.at = "clean", !.rebased = FALSE,
                               !.base = BaseOf(t), !.head = t, !.pre = t]
           /\ UNCHANGED <<tips, dir>>
  <2>1. op' \in Ops /\ op'.at = "clean" /\ op'.head # Nil
    <3>1. t \in Tips /\ BaseOf(t) \in {"trunk", "parent"}
      BY <1>2, Fields DEF ShipInv, BaseOf
    <3>2. QED BY <1>2, <3>1 DEF ShipInv, ShipTypeOK, Ops, Steps
  <2>2. ShipTypeOK'
    BY <1>0, <1>2, <2>1 DEF ShipInv, ShipTypeOK
  <2>3. DirSafe'
    BY <1>0, <1>2, <2>1 DEF ShipInv, DirSafe, Untouched, Testing
  <2>4. QED BY <1>0, <1>2, <2>1, <2>2, <2>3 DEF ShipInv, HandSafe, SplitKeepsWork, At, Rewrites
<1>3. CASE /\ t # Nil
           /\ op' = [op EXCEPT !.at = "clean", !.rebased = TRUE, !.pre = t,
                               !.base = "trunk", !.head = Replayed(t, known)]
           /\ tips' = IF tips.local = Nil THEN tips
                      ELSE [tips EXCEPT !.local = Replayed(t, known)]
           /\ UNCHANGED dir
  <2>0. Replayed(t, known) \in Tips /\ Replayed(t, known) # Nil
    <3>1. t \in Tips /\ known \in Nat
      BY <1>3, Fields DEF ShipInv, ShipTypeOK
    <3>2. QED BY <3>1, ReplayedType DEF NilIsApart
  <2>6. t \in Tips
    BY <1>3, Fields DEF ShipInv
  <2> DEFINE r == Replayed(t, known)
  <2> HIDE DEF r
  <2>1. op' \in Ops /\ op'.at = "clean" /\ op'.head = r
    BY <1>3, <2>0, <2>6 DEF ShipInv, ShipTypeOK, Ops, Steps, r
  <2>2. tips' \in Refs /\ tips'.local \in {tips.local, r} /\ tips'.origin = tips.origin
    BY <1>3, <2>0 DEF ShipInv, ShipTypeOK, Refs, r
  <2>3. ShipTypeOK'
    BY <1>0, <1>3, <2>1, <2>2 DEF ShipInv, ShipTypeOK
  <2>4. DirSafe'
    BY <1>0, <1>3, <2>0, <2>1, <2>2 DEF ShipInv, DirSafe, Untouched, Testing, r
  <2>5. QED BY <2>0, <2>1, <2>2, <2>3, <2>4 DEF ShipInv, HandSafe, SplitKeepsWork, At, r, Rewrites
<1>4. CASE /\ End /\ UNCHANGED tips
           /\ dir' = IF Dirty \/ dir = Nil \/ tips.local = Nil THEN dir
                     ELSE [dir EXCEPT !.midway = TRUE]
  <2>1. dir' \in Checkouts \cup {Nil} /\ (dir' # Nil => dir # Nil)
    BY <1>4 DEF ShipInv, ShipTypeOK, Checkouts
  <2>2. QED BY <1>0, <1>4, <2>1, EndStep DEF ShipInv, ShipTypeOK, Rewrites
<1>5. QED BY <1>1, <1>2, <1>3, <1>4 DEF Rebase

\* The gate runs the tests in the workspace (_run_gate).
LEMMA CheckStep ==
  ASSUME NilIsApart, ShipInv, Check PROVE ShipInv'
<1> DEFINE t == IF tips.local # Nil THEN tips.local ELSE op.head
           tree == [base |-> t.base, work |-> InWorkspace(t)]
<1>0. op.at = "check" /\ UNCHANGED <<tips, known, dir, trunk, pr, board, staged, late>>
  BY DEF Check, At, world
<1>1. CASE End
  BY <1>0, <1>1, EndStep DEF ShipInv, ShipTypeOK
<1>2. CASE op' = [op EXCEPT !.at = "verdict", !.tested = tree]
  <2>1. t \in Tips
    BY <1>0, Fields DEF ShipInv, HandSafe
  <2>2. tree \in Trees
    <3>1. Work(t) \subseteq Item
      BY <2>1, WorkType
    <3>2. (IF dir = Nil THEN {} ELSE dir.edits) \subseteq Item
      BY DEF ShipInv, ShipTypeOK, Checkouts
    <3>3. t.base \in Nat
      BY <2>1 DEF Tips
    <3>4. QED BY <3>1, <3>2, <3>3 DEF InWorkspace, Trees
  <2>3. op' \in Ops /\ op'.at = "verdict" /\ op'.tested = tree
    BY <1>2, <2>2 DEF ShipInv, ShipTypeOK, Ops, Steps
  <2>4. ShipTypeOK'
    BY <1>0, <2>3 DEF ShipInv, ShipTypeOK
  <2>5. DirSafe'
    BY <1>0, <2>3 DEF ShipInv, DirSafe, Untouched, Testing
  <2>6. tips.local # Nil => Agrees(tips.local)'
    <3>1. SUFFICES ASSUME tips.local # Nil PROVE Agrees(tips.local)'
      OBVIOUS
    <3>2. dir # Nil => dir.edits \subseteq late
      BY <1>0 DEF ShipInv, DirSafe, Testing
    <3>3. tips' = tips /\ late' = late /\ dir' = dir
      BY <1>0
    <3>4. tree # Nil /\ tree.base = tips.local.base /\ tree.work = InWorkspace(tips.local)
      BY <2>2, <3>1 DEF NilIsApart
    <3> HIDE DEF tree
    <3>5. QED BY <2>3, <3>2, <3>3, <3>4 DEF Agrees, InWorkspace
  <2>7. QED BY <1>0, <2>3, <2>4, <2>5, <2>6 DEF ShipInv, HandSafe, SplitKeepsWork, At
<1>3. QED BY <1>1, <1>2 DEF Check

\* What agreed still does when neither the branch nor the history changes.
LEMMA StillAgrees ==
  ASSUME ShipInv, op.at \in {"verdict", "guard", "push"}, op'.tested = op.tested,
         UNCHANGED <<tips, late>>
  PROVE  tips'.local # Nil => Agrees(tips.local)'
  BY DEF ShipInv, HandSafe, Agrees

\* The gate gives its verdict (_run_gate).
LEMMA VerdictStep ==
  ASSUME ShipInv, Verdict PROVE ShipInv'
<1>0. op.at = "verdict" /\ UNCHANGED <<tips, known, dir, trunk, pr, board, staged, late>>
  BY DEF Verdict, At, world
<1>1. CASE End
  BY <1>0, <1>1, EndStep DEF ShipInv, ShipTypeOK
<1>2. CASE op' = [op EXCEPT !.at = "workspace", !.second = TRUE]
  <2>1. op' \in Ops /\ op'.at = "workspace"
    BY <1>2 DEF ShipInv, ShipTypeOK, Ops, Steps
  <2>2. QED BY <1>0, <2>1 DEF ShipInv, ShipTypeOK, DirSafe, HandSafe, SplitKeepsWork, At,
                             Untouched, Testing
<1>3. CASE Goto("guard")
  <2>1. op' \in Ops /\ op'.at = "guard" /\ op'.tested = op.tested
    BY <1>3, Moving DEF ShipInv, Steps
  <2>2. tips'.local # Nil => Agrees(tips.local)'
    BY <1>0, <2>1, StillAgrees
  <2>3. QED BY <1>0, <2>1, <2>2 DEF ShipInv, ShipTypeOK, DirSafe, HandSafe, SplitKeepsWork,
                                  At, Untouched, Testing
<1>4. QED BY <1>1, <1>2, <1>3 DEF Verdict

\* The release guard looks at the branch (check_release_guard).
LEMMA GuardStep ==
  ASSUME ShipInv, Guard PROVE ShipInv'
<1>0. op.at = "guard" /\ UNCHANGED <<tips, known, dir, trunk, pr, board, staged, late>>
  BY DEF Guard, At, world
<1>1. CASE End
  BY <1>0, <1>1, EndStep DEF ShipInv, ShipTypeOK
<1>2. CASE Goto("push")
  <2>1. op' \in Ops /\ op'.at = "push" /\ op'.tested = op.tested
    BY <1>2, Moving DEF ShipInv, Steps
  <2>2. tips'.local # Nil => Agrees(tips.local)'
    BY <1>0, <2>1, StillAgrees
  <2>3. QED BY <1>0, <2>1, <2>2 DEF ShipInv, ShipTypeOK, DirSafe, HandSafe, SplitKeepsWork,
                                  At, Untouched, Testing
<1>3. QED BY <1>1, <1>2 DEF Guard

\* Where a command is that relies on nothing.
Loose == Steps \ (Untouched \cup {"delete"})

\* A command past the gate no longer depends on what the gate saw.
LEMMA LooseStep ==
  ASSUME ShipInv, ShipTypeOK', op'.at \in Loose,
         dir' # Nil => tips'.local # Nil
  PROVE  ShipInv'
  BY DEF ShipInv, Loose, DirSafe, HandSafe, SplitKeepsWork, At, Untouched, Testing

\* A push moves the branch on origin (_push_branch).
LEMMA PushStep ==
  ASSUME ShipInv, Push PROVE ShipInv'
<1>0. op.at = "push" /\ UNCHANGED <<known, dir, trunk, pr, board, staged, late>>
  BY DEF Push, At, world
<1>1. CASE End /\ UNCHANGED tips
  BY <1>0, <1>1, EndStep DEF ShipInv, ShipTypeOK
<1>2. CASE /\ tips.local # Nil
           /\ tips' = [tips EXCEPT !.origin = tips.local, !.tracking = tips.local]
           /\ Goto("pull request")
  <2>1. op' \in Ops /\ op'.at = "pull request"
    BY <1>2, Moving DEF ShipInv, Steps
  <2>2. tips' \in Refs /\ tips'.local = tips.local
    BY <1>2 DEF ShipInv, ShipTypeOK, Refs
  <2>3. ShipTypeOK'
    BY <1>0, <2>1, <2>2 DEF ShipInv, ShipTypeOK
  <2>4. QED BY <1>0, <1>2, <2>1, <2>2, <2>3, LooseStep DEF Loose, Untouched, Testing, Steps
<1>3. QED BY <1>1, <1>2 DEF Push

\* A pull request is opened (_create_pr).
LEMMA RequestStep ==
  ASSUME ShipInv, PullRequest PROVE ShipInv'
<1>1. op' \in Ops /\ op'.at = "idle"
  BY Moving DEF ShipInv, Steps, PullRequest
<1>2. pr' \in {"none", "open", "merged"}
  BY DEF PullRequest, ShipInv, ShipTypeOK
<1>3. ShipTypeOK'
  BY <1>1, <1>2 DEF ShipInv, ShipTypeOK, PullRequest
<1>4. QED BY <1>1, <1>3, LooseStep DEF Loose, Untouched, Testing, Steps, PullRequest,
                                      ShipInv, DirSafe

-----------------------------------------------------------------------------
(* The integration                                                         *)

\* The integration checks the board and marks the task (integrate).
LEMMA PreCheckStep ==
  ASSUME ShipInv, PreCheck PROVE ShipInv'
<1>1. op' \in Ops /\ op'.at \in {"idle", "wipe"}
  BY Moving DEF ShipInv, Steps, PreCheck
<1>2. board' \in Boards
  BY DEF PreCheck, ShipInv, ShipTypeOK, Boards
<1>3. ShipTypeOK'
  BY <1>1, <1>2 DEF ShipInv, ShipTypeOK, PreCheck
<1>4. QED BY <1>1, <1>3, LooseStep DEF Loose, Untouched, Testing, Steps, PreCheck,
                                      ShipInv, DirSafe

\* The integration throws away what is uncommitted (integrate).
LEMMA WipeStep ==
  ASSUME ShipInv, Wipe PROVE ShipInv'
<1>1. op' \in Ops /\ op'.at = "restack"
  BY Moving DEF ShipInv, Steps, Wipe
<1>2. dir' \in Checkouts \cup {Nil} /\ (dir' # Nil => dir # Nil)
  BY DEF Wipe, ShipInv, ShipTypeOK, Checkouts
<1>3. ShipTypeOK'
  BY <1>1, <1>2 DEF ShipInv, ShipTypeOK, Wipe, world
<1>4. QED BY <1>1, <1>2, <1>3, LooseStep DEF Loose, Untouched, Testing, Steps, Wipe,
                                      ShipInv, DirSafe

\* The workspace moves to a tip, where there is a local branch.
LEMMA MovedType ==
  ASSUME NilIsApart, ShipTypeOK, NEW t \in Tips
  PROVE  /\ Moved(t) \in Refs
         /\ Moved(t).local = IF tips.local = Nil THEN Nil ELSE t
         /\ Moved(t).origin = tips.origin
  BY DEF ShipTypeOK, Moved, Refs, NilIsApart

\* The integration rebases the branch onto the train (integrate).
LEMMA RestackStep ==
  ASSUME NilIsApart, ShipInv, Restack PROVE ShipInv' /\ Rewrites
<1> DEFINE t == Feature
           r == Replayed(t, known')
<1>0. /\ op.at = "restack" /\ UNCHANGED <<trunk, pr, staged, late>>
      /\ known' = Len(trunk)
  BY DEF Restack, At
<1>a. known' \in Nat
  BY <1>0 DEF ShipInv, ShipTypeOK, Logs
<1>1. CASE /\ End /\ board' = "awaiting_merge"
           /\ dir' = IF dir = Nil THEN Nil ELSE [dir EXCEPT !.midway = FALSE]
           /\ UNCHANGED tips
  <2>1. op' \in Ops /\ op'.at = "idle"
    BY <1>1, Moving DEF ShipInv, Steps
  <2>2. dir' \in Checkouts \cup {Nil} /\ (dir' # Nil => dir # Nil)
    BY <1>1 DEF ShipInv, ShipTypeOK, Checkouts
  <2>3. ShipTypeOK'
    BY <1>0, <1>a, <1>1, <2>1, <2>2 DEF ShipInv, ShipTypeOK, Boards
  <2>4. QED BY <1>1, <2>1, <2>2, <2>3, LooseStep DEF Loose, Untouched, Testing, Steps,
                                      ShipInv, DirSafe, Rewrites
<1>2. CASE /\ t # Nil /\ (dir # Nil => ~dir.midway)
           /\ op' = [op EXCEPT !.at = "merge guards", !.pre = t, !.head = r]
           /\ tips' = Moved(r) /\ UNCHANGED <<dir, board>>
  <2>1. t \in Tips
    BY <1>2, Fields DEF ShipInv
  <2>2. r \in Tips /\ r # Nil
    BY <1>a, <2>1, ReplayedType DEF NilIsApart
  <2> HIDE DEF r
  <2>3. op' \in Ops /\ op'.at = "merge guards" /\ op'.pre = t /\ op'.head = r
    BY <1>2, <2>1, <2>2 DEF ShipInv, ShipTypeOK, Ops, Steps
  <2>4. tips' \in Refs /\ (tips.local # Nil => tips'.local # Nil)
        /\ tips'.origin = tips.origin
    BY <1>2, <2>2, MovedType DEF ShipInv
  <2>5. ShipTypeOK'
    BY <1>0, <1>a, <1>2, <2>3, <2>4 DEF ShipInv, ShipTypeOK
  <2>6. DirSafe'
    BY <1>2, <2>3, <2>4 DEF ShipInv, DirSafe, Untouched, Testing
  <2>7. QED BY <1>2, <2>2, <2>3, <2>4, <2>5, <2>6 DEF ShipInv, HandSafe, SplitKeepsWork, At, Rewrites
<1>3. QED BY <1>1, <1>2 DEF Restack

\* The integration judges the branch it has rebased (integrate).
LEMMA MergeGuardsStep ==
  ASSUME NilIsApart, ShipInv, MergeGuards PROVE ShipInv' /\ Rewrites
<1> DEFINE t == op.head
           new == IF Monolithic(t, "trunk") THEN [t EXCEPT !.log = PlanGroups(t)] ELSE t
<1>0. /\ op.at = "merge guards" /\ UNCHANGED <<known, trunk, pr, staged, late>>
      /\ dir' = IF dir = Nil THEN Nil ELSE [dir EXCEPT !.edits = {}]
  BY DEF MergeGuards, At
<1>a. t \in Tips /\ op.pre \in Tips /\ (dir # Nil => ~dir.midway)
  BY <1>0, Fields DEF ShipInv, HandSafe, DirSafe, Untouched
<1>b. /\ dir' \in Checkouts \cup {Nil} /\ (dir' # Nil => dir # Nil)
      /\ dir' # Nil => ~dir'.midway
  BY <1>0, <1>a DEF ShipInv, ShipTypeOK, Checkouts
<1>1. CASE End /\ tips' = Moved(op.pre) /\ board' = "awaiting_merge"
  <2>1. op' \in Ops /\ op'.at = "idle"
    BY <1>1, Moving DEF ShipInv, Steps
  <2>2. tips' \in Refs /\ (tips.local # Nil => tips'.local # Nil)
        /\ tips'.origin = tips.origin
    BY <1>1, <1>a, MovedType DEF ShipInv, NilIsApart
  <2>3. ShipTypeOK'
    BY <1>0, <1>1, <1>b, <2>1, <2>2 DEF ShipInv, ShipTypeOK, Boards
  <2>4. QED BY <1>b, <2>1, <2>2, <2>3, LooseStep DEF Loose, Untouched, Testing, Steps,
                                      ShipInv, DirSafe, Rewrites
<1>2. CASE /\ op' = [op EXCEPT !.at = "stage", !.head = new]
           /\ tips' = Moved(new) /\ UNCHANGED board
  <2>1. new \in Tips /\ new # Nil
    <3>1. PlanGroups(t) \in Logs
      BY GroupsType
    <3>2. [t EXCEPT !.log = PlanGroups(t)] \in Tips
      BY <1>a, <3>1 DEF Tips
    <3>3. QED BY <1>a, <3>2 DEF NilIsApart
  <2> HIDE DEF new
  <2>2. op' \in Ops /\ op'.at = "stage" /\ op'.head = new
    BY <1>2, <2>1 DEF ShipInv, ShipTypeOK, Ops, Steps
  <2>3. tips' \in Refs /\ (tips.local # Nil => tips'.local # Nil)
        /\ tips'.origin = tips.origin
    BY <1>2, <2>1, MovedType DEF ShipInv
  <2>4. ShipTypeOK'
    BY <1>0, <1>b, <1>2, <2>2, <2>3 DEF ShipInv, ShipTypeOK
  <2>5. DirSafe'
    BY <1>b, <2>2, <2>3 DEF ShipInv, DirSafe, Untouched, Testing
  <2>6. QED BY <2>1, <2>2, <2>3, <2>4, <2>5 DEF ShipInv, HandSafe, SplitKeepsWork, At, Rewrites
<1>3. QED BY <1>1, <1>2 DEF MergeGuards

\* The integration stages the branch on the train (integrate).
LEMMA SquashStep ==
  ASSUME ShipInv, Squash PROVE ShipInv'
<1> DEFINE t == IF tips.local # Nil THEN tips.local ELSE op.head
<1>0. op.at = "stage" /\ late' = {} /\ UNCHANGED <<tips, known, dir, trunk, pr, board>>
  BY DEF Squash, At
<1>1. CASE End /\ UNCHANGED staged
  BY <1>0, <1>1, EndStep DEF ShipInv, ShipTypeOK
<1>2. CASE Goto("remove") /\ staged' = Work(t)
  <2>1. op' \in Ops /\ op'.at = "remove"
    BY <1>2, Moving DEF ShipInv, Steps
  <2>2. t \in Tips
    BY <1>0, Fields DEF ShipInv, HandSafe
  <2>3. staged' \subseteq Item
    BY <1>2, <2>2, WorkType
  <2>4. ShipTypeOK'
    BY <1>0, <2>1, <2>3 DEF ShipInv, ShipTypeOK
  <2>5. DirSafe'
    BY <1>0, <2>1 DEF ShipInv, DirSafe, Untouched, Testing
  <2>6. QED BY <1>0, <1>2, <2>1, <2>4, <2>5 DEF ShipInv, HandSafe, SplitKeepsWork, At
<1>3. QED BY <1>1, <1>2 DEF Squash

\* The integration removes the worktree and the branch (integrate).
LEMMA CleanUpStep ==
  ASSUME ShipInv, CleanUp PROVE ShipInv'
<1>1. op' \in Ops /\ op'.at = "mark"
  BY Moving DEF ShipInv, Steps, CleanUp
<1>2. tips' \in Refs /\ dir' = Nil
  BY DEF CleanUp, ShipInv, ShipTypeOK, Refs
<1>3. ShipTypeOK'
  BY <1>1, <1>2 DEF ShipInv, ShipTypeOK, CleanUp, world
<1>4. QED BY <1>1, <1>2, <1>3, LooseStep DEF Loose, Untouched, Testing, Steps

\* The integration writes the record (integrate).
LEMMA MarkStep ==
  ASSUME ShipInv, Mark PROVE ShipInv'
<1>1. op' \in Ops /\ op'.at = "flush"
  BY Moving DEF ShipInv, Steps, Mark
<1>2. ShipTypeOK'
  BY <1>1 DEF ShipInv, ShipTypeOK, Mark, Boards
<1>3. QED BY <1>1, <1>2, LooseStep DEF Loose, Untouched, Testing, Steps, Mark,
                                      ShipInv, DirSafe

\* The train is flushed after the merge (cmd_merge).
LEMMA FlushStep ==
  ASSUME ShipInv, Flush PROVE ShipInv'
<1>1. op' \in Ops /\ op'.at = "idle"
  BY Moving DEF ShipInv, Steps, Flush
<1>2. trunk' \in Logs /\ staged' \subseteq Item /\ board' \in Boards
  <2>1. trunk \in Logs /\ staged \in SUBSET Item
    BY DEF ShipInv, ShipTypeOK
  <2>2. Append(trunk, staged) \in Logs
    BY <2>1, LongerLog
  <2>3. QED BY <2>1, <2>2 DEF Flush, Boards, ShipInv, ShipTypeOK
<1>3. ShipTypeOK'
  BY <1>1, <1>2 DEF ShipInv, ShipTypeOK, Flush
<1>4. QED BY <1>1, <1>3, LooseStep DEF Loose, Untouched, Testing, Steps, Flush,
                                      ShipInv, DirSafe

-----------------------------------------------------------------------------
(* The split and the closure                                               *)

\* A split takes the commits back into the worktree (cmd_split).
LEMMA SplitResetStep ==
  ASSUME NilIsApart, ShipInv, SplitReset PROVE ShipInv' /\ Rewrites
<1> DEFINE t == tips.local
           rest == IF BaseOf(t) = "parent" THEN [t EXCEPT !.log = <<ParentWork>>]
                   ELSE [base |-> known, log |-> <<>>]
           left == IF BaseOf(t) = "parent" THEN Kept(t) \ ParentWork ELSE Kept(t)
<1>0. op.at = "split" /\ UNCHANGED <<known, trunk, pr, board, staged, late>>
  BY DEF SplitReset, At, world
<1>1. CASE End /\ UNCHANGED <<tips, dir>>
  BY <1>0, <1>1, EndStep DEF ShipInv, ShipTypeOK, Rewrites
<1>2. CASE /\ dir # Nil /\ tips.local # Nil /\ ~dir.midway
           /\ \E g \in Groups :
                 op' = [op EXCEPT !.at = "splitting", !.groups = g, !.pre = t]
           /\ tips' = [tips EXCEPT !.local = rest]
           /\ dir' = [dir EXCEPT !.edits = left]
  <2>1. t \in Tips
    BY <1>2, Fields DEF ShipInv
  <2>2. rest \in Tips /\ rest # Nil
    BY <2>1, ParentLog, EmptyLog DEF Tips, NilIsApart, ShipInv, ShipTypeOK
  <2>3. left \subseteq Item
    BY <2>1, WorkType DEF Kept
  <2>4. Work(t) \subseteq Work(rest) \cup left
    <3>1. CASE BaseOf(t) = "parent"
      <4>1. ToSet(<<ParentWork>>) = {ParentWork}
        BY DEF ToSet
      <4>2. Work(rest) = ParentWork
        <5>1. rest.log = <<ParentWork>>
          BY <2>1, <3>1 DEF Tips
        <5>2. QED BY <4>1, <5>1 DEF Work
      <4>3. QED BY <3>1, <4>2 DEF Kept
    <3>2. QED BY <3>1 DEF Kept
  <2> HIDE DEF rest, left
  <2>5. op' \in Ops /\ op'.at = "splitting" /\ op'.pre = t
    <3>1. PICK g \in Groups : op' = [op EXCEPT !.at = "splitting", !.groups = g, !.pre = t]
      BY <1>2
    <3>2. g \in Groupings
      BY ShipAssumption DEF Groupings
    <3>3. QED BY <2>1, <3>1, <3>2 DEF ShipInv, ShipTypeOK, Ops, Steps
  <2>6. tips' \in Refs /\ tips'.local = rest /\ tips'.origin = tips.origin
    BY <1>2, <2>2 DEF ShipInv, ShipTypeOK, Refs
  <2>7. dir' \in Checkouts /\ dir'.edits = left /\ ~dir'.midway
    BY <1>2, <2>3 DEF ShipInv, ShipTypeOK, Checkouts
  <2>8. ShipTypeOK'
    BY <1>0, <2>5, <2>6, <2>7 DEF ShipInv, ShipTypeOK
  <2>9. DirSafe' /\ HandSafe'
    BY <1>2, <2>2, <2>5, <2>6, <2>7 DEF DirSafe, HandSafe, Testing, NilIsApart
  <2>10. SplitKeepsWork'
    BY <2>4, <2>5, <2>6, <2>7 DEF SplitKeepsWork, Work
  <2>11. QED BY <2>2, <2>6, <2>8, <2>9, <2>10 DEF ShipInv, Rewrites
<1>3. QED BY <1>1, <1>2 DEF SplitReset

\* A commit moves changes from the worktree to its branch.
LEMMA CommitMoves ==
  ASSUME NilIsApart, ShipInv, dir # Nil, NEW s \in SUBSET Item, s \subseteq dir.edits,
         tips' = [tips EXCEPT !.local.log = Append(@, s)],
         dir' = [dir EXCEPT !.edits = @ \ s]
  PROVE  /\ tips' \in Refs /\ tips'.local # Nil /\ tips'.origin = tips.origin /\ dir' \in Checkouts
         /\ tips'.local.base = tips.local.base
         /\ dir'.midway = dir.midway /\ dir'.edits = dir.edits \ s
         /\ Work(tips.local)' = Work(tips.local) \cup s
<1>1. tips.local \in Tips
  BY Fields DEF ShipInv, DirSafe
<1> DEFINE log == tips.local.log
           new == [tips.local EXCEPT !.log = Append(log, s)]
<1>2. log \in Logs
  BY <1>1 DEF Tips
<1>3. Append(log, s) \in Logs /\ UNION ToSet(Append(log, s)) = (UNION ToSet(log)) \cup s
  BY <1>2, CommitWork
<1>4. new \in Tips /\ new # Nil /\ new.base = tips.local.base /\ new.log = Append(log, s)
  BY <1>1, <1>3 DEF Tips, NilIsApart
<1>5. tips' = [tips EXCEPT !.local = new]
  BY DEF ShipInv, ShipTypeOK, Refs
<1> HIDE DEF new
<1>6. tips' \in Refs /\ tips'.local = new /\ tips'.origin = tips.origin
  BY <1>4, <1>5 DEF ShipInv, ShipTypeOK, Refs
<1>7. dir' \in Checkouts /\ dir'.midway = dir.midway /\ dir'.edits = dir.edits \ s
  BY DEF ShipInv, ShipTypeOK, Checkouts
<1>8. Work(tips.local)' = Work(tips.local) \cup s
  BY <1>3, <1>4, <1>6 DEF Work
<1>9. QED BY <1>4, <1>6, <1>7, <1>8

\* A split commits one group of files (cmd_split).
LEMMA SplitGroupStep ==
  ASSUME NilIsApart, ShipInv, SplitGroup PROVE ShipInv' /\ Rewrites
<1> DEFINE s == Head(op.groups) \cap dir.edits
<1>0. op.at = "splitting" /\ UNCHANGED <<known, trunk, pr, board, staged, late>>
  BY DEF SplitGroup, At, world
<1>1. CASE End /\ UNCHANGED <<tips, dir>>
  BY <1>0, <1>1, EndStep DEF ShipInv, ShipTypeOK, Rewrites
<1>2. CASE /\ op' = [op EXCEPT !.groups = Tail(@)]
           /\ tips' = [tips EXCEPT !.local.log = Append(@, s)]
           /\ dir' = [dir EXCEPT !.edits = @ \ s]
  <2>1. dir # Nil /\ ~dir.midway
    BY <1>0 DEF ShipInv, DirSafe, HandSafe, Untouched
  <2>2. s \in SUBSET Item /\ s \subseteq dir.edits
    BY <2>1 DEF ShipInv, ShipTypeOK, Checkouts
  <2> HIDE DEF s
  <2>3. /\ tips' \in Refs /\ tips'.local # Nil /\ tips'.origin = tips.origin /\ dir' \in Checkouts
        /\ dir'.midway = dir.midway /\ dir'.edits = dir.edits \ s
        /\ Work(tips.local)' = Work(tips.local) \cup s
    BY <1>2, <2>1, <2>2, CommitMoves
  <2>4. op' \in Ops /\ op'.at = "splitting" /\ op'.pre = op.pre
    <3>1. op.groups \in Groupings /\ op.groups # <<>>
      BY DEF SplitGroup, ShipInv, ShipTypeOK, Ops
    <3>2. Tail(op.groups) \in Groupings
      BY <3>1 DEF Groupings
    <3>3. QED BY <1>0, <1>2, <3>2 DEF ShipInv, ShipTypeOK, Ops
  <2>5. ShipTypeOK'
    BY <1>0, <2>3, <2>4 DEF ShipInv, ShipTypeOK
  <2>6. DirSafe'
    BY <2>1, <2>3, <2>4 DEF DirSafe, Testing
  <2>7. HandSafe'
    BY <1>0, <2>1, <2>3, <2>4, NilIsApart DEF ShipInv, HandSafe, NilIsApart
  <2>8. SplitKeepsWork'
    <3>1. Work(op.pre) \subseteq Work(tips.local) \cup dir.edits
      BY <1>0 DEF ShipInv, SplitKeepsWork, At
    <3>2. Work(op'.pre) = Work(op.pre)
      BY <2>4
    <3>3. Work(op.pre)' = Work(op'.pre)
      BY DEF Work
    <3>4. QED BY <2>3, <3>1, <3>2, <3>3 DEF SplitKeepsWork
  <2>9. QED BY <2>3, <2>5, <2>6, <2>7, <2>8 DEF ShipInv, Rewrites
<1>3. QED BY <1>1, <1>2 DEF SplitGroup

\* A split ends (cmd_split).
LEMMA SplitEndStep ==
  ASSUME ShipInv, SplitEnd PROVE ShipInv'
  BY EndStep DEF SplitEnd, ShipInv, ShipTypeOK, world

\* A merge or a close is put on record (cmd_record_merge, cmd_ship).
LEMMA RecordingStep ==
  ASSUME ShipInv, Record PROVE ShipInv' /\ Rewrites
<1>0. op.at = "close" /\ UNCHANGED <<dir, trunk, pr, staged, late>>
  BY DEF Record, At
<1>1. /\ op' \in Ops /\ op'.at \in {"idle", "delete"}
      /\ op'.at = "delete" => board' = "merged"
  BY Moving DEF Record, ShipInv, Steps
<1>2. tips' \in Refs /\ tips'.local = tips.local /\ known' \in Nat
      /\ tips'.origin = tips.origin
  BY DEF Record, Fetched, ShipInv, ShipTypeOK, Refs, Logs
<1>3. board' \in Boards
  BY DEF Record, ShipInv, ShipTypeOK, Boards
<1>4. ShipTypeOK'
  BY <1>0, <1>1, <1>2, <1>3 DEF ShipInv, ShipTypeOK
<1>5. QED BY <1>0, <1>1, <1>2, <1>4 DEF ShipInv, DirSafe, HandSafe, SplitKeepsWork, At,
                             Untouched, Testing, Rewrites

\* A closed task loses its worktree and its branches (cmd_ship).
LEMMA DeleteStep ==
  ASSUME ShipInv, Delete PROVE ShipInv'
<1>1. op' \in Ops /\ op'.at = "idle"
  BY Moving DEF Delete, ShipInv, Steps
<1>2. tips' \in Refs /\ (dir # Nil => tips'.local = tips.local)
  BY DEF Delete, ShipInv, ShipTypeOK, Refs
<1>3. ShipTypeOK'
  BY <1>1, <1>2 DEF Delete, ShipInv, ShipTypeOK, world
<1>4. QED BY <1>1, <1>2, <1>3, LooseStep DEF Loose, Untouched, Testing, Steps, Delete,
                                      ShipInv, DirSafe

-----------------------------------------------------------------------------
(* The session, the colleague, the reviewer and the trunk                  *)

\* A change of the worktree that comes late is remembered as late.
LEMMA LaterGrows ==
  ASSUME NEW fs, late' = Later(fs), op.at \in Testing \cup {"remove"}
  PROVE  late' = late \cup fs
  BY DEF Later, Testing

\* A session changes a file.
LEMMA EditStep ==
  ASSUME NilIsApart, ShipInv, NEW f \in Files, Edit(f) PROVE ShipInv'
<1>0. /\ dir # Nil /\ late' = Later({f})
      /\ UNCHANGED <<op, tips, known, trunk, pr, board, staged>>
  BY DEF Edit, world
<1>1. dir' \in Checkouts /\ dir'.edits = dir.edits \cup {f} /\ dir'.midway = dir.midway
  BY DEF Edit, ShipInv, ShipTypeOK, Checkouts, Item
<1>2. late' \subseteq Item
  BY <1>0 DEF Later, ShipInv, ShipTypeOK, Item
<1>3. op.at \in Testing \cup {"remove"} => late' = late \cup {f}
  BY <1>0, LaterGrows
<1>4. ShipTypeOK'
  BY <1>0, <1>1, <1>2 DEF ShipInv, ShipTypeOK
<1>5. DirSafe'
  BY <1>0, <1>1, <1>3 DEF ShipInv, DirSafe
<1>6. HandSafe'
  <2>1. op.at \in {"verdict", "guard", "push"} /\ tips.local # Nil => Agrees(tips.local)'
    BY <1>0, <1>3 DEF ShipInv, HandSafe, Agrees, Testing
  <2>2. QED BY <1>0, <1>1, <1>3, <2>1 DEF ShipInv, HandSafe, NilIsApart
<1>7. SplitKeepsWork'
  BY <1>0, <1>1 DEF ShipInv, SplitKeepsWork, At
<1>8. QED BY <1>4, <1>5, <1>6, <1>7 DEF ShipInv

\* A session commits what it changed.
LEMMA CommitStep ==
  ASSUME NilIsApart, ShipInv, Commit PROVE ShipInv' /\ Rewrites
<1> DEFINE s == dir.edits
<1>0. /\ dir # Nil /\ ~dir.midway /\ tips.local # Nil /\ late' = Later(s)
      /\ UNCHANGED <<op, known, trunk, pr, board, staged>>
  BY DEF Commit, Dirty, world
<1>1. s \in SUBSET Item
  BY <1>0 DEF ShipInv, ShipTypeOK, Checkouts
<1>2. dir' = [dir EXCEPT !.edits = @ \ s]
  BY <1>0 DEF Commit, ShipInv, ShipTypeOK, Checkouts
<1>3. tips' = [tips EXCEPT !.local.log = Append(@, s)]
  BY DEF Commit
<1>4. /\ tips' \in Refs /\ tips'.local # Nil /\ tips'.origin = tips.origin /\ dir' \in Checkouts
      /\ tips'.local.base = tips.local.base
      /\ dir'.midway = dir.midway /\ dir'.edits = dir.edits \ s
      /\ Work(tips.local)' = Work(tips.local) \cup s
  BY <1>0, <1>1, <1>2, <1>3, CommitMoves
<1> HIDE DEF s
<1>5. late' \subseteq Item
  BY <1>0, <1>1 DEF Later, ShipInv, ShipTypeOK
<1>6. op.at \in Testing \cup {"remove"} => late' = late \cup s
  BY <1>0, LaterGrows
<1>7. ShipTypeOK'
  BY <1>0, <1>4, <1>5 DEF ShipInv, ShipTypeOK
<1>8. DirSafe'
  BY <1>0, <1>4, <1>6 DEF ShipInv, DirSafe
<1>9. HandSafe'
  <2>1. op.at \in {"verdict", "guard", "push"} => Agrees(tips.local)'
    <3>1. SUFFICES ASSUME op.at \in {"verdict", "guard", "push"} PROVE Agrees(tips.local)'
      OBVIOUS
    <3>2. Agrees(tips.local) /\ late' = late \cup s
      BY <1>0, <1>6, <3>1 DEF ShipInv, HandSafe, Testing
    <3>3. QED BY <1>0, <1>4, <3>2 DEF Agrees
  <2>2. op.at = "remove" => Work(tips.local)' \subseteq staged \cup late'
    BY <1>0, <1>4, <1>6 DEF ShipInv, HandSafe
  <2>3. QED BY <1>0, <1>4, <2>1, <2>2 DEF ShipInv, HandSafe, NilIsApart
<1>10. SplitKeepsWork'
  <2>1. Work(op.pre)' = Work(op.pre)
    BY <1>0 DEF Work
  <2>2. QED BY <1>0, <1>4, <2>1 DEF ShipInv, SplitKeepsWork, At, s
<1>11. QED BY <1>4, <1>7, <1>8, <1>9, <1>10 DEF ShipInv, Rewrites

\* The operator ends a rebase that stopped.
LEMMA ResolveStep ==
  ASSUME NilIsApart, ShipInv, Resolve PROVE ShipInv' /\ Rewrites
<1>0. /\ dir # Nil /\ dir.midway
      /\ UNCHANGED <<op, known, trunk, pr, board, staged, late>>
  BY DEF Resolve, world
<1>1. op.at \notin Untouched /\ tips.local \in Tips
  BY <1>0, Fields DEF ShipInv, DirSafe
<1> DEFINE r == Replayed(tips.local, known)
<1>2. r \in Tips /\ r # Nil
  <2>1. known \in Nat
    BY DEF ShipInv, ShipTypeOK
  <2>2. QED BY <1>1, <2>1, ReplayedType DEF NilIsApart
<1>3. tips' \in {tips, [tips EXCEPT !.local = r]}
  BY DEF Resolve, ShipInv, ShipTypeOK, Refs
<1> HIDE DEF r
<1>4. tips' \in Refs /\ tips'.local # Nil /\ tips'.origin = tips.origin
  BY <1>0, <1>2, <1>3 DEF ShipInv, DirSafe, ShipTypeOK, Refs
<1>5. dir' \in Checkouts
  BY <1>0 DEF Resolve, ShipInv, ShipTypeOK, Checkouts
<1>6. ShipTypeOK'
  BY <1>0, <1>4, <1>5 DEF ShipInv, ShipTypeOK
<1>7. QED BY <1>0, <1>1, <1>4, <1>6 DEF ShipInv, DirSafe, HandSafe, SplitKeepsWork, At,
                                     Untouched, Testing, Rewrites

\* A colleague fast-forwards the branch on origin.
LEMMA ColleagueStep ==
  ASSUME NilIsApart, ShipInv, Colleague
  PROVE  /\ ShipInv' /\ tips'.local = tips.local /\ tips'.origin # Nil
         /\ FastForward(tips.origin, tips'.origin)
<1>0. /\ tips.origin # Nil
      /\ UNCHANGED <<op, known, dir, trunk, pr, board, staged, late>>
  BY DEF Colleague, world
<1>1. tips.origin \in Tips
  BY <1>0, Fields DEF ShipInv
<1> DEFINE log == tips.origin.log
           new == [tips.origin EXCEPT !.log = Append(log, {"foreign"})]
<1>2. log \in Logs /\ {"foreign"} \in SUBSET Item
  BY <1>1 DEF Tips, Item
<1>3. Append(log, {"foreign"}) \in Logs /\ IsPrefix(log, Append(log, {"foreign"}))
  BY <1>2, CommitWork
<1>4. new \in Tips /\ new.base = tips.origin.base /\ new.log = Append(log, {"foreign"})
  BY <1>1, <1>3 DEF Tips
<1>5. tips' = [tips EXCEPT !.origin = new]
  BY DEF Colleague, ShipInv, ShipTypeOK, Refs
<1> HIDE DEF new
<1>6. tips' \in Refs /\ tips'.local = tips.local /\ tips'.origin = new
  BY <1>4, <1>5 DEF ShipInv, ShipTypeOK, Refs
<1>7. ShipTypeOK'
  BY <1>0, <1>6 DEF ShipInv, ShipTypeOK
<1>8. DirSafe' /\ HandSafe'
  BY <1>0, <1>6 DEF ShipInv, DirSafe, HandSafe, Agrees
<1>9. SplitKeepsWork'
  BY <1>0, <1>6 DEF ShipInv, SplitKeepsWork, At, Work
<1>10. tips'.origin # Nil
  BY <1>4, <1>6 DEF NilIsApart
<1>11. FastForward(tips.origin, tips'.origin)
  BY <1>3, <1>4, <1>6 DEF FastForward
<1>12. QED BY <1>6, <1>7, <1>8, <1>9, <1>10, <1>11 DEF ShipInv

\* Something lands on the trunk.
LEMMA LandStep ==
  ASSUME NilIsApart, ShipInv, NEW w \in SUBSET Item, Land(w),
         pr' \in {"none", "open", "merged"}
  PROVE  ShipInv'
<1>1. trunk' \in Logs
  BY LongerLog DEF Land, ShipInv, ShipTypeOK
<1>2. ShipTypeOK'
  BY <1>1 DEF Land, ShipInv, ShipTypeOK
<1>3. QED BY <1>2 DEF Land, ShipInv, DirSafe, HandSafe, Agrees, SplitKeepsWork, At, Work

\* Other work lands, or a reviewer merges the pull request.
LEMMA OthersStep ==
  ASSUME NilIsApart, ShipInv, TrunkMoves \/ Review PROVE ShipInv'
<1>1. CASE TrunkMoves
  <2>1. {} \in SUBSET Item /\ pr' \in {"none", "open", "merged"}
    BY <1>1 DEF TrunkMoves, ShipInv, ShipTypeOK
  <2>2. QED BY <1>1, <2>1, LandStep DEF TrunkMoves
<1>2. CASE Review
  <2>1. tips.origin \in Tips
    BY <1>2, Fields DEF Review, ShipInv
  <2>2. Work(tips.origin) \in SUBSET Item /\ pr' \in {"none", "open", "merged"}
    BY <1>2, <2>1, WorkType DEF Review
  <2>3. QED BY <1>2, <2>2, LandStep DEF Review
<1>3. QED BY <1>1, <1>2

\* Every step preserves ShipInv.
LEMMA ShipStep ==
  ASSUME NilIsApart, ShipInv, [ShipNext]_shipVars PROVE ShipInv'
<1>1. CASE UNCHANGED shipVars
  BY <1>1 DEF shipVars, ShipInv, ShipTypeOK, DirSafe, HandSafe, Agrees, SplitKeepsWork,
              At, Work
<1>2. CASE \E c \in ShipCommands : Begin(c)
  BY <1>2, BeginStep
<1>3. CASE Gate
  BY <1>3, FetchStep, RebaseStep, CleanStep, CheckStep, VerdictStep DEF Gate
<1>4. CASE Open
  BY <1>4, FlushFirstStep, GuardStep, PushStep, RequestStep DEF Open
<1>5. CASE Merge
  <2>1. CASE PreCheck \/ Wipe \/ Restack \/ MergeGuards
    BY <2>1, PreCheckStep, WipeStep, RestackStep, MergeGuardsStep
  <2>2. CASE Squash \/ CleanUp \/ Mark \/ Flush
    BY <2>2, SquashStep, CleanUpStep, MarkStep, FlushStep
  <2>3. QED BY <1>5, <2>1, <2>2 DEF Merge
<1>6. CASE Split
  BY <1>6, SplitResetStep, SplitGroupStep, SplitEndStep DEF Split
<1>7. CASE Close
  BY <1>7, RecordingStep, DeleteStep DEF Close
<1>8. CASE Surroundings
  BY <1>8, EditStep, CommitStep, ResolveStep, ColleagueStep, OthersStep DEF Surroundings
<1>9. QED BY <1>1, <1>2, <1>3, <1>4, <1>5, <1>6, <1>7, <1>8 DEF ShipNext

\* The invariant of the commands: between fetch and push, in a split and past
\* the integration's rebase, a worktree has its branch and no rebase is stopped
\* in it; what was tested is what the branch holds but for late changes; what
\* is removed is on the train or late (_run_gate and cmd_split of cli/ship.py,
\* integrate).
THEOREM ShipKeepsInv ==
  ASSUME NilIsApart PROVE ShipSpec => []ShipInv
BY ShipInitial, ShipStep, PTL DEF ShipSpec

\* However a split ends, and whatever the session does meanwhile, what the
\* branch held is on it or in the worktree, for any plan, any groups and any
\* number of commands (cmd_split of cli/ship.py).
THEOREM SplitsKeepWork ==
  ASSUME NilIsApart PROVE ShipSpec => []SplitKeepsWork
<1>1. ShipInv => SplitKeepsWork
  BY DEF ShipInv
<1>2. QED BY <1>1, ShipKeepsInv, PTL

\* The branch leaves origin, or moves there, in a push, by a colleague or with
\* its deletion; it leaves this clone in the integration or by its deletion.
LEMMA BranchMoves ==
  ASSUME NilIsApart, ShipInv, [ShipNext]_shipVars
  PROVE  Rewrites \/ Push \/ Colleague \/ CleanUp \/ Delete
<1>1. CASE UNCHANGED shipVars
  BY <1>1 DEF shipVars, Rewrites
<1>2. CASE \/ \E c \in ShipCommands : Begin(c)
           \/ Clean \/ Check \/ Verdict \/ FlushFirst \/ Guard \/ PullRequest
           \/ PreCheck \/ Wipe \/ Squash \/ Mark \/ Flush \/ SplitEnd
  BY <1>2 DEF Begin, Clean, Check, Verdict, FlushFirst, Guard, PullRequest, PreCheck,
              Wipe, Squash, Mark, Flush, SplitEnd, Rewrites
<1>3. CASE Fetch \/ Rebase \/ Restack \/ MergeGuards
  BY <1>3, FetchStep, RebaseStep, RestackStep, MergeGuardsStep
<1>4. CASE SplitReset \/ SplitGroup \/ Record \/ Commit \/ Resolve
  BY <1>4, SplitResetStep, SplitGroupStep, RecordingStep, CommitStep, ResolveStep
<1>5. CASE TrunkMoves \/ Review \/ \E f \in Files : Edit(f)
  BY <1>5 DEF TrunkMoves, Review, Land, Edit, Rewrites
<1>6. QED BY <1>1, <1>2, <1>3, <1>4, <1>5
          DEF ShipNext, Gate, Open, Merge, Split, Close, Surroundings

\* Only a push brings a command to the pull request.
LEMMA OnlyPushes ==
  ASSUME [ShipNext]_shipVars, At("push"), op'.at = "pull request"
  PROVE  Push
<1>1. CASE UNCHANGED shipVars
  BY <1>1 DEF shipVars, At
<1>2. CASE Surroundings
  BY <1>2 DEF Surroundings, Edit, Commit, Resolve, Colleague, TrunkMoves, Review, Land, At
<1>3. CASE \/ Gate \/ FlushFirst \/ Guard \/ PullRequest
           \/ \E c \in ShipCommands : Begin(c)
  BY <1>3 DEF Gate, Fetch, Rebase, Clean, Check, Verdict, FlushFirst, Guard, PullRequest,
              Begin, At
<1>4. CASE Merge \/ Split \/ Close
  BY <1>4 DEF Merge, PreCheck, Wipe, Restack, MergeGuards, Squash, CleanUp, Mark, Flush,
              Split, SplitReset, SplitGroup, SplitEnd, Close, Record, Delete, At
<1>5. QED BY <1>1, <1>2, <1>3, <1>4 DEF ShipNext, Open

\* A command pushes what its gate has tested, on the version it was tested on,
\* but for what changed after the gate had found the worktree clean, for any
\* number of commands, files and conflicts (_run_gate and _push_branch of
\* cli/ship.py).
THEOREM PushesAreTested ==
  ASSUME NilIsApart PROVE ShipSpec => PushedIsTested
<1>1. ASSUME ShipInv, [ShipNext]_shipVars, At("push"), op'.at = "pull request"
      PROVE  LET t == tips'.origin IN
             /\ op.tested # Nil /\ op.tested.base = t.base
             /\ (Work(t) \ op.tested.work) \cup (op.tested.work \ Work(t)) \subseteq late
  <2>1. Push
    BY <1>1, OnlyPushes
  <2>2. op.at = "push"
    BY <1>1 DEF At
  <2>3. tips.local # Nil /\ tips' = [tips EXCEPT !.origin = tips.local, !.tracking = tips.local]
    BY <1>1, <2>1, IdleType DEF Push, End, ShipInv, ShipTypeOK, Ops
  <2>4. tips'.origin = tips.local
    BY <1>1, <2>3 DEF ShipInv, ShipTypeOK, Refs
  <2>5. Agrees(tips.local)
    BY <1>1, <2>2, <2>3 DEF ShipInv, HandSafe
  <2>6. QED BY <2>4, <2>5 DEF Agrees, Work
<1>2. QED BY <1>1, ShipInitial, ShipStep, PTL DEF ShipSpec, PushedIsTested

-----------------------------------------------------------------------------
(* What a push takes off the branch on origin                               *)

\* A replay leaves nothing out but what is there already.
LEMMA WithoutKeeps ==
  ASSUME NEW log \in Logs, NEW there
  PROVE  UNION ToSet(log) \subseteq (UNION ToSet(Without(log, there))) \cup there
<1> DEFINE n == Len(log)
<1>1. n \in Nat /\ n \in 0..n
  BY DEF Logs
<1>2. PICK h : KeptOf(h, log, there, n) /\ Without(log, there) = h[n]
  BY WithoutKept
<1> DEFINE Has(i) == \A j \in 1..i : log[j] \subseteq (UNION ToSet(h[i])) \cup there
           T == {i \in 0..n : ~Has(i)}
<1>3. T = {}
  <2>1. SUFFICES ASSUME T # {} PROVE FALSE
    OBVIOUS
  <2>2. T \subseteq Nat
    BY <1>1
  <2>3. PICK i \in T : \A j \in T : i <= j
    <3> HIDE DEF T
    <3>1. QED BY <2>1, <2>2, LeastNatural
  <2>4. i # 0
    <3>1. Has(0)
      OBVIOUS
    <3>2. QED BY <2>3, <3>1
  <2>5. i \in 1..n /\ i - 1 \in 0..n
    BY <1>1, <2>3, <2>4
  <2>6. Has(i - 1)
    <3>1. i - 1 \notin T
      <4> HIDE DEF T
      <4>1. QED BY <2>2, <2>3
    <3> HIDE DEF Has
    <3>2. QED BY <2>5, <3>1
  <2>13. log[i] \in SUBSET Item
    BY <2>5 DEF Logs
  <2>7. log[i] \in SUBSET Item /\ h[i - 1] \in Logs
    BY <1>2, <2>5, <2>13 DEF KeptOf
  <2>8. h[i] = IF log[i] \subseteq there THEN h[i - 1] ELSE Append(h[i - 1], log[i])
    BY <1>2, <2>5 DEF KeptOf
  <2>9. \A j \in 1..i : j = i \/ j \in 1..(i - 1)
    BY <2>5
  <2>10. /\ log[i] \subseteq (UNION ToSet(h[i])) \cup there
         /\ UNION ToSet(h[i - 1]) \subseteq UNION ToSet(h[i])
    <3>1. CASE log[i] \subseteq there
      BY <2>8, <3>1
    <3>2. CASE ~(log[i] \subseteq there)
      <4>1. h[i] = Append(h[i - 1], log[i])
        BY <2>8, <3>2
      <4>2. UNION ToSet(h[i]) = (UNION ToSet(h[i - 1])) \cup log[i]
        BY <2>7, <4>1, CommitWork
      <4>3. QED BY <4>2
    <3>3. QED BY <3>1, <3>2
  <2>11. Has(i)
    <3>1. TAKE j \in 1..i
    <3>2. CASE j = i
      BY <2>10, <3>2
    <3>3. CASE j \in 1..(i - 1)
      <4>1. log[j] \subseteq (UNION ToSet(h[i - 1])) \cup there
        BY <2>6, <3>3
      <4>2. QED BY <2>10, <4>1
    <3>4. QED BY <2>9, <3>2, <3>3
  <2>12. QED
    <3> HIDE DEF Has
    <3>1. QED BY <2>3, <2>11
<1>4. Has(n)
  <2> HIDE DEF Has
  <2>1. QED BY <1>1, <1>3
<1>5. \A s \in ToSet(log) : \E j \in 1..n : s = log[j]
  BY DEF ToSet, Logs
<1>6. QED BY <1>2, <1>4, <1>5

\* A rebase keeps the work of a branch but for what has landed.
LEMMA ReplayKeeps ==
  ASSUME NEW t \in Tips, trunk \in Logs, NEW v \in 0..Len(trunk)
  PROVE  Work(t) \subseteq Work(Replayed(t, v)) \cup Landed
<1> DEFINE there == UNION {trunk[i] : i \in 1..v}
<1>1. there \subseteq Landed
  <2>1. \A i \in 1..v : trunk[i] \in ToSet(trunk)
    BY DEF ToSet, Logs
  <2>2. QED BY <2>1 DEF Landed
<1>2. t.log \in Logs
  BY DEF Tips
<1>3. Replayed(t, v).log = Without(t.log, there)
  BY DEF Replayed
<1> HIDE DEF there
<1>4. UNION ToSet(t.log) \subseteq (UNION ToSet(Without(t.log, there))) \cup there
  BY <1>2, WithoutKeeps
<1>5. QED BY <1>1, <1>3, <1>4 DEF Work

\* Between its rebase and its push a gate keeps what the branch held.
GateKeeps ==
    /\ known <= Len(trunk)
    /\ op.at \in {"clean"} \cup Testing /\ tips.local # Nil =>
          Work(op.pre) \subseteq Work(tips.local) \cup Landed

\* The trunk only grows.
LEMMA TrunkGrows ==
  ASSUME ShipInv, known <= Len(trunk), [ShipNext]_shipVars, ShipTypeOK'
  PROVE  known' <= Len(trunk') /\ Landed \subseteq Landed'
<1> USE DEF world
<1>1. trunk \in Logs /\ known \in Nat /\ Len(trunk) \in Nat /\ Landed = UNION ToSet(trunk)
  BY DEF ShipInv, ShipTypeOK, Logs, Landed
<1>2. \/ UNCHANGED trunk
      \/ (\E s \in SUBSET Item : trunk' = Append(trunk, s)) /\ UNCHANGED known
  <2>1. CASE Flush
    BY <2>1 DEF Flush, ShipInv, ShipTypeOK
  <2>2. CASE TrunkMoves
    BY <2>2 DEF TrunkMoves, Land
  <2>3. CASE Review
    <3>1. tips.origin \in Tips
      BY <2>3, Fields DEF Review, ShipInv
    <3>2. QED BY <2>3, <3>1, WorkType DEF Review, Land
  <2>4. CASE \/ \E c \in ShipCommands : Begin(c)
             \/ Gate \/ Open \/ Split \/ Close \/ UNCHANGED shipVars
    BY <2>4 DEF Begin, Gate, Fetch, Rebase, Clean, Check, Verdict, Open, FlushFirst,
       Guard, Push, PullRequest, Split, SplitReset, SplitGroup, SplitEnd, Close,
       Record, Delete, shipVars
  <2>5. CASE PreCheck \/ Wipe \/ Restack \/ MergeGuards \/ Squash \/ CleanUp \/ Mark
    BY <2>5 DEF PreCheck, Wipe, Restack, MergeGuards, Squash, CleanUp, Mark
  <2>6. CASE (\E f \in Files : Edit(f)) \/ Commit \/ Resolve \/ Colleague
    BY <2>6 DEF Edit, Commit, Resolve, Colleague
  <2>7. QED BY <2>1, <2>2, <2>3, <2>4, <2>5, <2>6 DEF ShipNext, Merge, Surroundings
<1>3. CASE \E s \in SUBSET Item : trunk' = Append(trunk, s) /\ known' = known
  <2>1. PICK s \in SUBSET Item : trunk' = Append(trunk, s) /\ known' = known
    BY <1>3
  <2>2. Len(trunk') = Len(trunk) + 1
    BY <1>1, <2>1 DEF Logs
  <2>3. UNION ToSet(trunk') = (UNION ToSet(trunk)) \cup s
    BY <1>1, <2>1, CommitWork
  <2>4. known' <= Len(trunk')
    <3>1. known' = known
      BY <2>1
    <3>2. QED BY <1>1, <2>2, <3>1
  <2>5. Landed' = UNION ToSet(trunk')
    BY DEF Landed
  <2>6. QED BY <1>1, <2>3, <2>4, <2>5
<1>4. CASE UNCHANGED trunk
  <2>1. known' = known \/ known' = Len(trunk)
    BY <1>4
    DEF ShipNext, Gate, Open, Merge, Split, Close, Surroundings, Begin, Fetch, Fetched,
        Rebase, Clean, Check, Verdict, FlushFirst, Guard, Push, PullRequest, PreCheck,
        Wipe, Restack, MergeGuards, Squash, CleanUp, Mark, Flush, SplitReset,
        SplitGroup, SplitEnd, Record, Delete, Edit, Commit, Resolve, Colleague,
        TrunkMoves, Review, Land, shipVars
  <2>2. QED BY <1>1, <1>4, <2>1 DEF Landed
<1>5. QED BY <1>2, <1>3, <1>4

\* Every step keeps what the gate had, until the push.
LEMMA GateKeepsStep ==
  ASSUME NilIsApart, ShipInv, GateKeeps, [ShipNext]_shipVars PROVE GateKeeps'
<1> USE DEF world, At
<1>1. ShipInv'
  BY ShipStep
<1>2. known' <= Len(trunk') /\ Landed \subseteq Landed'
  BY <1>1, TrunkGrows DEF GateKeeps, ShipInv
<1> DEFINE InGate == {"clean"} \cup Testing
<1>3. SUFFICES ASSUME op'.at \in InGate, tips'.local # Nil
               PROVE  Work(op'.pre) \subseteq Work(tips'.local) \cup Landed'
  BY <1>2 DEF GateKeeps, Work
<1>4. ASSUME op.at \in InGate, op'.pre = op.pre, tips.local # Nil,
             Work(tips.local) \subseteq Work(tips'.local)
      PROVE  Work(op'.pre) \subseteq Work(tips'.local) \cup Landed'
  BY <1>2, <1>4 DEF GateKeeps
<1>5. CASE Rebase
  <2> DEFINE t == Feature
  <2>1. tips.local # Nil /\ t = tips.local /\ t \in Tips
    BY <1>3, <1>5, Fields DEF Rebase, Feature, ShipInv
  <2>2. CASE op' = [op EXCEPT !.at = "clean", !.rebased = FALSE,
                              !.base = BaseOf(t), !.head = t, !.pre = t]
             /\ UNCHANGED tips
    <3>1. op'.pre = t
      BY <2>2 DEF ShipInv, ShipTypeOK, Ops
    <3>2. QED BY <2>1, <2>2, <3>1
  <2>3. CASE /\ op' = [op EXCEPT !.at = "clean", !.rebased = TRUE, !.pre = t,
                                 !.base = "trunk", !.head = Replayed(t, known)]
             /\ tips' = IF tips.local = Nil THEN tips
                        ELSE [tips EXCEPT !.local = Replayed(t, known)]
    <3>1. op'.pre = t
      BY <2>3 DEF ShipInv, ShipTypeOK, Ops
    <3>2. tips'.local = Replayed(t, known)
      BY <2>1, <2>3 DEF ShipInv, ShipTypeOK, Refs
    <3>3. trunk \in Logs /\ known \in 0..Len(trunk)
      BY DEF GateKeeps, ShipInv, ShipTypeOK, Logs
    <3>4. Work(t) \subseteq Work(Replayed(t, known)) \cup Landed
      BY <2>1, <3>3, ReplayKeeps
    <3>5. QED BY <1>2, <3>1, <3>2, <3>4
  <2>4. CASE End
    BY <1>3, <2>4, Moving DEF ShipInv, Steps, Testing
  <2>5. QED BY <1>5, <2>2, <2>3, <2>4 DEF Rebase
<1>6. CASE Clean \/ Check \/ Verdict \/ Guard
  <2>1. tips' = tips /\ op.at \in InGate
    BY <1>6 DEF Clean, Check, Verdict, Guard, Testing
  <2>2. op'.pre = op.pre
    <3>1. CASE End
      BY <1>3, <3>1, Moving DEF ShipInv, Steps, Testing
    <3>2. CASE Goto("check") \/ Goto("guard") \/ Goto("push")
      BY <3>2, Moving DEF ShipInv, Steps
    <3>3. CASE op' = [op EXCEPT !.at = "workspace", !.second = TRUE]
      BY <3>3 DEF ShipInv, ShipTypeOK, Ops
    <3>4. CASE Check
      BY <3>1, <3>4 DEF Check, ShipInv, ShipTypeOK, Ops
    <3>5. QED BY <1>6, <3>1, <3>2, <3>3, <3>4 DEF Clean, Verdict, Guard
  <2>3. QED BY <1>3, <1>4, <2>1, <2>2
<1>7. CASE Commit
  <2>1. dir # Nil /\ op' = op /\ dir.edits \in SUBSET Item
    BY <1>7 DEF Commit, Dirty, ShipInv, ShipTypeOK, Checkouts
  <2>2. dir' = [dir EXCEPT !.edits = @ \ dir.edits]
    BY <1>7, <2>1 DEF Commit, ShipInv, ShipTypeOK, Checkouts
  <2>3. Work(tips.local)' = Work(tips.local) \cup dir.edits
    BY <1>7, <2>1, <2>2, CommitMoves DEF Commit
  <2>4. Work(tips.local)' = Work(tips'.local)
    BY DEF Work
  <2>5. QED BY <1>3, <1>4, <1>7, <2>1, <2>3, <2>4 DEF Commit
<1>8. CASE Resolve
  <2>1. op' = op /\ dir # Nil /\ dir.midway
    BY <1>8 DEF Resolve
  <2>2. QED BY <1>3, <2>1 DEF ShipInv, DirSafe, Untouched
<1>9. CASE \/ (\E f \in Files : Edit(f)) \/ Colleague \/ TrunkMoves \/ Review
           \/ UNCHANGED shipVars
  <2>1. op' = op /\ tips'.local = tips.local
    <3>1. CASE Colleague
      BY <3>1, ColleagueStep DEF Colleague
    <3>2. CASE (\E f \in Files : Edit(f)) \/ TrunkMoves \/ Review \/ UNCHANGED shipVars
      BY <3>2 DEF Edit, TrunkMoves, Review, Land, shipVars
    <3>3. QED BY <1>9, <3>1, <3>2
  <2>2. QED BY <1>3, <1>4, <2>1
<1>10. CASE \E c \in ShipCommands : Begin(c)
  <2>1. PICK c \in ShipCommands : Begin(c)
    BY <1>10
  <2>2. op'.at = FirstStep(c)
    BY <2>1 DEF Begin, Idle
  <2>3. QED BY <1>3, <2>2 DEF FirstStep, Testing
<1>11. CASE Fetch \/ FlushFirst \/ Push \/ PullRequest
  <2>1. \/ End
        \/ \E p \in {"rebase", "workspace", "pull request"} : Goto(p)
    BY <1>11 DEF Fetch, FlushFirst, Push, PullRequest
  <2>2. op'.at \in {"idle", "rebase", "workspace", "pull request"}
    BY <2>1, Moving DEF ShipInv, Steps
  <2>3. QED BY <1>3, <2>2 DEF Testing
<1>12. CASE Merge
  <2>1. \/ End
        \/ \E p \in {"wipe", "restack", "remove", "mark", "flush"} : Goto(p)
        \/ op'.at \in {"merge guards", "stage"}
    <3>1. CASE Restack
      BY <3>1 DEF Restack, ShipInv, ShipTypeOK, Ops
    <3>2. CASE MergeGuards
      BY <3>2 DEF MergeGuards, ShipInv, ShipTypeOK, Ops
    <3>3. CASE PreCheck \/ Wipe \/ Squash \/ CleanUp \/ Mark \/ Flush
      BY <3>3 DEF PreCheck, Wipe, Squash, CleanUp, Mark, Flush
    <3>4. QED BY <1>12, <3>1, <3>2, <3>3 DEF Merge
  <2>2. op'.at \in {"idle", "wipe", "restack", "remove", "mark", "flush",
                    "merge guards", "stage"}
    BY <2>1, Moving DEF ShipInv, Steps
  <2>3. QED BY <1>3, <2>2 DEF Testing
<1>13. CASE Split
  <2>1. End \/ op'.at = "splitting"
    <3>1. CASE SplitReset
      BY <3>1 DEF SplitReset, ShipInv, ShipTypeOK, Ops
    <3>2. CASE SplitGroup
      BY <3>2 DEF SplitGroup, ShipInv, ShipTypeOK, Ops
    <3>3. QED BY <1>13, <3>1, <3>2 DEF Split, SplitEnd
  <2>2. op'.at \in {"idle", "splitting"}
    BY <2>1, Moving DEF ShipInv, Steps
  <2>3. QED BY <1>3, <2>2 DEF Testing
<1>14. CASE Close
  <2>1. End \/ Goto("delete")
    BY <1>14 DEF Close, Record, Delete
  <2>2. op'.at \in {"idle", "delete"}
    BY <2>1, Moving DEF ShipInv, Steps
  <2>3. QED BY <1>3, <2>2 DEF Testing
<1>15. QED BY <1>5, <1>6, <1>7, <1>8, <1>9, <1>10, <1>11, <1>12, <1>13, <1>14
           DEF ShipNext, Gate, Open, Surroundings

\* What is fast-forwarded keeps its work.
LEMMA ForwardKeeps ==
  ASSUME NilIsApart, NEW a \in Tips, NEW b \in Tips, FastForward(a, b)
  PROVE  Work(a) \subseteq Work(b)
<1>1. a # Nil /\ a.log \in Logs /\ b.log \in Logs
  BY DEF NilIsApart, Tips
<1>2. Len(a.log) <= Len(b.log)
      /\ SubSeq(a.log, 1, Len(a.log)) = SubSeq(b.log, 1, Len(a.log))
  BY <1>1 DEF FastForward, IsPrefix
<1>3. \A i \in 1..Len(a.log) : i \in 1..Len(b.log) /\ a.log[i] = b.log[i]
  <2>1. TAKE i \in 1..Len(a.log)
  <2>2. a.log[i] = SubSeq(a.log, 1, Len(a.log))[i]
    BY <1>1 DEF Logs
  <2>3. b.log[i] = SubSeq(b.log, 1, Len(a.log))[i]
    BY <1>1, <1>2 DEF Logs
  <2>4. i \in 1..Len(b.log)
    BY <1>1, <1>2 DEF Logs
  <2>5. QED BY <1>2, <2>2, <2>3, <2>4
<1>4. ToSet(a.log) \subseteq ToSet(b.log)
  BY <1>1, <1>3 DEF ToSet, Logs
<1>5. QED BY <1>4 DEF Work

\* A push takes off the remote branch, besides what has landed, only what its
\* gate had fetched and the local branch did not hold when the gate rebased it,
\* and nothing without a rebase; a branch is deleted once its work is on the
\* train or its task is recorded merged; for any number of commands, files and
\* conflicts, whoever works on the branch meanwhile (_push_branch, integrate,
\* cmd_ship).
THEOREM BranchesStay ==
  ASSUME NilIsApart PROVE ShipSpec => BranchesKeepWork
<1> DEFINE taken == Work(tips.origin) \ (Work(tips'.origin) \cup Landed)
           Keeps == IF tips'.origin = Nil THEN board' = "merged"
                    ELSE taken # {} =>
                            /\ op.rebased
                            /\ taken \subseteq Work(tips.tracking) \ Work(op.pre)
<1>1. ASSUME ShipInv, GateKeeps, [ShipNext]_shipVars, tips.origin # Nil
      PROVE  Keeps
  <2>1. tips.origin \in Tips
    BY <1>1, Fields DEF ShipInv
  <2>2. CASE tips'.origin = tips.origin
    BY <1>1, <2>2
  <2>3. CASE Push /\ tips'.origin # tips.origin
    <3>1. tips.local # Nil /\ Accepted /\ op.at = "push"
          /\ tips' = [tips EXCEPT !.origin = tips.local, !.tracking = tips.local]
      BY <2>3 DEF Push, At
    <3>2. tips'.origin = tips.local /\ tips.local \in Tips
      BY <1>1, <3>1, Fields DEF ShipInv, ShipTypeOK, Refs
    <3>3. CASE ~op.rebased
      <4>1. FastForward(tips.origin, tips.local)
        BY <3>1, <3>3 DEF Accepted
      <4>2. Work(tips.origin) \subseteq Work(tips.local)
        BY <2>1, <3>2, <4>1, ForwardKeeps
      <4>3. taken = {}
        BY <3>2, <4>2
      <4>4. QED BY <3>1, <3>2, <4>3
    <3>4. CASE op.rebased
      <4>1. tips.origin = tips.tracking
        BY <3>1, <3>4 DEF Accepted
      <4>2. Work(op.pre) \subseteq Work(tips.local) \cup Landed
        BY <1>1, <3>1 DEF GateKeeps, Testing
      <4>3. taken \subseteq Work(tips.tracking) \ Work(op.pre)
        BY <3>2, <4>1, <4>2
      <4>4. QED BY <3>1, <3>2, <3>4, <4>3
    <3>5. QED BY <3>3, <3>4
  <2>4. CASE Colleague
    <3>1. tips'.origin # Nil /\ FastForward(tips.origin, tips'.origin) /\ ShipInv'
      BY <1>1, <2>4, ColleagueStep
    <3>2. tips'.origin \in Tips
      BY <3>1 DEF ShipInv, ShipTypeOK, Refs
    <3>3. Work(tips.origin) \subseteq Work(tips'.origin)
      BY <2>1, <3>1, <3>2, ForwardKeeps
    <3>4. QED BY <3>1, <3>3
  <2>5. CASE CleanUp
    <3>1. tips'.origin = tips.origin
      BY <1>1, <2>5 DEF CleanUp, ShipInv, ShipTypeOK, Refs
    <3>2. QED BY <2>2, <3>1
  <2>6. CASE Delete /\ tips'.origin # tips.origin
    <3>1. board' = "merged"
      BY <1>1, <2>6 DEF Delete, At, world, ShipInv, HandSafe
    <3>2. tips'.origin = Nil
      BY <2>6 DEF Delete
    <3>3. QED BY <3>1, <3>2
  <2>7. QED BY <1>1, <2>2, <2>3, <2>4, <2>5, <2>6, BranchMoves DEF Rewrites
<1>2. ASSUME ShipInv, [ShipNext]_shipVars, tips.local # Nil, tips'.local = Nil
      PROVE  board' = "merged" \/ Work(tips.local) \subseteq staged' \cup late
  <2>1. CASE CleanUp
    BY <1>2, <2>1 DEF CleanUp, At, world, ShipInv, HandSafe
  <2>2. CASE Delete
    BY <1>2, <2>2 DEF Delete, At, world, ShipInv, HandSafe
  <2>3. CASE Push
    BY <1>2, <2>3 DEF Push, ShipInv, ShipTypeOK, Refs
  <2>4. CASE Colleague
    BY <1>2, <2>4, ColleagueStep
  <2>5. QED BY <1>2, <2>1, <2>2, <2>3, <2>4, BranchMoves DEF Rewrites
<1>3. ShipInv /\ GateKeeps /\ [ShipNext]_shipVars =>
        [/\ tips.origin # Nil => Keeps
         /\ tips.local # Nil /\ tips'.local = Nil =>
              board' = "merged" \/ Work(tips.local) \subseteq staged' \cup late]_shipVars
  BY <1>1, <1>2
<1>4. ShipInit => GateKeeps
  BY DEF ShipInit, GateKeeps, Idle, Testing
<1>5. ShipInv /\ GateKeeps /\ [ShipNext]_shipVars => ShipInv' /\ GateKeeps'
  BY ShipStep, GateKeepsStep
<1>6. QED BY <1>3, <1>4, <1>5, ShipInitial, PTL DEF ShipSpec, BranchesKeepWork
=============================================================================
