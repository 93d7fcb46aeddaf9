------------------------------ MODULE BatchProofs ------------------------------
(***************************************************************************)
(* Proofs about the batch loop (BatchRun) and the tally of failures that   *)
(* outlives it (Breaker): a run starts no task past its breakers and none  *)
(* too often, it leaves the board settled and the summary true, for any    *)
(* board, thresholds and number of faults; and what the tally counts was   *)
(* earned.                                                                 *)
(***************************************************************************)
EXTENDS BatchRun, Breaker, FiniteSetTheorems, TLAPS

ClassNames == {"canceled", "timeout", "throttled", "environment", "design", "flaky"}
Tallies == [AllSigs -> SUBSET Tasks]
Entry == [sig : AllSigs, class : ClassNames, countable : BOOLEAN]

\* Every pair of a task and a signature that a tally holds is in a set; so is
\* every one that an entry of the task's record counts for.
Earned(pairs, counts) == \A s \in AllSigs : \A t \in counts[s] : <<t, s>> \in pairs
EarnedBy(pairs, t, entries) ==
    \A i \in DOMAIN entries : entries[i].countable => <<t, entries[i].sig>> \in pairs

TallyInv ==
    /\ record \in [Tasks -> Seq(Entry)]
    /\ tally \in Tallies /\ mine \in Tallies
    /\ hand.read # Nil => hand.read \in Tallies /\ Earned(ever, hand.read)
    /\ Earned(ever, tally) /\ Earned(ever, mine)
    /\ \A t \in Tasks : EarnedBy(ever, t, record[t])

-----------------------------------------------------------------------------

LEMMA TallyInit == BreakerInit => TallyInv
  BY DEF BreakerInit, TallyInv, Tallies, Empty, NoHand, Earned, EarnedBy

\* What is appended to the record of a task that has failed by its own fault
\* with the signature is earned; otherwise it does not count.
LEMMA AppendedEarned ==
  ASSUME NEW pairs, NEW t, NEW entries \in Seq(Entry), EarnedBy(pairs, t, entries),
         NEW sig \in AllSigs, NEW class \in ClassNames,
         Countable(class) => <<t, sig>> \in pairs
  PROVE  /\ Appended(entries, sig, class) \in Seq(Entry)
         /\ EarnedBy(pairs, t, Appended(entries, sig, class))
<1>1. CASE class = "canceled"
  BY <1>1 DEF Appended
<1>2. CASE class # "canceled"
  <2> DEFINE e == [sig |-> sig, class |-> class, countable |-> Countable(class)]
  <2>1. e \in Entry
    BY DEF Entry, Countable
  <2>2. Appended(entries, sig, class) = Append(entries, e)
    BY <1>2 DEF Appended
  <2>3. e.countable = Countable(class) /\ e.sig = sig
    OBVIOUS
  <2> HIDE DEF e
  <2> QED
    BY <2>1, <2>2, <2>3 DEF EarnedBy
<1> QED
  BY <1>1, <1>2

LEMMA ClassesNamed == ClassesShown \subseteq ClassNames
  BY DEF ClassesShown, Classify, ClassNames

LEMMA EarnedMore ==
  ASSUME NEW pairs, NEW more, pairs \subseteq more
  PROVE  /\ \A counts : Earned(pairs, counts) => Earned(more, counts)
         /\ \A t, entries : EarnedBy(pairs, t, entries) => EarnedBy(more, t, entries)
  BY DEF Earned, EarnedBy

LEMMA TallyStep == TallyInv /\ [BreakerNext]_breakerVars => TallyInv'
<1> SUFFICES ASSUME TallyInv, [BreakerNext]_breakerVars PROVE TallyInv'
  OBVIOUS
<1> USE DEF TallyInv
<1>1. CASE Preflight \/ Start \/ End
  BY <1>1 DEF Preflight, Start, End, Loaded
<1>2. ASSUME NEW t \in Tasks, Finalize(t) PROVE TallyInv'
  <2> DEFINE entries == Finalized(t)
             counts == WithTask(mine, t, CountableSigs(entries))
  <2>1. entries \in Seq(Entry) /\ EarnedBy(ever', t, entries)
    <3>1. CASE entries = record[t]
      BY <1>2, <3>1, EarnedMore DEF Finalize
    <3>2. CASE entries # record[t]
      <4>1. entries = Appended(record[t], Killed, "timeout")
        BY <3>2 DEF Finalized
      <4>2. <<t, Killed>> \in ever' /\ ever \subseteq ever'
        BY <1>2, <3>2 DEF Finalize
      <4>3. EarnedBy(ever', t, record[t])
        BY <4>2, EarnedMore
      <4> QED
        BY <4>1, <4>2, <4>3, AppendedEarned DEF AllSigs, ClassNames
    <3> QED
      BY <3>1, <3>2
  <2>2. ever \subseteq ever' /\ record' = [record EXCEPT ![t] = entries] /\ hand' = hand
    BY <1>2 DEF Finalize
  <2>3. counts \in Tallies /\ Earned(ever', counts)
    BY <2>1, <2>2 DEF WithTask, CountableSigs, Tallies, Earned, EarnedBy
  <2>4. \/ mine' = mine /\ tally' = tally
        \/ mine' = counts /\ tally' = counts
    BY <1>2 DEF Finalize
  <2> HIDE DEF entries, counts
  <2> QED
    BY <2>1, <2>2, <2>3, <2>4, EarnedMore
<1>3. ASSUME NEW t \in Tasks, NEW sig \in Sigs, NEW class \in ClassesShown,
             Fail(t, sig, class)
      PROVE  TallyInv'
  <2>1. /\ ever \subseteq ever' /\ tally' = tally /\ mine' = mine /\ hand' = hand
        /\ record' = [record EXCEPT ![t] = Appended(record[t], sig, class)]
        /\ Countable(class) => <<t, sig>> \in ever'
    BY <1>3 DEF Fail, Countable
  <2>2. EarnedBy(ever', t, record[t])
    BY <2>1, EarnedMore
  <2>3. /\ Appended(record[t], sig, class) \in Seq(Entry)
        /\ EarnedBy(ever', t, Appended(record[t], sig, class))
    BY <2>1, <2>2, AppendedEarned, ClassesNamed DEF AllSigs
  <2> QED
    BY <2>1, <2>3, EarnedMore
<1>4. ASSUME NEW t \in Tasks, NEW how, ExitSilently(t, how) PROVE TallyInv'
  BY <1>4 DEF ExitSilently
<1>5. ASSUME NEW t \in Tasks, ResetTask(t) PROVE TallyInv'
  BY <1>5 DEF ResetTask
<1>6. CASE BreakerReset
  BY <1>6 DEF BreakerReset, Empty, Tallies, Earned
<1>7. CASE LoadTally
  BY <1>7 DEF LoadTally
<1>8. CASE SaveTally
  <2>1. WithoutTask(hand.read, hand.task) \in Tallies
        /\ Earned(ever, WithoutTask(hand.read, hand.task))
    BY <1>8 DEF SaveTally, WithoutTask, Tallies, Earned
  <2>2. /\ tally' \in {tally, WithoutTask(hand.read, hand.task)}
        /\ mine' = mine /\ ever' = ever /\ hand'.read = Nil
        /\ record' = [record EXCEPT ![hand.task] = <<>>]
    BY <1>8 DEF SaveTally, NoHand
  <2>3. <<>> \in Seq(Entry) /\ \A t : EarnedBy(ever, t, <<>>)
    BY DEF EarnedBy
  <2> QED
    BY <2>1, <2>2, <2>3
<1>9. CASE UNCHANGED breakerVars
  BY <1>9 DEF breakerVars
<1> QED
  BY <1>1, <1>2, <1>3, <1>4, <1>5, <1>6, <1>7, <1>8, <1>9 DEF BreakerNext

\* A task is counted for a signature only if it once failed with it by its own
\* fault, through whatever record, memory or stale read
\* (append_failure_if_countable, the tally update of run_batch).
THEOREM TallyStaysEarned == BreakerSpec => []TallyIsEarned
<1>1. TallyInv => TallyIsEarned
  BY DEF TallyInv, TallyIsEarned, Earned
<1> QED
  BY TallyInit, TallyStep, <1>1, PTL DEF BreakerSpec
-----------------------------------------------------------------------------
(* What the board operations do.                                           *)

Faults == lost + claims
BoardOK ==
    /\ here \in [Task -> Record] /\ there \in [Task -> Record]
    /\ lost \in Nat /\ claims \in Nat /\ Faults <= MaxFaults

LEMMA RecordFields ==
  ASSUME NEW r \in Record
  PROVE  /\ r.state \in States /\ r.train \in BOOLEAN /\ r.class \in Classes
         /\ r.count \in [Signature -> Nat]
  BY DEF Record

LEMMA SetState ==
  ASSUME NEW r \in Record, NEW s \in States
  PROVE  LET q == [r EXCEPT !.state = s]
         IN  /\ q \in Record /\ q.state = s /\ q.count = r.count
             /\ q.train = r.train /\ q.class = r.class
<1>1. [r EXCEPT !.state = s] \in Record
  BY DEF Record
<1>2. DOMAIN r = {"state", "train", "class", "count"}
  BY DEF Record
<1> QED
  BY <1>1, <1>2

\* A transition changes the state of its task, and opens the blocked tasks
\* that waited for nothing else when it settles one.
LEMMA MoveShape ==
  ASSUME NEW records \in [Task -> Record], NEW t \in Task,
         NEW s \in States \ {"blocked"}
  PROVE  /\ Move(records, t, s) \in [Task -> Record]
         /\ Move(records, t, s)[t].state = s
         /\ \A u \in Task \ {t} :
               \/ Move(records, t, s)[u] = records[u]
               \/ /\ s = "merged" /\ records[u].state = "blocked"
                  /\ Move(records, t, s)[u] = [records[u] EXCEPT !.state = "ready"]
         /\ \A u \in Task \ {t} :
               records[u].state # "blocked" => Move(records, t, s)[u] = records[u]
<1> DEFINE moved == [records EXCEPT ![t].state = s]
           released(u) == /\ s = "merged" /\ t \in Blockers[u]
                          /\ moved[u].state = "blocked"
                          /\ \A b \in Blockers[u] : Settled(moved, b)
           after == [u \in Task |-> IF released(u) THEN [moved[u] EXCEPT !.state = "ready"]
                                                   ELSE moved[u]]
<1>1. Move(records, t, s) = after
  BY DEF Move
<1>2. /\ moved \in [Task -> Record] /\ moved[t].state = s
      /\ \A u \in Task \ {t} : moved[u] = records[u]
  <2>1. [records[t] EXCEPT !.state = s] \in Record
        /\ [records[t] EXCEPT !.state = s].state = s
    BY SetState
  <2> QED
    BY <2>1
<1> HIDE DEF moved
<1>3. \A u \in Task : [moved[u] EXCEPT !.state = "ready"] \in Record
  BY <1>2, SetState DEF States
<1>4. after \in [Task -> Record]
  BY <1>2, <1>3
<1>5. after[t] = moved[t]
  BY <1>2
<1>6. ASSUME NEW u \in Task \ {t}
      PROVE  \/ after[u] = records[u]
             \/ /\ s = "merged" /\ records[u].state = "blocked"
                /\ after[u] = [records[u] EXCEPT !.state = "ready"]
  BY <1>2
<1> HIDE DEF after
<1> QED
  BY <1>1, <1>2, <1>4, <1>5, <1>6

\* Only settlement opens others.
LEMMA MovePlain ==
  ASSUME NEW records \in [Task -> Record], NEW t \in Task,
         NEW s \in States \ {"merged", "blocked"}
  PROVE  /\ Move(records, t, s) \in [Task -> Record]
         /\ Move(records, t, s)[t].state = s
         /\ Move(records, t, s)[t].count = records[t].count
         /\ \A u \in Task \ {t} : Move(records, t, s)[u] = records[u]
<1> DEFINE moved == [records EXCEPT ![t].state = s]
<1>1. Move(records, t, s) = [u \in Task |-> moved[u]]
  BY DEF Move
<1>2. /\ Move(records, t, s)[t] = [records[t] EXCEPT !.state = s]
      /\ \A u \in Task \ {t} : Move(records, t, s)[u] = records[u]
  BY <1>1
<1>3. Move(records, t, s) \in [Task -> Record] /\ Move(records, t, s)[t].state = s
  BY MoveShape
<1>4. Move(records, t, s)[t].count = records[t].count
  BY <1>2, SetState
<1> QED
  BY <1>2, <1>3, <1>4

LEMMA FetchedShape ==
  ASSUME BoardOK, NEW link
  PROVE  /\ Fetched(link) \in [Task -> Record]
         /\ \A u \in Task : Fetched(link)[u] \in {here[u], there[u]}
  BY DEF BoardOK, Fetched

\* The same, from what a command has fetched.
LEMMA FetchedMove ==
  ASSUME BoardOK, NEW link, NEW t \in Task, NEW s \in States \ {"merged", "blocked"}
  PROVE  /\ Move(Fetched(link), t, s) \in [Task -> Record]
         /\ Move(Fetched(link), t, s)[t].state = s
         /\ Move(Fetched(link), t, s)[t].count = Fetched(link)[t].count
         /\ \A u \in Task \ {t} : Move(Fetched(link), t, s)[u] = Fetched(link)[u]
<1>1. PICK f \in [Task -> Record] : f = Fetched(link)
  BY FetchedShape
<1>2. /\ Move(f, t, s) \in [Task -> Record]
      /\ Move(f, t, s)[t].state = s
      /\ Move(f, t, s)[t].count = f[t].count
      /\ \A u \in Task \ {t} : Move(f, t, s)[u] = f[u]
  BY MovePlain
<1> QED
  BY <1>1, <1>2

LEMMA FetchedTo ==
  ASSUME BoardOK, NEW link, NEW t \in Task, NEW s \in States \ {"merged", "blocked"}
  PROVE  Move(Fetched(link), t, s)[t].state = s
  BY FetchedMove

LEMMA RecordedShape ==
  ASSUME NEW records \in [Task -> Record], NEW t \in Task, NEW class \in Classes,
         NEW s \in Signature
  PROVE  /\ Recorded(records, t, class, s) \in [Task -> Record]
         /\ \A u \in Task : Recorded(records, t, class, s)[u].state = records[u].state
         /\ \A u \in Task \ {t} : Recorded(records, t, class, s)[u] = records[u]
<1> DEFINE r == records[t]
           n == [r.count EXCEPT ![s] = IF class = "throttled" THEN @ ELSE @ + 1]
           q == [[r EXCEPT !.class = class] EXCEPT !.count = n]
<1>1. n \in [Signature -> Nat]
  BY RecordFields
<1>2. q \in Record /\ q.state = r.state
  BY <1>1 DEF Record
<1>3. Recorded(records, t, class, s) = [records EXCEPT ![t] = q]
  BY DEF Recorded, Record
<1> HIDE DEF q, n
<1> QED
  BY <1>2, <1>3

-----------------------------------------------------------------------------
(* A task can be started from the board while one of its copies has it     *)
(* blocked or ready.  Only a requeue makes such a copy of another one.     *)

Openable == {"blocked", "ready"}
Startable(t) == here[t].state \in Openable \/ there[t].state \in Openable

\* A step of the board that may reopen the tasks of a set, and no other.
BoardStep(reopened) ==
    /\ BoardOK' /\ lost' >= lost /\ claims' >= claims
    /\ \A u \in Task : Startable(u)' => Startable(u) \/ u \in reopened

LEMMA SumGrows ==
  ASSUME NEW i \in Nat, NEW j \in Nat, NEW k \in Nat, NEW l \in Nat, k >= i, l >= j
  PROVE  i + j \in Nat /\ k + l \in Nat /\ k + l >= i + j
  OBVIOUS

LEMMA FaultsGrow ==
  ASSUME BoardOK, NEW reopened, BoardStep(reopened)
  PROVE  Faults \in Nat /\ Faults' \in Nat /\ Faults' >= Faults
<1>1. lost \in Nat /\ claims \in Nat
  BY DEF BoardOK
<1>2. lost' \in Nat /\ claims' \in Nat
  BY DEF BoardStep, BoardOK
<1>3. lost' >= lost /\ claims' >= claims
  BY DEF BoardStep
<1> QED
  BY <1>1, <1>2, <1>3, SumGrows DEF Faults

LEMMA WriteStep ==
  ASSUME BoardOK, MaxFaults \in Nat, claims' = claims, NEW link \in Link,
         NEW records \in [Task -> Record], Write(link, records), NEW reopened,
         \A u \in Task : records[u].state \in Openable => Startable(u) \/ u \in reopened
  PROVE  BoardStep(reopened)
<1>1. CASE link = "up"
  BY <1>1 DEF Write, BoardStep, BoardOK, Faults, Startable
<1>2. CASE link # "up"
  <2>1. lost + claims < MaxFaults
    BY <1>2 DEF Link
  <2>2. here' = records /\ there' = there /\ lost' = lost + 1
    BY <1>2 DEF Write
  <2>3. BoardOK' /\ lost' >= lost /\ claims' >= claims
    BY <2>1, <2>2 DEF BoardOK, Faults
  <2> QED
    BY <2>2, <2>3 DEF BoardStep, Startable
<1> QED
  BY <1>1, <1>2

LEMMA FetchedStartable ==
  ASSUME BoardOK, NEW link, NEW u \in Task, Fetched(link)[u].state \in Openable
  PROVE  Startable(u)
  BY FetchedShape DEF Startable

LEMMA MoveStep ==
  ASSUME BoardOK, MaxFaults \in Nat, claims' = claims, NEW link \in Link,
         NEW t \in Task, NEW s \in States \ {"blocked"}, NEW reopened,
         s = "ready" => t \in reopened,
         Write(link, Move(Fetched(link), t, s))
  PROVE  BoardStep(reopened)
<1> DEFINE f == Fetched(link)
           m == Move(f, t, s)
<1>1. f \in [Task -> Record]
  BY FetchedShape
<1> HIDE DEF f
<1>2. m \in [Task -> Record] /\ m[t].state = s
  BY <1>1, MoveShape
<1>5. ASSUME NEW u \in Task \ {t}, f[u].state # "blocked" PROVE m[u] = f[u]
  BY <1>1, <1>5, MoveShape
<1>3. ASSUME NEW u \in Task, m[u].state \in Openable
      PROVE  Startable(u) \/ u \in reopened
  BY <1>2, <1>3, <1>5, FetchedStartable DEF Openable, f
<1>4. Write(link, m)
  BY DEF f
<1> HIDE DEF m
<1> QED
  BY <1>2, <1>3, <1>4, WriteStep

LEMMA TransitionStep ==
  ASSUME BoardOK, MaxFaults \in Nat, claims' = claims, NEW link \in Link,
         NEW t \in Task, NEW from, NEW s \in States \ {"blocked"}, NEW reopened,
         s = "ready" => t \in reopened,
         Transition(link, t, from, s)
  PROVE  BoardStep(reopened)
  BY MoveStep DEF Transition

LEMMA RefusedStep ==
  ASSUME BoardOK, claims' = claims, NEW link, NEW t, NEW from, NEW s,
         Refused(link, t, from, s), NEW reopened
  PROVE  BoardStep(reopened)
<1>1. here' = Fetched(link) /\ there' = there /\ lost' = lost
  BY DEF Refused, Refuse
<1>2. BoardOK'
  BY <1>1, FetchedShape DEF BoardOK, Faults
<1>3. \A u \in Task : Startable(u)' => Startable(u)
  BY <1>1, FetchedShape DEF Startable
<1> QED
  BY <1>1, <1>2, <1>3 DEF BoardStep, BoardOK

LEMMA IdleStep ==
  ASSUME BoardOK, claims' = claims, UNCHANGED board, NEW reopened
  PROVE  BoardStep(reopened)
<1>1. here' = here /\ there' = there /\ lost' = lost
  BY DEF board
<1> QED
  BY <1>1 DEF BoardStep, BoardOK, Faults, Startable

LEMMA RecordStep ==
  ASSUME BoardOK, MaxFaults \in Nat, claims' = claims, NEW link \in Link,
         NEW t \in Task, NEW class \in Classes, NEW s \in Signature,
         Write(link, Recorded(here, t, class, s)), NEW reopened
  PROVE  BoardStep(reopened)
<1>1. here \in [Task -> Record]
  BY DEF BoardOK
<1>2. /\ Recorded(here, t, class, s) \in [Task -> Record]
      /\ \A u \in Task : Recorded(here, t, class, s)[u].state = here[u].state
  BY <1>1, RecordedShape
<1> QED
  BY <1>2, WriteStep DEF Startable

-----------------------------------------------------------------------------
(* How often a task is started.                                            *)

At == [pc : Points, task : Task \cup {None}, from : States,
       then : Continuations, exit : Exits, ids : SUBSET Task]
Outcomes == {"none", "succeeded", "failed", "requeued"}
VarsOK ==
    /\ child \in [Task -> {"none", "working"} \cup Exits]
    /\ policy \in [mode : Modes, onFailure : Policies]
    /\ stop \in BOOLEAN /\ shutdown \in BOOLEAN /\ cut \in BOOLEAN
    /\ queueLock \in BOOLEAN
    /\ systemic \in [Signature -> SUBSET Task]
    /\ attempts \in [Task -> 0..AttemptCap]
    /\ report \in [Task -> Outcomes]
    /\ starts \in [Task -> Nat]
LoopOK == at \in At /\ VarsOK

\* Where the run works on a task; where it has counted an attempt, or is about
\* to start one, that the board does not show yet.
TaskPoints == {"open", "settle", "unstaged", "failing", "locked", "route",
               "break", "capped", "quarantine", "requeue", "tally"}
Paid == {"open", "capped", "quarantine", "requeue"}
Leaving == at.pc \in {"ending", "over"}

PointInv ==
    /\ at.pc \in TaskPoints => at.task \in Task /\ child[at.task] = "none"
    /\ at.pc \notin TaskPoints => at.task = None
    /\ at.pc = "open" => ~stop /\ here[at.task].state = "in_progress"
    /\ at.pc = "seal" => at.then \in {"pick", "idle"}
    /\ SystemicTripped(systemic) => stop

\* Until the run stops, a task has been started once for each attempt that was
\* counted and each fault, and once more only if it cannot be started again.
Allowance(t) ==
    attempts[t] + Faults
      + (IF Startable(t) \/ (at.task = t /\ at.pc \in Paid) THEN 0 ELSE 1)
Bounded(t) ==
    /\ starts[t] <= AttemptCap + Faults
    /\ attempts[t] = AttemptCap =>
         /\ child[t] = "none"
         /\ at.task = t => at.pc \in {"capped", "tally"}
         /\ stop \/ (at.task = t /\ at.pc = "capped")
    /\ ~stop /\ ~Leaving => starts[t] <= Allowance(t)
AttemptInv == \A t \in Task : Bounded(t)

LoopInv == BoardOK /\ LoopOK /\ PointInv /\ AttemptInv

LEMMA LoopInit == Init => LoopInv
<1> SUFFICES ASSUME Init PROVE LoopInv
  OBVIOUS
<1> USE BatchAssumption
<1>1. BoardOK
  BY DEF Init, BoardOK, Faults, Record, States, Classes
<1>2. LoopOK
  <2>1. at \in At
    BY DEF Init, At, Outset, Points, States, Continuations, Exits
  <2>2. attempts \in [Task -> 0..AttemptCap] /\ starts \in [Task -> Nat]
    BY DEF Init
  <2> QED
    BY <2>1, <2>2 DEF Init, LoopOK, VarsOK, Outcomes
<1>3. ~SystemicTripped(systemic)
  <2>1. Cardinality({}) = 0
    BY FS_EmptySet
  <2>2. ASSUME NEW s \in Signature PROVE Cardinality(systemic[s]) = 0
    BY <2>1 DEF Init
  <2> QED
    BY <2>2 DEF SystemicTripped
<1>4. PointInv
  BY <1>3 DEF Init, PointInv, Outset, TaskPoints
<1>5. AttemptInv
  <2> SUFFICES ASSUME NEW t \in Task PROVE Bounded(t)
    BY DEF AttemptInv
  <2>1. starts[t] = 0 /\ attempts[t] = 0 /\ Faults = 0
    BY DEF Init, Faults
  <2>2. Allowance(t) \in {0, 1}
    BY <2>1 DEF Allowance
  <2> QED
    BY <2>1, <2>2 DEF Bounded
<1> QED
  BY <1>1, <1>2, <1>4, <1>5 DEF LoopInv

LEMMA GotoShape ==
  ASSUME at \in At, NEW pc \in Points, Goto(pc)
  PROVE  /\ at' \in At /\ at'.pc = pc
         /\ pc \in {"pass", "pick", "poll", "ending", "over"} => at'.task = None
         /\ pc \notin {"pass", "pick", "poll", "ending", "over"} =>
               /\ at'.task = at.task /\ at'.from = at.from
               /\ at'.exit = at.exit /\ at'.then = at.then
<1>1. CASE pc \in {"pass", "pick", "poll", "ending", "over"}
  <2>1. at' = [Outset EXCEPT !.pc = pc]
    BY <1>1 DEF Goto
  <2> QED
    BY <1>1, <2>1 DEF Outset, At, States, Continuations, Exits
<1>2. CASE pc \notin {"pass", "pick", "poll", "ending", "over"}
  <2>1. at' = [at EXCEPT !.pc = pc]
    BY <1>2 DEF Goto
  <2>2. at' \in At
    BY <2>1 DEF At
  <2>3. at'.pc = pc /\ at'.task = at.task /\ at'.from = at.from
        /\ at'.exit = at.exit /\ at'.then = at.then
    BY <2>1 DEF At
  <2> QED
    BY <1>2, <2>2, <2>3
<1> QED
  BY <1>1, <1>2

LEMMA FailingShape ==
  ASSUME at \in At, NEW then \in Continuations, Failing(then)
  PROVE  /\ at' \in At /\ at'.pc = "failing" /\ at'.then = then
         /\ at'.task = at.task /\ at'.from = at.from /\ at'.exit = at.exit
<1>1. at' = [at EXCEPT !.pc = "failing", !.then = then]
  BY DEF Failing
<1>2. at' \in At
  BY <1>1 DEF At, Points
<1> QED
  BY <1>1, <1>2 DEF At

\* A step that starts nothing and counts no attempt.
LEMMA NoStart ==
  ASSUME LoopInv, attempts' = attempts, starts' = starts, stop => stop',
         Leaving => Leaving', NEW reopened, BoardStep(reopened),
         \A u \in reopened : Leaving' \/ (at.task = u /\ at.pc \in Paid),
         \A u \in Task : at'.task = u /\ at'.pc \in Paid =>
                           Startable(u) \/ (at.task = u /\ at.pc \in Paid),
         \A u \in Task : child[u] = "none" => child'[u] = "none",
         \A u \in Task : at'.task = u =>
            \/ attempts[u] # AttemptCap
            \/ at.task = u /\ (at'.pc = at.pc \/ at'.pc = "tally"),
         at.pc = "capped" => stop' \/ (at'.task = at.task /\ at'.pc = "capped")
  PROVE  AttemptInv'
<1> SUFFICES ASSUME NEW t \in Task PROVE Bounded(t)'
  BY DEF AttemptInv
<1>1. Bounded(t)
  BY DEF LoopInv, AttemptInv
<1>2. /\ attempts[t] \in Nat /\ starts[t] \in Nat /\ AttemptCap \in Nat
      /\ Faults \in Nat /\ Faults' \in Nat /\ Faults' >= Faults
  <2>1. attempts \in [Task -> 0..AttemptCap] /\ starts \in [Task -> Nat]
    BY DEF LoopInv, LoopOK, VarsOK
  <2>2. AttemptCap \in Nat
    BY BatchAssumption
  <2>5. attempts[t] \in Nat /\ starts[t] \in Nat
    BY <2>1, <2>2
  <2>6. Faults \in Nat /\ Faults' \in Nat /\ Faults' >= Faults
    BY FaultsGrow DEF LoopInv
  <2> QED
    BY <2>2, <2>5, <2>6
<1>3. starts[t] <= AttemptCap + Faults'
  BY <1>1, <1>2 DEF Bounded
<1>4. attempts[t] = AttemptCap =>
         /\ child'[t] = "none"
         /\ at'.task = t => at'.pc \in {"capped", "tally"}
         /\ stop' \/ (at'.task = t /\ at'.pc = "capped")
  BY <1>1 DEF Bounded
<1>5. ASSUME ~stop', ~Leaving' PROVE starts[t] <= Allowance(t)'
  <2>1. starts[t] <= Allowance(t)
    BY <1>1, <1>5 DEF Bounded
  <2>2. Startable(t)' \/ (at'.task = t /\ at'.pc \in Paid) =>
        Startable(t) \/ (at.task = t /\ at.pc \in Paid)
    BY <1>5 DEF BoardStep
  <2>3. Allowance(t) <= Allowance(t)'
    BY <1>2, <2>2 DEF Allowance
  <2>4. Allowance(t) \in Nat /\ Allowance(t)' \in Nat
    BY <1>2 DEF Allowance
  <2> QED
    BY <1>2, <2>1, <2>3, <2>4
<1> QED
  BY <1>3, <1>4, <1>5 DEF Bounded

LEMMA NotUsedUp ==
  ASSUME LoopInv, at.pc \in TaskPoints \ {"capped", "tally"}
  PROVE  /\ at.task \in Task /\ attempts[at.task] # AttemptCap
         /\ child[at.task] = "none"
<1>1. at.task \in Task /\ child[at.task] = "none"
  BY DEF LoopInv, PointInv
<1>2. Bounded(at.task)
  BY <1>1 DEF LoopInv, AttemptInv
<1> QED
  BY <1>1, <1>2 DEF Bounded

\* One that does not lead to where a task is paid for.
LEMMA LoopKept ==
  ASSUME LoopInv, LoopOK', systemic' = systemic, attempts' = attempts,
         starts' = starts, stop => stop', Leaving => Leaving',
         NEW reopened, BoardStep(reopened),
         \A u \in reopened : Leaving' \/ (at.task = u /\ at.pc \in Paid),
         at'.pc \notin Paid \cup {"seal"},
         at'.pc \in TaskPoints => at'.task \in Task /\ child'[at'.task] = "none",
         at'.pc \notin TaskPoints => at'.task = None,
         \A u \in Task : child[u] = "none" => child'[u] = "none",
         \A u \in Task : at'.task = u =>
            attempts[u] # AttemptCap \/ (at.task = u /\ at'.pc = "tally"),
         at.pc = "capped" => stop'
  PROVE  LoopInv'
<1>1. AttemptInv'
  BY NoStart
<1>2. PointInv'
  BY DEF LoopInv, PointInv, Paid, SystemicTripped
<1> QED
  BY <1>1, <1>2 DEF LoopInv, BoardStep

LEMMA FlushBoard ==
  ASSUME BoardOK, claims' = claims, NEW then, Flush(then)
  PROVE  BoardStep({})
<1>0. MaxFaults \in Nat
  BY BatchAssumption
<1>1. PICK landed \in SUBSET Staged, ejected \in SUBSET Staged, link \in Link :
        LET off == landed \cup ejected
        IN  IF off = {} THEN link = "up" /\ UNCHANGED board
            ELSE Write(link, [t \in Task |->
                        IF t \in off THEN [here[t] EXCEPT !.train = FALSE]
                        ELSE here[t]])
  BY DEF Flush
<1> DEFINE off == landed \cup ejected
           records == [t \in Task |-> IF t \in off THEN [here[t] EXCEPT !.train = FALSE]
                                      ELSE here[t]]
<1>2. CASE off = {}
  BY <1>1, <1>2, IdleStep
<1>3. CASE off # {}
  <2>1. Write(link, records)
    BY <1>1, <1>3
  <2>2. \A t \in Task : /\ [here[t] EXCEPT !.train = FALSE] \in Record
                        /\ [here[t] EXCEPT !.train = FALSE].state = here[t].state
    BY DEF BoardOK, Record
  <2>3. /\ records \in [Task -> Record]
        /\ \A t \in Task : records[t].state = here[t].state
    BY <2>2 DEF BoardOK
  <2> HIDE DEF records
  <2> QED
    BY <1>0, <2>1, <2>3, WriteStep DEF Startable
<1> QED
  BY <1>2, <1>3

LEMMA FlushStep ==
  ASSUME LoopInv, at.pc \in {"pass", "poll"}, NEW then \in {"pick", "idle"}, Flush(then)
  PROVE  LoopInv'
<1>1. /\ queueLock' = queueLock /\ child' = child /\ policy' = policy
      /\ shutdown' = shutdown /\ systemic' = systemic /\ attempts' = attempts
      /\ starts' = starts /\ cut' = cut /\ claims' = claims
  BY DEF Flush
<1>2. BoardStep({})
  BY <1>1, FlushBoard DEF LoopInv
<1>3. /\ at \in At /\ at.task = None /\ ~Leaving
  BY DEF LoopInv, LoopOK, PointInv, TaskPoints, Leaving
<1>4. \/ /\ \E landed \in SUBSET Staged :
                  /\ at' = [at EXCEPT !.pc = "seal", !.ids = landed, !.then = then]
                  /\ report' = [t \in Task |->
                        IF t \in landed THEN "succeeded" ELSE report[t]]
         /\ stop' = stop
      \/ stop' = TRUE /\ Goto("poll") /\ report' = report
  BY DEF Flush
<1>5. CASE /\ \E landed \in SUBSET Staged :
                  /\ at' = [at EXCEPT !.pc = "seal", !.ids = landed, !.then = then]
                  /\ report' = [t \in Task |->
                        IF t \in landed THEN "succeeded" ELSE report[t]]
           /\ stop' = stop
  <2>1. PICK landed \in SUBSET Staged :
                  /\ at' = [at EXCEPT !.pc = "seal", !.ids = landed, !.then = then]
                  /\ report' = [t \in Task |->
                        IF t \in landed THEN "succeeded" ELSE report[t]]
    BY <1>5
  <2>2. landed \subseteq Task
    BY DEF Staged
  <2>3. at' \in At
    BY <1>3, <2>1, <2>2 DEF At, Points, Continuations
  <2>4. at'.pc = "seal" /\ at'.task = None /\ at'.then = then
    BY <1>3, <2>1 DEF At
  <2>5. report' \in [Task -> Outcomes]
    BY <2>1 DEF LoopInv, LoopOK, VarsOK, Outcomes
  <2>6. LoopOK'
    BY <1>1, <1>5, <2>3, <2>5 DEF LoopInv, LoopOK, VarsOK
  <2>7. PointInv'
    BY <1>1, <1>5, <2>4 DEF LoopInv, PointInv, TaskPoints, SystemicTripped
  <2>8. AttemptInv'
    <3>1. \A u \in Task : at'.task # u
      BY <2>4, BatchAssumption
    <3>2. ~Leaving /\ at.pc # "capped"
      BY DEF Leaving
    <3> QED
      BY <1>1, <1>2, <1>5, <3>1, <3>2, NoStart
  <2> QED
    BY <1>2, <2>6, <2>7, <2>8 DEF LoopInv, BoardStep
<1>6. CASE stop' = TRUE /\ Goto("poll") /\ report' = report
  <2>1. at' \in At /\ at'.pc = "poll" /\ at'.task = None
    BY <1>3, <1>6, GotoShape DEF Points
  <2>2. LoopOK'
    BY <1>1, <1>6, <2>1 DEF LoopInv, LoopOK, VarsOK
  <2>3. \A u \in Task : at'.task # u
    BY <2>1, BatchAssumption
  <2>4. at'.pc \notin Paid \cup {"seal"} \cup TaskPoints
    BY <2>1 DEF Paid, TaskPoints
  <2> QED
    BY <1>1, <1>2, <1>3, <1>6, <2>1, <2>2, <2>3, <2>4, LoopKept DEF TaskPoints
<1> QED
  BY <1>4, <1>5, <1>6

\* A step after which the run holds no task.
LEMMA LetGo ==
  ASSUME LoopInv, NEW pc \in {"pass", "pick", "poll", "ending", "over"}, Goto(pc),
         VarsOK', systemic' = systemic, attempts' = attempts, starts' = starts,
         stop => stop', Leaving => pc \in {"ending", "over"},
         NEW reopened, BoardStep(reopened),
         \A u \in reopened : Leaving' \/ (at.task = u /\ at.pc \in Paid),
         \A u \in Task : child[u] = "none" => child'[u] = "none",
         at.pc = "capped" => stop'
  PROVE  LoopInv'
<1>1. at' \in At /\ at'.pc = pc /\ at'.task = None
  BY GotoShape DEF LoopInv, LoopOK, Points
<1>2. LoopOK'
  BY <1>1 DEF LoopOK
<1>3. \A u \in Task : at'.task # u
  BY <1>1, BatchAssumption
<1>4. at'.pc \notin Paid \cup {"seal"} \cup TaskPoints
  BY <1>1 DEF Paid, TaskPoints
<1>5. Leaving => Leaving'
  BY <1>1 DEF Leaving
<1> QED
  BY <1>1, <1>2, <1>3, <1>4, <1>5, LoopKept

\* A step that goes on with its task.
LEMMA GoesOn ==
  ASSUME LoopInv, at.pc \in TaskPoints \ {"capped", "tally"},
         at' \in At, at'.task = at.task,
         at'.pc \in {"unstaged", "failing", "locked", "route", "break", "tally"},
         VarsOK', systemic' = systemic, attempts' = attempts, starts' = starts,
         stop => stop', NEW reopened, BoardStep(reopened),
         \A u \in reopened : at.task = u /\ at.pc \in Paid,
         child' = child
  PROVE  LoopInv'
<1>1. at.task \in Task /\ attempts[at.task] # AttemptCap /\ child[at.task] = "none"
  BY NotUsedUp
<1>2. LoopOK'
  BY DEF LoopOK
<1>3. at'.pc \notin Paid \cup {"seal"}
  BY DEF Paid
<1>4. ~Leaving /\ at'.pc \in TaskPoints
  BY DEF Leaving, TaskPoints
<1> QED
  BY <1>1, <1>2, <1>3, <1>4, LoopKept

LEMMA PassStep == ASSUME LoopInv, Pass PROVE LoopInv'
<1>1. CASE MaySpawn /\ HeldByTrain /\ Flush("pick")
  BY <1>1, FlushStep DEF Pass
<1>2. CASE /\ Goto(IF MaySpawn THEN "pick" ELSE "poll")
           /\ UNCHANGED <<board, queueLock, child, loop, claims>>
  <2>1. BoardStep({})
    BY <1>2, IdleStep DEF LoopInv
  <2>2. VarsOK' /\ systemic' = systemic /\ attempts' = attempts
        /\ starts' = starts /\ stop' = stop /\ child' = child
    BY <1>2 DEF LoopInv, LoopOK, VarsOK, loop
  <2>3. PICK pc \in {"pick", "poll"} : Goto(pc)
    BY <1>2
  <2>4. ~Leaving /\ at.pc # "capped"
    BY DEF Leaving, Pass
  <2> QED
    BY <2>1, <2>2, <2>3, <2>4, LetGo
<1> QED
  BY <1>1, <1>2 DEF Pass

LEMMA SealStep == ASSUME LoopInv, Seal PROVE LoopInv'
<1>1. /\ at.pc = "seal" /\ at \in At /\ ~Leaving /\ at.task = None
      /\ BoardOK /\ claims' = claims /\ MaxFaults \in Nat
  BY BatchAssumption
     DEF Seal, LoopInv, LoopOK, Leaving, PointInv, TaskPoints
<1>2. /\ VarsOK' /\ systemic' = systemic /\ attempts' = attempts
      /\ starts' = starts /\ stop' = stop /\ child' = child
  BY DEF Seal, LoopInv, LoopOK, VarsOK, loop
<1>3. CASE \E t \in at.ids, link \in Link :
            /\ \/ Transition(link, t, "awaiting_merge", "merged")
               \/ Refused(link, t, "awaiting_merge", "merged")
            /\ at' = [at EXCEPT !.ids = @ \ {t}]
  <2>1. PICK t \in at.ids, link \in Link :
            /\ \/ Transition(link, t, "awaiting_merge", "merged")
               \/ Refused(link, t, "awaiting_merge", "merged")
            /\ at' = [at EXCEPT !.ids = @ \ {t}]
    BY <1>3
  <2>2. t \in Task
    BY <1>1 DEF At
  <2>3. BoardStep({})
    <3>1. CASE Transition(link, t, "awaiting_merge", "merged")
      BY <1>1, <2>2, <3>1, TransitionStep DEF States
    <3>2. CASE Refused(link, t, "awaiting_merge", "merged")
      BY <1>1, <3>2, RefusedStep
    <3> QED
      BY <2>1, <3>1, <3>2
  <2>4. at' \in At /\ at'.pc = "seal" /\ at'.task = None /\ at'.then = at.then
    BY <1>1, <2>1 DEF At
  <2>5. LoopOK'
    BY <1>2, <2>4 DEF LoopOK
  <2>6. PointInv'
    BY <1>1, <1>2, <2>4 DEF LoopInv, PointInv, TaskPoints, SystemicTripped
  <2>7. AttemptInv'
    <3>1. \A u \in Task : at'.task # u
      BY <2>4, BatchAssumption
    <3> QED
      BY <1>1, <1>2, <2>3, <3>1, NoStart
  <2> QED
    BY <2>3, <2>5, <2>6, <2>7 DEF LoopInv, BoardStep
<1>4. CASE /\ Goto(IF at.then = "pick" THEN "pick"
                   ELSE IF Actionable # {} THEN "pass" ELSE "ending")
           /\ UNCHANGED board
  <2>1. BoardStep({})
    BY <1>1, <1>4, IdleStep
  <2>2. PICK pc \in {"pass", "pick", "ending"} : Goto(pc)
    BY <1>4
  <2> QED
    BY <1>1, <1>2, <2>1, <2>2, LetGo
<1> QED
  BY <1>3, <1>4 DEF Seal

LEMMA PickStep == ASSUME LoopInv, Pick PROVE LoopInv'
<1>1. /\ at.pc = "pick" /\ at \in At /\ ~Leaving /\ at.task = None
      /\ BoardOK /\ claims' = claims /\ MaxFaults \in Nat
  BY BatchAssumption DEF Pick, LoopInv, LoopOK, Leaving, PointInv, TaskPoints
<1>2. /\ VarsOK' /\ systemic' = systemic /\ attempts' = attempts
      /\ starts' = starts /\ stop' = stop /\ child' = child
  BY DEF Pick, LoopInv, LoopOK, VarsOK, loop
<1>3. ASSUME NEW t \in NextReady, NEW link \in Link, MaySpawn,
             Transition(link, t, "ready", "in_progress"),
             at' = [at EXCEPT !.pc = "open", !.task = t]
      PROVE  LoopInv'
  <2>1. t \in Task /\ ~stop /\ child[t] = "none"
    BY <1>3 DEF NextReady, Ready, MaySpawn, Running
  <2>2. BoardStep({})
    BY <1>1, <1>3, <2>1, TransitionStep DEF States
  <2>3. at' \in At /\ at'.pc = "open" /\ at'.task = t
    BY <1>1, <1>3, <2>1 DEF At, Points
  <2>4. LoopOK'
    BY <1>2, <2>3 DEF LoopOK
  <2>5. Fetched(link) \in [Task -> Record] /\ Startable(t)
    BY <1>1, <1>3, <2>1, FetchedShape, FetchedStartable
       DEF Transition, Accepts, Openable
  <2>6. here'[t].state = "in_progress"
    BY <1>3, <2>1, <2>5, MoveShape DEF Transition, Write, States
  <2>7. PointInv'
    BY <1>2, <2>1, <2>3, <2>6 DEF LoopInv, PointInv, TaskPoints, SystemicTripped
  <2>8. attempts[t] # AttemptCap
    BY <1>1, <2>1 DEF LoopInv, AttemptInv, Bounded
  <2>9. AttemptInv'
    BY <1>1, <1>2, <2>2, <2>3, <2>5, <2>8, NoStart
  <2> QED
    BY <2>2, <2>4, <2>7, <2>9 DEF LoopInv, BoardStep
<1>4. ASSUME NEW t \in NextReady, NEW link \in Link, MaySpawn,
             Refused(link, t, "ready", "in_progress"),
             at' = [at EXCEPT !.pc = "failing", !.task = t,
                              !.from = "ready", !.then = "spawn"]
      PROVE  LoopInv'
  <2>1. t \in Task /\ ~stop /\ child[t] = "none"
    BY <1>4 DEF NextReady, Ready, MaySpawn, Running
  <2>2. BoardStep({})
    BY <1>1, <1>4, RefusedStep
  <2>3. at' \in At /\ at'.pc = "failing" /\ at'.task = t
    BY <1>1, <1>4, <2>1 DEF At, Points, States, Continuations
  <2>4. LoopOK'
    BY <1>2, <2>3 DEF LoopOK
  <2>5. attempts[t] # AttemptCap
    BY <1>1, <2>1 DEF LoopInv, AttemptInv, Bounded
  <2>6. at'.pc \notin Paid \cup {"seal"} /\ at'.pc \in TaskPoints
    BY <2>3 DEF Paid, TaskPoints
  <2> QED
    BY <1>1, <1>2, <2>1, <2>2, <2>3, <2>4, <2>5, <2>6, LoopKept
<1>5. CASE Goto("poll") /\ UNCHANGED board
  <2>1. BoardStep({})
    BY <1>1, <1>5, IdleStep
  <2> QED
    BY <1>1, <1>2, <1>5, <2>1, LetGo
<1> QED
  BY <1>3, <1>4, <1>5 DEF Pick

\* The child that starts was paid for: it could be started.
LEMMA OpenStep == ASSUME LoopInv, Open PROVE LoopInv'
<1>0. PICK t \in Task : t = at.task
  BY NotUsedUp DEF Open, TaskPoints
<1>1. /\ at.pc = "open" /\ at \in At /\ ~Leaving /\ at.task = t /\ ~stop
      /\ here[t].state = "in_progress" /\ attempts[t] # AttemptCap
      /\ BoardOK /\ MaxFaults \in Nat
  BY <1>0, NotUsedUp, BatchAssumption
     DEF Open, LoopInv, LoopOK, Leaving, PointInv, TaskPoints
<1>2. /\ queueLock' = queueLock /\ policy' = policy /\ stop' = stop
      /\ shutdown' = shutdown /\ systemic' = systemic /\ attempts' = attempts
      /\ report' = report /\ claims' = claims
  BY DEF Open
<1>3. ASSUME NEW link \in Link, Write(link, here),
             child' = [child EXCEPT ![t] = "working"],
             starts' = [starts EXCEPT ![t] = @ + 1],
             Goto("pick"), cut' = cut
      PROVE  LoopInv'
  <2>0. here \in [Task -> Record] /\ there \in [Task -> Record]
    BY <1>1 DEF BoardOK
  <2>1. BoardStep({})
    BY <1>1, <1>2, <1>3, <2>0, WriteStep DEF Startable
  <2>2. at' \in At /\ at'.pc = "pick" /\ at'.task = None
    BY <1>1, <1>3, GotoShape DEF Points
  <2>3. child \in [Task -> {"none", "working"} \cup Exits] /\ starts \in [Task -> Nat]
    BY DEF LoopInv, LoopOK, VarsOK
  <2>4. /\ child' \in [Task -> {"none", "working"} \cup Exits]
        /\ starts' \in [Task -> Nat]
    <3>1. starts[t] + 1 \in Nat
      BY <2>3
    <3> QED
      BY <1>3, <2>3, <3>1
  <2>5. LoopOK'
    BY <1>2, <1>3, <2>2, <2>4 DEF LoopInv, LoopOK, VarsOK
  <2>6. PointInv'
    BY <1>2, <2>2 DEF LoopInv, PointInv, TaskPoints, SystemicTripped
  <2>7. ~Startable(t)' \/ Faults' >= Faults + 1
    <3>1. CASE link = "up"
      BY <1>1, <1>3, <3>1 DEF Write, Startable, Openable
    <3>2. CASE link # "up"
      BY <1>1, <1>2, <1>3, <3>2 DEF Write, Faults, BoardOK
    <3> QED
      BY <3>1, <3>2
  <2>8. /\ Faults \in Nat /\ Faults' \in Nat /\ Faults' >= Faults
        /\ AttemptCap \in Nat
    BY <1>1, <2>1, FaultsGrow, BatchAssumption
  <2>9. ASSUME NEW u \in Task PROVE Bounded(u)'
    <3>1. Bounded(u) /\ attempts[u] \in 0..AttemptCap
      BY DEF LoopInv, AttemptInv, LoopOK, VarsOK
    <3>2. starts[u] \in Nat /\ attempts[u] \in Nat
      BY <2>3, <2>8, <3>1
    <3>3. /\ Allowance(u)' = attempts[u] + Faults' + (IF Startable(u)' THEN 0 ELSE 1)
          /\ attempts[u] + Faults' <= Allowance(u)'
      <4>1. at'.pc \notin Paid
        BY <2>2 DEF Paid
      <4> QED
        BY <1>2, <2>8, <3>2, <4>1 DEF Allowance
    <3>4. starts[u] <= Allowance(u)
      BY <1>1, <3>1 DEF Bounded
    <3>5. CASE u = t
      <4>1. Allowance(u) = attempts[u] + Faults
        BY <1>1, <2>8, <3>2, <3>5 DEF Allowance, Paid
      <4>2. starts'[u] = starts[u] + 1
        BY <1>3, <2>3, <3>5
      <4>3. starts'[u] <= Allowance(u)'
        BY <2>7, <2>8, <3>2, <3>3, <3>4, <3>5, <4>1, <4>2
      <4>4. attempts[u] + 1 <= AttemptCap
        BY <1>1, <2>8, <3>1, <3>2, <3>5
      <4>5. Allowance(u)' <= attempts[u] + Faults' + 1
        BY <2>8, <3>2, <3>3
      <4>6. starts'[u] <= AttemptCap + Faults'
        BY <2>8, <3>2, <3>3, <4>2, <4>3, <4>4, <4>5
      <4> QED
        BY <1>1, <1>2, <3>5, <4>3, <4>6 DEF Bounded
    <3>6. CASE u # t
      <4>1. starts'[u] = starts[u] /\ child'[u] = child[u]
        BY <1>3, <2>3, <3>6
      <4>2. Allowance(u) <= Allowance(u)'
        BY <1>1, <2>1, <2>8, <3>2, <3>3, <3>6 DEF Allowance, BoardStep
      <4>3. Allowance(u) \in Nat /\ Allowance(u)' \in Nat
        BY <2>8, <3>2, <3>3 DEF Allowance
      <4>4. starts'[u] <= Allowance(u)'
        BY <3>2, <3>4, <4>1, <4>2, <4>3
      <4>5. starts'[u] <= AttemptCap + Faults'
        BY <2>8, <3>1, <3>2, <4>1 DEF Bounded
      <4>6. attempts[u] # AttemptCap
        BY <1>1, <3>1 DEF Bounded
      <4> QED
        BY <1>2, <4>4, <4>5, <4>6 DEF Bounded
    <3> QED
      BY <3>5, <3>6
  <2> QED
    BY <2>1, <2>5, <2>6, <2>9 DEF LoopInv, BoardStep, AttemptInv
<1>4. CASE /\ at' = [at EXCEPT !.pc = "failing", !.from = "in_progress",
                              !.then = "spawn"]
           /\ UNCHANGED <<board, child, starts, cut>>
  <2>1. BoardStep({})
    BY <1>1, <1>2, <1>4, IdleStep
  <2>2. at' \in At /\ at'.pc = "failing" /\ at'.task = at.task
    BY <1>1, <1>4 DEF At, Points, States, Continuations
  <2>3. VarsOK'
    BY <1>2, <1>4 DEF LoopInv, LoopOK, VarsOK
  <2> QED
    BY <1>1, <1>2, <1>4, <2>1, <2>2, <2>3, GoesOn DEF TaskPoints
<1>5. CASE Goto("ending") /\ cut' = TRUE /\ UNCHANGED <<board, child, starts>>
  <2>1. BoardStep({})
    BY <1>1, <1>2, <1>5, IdleStep
  <2>2. VarsOK'
    BY <1>2, <1>5 DEF LoopInv, LoopOK, VarsOK
  <2> QED
    BY <1>1, <1>2, <1>5, <2>1, <2>2, LetGo
<1> QED
  BY <1>1, <1>3, <1>4, <1>5 DEF Open

LEMMA CollectStep == ASSUME LoopInv, NEW t \in Task, Collect(t) PROVE LoopInv'
<1>1. /\ at.pc = "poll" /\ at \in At /\ ~Leaving /\ BoardOK
      /\ child \in [Task -> {"none", "working"} \cup Exits] /\ child[t] # "none"
  BY DEF Collect, LoopInv, LoopOK, VarsOK, Leaving
<1>2. /\ queueLock' = queueLock /\ claims' = claims /\ UNCHANGED board /\ UNCHANGED loop
      /\ child' = [child EXCEPT ![t] = "none"]
  BY DEF Collect
<1>3. BoardStep({})
  BY <1>1, <1>2, IdleStep
<1>4. at' \in At /\ at'.pc = "settle" /\ at'.task = t
  <2>1. here[t].state \in States
    BY <1>1, RecordFields DEF BoardOK
  <2>2. (IF child[t] = "working" THEN "killed" ELSE child[t]) \in Exits
    BY <1>1 DEF Exits
  <2>3. at' = [at EXCEPT !.pc = "settle", !.task = t, !.from = here[t].state,
                  !.exit = IF child[t] = "working" THEN "killed" ELSE child[t]]
    BY DEF Collect
  <2> QED
    BY <1>1, <2>1, <2>2, <2>3 DEF At, Points
<1>5. LoopOK' /\ child'[t] = "none"
  BY <1>1, <1>2, <1>4 DEF LoopInv, LoopOK, VarsOK, loop
<1>6. attempts[t] # AttemptCap
  BY <1>1 DEF LoopInv, AttemptInv, Bounded
<1>7. at'.pc \notin Paid \cup {"seal"} /\ at'.pc \in TaskPoints
  BY <1>4 DEF Paid, TaskPoints
<1> QED
  BY <1>1, <1>2, <1>3, <1>4, <1>5, <1>6, <1>7, LoopKept DEF loop

LEMMA IdleLoopStep == ASSUME LoopInv, Idle \/ ShutDownLoop PROVE LoopInv'
<1>1. CASE Idle /\ Flush("idle")
  BY <1>1, FlushStep DEF Idle
<1>2. CASE /\ at.pc = "poll" /\ \E pc \in {"ending", "pass"} : Goto(pc)
           /\ UNCHANGED <<board, queueLock, child, loop, claims>>
  <2>1. BoardStep({})
    BY <1>2, IdleStep DEF LoopInv
  <2>2. VarsOK' /\ systemic' = systemic /\ attempts' = attempts
        /\ starts' = starts /\ stop' = stop /\ child' = child
    BY <1>2 DEF LoopInv, LoopOK, VarsOK, loop
  <2>3. ~Leaving
    BY <1>2 DEF Leaving
  <2> QED
    BY <1>2, <2>1, <2>2, <2>3, LetGo
<1>3. CASE ShutDownLoop
  BY <1>2, <1>3 DEF ShutDownLoop
<1> QED
  BY <1>1, <1>2, <1>3 DEF Idle

LEMMA ReportShape ==
  ASSUME VarsOK, NEW t, NEW outcome \in Outcomes, Report(t, outcome)
  PROVE  report' \in [Task -> Outcomes]
  BY DEF VarsOK, Report

LEMMA SettleEmptyStep == ASSUME LoopInv, SettleEmpty PROVE LoopInv'
<1>1. at \in At /\ at.pc = "settle" /\ BoardOK
  BY DEF SettleEmpty, LoopInv, LoopOK
<1>2. UNCHANGED <<board, queueLock, child, loop, claims>>
  BY DEF SettleEmpty
<1>3. BoardStep({})
  BY <1>1, <1>2, IdleStep
<1>4. VarsOK' /\ systemic' = systemic /\ attempts' = attempts
      /\ starts' = starts /\ stop' = stop /\ child' = child
  BY <1>2 DEF LoopInv, LoopOK, VarsOK, loop
<1>5. at' \in At /\ at'.pc = "failing" /\ at'.task = at.task
  BY <1>1, FailingShape DEF SettleEmpty, Continuations
<1> QED
  BY <1>1, <1>3, <1>4, <1>5, GoesOn DEF TaskPoints

LEMMA ReviewStep == ASSUME LoopInv, SettleForReview PROVE LoopInv'
<1>1. /\ at \in At /\ at.pc = "settle" /\ BoardOK /\ at.task \in Task
      /\ MaxFaults \in Nat /\ ~Leaving
  BY NotUsedUp, BatchAssumption
     DEF SettleForReview, LoopInv, LoopOK, TaskPoints, Leaving
<1>2. /\ queueLock' = queueLock /\ child' = child /\ policy' = policy /\ stop' = stop
      /\ shutdown' = shutdown /\ systemic' = systemic /\ attempts' = attempts
      /\ starts' = starts /\ cut' = cut /\ claims' = claims
  BY DEF SettleForReview
<1>3. ASSUME NEW link \in Link, Transition(link, at.task, at.from, "awaiting_merge"),
             Report(at.task, "succeeded"), Goto("tally")
      PROVE  LoopInv'
  <2>1. BoardStep({})
    BY <1>1, <1>2, <1>3, TransitionStep DEF States
  <2>2. at' \in At /\ at'.pc = "tally" /\ at'.task = at.task
    BY <1>1, <1>3, GotoShape DEF Points
  <2>3. VarsOK'
    BY <1>2, <1>3, ReportShape DEF LoopInv, LoopOK, VarsOK, Outcomes
  <2> QED
    BY <1>1, <1>2, <2>1, <2>2, <2>3, GoesOn DEF TaskPoints
<1>4. ASSUME NEW link \in Link, Refused(link, at.task, at.from, "awaiting_merge"),
             Failing("halted"), report' = report
      PROVE  LoopInv'
  <2>1. BoardStep({})
    BY <1>1, <1>2, <1>4, RefusedStep
  <2>2. at' \in At /\ at'.pc = "failing" /\ at'.task = at.task
    BY <1>1, <1>4, FailingShape DEF Continuations
  <2>3. VarsOK'
    BY <1>2, <1>4 DEF LoopInv, LoopOK, VarsOK
  <2> QED
    BY <1>1, <1>2, <2>1, <2>2, <2>3, GoesOn DEF TaskPoints
<1> QED
  BY <1>3, <1>4 DEF SettleForReview

LEMMA StagedShape ==
  ASSUME NEW records \in [Task -> Record], NEW t \in Task
  PROVE  LET staged == [records EXCEPT ![t].train = TRUE]
         IN  /\ staged \in [Task -> Record]
             /\ \A u \in Task : /\ staged[u].state = records[u].state
                                /\ staged[u].count = records[u].count
             /\ \A u \in Task \ {t} : staged[u] = records[u]
<1> DEFINE r == [records[t] EXCEPT !.train = TRUE]
<1>1. r \in Record /\ r.state = records[t].state /\ r.count = records[t].count
  BY DEF Record
<1>2. [records EXCEPT ![t].train = TRUE] = [records EXCEPT ![t] = r]
  OBVIOUS
<1> HIDE DEF r
<1> QED
  BY <1>1, <1>2

LEMMA IntegrationStep == ASSUME LoopInv, SettleByIntegration PROVE LoopInv'
<1>1. /\ at \in At /\ at.pc = "settle" /\ BoardOK
      /\ MaxFaults \in Nat /\ ~Leaving
  BY BatchAssumption
     DEF SettleByIntegration, LoopInv, LoopOK, Leaving
<1>2. /\ queueLock' = queueLock /\ child' = child /\ policy' = policy /\ stop' = stop
      /\ shutdown' = shutdown /\ systemic' = systemic /\ attempts' = attempts
      /\ starts' = starts /\ cut' = cut /\ claims' = claims
  BY DEF SettleByIntegration
<1>3. PICK t \in Task : t = at.task
  BY <1>1, NotUsedUp DEF TaskPoints
<1>4. ASSUME NEW link \in Link PROVE Fetched(link) \in [Task -> Record]
  BY <1>1, FetchedShape
<1>5. ASSUME BoardStep({}), Report(t, "succeeded") \/ Report(t, "requeued"), Goto("pass")
      PROVE  LoopInv'
  <2>1. VarsOK'
    BY <1>2, <1>5, ReportShape DEF LoopInv, LoopOK, VarsOK, Outcomes
  <2> QED
    BY <1>1, <1>2, <1>5, <2>1, LetGo
<1>6. ASSUME BoardStep({}), report' = report, Goto("unstaged")
      PROVE  LoopInv'
  <2>1. VarsOK'
    BY <1>2, <1>6 DEF LoopInv, LoopOK, VarsOK
  <2>2. at' \in At /\ at'.pc = "unstaged" /\ at'.task = at.task
    BY <1>1, <1>6, GotoShape DEF Points
  <2> QED
    BY <1>1, <1>2, <1>6, <2>1, <2>2, GoesOn DEF TaskPoints
<1>7. ASSUME NEW link \in Link,
             Write(link, [Move(Fetched(link), t, "awaiting_merge")
                            EXCEPT ![t].train = TRUE]),
             Report(t, "succeeded"), Goto("pass")
      PROVE  LoopInv'
  <2> DEFINE m == Move(Fetched(link), t, "awaiting_merge")
  <2>1. /\ m \in [Task -> Record] /\ m[t].state = "awaiting_merge"
        /\ \A u \in Task \ {t} : m[u] = Fetched(link)[u]
    <3>1. "awaiting_merge" \in States \ {"merged", "blocked"}
      BY DEF States
    <3>2. m \in [Task -> Record]
      BY <1>1, <3>1, FetchedMove
    <3>3. m[t].state = "awaiting_merge"
      BY <1>1, <3>1, FetchedTo
    <3>4. \A u \in Task \ {t} : m[u] = Fetched(link)[u]
      BY <1>1, <3>1, FetchedMove
    <3> QED
      BY <3>1, <3>2, <3>3, <3>4
  <2>2. /\ [m EXCEPT ![t].train = TRUE] \in [Task -> Record]
        /\ \A u \in Task : [m EXCEPT ![t].train = TRUE][u].state = m[u].state
    <3> HIDE DEF m
    <3> QED
      BY <2>1, StagedShape
  <2>3. ASSUME NEW u \in Task, [m EXCEPT ![t].train = TRUE][u].state \in Openable
        PROVE  Startable(u)
    BY <1>1, <2>1, <2>2, <2>3, FetchedStartable DEF Openable
  <2>4. BoardStep({})
    BY <1>1, <1>2, <1>7, <2>2, <2>3, WriteStep
  <2> QED
    BY <1>5, <1>7, <2>4
<1>8. ASSUME NEW link \in Link, Write(link, Move(Fetched(link), t, "awaiting_merge")),
             Report(t, "succeeded"), Goto("pass")
      PROVE  LoopInv'
  <2>1. BoardStep({})
    BY <1>1, <1>2, <1>8, MoveStep DEF States
  <2> QED
    BY <1>5, <1>8, <2>1
<1>9. ASSUME NEW link \in Link, NEW s \in Signature,
             Write(link, SentBack(Fetched(link), t, s)),
             Report(t, "requeued"), Goto("pass")
      PROVE  LoopInv'
  <2> DEFINE m == Move(Fetched(link), t, "in_progress")
             q == Recorded(m, t, "ordinary", s)
  <2>1. /\ m \in [Task -> Record] /\ m[t].state = "in_progress"
        /\ \A u \in Task \ {t} : m[u] = Fetched(link)[u]
    <3>1. "in_progress" \in States \ {"merged", "blocked"}
      BY DEF States
    <3> QED
      BY <1>1, <3>1, FetchedMove
  <2>2. q \in [Task -> Record] /\ \A u \in Task : q[u].state = m[u].state
    <3> HIDE DEF m
    <3> QED
      BY <2>1, RecordedShape DEF Classes
  <2>3. ASSUME NEW u \in Task, q[u].state \in Openable
        PROVE  Startable(u)
    <3> HIDE DEF q, m
    <3> QED
      BY <1>1, <2>1, <2>2, <2>3, FetchedStartable DEF Openable
  <2>4. Write(link, q)
    BY <1>9 DEF SentBack
  <2>5. BoardStep({})
    <3> HIDE DEF q
    <3> QED
      BY <1>1, <1>2, <2>2, <2>3, <2>4, WriteStep
  <2> QED
    BY <1>5, <1>9, <2>5
<1>10. ASSUME NEW link \in Link, Refused(link, t, at.from, "awaiting_merge"),
              report' = report, Goto("unstaged")
       PROVE  LoopInv'
  <2>1. BoardStep({})
    BY <1>1, <1>2, <1>10, RefusedStep
  <2> QED
    BY <1>6, <1>10, <2>1
<1>11. ASSUME UNCHANGED <<board, report>>, Goto("unstaged")
       PROVE  LoopInv'
  <2>1. BoardStep({})
    BY <1>1, <1>2, <1>11, IdleStep
  <2> QED
    BY <1>6, <1>11, <2>1
<1> QED
  BY <1>3, <1>7, <1>8, <1>9, <1>10, <1>11 DEF SettleByIntegration


LEMMA UnstagedStep == ASSUME LoopInv, Unstaged PROVE LoopInv'
<1>1. /\ at \in At /\ at.pc = "unstaged" /\ BoardOK /\ at.task \in Task
      /\ MaxFaults \in Nat /\ ~Leaving
  BY NotUsedUp, BatchAssumption
     DEF Unstaged, LoopInv, LoopOK, TaskPoints, Leaving
<1>2. /\ queueLock' = queueLock /\ child' = child /\ policy' = policy /\ stop' = stop
      /\ shutdown' = shutdown /\ systemic' = systemic /\ attempts' = attempts
      /\ starts' = starts /\ cut' = cut /\ claims' = claims
      /\ Report(at.task, "failed") /\ Goto("pass")
  BY DEF Unstaged
<1>3. PICK link \in Link : \/ Transition(link, at.task, at.from, "failed")
                           \/ Refused(link, at.task, at.from, "failed")
  BY DEF Unstaged
<1>4. BoardStep({})
  <2>1. CASE Transition(link, at.task, at.from, "failed")
    BY <1>1, <1>2, <2>1, TransitionStep DEF States
  <2>2. CASE Refused(link, at.task, at.from, "failed")
    BY <1>1, <1>2, <2>2, RefusedStep
  <2> QED
    BY <1>3, <2>1, <2>2
<1>5. VarsOK'
  BY <1>2, ReportShape DEF LoopInv, LoopOK, VarsOK, Outcomes
<1> QED
  BY <1>1, <1>2, <1>4, <1>5, LetGo

LEMMA FailureStep == ASSUME LoopInv, SettleFailure PROVE LoopInv'
<1>1. /\ at \in At /\ at.pc = "settle" /\ BoardOK /\ at.task \in Task
      /\ MaxFaults \in Nat
  BY NotUsedUp, BatchAssumption DEF SettleFailure, LoopInv, LoopOK, TaskPoints
<1>2. UNCHANGED <<queueLock, child, loop, claims>>
  BY DEF SettleFailure
<1>3. VarsOK' /\ systemic' = systemic /\ attempts' = attempts
      /\ starts' = starts /\ stop' = stop /\ child' = child /\ claims' = claims
  BY <1>2 DEF LoopInv, LoopOK, VarsOK, loop
<1>4. /\ at' \in At /\ at'.task = at.task
      /\ at'.pc \in {"failing", "break"}
  <2>1. \/ Failing("halted") \/ Failing("left") \/ Failing("route") \/ Goto("break")
    BY DEF SettleFailure
  <2> QED
    BY <1>1, <2>1, FailingShape, GotoShape DEF Continuations, Points
<1>5. BoardStep({})
  <2>1. CASE UNCHANGED board
    BY <1>1, <1>3, <2>1, IdleStep
  <2>2. ASSUME NEW link \in Link, NEW s \in Signature,
               Write(link, Recorded(here, at.task, "timeout", s))
        PROVE  BoardStep({})
    BY <1>1, <1>3, <2>2, RecordStep DEF Classes
  <2> QED
    BY <2>1, <2>2 DEF SettleFailure
<1> QED
  BY <1>1, <1>3, <1>4, <1>5, GoesOn DEF TaskPoints

LEMMA MarkFailedStep == ASSUME LoopInv, MarkFailed PROVE LoopInv'
<1>1. /\ at \in At /\ at.pc \in {"failing", "locked"} /\ BoardOK /\ at.task \in Task
      /\ MaxFaults \in Nat /\ ~Leaving
  BY NotUsedUp, BatchAssumption
     DEF MarkFailed, LoopInv, LoopOK, TaskPoints, Leaving
<1>2. /\ child' = child /\ policy' = policy /\ shutdown' = shutdown
      /\ systemic' = systemic /\ attempts' = attempts /\ starts' = starts
      /\ cut' = cut /\ claims' = claims
  BY DEF MarkFailed
<1>3. PICK link \in Link :
        \/ /\ \/ Transition(link, at.task, at.from, "failed")
              \/ Refused(link, at.task, at.from, "failed")
           /\ queueLock' = TRUE
           /\ stop' = (stop \/ at.then \in {"spawn", "halted"})
           /\ Report(at.task, "failed") \/ report' = report
           /\ Goto("poll") \/ Goto("route") \/ Goto("tally")
        \/ /\ Refused(link, at.task, at.from, "failed")
           /\ queueLock' = FALSE
           /\ at' = [at EXCEPT !.pc = "locked", !.from = Fetched(link)[at.task].state]
           /\ stop' = stop /\ report' = report
  <2> PICK l \in Link :
        LET t == at.task
            found == Fetched(l)[t].state
        IN  \/ /\ \/ Transition(l, t, at.from, "failed")
                  \/ /\ Refused(l, t, at.from, "failed")
                     /\ <<found, "failed">> \notin Legal
               /\ queueLock' = TRUE
               /\ stop' = (stop \/ at.then \in {"spawn", "halted"})
               /\ IF at.then \in {"halted", "left"} THEN Report(t, "failed")
                                                   ELSE UNCHANGED report
               /\ Goto(CASE at.then = "spawn" -> "poll"
                         [] at.then = "route" -> "route"
                         [] OTHER -> "tally")
            \/ /\ Refused(l, t, at.from, "failed")
               /\ <<found, "failed">> \in Legal
               /\ queueLock' = FALSE
               /\ at' = [at EXCEPT !.pc = "locked", !.from = found]
               /\ UNCHANGED <<stop, report>>
    BY DEF MarkFailed
  <2> QED
    OBVIOUS
<1>4. BoardStep({})
  <2>1. CASE Transition(link, at.task, at.from, "failed")
    BY <1>1, <1>2, <2>1, TransitionStep DEF States
  <2>2. CASE Refused(link, at.task, at.from, "failed")
    BY <1>1, <1>2, <2>2, RefusedStep
  <2> QED
    BY <1>3, <2>1, <2>2
<1>5. stop' \in BOOLEAN /\ (stop => stop') /\ queueLock' \in BOOLEAN
  BY <1>3 DEF LoopInv, LoopOK, VarsOK
<1>6. VarsOK'
  <2>1. report' \in [Task -> Outcomes]
    BY <1>3, ReportShape DEF LoopInv, LoopOK, VarsOK, Outcomes
  <2> QED
    BY <1>2, <1>5, <2>1 DEF LoopInv, LoopOK, VarsOK
<1>7. CASE Goto("poll")
  BY <1>1, <1>2, <1>4, <1>5, <1>6, <1>7, LetGo
<1>8. CASE at' = [at EXCEPT !.pc = "locked", !.from = Fetched(link)[at.task].state]
  <2>1. Fetched(link)[at.task].state \in States
    BY <1>1, FetchedShape, RecordFields
  <2>2. at' \in At /\ at'.task = at.task /\ at'.pc = "locked"
    BY <1>1, <1>8, <2>1 DEF At, Points
  <2> QED
    BY <1>1, <1>2, <1>4, <1>5, <1>6, <2>2, GoesOn DEF TaskPoints
<1>9. CASE Goto("route") \/ Goto("tally")
  <2>1. at' \in At /\ at'.task = at.task /\ at'.pc \in {"route", "tally"}
    BY <1>1, <1>9, GotoShape DEF Points
  <2> QED
    BY <1>1, <1>2, <1>4, <1>5, <1>6, <2>1, GoesOn DEF TaskPoints
<1> QED
  BY <1>3, <1>7, <1>8, <1>9


LEMMA BreakStep == ASSUME LoopInv, Break PROVE LoopInv'
<1>1. /\ at \in At /\ at.pc = "break" /\ BoardOK /\ at.task \in Task
      /\ MaxFaults \in Nat
  BY NotUsedUp, BatchAssumption DEF Break, LoopInv, LoopOK, TaskPoints
<1>2. /\ queueLock' = queueLock /\ child' = child /\ policy' = policy
      /\ shutdown' = shutdown /\ systemic' = systemic /\ attempts' = attempts
      /\ starts' = starts /\ cut' = cut /\ claims' = claims
  BY DEF Break
<1>3. ASSUME NEW link \in Link, Transition(link, at.task, at.from, "quarantined"),
             stop' = TRUE, Report(at.task, "failed"), Goto("tally")
      PROVE  LoopInv'
  <2>1. BoardStep({})
    BY <1>1, <1>2, <1>3, TransitionStep DEF States
  <2>2. at' \in At /\ at'.pc = "tally" /\ at'.task = at.task
    BY <1>1, <1>3, GotoShape DEF Points
  <2>3. VarsOK'
    BY <1>2, <1>3, ReportShape DEF LoopInv, LoopOK, VarsOK, Outcomes
  <2> QED
    BY <1>1, <1>2, <1>3, <2>1, <2>2, <2>3, GoesOn DEF TaskPoints
<1>4. ASSUME NEW link \in Link, Refused(link, at.task, at.from, "quarantined"),
             Failing("route"), UNCHANGED <<stop, report>>
      PROVE  LoopInv'
  <2>1. BoardStep({})
    BY <1>1, <1>2, <1>4, RefusedStep
  <2>2. at' \in At /\ at'.pc = "failing" /\ at'.task = at.task
    BY <1>1, <1>4, FailingShape DEF Continuations
  <2>3. VarsOK'
    BY <1>2, <1>4 DEF LoopInv, LoopOK, VarsOK
  <2> QED
    BY <1>1, <1>2, <1>4, <2>1, <2>2, <2>3, GoesOn DEF TaskPoints
<1> QED
  BY <1>3, <1>4 DEF Break, Quarantined

\* The only step that counts an attempt: it pays for the next start, unless it
\* was the last one.
LEMMA RouteStep == ASSUME LoopInv, Route PROVE LoopInv'
<1>0. PICK t \in Task : t = at.task
  BY NotUsedUp DEF Route, TaskPoints
<1>1. /\ at \in At /\ at.pc = "route" /\ BoardOK /\ at.task = t
      /\ attempts[t] # AttemptCap /\ ~Leaving /\ child[t] = "none"
  BY <1>0, NotUsedUp DEF Route, LoopInv, LoopOK, TaskPoints, Leaving
<1>2. /\ queueLock' = queueLock /\ child' = child /\ policy' = policy
      /\ shutdown' = shutdown /\ systemic' = systemic
      /\ starts' = starts /\ cut' = cut /\ claims' = claims /\ UNCHANGED board
  BY DEF Route
<1>3. BoardStep({})
  BY <1>1, <1>2, IdleStep
<1>4. here[t].state \in States
  BY <1>1, RecordFields DEF BoardOK
<1>5. ASSUME NEW pc \in {"requeue", "capped", "quarantine"},
             at' = [at EXCEPT !.pc = pc, !.from = here[t].state]
      PROVE  at' \in At /\ at'.pc = pc /\ at'.task = t
  BY <1>1, <1>4, <1>5 DEF At, Points
<1>6. CASE /\ stop' = TRUE /\ UNCHANGED <<attempts, report>>
           /\ at' = [at EXCEPT !.pc = "requeue", !.from = here[t].state]
  <2>1. at' \in At /\ at'.pc = "requeue" /\ at'.task = t
    BY <1>5, <1>6
  <2>2. LoopOK'
    BY <1>2, <1>6, <2>1 DEF LoopInv, LoopOK, VarsOK
  <2>3. PointInv'
    BY <1>1, <1>2, <1>6, <2>1 DEF PointInv, TaskPoints, LoopInv
  <2>4. AttemptInv'
    <3> SUFFICES ASSUME NEW u \in Task PROVE Bounded(u)'
      BY DEF AttemptInv
    <3>1. Bounded(u)
      BY DEF LoopInv, AttemptInv
    <3>2. Faults' = Faults
      BY <1>2 DEF Faults, board
    <3> QED
      BY <1>1, <1>2, <1>6, <2>1, <3>1, <3>2 DEF Bounded
  <2> QED
    BY <1>3, <2>2, <2>3, <2>4 DEF LoopInv, BoardStep
<1>7. CASE /\ stop' = (stop \/ policy.onFailure = "halt")
           /\ Report(t, "failed") /\ Goto("tally") /\ UNCHANGED attempts
  <2>1. at' \in At /\ at'.pc = "tally" /\ at'.task = at.task
    BY <1>1, <1>7, GotoShape DEF Points
  <2>2. VarsOK'
    BY <1>2, <1>7, ReportShape DEF LoopInv, LoopOK, VarsOK, Outcomes
  <2>3. stop => stop'
    BY <1>7
  <2> QED
    BY <1>1, <1>2, <1>3, <1>7, <2>1, <2>2, <2>3, GoesOn DEF TaskPoints
<1>8. CASE /\ attempts' = [attempts EXCEPT ![t] = Attempt(t)]
           /\ UNCHANGED <<stop, report>>
           /\ \E pc \in {"requeue", "capped", "quarantine"} :
                 /\ at' = [at EXCEPT !.pc = pc, !.from = here[t].state]
                 /\ CapReached(attempts'[t]) => pc = "capped"
  <2>1. PICK pc \in {"requeue", "capped", "quarantine"} :
                 /\ at' = [at EXCEPT !.pc = pc, !.from = here[t].state]
                 /\ CapReached(attempts'[t]) => pc = "capped"
    BY <1>8
  <2>2. at' \in At /\ at'.pc = pc /\ at'.task = t
    BY <1>5, <2>1
  <2>3. /\ AttemptCap \in Nat /\ attempts[t] \in 0..AttemptCap
        /\ attempts \in [Task -> 0..AttemptCap] /\ starts \in [Task -> Nat]
    BY BatchAssumption DEF LoopInv, LoopOK, VarsOK
  <2>4. attempts[t] + 1 \in 0..AttemptCap
    BY <1>1, <2>3
  <2>5. /\ attempts' \in [Task -> 0..AttemptCap] /\ attempts'[t] = attempts[t] + 1
        /\ \A u \in Task \ {t} : attempts'[u] = attempts[u]
    BY <1>8, <2>3, <2>4 DEF Attempt
  <2>6. LoopOK'
    BY <1>2, <1>8, <2>2, <2>5 DEF LoopInv, LoopOK, VarsOK
  <2>7. PointInv'
    BY <1>1, <1>2, <1>8, <2>2 DEF PointInv, TaskPoints, LoopInv, SystemicTripped
  <2>8. Faults' = Faults /\ Faults \in Nat /\ \A u \in Task : Startable(u)' = Startable(u)
    BY <1>1, <1>2 DEF Faults, board, Startable, BoardOK
  <2>9. ASSUME NEW u \in Task PROVE Bounded(u)'
    <3>1. Bounded(u)
      BY DEF LoopInv, AttemptInv
    <3>2. CASE u = t
      <4>1. starts[u] \in Nat /\ starts'[u] = starts[u] /\ attempts[u] \in Nat
        BY <1>2, <2>3
      <4>2. starts'[u] <= AttemptCap + Faults'
        BY <1>2, <2>8, <3>1 DEF Bounded
      <4>3. attempts'[u] = AttemptCap => pc = "capped"
        BY <2>1, <2>3, <2>5, <3>2 DEF CapReached
      <4>4. Allowance(u)' = attempts'[u] + Faults'
        BY <2>2, <2>3, <2>5, <2>8, <3>2, <4>1 DEF Allowance, Paid
      <4>5. Allowance(u) <= attempts[u] + Faults + 1 /\ Allowance(u) \in Nat
        BY <2>8, <4>1 DEF Allowance
      <4>6. ~stop => starts[u] <= Allowance(u)
        BY <1>1, <3>1 DEF Bounded
      <4>7. ~stop => starts'[u] <= Allowance(u)'
        BY <2>5, <2>8, <3>2, <4>1, <4>4, <4>5, <4>6
      <4> QED
        BY <1>1, <1>2, <1>8, <2>2, <3>2, <4>2, <4>3, <4>7 DEF Bounded
    <3>3. CASE u # t
      <4>1. at'.task # u /\ at.task # u /\ attempts'[u] = attempts[u]
        BY <1>1, <2>2, <2>5, <3>3
      <4>2. Allowance(u)' = Allowance(u)
        BY <2>8, <4>1 DEF Allowance
      <4>3. Leaving' = FALSE
        BY <2>2 DEF Leaving
      <4> QED
        BY <1>1, <1>2, <1>8, <2>8, <3>1, <4>1, <4>2, <4>3 DEF Bounded
    <3> QED
      BY <3>2, <3>3
  <2> QED
    BY <1>3, <2>6, <2>7, <2>9 DEF LoopInv, BoardStep, AttemptInv
<1> QED
  <2>1. TriageActions \subseteq {"requeue", "quarantine"} /\ Answers(t) \subseteq {"requeue", "quarantine"}
    BY DEF TriageActions, Answers
  <2> QED
    BY <1>1, <1>6, <1>7, <1>8, <2>1 DEF Route

LEMMA QuarantineStep == ASSUME LoopInv, Quarantine PROVE LoopInv'
<1>0. PICK t \in Task : t = at.task
  BY DEF Quarantine, LoopInv, PointInv, TaskPoints
<1>1. /\ at \in At /\ at.pc \in {"capped", "quarantine"} /\ BoardOK /\ at.task = t
      /\ MaxFaults \in Nat /\ ~Leaving /\ child[t] = "none"
  BY <1>0, BatchAssumption
     DEF Quarantine, LoopInv, LoopOK, PointInv, TaskPoints, Leaving
<1>2. /\ queueLock' = queueLock /\ child' = child /\ policy' = policy
      /\ shutdown' = shutdown /\ systemic' = systemic /\ attempts' = attempts
      /\ starts' = starts /\ cut' = cut /\ claims' = claims
  BY DEF Quarantine
<1>3. ASSUME NEW link \in Link,
             \/ Transition(link, t, at.from, "quarantined")
             \/ Refused(link, t, at.from, "quarantined"),
             stop' = TRUE, Report(t, "failed"), Goto("tally")
      PROVE  LoopInv'
  <2>1. BoardStep({})
    <3>1. CASE Transition(link, t, at.from, "quarantined")
      BY <1>1, <1>2, <3>1, TransitionStep DEF States
    <3>2. CASE Refused(link, t, at.from, "quarantined")
      BY <1>1, <1>2, <3>2, RefusedStep
    <3> QED
      BY <1>3, <3>1, <3>2
  <2>2. at' \in At /\ at'.pc = "tally" /\ at'.task = t
    BY <1>1, <1>3, GotoShape DEF Points
  <2>3. LoopOK'
    BY <1>2, <1>3, <2>2, ReportShape DEF LoopInv, LoopOK, VarsOK, Outcomes
  <2>4. at'.pc \notin Paid \cup {"seal"} /\ at'.pc \in TaskPoints
    BY <2>2 DEF Paid, TaskPoints
  <2>5. child'[at'.task] = "none"
    BY <1>1, <1>2, <2>2
  <2> QED
    BY <1>1, <1>2, <1>3, <2>1, <2>2, <2>3, <2>4, <2>5, LoopKept
<1>4. ASSUME NEW link \in Link, Refused(link, t, at.from, "quarantined"),
             at.pc = "quarantine", Goto("requeue"), UNCHANGED <<stop, report>>
      PROVE  LoopInv'
  <2>1. BoardStep({})
    BY <1>1, <1>2, <1>4, RefusedStep
  <2>2. at' \in At /\ at'.pc = "requeue" /\ at'.task = t
    BY <1>1, <1>4, GotoShape DEF Points
  <2>3. LoopOK'
    BY <1>2, <1>4, <2>2 DEF LoopInv, LoopOK, VarsOK
  <2>4. PointInv'
    BY <1>1, <1>2, <1>4, <2>2 DEF PointInv, TaskPoints, LoopInv, SystemicTripped
  <2>5. attempts[t] # AttemptCap
    BY <1>1, <1>4, NotUsedUp DEF TaskPoints
  <2>6. AttemptInv'
    BY <1>1, <1>2, <1>4, <2>1, <2>2, <2>5, NoStart DEF Paid
  <2> QED
    BY <2>1, <2>3, <2>4, <2>6 DEF LoopInv, BoardStep
<1> QED
  BY <1>1, <1>3, <1>4 DEF Quarantine, Quarantined

LEMMA RequeueBoard ==
  ASSUME BoardOK, claims' = claims, NEW t \in Task, NEW from, RequeueFrom(t, from)
  PROVE  /\ BoardStep({t})
         /\ Report(t, "requeued") \/ Report(t, "failed")
<1>1. MaxFaults \in Nat
  BY BatchAssumption
<1>2. ASSUME UNCHANGED board PROVE BoardStep({t})
  BY <1>2, IdleStep
<1>3. ASSUME NEW link \in Link, Transition(link, t, from, "ready")
      PROVE  BoardStep({t})
  BY <1>1, <1>3, TransitionStep DEF States
<1>4. ASSUME NEW link \in Link, Refused(link, t, from, "ready")
      PROVE  BoardStep({t})
  BY <1>4, RefusedStep
<1> QED
  BY <1>2, <1>3, <1>4 DEF RequeueFrom

LEMMA RequeueStep == ASSUME LoopInv, Requeue PROVE LoopInv'
<1>0. PICK t \in Task : t = at.task
  BY NotUsedUp DEF Requeue, TaskPoints
<1>1. /\ at \in At /\ at.pc = "requeue" /\ BoardOK /\ at.task = t
  BY <1>0 DEF Requeue, LoopInv, LoopOK
<1>2. /\ queueLock' = queueLock /\ child' = child /\ policy' = policy /\ stop' = stop
      /\ shutdown' = shutdown /\ systemic' = systemic /\ attempts' = attempts
      /\ starts' = starts /\ cut' = cut /\ claims' = claims
  BY DEF Requeue
<1>3. RequeueFrom(t, at.from) /\ Goto("tally")
  BY <1>1 DEF Requeue
<1>4. BoardStep({t}) /\ (Report(t, "requeued") \/ Report(t, "failed"))
  BY <1>1, <1>2, <1>3, RequeueBoard
<1>5. at' \in At /\ at'.pc = "tally" /\ at'.task = t
  BY <1>1, <1>3, GotoShape DEF Points
<1>6. VarsOK'
  BY <1>2, <1>4, ReportShape DEF LoopInv, LoopOK, VarsOK, Outcomes
<1> QED
  BY <1>1, <1>2, <1>4, <1>5, <1>6, GoesOn DEF TaskPoints, Paid

LEMMA CountStep == ASSUME LoopInv, Tally PROVE LoopInv'
<1>1. /\ at \in At /\ at.pc = "tally" /\ BoardOK /\ at.task \in Task /\ ~Leaving
  BY DEF Tally, LoopInv, LoopOK, PointInv, TaskPoints, Leaving
<1>2. /\ UNCHANGED board /\ queueLock' = queueLock /\ child' = child
      /\ policy' = policy /\ shutdown' = shutdown /\ attempts' = attempts
      /\ report' = report /\ starts' = starts /\ cut' = cut /\ claims' = claims
      /\ Goto("pass")
  BY DEF Tally
<1>3. BoardStep({})
  BY <1>1, <1>2, IdleStep
<1>4. at' \in At /\ at'.pc = "pass" /\ at'.task = None
  BY <1>1, <1>2, GotoShape DEF Points
<1>5. /\ systemic' \in [Signature -> SUBSET Task] /\ stop' \in BOOLEAN
      /\ (stop => stop') /\ (SystemicTripped(systemic') => stop')
  <2>1. /\ systemic \in [Signature -> SUBSET Task] /\ stop \in BOOLEAN
        /\ SystemicTripped(systemic) => stop
    BY DEF LoopInv, LoopOK, VarsOK, PointInv
  <2>2. CASE systemic' = systemic /\ stop' = stop
    BY <2>1, <2>2
  <2>3. CASE /\ systemic' = [s \in Signature |-> IF s \in CountedSigs(at.task)
                            THEN systemic[s] \cup {at.task} ELSE systemic[s]]
             /\ stop' = (stop \/ SystemicTripped(systemic'))
    BY <1>1, <2>1, <2>3
  <2> QED
    BY <2>2, <2>3 DEF Tally
<1>6. LoopOK'
  BY <1>2, <1>4, <1>5 DEF LoopInv, LoopOK, VarsOK
<1>7. PointInv'
  BY <1>4, <1>5 DEF PointInv, TaskPoints, SystemicTripped
<1>8. \A u \in Task : at'.task # u
  BY <1>4, BatchAssumption
<1>9. AttemptInv'
  BY <1>1, <1>2, <1>3, <1>5, <1>8, NoStart
<1> QED
  BY <1>3, <1>6, <1>7, <1>9 DEF LoopInv, BoardStep

LEMMA EndingStep == ASSUME LoopInv, Ending PROVE LoopInv'
<1>1. /\ at \in At /\ at.pc = "ending" /\ BoardOK /\ Leaving /\ at.task = None
  BY DEF Ending, LoopInv, LoopOK, PointInv, TaskPoints, Leaving
<1>2. /\ queueLock' = queueLock /\ policy' = policy /\ stop' = stop
      /\ shutdown' = shutdown /\ systemic' = systemic /\ attempts' = attempts
      /\ starts' = starts /\ cut' = cut /\ claims' = claims
  BY DEF Ending
<1>3. ASSUME NEW t \in Running, child' = [child EXCEPT ![t] = "none"],
             RequeueFrom(t, here[t].state), at' = at
      PROVE  LoopInv'
  <2>1. t \in Task
    BY DEF Running
  <2>2. BoardStep({t}) /\ (Report(t, "requeued") \/ Report(t, "failed"))
    BY <1>1, <1>2, <1>3, <2>1, RequeueBoard
  <2>3. LoopOK'
    BY <1>1, <1>2, <1>3, <2>2, ReportShape DEF LoopInv, LoopOK, VarsOK, Outcomes
  <2>4. \A u \in Task : child[u] = "none" => child'[u] = "none"
    BY <1>3 DEF LoopInv, LoopOK, VarsOK
  <2>5. \A u \in Task : at'.task # u
    BY <1>1, <1>3, BatchAssumption
  <2>6. at'.pc \notin Paid \cup {"seal"} \cup TaskPoints /\ Leaving'
    BY <1>1, <1>3 DEF Paid, TaskPoints, Leaving
  <2> QED
    BY <1>1, <1>2, <1>3, <2>2, <2>3, <2>4, <2>5, <2>6, LoopKept
<1>4. CASE Goto("over") /\ UNCHANGED <<board, child, report>>
  <2>1. BoardStep({})
    BY <1>1, <1>2, <1>4, IdleStep
  <2>2. VarsOK'
    BY <1>2, <1>4 DEF LoopInv, LoopOK, VarsOK
  <2> QED
    BY <1>1, <1>2, <1>4, <2>1, <2>2, LetGo
<1> QED
  BY <1>3, <1>4 DEF Ending

\* What goes on beside the run leaves it where it stands.
LEMMA BesideStep ==
  ASSUME LoopInv, at' = at, VarsOK', systemic' = systemic, attempts' = attempts,
         starts' = starts, stop' = stop, BoardStep({}),
         \A u \in Task : child[u] = "none" => child'[u] = "none",
         at.pc = "open" => here'[at.task].state = "in_progress"
  PROVE  LoopInv'
<1>1. LoopOK'
  BY DEF LoopInv, LoopOK
<1>2. PointInv'
  BY DEF LoopInv, PointInv, SystemicTripped
<1>3. AttemptInv'
  <2>1. ASSUME NEW u \in Task, at.task = u, attempts[u] = AttemptCap
        PROVE  at.task = u /\ at'.pc = at.pc
    BY <2>1
  <2>2. Leaving => Leaving'
    BY DEF Leaving
  <2>3. at.pc = "capped" => at'.task = at.task /\ at'.pc = "capped"
    OBVIOUS
  <2> QED
    BY <2>1, <2>2, <2>3, NoStart
<1> QED
  BY <1>1, <1>2, <1>3 DEF LoopInv, BoardStep

LEMMA ChildStep == ASSUME LoopInv, NEW t \in Task, ChildEnds(t) PROVE LoopInv'
<1>1. /\ UNCHANGED <<queueLock, at, loop, claims>> /\ child[t] = "working"
      /\ BoardOK /\ MaxFaults \in Nat
  BY BatchAssumption DEF ChildEnds, LoopInv
<1>2. \E exit \in Exits : child' = [child EXCEPT ![t] = exit]
  BY DEF ChildEnds, Exits
<1>3. /\ child' \in [Task -> {"none", "working"} \cup Exits]
      /\ \A u \in Task : child[u] = "none" => child'[u] = "none"
  BY <1>1, <1>2 DEF LoopInv, LoopOK, VarsOK
<1>4. VarsOK' /\ systemic' = systemic /\ attempts' = attempts
      /\ starts' = starts /\ stop' = stop /\ at' = at /\ claims' = claims
  BY <1>1, <1>3 DEF LoopInv, LoopOK, VarsOK, loop
<1>5. ASSUME NEW class \in Classes, NEW s \in Signature, NEW link \in Link,
             Write(link, Recorded(here, t, class, s))
      PROVE  BoardStep({}) /\ \A u \in Task : here'[u].state = here[u].state
  <2>1. BoardStep({})
    BY <1>1, <1>4, <1>5, RecordStep
  <2>2. here' = Recorded(here, t, class, s)
    BY <1>5 DEF Write
  <2> QED
    BY <1>1, <2>1, <2>2, RecordedShape DEF BoardOK
<1>6. CASE UNCHANGED board
  <2>1. BoardStep({}) /\ here' = here
    BY <1>1, <1>4, <1>6, IdleStep DEF board
  <2> QED
    BY <1>3, <1>4, <2>1, BesideStep DEF LoopInv, PointInv
<1>7. CASE \E class \in Classes \ {"none"}, s \in Signature, link \in Link :
                Write(link, Recorded(here, t, class, s))
  <2>1. BoardStep({}) /\ \A u \in Task : here'[u].state = here[u].state
    BY <1>5, <1>7
  <2> QED
    BY <1>3, <1>4, <2>1, BesideStep DEF LoopInv, PointInv, TaskPoints
<1> QED
  BY <1>6, <1>7 DEF ChildEnds

LEMMA ShutDownStep == ASSUME LoopInv, ShutDown PROVE LoopInv'
<1>1. /\ UNCHANGED <<board, queueLock, child, at, policy, stop, systemic, attempts,
                   report, starts, cut, claims>>
      /\ shutdown' = TRUE
  BY DEF ShutDown
<1>2. BoardStep({}) /\ here' = here
  BY <1>1, IdleStep DEF board, LoopInv
<1>3. VarsOK'
  BY <1>1 DEF LoopInv, LoopOK, VarsOK
<1> QED
  BY <1>1, <1>2, <1>3, BesideStep DEF LoopInv, PointInv

LEMMA ElsewhereStep == ASSUME LoopInv, NEW t \in Task, ClaimElsewhere(t) PROVE LoopInv'
<1>1. /\ UNCHANGED <<here, lost, queueLock, child, at, loop>>
      /\ claims' = claims + 1 /\ there' = Move(there, t, "in_progress")
      /\ lost + claims < MaxFaults /\ BoardOK /\ MaxFaults \in Nat
  BY BatchAssumption DEF ClaimElsewhere, LoopInv
<1>2. "in_progress" \in States \ {"merged", "blocked"}
  BY DEF States
<1>3. there \in [Task -> Record]
  BY <1>1 DEF BoardOK
<1>4. /\ there' \in [Task -> Record] /\ there'[t].state = "in_progress"
      /\ \A u \in Task \ {t} : there'[u] = there[u]
  BY <1>1, <1>2, <1>3, MovePlain
<1>5. \A u \in Task : Startable(u)' => Startable(u)
  BY <1>1, <1>4 DEF Startable, Openable
<1>6. BoardOK'
  BY <1>1, <1>4 DEF BoardOK, Faults
<1>7. BoardStep({})
  BY <1>1, <1>5, <1>6 DEF BoardStep, BoardOK
<1>8. VarsOK' /\ systemic' = systemic /\ attempts' = attempts
      /\ starts' = starts /\ stop' = stop
  BY <1>1 DEF LoopInv, LoopOK, VarsOK, loop
<1> QED
  BY <1>1, <1>7, <1>8, BesideStep DEF LoopInv, PointInv

LEMMA LoopStep == LoopInv /\ [Next]_vars => LoopInv'
<1> SUFFICES ASSUME LoopInv, [Next]_vars PROVE LoopInv'
  OBVIOUS
<1>1. CASE UNCHANGED vars
  <2>1. BoardStep({}) /\ here' = here
    BY <1>1, IdleStep DEF vars, board, LoopInv
  <2>2. VarsOK' /\ systemic' = systemic /\ attempts' = attempts
      /\ starts' = starts /\ stop' = stop /\ child' = child /\ at' = at
    BY <1>1 DEF vars, loop, LoopInv, LoopOK, VarsOK
  <2> QED
    BY <2>1, <2>2, BesideStep DEF LoopInv, PointInv
<1>2. CASE RunStep
  <2>1. CASE Pass \/ Seal \/ Pick \/ Open \/ Idle \/ ShutDownLoop
    BY <2>1, PassStep, SealStep, PickStep, OpenStep, IdleLoopStep
  <2>2. CASE \E t \in Task : Collect(t)
    BY <2>2, CollectStep
  <2>3. CASE SettleEmpty \/ SettleForReview \/ SettleByIntegration \/ Unstaged
    BY <2>3, SettleEmptyStep, ReviewStep, IntegrationStep, UnstagedStep
  <2>4. CASE SettleFailure \/ MarkFailed \/ Break
    BY <2>4, FailureStep, MarkFailedStep, BreakStep
  <2>5. CASE Route \/ Quarantine \/ Requeue
    BY <2>5, RouteStep, QuarantineStep, RequeueStep
  <2>6. CASE Tally \/ Ending
    BY <2>6, CountStep, EndingStep
  <2> QED
    BY <1>2, <2>1, <2>2, <2>3, <2>4, <2>5, <2>6 DEF RunStep
<1>3. CASE \E t \in Task : ChildEnds(t) \/ ClaimElsewhere(t)
  BY <1>3, ChildStep, ElsewhereStep
<1>4. CASE ShutDown
  BY <1>4, ShutDownStep
<1> QED
  BY <1>1, <1>2, <1>3, <1>4 DEF Next

THEOREM LoopInvariant == Spec => []LoopInv
<1>1. Init => LoopInv
  BY LoopInit
<1>2. LoopInv /\ [Next]_vars => LoopInv'
  BY LoopStep
<1> QED
  BY <1>1, <1>2, PTL DEF Spec

\* The types of the run's variables, in particular that no task's attempts are
\* ever counted beyond the cap (attempt_counts).
THEOREM BatchTypes == Spec => []TypeOK
<1>1. LoopInv => TypeOK
  BY DEF LoopInv, BoardOK, LoopOK, VarsOK, TypeOK, At, Outcomes, Faults
<1> QED
  BY <1>1, LoopInvariant, PTL

\* AttemptsBounded, for every board, cap and number of faults: a task is started
\* at most as often as the cap says, plus once for each call that did not reach
\* origin and each claim made elsewhere (attempt_counts, _finalize_task).
THEOREM StartsBounded == Spec => []AttemptsBounded
<1>1. LoopInv => AttemptsBounded
  <2> SUFFICES ASSUME LoopInv, NEW t \in Task
               PROVE  starts[t] <= AttemptCap + lost + claims
    BY DEF AttemptsBounded
  <2>1. starts[t] <= AttemptCap + (lost + claims)
    BY DEF LoopInv, AttemptInv, Bounded, Faults
  <2>2. lost \in Nat /\ claims \in Nat /\ AttemptCap \in Nat /\ starts[t] \in Nat
    BY BatchAssumption DEF LoopInv, BoardOK, LoopOK, VarsOK
  <2> QED
    BY <2>1, <2>2
<1> QED
  BY <1>1, LoopInvariant, PTL

-----------------------------------------------------------------------------
(* A run whose calls all reach origin, and that is alone, leaves the board  *)
(* settled: both copies of the board agree, no transition is refused, and   *)
(* what the run reports of a task is what the board shows.                  *)

\* Where the run's task is still in progress, and where it has failed.
InHand == {"open", "settle", "unstaged", "failing", "break"}
Judged == {"route", "capped", "quarantine", "requeue"}

QuietPoint ==
    /\ at.pc # "locked"
    /\ at.pc \in InHand => here[at.task].state = "in_progress"
    /\ at.pc \in InHand \ {"open"} => at.from = "in_progress"
    /\ at.pc \in Judged => here[at.task].state = "failed"
    /\ at.pc \in Judged \ {"route"} => at.from = "failed"
    /\ at.pc \in Judged \cup {"open"} => ~BreakerOpen(at.task)
    /\ at.pc = "failing" /\ at.then = "route" => ~BreakerOpen(at.task)

OnTrain(t) == here[t].state = "awaiting_merge" /\ here[t].train
AtEnd(t) ==
    /\ at.pc = "seal" /\ at.then = "idle" => child[t] = "none" /\ ~OnTrain(t)
    /\ at.pc = "over" => child[t] = "none"
    /\ Leaving /\ ~stop /\ ~shutdown /\ ~cut =>
          child[t] = "none" /\ here[t].state # "ready" /\ ~OnTrain(t)

Waits(t) == \E b \in Blockers[t] : ~Settled(here, b)
OnBoard(t) ==
    /\ child[t] # "none" => here[t].state = "in_progress"
    /\ here[t].state = "blocked" =>
          Waits(t) /\ \A s \in Signature : here[t].count[s] = 0
    /\ here[t].state = "ready" => Leaving \/ ~BreakerOpen(t)
    /\ here[t].state = "in_progress" /\ child[t] = "none" =>
          report[t] = "requeued" \/ cut \/ (at.task = t /\ at.pc \in InHand)
Reported(t) ==
    /\ report[t] = "succeeded" => here[t].state \in {"awaiting_merge", "merged"}
    /\ report[t] = "failed" => here[t].state \in {"failed", "quarantined"}
    /\ report[t] = "requeued" => here[t].state \in {"ready", "in_progress", "failed"}

QuietTask(t) == AtEnd(t) /\ OnBoard(t) /\ Reported(t)
Quiet == here = there /\ QuietPoint /\ \A t \in Task : QuietTask(t)
QuietInv == Faultless => Quiet

\* What the board operations do in such a run.
LEMMA QuietWrite ==
  ASSUME BoardOK, claims' = claims, Faultless', NEW link, NEW records,
         Write(link, records)
  PROVE  Faultless /\ here' = records /\ there' = records
<1>1. lost' = 0 /\ claims = 0 /\ lost \in Nat
  BY DEF Faultless, BoardOK
<1>2. CASE link = "up"
  BY <1>1, <1>2 DEF Write, Faultless
<1>3. CASE link # "up"
  <2>1. lost' = lost + 1
    BY <1>3 DEF Write
  <2>2. lost + 1 # 0
    BY <1>1
  <2> QED
    BY <1>1, <2>1, <2>2
<1> QED
  BY <1>2, <1>3

LEMMA QuietFetch ==
  ASSUME BoardOK, here = there, NEW link
  PROVE  Fetched(link) = here
<1>1. \A t \in Task : Fetched(link)[t] = here[t]
  BY DEF Fetched
<1>2. Fetched(link) \in [Task -> Record] /\ here \in [Task -> Record]
  BY FetchedShape DEF BoardOK
<1> QED
  BY <1>1, <1>2

LEMMA QuietRefusal ==
  ASSUME BoardOK, QuietInv, claims' = claims, Faultless',
         NEW link, NEW t, NEW from, NEW s, Refused(link, t, from, s)
  PROVE  /\ Quiet /\ here' = here /\ there' = there
         /\ ~(here[t].state = from /\ <<from, s>> \in Legal)
<1>1. Faultless
  BY DEF Refused, Refuse, Faultless
<1>2. Quiet /\ here = there
  BY <1>1 DEF QuietInv, Quiet
<1>3. Fetched(link) = here
  BY <1>2, QuietFetch
<1> QED
  BY <1>2, <1>3 DEF Refused, Refuse, Accepts

LEMMA QuietTransition ==
  ASSUME BoardOK, QuietInv, claims' = claims, Faultless',
         NEW link, NEW t \in Task, NEW from,
         NEW s \in States \ {"merged", "blocked"}, Transition(link, t, from, s)
  PROVE  /\ Quiet /\ here' = there' /\ here[t].state = from
         /\ here'[t].state = s /\ here'[t].count = here[t].count
         /\ \A u \in Task \ {t} : here'[u] = here[u]
<1>1. /\ Faultless /\ here' = Move(Fetched(link), t, s)
      /\ there' = Move(Fetched(link), t, s)
  BY QuietWrite DEF Transition
<1>2. Quiet /\ here = there
  BY <1>1 DEF QuietInv, Quiet
<1>3. Fetched(link) = here /\ here \in [Task -> Record]
  BY <1>2, QuietFetch DEF BoardOK
<1>4. here' = Move(here, t, s) /\ here' = there'
  BY <1>1, <1>3
<1>5. /\ Move(here, t, s)[t].state = s
      /\ Move(here, t, s)[t].count = here[t].count
      /\ \A u \in Task \ {t} : Move(here, t, s)[u] = here[u]
  BY <1>3, MovePlain
<1> QED
  BY <1>2, <1>3, <1>4, <1>5 DEF Transition, Accepts

LEMMA QuietSame ==
  ASSUME QuietInv, Faultless', claims' = claims, UNCHANGED board
  PROVE  Quiet /\ here' = here /\ there' = there
  BY DEF QuietInv, Faultless, board

\* A task that a step leaves alone.
Alone(u) ==
    /\ here'[u].state = here[u].state
    /\ OnTrain(u)' => OnTrain(u)
    /\ here[u].state \in Openable => here'[u].count = here[u].count
    /\ child'[u] = child[u] \/ (child[u] # "none" /\ child'[u] # "none")
    /\ report'[u] = report[u]
    /\ at.task = u /\ at.pc \in InHand /\ here[u].state = "in_progress" =>
          at'.task = u /\ at'.pc \in InHand

LEMMA QuietOther ==
  ASSUME NEW u \in Task, QuietTask(u), Alone(u), AtEnd(u)',
         cut => cut', Leaving => Leaving',
         \A b \in Task : Settled(here, b)' => Settled(here, b)
  PROVE  QuietTask(u)'
<1>1. Reported(u)'
  BY DEF QuietTask, Reported, Alone
<1>2. BreakerOpen(u)' => BreakerOpen(u) \/ here[u].state \notin Openable
  BY DEF Alone, BreakerOpen
<1>3. Waits(u) => Waits(u)'
  BY BatchAssumption DEF Waits
<1>4. OnBoard(u)'
  BY <1>2, <1>3 DEF QuietTask, OnBoard, Alone, Openable
<1> QED
  BY <1>1, <1>4 DEF QuietTask

\* A step that moves one task, or none, and does not end the loop.
LEMMA QuietRest ==
  ASSUME Quiet, NEW t \in Task,
         \A u \in Task \ {t} : /\ here'[u] = here[u] /\ child'[u] = child[u]
                               /\ report'[u] = report[u],
         here'[t].state # "merged", cut => cut', ~Leaving,
         at'.pc \notin {"seal", "ending", "over"},
         at.pc \in InHand => at.task = t,
         here' = there', QuietPoint', OnBoard(t)', Reported(t)'
  PROVE  QuietInv'
<1>1. \A u \in Task : AtEnd(u)'
  BY DEF AtEnd, Leaving
<1>2. \A b \in Task : Settled(here, b)' => Settled(here, b)
  BY DEF Settled
<1>3. ASSUME NEW u \in Task \ {t} PROVE QuietTask(u)'
  <2>1. Alone(u)
    BY DEF Alone, OnTrain
  <2> QED
    BY <1>1, <1>2, <2>1, QuietOther DEF Quiet
<1>4. QuietTask(t)'
  BY <1>1 DEF QuietTask
<1> QED
  BY <1>3, <1>4 DEF QuietInv, Quiet

LEMMA QuietStay ==
  ASSUME Quiet, here' = here, there' = there, child' = child, report' = report,
         cut => cut', ~Leaving, at'.pc \notin {"seal", "ending", "over"},
         at.pc \in InHand => at'.pc \in InHand /\ at'.task = at.task,
         QuietPoint'
  PROVE  QuietInv'
<1>1. \A u \in Task : AtEnd(u)'
  BY DEF AtEnd, Leaving
<1>2. ASSUME NEW u \in Task PROVE QuietTask(u)'
  <2>1. Alone(u)
    BY DEF Alone, OnTrain
  <2>2. \A b \in Task : Settled(here, b)' => Settled(here, b)
    OBVIOUS
  <2> QED
    BY <1>1, <2>1, <2>2, QuietOther DEF Quiet
<1> QED
  BY <1>2 DEF QuietInv, Quiet

LEMMA QuietFlush ==
  ASSUME LoopInv, QuietInv, Faultless', at.pc \in {"pass", "poll"}, NEW then,
         then = "idle" => \A u \in Task : child[u] = "none", Flush(then)
  PROVE  QuietInv'
<1>1. /\ child' = child /\ cut' = cut /\ claims' = claims /\ BoardOK /\ ~Leaving
      /\ at \in At
  BY DEF Flush, LoopInv, LoopOK, Leaving
<1>2. PICK landed \in SUBSET Staged, ejected \in SUBSET Staged, link \in Link :
        LET off == landed \cup ejected
        IN  /\ IF off = {} THEN link = "up" /\ UNCHANGED board
               ELSE Write(link, [t \in Task |->
                        IF t \in off THEN [here[t] EXCEPT !.train = FALSE]
                        ELSE here[t]])
            /\ \/ /\ off = Staged
                  /\ at' = [at EXCEPT !.pc = "seal", !.ids = landed,
                                      !.then = then]
                  /\ report' = [t \in Task |->
                        IF t \in landed THEN "succeeded" ELSE report[t]]
               \/ Goto("poll") /\ report' = report
  BY DEF Flush
<1> DEFINE off == landed \cup ejected
           records == [t \in Task |-> IF t \in off THEN [here[t] EXCEPT !.train = FALSE]
                                      ELSE here[t]]
<1>3. /\ Quiet /\ here' = there'
      /\ \A u \in Task : /\ here'[u].state = here[u].state
                         /\ here'[u].count = here[u].count
                         /\ u \in off => ~here'[u].train
                         /\ u \notin off => here'[u] = here[u]
  <2>1. CASE off = {}
    BY <1>1, <1>2, <2>1, QuietSame DEF Quiet
  <2>2. CASE off # {}
    <3>1. Write(link, records)
      BY <1>2, <2>2
    <3>2. \A u \in Task : /\ records[u].state = here[u].state
                          /\ records[u].count = here[u].count
                          /\ u \in off => ~records[u].train
                          /\ u \notin off => records[u] = here[u]
      BY <1>1 DEF BoardOK, Record
    <3> HIDE DEF records
    <3>3. Faultless /\ here' = records /\ there' = records
      BY <1>1, <3>1, QuietWrite
    <3> QED
      BY <3>2, <3>3 DEF QuietInv
  <2> QED
    BY <2>1, <2>2
<1>4. \A u \in Task : /\ OnTrain(u)' => OnTrain(u)
                      /\ OnTrain(u) => u \in Staged
                      /\ u \in off => ~OnTrain(u)'
                      /\ u \in landed => here[u].state = "awaiting_merge"
  BY <1>3 DEF OnTrain, Staged
<1>5. at.pc \notin InHand
  BY DEF InHand
<1>6. \A b \in Task : Settled(here, b)' => Settled(here, b)
  BY <1>3 DEF Settled
<1>7. CASE /\ off = Staged
           /\ at' = [at EXCEPT !.pc = "seal", !.ids = landed, !.then = then]
           /\ report' = [t \in Task |->
                        IF t \in landed THEN "succeeded" ELSE report[t]]
  <2>1. at'.pc = "seal" /\ at'.then = then
    BY <1>1, <1>7 DEF At
  <2>2. QuietPoint'
    BY <2>1 DEF QuietPoint, InHand, Judged
  <2>3. ASSUME NEW u \in Task PROVE QuietTask(u)'
    <3>1. AtEnd(u)'
      BY <1>1, <1>4, <1>7, <2>1 DEF AtEnd, Leaving
    <3>2. CASE u \notin landed
      <4>1. Alone(u)
        BY <1>1, <1>3, <1>4, <1>5, <1>7, <3>2 DEF Alone
      <4> QED
        BY <1>1, <1>3, <1>6, <3>1, <4>1, QuietOther DEF Quiet
    <3>3. CASE u \in landed
      <4>1. /\ report'[u] = "succeeded" /\ here'[u].state = "awaiting_merge"
            /\ child'[u] = "none"
        <5>1. here[u].state = "awaiting_merge"
          BY <1>4, <3>3
        <5>2. child[u] = "none"
          BY <1>3, <5>1 DEF Quiet, QuietTask, OnBoard
        <5> QED
          BY <1>1, <1>3, <1>7, <3>3, <5>1, <5>2
      <4>2. OnBoard(u)' /\ Reported(u)'
        BY <4>1 DEF OnBoard, Reported
      <4> QED
        BY <3>1, <4>2 DEF QuietTask
    <3> QED
      BY <3>2, <3>3
  <2> QED
    BY <1>3, <2>2, <2>3 DEF QuietInv, Quiet
<1>8. CASE Goto("poll") /\ report' = report
  <2>1. at'.pc = "poll"
    BY <1>1, <1>8, GotoShape DEF Points
  <2>2. QuietPoint'
    BY <2>1 DEF QuietPoint, InHand, Judged
  <2>3. ASSUME NEW u \in Task PROVE QuietTask(u)'
    <3>1. AtEnd(u)'
      BY <2>1 DEF AtEnd, Leaving
    <3>2. Alone(u)
      BY <1>1, <1>3, <1>4, <1>5, <1>8 DEF Alone
    <3> QED
      BY <1>1, <1>3, <1>6, <3>1, <3>2, QuietOther DEF Quiet
  <2> QED
    BY <1>3, <2>2, <2>3 DEF QuietInv, Quiet
<1> QED
  BY <1>2, <1>7, <1>8

LEMMA QuietPass == ASSUME LoopInv, QuietInv, Faultless', Pass PROVE QuietInv'
<1>1. CASE Flush("pick")
  BY <1>1, QuietFlush DEF Pass
<1>2. CASE /\ \E pc \in {"pick", "poll"} : Goto(pc)
           /\ UNCHANGED <<board, queueLock, child, loop, claims>>
  <2>1. Quiet /\ here' = here /\ there' = there
    BY <1>2, QuietSame
  <2>2. PICK pc \in {"pick", "poll"} : at'.pc = pc
    BY <1>2, GotoShape DEF LoopInv, LoopOK, Points
  <2>3. QuietPoint'
    BY <2>2 DEF QuietPoint, InHand, Judged
  <2>4. at.pc \notin InHand /\ ~Leaving
    BY DEF Pass, InHand, Leaving
  <2> QED
    BY <1>2, <2>1, <2>2, <2>3, <2>4, QuietStay DEF loop
<1> QED
  BY <1>1, <1>2 DEF Pass

\* Settling a task opens those that waited for nothing else; none of them has
\* failed yet.
LEMMA QuietSettled ==
  ASSUME LoopInv, QuietInv, Faultless', claims' = claims, at.pc = "seal",
         NEW link \in Link, NEW t \in Task,
         Transition(link, t, "awaiting_merge", "merged"),
         at'.pc = "seal", at'.then = at.then, child' = child, UNCHANGED loop
  PROVE  QuietInv'
<1>1. BoardOK /\ here \in [Task -> Record] /\ ~Leaving
  BY DEF LoopInv, BoardOK, Leaving
<1>2. /\ Faultless /\ here' = Move(Fetched(link), t, "merged")
      /\ there' = Move(Fetched(link), t, "merged")
  BY <1>1, QuietWrite DEF Transition
<1>3. Quiet /\ here = there
  BY <1>2 DEF QuietInv, Quiet
<1>4. Fetched(link) = here
  BY <1>1, <1>3, QuietFetch
<1>5. /\ here' = Move(here, t, "merged") /\ here' = there'
      /\ here[t].state = "awaiting_merge"
  BY <1>2, <1>4 DEF Transition, Accepts
<1> DEFINE moved == [here EXCEPT ![t].state = "merged"]
           Opens(u) == /\ t \in Blockers[u] /\ moved[u].state = "blocked"
                       /\ \A b \in Blockers[u] : Settled(moved, b)
<1>6. /\ moved[t].state = "merged"
      /\ \A u \in Task \ {t} : moved[u] = here[u]
  <2>1. [here[t] EXCEPT !.state = "merged"].state = "merged"
    BY <1>1, SetState DEF States
  <2> QED
    BY <1>1, <2>1
<1>7. here' = [u \in Task |-> IF Opens(u) THEN [moved[u] EXCEPT !.state = "ready"]
                                         ELSE moved[u]]
  BY <1>5 DEF Move
<1> HIDE DEF moved
<1>8. here'[t].state = "merged"
  BY <1>6, <1>7
<1>9. ASSUME NEW u \in Task \ {t}, ~Opens(u) PROVE here'[u] = here[u]
  BY <1>6, <1>7, <1>9
<1>10. ASSUME NEW u \in Task \ {t}, Opens(u)
       PROVE  /\ here[u].state = "blocked" /\ here'[u].state = "ready"
              /\ here'[u].count = here[u].count
  <2>1. here'[u] = [here[u] EXCEPT !.state = "ready"] /\ here[u].state = "blocked"
    BY <1>6, <1>7, <1>10
  <2> QED
    BY <1>1, <2>1, SetState DEF States
<1>11. \A b \in Task \ {t} : Settled(here, b)' <=> Settled(moved, b)
  BY <1>6, <1>9, <1>10 DEF Settled
<1>12. QuietPoint'
  BY DEF QuietPoint, InHand, Judged
<1>13. ASSUME NEW u \in Task PROVE QuietTask(u)'
  <2>1. QuietTask(u)
    BY <1>3 DEF Quiet
  <2>2. child'[u] = child[u] /\ report'[u] = report[u] /\ stop' = stop
        /\ shutdown' = shutdown /\ cut' = cut
    BY DEF loop
  <2>3. CASE u = t
    <3>1. AtEnd(u)' /\ OnBoard(u)' /\ Reported(u)'
      BY <1>5, <1>8, <2>1, <2>2, <2>3
         DEF QuietTask, AtEnd, OnBoard, Reported, OnTrain, Leaving
    <3> QED
      BY <3>1 DEF QuietTask
  <2>4. CASE u # t /\ Opens(u)
    <3>1. here[u].state = "blocked" /\ here'[u].state = "ready"
          /\ here'[u].count = here[u].count
      BY <1>10, <2>4
    <3>2. ~BreakerOpen(u)'
      <4>1. \A s \in Signature : here'[u].count[s] = 0
        BY <2>1, <3>1 DEF QuietTask, OnBoard
      <4>2. BreakerThreshold \in Nat \ {0}
        BY BatchAssumption
      <4> QED
        BY <4>1, <4>2 DEF BreakerOpen
    <3>3. child[u] = "none" /\ report[u] \notin {"succeeded", "failed", "requeued"}
      BY <2>1, <3>1 DEF QuietTask, OnBoard, Reported
    <3>4. AtEnd(u)'
      BY <2>2, <3>1, <3>3 DEF AtEnd, OnTrain, Leaving
    <3>5. OnBoard(u)' /\ Reported(u)'
      BY <2>2, <3>1, <3>2, <3>3 DEF OnBoard, Reported
    <3> QED
      BY <3>4, <3>5 DEF QuietTask
  <2>5. CASE u # t /\ ~Opens(u)
    <3>1. here'[u] = here[u]
      BY <1>9, <2>5
    <3>2. AtEnd(u)' /\ Reported(u)'
      BY <2>1, <2>2, <3>1 DEF QuietTask, AtEnd, OnTrain, Reported, Leaving
    <3>3. here[u].state = "blocked" => Waits(u)'
      <4> SUFFICES ASSUME here[u].state = "blocked" PROVE Waits(u)'
        OBVIOUS
      <4>1. Blockers[u] \subseteq Task
        BY BatchAssumption
      <4>2. CASE t \in Blockers[u]
        <5>1. moved[u].state = "blocked"
          BY <1>6, <2>5
        <5>2. PICK b \in Blockers[u] : ~Settled(moved, b)
          BY <2>5, <4>2, <5>1
        <5>3. b # t
          BY <1>6, <5>2 DEF Settled
        <5> QED
          BY <1>11, <4>1, <5>2, <5>3 DEF Waits
      <4>3. CASE t \notin Blockers[u]
        <5>1. PICK b \in Blockers[u] : ~Settled(here, b)
          BY <2>1 DEF QuietTask, OnBoard, Waits
        <5>2. b # t /\ b \in Task
          BY <4>1, <4>3, <5>1
        <5>3. ~Settled(moved, b)
          BY <1>6, <5>1, <5>2 DEF Settled
        <5> QED
          BY <1>11, <5>1, <5>2, <5>3 DEF Waits
      <4> QED
        BY <4>2, <4>3
    <3>4. OnBoard(u)'
      <4>1. BreakerOpen(u)' = BreakerOpen(u)
        BY <3>1 DEF BreakerOpen
      <4>2. at.pc \notin InHand
        BY DEF InHand
      <4> QED
        BY <1>1, <2>1, <2>2, <3>1, <3>3, <4>1, <4>2 DEF QuietTask, OnBoard
    <3> QED
      BY <3>2, <3>4 DEF QuietTask
  <2> QED
    BY <2>3, <2>4, <2>5
<1> QED
  BY <1>5, <1>12, <1>13 DEF QuietInv, Quiet

\* The loop is left with nothing to do, or because it was told to stop.
LEMMA QuietLeave ==
  ASSUME Quiet, here' = here, there' = there, child' = child, report' = report,
         cut => cut', at'.pc = "ending", at.pc \in InHand => cut',
         \A u \in Task : stop' \/ shutdown' \/ cut' \/
            (child[u] = "none" /\ here[u].state # "ready" /\ ~OnTrain(u))
  PROVE  QuietInv'
<1>1. QuietPoint'
  BY DEF QuietPoint, InHand, Judged
<1>2. ASSUME NEW u \in Task PROVE QuietTask(u)'
  <2>1. QuietTask(u)
    BY DEF Quiet
  <2>2. AtEnd(u)'
    BY DEF AtEnd, OnTrain
  <2>3. Waits(u)' = Waits(u) /\ BreakerOpen(u)' = BreakerOpen(u)
    BY DEF Waits, BreakerOpen
  <2>4. Leaving'
    BY DEF Leaving
  <2>5. OnBoard(u)'
    BY <2>1, <2>3, <2>4 DEF QuietTask, OnBoard
  <2>6. Reported(u)'
    BY <2>1 DEF QuietTask, Reported
  <2> QED
    BY <2>2, <2>5, <2>6 DEF QuietTask
<1> QED
  BY <1>1, <1>2 DEF QuietInv, Quiet

LEMMA QuietSeal == ASSUME LoopInv, QuietInv, Faultless', Seal PROVE QuietInv'
<1>1. /\ at.pc = "seal" /\ at \in At /\ ~Leaving /\ BoardOK
      /\ at.then \in {"pick", "idle"} /\ at.pc \notin InHand
  BY DEF Seal, LoopInv, LoopOK, PointInv, Leaving, InHand
<1>2. /\ claims' = claims /\ child' = child /\ UNCHANGED loop
      /\ report' = report /\ cut' = cut /\ stop' = stop /\ shutdown' = shutdown
  BY DEF Seal, loop
<1>3. ASSUME NEW t \in at.ids, NEW link \in Link,
             Transition(link, t, "awaiting_merge", "merged"),
             at' = [at EXCEPT !.ids = @ \ {t}]
      PROVE  QuietInv'
  <2>1. t \in Task /\ at'.pc = "seal" /\ at'.then = at.then
    BY <1>1, <1>3 DEF At
  <2> QED
    BY <1>1, <1>2, <1>3, <2>1, QuietSettled
<1>4. ASSUME NEW t \in at.ids, NEW link \in Link,
             Refused(link, t, "awaiting_merge", "merged"),
             at' = [at EXCEPT !.ids = @ \ {t}]
      PROVE  QuietInv'
  <2>1. at'.pc = "seal" /\ at'.then = at.then
    BY <1>1, <1>4 DEF At
  <2>2. Quiet /\ here' = here /\ there' = there
    BY <1>1, <1>2, <1>4, QuietRefusal
  <2>3. QuietPoint'
    BY <2>1 DEF QuietPoint, InHand, Judged
  <2>4. ASSUME NEW u \in Task PROVE QuietTask(u)'
    <3>1. AtEnd(u)'
      BY <1>1, <1>2, <2>1, <2>2 DEF Quiet, QuietTask, AtEnd, OnTrain, Leaving
    <3>2. Alone(u)
      BY <1>1, <1>2, <2>2 DEF Alone, OnTrain
    <3> QED
      BY <1>1, <1>2, <2>2, <3>1, <3>2, QuietOther DEF Quiet
  <2> QED
    BY <2>2, <2>3, <2>4 DEF QuietInv, Quiet
<1>5. CASE /\ Goto(IF at.then = "pick" THEN "pick"
                   ELSE IF Actionable # {} THEN "pass" ELSE "ending")
           /\ UNCHANGED board
  <2>1. Quiet /\ here' = here /\ there' = there
    BY <1>2, <1>5, QuietSame
  <2>2. CASE at.then = "pick" \/ Actionable # {}
    <3>1. at'.pc \in {"pick", "pass"}
      BY <1>1, <1>5, <2>2, GotoShape DEF Points
    <3>2. QuietPoint'
      BY <3>1 DEF QuietPoint, InHand, Judged
    <3> QED
      BY <1>1, <1>2, <2>1, <3>1, <3>2, QuietStay
  <2>3. CASE at.then = "idle" /\ Actionable = {}
    <3>1. at'.pc = "ending"
      BY <1>1, <1>5, <2>3, GotoShape DEF Points
    <3>2. \A u \in Task : child[u] = "none" /\ ~OnTrain(u)
      BY <1>1, <2>1, <2>3 DEF Quiet, QuietTask, AtEnd
    <3>3. \A u \in Task : here[u].state # "ready"
      BY <2>3 DEF Actionable, Ready
    <3> QED
      BY <1>1, <1>2, <2>1, <3>1, <3>2, <3>3, QuietLeave
  <2> QED
    BY <1>1, <2>2, <2>3
<1> QED
  BY <1>3, <1>4, <1>5 DEF Seal

LEMMA QuietPick == ASSUME LoopInv, QuietInv, Faultless', Pick PROVE QuietInv'
<1>1. /\ at.pc = "pick" /\ at \in At /\ ~Leaving /\ BoardOK /\ at.pc \notin InHand
      /\ claims' = claims /\ child' = child /\ report' = report /\ cut' = cut
  BY DEF Pick, LoopInv, LoopOK, Leaving, InHand, loop
<1>2. ASSUME NEW t \in NextReady, NEW link \in Link,
             Transition(link, t, "ready", "in_progress"),
             at' = [at EXCEPT !.pc = "open", !.task = t]
      PROVE  QuietInv'
  <2>1. t \in Task /\ child[t] = "none"
    BY DEF NextReady, Ready, Running
  <2>2. /\ Quiet /\ here' = there' /\ here[t].state = "ready"
        /\ here'[t].state = "in_progress" /\ here'[t].count = here[t].count
        /\ \A u \in Task \ {t} : here'[u] = here[u]
    BY <1>1, <1>2, <2>1, QuietTransition DEF States
  <2>3. at'.pc = "open" /\ at'.task = t
    BY <1>1, <1>2, <2>1 DEF At
  <2>4. ~BreakerOpen(t)'
    BY <1>1, <2>1, <2>2 DEF Quiet, QuietTask, OnBoard, BreakerOpen
  <2>5. BreakerOpen(at.task)' = BreakerOpen(t)'
    BY <2>3 DEF BreakerOpen
  <2>6. QuietPoint'
    BY <2>2, <2>3, <2>4, <2>5 DEF QuietPoint, InHand, Judged
  <2>7. OnBoard(t)'
    BY <1>1, <2>1, <2>2, <2>3 DEF OnBoard, InHand
  <2>8. Reported(t)'
    BY <1>1, <2>1, <2>2 DEF Quiet, QuietTask, Reported
  <2> QED
    BY <1>1, <2>1, <2>2, <2>3, <2>6, <2>7, <2>8, QuietRest
<1>3. ASSUME NEW t \in NextReady, NEW link \in Link,
             Refused(link, t, "ready", "in_progress")
      PROVE  FALSE
  <2>1. here[t].state = "ready" /\ <<"ready", "in_progress">> \in Legal
    BY DEF NextReady, Ready, Legal
  <2> QED
    BY <1>1, <1>3, <2>1, QuietRefusal
<1>4. CASE Goto("poll") /\ UNCHANGED board
  <2>1. Quiet /\ here' = here /\ there' = there
    BY <1>1, <1>4, QuietSame
  <2>2. at'.pc = "poll"
    BY <1>1, <1>4, GotoShape DEF Points
  <2>3. QuietPoint'
    BY <2>2 DEF QuietPoint, InHand, Judged
  <2> QED
    BY <1>1, <2>1, <2>2, <2>3, QuietStay
<1> QED
  BY <1>2, <1>3, <1>4 DEF Pick

LEMMA QuietOpen == ASSUME LoopInv, QuietInv, Faultless', Open PROVE QuietInv'
<1>0. PICK t \in Task : t = at.task
  BY NotUsedUp DEF Open, TaskPoints
<1>1. /\ at.pc = "open" /\ at \in At /\ ~Leaving /\ BoardOK /\ at.task = t
      /\ claims' = claims /\ report' = report /\ here[t].state = "in_progress"
      /\ child[t] = "none" /\ child \in [Task -> {"none", "working"} \cup Exits]
  BY <1>0 DEF Open, LoopInv, LoopOK, VarsOK, Leaving, PointInv, TaskPoints
<1>2. ASSUME NEW link \in Link, Write(link, here),
             child' = [child EXCEPT ![t] = "working"], Goto("pick"), cut' = cut
      PROVE  QuietInv'
  <2>1. Faultless /\ here' = here /\ there' = here
    BY <1>1, <1>2, QuietWrite
  <2>2. Quiet
    BY <2>1 DEF QuietInv
  <2>3. at'.pc = "pick"
    BY <1>1, <1>2, GotoShape DEF Points
  <2>4. QuietPoint'
    BY <2>3 DEF QuietPoint, InHand, Judged
  <2>5. child'[t] = "working" /\ \A u \in Task \ {t} : child'[u] = child[u]
    BY <1>1, <1>2
  <2>6. OnBoard(t)'
    BY <1>1, <2>1, <2>5 DEF OnBoard
  <2>7. Reported(t)'
    BY <1>1, <2>1, <2>2 DEF Quiet, QuietTask, Reported
  <2> QED
    BY <1>1, <1>2, <2>1, <2>2, <2>3, <2>4, <2>5, <2>6, <2>7, QuietRest
<1>3. CASE /\ at' = [at EXCEPT !.pc = "failing", !.from = "in_progress",
                              !.then = "spawn"]
           /\ UNCHANGED <<board, child, cut>>
  <2>1. Quiet /\ here' = here /\ there' = there
    BY <1>1, <1>3, QuietSame
  <2>2. /\ at'.pc = "failing" /\ at'.task = t /\ at'.from = "in_progress"
        /\ at'.then = "spawn"
    BY <1>1, <1>3 DEF At
  <2>3. QuietPoint'
    BY <1>1, <2>1, <2>2 DEF QuietPoint, InHand, Judged
  <2> QED
    BY <1>1, <1>3, <2>1, <2>2, <2>3, QuietStay DEF InHand
<1>4. CASE Goto("ending") /\ cut' = TRUE /\ UNCHANGED <<board, child>>
  <2>1. Quiet /\ here' = here /\ there' = there
    BY <1>1, <1>4, QuietSame
  <2>2. at'.pc = "ending"
    BY <1>1, <1>4, GotoShape DEF Points
  <2> QED
    BY <1>1, <1>4, <2>1, <2>2, QuietLeave
<1> QED
  BY <1>1, <1>2, <1>3, <1>4 DEF Open

LEMMA QuietCollect ==
  ASSUME LoopInv, QuietInv, Faultless', NEW t \in Task, Collect(t) PROVE QuietInv'
<1>1. /\ at.pc = "poll" /\ at \in At /\ ~Leaving /\ child[t] # "none"
      /\ claims' = claims /\ UNCHANGED board /\ UNCHANGED loop
      /\ report' = report /\ cut' = cut
      /\ at' = [at EXCEPT !.pc = "settle", !.task = t, !.from = here[t].state,
                !.exit = IF child[t] = "working" THEN "killed" ELSE child[t]]
      /\ child' = [child EXCEPT ![t] = "none"]
      /\ child \in [Task -> {"none", "working"} \cup Exits]
  BY DEF Collect, LoopInv, LoopOK, VarsOK, Leaving, loop
<1>2. Quiet /\ here' = here /\ there' = there
  BY <1>1, QuietSame
<1>3. here[t].state = "in_progress"
  BY <1>1, <1>2 DEF Quiet, QuietTask, OnBoard
<1>4. /\ at'.pc = "settle" /\ at'.task = t /\ at'.from = "in_progress"
      /\ child'[t] = "none" /\ \A u \in Task \ {t} : child'[u] = child[u]
  BY <1>1, <1>3 DEF At
<1>5. QuietPoint'
  BY <1>2, <1>3, <1>4 DEF QuietPoint, InHand, Judged
<1>6. OnBoard(t)'
  BY <1>2, <1>3, <1>4 DEF OnBoard, InHand
<1>7. Reported(t)'
  BY <1>1, <1>2 DEF Quiet, QuietTask, Reported
<1>8. here' = there' /\ here'[t].state # "merged" /\ at.pc \notin InHand
  BY <1>1, <1>2, <1>3 DEF Quiet, InHand
<1> QED
  BY <1>1, <1>2, <1>4, <1>5, <1>6, <1>7, <1>8, QuietRest

LEMMA QuietIdle ==
  ASSUME LoopInv, QuietInv, Faultless', Idle \/ ShutDownLoop PROVE QuietInv'
<1>1. /\ at.pc = "poll" /\ at \in At /\ ~Leaving /\ at.pc \notin InHand
  BY DEF Idle, ShutDownLoop, LoopInv, LoopOK, Leaving, InHand
<1>2. CASE Idle /\ Flush("idle")
  <2>1. \A u \in Task : child[u] = "none"
    BY <1>2 DEF Idle, Running
  <2> QED
    BY <1>1, <1>2, <2>1, QuietFlush
<1>3. CASE /\ UNCHANGED <<board, queueLock, child, loop, claims>>
           /\ \/ shutdown /\ Goto("ending")
              \/ /\ Running = {}
                 /\ stop \/ shutdown \/ Actionable # {} \/ Staged = {}
                 /\ Goto(IF stop \/ shutdown \/ Actionable = {} THEN "ending"
                                                       ELSE "pass")
  <2>1. /\ Quiet /\ here' = here /\ there' = there /\ child' = child
        /\ report' = report /\ cut' = cut /\ stop' = stop /\ shutdown' = shutdown
    BY <1>3, QuietSame DEF loop
  <2>2. CASE shutdown /\ Goto("ending")
    <3>1. at'.pc = "ending"
      BY <1>1, <2>2, GotoShape DEF Points
    <3> QED
      BY <1>1, <2>1, <2>2, <3>1, QuietLeave
  <2>3. CASE /\ Running = {} /\ Goto("ending")
             /\ stop \/ shutdown \/ (Actionable = {} /\ Staged = {})
    <3>1. at'.pc = "ending"
      BY <1>1, <2>3, GotoShape DEF Points
    <3>2. ASSUME NEW u \in Task
          PROVE  stop' \/ shutdown' \/ cut' \/
                   (child[u] = "none" /\ here[u].state # "ready" /\ ~OnTrain(u))
      BY <2>1, <2>3 DEF Running, Actionable, Ready, Staged, OnTrain
    <3> QED
      BY <1>1, <2>1, <3>1, <3>2, QuietLeave
  <2>4. CASE Goto("pass")
    <3>1. at'.pc = "pass"
      BY <1>1, <2>4, GotoShape DEF Points
    <3>2. QuietPoint'
      BY <3>1 DEF QuietPoint, InHand, Judged
    <3> QED
      BY <1>1, <2>1, <3>1, <3>2, QuietStay
  <2> QED
    BY <1>3, <2>2, <2>3, <2>4
<1> QED
  BY <1>2, <1>3 DEF Idle, ShutDownLoop

\* A transition of the run's task that takes it out of the run's hands.
LEMMA QuietTurn ==
  ASSUME LoopInv, QuietInv, Faultless', claims' = claims, child' = child, cut' = cut,
         NEW link \in Link, NEW t \in Task, at.task = t, at.pc \in TaskPoints, ~Leaving,
         NEW from, NEW s \in {"awaiting_merge", "failed", "quarantined"},
         Transition(link, t, from, s),
         \/ /\ Report(t, IF s = "awaiting_merge" THEN "succeeded" ELSE "failed")
            /\ at'.pc \in {"tally", "pass", "poll"}
         \/ /\ report' = report /\ from = "in_progress" /\ s = "failed"
            /\ at'.pc \in {"poll", "tally"}
         \/ /\ report' = report /\ from = "in_progress" /\ s = "failed"
            /\ at'.pc = "route" /\ at'.task = t
            /\ Quiet => ~BreakerOpen(t)
  PROVE  QuietInv'
<1>1. BoardOK /\ child[t] = "none" /\ report \in [Task -> Outcomes]
  BY DEF LoopInv, PointInv, LoopOK, VarsOK
<1>2. s \in States \ {"merged", "blocked"}
  BY DEF States
<1>3. /\ Quiet /\ here' = there' /\ here[t].state = from
      /\ here'[t].state = s /\ here'[t].count = here[t].count
      /\ \A u \in Task \ {t} : here'[u] = here[u]
  <2>1. Quiet /\ here' = there' /\ here[t].state = from
    BY <1>1, <1>2, QuietTransition
  <2>2. here'[t].state = s /\ here'[t].count = here[t].count
    BY <1>1, <1>2, QuietTransition
  <2>3. \A u \in Task \ {t} : here'[u] = here[u]
    BY <1>1, <1>2, QuietTransition
  <2> QED
    BY <2>1, <2>2, <2>3
<1>4. \A u \in Task \ {t} : report'[u] = report[u] /\ child'[u] = child[u]
  BY <1>1 DEF Report
<1>5. here'[t].state # "merged" /\ at'.pc \notin {"seal", "ending", "over"}
  BY <1>3
<1>6. OnBoard(t)'
  BY <1>1, <1>3 DEF OnBoard
<1>7. Reported(t)'
  <2>1. Reported(t)
    BY <1>3 DEF Quiet, QuietTask
  <2>2. CASE report' = report /\ from = "in_progress" /\ s = "failed"
    BY <1>3, <2>1, <2>2 DEF Reported
  <2>3. CASE Report(t, IF s = "awaiting_merge" THEN "succeeded" ELSE "failed")
    <3>1. report'[t] = IF s = "awaiting_merge" THEN "succeeded" ELSE "failed"
      BY <1>1, <2>3 DEF Report
    <3> QED
      BY <1>3, <3>1 DEF Reported
  <2> QED
    BY <2>2, <2>3
<1>8. QuietPoint'
  <2>1. CASE at'.pc \in {"tally", "pass", "poll"}
    BY <2>1 DEF QuietPoint, InHand, Judged
  <2>2. CASE at'.pc = "route" /\ at'.task = t /\ ~BreakerOpen(t) /\ s = "failed"
    <3>1. ~BreakerOpen(t)'
      BY <1>3, <2>2 DEF BreakerOpen
    <3>2. BreakerOpen(at.task)' = BreakerOpen(t)'
      BY <2>2 DEF BreakerOpen
    <3> QED
      BY <1>3, <2>2, <3>1, <3>2 DEF QuietPoint, InHand, Judged
  <2> QED
    BY <1>3, <2>1, <2>2
<1> QED
  BY <1>3, <1>4, <1>5, <1>6, <1>7, <1>8, QuietRest

\* Where the run settles a child that ended.
LEMMA InHandFacts ==
  ASSUME LoopInv, at.pc \in InHand
  PROVE  /\ at \in At /\ ~Leaving /\ BoardOK /\ at.task \in Task
         /\ at.pc \in TaskPoints /\ child[at.task] = "none"
         /\ Quiet => here[at.task].state = "in_progress"
         /\ Quiet /\ at.pc # "open" => at.from = "in_progress"
<1>1. at.pc \in TaskPoints
  BY DEF InHand, TaskPoints
<1>2. ~Leaving
  BY DEF InHand, Leaving
<1> QED
  BY <1>1, <1>2 DEF LoopInv, LoopOK, PointInv, Quiet, QuietPoint

LEMMA QuietEmpty == ASSUME LoopInv, QuietInv, Faultless', SettleEmpty PROVE QuietInv'
<1>1. /\ at.pc = "settle" /\ at.pc \in InHand /\ Failing("halted")
      /\ UNCHANGED <<board, queueLock, child, loop, claims>>
  BY DEF SettleEmpty, InHand
<1>2. Quiet /\ here' = here /\ there' = there
  BY <1>1, QuietSame
<1>3. /\ at'.pc = "failing" /\ at'.task = at.task /\ at'.from = at.from
      /\ at'.then = "halted"
  BY <1>1, InHandFacts, FailingShape DEF Continuations
<1>4. QuietPoint'
  BY <1>1, <1>2, <1>3, InHandFacts DEF QuietPoint, InHand, Judged
<1>5. ~Leaving /\ at'.pc \in InHand
  BY <1>1, <1>3, InHandFacts DEF InHand
<1> QED
  BY <1>1, <1>2, <1>3, <1>4, <1>5, QuietStay DEF loop

LEMMA QuietReview == ASSUME LoopInv, QuietInv, Faultless', SettleForReview PROVE QuietInv'
<1>0. PICK t \in Task : t = at.task
  BY InHandFacts DEF SettleForReview, InHand
<1>1. /\ at.pc = "settle" /\ at.pc \in InHand /\ at.task = t
      /\ claims' = claims /\ child' = child /\ cut' = cut
  BY <1>0 DEF SettleForReview, InHand
<1>2. ASSUME NEW link \in Link, Transition(link, t, at.from, "awaiting_merge"),
             Report(t, "succeeded"), Goto("tally")
      PROVE  QuietInv'
  <2>1. at'.pc = "tally"
    BY <1>1, <1>2, InHandFacts, GotoShape DEF Points
  <2> QED
    BY <1>1, <1>2, <2>1, InHandFacts, QuietTurn
<1>3. ASSUME NEW link \in Link, Refused(link, t, at.from, "awaiting_merge")
      PROVE  FALSE
  <2>1. BoardOK
    BY <1>1, InHandFacts
  <2>2. Quiet /\ ~(here[t].state = at.from /\ <<at.from, "awaiting_merge">> \in Legal)
    BY <1>1, <1>3, <2>1, QuietRefusal
  <2>3. here[t].state = "in_progress" /\ at.from = "in_progress"
    BY <1>1, <2>2, InHandFacts
  <2> QED
    BY <2>2, <2>3 DEF Legal
<1> QED
  BY <1>1, <1>2, <1>3 DEF SettleForReview

LEMMA QuietUnstaged == ASSUME LoopInv, QuietInv, Faultless', Unstaged PROVE QuietInv'
<1>0. PICK t \in Task : t = at.task
  BY InHandFacts DEF Unstaged, InHand
<1>1. /\ at.pc = "unstaged" /\ at.pc \in InHand /\ at.task = t
      /\ claims' = claims /\ child' = child /\ cut' = cut
      /\ Report(t, "failed") /\ Goto("pass")
  BY <1>0 DEF Unstaged, InHand
<1>2. at'.pc = "pass"
  BY <1>1, InHandFacts, GotoShape DEF Points
<1>3. ASSUME NEW link \in Link, Transition(link, t, at.from, "failed")
      PROVE  QuietInv'
  BY <1>1, <1>2, <1>3, InHandFacts, QuietTurn
<1>4. ASSUME NEW link \in Link, Refused(link, t, at.from, "failed")
      PROVE  FALSE
  <2>1. BoardOK
    BY <1>1, InHandFacts
  <2>2. Quiet /\ ~(here[t].state = at.from /\ <<at.from, "failed">> \in Legal)
    BY <1>1, <1>4, <2>1, QuietRefusal
  <2>3. here[t].state = "in_progress" /\ at.from = "in_progress"
    BY <1>1, <2>2, InHandFacts
  <2> QED
    BY <2>2, <2>3 DEF Legal
<1> QED
  BY <1>1, <1>3, <1>4 DEF Unstaged

LEMMA QuietFailure == ASSUME LoopInv, QuietInv, Faultless', SettleFailure PROVE QuietInv'
<1>0. PICK t \in Task : t = at.task
  BY InHandFacts DEF SettleFailure, InHand
<1>1. /\ at.pc = "settle" /\ at.pc \in InHand /\ at.task = t
      /\ UNCHANGED <<queueLock, child, loop, claims>>
      /\ at \in At /\ ~Leaving /\ BoardOK /\ child[t] = "none"
      /\ child' = child /\ report' = report /\ cut' = cut
  BY <1>0, InHandFacts DEF SettleFailure, InHand, loop
<1>2. CASE UNCHANGED board /\ (Failing("halted") \/ Failing("left"))
  <2>1. Quiet /\ here' = here /\ there' = there
    BY <1>1, <1>2, QuietSame
  <2>2. /\ at'.pc = "failing" /\ at'.task = at.task /\ at'.from = at.from
        /\ at'.then # "route"
    BY <1>1, <1>2, FailingShape DEF Continuations
  <2>3. QuietPoint' /\ at'.pc \in InHand
    BY <1>1, <2>1, <2>2, InHandFacts DEF QuietPoint, InHand, Judged
  <2> QED
    BY <1>1, <2>1, <2>2, <2>3, QuietStay
<1>3. CASE /\ UNCHANGED board
           /\ IF BreakerOpen(t) THEN Goto("break") ELSE Failing("route")
  <2>1. Quiet /\ here' = here /\ there' = there
    BY <1>1, <1>3, QuietSame
  <2>2. /\ at'.task = at.task /\ at'.from = at.from
        /\ \/ at'.pc = "break"
           \/ at'.pc = "failing" /\ ~BreakerOpen(t)
    BY <1>1, <1>3, FailingShape, GotoShape DEF Points, Continuations
  <2>3. at'.pc = "failing" => ~BreakerOpen(at.task)'
    BY <1>1, <2>1, <2>2 DEF BreakerOpen
  <2>4. QuietPoint' /\ at'.pc \in InHand
    BY <1>1, <2>1, <2>2, <2>3, InHandFacts DEF QuietPoint, InHand, Judged
  <2> QED
    BY <1>1, <2>1, <2>2, <2>4, QuietStay
<1>4. ASSUME NEW link \in Link, NEW s \in Signature,
             Write(link, Recorded(here, t, "timeout", s)), Failing("left")
      PROVE  QuietInv'
  <2>1. /\ Faultless /\ here' = Recorded(here, t, "timeout", s)
        /\ there' = Recorded(here, t, "timeout", s)
    BY <1>1, <1>4, QuietWrite
  <2>2. Quiet
    BY <2>1 DEF QuietInv
  <2>3. /\ here'[t].state = here[t].state /\ here' = there'
        /\ \A u \in Task \ {t} : here'[u] = here[u]
    BY <1>1, <2>1, RecordedShape DEF BoardOK, Classes
  <2>4. here[t].state = "in_progress" /\ at.from = "in_progress"
    BY <1>1, <2>2, InHandFacts
  <2>5. /\ at'.pc = "failing" /\ at'.task = at.task /\ at'.from = at.from
        /\ at'.then = "left"
    BY <1>1, <1>4, FailingShape DEF Continuations
  <2>6. QuietPoint'
    BY <1>1, <2>3, <2>4, <2>5 DEF QuietPoint, InHand, Judged
  <2>7. OnBoard(t)'
    BY <1>1, <2>3, <2>4, <2>5 DEF OnBoard, InHand
  <2>8. Reported(t)'
    BY <1>1, <2>2, <2>3 DEF Quiet, QuietTask, Reported
  <2> QED
    BY <1>1, <2>2, <2>3, <2>4, <2>5, <2>6, <2>7, <2>8, QuietRest
<1> QED
  BY <1>1, <1>2, <1>3, <1>4 DEF SettleFailure

\* A task whose child ended well: it leaves the run's hands for the train, or
\* is sent back to be split.
LEMMA QuietIntegrated ==
  ASSUME LoopInv, QuietInv, Faultless', at.pc = "settle", NEW t \in Task, at.task = t,
         claims' = claims, child' = child, cut' = cut, NEW link \in Link,
         NEW records, Write(link, records), Goto("pass"),
         NEW s \in {"awaiting_merge", "in_progress"},
         Report(t, IF s = "awaiting_merge" THEN "succeeded" ELSE "requeued"),
         Quiet => /\ records[t].state = s
                  /\ \A u \in Task \ {t} : records[u] = here[u]
  PROVE  QuietInv'
<1>1. /\ at.pc \in InHand /\ BoardOK /\ ~Leaving /\ at \in At /\ child[t] = "none"
      /\ report \in [Task -> Outcomes]
  BY InHandFacts DEF InHand, LoopInv, LoopOK, VarsOK
<1>2. Faultless /\ here' = records /\ there' = records
  BY <1>1, QuietWrite
<1>3. Quiet
  BY <1>2 DEF QuietInv
<1>4. /\ here'[t].state = s /\ here' = there'
      /\ \A u \in Task \ {t} : here'[u] = here[u]
  BY <1>2, <1>3
<1>5. at'.pc = "pass"
  BY <1>1, GotoShape DEF Points
<1>6. QuietPoint'
  BY <1>5 DEF QuietPoint, InHand, Judged
<1>7. /\ report'[t] = IF s = "awaiting_merge" THEN "succeeded" ELSE "requeued"
      /\ \A u \in Task \ {t} : report'[u] = report[u]
  BY <1>1 DEF Report
<1>8. OnBoard(t)' /\ Reported(t)'
  BY <1>1, <1>4, <1>7 DEF OnBoard, Reported
<1> QED
  BY <1>1, <1>3, <1>4, <1>5, <1>6, <1>7, <1>8, QuietRest

LEMMA QuietIntegration ==
  ASSUME LoopInv, QuietInv, Faultless', SettleByIntegration PROVE QuietInv'
<1>0. PICK t \in Task : t = at.task
  BY InHandFacts DEF SettleByIntegration, InHand
<1>1. /\ at.pc = "settle" /\ at.pc \in InHand /\ at.task = t
      /\ claims' = claims /\ child' = child /\ cut' = cut
      /\ at \in At /\ ~Leaving /\ BoardOK /\ here \in [Task -> Record]
  BY <1>0, InHandFacts DEF SettleByIntegration, InHand, BoardOK
<1>2. ASSUME NEW link PROVE Quiet => Fetched(link) = here
  BY <1>1, QuietFetch DEF Quiet
<1>3. ASSUME NEW s \in {"awaiting_merge", "in_progress"}
      PROVE  /\ Move(here, t, s) \in [Task -> Record]
             /\ Move(here, t, s)[t].state = s
             /\ \A u \in Task \ {t} : Move(here, t, s)[u] = here[u]
  <2>1. s \in States \ {"merged", "blocked"}
    BY DEF States
  <2> QED
    BY <1>1, <2>1, MovePlain
<1>4. ASSUME NEW link \in Link,
             Write(link, [Move(Fetched(link), t, "awaiting_merge")
                            EXCEPT ![t].train = TRUE]),
             Report(t, "succeeded"), Goto("pass")
      PROVE  QuietInv'
  <2> DEFINE records == [Move(Fetched(link), t, "awaiting_merge") EXCEPT ![t].train = TRUE]
  <2>1. ASSUME Quiet
        PROVE  /\ records[t].state = "awaiting_merge"
               /\ \A u \in Task \ {t} : records[u] = here[u]
    <3> DEFINE m == Move(here, t, "awaiting_merge")
    <3>1. /\ m \in [Task -> Record] /\ m[t].state = "awaiting_merge"
          /\ \A u \in Task \ {t} : m[u] = here[u]
      BY <1>3
    <3>2. records = [m EXCEPT ![t].train = TRUE]
      BY <1>2, <2>1
    <3> HIDE DEF m, records
    <3>3. /\ \A u \in Task : [m EXCEPT ![t].train = TRUE][u].state = m[u].state
          /\ \A u \in Task \ {t} : [m EXCEPT ![t].train = TRUE][u] = m[u]
      BY <3>1, StagedShape
    <3> QED
      BY <3>1, <3>2, <3>3
  <2>2. Write(link, records)
    BY <1>4
  <2> HIDE DEF records
  <2> QED
    BY <1>1, <1>4, <2>1, <2>2, QuietIntegrated
<1>5. ASSUME NEW link \in Link, Write(link, Move(Fetched(link), t, "awaiting_merge")),
             Report(t, "succeeded"), Goto("pass")
      PROVE  QuietInv'
  <2> DEFINE records == Move(Fetched(link), t, "awaiting_merge")
  <2>1. ASSUME Quiet
        PROVE  /\ records[t].state = "awaiting_merge"
               /\ \A u \in Task \ {t} : records[u] = here[u]
    BY <1>2, <1>3, <2>1
  <2>2. Write(link, records)
    BY <1>5
  <2> HIDE DEF records
  <2> QED
    BY <1>1, <1>5, <2>1, <2>2, QuietIntegrated
<1>6. ASSUME NEW link \in Link, NEW s \in Signature,
             Write(link, SentBack(Fetched(link), t, s)),
             Report(t, "requeued"), Goto("pass")
      PROVE  QuietInv'
  <2> DEFINE records == SentBack(Fetched(link), t, s)
  <2>1. ASSUME Quiet
        PROVE  /\ records[t].state = "in_progress"
               /\ \A u \in Task \ {t} : records[u] = here[u]
    <3> DEFINE m == Move(here, t, "in_progress")
    <3>1. /\ m \in [Task -> Record] /\ m[t].state = "in_progress"
          /\ \A u \in Task \ {t} : m[u] = here[u]
      BY <1>3
    <3>2. records = Recorded(m, t, "ordinary", s)
      BY <1>2, <2>1 DEF SentBack
    <3> HIDE DEF m, records
    <3>3. /\ \A u \in Task : Recorded(m, t, "ordinary", s)[u].state = m[u].state
          /\ \A u \in Task \ {t} : Recorded(m, t, "ordinary", s)[u] = m[u]
      BY <3>1, RecordedShape DEF Classes
    <3> QED
      BY <3>1, <3>2, <3>3
  <2>2. Write(link, records)
    BY <1>6
  <2> HIDE DEF records
  <2> QED
    BY <1>1, <1>6, <2>1, <2>2, QuietIntegrated
<1>7. ASSUME NEW link \in Link, Refused(link, t, at.from, "awaiting_merge")
      PROVE  FALSE
  <2>1. Quiet /\ ~(here[t].state = at.from /\ <<at.from, "awaiting_merge">> \in Legal)
    BY <1>1, <1>7, QuietRefusal
  <2>2. here[t].state = "in_progress" /\ at.from = "in_progress"
    BY <1>1, <2>1, InHandFacts
  <2> QED
    BY <2>1, <2>2 DEF Legal
<1>8. CASE Goto("unstaged") /\ UNCHANGED <<board, report>>
  <2>1. Quiet /\ here' = here /\ there' = there
    BY <1>1, <1>8, QuietSame
  <2>2. at'.pc = "unstaged" /\ at'.task = at.task /\ at'.from = at.from
    BY <1>1, <1>8, GotoShape DEF Points
  <2>3. QuietPoint' /\ at'.pc \in InHand
    BY <1>1, <2>1, <2>2, InHandFacts DEF QuietPoint, InHand, Judged
  <2> QED
    BY <1>1, <1>8, <2>1, <2>2, <2>3, QuietStay
<1> QED
  BY <1>1, <1>4, <1>5, <1>6, <1>7, <1>8 DEF SettleByIntegration

LEMMA QuietMarkFailed == ASSUME LoopInv, QuietInv, Faultless', MarkFailed PROVE QuietInv'
<1>1. PICK t \in Task : t = at.task /\ at.pc \in TaskPoints
  BY NotUsedUp DEF MarkFailed, TaskPoints
<1>2. /\ at.pc \in {"failing", "locked"} /\ at.task = t /\ at.pc \in TaskPoints
      /\ claims' = claims /\ child' = child /\ cut' = cut
      /\ BoardOK /\ at \in At /\ ~Leaving
  BY <1>1 DEF MarkFailed, LoopInv, LoopOK, Leaving
<1>3. ASSUME Quiet
      PROVE  /\ here[t].state = "in_progress" /\ at.from = "in_progress"
             /\ at.then = "route" => ~BreakerOpen(t)
  BY <1>2, <1>3 DEF Quiet, QuietPoint, InHand
<1>4. ASSUME NEW link, Refused(link, t, at.from, "failed") PROVE FALSE
  <2>1. Quiet /\ ~(here[t].state = at.from /\ <<at.from, "failed">> \in Legal)
    BY <1>2, <1>4, QuietRefusal
  <2> QED
    BY <1>3, <2>1 DEF Legal
<1>5. PICK link \in Link :
        /\ Transition(link, t, at.from, "failed")
        /\ IF at.then \in {"halted", "left"} THEN Report(t, "failed")
                                                   ELSE UNCHANGED report
        /\ Goto(CASE at.then = "spawn" -> "poll"
                  [] at.then = "route" -> "route"
                  [] OTHER -> "tally")
  <2> PICK l \in Link :
        LET u == at.task
            found == Fetched(l)[u].state
        IN  \/ /\ \/ Transition(l, u, at.from, "failed")
                  \/ /\ Refused(l, u, at.from, "failed")
                     /\ <<found, "failed">> \notin Legal
               /\ queueLock' = TRUE
               /\ stop' = (stop \/ at.then \in {"spawn", "halted"})
               /\ IF at.then \in {"halted", "left"} THEN Report(u, "failed")
                                                   ELSE UNCHANGED report
               /\ Goto(CASE at.then = "spawn" -> "poll"
                         [] at.then = "route" -> "route"
                         [] OTHER -> "tally")
            \/ /\ Refused(l, u, at.from, "failed")
               /\ <<found, "failed">> \in Legal
               /\ queueLock' = FALSE
               /\ at' = [at EXCEPT !.pc = "locked", !.from = found]
               /\ UNCHANGED <<stop, report>>
    BY DEF MarkFailed
  <2> QED
    BY <1>2, <1>4
<1>6. Quiet
  BY <1>2, <1>5, QuietTransition DEF States
<1>7. at.from = "in_progress"
  BY <1>3, <1>6
<1>8. CASE at.then \in {"halted", "left"}
  <2>1. at'.pc = "tally"
    <3>1. Goto("tally")
      BY <1>5, <1>8
    <3> QED
      BY <1>2, <3>1, GotoShape DEF Points
  <2>2. Report(t, "failed")
    BY <1>5, <1>8
  <2> QED
    BY <1>2, <1>5, <2>1, <2>2, QuietTurn
<1>9. CASE at.then = "route"
  <2>1. at'.pc = "route" /\ at'.task = t
    <3>1. Goto("route")
      BY <1>5, <1>9
    <3> QED
      BY <1>2, <3>1, GotoShape DEF Points
  <2>2. report' = report
    BY <1>5, <1>9
  <2>3. ~BreakerOpen(t)
    BY <1>3, <1>6, <1>9
  <2> QED
    BY <1>2, <1>5, <1>7, <2>1, <2>2, <2>3, QuietTurn
<1>10. CASE at.then \notin {"halted", "left", "route"}
  <2>1. at'.pc \in {"poll", "tally"}
    <3>1. Goto("poll") \/ Goto("tally")
      BY <1>5, <1>10
    <3> QED
      BY <1>2, <3>1, GotoShape DEF Points
  <2>2. report' = report
    BY <1>5, <1>10
  <2> QED
    BY <1>2, <1>5, <1>7, <2>1, <2>2, QuietTurn
<1> QED
  BY <1>8, <1>9, <1>10

LEMMA QuietBreak == ASSUME LoopInv, QuietInv, Faultless', Break PROVE QuietInv'
<1>0. PICK t \in Task : t = at.task
  BY InHandFacts DEF Break, InHand
<1>1. /\ at.pc = "break" /\ at.pc \in InHand /\ at.task = t
      /\ claims' = claims /\ child' = child /\ cut' = cut
  BY <1>0 DEF Break, InHand
<1>2. ASSUME NEW link \in Link, Transition(link, t, at.from, "quarantined"),
             Report(t, "failed"), Goto("tally")
      PROVE  QuietInv'
  <2>1. at'.pc = "tally"
    BY <1>1, <1>2, InHandFacts, GotoShape DEF Points
  <2> QED
    BY <1>1, <1>2, <2>1, InHandFacts, QuietTurn
<1>3. ASSUME NEW link \in Link, Refused(link, t, at.from, "quarantined")
      PROVE  FALSE
  <2>1. BoardOK
    BY <1>1, InHandFacts
  <2>2. Quiet /\ ~(here[t].state = at.from /\ <<at.from, "quarantined">> \in Legal)
    BY <1>1, <1>3, <2>1, QuietRefusal
  <2>3. here[t].state = "in_progress" /\ at.from = "in_progress"
    BY <1>1, <2>2, InHandFacts
  <2> QED
    BY <2>2, <2>3 DEF Legal
<1> QED
  BY <1>1, <1>2, <1>3 DEF Break, Quarantined

\* Where the run decides what becomes of a failed task.
LEMMA JudgedFacts ==
  ASSUME LoopInv, at.pc \in Judged
  PROVE  /\ at \in At /\ ~Leaving /\ BoardOK /\ at.task \in Task
         /\ at.pc \in TaskPoints /\ at.pc \notin InHand /\ child[at.task] = "none"
         /\ Quiet => here[at.task].state = "failed" /\ ~BreakerOpen(at.task)
         /\ Quiet /\ at.pc # "route" => at.from = "failed"
<1>1. at.pc \in TaskPoints /\ at.pc \notin InHand
  BY DEF Judged, InHand, TaskPoints
<1>2. ~Leaving
  BY DEF Judged, Leaving
<1> QED
  BY <1>1, <1>2 DEF LoopInv, LoopOK, PointInv, Quiet, QuietPoint

LEMMA QuietRoute == ASSUME LoopInv, QuietInv, Faultless', Route PROVE QuietInv'
<1>0. PICK t \in Task : t = at.task
  BY JudgedFacts DEF Route, Judged
<1>1. /\ at.pc = "route" /\ at.pc \in Judged /\ at.task = t
      /\ UNCHANGED board /\ claims' = claims /\ child' = child /\ cut' = cut
      /\ at \in At /\ ~Leaving /\ at.pc \notin InHand /\ child[t] = "none"
      /\ report \in [Task -> Outcomes]
  BY <1>0, JudgedFacts DEF Route, Judged, LoopInv, LoopOK, VarsOK
<1>2. Quiet /\ here' = here /\ there' = there
  BY <1>1, QuietSame
<1>3. here[t].state = "failed" /\ ~BreakerOpen(t) /\ here' = there'
  BY <1>1, <1>2, JudgedFacts DEF Quiet
<1>4. ASSUME NEW pc \in {"requeue", "capped", "quarantine"},
             at' = [at EXCEPT !.pc = pc, !.from = here[t].state], report' = report
      PROVE  QuietInv'
  <2>1. at'.pc = pc /\ at'.task = t /\ at'.from = "failed"
    BY <1>1, <1>3, <1>4 DEF At
  <2>2. BreakerOpen(at.task)' = BreakerOpen(t)
    BY <1>2, <2>1 DEF BreakerOpen
  <2>3. QuietPoint'
    BY <1>2, <1>3, <2>1, <2>2 DEF QuietPoint, InHand, Judged
  <2> QED
    BY <1>1, <1>2, <1>4, <2>1, <2>3, QuietStay
<1>5. CASE Report(t, "failed") /\ Goto("tally")
  <2>1. at'.pc = "tally"
    BY <1>1, <1>5, GotoShape DEF Points
  <2>2. QuietPoint'
    BY <2>1 DEF QuietPoint, InHand, Judged
  <2>3. report'[t] = "failed" /\ \A u \in Task \ {t} : report'[u] = report[u]
    BY <1>1, <1>5 DEF Report
  <2>4. OnBoard(t)' /\ Reported(t)'
    BY <1>1, <1>2, <1>3, <2>3 DEF OnBoard, Reported
  <2> QED
    BY <1>1, <1>2, <1>3, <2>1, <2>2, <2>3, <2>4, QuietRest
<1> QED
  <2>1. Answers(t) \subseteq {"requeue", "quarantine"}
    BY DEF TriageActions, Answers
  <2> QED
    BY <1>1, <1>4, <1>5, <2>1 DEF Route

LEMMA QuietQuarantine ==
  ASSUME LoopInv, QuietInv, Faultless', Quarantine PROVE QuietInv'
<1>0. PICK t \in Task : t = at.task
  BY JudgedFacts DEF Quarantine, Judged
<1>1. /\ at.pc \in {"capped", "quarantine"} /\ at.pc \in Judged /\ at.task = t
      /\ claims' = claims /\ child' = child /\ cut' = cut /\ BoardOK
  BY <1>0, JudgedFacts DEF Quarantine, Judged
<1>2. ASSUME NEW link \in Link, Transition(link, t, at.from, "quarantined"),
             Report(t, "failed"), Goto("tally")
      PROVE  QuietInv'
  <2>1. at'.pc = "tally"
    BY <1>1, <1>2, JudgedFacts, GotoShape DEF Points
  <2> QED
    BY <1>1, <1>2, <2>1, JudgedFacts, QuietTurn
<1>3. ASSUME NEW link \in Link, Refused(link, t, at.from, "quarantined")
      PROVE  FALSE
  <2>1. Quiet /\ ~(here[t].state = at.from /\ <<at.from, "quarantined">> \in Legal)
    BY <1>1, <1>3, QuietRefusal
  <2>2. here[t].state = "failed" /\ at.from = "failed"
    BY <1>1, <2>1, JudgedFacts
  <2> QED
    BY <2>1, <2>2 DEF Legal
<1> QED
  BY <1>1, <1>2, <1>3 DEF Quarantine, Quarantined

LEMMA QuietRequeue == ASSUME LoopInv, QuietInv, Faultless', Requeue PROVE QuietInv'
<1>0. PICK t \in Task : t = at.task
  BY JudgedFacts DEF Requeue, Judged
<1>1. /\ at.pc = "requeue" /\ at.pc \in Judged /\ at.task = t
      /\ claims' = claims /\ child' = child /\ cut' = cut
      /\ at \in At /\ ~Leaving /\ BoardOK /\ at.pc \notin InHand /\ child[t] = "none"
      /\ report \in [Task -> Outcomes] /\ RequeueFrom(t, at.from) /\ Goto("tally")
  BY <1>0, JudgedFacts DEF Requeue, Judged, LoopInv, LoopOK, VarsOK
<1>2. Quiet => here[t].state = "failed" /\ ~BreakerOpen(t) /\ at.from = "failed"
  BY <1>1, JudgedFacts
<1>3. CASE at.from = "ready" /\ UNCHANGED board
  <2>1. Quiet
    BY <1>1, <1>3, QuietSame
  <2> QED
    BY <1>2, <1>3, <2>1
<1>4. ASSUME NEW link \in Link, Refused(link, t, at.from, "ready")
      PROVE  FALSE
  <2>1. Quiet /\ ~(here[t].state = at.from /\ <<at.from, "ready">> \in Legal)
    BY <1>1, <1>4, QuietRefusal
  <2> QED
    BY <1>2, <2>1 DEF Legal
<1>5. ASSUME NEW link \in Link, Transition(link, t, at.from, "ready"),
             Report(t, "requeued")
      PROVE  QuietInv'
  <2>1. /\ Quiet /\ here' = there'
        /\ here'[t].state = "ready" /\ here'[t].count = here[t].count
        /\ \A u \in Task \ {t} : here'[u] = here[u]
    BY <1>1, <1>5, QuietTransition DEF States
  <2>2. at'.pc = "tally"
    BY <1>1, GotoShape DEF Points
  <2>3. QuietPoint'
    BY <2>2 DEF QuietPoint, InHand, Judged
  <2>4. report'[t] = "requeued" /\ \A u \in Task \ {t} : report'[u] = report[u]
    BY <1>1, <1>5 DEF Report
  <2>5. ~BreakerOpen(t)'
    BY <1>2, <2>1 DEF BreakerOpen
  <2>6. OnBoard(t)' /\ Reported(t)'
    BY <1>1, <2>1, <2>4, <2>5 DEF OnBoard, Reported
  <2> QED
    BY <1>1, <2>1, <2>2, <2>3, <2>4, <2>6, QuietRest
<1> QED
  BY <1>1, <1>3, <1>4, <1>5 DEF RequeueFrom

LEMMA QuietTally == ASSUME LoopInv, QuietInv, Faultless', Tally PROVE QuietInv'
<1>1. /\ at.pc = "tally" /\ at \in At /\ ~Leaving /\ at.pc \notin InHand
      /\ UNCHANGED board /\ claims' = claims /\ child' = child /\ cut' = cut
      /\ report' = report /\ Goto("pass")
  BY DEF Tally, LoopInv, LoopOK, Leaving, InHand
<1>2. Quiet /\ here' = here /\ there' = there
  BY <1>1, QuietSame
<1>3. at'.pc = "pass"
  BY <1>1, GotoShape DEF Points
<1>4. QuietPoint'
  BY <1>3 DEF QuietPoint, InHand, Judged
<1> QED
  BY <1>1, <1>2, <1>3, <1>4, QuietStay

\* What is terminated when the loop is left goes back to the queue.
LEMMA QuietEnding == ASSUME LoopInv, QuietInv, Faultless', Ending PROVE QuietInv'
<1>1. /\ at.pc = "ending" /\ at \in At /\ Leaving /\ at.pc \notin InHand /\ BoardOK
      /\ claims' = claims /\ stop' = stop /\ shutdown' = shutdown /\ cut' = cut
      /\ report \in [Task -> Outcomes]
      /\ child \in [Task -> {"none", "working"} \cup Exits]
  BY DEF Ending, LoopInv, LoopOK, VarsOK, Leaving, InHand
<1>2. ASSUME NEW t \in Running, child' = [child EXCEPT ![t] = "none"],
             RequeueFrom(t, here[t].state), at' = at
      PROVE  QuietInv'
  <2>1. t \in Task /\ child[t] # "none"
    BY DEF Running
  <2>2. Quiet => here[t].state = "in_progress" /\ (stop \/ shutdown \/ cut)
    BY <1>1, <2>1 DEF Quiet, QuietTask, OnBoard, AtEnd
  <2>3. CASE here[t].state = "ready" /\ UNCHANGED board
    <3>1. Quiet
      BY <1>1, <2>3, QuietSame
    <3> QED
      BY <2>2, <2>3, <3>1
  <2>4. ASSUME NEW link \in Link, Refused(link, t, here[t].state, "ready")
        PROVE  FALSE
    <3>1. Quiet /\ <<here[t].state, "ready">> \notin Legal
      BY <1>1, <2>4, QuietRefusal
    <3> QED
      BY <2>2, <3>1 DEF Legal
  <2>5. ASSUME NEW link \in Link, Transition(link, t, here[t].state, "ready"),
               Report(t, "requeued")
        PROVE  QuietInv'
    <3>1. /\ Quiet /\ here' = there' /\ here'[t].state = "ready"
          /\ \A u \in Task \ {t} : here'[u] = here[u]
      BY <1>1, <2>1, <2>5, QuietTransition DEF States
    <3>2. QuietPoint'
      BY <1>1, <1>2 DEF QuietPoint, InHand, Judged
    <3>3. /\ report'[t] = "requeued" /\ child'[t] = "none" /\ Leaving'
          /\ \A u \in Task \ {t} : report'[u] = report[u] /\ child'[u] = child[u]
      BY <1>1, <1>2, <2>1, <2>5 DEF Report, Leaving
    <3>4. ASSUME NEW u \in Task PROVE AtEnd(u)'
      BY <1>1, <1>2, <2>2, <3>1 DEF AtEnd
    <3>5. ASSUME NEW u \in Task \ {t} PROVE QuietTask(u)'
      <4>1. Alone(u)
        BY <1>1, <3>1, <3>3 DEF Alone, OnTrain
      <4>2. \A b \in Task : Settled(here, b)' => Settled(here, b)
        BY <3>1 DEF Settled
      <4> QED
        BY <1>1, <3>1, <3>3, <3>4, <4>1, <4>2, QuietOther DEF Quiet
    <3>6. OnBoard(t)' /\ Reported(t)'
      BY <3>1, <3>3 DEF OnBoard, Reported
    <3>7. QuietTask(t)'
      BY <2>1, <3>4, <3>6 DEF QuietTask
    <3> QED
      BY <3>1, <3>2, <3>5, <3>7 DEF QuietInv, Quiet
  <2> QED
    BY <1>2, <2>3, <2>4, <2>5 DEF RequeueFrom
<1>3. CASE Running = {} /\ Goto("over") /\ UNCHANGED <<board, child, report>>
  <2>1. Quiet /\ here' = here /\ there' = there
    BY <1>1, <1>3, QuietSame
  <2>2. at'.pc = "over" /\ Leaving'
    BY <1>1, <1>3, GotoShape DEF Points, Leaving
  <2>3. QuietPoint'
    BY <2>2 DEF QuietPoint, InHand, Judged
  <2>4. ASSUME NEW u \in Task PROVE QuietTask(u)'
    <3>1. child[u] = "none"
      BY <1>3 DEF Running
    <3>2. AtEnd(u)'
      BY <1>1, <1>3, <2>1, <2>2, <3>1 DEF Quiet, QuietTask, AtEnd, OnTrain
    <3>3. Alone(u)
      BY <1>1, <1>3, <2>1 DEF Alone, OnTrain
    <3>4. \A b \in Task : Settled(here, b)' => Settled(here, b)
      BY <2>1
    <3> QED
      BY <1>1, <2>1, <2>2, <3>2, <3>3, <3>4, QuietOther DEF Quiet
  <2> QED
    BY <2>1, <2>3, <2>4 DEF QuietInv, Quiet
<1> QED
  BY <1>2, <1>3 DEF Ending

\* What goes on beside the run: a child records its failure while its task is in
\* progress, and a signal only asks the loop to stop.
LEMMA QuietBeside ==
  ASSUME LoopInv, Quiet, at' = at, report' = report, cut' = cut, stop' = stop,
         shutdown => shutdown', here' = there',
         \A u \in Task : \/ here'[u] = here[u] /\ child'[u] = child[u]
                         \/ /\ child[u] # "none" /\ child'[u] # "none"
                            /\ here'[u].state = here[u].state
  PROVE  QuietInv'
<1>1. ASSUME NEW u \in Task
      PROVE  /\ here'[u].state = here[u].state
             /\ child[u] = "none" => here'[u] = here[u] /\ child'[u] = "none"
             /\ child'[u] = child[u] \/ (child[u] # "none" /\ child'[u] # "none")
             /\ child[u] # "none" => here[u].state = "in_progress"
  BY DEF Quiet, QuietTask, OnBoard
<1>2. QuietPoint'
  <2>1. CASE at.pc \in TaskPoints
    <3>1. at.task \in Task /\ child[at.task] = "none"
      BY <2>1 DEF LoopInv, PointInv
    <3>2. PICK t \in Task : t = at.task /\ at'.task = t /\ here'[t] = here[t]
      BY <1>1, <3>1
    <3>3. BreakerOpen(at.task)' = BreakerOpen(at.task)
      BY <3>2 DEF BreakerOpen
    <3> QED
      BY <3>2, <3>3 DEF Quiet, QuietPoint
  <2>2. CASE at.pc \notin TaskPoints
    BY <2>2 DEF QuietPoint, InHand, Judged, TaskPoints, Quiet
  <2> QED
    BY <2>1, <2>2
<1>3. ASSUME NEW u \in Task PROVE QuietTask(u)'
  <2>1. QuietTask(u)
    BY DEF Quiet
  <2>2. /\ here[u].state # "in_progress" => here'[u] = here[u] /\ child'[u] = child[u]
        /\ here'[u].state = here[u].state
    BY <1>1
  <2>3. AtEnd(u)'
    <3>1. OnTrain(u)' => OnTrain(u)
      BY <2>2 DEF OnTrain
    <3> QED
      BY <1>1, <2>1, <2>2, <3>1 DEF QuietTask, AtEnd, Leaving
  <2>4. Alone(u)
    BY <1>1, <2>2 DEF Alone, OnTrain, Openable
  <2>5. \A b \in Task : Settled(here, b)' => Settled(here, b)
    BY <1>1 DEF Settled
  <2>6. Leaving => Leaving'
    BY DEF Leaving
  <2> QED
    BY <2>1, <2>3, <2>4, <2>5, <2>6, QuietOther
<1> QED
  BY <1>2, <1>3 DEF QuietInv, Quiet

LEMMA QuietChild ==
  ASSUME LoopInv, QuietInv, Faultless', NEW t \in Task, ChildEnds(t) PROVE QuietInv'
<1>1. /\ at' = at /\ report' = report /\ cut' = cut /\ stop' = stop
      /\ shutdown' = shutdown /\ claims' = claims /\ child[t] = "working" /\ BoardOK
  BY DEF ChildEnds, LoopInv, loop
<1>2. PICK exit \in Exits : child' = [child EXCEPT ![t] = exit]
  BY DEF ChildEnds, Exits
<1>3. child'[t] # "none" /\ \A u \in Task \ {t} : child'[u] = child[u]
  BY <1>2 DEF Exits, LoopInv, LoopOK, VarsOK
<1>4. CASE UNCHANGED board
  <2>1. Quiet /\ here' = here /\ there' = there
    BY <1>1, <1>4, QuietSame
  <2> QED
    BY <1>1, <1>3, <2>1, QuietBeside DEF Quiet
<1>5. ASSUME NEW class \in Classes, NEW s \in Signature, NEW link,
             Write(link, Recorded(here, t, class, s))
      PROVE  QuietInv'
  <2>1. /\ Faultless /\ here' = Recorded(here, t, class, s)
        /\ there' = Recorded(here, t, class, s)
    BY <1>1, <1>5, QuietWrite
  <2>2. Quiet /\ here' = there'
    BY <2>1 DEF QuietInv
  <2>3. /\ here'[t].state = here[t].state
        /\ \A u \in Task \ {t} : here'[u] = here[u]
    BY <1>1, <2>1, RecordedShape DEF BoardOK
  <2> QED
    BY <1>1, <1>3, <2>2, <2>3, QuietBeside
<1> QED
  BY <1>4, <1>5 DEF ChildEnds

LEMMA QuietShutDown == ASSUME LoopInv, QuietInv, Faultless', ShutDown PROVE QuietInv'
<1>1. /\ at' = at /\ report' = report /\ cut' = cut /\ stop' = stop /\ child' = child
      /\ shutdown' = TRUE /\ UNCHANGED board /\ claims' = claims
  BY DEF ShutDown
<1>2. Quiet /\ here' = here /\ there' = there
  BY <1>1, QuietSame
<1> QED
  BY <1>1, <1>2, QuietBeside DEF Quiet

LEMMA QuietInit == Init => QuietInv
<1> SUFFICES ASSUME Init PROVE Quiet
  BY DEF QuietInv
<1>1. here = there /\ at.pc = "pass"
  BY DEF Init, Outset
<1>2. QuietPoint
  BY <1>1 DEF QuietPoint, InHand, Judged
<1>3. ASSUME NEW t \in Task PROVE QuietTask(t)
  <2>1. /\ here[t].state = IF Blockers[t] = {} THEN "ready" ELSE "blocked"
        /\ \A s \in Signature : here[t].count[s] = 0
        /\ child[t] = "none" /\ report[t] = "none"
    BY DEF Init
  <2>2. BreakerThreshold \in Nat \ {0}
    BY BatchAssumption
  <2>3. ~BreakerOpen(t)
    BY <2>1, <2>2 DEF BreakerOpen
  <2>4. here[t].state = "blocked" => Waits(t)
    <3>1. \A b \in Task : here[b].state # "merged"
      BY DEF Init
    <3>2. Blockers[t] \subseteq Task
      BY BatchAssumption
    <3> QED
      BY <2>1, <3>1, <3>2 DEF Waits, Settled
  <2>5. OnBoard(t)
    BY <2>1, <2>3, <2>4 DEF OnBoard
  <2>6. AtEnd(t) /\ Reported(t)
    BY <1>1, <2>1 DEF AtEnd, Reported, Leaving
  <2> QED
    BY <2>5, <2>6 DEF QuietTask
<1> QED
  BY <1>1, <1>2, <1>3 DEF Quiet

LEMMA QuietStep == LoopInv /\ QuietInv /\ [Next]_vars => QuietInv'
<1> SUFFICES ASSUME LoopInv, QuietInv, [Next]_vars, Faultless' PROVE QuietInv'
  BY DEF QuietInv
<1>1. CASE UNCHANGED vars
  <2>1. /\ at' = at /\ report' = report /\ cut' = cut /\ stop' = stop
        /\ shutdown' = shutdown /\ child' = child /\ UNCHANGED board
        /\ claims' = claims
    BY <1>1 DEF vars, loop
  <2>2. Quiet /\ here' = here /\ there' = there
    BY <2>1, QuietSame
  <2> QED
    BY <2>1, <2>2, QuietBeside DEF Quiet
<1>2. CASE RunStep
  <2>1. CASE Pass \/ Seal \/ Pick
    BY <2>1, QuietPass, QuietSeal, QuietPick
  <2>2. CASE Open \/ Idle \/ ShutDownLoop \/ \E t \in Task : Collect(t)
    BY <2>2, QuietOpen, QuietIdle, QuietCollect
  <2>3. CASE SettleEmpty \/ SettleForReview
    BY <2>3, QuietEmpty, QuietReview
  <2>4. CASE SettleByIntegration \/ Unstaged
    BY <2>4, QuietIntegration, QuietUnstaged
  <2>5. CASE SettleFailure \/ MarkFailed \/ Break
    BY <2>5, QuietFailure, QuietMarkFailed, QuietBreak
  <2>6. CASE Route \/ Quarantine \/ Requeue
    BY <2>6, QuietRoute, QuietQuarantine, QuietRequeue
  <2>7. CASE Tally \/ Ending
    BY <2>7, QuietTally, QuietEnding
  <2> QED
    BY <1>2, <2>1, <2>2, <2>3, <2>4, <2>5, <2>6, <2>7 DEF RunStep
<1>3. CASE \E t \in Task : ChildEnds(t)
  BY <1>3, QuietChild
<1>4. ASSUME NEW t \in Task, ClaimElsewhere(t) PROVE FALSE
  <2>1. claims' = claims + 1 /\ claims \in Nat
    BY <1>4 DEF ClaimElsewhere, LoopInv, BoardOK
  <2>2. claims + 1 # 0 /\ claims' = 0
    BY <2>1 DEF Faultless
  <2> QED
    BY <2>1, <2>2
<1>5. CASE ShutDown
  BY <1>5, QuietShutDown
<1> QED
  BY <1>1, <1>2, <1>3, <1>4, <1>5 DEF Next

THEOREM QuietInvariant == Spec => [](LoopInv /\ QuietInv)
<1>1. Init => LoopInv /\ QuietInv
  BY LoopInit, QuietInit
<1>2. LoopInv /\ QuietInv /\ [Next]_vars => (LoopInv /\ QuietInv)'
  BY LoopStep, QuietStep
<1> QED
  BY <1>1, <1>2, PTL DEF Spec

\* EndsSettled, for every board and policy: a run that was not cut leaves
\* nothing in progress but what was sent back to be split, and one that was not
\* stopped either leaves nothing ready, nothing on the train, and nothing
\* waiting for settled tasks only (the idle flush, the finally block).
THEOREM RunsEndSettled == Spec => []EndsSettled
<1>1. LoopInv /\ QuietInv => EndsSettled
  <2> SUFFICES ASSUME LoopInv, QuietInv, at.pc = "over", Faultless, ~cut,
                      NEW t \in Task
               PROVE  /\ here[t].state = "in_progress" => report[t] = "requeued"
                      /\ ~stop /\ ~shutdown =>
                          /\ here[t].state # "ready"
                          /\ t \notin Staged
                          /\ here[t].state = "blocked" =>
                                \E b \in Blockers[t] : ~Settled(here, b)
    BY DEF EndsSettled
  <2>1. AtEnd(t) /\ OnBoard(t)
    BY DEF QuietInv, Quiet, QuietTask
  <2>2. child[t] = "none" /\ at.pc \notin InHand /\ Leaving
    BY <2>1 DEF AtEnd, InHand, Leaving
  <2>3. here[t].state = "in_progress" => report[t] = "requeued"
    BY <2>1, <2>2 DEF OnBoard
  <2>4. ~stop /\ ~shutdown => here[t].state # "ready" /\ t \notin Staged
    BY <2>1, <2>2 DEF AtEnd, OnTrain, Staged
  <2> QED
    BY <2>1, <2>3, <2>4 DEF OnBoard, Waits
<1> QED
  BY <1>1, QuietInvariant, PTL

\* SummaryTellsEndState, for every board and policy: the outcome the run summary
\* counts for a task is the one the board shows (end_state).
THEOREM SummariesAreTrue == Spec => []SummaryTellsEndState
<1>1. QuietInv => SummaryTellsEndState
  BY DEF QuietInv, Quiet, QuietTask, Reported, SummaryTellsEndState
<1> QED
  BY <1>1, QuietInvariant, PTL


\* Only the start of a child counts as one, and only the tally counts failures.
LEMMA OnlyThese ==
  ASSUME [Next]_vars
  PROVE  (Open \/ starts' = starts) /\ (Tally \/ systemic' = systemic)
<1>1. CASE UNCHANGED vars
  BY <1>1 DEF vars, loop
<1>2. CASE Pass \/ Seal \/ Pick \/ Idle \/ ShutDownLoop \/ \E t \in Task : Collect(t)
  BY <1>2 DEF Pass, Seal, Pick, Idle, ShutDownLoop, Collect, Flush, loop
<1>3. CASE SettleEmpty \/ SettleForReview \/ SettleByIntegration \/ Unstaged
  BY <1>3 DEF SettleEmpty, SettleForReview, SettleByIntegration, Unstaged, loop
<1>4. CASE SettleFailure \/ MarkFailed \/ Break \/ Route \/ Quarantine \/ Requeue \/ Ending
  BY <1>4 DEF SettleFailure, MarkFailed, Break, Route, Quarantine, Requeue, Ending, loop
<1>5. CASE Open \/ Tally
  BY <1>5 DEF Open, Tally
<1>6. CASE ShutDown \/ \E t \in Task : ChildEnds(t) \/ ClaimElsewhere(t)
  BY <1>6 DEF ShutDown, ChildEnds, ClaimElsewhere, loop
<1> QED
  BY <1>1, <1>2, <1>3, <1>4, <1>5, <1>6 DEF Next, RunStep

FinitelyCounted == \A s \in Signature : IsFiniteSet(systemic[s])

LEMMA FiniteStep == FinitelyCounted /\ [Next]_vars => FinitelyCounted'
<1> SUFFICES ASSUME FinitelyCounted, [Next]_vars, NEW s \in Signature
             PROVE  IsFiniteSet(systemic'[s])
  BY DEF FinitelyCounted
<1>1. IsFiniteSet(systemic[s])
  BY DEF FinitelyCounted
<1>2. CASE systemic' = systemic
  BY <1>1, <1>2
<1>3. CASE Tally /\ systemic' # systemic
  <2>1. systemic'[s] = systemic[s] \/ systemic'[s] = systemic[s] \cup {at.task}
    BY <1>3 DEF Tally
  <2> QED
    BY <1>1, <2>1, FS_AddElement
<1> QED
  BY <1>2, <1>3, OnlyThese

\* StartsWithinBreakers, for every pair of thresholds: a child is started only
\* for a task whose breaker is closed, and while no signature has failed enough
\* tasks (should_quarantine_task, the systemic breaker of _cleanup_task).
THEOREM BreakersHold == Spec => StartsWithinBreakers
<1> DEFINE Inv == LoopInv /\ QuietInv /\ FinitelyCounted
           Within == \A t \in Task :
                       starts'[t] # starts[t] =>
                         \A s \in Signature :
                           /\ Faultless => here[t].count[s] < BreakerThreshold
                           /\ Cardinality(systemic[s]) < SystemicThreshold
<1>1. Init => Inv
  <2>1. Init => FinitelyCounted
    BY FS_EmptySet DEF Init, FinitelyCounted
  <2> QED
    BY <2>1, LoopInit, QuietInit
<1>2. Inv /\ [Next]_vars => Inv'
  BY LoopStep, QuietStep, FiniteStep
<1>3. Inv /\ [Next]_vars => [Within]_vars
  <2> SUFFICES ASSUME LoopInv, QuietInv, FinitelyCounted, [Next]_vars,
                      NEW t \in Task, starts'[t] # starts[t], NEW s \in Signature
               PROVE  /\ Faultless => here[t].count[s] < BreakerThreshold
                      /\ Cardinality(systemic[s]) < SystemicThreshold
    OBVIOUS
  <2>1. Open
    BY OnlyThese
  <2>2. at.task = t
    BY <2>1 DEF Open, LoopInv, LoopOK, VarsOK
  <2>3. /\ BreakerThreshold \in Nat /\ SystemicThreshold \in Nat
        /\ Cardinality(systemic[s]) \in Nat
    BY FS_CardinalityType, BatchAssumption DEF FinitelyCounted
  <2>4. ASSUME Faultless PROVE here[t].count[s] < BreakerThreshold
    <3>1. ~BreakerOpen(t)
      BY <2>1, <2>2, <2>4 DEF QuietInv, Quiet, QuietPoint, Open
    <3>2. here[t].count[s] \in Nat
      BY RecordFields DEF LoopInv, BoardOK
    <3> QED
      BY <2>3, <3>1, <3>2 DEF BreakerOpen
  <2>5. Cardinality(systemic[s]) < SystemicThreshold
    <3>1. ~SystemicTripped(systemic)
      BY <2>1 DEF LoopInv, PointInv, Open
    <3> QED
      BY <2>3, <3>1 DEF SystemicTripped
  <2> QED
    BY <2>4, <2>5
<1> QED
  BY <1>1, <1>2, <1>3, PTL DEF Spec, StartsWithinBreakers
=============================================================================
