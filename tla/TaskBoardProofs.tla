-------------------------- MODULE TaskBoardProofs --------------------------
(***************************************************************************)
(* Theorems about TaskBoard, for every set of tasks and every dependency   *)
(* graph the plans may declare (cycles included).                          *)
(***************************************************************************)
EXTENDS TaskBoard, FiniteSetTheorems, TLAPS

-----------------------------------------------------------------------------
(* Lemmas about the operators of the board *)

\* Whatever set of task ids a plan names, the blockers among them that have
\* not settled can be counted.
LEMMA OpenFinite ==
    ASSUME NEW bs \in SUBSET Task
    PROVE  /\ IsFiniteSet(OpenAmong(bs))
           /\ Cardinality(OpenAmong(bs)) \in Nat
<1>1. OpenAmong(bs) \in SUBSET Task
  BY DEF OpenAmong
<1>2. IsFiniteSet(OpenAmong(bs))
  BY <1>1, FS_Subset, PlanAssumption
<1> QED
  BY <1>2, FS_CardinalityType

\* Counting a settlement keeps every counter a natural number: the decrement
\* stops at zero.
LEMMA CountedType ==
    ASSUME NEW t, NEW pend \in [Task -> Nat]
    PROVE  Counted(t, pend) \in [Task -> Nat]
BY DEF Counted

\* build_blocks yields a set of tasks for every task.
LEMMA BuildBlocksType ==
    ASSUME NEW board \in SUBSET Task, NEW by, blocks \in [Task -> SUBSET Task]
    PROVE  BuildBlocks(board, by) \in [Task -> SUBSET Task]
BY DEF BuildBlocks

\* _apply_transition keeps the types of the three fields it writes.
LEMMA ApplyType ==
    ASSUME NEW t \in Task, NEW to \in States, NEW pend \in [Task -> Nat],
           state \in [Task -> States], Apply(t, to, pend)
    PROVE  /\ state' \in [Task -> States]
           /\ pending' \in [Task -> Nat]
           /\ sealing' \in Task \cup {None}
<1>1. "ready" \in States
  BY DEF States
<1>2. CASE to \in Terminal
  BY <1>1, <1>2, CountedType DEF Apply
<1>3. CASE to \notin Terminal
  BY <1>3 DEF Apply
<1> QED
  BY <1>2, <1>3

\* What record-merge writes is a commit of a task, and names tasks only.
LEMMA RecordedType ==
    ASSUME NEW t \in Task, NEW how, how \in Grounds(t) \cup {"asserted"},
           mergeCommit \in [Task -> Commits], vouched \subseteq Task,
           Recorded(t, how)
    PROVE  mergeCommit' \in [Task -> Commits] /\ vouched' \subseteq Task
<1>1. Mistakable \subseteq Commits /\ "past" \in Commits
  BY PlanAssumption DEF Commits
<1>2. PICK c \in Commits : mergeCommit' = [mergeCommit EXCEPT ![t] = c]
  BY <1>1 DEF Recorded
<1> QED
  BY <1>2 DEF Recorded

-----------------------------------------------------------------------------
(* Type correctness *)

\* The board every command starts from is well typed.
LEMMA InitTypeOK == Init => TypeOK
<1> SUFFICES ASSUME Init PROVE TypeOK
  OBVIOUS
<1>1. \A t \in Task : Cardinality(blockedBy[t]) \in Nat
  BY PlanAssumption, FS_Subset, FS_CardinalityType DEF Init
<1> QED
  BY <1>1 DEF Init, TypeOK, States, Tips, Commits, None

\* Every command, and every step of git or of a repair, keeps the types: one
\* step per action.
LEMMA NextTypeOK == TypeOK /\ [Next]_vars => TypeOK'
<1> SUFFICES ASSUME TypeOK, [Next]_vars PROVE TypeOK'
  OBVIOUS
<1> USE DEF TypeOK, gitVars, deps
<1>a. {"ready", "blocked", "merged"} \subseteq States
  BY DEF States
<1>b. \A t \in Task : PlanBlockers[t] \in SUBSET SUBSET Task
  BY PlanAssumption
<1>1. ASSUME NEW t \in Task, NEW bs \in PlanBlockers[t], SprintAdd(t, bs)
      PROVE  TypeOK'
  <2>1. bs \in SUBSET Task
    BY <1>b
  <2>2. Cardinality(OpenAmong(bs)) \in Nat
    BY <2>1, OpenFinite
  <2>3. blocks' \in [Task -> SUBSET Task]
    BY <1>1, BuildBlocksType DEF SprintAdd
  <2> QED
    BY <1>a, <1>1, <2>1, <2>2, <2>3 DEF SprintAdd, Tips, Commits
<1>2. ASSUME NEW t \in Task, NEW bs \in PlanBlockers[t], Reingest(t, bs)
      PROVE  TypeOK'
  <2>1. bs \in SUBSET Task
    BY <1>b
  <2>2. Cardinality(OpenAmong(bs)) \in Nat
    BY <2>1, OpenFinite
  <2>3. blocks' \in [Task -> SUBSET Task]
    BY <1>2, BuildBlocksType DEF Reingest
  <2> QED
    BY <1>a, <1>2, <2>1, <2>2, <2>3 DEF Reingest
<1>3. ASSUME NEW t \in Task, NEW to \in States, Transition(t, to)
      PROVE  TypeOK'
  BY <1>3, ApplyType DEF Transition
<1>4. ASSUME NEW t \in Task, RecordMerge(t)
      PROVE  TypeOK'
  <2>1. mergeCommit' \in [Task -> Commits] /\ vouched' \subseteq Task
    BY <1>4, RecordedType DEF RecordMerge
  <2>2. tip' \in [Task -> Tips]
    BY <1>4 DEF RecordMerge, Tips
  <2> QED
    BY <1>a, <1>4, <2>1, <2>2, ApplyType DEF RecordMerge
<1>5. ASSUME NEW t \in Task, CreateBranch(t) \/ Commit(t) \/ FlushRecord(t)
      PROVE  TypeOK'
  BY <1>5 DEF CreateBranch, Commit, FlushRecord, Tips, Commits
<1>6. ASSUME NEW t \in Task, NEW how \in Landings, Land(t, how)
      PROVE  TypeOK'
  BY <1>6, PlanAssumption DEF Land, Tips
<1>7. ASSUME NEW t \in Task, NEW hard \in BOOLEAN, Reset(t, hard)
      PROVE  TypeOK'
  <2>1. Cardinality({b \in blockedBy[t] : ~DerivesMerged(b)}) \in Nat
    <3>1. {b \in blockedBy[t] : ~DerivesMerged(b)} \in SUBSET Task
      OBVIOUS
    <3> QED
      BY <3>1, FS_Subset, FS_CardinalityType, PlanAssumption
  <2>2. PICK to \in States, pend \in [Task -> Nat] : Apply(t, to, pend)
    BY <1>a, <1>7, <2>1 DEF Reset
  <2>3. /\ state' \in [Task -> States]
        /\ pending' \in [Task -> Nat]
        /\ sealing' \in Task \cup {None}
    BY <2>2, ApplyType
  <2> QED
    BY <1>7, <2>3 DEF Reset, Tips
<1>8. CASE Seal
  BY <1>8 DEF Seal
<1>9. CASE CrashBeforeSeal
  BY <1>9 DEF CrashBeforeSeal
<1>10. CASE HealSnapshot
  <2>1. \A t \in Task : HealTarget(t) \in States
    BY <1>a DEF HealTarget, Derived
  <2>2. \A t \in Task : Recount(t) \in Nat
    <3> SUFFICES ASSUME NEW t \in Task PROVE Recount(t) \in Nat
      OBVIOUS
    <3>1. {b \in blockedBy[t] \cap live : ~IsTerminal(b)} \in SUBSET Task
      OBVIOUS
    <3> QED
      BY <3>1, FS_Subset, FS_CardinalityType, PlanAssumption DEF Recount
  <2>3. healPlan' \subseteq Change
    <3>1. \A t \in live : [task |-> t, to |-> HealTarget(t),
                           recount |-> Recount(t) # pending[t],
                           pending |-> Recount(t)] \in Change
      BY <2>1, <2>2 DEF Change
    <3> QED
      BY <1>10, <3>1 DEF HealSnapshot
  <2> QED
    BY <1>10, <2>3 DEF HealSnapshot
<1>11. ASSUME NEW c \in healPlan, HealApply(c)
       PROVE  TypeOK'
  <2>1. /\ c.task \in Task /\ c.to \in States /\ c.pending \in Nat
        /\ c.recount \in BOOLEAN
    BY DEF Change
  <2> DEFINE pend == IF c.recount THEN [pending EXCEPT ![c.task] = c.pending]
                                  ELSE pending
  <2>2. pend \in [Task -> Nat]
    BY <2>1
  <2>3. /\ state' \in [Task -> States]
        /\ pending' \in [Task -> Nat]
        /\ sealing' \in Task \cup {None}
    <3>1. CASE Apply(c.task, c.to, pending)
      BY <2>1, <3>1, ApplyType
    <3>2. CASE Apply(c.task, c.to, pend)
      BY <2>1, <2>2, <3>2, ApplyType
    <3>3. CASE UNCHANGED <<state, sealing>> /\ pending' \in {pending, pend}
      BY <2>2, <3>3
    <3> QED
      BY <1>11, <3>1, <3>2, <3>3 DEF HealApply
  <2>4. mergeCommit' \in [Task -> Commits] /\ vouched' \subseteq Task
    BY <1>11, <2>1, RecordedType DEF HealApply
  <2> QED
    BY <1>11, <2>3, <2>4 DEF HealApply
<1>12. CASE Sync
  <2>1. blocks' \in [Task -> SUBSET Task]
    BY <1>12, BuildBlocksType DEF Sync
  <2> QED
    BY <1>12, <2>1 DEF Sync
<1>13. CASE UNCHANGED vars
  BY <1>13 DEF vars
<1> QED
  BY <1>1, <1>2, <1>3, <1>4, <1>5, <1>6, <1>7, <1>8, <1>9, <1>10, <1>11,
     <1>12, <1>13 DEF Next

\* Every variable of the board keeps its type under every command, repairs,
\* crashes and the unlocked sync included: no counter goes below zero.
THEOREM TypeCorrect == Spec => []TypeOK
BY InitTypeOK, NextTypeOK, PTL DEF Spec

-----------------------------------------------------------------------------
(* The dependency counters, while no repair command is used *)

\* What has settled, as OpenAmong sees it.
Settled(b) == b \in sealed \/ (b \in live /\ IsTerminal(b))

\* FrontierExact is not inductive alone: the decrement reaches the right
\* records only while blocks inverts blocked_by, a settlement counts once only
\* while a settled record stays settled, and a record being sealed is one.
FrontierInv ==
    /\ TypeOK
    /\ BlocksExact
    /\ SettledStaysOff
    /\ FrontierExact
    /\ sealing # None => sealing \in live /\ IsTerminal(sealing)
    /\ healPlan = {}

\* OpenAmong is the complement of Settled.
LEMMA OpenIsUnsettled ==
    ASSUME NEW bs PROVE OpenAmong(bs) = {b \in bs : ~Settled(b)}
BY DEF OpenAmong, Settled

\* A step that settles t and nothing else takes t, and only t, out of the open
\* blockers of every record.
LEMMA OpenAfter ==
    ASSUME NEW bs, NEW t, \A b \in bs : Settled(b)' <=> (Settled(b) \/ b = t)
    PROVE  {b \in bs : ~Settled(b)'} = OpenAmong(bs) \ {t}
BY OpenIsUnsettled

\* A step that settles nothing leaves the open blockers as they are.
LEMMA OpenSame ==
    ASSUME NEW bs, \A b \in bs : Settled(b)' <=> Settled(b)
    PROVE  {b \in bs : ~Settled(b)'} = OpenAmong(bs)
BY OpenIsUnsettled

\* The primed reading of OpenIsUnsettled for the blockers of a record.
LEMMA OpenPrimed ==
    ASSUME NEW t PROVE Open(t)' = {b \in blockedBy'[t] : ~Settled(b)'}
BY DEF Open, OpenAmong, Settled

\* _apply_transition of a live, unsettled record keeps the counters exact.
LEMMA ApplyKeepsFrontier ==
    ASSUME FrontierInv, NEW t \in live, NEW to \in States, to # state[t],
           ~IsTerminal(t), Apply(t, to, pending),
           UNCHANGED <<live, sealed, deps, healPlan>>
    PROVE  /\ FrontierExact'
           /\ sealing' # None => sealing' \in live /\ IsTerminal(sealing)'
<1> USE DEF FrontierInv
<1>0. /\ t \in Task /\ live \subseteq Task
      /\ \A d \in live : blockedBy[d] \in SUBSET Task
      /\ UNCHANGED <<live, sealed, blockedBy, blocks>>
  BY DEF TypeOK, deps
<1>1. CASE to \in Terminal
  <2>1. \A b \in Task : IsTerminal(b)' <=> IsTerminal(b) \/ b = t
    BY <1>0, <1>1 DEF Apply, IsTerminal, Released, Terminal, TypeOK
  <2>2. \A b \in Task : Settled(b)' <=> Settled(b) \/ b = t
    BY <1>0, <2>1 DEF Settled
  <2>3. ~Settled(t)
    BY DEF Settled, SettledStaysOff
  <2>4. ASSUME NEW d \in live
        PROVE  pending'[d] = Cardinality(Open(d)')
    <3>1. Open(d)' = Open(d) \ {t}
      BY <1>0, <2>2, OpenPrimed, OpenAfter DEF Open
    <3>2. IsFiniteSet(Open(d)) /\ Cardinality(Open(d)) \in Nat
      BY <1>0, OpenFinite DEF Open
    <3>3. pending[d] = Cardinality(Open(d)) /\ d \in Task
      BY <1>0 DEF FrontierExact
    <3>4. t \in Open(d) <=> d \in Dependents(t)
      BY <1>0, <2>3, OpenIsUnsettled DEF Open, Dependents, BlocksExact
    <3>5. pending'[d] = IF d \in Dependents(t) /\ pending[d] > 0
                          THEN pending[d] - 1 ELSE pending[d]
      BY <1>1, <3>3 DEF Apply, Counted
    <3>6. Cardinality(Open(d) \ {t}) =
            IF t \in Open(d) THEN Cardinality(Open(d)) - 1
                             ELSE Cardinality(Open(d))
      BY <3>2, FS_RemoveElement
    <3>7. t \in Open(d) => Cardinality(Open(d)) # 0
      BY <3>2, FS_EmptySet
    <3> QED
      BY <3>1, <3>2, <3>3, <3>4, <3>5, <3>6, <3>7
  <2>5. FrontierExact'
    BY <1>0, <2>4 DEF FrontierExact
  <2>6. sealing' = t /\ IsTerminal(t)'
    BY <1>0, <1>1, <2>1 DEF Apply
  <2> QED
    BY <2>5, <2>6
<1>2. CASE to \notin Terminal
  <2>1. \A b \in Task : IsTerminal(b)' <=> IsTerminal(b)
    BY <1>0, <1>2 DEF Apply, IsTerminal, TypeOK
  <2>2. \A b \in Task : Settled(b)' <=> Settled(b)
    BY <1>0, <2>1 DEF Settled
  <2>3. ASSUME NEW d \in live PROVE Open(d)' = Open(d)
    BY <1>0, <2>2, OpenPrimed, OpenSame DEF Open
  <2>4. FrontierExact'
    BY <1>0, <1>2, <2>3 DEF Apply, FrontierExact
  <2> QED
    BY <1>2, <2>4 DEF Apply
<1> QED
  BY <1>1, <1>2

\* Adding or re-planning t, whose record does not count as settled before or
\* after, leaves the open blockers of every set of ids as they were.
LEMMA IntakeKeepsOpen ==
    ASSUME TypeOK, NEW t \in Task, NEW v \in {"ready", "blocked"}, ~Settled(t),
           live' = live \cup {t}, sealed' = sealed, state' = [state EXCEPT ![t] = v]
    PROVE  \A bs \in SUBSET Task : {b \in bs : ~Settled(b)'} = OpenAmong(bs)
<1>1. \A b \in Task : Settled(b)' <=> Settled(b)
  BY DEF Settled, IsTerminal, Terminal, TypeOK
<1> QED
  BY <1>1, OpenSame

\* Intake writes the exact counter of the record it adds and rebuilds blocks,
\* so the frontier invariant survives it.
LEMMA IntakeKeepsFrontier ==
    ASSUME FrontierInv, TypeOK', NEW t \in Task, NEW bs \in SUBSET Task,
           NEW v \in {"ready", "blocked"}, ~Settled(t), t \notin sealed,
           live' = live \cup {t},
           state' = [state EXCEPT ![t] = v],
           pending' = [pending EXCEPT ![t] = Cardinality(OpenAmong(bs))],
           blockedBy' = [blockedBy EXCEPT ![t] = bs],
           blocks' = BuildBlocks(live', blockedBy'),
           UNCHANGED <<sealed, sealing, healPlan>>
    PROVE  FrontierInv'
<1> USE DEF FrontierInv
<1>1. \A b \in SUBSET Task : {x \in b : ~Settled(x)'} = OpenAmong(b)
  BY IntakeKeepsOpen
<1>2. ASSUME NEW d \in live' PROVE pending'[d] = Cardinality(Open(d)')
  <2>1. d \in Task /\ blockedBy'[d] \in SUBSET Task
    BY DEF TypeOK
  <2>2. Open(d)' = OpenAmong(blockedBy'[d])
    BY <1>1, <2>1, OpenPrimed
  <2>3. CASE d = t
    BY <2>2, <2>3 DEF TypeOK
  <2>4. CASE d # t
    BY <2>1, <2>2, <2>4 DEF TypeOK, FrontierExact, Open
  <2> QED
    BY <2>3, <2>4
<1>3. BlocksExact'
  BY DEF BlocksExact, BuildBlocks, TypeOK
<1>4. SettledStaysOff'
  BY DEF SettledStaysOff
<1>5. sealing' # None => sealing' \in live' /\ IsTerminal(sealing)'
  BY DEF IsTerminal, TypeOK, Settled
<1> QED
  BY <1>2, <1>3, <1>4, <1>5 DEF FrontierExact

\* On an initial board every counter is the number of blockers, none settled,
\* and blocks is the inverse of blocked_by.
LEMMA InitFrontier == Init => FrontierInv
<1> SUFFICES ASSUME Init PROVE FrontierInv
  OBVIOUS
<1>1. TypeOK
  BY InitTypeOK
<1>2. BlocksExact
  BY <1>1 DEF Init, BlocksExact, TypeOK
<1>3. ASSUME NEW t \in live PROVE Open(t) = blockedBy[t]
  BY DEF Init, Open, OpenAmong, IsTerminal, Terminal
<1>4. FrontierExact
  BY <1>3 DEF Init, FrontierExact
<1> QED
  BY <1>1, <1>2, <1>4 DEF Init, FrontierInv, SettledStaysOff

\* Without repairs, every step keeps the counters exact, together with the
\* inverse edges and the disjointness of board and tombstones that need it.
LEMMA NextFrontier ==
    ASSUME Commands \subseteq {"reingest", "vouch"}, FrontierInv, [Next]_vars
    PROVE  FrontierInv'
<1> USE DEF FrontierInv
<1>t. TypeOK'
  BY NextTypeOK
<1>b. \A t \in Task : PlanBlockers[t] \in SUBSET SUBSET Task
  BY PlanAssumption
<1>1. ASSUME NEW t \in Task, NEW bs \in PlanBlockers[t], SprintAdd(t, bs)
      PROVE  FrontierInv'
  <2>1. ~Settled(t) /\ t \notin sealed
    BY <1>1 DEF SprintAdd, Admissible, Settled
  <2>2. PICK v \in {"ready", "blocked"} : state' = [state EXCEPT ![t] = v]
    BY <1>1 DEF SprintAdd
  <2> QED
    BY <1>1, <1>b, <1>t, <2>1, <2>2, IntakeKeepsFrontier DEF SprintAdd
<1>2. ASSUME NEW t \in Task, NEW bs \in PlanBlockers[t], Reingest(t, bs)
      PROVE  FrontierInv'
  <2>1. ~Settled(t) /\ t \notin sealed
    BY <1>2 DEF Reingest, Inert, Settled, SettledStaysOff, IsTerminal, Terminal
  <2>2. PICK v \in {"ready", "blocked"} : state' = [state EXCEPT ![t] = v]
    BY <1>2 DEF Reingest
  <2>3. live' = live \cup {t} /\ blocks' = BuildBlocks(live', blockedBy')
    BY <1>2 DEF Reingest
  <2> QED
    BY <1>2, <1>b, <1>t, <2>1, <2>2, <2>3, IntakeKeepsFrontier DEF Reingest
<1>3. ASSUME NEW t \in Task, NEW to \in States, Transition(t, to)
      PROVE  FrontierInv'
  <2>1. CASE to = state[t]
    <3>1. UNCHANGED <<live, sealed, state, blockedBy, blocks, pending, sealing,
                      healPlan>>
      BY <1>3, <2>1 DEF Transition, Apply, LockFree, deps, Legal, Terminal, TypeOK, States
    <3> QED
      BY <1>t, <3>1 DEF BlocksExact, SettledStaysOff, FrontierExact, Open,
                        OpenAmong, IsTerminal
  <2>2. CASE to # state[t]
    <3>1. ~IsTerminal(t)
      BY <1>3 DEF Transition, Legal, IsTerminal, Terminal
    <3>2. /\ FrontierExact'
          /\ sealing' # None => sealing' \in live /\ IsTerminal(sealing)'
      BY <1>3, <2>2, <3>1, ApplyKeepsFrontier DEF Transition
    <3> QED
      BY <1>3, <1>t, <3>2 DEF Transition, deps, BlocksExact, SettledStaysOff
  <2> QED
    BY <2>1, <2>2
<1>4. ASSUME NEW t \in Task, RecordMerge(t) PROVE FrontierInv'
  <2>1. ~IsTerminal(t) /\ "merged" # state[t] /\ "merged" \in States
    BY <1>4 DEF RecordMerge, Legal, IsTerminal, Terminal, States
  <2>2. /\ FrontierExact'
        /\ sealing' # None => sealing' \in live /\ IsTerminal(sealing)'
    BY <1>4, <2>1, ApplyKeepsFrontier DEF RecordMerge
  <2> QED
    BY <1>4, <1>t, <2>2 DEF RecordMerge, deps, BlocksExact, SettledStaysOff
<1>5. CASE Seal
  <2>1. /\ sealing \in live /\ IsTerminal(sealing)
        /\ live' = live \ {sealing} /\ sealed' = sealed \cup {sealing}
        /\ sealing' = None
        /\ UNCHANGED <<state, blockedBy, blocks, pending, healPlan>>
    BY <1>5 DEF Seal, deps
  <2>2. \A b : Settled(b)' <=> Settled(b)
    BY <2>1 DEF Settled, IsTerminal
  <2>3. \A d : Open(d)' = Open(d)
    BY <2>1, <2>2, OpenPrimed, OpenSame DEF Open
  <2> QED
    BY <1>t, <2>1, <2>3 DEF BlocksExact, SettledStaysOff, FrontierExact
<1>6. CASE \/ CrashBeforeSeal
           \/ \E t \in Task : \/ CreateBranch(t) \/ Commit(t) \/ FlushRecord(t)
                             \/ \E how \in Landings : Land(t, how)
           \/ UNCHANGED vars
  <2>1. /\ UNCHANGED <<live, sealed, state, blockedBy, blocks, pending, healPlan>>
        /\ sealing' \in {sealing, None}
    BY <1>6 DEF CrashBeforeSeal, CreateBranch, Commit, FlushRecord, Land, vars,
                deps, gitVars
  <2> QED
    BY <1>t, <2>1 DEF BlocksExact, SettledStaysOff, FrontierExact, Open,
                      OpenAmong, IsTerminal
<1>7. ~(HealSnapshot \/ Sync \/ \E c \in healPlan : HealApply(c))
  BY DEF HealSnapshot, Sync
<1>8. ~(\E t \in Task, hard \in BOOLEAN : Reset(t, hard))
  BY DEF Reset
<1> QED
  BY <1>1, <1>2, <1>3, <1>4, <1>5, <1>6, <1>7, <1>8 DEF Next

\* While the operator repairs nothing by hand (no heal, reset, sync or
\* asserted move; re-ingestion allowed), every counter on the board is exact
\* in every reachable state, crashes between save and seal included.
THEOREM CountersExact ==
    ASSUME Commands \subseteq {"reingest", "vouch"}
    PROVE  Spec => []FrontierExact
<1>1. Init => FrontierInv
  BY InitFrontier
<1>2. FrontierInv /\ [Next]_vars => FrontierInv'
  BY NextFrontier
<1>3. FrontierInv => FrontierExact
  BY DEF FrontierInv
<1> QED
  BY <1>1, <1>2, <1>3, PTL DEF Spec

\* A record that waits has a counter above zero, so some blocker is open.
WaitingInv == FrontierInv /\ BlockedIsWaiting

\* No record of an initial board is blocked.
LEMMA InitWaiting == Init => WaitingInv
BY InitFrontier DEF Init, WaitingInv, BlockedIsWaiting, FrontierInv, TypeOK

\* A settlement leaves blocked only records whose counter stays above zero.
LEMMA ApplyKeepsWaiting ==
    ASSUME WaitingInv, FrontierInv', NEW t \in live, NEW to \in States,
           to # "blocked", ~IsTerminal(t) \/ to = state[t],
           Apply(t, to, pending), UNCHANGED <<live, sealed, deps>>
    PROVE  BlockedIsWaiting'
<1> SUFFICES ASSUME NEW d \in live', state'[d] = "blocked"
             PROVE  Open(d)' # {}
  BY DEF BlockedIsWaiting
<1>1. pending'[d] = Cardinality(Open(d)')
  BY DEF FrontierInv, FrontierExact
<1>2. d \in Task /\ d \in live /\ blockedBy'[d] \in SUBSET Task
  BY DEF FrontierInv, TypeOK
<1>3. state[d] = "blocked" /\ d # t
  BY <1>2 DEF Apply, FrontierInv, WaitingInv, TypeOK, Terminal
<1>4. pending[d] = Cardinality(Open(d)) /\ Open(d) # {} /\ pending[d] \in Nat
  BY <1>2, <1>3 DEF WaitingInv, FrontierInv, FrontierExact, BlockedIsWaiting, TypeOK
<1>5. pending'[d] # 0
  <2>1. CASE to \in Terminal /\ d \in Dependents(t)
    <3>1. d \notin Released(t, pending)
      BY <1>2, <1>3, <2>1 DEF Apply, WaitingInv, FrontierInv, TypeOK
    <3> QED
      BY <1>2, <1>3, <2>1, <3>1 DEF Released, Apply
  <2>2. CASE ~(to \in Terminal /\ d \in Dependents(t))
    <3>1. pending'[d] = pending[d]
      BY <1>2, <2>2 DEF Apply, Counted
    <3>2. Cardinality(Open(d)) # 0
      <4>1. IsFiniteSet(Open(d))
        BY <1>2, OpenFinite DEF Open, WaitingInv, FrontierInv, TypeOK
      <4> QED
        BY <1>4, <4>1, FS_EmptySet
    <3> QED
      BY <1>4, <3>1, <3>2
  <2> QED
    BY <2>1, <2>2
<1> QED
  BY <1>1, <1>5, FS_EmptySet

\* Without repairs, a record that is blocked after a step has a counter above
\* zero, hence an open blocker.
LEMMA NextWaiting ==
    ASSUME Commands \subseteq {"reingest", "vouch"}, WaitingInv, [Next]_vars
    PROVE  WaitingInv'
<1> USE DEF WaitingInv
<1>f. FrontierInv'
  BY NextFrontier
<1> SUFFICES BlockedIsWaiting'
  BY <1>f
<1>t. TypeOK /\ TypeOK'
  BY <1>f DEF FrontierInv
<1>1. ASSUME NEW t \in Task, NEW bs \in PlanBlockers[t],
             SprintAdd(t, bs) \/ Reingest(t, bs)
      PROVE  BlockedIsWaiting'
  <2>b. bs \in SUBSET Task
    BY PlanAssumption
  <2>0. /\ live' = live \cup {t} /\ sealed' = sealed
        /\ state' = [state EXCEPT ![t] = IF OpenAmong(bs) = {} THEN "ready"
                                                              ELSE "blocked"]
        /\ blockedBy' = [blockedBy EXCEPT ![t] = bs]
        /\ ~Settled(t)
    BY <1>1 DEF SprintAdd, Reingest, Admissible, Inert, Settled, IsTerminal,
                Terminal, FrontierInv, SettledStaysOff
  <2>1. \A b \in SUBSET Task : {x \in b : ~Settled(x)'} = OpenAmong(b)
    BY <1>t, <2>0, IntakeKeepsOpen
  <2>2. ASSUME NEW d \in live', state'[d] = "blocked" PROVE Open(d)' # {}
    <3>1. d \in Task /\ blockedBy'[d] \in SUBSET Task
      BY <1>t DEF TypeOK
    <3>2. Open(d)' = OpenAmong(blockedBy'[d])
      BY <2>1, <3>1, OpenPrimed
    <3>3. CASE d = t
      BY <1>t, <2>0, <2>2, <3>2, <3>3 DEF TypeOK
    <3>4. CASE d # t
      BY <1>t, <2>0, <2>2, <3>2, <3>4 DEF TypeOK, BlockedIsWaiting, Open
    <3> QED
      BY <3>3, <3>4
  <2> QED
    BY <2>2 DEF BlockedIsWaiting
<1>2. ASSUME NEW t \in Task, NEW to \in States, Transition(t, to)
      PROVE  BlockedIsWaiting'
  <2>1. to # "blocked" /\ (~IsTerminal(t) \/ to = state[t])
    BY <1>2, <1>t DEF Transition, Legal, Asserted, IsTerminal, Terminal, States, TypeOK
  <2> QED
    BY <1>2, <1>f, <2>1, ApplyKeepsWaiting DEF Transition
<1>3. ASSUME NEW t \in Task, RecordMerge(t) PROVE BlockedIsWaiting'
  <2>1. ~IsTerminal(t) /\ "merged" \in States
    BY <1>3 DEF RecordMerge, Legal, IsTerminal, Terminal, States
  <2> QED
    BY <1>3, <1>f, <2>1, ApplyKeepsWaiting DEF RecordMerge
<1>4. CASE Seal
  <2>1. /\ sealing \in live /\ IsTerminal(sealing)
        /\ live' = live \ {sealing} /\ sealed' = sealed \cup {sealing}
        /\ UNCHANGED <<state, blockedBy>>
    BY <1>4 DEF Seal, deps, FrontierInv
  <2>2. \A b : Settled(b)' <=> Settled(b)
    BY <2>1 DEF Settled, IsTerminal
  <2>3. \A d : Open(d)' = Open(d)
    BY <2>1, <2>2, OpenPrimed, OpenSame DEF Open
  <2> QED
    BY <2>1, <2>3 DEF BlockedIsWaiting
<1>5. CASE \/ CrashBeforeSeal
           \/ \E t \in Task : \/ CreateBranch(t) \/ Commit(t) \/ FlushRecord(t)
                             \/ \E how \in Landings : Land(t, how)
           \/ UNCHANGED vars
  <2>1. UNCHANGED <<live, sealed, state, blockedBy>>
    BY <1>5 DEF CrashBeforeSeal, CreateBranch, Commit, FlushRecord, Land, vars,
                deps, gitVars
  <2> QED
    BY <2>1 DEF BlockedIsWaiting, Open, OpenAmong, IsTerminal
<1>6. ~(HealSnapshot \/ Sync \/ \E c \in healPlan : HealApply(c))
  BY DEF HealSnapshot, Sync, FrontierInv
<1>7. ~(\E t \in Task, hard \in BOOLEAN : Reset(t, hard))
  BY DEF Reset
<1> QED
  BY <1>1, <1>2, <1>3, <1>4, <1>5, <1>6, <1>7 DEF Next

\* Under the same conditions no record is ever stuck at blocked: as long as it
\* says blocked, one of its blockers has yet to settle.
THEOREM NoneStuckAtBlocked ==
    ASSUME Commands \subseteq {"reingest", "vouch"}
    PROVE  Spec => []BlockedIsWaiting
<1>1. Init => WaitingInv
  BY InitWaiting
<1>2. WaitingInv /\ [Next]_vars => WaitingInv'
  BY NextWaiting
<1>3. WaitingInv => BlockedIsWaiting
  BY DEF WaitingInv
<1> QED
  BY <1>1, <1>2, <1>3, PTL DEF Spec

-----------------------------------------------------------------------------
(* Evidence, under every command *)

\* What the evidence guard trusts: a recorded commit or a branch contained in
\* the integration branch shows the task's own commits landed, or somebody
\* vouched for a commit.  MergedIsLanded is not inductive without it: a reset
\* leaves the evidence in the record, to be asked again.
EvidenceTrue ==
    \A t \in Task :
        mergeCommit[t] # None \/ tip[t] \in {"on_target", "squashed"}
            => t \in landed \cup vouched

LandedInv == TypeOK /\ EvidenceTrue /\ MergedIsLanded

\* No record of an initial board says merged or has a merge commit.
LEMMA InitLanded == Init => LandedInv
BY InitTypeOK DEF Init, LandedInv, EvidenceTrue, MergedIsLanded, TypeOK, None

\* A record-merge leaves its task landed or vouched for, and nobody else's
\* evidence changed.
LEMMA RecordedIsTrue ==
    ASSUME LandedInv, NEW t \in Task, NEW how \in Grounds(t) \cup {"asserted"},
           Recorded(t, how)
    PROVE  /\ t \in landed \cup vouched'
           /\ vouched \subseteq vouched'
           /\ \A d \in Task \ {t} : mergeCommit'[d] = mergeCommit[d]
BY DEF LandedInv, TypeOK, EvidenceTrue, Grounds, Resolved, Recorded

\* _apply_transition marks no record merged but the one it was called for.
LEMMA ApplyMarksOne ==
    ASSUME TypeOK, NEW t \in Task, NEW to, NEW pend, Apply(t, to, pend)
    PROVE  \A d \in Task : state'[d] = "merged" =>
               state[d] = "merged" \/ (d = t /\ to = "merged")
BY DEF Apply, TypeOK

\* A step that marks a record merged found evidence, and evidence stays true:
\* no step takes commits off the integration branch, and only a new record
\* forgets that its commit was vouched for.
LEMMA NextLanded == LandedInv /\ [Next]_vars => LandedInv'
<1> SUFFICES ASSUME LandedInv, [Next]_vars PROVE LandedInv'
  OBVIOUS
<1>i. TypeOK /\ EvidenceTrue /\ MergedIsLanded
  BY DEF LandedInv
<1>t. TypeOK'
  BY <1>i, NextTypeOK
<1>m. ASSUME live' \cup sealed' \subseteq live \cup sealed,
             landed \cup vouched \subseteq landed' \cup vouched',
             \A d \in Task : state'[d] = "merged" =>
                                state[d] = "merged" \/ d \in landed' \cup vouched'
      PROVE  MergedIsLanded'
  BY <1>m, <1>t, <1>i DEF MergedIsLanded, TypeOK
<1>e. ASSUME landed \cup vouched \subseteq landed' \cup vouched',
             \A d \in Task : \/ d \in landed' \cup vouched'
                             \/ /\ mergeCommit'[d] = mergeCommit[d]
                                /\ tip'[d] \in {"on_target", "squashed"} => tip'[d] = tip[d]
      PROVE  EvidenceTrue'
  BY <1>e, <1>i DEF EvidenceTrue
<1>1. ASSUME NEW t \in Task, NEW bs \in PlanBlockers[t], SprintAdd(t, bs)
      PROVE  LandedInv'
  <2>1. /\ live' = live \cup {t} /\ sealed' = sealed
        /\ landed' = landed /\ vouched' = vouched \ {t}
        /\ state'[t] # "merged" /\ mergeCommit'[t] = None /\ tip'[t] = "none"
        /\ \A d \in Task \ {t} : /\ state'[d] = state[d]
                                 /\ mergeCommit'[d] = mergeCommit[d]
                                 /\ tip'[d] = tip[d]
    BY <1>1, <1>i DEF SprintAdd, TypeOK
  <2>2. MergedIsLanded'
    BY <1>i, <1>t, <2>1 DEF MergedIsLanded, TypeOK
  <2>3. EvidenceTrue'
    BY <1>i, <2>1 DEF EvidenceTrue
  <2> QED
    BY <1>t, <2>2, <2>3 DEF LandedInv
<1>2. ASSUME NEW t \in Task, NEW bs \in PlanBlockers[t], Reingest(t, bs)
      PROVE  LandedInv'
  <2>1. /\ live' = live /\ sealed' = sealed /\ UNCHANGED gitVars
        /\ state'[t] # "merged"
        /\ \A d \in Task \ {t} : state'[d] = state[d]
    BY <1>2, <1>i DEF Reingest, TypeOK
  <2>2. MergedIsLanded'
    BY <1>i, <1>t, <2>1 DEF MergedIsLanded, TypeOK, gitVars
  <2>3. EvidenceTrue'
    BY <1>i, <2>1 DEF EvidenceTrue, gitVars
  <2> QED
    BY <1>t, <2>2, <2>3 DEF LandedInv
<1>3. ASSUME NEW t \in Task, NEW to \in States, Transition(t, to)
      PROVE  LandedInv'
  <2>1. to = "merged" => t \in landed \cup vouched
    BY <1>3, <1>i DEF Transition, Evidence, EvidenceTrue, None
  <2>2. \A d \in Task : state'[d] = "merged" =>
                           state[d] = "merged" \/ d \in landed \cup vouched
    BY <1>3, <1>i, <2>1, ApplyMarksOne DEF Transition
  <2>3. MergedIsLanded'
    BY <1>3, <1>m, <2>2 DEF Transition, gitVars
  <2>4. EvidenceTrue'
    BY <1>3, <1>e DEF Transition, gitVars
  <2> QED
    BY <1>t, <2>3, <2>4 DEF LandedInv
<1>4. ASSUME NEW t \in Task, RecordMerge(t)
      PROVE  LandedInv'
  <2>1. PICK how \in Grounds(t) \cup {"asserted"} : Recorded(t, how)
    BY <1>4 DEF RecordMerge
  <2>2. /\ t \in landed \cup vouched' /\ vouched \subseteq vouched'
        /\ landed' = landed
        /\ \A d \in Task \ {t} : mergeCommit'[d] = mergeCommit[d]
    BY <1>4, <2>1, RecordedIsTrue DEF RecordMerge
  <2>3. \A d \in Task \ {t} : tip'[d] = tip[d]
    BY <1>4, <1>i DEF RecordMerge, TypeOK
  <2>4. \A d \in Task : state'[d] = "merged" => state[d] = "merged" \/ d = t
    BY <1>4, <1>i, ApplyMarksOne DEF RecordMerge
  <2>5. MergedIsLanded'
    BY <1>4, <1>m, <2>2, <2>4 DEF RecordMerge
  <2>6. EvidenceTrue'
    BY <1>e, <2>2, <2>3
  <2> QED
    BY <1>t, <2>5, <2>6 DEF LandedInv
<1>5. ASSUME NEW t \in Task, NEW hard \in BOOLEAN, Reset(t, hard)
      PROVE  LandedInv'
  <2>1. PICK to, pend : to \in {"ready", "blocked"} /\ Apply(t, to, pend)
    BY <1>5 DEF Reset
  <2>2. MergedIsLanded'
    BY <1>5, <1>i, <1>m, <2>1, ApplyMarksOne DEF Reset
  <2>3. EvidenceTrue'
    BY <1>5, <1>i, <1>e DEF Reset, TypeOK
  <2> QED
    BY <1>t, <2>2, <2>3 DEF LandedInv
<1>6. ASSUME NEW c \in healPlan, HealApply(c)
      PROVE  LandedInv'
  <2> DEFINE t == c.task
  <2>1. t \in Task
    BY <1>i DEF TypeOK, Change
  <2>2. /\ live' = live /\ sealed' = sealed /\ tip' = tip /\ landed' = landed
    BY <1>6 DEF HealApply
  <2>3. CASE \E how \in Grounds(t) : Recorded(t, how)
    <3>1. /\ t \in landed \cup vouched' /\ vouched \subseteq vouched'
          /\ \A d \in Task \ {t} : mergeCommit'[d] = mergeCommit[d]
      BY <2>1, <2>3, RecordedIsTrue
    <3>2. \A d \in Task : state'[d] = "merged" => state[d] = "merged" \/ d = t
      <4>1. CASE state' = state
        BY <4>1
      <4>2. CASE state' # state
        <5>1. PICK pend : Apply(t, c.to, pend)
          BY <1>6, <4>2 DEF HealApply
        <5> QED
          BY <1>i, <2>1, <5>1, ApplyMarksOne
      <4> QED
        BY <4>1, <4>2
    <3>3. MergedIsLanded'
      BY <1>m, <2>2, <3>1, <3>2
    <3>4. EvidenceTrue'
      BY <1>e, <2>2, <3>1
    <3> QED
      BY <1>t, <3>3, <3>4 DEF LandedInv
  <2>4. CASE UNCHANGED <<mergeCommit, vouched>>
    <3>1. \A d \in Task : state'[d] = "merged" =>
                             state[d] = "merged" \/ d \in landed \cup vouched
      <4>1. CASE state' = state
        BY <4>1
      <4>2. CASE state' # state
        <5>1. PICK pend : Apply(t, c.to, pend)
          BY <1>6, <4>2 DEF HealApply
        <5>2. c.to = "merged" => \/ state[t] = "merged"
                                \/ Evidence(t)
                                \/ \E how \in Grounds(t) : Recorded(t, how)
          BY <1>6, <4>2 DEF HealApply
        <5>3. c.to = "merged" => state[t] = "merged" \/ t \in landed \cup vouched
          BY <1>i, <2>1, <2>4, <5>2, RecordedIsTrue DEF Evidence, EvidenceTrue, None
        <5> QED
          BY <1>i, <2>1, <5>1, <5>3, ApplyMarksOne
      <4> QED
        BY <4>1, <4>2
    <3>2. MergedIsLanded'
      BY <1>m, <2>2, <2>4, <3>1
    <3>3. EvidenceTrue'
      BY <1>e, <2>2, <2>4
    <3> QED
      BY <1>t, <3>2, <3>3 DEF LandedInv
  <2> QED
    BY <1>6, <2>3, <2>4 DEF HealApply
<1>7. CASE \/ Seal \/ CrashBeforeSeal \/ Sync \/ HealSnapshot
           \/ UNCHANGED vars
  <2>1. /\ state' = state /\ UNCHANGED gitVars
        /\ live' \cup sealed' \subseteq live \cup sealed
    BY <1>7 DEF Seal, CrashBeforeSeal, Sync, HealSnapshot, vars, deps, gitVars
  <2>2. MergedIsLanded' /\ EvidenceTrue'
    BY <1>m, <1>e, <2>1 DEF gitVars
  <2> QED
    BY <1>t, <2>2 DEF LandedInv
<1>8. ASSUME NEW t \in Task,
             \/ CreateBranch(t) \/ Commit(t) \/ FlushRecord(t)
             \/ \E how \in Landings : Land(t, how)
      PROVE  LandedInv'
  <2>1. /\ state' = state /\ live' = live /\ sealed' = sealed
        /\ landed \subseteq landed' /\ vouched' = vouched
    BY <1>8 DEF CreateBranch, Commit, FlushRecord, Land
  <2>2. \A d \in Task : \/ d \in landed'
                        \/ /\ mergeCommit'[d] = mergeCommit[d]
                           /\ tip'[d] \in {"on_target", "squashed"} => tip'[d] = tip[d]
    BY <1>8, <1>i DEF CreateBranch, Commit, FlushRecord, Land, TypeOK
  <2>3. MergedIsLanded' /\ EvidenceTrue'
    BY <1>m, <1>e, <2>1, <2>2
  <2> QED
    BY <1>t, <2>3 DEF LandedInv
<1> QED
  BY <1>1, <1>2, <1>3, <1>4, <1>5, <1>6, <1>7, <1>8 DEF Next

\* Whatever commands the operator uses, forced or repairing, no record says
\* merged before its commits are on the integration branch, but on a merge
\* commit that an operator named or that only resembles the branch.
THEOREM NothingMergedUnlanded == Spec => []MergedIsLanded
<1>1. LandedInv => MergedIsLanded
  BY DEF LandedInv
<1> QED
  BY <1>1, InitLanded, NextLanded, PTL DEF Spec

-----------------------------------------------------------------------------
(* The refinement of DependencyGate, while no repair command is used *)

\* What the gate calls settled is what the board counts as settled.
LEMMA GateSettled ==
    ASSUME TypeOK
    PROVE  Gate!Settled = {b \in Task : Settled(b)}
<1>1. ASSUME NEW b \in Task PROVE Standing(b) = "settled" <=> Settled(b)
  BY DEF Standing, Settled
<1> QED
  BY <1>1 DEF Gate!Settled

\* A set of ids waits for nothing on the board when the gate has settled it.
LEMMA OpenIsGate ==
    ASSUME TypeOK, NEW bs \in SUBSET Task
    PROVE  OpenAmong(bs) = {} <=> bs \subseteq Gate!Settled
BY GateSettled, OpenIsUnsettled

\* Records of an initial board are at planned: the gate lists them.
LEMMA InitGate == Init => Gate!Init
<1> SUFFICES ASSUME Init PROVE Gate!Init
  OBVIOUS
<1>1. ASSUME NEW t \in Task PROVE Standing(t) \in {"absent", "listed"}
  BY DEF Init, Standing, IsTerminal, Terminal
<1>2. blockedBy \in [Task -> SUBSET Task]
  BY DEF Init
<1> QED
  BY <1>1, <1>2 DEF Gate!Init

\* A step that leaves the standing of every task and its blockers alone is no
\* step of the gate.
LEMMA NotSeen ==
    ASSUME \A t \in Task : Standing(t)' = Standing(t), blockedBy' = blockedBy
    PROVE  UNCHANGED Gate!vars
BY DEF Gate!vars

\* Intake and re-ingestion admit a task: it is open when all its blockers have
\* settled, and waits otherwise.
LEMMA IntakeAdmits ==
    ASSUME TypeOK, NEW t \in Task, NEW bs \in PlanBlockers[t],
           t \in live => state[t] \in {"planned", "ready", "blocked"},
           t \notin sealed, sealed' = sealed, live' = live \cup {t},
           state' = [state EXCEPT ![t] = IF OpenAmong(bs) = {} THEN "ready"
                                                             ELSE "blocked"],
           blockedBy' = [blockedBy EXCEPT ![t] = bs]
    PROVE  Gate!Admit(t, bs)
<1>b. bs \in SUBSET Task
  BY PlanAssumption
<1>1. Standing(t) \in {"absent", "listed", "waiting", "open"}
  BY DEF Standing, IsTerminal, Terminal
<1>2. Standing(t)' = IF bs \subseteq Gate!Settled THEN "open" ELSE "waiting"
  <2>1. state'[t] = IF bs \subseteq Gate!Settled THEN "ready" ELSE "blocked"
    BY <1>b, OpenIsGate DEF TypeOK
  <2> QED
    BY <2>1 DEF Standing, IsTerminal, Terminal
<1>3. ASSUME NEW d \in Task, d # t PROVE Standing(d)' = Standing(d)
  BY <1>3 DEF Standing, IsTerminal, TypeOK
<1> QED
  BY <1>1, <1>2, <1>3 DEF Gate!Admit

\* A settlement opens exactly the tasks whose last open blocker it was.
LEMMA ApplySettles ==
    ASSUME FrontierInv, NEW t \in live, NEW to \in Terminal, to # state[t],
           ~IsTerminal(t), Apply(t, to, pending),
           UNCHANGED <<live, sealed, deps, healPlan>>
    PROVE  Gate!Settle(t)
<1> USE DEF FrontierInv
<1>0. /\ t \in Task /\ live \subseteq Task /\ to \in States
      /\ \A d \in Task : blockedBy[d] \in SUBSET Task
      /\ UNCHANGED <<live, sealed, blockedBy, blocks>>
  BY DEF TypeOK, deps, Terminal, States
<1>1. FrontierExact'
  BY <1>0, ApplyKeepsFrontier
<1>2. \A b \in Task : Settled(b)' <=> Settled(b) \/ b = t
  BY <1>0 DEF Settled, Apply, IsTerminal, Released, Terminal, TypeOK
<1>3. Standing(t) \in {"listed", "waiting", "open"} /\ Standing(t)' = "settled"
  BY <1>0, <1>2 DEF Standing, Settled, SettledStaysOff
<1>4. ASSUME NEW d \in Task, d # t
      PROVE  Standing(d)' =
               IF /\ Standing(d) \in {"listed", "waiting"}
                  /\ t \in blockedBy[d]
                  /\ blockedBy[d] \subseteq Gate!Settled \cup {t}
               THEN "open" ELSE Standing(d)
  <2>1. CASE d \in live /\ d \notin sealed /\ state[d] \in {"blocked", "planned"}
    <3>1. Standing(d) \in {"listed", "waiting"}
      BY <2>1 DEF Standing, IsTerminal, Terminal
    <3>2. d \in Dependents(t) <=> t \in blockedBy[d]
      BY <1>0, <2>1 DEF Dependents, BlocksExact
    <3>3. Counted(t, pending)[d] = Cardinality(Open(d)')
      BY <1>0, <1>1, <2>1 DEF Apply, FrontierExact
    <3>4. Open(d)' = OpenAmong(blockedBy[d]) \ {t}
      BY <1>0, <1>2, OpenPrimed, OpenAfter
    <3>5. IsFiniteSet(Open(d)')
      BY <1>0, <3>4, OpenFinite, FS_Subset
    <3>6. Open(d)' = {} <=> blockedBy[d] \subseteq Gate!Settled \cup {t}
      BY <1>0, <3>4, GateSettled, OpenIsUnsettled
    <3>7. d \in Released(t, pending) <=>
             t \in blockedBy[d] /\ blockedBy[d] \subseteq Gate!Settled \cup {t}
      BY <1>4, <2>1, <3>2, <3>3, <3>5, <3>6, FS_EmptySet DEF Released
    <3>8. state'[d] = IF d \in Released(t, pending) THEN "ready" ELSE state[d]
      BY <1>0, <1>4 DEF Apply
    <3>9. Standing(d)' = IF d \in Released(t, pending) THEN "open" ELSE Standing(d)
      BY <1>0, <2>1, <3>8 DEF Standing, IsTerminal, Terminal
    <3> QED
      BY <3>1, <3>7, <3>9
  <2>2. CASE ~(d \in live /\ d \notin sealed /\ state[d] \in {"blocked", "planned"})
    <3>1. Standing(d) \notin {"listed", "waiting"}
      BY <2>2 DEF Standing
    <3>2. d \in live /\ d \notin sealed => state'[d] = state[d]
      BY <1>0, <1>4, <2>2 DEF Apply, Released
    <3>3. Standing(d)' = Standing(d)
      BY <1>0, <3>2 DEF Standing, IsTerminal
    <3> QED
      BY <3>1, <3>3
  <2> QED
    BY <2>1, <2>2
<1> QED
  BY <1>0, <1>3, <1>4 DEF Gate!Settle

\* Without repairs, every step of the board is a step of the gate or changes
\* nothing the gate shows.
LEMMA NextGate ==
    ASSUME Commands \subseteq {"reingest", "vouch"}, FrontierInv, [Next]_vars
    PROVE  [Gate!Next]_(Gate!vars)
<1> USE DEF FrontierInv
<1>1. ASSUME NEW t \in Task, NEW bs \in PlanBlockers[t],
             SprintAdd(t, bs) \/ Reingest(t, bs)
      PROVE  Gate!Next
  <2>1. Gate!Admit(t, bs)
    BY <1>1, IntakeAdmits DEF SprintAdd, Reingest, Admissible, Inert,
                              SettledStaysOff
  <2> QED
    BY <2>1 DEF Gate!Next
<1>2. ASSUME NEW t \in Task, NEW to \in States, Transition(t, to)
      PROVE  Gate!Next \/ UNCHANGED Gate!vars
  <2>0. /\ t \in live /\ to \in Legal[state[t]] /\ state[t] \in States
        /\ UNCHANGED <<live, sealed, blockedBy, blocks, healPlan>>
    BY <1>2 DEF Transition, TypeOK, deps
  <2>1. CASE to \in Terminal
    <3>1. ~IsTerminal(t) /\ to # state[t]
      BY <2>0, <2>1 DEF Legal, IsTerminal, Terminal, States
    <3>2. Gate!Settle(t)
      BY <1>2, <2>0, <2>1, <3>1, ApplySettles DEF Transition
    <3> QED
      BY <3>2 DEF Gate!Next
  <2>2. CASE to \notin Terminal
    <3>1. state' = [state EXCEPT ![t] = to]
      BY <1>2, <2>2 DEF Transition, Apply
    <3>2. t \notin sealed /\ state[t] \notin Terminal
      BY <2>0 DEF SettledStaysOff, Legal, Terminal, States
    <3>3. to # "planned" /\ to # "blocked" /\ state[t] # "blocked"
      BY <1>2, <2>0, <2>2 DEF Transition, Legal, Asserted, Terminal, States
    <3>4. Standing(t)' = "open"
      BY <2>0, <2>2, <3>1, <3>2, <3>3 DEF Standing, IsTerminal, TypeOK
    <3>5. \A d \in Task \ {t} : Standing(d)' = Standing(d)
      BY <2>0, <3>1 DEF Standing, IsTerminal, TypeOK
    <3>6. CASE state[t] = "planned"
      <4>1. Standing(t) = "listed"
        BY <2>0, <3>2, <3>6 DEF Standing, IsTerminal
      <4>2. Gate!Select(t)
        BY <2>0, <3>4, <3>5, <4>1 DEF Gate!Select
      <4> QED
        BY <4>2 DEF Gate!Next
    <3>7. CASE state[t] # "planned"
      <4>1. Standing(t) = "open"
        BY <2>0, <3>2, <3>3, <3>7 DEF Standing, IsTerminal
      <4> QED
        BY <2>0, <3>4, <3>5, <4>1, NotSeen
    <3> QED
      BY <3>6, <3>7
  <2> QED
    BY <2>1, <2>2
<1>3. ASSUME NEW t \in Task, RecordMerge(t) PROVE Gate!Next
  <2>1. ~IsTerminal(t) /\ "merged" # state[t] /\ "merged" \in Terminal
    BY <1>3 DEF RecordMerge, Legal, IsTerminal, Terminal
  <2>2. Gate!Settle(t)
    BY <1>3, <2>1, ApplySettles DEF RecordMerge
  <2> QED
    BY <2>2 DEF Gate!Next
<1>4. CASE Seal
  <2>1. /\ sealing \in live /\ IsTerminal(sealing)
        /\ live' = live \ {sealing} /\ sealed' = sealed \cup {sealing}
        /\ UNCHANGED <<state, blockedBy>>
    BY <1>4 DEF Seal, deps
  <2>2. \A d \in Task : Standing(d)' = Standing(d)
    BY <2>1 DEF Standing, IsTerminal
  <2> QED
    BY <2>1, <2>2, NotSeen
<1>5. CASE \/ CrashBeforeSeal
           \/ \E t \in Task : \/ CreateBranch(t) \/ Commit(t) \/ FlushRecord(t)
                             \/ \E how \in Landings : Land(t, how)
           \/ UNCHANGED vars
  <2>1. UNCHANGED <<live, sealed, state, blockedBy>>
    BY <1>5 DEF CrashBeforeSeal, CreateBranch, Commit, FlushRecord, Land, vars,
                deps, gitVars
  <2>2. \A d \in Task : Standing(d)' = Standing(d)
    BY <2>1 DEF Standing, IsTerminal
  <2> QED
    BY <2>1, <2>2, NotSeen
<1>6. ~(HealSnapshot \/ Sync \/ \E c \in healPlan : HealApply(c))
  BY DEF HealSnapshot, Sync
<1>7. ~(\E t \in Task, hard \in BOOLEAN : Reset(t, hard))
  BY DEF Reset
<1> QED
  BY <1>1, <1>2, <1>3, <1>4, <1>5, <1>6, <1>7 DEF Next

\* The board implements the gate: with counters, inverse edges and settlement
\* in two steps, a waiting task is opened by the step that settles its last
\* blocker and by no other, for every plan and every crash.
THEOREM BoardImplementsGate ==
    ASSUME Commands \subseteq {"reingest", "vouch"}
    PROVE  Spec => GateSpec
<1>1. FrontierInv /\ [Next]_vars => [Gate!Next]_(Gate!vars)
  BY NextGate
<1>2. FrontierInv /\ [Next]_vars => FrontierInv'
  BY NextFrontier
<1> QED
  BY <1>1, <1>2, InitFrontier, InitGate, PTL DEF Spec, GateSpec, Gate!Spec

-----------------------------------------------------------------------------
(* The inverse edges, under every command *)

\* Commands that leave the edges alone keep them inverse on a board that loses
\* records or stays; intake and sync rebuild them.
LEMMA NextBlocks == TypeOK /\ BlocksExact /\ [Next]_vars => BlocksExact'
<1> SUFFICES ASSUME TypeOK, BlocksExact, [Next]_vars PROVE BlocksExact'
  OBVIOUS
<1> USE DEF TypeOK, BlocksExact
<1>1. CASE UNCHANGED deps /\ live' \subseteq live
  BY <1>1 DEF deps
<1>2. ASSUME NEW board \in SUBSET Task, live' = board,
             blocks' = BuildBlocks(board, blockedBy')
      PROVE  BlocksExact'
  BY <1>2 DEF BuildBlocks
<1>3. ASSUME NEW t \in Task, NEW bs \in PlanBlockers[t],
             SprintAdd(t, bs) \/ Reingest(t, bs)
      PROVE  BlocksExact'
  <2>1. live' \in SUBSET Task /\ blocks' = BuildBlocks(live', blockedBy')
    BY <1>3 DEF SprintAdd, Reingest
  <2> QED
    BY <1>2, <2>1
<1>4. CASE Sync
  <2>1. live' \in SUBSET Task /\ blocks' = BuildBlocks(live', blockedBy')
    BY <1>4 DEF Sync, BuildBlocks
  <2> QED
    BY <1>2, <2>1
<1>5. CASE \/ Seal \/ CrashBeforeSeal \/ HealSnapshot
           \/ \E c \in healPlan : HealApply(c)
           \/ UNCHANGED vars
  <2>1. UNCHANGED deps /\ live' \subseteq live
    BY <1>5 DEF Seal, CrashBeforeSeal, HealSnapshot, HealApply, vars, deps
  <2> QED
    BY <1>1, <2>1
<1>6. CASE \E t \in Task :
              \/ \E to \in States : Transition(t, to)
              \/ RecordMerge(t) \/ CreateBranch(t) \/ Commit(t) \/ FlushRecord(t)
              \/ \E how \in Landings : Land(t, how)
              \/ \E hard \in BOOLEAN : Reset(t, hard)
  <2>1. UNCHANGED deps /\ live' \subseteq live
    BY <1>6 DEF Transition, RecordMerge, CreateBranch, Commit, FlushRecord, Land,
                Reset, deps
  <2> QED
    BY <1>1, <2>1
<1> QED
  BY <1>3, <1>4, <1>5, <1>6 DEF Next

\* Whatever commands the operator uses, blocks is the inverse of blocked_by
\* between the records on the board.
THEOREM EdgesInverse == Spec => []BlocksExact
<1>1. TypeOK /\ BlocksExact /\ [Next]_vars => (TypeOK /\ BlocksExact)'
  BY NextTypeOK, NextBlocks
<1>2. Init => TypeOK /\ BlocksExact
  BY InitTypeOK DEF Init, BlocksExact, TypeOK
<1> QED
  BY <1>1, <1>2, PTL DEF Spec
=============================================================================
