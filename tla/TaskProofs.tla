------------------------------ MODULE TaskProofs ------------------------------
(***************************************************************************)
(* Proofs about one task: the session of an agent (Session), for any stall *)
(* timeout and backstop, and the task on its way through the stages        *)
(* (TaskRun), for any workflow, isolation, mode and bound.                 *)
(*                                                                         *)
(* RunInv says where a run is and what it may rely on at its end; QaInv,   *)
(* what a qa verdict is worth; EvidInv, which stages have been judged.     *)
(***************************************************************************)
EXTENDS Session, TaskRun, WellFoundedInduction, FiniteSetTheorems, TLAPS

-----------------------------------------------------------------------------
(* The session and its watchdog                                             *)

\* A signal for a deadline comes from the thread that has shared the deadline
\* before it, and shares the same again after it; it goes to a child that
\* runs, so never to one whose end has been reported.
CauseInv ==
    /\ reader \in [at : {"reading", "joining", "waiting", "done"},
                   result : {Nil, "ok", "failed", "signal", "timeout"}]
    /\ child \in {"running", "ok", "failed", "signal"}
    /\ dog.at = "terminating" => cause = dog.why
    /\ signalled \in Deadlines =>
          /\ dog.at \in {"waiting", "named", "done"}
          /\ dog.why = signalled /\ cause = signalled
    /\ reader.at = "done" => ~Running
    /\ reader.at = "done" /\ signalled \in Deadlines =>
          reader.result = "timeout"

\* The invariant holds when the session starts.
LEMMA CauseInit ==
  ASSUME Nil \notin Deadlines
  PROVE  Init => CauseInv
  BY DEF Init, CauseInv, Running

\* Every step of the session, its watchdog and its reader keeps it.
LEMMA CauseStep == CauseInv /\ [Next]_vars => CauseInv'
<1> SUFFICES ASSUME CauseInv, [Next]_vars PROVE CauseInv'
  OBVIOUS
<1> USE DEF CauseInv, procVars, clockVars, Running, Deadlines
<1>1. CASE Tick \/ Alive \/ Leave \/ KidEnds \/ Shutdown
  BY <1>1 DEF Tick, Alive, Leave, KidEnds, Shutdown
<1>2. CASE Exit \/ Obey
  BY <1>2 DEF Exit, Obey
<1>3. CASE Poll
  BY <1>3 DEF Poll, Dog
\* The cause changes before any signal.
<1>4. CASE Decide
  BY <1>4 DEF Decide, Dog, Named
<1>5. CASE Terminate
  BY <1>5 DEF Terminate, Dog
<1>6. CASE Kill
  BY <1>6 DEF Kill, Dog
<1>7. CASE Rest
  BY <1>7 DEF Rest, Dog
<1>8. CASE EndOfOutput \/ Join
  BY <1>8 DEF EndOfOutput, Join
\* The reader looks at the cause when the child is gone.
<1>9. CASE Report
  BY <1>9 DEF Report
<1>10. CASE Over \/ UNCHANGED vars
  BY <1>10 DEF Over, vars
<1> QED
  BY <1>1, <1>2, <1>3, <1>4, <1>5, <1>6, <1>7, <1>8, <1>9, <1>10
  DEF Next, Dogs, Main

\* A session that a deadline signalled is reported as a timeout, whatever the
\* child made of the signal and however long the termination takes
\* (_run_with_live_tee).
THEOREM DeadlinesAreReported ==
  ASSUME Nil \notin Deadlines
  PROVE  Spec => []KillsAreTimeouts
<1>1. CauseInv => KillsAreTimeouts
  BY DEF CauseInv, KillsAreTimeouts
<1> QED
  BY CauseInit, CauseStep, <1>1, PTL DEF Spec

-----------------------------------------------------------------------------
(* The stages of one task                                                   *)

\* A non-empty set of stages has a first and a last one.
LEMMA FirstAndLast ==
    ASSUME NEW S, S \subseteq Stages, S # {}
    PROVE  /\ First(S) \in S /\ \A s \in S : First(S) <= s
           /\ Last(S) \in S /\ \A s \in S : Last(S) >= s
<1> DEFINE R == OpToRel(<, Nat)
<1>1. IsWellFoundedOn(R, Nat)
  BY NatLessThanWellFounded
<1>2. \A x, y \in Nat : y < x => <<y, x>> \in R
  BY DEF OpToRel
<1>3. N \in Nat /\ S \subseteq Nat /\ \A s \in S : s <= N
  BY TaskRunAssumption DEF Stages
<1> HIDE DEF R
<1> DEFINE Back == {N - s : s \in S}
<1>4. Back \subseteq Nat /\ Back # {}
  <2>1. \A s \in S : N - s \in Nat
    BY <1>3
  <2>2. PICK s \in S : TRUE
    OBVIOUS
  <2>3. N - s \in Back
    BY <2>2
  <2>4. QED BY <2>1, <2>3
<1> HIDE DEF Back
<1>5. \E s \in S : \A r \in S : s <= r
  <2>1. \E x \in S : \A y \in S : ~ (<<y, x>> \in R)
    BY <1>1, <1>3, WFMin
  <2>2. PICK x \in S : \A y \in S : ~ (<<y, x>> \in R)
    BY <2>1
  <2>3. \A y \in S : ~ (y < x)
    BY <1>2, <1>3, <2>2
  <2>4. \A y \in S : y \in Nat /\ x \in Nat
    BY <1>3
  <2>5. QED BY <2>3, <2>4
<1>6. \E s \in S : \A r \in S : s >= r
  <2>1. \E x \in Back : \A y \in Back : ~ (<<y, x>> \in R)
    BY <1>1, <1>4, WFMin
  <2>2. PICK x \in Back : \A y \in Back : ~ (<<y, x>> \in R)
    BY <2>1
  <2>3. PICK s \in S : x = N - s
    BY <2>2 DEF Back
  <2>4. \A r \in S : N - r \in Nat /\ N - r \in Back
    BY <1>3 DEF Back
  <2>5. \A r \in S : ~ (N - r < N - s)
    BY <1>2, <1>4, <2>2, <2>3, <2>4
  <2>6. QED BY <1>3, <2>3, <2>5
<1>7. QED BY <1>5, <1>6 DEF First, Last

\* A session group is made of stages with skills.
LEMMA GroupSkilled ==
    ASSUME NEW iso, NEW i \in 1..Len(GroupsOf(iso))
    PROVE  GroupsOf(iso)[i] \subseteq Skilled
<1>1. CASE iso = "minimal"
  BY <1>1 DEF GroupsOf
<1>2. CASE iso = "full"
  <2>1. IsFiniteSet(Skilled)
    <3>1. N \in Int /\ 1 \in Int /\ Skilled \subseteq 1..N
      BY TaskRunAssumption DEF Stages
    <3>2. IsFiniteSet(1..N)
      BY <3>1, FS_Interval
    <3>3. QED BY <3>1, <3>2, FS_Subset
  <2>2. Cardinality(Skilled) \in Nat
    BY <2>1, FS_CardinalityType
  <2> DEFINE part(j) == {s \in Skilled : Cardinality({r \in Skilled : r <= s}) = j}
  <2>3. GroupsOf(iso) = [j \in 1..Cardinality(Skilled) |-> part(j)]
    BY <1>2 DEF GroupsOf
  <2>4. \A j : part(j) \subseteq Skilled
    OBVIOUS
  <2> HIDE DEF part
  <2>5. QED BY <2>2, <2>3, <2>4
<1>3. CASE iso # "minimal" /\ iso # "full"
  BY <1>3, TaskRunAssumption DEF GroupsOf
<1>4. QED BY <1>1, <1>2, <1>3

-----------------------------------------------------------------------------
(* Types, and what the end of a run finds                                   *)

Busy == {"session", "gates", "recovery", "record", "credit"}

\* A run has not succeeded while it walks, integrates only for itself and at
\* most twice, and after two tries the task is no longer in progress, unless
\* it was sent back or a write of the run was refused.
SettleInv ==
    /\ run.at \in {"group", "stage", "ended"} \cup Busy => ~run.ok
    /\ run.at \in {"group", "stage", "ended"} \cup Busy => run.tries = 0
    /\ run.at \in {"check", "locked", "flush"} =>
          ~run.child /\ run.ok /\ run.mode = "single-pr" /\ run.tries <= 1
    /\ run.at = "settle" /\ ~run.child /\ run.ok =>
          /\ run.mode \in {"single-pr", "pr-per-task"}
          /\ run.mode = "single-pr" /\ run.tries = 2 /\ state = "in_progress"
                => excused

InGroup ==
    run.at \in Busy \cup {"stage"} =>
        /\ run.group \in 1..Len(GroupsOf(run.iso))
        /\ \E g \in Group : g <= run.pos
Spanning ==
    run.at \in Busy =>
        /\ run.span # {} /\ run.span \subseteq enabled
        /\ \A s \in run.span : run.pos <= s
RunInv == TaskTypeOK /\ SettleInv /\ InGroup /\ Spanning
               /\ (run.at = "recovery" => run.todo # {})

\* Before the first run there is nothing to rely on.
LEMMA RunInvInit == TaskInit => RunInv
<1> SUFFICES ASSUME TaskInit PROVE RunInv
  OBVIOUS
<1>1. N \in Nat \ {0} /\ 1 \in 1..(N + 1) /\ MaxEdits \in Nat
  BY TaskRunAssumption
<1>2. TaskTypeOK
  <2>1. run \in RunState /\ run.todo \subseteq run.span
    BY <1>1 DEF TaskInit, RunState, Off, Points
  <2>2. enabled \subseteq Stages /\ stage \in 1..(N + 1)
    BY <1>1 DEF TaskInit
  <2>3. Base \in Tree /\ MaxAttempts \in Nat /\ MaxSeizures \in Nat
    BY <1>1, TaskRunAssumption DEF Base, Tree
  <2>4. verdict \in [Kind -> Verdicts] /\ state \in States
    BY DEF TaskInit, Verdicts, States
  <2>5. attempts \in 0..MaxAttempts /\ seizures \in 0..MaxSeizures
    BY <2>3 DEF TaskInit
  <2>6. held \in BOOLEAN /\ stopping \in BOOLEAN /\ excused \in BOOLEAN
    BY DEF TaskInit
  <2>7. work \in Tree /\ head \in Tree /\ qaTree \in Tree \cup {None}
    BY <2>3 DEF TaskInit
  <2>8. QED BY <2>1, <2>2, <2>4, <2>5, <2>6, <2>7 DEF TaskInit, TaskTypeOK
<1>3. QED BY <1>2 DEF TaskInit, RunInv, SettleInv, InGroup, Spanning, Busy, Off

\* The stages a session may run.
LEMMA RunnableStages ==
    ASSUME TaskTypeOK, run.group \in 1..Len(GroupsOf(run.iso))
    PROVE  /\ Group \subseteq Stages
           /\ Remaining \subseteq Group
           /\ Runnable \subseteq Remaining /\ Runnable \subseteq enabled
<1>1. Group \subseteq Skilled
  BY GroupSkilled DEF Group
<1>2. QED BY <1>1, TaskRunAssumption DEF Remaining, Runnable

\* A stage that is over moves the run to another.
LEMMA NextStage ==
    ASSUME NEW S, S \subseteq Stages, S # {}
    PROVE  Last(S) + 1 \in 1..(N + 1) /\ Last(S) \in Stages /\ First(S) \in Stages
<1>1. Last(S) \in S /\ First(S) \in S
  BY FirstAndLast
<1>2. N \in Nat /\ Last(S) \in Stages /\ First(S) \in Stages
  BY <1>1, TaskRunAssumption
<1>3. QED BY <1>2 DEF Stages

\* Steps of the agent and of the surroundings leave the run alone.
LEMMA AgentKeepsRun ==
    ASSUME RunInv, Agent \/ Refuse \/ RequestShutdown \/ Seize \/ Yield
    PROVE  RunInv'
<1> USE DEF record, files, world, ghosts, InSession
<1>0. /\ MaxEdits \in Nat /\ MaxAttempts \in Nat /\ MaxSeizures \in Nat
      /\ CodeOf \in [0..MaxEdits -> Nat]
  BY TaskRunAssumption
<1>1. UNCHANGED <<run, record, enabled, excused>>
  BY DEF Agent, Edit, Commit, Submit, WriteByHand, Refuse, RequestShutdown, Seize, Yield
<1>2. verdict' \in [Kind -> Verdicts] /\ qaTree' \in Tree \cup {None}
      /\ tested' \in SUBSET Nat
  <2>1. CASE \E k \in Kind, v \in {"pass", "fail"} : Submit(k, v)
    <3>1. PICK k \in Kind, v \in {"pass", "fail"} : Submit(k, v)
      BY <2>1
    <3>2. verdict' \in [Kind -> Verdicts]
      BY <3>1 DEF RunInv, TaskTypeOK, Submit, Written, Verdicts
    <3>3. StampedTree \in Tree
      BY <1>0 DEF StampedTree, RunInv, TaskTypeOK, Tree, Base
    <3>4. CodeOf[work] \in Nat
      BY <1>0 DEF RunInv, TaskTypeOK, Tree
    <3>5. QED BY <3>1, <3>2, <3>3, <3>4 DEF RunInv, TaskTypeOK, Submit
  <2>2. CASE \E k \in Kind : WriteByHand(k)
    BY <2>2 DEF RunInv, TaskTypeOK, WriteByHand, Verdicts
  <2>3. CASE Edit \/ Commit \/ Refuse \/ RequestShutdown \/ Seize \/ Yield
    BY <2>3 DEF RunInv, TaskTypeOK, Edit, Commit, Refuse, RequestShutdown, Seize, Yield
  <2>4. QED BY <2>1, <2>2, <2>3 DEF Agent
<1>3. work' \in Tree /\ head' \in Tree
  <2>1. work \in Tree /\ head \in Tree
    BY DEF RunInv, TaskTypeOK
  <2>2. work' = work \/ (work < MaxEdits /\ work' = work + 1)
    BY DEF Agent, Edit, Commit, Submit, WriteByHand, Refuse, RequestShutdown,
       Seize, Yield
  <2>3. head' = head \/ head' = work
    BY DEF Agent, Edit, Commit, Submit, WriteByHand, Refuse, RequestShutdown,
       Seize, Yield
  <2>4. QED BY <1>0, <2>1, <2>2, <2>3 DEF Tree
<1>6. attempts' \in 0..MaxAttempts /\ seizures' \in 0..MaxSeizures
  BY <1>0 DEF RunInv, TaskTypeOK, Agent, Edit, Commit, Submit, WriteByHand, Refuse,
     RequestShutdown, Seize, Yield
<1>7. held' \in BOOLEAN /\ stopping' \in BOOLEAN
  BY DEF RunInv, TaskTypeOK, Agent, Edit, Commit, Submit, WriteByHand, Refuse,
     RequestShutdown, Seize, Yield
<1>8. UNCHANGED <<judged, staged, excused>>
  BY DEF Agent, Edit, Commit, Submit, WriteByHand, Refuse, RequestShutdown,
     Seize, Yield
<1>4. TaskTypeOK'
  BY <1>1, <1>2, <1>3, <1>6, <1>7, <1>8 DEF RunInv, TaskTypeOK
<1>5. QED BY <1>1, <1>4 DEF RunInv, SettleInv, InGroup, Spanning, Group

\* The walk over the groups.
LEMMA WalkKeepsRun ==
    ASSUME RunInv,
           \/ StopForShutdown \/ NextGroup \/ RunStageGroup \/ SkipGroup
           \/ WalkStage \/ NoPlan
    PROVE  RunInv'
<1> USE DEF record, files, world, ghosts
<1>1. UNCHANGED <<record, files, world, ghosts>>
  BY DEF StopForShutdown, NextGroup, RunStageGroup, SkipGroup, WalkStage, NoPlan
<1>2. run \in RunState /\ run.todo \subseteq run.span /\ run.group \in Nat \ {0}
      /\ N \in Nat \ {0} /\ run.pos \in 1..(N + 1)
      /\ run.group + 1 \in Nat \ {0}
  BY TaskRunAssumption DEF RunInv, TaskTypeOK, RunState
<1>3. SUFFICES /\ run' \in RunState /\ run'.todo \subseteq run'.span
               /\ SettleInv' /\ InGroup' /\ Spanning'
               /\ (run'.at = "recovery" => run'.todo # {})
  BY <1>1 DEF RunInv, TaskTypeOK
<1>4. CASE StopForShutdown \/ NoPlan
  <2>0. PICK e \in {1, 2} : run' = [run EXCEPT !.at = "settle", !.exit = e]
    BY <1>4 DEF StopForShutdown, NoPlan, Fail
  <2>1. /\ run' \in RunState /\ run'.at = "settle" /\ run'.ok = run.ok
        /\ run'.todo \subseteq run'.span
    BY <1>2, <2>0 DEF RunState, Points
  <2>2. run.at = "group"
    BY <1>4 DEF StopForShutdown, NoPlan
  <2>3. QED BY <2>1, <2>2 DEF RunInv, SettleInv, InGroup, Spanning, Busy
<1>5. CASE NextGroup
  <2>1. /\ run' \in RunState /\ run'.ok = run.ok /\ run'.pos = run.pos
        /\ run'.todo = run.todo /\ run'.span = run.span /\ run.at = "group"
        /\ run'.iso = run.iso /\ run'.tries = run.tries
        /\ \/ run'.at \in {"ended", "group"}
           \/ /\ run'.at = "stage" /\ run.pos \in Group /\ run'.group = run.group
              /\ run.group <= Len(GroupsOf(run.iso))
    BY <1>2, <1>5 DEF NextGroup, RunState, Points
  <2>2. QED BY <1>2, <2>1 DEF RunInv, SettleInv, InGroup, Spanning, Busy, Group
<1>6. CASE RunStageGroup \/ SkipGroup \/ WalkStage
  <2>1. run.at = "stage" /\ run.group \in 1..Len(GroupsOf(run.iso)) /\ ~run.ok
        /\ run.tries = 0
        /\ \E g \in Group : g <= run.pos
    BY <1>6 DEF RunInv, InGroup, SettleInv, RunStageGroup, SkipGroup, WalkStage
  <2>2. /\ Group \subseteq Stages /\ Remaining \subseteq Group
        /\ Runnable \subseteq Remaining /\ Runnable \subseteq enabled
        /\ enabled \subseteq Stages
    BY <2>1, RunnableStages DEF RunInv, TaskTypeOK
  <2>3. ASSUME NEW S, S \subseteq Stages, S # {}, S \subseteq enabled,
               \A s \in S : run.pos <= s,
               run' = Session(S)
        PROVE  /\ run' \in RunState /\ run'.todo \subseteq run'.span
               /\ SettleInv' /\ InGroup' /\ Spanning'
               /\ (run'.at = "recovery" => run'.todo # {})
    <3>1. /\ run' \in RunState /\ run'.todo = {} /\ run'.span = S
          /\ run'.at = "session" /\ run'.group = run.group
          /\ run'.iso = run.iso /\ run'.pos = run.pos /\ run'.ok = run.ok
          /\ run'.tries = run.tries
      BY <1>2, <2>3 DEF Session, RunState, Points
    <3>2. Group' = Group /\ enabled' = enabled
      BY <1>1, <3>1 DEF Group
    <3>3. QED BY <2>1, <2>3, <3>1, <3>2 DEF SettleInv, InGroup, Spanning, Busy
  <2>4. CASE RunStageGroup
    <3>1. Runnable # {}
      BY <2>4, FS_EmptySet DEF RunStageGroup
    <3>2. \A s \in Runnable : run.pos <= s
      BY <1>2, <2>2 DEF Runnable, Remaining, Stages
    <3>3. QED BY <2>2, <2>3, <2>4, <3>1, <3>2 DEF RunStageGroup
  <2>5. CASE SkipGroup
    <3>1. Last(Remaining) + 1 \in 1..(N + 1)
      BY <2>2, <2>5, NextStage DEF SkipGroup
    <3> HIDE DEF Remaining
    <3>4. PICK p \in 1..(N + 1) :
            run' = [run EXCEPT !.pos = p, !.at = "group", !.group = @ + 1]
      BY <2>5, <3>1 DEF SkipGroup
    <3>2. /\ run' \in RunState /\ run'.todo = run.todo /\ run'.span = run.span
          /\ run'.at = "group" /\ run'.ok = run.ok /\ run'.tries = run.tries
      BY <1>2, <3>4 DEF RunState, Points
    <3>3. QED BY <1>2, <2>1, <3>2 DEF SettleInv, InGroup, Spanning, Busy
  <2>6. CASE WalkStage /\ run.pos \notin Group
    <3>3. run' = [run EXCEPT !.at = "group", !.group = @ + 1]
      BY <2>6 DEF WalkStage
    <3>1. /\ run' \in RunState /\ run'.todo = run.todo /\ run'.span = run.span
          /\ run'.at = "group" /\ run'.ok = run.ok /\ run'.tries = run.tries
      BY <1>2, <3>3 DEF RunState, Points
    <3>2. QED BY <1>2, <2>1, <3>1 DEF SettleInv, InGroup, Spanning, Busy
  <2>7. CASE WalkStage /\ run.pos \in Group /\ run.pos \notin enabled
    <3>1. run.pos + 1 \in 1..(N + 1) /\ run.pos \in Nat
      BY <1>2, <2>2, <2>7 DEF Stages
    <3>2. /\ run' \in RunState /\ run'.todo = run.todo /\ run'.span = run.span
          /\ run'.at = "stage" /\ run'.ok = run.ok /\ run'.group = run.group
          /\ run'.iso = run.iso /\ run'.pos = run.pos + 1
          /\ run'.tries = run.tries
      BY <1>2, <2>1, <2>7, <3>1 DEF WalkStage, RunState, Points
    <3>3. Group' = Group
      BY <3>2 DEF Group
    <3>4. run.pos \in Group' /\ run.pos <= run'.pos
      BY <2>7, <3>1, <3>2, <3>3
    <3>5. QED BY <1>2, <2>1, <3>2, <3>4 DEF SettleInv, InGroup, Spanning, Busy
  <2>8. CASE WalkStage /\ run.pos \in Group /\ run.pos \in enabled
    <3>1. run' = Session({run.pos})
      BY <2>8 DEF WalkStage
    <3>2. run.pos <= run.pos
      BY <1>2
    <3>3. QED BY <2>2, <2>3, <2>8, <3>1, <3>2
  <2>9. QED BY <1>6, <2>4, <2>5, <2>6, <2>7, <2>8
<1>7. QED BY <1>4, <1>5, <1>6

\* What a session leaves, the gates, and the record of the stages.
LEMMA GatesKeepRun ==
    ASSUME RunInv,
           \/ SessionFails \/ SessionEnds \/ RecoveryEnds
           \/ Gate \/ GatesOpen \/ RecordStage \/ StageRefused
           \/ CreditStage \/ CreditEnds
    PROVE  RunInv'
<1> USE DEF record, files, world, ghosts
<1>1. UNCHANGED <<state, files, world, tested, staged>>
  BY DEF SessionFails, SessionEnds, RecoveryEnds, Gate, GatesOpen, RecordStage,
     StageRefused, CreditStage, CreditEnds
<1>0. run \in RunState /\ run.group + 1 \in Nat \ {0}
  BY DEF RunInv, TaskTypeOK, RunState
<1>2. /\ run \in RunState /\ run.todo \subseteq run.span /\ run.at \in Busy
      /\ N \in Nat \ {0} /\ run.pos \in 1..(N + 1) /\ run.span \subseteq Stages
      /\ run.group \in Nat \ {0} /\ run.group + 1 \in Nat \ {0}
      /\ judged \subseteq Stages /\ stage \in 1..(N + 1) /\ excused \in BOOLEAN
      /\ held \in BOOLEAN /\ EvidenceOf \in [Stages -> Kind \cup {None}]
  BY TaskRunAssumption
  DEF RunInv, TaskTypeOK, RunState, Busy,
     SessionFails, SessionEnds, RecoveryEnds, Gate, GatesOpen, RecordStage,
     StageRefused, CreditStage, CreditEnds
<1>3. /\ ~run.ok /\ run.tries = 0 /\ run.span # {} /\ run.span \subseteq enabled
      /\ run.group \in 1..Len(GroupsOf(run.iso)) /\ \E g \in Group : g <= run.pos
  BY <1>2 DEF RunInv, SettleInv, Spanning, InGroup
<1>4. Proving(run.span) \subseteq run.span
  BY DEF Proving
\* The run goes on with the same span, or ends.
<1>5. ASSUME stage' \in 1..(N + 1), judged' \subseteq Stages, excused' \in BOOLEAN,
             run' \in RunState, run'.todo \subseteq run'.span, run'.ok = run.ok,
             run'.at \in Busy \cup {"stage", "group", "settle"},
             run'.tries = run.tries,
             run'.at \in Busy => run'.span = run.span /\ run'.pos = run.pos,
             run'.at \in Busy \cup {"stage"} =>
                run'.group = run.group /\ run'.iso = run.iso /\ run.pos <= run'.pos,
             run'.at = "recovery" => run'.todo # {}
      PROVE  RunInv'
  <2>1. TaskTypeOK'
    BY <1>1, <1>5 DEF RunInv, TaskTypeOK
  <2>2. InGroup'
    <3>1. SUFFICES ASSUME run'.at \in Busy \cup {"stage"} PROVE InGroup'
      BY DEF InGroup
    <3>2. Group' = Group
      BY <1>5, <3>1 DEF Group
    <3>3. \A g \in Group : g <= run.pos => g <= run'.pos
      <4>1. Group \subseteq Stages /\ run'.pos \in 1..(N + 1)
        BY <1>3, <1>5, RunnableStages DEF RunInv, RunState
      <4>2. QED BY <1>2, <1>5, <3>1, <4>1 DEF Stages
    <3>4. QED BY <1>3, <1>5, <3>1, <3>2, <3>3 DEF InGroup
  <2>3. SettleInv'
    BY <1>3, <1>5 DEF SettleInv, Busy
  <2>4. Spanning'
    <3>1. enabled' = enabled /\ \A s \in run.span : run.pos <= s
      BY <1>1, <1>2 DEF RunInv, Spanning
    <3>2. QED BY <1>3, <1>5, <3>1 DEF Spanning
  <2>5. QED BY <1>5, <2>1, <2>2, <2>3, <2>4 DEF RunInv
<1>6. ASSUME NEW e \in {1, 75}, Fail(e), stage' = stage, judged' \subseteq Stages,
             excused' \in BOOLEAN
      PROVE  RunInv'
  <2>1. run' = [run EXCEPT !.at = "settle", !.exit = e]
    BY <1>6 DEF Fail
  <2>2. /\ run' \in RunState /\ run'.todo \subseteq run'.span /\ run'.ok = run.ok
        /\ run'.at = "settle" /\ run'.tries = run.tries
    <3>1. run' \in RunState
      BY <1>0, <2>1 DEF RunState, Points
    <3>2. /\ run'.ok = run.ok
          /\ run'.at = "settle" /\ run'.tries = run.tries
      BY <1>0, <2>1 DEF RunState
    <3>3. run'.todo \subseteq run'.span
      BY <1>0, <1>2, <2>1 DEF RunState
    <3>4. QED BY <3>1, <3>2, <3>3
  <2>3. QED BY <1>2, <1>5, <1>6, <2>2 DEF Busy
<1>7. CASE SessionFails /\ Cardinality(run.span) > 1
  <2>1. run' = [run EXCEPT !.at = "credit", !.todo = run.span]
    BY <1>7 DEF SessionFails
  <2>2. /\ run' \in RunState /\ run'.todo \subseteq run'.span /\ run'.ok = run.ok
        /\ run'.at = "credit" /\ run'.span = run.span /\ run'.tries = run.tries
        /\ run'.group = run.group /\ run'.iso = run.iso /\ run'.pos = run.pos
    <3>1. run' \in RunState
      BY <1>0, <2>1 DEF RunState, Points
    <3>2. /\ run'.ok = run.ok
          /\ run'.at = "credit" /\ run'.span = run.span /\ run'.tries = run.tries
          /\ run'.group = run.group /\ run'.iso = run.iso /\ run'.pos = run.pos
      BY <1>0, <2>1 DEF RunState
    <3>3. run'.todo \subseteq run'.span
      BY <1>0, <1>2, <2>1 DEF RunState
    <3>4. QED BY <3>1, <3>2, <3>3
  <2>3. UNCHANGED <<stage, judged, excused>>
    BY <1>7 DEF SessionFails
  <2>4. QED BY <1>2, <1>5, <2>2, <2>3 DEF Busy
<1>8. CASE SessionFails /\ ~(Cardinality(run.span) > 1)
  BY <1>2, <1>6, <1>8 DEF SessionFails, Fail
<1>9. CASE SessionEnds /\ HasCommits
  <2>1. run' = [run EXCEPT !.at = "gates", !.todo = Proving(run.span)]
    BY <1>9 DEF SessionEnds
  <2>2. /\ run' \in RunState /\ run'.todo \subseteq run'.span /\ run'.ok = run.ok
        /\ run'.at = "gates" /\ run'.span = run.span /\ run'.tries = run.tries
        /\ run'.group = run.group /\ run'.iso = run.iso /\ run'.pos = run.pos
    <3>1. run' \in RunState
      BY <1>0, <1>4, <2>1 DEF RunState, Points
    <3>2. /\ run'.ok = run.ok
          /\ run'.at = "gates" /\ run'.span = run.span /\ run'.tries = run.tries
          /\ run'.group = run.group /\ run'.iso = run.iso /\ run'.pos = run.pos
      BY <1>0, <1>4, <2>1 DEF RunState
    <3>3. run'.todo \subseteq run'.span
      BY <1>0, <1>2, <1>4, <2>1 DEF RunState
    <3>4. QED BY <3>1, <3>2, <3>3
  <2>3. UNCHANGED <<stage, judged, excused>>
    BY <1>9 DEF SessionEnds
  <2>4. QED BY <1>2, <1>5, <2>2, <2>3 DEF Busy
<1>10. CASE SessionEnds /\ ~HasCommits
  BY <1>2, <1>6, <1>10 DEF SessionEnds
<1>11. CASE RecoveryEnds
  <2>1. run' = [run EXCEPT !.at = "gates"]
    BY <1>11 DEF RecoveryEnds
  <2>2. /\ run' \in RunState /\ run'.todo \subseteq run'.span /\ run'.ok = run.ok
        /\ run'.at = "gates" /\ run'.span = run.span /\ run'.tries = run.tries
        /\ run'.group = run.group /\ run'.iso = run.iso /\ run'.pos = run.pos
    <3>1. run' \in RunState
      BY <1>0, <2>1 DEF RunState, Points
    <3>2. /\ run'.ok = run.ok
          /\ run'.at = "gates" /\ run'.span = run.span /\ run'.tries = run.tries
          /\ run'.group = run.group /\ run'.iso = run.iso /\ run'.pos = run.pos
      BY <1>0, <2>1 DEF RunState
    <3>3. run'.todo \subseteq run'.span
      BY <1>0, <1>2, <2>1 DEF RunState
    <3>4. QED BY <3>1, <3>2, <3>3
  <2>3. UNCHANGED <<stage, judged, excused>>
    BY <1>11 DEF RecoveryEnds
  <2>4. QED BY <1>2, <1>5, <2>2, <2>3 DEF Busy
<1>12. CASE GatesOpen
  <2>1. run' = [run EXCEPT !.at = "record"]
    BY <1>12 DEF GatesOpen
  <2>2. /\ run' \in RunState /\ run'.todo \subseteq run'.span /\ run'.ok = run.ok
        /\ run'.at = "record" /\ run'.span = run.span /\ run'.tries = run.tries
        /\ run'.group = run.group /\ run'.iso = run.iso /\ run'.pos = run.pos
    <3>1. run' \in RunState
      BY <1>0, <2>1 DEF RunState, Points
    <3>2. /\ run'.ok = run.ok
          /\ run'.at = "record" /\ run'.span = run.span /\ run'.tries = run.tries
          /\ run'.group = run.group /\ run'.iso = run.iso /\ run'.pos = run.pos
      BY <1>0, <2>1 DEF RunState
    <3>3. run'.todo \subseteq run'.span
      BY <1>0, <1>2, <2>1 DEF RunState
    <3>4. QED BY <3>1, <3>2, <3>3
  <2>3. UNCHANGED <<stage, judged, excused>>
    BY <1>12 DEF GatesOpen
  <2>4. QED BY <1>2, <1>5, <2>2, <2>3 DEF Busy
<1>13. ASSUME NEW s \in run.todo,
              \/ run' = [run EXCEPT !.todo = @ \ {s}]
              \/ run' = [run EXCEPT !.todo = @ \ {s}, !.asked = FALSE]
       PROVE  /\ run' \in RunState /\ run'.todo \subseteq run'.span /\ run'.ok = run.ok
              /\ run'.at = run.at /\ run'.span = run.span /\ run'.tries = run.tries
              /\ run'.group = run.group /\ run'.iso = run.iso /\ run'.pos = run.pos
  <2>1. CASE run' = [run EXCEPT !.todo = @ \ {s}]
    <3>1. run' \in RunState
      BY <1>0, <2>1 DEF RunState
    <3>2. /\ run'.ok = run.ok /\ run'.todo \subseteq run.todo
          /\ run'.at = run.at /\ run'.span = run.span /\ run'.tries = run.tries
          /\ run'.group = run.group /\ run'.iso = run.iso /\ run'.pos = run.pos
      BY <1>0, <2>1 DEF RunState
    <3>3. QED BY <1>2, <3>1, <3>2
  <2>2. CASE run' = [run EXCEPT !.todo = @ \ {s}, !.asked = FALSE]
    <3>1. run' \in RunState
      BY <1>0, <2>2 DEF RunState
    <3>2. /\ run'.ok = run.ok /\ run'.todo \subseteq run.todo
          /\ run'.at = run.at /\ run'.span = run.span /\ run'.tries = run.tries
          /\ run'.group = run.group /\ run'.iso = run.iso /\ run'.pos = run.pos
      BY <1>0, <2>2 DEF RunState
    <3>3. QED BY <1>2, <3>1, <3>2
  <2>3. QED BY <1>13, <2>1, <2>2
<1>14. \A s \in Stages : Judge(s) => judged' \subseteq Stages
  BY <1>2 DEF Judge, Proving
<1>15. run.todo # {} => First(run.todo) \in run.todo /\ First(run.todo) \in Stages
  BY <1>2, FirstAndLast
<1>16. CASE Gate
  <2>0. run.at = "gates"
    BY <1>16 DEF Gate
  <2> DEFINE s == First(run.todo)
  <2>1. s \in run.todo /\ s \in Stages
    BY <1>15, <1>16 DEF Gate
  <2>2. stage' = stage /\ excused' = excused
    BY <1>16 DEF Gate
  <2>3. CASE Passes(EvidenceOf[s])
    <3>1. run' = [run EXCEPT !.todo = @ \ {s}, !.asked = FALSE] /\ Judge(s)
      BY <1>16, <2>3 DEF Gate
    <3> HIDE DEF s
    <3>2. judged' \subseteq Stages
      BY <1>14, <2>1, <3>1
    <3>3. /\ run' \in RunState /\ run'.todo \subseteq run'.span /\ run'.ok = run.ok
          /\ run'.at = run.at /\ run'.span = run.span /\ run'.tries = run.tries
          /\ run'.group = run.group /\ run'.iso = run.iso /\ run'.pos = run.pos
      BY <1>13, <2>1, <3>1
    <3>4. QED BY <1>2, <1>5, <2>0, <2>2, <3>2, <3>3 DEF Busy
  <2>4. CASE ~Passes(EvidenceOf[s])
    <3>1. /\ judged' = judged
          /\ \/ run' = [run EXCEPT !.at = "recovery", !.asked = TRUE]
             \/ Fail(1)
      BY <1>16, <2>4 DEF Gate
    <3>2. CASE Fail(1)
      BY <1>2, <1>6, <2>2, <3>1, <3>2
    <3>3. CASE run' = [run EXCEPT !.at = "recovery", !.asked = TRUE]
      <4>1. /\ run' \in RunState /\ run'.todo \subseteq run'.span /\ run'.ok = run.ok
            /\ run'.at = "recovery" /\ run'.span = run.span /\ run'.tries = run.tries
            /\ run'.group = run.group /\ run'.iso = run.iso /\ run'.pos = run.pos
            /\ run'.todo = run.todo
        <5>1. run' \in RunState
          BY <1>0, <3>3 DEF RunState, Points
        <5>2. /\ run'.ok = run.ok
              /\ run'.at = "recovery" /\ run'.span = run.span /\ run'.tries = run.tries
              /\ run'.group = run.group /\ run'.iso = run.iso /\ run'.pos = run.pos
              /\ run'.todo = run.todo
          BY <1>0, <3>3 DEF RunState
        <5>3. run'.todo \subseteq run'.span
          BY <1>0, <1>2, <3>3 DEF RunState
        <5>4. QED BY <5>1, <5>2, <5>3
      <4> HIDE DEF s
      <4>2. QED BY <1>2, <1>5, <2>1, <2>2, <3>1, <4>1 DEF Busy
    <3>4. QED BY <3>1, <3>2, <3>3
  <2>5. QED BY <2>3, <2>4
<1>17. CASE RecordStage
  <2> DEFINE target == Last(run.span) + 1
  <2>1. target \in 1..(N + 1)
    BY <1>2, <1>3, NextStage
  <2>2. /\ stage' = target /\ judged' = judged /\ excused' = excused
        /\ run' = [run EXCEPT !.pos = target,
                        !.at = IF Cardinality(run.span) > 1 THEN "group"
                               ELSE "stage",
                        !.group = IF Cardinality(run.span) > 1 THEN @ + 1
                                  ELSE @]
    BY <1>17 DEF RecordStage, SetStage
  <2>3. run.pos <= target
    <3>1. PICK s \in run.span : s <= Last(run.span) /\ run.pos <= s
      BY <1>2, <1>3, FirstAndLast DEF RunInv, Spanning
    <3>2. s \in Nat /\ Last(run.span) \in Nat /\ run.pos \in Nat
      BY <1>2, <1>3, NextStage DEF Stages
    <3>3. QED BY <3>1, <3>2
  <2> HIDE DEF target
  <2>4. /\ run' \in RunState /\ run'.todo \subseteq run'.span /\ run'.ok = run.ok
        /\ run'.at \in {"group", "stage"} /\ run'.span = run.span /\ run'.tries = run.tries
        /\ run'.at = "stage" => run'.group = run.group
        /\ run'.iso = run.iso /\ run'.pos = target
    <3>1. run' \in RunState
      <4>1. CASE Cardinality(run.span) > 1
        <5>1. run' = [run EXCEPT !.pos = target, !.at = "group", !.group = @ + 1]
          BY <2>2, <4>1
        <5>2. QED BY <1>0, <2>1, <5>1 DEF RunState, Points
      <4>2. CASE ~(Cardinality(run.span) > 1)
        <5>1. run' = [run EXCEPT !.pos = target, !.at = "stage"]
          BY <1>0, <2>2, <4>2 DEF RunState
        <5>2. QED BY <1>0, <2>1, <5>1 DEF RunState, Points
      <4>3. QED BY <4>1, <4>2
    <3>2. /\ run'.ok = run.ok
          /\ run'.at \in {"group", "stage"} /\ run'.span = run.span /\ run'.tries = run.tries
          /\ run'.at = "stage" => run'.group = run.group
          /\ run'.iso = run.iso /\ run'.pos = target
      BY <1>0, <2>1, <2>2 DEF RunState
    <3>3. run'.todo \subseteq run'.span
      BY <1>0, <1>2, <2>1, <2>2 DEF RunState
    <3>4. QED BY <3>1, <3>2, <3>3
  <2>5. QED BY <1>2, <1>5, <2>1, <2>2, <2>3, <2>4 DEF Busy
<1>18. CASE StageRefused
  <2>1. \E e \in {1, 75} : Fail(e)
    BY <1>18 DEF StageRefused
  <2>2. stage' = stage /\ judged' = judged /\ excused' \in BOOLEAN
    BY <1>2, <1>18 DEF StageRefused
  <2>3. QED BY <1>2, <1>6, <2>1, <2>2
<1>19. CASE CreditStage
  <2> DEFINE s == First(run.todo)
  <2>1. s \in run.todo /\ s \in Stages
    BY <1>15, <1>19 DEF CreditStage
  <2>2. /\ run.at = "credit" /\ stage' = s + 1 /\ Judge(s)
        /\ excused' = excused /\ run' = [run EXCEPT !.todo = @ \ {s}]
    BY <1>19 DEF CreditStage, SetStage
  <2> HIDE DEF s
  <2>3. s + 1 \in 1..(N + 1)
    BY <1>2, <2>1 DEF Stages
  <2>4. judged' \subseteq Stages
    BY <1>14, <2>1, <2>2
  <2>5. /\ run' \in RunState /\ run'.todo \subseteq run'.span /\ run'.ok = run.ok
        /\ run'.at = run.at /\ run'.span = run.span /\ run'.tries = run.tries
        /\ run'.group = run.group /\ run'.iso = run.iso /\ run'.pos = run.pos
    BY <1>13, <2>1, <2>2
  <2>6. QED BY <1>2, <1>5, <2>2, <2>3, <2>4, <2>5 DEF Busy
<1>20. CASE CreditEnds
  <2>1. \E e \in {1, 75} : Fail(e)
    BY <1>20 DEF CreditEnds
  <2>2. stage' = stage /\ judged' = judged /\ excused' \in BOOLEAN
    BY <1>2, <1>20 DEF CreditEnds
  <2>3. QED BY <1>2, <1>6, <2>1, <2>2
<1>21. QED BY <1>7, <1>8, <1>9, <1>10, <1>11, <1>12, <1>16, <1>17, <1>18, <1>19,
              <1>20

\* The start of a run, its end, and integration.
LEMMA EndsKeepRun ==
    ASSUME RunInv,
           \/ \E sub \in BOOLEAN, iso \in Isolations : Begin(sub, iso)
           \/ \E mode \in Modes : WalkEnds(mode)
           \/ \E passes \in BOOLEAN : PreCheck(passes)
           \/ \E result \in {"conflict", "guard_refused", "staged"} : Integrate(result)
           \/ \E green \in BOOLEAN : Flush(green)
           \/ SettleChild \/ IntegrateAgain \/ SettleSuccess \/ SettleFailure
           \/ Crash
    PROVE  RunInv'
<1> USE DEF record, files, world, ghosts
<1>0. run \in RunState
  BY DEF RunInv, TaskTypeOK
<1>1. /\ state \in States /\ work \in Tree /\ head \in Tree /\ tested \subseteq Nat
      /\ CodeOf[work] \in Nat /\ CodeOf[head] \in Nat
      /\ excused \in BOOLEAN /\ held \in BOOLEAN /\ attempts \in 0..MaxAttempts
      /\ MaxAttempts \in Nat
      /\ staged \in [code : Nat, clean : BOOLEAN] \cup {None}
      /\ run.todo \subseteq run.span
  BY TaskRunAssumption DEF RunInv, TaskTypeOK, Tree
<1>2. Modes \subseteq {"single-pr", "pr-per-task"}
  BY TaskRunAssumption
<1>3. UNCHANGED <<stage, verdict, qaTree, head, enabled, seizures, judged>>
  BY DEF Begin, WalkEnds, PreCheck, Integrate, Flush, SettleChild,
     IntegrateAgain, SettleSuccess, SettleFailure, Crash
\* What a step has to show.
<1>4. ASSUME run' \in RunState, run'.todo \subseteq run'.span,
             run'.at \in {"off", "group", "settle", "check", "locked", "flush"},
             SettleInv',
             state' \in States, work' \in Tree, tested' \subseteq Nat,
             excused' \in BOOLEAN, held' \in BOOLEAN, stopping' \in BOOLEAN,
             attempts' \in 0..MaxAttempts,
             staged' \in [code : Nat, clean : BOOLEAN] \cup {None}
      PROVE  RunInv'
  <2>1. TaskTypeOK'
    BY <1>3, <1>4 DEF RunInv, TaskTypeOK
  <2>2. QED BY <1>4, <2>1 DEF RunInv, InGroup, Spanning, Busy
<1>5. Off \in RunState /\ Off.at = "off" /\ Off.todo = {} /\ Off.span = {}
  BY TaskRunAssumption DEF Off, RunState, Points
<1>6. CASE \E sub \in BOOLEAN, iso \in Isolations : Begin(sub, iso)
  <2>1. PICK sub \in BOOLEAN, iso \in Isolations : Begin(sub, iso)
    BY <1>6
  <2>2. run' = [Off EXCEPT !.at = "group", !.child = sub, !.iso = iso,
                           !.pos = stage]
    BY <2>1 DEF Begin
  <2>3. stage \in 1..(N + 1)
    BY DEF RunInv, TaskTypeOK
  <2>4. run' \in RunState
    BY <1>5, <2>2, <2>3 DEF RunState, Points
  <2>5. run'.at = "group" /\ ~run'.ok /\ run'.tries = 0 /\ run'.todo = {}
    BY <2>2 DEF Off
  <2>6. state' \in States /\ excused' \in BOOLEAN
    BY <1>1, <2>1 DEF Begin, Claim, States
  <2>7. attempts' \in 0..MaxAttempts
    <3>1. attempts < MaxAttempts /\ attempts' = attempts + 1
      BY <2>1 DEF Begin
    <3>2. QED BY <1>1, <3>1
  <2>8. /\ UNCHANGED <<work, tested, staged, held>> /\ stopping' = FALSE
    BY <2>1 DEF Begin
  <2>9. SettleInv'
    BY <2>5 DEF SettleInv, Busy
  <2>10. QED BY <1>1, <1>4, <2>4, <2>5, <2>6, <2>7, <2>8, <2>9
<1>7. stopping \in BOOLEAN
  BY DEF RunInv, TaskTypeOK
\* A run that ends leaves nothing to settle.
<1>8. ASSUME run' = Off, UNCHANGED <<work, tested, held, stopping, attempts>>,
             state' \in States, excused' \in BOOLEAN,
             staged' = staged \/ staged' = None
      PROVE  RunInv'
  <2>1. SettleInv'
    BY <1>5, <1>8 DEF SettleInv, Busy
  <2>2. QED BY <1>1, <1>4, <1>5, <1>7, <1>8, <2>1
<1>9. CASE SettleChild \/ SettleFailure \/ SettleSuccess \/ Crash
  <2>1. run' = Off /\ UNCHANGED <<work, tested, held, stopping, attempts>>
    BY <1>9 DEF SettleChild, SettleFailure, SettleSuccess, Crash, Ends
  <2>2. staged' = staged \/ staged' = None
    BY <1>9 DEF SettleChild, SettleFailure, SettleSuccess, Crash
  <2>3. state' \in States
    BY <1>1, <1>9 DEF SettleChild, SettleFailure, SettleSuccess, Crash, States,
       FailedTo, Moves
  <2>4. excused' \in BOOLEAN
    BY <1>1, <1>9 DEF SettleChild, SettleFailure, SettleSuccess, Crash, Moves
  <2>5. QED BY <1>8, <2>1, <2>2, <2>3, <2>4
<1>10. CASE \E mode \in Modes : WalkEnds(mode)
  <2>1. PICK mode \in Modes : WalkEnds(mode)
    BY <1>10
  <2>2. run.at = "ended" /\ ~run.ok /\ run.tries = 0
    BY <2>1 DEF WalkEnds, RunInv, SettleInv
  <2>3. UNCHANGED <<state, work, tested, held, stopping, attempts, staged, excused>>
    BY <2>1 DEF WalkEnds
  <2>4. \/ run' = [run EXCEPT !.at = "settle", !.exit = 1]
        \/ run.child /\ run' = [run EXCEPT !.ok = TRUE, !.at = "settle"]
        \/ /\ ~run.child
           /\ run' = [run EXCEPT !.ok = TRUE, !.mode = mode, !.at =
                        IF mode = "single-pr" THEN "check" ELSE "settle"]
    BY <2>1 DEF WalkEnds
  <2> DEFINE Goal ==
        /\ run' \in RunState
        /\ run'.at \in {"settle", "check"} /\ run'.child = run.child
        /\ run'.tries = run.tries /\ run'.todo = run.todo /\ run'.span = run.span
        /\ run'.at = "check" => ~run.child /\ run'.ok /\ run'.mode = "single-pr"
        /\ run'.at = "settle" => ~run'.ok \/ run.child \/ run'.mode = mode
  <2>5. ASSUME run' = [run EXCEPT !.at = "settle", !.exit = 1] PROVE Goal
    <3>1. run' \in RunState
      BY <1>0, <2>1, <2>5 DEF RunState, Points
    <3>2. /\ run'.at \in {"settle", "check"} /\ run'.child = run.child
          /\ run'.tries = run.tries /\ run'.todo = run.todo /\ run'.span = run.span
          /\ run'.at = "check" => ~run.child /\ run'.ok /\ run'.mode = "single-pr"
          /\ run'.at = "settle" => ~run'.ok \/ run.child \/ run'.mode = mode
      BY <1>0, <2>2, <2>5 DEF RunState
    <3>3. QED BY <3>1, <3>2
  <2>9. ASSUME run.child, run' = [run EXCEPT !.ok = TRUE, !.at = "settle"] PROVE Goal
    <3>1. run' \in RunState
      BY <1>0, <2>1, <2>9 DEF RunState, Points
    <3>2. /\ run'.at \in {"settle", "check"} /\ run'.child = run.child
          /\ run'.tries = run.tries /\ run'.todo = run.todo /\ run'.span = run.span
          /\ run'.at = "check" => ~run.child /\ run'.ok /\ run'.mode = "single-pr"
          /\ run'.at = "settle" => ~run'.ok \/ run.child \/ run'.mode = mode
      BY <1>0, <2>2, <2>9 DEF RunState
    <3>3. QED BY <3>1, <3>2
  <2>10. ASSUME ~run.child, mode = "single-pr",
                run' = [run EXCEPT !.ok = TRUE, !.mode = mode, !.at = "check"] PROVE Goal
    <3>1. run' \in RunState
      BY <1>0, <2>1, <2>10 DEF RunState, Points
    <3>2. /\ run'.at \in {"settle", "check"} /\ run'.child = run.child
          /\ run'.tries = run.tries /\ run'.todo = run.todo /\ run'.span = run.span
          /\ run'.at = "check" => ~run.child /\ run'.ok /\ run'.mode = "single-pr"
          /\ run'.at = "settle" => ~run'.ok \/ run.child \/ run'.mode = mode
      BY <1>0, <2>2, <2>10 DEF RunState
    <3>3. QED BY <3>1, <3>2
  <2>11. ASSUME run' = [run EXCEPT !.ok = TRUE, !.mode = mode, !.at = "settle"] PROVE Goal
    <3>1. run' \in RunState
      BY <1>0, <2>1, <2>11 DEF RunState, Points
    <3>2. /\ run'.at \in {"settle", "check"} /\ run'.child = run.child
          /\ run'.tries = run.tries /\ run'.todo = run.todo /\ run'.span = run.span
          /\ run'.at = "check" => ~run.child /\ run'.ok /\ run'.mode = "single-pr"
          /\ run'.at = "settle" => ~run'.ok \/ run.child \/ run'.mode = mode
      BY <1>0, <2>2, <2>11 DEF RunState
    <3>3. QED BY <3>1, <3>2
  <2>6. Goal
    <3> HIDE DEF Goal
    <3>1. QED BY <2>4, <2>5, <2>9, <2>10, <2>11
  <2>7. SettleInv'
    BY <1>2, <2>1, <2>2, <2>6 DEF SettleInv, Busy
  <2>8. QED BY <1>1, <1>4, <1>7, <2>3, <2>6, <2>7
<1>11. CASE IntegrateAgain
  <2>1. /\ run' = [run EXCEPT !.at = "check"] /\ ~run.child /\ run.ok
        /\ run.mode = "single-pr" /\ run.tries = 1
        /\ UNCHANGED <<state, work, tested, held, stopping, attempts, staged, excused>>
    BY <1>11 DEF IntegrateAgain
  <2>2. run' \in RunState
    BY <1>0, <2>1 DEF RunState, Points
  <2>3. /\ run'.at = "check" /\ run'.child = run.child /\ run'.ok = run.ok
        /\ run'.tries = run.tries /\ run'.todo = run.todo /\ run'.span = run.span
        /\ run'.mode = run.mode
    BY <1>0, <2>1 DEF RunState
  <2>4. SettleInv'
    BY <2>1, <2>3 DEF SettleInv, Busy
  <2>5. QED BY <1>1, <1>4, <1>7, <2>1, <2>2, <2>3, <2>4
\* Integration keeps the run's own facts.
<1>12. ASSUME run.at \in {"check", "locked", "flush"},
              UNCHANGED <<held, stopping, attempts>>,
              work' \in Tree, tested' \subseteq Nat,
              staged' \in [code : Nat, clean : BOOLEAN] \cup {None},
              state' \in States, excused' \in BOOLEAN,
              \/ /\ run' = [run EXCEPT !.at = "locked"]
              \/ /\ run' = [run EXCEPT !.at = "flush"]
              \/ /\ \/ run' = [run EXCEPT !.at = "settle", !.tries = @ + 1]
                    \/ run' = [run EXCEPT !.at = "settle", !.exit = 1,
                                    !.ok = (run.tries = 1), !.tries = @ + 1]
                    \/ run' = [run EXCEPT !.at = "settle", !.ok = (run.tries = 1),
                          !.tries = @ + 1,
                          !.exit = IF run.tries = 1 THEN 3 ELSE 1]
                 /\ state' = "in_progress" => excused'
       PROVE  RunInv'
  <2>1. /\ ~run.child /\ run.ok /\ run.mode = "single-pr" /\ run.tries \in 0..1
    BY <1>0, <1>12 DEF RunInv, SettleInv, RunState
  <2>2. run.tries + 1 \in 0..2
    BY <2>1
  <2> DEFINE Goal ==
        /\ run' \in RunState
        /\ run'.at \in {"locked", "flush", "settle"} /\ run'.child = run.child
        /\ run'.todo = run.todo /\ run'.span = run.span /\ run'.mode = run.mode
        /\ run'.at # "settle" => run'.ok = run.ok /\ run'.tries = run.tries
  <2>7. ASSUME run' = [run EXCEPT !.at = "locked"] PROVE Goal
    <3>1. run' \in RunState
      BY <1>0, <2>2, <2>7 DEF RunState, Points
    <3>2. /\ run'.at \in {"locked", "flush", "settle"} /\ run'.child = run.child
          /\ run'.todo = run.todo /\ run'.span = run.span /\ run'.mode = run.mode
          /\ run'.at # "settle" => run'.ok = run.ok /\ run'.tries = run.tries
      BY <1>0, <2>7 DEF RunState
    <3>3. QED BY <3>1, <3>2
  <2>8. ASSUME run' = [run EXCEPT !.at = "flush"] PROVE Goal
    <3>1. run' \in RunState
      BY <1>0, <2>2, <2>8 DEF RunState, Points
    <3>2. /\ run'.at \in {"locked", "flush", "settle"} /\ run'.child = run.child
          /\ run'.todo = run.todo /\ run'.span = run.span /\ run'.mode = run.mode
          /\ run'.at # "settle" => run'.ok = run.ok /\ run'.tries = run.tries
      BY <1>0, <2>8 DEF RunState
    <3>3. QED BY <3>1, <3>2
  <2>9. ASSUME run' = [run EXCEPT !.at = "settle", !.tries = @ + 1] PROVE Goal
    <3>1. run' \in RunState
      BY <1>0, <2>2, <2>9 DEF RunState, Points
    <3>2. /\ run'.at \in {"locked", "flush", "settle"} /\ run'.child = run.child
          /\ run'.todo = run.todo /\ run'.span = run.span /\ run'.mode = run.mode
          /\ run'.at # "settle" => run'.ok = run.ok /\ run'.tries = run.tries
      BY <1>0, <2>9 DEF RunState
    <3>3. QED BY <3>1, <3>2
  <2>10. ASSUME run' = [run EXCEPT !.at = "settle", !.exit = 1,
                             !.ok = (run.tries = 1), !.tries = @ + 1] PROVE Goal
    <3>1. run' \in RunState
      <4>1. CASE run.tries = 1
        <5>1. run' = [run EXCEPT !.at = "settle", !.exit = 1, !.ok = TRUE,
                                 !.tries = @ + 1]
          BY <2>10, <4>1
        <5>2. QED BY <1>0, <2>2, <5>1 DEF RunState, Points
      <4>2. CASE run.tries # 1
        <5>1. run' = [run EXCEPT !.at = "settle", !.exit = 1, !.ok = FALSE,
                                 !.tries = @ + 1]
          BY <2>10, <4>2
        <5>2. QED BY <1>0, <2>2, <5>1 DEF RunState, Points
      <4>3. QED BY <4>1, <4>2
    <3>2. /\ run'.at \in {"locked", "flush", "settle"} /\ run'.child = run.child
          /\ run'.todo = run.todo /\ run'.span = run.span /\ run'.mode = run.mode
          /\ run'.at # "settle" => run'.ok = run.ok /\ run'.tries = run.tries
      BY <1>0, <2>10 DEF RunState
    <3>3. QED BY <3>1, <3>2
  <2>11. ASSUME run' = [run EXCEPT !.at = "settle", !.ok = (run.tries = 1), !.tries = @ + 1,
                             !.exit = IF run.tries = 1 THEN 3 ELSE 1] PROVE Goal
    <3>1. run' \in RunState
      <4>1. CASE run.tries = 1
        <5>1. run' = [run EXCEPT !.at = "settle", !.ok = TRUE, !.tries = @ + 1,
                                 !.exit = 3]
          BY <2>11, <4>1
        <5>2. QED BY <1>0, <2>2, <5>1 DEF RunState, Points
      <4>2. CASE run.tries # 1
        <5>1. run' = [run EXCEPT !.at = "settle", !.ok = FALSE, !.tries = @ + 1,
                                 !.exit = 1]
          BY <2>11, <4>2
        <5>2. QED BY <1>0, <2>2, <5>1 DEF RunState, Points
      <4>3. QED BY <4>1, <4>2
    <3>2. /\ run'.at \in {"locked", "flush", "settle"} /\ run'.child = run.child
          /\ run'.todo = run.todo /\ run'.span = run.span /\ run'.mode = run.mode
          /\ run'.at # "settle" => run'.ok = run.ok /\ run'.tries = run.tries
      BY <1>0, <2>11 DEF RunState
    <3>3. QED BY <3>1, <3>2
  <2>3. Goal
    <3> HIDE DEF Goal
    <3>1. QED BY <1>12, <2>7, <2>8, <2>9, <2>10, <2>11
  <2>4. run'.at = "settle" => (state' = "in_progress" => excused')
    BY <1>0, <1>12 DEF RunState
  <2>5. SettleInv'
    <3>1. run'.at = "settle" => SettleInv'
      BY <2>1, <2>3, <2>4 DEF SettleInv, Busy
    <3>2. ASSUME run'.at # "settle" PROVE SettleInv'
      <4>1. run'.at \in {"locked", "flush"} /\ run'.tries = run.tries
            /\ run'.child = run.child /\ run'.ok = run.ok /\ run'.mode = run.mode
        BY <2>3, <3>2
      <4> HIDE DEF Goal
      <4>2. QED BY <2>1, <4>1 DEF SettleInv, Busy
    <3>3. QED BY <3>1, <3>2
  <2>6. QED BY <1>1, <1>4, <1>7, <1>12, <2>3, <2>5
<1>13. StageConflict => /\ state' \in States /\ excused' \in BOOLEAN
                        /\ state' = "in_progress" => excused'
  BY <1>1 DEF StageConflict, Moves, States
<1>14. IntegrationFails => /\ state' \in States /\ excused' \in BOOLEAN
                           /\ state' = "in_progress" => excused'
                           /\ run' = [run EXCEPT !.at = "settle",
                                  !.ok = (run.tries = 1), !.tries = @ + 1,
                                  !.exit = IF run.tries = 1 THEN 3 ELSE 1]
  BY <1>1 DEF IntegrationFails, States
\* A task sent back is in progress, and excused unless the run has failed.
<1>19. ASSUME run.at = "locked", SendBack,
              UNCHANGED <<held, stopping, attempts, work, tested>>, staged' = None,
              run' = [run EXCEPT !.at = "settle", !.exit = 1,
                              !.ok = (run.tries = 1), !.tries = @ + 1]
       PROVE  RunInv'
  <2>1. ~run.child /\ run.ok /\ run.mode = "single-pr" /\ run.tries \in 0..1
    BY <1>0, <1>19 DEF RunInv, SettleInv, RunState
  <2>2. state' \in States /\ excused' \in BOOLEAN
        /\ (run.tries = 1 => excused')
    BY <1>1, <1>19 DEF SendBack, States
  <2>3. CASE run.tries = 1
    BY <1>1, <1>12, <1>19, <2>2, <2>3
  <2>4. CASE run.tries = 0
    <3>7. run.tries # 1
      BY <2>4
    <3>1. run' = [run EXCEPT !.at = "settle", !.exit = 1, !.ok = FALSE,
                             !.tries = @ + 1]
      BY <1>19, <3>7
    <3>6. run.tries + 1 \in 0..2
      BY <2>4
    <3>2. run' \in RunState
      BY <1>0, <3>1, <3>6 DEF RunState, Points
    <3>3. run'.at = "settle" /\ ~run'.ok /\ run'.todo = run.todo /\ run'.span = run.span
      BY <1>0, <3>1 DEF RunState
    <3>4. SettleInv'
      BY <3>3 DEF SettleInv, Busy
    <3>5. QED BY <1>1, <1>4, <1>7, <1>19, <2>2, <3>2, <3>3, <3>4
  <2>5. QED BY <2>1, <2>3, <2>4
<1>15. CASE \E passes \in BOOLEAN : PreCheck(passes)
  <2>1. PICK passes \in BOOLEAN : PreCheck(passes)
    BY <1>15
  <2>2. run.at = "check" /\ UNCHANGED <<held, stopping, attempts>>
    BY <2>1 DEF PreCheck
  <2>3. tested' \subseteq Nat
    BY <1>1, <2>1 DEF PreCheck
  <2>4. CASE passes
    <3>1. /\ staged' = [code |-> CodeOf[head], clean |-> CodeOf[work] = CodeOf[head]]
          /\ work' = head /\ run' = [run EXCEPT !.at = "locked"]
          /\ UNCHANGED <<state, excused>>
      BY <2>1, <2>4 DEF PreCheck
    <3>2. staged' \in [code : Nat, clean : BOOLEAN]
      BY <1>1, <3>1
    <3>3. QED BY <1>1, <1>12, <2>2, <2>3, <3>1, <3>2
  <2>5. CASE ~passes
    <3>1. /\ StageConflict /\ UNCHANGED <<work, staged>>
          /\ run' = [run EXCEPT !.at = "settle", !.tries = @ + 1]
      BY <2>1, <2>5 DEF PreCheck
    <3>2. QED BY <1>1, <1>12, <1>13, <2>2, <2>3, <3>1
  <2>6. QED BY <2>4, <2>5
<1>16. CASE \E result \in {"conflict", "guard_refused", "staged"} : Integrate(result)
  <2>1. PICK result \in {"conflict", "guard_refused", "staged"} : Integrate(result)
    BY <1>16
  <2>2. run.at = "locked" /\ UNCHANGED <<held, stopping, attempts, work, tested>>
    BY <2>1 DEF Integrate
  <2>3. CASE result = "conflict"
    <3>1. /\ StageConflict /\ staged' = None
          /\ run' = [run EXCEPT !.at = "settle", !.tries = @ + 1]
      BY <2>1, <2>3 DEF Integrate
    <3>2. QED BY <1>1, <1>12, <1>13, <2>2, <3>1
  <2>4. CASE result = "guard_refused"
    <3>1. /\ SendBack /\ staged' = None
          /\ run' = [run EXCEPT !.at = "settle", !.exit = 1,
                                !.ok = (run.tries = 1), !.tries = @ + 1]
      BY <2>1, <2>4 DEF Integrate
    <3>2. QED BY <1>19, <2>2, <3>1
  <2>5. CASE result = "staged"
    <3>1. \/ IntegrationFails /\ (staged' = None \/ staged' = staged)
          \/ /\ state' = "awaiting_merge" /\ UNCHANGED <<staged, excused>>
             /\ run' = [run EXCEPT !.at = "flush"]
      BY <2>1, <2>5 DEF Integrate
    <3>2. CASE IntegrationFails
      BY <1>1, <1>12, <1>14, <2>2, <3>1, <3>2
    <3>3. CASE state' = "awaiting_merge" /\ UNCHANGED <<staged, excused>>
               /\ run' = [run EXCEPT !.at = "flush"]
      BY <1>1, <1>12, <2>2, <3>3 DEF States
    <3>4. QED BY <3>1, <3>2, <3>3
  <2>6. QED BY <2>1, <2>3, <2>4, <2>5
<1>17. CASE \E green \in BOOLEAN : Flush(green)
  <2>1. PICK green \in BOOLEAN : Flush(green)
    BY <1>17
  <2>2. run.at = "flush" /\ UNCHANGED <<held, stopping, attempts, work, tested, staged>>
    BY <2>1 DEF Flush
  <2>3. \/ IntegrationFails
        \/ /\ state' = "merged" /\ UNCHANGED excused
           /\ run' = [run EXCEPT !.at = "settle", !.tries = @ + 1]
    BY <2>1 DEF Flush
  <2>4. CASE IntegrationFails
    BY <1>1, <1>12, <1>14, <2>2, <2>4
  <2>5. CASE /\ state' = "merged" /\ UNCHANGED excused
             /\ run' = [run EXCEPT !.at = "settle", !.tries = @ + 1]
    BY <1>1, <1>12, <2>2, <2>5 DEF States
  <2>6. QED BY <2>3, <2>4, <2>5
<1>18. QED BY <1>6, <1>9, <1>10, <1>11, <1>15, <1>16, <1>17

\* Every step keeps what a run relies on.
LEMMA RunInvStep == RunInv /\ [TaskNext]_taskVars => RunInv'
<1> SUFFICES ASSUME RunInv, [TaskNext]_taskVars PROVE RunInv'
  OBVIOUS
<1>1. CASE UNCHANGED taskVars
  BY <1>1 DEF RunInv, TaskTypeOK, SettleInv, InGroup, Spanning, Group, taskVars,
     record, files, world, ghosts
<1>2. CASE TaskNext
  BY <1>2, AgentKeepsRun, WalkKeepsRun, GatesKeepRun, EndsKeepRun
  DEF TaskNext, Orchestrator
<1>3. QED BY <1>1, <1>2

\* A run may rely on it in every reachable state.
LEMMA RunInvariant == TaskSpec => []RunInv
  BY RunInvInit, RunInvStep, PTL DEF TaskSpec

\* The record of the task, its files and its run have their types, for every
\* workflow (TaskRun).
THEOREM TaskTypes == TaskSpec => []TaskTypeOK
<1>1. RunInv => TaskTypeOK
  BY DEF RunInv
<1>2. QED BY <1>1, RunInvariant, PTL

-----------------------------------------------------------------------------
(* How far a run is from its end                                            *)

\* A run walks over the stages, ends its walk, integrates at most twice and is
\* over.  Of a walk what counts is the stage it has come to, then its group,
\* then how far it is with a session of that stage; of the gates after one, the
\* verdicts still to be read, and whether one more session may be asked.  The
\* order is well founded: a run is at a stage of 1..N + 1 (RunInv), there are
\* finitely many groups (GroupsAreCounted), and a run tries at most twice.
Walking == {"group", "stage"} \cup Busy
Integrating == {"settle", "check", "locked", "flush"}
Phase(at) ==
    CASE at \in Walking -> 3
      [] at = "ended" -> 2
      [] at \in Integrating -> 1
      [] OTHER -> 0
StageRank(at) ==
    CASE at = "group" -> 5
      [] at = "stage" -> 4
      [] at = "session" -> 3
      [] at = "record" -> 1
      [] OTHER -> 2
EndRank(at) ==
    CASE at = "settle" -> 4
      [] at = "check" -> 3
      [] at = "locked" -> 2
      [] OTHER -> 1
Asking(r) == (IF r.asked THEN 0 ELSE 2) + (IF r.at = "recovery" THEN 1 ELSE 0)

StageCloser ==
    \/ StageRank(run'.at) < StageRank(run.at)
    \/ /\ StageRank(run'.at) = StageRank(run.at)
       /\ \/ run'.todo \subseteq run.todo /\ run'.todo # run.todo
          \/ run'.todo = run.todo /\ Asking(run') < Asking(run)
WalkCloser ==
    \/ run.pos < run'.pos
    \/ /\ run'.pos = run.pos
       /\ \/ run.group < run'.group /\ run'.group <= Len(GroupsOf(run.iso)) + 1
          \/ run'.group = run.group /\ StageCloser
EndCloser ==
    \/ run.tries < run'.tries
    \/ run'.tries = run.tries /\ EndRank(run'.at) < EndRank(run.at)
Closer ==
    \/ Phase(run'.at) < Phase(run.at)
    \/ /\ run.at \in Walking /\ run'.at \in Walking /\ run'.iso = run.iso
       /\ WalkCloser
    \/ /\ run.at \in Integrating /\ run'.at \in Integrating
       /\ EndCloser

\* There are so many groups.
LEMMA GroupsAreCounted == \A iso : Len(GroupsOf(iso)) \in Nat
<1> TAKE iso
<1>1. CASE iso = "minimal"
  BY <1>1 DEF GroupsOf
<1>2. CASE iso = "full"
  <2>1. IsFiniteSet(Skilled)
    <3>1. N \in Int /\ 1 \in Int /\ Skilled \subseteq 1..N
      BY TaskRunAssumption DEF Stages
    <3>2. IsFiniteSet(1..N)
      BY <3>1, FS_Interval
    <3>3. QED BY <3>1, <3>2, FS_Subset
  <2>2. Cardinality(Skilled) \in Nat
    BY <2>1, FS_CardinalityType
  <2> DEFINE part(j) == {s \in Skilled : Cardinality({r \in Skilled : r <= s}) = j}
  <2>3. GroupsOf(iso) = [j \in 1..Cardinality(Skilled) |-> part(j)]
    BY <1>2 DEF GroupsOf
  <2> HIDE DEF part
  <2>4. QED BY <2>2, <2>3
<1>3. CASE iso # "minimal" /\ iso # "full"
  BY <1>3, TaskRunAssumption DEF GroupsOf
<1>4. QED BY <1>1, <1>2, <1>3

\* Where a phase ends.
LEMMA PhaseEnds ==
    ASSUME \/ run.at \in Walking /\ run'.at \in {"ended", "settle"}
           \/ run.at = "ended" /\ run'.at \in {"check", "settle"}
           \/ run.at \in Points \ {"off"} /\ run'.at = "off"
    PROVE  Closer
<1>1. Phase(run'.at) < Phase(run.at)
  BY DEF Phase, Walking, Integrating, Busy, Points
<1>2. QED BY <1>1 DEF Closer

\* The walk over the groups.
LEMMA WalkDescends ==
    ASSUME RunInv,
           \/ StopForShutdown \/ NextGroup \/ RunStageGroup \/ SkipGroup
           \/ WalkStage \/ NoPlan
    PROVE  Closer
<1>1. /\ run \in RunState /\ run.group \in Nat \ {0} /\ run.pos \in Nat
      /\ run.group + 1 \in Nat
  BY TaskRunAssumption DEF RunInv, TaskTypeOK, RunState
<1>2. CASE StopForShutdown \/ NoPlan
  <2>1. PICK e : run' = [run EXCEPT !.at = "settle", !.exit = e]
    BY <1>2 DEF StopForShutdown, NoPlan, Fail
  <2>2. run.at = "group" /\ run'.at = "settle"
    BY <1>1, <1>2, <2>1 DEF StopForShutdown, NoPlan, RunState
  <2>3. QED BY <2>2, PhaseEnds DEF Walking
<1>3. CASE NextGroup
  <2>1. run.at = "group"
    BY <1>3 DEF NextGroup
  <2>2. CASE run.group > Len(GroupsOf(run.iso))
    <3>1. run'.at = "ended"
      BY <1>1, <1>3, <2>2 DEF NextGroup, RunState
    <3>2. QED BY <2>1, <3>1, PhaseEnds DEF Walking
  <2>3. CASE ~(run.group > Len(GroupsOf(run.iso))) /\ run.pos \in Group
    <3>1. /\ run'.at = "stage" /\ run'.pos = run.pos /\ run'.group = run.group
          /\ run'.iso = run.iso
      BY <1>1, <1>3, <2>3 DEF NextGroup, RunState
    <3>2. StageCloser
      BY <2>1, <3>1 DEF StageCloser, StageRank
    <3>3. QED BY <2>1, <3>1, <3>2 DEF Closer, WalkCloser, Walking
  <2>4. CASE ~(run.group > Len(GroupsOf(run.iso))) /\ run.pos \notin Group
    <3>1. /\ run'.at = "group" /\ run'.pos = run.pos /\ run'.group = run.group + 1
          /\ run'.iso = run.iso
      BY <1>1, <1>3, <2>4 DEF NextGroup, RunState
    <3>2. Len(GroupsOf(run.iso)) \in Nat
      BY GroupsAreCounted
    <3>3. run'.group <= Len(GroupsOf(run.iso)) + 1 /\ run.group < run'.group
      BY <1>1, <2>4, <3>1, <3>2
    <3>4. QED BY <2>1, <3>1, <3>3 DEF Closer, WalkCloser, Walking
  <2>5. QED BY <2>2, <2>3, <2>4
<1>4. CASE RunStageGroup \/ SkipGroup \/ WalkStage
  <2>1. run.at = "stage" /\ run.group \in 1..Len(GroupsOf(run.iso))
    BY <1>4 DEF RunInv, InGroup, RunStageGroup, SkipGroup, WalkStage
  <2>2. ASSUME NEW S, run' = Session(S) PROVE Closer
    <3>1. /\ run'.at = "session" /\ run'.pos = run.pos /\ run'.group = run.group
          /\ run'.iso = run.iso
      BY <1>1, <2>2 DEF Session, RunState
    <3>2. StageCloser
      BY <2>1, <3>1 DEF StageCloser, StageRank
    <3>3. QED BY <2>1, <3>1, <3>2 DEF Closer, WalkCloser, Walking, Busy
  <2>3. ASSUME run.pos < run'.pos, run'.iso = run.iso, run'.at \in {"group", "stage"}
        PROVE  Closer
    BY <2>1, <2>3 DEF Closer, WalkCloser, Walking
  <2>4. CASE RunStageGroup
    BY <2>2, <2>4 DEF RunStageGroup
  <2>5. CASE SkipGroup
    <3>1. /\ Remaining \subseteq Stages /\ Remaining # {}
          /\ \A s \in Remaining : run.pos <= s
      BY <2>1, <2>5, RunnableStages DEF SkipGroup, Remaining, RunInv
    <3>2. Last(Remaining) \in Remaining
      BY <3>1, FirstAndLast
    <3>3. PICK l \in Remaining : l = Last(Remaining)
      BY <3>2
    <3>4. l \in Nat /\ run.pos <= l
      BY <3>1, <3>3, TaskRunAssumption DEF Stages
    <3>5. run' = [run EXCEPT !.pos = l + 1, !.at = "group", !.group = @ + 1]
      BY <2>5, <3>3 DEF SkipGroup
    <3>6. run'.pos = l + 1 /\ run'.iso = run.iso /\ run'.at = "group"
      BY <1>1, <3>5 DEF RunState
    <3>7. QED BY <1>1, <2>3, <3>4, <3>6
  <2>6. CASE WalkStage /\ run.pos \notin Group
    <3>1. run' = [run EXCEPT !.at = "group", !.group = @ + 1]
      BY <2>6 DEF WalkStage
    <3>2. /\ run'.at = "group" /\ run'.pos = run.pos /\ run'.group = run.group + 1
          /\ run'.iso = run.iso
      BY <1>1, <3>1 DEF RunState
    <3>3. Len(GroupsOf(run.iso)) \in Nat
      BY GroupsAreCounted
    <3>4. run.group < run'.group /\ run'.group <= Len(GroupsOf(run.iso)) + 1
      BY <1>1, <2>1, <3>2, <3>3
    <3>5. QED BY <2>1, <3>2, <3>4 DEF Closer, WalkCloser, Walking
  <2>7. CASE WalkStage /\ run.pos \in Group /\ run.pos \notin enabled
    <3>1. run' = [run EXCEPT !.pos = @ + 1]
      BY <2>7 DEF WalkStage
    <3>2. run'.pos = run.pos + 1 /\ run'.iso = run.iso /\ run'.at = "stage"
      BY <1>1, <2>1, <3>1 DEF RunState
    <3>3. QED BY <1>1, <2>3, <3>2
  <2>8. CASE WalkStage /\ run.pos \in Group /\ run.pos \in enabled
    BY <2>2, <2>8 DEF WalkStage
  <2>9. QED BY <1>4, <2>4, <2>5, <2>6, <2>7, <2>8
<1>5. QED BY <1>2, <1>3, <1>4

\* The end of a session, the gates and the record of the stages.
LEMMA GatesDescend ==
    ASSUME RunInv,
           \/ SessionFails \/ SessionEnds \/ RecoveryEnds
           \/ Gate \/ GatesOpen \/ RecordStage \/ StageRefused
           \/ CreditStage \/ CreditEnds
    PROVE  Closer
<1>1. /\ run \in RunState /\ run.pos \in Nat /\ run.todo \subseteq Stages
      /\ run.at \in Busy /\ run.span \subseteq Stages /\ run.span # {}
  BY TaskRunAssumption
  DEF RunInv, TaskTypeOK, RunState, Spanning, Busy, SessionFails, SessionEnds,
     RecoveryEnds, Gate, GatesOpen, RecordStage, StageRefused, CreditStage,
     CreditEnds
<1>2. ASSUME NEW e, Fail(e) PROVE Closer
  <2>1. run'.at = "settle"
    BY <1>1, <1>2 DEF Fail, RunState
  <2>2. QED BY <1>1, <2>1, PhaseEnds DEF Walking
<1>3. ASSUME run'.at \in Busy, run'.pos = run.pos, run'.group = run.group,
             run'.iso = run.iso, StageCloser
      PROVE  Closer
  BY <1>1, <1>3 DEF Closer, WalkCloser, Walking
<1>4. CASE SessionFails
  <2>1. CASE Cardinality(run.span) > 1
    <3>1. /\ run.at = "session" /\ run'.at = "credit" /\ run'.pos = run.pos
          /\ run'.group = run.group /\ run'.iso = run.iso
      BY <1>1, <1>4, <2>1 DEF SessionFails, RunState
    <3>2. QED BY <1>3, <3>1 DEF StageCloser, StageRank, Busy
  <2>2. CASE ~(Cardinality(run.span) > 1)
    BY <1>2, <1>4, <2>2 DEF SessionFails, Fail
  <2>3. QED BY <2>1, <2>2
<1>5. CASE SessionEnds
  <2>1. CASE HasCommits
    <3>1. run' = [run EXCEPT !.at = "gates", !.todo = Proving(run.span)]
      BY <1>5, <2>1 DEF SessionEnds
    <3>2. /\ run.at = "session" /\ run'.at = "gates" /\ run'.pos = run.pos
          /\ run'.group = run.group /\ run'.iso = run.iso
      BY <1>1, <1>5, <3>1 DEF SessionEnds, RunState
    <3>3. QED BY <1>3, <3>2 DEF StageCloser, StageRank, Busy
  <2>2. CASE ~HasCommits
    BY <1>2, <1>5, <2>2 DEF SessionEnds
  <2>3. QED BY <2>1, <2>2
<1>6. CASE RecoveryEnds
  <2>1. /\ run.at = "recovery" /\ run'.at = "gates" /\ run'.pos = run.pos
        /\ run'.group = run.group /\ run'.iso = run.iso
        /\ run'.todo = run.todo /\ run'.asked = run.asked
    BY <1>1, <1>6 DEF RecoveryEnds, RunState
  <2>2. Asking(run') < Asking(run)
    BY <2>1 DEF Asking
  <2>3. QED BY <1>3, <2>1, <2>2 DEF StageCloser, StageRank, Busy
<1>7. CASE Gate
  <2> DEFINE s == First(run.todo)
  <2>1. s \in run.todo /\ run.at = "gates"
    BY <1>1, <1>7, FirstAndLast DEF Gate
  <2>2. \/ run' = [run EXCEPT !.todo = @ \ {s}, !.asked = FALSE]
        \/ ~run.asked /\ run' = [run EXCEPT !.at = "recovery", !.asked = TRUE]
        \/ Fail(1)
    BY <1>7 DEF Gate, AskAgain
  <2> HIDE DEF s
  <2>3. CASE run' = [run EXCEPT !.todo = @ \ {s}, !.asked = FALSE]
    <3>1. /\ run'.at = "gates" /\ run'.pos = run.pos /\ run'.group = run.group
          /\ run'.iso = run.iso /\ run'.todo = run.todo \ {s}
      BY <1>1, <2>1, <2>3 DEF RunState
    <3>2. run'.todo \subseteq run.todo /\ run'.todo # run.todo
      BY <2>1, <3>1
    <3>3. QED BY <1>3, <2>1, <3>1, <3>2 DEF StageCloser, Busy
  <2>4. CASE ~run.asked /\ run' = [run EXCEPT !.at = "recovery", !.asked = TRUE]
    <3>1. /\ run'.at = "recovery" /\ run'.pos = run.pos /\ run'.group = run.group
          /\ run'.iso = run.iso /\ run'.todo = run.todo /\ run'.asked = TRUE
      BY <1>1, <2>4 DEF RunState
    <3>2. Asking(run') < Asking(run)
      BY <2>1, <2>4, <3>1 DEF Asking
    <3>3. QED BY <1>3, <2>1, <3>1, <3>2 DEF StageCloser, StageRank, Busy
  <2>5. QED BY <1>2, <2>2, <2>3, <2>4
<1>8. CASE GatesOpen
  <2>1. /\ run.at = "gates" /\ run'.at = "record" /\ run'.pos = run.pos
        /\ run'.group = run.group /\ run'.iso = run.iso
    BY <1>1, <1>8 DEF GatesOpen, RunState
  <2>2. QED BY <1>3, <2>1 DEF StageCloser, StageRank, Busy
<1>9. CASE RecordStage
  <2>1. Last(run.span) \in run.span
    BY <1>1, FirstAndLast
  <2>2. PICK l \in run.span : l = Last(run.span)
    BY <2>1
  <2>3. l \in Nat /\ run.pos <= l
    BY <1>1, <2>2, TaskRunAssumption DEF Stages, RunInv, Spanning
  <2>4. run' = [run EXCEPT !.pos = l + 1,
                        !.at = IF Cardinality(run.span) > 1 THEN "group"
                               ELSE "stage",
                        !.group = IF Cardinality(run.span) > 1 THEN run.group + 1
                                  ELSE run.group]
    BY <1>9, <2>2 DEF RecordStage
  <2>5. run'.pos = l + 1 /\ run'.at \in Walking /\ run'.iso = run.iso
    BY <1>1, <2>4 DEF RunState, Walking
  <2>6. run.pos < run'.pos
    BY <1>1, <2>3, <2>5
  <2>7. QED BY <1>1, <2>5, <2>6 DEF Closer, WalkCloser, Walking
<1>10. CASE StageRefused \/ CreditEnds
  BY <1>2, <1>10 DEF StageRefused, CreditEnds
<1>11. CASE CreditStage
  <2>1. First(run.todo) \in run.todo /\ run.at = "credit"
    BY <1>1, <1>11, FirstAndLast DEF CreditStage
  <2>2. PICK s \in run.todo : run' = [run EXCEPT !.todo = @ \ {s}]
    BY <1>11, <2>1 DEF CreditStage
  <2>3. /\ run'.at = "credit" /\ run'.pos = run.pos /\ run'.group = run.group
        /\ run'.iso = run.iso /\ run'.todo = run.todo \ {s}
    BY <1>1, <2>1, <2>2 DEF RunState
  <2>4. run'.todo \subseteq run.todo /\ run'.todo # run.todo
    BY <2>2, <2>3
  <2>5. QED BY <1>3, <2>1, <2>3, <2>4 DEF StageCloser, Busy
<1>12. QED
  BY <1>4, <1>5, <1>6, <1>7, <1>8, <1>9, <1>10, <1>11

\* Integration, and the end of the run.
LEMMA EndDescends ==
    ASSUME RunInv,
           \/ \E mode \in Modes : WalkEnds(mode)
           \/ \E passes \in BOOLEAN : PreCheck(passes)
           \/ \E result \in {"conflict", "guard_refused", "staged"} : Integrate(result)
           \/ \E green \in BOOLEAN : Flush(green)
           \/ SettleChild \/ IntegrateAgain \/ SettleSuccess \/ SettleFailure
           \/ (Crash /\ run.at # "off")
    PROVE  Closer
<1>1. run \in RunState /\ run.tries \in Nat /\ run.at \in Points
  BY DEF RunInv, TaskTypeOK, RunState
<1>2. ASSUME run.at \in Integrating, run'.at = "settle", run'.tries = run.tries + 1
      PROVE  Closer
  BY <1>1, <1>2 DEF Closer, EndCloser, Integrating
<1>3. ASSUME run.at \in Integrating, run'.at \in Integrating,
             run'.tries = run.tries, EndRank(run'.at) < EndRank(run.at)
      PROVE  Closer
  BY <1>3 DEF Closer, EndCloser
<1>4. CASE \E mode \in Modes : WalkEnds(mode)
  <2>1. PICK mode \in Modes : WalkEnds(mode)
    BY <1>4
  <2>2. run.at = "ended" /\ run'.at \in {"check", "settle"}
    BY <1>1, <2>1 DEF WalkEnds, RunState
  <2>3. QED BY <2>2, PhaseEnds
<1>5. CASE \E passes \in BOOLEAN : PreCheck(passes)
  <2>1. run.at = "check"
    BY <1>5 DEF PreCheck
  <2>2. \/ run' = [run EXCEPT !.at = "locked"]
        \/ run' = [run EXCEPT !.at = "settle", !.tries = @ + 1]
    BY <1>5 DEF PreCheck
  <2>3. \/ run'.at = "locked" /\ run'.tries = run.tries
        \/ run'.at = "settle" /\ run'.tries = run.tries + 1
    BY <1>1, <2>2 DEF RunState
  <2>4. QED BY <1>2, <1>3, <2>1, <2>3 DEF Integrating, EndRank
<1>6. ASSUME run.at \in Integrating, IntegrationFails PROVE Closer
  <2>1. run'.at = "settle" /\ run'.tries = run.tries + 1
    BY <1>1, <1>6 DEF IntegrationFails, RunState
  <2>2. QED BY <1>2, <1>6, <2>1
<1>7. CASE \E result \in {"conflict", "guard_refused", "staged"} : Integrate(result)
  <2>1. run.at = "locked"
    BY <1>7 DEF Integrate
  <2>2. \/ run' = [run EXCEPT !.at = "settle", !.tries = @ + 1]
        \/ run' = [run EXCEPT !.at = "settle", !.exit = 1, !.ok = (run.tries = 1),
                              !.tries = @ + 1]
        \/ run' = [run EXCEPT !.at = "flush"]
        \/ IntegrationFails
    BY <1>7 DEF Integrate
  <2>3. \/ run'.at = "settle" /\ run'.tries = run.tries + 1
        \/ run'.at = "flush" /\ run'.tries = run.tries
        \/ IntegrationFails
    BY <1>1, <2>2 DEF RunState
  <2>4. QED BY <1>2, <1>3, <1>6, <2>1, <2>3 DEF Integrating, EndRank
<1>8. CASE \E green \in BOOLEAN : Flush(green)
  <2>1. run.at = "flush"
    BY <1>8 DEF Flush
  <2>2. run' = [run EXCEPT !.at = "settle", !.tries = @ + 1] \/ IntegrationFails
    BY <1>8 DEF Flush
  <2>3. (run'.at = "settle" /\ run'.tries = run.tries + 1) \/ IntegrationFails
    BY <1>1, <2>2 DEF RunState
  <2>4. QED BY <1>2, <1>6, <2>1, <2>3 DEF Integrating
<1>9. CASE SettleChild \/ SettleSuccess \/ SettleFailure \/ (Crash /\ run.at # "off")
  <2>1. run.at \in Points \ {"off"} /\ run' = Off
    BY <1>1, <1>9 DEF SettleChild, SettleSuccess, SettleFailure, Crash, Ends
  <2>2. run'.at = "off"
    BY <2>1 DEF Off
  <2>3. QED BY <2>1, <2>2, PhaseEnds
<1>10. CASE IntegrateAgain
  <2>1. run.at = "settle" /\ run' = [run EXCEPT !.at = "check"]
    BY <1>10 DEF IntegrateAgain
  <2>2. run'.at = "check" /\ run'.tries = run.tries
    BY <1>1, <2>1 DEF RunState
  <2>3. QED BY <1>3, <2>1, <2>2 DEF Integrating, EndRank
<1>11. QED
  BY <1>4, <1>5, <1>7, <1>8, <1>9, <1>10

\* Every step of the orchestrator brings a run nearer to its end, whatever its
\* sessions, gates, checks and integrations bring, and no other step sets it
\* back: what there is to RunEnds but for fairness (run_single, process_task).
THEOREM RunDescends ==
    TaskSpec => [][run.at # "off" => /\ Orchestrator => Closer
                                     /\ Closer \/ run' = run]_taskVars
<1>1. RunInv /\ [TaskNext]_taskVars
        => [run.at # "off" => /\ Orchestrator => Closer
                              /\ Closer \/ run' = run]_taskVars
  <2> SUFFICES ASSUME RunInv, [TaskNext]_taskVars, run.at # "off"
               PROVE  /\ Orchestrator => Closer
                      /\ Closer \/ run' = run
    OBVIOUS
  <2>1. CASE Orchestrator
    BY <2>1, WalkDescends, GatesDescend, EndDescends DEF Orchestrator
  <2>2. CASE NoPlan \/ Crash
    BY <2>2, WalkDescends, EndDescends
  <2>3. CASE ~Orchestrator /\ (Agent \/ Refuse \/ RequestShutdown \/ Seize \/ Yield)
    <3>1. run' = run
      BY <2>3
      DEF Agent, Edit, Commit, Submit, WriteByHand, Refuse, RequestShutdown,
         Seize, Yield
    <3>2. QED BY <2>3, <3>1
  <2>4. CASE ~Orchestrator /\ UNCHANGED taskVars
    <3>1. run' = run
      BY <2>4 DEF taskVars
    <3>2. QED BY <2>4, <3>1
  <2>5. CASE \E sub \in BOOLEAN, iso \in Isolations : Begin(sub, iso)
    BY <2>5 DEF Begin
  <2>6. QED BY <2>1, <2>2, <2>3, <2>4, <2>5 DEF TaskNext
<1>2. QED BY <1>1, RunInvInit, RunInvStep, PTL DEF TaskSpec

-----------------------------------------------------------------------------
(* What a run leaves on the board                                           *)

\* Every end of a run takes the task out of progress or is excused.
LEMMA LeavesNone ==
    RunInv /\ NoTaskLeftRunning /\ [TaskNext]_taskVars => NoTaskLeftRunning'
<1> SUFFICES ASSUME RunInv, NoTaskLeftRunning, [TaskNext]_taskVars,
                    run'.at = "off", state' = "in_progress"
             PROVE  excused'
  BY DEF NoTaskLeftRunning
<1> USE DEF record, files, world, ghosts
<1>1. CASE SettleChild
  BY <1>1 DEF SettleChild
<1>2. CASE SettleFailure
  BY <1>2 DEF SettleFailure, FailedTo
<1>3. CASE SettleSuccess
  BY <1>3 DEF SettleSuccess, RunInv, SettleInv, Moves
<1>4. CASE Crash
  BY <1>4 DEF Crash
<1>5. CASE \E sub \in BOOLEAN, iso \in Isolations : Begin(sub, iso)
  BY <1>5 DEF Begin, Off
<1>6. run \in RunState
  BY DEF RunInv, TaskTypeOK
<1>7. ASSUME \/ StopForShutdown \/ NextGroup \/ RunStageGroup \/ SkipGroup
             \/ WalkStage \/ NoPlan
      PROVE  FALSE
  BY <1>6, <1>7 DEF StopForShutdown, NextGroup, RunStageGroup, SkipGroup, WalkStage,
     NoPlan, Fail, Session, RunState
<1>8. ASSUME \/ SessionFails \/ SessionEnds \/ RecoveryEnds
             \/ Gate \/ GatesOpen \/ RecordStage \/ StageRefused
             \/ CreditStage \/ CreditEnds
      PROVE  FALSE
  BY <1>6, <1>8 DEF SessionFails, SessionEnds, RecoveryEnds, Gate, GatesOpen,
     RecordStage, StageRefused, CreditStage, CreditEnds, Fail, RunState
<1>9. ASSUME \/ \E mode \in Modes : WalkEnds(mode)
             \/ \E passes \in BOOLEAN : PreCheck(passes)
             \/ \E result \in {"conflict", "guard_refused", "staged"} : Integrate(result)
             \/ \E green \in BOOLEAN : Flush(green)
             \/ IntegrateAgain
      PROVE  FALSE
  <2>1. CASE \E mode \in Modes : WalkEnds(mode)
    BY <1>6, <2>1 DEF WalkEnds, RunState
  <2>2. CASE \E passes \in BOOLEAN : PreCheck(passes)
    BY <1>6, <2>2 DEF PreCheck, IntegrationFails, RunState
  <2>3. CASE \E result \in {"conflict", "guard_refused", "staged"} : Integrate(result)
    BY <1>6, <2>3 DEF Integrate, IntegrationFails, RunState
  <2>4. CASE \E green \in BOOLEAN : Flush(green)
    BY <1>6, <2>4 DEF Flush, IntegrationFails, RunState
  <2>5. CASE IntegrateAgain
    BY <1>6, <2>5 DEF IntegrateAgain, RunState
  <2>6. QED BY <1>9, <2>1, <2>2, <2>3, <2>4, <2>5
<1>10. CASE Agent \/ Refuse \/ RequestShutdown \/ Seize \/ Yield
  <2>1. UNCHANGED <<run, state, excused>>
    BY <1>10 DEF Agent, Edit, Commit, Submit, WriteByHand, Refuse,
       RequestShutdown, Seize, Yield
  <2>2. QED BY <2>1 DEF NoTaskLeftRunning
<1>11. CASE UNCHANGED taskVars
  BY <1>11 DEF NoTaskLeftRunning, taskVars
<1>12. QED BY <1>1, <1>2, <1>3, <1>4, <1>5, <1>7, <1>8, <1>9, <1>10, <1>11
           DEF TaskNext, Orchestrator

\* run_single leaves no task in progress behind, however it ends, unless it
\* crashed, another run had the queue when it settled, or its second
\* integrate() was refused by a guard and sent the task back: for any workflow
\* and number of attempts (run_single, _integrate_completed_task,
\* _handle_guard_refused and _mark_integration_failure of cli/orchestrator.py).
THEOREM NoneLeftRunning == TaskSpec => []NoTaskLeftRunning
<1>1. TaskInit => NoTaskLeftRunning
  BY DEF TaskInit, NoTaskLeftRunning
<1>2. QED BY <1>1, RunInvariant, LeavesNone, PTL DEF TaskSpec

-----------------------------------------------------------------------------
(* What is put on the train                                                 *)

\* A qa verdict that is still taken for a pass names a tree whose code is that
\* of the base or passed the tests.
QaInv ==
    verdict["qa"] \in {"pass", "malformed"} /\ qaTree # None =>
        CodeOf[qaTree] \in tested \cup {CodeOf[Base]}

\* A verdict of qa keeps its worth, and what is staged had it.
LEMMA StagesTested ==
    RunInv /\ QaInv /\ StagedCodeTested /\ [TaskNext]_taskVars
        => QaInv' /\ StagedCodeTested'
<1> SUFFICES ASSUME RunInv, QaInv, StagedCodeTested, [TaskNext]_taskVars
             PROVE  QaInv' /\ StagedCodeTested'
  OBVIOUS
<1> USE DEF record, files, world, ghosts
<1>1. verdict \in [Kind -> Verdicts] /\ "qa" \in Kind
  BY TaskRunAssumption DEF RunInv, TaskTypeOK
<1>2. CASE UNCHANGED <<verdict, qaTree, tested, staged>>
  BY <1>2 DEF QaInv, StagedCodeTested
<1>3. CASE UNCHANGED <<verdict, qaTree, tested>> /\ (staged' = staged \/ staged' = None)
  BY <1>3 DEF QaInv, StagedCodeTested
<1>4. ASSUME NEW k \in Kind, NEW v \in {"pass", "fail"}, Submit(k, v)
      PROVE  QaInv' /\ StagedCodeTested'
  <2>1. verdict' = [verdict EXCEPT ![k] = v] /\ staged' = staged
        /\ tested \subseteq tested'
    BY <1>4 DEF Submit, Written
  <2>2. CASE k = "qa"
    <3>1. qaTree' \in {work, Base} /\ verdict'["qa"] = v
          /\ (v = "pass" => CodeOf[work] \in tested')
      BY <1>1, <1>4, <2>1, <2>2 DEF Submit, StampedTree
    <3>2. QED BY <2>1, <3>1 DEF QaInv, StagedCodeTested
  <2>3. CASE k # "qa"
    <3>1. qaTree' = qaTree /\ verdict'["qa"] = verdict["qa"]
      BY <1>1, <1>4, <2>1, <2>3 DEF Submit
    <3>2. QED BY <2>1, <3>1 DEF QaInv, StagedCodeTested
  <2>4. QED BY <2>2, <2>3
<1>5. ASSUME NEW k \in Kind, WriteByHand(k) PROVE QaInv' /\ StagedCodeTested'
  BY <1>1, <1>5 DEF WriteByHand, QaInv, StagedCodeTested
<1>6. ASSUME NEW passes \in BOOLEAN, PreCheck(passes)
      PROVE  QaInv' /\ StagedCodeTested'
  <2>1. UNCHANGED <<verdict, qaTree>> /\ tested \subseteq tested'
    BY <1>6 DEF PreCheck
  <2>2. QaInv'
    BY <2>1 DEF QaInv
  <2>3. CASE ~passes
    <3>1. staged' = staged
      BY <1>6, <2>3 DEF PreCheck
    <3>2. StagedCodeTested'
      BY <2>1, <3>1 DEF StagedCodeTested
    <3>3. QED BY <2>2, <3>2
  <2>4. CASE passes
    <3>1. staged' = [code |-> CodeOf[head], clean |-> CodeOf[work] = CodeOf[head]]
          /\ (Freshness = "run" => CodeOf[work] \in tested')
      BY <1>6, <2>4 DEF PreCheck
    <3>2. Freshness # "run" => CodeOf[work] \in tested \cup {CodeOf[Base]}
      BY DEF Freshness, SameTree, QaInv
    <3>3. CodeOf[work] \in tested' \cup {CodeOf[Base]}
      BY <2>1, <3>1, <3>2
    <3>4. QED BY <2>2, <3>1, <3>3 DEF StagedCodeTested
  <2>5. QED BY <2>2, <2>3, <2>4
<1>7. CASE \/ \E sub \in BOOLEAN, iso \in Isolations : Begin(sub, iso)
           \/ StopForShutdown \/ NextGroup \/ RunStageGroup \/ SkipGroup
           \/ WalkStage \/ NoPlan
           \/ SessionFails \/ SessionEnds \/ RecoveryEnds
           \/ Gate \/ GatesOpen \/ RecordStage \/ StageRefused
           \/ CreditStage \/ CreditEnds
           \/ \E mode \in Modes : WalkEnds(mode)
           \/ \E green \in BOOLEAN : Flush(green)
           \/ SettleChild \/ IntegrateAgain \/ SettleSuccess \/ SettleFailure
           \/ Edit \/ Commit \/ Refuse \/ RequestShutdown \/ Seize \/ Yield
           \/ UNCHANGED taskVars
  <2>1. UNCHANGED <<verdict, qaTree, tested, staged>>
    BY <1>7 DEF Begin, StopForShutdown, NextGroup, RunStageGroup, SkipGroup,
       WalkStage, NoPlan, SessionFails, SessionEnds, RecoveryEnds, Gate, GatesOpen,
       RecordStage, StageRefused, CreditStage, CreditEnds, WalkEnds, Flush,
       SettleChild, IntegrateAgain, SettleSuccess, SettleFailure, Edit, Commit,
       Refuse, RequestShutdown, Seize, Yield, taskVars
  <2>2. QED BY <1>2, <2>1
<1>8. CASE \/ \E result \in {"conflict", "guard_refused", "staged"} : Integrate(result)
           \/ Crash
  <2>1. UNCHANGED <<verdict, qaTree, tested>> /\ (staged' = staged \/ staged' = None)
    BY <1>8 DEF Integrate, Crash
  <2>2. QED BY <1>3, <2>1
<1>9. QED BY <1>4, <1>5, <1>6, <1>7, <1>8 DEF TaskNext, Orchestrator, Agent

\* The code that goes on the train is that of the base or passed the tests,
\* whatever the sessions edit after qa, and whatever verdicts earlier attempts
\* left (pre_integration_check, validation_freshness).
THEOREM StagedPassedTests == TaskSpec => []StagedCodeTested
<1>1. TaskInit => QaInv /\ StagedCodeTested
  BY TaskRunAssumption DEF TaskInit, QaInv, StagedCodeTested
<1>2. QED BY <1>1, RunInvariant, StagesTested, PTL DEF TaskSpec

-----------------------------------------------------------------------------
(* Evidence                                                                 *)

\* A session group of the workflow file is a stretch of the pipeline, but for
\* stages that leave no verdict.
Contiguous ==
    \A i \in DOMAIN Groups : \A r, t \in Groups[i], s \in Proving(Stages) :
        r < s /\ s < t => s \in Groups[i]

\* What the record or the run has passed has been judged.
Walked ==
    \A r \in Proving(enabled) :
        r < stage \/ (run.at # "off" /\ r < run.pos) => r \in judged

\* A session leaves out no stage with a verdict on its way.
Spanned ==
    run.at \in Busy =>
        \A r \in Proving(enabled), s \in run.span :
            run.pos <= r /\ r <= s => r \in run.span

\* What a session has to answer for is judged, but for what is still to do.
Judged ==
    /\ run.at \in {"gates", "recovery"} => Proving(run.span) \ run.todo \subseteq judged
    /\ run.at = "record" => Proving(run.span) \subseteq judged
    /\ run.at = "credit" => run.span \ run.todo \subseteq judged

EvidInv == Walked /\ Spanned /\ Judged

\* Standard isolation walks the groups of the workflow file.
LEMMA StandardGroups ==
    ASSUME NEW iso, iso = "standard"
    PROVE  GroupsOf(iso) = Groups
  BY DEF GroupsOf

\* The stages of a group that are left hold every stage with a verdict between
\* the current one and the last of them.
LEMMA NoGap ==
    ASSUME Contiguous, RunInv, run.at = "stage", run.iso = "standard",
           NEW r \in Proving(enabled), NEW s \in Remaining,
           run.pos <= r, r <= s
    PROVE  r \in Runnable
<1>1. run.group \in DOMAIN Groups /\ Group = Groups[run.group]
  <2>1. run.group \in 1..Len(Groups) /\ Groups \in Seq(SUBSET Skilled)
    BY StandardGroups, TaskRunAssumption DEF RunInv, InGroup
  <2>2. Group = Groups[run.group]
    BY StandardGroups DEF Group
  <2>3. QED BY <2>1, <2>2
<1>2. PICK g \in Group : g <= run.pos
  BY DEF RunInv, InGroup
<1>3. Group \subseteq Stages /\ enabled \subseteq Stages
  <2>1. run.group \in 1..Len(GroupsOf(run.iso))
    BY DEF RunInv, InGroup
  <2>2. QED BY <2>1, RunnableStages DEF RunInv, TaskTypeOK
<1>4. s \in Group
  BY DEF Remaining
<1>5. r \in Stages /\ r \in Proving(Stages) /\ r \in enabled
  BY <1>3 DEF Proving
<1>6. run.pos \in Nat /\ g \in Nat /\ s \in Nat /\ r \in Nat
  BY <1>2, <1>3, <1>4, <1>5 DEF RunInv, TaskTypeOK, RunState, Stages
<1>7. CASE g < r /\ r < s
  <2>1. r \in Group
    BY <1>1, <1>2, <1>4, <1>5, <1>7 DEF Contiguous
  <2>2. QED BY <1>5, <2>1 DEF Runnable, Remaining
<1>8. CASE ~(g < r /\ r < s)
  <2>1. r = g \/ r = s
    BY <1>2, <1>6, <1>8
  <2>2. r \in Group
    BY <1>2, <1>4, <2>1
  <2>3. QED BY <1>5, <2>2 DEF Runnable, Remaining
<1>9. QED BY <1>7, <1>8

\* A step that starts no session and moves neither the record nor the run
\* past a stage.
LEMMA EvidenceStays ==
    ASSUME EvidInv, stage' = stage, enabled' = enabled, judged \subseteq judged',
           run'.at \notin Busy,
           run'.at # "off" => run.at # "off" /\ run'.pos = run.pos
    PROVE  EvidInv'
<1>1. Walked'
  BY DEF EvidInv, Walked
<1>2. QED BY <1>1 DEF EvidInv, Spanned, Judged, Busy

\* The steps of the walk.
LEMMA WalkKeepsEvidence ==
    ASSUME Contiguous, RunInv, EvidInv, RunStageGroup \/ SkipGroup \/ WalkStage
    PROVE  EvidInv'
<1> USE DEF record, files, world, ghosts
<1>1. UNCHANGED <<stage, enabled, judged>> /\ run.at = "stage"
  BY DEF RunStageGroup, SkipGroup, WalkStage
<1>2. run \in RunState /\ run.pos \in 1..(N + 1) /\ enabled \subseteq Stages
      /\ N \in Nat
  BY TaskRunAssumption DEF RunInv, TaskTypeOK, RunState
<1>3. /\ Group \subseteq Stages /\ Remaining \subseteq Group
      /\ Runnable \subseteq Remaining /\ Runnable \subseteq enabled
  <2>1. run.group \in 1..Len(GroupsOf(run.iso))
    BY <1>1 DEF RunInv, InGroup
  <2>2. QED BY <2>1, RunnableStages DEF RunInv
<1>4. ASSUME NEW S, S \subseteq enabled, run' = Session(S),
             \A r \in Proving(enabled), s \in S :
                run.pos <= r /\ r <= s => r \in S
      PROVE  EvidInv'
  <2>1. run'.span = S /\ run'.at = "session" /\ run'.pos = run.pos
    BY <1>2, <1>4 DEF Session, RunState
  <2>2. Walked'
    BY <1>1, <2>1 DEF EvidInv, Walked
  <2>3. Spanned'
    BY <1>1, <1>4, <2>1 DEF Spanned
  <2>4. Judged'
    BY <2>1 DEF Judged
  <2>5. QED BY <2>2, <2>3, <2>4 DEF EvidInv
<1>5. CASE RunStageGroup
  <2>1. run.iso = "standard" /\ run' = Session(Runnable)
    BY <1>5 DEF RunStageGroup
  <2>2. \A r \in Proving(enabled), s \in Runnable :
           run.pos <= r /\ r <= s => r \in Runnable
    BY <1>1, <1>3, <2>1, NoGap
  <2>3. QED BY <1>3, <1>4, <2>1, <2>2
<1>6. CASE SkipGroup
  <2>1. run.iso = "standard" /\ Remaining # {} /\ Runnable = {}
    BY <1>6 DEF SkipGroup
  <2>2. Last(Remaining) \in Remaining /\ Last(Remaining) \in Stages
        /\ Last(Remaining) + 1 \in 1..(N + 1)
    <3>1. Remaining \subseteq Stages
      BY <1>3
    <3>2. QED BY <2>1, <3>1, FirstAndLast, NextStage
  <2> DEFINE p == Last(Remaining)
  <2>3. run' = [run EXCEPT !.pos = p + 1, !.at = "group", !.group = @ + 1]
    BY <1>6 DEF SkipGroup
  <2>8. p \in Remaining /\ p \in Stages /\ p + 1 \in 1..(N + 1)
    BY <2>2
  <2> HIDE DEF p
  <2>4. run'.pos = p + 1 /\ run'.at = "group"
    BY <1>2, <2>3 DEF RunState
  <2>5. \A r \in Proving(enabled) : ~(run.pos <= r /\ r <= p)
    BY <1>1, <2>1, <2>8, NoGap
  <2>6. Walked'
    <3>1. SUFFICES ASSUME NEW r \in Proving(enabled), r < stage \/ r < p + 1
                   PROVE  r \in judged
      BY <1>1, <2>4 DEF Walked
    <3>2. r \in Nat /\ p \in Nat /\ run.pos \in Nat
      BY <1>2, <2>8 DEF Proving, Stages
    <3>3. r < stage \/ r < run.pos
      BY <2>5, <3>1, <3>2
    <3>4. QED BY <1>1, <3>3 DEF EvidInv, Walked
  <2>7. QED BY <2>4, <2>6 DEF EvidInv, Spanned, Judged, Busy
<1>7. CASE WalkStage /\ run.pos \notin Group
  <2>1. run' = [run EXCEPT !.at = "group", !.group = @ + 1]
    BY <1>7 DEF WalkStage
  <2>2. run'.at = "group" /\ run'.pos = run.pos
    BY <1>2, <2>1 DEF RunState
  <2>3. QED BY <1>1, <2>2, EvidenceStays DEF Busy
<1>8. CASE WalkStage /\ run.pos \in Group /\ run.pos \notin enabled
  <2>1. run' = [run EXCEPT !.pos = @ + 1]
    BY <1>8 DEF WalkStage
  <2>2. run'.at = "stage" /\ run'.pos = run.pos + 1
    BY <1>1, <1>2, <2>1 DEF RunState
  <2>3. Walked'
    <3>1. SUFFICES ASSUME NEW r \in Proving(enabled), r < stage \/ r < run.pos + 1
                   PROVE  r \in judged
      BY <1>1, <2>2 DEF Walked
    <3>2. r \in Nat /\ run.pos \in Nat /\ r # run.pos
      BY <1>2, <1>8 DEF Proving, Stages
    <3>3. r < stage \/ r < run.pos
      BY <3>1, <3>2
    <3>4. QED BY <1>1, <3>3 DEF EvidInv, Walked
  <2>4. QED BY <2>2, <2>3 DEF EvidInv, Spanned, Judged, Busy
<1>9. CASE WalkStage /\ run.pos \in Group /\ run.pos \in enabled
  <2>1. run' = Session({run.pos})
    BY <1>9 DEF WalkStage
  <2>2. ASSUME NEW r \in Proving(enabled), run.pos <= r, r <= run.pos
        PROVE  r = run.pos
    BY <1>2, <2>2 DEF Proving, Stages
  <2>3. QED BY <1>4, <1>9, <2>1, <2>2
<1>10. QED BY <1>5, <1>6, <1>7, <1>8, <1>9

\* The steps of a session and of its gates.
LEMMA GatesKeepEvidence ==
    ASSUME RunInv, EvidInv,
           \/ SessionFails \/ SessionEnds \/ RecoveryEnds
           \/ Gate \/ GatesOpen \/ RecordStage \/ StageRefused
           \/ CreditStage \/ CreditEnds
    PROVE  EvidInv'
<1> USE DEF record, files, world, ghosts
<1>1. enabled' = enabled /\ judged \subseteq judged' /\ run.at \in Busy
  BY DEF SessionFails, SessionEnds, RecoveryEnds, Gate, GatesOpen, RecordStage,
     StageRefused, CreditStage, CreditEnds, Judge, Busy
<1>2. run \in RunState /\ run.pos \in 1..(N + 1) /\ enabled \subseteq Stages
      /\ N \in Nat /\ run.span \subseteq Stages /\ run.todo \subseteq run.span
      /\ run.span # {} /\ run.span \subseteq enabled /\ stage \in 1..(N + 1)
  BY <1>1, TaskRunAssumption DEF RunInv, TaskTypeOK, RunState, Spanning
\* Up to a stage of the span all stages with a verdict are judged, once those
\* of the span are.
<1>3. ASSUME NEW s \in run.span, NEW r \in Proving(enabled), r < s + 1,
             r \in run.span => r \in judged'
      PROVE  r \in judged'
  <2>1. r \in Nat /\ s \in Nat /\ run.pos \in Nat
    BY <1>2 DEF Proving, Stages
  <2>2. CASE r < run.pos
    BY <1>1, <2>2 DEF EvidInv, Walked, Busy
  <2>3. CASE ~(r < run.pos)
    <3>1. run.pos <= r /\ r <= s
      BY <1>3, <2>1, <2>3
    <3>2. r \in run.span
      BY <1>1, <3>1 DEF EvidInv, Spanned
    <3>3. QED BY <1>3, <3>2
  <2>4. QED BY <2>2, <2>3
<1>4. ASSUME stage' = stage, run'.pos = run.pos, run'.span = run.span,
             run'.at \in Busy, Judged'
      PROVE  EvidInv'
  <2>1. Walked'
    BY <1>1, <1>4 DEF EvidInv, Walked, Busy
  <2>2. Spanned'
    BY <1>1, <1>4 DEF EvidInv, Spanned
  <2>3. QED BY <1>4, <2>1, <2>2 DEF EvidInv
<1>5. ASSUME NEW e, run' = [run EXCEPT !.at = "settle", !.exit = e], stage' = stage
      PROVE  EvidInv'
  <2>1. run'.at = "settle" /\ run'.pos = run.pos
    BY <1>2, <1>5 DEF RunState
  <2>2. QED BY <1>1, <1>5, <2>1, EvidenceStays DEF Busy
<1>6. CASE SessionFails
  <2>1. CASE Cardinality(run.span) > 1
    <3>1. run' = [run EXCEPT !.at = "credit", !.todo = run.span] /\ stage' = stage
      BY <1>6, <2>1 DEF SessionFails
    <3>2. run'.at = "credit" /\ run'.pos = run.pos /\ run'.span = run.span
          /\ run'.todo = run.span
      BY <1>2, <3>1 DEF RunState
    <3>3. QED BY <1>4, <3>1, <3>2 DEF Judged, Busy
  <2>2. CASE ~(Cardinality(run.span) > 1)
    BY <1>5, <1>6, <2>2 DEF SessionFails
  <2>3. QED BY <2>1, <2>2
<1>7. CASE SessionEnds
  <2>1. CASE HasCommits
    <3>1. run' = [run EXCEPT !.at = "gates", !.todo = Proving(run.span)]
          /\ stage' = stage
      BY <1>7, <2>1 DEF SessionEnds
    <3>2. run'.at = "gates" /\ run'.pos = run.pos /\ run'.span = run.span
          /\ run'.todo = Proving(run.span)
      BY <1>2, <3>1 DEF RunState
    <3>3. QED BY <1>4, <3>1, <3>2 DEF Judged, Busy
  <2>2. CASE ~HasCommits
    BY <1>5, <1>7, <2>2 DEF SessionEnds, Fail
  <2>3. QED BY <2>1, <2>2
<1>8. CASE RecoveryEnds
  <2>1. run' = [run EXCEPT !.at = "gates"] /\ stage' = stage /\ run.at = "recovery"
    BY <1>8 DEF RecoveryEnds
  <2>2. run'.at = "gates" /\ run'.pos = run.pos /\ run'.span = run.span
        /\ run'.todo = run.todo
    BY <1>2, <2>1 DEF RunState
  <2>3. Judged'
    BY <1>1, <2>1, <2>2 DEF EvidInv, Judged
  <2>4. QED BY <1>4, <2>1, <2>2, <2>3 DEF Busy
<1>9. CASE Gate
  <2> DEFINE s == First(run.todo)
  <2>1. s \in run.todo /\ s \in run.span /\ run.at = "gates" /\ stage' = stage
    <3>1. run.todo \subseteq Stages /\ run.todo # {}
      BY <1>2, <1>9 DEF Gate
    <3>2. QED BY <1>2, <1>9, <3>1, FirstAndLast DEF Gate
  <2> HIDE DEF s
  <2>2. CASE Passes(EvidenceOf[s])
    <3>1. run' = [run EXCEPT !.todo = @ \ {s}, !.asked = FALSE] /\ Judge(s)
      BY <1>9, <2>2 DEF Gate, s
    <3>2. run'.at = run.at /\ run'.pos = run.pos /\ run'.span = run.span
          /\ run'.todo = run.todo \ {s}
      BY <1>2, <3>1 DEF RunState
    <3>3. EvidenceOf[s] # None => s \in judged'
      BY <2>2, <3>1 DEF Judge, Passes, Proving
    <3>4. Proving(run.span) \ run'.todo \subseteq judged'
      BY <1>1, <2>1, <3>2, <3>3 DEF EvidInv, Judged, Proving
    <3>5. Judged'
      BY <2>1, <3>2, <3>4 DEF Judged
    <3>6. QED BY <1>1, <1>4, <2>1, <3>2, <3>5
  <2>3. CASE ~Passes(EvidenceOf[s])
    <3>1. CASE run' = [run EXCEPT !.at = "recovery", !.asked = TRUE]
      <4>1. run'.at = "recovery" /\ run'.pos = run.pos /\ run'.span = run.span
            /\ run'.todo = run.todo
        BY <1>2, <3>1 DEF RunState
      <4>2. Judged'
        BY <1>1, <2>1, <4>1 DEF EvidInv, Judged
      <4>3. QED BY <1>4, <2>1, <4>1, <4>2 DEF Busy
    <3>2. CASE Fail(1)
      BY <1>5, <2>1, <3>2 DEF Fail
    <3>3. QED BY <1>9, <2>3, <3>1, <3>2 DEF Gate, s
  <2>4. QED BY <2>2, <2>3
<1>10. CASE GatesOpen
  <2>1. run' = [run EXCEPT !.at = "record"] /\ stage' = stage /\ run.at = "gates"
        /\ run.todo = {}
    BY <1>10 DEF GatesOpen
  <2>2. run'.at = "record" /\ run'.pos = run.pos /\ run'.span = run.span
    BY <1>2, <2>1 DEF RunState
  <2>3. Judged'
    BY <1>1, <2>1, <2>2 DEF EvidInv, Judged
  <2>4. QED BY <1>4, <2>1, <2>2, <2>3 DEF Busy
<1>11. CASE RecordStage
  <2> DEFINE t == Last(run.span)
  <2>1. t \in run.span /\ run.at = "record"
    BY <1>2, <1>11, FirstAndLast DEF RecordStage
  <2>2. stage' = t + 1
    BY <1>11 DEF RecordStage, SetStage
  <2>3. run'.pos = t + 1 /\ run'.at \in {"group", "stage"}
    BY <1>2, <1>11 DEF RecordStage, RunState
  <2> HIDE DEF t
  <2>4. Proving(run.span) \subseteq judged'
    BY <1>1, <2>1 DEF EvidInv, Judged
  <2>5. \A r \in Proving(enabled) : r < t + 1 => r \in judged'
    BY <1>3, <2>1, <2>4 DEF Proving
  <2>6. Walked'
    BY <1>1, <2>2, <2>3, <2>5 DEF Walked
  <2>7. QED BY <2>3, <2>6 DEF EvidInv, Spanned, Judged, Busy
<1>12. CASE StageRefused
  BY <1>5, <1>12 DEF StageRefused, Fail
<1>13. CASE CreditStage
  <2> DEFINE s == First(run.todo)
  <2>1. s \in run.todo /\ s \in run.span /\ run.at = "credit"
        /\ \A r \in run.todo : s <= r
    <3>1. run.todo \subseteq Stages /\ run.todo # {}
      BY <1>2, <1>13 DEF CreditStage
    <3>2. QED BY <1>2, <1>13, <3>1, FirstAndLast DEF CreditStage
  <2>2. /\ Provable(s) /\ Judge(s) /\ stage' = s + 1
        /\ run' = [run EXCEPT !.todo = @ \ {s}]
    BY <1>13 DEF CreditStage, SetStage
  <2> HIDE DEF s
  <2>3. s \in judged'
    BY <2>2 DEF Provable, Passes, Judge, Proving
  <2>4. run'.at = "credit" /\ run'.pos = run.pos /\ run'.span = run.span
        /\ run'.todo = run.todo \ {s}
    BY <1>2, <2>1, <2>2 DEF RunState
  <2>5. run.span \ run'.todo \subseteq judged'
    BY <1>1, <2>1, <2>3, <2>4 DEF EvidInv, Judged
  <2>6. \A r \in Proving(enabled) : r < s + 1 => r \in judged'
    <3>1. SUFFICES ASSUME NEW r \in Proving(enabled), r < s + 1
                   PROVE  r \in judged'
      OBVIOUS
    <3>2. r \in Nat /\ s \in Nat
      BY <1>2, <2>1 DEF Proving, Stages
    <3>3. r \in run'.todo => FALSE
      BY <2>1, <2>4, <3>1, <3>2
    <3>4. r \in run.span => r \in judged'
      BY <2>5, <3>3
    <3>5. QED BY <1>3, <2>1, <3>1, <3>4
  <2>7. Walked'
    <3>1. \A r \in Proving(enabled) : r < run.pos => r \in judged'
      BY <1>1 DEF EvidInv, Walked, Busy
    <3>2. QED BY <1>1, <2>2, <2>4, <2>6, <3>1 DEF Walked
  <2>8. Spanned'
    BY <1>1, <2>4 DEF EvidInv, Spanned
  <2>9. Judged'
    BY <2>4, <2>5 DEF Judged
  <2>10. QED BY <2>7, <2>8, <2>9 DEF EvidInv
<1>14. CASE CreditEnds
  BY <1>5, <1>14 DEF CreditEnds, Fail
<1>15. QED BY <1>6, <1>7, <1>8, <1>9, <1>10, <1>11, <1>12, <1>13, <1>14

\* The remaining steps of a run.
LEMMA EndsKeepEvidence ==
    ASSUME RunInv, EvidInv,
           \/ StopForShutdown \/ NextGroup \/ NoPlan
           \/ \E mode \in Modes : WalkEnds(mode)
           \/ \E passes \in BOOLEAN : PreCheck(passes)
           \/ \E result \in {"conflict", "guard_refused", "staged"} : Integrate(result)
           \/ \E green \in BOOLEAN : Flush(green)
           \/ SettleChild \/ IntegrateAgain \/ SettleSuccess \/ SettleFailure
           \/ Crash
    PROVE  EvidInv'
<1> USE DEF record, files, world, ghosts
<1>1. UNCHANGED <<stage, enabled, judged>>
  BY DEF StopForShutdown, NextGroup, NoPlan, WalkEnds, PreCheck, Integrate, Flush,
     SettleChild, IntegrateAgain, SettleSuccess, SettleFailure, Crash
<1>2. run \in RunState
  BY DEF RunInv, TaskTypeOK
<1>3. CASE StopForShutdown \/ NextGroup \/ NoPlan
  <2>0. /\ run.at = "group"
        /\ \/ \E e \in {1, 2} : run' = [run EXCEPT !.at = "settle", !.exit = e]
           \/ \E a \in {"ended", "stage"} : run' = [run EXCEPT !.at = a]
           \/ run' = [run EXCEPT !.group = @ + 1]
    BY <1>3 DEF StopForShutdown, NextGroup, NoPlan, Fail
  <2>1. run.at = "group" /\ run'.at \notin Busy /\ run'.pos = run.pos
    BY <1>2, <2>0 DEF RunState, Busy
  <2>2. QED BY <1>1, <2>1, EvidenceStays
<1>4. CASE \E mode \in Modes : WalkEnds(mode)
  <2>0. /\ run.at = "ended"
        /\ \/ run' = [run EXCEPT !.at = "settle", !.exit = 1]
           \/ run' = [run EXCEPT !.ok = TRUE, !.at = "settle"]
           \/ \E mode \in Modes, a \in {"check", "settle"} :
                 run' = [run EXCEPT !.ok = TRUE, !.mode = mode, !.at = a]
    BY <1>4 DEF WalkEnds
  <2>1. run.at = "ended" /\ run'.at \notin Busy /\ run'.pos = run.pos
    BY <1>2, <2>0 DEF RunState, Busy
  <2>2. QED BY <1>1, <2>1, EvidenceStays
<1>5. CASE IntegrateAgain \/ \E passes \in BOOLEAN : PreCheck(passes)
  <2>1. run.at # "off" /\ run'.at \notin Busy /\ run'.pos = run.pos
    <3>1. CASE IntegrateAgain
      BY <1>2, <3>1 DEF IntegrateAgain, RunState, Busy
    <3>2. CASE \E passes \in BOOLEAN : PreCheck(passes)
      <4>1. /\ run.at = "check"
            /\ \E point \in {"locked", "settle"} :
                  run'.at = point /\ run'.pos = run.pos
        BY <1>2, <3>2 DEF PreCheck, IntegrationFails, RunState
      <4>2. QED BY <4>1 DEF Busy
    <3>3. QED BY <1>5, <3>1, <3>2
  <2>2. QED BY <1>1, <2>1, EvidenceStays
\* Integration and the flush change where the run is, and its result.
<1>6. ASSUME run.at \in {"locked", "flush"},
             \/ run' = [run EXCEPT !.at = "flush"]
             \/ run' = [run EXCEPT !.at = "settle", !.tries = @ + 1]
             \/ run' = [run EXCEPT !.at = "settle", !.exit = 1,
                             !.ok = (run.tries = 1), !.tries = @ + 1]
             \/ IntegrationFails
      PROVE  EvidInv'
  <2>1. \/ run' = [run EXCEPT !.at = "flush"]
        \/ run' = [run EXCEPT !.at = "settle", !.tries = @ + 1]
        \/ run' = [run EXCEPT !.at = "settle", !.exit = 1,
                        !.ok = (run.tries = 1), !.tries = @ + 1]
        \/ run' = [run EXCEPT !.at = "settle", !.ok = (run.tries = 1),
                        !.tries = @ + 1,
                        !.exit = IF run.tries = 1 THEN 3 ELSE 1]
    BY <1>6 DEF IntegrationFails
  <2>2. ASSUME run' = [run EXCEPT !.at = "flush"]
        PROVE  run'.at \in {"flush", "settle"} /\ run'.pos = run.pos
    BY <1>2, <2>2 DEF RunState
  <2>3. ASSUME run' = [run EXCEPT !.at = "settle", !.tries = @ + 1]
        PROVE  run'.at \in {"flush", "settle"} /\ run'.pos = run.pos
    BY <1>2, <2>3 DEF RunState
  <2>4. ASSUME run' = [run EXCEPT !.at = "settle", !.exit = 1,
                          !.ok = (run.tries = 1), !.tries = @ + 1]
        PROVE  run'.at \in {"flush", "settle"} /\ run'.pos = run.pos
    BY <1>2, <2>4 DEF RunState
  <2>5. ASSUME run' = [run EXCEPT !.at = "settle", !.ok = (run.tries = 1),
                          !.tries = @ + 1,
                          !.exit = IF run.tries = 1 THEN 3 ELSE 1]
        PROVE  run'.at \in {"flush", "settle"} /\ run'.pos = run.pos
    BY <1>2, <2>5 DEF RunState
  <2>6. run'.at \in {"flush", "settle"} /\ run'.pos = run.pos
    BY <2>1, <2>2, <2>3, <2>4, <2>5
  <2>7. QED BY <1>1, <1>6, <2>6, EvidenceStays DEF Busy
<1>9. CASE \E result \in {"conflict", "guard_refused", "staged"} : Integrate(result)
  <2>1. PICK result \in {"conflict", "guard_refused", "staged"} : Integrate(result)
    BY <1>9
  <2>2. run.at = "locked"
    BY <2>1 DEF Integrate
  <2>3. CASE result = "conflict"
    BY <1>6, <2>1, <2>2, <2>3 DEF Integrate
  <2>4. CASE result = "guard_refused"
    BY <1>6, <2>1, <2>2, <2>4 DEF Integrate
  <2>5. CASE result = "staged"
    BY <1>6, <2>1, <2>2, <2>5 DEF Integrate
  <2>6. QED BY <2>3, <2>4, <2>5
<1>10. CASE \E green \in BOOLEAN : Flush(green)
  BY <1>6, <1>10 DEF Flush
<1>7. CASE SettleChild \/ SettleSuccess \/ SettleFailure \/ Crash
  <2>1. run' = Off
    BY <1>7 DEF SettleChild, SettleSuccess, SettleFailure, Crash, Ends
  <2>2. QED BY <1>1, <2>1, EvidenceStays DEF Off, Busy
<1>8. QED BY <1>3, <1>4, <1>5, <1>7, <1>9, <1>10

\* Every step keeps what is known of the judged stages.
LEMMA EvidInvStep ==
    ASSUME Contiguous, RunInv, EvidInv, [TaskNext]_taskVars
    PROVE  EvidInv'
<1> USE DEF record, files, world, ghosts
<1>1. CASE \E sub \in BOOLEAN, iso \in Isolations : Begin(sub, iso)
  <2>1. PICK sub \in BOOLEAN, iso \in Isolations : Begin(sub, iso)
    BY <1>1
  <2>2. run'.at = "group" /\ run'.pos = stage
    BY <2>1 DEF Begin, Off
  <2>3. UNCHANGED <<stage, enabled, judged>>
    BY <2>1 DEF Begin
  <2>4. Walked'
    BY <2>2, <2>3 DEF EvidInv, Walked
  <2>5. QED BY <2>2, <2>4 DEF EvidInv, Spanned, Judged, Busy
<1>2. CASE \/ Agent \/ Refuse \/ RequestShutdown \/ Seize \/ Yield
           \/ UNCHANGED taskVars
  <2>1. UNCHANGED <<stage, enabled, judged, run>>
    BY <1>2 DEF Agent, Edit, Commit, Submit, WriteByHand, Refuse,
       RequestShutdown, Seize, Yield, taskVars
  <2>2. QED BY <2>1 DEF EvidInv, Walked, Spanned, Judged
<1>3. QED BY <1>1, <1>2, WalkKeepsEvidence, GatesKeepEvidence, EndsKeepEvidence
          DEF TaskNext, Orchestrator

\* Gates fail closed: in a workflow whose session groups are stretches of the
\* pipeline, the record passes no stage with a verdict to leave before a gate
\* has seen a passing one, under every isolation, by its own session, with its
\* group, by recovery or by credit (_require_passing_verdict and
\* _credit_proven_stages of cli/orchestrator.py).
THEOREM EvidenceBeforeProgress ==
    ASSUME Contiguous PROVE TaskSpec => []EvidencedStages
<1>1. TaskInit => EvidInv
  <2>1. ASSUME TaskInit, NEW r \in Proving(enabled) PROVE ~(r < stage)
    BY <2>1, TaskRunAssumption DEF TaskInit, Proving, Stages
  <2>2. TaskInit => run.at = "off"
    BY DEF TaskInit, Off
  <2>3. TaskInit => Walked
    BY <2>1, <2>2 DEF Walked
  <2>4. QED BY <2>2, <2>3 DEF EvidInv, Spanned, Judged, Busy
<1>2. EvidInv => EvidencedStages
  BY DEF EvidInv, Walked, EvidencedStages
<1>3. RunInv /\ EvidInv /\ [TaskNext]_taskVars => EvidInv'
  BY EvidInvStep
<1>4. QED BY <1>1, <1>2, <1>3, RunInvariant, PTL DEF TaskSpec
===============================================================================
