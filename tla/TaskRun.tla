------------------------------ MODULE TaskRun ------------------------------
(***************************************************************************)
(* One task on its way through the stage pipeline: process_task and        *)
(* run_single of src/aet/cli/orchestrator.py, the gates of src/aet/gate.py *)
(* and cli/gate.py, the verdict files of src/aet/evidence.py and the       *)
(* freshness of src/aet/validation.py.                                     *)
(*                                                                         *)
(* A stage is its place in the list of the workflow file; N + 1 is         *)
(* done_state.  An agent session edits the worktree, commits, and submits  *)
(* verdicts, in any order and as often as it likes; the run reads them     *)
(* after the session has ended.  Neither the recorded stage, the verdict   *)
(* files nor the worktree are cleared between two attempts at the task.    *)
(***************************************************************************)
EXTENDS Integers, Sequences, FiniteSets

CONSTANTS
    N,          \* stages of the workflow
    Kind,       \* kinds of evidence
    EvidenceOf, \* EvidenceOf[s]: the verdict stage s must leave, or None
    Skilled,    \* stages that run a session
    Gated,      \* stages a plan may skip by its gate key
    Groups,     \* session_groups of the workflow file, as sets of stages
    Isolations, \* of minimal, standard and full
    Modes,      \* integration modes, of single-pr and pr-per-task
    MaxEdits,   \* bound on edits to the worktree
    CodeOf,     \* CodeOf[v]: the code in the v-th version of the worktree;
                \* versions of the same code differ in documents
    MaxAttempts,        \* bound on runs of the task
    MaxSeizures,        \* bound on runs that take the queue by force
    None

Stages == 1..N

ASSUME TaskRunAssumption ==
    /\ N \in Nat \ {0}
    /\ EvidenceOf \in [Stages -> Kind \cup {None}] /\ None \notin Kind
    /\ Skilled \subseteq Stages /\ Gated \subseteq Stages
    /\ Groups \in Seq(SUBSET Skilled)
    /\ Isolations \subseteq {"minimal", "standard", "full"}
    /\ Modes \subseteq {"single-pr", "pr-per-task"}
    /\ {MaxEdits, MaxAttempts, MaxSeizures} \subseteq Nat
    /\ CodeOf \in [0..MaxEdits -> Nat] /\ None \notin Nat
    /\ "qa" \in Kind

VARIABLES
    state, stage,   \* the record of the task on the board
    verdict,        \* verdict[k]: the file at the evidence path of kind k
    qaTree,         \* tree_hash of the qa verdict
    work, head,     \* the worktree, and the last commit on its branch
    run,            \* the run at the task
    enabled,        \* stages the frontmatter of the plan does not skip
    held,           \* does another run hold the lease on the queue
    stopping,       \* _shutdown_requested
    attempts, seizures,
    judged,         \* history: stages whose gate saw a passing verdict
    tested,         \* history: versions of the code that passed the tests
    staged,         \* history: what integrate() put on the train
    excused         \* history: did this run end by a crash, was a write of its
                    \* refused, or its task sent back by the second integrate()

record == <<state, stage>>
files == <<verdict, qaTree, work, head>>
world == <<enabled, held, stopping, attempts, seizures>>
ghosts == <<judged, tested, staged, excused>>
taskVars == <<record, files, run, world, ghosts>>

States == {"ready", "in_progress", "awaiting_merge", "merged", "failed"}
Points == {"off", "group", "stage", "session", "gates", "recovery", "record",
           "credit", "ended", "check", "locked", "flush", "settle"}
\* "malformed": says pass, and does not match its schema.
Verdicts == {"none", "pass", "fail", "malformed"}
Tree == 0..MaxEdits
Base == 0

Off == [at |-> "off", child |-> FALSE, mode |-> "none", iso |-> "none",
        group |-> 1, pos |-> 1, span |-> {}, todo |-> {}, asked |-> FALSE,
        invoked |-> FALSE, tries |-> 0, ok |-> FALSE, exit |-> 0]

RunState == [at : Points, child : BOOLEAN, mode : Modes \cup {"none"},
             iso : Isolations \cup {"none"}, group : Nat \ {0}, pos : 1..(N + 1),
             span : SUBSET Stages, todo : SUBSET Stages, asked : BOOLEAN,
             invoked : BOOLEAN, tries : 0..2, ok : BOOLEAN,
             exit : {0, 1, 2, 3, 75}]

TaskTypeOK ==
    /\ state \in States /\ stage \in 1..(N + 1)
    /\ verdict \in [Kind -> Verdicts]
    /\ qaTree \in Tree \cup {None}
    /\ work \in Tree /\ head \in Tree
    /\ run \in RunState /\ run.todo \subseteq run.span
    /\ enabled \subseteq Stages
    /\ held \in BOOLEAN /\ stopping \in BOOLEAN /\ excused \in BOOLEAN
    /\ attempts \in 0..MaxAttempts /\ seizures \in 0..MaxSeizures
    /\ judged \subseteq Stages /\ tested \subseteq Nat
    /\ staged \in [code : Nat, clean : BOOLEAN] \cup {None}

TaskInit ==
    /\ state = "ready" /\ stage = 1
    /\ verdict = [k \in Kind |-> "none"] /\ qaTree = None
    /\ work = Base /\ head = Base
    /\ run = Off
    /\ \E skipped \in SUBSET Gated : enabled = Stages \ skipped
    /\ held = FALSE /\ stopping = FALSE
    /\ attempts = 0 /\ seizures = 0
    /\ judged = {} /\ tested = {} /\ staged = None /\ excused = FALSE

-----------------------------------------------------------------------------
(* The workflow                                                            *)

First(S) == CHOOSE s \in S : \A r \in S : s <= r
Last(S) == CHOOSE s \in S : \A r \in S : s >= r

\* Workflow.session_groups; a group is a set, its order that of the list.
GroupsOf(iso) ==
    CASE iso = "minimal" -> <<Skilled>>
      [] iso = "full" ->
            [i \in 1..Cardinality(Skilled) |->
                {s \in Skilled : Cardinality({r \in Skilled : r <= s}) = i}]
      [] OTHER -> Groups
Group == GroupsOf(run.iso)[run.group]

Remaining == {s \in Group : s >= run.pos}
Runnable == Remaining \cap enabled
Proving(S) == {s \in S : EvidenceOf[s] # None}

\* rev-list main..HEAD: has the branch commits of its own.
HasCommits == head # Base

-----------------------------------------------------------------------------
(* The start of a run                                                      *)

\* The task is claimed: `aet state transition` by run_single, or by the
\* parent of a batch child.  A top-level run goes on when this fails.
Claim(booked) ==
    IF booked THEN state' = "in_progress" /\ excused' = FALSE
    ELSE state' = state /\ excused' = TRUE

\* get_current_stage: a run takes the task up at the recorded stage.
Begin(child, iso) ==
    /\ run.at = "off" /\ attempts < MaxAttempts
    /\ state # "merged" /\ staged = None
    /\ ~held
    /\ \E booked \in BOOLEAN :
        /\ (child \/ seizures = MaxSeizures) => booked
        /\ Claim(booked)
    /\ run' = [Off EXCEPT !.at = "group", !.child = child, !.iso = iso,
                          !.pos = stage]
    /\ attempts' = attempts + 1
    /\ stopping' = FALSE
    /\ UNCHANGED <<stage, files, enabled, held, seizures, judged, tested,
                   staged>>

\* Intake, base hygiene, the workflow file, the lease of another run, the epic
\* of the task (exit 1) or its worktree (4) turn the run away at the door.
Refuse ==
    /\ run.at = "off" /\ attempts < MaxAttempts
    /\ attempts' = attempts + 1
    /\ UNCHANGED <<record, files, run, enabled, held, stopping, seizures,
                   ghosts>>

\* The plan is missing from the worktree.
NoPlan ==
    /\ run.at = "group" /\ run.group = 1 /\ ~run.invoked
    /\ run' = [run EXCEPT !.at = "settle", !.exit = 2]
    /\ UNCHANGED <<record, files, world, ghosts>>

-----------------------------------------------------------------------------
(* The walk over the session groups                                        *)

Fail(exit) == run' = [run EXCEPT !.at = "settle", !.exit = exit]

StopForShutdown ==
    /\ run.at = "group" /\ stopping
    /\ run.group <= Len(GroupsOf(run.iso))
    /\ Fail(1)
    /\ UNCHANGED <<record, files, world, ghosts>>

\* The next group that holds the current stage.
NextGroup ==
    /\ run.at = "group"
    /\ IF run.group > Len(GroupsOf(run.iso))
       THEN run' = [run EXCEPT !.at = "ended"]
       ELSE /\ ~stopping
            /\ run' = IF run.pos \in Group
                      THEN [run EXCEPT !.at = "stage"]
                      ELSE [run EXCEPT !.group = @ + 1]
    /\ UNCHANGED <<record, files, world, ghosts>>

Session(span) ==
    [run EXCEPT !.at = "session", !.span = span, !.todo = {}, !.asked = FALSE,
                !.invoked = TRUE]

\* Under standard isolation all that is left of the group is one session.
RunStageGroup ==
    /\ run.at = "stage" /\ run.iso = "standard"
    /\ Cardinality(Runnable) > 1
    /\ run' = Session(Runnable)
    /\ UNCHANGED <<record, files, world, ghosts>>

\* Nothing of the group is left to run.
SkipGroup ==
    /\ run.at = "stage" /\ run.iso = "standard"
    /\ Remaining # {} /\ Runnable = {}
    /\ run' = [run EXCEPT !.pos = Last(Remaining) + 1,
                          !.at = "group", !.group = @ + 1]
    /\ UNCHANGED <<record, files, world, ghosts>>

\* Otherwise stage by stage, until the current one has left the group.
WalkStage ==
    /\ run.at = "stage"
    /\ run.iso = "standard" => Cardinality(Runnable) = 1 \/ Remaining = {}
    /\ run' = IF run.pos \notin Group
              THEN [run EXCEPT !.at = "group", !.group = @ + 1]
              ELSE IF run.pos \notin enabled
              THEN [run EXCEPT !.pos = @ + 1]
              ELSE Session({run.pos})
    /\ UNCHANGED <<record, files, world, ghosts>>

-----------------------------------------------------------------------------
(* What an agent session does                                              *)

InSession == run.at \in {"session", "recovery"}

Edit ==
    /\ InSession
    /\ work < MaxEdits
    /\ work' = work + 1
    /\ UNCHANGED <<record, verdict, qaTree, head, run, world, ghosts>>

Commit ==
    /\ InSession
    /\ head' = work
    /\ UNCHANGED <<record, verdict, qaTree, work, run, world, ghosts>>

\* `aet gate submit` in a session.  It writes to AET_EVIDENCE_PATH when that
\* is set, as it is for one stage with evidence and for a recovery, and to the
\* path of the kind otherwise.  The tree it stamps is that of AET_WORKTREE; the
\* recovery session of a top-level run has none, and the tree is that of the
\* main checkout.
Submits ==
    IF run.at = "recovery" THEN {EvidenceOf[First(run.todo)]}
    ELSE IF Cardinality(run.span) = 1 /\ Proving(run.span) = run.span
    THEN {EvidenceOf[s] : s \in run.span}
    ELSE Kind
StampedTree == IF run.at = "recovery" /\ ~run.child THEN Base ELSE work

\* write_verdict replaces the file of the kind.
Written(k, v) == verdict' = [verdict EXCEPT ![k] = v]

Submit(k, v) ==
    /\ InSession /\ k \in Submits
    /\ Written(k, v)
    /\ IF k = "qa"
       THEN /\ qaTree' = StampedTree
            /\ tested' = IF v = "pass" THEN tested \cup {CodeOf[work]} ELSE tested
       ELSE UNCHANGED <<qaTree, tested>>
    /\ UNCHANGED <<record, work, head, run, world, judged, staged, excused>>

\* A verdict file written without the command, to a path the session was given.
WriteByHand(k) ==
    /\ InSession
    /\ k \in Submits \cap {EvidenceOf[s] : s \in run.span}
    /\ verdict' = [verdict EXCEPT ![k] = "malformed"]
    /\ qaTree' = IF k = "qa" THEN None ELSE qaTree
    /\ UNCHANGED <<record, work, head, run, world, ghosts>>

-----------------------------------------------------------------------------
(* After a session                                                         *)

\* It failed, or the watchdog or a signal killed it.
SessionFails ==
    /\ run.at = "session"
    /\ run' = IF Cardinality(run.span) > 1
              THEN [run EXCEPT !.at = "credit", !.todo = run.span]
              ELSE [run EXCEPT !.at = "settle", !.exit = 1]
    /\ UNCHANGED <<record, files, world, ghosts>>

SessionEnds ==
    /\ run.at = "session"
    /\ IF HasCommits
       THEN run' = [run EXCEPT !.at = "gates", !.todo = Proving(run.span)]
       ELSE Fail(1)
    /\ UNCHANGED <<record, files, world, ghosts>>

\* _verdict_state
PassesUnchecked(k) == verdict[k] \in {"pass", "malformed"}
Passes(k) == verdict[k] = "pass"
Judge(s) ==
    judged' = judged \cup {r \in Proving({s}) : verdict[EvidenceOf[r]] = "pass"}

\* _require_passing_verdict, one stage after the other; for a missing verdict
\* one more session is asked, once.
AskAlways == TRUE
AskAgain == ~run.asked

Gate ==
    /\ run.at = "gates" /\ run.todo # {}
    /\ LET s == First(run.todo)
           k == EvidenceOf[s]
       IN IF Passes(k)
          THEN /\ run' = [run EXCEPT !.todo = @ \ {s}, !.asked = FALSE]
               /\ Judge(s)
          ELSE /\ IF verdict[k] = "none" /\ AskAgain
                  THEN run' = [run EXCEPT !.at = "recovery", !.asked = TRUE]
                  ELSE Fail(1)
               /\ UNCHANGED judged
    /\ UNCHANGED <<record, files, world, tested, staged, excused>>

GatesOpen ==
    /\ run.at = "gates" /\ run.todo = {}
    /\ run' = [run EXCEPT !.at = "record"]
    /\ UNCHANGED <<record, files, world, ghosts>>

\* Whatever the exit code of the recovery session, the file is read again.
RecoveryEnds ==
    /\ run.at = "recovery"
    /\ run' = [run EXCEPT !.at = "gates"]
    /\ UNCHANGED <<record, files, world, ghosts>>

\* `aet state set-stage` refuses while another run has the lease, and for a
\* task that is not in progress.
SetStage(target) ==
    /\ ~held /\ state = "in_progress"
    /\ stage' = target

RecordStage ==
    /\ run.at = "record"
    /\ LET target == Last(run.span) + 1 IN
        /\ SetStage(target)
        /\ run' = [run EXCEPT !.pos = target,
                        !.at = IF Cardinality(run.span) > 1 THEN "group"
                               ELSE "stage",
                        !.group = IF Cardinality(run.span) > 1 THEN @ + 1
                                  ELSE @]
    /\ UNCHANGED <<state, files, world, ghosts>>

\* A refused lease ends the task with its own exit code, anything else as a
\* failure of the stage.
StageRefused ==
    /\ run.at = "record"
    /\ held \/ state # "in_progress"
    /\ Fail(IF held THEN 75 ELSE 1)
    /\ excused' = (excused \/ held)
    /\ UNCHANGED <<record, files, world, judged, tested, staged>>

\* A group that failed keeps the stages it has proved, up to the first that
\* has no passing verdict.
Provable(s) == EvidenceOf[s] # None /\ Passes(EvidenceOf[s])

CreditStage ==
    /\ run.at = "credit" /\ run.todo # {}
    /\ LET s == First(run.todo) IN
        /\ Provable(s)
        /\ SetStage(s + 1)
        /\ Judge(s)
        /\ run' = [run EXCEPT !.todo = @ \ {s}]
    /\ UNCHANGED <<state, files, world, tested, staged, excused>>

CreditEnds ==
    /\ run.at = "credit"
    /\ \/ held \/ state # "in_progress"
       \/ \A s \in run.todo : s = First(run.todo) => ~Provable(s)
    /\ LET refused == held /\ \E s \in run.todo : s = First(run.todo) /\ Provable(s)
       IN /\ Fail(IF refused THEN 75 ELSE 1)
          /\ excused' = (excused \/ refused)
    /\ UNCHANGED <<record, files, world, judged, tested, staged>>

-----------------------------------------------------------------------------
(* The end of the walk, and integration in single-pr mode                  *)

\* The integration mode is that of the configuration, and matters from here
\* on; a batch child leaves integration to its parent.
WalkEnds(mode) ==
    /\ run.at = "ended"
    /\ run' = IF ~run.invoked /\ ~HasCommits
              THEN [run EXCEPT !.at = "settle", !.exit = 1]
              ELSE IF run.child
              THEN [run EXCEPT !.ok = TRUE, !.at = "settle"]
              ELSE [run EXCEPT !.ok = TRUE, !.mode = mode, !.at =
                        IF mode = "single-pr" THEN "check" ELSE "settle"]
    /\ UNCHANGED <<record, files, world, ghosts>>

\* validation_freshness of the qa verdict against the worktree.
AnyTree(a, b) == TRUE
SameTree(a, b) == a = b
Freshness ==
    IF verdict["qa"] \notin {"pass", "malformed"} \/ qaTree = None THEN "run"
    ELSE IF SameTree(qaTree, work) THEN "skip"
    ELSE IF CodeOf[qaTree] = CodeOf[work] THEN "lint"
    ELSE "run"

\* `aet state transition`, when the queue is not held and the move is legal.
Moves(from, to) == ~held /\ state = from
\* The task waits for an operator, with the conflict on its record.
StageConflict ==
    IF state = "awaiting_merge" THEN UNCHANGED <<state, excused>>
    ELSE IF Moves("in_progress", "awaiting_merge")
    THEN state' = "awaiting_merge" /\ UNCHANGED excused
    ELSE excused' = TRUE /\ UNCHANGED state

\* The checks before the lock; what they leave in the worktree, and what was
\* never committed, is removed.
PreCheck(passes) ==
    /\ run.at = "check"
    /\ Freshness = "skip" => passes
    /\ tested' = IF passes /\ Freshness = "run"
                 THEN tested \cup {CodeOf[work]} ELSE tested
    /\ IF passes
       THEN /\ staged' = [code |-> CodeOf[head],
                         clean |-> CodeOf[work] = CodeOf[head]]
            /\ work' = head
            /\ run' = [run EXCEPT !.at = "locked"]
            /\ UNCHANGED <<state, excused>>
       ELSE /\ StageConflict
            /\ run' = [run EXCEPT !.at = "settle", !.tries = @ + 1]
            /\ UNCHANGED <<work, staged>>
    /\ UNCHANGED <<stage, verdict, qaTree, head, world, judged>>

\* check_task_evidence reads the field of the verdict, not its schema.
Evidenced == \A s \in Proving(enabled) : PassesUnchecked(EvidenceOf[s])

\* _mark_integration_failure, or the same from run_single (exit 3).
IntegrationFails ==
    /\ IF state \in {"in_progress", "ready"} /\ ~held
       THEN state' = "failed" /\ UNCHANGED excused
       ELSE UNCHANGED state /\ excused' = (excused \/ held)
    /\ run' = [run EXCEPT !.at = "settle", !.ok = (run.tries = 1),
                          !.tries = @ + 1,
                          !.exit = IF run.tries = 1 THEN 3 ELSE 1]

\* _handle_guard_refused: the task is put back to in_progress to be split, by
\* a write that asks neither for its state nor for the lease.  A first
\* integrate() has failed the run, which settles it; the second has nothing
\* behind it that would.
SendBack ==
    /\ state' = "in_progress"
    /\ excused' = (excused \/ run.tries = 1)

\* Rebase onto the train, guards, evidence, and the train moves; the worktree
\* and the branch are removed.
Integrate(result) ==
    /\ run.at = "locked"
    /\ CASE result = "conflict" ->
                /\ StageConflict
                /\ run' = [run EXCEPT !.at = "settle", !.tries = @ + 1]
                /\ staged' = None
         [] result = "guard_refused" ->
                /\ SendBack
                /\ run' = [run EXCEPT !.at = "settle", !.exit = 1,
                                !.ok = (run.tries = 1), !.tries = @ + 1]
                /\ staged' = None
         [] result = "staged" /\ ~Evidenced ->
                /\ IntegrationFails /\ staged' = None
         [] result = "staged" /\ Evidenced ->
                IF Moves("in_progress", "awaiting_merge") \/ state = "awaiting_merge"
                THEN /\ state' = "awaiting_merge"
                     /\ run' = [run EXCEPT !.at = "flush"]
                     /\ UNCHANGED <<staged, excused>>
                ELSE IntegrationFails /\ UNCHANGED staged
    /\ UNCHANGED <<stage, files, world, judged, tested>>

Flush(green) ==
    /\ run.at = "flush"
    /\ IF green
       THEN /\ state' = "merged"
            /\ run' = [run EXCEPT !.at = "settle", !.tries = @ + 1]
            /\ UNCHANGED excused
       ELSE IntegrationFails
    /\ UNCHANGED <<stage, files, world, judged, tested, staged>>

-----------------------------------------------------------------------------
(* The end of run_single                                                   *)

Ends == run' = Off

\* A batch child leaves its task to the parent.
SettleChild ==
    /\ run.at = "settle" /\ run.child
    /\ Ends
    /\ state' = IF state = "in_progress" /\ ~held
                THEN IF run.ok THEN "awaiting_merge"
                     ELSE IF stopping THEN "ready" ELSE "failed"
                ELSE state
    /\ excused' = (excused \/ held)
    /\ UNCHANGED <<stage, files, world, judged, tested, staged>>

\* The task is not merged yet, and integrate() is called once more.
IntegrateAgain ==
    /\ run.at = "settle" /\ ~run.child /\ run.ok
    /\ run.mode = "single-pr" /\ run.tries = 1 /\ state # "merged"
    /\ run' = [run EXCEPT !.at = "check"]
    /\ UNCHANGED <<record, files, world, ghosts>>

SettleSuccess ==
    /\ run.at = "settle" /\ ~run.child /\ run.ok
    /\ run.mode = "single-pr" => run.tries = 2 \/ state = "merged"
    /\ IF run.mode = "pr-per-task" /\ state \in {"in_progress", "ready"}
       THEN IF ~HasCommits
            THEN /\ state' = IF held THEN state ELSE "failed"
                 /\ excused' = (excused \/ held)
                 /\ Ends
            ELSE /\ Ends
                 /\ IF Moves("in_progress", "awaiting_merge")
                    THEN state' = "awaiting_merge" /\ UNCHANGED excused
                    ELSE excused' = TRUE /\ UNCHANGED state
       ELSE Ends /\ UNCHANGED <<state, excused>>
    /\ UNCHANGED <<stage, files, world, judged, tested, staged>>

\* Whatever stopped the run, the task goes back to ready on a shutdown, and
\* is marked failed otherwise; the move is refused while another run has the
\* queue, and for a task that waits for its merge.
FailedOrLeft == IF stopping THEN "in_progress" ELSE "failed"
FailedTo == IF stopping THEN "ready" ELSE "failed"
SettleFailure ==
    /\ run.at = "settle" /\ ~run.child /\ ~run.ok
    /\ Ends
    /\ state' = IF ~held /\ state \in {"ready", "in_progress"}
                THEN FailedTo ELSE state
    /\ excused' = (excused \/ held)
    /\ UNCHANGED <<stage, files, world, judged, tested, staged>>

-----------------------------------------------------------------------------
(* The surroundings                                                        *)

RequestShutdown ==
    /\ run.at # "off" /\ ~stopping
    /\ stopping' = TRUE
    /\ UNCHANGED <<record, files, run, enabled, held, attempts, seizures,
                   ghosts>>

Crash ==
    /\ run.at # "off"
    /\ run' = Off /\ excused' = TRUE
    /\ staged' = IF state \in {"awaiting_merge", "merged"} THEN staged ELSE None
    /\ UNCHANGED <<record, files, world, judged, tested>>

\* Another run takes the lease with --force, and ends some time later.
Seize ==
    /\ ~held /\ seizures < MaxSeizures
    /\ held' = TRUE /\ seizures' = seizures + 1
    /\ UNCHANGED <<record, files, run, enabled, stopping, attempts, ghosts>>

Yield ==
    /\ held /\ held' = FALSE
    /\ UNCHANGED <<record, files, run, enabled, stopping, attempts, seizures,
                   ghosts>>

Agent ==
    \/ Edit \/ Commit
    \/ \E k \in Kind :
        \/ \E v \in {"pass", "fail"} : Submit(k, v)
        \/ WriteByHand(k)

\* The steps of the run itself, and the end of a session, which the stall
\* watchdog and the wall-clock backstop see to.
Orchestrator ==
    \/ StopForShutdown \/ NextGroup \/ RunStageGroup \/ SkipGroup \/ WalkStage
    \/ SessionFails \/ SessionEnds \/ RecoveryEnds
    \/ Gate \/ GatesOpen \/ RecordStage \/ StageRefused
    \/ CreditStage \/ CreditEnds
    \/ \E mode \in Modes : WalkEnds(mode)
    \/ \E passes \in BOOLEAN : PreCheck(passes)
    \/ \E result \in {"conflict", "guard_refused", "staged"} : Integrate(result)
    \/ \E green \in BOOLEAN : Flush(green)
    \/ SettleChild \/ IntegrateAgain \/ SettleSuccess \/ SettleFailure

TaskNext ==
    \/ \E child \in BOOLEAN, iso \in Isolations : Begin(child, iso)
    \/ Refuse \/ NoPlan
    \/ Orchestrator
    \/ Agent
    \/ RequestShutdown \/ Crash \/ Seize \/ Yield

TaskSpec == TaskInit /\ [][TaskNext]_taskVars /\ WF_taskVars(Orchestrator)
-----------------------------------------------------------------------------
(* Properties                                                              *)

\* Fail-closed gates (orchestrator.py, _require_passing_verdict and
\* _credit_proven_stages): whatever path the record took past a stage that
\* has to leave a verdict, by its own session, with its group, by recovery,
\* or credited after a failure, in this attempt or an earlier one, a gate has
\* seen a passing verdict of it.
EvidencedStages ==
    \A s \in Proving(enabled) : s < stage => s \in judged

\* pre_integration_check: the code that goes on the train is that of the base
\* or passed the tests, in a qa session or by validate_command, although sessions
\* after qa may edit, documents may change without a test run, and verdicts
\* of earlier attempts are still on file.  Edits that were never committed
\* are dropped after the check: then what is staged differs from what was
\* checked, and only the flush tests it.
StagedCodeTested ==
    staged # None /\ staged.clean => staged.code \in tested \cup {CodeOf[Base]}

\* run_single leaves no task in progress behind, however it ends, unless it
\* crashed, another run had the queue when it settled, or its second
\* integrate() was refused by a guard and sent the task back to be split.
NoTaskLeftRunning ==
    run.at = "off" /\ state = "in_progress" => excused

\* A run ends, whatever its sessions do.
RunEnds == run.at # "off" ~> run.at = "off"
=============================================================================
