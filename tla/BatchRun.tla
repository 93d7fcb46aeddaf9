------------------------------ MODULE BatchRun ------------------------------
(***************************************************************************)
(* The batch loop of the orchestrator (src/aet/cli/orchestrator.py,        *)
(* run_batch): it starts a child process for each ready task, polls them,  *)
(* integrates or fails what ended, requeues or quarantines the failures,   *)
(* flushes the merge train when nothing else can advance, and stops.       *)
(*                                                                         *)
(* The run changes states through `aet state transition`, a subprocess     *)
(* that fetches the board from origin, checks, writes under queue_lock and *)
(* pushes.  `here` is the board in this clone, `there` the one on origin:  *)
(* what could not be pushed is lost with the next fetch, and a run on      *)
(* another clone may have claimed a task this one still sees as ready.     *)
(***************************************************************************)
EXTENDS Integers, FiniteSets

CONSTANTS
    Task,           \* tasks of the board
    Blockers,       \* Blockers[t]: the tasks t waits for
    Place,          \* Place[t]: where t stands in the queue
    Signature,      \* failure signatures
    MaxJobs,        \* --max-jobs
    BreakerThreshold,   \* PER_TASK_BREAKER_THRESHOLD
    AttemptCap,         \* MAX_TASK_ATTEMPTS_PER_RUN
    SystemicThreshold,  \* SYSTEMIC_BREAKER_THRESHOLD
    Modes,          \* integration modes, of single-pr and pr-per-task
    Policies,       \* --on-failure, of triage, continue and halt
    MaxFaults,      \* bound on calls that do not reach origin, and on tasks
                    \* claimed by runs on other clones, together
    None            \* no task

ASSUME BatchAssumption ==
    /\ Blockers \in [Task -> SUBSET Task]
    /\ Place \in [Task -> Nat]
    /\ {MaxJobs, BreakerThreshold, AttemptCap, SystemicThreshold}
            \subseteq Nat \ {0}
    /\ Modes \subseteq {"single-pr", "pr-per-task"}
    /\ Policies \subseteq {"triage", "continue", "halt"}
    /\ MaxFaults \in Nat
    /\ None \notin Task

VARIABLES
    here,       \* the records of the board in this clone
    there,      \* the records on origin
    queueLock,  \* may another process take queue_lock
    child,      \* child[t]: none, working, or how its process ended
    at,         \* where the run stands, and with which task
    policy,     \* integration mode and --on-failure of the run
    stop,       \* stop_spawn
    shutdown,   \* _shutdown_requested
    systemic,   \* systemic_tally: per signature, the tasks that failed with it
    attempts,   \* attempt_counts
    report,     \* end_state, the outcome the run summary counts
    starts,     \* child processes started for each task
    lost,       \* calls that did not reach origin so far
    claims,     \* claims made on other clones so far
    cut         \* did an exception end the loop

board == <<here, there, lost>>
loop == <<policy, stop, shutdown, systemic, attempts, report, starts, cut>>
vars == <<board, queueLock, child, at, loop, claims>>

States == {"blocked", "ready", "in_progress", "awaiting_merge", "merged",
           "failed", "quarantined"}
Classes == {"none", "ordinary", "timeout", "throttled"}
Exits == {"ok", "error", "no_plan", "killed"}
Points == {"pass", "pick", "open", "seal", "poll", "settle", "unstaged",
           "failing", "locked", "route", "break", "capped", "quarantine",
           "requeue", "tally", "ending", "over"}
\* What follows once a task is marked failed, or a flush has sealed.
Continuations == {"spawn", "halted", "left", "route", "pick", "idle"}

Record == [state : States, train : BOOLEAN, class : Classes,
           count : [Signature -> Nat]]

TypeOK ==
    /\ here \in [Task -> Record] /\ there \in [Task -> Record]
    /\ queueLock \in BOOLEAN
    /\ child \in [Task -> {"none", "working"} \cup Exits]
    /\ at \in [pc : Points, task : Task \cup {None}, from : States,
               then : Continuations, exit : Exits, ids : SUBSET Task]
    /\ policy \in [mode : Modes, onFailure : Policies]
    /\ {stop, shutdown, cut} \subseteq BOOLEAN
    /\ systemic \in [Signature -> SUBSET Task]
    /\ attempts \in [Task -> 0..AttemptCap]
    /\ report \in [Task -> {"none", "succeeded", "failed", "requeued"}]
    /\ starts \in [Task -> Nat]
    /\ lost \in Nat /\ claims \in Nat /\ lost + claims <= MaxFaults

Outset == [pc |-> "pass", task |-> None, from |-> "ready", then |-> "spawn",
           exit |-> "ok", ids |-> {}]

Init ==
    /\ here = [t \in Task |->
                [state |-> IF Blockers[t] = {} THEN "ready" ELSE "blocked",
                 train |-> FALSE, class |-> "none",
                 count |-> [s \in Signature |-> 0]]]
    /\ there = here
    /\ queueLock = TRUE
    /\ child = [t \in Task |-> "none"]
    /\ at = Outset
    /\ policy \in [mode : Modes, onFailure : Policies]
    /\ stop = FALSE /\ shutdown = FALSE /\ cut = FALSE
    /\ systemic = [s \in Signature |-> {}]
    /\ attempts = [t \in Task |-> 0]
    /\ report = [t \in Task |-> "none"]
    /\ starts = [t \in Task |-> 0]
    /\ lost = 0 /\ claims = 0

-----------------------------------------------------------------------------
(* The board and its replication.                                          *)

\* LEGAL_TRANSITIONS, for the moves the run asks for.
Legal == {<<"ready", "in_progress">>, <<"ready", "failed">>,
          <<"in_progress", "ready">>, <<"in_progress", "awaiting_merge">>,
          <<"in_progress", "failed">>, <<"in_progress", "quarantined">>,
          <<"failed", "ready">>, <<"failed", "quarantined">>,
          <<"awaiting_merge", "merged">>}

\* How far a command gets: origin can be reached, read only, or not at all.
\* A fetch takes the records of origin, but what was settled here stays so.
Link == {"up"} \cup IF lost + claims < MaxFaults THEN {"read_only", "down"} ELSE {}
Fetched(link) ==
    [t \in Task |-> IF link = "down" \/ here[t].state = "merged"
                   THEN here[t] ELSE there[t]]

\* The record writes of a command: every ref is pushed, forced.
Write(link, records) ==
    /\ here' = records
    /\ there' = IF link = "up" THEN records ELSE there
    /\ lost' = IF link = "up" THEN lost ELSE lost + 1

\* A command that is refused has fetched, and pushes nothing.
Refuse(link) ==
    /\ here' = Fetched(link)
    /\ UNCHANGED <<there, lost>>

\* Settling a task releases those that waited for nothing else.
Settled(records, t) == records[t].state = "merged"
Move(records, t, s) ==
    LET moved == [records EXCEPT ![t].state = s]
        Released(u) == /\ s = "merged" /\ t \in Blockers[u]
                       /\ moved[u].state = "blocked"
                       /\ \A b \in Blockers[u] : Settled(moved, b)
    IN  [u \in Task |-> IF Released(u) THEN [moved[u] EXCEPT !.state = "ready"]
                                       ELSE moved[u]]

\* `aet state transition t from to`: waits for queue_lock.
Accepts(link, t, from, to) ==
    Fetched(link)[t].state = from /\ <<from, to>> \in Legal
Transition(link, t, from, to) ==
    /\ queueLock
    /\ Accepts(link, t, from, to)
    /\ Write(link, Move(Fetched(link), t, to))
Refused(link, t, from, to) ==
    /\ queueLock
    /\ ~Accepts(link, t, from, to)
    /\ Refuse(link)

\* _record_failure_on_task: a throttled failure is recorded, not counted.
Recorded(records, t, class, s) ==
    [records EXCEPT ![t].class = class,
                    ![t].count[s] = IF class = "throttled" THEN @ ELSE @ + 1]

-----------------------------------------------------------------------------
(* What the loop looks at.                                                 *)

Running == {t \in Task : child[t] # "none"}
Ready == {t \in Task : here[t].state = "ready"}

\* has_actionable_tasks: a task in progress counts only with a live worker.
ActionableByState ==
    Ready \cup {t \in Task : here[t].state = "in_progress"}
Actionable == Ready \cup {t \in Running : here[t].state = "in_progress"}

\* _get_staged_branches: what waits on the merge train.
Staged == {t \in Task : here[t].state = "awaiting_merge" /\ here[t].train}

\* _branches_to_flush_for_blocked_tasks: only staged tasks hold a task back.
HeldByTrain ==
    \E t \in Task :
        /\ here[t].state \notin {"merged", "in_progress"}
        /\ Blockers[t] \cap Staged # {}
        /\ \A b \in Blockers[t] : Settled(here, b) \/ b \in Staged

\* get_next_ready_task: the first of the queue.
NextReady ==
    {t \in Ready \ Running : \A u \in Ready \ Running : Place[t] <= Place[u]}

MaySpawn == ~stop /\ ~shutdown /\ Cardinality(Running) < MaxJobs

\* breaker.should_quarantine_task and breaker.systemic_tripped.
BreakerOpensLate(t) == \E s \in Signature : here[t].count[s] > BreakerThreshold
BreakerOpen(t) == \E s \in Signature : here[t].count[s] >= BreakerThreshold
SystemicTripped(failed) ==
    \E s \in Signature : Cardinality(failed[s]) >= SystemicThreshold

\* The local variables of the loop's parts do not outlive them.
Goto(pc) ==
    at' = IF pc \in {"pass", "pick", "poll", "ending", "over"}
          THEN [Outset EXCEPT !.pc = pc] ELSE [at EXCEPT !.pc = pc]
Report(t, outcome) == report' = [report EXCEPT ![t] = outcome]

-----------------------------------------------------------------------------
(* The spawn pass.                                                         *)

\* train.flush, as MergeTrain has it: the batch lands, but for the tasks that
\* were ejected, or the flush halts and the run stops.
Flush(then) ==
    \E landed, ejected \in SUBSET Staged, link \in Link :
        LET off == landed \cup ejected
        IN  /\ landed \cap ejected = {}
            /\ IF off = {} THEN link = "up" /\ UNCHANGED board
               ELSE Write(link, [t \in Task |->
                        IF t \in off THEN [here[t] EXCEPT !.train = FALSE]
                        ELSE here[t]])
            /\ \/ /\ off = Staged
                  /\ at' = [at EXCEPT !.pc = "seal", !.ids = landed,
                                      !.then = then]
                  /\ report' = [t \in Task |->
                        IF t \in landed THEN "succeeded" ELSE report[t]]
                  /\ UNCHANGED stop
               \/ /\ landed = {} /\ off # Staged
                  /\ stop' = TRUE
                  /\ Goto("poll")
                  /\ UNCHANGED report
    /\ UNCHANGED <<queueLock, child, policy, shutdown, systemic, attempts, starts,
                   cut, claims>>

\* flush seals what landed, one transition each; a refusal is only reported.
Seal ==
    /\ at.pc = "seal"
    /\ \/ \E t \in at.ids, link \in Link :
            /\ \/ Transition(link, t, "awaiting_merge", "merged")
               \/ Refused(link, t, "awaiting_merge", "merged")
            /\ at' = [at EXCEPT !.ids = @ \ {t}]
       \/ /\ at.ids = {}
          /\ Goto(IF at.then = "pick" THEN "pick"
                  ELSE IF Actionable # {} THEN "pass" ELSE "ending")
          /\ UNCHANGED board
    /\ UNCHANGED <<queueLock, child, loop, claims>>

Pass ==
    /\ at.pc = "pass"
    /\ \/ /\ MaySpawn /\ HeldByTrain
          /\ Flush("pick")
       \/ /\ ~(MaySpawn /\ HeldByTrain)
          /\ Goto(IF MaySpawn THEN "pick" ELSE "poll")
          /\ UNCHANGED <<board, queueLock, child, loop, claims>>

Pick ==
    /\ at.pc = "pick"
    /\ \/ \E t \in NextReady, link \in Link :
            /\ MaySpawn
            /\ \/ /\ Transition(link, t, "ready", "in_progress")
                  /\ at' = [at EXCEPT !.pc = "open", !.task = t]
               \/ /\ Refused(link, t, "ready", "in_progress")
                  /\ at' = [at EXCEPT !.pc = "failing", !.task = t,
                                      !.from = "ready", !.then = "spawn"]
       \/ /\ ~MaySpawn \/ NextReady = {}
          /\ Goto("poll")
          /\ UNCHANGED board
    /\ UNCHANGED <<queueLock, child, loop, claims>>

\* create_worktree: the child starts, the worktree is blocked, or git fails
\* in a way nobody catches, which ends the loop.
Open ==
    /\ at.pc = "open"
    /\ \/ /\ \E link \in Link : Write(link, here)
          /\ child' = [child EXCEPT ![at.task] = "working"]
          /\ starts' = [starts EXCEPT ![at.task] = @ + 1]
          /\ Goto("pick")
          /\ UNCHANGED cut
       \/ /\ at' = [at EXCEPT !.pc = "failing", !.from = "in_progress",
                              !.then = "spawn"]
          /\ UNCHANGED <<board, child, starts, cut>>
       \/ /\ Goto("ending")
          /\ cut' = TRUE
          /\ UNCHANGED <<board, child, starts>>
    /\ UNCHANGED <<queueLock, policy, stop, shutdown, systemic, attempts, report,
                   claims>>

-----------------------------------------------------------------------------
(* The poll, and what becomes of a child that ended.                       *)

\* A process that ended is collected; one that is out of time is killed, even
\* if it has just ended by itself.
Collect(t) ==
    /\ at.pc = "poll"
    /\ child[t] # "none"
    /\ at' = [at EXCEPT !.pc = "settle", !.task = t, !.from = here[t].state,
                !.exit = IF child[t] = "working" THEN "killed" ELSE child[t]]
    /\ child' = [child EXCEPT ![t] = "none"]
    /\ UNCHANGED <<board, queueLock, loop, claims>>

IdleLeaves ==
    /\ at.pc = "poll"
    /\ Running = {}
    /\ Goto(IF stop \/ shutdown \/ Actionable = {} THEN "ending" ELSE "pass")
    /\ UNCHANGED <<board, queueLock, child, loop, claims>>

\* Nothing runs: go on, flush the idle train, or leave.
Idle ==
    /\ at.pc = "poll"
    /\ Running = {}
    /\ \/ /\ ~stop /\ ~shutdown /\ Actionable = {} /\ Staged # {}
          /\ Flush("idle")
       \/ /\ stop \/ shutdown \/ Actionable # {} \/ Staged = {}
          /\ Goto(IF stop \/ shutdown \/ Actionable = {} THEN "ending"
                                                       ELSE "pass")
          /\ UNCHANGED <<board, queueLock, child, loop, claims>>

ShutDownLoop ==
    /\ at.pc = "poll"
    /\ shutdown
    /\ Goto("ending")
    /\ UNCHANGED <<board, queueLock, child, loop, claims>>

Failing(then) == at' = [at EXCEPT !.pc = "failing", !.then = then]

\* The child left no commit.
SettleEmpty ==
    /\ at.pc = "settle" /\ at.exit = "ok"
    /\ Failing("halted")
    /\ UNCHANGED <<board, queueLock, child, loop, claims>>

\* pr-per-task: the task waits for a human merge.
SettleForReview ==
    /\ at.pc = "settle" /\ at.exit = "ok" /\ policy.mode = "pr-per-task"
    /\ \E link \in Link :
        \/ /\ Transition(link, at.task, at.from, "awaiting_merge")
           /\ Report(at.task, "succeeded")
           /\ Goto("tally")
        \/ /\ Refused(link, at.task, at.from, "awaiting_merge")
           /\ Failing("halted")
           /\ UNCHANGED report
    /\ UNCHANGED <<queueLock, child, policy, stop, shutdown, systemic, attempts,
                   starts, cut, claims>>

\* _handle_guard_refused: back to in_progress to be split, with a signature.
SentBack(records, t, s) ==
    Recorded(Move(records, t, "in_progress"), t, "ordinary", s)

\* single-pr: integrate stages the branch, or its rebase conflicts, or the
\* monolithic-commit guard sends the task back to be split, or it fails.  A
\* conflict writes its state even when the transition is refused.
SettleByIntegration ==
    /\ at.pc = "settle" /\ at.exit = "ok" /\ policy.mode = "single-pr"
    /\ \/ \E link \in Link :
            LET t == at.task
                fetched == Fetched(link)
            IN  \/ /\ Accepts(link, t, at.from, "awaiting_merge") /\ queueLock
                   /\ Write(link, [Move(fetched, t, "awaiting_merge")
                                        EXCEPT ![t].train = TRUE])
                   /\ Report(t, "succeeded")
                   /\ Goto("pass")
                \/ /\ Write(link, Move(fetched, t, "awaiting_merge"))
                   /\ Report(t, "succeeded")
                   /\ Goto("pass")
                \/ /\ \E s \in Signature : Write(link, SentBack(fetched, t, s))
                   /\ Report(t, "requeued")
                   /\ Goto("pass")
                \/ /\ Refused(link, t, at.from, "awaiting_merge")
                   /\ Goto("unstaged")
                   /\ UNCHANGED report
       \/ /\ Goto("unstaged")
          /\ UNCHANGED <<board, report>>
    /\ UNCHANGED <<queueLock, child, policy, stop, shutdown, systemic, attempts,
                   starts, cut, claims>>

UnstagedAsSuccess ==
    /\ at.pc = "unstaged"
    /\ \E link \in Link :
        \/ Transition(link, at.task, at.from, "failed")
        \/ Refused(link, at.task, at.from, "failed")
    /\ Report(at.task, "succeeded")
    /\ Goto("pass")
    /\ UNCHANGED <<queueLock, child, policy, stop, shutdown, systemic, attempts,
                   starts, cut, claims>>

\* _mark_integration_failure: no retry, no triage, and the run goes on.
Unstaged ==
    /\ at.pc = "unstaged"
    /\ \E link \in Link :
        \/ Transition(link, at.task, at.from, "failed")
        \/ Refused(link, at.task, at.from, "failed")
    /\ Report(at.task, "failed")
    /\ Goto("pass")
    /\ UNCHANGED <<queueLock, child, policy, stop, shutdown, systemic, attempts,
                   starts, cut, claims>>

-----------------------------------------------------------------------------
(* _finalize_task, for a child that failed.                                *)

TimedOut(t) == at.exit = "killed" \/ here[t].class = "timeout"

SettleFailure ==
    /\ at.pc = "settle" /\ at.exit # "ok"
    /\ \/ /\ at.exit = "no_plan"
          /\ Failing("halted")
          /\ UNCHANGED board
       \/ /\ at.exit # "no_plan" /\ TimedOut(at.task)
          /\ IF here[at.task].class = "timeout" THEN UNCHANGED board
             ELSE \E link \in Link, s \in Signature :
                    Write(link, Recorded(here, at.task, "timeout", s))
          /\ Failing("left")
       \/ /\ at.exit # "no_plan" /\ ~TimedOut(at.task)
          /\ IF BreakerOpen(at.task) THEN Goto("break") ELSE Failing("route")
          /\ UNCHANGED board
    /\ UNCHANGED <<queueLock, child, loop, claims>>

\* _mark_failed.  When the transition is refused it takes queue_lock, and from
\* the state it finds runs the transition again, which waits for queue_lock.
MarkFailed ==
    /\ at.pc \in {"failing", "locked"}
    /\ \E link \in Link :
        LET t == at.task
            found == Fetched(link)[t].state
        IN  \/ /\ \/ Transition(link, t, at.from, "failed")
                  \/ /\ Refused(link, t, at.from, "failed")
                     /\ <<found, "failed">> \notin Legal
               /\ queueLock' = TRUE
               /\ stop' = (stop \/ at.then \in {"spawn", "halted"})
               /\ IF at.then \in {"halted", "left"} THEN Report(t, "failed")
                                                   ELSE UNCHANGED report
               /\ Goto(CASE at.then = "spawn" -> "poll"
                         [] at.then = "route" -> "route"
                         [] OTHER -> "tally")
            \/ /\ Refused(link, t, at.from, "failed")
               /\ <<found, "failed">> \in Legal
               /\ queueLock' = FALSE
               /\ at' = [at EXCEPT !.pc = "locked", !.from = found]
               /\ UNCHANGED <<stop, report>>
    /\ UNCHANGED <<child, policy, shutdown, systemic, attempts, starts, cut,
                   claims>>

\* _mark_quarantined
Quarantined(link, t, from) == Transition(link, t, from, "quarantined")

\* The breaker goes first; a refusal falls through to the other routes.
Break ==
    /\ at.pc = "break"
    /\ \E link \in Link :
        \/ /\ Quarantined(link, at.task, at.from)
           /\ stop' = TRUE
           /\ Report(at.task, "failed")
           /\ Goto("tally")
        \/ /\ Refused(link, at.task, at.from, "quarantined")
           /\ Failing("route")
           /\ UNCHANGED <<stop, report>>
    /\ UNCHANGED <<queueLock, child, policy, shutdown, systemic, attempts, starts,
                   cut, claims>>

\* attempt_counts, and the cap on it.
AttemptIfRecorded(t) ==
    IF here[t].class = "none" THEN attempts[t] ELSE attempts[t] + 1
Attempt(t) == attempts[t] + 1
CapReached(n) == n >= AttemptCap

\* A recorded failure has a tail or a signature to show.
HasEvidence(t) == here[t].class # "none"

\* A triage session names one of two actions.  When it names none, the class
\* of the failure does: "ordinary" stands for classes of either kind.
TriageActions == {"requeue", "quarantine"}
Answers(t) == IF HasEvidence(t) THEN TriageActions ELSE {"requeue"}

\* A closed provider window stops the run; --on-failure decides the rest.
Route ==
    /\ at.pc = "route"
    /\ LET t == at.task
           throttled == here[t].class = "throttled"
           To(pc) == at' = [at EXCEPT !.pc = pc, !.from = here[t].state]
       IN  \/ /\ throttled
              /\ stop' = TRUE
              /\ To("requeue")
              /\ UNCHANGED <<attempts, report>>
           \/ /\ ~throttled /\ policy.onFailure \in {"halt", "continue"}
              /\ stop' = (stop \/ policy.onFailure = "halt")
              /\ Report(t, "failed")
              /\ Goto("tally")
              /\ UNCHANGED attempts
           \/ /\ ~throttled /\ policy.onFailure = "triage"
              /\ attempts' = [attempts EXCEPT ![t] = Attempt(t)]
              /\ IF CapReached(attempts'[t]) THEN To("capped")
                 ELSE \E action \in Answers(t) : To(action)
              /\ UNCHANGED <<stop, report>>
    /\ UNCHANGED <<board, queueLock, child, policy, shutdown, systemic, starts,
                   cut, claims>>

\* Quarantine at the attempt cap, or because triage says so.
Quarantine ==
    /\ at.pc \in {"capped", "quarantine"}
    /\ \E link \in Link :
        \/ /\ \/ Quarantined(link, at.task, at.from)
              \/ /\ at.pc = "capped"
                 /\ Refused(link, at.task, at.from, "quarantined")
           /\ stop' = TRUE
           /\ Report(at.task, "failed")
           /\ Goto("tally")
        \/ /\ at.pc = "quarantine"
           /\ Refused(link, at.task, at.from, "quarantined")
           /\ Goto("requeue")
           /\ UNCHANGED <<stop, report>>
    /\ UNCHANGED <<queueLock, child, policy, shutdown, systemic, attempts, starts,
                   cut, claims>>

\* _requeue_task: a task that is ready already needs no transition.
RequeueFrom(t, from) ==
    \/ /\ from = "ready"
       /\ Report(t, "requeued")
       /\ UNCHANGED board
    \/ /\ from # "ready"
       /\ \E link \in Link :
            \/ /\ Transition(link, t, from, "ready")
               /\ Report(t, "requeued")
            \/ /\ Refused(link, t, from, "ready")
               /\ Report(t, "failed")

Requeue ==
    /\ at.pc = "requeue"
    /\ RequeueFrom(at.task, at.from)
    /\ Goto("tally")
    /\ UNCHANGED <<queueLock, child, policy, stop, shutdown, systemic, attempts,
                   starts, cut, claims>>

\* The systemic tally takes every signature on the record of a failed task.
CountedSigs(t) == {s \in Signature : here[t].count[s] > 0}
Tally ==
    /\ at.pc = "tally"
    /\ IF at.exit = "ok" THEN UNCHANGED <<systemic, stop>>
       ELSE /\ systemic' = [s \in Signature |-> IF s \in CountedSigs(at.task)
                            THEN systemic[s] \cup {at.task} ELSE systemic[s]]
            /\ stop' = (stop \/ SystemicTripped(systemic'))
    /\ Goto("pass")
    /\ UNCHANGED <<board, queueLock, child, policy, shutdown, attempts, report,
                   starts, cut, claims>>

\* The finally block: what still runs is terminated and canceled.
Ending ==
    /\ at.pc = "ending"
    /\ \/ \E t \in Running :
            /\ child' = [child EXCEPT ![t] = "none"]
            /\ RequeueFrom(t, here[t].state)
            /\ UNCHANGED at
       \/ /\ Running = {}
          /\ Goto("over")
          /\ UNCHANGED <<board, child, report>>
    /\ UNCHANGED <<queueLock, policy, stop, shutdown, systemic, attempts, starts,
                   cut, claims>>

-----------------------------------------------------------------------------
(* The children, the operator, and runs on other clones.                   *)

\* A child ends well, or with a failure it has recorded or not, or because
\* its plan is missing.
ChildEnds(t) ==
    /\ child[t] = "working"
    /\ \/ /\ child' = [child EXCEPT ![t] = "error"]
          /\ \E class \in Classes \ {"none"}, s \in Signature, link \in Link :
                Write(link, Recorded(here, t, class, s))
       \/ /\ \E exit \in Exits \ {"killed"} :
                child' = [child EXCEPT ![t] = exit]
          /\ UNCHANGED board
    /\ UNCHANGED <<queueLock, at, loop, claims>>

ShutDown ==
    /\ at.pc # "over" /\ ~shutdown
    /\ shutdown' = TRUE
    /\ UNCHANGED <<board, queueLock, child, at, policy, stop, systemic, attempts,
                   report, starts, cut, claims>>

ClaimElsewhere(t) ==
    /\ lost + claims < MaxFaults
    /\ there[t].state = "ready"
    /\ there' = Move(there, t, "in_progress")
    /\ claims' = claims + 1
    /\ UNCHANGED <<here, lost, queueLock, child, at, loop>>

RunStep ==
    \/ Pass \/ Seal \/ Pick \/ Open
    \/ \E t \in Task : Collect(t)
    \/ Idle \/ ShutDownLoop
    \/ SettleEmpty \/ SettleForReview \/ SettleByIntegration \/ Unstaged
    \/ SettleFailure \/ MarkFailed \/ Break \/ Route \/ Quarantine \/ Requeue
    \/ Tally \/ Ending

Next ==
    \/ RunStep
    \/ \E t \in Task : ChildEnds(t) \/ ClaimElsewhere(t)
    \/ ShutDown

\* The loop runs until it leaves, whatever its children do: one that hangs is
\* killed when its time is up.
Spec == Init /\ [][Next]_vars /\ WF_vars(RunStep)

-----------------------------------------------------------------------------
(* Properties.                                                             *)

Faultless == lost = 0 /\ claims = 0

\* BatchEnds: every batch ends, whatever its children do, except when the run
\* waits for the queue lock it holds itself (the loop of run_batch and its
\* finally block).
BatchEnds == <>(at.pc = "over" \/ ~queueLock)

\* RefusedFailureIsRetried: when a transition to failed is refused, the retry
\* from the current state is made (_mark_failed).
RefusedFailureIsRetried == (at.pc = "locked") ~> (at.pc # "locked")

\* AttemptsBounded: a run starts a task at most as often as the attempt cap
\* says, plus once for each call that did not reach origin and each claim made
\* elsewhere (attempt_counts, _finalize_task).
AttemptsBounded ==
    \A t \in Task : starts[t] <= AttemptCap + lost + claims

\* EndsSettled: a run that was not cut leaves no task in progress but those
\* sent back to be split, and one that was not stopped either leaves nothing
\* ready, nothing on the train, and nothing waiting for settled tasks only
\* (has_actionable_tasks, the idle flush, the finally block).
EndsSettled ==
    (at.pc = "over" /\ Faultless /\ ~cut) =>
        \A t \in Task :
            /\ here[t].state = "in_progress" => report[t] = "requeued"
            /\ ~stop /\ ~shutdown =>
                /\ here[t].state # "ready"
                /\ t \notin Staged
                /\ here[t].state = "blocked" =>
                        \E b \in Blockers[t] : ~Settled(here, b)

\* SummaryTellsEndState: what the run summary counts as succeeded has been
\* integrated or waits for its merge, what it counts as failed is failed or
\* quarantined, and what it counts as requeued is on the board to be worked on
\* (end_state).  A task requeued earlier whose worktree is blocked when it is
\* started again is the exception: it is failed and still counts as requeued.
SummaryTellsEndState ==
    (at.pc = "over" /\ Faultless) =>
        \A t \in Task :
            /\ report[t] = "succeeded" =>
                    here[t].state \in {"awaiting_merge", "merged"}
            /\ report[t] = "failed" => here[t].state \in {"failed", "quarantined"}
            /\ report[t] = "requeued" =>
                    here[t].state \in {"ready", "in_progress", "failed"}

\* StartsWithinBreakers: no child is started for a task whose record shows that
\* its breaker is open, nor for any task once a signature has failed enough
\* distinct ones (should_quarantine_task before every other route of
\* _finalize_task, the systemic breaker of _cleanup_task before the next pass).
StartsWithinBreakers ==
    [][\A t \in Task :
        starts'[t] # starts[t] =>
            \A s \in Signature :
                /\ Faultless => here[t].count[s] < BreakerThreshold
                /\ Cardinality(systemic[s]) < SystemicThreshold]_vars
=============================================================================
