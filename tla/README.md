# A TLA+ model of the Agentic Engineering Toolkit

The toolkit (`src/src/aet`, a Python command line) drives coding agents through a
queue of planned tasks. A process of its own, `aet run`, starts an agent per ready
task in a git worktree, takes the finished branches onto a *merge train*, runs the
test suite on the train and lands what passed. Humans use the same repository at
the same time, from several worktrees and several clones, and every part of the
state is a git ref or a small file. So the hard parts are those of a distributed
system: who owns the board, what a command may believe of a board it read a
moment ago, what survives a process that dies half-way, and what may reach the
integration branch.

These modules model that control state. File names below are relative to
`src/src/aet`.

| module | stands for | checked by | proofs |
| --- | --- | --- | --- |
| `TaskBoard` | records, transitions, blockers, settlement, repairs | `MCTaskBoard` | `TaskBoardProofs` |
| `DependencyGate` | what the board promises about dependencies (abstract) | `MCTaskBoard` | refinement in `TaskBoardProofs` |
| `RunLease` | who may write the board | `MCRunLease`, `MCCommands` | `CommandProofs` |
| `RefStore` | how the board is stored in git and travels between clones | `MCRefStore`, `MCStores` | `StoresProofs` |
| `TrainBisect` | the search for the commit that broke a batch | `MCTrain` | `TrainProofs` |
| `MergeTrain` | staging, validating, landing and ejecting | `MCTrain` | `TrainProofs` |
| `BatchRun` | the batch loop: spawn, poll, finalise, retry, stop | `MCBatch`, `MCBatchRun` | `BatchProofs` |
| `Breaker` | failure records and the tally a run and an operator both write | `MCBatch` | `BatchProofs` |
| `TaskRun` | one task on its way through the stages | `MCTask` | `TaskProofs` |
| `Session` | an agent session, its watchdog and its monitor | `MCTask` | `TaskProofs` |
| `Worktrees` | the worktree and the branch of a task over several attempts | `MCWorkspace` | `WorkspaceProofs` |
| `SharedFiles` | the provenance ledger and the handoff note | `MCWorkspace` | `WorkspaceProofs` |
| `Intake` | how plans join the board, and keep their text there | `MCStores` | `StoresProofs` |
| `Epics` | which branch a task starts from and lands on | `MCStores` | `EpicsProofs` |
| `Archive` | the telemetry archive under a prune, and the track record | `MCStores` | `StoresProofs` |
| `Ship` | the commands of `aet ship` on a task branch | `MCCommands` | `CommandProofs` |

## 1. The system

### Components

**Task board** (`queue.py`, `cli/aet_state.py`, `cli/sprint.py`, `cli/sync.py`,
`plan_parser.py`). State: a record per task (state, `blocked_by`, its inverse `blocks`, the counter
`pending_blockers`, `merge_commit`, a branch pointer) and a tombstone per settled task. Operations:
`sprint add`, `state transition`, `record-merge`, `heal`, `reset`, `queue sync`. Hard: the counter is
decremented incrementally while edges change; a terminal transition saves first and seals later; `heal`
works from a snapshot; `sync` takes no lock. Correct when: a task is released exactly when its last
blocker settles, nothing is recorded merged that did not land, settled work never comes back.

**Plan admission** (`admission.py`, `plan_validate.py`, `plan_parser.py`, `cli/plan.py`). State: plan
files, the PRD they cite, the spec each record was made from. Operations: `sprint add`, re-ingestion, the
intake pass, the second look of `run-one`. Hard: plans and PRD are edited while records exist, and a
record is ready both before it is started and after it is requeued. Correct when: a record keeps the text
its branch was started from.

**Run lease and queue lock** (`queue.py`, `liveness.py`). State: the lease file in the common git
directory, the legacy lease file of each worktree, an flock per worktree. Operations: `acquire_lease`,
`check_lease`, `release_lease`, `lease_guard`. Hard: check and act are separate steps, stale leases are
unlinked by path, killed runs leave leases and children. Correct when: one run owns the board, the lease
names it, only its commands write.

**Git refs backend** (`backends/git_refs_backend.py`, `cli/sync.py`). State: `refs/aet/tasks/*` and
`refs/aet/sealed/*` in each clone and at origin. Operations: `fetch`, `load`, `save` (compare-and-swap
over the changed refs, deletion of those left out), `seal`, `push` (forced wildcard, then deletions). Hard:
fetch and push are outside the queue lock, each can fail, clones are offline, a sync takes no lock. Correct when: no saved
write is lost, tombstones win over stale refs, a ref disappears only where its tombstone is.

**Merge train** (`train.py`, `integrate.py`, `integration_lock.py`). State: `refs/aet/train/<branch>`, the
train marker, position and merge commit in each record, the branch here and at origin. Operations:
`integrate` (stage), `flush` (snapshot, validate, bisect, eject and restack, push, seal). Hard: the suite
runs for minutes with the lock free while tasks are staged, others push and a second process flushes.
Correct when: only a tested tree lands, every task whose commit landed is sealed, no batch-mate is lost
or blamed.

**Epics** (`branch_ref.py`, `cli/epic.py`). State: the branch a PRD declares, the stamp on a record, the
branches here and at origin. Operations: resolution before a spawn, before a worktree and before a landing;
creation and deletion of branches. Hard: the same question is asked at different times, of documents and
branches people change. Correct when: a dependent starts where its blockers are, and no epic's work
reaches another through a task.

**Batch loop** (`cli/orchestrator.py`, `workflow.py`). State: running children and their deadlines, the
stop flag, attempt counts, the tally of signatures, the end state of each task. Operations: spawn pass,
poll, finalise (exits, timeouts, retries, quarantine), clean-up, flushes, the finally block. Hard:
liveness of the loop, a timeout that races an exit, the order in which breaker, throttle, policy, cap and
triage decide, transitions refused because the board moved between two subprocesses. Correct when: every
batch ends, attempts are bounded, no task is left in progress or ready without a reason, the summary tells
what happened.

**Stages of one task** (`cli/orchestrator.py`, `gate.py`, `cli/gate.py`, `evidence.py`, `validation.py`).
State: the recorded stage, the verdict files, the worktree. Operations: sessions over one stage or
several, gates, one recovery for a missing verdict, credit for what a failed session proved, the checks
before staging, the settling of the record. Hard: nothing is cleared between attempts, and sessions after
the tests still edit. Correct when: no stage is passed without its verdict, what is staged was tested, the
task is left where the next run finds it.

**Agent sessions** (`cli/orchestrator.py`, `liveness.py`). State: a child process, two threads, one shared
cause of death. Hard: the reader waits for the watchdog half as long as a termination may take, and a
descendant may hold the pipe. Correct when: a killed session is reported as such, and the reader ends.

**Circuit breaker and triage** (`breaker.py`, `failure.py`, `triage.py`). State: failure entries in each
record, and per signature the tasks that failed with it, in memory and in `refs/aet/breaker`. Correct
when: an open breaker stops the next start, and only a task's own failures count.

**Worktrees** (`worktree.py`, `test_deps.py`). State: the directory, the branch, snapshot refs. Operations:
create with adoption, rebase and rebuild; snapshot and teardown; hard reset. Hard: a crash in a rebase,
uncommitted work of a dead session, branches that conflict with their base. Correct when: what is removed
is saved, and `create_worktree` ends.

**Ledger and handoff note** (`ledger.py`, `handoff.py`): files many processes append to or replace; correct
when entries are there once, stay, and stand for effects that are durable.

**Ship** (`cli/ship.py`): gate, push, pull request, integration, split and closure of one branch, by hand.
Hard: every step leaves the session, the colleague and the reviewer free to act. Correct when: what is
pushed was tested, and a branch loses no work but what its gate had fetched and the rebase left behind.

**Telemetry and track record** (`telemetry.py`, `track_record.py`, `cli/report.py`): directories written
by runs of any checkout and pruned by an operator; correct when what was just written is not removed.

The remaining parts (GitHub backend and projections, release commands, read-only views, configuration,
agent adapters) are pure I/O, formatting, wiring or a mirror of remote state; `PROJECT.json` lists
each with the reason it is not modelled.

### How they meet

    plan --Intake--> board <--transition, merge commit--+
                       ^                                |
    aet run --claims--> lease <--checks-- every command that writes
       |                                      |
       | spawns children with AET_RUN_ID      v
       +--> TaskRun in a worktree -----> board (queue lock) --save/seal--> refs
       |      |  sessions, verdicts,          ^                             |
       |      |  failure entries -> breaker   | transition, merge commit    | fetch
       |      v                               |                             v push
       +--> integrate --stage--> train ref    |                           origin
       +--> flush --push--> origin/<epic or trunk>

The run itself changes the board as its children do, through `aet state transition`
subprocesses; it shares no memory with them.

Each module takes its neighbours for what their own modules show of them. The board takes the lease and the
store for granted (a command is one step); the lease module shows when that may be taken; the store
module shows what two clones make of it. The train has its own small view of records, and `TaskBoard` has
the train's effect on the board as one action (`FlushRecord`). `BatchRun` has what the run sees of
records, on two boards (here and at origin), takes a flush for what `MergeTrain` shows of it, and a child
for its exit; `TaskRun` is that child, and takes a session for what it leaves in files, or its failure;
`Session` is that session. `Epics` says from where to where, `Worktrees` how the directory gets there.

## 2. The modules

### TaskBoard and DependencyGate

`live` and `sealed` are the two ref namespaces, `state`, `blockedBy`, `blocks`, `pending`
and `mergeCommit` the record fields of the same names. `tip` is all the model keeps of
a branch: none, at its base, ahead, contained in the integration branch, or squashed.
`RecordMerge` takes its commit from the record, from what `resolve_merge_commit` finds (the merge of the
branch, or the one recent commit with a similar diff, whose ever it is) or from an operator, who may name
any commit of the integration branch and point the record at another branch. `Mistakable` says which
commits such a choice may be (an earlier one, a later one), and `vouched` which records have one: nothing ties it to
the task.
A command is one action because `queue_lock` covers its read-modify-write; the two
places where the code lets others in are kept: `sealing` is the task between
`backend.save` and `backend.seal` (`Seal`, `CrashBeforeSeal`), and `healPlan` holds
what a running `heal --apply` still means to do from a board it read earlier
(`HealSnapshot`, `HealApply`). `Apply` is `_apply_transition`, forward frontier included.
`Asserted` moves are those which `aet state transition` accepts from a human without
looking at blockers; no command of the toolkit issues them, and runs that state the
exactness of counters leave them out (`Commands`).

`DependencyGate` states what a user may rely on: a waiting task is opened by the very
step that settles its last blocker, and by no other. `GateSpec` is the refinement
(`Standing` maps a record and its tombstone to the gate's status).

### RunLease

Every process (run or command) goes through `check_lease` one file access per step:
common path, legacy path, then the act. `gone` are killed processes; `Alive` is
`is_run_alive`, taken to be exact (no clocks, no pid reuse). `Old` runs were started by a
release whose lease was per worktree, `Forced` ones skip the check. `Overlap` says whether a
process may start while another stands between its check and its act. The code does not
exclude that (section 3); the run and the theorem without it show that check and act in close
succession is the *only* way to two owners, whatever is killed, forced or inherited.

### RefStore

A record is the set of commands whose writes it contains, so a lost write is visible as
a missing element, and what a state means is left to `TaskBoard`, but for `Terminal`, which is what a sync asks. Each stage of a command
(fetch, resolve, load, save, seal, push, push of deletions) is a step; the queue lock is
held from `Load` to `Save` or `Seal`, and is per worktree, so two worktrees of a clone are
kept apart only by the compare-and-swap. A sync (`aet queue sync`) loads without the lock, drops what is over
from its queue and saves the rest, and `save` deletes the refs of what it left out, at whatever they are by then and
without a tombstone; `pruned` remembers what went that way. `NoFetch` and `NoPush` are the offline cases,
`Crash` is a death anywhere. `Posture` "shadow" (nothing is pushed) is in the module and in
the theorems; the runs use "shared" and "none".

### TrainBisect

`bisect`, one suite run per step. `red[k]` is whether the k-th prefix really fails; a run
may show red for a green prefix (flaky suite, timeout), never the reverse. `seen` records what
runs showed. `Raise` is a failing checkout, `GiveUp` a worktree that cannot be added.

### MergeTrain

A commit is the sequence of changes in its history: ancestry is `IsPrefix`, a rebase or a
cherry-pick appends, a merge base is the longest common prefix. A tree is red when it
holds all of some set in `Breaks`, so a breakage may need two commits, and be mended by
removing either. The critical sections under `integration_lock` are single actions
(`Stage`, `Snapshot`, `Eject`); the landing section is cut where a crash can cut it: where a worktree has the branch,
`LandCheckedOut` pushes the snapshot; else `MoveBranch` sets the local branch and `PushBranch` pushes that branch by its name,
with what an operator, who takes no lock, has committed on it in between; then `Record` and `Seal`, whose transitions go
through another process. The suite runs
between sections, with the lock free. `Mark` is the part of `integrate` after it has
released the lock: the train marker is written there, not where the staging ref moves.
`BisectFinds` takes any culprit that `CulpritTurnsTheBatch` allows, which `TrainBisect`
proves of `bisect`. `Eject` is the restack: commits after the culprit and commits staged since
the snapshot are cherry-picked onto the culprit's predecessor, failed picks lose their tasks,
markers are moved and renumbered, and flush calls itself.

`passed`, `orphans` and `outside` are history: trees the suite passed on, tasks whose
`integrate` died before the marker, changes of others not yet made.

### BatchRun

`_run_batch_impl` and what it calls. The run is one process, so `at` says where it stands, with the
local variables of the part it is in: the task, the state it believes the task to be in
(`from`), how the child ended, what follows a failure (`then`). Children, the operator's signal and
runs on other clones act between any two of its steps.

`here` and `there` are the board of this clone and of origin. A transition is a subprocess that
fetches, checks, writes under `queue_lock` and pushes: it is one step, with a `Link` that is up,
read only, or down. A record write (`_save_task_record`) does not fetch first. What
was not pushed is undone by the next fetch, except settlement, because tombstones win. `MaxFaults`
bounds calls that do not reach origin and claims on other clones together. `queueLock` says
whether another process may take the lock: only `MarkFailed` holds it over a subprocess.

`Collect` covers a child that ended and one that ran out of time, which is killed even if it has
just ended by itself. `SettleEmpty`, `SettleForReview`, `SettleByIntegration` and `Unstaged` are
`_cleanup_task` for a child that exited with 0, the merge without a review included; `SettleFailure`,
`Break`, `Route`, `Quarantine`, `Requeue` and `MarkFailed` are `_finalize_task` for the others, in its
order; `Tally` is the systemic breaker after it; `Ending` is the finally block. `HasEvidence`,
`TriageActions` and `Answers` are what triage is asked and may answer. `cut` is an exception in the start
of a worktree that is not `WorktreeBlockedError`: it ends the loop and leaves the task in progress.

Left out: the hygiene check before a batch, refusals by the lease, exit codes 3 (no child of a batch
returns it) and 75 (taken for any other error), exceptions elsewhere. The tally (`systemic`) starts empty here;
`Breaker` has it over several runs.

### Breaker

`record` is `failure_signatures` of each task, `tally` the blob in `refs/aet/breaker`, `mine` the copy in
the memory of the run that loaded it. A session that fails looks like one of `Shown`; `Classify` is
`failure.py`, in the order it asks. The child writes the entry (`Fail`; `ExitSilently` is a child that
ended without one), the run judges it later (`Finalize`), loads the tally at its start and writes it whole after each failure (`LoadTally`,
`SaveTally`). An operator clears the tally (`BreakerReset`) or takes one task out of it after he has read it
(`ResetTask`, `hand`), under no lock. `Preflight` refuses to start a run whose tally is tripped.

### TaskRun

`process_task` and `run_single` for one task, top-level or as a child of a batch. Stages are numbers,
`N + 1` is `done_state`; `EvidenceOf`, `Skilled`, `Gated` and `Groups` are the workflow file. A session is what
it leaves: `Edit`, `Commit`, `Submit` (a verdict, right, wrong or malformed) and `WriteByHand` (a verdict that
does not come through `aet gate submit`), in any order, until the run reads the files. After a
session the gates of its stages are asked in order, a missing verdict gets one recovery session, a failed
session that served several stages gets credit for those it proved (`CreditStage`). Before staging come
`PreCheck` and `Freshness`, then `Integrate`, or `IntegrateAgain` when the lock was taken; the `Settle`
actions are the ways out. A guard of the integration that refuses the task puts it back to `in_progress` (`SendBack`):
after the first integration the run fails and settles it, after the second nothing does. `Seize` is a run that takes the queue by force, `Crash` a death anywhere.
`judged`, `tested`, `staged` and `excused` are history.

A version of the worktree is a number and `CodeOf` tells the code in it, because what the freshness check
compares is the tree, documents included or not.

### Session

`_run_with_live_tee`: the main thread reads until the pipe closes, the watchdog polls for a shutdown,
the wall-clock backstop and a stall, `LivenessMonitor` resets the stall clock. `cause` is the variable the
threads share. `signalled` is what a signal was really sent for, `deaf` a child that ignores SIGTERM, `kid` a
descendant that holds the pipe. The two joins of the main thread time out, so it may read `cause` while the
watchdog is still at work.

### Worktrees

The points of `create_worktree` are values of `at`: adopt, save, clear, refresh onto the base, stuck in a
rebase, build, rebuild. Work is a set of *pieces*: code, a change to a tracked plan, a rendered plan that
git does not track; each is uncommitted in `dir`, committed on `branch` or on the detached HEAD of a stopped rebase
(`dir.head`), in a snapshot ref, on the train, or gone. A rebase that stops leaves the conflicting piece unmerged in `dir`; `Obstructed`
looks at code only, as `_worktree_obstructions` does, so a worktree whose rebase stopped on a plan file is handed to the
next session as it is. The base is a number; `Clash` says which pieces conflict with which version and `TouchesCode` which
versions are more than plan text, as a branch that is behind by plans only is not rebased. `cleanup`
and `teardown` are the two callers of the teardown, with what each does when the snapshot saves nothing; `IntegrateStops` is an
integration that ends in `staged_conflict` and leaves the worktree. `ResetHard` is `aet state reset --hard`. `found` remembers what stood in the place of the worktree.

### SharedFiles

The ledger as a sequence of lines, `Torn` for one cut short by a death, `endless` when the last has no
newline. A writer makes its effect durable, constructs the ledger (which reads outside the lock), takes the
lock, reads again, appends. The note is read, extended and replaced under its own lock; it starts again if it
cannot be read.

### Intake

The doors to the board: `SprintAdd`, its repetition with an edited plan (`Reingest`), the intake pass
(`IntakePass`) and `RunOne`, which judges the plan file again but runs the record. A plan text is what the
checks tell apart: tasks it waits for, requirements it cites, the families of checks it fails and those its
author acknowledges, whether it looks finished. `Traced` is the requirement trace, over all plan files and all
specs on the board.

### Epics

`BranchOf` is the resolution: `--base`, then the stamp on the record, then the branch the PRD declares, then
the one its file name gives, then trunk. The batch resolves and stamps per spawn, with the refusals of
`_check_base` and its neighbours; `run-one` resolves once for the worktree and again for the record. What a
branch contains is a set of tasks. Branches are created when first needed and deleted by people; the PRD is
edited at any time. `Unstamped` is what the landing would do if it did not read the stamp.

### Archive

A clock of half days: a run directory carries the date of its run, its files their own times. `prune` is a
forced prune in progress: cutoff, what it protects, what it still has to look at, what it is about to remove.
`Finish` is the decision of `track_record.py` on a task that ran to the end.

### Ship

The commands `gate`, `open`, `open-epic`, `merge`, `split` and `close` (with and without deletion of
the branch), one step per git or forge call, over the local, origin and tracking tips of a branch. A tip is a
version of the trunk and the commits on it; the branch may be stacked on another. Session, colleague, reviewer and
trunk move between any two steps.

### Parts of a run

Six MC modules check several components in one run (`MCTrain`, `MCBatch`, `MCTask`, `MCCommands`,
`MCWorkspace`, `MCStores`) or several instances of one. Each has a variable `part`, chosen at the start and
never changed: the actions of the chosen part are those of its module, all variables of the others stand
still. The parts share no variable that both change, so each is checked exactly as it would be alone, and the size
of the run is the sum of its parts. A part is a module that the MC module EXTENDS, or an instance of one where the
same module has two parts, and the properties are those of the modules, which are also what the theorems state. Three
are stated in an MC module because they are about one part or about a module with fairness in it: `AloneFlushEnds`,
`LoopEnds` (`BatchEnds`) and `RunsAndSessionsEnd`.

## 3. The runs

| run | parts and instance | shows |
| --- | --- | --- |
| `board_lifecycle` | 3 tasks, one waits for two, one whose plan may gain a blocker; crashes | counters are exact, nobody waits for nothing, the gate is implemented |
| `board_maintenance` | 2 dependent tasks, all commands but asserted moves, merge and squash | nothing merged that did not land or was vouched for, `blocks` stays the inverse |
| `train` | the search on all batches up to 6 commits, all outcomes, any flakes; 1 process flushing twice, 3 tasks (one breaks, one may conflict), a foreign change, a flake, a crash; 2 processes, 2 tasks, late markers | a culprit turns the batch; changes of tasks land in tested trees only, staged work is kept, what lands is sealed, a flush ends |
| `batch` | 2 tasks and one that waits for both, 2 jobs, both modes, all policies, a fault, a shutdown; the tally with 3 tasks, 3 failures, 2 runs, 1 order of the operator | every batch ends, attempts are bounded, breakers hold, nothing is left behind or misreported, the tally is earned |
| `task` | 4 stages, 2 edits, 2 attempts, 1 seizure, 1 crash or shutdown, minimal and standard isolation, both modes; a session with a stall of 1 and a backstop of 2 ticks | no stage without its verdict, what is staged was tested, no task left running, kills are reported, runs and sessions end |
| `commands` | 3 runs (one old, one forced), 3 commands, 2 worktrees, kills, `Overlap = FALSE`; 2 `aet ship` commands on one branch of 3 files, alone or stacked, 1 clashing trunk version | one owner, whose commands alone write, nothing left behind; a split loses nothing, what is pushed was tested, a forced push drops only what its gate had fetched |
| `workspace` | 4 pieces of work, 2 base versions, 3 attempts; 2 writers, 2 events, 3 starts, 1 crash | what is removed is saved, committed code stays but in the stated cases, `create_worktree` ends, files keep entries |
| `stores` | 2 clones and origin with 5 overlapping commands (a sync among them), offline, crashes; 2 worktrees without a remote; 2 tasks, 4 plan texts, 4 edits; 2 tasks of one epic edited once, or of two; 2 telemetry runs over 3 half days | tombstones win, a write goes only with a fetch or the prune of a sync, specs are frozen, dependents see their blockers, no epic leaks, fresh telemetry stays |
| `lease_two_owners` | 3 runs that overlap | fails: two owners |
| `refs_push_clobbers` | 2 clones, a writer and an adder | fails: a push undoes another clone's |
| `batch_retry_blocks` | 1 task, claimed on another clone | fails: the run waits for its own lock |
| `train_rewinds_local` | the train with an operator who commits | fails: a commit leaves the local branch |

Bounds and why they are enough. Two tasks show an edge, three a chain with a
second blocker and an edit that adds one. Three runs are the least with a live owner, a
stale lease and a claimant; two worktrees the least with two locks. Five commands
are a closer, its repetition, a writer of the dependent, an intake and a sync. Six commits
reach every shape of the searched interval, odd and even, at three levels; the
proofs cover any length. Three tasks on the train give a culprit with one mate before and
one behind it; a second flush gives what is staged during the first and what is restacked
a second time. One flake and one crash each: a second adds no new kind of state, since both
leave the process where it stood. In the batch part of `batch` the thresholds 2 (breaker of a task), 3
(attempts) and 2 (breaker of the run) keep the order of the code's 3, 5 and 3: the breaker of a task opens
before its attempts are used up, and failures without a record reach the cap alone; the breaker part has the
code's own 3 and 3. Two jobs let a child end while another is settled, and the third task is released by a
flush; one fault lets each counter and each belief be wrong once, and a second repeats that. Four stages are one
whose result is commits, two with a verdict that share a session, of which one may be skipped, and one
without a session; two edits are code and then documents. Three attempts let a worktree be adopted twice, after
two different ends; two base versions are one that touches plans and one that conflicts with code. A backstop
beyond the stall lets either come first. Two telemetry runs are one to prune and one that is written.
`MaxFlushes`, `MaxFlakes`, `MaxCrashes`, `MaxFaults`, `MaxEdits`, `MaxAttempts`, `MaxSeizures`, `MaxBase`, `MaxStarts`,
`MaxCommands`, `MaxFailures`, `MaxRuns`, `MaxOrders`, `MaxTime` and `MaxWrites` are the only counters that
are cut; `Tick` in `TrainBisect` caps the number of suite runs above what `bisect` needs.

Deadlock is checked for the competition for the lease, in `lease_two_owners` and in `commands` (where the ship
part may rest at any time). Elsewhere processes run a bounded number of times and then stop: a finished
command, a board whose tasks are all settled, a search that returned.

Type invariants are part of the proved invariants and are not run beside them.

**Fairness.** The board, lease, store, intake, epic, breaker, archive, ship and file specifications have none:
what they promise is safety, and nothing in the code promises that an operator runs a command.
`MergeTrain` has weak fairness of each flush's next step and of `Mark`: between sections a flush waits for the suite,
which has a timeout, or for `integration_lock`, a blocking flock that the system releases when its holder dies. No
fairness is assumed of starting flushes, of others, or of crashes. In the part that checks `AloneFlushEnds` there is one
flusher, so weak fairness of its step does not rest on a scheduler between two waiting processes.
`BatchRun` has weak fairness of the loop (`RunStep`) alone. Nothing is assumed of the children: one that
hangs is killed at its `task_timeout`, which is why `Collect` is enabled for a working child. Each
subprocess the run waits for ends, unless it waits for the lock its parent holds, and there no step of the
run is enabled. `TaskRun` has weak fairness of the steps of the orchestrator; a session that never ends by itself
is ended by its watchdog, and `Session` checks that with weak fairness of time, of the watchdog and of the main
thread, none of the child. `Worktrees` has weak fairness of the steps of `create_worktree`, which is straight-line code
around git calls.

### Runs that fail, and why

Each of these states what a document says and finds that the code does otherwise.

- `lease_two_owners` (`OneOwner`): `acquire_lease` checks the lease outside
  `queue_lock`; two runs that both check before either writes both own the board. In two
  linked worktrees even the lock would not help, because it is per worktree.
- `refs_push_clobbers` (`PushedWritesSurvive`): the push is a forced wildcard over all task
  refs, so a command about one task overwrites at origin what another clone pushed about
  another since the fetch.
- `batch_retry_blocks` (`RefusedFailureIsRetried`): a task is claimed on another clone just before
  it is started here. The transition is refused, the one to failed too, and `_mark_failed` runs
  it again while it holds `queue_lock`, for which the subprocess waits.
- `train_rewinds_local` (`LocalFastForwards`): ADR-079 and the PRD have a green flush fast-forward the
  integration branch. `flush` sets the local branch to the snapshot by compare-and-swap (`train.py:800`) without
  asking whether that is a fast-forward, so a local commit the train does not contain leaves the branch; a
  rejected push does not move it back.

`commands` sets `Overlap` to FALSE, and `BatchEnds`, which `LoopEnds` states of its part, makes an exception of the held lock: these runs show
that what goes wrong in the failing ones is the only thing that does. The part of `train` with one flusher
leaves out what comes before a marker (`Alone`: nothing is `unseen`) for the reasons given next.

### Behaviour worth knowing, not run

Met while translating; each follows from the modules or from the source at the lines given.

*Train*

- Two flushes that bisect the same train: the second finds its culprit by position after the first
  has renumbered, and ejects the innocent task that moved up (`train.py:638`).
- A flush between `integrate`'s move of the staging ref and its marker lands a commit without
  its task (`integrate.py:768`). `LandedIsMerged` makes an exception of such a snapshot (`unseen`).
- Once another clone has pushed, the train no longer fast-forwards origin, and every later
  flush validates, is rejected and halts; nothing rebases the train (`train.py:824`).
- Where no worktree has the branch, `flush` sets it to the tested snapshot and then pushes it by its name (`train.py:800`,
  `worktree.py:492`). What an operator commits on it in between goes to origin untested; `OnlyTestedTreesLand` says
  that nothing but such commits, on top of a tested tree, can.
- A flush that dies between the push and the records leaves landed tasks `awaiting_merge`;
  `rebuild_from_records`, the repair, is called nowhere.
- An ejected task waits for a fix, but `integrate` removed its branch and worktree.
- A restack that cannot tell whose commit it picks goes by position (`train.py:637`, `:664`), and a task whose marker
  is not written yet has none. Such a task may be recorded merged with its change dropped. `guessed` holds
  them, and the theorems on `MergedIsLanded` and `StagedWorkIsKept` speak of the others.
- A commit that belongs to no task and conflicts in a restack is dropped without a diagnosis, where
  `docs/adr/079-merge-train.md` (item 6) has every task that cannot apply ejected as `restack_conflict`.
- With two flushers, an ejection decided on an older snapshot can land a change that its task no longer owns;
  this is why `LandedIsMerged` speaks of one flusher. The restack that follows may also bring an ejected commit back,
  so a train need not get shorter with each round, and `FlushDescends` speaks of one flusher too.
- `bisect` uses up to floor(log2 n) + 1 suite runs; its docstring says ceil(log2 n), one
  short when n is a power of two.

*Batch, breaker, stages, sessions*

- A task that is requeued, and whose worktree is blocked when it is started again, is failed and
  still counted as requeued (`cli/orchestrator.py:4326`): the fallback of the spawn pass sets no end
  state. `SummaryTellsEndState` makes this exception. Any other exception there leaves the task in progress.
- A task that a guard refuses at the second integration of `run_single` (after it had to wait for the lock) is put back to
  `in_progress`, and nothing settles it (`cli/orchestrator.py:5119`, `:2690`); at the first integration the run fails it.
  `NoTaskLeftRunning` makes this exception (`excused`).
- A task sent back by the monolithic-commit guard is counted as requeued and stays in progress, where
  no later pass picks it up; `EndsSettled` says so.
- The class of a failure is that of the last entry of the record: a child that fails without recording
  anything is judged by an earlier attempt (`cli/orchestrator.py:3502`).
- What an operator clears in the tally comes back with the next failure of a run that had loaded it
  (`breaker.py:192`).
- A session whose descendant keeps the pipe open is read beyond `wall_backstop`, until that process ends.
- A run whose lease was taken settles its task failed, though the comment says the recorded state is
  left alone (`cli/orchestrator.py:5049`).
- `aet gate submit` takes the tree of `AET_WORKTREE` (`cli/gate.py:325`): in a recovery session of a
  top-level run that is the main checkout, not the task's worktree.
- `workflow.py:243` checks that session groups partition the stages that have a skill, not that a group is a stretch of the
  pipeline. With the groups {1, 3} and {2} a record passes stage 2 before its verdict is there
  (`EvidencedStages` fails in 11 states); in the workflow files of the repository every group is a stretch.
- A task whose class asks for a review record is never merged automatically: both callers of the track
  record leave the history file out.

*Board, plans, epics*

- `heal` and `reset` take a blocker that is absent from the board for settled (`cli/aet_state.py:876`)
  where intake takes it for pending (`plan_parser.py:482`), so they may release a task whose
  blocker was never added; and `heal` moves a task that was quarantined after its snapshot.
- `reset` revives a task whose process died between save and seal: the record is terminal and
  still on the board (`cli/aet_state.py:1263`). `sync` drops such a record without a tombstone,
  also while the process is alive and about to seal, which then fails; intake then admits the task again, unless a
  fetch brings the record back from origin. The deletion names the value that is there at the save, not the one loaded
  (`git_refs_backend.py:314`), so what was written since goes along: the exceptions of `LeavesByAssertion`,
  `OnlyFetchesOverwrite` and `SavedWritesSurvive`.
- `record-merge` takes any commit of the integration branch that an operator names (`cli/aet_state.py:1634`), and by itself
  the only recent commit whose diff is close to that of the branch (`:389`), though it be another's. `MergedIsLanded` speaks
  of the records for which neither was done (`vouched`). Once such a commit is recorded, later evidence is taken from it.
- A second `record-merge` after a failed push reports success and does not push
  (`cli/aet_state.py:1620`).
- Plans that block each other are accepted; only unknown ids are refused (`plan_parser.py:686`).
- A plan that looks finished is not judged and counts for no requirement, and still joins the board.
- `run-one --base` cuts the worktree from that branch and lands the task on the one its stamp or PRD
  names. `reset` keeps the stamp.

*Lease, stores, files*

- A reclaim unlinks a lease *path* it found stale, whatever is there by now (`queue.py:331`),
  and `release_lease` compares and unlinks in two steps (`:300`): a forced or concurrent claim
  in between loses its lease. `RunLease` with `Overlap = TRUE` shows both. A process id that was
  reused, or a clock that was moved, is told by a start time of two sources (`liveness.py:164`).
- A fetch overwrites records saved here and not yet pushed (`git_refs_backend.py:374`), so
  an offline closure keeps its tombstone and may lose the release of its dependents. `OnlyFetchesOverwrite`
  says that a write is lost here in no other way but the prune of a sync; `SavedWritesSurvive` is proved without a remote.
- A rebase that stopped on a plan file obstructs nothing (`worktree.py:311`), so the worktree is handed over in the middle of
  it. What a session commits there is on no branch, and goes with the worktree, without a snapshot when nothing
  uncommitted is beside it; the docstring (`worktree.py:286`) has it that "anything already committed survives removal on the
  branch". `CommitsAreKept` makes this exception (`CommittedMidway`).
- The gate of a ship command rebases the local branch and its push is forced with a lease (`cli/ship.py:484`, `:842`). The lease
  protects what was pushed after the fetch; the commit of a colleague that the gate has fetched (`:588`), and
  the local branch does not hold, is then nowhere. `BranchesKeepWork` says that nothing else is lost so.
- The ledger holds one event per id, and an event of the same id with another body, or a torn line, makes it
  unreadable; the command that meets it fails after its terminal state was saved (`cli/aet_state.py:693`).
- `aet report` protects the run that holds the lease only where the common queue path is a file
  (`cli/report.py:24`), unlike `docs/telemetry-guide.md:500` says; what keeps a running run's directory is that it
  was written to.
- Snapshots are numbered by attempts of one run, so a later run overwrites those of an earlier one
  (`cli/orchestrator.py:4038`), where `docs/adr/085` has them kept.

## 4. What is proved

The theorems hold for every value of the constants that satisfies the named assumptions of the module
(`PlanAssumption`, `LeaseAssumption`, `StoreAssumption`, `MaxCommitsAssumption`, `TrainAssumption`, `BatchAssumption`,
`TaskRunAssumption`, `SharedFilesAssumption`, `EpicsAssumption`, `ArchiveAssumption`, `ShipAssumption`), which TLC evaluates for the instances
of the runs, and the hypotheses they state. Each is an induction: `Init => Inv`, `Inv /\ [Next]_vars => Inv'`,
`Inv => Property`, with one step per action. Hypotheses of the form "`Nil` is not a record" say that the value that
stands for *nothing there* is none of the things that may be there.

**TaskBoardProofs.**
`TypeCorrect`: `[]TypeOK`. The counters stay natural because `Counted` floors at zero.
`CountersExact`: `[]FrontierExact` when the operator uses no repair (`Commands` is at
most re-ingestion and the naming of merge commits). `FrontierExact` is not inductive alone. `FrontierInv` adds that
`blocks` inverts `blocked_by` (else the decrement reaches the wrong records), that a task with a
tombstone is off the board and a task being sealed is on it and terminal (else one settlement
counts twice), and that no heal is under way. The argument: a terminal transition of b takes
b, and nothing else, out of the open blockers of exactly those tasks in `blocks[b]`; their
counter was the cardinality of that finite set, so it stays so after the decrement. Without the
restriction the statement is false: heal and reset recount against the board.
`NoneStuckAtBlocked`: `[]BlockedIsWaiting`, from the same invariant: a task is released
when its counter reaches zero, and the counter is the number of its open blockers.
`BoardImplementsGate`: `Spec => GateSpec`, the refinement of `DependencyGate`, also from `FrontierInv` and without
repairs. Intake is the gate's `Admit`; a terminal transition is its `Settle`, because the counter of a dependent
is zero afterwards exactly when the settled task was its last open blocker; sealing, crashes and what git does
are stutters.
`NothingMergedUnlanded`: `[]MergedIsLanded` under *every* command; heal, reset and asserted moves included. `LandedInv` adds
`EvidenceTrue`: a merge commit in a record, or a branch contained in the integration branch, shows commits that landed, or
somebody vouched for it; a reset leaves the evidence in the record, to be asked again.
`EdgesInverse`: `[]BlocksExact` under every command too: what leaves the edges alone only takes records off the
board, and intake and sync rebuild them.

**CommandProofs.** The lease: `NothingLeftBehind`: `[]NoLeaseLeftBehind`, for every interleaving. `HolderHolds` says that a
file that names a run is on the common path or in its worktree, that the run has claimed and not
finished, and that a release that has gone on to the legacy path has left nothing on the common
one.
`LeaseExcludes`: under `Overlap = FALSE`, `OneOwner`, `LeaseNamesTheOwner` and
`WriterActsForTheOwner` (`WritersAreTheOwners` states it alone). The invariant: a process between check and act is alone there
(`Alone`), so what it learnt of the paths is still true (`Knows`), and a path it is about to unlink
still holds what it may unlink (`RemovesRightly`).
`aet ship`: `ShipKeepsInv`, for any files, conflicts, plans and number of commands, under every interleaving with the
session, the colleague, the trunk and the reviewer. `ShipInv` types the variables (a replay is a branch,
`WithoutType`) and says what a command knows at each point. `DirSafe`: a worktree has its branch; no rebase is stopped in it where a
gate rebases and then looks whether it is clean, in a split, or past the rebase of an integration; and what is uncommitted in it from the check to the push came
after the gate had looked (`late`). `HandSafe`: between verdict and push the branch and the tested tree differ only in late
changes (`Agrees`), so a commit of the session in between may not bring anything that was there before; what an
integration removes is on the train or late; a branch is deleted only for a merged task. `SplitsKeepWork` and `PushesAreTested`
follow (`SplitKeepsWork`, `PushedIsTested`). `BranchesStay` (`BranchesKeepWork`) is about what a push takes off origin. `GateKeeps`
says that from the rebase of a gate to the push the branch keeps what it held before (`op.pre`), but for what has
landed: a replay leaves out only commits that the trunk has whole (`WithoutKeeps`, `ReplayKeeps`), the session only adds, and the trunk
only grows (`TrunkGrows`). So what goes is something the local branch did not hold; that the gate had fetched it is the lease of the forced push.

**TrainProofs.** The search: `SearchInvariant` says that below the interval ends in a passing run and above it begins
with the culprit. `CulpritIsATurn`, `NoneMeansFlake` and `FirstFailing` follow; the first two need no assumption on
the suite, the third needs runs that tell the truth and a batch that stays broken.
The train: five invariants, each resting on earlier ones. `FlushInv` types the variables (a restack of histories is
a history, `RestackParts`) and says of each flush what it knows at its point: a flush that pushes holds
a snapshot on which the suite passed, one that pushes the local branch has the lock and its snapshot at the bottom of that branch, and one
that records or seals has the lock and its snapshot is in the history of origin. `TestedInv` says of origin and of the local branch
that they are a tested tree and what others committed on top of it (`Tested`); `TestedTreesLand` (`OnlyTestedTreesLand`) follows. `TrainInv` adds `Carried`: for a task that no
restack had to guess, what the records and the flushes say of it is true of the refs. A marker points to a commit that
ends in its change and is on the train or on origin, and a task without a branch has a marker, is on origin, or was
ejected with a reason. The work is in `Eject`: a commit that is replayed
ends in the same change wherever it lands, a failed pick takes its owners with it, and the others'
markers move with their commits (`Repointed`). `MergedTasksLanded` and `NothingStagedIsLost` follow. `BlameInv` says that what
passed is green when runs tell the truth, so that a culprit turns a green tree red, so that it has a part in a breakage:
`CulpritsBlamed`. `SoloInv` is about a flush that works alone: its snapshot stays at the bottom of the train, so what it
ejects and what it lands is still there. `LandInv` adds, for a state without crash, late marker or guess (`Sound`; such a
state has only such states behind it), the two ways that `LandedIsMerged` has to know: a task whose marker is not written
is known to the train only (`Before`), a commit on the train is there once and will be found by its marker
(`OnTrain`), a flush covers every task of its snapshot that has not landed, before and after each ejection (`Covers`),
and what is on origin is merged or covered by the flush that has the lock (`Told`). `LandedAreMerged` (`LandedIsMerged`)
follows.
Measures: `SearchHalves` says that each run of the suite at least halves the interval; `FlushDescends`, with one flusher,
that each step of a flush lowers the pair of train length and stages left, whatever it ejects, and that only a staging raises it,
which takes a branch that does not come back. `BisectAnswers` joins the two modules: what a search of `TrainBisect`
answers on a batch is a culprit as `flush` of `MergeTrain` takes it.

**BatchProofs.** `TallyStaysEarned`: `TallyInv` says `TallyIsEarned` of every place a count may come
from: the entries in the records, the stored tally, the copy in the memory of the run, and the copy an operator has read.
`LoopInv` types the loop and says what it knows where it stands. Its part `AttemptInv` is an allowance:
until the run stops, a task has been started at most as often as it has attempts counted and there were faults, and once more
only if neither copy of its record lets it start again and that start is not yet paid for. So a
start that nobody counted costs a fault, which is `StartsBounded` (`AttemptsBounded`). `QuietInv` is about runs in which every call
reached origin: the two boards are equal and no transition is refused, and of each task it says what its record, child and outcome
have to do with each other at each point of the loop (`AtEnd`, `OnBoard`, `Reported`). `RunsEndSettled`
(`EndsSettled`), `SummariesAreTrue` (`SummaryTellsEndState`) and, with the finiteness of the
tally, `BreakersHold` (`StartsWithinBreakers`) follow. None of them needs the set of tasks finite.

**TaskProofs.** `DeadlinesAreReported`: `[]KillsAreTimeouts`, for any stall timeout and backstop. `CauseInv`
relates the points of the two threads: while the watchdog terminates, `cause` holds its reason; once a deadline was
signalled for, the watchdog stays past that point and `cause` stays the deadline; so it does not matter that the main
thread stops waiting before the termination is over. The hypothesis is that `Nil` is no deadline.
`RunInv` types a run and its files and says what a run that settles a task still has to write, and that a task that was sent
back after the first integration belongs to a run that has failed and will settle it; `NoneLeftRunning`
(`NoTaskLeftRunning`) follows. `QaInv` follows code that the tests passed on from the verdict to the train:
`StagedPassedTests` (`StagedCodeTested`), whatever is edited in between. `EvidInv` says that all stages the record or
the run has passed are judged, that a session spans every stage with a verdict between its first and its last, and
which of them are still to be judged; `EvidenceBeforeProgress` (`EvidencedStages`). Its hypothesis
`Contiguous` holds of the workflow files of the repository and is not enforced by the code (section 3).
`RunDescends`: every step of the orchestrator brings a run nearer to its end, in a lexicographic order whose parts are bounded: the phase (walk, its
end, integration, over); of a walk the stage, the group, the point of the session and the verdicts still to be read, a second
session being asked once for each; of an integration the attempt and its point. No other actor sets it back.

**WorkspaceProofs.** `RemovalSaves` and `CodeStays`: `UncommittedIsSaved` and `CommitsAreKept` for any pieces, conflicts
and number of attempts. `WorkInv` holds the shapes of the variables and where a worktree exists (`Shapes`), what is
uncommitted and what has been saved at each point (`DirInv`: what a rebase that stopped has left is of a commit of the branch,
and a snapshot has what is on a detached HEAD before an obstructed worktree is removed), and that a branch is dropped only in a conflict, when
what `create_worktree` found tells whether its code is saved (`BranchInv`). `MidwayStep` follows the commits on a detached HEAD.
`EntriesStay` (`FilesKeepEntries`), with any number of writers, crashes and events: `WriterInv` says that what a writer is about to
append is nowhere in the file, because it has looked again under the lock, and that it has its effect
behind it; `NoteInv` that who has read the note holds its lock and writes all of it back. `FilesTypes` comes with it.
`PrepareDescends`: every step of `create_worktree` lowers a number, also where it deletes a branch in conflict and starts
again, and no other step raises it.

**StoresProofs.** `FetchedTombstonesWin` and `TasksLeaveByAssertion`: in any number of clones, offline, with
crashes and syncs. `Buried` says that a clone has every tombstone its commands fetched and
one for each ref they still have to delete at origin.
`CompareAndSwapKeepsWrites`: `[]SavedWritesSurvive` with no remote, for any number of worktrees
and commands; a record is only ever replaced by one computed from it, or by its tombstone, or dropped by a sync,
which `pruned` remembers (`PruneTold`).
`WritesLeaveByFetch`: `OnlyFetchesOverwrite`, with a remote too, in every posture.
`SpecStays`: `SpecFrozen` for any plan texts and edits; `BoardInv` types the records, so that what a
re-ingestion changes can be told from what it leaves.
`FreshRunsStay` (`FreshRunsSurvive`): `ArchiveInv` says that no write is later than the clock and that a directory that was judged old is
none of those that had been written to since the cutoff; `ArchiveTypes` lists its parts.

**EpicsProofs.** `DependentsStartOnBlockers` (`DependentsSeeBlockers`) and `WorktreesStayInTheirEpic`
(`CarriesOnlyItsOwn`). `EpicInv` rests on two facts: what a branch and trunk hold together only grows (`Grows`: a
branch is deleted only when trunk has it, and a new one starts from trunk), and the stamp of a record
does not change while it has a worktree. So what a worktree was cut from is still there when the task
lands, and what was decided for a picked task (`PickSafe`) still holds when it is spawned, whatever was edited between.

**Only model-checked.** The liveness properties `AloneFlushEnds`, `LoopEnds`, `RunsAndSessionsEnd` and `PrepareEnds`:
liveness under fairness and ENABLED are beyond the prover. What makes three of them true is proved: a measure that every step
lowers (`FlushDescends`, the part of `RunsAndSessionsEnd` about runs in `RunDescends`, `PrepareDescends`), which leaves to TLC
that a step is always possible and is taken. Every invariant and action property of a passing run is
stated by a theorem. Also beyond the prover is what a recursive definition or a fold (such as `Picked`) computes for every sequence, as the
induction theorems take an operator as a parameter; where a statement can be put as a set of numbers,
`TrainProofs`, `TaskProofs` and `CommandProofs` do induction over it with the theorems on well-founded sets.

## 5. What is not modelled, and the plan

Left out of modelled parts: plan text, review and session fields of a record, the GitHub
and file backends; clocks and pid reuse; the envelope ref, the history file and
`aet state reconcile`; verdict and provenance records of a flush, what the integration guards
test, trains of several branches; the hygiene check before a batch and refusals by the lease inside it;
the validation cache and the verifiers of a second model; warm-up of dependencies, mirrored PRDs and
exclude files of a worktree; pull requests of an epic; reports, metrics and usage. Left out
wholly: the remaining parts of section 1, for the reasons given there.

Next, in this order:

1. The validation cache: a hit for another tree or merge base, concurrent producers.
2. `aet state reconcile` and the envelope ref, as commands of `RefStore`.
3. Refusals by the lease inside a batch, by composing `BatchRun` with `RunLease`.
