------------------------------ MODULE TaskBoard ------------------------------
(***************************************************************************)
(* The shared task board of one clone: the records under refs/aet/tasks,   *)
(* the tombstones under refs/aet/sealed, and every command that writes     *)
(* them while it holds the queue lock (src/aet/cli/aet_state.py,           *)
(* src/aet/cli/sprint.py, src/aet/cli/sync.py, src/aet/queue.py).          *)
(*                                                                         *)
(* A command is one step, because queue_lock serialises its               *)
(* read-modify-write cycle, except where the code lets others in:          *)
(*   - a terminal transition saves the board, then seals the record;       *)
(*     the process may die in between, and `aet queue sync`, which takes   *)
(*     no lock, may run in between;                                        *)
(*   - `aet state heal` plans its changes from a board it read before it   *)
(*     took the lock, and takes the lock once per change.                  *)
(***************************************************************************)
EXTENDS Integers, FiniteSets

CONSTANTS
    Task,           \* the task ids plans may carry
    PlanBlockers,   \* PlanBlockers[t]: the blocked_by sets t's plan may declare
    Commands,       \* the maintenance commands the operator uses
    Landings,       \* how the forge merges a branch: on_target, squashed
    Mistakable      \* the commits a task's merge may be mistaken for: its own
                    \* base, one past it

None == "none"
States == {"planned", "ready", "blocked", "in_progress", "awaiting_merge",
           "merged", "abandoned", "failed", "quarantined"}
Terminal == {"merged", "abandoned"}

\* What the record's branch pointer shows: no branch, a branch at its base
\* commit, a branch with commits of its own, one whose tip the integration
\* branch contains, and one whose content a squash merge landed.
Tips == {"none", "base", "ahead", "on_target", "squashed"}

\* The record field merge_commit: not set, the task's base commit, or a later
\* commit of the integration branch.
Commits == {None, "base", "past"}

AllCommands == {"assert", "heal", "reset", "sync", "reingest", "vouch"}

ASSUME PlanAssumption ==
    /\ IsFiniteSet(Task)
    /\ None \notin Task
    /\ PlanBlockers \in [Task -> SUBSET SUBSET Task]
    /\ Commands \subseteq AllCommands
    /\ Landings \subseteq {"on_target", "squashed"}
    /\ Mistakable \subseteq {"base", "past"}

Legal == [planned        |-> {"blocked", "ready", "in_progress", "abandoned"},
          blocked        |-> {"ready", "abandoned"},
          ready          |-> {"in_progress", "failed", "abandoned"},
          in_progress    |-> {"in_progress", "ready", "awaiting_merge",
                              "failed", "quarantined", "abandoned"},
          awaiting_merge |-> {"merged", "abandoned", "in_progress"},
          merged         |-> {},
          abandoned      |-> {},
          failed         |-> {"in_progress", "ready", "blocked",
                              "quarantined", "abandoned"},
          quarantined    |-> {"ready", "abandoned"}]

\* Moves on which an operator asserts readiness or blockage by hand:
\* `aet state transition` does not look at the blockers, and no command of
\* the toolkit issues them.
Asserted == {<<"planned", "blocked">>, <<"planned", "ready">>,
             <<"blocked", "ready">>, <<"failed", "blocked">>}

VARIABLES
    live,       \* tasks with a record under refs/aet/tasks
    sealed,     \* tasks with a tombstone under refs/aet/sealed
    state,      \* record field state
    blockedBy,  \* record field blocked_by
    blocks,     \* record field blocks, the inverse of blocked_by
    pending,    \* record field pending_blockers
    mergeCommit,\* record field merge_commit, of Commits
    tip,        \* what the record's branch pointer shows
    landed,     \* tasks whose commits the integration branch contains
    vouched,    \* history: tasks whose record-merge took a commit nothing ties
                \* to them, on an operator's word or for a similar diff
    sealing,    \* the task a process has saved as terminal and not sealed yet
    healPlan    \* the changes a running `aet state heal --apply` still holds

vars == <<live, sealed, state, blockedBy, blocks, pending, mergeCommit, tip,
          landed, vouched, sealing, healPlan>>
deps == <<blockedBy, blocks>>
gitVars == <<mergeCommit, tip, landed, vouched>>

Change == [task : Task, to : States, recount : BOOLEAN, pending : Nat]

TypeOK ==
    /\ live \subseteq Task
    /\ sealed \subseteq Task
    /\ state \in [Task -> States]
    /\ blockedBy \in [Task -> SUBSET Task]
    /\ blocks \in [Task -> SUBSET Task]
    /\ pending \in [Task -> Nat]
    /\ mergeCommit \in [Task -> Commits]
    /\ tip \in [Task -> Tips]
    /\ landed \subseteq Task
    /\ vouched \subseteq Task
    /\ sealing \in Task \cup {None}
    /\ healPlan \subseteq Change

-----------------------------------------------------------------------------
(* Helpers *)

\* queue_lock is held by a process that is between save and seal.
LockFree == sealing = None

IsTerminal(t) == state[t] \in Terminal

\* The evidence has_merge_evidence accepts: a recorded merge commit other than
\* the base, or a branch past its base, contained in the integration branch
\* (a recorded commit is, whoever chose it).  (The mutant forgets that a
\* branch at its base is contained in the branch, too.)
EvidenceAtBase(t) == mergeCommit[t] = "past" \/ tip[t] \in {"base", "on_target"}
Evidence(t) == mergeCommit[t] = "past" \/ tip[t] = "on_target"

\* The blockers of bs without positive evidence of settlement.
OpenAmong(bs) ==
    {b \in bs : b \notin sealed /\ ~(b \in live /\ IsTerminal(b))}

Open(t) == OpenAmong(blockedBy[t])

\* build_blocks over the tasks of board.  (The mutant forgets to rebuild.)
StaleBlocks(board, by) == blocks
BuildBlocks(board, by) ==
    [b \in Task |-> IF b \in board THEN {t \in board : b \in by[t]}
                                   ELSE blocks[b]]

\* What derive_status reports: the git evidence first, then the blockers; a
\* blocker that is not on the board counts as merged.
DerivesMerged(b) == b \notin live \/ Evidence(b)

Derived(t) ==
    IF Evidence(t) THEN "merged"
    ELSE IF tip[t] \in {"ahead", "on_target", "squashed"} THEN "in_progress"
    ELSE IF \A b \in blockedBy[t] : DerivesMerged(b) THEN "ready"
    ELSE "blocked"

\* The forward frontier: t reaches a terminal state, its dependents count one
\* blocker less, and the waiting ones that reach zero are released.  (Mutants:
\* no floor at zero; a release at the first blocker; a test of the counter
\* before it is decremented.)
Dependents(t) == blocks[t] \cap live

Counted(t, pend) ==
    [d \in Task |-> IF d \in Dependents(t) /\ pend[d] > 0 THEN pend[d] - 1
                                                         ELSE pend[d]]

ReleasedEarly(t, pend) ==
    {d \in Dependents(t) \ {t} : state[d] \in {"blocked", "planned"}}
ReleasedLate(t, pend) ==
    {d \in Dependents(t) \ {t} : /\ pend[d] = 0
                                 /\ state[d] \in {"blocked", "planned"}}
Released(t, pend) ==
    {d \in Dependents(t) \ {t} : /\ Counted(t, pend)[d] = 0
                                 /\ state[d] \in {"blocked", "planned"}}

\* _apply_transition up to backend.save: pend is the counter function the
\* caller loaded (heal and reset adjust it before they call).
Apply(t, to, pend) ==
    IF to \in Terminal
      THEN /\ state' = [d \in Task |->
                            IF d = t THEN to
                            ELSE IF d \in Released(t, pend) THEN "ready"
                            ELSE state[d]]
           /\ pending' = Counted(t, pend)
           /\ sealing' = t
      ELSE /\ state' = [state EXCEPT ![t] = to]
           /\ pending' = pend
           /\ sealing' = None

-----------------------------------------------------------------------------
(* Intake *)

Admissible(t) == t \notin live \cup sealed

\* is_task_inert: no run has touched the record.
Inert(t) ==
    /\ state[t] \in {"planned", "ready", "blocked"}
    /\ tip[t] = "none" /\ mergeCommit[t] = None

\* aet sprint add: admit_plan refuses a task that is live or settled, and
\* new_task_from_plan counts every blocker without evidence as pending.
SprintAdd(t, bs) ==
    /\ LockFree
    /\ Admissible(t)
    /\ bs \in PlanBlockers[t]
    /\ live' = live \cup {t}
    /\ state' = [state EXCEPT ![t] = IF OpenAmong(bs) = {} THEN "ready"
                                                            ELSE "blocked"]
    /\ pending' = [pending EXCEPT ![t] = Cardinality(OpenAmong(bs))]
    /\ blockedBy' = [blockedBy EXCEPT ![t] = bs]
    /\ blocks' = BuildBlocks(live', blockedBy')
    /\ mergeCommit' = [mergeCommit EXCEPT ![t] = None]
    /\ tip' = [tip EXCEPT ![t] = "none"]
    /\ vouched' = vouched \ {t}
    /\ UNCHANGED <<sealed, landed, sealing, healPlan>>

\* aet sprint add on a live task: an inert record takes the plan's new
\* blockers, and its state is computed again.
Reingest(t, bs) ==
    /\ "reingest" \in Commands
    /\ LockFree
    /\ t \in live /\ Inert(t)
    /\ bs \in PlanBlockers[t]
    /\ state' = [state EXCEPT ![t] = IF OpenAmong(bs) = {} THEN "ready"
                                                            ELSE "blocked"]
    /\ pending' = [pending EXCEPT ![t] = Cardinality(OpenAmong(bs))]
    /\ blockedBy' = [blockedBy EXCEPT ![t] = bs]
    /\ blocks' = BuildBlocks(live, blockedBy')
    /\ UNCHANGED <<live, sealed, gitVars, sealing, healPlan>>

-----------------------------------------------------------------------------
(* The recorded-forward lifecycle *)

\* aet state transition.
Transition(t, to) ==
    /\ LockFree
    /\ t \in live
    /\ to \in Legal[state[t]]
    /\ <<state[t], to>> \in Asserted => "assert" \in Commands
    /\ to = "merged" => Evidence(t)
    /\ Apply(t, to, pending)
    /\ UNCHANGED <<live, sealed, deps, gitVars, healPlan>>

\* How resolve_merge_commit finds a merge of the task's branch: the branch tip
\* or the squash commit (the forge names it, or a commit has the same diff), or,
\* for a branch with a diff, the only recent commit of the integration branch
\* whose diff is not far from it, whose ever it is.
Resolved(t) ==
    {how \in {"merge", "drift"} :
        \/ how = "merge" /\ t \in landed /\ tip[t] # None
        \/ how = "drift" /\ tip[t] \in {"ahead", "squashed"}}

\* What cmd_record_merge goes by when it is told no commit: the recorded one,
\* or else what it resolves.
Grounds(t) == IF mergeCommit[t] # None THEN {"recorded"} ELSE Resolved(t)

\* The commit it writes: nothing ties an asserted one or a near match to the
\* task: either may be its base.
Recorded(t, how) ==
    /\ mergeCommit' \in {[mergeCommit EXCEPT ![t] = c] :
                            c \in CASE how = "recorded" -> {mergeCommit[t]}
                                    [] how = "merge" -> {"past"}
                                    [] OTHER -> Mistakable}
    /\ vouched' = IF how \in {"drift", "asserted"} THEN vouched \cup {t}
                                                   ELSE vouched

\* aet state record-merge: records a merge commit and settles the task.  An
\* operator may assert any commit of the integration branch (--merge-commit),
\* or point the record at another branch (--branch).
RecordMerge(t) ==
    /\ LockFree
    /\ t \in live
    /\ "merged" \in Legal[state[t]]
    /\ \/ /\ \E how \in Grounds(t) : Recorded(t, how)
          /\ UNCHANGED tip
       \/ /\ "vouch" \in Commands
          /\ Recorded(t, "asserted")
          /\ \E shown \in (Tips \ {None}) \cup {tip[t]} :
                tip' = [tip EXCEPT ![t] = shown]
    /\ Apply(t, "merged", pending)
    /\ UNCHANGED <<live, sealed, deps, landed, healPlan>>

\* The second half of a terminal transition: backend.seal turns the record
\* into a tombstone, or raises when the record is gone; the lock is freed.
Seal ==
    /\ sealing # None
    /\ IF sealing \in live
         THEN /\ live' = live \ {sealing}
              /\ sealed' = sealed \cup {sealing}
         ELSE UNCHANGED <<live, sealed>>
    /\ sealing' = None
    /\ UNCHANGED <<state, deps, pending, gitVars, healPlan>>

\* The process dies between save and seal; the kernel frees its lock.
CrashBeforeSeal ==
    /\ sealing # None
    /\ sealing' = None
    /\ healPlan' = {}
    /\ UNCHANGED <<live, sealed, state, deps, pending, gitVars>>

-----------------------------------------------------------------------------
(* What git shows of the work *)

\* create_worktree and record_task_meta give a started task its branch.
CreateBranch(t) ==
    /\ LockFree
    /\ t \in live /\ state[t] = "in_progress" /\ tip[t] = "none"
    /\ tip' = [tip EXCEPT ![t] = "base"]
    /\ UNCHANGED <<live, sealed, state, deps, pending, mergeCommit, landed,
                   vouched, sealing, healPlan>>

\* The agent commits on the task branch.
Commit(t) ==
    /\ t \in live /\ state[t] = "in_progress"
    /\ tip[t] \in {"base", "on_target", "squashed"}
    /\ tip' = [tip EXCEPT ![t] = "ahead"]
    /\ UNCHANGED <<live, sealed, state, deps, pending, mergeCommit, landed,
                   vouched, sealing, healPlan>>

\* The branch is merged on the forge, as a merge or as a squash.
Land(t, how) ==
    /\ t \in live /\ tip[t] = "ahead"
    /\ how \in Landings
    /\ tip' = [tip EXCEPT ![t] = how]
    /\ landed' = landed \cup {t}
    /\ UNCHANGED <<live, sealed, state, deps, pending, mergeCommit, vouched,
                   sealing, healPlan>>

\* The merge train lands the staged commit of a task whose branch integrate
\* removed, and records the commit before it asks for the transition.
FlushRecord(t) ==
    /\ LockFree
    /\ t \in live /\ state[t] = "awaiting_merge" /\ tip[t] = "ahead"
    /\ tip' = [tip EXCEPT ![t] = "none"]
    /\ landed' = landed \cup {t}
    /\ mergeCommit' = [mergeCommit EXCEPT ![t] = "past"]
    /\ UNCHANGED <<live, sealed, state, deps, pending, vouched, sealing,
                   healPlan>>

-----------------------------------------------------------------------------
(* Maintenance *)

\* The state cmd_heal proposes for a task of the board it read, the counter
\* it recounts from the recorded states, and whether it proposes a change.
HealTarget(t) ==
    LET d == Derived(t) IN
    IF d = "merged" THEN "merged"
    ELSE IF d = "ready" /\ state[t] \in {"failed", "blocked", "planned"}
      THEN "ready"
    ELSE IF d \in {"ready", "blocked"}
            /\ state[t] \in {"in_progress", "awaiting_merge"}
      THEN d
    ELSE state[t]

Recount(t) == Cardinality({b \in blockedBy[t] \cap live : ~IsTerminal(b)})

Healable(t) ==
    /\ state[t] # "quarantined"
    /\ HealTarget(t) # state[t] \/ Recount(t) # pending[t]

\* aet state heal --apply reads the board without the lock and plans.
HealSnapshot ==
    /\ "heal" \in Commands
    /\ healPlan = {}
    /\ healPlan' = {[task |-> t, to |-> HealTarget(t),
                     recount |-> Recount(t) # pending[t],
                     pending |-> Recount(t)] : t \in {u \in live : Healable(u)}}
    /\ healPlan' # {}
    /\ UNCHANGED <<live, sealed, state, deps, pending, gitVars, sealing>>

\* One planned change, applied under the lock to the board as it is now: the
\* current state is read again, the target is the planned one. A change whose
\* target is a repair skips the legality check; a merge goes through
\* record-merge, which reloads the record, when the task has a branch.
HealApply(c) ==
    /\ LockFree
    /\ c \in healPlan
    /\ healPlan' = healPlan \ {c}
    /\ LET t == c.task
           pend == IF c.recount THEN [pending EXCEPT ![t] = c.pending]
                                ELSE pending
           moves == state[t] # c.to
           viaRecord == moves /\ c.to = "merged" /\ tip[t] # "none"
           refused == /\ moves /\ c.to = "merged"
                      /\ \/ "merged" \notin Legal[state[t]]
                         \/ IF viaRecord THEN Grounds(t) = {} ELSE ~Evidence(t)
       IN  \/ /\ t \notin live \/ refused
              /\ UNCHANGED <<state, pending, mergeCommit, vouched, sealing>>
           \/ /\ t \in live /\ ~moves
              /\ pending' = pend
              /\ UNCHANGED <<state, mergeCommit, vouched, sealing>>
           \/ /\ t \in live /\ moves /\ ~refused
              /\ Apply(t, c.to, IF viaRecord THEN pending ELSE pend)
              /\ IF viaRecord THEN \E how \in Grounds(t) : Recorded(t, how)
                               ELSE UNCHANGED <<mergeCommit, vouched>>
    /\ UNCHANGED <<live, sealed, deps, tip, landed>>

\* aet state reset [--hard]: the record goes back to ready or blocked by what
\* git shows of its blockers, whatever its state was.
Reset(t, hard) ==
    /\ "reset" \in Commands
    /\ LockFree
    /\ t \in live
    /\ LET to == IF \A b \in blockedBy[t] : DerivesMerged(b) THEN "ready"
                                                             ELSE "blocked"
           count == Cardinality({b \in blockedBy[t] : ~DerivesMerged(b)})
       IN  Apply(t, to, [pending EXCEPT ![t] = count])
    /\ tip' = IF hard THEN [tip EXCEPT ![t] = "none"] ELSE tip
    /\ UNCHANGED <<live, sealed, deps, mergeCommit, landed, vouched,
                   healPlan>>

\* aet queue sync drops terminal records from the board; it takes no lock and
\* writes no tombstone.
Sync ==
    /\ "sync" \in Commands
    /\ LET board == {t \in live : ~IsTerminal(t)}
       IN  /\ live' = board
           /\ blocks' = BuildBlocks(board, blockedBy)
    /\ UNCHANGED <<sealed, state, blockedBy, pending, gitVars, sealing,
                   healPlan>>

-----------------------------------------------------------------------------
(* A board may hold records an older intake left at planned. *)

Init ==
    /\ live \in SUBSET Task
    /\ sealed = {}
    /\ state = [t \in Task |-> "planned"]
    /\ blockedBy \in [Task -> SUBSET Task]
    /\ \A t \in Task : blockedBy[t] \in IF t \in live THEN PlanBlockers[t]
                                                      ELSE {{}}
    /\ blocks = [b \in Task |-> IF b \in live THEN {t \in live : b \in blockedBy[t]}
                                              ELSE {}]
    /\ pending = [t \in Task |-> Cardinality(blockedBy[t])]
    /\ mergeCommit = [t \in Task |-> None]
    /\ tip = [t \in Task |-> "none"]
    /\ landed = {}
    /\ vouched = {}
    /\ sealing = None
    /\ healPlan = {}

Next ==
    \/ \E t \in Task :
          \/ \E bs \in PlanBlockers[t] : SprintAdd(t, bs) \/ Reingest(t, bs)
          \/ \E to \in States : Transition(t, to)
          \/ RecordMerge(t)
          \/ CreateBranch(t)
          \/ Commit(t)
          \/ \E how \in Landings : Land(t, how)
          \/ FlushRecord(t)
          \/ \E hard \in BOOLEAN : Reset(t, hard)
    \/ Seal
    \/ CrashBeforeSeal
    \/ HealSnapshot
    \/ \E c \in healPlan : HealApply(c)
    \/ Sync

Spec == Init /\ [][Next]_vars

-----------------------------------------------------------------------------
(* Properties *)

\* pending_blockers of a record on the board is the number of its blockers
\* that have not settled: the counter _apply_transition decrements one blocker
\* at a time agrees with what new_task_from_plan would count now.
FrontierExact ==
    \A t \in live : pending[t] = Cardinality(Open(t))

\* No task waits for nothing: a blocked record has a blocker that is not
\* settled, so the transition that settles it is still to come.
BlockedIsWaiting ==
    \A t \in live : state[t] = "blocked" => Open(t) # {}

\* A record says "merged" only after its commits reached the integration
\* branch, on every path (transition, record-merge, heal's repairs, a flush)
\* and however often it was reset or added again since, unless its present
\* record got its merge commit on an operator's word or from a near match of
\* diffs (the evidence guards of validate_transition, of _apply_transition's
\* repairs and of record-merge).
MergedIsLanded ==
    \A t \in live \cup sealed :
        state[t] = "merged" => t \in landed \cup vouched

\* blocks is the exact inverse of blocked_by between live records: a terminal
\* transition reaches every dependent and no other, through adds,
\* re-ingestion with new blockers, sealing and sync.
BlocksExact ==
    \A b, t \in live : t \in blocks[b] <=> b \in blockedBy[t]

\* A task with a tombstone is never on the board again (admit_plan refuses
\* settled ids, and seal moves the record in one ref transaction).
SettledStaysOff == live \cap sealed = {}

-----------------------------------------------------------------------------
(* The board implements the dependency gate. *)

Standing(t) ==
    IF t \in sealed THEN "settled"
    ELSE IF t \notin live THEN "absent"
    ELSE IF IsTerminal(t) THEN "settled"
    ELSE IF state[t] = "blocked" THEN "waiting"
    ELSE IF state[t] = "planned" THEN "listed"
    ELSE "open"

Gate == INSTANCE DependencyGate
            WITH status <- [t \in Task |-> Standing(t)], needs <- blockedBy

\* Counter, inverse edges and two-step settlement implement the gate: every
\* step of the board is a step of DependencyGate or changes nothing it shows.
GateSpec == Gate!Spec
=============================================================================
