------------------------------ MODULE Worktrees ------------------------------
(***************************************************************************)
(* The git worktree of one task: create_worktree, snapshot_worktree and    *)
(* teardown_worktree of src/aet/worktree.py as run_batch and run_single    *)
(* call them, `aet state reset --hard`, and the closure of the task.       *)
(*                                                                         *)
(* Work is a set of pieces a session has written, a commit each.  A piece  *)
(* is uncommitted in the worktree, committed on the task branch or on the  *)
(* HEAD of a rebase that stopped, saved in a snapshot ref, on the train,   *)
(* or nowhere.  A version of the base branch is a number.                  *)
(***************************************************************************)
EXTENDS Integers, FiniteSets, FiniteSetsExt, Functions

CONSTANTS
    Work,       \* pieces of work
    KindOf,     \* KindOf[p]: "code"; "plan", a change to a tracked file under
                \* docs/plans; "rendered", an untracked file there
    MaxBase,    \* bound on versions of the base
    Clash,      \* Clash[b]: pieces in conflict with the b-th version
    TouchesCode,\* versions of the base that change more than docs/plans
    MaxAttempts,\* bound on attempts at the task, over all runs
    None

WorktreesAssumption ==
    /\ KindOf \in [Work -> {"code", "plan", "rendered"}]
    /\ MaxBase \in Nat /\ Clash \in [1..MaxBase -> SUBSET Work]
    /\ TouchesCode \subseteq 1..MaxBase
    /\ MaxAttempts \in Nat

VARIABLES
    at,         \* where the run is, "off" between two runs
    batch,      \* is the run a batch
    attempts,   \* attempts at the task so far
    fails,      \* attempt_counts[task] of this run
    saved,      \* did the teardown's own snapshot save anything
    remote,     \* does the base have a remote-tracking ref
    upstream,   \* the last version of the base
    seen,       \* the version `base` resolves to
    dir,        \* the worktree, or None: its uncommitted changes, is a
                \* rebase stopped in it, and what sessions then committed on
                \* the detached HEAD
    branch,     \* the task branch, or None
    snap,       \* refs/aet/wip/<task>/<n>, a function of n
    train,      \* pieces put on the train
    closed,
    found       \* history: what create_worktree found in the place of dir

run == <<at, batch, attempts, fails, saved>>
bases == <<remote, upstream, seen>>
git == <<dir, branch, snap, train>>
vars == <<run, bases, git, closed, found>>

Points == {"off", "create", "save", "clear", "refresh", "stuck", "build",
           "rebuild", "drop", "delete", "handed", "session", "cleanup",
           "teardown", "idle", "blocked", "done"}

Dirs == [edits : SUBSET Work, midway : BOOLEAN, head : SUBSET Work]

TypeOK ==
    /\ at \in Points /\ {batch, saved, remote, closed} \subseteq BOOLEAN
    /\ attempts \in 0..MaxAttempts /\ fails \in 0..attempts
    /\ upstream \in 0..MaxBase /\ seen \in 0..upstream
    /\ dir = None \/ dir \in Dirs
    /\ branch = None \/ branch \in [at : 0..seen, own : SUBSET Work]
    /\ \A n \in DOMAIN snap : n \in Nat \ {0} /\ snap[n] \subseteq Work
    /\ train \subseteq Work
    /\ found \in {"none", "clean", "dirty", "midway"}

Init ==
    /\ at = "off" /\ attempts = 0 /\ fails = 0
    /\ batch = FALSE /\ saved = FALSE /\ closed = FALSE
    /\ remote \in BOOLEAN /\ upstream = 0 /\ seen = 0
    /\ dir = None /\ branch = None /\ train = {}
    /\ snap = [n \in {} |-> {}] /\ found = "none"

-----------------------------------------------------------------------------
(* What git and the path rules say of the worktree                         *)

Fresh == [edits |-> {}, midway |-> FALSE, head |-> {}]
OfKind(S, k) == {p \in S : KindOf[p] = k}

\* _remove_deferred_untracked
Cleaned(d) == [d EXCEPT !.edits = @ \ OfKind(@, "rendered")]

\* _worktree_obstructions: uncommitted or unmerged paths outside docs/plans.
\* A rebase that stopped on a plan file is no obstruction.
Obstructed(d) == OfKind(d.edits, "code") # {}

\* Replaying the branch on the base stops at a conflict, with the changes of
\* that commit in the worktree.
Conflicting(b) == b.own \cap UNION {Clash[v] : v \in (b.at + 1)..seen}
Conflicts(b) == Conflicting(b) # {}
Stopped(d) ==
    \E p \in Conflicting(branch) : d = [edits |-> {p}, midway |-> TRUE, head |-> {}]

NeverHasCode(b) == FALSE

\* _worktree_has_non_deferred_changes: the diff of two trees, so what the
\* base has gained counts as well as what the branch has.
HasCode(b) ==
    \/ OfKind(b.own, "code") # {}
    \/ ((b.at + 1)..seen) \cap TouchesCode # {}

\* snapshot_worktree numbers its refs when the caller gives no attempt.
NextNumber == IF DOMAIN snap = {} THEN 1 ELSE Max(DOMAIN snap) + 1

\* A commit on the tip of HEAD.  add -A takes every change, once there is an
\* obstruction at all; in a rebase HEAD is not the branch (what the rebase
\* has replayed so far is left out).
Snapshot(n) ==
    snap' = [m \in DOMAIN snap \cup {n} |->
                IF m # n THEN snap[m]
                ELSE Cleaned(dir).edits
                        \cup (IF dir.midway THEN dir.head ELSE branch.own)]

-----------------------------------------------------------------------------
(* create_worktree                                                         *)

Goto(p) == at' = p /\ UNCHANGED <<batch, attempts, fails, saved>>
Leave ==
    /\ at' = "off" /\ batch' = FALSE /\ fails' = 0 /\ saved' = FALSE
    /\ UNCHANGED attempts

\* run_single, or run_batch at its first attempt; attempt_counts starts empty.
StartRun ==
    /\ at \in {"off", "blocked"} /\ ~closed /\ train = {}
    /\ attempts < MaxAttempts
    /\ at' = "create" /\ batch' \in BOOLEAN
    /\ attempts' = attempts + 1 /\ fails' = 0 /\ saved' = FALSE
    /\ UNCHANGED <<bases, git, closed, found>>

\* The fetch may fail unseen; a local base needs none.
Look ==
    /\ at = "create"
    /\ seen' \in IF remote THEN {seen, upstream} ELSE {upstream}
    /\ dir' = IF dir = None THEN None ELSE Cleaned(dir)
    /\ Goto(CASE dir = None -> "build"
              [] dir # None /\ Obstructed(dir) -> "save"
              [] OTHER -> "refresh")
    /\ found' = CASE dir = None -> "none"
                  [] dir # None /\ Obstructed(dir) ->
                        IF dir.midway THEN "midway" ELSE "dirty"
                  [] OTHER -> "clean"
    /\ UNCHANGED <<remote, upstream, branch, snap, train, closed>>

SaveFirst ==
    /\ at = "save"
    /\ Snapshot(NextNumber)
    /\ Goto("clear")
    /\ UNCHANGED <<bases, dir, branch, train, closed, found>>

Clear ==
    /\ at = "clear"
    /\ dir' = None
    /\ Goto("build")
    /\ UNCHANGED <<bases, branch, snap, train, closed, found>>

\* A local base, a branch at the base already, a change to a plan file or a
\* conflict in one: the worktree is handed over as it is.
AsItIs == ~remote \/ branch = [at |-> seen, own |-> {}] \/ dir.edits # {}

KeepAsIs ==
    /\ at = "refresh" /\ AsItIs
    /\ Goto("handed")
    /\ UNCHANGED <<bases, git, closed, found>>

Rebase ==
    /\ at = "refresh" /\ ~AsItIs
    /\ \/ dir.midway /\ Goto("stuck") /\ UNCHANGED <<dir, branch>>
       \/ ~dir.midway /\ Stopped(dir') /\ Goto("stuck") /\ UNCHANGED branch
       \/ /\ ~dir.midway /\ ~Conflicts(branch)
          /\ branch' = [branch EXCEPT !.at = seen]
          /\ Goto("handed") /\ UNCHANGED dir
    /\ UNCHANGED <<bases, snap, train, closed, found>>

\* rebase --abort, back on the branch; remove_worktree refuses when there is
\* code to lose on it.
Abort ==
    /\ at = "stuck"
    /\ IF HasCode(branch)
       THEN dir' = Fresh /\ Goto("blocked")
       ELSE dir' = None /\ Goto("build")
    /\ UNCHANGED <<bases, branch, snap, train, closed, found>>

\* No worktree: add one, on a branch that is or can be put on the base.
OnBase(b) == b.at = seen
Unborn(b) == b.own = {}

Build ==
    /\ at = "build"
    /\ dir' = Fresh
    /\ IF branch = None \/ (branch # None /\ (OnBase(branch) \/ Unborn(branch)))
       THEN /\ branch' = [at |-> seen,
                          own |-> IF branch = None THEN {} ELSE branch.own]
            /\ Goto("handed")
       ELSE Goto("rebuild") /\ UNCHANGED branch
    /\ UNCHANGED <<bases, snap, train, closed, found>>

Rebuild ==
    /\ at = "rebuild"
    /\ \/ Stopped(dir') /\ Goto("drop") /\ UNCHANGED branch
       \/ /\ ~Conflicts(branch)
          /\ branch' = [branch EXCEPT !.at = seen]
          /\ Goto("handed") /\ UNCHANGED dir
    /\ UNCHANGED <<bases, snap, train, closed, found>>

\* rebase --abort, worktree remove, and then branch -D.
Drop ==
    /\ at = "drop"
    /\ dir' = None
    /\ Goto("delete")
    /\ UNCHANGED <<bases, branch, snap, train, closed, found>>

KeepBranch ==
    /\ at = "delete"
    /\ Goto("build")
    /\ UNCHANGED <<bases, git, closed, found>>

DeleteBranch ==
    /\ at = "delete"
    /\ branch' = None
    /\ Goto("build")
    /\ UNCHANGED <<bases, dir, snap, train, closed, found>>

-----------------------------------------------------------------------------
(* The session, and what the run does when it has ended                    *)

\* render_task_plan writes docs/plans/<task>.md.
Hand ==
    /\ at = "handed"
    /\ dir' = [dir EXCEPT !.edits = @ \cup OfKind(Work, "rendered")]
    /\ Goto("session") /\ found' = "none"
    /\ UNCHANGED <<bases, branch, snap, train, closed>>

Edit(p) ==
    /\ at = "session" /\ p \notin dir.edits \cup dir.head \cup branch.own
    /\ dir' = [dir EXCEPT !.edits = @ \cup {p}]
    /\ UNCHANGED <<run, bases, branch, snap, train, closed, found>>

\* A commit goes on the branch, or on the detached HEAD of a stopped rebase
\* with the resolution of its conflict: git takes none before.
Commit(p) ==
    /\ at = "session" /\ p \in dir.edits /\ KindOf[p] # "rendered"
    /\ LET taken == {p} \cup (dir.edits \cap branch.own) IN
        dir' = [dir EXCEPT !.edits = @ \ taken,
                           !.head = IF dir.midway THEN @ \cup taken ELSE @]
    /\ branch' = [branch EXCEPT !.own = IF dir.midway THEN @ ELSE @ \cup {p}]
    /\ UNCHANGED <<run, bases, snap, train, closed, found>>

\* integrate: the worktree is reset, and a commit of the rebased branch goes on
\* the train; the worktree and the branch are removed, or both stay where git
\* refuses.
Integrate ==
    /\ at = "session" /\ branch.own # {} /\ ~dir.midway
    /\ train' = branch.own
    /\ \/ dir' = None /\ branch' = None
       \/ dir' = Fresh /\ UNCHANGED branch
    /\ Goto("done")
    /\ UNCHANGED <<bases, snap, closed, found>>

\* staged_conflict: the check before it fails, or its rebase does, on a conflict
\* or because one is stopped already, and is aborted.  The worktree stays.
IntegrateStops ==
    /\ at = "session" /\ branch.own # {}
    /\ dir' \in {dir, Fresh}
    /\ Leave
    /\ UNCHANGED <<bases, branch, snap, train, closed, found>>

\* run_single leaves the worktree where it is.
LeaveIt ==
    /\ at = "session" /\ ~batch
    /\ Leave
    /\ UNCHANGED <<bases, git, closed, found>>

\* _finalize_task: cancels, throttles and empty successes do not count.
EndAttempt ==
    /\ at = "session" /\ batch
    /\ at' = "cleanup" /\ fails' \in {fails, fails + 1}
    /\ UNCHANGED <<batch, attempts, saved, bases, git, closed, found>>

\* _snapshot_and_teardown, first half: an attempt that counted gives the
\* snapshot its own number.
Attempt == IF fails > 0 THEN fails ELSE NextNumber

Cleanup ==
    /\ at = "cleanup"
    /\ dir' = Cleaned(dir)
    /\ IF Obstructed(dir)
       THEN Snapshot(Attempt)
       ELSE UNCHANGED snap
    /\ saved' = Obstructed(dir)
    /\ at' = "teardown"
    /\ UNCHANGED <<batch, attempts, fails, bases, branch, train, closed, found>>

\* Second half: by force after a snapshot only; without it git refuses a
\* worktree with changes, and the run goes on.
RemovableAlways == TRUE
Removable == saved \/ dir.edits = {}

Teardown ==
    /\ at = "teardown"
    /\ dir' = IF Removable THEN None ELSE dir
    /\ at' = "idle" /\ saved' = FALSE /\ UNCHANGED <<batch, attempts, fails>>
    /\ UNCHANGED <<bases, branch, snap, train, closed, found>>

Retry ==
    /\ at = "idle" /\ attempts < MaxAttempts
    /\ at' = "create" /\ attempts' = attempts + 1
    /\ UNCHANGED <<batch, fails, saved, bases, git, closed, found>>

EndRun ==
    /\ at = "idle"
    /\ Leave
    /\ UNCHANGED <<bases, git, closed, found>>

-----------------------------------------------------------------------------
(* What happens to it from outside                                         *)

Crash ==
    /\ at \notin {"off", "done", "blocked"}
    /\ Leave
    /\ UNCHANGED <<bases, git, closed, found>>

Advance ==
    /\ upstream < MaxBase
    /\ upstream' = upstream + 1
    /\ UNCHANGED <<run, remote, seen, git, closed, found>>

\* cmd_reset with --hard; lease_guard refuses it during a run.
ResetHard ==
    /\ at \in {"off", "blocked"} /\ ~closed
    /\ dir' = None /\ branch' = None
    /\ Goto("off")
    /\ UNCHANGED <<bases, snap, train, closed, found>>

\* seal_terminal on merged or abandoned deletes the snapshot refs.
Close ==
    /\ at \in {"off", "blocked", "done"} /\ ~closed
    /\ closed' = TRUE /\ snap' = [n \in {} |-> {}]
    /\ UNCHANGED <<run, bases, dir, branch, train, found>>

Prepare ==
    \/ Look \/ SaveFirst \/ Clear \/ KeepAsIs \/ Rebase \/ Abort
    \/ Build \/ Rebuild \/ Drop \/ DeleteBranch \/ Hand
Next ==
    \/ StartRun \/ Prepare
    \/ \E p \in Work : Edit(p) \/ Commit(p)
    \/ Integrate \/ IntegrateStops \/ LeaveIt \/ EndAttempt \/ Cleanup \/ Teardown
    \/ Retry \/ EndRun
    \/ Crash \/ Advance \/ ResetHard \/ Close

\* create_worktree is straight-line code: it goes on while its process lives.
Spec == Init /\ [][Next]_vars /\ WF_vars(Prepare)

-----------------------------------------------------------------------------
(* A worktree is removed only when each of its uncommitted changes is in a  *)
(* snapshot ref, over crashes, retries and later runs, but for the rendered *)
(* plan, a reset the operator asked for and a worktree that was integrated. *)
(* What a stopped rebase has left unmerged is committed on the branch.      *)
UncommittedIsSaved ==
    [][dir # None /\ dir' = None /\ at \notin {"session", "off", "blocked"}
        => \/ dir.edits \subseteq branch.own
           \/ \E n \in DOMAIN snap : dir.edits \subseteq snap[n]]_vars

Commits == (IF branch = None THEN {} ELSE branch.own)
             \cup (IF dir = None THEN {} ELSE dir.head)

(* A branch that conflicts with the base was rebuilt, and create_worktree   *)
(* found no worktree, or one whose rebase a crash had stopped on code.      *)
RebuiltUnsaved == Conflicts(branch) /\ found \in {"none", "midway"}

(* Committed in the middle of a rebase that stopped on a plan file: on no   *)
(* branch, in a worktree that nothing obstructs or that integrate resets.   *)
CommittedMidway(p) ==
    /\ dir # None /\ p \in dir.head \ branch.own
    /\ ~Obstructed(dir) \/ at = "session"

(* Committed code leaves the task branch onto the train, by a hard reset,   *)
(* or where create_worktree rebuilds a branch that conflicts with the base  *)
(* (RebuiltUnsaved), unless a snapshot taken first has the commits.  Code   *)
(* on the branch of a clean worktree stays.  What a session commits in the  *)
(* middle of a rebase goes with the worktree (CommittedMidway), unless      *)
(* uncommitted code beside it has had it saved.                             *)
CommitsAreKept ==
    [][\A p \in OfKind(Work, "code") \cap (Commits \ Commits') :
          \/ p \in train' \/ at \in {"off", "blocked"}
          \/ branch # None /\ p \in branch.own /\ RebuiltUnsaved
          \/ CommittedMidway(p)
          \/ \E n \in DOMAIN snap : p \in snap[n]]_vars

(* Each create_worktree hands a worktree over or halts, unless it crashes.  *)
PrepareEnds ==
    (at = "create") ~> (at \in {"session", "blocked", "off"})
=============================================================================
