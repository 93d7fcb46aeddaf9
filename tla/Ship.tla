--------------------------------- MODULE Ship ---------------------------------
(***************************************************************************)
(* The commands of `aet ship` on one task branch: the pre-merge gate, the  *)
(* push and the pull request, the integration, the split of a commit and   *)
(* the closure with its deletion of the branch (src/aet/cli/ship.py and    *)
(* what it calls in integrate.py and aet_state.py).                        *)
(*                                                                         *)
(* Between any two steps of a command a session edits and commits in the   *)
(* task's worktree, a colleague pushes to the branch, the trunk advances   *)
(* and a reviewer merges the pull request.                                 *)
(*                                                                         *)
(* A tip is a version of the trunk and the sequence of commits on it; a    *)
(* commit is the set of files it changes.  Each file is changed once.      *)
(***************************************************************************)
EXTENDS Integers, FiniteSets, SequencesExt

CONSTANTS
    Files,      \* files a session may change
    Version,    \* the one the release guard refuses
    Tasks,      \* Tasks[i]: the files the i-th task of the plan declares
    Groups,     \* what an operator may pass to `aet ship split`
    Clash,      \* Clash[v]: files in conflict with the v-th trunk version
    MaxCommands,\* bound on the commands run
    Near,       \* trunk versions within the drift threshold of any branch
    Nil

ASSUME ShipAssumption ==
    /\ Tasks \in Seq(SUBSET Files)
    /\ Groups \subseteq Seq(UNION {ToSet(g) : g \in Groups})
    /\ MaxCommands \in Nat

VARIABLES
    op,         \* the command that runs, with its local variables; op.pre, the
                \* branch before it was rewritten, is in a gate history only
    tips,       \* local, origin and its tracking ref: a tip or Nil each
    known,      \* the trunk version of the tracking ref origin/<trunk>
    dir,        \* the task's worktree, or Nil
    trunk,      \* trunk[v]: the files of the task that the v-th version landed
    pr,         \* "none", "open" or "merged"
    board,      \* the task's state
    staged,     \* files of the task on the merge train
    late        \* history: files changed or committed since the gate saw a
                \* clean worktree, or since the tree was squashed

shipVars == <<op, tips, known, dir, trunk, pr, board, staged, late>>
world == <<trunk, pr, board, staged>>

ShipCommands == {"gate", "open", "default", "open-epic", "merge", "split",
             "close", "close-delete"}
Idle == [begun |-> 0, cmd |-> Nil, at |-> "idle", second |-> FALSE, rebased |-> FALSE,
         base |-> "trunk", tested |-> Nil, head |-> Nil, pre |-> Nil,
         groups |-> <<>>]

\* Another task's branch, which this one may be stacked on.
ParentWork == {"parent"}

ShipInit ==
    /\ op = Idle /\ known = 0 /\ trunk = <<>> /\ pr = "none"
    /\ board = "in_progress" /\ staged = {} /\ late = {}
    /\ \E l \in {<<>>, <<ParentWork>>} :
          tips = [local |-> [base |-> 0, log |-> l], origin |-> Nil,
                  tracking |-> Nil]
    /\ dir = [edits |-> {}, midway |-> FALSE]

-----------------------------------------------------------------------------
(* Branches                                                                *)

Work(t) == UNION ToSet(t.log)
Landed == UNION ToSet(trunk)
Written ==
    (UNION {Work(tips[r]) : r \in {x \in DOMAIN tips : tips[x] # Nil}})
        \cup (IF dir = Nil THEN {} ELSE dir.edits) \cup Landed \cup staged

FastForward(old, new) ==
    old # Nil => old.base = new.base /\ IsPrefix(old.log, new.log)

\* A commit whose change the new base has already is dropped.
Without(log, there) ==
    LET kept[i \in 0..Len(log)] ==
            IF i = 0 THEN <<>>
            ELSE IF log[i] \subseteq there THEN kept[i - 1]
            ELSE Append(kept[i - 1], log[i])
    IN kept[Len(log)]
Replayed(t, v) ==
    [base |-> v, log |-> Without(t.log, UNION {trunk[i] : i \in 1..v})]
Conflicts(t, v) ==
    Work(t)
      \cap UNION {Clash[i] : i \in ((t.base + 1)..v) \cap DOMAIN Clash} # {}

\* _resolve_feature_branch
Feature == IF tips.local # Nil THEN tips.local ELSE tips.tracking

\* _determine_pr_base: the parent is looked for only when the trunk has moved.
Stacked(t) ==
    /\ t.base = 0 /\ known # 0 /\ t.log # <<>> /\ Head(t.log) = ParentWork
BaseOf(t) == IF Stacked(t) THEN "parent" ELSE "trunk"
OwnCommits(t, b) == IF b = "parent" THEN Tail(t.log) ELSE t.log

\* is_monolithic_commit, and the groups parse_task_file_mappings finds
Monolithic(t, b) == Len(OwnCommits(t, b)) = 1 /\ Len(Tasks) > 1
PlanGroups(t) ==
    Without([i \in DOMAIN Tasks |-> Tasks[i] \cap Work(t)], {})
Splittable(t) ==
    LET g == PlanGroups(t) IN
    /\ Len(g) > 1 /\ UNION ToSet(g) = Work(t)
    /\ \A i, j \in DOMAIN g : i # j => g[i] \cap g[j] = {}

-----------------------------------------------------------------------------
(* Commands start and end                                                  *)

At(p) == op.at = p
Goto(p) == op' = [op EXCEPT !.at = p]
End == op' = [Idle EXCEPT !.begun = op.begun]

FirstStep(c) ==
    CASE c \in {"gate", "open", "default"} -> "workspace"
      [] c = "open-epic" -> "flush first"
      [] c = "merge" -> "precheck"
      [] c = "split" -> "split"
      [] OTHER -> "close"

\* _resolve_ship_task: a task recorded merged ends the command with exit 0.
Begin(c) ==
    /\ At("idle") /\ op.begun < MaxCommands
    /\ c \in {"gate", "open", "default", "merge", "split"} => board # "merged"
    /\ op' = [Idle EXCEPT !.begun = op.begun + 1, !.cmd = c, !.at = FirstStep(c)]
    /\ UNCHANGED <<tips, known, dir, world, late>>

\* cmd_open_epic flushes the branch's train first.
FlushFirst ==
    /\ At("flush first")
    /\ Goto("workspace") \/ End
    /\ UNCHANGED <<tips, known, dir, world, late>>

-----------------------------------------------------------------------------
(* The gate                                                                *)

Fetched ==
    /\ tips' = [tips EXCEPT !.tracking = tips.origin]
    /\ known' = Len(trunk)

\* The gate works in the task's worktree or in a temporary one, which git
\* refuses for a branch that a stopped rebase elsewhere holds.
Fetch ==
    /\ At("workspace")
    /\ \/ /\ Feature # Nil /\ (dir # Nil => ~dir.midway)
          /\ Fetched /\ Goto("rebase")
       \/ End /\ UNCHANGED <<tips, known>>
    /\ UNCHANGED <<dir, world, late>>

Dirty == dir # Nil /\ dir.edits # {}

\* A rebase in the task's own worktree that stops is left there; git refuses
\* to start one with uncommitted changes.  The rebase of a tracking ref
\* happens on a detached HEAD that goes with the temporary worktree.
Rebase ==
    /\ At("rebase")
    /\ IF Feature = Nil THEN End /\ UNCHANGED <<tips, dir>>
       ELSE LET t == Feature IN
         \/ /\ Stacked(t) \/ t.base = known
            /\ op' = [op EXCEPT !.at = "clean", !.rebased = FALSE,
                                !.base = BaseOf(t), !.head = t, !.pre = t]
            /\ UNCHANGED <<tips, dir>>
         \/ /\ ~Stacked(t) /\ t.base # known
            /\ ~Dirty /\ ~Conflicts(t, known)
            /\ op' = [op EXCEPT !.at = "clean", !.rebased = TRUE, !.pre = t,
                                !.base = "trunk", !.head = Replayed(t, known)]
            /\ tips' = IF tips.local = Nil THEN tips
                       ELSE [tips EXCEPT !.local = Replayed(t, known)]
            /\ UNCHANGED dir
         \/ /\ ~Stacked(t) /\ t.base # known
            /\ Dirty \/ Conflicts(t, known)
            /\ End
            /\ dir' = IF Dirty \/ dir = Nil \/ tips.local = Nil THEN dir
                      ELSE [dir EXCEPT !.midway = TRUE]
            /\ UNCHANGED tips
    /\ UNCHANGED <<known, world, late>>

NeverRefused == FALSE
RefusedDirty == Dirty

Clean ==
    /\ At("clean") /\ late' = {}
    /\ IF RefusedDirty THEN End ELSE Goto("check")
    /\ UNCHANGED <<tips, known, dir, world>>

\* The files the test command sees
InWorkspace(t) == Work(t) \cup (IF dir = Nil THEN {} ELSE dir.edits)

\* pre_integration_check, in the workspace and so on what is in it now
Check ==
    /\ At("check")
    /\ LET t == IF tips.local # Nil THEN tips.local ELSE op.head IN
         \/ End
         \/ op' = [op EXCEPT !.at = "verdict",
                      !.tested = [base |-> t.base, work |-> InWorkspace(t)]]
    /\ UNCHANGED <<tips, known, dir, world, late>>

\* The verify verdict is there or not.  The default command runs the gate and
\* then `open`, which runs it again.
Verdict ==
    /\ At("verdict")
    /\ \/ End
       \/ op.cmd = "default" /\ ~op.second /\ board # "merged"
          /\ op' = [op EXCEPT !.at = "workspace", !.second = TRUE]
       \/ /\ op.cmd # "gate" /\ (op.cmd = "default" => op.second)
          /\ Goto("guard")
    /\ UNCHANGED <<tips, known, dir, world, late>>

-----------------------------------------------------------------------------
(* The push and the pull request                                           *)

\* check_release_guard, and but for an epic the monolithic-commit guard, on
\* the commits between the base and the branch
Guard ==
    /\ At("guard")
    /\ LET t == Feature IN
         IF \/ Version \in UNION ToSet(OwnCommits(t, op.base))
            \/ op.cmd # "open-epic" /\ Monolithic(t, op.base)
         THEN End ELSE Goto("push")
    /\ UNCHANGED <<tips, known, dir, world, late>>

AlwaysForced == tips.origin = tips.tracking

\* _push_branch: after a rebase the lease is on the tracking ref the gate
\* fetched; otherwise git takes a fast-forward only.
Accepted ==
    IF op.rebased THEN tips.origin = tips.tracking
    ELSE FastForward(tips.origin, tips.local)

Push ==
    /\ At("push")
    /\ \/ /\ tips.local # Nil /\ Accepted
          /\ tips' = [tips EXCEPT !.origin = tips.local, !.tracking = tips.local]
          /\ Goto("pull request")
       \/ End /\ UNCHANGED tips
    /\ UNCHANGED <<known, dir, world, late>>

\* `open` leaves it to gh to refuse a second pull request; `open-epic` looks.
PullRequest ==
    /\ At("pull request") /\ End
    /\ pr' \in IF pr = "open" THEN {"open"} ELSE {pr, "open"}
    /\ UNCHANGED <<tips, known, dir, trunk, board, staged, late>>

-----------------------------------------------------------------------------
(* aet ship merge                                                          *)

\* integrate before its lock: the command runs in the task's worktree as it is.
PreCheck ==
    /\ At("precheck")
    /\ \/ Feature = Nil /\ End /\ UNCHANGED board
       \/ Feature # Nil /\ board' = "awaiting_merge" /\ End
       \/ Feature # Nil /\ Goto("wipe") /\ UNCHANGED board
    /\ UNCHANGED <<tips, known, dir, trunk, pr, staged, late>>

\* reset --hard, clean -fd
Wipe ==
    /\ At("wipe") /\ Goto("restack")
    /\ dir' = IF dir = Nil THEN Nil ELSE [dir EXCEPT !.edits = {}]
    /\ UNCHANGED <<tips, known, world, late>>

\* The workspace is on the local branch, or on no branch.
Moved(t) == IF tips.local = Nil THEN tips ELSE [tips EXCEPT !.local = t]

\* Under the integration lock: the rebase on the train, aborted when it
\* stops, which also ends one that had stopped before.
Restack ==
    /\ At("restack")
    /\ known' = Len(trunk)
    /\ LET t == Feature
           stops == t = Nil \/ (dir # Nil /\ (Dirty \/ dir.midway))
                       \/ (t # Nil /\ Conflicts(t, known'))
       IN IF stops
          THEN /\ End /\ board' = "awaiting_merge"
               /\ dir' = IF dir = Nil THEN Nil ELSE [dir EXCEPT !.midway = FALSE]
               /\ UNCHANGED tips
          ELSE /\ op' = [op EXCEPT !.at = "merge guards", !.pre = t,
                                   !.head = Replayed(t, known')]
               /\ tips' = Moved(Replayed(t, known'))
               /\ UNCHANGED <<dir, board>>
    /\ UNCHANGED <<trunk, pr, staged, late>>

\* Refused, the branch is what it was before the rebase; a single commit is
\* split along the plan's tasks when the plan says how.
MergeGuards ==
    /\ At("merge guards")
    /\ LET t == op.head
           refused == \/ Version \in Work(t)
                      \/ Monolithic(t, "trunk") /\ ~Splittable(t)
           new == IF Monolithic(t, "trunk")
                  THEN [t EXCEPT !.log = PlanGroups(t)] ELSE t
       IN IF refused
          THEN /\ End /\ tips' = Moved(op.pre) /\ board' = "awaiting_merge"
          ELSE /\ op' = [op EXCEPT !.at = "stage", !.head = new]
               /\ tips' = Moved(new) /\ UNCHANGED board
    /\ dir' = IF dir = Nil THEN Nil ELSE [dir EXCEPT !.edits = {}]
    /\ UNCHANGED <<known, trunk, pr, staged, late>>

\* Missing evidence raises.  The tree of HEAD goes on the train, then the
\* worktree is removed and the local branch deleted.
Squash ==
    /\ At("stage") /\ late' = {}
    /\ \/ End /\ UNCHANGED staged
       \/ /\ Goto("remove")
          /\ staged' = Work(IF tips.local # Nil THEN tips.local ELSE op.head)
    /\ UNCHANGED <<tips, known, dir, trunk, pr, board>>

CleanUp ==
    /\ At("remove") /\ Goto("mark")
    /\ dir' = Nil /\ tips' = [tips EXCEPT !.local = Nil]
    /\ UNCHANGED <<known, world, late>>

Mark ==
    /\ At("mark") /\ Goto("flush") /\ board' = "awaiting_merge"
    /\ UNCHANGED <<tips, known, dir, trunk, pr, staged, late>>

\* train.flush: green, red, or green without this task, which it ejects.
Flush ==
    /\ At("flush") /\ End
    /\ \/ /\ trunk' = Append(trunk, staged) /\ staged' = {} /\ board' = "merged"
       \/ UNCHANGED <<trunk, staged, board>>
       \/ staged' = {} /\ board' = "failed" /\ UNCHANGED trunk
    /\ UNCHANGED <<tips, known, dir, pr, late>>

-----------------------------------------------------------------------------
(* aet ship split                                                          *)

Dropped(t) == {}
Kept(t) == Work(t)

\* In the task's worktree, on its branch, clean.  reset --soft goes to the
\* base as this clone knows it: when that has moved, the files in the
\* worktree are older than their base.
SplitReset ==
    /\ At("split")
    /\ IF dir = Nil \/ Dirty \/ tips.local = Nil \/ dir.midway
          \/ OwnCommits(tips.local, BaseOf(tips.local)) = <<>>
       THEN End /\ UNCHANGED <<tips, dir>>
       ELSE LET t == tips.local
                onto == BaseOf(t) IN
            /\ \E g \in Groups :
                  op' = [op EXCEPT !.at = "splitting", !.groups = g, !.pre = t]
            /\ tips' = [tips EXCEPT !.local =
                          IF onto = "parent" THEN [t EXCEPT !.log = <<ParentWork>>]
                          ELSE [base |-> known, log |-> <<>>]]
            /\ dir' = [dir EXCEPT !.edits =
                          IF onto = "parent" THEN Kept(t) \ ParentWork ELSE Kept(t)]
    /\ UNCHANGED <<known, world, late>>

\* A path git does not know, or nothing to commit, raises and leaves the rest
\* uncommitted.
SplitGroup ==
    /\ At("splitting") /\ op.groups # <<>>
    /\ LET g == Head(op.groups)
           s == g \cap dir.edits IN
       IF s = {} \/ ~(g \subseteq Written)
       THEN End /\ UNCHANGED <<tips, dir>>
       ELSE /\ op' = [op EXCEPT !.groups = Tail(@)]
            /\ tips' = [tips EXCEPT !.local.log = Append(@, s)]
            /\ dir' = [dir EXCEPT !.edits = @ \ s]
    /\ UNCHANGED <<known, world, late>>

\* The post-condition decides the exit code and changes nothing.
SplitEnd ==
    /\ At("splitting") /\ op.groups = <<>> /\ End
    /\ UNCHANGED <<tips, known, dir, world, late>>

-----------------------------------------------------------------------------
(* aet ship close                                                          *)

\* resolve_merge_commit: the pull request's merge commit, a trunk commit with
\* the branch's diff, or the only one within the drift threshold of it
Exact(t) == {v \in DOMAIN trunk : trunk[v] = Work(t) /\ Work(t) # {}}
Drifted == {v \in DOMAIN trunk : v \in Near}
Resolves ==
    \/ pr = "merged"
    \/ /\ tips.local # Nil /\ Work(tips.local) # {}
       /\ Exact(tips.local) # {} \/ Cardinality(Drifted) = 1

\* Any commit of the trunk passes as --merge-commit.  The transition may be
\* refused, and the mandatory push may fail after the record is saved.
Asserted == Len(trunk) > 0

Record ==
    /\ At("close")
    /\ IF board = "merged"
       THEN Goto("delete") /\ UNCHANGED <<tips, known, board>>
       ELSE \/ End /\ UNCHANGED <<tips, known, board>>
            \/ /\ Fetched
               /\ \/ /\ Resolves \/ Asserted
                     /\ board' = "merged" /\ (Goto("delete") \/ End)
                  \/ End /\ UNCHANGED board
    /\ UNCHANGED <<dir, trunk, pr, staged, late>>

\* git keeps a branch that is checked out in a worktree.
Delete ==
    /\ At("delete") /\ End
    /\ tips' = IF op.cmd # "close-delete" THEN tips
               ELSE [local |-> IF dir # Nil THEN tips.local ELSE Nil,
                     origin |-> Nil, tracking |-> Nil]
    /\ UNCHANGED <<known, dir, world, late>>

-----------------------------------------------------------------------------
(* The session, the colleague, the reviewer and the trunk                  *)

Later(fs) ==
    IF op.at \in {"check", "verdict", "guard", "push", "remove"}
    THEN late \cup fs ELSE {}

Edit(f) ==
    /\ dir # Nil /\ f \notin Written
    /\ dir' = [dir EXCEPT !.edits = @ \cup {f}]
    /\ late' = Later({f})
    /\ UNCHANGED <<op, tips, known, world>>

Commit ==
    /\ Dirty /\ ~dir.midway /\ tips.local # Nil
    /\ tips' = [tips EXCEPT !.local.log = Append(@, dir.edits)]
    /\ dir' = [dir EXCEPT !.edits = {}] /\ late' = Later(dir.edits)
    /\ UNCHANGED <<op, known, world>>

\* The operator resolves the conflicts of the rebase the gate left, or aborts.
Resolve ==
    /\ dir # Nil /\ dir.midway
    /\ dir' = [dir EXCEPT !.midway = FALSE]
    /\ tips' \in {tips, [tips EXCEPT !.local = Replayed(@, known)]}
    /\ UNCHANGED <<op, known, world, late>>

\* Somebody pushes a commit on top of the branch.
Colleague ==
    /\ tips.origin # Nil /\ {"foreign"} \notin ToSet(tips.origin.log)
    /\ tips' = [tips EXCEPT !.origin.log = Append(@, {"foreign"})]
    /\ UNCHANGED <<op, known, dir, world, late>>

Land(w) ==
    /\ Len(trunk) < Len(Clash) /\ trunk' = Append(trunk, w)
    /\ UNCHANGED <<op, tips, known, dir, board, staged, late>>

TrunkMoves == Land({}) /\ UNCHANGED pr

\* A squash merge of what is pushed
Review ==
    /\ pr = "open" /\ tips.origin # Nil /\ Land(Work(tips.origin))
    /\ pr' = "merged"

-----------------------------------------------------------------------------

Gate == Fetch \/ Rebase \/ Clean \/ Check \/ Verdict
Open == FlushFirst \/ Guard \/ Push \/ PullRequest
Merge == PreCheck \/ Wipe \/ Restack \/ MergeGuards \/ Squash \/ CleanUp \/ Mark
         \/ Flush
Split == SplitReset \/ SplitGroup \/ SplitEnd
Close == Record \/ Delete
Surroundings ==
    \/ \E f \in Files : Edit(f)
    \/ Commit \/ Resolve \/ Colleague \/ TrunkMoves \/ Review

ShipNext ==
    \/ \E c \in ShipCommands : Begin(c)
    \/ Gate \/ Open \/ Merge \/ Split \/ Close \/ Surroundings

ShipSpec == ShipInit /\ [][ShipNext]_shipVars

-----------------------------------------------------------------------------

\* A command pushes what the gate it ran has tested, on the trunk version it
\* was tested on, but for what the session changed after the gate had found
\* the worktree clean (_run_gate, _push_branch).
PushedIsTested ==
    [][At("push") /\ op'.at = "pull request" =>
         LET t == tips'.origin IN
         /\ op.tested # Nil /\ op.tested.base = t.base
         /\ (Work(t) \ op.tested.work) \cup (op.tested.work \ Work(t))
               \subseteq late]_shipVars

\* What a push takes off the remote branch: nothing but what has landed, unless
\* the gate of the same command has rebased the branch; and then only what the
\* gate had fetched and the local branch did not hold, such as the commit of a
\* colleague, which the lease of the forced push does not protect.  Nothing is
\* dropped that was pushed after the fetch, and nothing the local branch held,
\* whatever the rebase left out and the session has committed since.  A local
\* branch is deleted once its work is on the train, but for what was committed
\* since the tree was read, or once its task is recorded merged; the remote
\* branch only in the second case (_push_branch, integrate, cmd_ship).
BranchesKeepWork ==
    [][/\ tips.origin # Nil =>
            IF tips'.origin = Nil THEN board' = "merged"
            ELSE LET gone == Work(tips.origin) \ (Work(tips'.origin) \cup Landed)
                 IN gone # {} =>
                        /\ op.rebased
                        /\ gone \subseteq Work(tips.tracking) \ Work(op.pre)
       /\ tips.local # Nil /\ tips'.local = Nil =>
            board' = "merged" \/ Work(tips.local) \subseteq staged' \cup late]_shipVars

\* However a split ends, what the branch held is committed or still in the
\* worktree (cmd_split).
SplitKeepsWork ==
    At("splitting") =>
        Work(op.pre) \subseteq Work(tips.local) \cup dir.edits
================================================================================
