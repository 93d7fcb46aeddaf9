-------------------------------- MODULE Epics --------------------------------
(***************************************************************************)
(* Tasks of one queue that integrate into several epic branches            *)
(* (branch_ref.py, ADR-083, integration mode single-pr).  A task's branch  *)
(* is the explicit --base, else the stamp on its record, else what its PRD *)
(* declares, else the name derived from the PRD's file, else trunk.  The   *)
(* batch resolves it before each spawn, refuses a task whose stamp and PRD *)
(* disagree, whose blocker integrates elsewhere or whose branch carries    *)
(* unpushed code, cuts the worktree from the branch and stamps the record; *)
(* run-one resolves it once for the worktree and once more for the record. *)
(* What a branch contains is the set of tasks whose merge commit is in its *)
(* history, and Stray for a commit of the operator.                        *)
(* AET_WORK_BASE_BRANCH acts as --base and config integration_branch as    *)
(* trunk; the train that lands a task is MergeTrain's, here one step.      *)
(***************************************************************************)
EXTENDS Naturals, Sequences

CONSTANTS
    Ticket, BlockersOf,     \* BlockersOf[t]: the tasks that t waits for
    Prd, PrdOf, Derived,    \* PrdOf[t]: its PRD; Derived[p]: feat/<stem of p>
    Branch, Trunk,          \* the epic branches, and the branch they end in
    Bases,                  \* the values --base may take
    MaxRetargets, MaxRuns,  \* bounds on PRD edits and batch runs
    Stray, Null

Refs == Branch \cup {Trunk}

\* The epics are not trunk; a PRD's file names one; --base names a branch.
ASSUME EpicsAssumption ==
    /\ Trunk \notin Branch /\ Null \notin Refs
    /\ BlockersOf \in [Ticket -> SUBSET Ticket]
    /\ PrdOf \in [Ticket -> Prd] /\ Derived \in [Prd -> Branch]
    /\ Bases \subseteq Refs

VARIABLES
    declared,       \* [Prd -> Branch or Null], the frontmatter key `branch`
    state, stamp,   \* the records: state, and integration_branch or Null
    local, origin,  \* [Refs -> contents or Null], refs/heads and refs/remotes
    remote, rootAt, \* is there an origin; the branch the root has checked out
    wt,             \* [Ticket -> its worktree or Null]
    run, one,       \* the batch and the run-one in progress, or Null
    retargets, runs

boardVars == <<state, stamp>>
gitVars == <<local, origin, remote, rootAt>>
bounds == <<retargets, runs>>
epicVars == <<declared, boardVars, gitVars, wt, run, one, bounds>>

-----------------------------------------------------------------------------
(* Resolution *)

FirstKnown(s) ==
    s[CHOOSE i \in DOMAIN s : s[i] # Null /\ \A j \in 1..(i - 1) : s[j] = Null]

\* Steps 4 and 5: the branch the PRD declares, else the one its name derives.
Document(p) == FirstKnown(<<declared[p], Derived[p]>>)

ActiveBranch(t, cli) == FirstKnown(<<cli, Document(PrdOf[t]), Trunk>>)

\* The stamp left out: what integrate() would do if it read the PRD again.
Unstamped(t, cli) == ActiveBranch(t, cli)
BranchOf(t, cli) == FirstKnown(<<cli, stamp[t], ActiveBranch(t, Null)>>)

Mismatch(t, cli) == stamp[t] # Null /\ ActiveBranch(t, cli) # stamp[t]

Contents(c) == IF c = Null THEN {} ELSE c

\* resolve_base_ref: origin/<branch> when there is one, else the local branch.
Tip(b) == IF origin[b] # Null THEN origin[b] ELSE local[b]

\* The blockers that integrate into another branch and are not on trunk yet.
NoneCrosses(t, b, cli) == {}
Crossing(t, b, cli) ==
    {u \in BlockersOf[t] :
        /\ BranchOf(u, cli) # b
        /\ ~(state[u] = "merged" /\ u \in Contents(Tip(Trunk)))}

\* Unpushed code; a diff that cannot be made (no local branch) counts as such.
HygieneProblem(b) ==
    \/ origin[b] # Null /\ ~(local[b] # Null /\ local[b] \subseteq origin[b])
    \/ ~remote /\ rootAt = b

\* ensure_integration_branch, at trunk's base; it never pushes.
Ensured(b) == IF Tip(b) = Null THEN [local EXCEPT ![b] = Tip(Trunk)] ELSE local

-----------------------------------------------------------------------------
(* The board: only what spawning and landing read and write *)

SettledIn(u, st) == st[u] \in {"merged", "abandoned"}
Refreshed(st) == [t \in Ticket |->
    IF st[t] = "blocked" /\ \A u \in BlockersOf[t] : SettledIn(u, st)
    THEN "ready" ELSE st[t]]

EpicsInit ==
    /\ declared = [p \in Prd |-> Null]
    /\ state = [t \in Ticket |->
                  IF BlockersOf[t] = {} THEN "ready" ELSE "blocked"]
    /\ stamp = [t \in Ticket |-> Null]
    /\ remote \in BOOLEAN
    /\ rootAt \in {Trunk, Null}
    /\ local = [b \in Refs |-> IF b = Trunk THEN {} ELSE Null]
    /\ origin = [b \in Refs |-> IF b = Trunk /\ remote THEN {} ELSE Null]
    /\ wt = [t \in Ticket |-> Null]
    /\ run = Null /\ one = Null
    /\ retargets = 0 /\ runs = 0

\* record_task_meta: written once, at branch creation.
Stamped(t, b) == [stamp EXCEPT ![t] = IF @ = Null THEN b ELSE @]

\* create_worktree: cut from the tip, or rebased onto it when it was there.
Cut(t, c, hand) ==
    [wt EXCEPT ![t] = IF @ = Null THEN [has |-> c, hand |-> hand]
                      ELSE [has |-> @.has \cup c, hand |-> @.hand \/ hand]]

Alone == one # Null => one.at = "resolved"
LeaseFree == run = Null /\ Alone

-----------------------------------------------------------------------------
(* The batch *)

StartRun(cli) ==
    /\ LeaseFree /\ runs < MaxRuns /\ runs' = runs + 1
    /\ run' = [cli |-> cli, fine |-> {}, bad |-> {}, skips |-> {}, pick |-> Null]
    /\ UNCHANGED <<declared, boardVars, gitVars, wt, one, retargets>>

Considers(t) == /\ run # Null /\ run.pick = Null
                /\ state[t] = "ready" /\ t \notin run.skips
Skip(t, bad) == run' = [run EXCEPT !.skips = @ \cup {t}, !.bad = @ \cup bad]

\* An epic mismatch or a cross-epic dependency skips the task for this run.
SkipTask(t) ==
    /\ Considers(t)
    /\ \/ Mismatch(t, run.cli)
       \/ Crossing(t, BranchOf(t, run.cli), run.cli) # {}
    /\ Skip(t, {})
    /\ UNCHANGED <<declared, boardVars, gitVars, wt, one, bounds>>

Passes(t) == /\ Considers(t) /\ ~Mismatch(t, run.cli)
             /\ Crossing(t, BranchOf(t, run.cli), run.cli) = {}

\* hygiene_by_branch: each branch is judged once in a run.
SkipBranch(t) ==
    /\ Passes(t)
    /\ LET ref == BranchOf(t, run.cli)
       IN  /\ ref \in run.bad \/ (ref \notin run.fine /\ HygieneProblem(ref))
           /\ Skip(t, {ref})
    /\ UNCHANGED <<declared, boardVars, gitVars, wt, one, bounds>>

Pick(t) ==
    /\ Passes(t)
    /\ LET ref == BranchOf(t, run.cli)
       IN  /\ ref \in run.fine \/ (ref \notin run.bad /\ ~HygieneProblem(ref))
           /\ run' = [run EXCEPT !.fine = @ \cup {ref},
                                 !.pick = [task |-> t, ref |-> ref]]
           /\ local' = Ensured(ref)
    /\ UNCHANGED <<declared, boardVars, origin, remote, rootAt, wt, one, bounds>>

Spawn ==
    /\ run # Null /\ run.pick # Null
    /\ LET t == run.pick.task
           ref == run.pick.ref
       IN  /\ state' = [state EXCEPT ![t] = "in_progress"]
           /\ stamp' = Stamped(t, ref)
           /\ wt' = Cut(t, Contents(Tip(ref)), FALSE)
    /\ run' = [run EXCEPT !.pick = Null]
    /\ UNCHANGED <<declared, gitVars, one, bounds>>

EndRun ==
    /\ run # Null /\ run.pick = Null
    /\ \A t \in Ticket : state[t] # "in_progress"
    /\ run' = Null
    /\ UNCHANGED <<declared, boardVars, gitVars, wt, one, bounds>>

-----------------------------------------------------------------------------
(* run-one and next *)

\* Before the lease: intake, the branch, its hygiene.
OneResolve(t, cli) ==
    /\ one = Null /\ state[t] = "ready"
    /\ LET ref == BranchOf(t, cli)
       IN  /\ ~HygieneProblem(ref)
           /\ one' = [at |-> "resolved", task |-> t, ref |-> ref, cli |-> cli]
    /\ UNCHANGED <<declared, boardVars, gitVars, wt, run, bounds>>

\* With the lease: the mismatch check (no cross-epic check), the branch, the
\* worktree, and the record, whose stamp is resolved anew and without --base.
OneStart ==
    /\ LeaseFree /\ one # Null
    /\ LET t == one.task
       IN  /\ state[t] = "ready" /\ ~Mismatch(t, one.cli)
           /\ local' = Ensured(one.ref)
           /\ wt' = Cut(t, IF origin[one.ref] # Null THEN origin[one.ref]
                           ELSE Contents(local'[one.ref]), TRUE)
           /\ state' = [state EXCEPT ![t] = "in_progress"]
           /\ stamp' = Stamped(t, BranchOf(t, Null))
    /\ one' = [one EXCEPT !.at = "running"]
    /\ UNCHANGED <<declared, origin, remote, rootAt, run, bounds>>

\* Refused (the lease, a mismatch), or its task is no longer running.
OneEnds ==
    /\ one # Null
    /\ one.at = "running" => state[one.task] # "in_progress"
    /\ one' = Null
    /\ UNCHANGED <<declared, boardVars, gitVars, wt, run, bounds>>

\* aet next hands a ready task to a human; it stamps, and cuts no worktree.
Take(t) ==
    /\ LeaseFree /\ state[t] = "ready"
    /\ state' = [state EXCEPT ![t] = "taken"]
    /\ stamp' = Stamped(t, BranchOf(t, Null))
    /\ UNCHANGED <<declared, gitVars, wt, run, one, bounds>>

-----------------------------------------------------------------------------
(* The end of a task, and its reset *)

\* integrate and a green flush: rebased onto the tip, what the worktree holds
\* lands with it.  A branch that the root has checked out is only pushed.
Land(t) ==
    /\ state[t] = "in_progress"
    /\ LET ref == BranchOf(t, Null)
           new == Tip(ref) \cup wt[t].has \cup {t}
       IN  /\ Tip(ref) # Null
           /\ remote \/ rootAt # ref
           /\ origin' = IF remote THEN [origin EXCEPT ![ref] = new] ELSE origin
           /\ local' = IF rootAt = ref THEN local ELSE [local EXCEPT ![ref] = new]
    /\ state' = Refreshed([state EXCEPT ![t] = "merged"])
    /\ wt' = [wt EXCEPT ![t] = Null]
    /\ UNCHANGED <<declared, stamp, remote, rootAt, run, one, bounds>>

Fail(t) ==
    /\ state[t] = "in_progress"
    /\ state' = [state EXCEPT ![t] = "failed"]
    /\ UNCHANGED <<declared, stamp, gitVars, wt, run, one, bounds>>

Abandon(t) ==
    /\ LeaseFree /\ state[t] \in {"blocked", "ready", "failed"}
    /\ state' = Refreshed([state EXCEPT ![t] = "abandoned"])
    /\ UNCHANGED <<declared, stamp, gitVars, wt, run, one, bounds>>

\* Hard or soft, the stamp is not among the fields a reset clears.
ResetTask(t, hard) ==
    /\ LeaseFree /\ state[t] \in {"failed", "taken", "ready"}
    /\ state' = [state EXCEPT ![t] =
            IF \A u \in BlockersOf[t] : SettledIn(u, state)
            THEN "ready" ELSE "blocked"]
    /\ wt' = IF hard THEN [wt EXCEPT ![t] = Null] ELSE wt
    /\ UNCHANGED <<declared, stamp, gitVars, run, one, bounds>>

-----------------------------------------------------------------------------
(* The operator *)

Retarget(p, b) ==
    /\ retargets < MaxRetargets /\ retargets' = retargets + 1
    /\ declared[p] # b /\ declared' = [declared EXCEPT ![p] = b]
    /\ UNCHANGED <<boardVars, gitVars, wt, run, one, runs>>

Untouched == <<declared, boardVars, remote, rootAt, wt, run, one, bounds>>

\* One commit of his own, on one branch
CommitLocally(b) ==
    /\ local[b] # Null
    /\ \A c \in Refs : Stray \notin Contents(local[c]) \cup Contents(origin[c])
    /\ local' = [local EXCEPT ![b] = @ \cup {Stray}]
    /\ UNCHANGED <<origin, Untouched>>

PushOrPull(b) ==
    /\ origin[b] # Null /\ local[b] # origin[b]
    /\ \/ local[b] # Null /\ origin[b] \subseteq local[b]
          /\ origin' = [origin EXCEPT ![b] = local[b]] /\ UNCHANGED local
       \/ Contents(local[b]) \subseteq origin[b]
          /\ local' = [local EXCEPT ![b] = origin[b]] /\ UNCHANGED origin
    /\ UNCHANGED Untouched

\* The epic's PR is merged into trunk (ship open-epic).
MergeEpic(b) ==
    /\ origin[b] # Null /\ ~(origin[b] \subseteq origin[Trunk])
    /\ origin' = [origin EXCEPT ![Trunk] = @ \cup origin[b]]
    /\ UNCHANGED <<local, Untouched>>

\* A branch that is on trunk is deleted everywhere.
DeleteEpic(b) ==
    /\ Tip(b) # Null
    /\ Contents(local[b]) \cup Contents(origin[b]) \subseteq Tip(Trunk)
    /\ local' = [local EXCEPT ![b] = Null]
    /\ origin' = [origin EXCEPT ![b] = Null]
    /\ UNCHANGED Untouched

EpicsNext ==
    \/ \E cli \in Bases \cup {Null} : StartRun(cli)
    \/ \E t \in Ticket :
          \/ SkipTask(t) \/ SkipBranch(t) \/ Pick(t)
          \/ \E cli \in Bases \cup {Null} : OneResolve(t, cli)
          \/ Take(t) \/ Land(t) \/ Fail(t) \/ Abandon(t)
          \/ \E hard \in BOOLEAN : ResetTask(t, hard)
    \/ Spawn \/ EndRun \/ OneStart \/ OneEnds
    \/ \E p \in Prd, b \in Branch \cup {Null} : Retarget(p, b)
    \/ \E b \in Refs : CommitLocally(b) \/ PushOrPull(b)
    \/ \E b \in Branch : MergeEpic(b) \/ DeleteEpic(b)

EpicsSpec == EpicsInit /\ [][EpicsNext]_epicVars

-----------------------------------------------------------------------------
(* Properties *)

\* A task the batch spawns without --base starts from a base that holds the
\* work of each of its merged blockers, or that work is on trunk: whatever was
\* edited, deleted or reset meanwhile, a dependent never starts on an epic
\* that its blocker did not reach.
DependentsSeeBlockers ==
    [][\A t \in Ticket :
          /\ run # Null /\ run.cli = Null
          /\ state[t] = "ready" /\ state'[t] = "in_progress" /\ ~wt'[t].hand
          => \A u \in BlockersOf[t] :
                state[u] = "merged"
                => u \in wt'[t].has \cup Contents(Tip(Trunk))]_epicVars

\* What a batch worktree holds of other tasks is on the branch it will land
\* on, or on trunk: landing one task never carries an epic's unreleased work
\* into another, although a PRD may name another branch by then.
CarriesOnlyItsOwn ==
    \A t \in Ticket :
        state[t] = "in_progress" /\ ~wt[t].hand
        => wt[t].has \cap Ticket
             \subseteq Contents(Tip(BranchOf(t, Null))) \cup Contents(Tip(Trunk))
===============================================================================
