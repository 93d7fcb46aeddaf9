------------------------------ MODULE MergeTrain ------------------------------
(***************************************************************************)
(* The merge train of one integration branch: integrate() stages task      *)
(* branches on the local ref refs/aet/train/<branch>, and flush() validates*)
(* a snapshot of it, lands it on origin or ejects the commit that broke it *)
(* (src/aet/integrate.py, src/aet/train.py).                               *)
(*                                                                         *)
(* integration_lock covers the sections of integrate and flush that move   *)
(* refs, so each of them is one step, except the landing section, which a  *)
(* crash can cut and an operator, who takes no lock, can commit into.      *)
(* Between the sections anything may happen: the suite runs with the lock  *)
(* free, and integrate writes the train marker of the task after it has    *)
(* released the lock.                                                      *)
(*                                                                         *)
(* A commit is the sequence of the changes its history adds to the root:   *)
(* ancestry is IsPrefix, a rebase or a cherry-pick appends a change.       *)
(***************************************************************************)
EXTENDS Integers, FiniteSets, Sequences, SequencesExt

CONSTANTS
    Task,           \* tasks whose branches are integrated
    Flusher,        \* processes that call flush
    Outsider,       \* changes committed by others
    Breaks,         \* sets of changes that fail the suite when they meet
    Conflicting,    \* tasks that may be refused or conflict
    MaxFlushes,     \* bound on the flush calls of a process
    MaxFlakes,      \* bound on red runs of a suite on a tree that passes
    MaxCrashes,     \* bound on crashes
    Nil            \* no commit, no process

Change == Task \cup Outsider
Commit == Seq(Change)

\* The suite passes where nobody has changed anything.
ASSUME TrainAssumption ==
    /\ IsFiniteSet(Task)
    /\ Task \cap Outsider = {}
    /\ Breaks \subseteq (SUBSET Change) \ {{}}
    /\ Conflicting \subseteq Task
    /\ MaxFlushes \in Nat /\ MaxFlakes \in Nat /\ MaxCrashes \in Nat
    /\ Nil \notin Commit /\ Nil \notin Flusher

VARIABLES
    origin,     \* the branch on origin
    tracked,    \* refs/remotes/origin/<branch>
    local,      \* refs/heads/<branch>
    train,      \* refs/aet/train/<branch>, or Nil
    lock,       \* who holds integration_lock between two steps, or Nil
    branch,     \* tasks whose branch and worktree still exist
    pending,    \* pending[t]: staged commit whose marker is not written yet
    state,      \* record field state
    marker,     \* record field train.staged_commit, or Nil
    position,   \* record field train.position, 0 without a marker
    evidence,   \* record field merge_commit, or Nil
    diag,       \* record field conflict_diagnostics.reason
    flush,      \* flush[f]: where a flush stands and what it remembers
    passed,     \* commits on which a run of the suite has passed
    outside,    \* changes others have not committed yet
    orphans,    \* tasks whose integrate died before it wrote the marker
    unseen,     \* tasks whose marker a snapshot came too early for
    guessed,    \* tasks whose marker a restack came too early for, or that it
                \* took for an owner by their position
    starts, flakes, crashes

refs == <<origin, tracked, local, train>>
records == <<state, marker, position, evidence, diag>>
counters == <<starts, flakes, crashes>>
world == <<outside, orphans, unseen, guessed>>
trainVars == <<refs, lock, branch, pending, records, flush, passed, world,
          counters>>

States == {"in_progress", "awaiting_merge", "merged"}
Reasons == {"none", "integrate", "batch", "restack"}
Stages == {"idle", "starting", "validating", "bisecting", "retrying",
           "ejecting", "landing", "pushing", "recording", "sealing"}

\* What flush keeps in local variables: the snapshot and its task ids, the
\* tip it expects the local branch at, and bisect's base and answer.
Idle == [at |-> "idle", snapshot |-> <<>>, ids |-> {}, expected |-> <<>>,
         base |-> <<>>, k |-> 0]
FlushState == [at : Stages, snapshot : Commit, ids : SUBSET Task,
               expected : Commit, base : Commit, k : Nat]

TrainTypeOK ==
    /\ {origin, tracked, local} \subseteq Commit
    /\ train = Nil \/ train \in Commit
    /\ lock \in Flusher \cup {Nil}
    /\ branch \subseteq Task
    /\ pending \in [Task -> Commit \cup {Nil}]
    /\ state \in [Task -> States]
    /\ marker \in [Task -> Commit \cup {Nil}]
    /\ position \in [Task -> Nat]
    /\ evidence \in [Task -> Commit \cup {Nil}]
    /\ diag \in [Task -> Reasons]
    /\ flush \in [Flusher -> FlushState]
    /\ passed \subseteq Commit
    /\ outside \subseteq Outsider
    /\ orphans \subseteq Task
    /\ unseen \subseteq Task
    /\ guessed \subseteq Task
    /\ starts \in [Flusher -> Nat] /\ flakes \in Nat /\ crashes \in Nat

TrainInit ==
    /\ origin = <<>> /\ tracked = <<>> /\ local = <<>>
    /\ train = Nil
    /\ lock = Nil
    /\ branch = Task
    /\ pending = [t \in Task |-> Nil]
    /\ state = [t \in Task |-> "in_progress"]
    /\ marker = [t \in Task |-> Nil]
    /\ position = [t \in Task |-> 0]
    /\ evidence = [t \in Task |-> Nil]
    /\ diag = [t \in Task |-> "none"]
    /\ flush = [f \in Flusher |-> Idle]
    /\ passed = {}
    /\ outside = Outsider
    /\ orphans = {}
    /\ unseen = {}
    /\ guessed = {}
    /\ starts = [f \in Flusher |-> 0]
    /\ flakes = 0
    /\ crashes = 0

-----------------------------------------------------------------------------
(* Git *)

\* git merge-base: the last commit two histories share.
Fork(a, b) ==
    LET shared == {i \in 0..Len(a) : IsPrefix(SubSeq(a, 1, i), b)}
    IN SubSeq(a, 1, Max(shared))

\* get_staged_commits(base, tip), base in tip's history: how many, and the
\* i-th, oldest first.
Count(base, tip) == Len(tip) - Len(base)
Staged(base, tip, i) == SubSeq(tip, 1, Len(base) + i)

\* resolve_train_base: the merge base with the tracked origin branch.
TrainBase(snapshot) == Fork(snapshot, tracked)

\* The tree of a commit fails the suite.
Red(commit) == \E b \in Breaks : b \subseteq ToSet(commit)

\* A push without force is accepted.
Accepts(remote, commit) == IsPrefix(remote, commit)

-----------------------------------------------------------------------------
(* integrate *)

Unlocked == lock = Nil

\* The rebase conflicts, a guard refuses or the pre-integration check fails:
\* the task waits with diagnostics and keeps its branch.
StageRefused(t) ==
    /\ Unlocked /\ t \in branch \cap Conflicting /\ diag[t] = "none"
    /\ tracked' = origin
    /\ state' = [state EXCEPT ![t] = "awaiting_merge"]
    /\ diag' = [diag EXCEPT ![t] = "integrate"]
    /\ UNCHANGED <<origin, local, train, lock, branch, pending, marker,
                   position, evidence, flush, passed, world, counters>>

\* Under the lock: fetch, rebase onto the train tip, compare-and-swap the
\* staging ref, remove the worktree and the branch.
Stage(t) ==
    /\ Unlocked /\ t \in branch
    /\ tracked' = origin
    /\ LET staged == Append(IF train = Nil THEN origin ELSE train, t)
       IN /\ train' = staged
          /\ pending' = [pending EXCEPT ![t] = staged]
    /\ branch' = branch \ {t}
    /\ UNCHANGED <<origin, local, lock, records, flush, passed, world,
                   counters>>

NextPosition ==
    LET taken == {position[t] : t \in {u \in Task : marker[u] # Nil}} \cup {0}
    IN 1 + Max(taken)

\* After the lock: the transition and the train marker.
Mark(t) ==
    /\ pending[t] # Nil
    /\ state' = [state EXCEPT ![t] = "awaiting_merge"]
    /\ marker' = [marker EXCEPT ![t] = pending[t]]
    /\ position' = [position EXCEPT ![t] = NextPosition]
    /\ pending' = [pending EXCEPT ![t] = Nil]
    /\ UNCHANGED <<refs, lock, branch, evidence, diag, flush, passed, world,
                   counters>>

-----------------------------------------------------------------------------
(* flush *)

At(f, stage) == flush[f].at = stage

\* integrate's window: staged, the lock free again, the marker not written.
Unwritten == {t \in Task : pending[t] # Nil}

Start(f) ==
    /\ At(f, "idle") /\ starts[f] < MaxFlushes
    /\ flush' = [flush EXCEPT ![f].at = "starting"]
    /\ starts' = [starts EXCEPT ![f] = @ + 1]
    /\ UNCHANGED <<refs, lock, branch, pending, records, passed, world,
                   flakes, crashes>>

\* The tasks a snapshot covers.  (The mutant takes the last one only.)
CoveredAtTip(snapshot) == {t \in Task : marker[t] = snapshot}
Covered(snapshot) ==
    {t \in Task : marker[t] # Nil /\ IsPrefix(marker[t], snapshot)}

Ref == train # Nil

Snapshot(f) ==
    /\ At(f, "starting") /\ Unlocked /\ Ref
    /\ flush' = [flush EXCEPT ![f] =
                    [Idle EXCEPT !.at = "validating", !.snapshot = train,
                                 !.ids = Covered(train), !.expected = local]]
    /\ unseen' = unseen \cup Unwritten
    /\ UNCHANGED <<refs, lock, branch, pending, records, passed, outside,
                   orphans, guessed, counters>>

\* No staging ref: nothing to flush.
Empty(f) ==
    /\ At(f, "starting") /\ Unlocked /\ train = Nil
    /\ flush' = [flush EXCEPT ![f] = Idle]
    /\ UNCHANGED <<refs, lock, branch, pending, records, passed, world,
                   counters>>

\* The suite passes on the snapshot, at once or on the second try.
RunGreen(f) ==
    /\ flush[f].at \in {"validating", "retrying"}
    /\ ~Red(flush[f].snapshot)
    /\ passed' = passed \cup {flush[f].snapshot}
    /\ flush' = [flush EXCEPT ![f].at = "landing"]
    /\ UNCHANGED <<refs, lock, branch, pending, records, world, counters>>

\* A run shows red: the tree fails, or the run is a flake.
ShowsRed(commit) ==
    IF Red(commit) THEN flakes' = flakes
    ELSE flakes < MaxFlakes /\ flakes' = flakes + 1

RunRed(f) ==
    /\ At(f, "validating")
    /\ ShowsRed(flush[f].snapshot)
    /\ flush' = [flush EXCEPT ![f].at = "bisecting"]
    /\ UNCHANGED <<refs, lock, branch, pending, records, passed, world,
                   starts, crashes>>

\* The second run is red as well: a failing batch verdict, and the run halts.
RetryRed(f) ==
    /\ At(f, "retrying")
    /\ ShowsRed(flush[f].snapshot)
    /\ flush' = [flush EXCEPT ![f] = Idle]
    /\ UNCHANGED <<refs, lock, branch, pending, records, passed, world,
                   starts, crashes>>

\* bisect, by what TrainBisect shows of it: the culprit's prefix showed red
\* and its predecessor passed.
TurnsLate(base, tip, k) == k > 1 /\ Red(Staged(base, tip, k - 1))
Turns(base, tip, k) == k > 1 => ~Red(Staged(base, tip, k - 1))

BisectFinds(f) ==
    /\ At(f, "bisecting")
    /\ LET tip == flush[f].snapshot
           base == TrainBase(tip)
       IN \E k \in 1..Count(base, tip) :
            /\ Turns(base, tip, k)
            /\ ShowsRed(Staged(base, tip, k))
            /\ flush' = [flush EXCEPT ![f].at = "ejecting", ![f].base = base,
                                      ![f].k = k]
    /\ UNCHANGED <<refs, lock, branch, pending, records, passed, world,
                   starts, crashes>>

\* bisect finds no failing prefix, or cannot add its worktree.
BisectFindsNone(f) ==
    /\ At(f, "bisecting")
    /\ flush' = [flush EXCEPT ![f].at = "retrying"]
    /\ UNCHANGED <<refs, lock, branch, pending, records, passed, world,
                   counters>>

\* A temporary worktree cannot be added, or bisect raises: the flush halts.
Halt(f) ==
    /\ flush[f].at \in {"validating", "bisecting", "retrying"}
    /\ flush' = [flush EXCEPT ![f] = Idle]
    /\ UNCHANGED <<refs, lock, branch, pending, records, passed, world,
                   counters>>

-----------------------------------------------------------------------------
(* Ejection: restack everything but the culprit, under the lock *)

\* The task a staged commit belongs to: the one whose marker names it, else
\* the one whose marker has its place.  (Of several the code keeps the last
\* in the queue.  Two markers name one commit, or have one place, only after
\* a restack that guessed.)
ByMarker(commit) == {t \in Task : marker[t] = commit}
ByPlace(i) == {t \in Task : marker[t] # Nil /\ position[t] = i}
Owner(commit, i) ==
    IF ByMarker(commit) # {} THEN ByMarker(commit) ELSE ByPlace(i)
GuessedFrom(base, tip, k) ==
    UNION {ByPlace(i) : i \in {j \in k..Count(base, tip) :
                                 ByMarker(Staged(base, tip, j)) = {}}}

\* What is cherry-picked, each change with the tasks it is booked on: the
\* commits after the culprit, then those staged after the snapshot.  (The
\* mutant starts at the culprit.)
FromCulprit(k) == k
From(k) == k + 1

Replay(base, tip, k) ==
    [j \in 1..(Count(base, tip) + 1 - From(k)) |->
        LET i == From(k) + j - 1
        IN [change |-> tip[Len(base) + i],
            owners |-> Owner(Staged(base, tip, i), i)]]
Later(snapshot, tip) ==
    LET base == Fork(snapshot, tip)
    IN [i \in 1..Count(base, tip) |->
            [change |-> tip[Len(base) + i],
             owners |-> ByMarker(Staged(base, tip, i))]]

\* Cherry-picks onto the tip, one after the other.  One fails when it
\* conflicts (chosen in bad), or when the tip holds the change already and
\* nothing is left to commit.
Picked(bottom, picks, bad) ==
    LET tips[i \in 0..Len(picks)] ==
            IF i = 0 THEN bottom
            ELSE IF picks[i].change \in bad \cup ToSet(tips[i - 1])
            THEN tips[i - 1]
            ELSE Append(tips[i - 1], picks[i].change)
    IN tips[Len(picks)]
PickFails(picks, i, bottom, bad) ==
    \/ picks[i].change \in bad \cup ToSet(bottom)
    \/ \E j \in 1..(i - 1) : picks[j].change = picks[i].change

\* What is left of the train and of the markers, when bad conflicts: the
\* last commit booked on a task decides where its marker points.
Restack(base, bottom, tip, culprits, picks, bad) ==
    LET failed == {i \in DOMAIN picks : PickFails(picks, i, bottom, bad)}
        gone == UNION {picks[i].owners : i \in failed}
        places(t) == {n \in DOMAIN tip : \E i \in DOMAIN picks \ failed :
                        t \in picks[i].owners /\ picks[i].change = tip[n]}
    IN [tip |-> tip, gone |-> gone, emptied |-> tip = base,
        kept |-> [t \in Task |->
            IF t \in culprits \cup gone \/ marker[t] = Nil THEN Nil
            ELSE IF places(t) = {} THEN marker[t]
            ELSE SubSeq(tip, 1, Max(places(t)))]]

\* The place of a marker in the new chain, its old one when it is elsewhere.
Renumber(t, r, base) ==
    IF r.kept[t] = Nil THEN 0
    ELSE IF /\ ~r.emptied
            /\ IsPrefix(r.kept[t], r.tip) /\ Len(r.kept[t]) > Len(base)
    THEN Len(r.kept[t]) - Len(base)
    ELSE position[t]

\* The train tip now, or the snapshot when the ref is gone; who is ejected.
TipNow(f) == IF train = Nil THEN flush[f].snapshot ELSE train
Culprits(f) ==
    Owner(Staged(flush[f].base, flush[f].snapshot, flush[f].k), flush[f].k)

\* What restack r leaves in the ref and in the records.
Ejected(f, r) ==
    /\ marker' = r.kept
    /\ state' = [t \in Task |-> IF t \in Culprits(f) \cup r.gone
                                THEN "awaiting_merge" ELSE state[t]]
    /\ diag' = [t \in Task |-> IF t \in r.gone THEN "restack"
                               ELSE IF t \in Culprits(f) THEN "batch"
                               ELSE diag[t]]
    /\ position' = [t \in Task |-> Renumber(t, r, flush[f].base)]
    /\ train' = IF train = Nil \/ r.emptied THEN Nil ELSE r.tip
    /\ flush' = [flush EXCEPT ![f] =
        IF r.emptied THEN Idle ELSE [Idle EXCEPT !.at = "starting"]]
    /\ guessed' = guessed \cup Unwritten
          \cup GuessedFrom(flush[f].base, flush[f].snapshot, flush[f].k)
    /\ UNCHANGED <<origin, tracked, local, lock, branch, pending, evidence,
                   passed, outside, orphans, unseen, counters>>

Eject(f) ==
    /\ At(f, "ejecting") /\ Unlocked
    /\ LET me == flush[f]
           bottom == Staged(me.base, me.snapshot, me.k - 1)
       IN \E bad \in SUBSET Conflicting,
             picks \in {Replay(me.base, me.snapshot, me.k)
                            \o Later(me.snapshot, TipNow(f))} :
          \E tip \in {Picked(bottom, picks, bad)} :
          \E r \in {Restack(me.base, bottom, tip, Culprits(f), picks, bad)} :
            Ejected(f, r)

-----------------------------------------------------------------------------
(* Landing *)

\* The push of a commit and what follows it in the refs, with the lock kept
\* for the records.  (The first mutant drops what was staged meanwhile, the
\* second pushes it, untested.)
AfterLandingAll(snapshot) == Nil
AfterLanding(snapshot) == IF train = snapshot THEN Nil ELSE train
LandedTrain(commit) == IF train = Nil THEN commit ELSE train
Landed(commit) == commit

Push(f, commit) ==
    /\ Accepts(origin, commit)
    /\ origin' = Landed(commit)
    /\ tracked' = flush[f].snapshot
    /\ train' = AfterLanding(flush[f].snapshot)
    /\ lock' = f
    /\ flush' = [flush EXCEPT ![f].at = "recording"]

\* Origin has moved: the push is rejected and the flush halts.  (The mutant
\* does not look at git's exit status.)
RejectedUnseen(f, commit) ==
    /\ ~Accepts(origin, commit)
    /\ tracked' = flush[f].snapshot
    /\ train' = AfterLanding(flush[f].snapshot)
    /\ lock' = f
    /\ flush' = [flush EXCEPT ![f].at = "recording"]
    /\ UNCHANGED origin
Rejected(f, commit) ==
    /\ ~Accepts(origin, commit)
    /\ flush' = [flush EXCEPT ![f] = Idle]
    /\ lock' = Nil
    /\ UNCHANGED <<origin, tracked, train>>

\* A worktree has the branch checked out: the snapshot is pushed, the local
\* branch stays.
LandCheckedOut(f) ==
    /\ At(f, "landing") /\ Unlocked
    /\ Push(f, flush[f].snapshot) \/ Rejected(f, flush[f].snapshot)
    /\ UNCHANGED <<local, branch, pending, records, passed, world, counters>>

\* No worktree has it: move the local branch by compare-and-swap ...
MoveBranch(f) ==
    /\ At(f, "landing") /\ Unlocked
    /\ local = flush[f].expected
    /\ local' = flush[f].snapshot
    /\ lock' = f
    /\ flush' = [flush EXCEPT ![f].at = "pushing"]
    /\ UNCHANGED <<origin, tracked, train, branch, pending, records, passed,
                   world, counters>>

\* ... then push it by its name: what the operator has committed on it since
\* goes along.
PushBranch(f) ==
    /\ At(f, "pushing")
    /\ Push(f, local) \/ Rejected(f, local)
    /\ UNCHANGED <<local, branch, pending, records, passed, world, counters>>

\* The local branch moved since the snapshot: halt.
LandRefused(f) ==
    /\ At(f, "landing") /\ Unlocked
    /\ local # flush[f].expected
    /\ flush' = [flush EXCEPT ![f] = Idle]
    /\ UNCHANGED <<refs, lock, branch, pending, records, passed, world,
                   counters>>

\* The records of the snapshot's tasks get their merge commit.
Record(f) ==
    /\ At(f, "recording")
    /\ LET ids == flush[f].ids
       IN /\ evidence' = [t \in Task |->
                IF t \notin ids THEN evidence[t]
                ELSE IF marker[t] = Nil THEN flush[f].snapshot ELSE marker[t]]
          /\ marker' = [t \in Task |-> IF t \in ids THEN Nil ELSE marker[t]]
          /\ position' = [t \in Task |-> IF t \in ids THEN 0 ELSE position[t]]
    /\ flush' = [flush EXCEPT ![f].at = "sealing"]
    /\ UNCHANGED <<refs, lock, branch, pending, state, diag, passed, world,
                   counters>>

\* Each task of the snapshot goes through `aet state transition`, which
\* wants its merge commit on the tracked branch; refusals are only printed.
Seal(f) ==
    /\ At(f, "sealing")
    /\ state' = [t \in Task |->
        IF /\ t \in flush[f].ids
           /\ state[t] = "awaiting_merge"
           /\ evidence[t] # Nil /\ IsPrefix(evidence[t], tracked)
        THEN "merged" ELSE state[t]]
    /\ lock' = Nil
    /\ flush' = [flush EXCEPT ![f] = Idle]
    /\ UNCHANGED <<refs, branch, pending, marker, position, evidence, diag,
                   passed, world, counters>>

-----------------------------------------------------------------------------
(* The environment *)

\* Another clone pushes to the branch.
PushOutside(o) ==
    /\ o \in outside
    /\ origin' = Append(origin, o)
    /\ outside' = outside \ {o}
    /\ UNCHANGED <<tracked, local, train, lock, branch, pending, records,
                   flush, passed, orphans, unseen, guessed, counters>>

\* The operator commits on the local branch, and pulls.
CommitLocally(o) ==
    /\ o \in outside
    /\ local' = Append(local, o)
    /\ outside' = outside \ {o}
    /\ UNCHANGED <<origin, tracked, train, lock, branch, pending, records,
                   flush, passed, orphans, unseen, guessed, counters>>

Pull ==
    /\ IsPrefix(local, origin) /\ local # origin
    /\ local' = origin /\ tracked' = origin
    /\ UNCHANGED <<origin, train, lock, branch, pending, records, flush,
                   passed, world, counters>>

\* A process dies; the system releases its lock.
CrashFlush(f) ==
    /\ ~At(f, "idle") /\ crashes < MaxCrashes
    /\ flush' = [flush EXCEPT ![f] = Idle]
    /\ lock' = IF lock = f THEN Nil ELSE lock
    /\ crashes' = crashes + 1
    /\ UNCHANGED <<refs, branch, pending, records, passed, world, starts,
                   flakes>>

CrashIntegrate(t) ==
    /\ pending[t] # Nil /\ crashes < MaxCrashes
    /\ pending' = [pending EXCEPT ![t] = Nil]
    /\ orphans' = orphans \cup {t}
    /\ crashes' = crashes + 1
    /\ UNCHANGED <<refs, lock, branch, records, flush, passed, outside, unseen,
                   guessed, starts, flakes>>

-----------------------------------------------------------------------------

FlushStep(f) ==
    \/ Snapshot(f) \/ Empty(f)
    \/ RunGreen(f) \/ RunRed(f) \/ RetryRed(f)
    \/ BisectFinds(f) \/ BisectFindsNone(f) \/ Halt(f)
    \/ Eject(f)
    \/ LandCheckedOut(f) \/ MoveBranch(f) \/ PushBranch(f) \/ LandRefused(f)
    \/ Record(f) \/ Seal(f)

TrainNext ==
    \/ \E t \in Task : StageRefused(t) \/ Stage(t) \/ Mark(t)
                       \/ CrashIntegrate(t)
    \/ \E f \in Flusher : Start(f) \/ FlushStep(f) \/ CrashFlush(f)
    \/ \E o \in Outsider : PushOutside(o) \/ CommitLocally(o)
    \/ Pull

\* A flush that runs goes on running, and so does an integrate: every suite
\* run has a timeout, the lock is blocking and freed by the system when its
\* holder dies.
Fairness ==
    /\ \A f \in Flusher : WF_trainVars(FlushStep(f))
    /\ \A t \in Task : WF_trainVars(Mark(t))

TrainSpec == TrainInit /\ [][TrainNext]_trainVars /\ Fairness

-----------------------------------------------------------------------------
(* Properties *)

\* A commit is a tree the suite has passed on, or nothing, and what others
\* have committed on top of it.
Tested(commit) ==
    \E c \in passed \cup {<<>>} :
        /\ IsPrefix(c, commit)
        /\ \A i \in (Len(c) + 1)..Len(commit) : commit[i] \in Outsider

\* ADR-079, decision 5: whatever the interleaving of flushes, integrations
\* and foreign pushes, the train moves the branch on origin only to a commit
\* the suite has passed on, or to the local branch, which holds no change of
\* a task but in such a commit.  (What an operator commits on it between the
\* move and the push goes out untested.)
OnlyTestedTreesLand ==
    [][origin' # origin => \/ outside' # outside
                           \/ origin' \in passed
                           \/ origin' = local /\ Tested(local)]_trainVars

\* ADR-079, decision 3: a green flush fast-forwards the integration branch.
\* It must not take a commit off the local branch.
LocalFastForwards == [][IsPrefix(local, local')]_trainVars

\* A merged task's change is on origin, also after a rejected push, a race
\* of two flushes or a crash.  (Not so for a task that a restack guessed: its
\* marker may name a commit without its change.)
MergedIsLanded ==
    \A t \in Task \ guessed : state[t] = "merged" => t \in ToSet(origin)

\* A task that integrate took off its branch is on the train, on origin, or
\* was ejected with a reason: a flush drops no batch-mate and nothing that
\* was staged after its snapshot.  (Not so for a task whose integrate died
\* between the staging ref and the marker, nobody knows its commit, nor for
\* one that a restack guessed.)
StagedWorkIsKept ==
    \A t \in Task \ guessed :
        \/ t \in branch
        \/ train # Nil /\ t \in ToSet(train)
        \/ t \in ToSet(origin)
        \/ diag[t] \in {"batch", "restack"}
        \/ t \in orphans

\* One process has done all the flushing.
Solo == \A f, g \in Flusher : starts[f] > 0 /\ starts[g] > 0 => f = g

\* PRD merge-train-validation R-7: every task whose commit a flush lands
\* becomes merged, unless a process died on the way, a marker was late or
\* another process restacked the train meanwhile.
LandedIsMerged ==
    crashes = 0 /\ lock = Nil /\ unseen \cup guessed = {} /\ Solo =>
        \A t \in Task : t \in ToSet(origin) => state[t] = "merged"

\* R-8: when the suite tells the truth, only a task with a part in the
\* failure is ejected for it, as long as others break nothing.
OnlyCulpritsBlamed ==
    flakes = 0 /\ guessed = {} /\ (\A b \in Breaks : b \subseteq Task) =>
        \A t \in Task : diag[t] = "batch" => \E b \in Breaks : t \in b

\* A flush ends, whatever it ejects: each round restacks fewer commits.
FlushEnds == \A f \in Flusher : ~At(f, "idle") ~> At(f, "idle")
=============================================================================
