------------------------------ MODULE RefStore ------------------------------
(***************************************************************************)
(* How the board is stored and travels: task refs and tombstones of        *)
(* src/aet/backends/git_refs_backend.py in several clones and at origin,   *)
(* and the commands that fetch, load, save, seal and push them.            *)
(*                                                                         *)
(* A command fetches before it takes the queue lock and pushes after it    *)
(* gave it back, so every stage is a step. A record is the set of commands *)
(* whose writes it contains: what a state says beyond that is TaskBoard's. *)
(***************************************************************************)
EXTENDS Integers, FiniteSets

CONSTANTS
    Task,
    Clone,      \* clones of the repository, a set of refs each
    Tree,       \* worktrees, a queue lock each
    CloneOf,    \* the clone a worktree belongs to
    Process,    \* commands, each of which runs once
    TreeOf,     \* the worktree a command runs in
    Kind,       \* add, write, settle (record-merge), abandon (transition),
                \* sync (aet queue sync)
    Target,     \* the task a command is about; a sync is about none
    Others,     \* the other tasks whose records it changes: the dependents
    Posture,    \* shared, shadow, or none: no remote at all
    Overlap,    \* do commands run concurrently?
    Offline,    \* may fetches and pushes fail?
    Crashes     \* may commands die half-way?

None == "none"
Origin == "origin"
Place == Clone \cup {Origin}

ASSUME StoreAssumption ==
    /\ Origin \notin Clone
    /\ None \notin Process \cup Tree
    /\ CloneOf \in [Tree -> Clone]
    /\ TreeOf \in [Process -> Tree]
    /\ Kind \in [Process -> {"add", "write", "settle", "abandon", "sync"}]
    /\ Target \in [Process -> Task]
    /\ Others \in [Process -> SUBSET Task]
    /\ Posture \in {"shared", "shadow", "none"}
    /\ {Overlap, Offline, Crashes} \subseteq BOOLEAN

VARIABLES
    rec,        \* refs/aet/tasks/<t> in each place: a record or absent
    sealed,     \* refs/aet/sealed in each place
    lock,       \* queue_lock of each worktree
    pc,         \* the stage each command has come to
    seen,       \* the records a command loaded (_loaded_shas and the queue)
    deleted,    \* task refs it deleted and has not pushed (_deleted_refs)
    saw,        \* tombstones origin had when it fetched (history)
    saved,      \* commands whose save took effect (history)
    pruned      \* <<c, p, t>>: a write of p that a sync took off the board of
                \* c with the record of t (history)

vars == <<rec, sealed, lock, pc, seen, deleted, saw, saved, pruned>>

\* An absent ref is the empty set; a record has at least the write that
\* created it, or Born when it was there before any command of the model.
Born == "born"
Record == SUBSET (Process \cup {Born})
Absent == {}

Pcs == {"start", "resolve", "load", "save", "seal", "push", "push_deletes",
        "done", "failed"}

TypeOK ==
    /\ rec \in [Place -> [Task -> Record]]
    /\ sealed \in [Place -> SUBSET Task]
    /\ lock \in [Tree -> Process \cup {None}]
    /\ pc \in [Process -> Pcs]
    /\ seen \in [Process -> [Task -> Record]]
    /\ deleted \in [Process -> SUBSET Task]
    /\ saw \in [Process -> SUBSET Task]
    /\ saved \subseteq Process
    /\ pruned \subseteq Clone \X (Process \cup {Born}) \X Task

-----------------------------------------------------------------------------
Home(p) == CloneOf[TreeOf[p]]
Live(place) == {t \in Task : rec[place][t] # Absent}

\* load: a tombstone wins, its task ref is reaped.
Board(c) == [t \in Task |-> IF t \in sealed[c] THEN Absent ELSE rec[c][t]]

Reap(c) == rec' = [rec EXCEPT ![c] = Board(c)]

Unlock(p) == lock' = [lock EXCEPT ![TreeOf[p]] = IF @ = p THEN None ELSE @]

\* The commands that end a task's life, and the record of a task they ended.
Closes(p) == Kind[p] \in {"settle", "abandon"}
Terminal(r, t) == \E q \in r \cap Process : Closes(q) /\ Target[q] = t

Idle(q) == pc[q] \in {"start", "done", "failed"}
MayStart(p) == Overlap \/ \A q \in Process \ {p} : Idle(q)

-----------------------------------------------------------------------------
(* fetch *)

\* The fetched refs overwrite the local ones; what origin lacks stays.
Fetched(c) == [t \in Task |-> IF rec[Origin][t] # Absent THEN rec[Origin][t]
                                                         ELSE rec[c][t]]

\* (The mutant fetches the task refs only.)
FetchedTasksOnly(c) == sealed[c]
FetchedSeals(c) == sealed[c] \cup sealed[Origin]

AfterFetch(p) == IF Kind[p] = "settle" THEN "resolve" ELSE "load"

Fetch(p) ==
    /\ pc[p] = "start" /\ MayStart(p)
    /\ Posture # "none"
    /\ rec' = [rec EXCEPT ![Home(p)] = Fetched(Home(p))]
    /\ sealed' = [sealed EXCEPT ![Home(p)] = FetchedSeals(Home(p))]
    /\ saw' = [saw EXCEPT ![p] = sealed[Origin]]
    /\ pc' = [pc EXCEPT ![p] = AfterFetch(p)]
    /\ UNCHANGED <<lock, seen, deleted, saved, pruned>>

\* No remote, or a transient failure, which is ignored.
NoFetch(p) ==
    /\ pc[p] = "start" /\ MayStart(p)
    /\ Posture = "none" \/ Offline
    /\ pc' = [pc EXCEPT ![p] = AfterFetch(p)]
    /\ UNCHANGED <<rec, sealed, lock, seen, deleted, saw, saved, pruned>>

-----------------------------------------------------------------------------
(* The locked part *)

\* record-merge looks the task up first: a settled one is reported, and the
\* command succeeds there; for a live one it asks origin for the merge commit.
Resolve(p) ==
    /\ pc[p] = "resolve"
    /\ lock[TreeOf[p]] = None
    /\ Reap(Home(p))
    /\ \E stage \in {"load", "done", "failed"} :
          /\ stage = "load" => Board(Home(p))[Target[p]] # Absent /\ Posture # "none"
          /\ stage = "done" => Board(Home(p))[Target[p]] = Absent
                                  /\ Target[p] \in sealed[Home(p)]
          /\ stage = "failed" => IF Board(Home(p))[Target[p]] # Absent
                                   THEN Posture = "none" \/ Offline
                                   ELSE Target[p] \notin sealed[Home(p)]
          /\ pc' = [pc EXCEPT ![p] = stage]
    /\ UNCHANGED <<sealed, lock, seen, deleted, saw, saved, pruned>>

\* An add needs a task that is neither live nor settled, a sync none, the
\* others a live one.
Applicable(p) ==
    CASE Kind[p] = "add" -> /\ Board(Home(p))[Target[p]] = Absent
                            /\ Target[p] \notin sealed[Home(p)]
      [] Kind[p] = "sync" -> TRUE
      [] OTHER -> Board(Home(p))[Target[p]] # Absent

\* Under the lock, but for a sync, which takes none.
Load(p) ==
    /\ pc[p] = "load"
    /\ Kind[p] = "sync" \/ lock[TreeOf[p]] = None
    /\ Reap(Home(p))
    /\ IF Applicable(p)
         THEN /\ seen' = [seen EXCEPT ![p] = Board(Home(p))]
              /\ lock' = IF Kind[p] = "sync" THEN lock
                                             ELSE [lock EXCEPT ![TreeOf[p]] = p]
              /\ pc' = [pc EXCEPT ![p] = "save"]
         ELSE /\ pc' = [pc EXCEPT ![p] = "failed"]
              /\ UNCHANGED <<seen, lock>>
    /\ UNCHANGED <<sealed, deleted, saw, saved, pruned>>

\* What a command loaded and leaves out of the queue it saves: a sync drops
\* the tasks that are over, others nothing.
Dropped(p) == IF Kind[p] = "sync" THEN {t \in Task : Terminal(seen[p][t], t)} ELSE {}

\* The records the command changes: a sync, those whose edges it repairs.
Written(p) ==
    (IF Kind[p] = "sync" THEN {} ELSE {Target[p]})
        \cup ({t \in Others[p] : seen[p][t] # Absent} \ Dropped(p))

\* save: one compare-and-swap transaction, which fails as a whole.  Changed
\* refs are expected to be what was loaded.  (The mutant expects what is
\* there.)  Refs that were left out are deleted, whatever they have become,
\* and no tombstone is written.
FreshAlways(p) == TRUE
Fresh(p) == \A t \in Written(p) : rec[Home(p)][t] = seen[p][t]

Save(p) ==
    /\ pc[p] = "save" /\ Fresh(p)
    /\ rec' = [rec EXCEPT ![Home(p)] =
                  [t \in Task |-> IF t \in Dropped(p) THEN Absent
                                 ELSE IF t \in Written(p) THEN seen[p][t] \cup {p}
                                 ELSE @[t]]]
    /\ saved' = saved \cup {p}
    /\ pruned' = pruned \cup
          UNION {{<<Home(p), q, t>> : q \in rec[Home(p)][t]} : t \in Dropped(p)}
    /\ pc' = [pc EXCEPT ![p] = CASE Closes(p) -> "seal"
                                 [] Kind[p] = "sync" -> "done"
                                 [] OTHER -> "push"]
    /\ IF Closes(p) THEN UNCHANGED lock ELSE Unlock(p)
    /\ UNCHANGED <<sealed, seen, deleted, saw>>

SaveFails(p) ==
    /\ pc[p] = "save" /\ ~Fresh(p)
    /\ pc' = [pc EXCEPT ![p] = "failed"]
    /\ Unlock(p)
    /\ UNCHANGED <<rec, sealed, seen, deleted, saw, saved, pruned>>

\* seal loads again, then deletes the task ref and writes the tombstone in one
\* transaction; it raises when the task is no longer live.
Seal(p) ==
    /\ pc[p] = "seal"
    /\ Unlock(p)
    /\ LET c == Home(p)  t == Target[p]
       IN  IF Board(c)[t] # Absent
             THEN /\ rec' = [rec EXCEPT ![c] = [Board(c) EXCEPT ![t] = Absent]]
                  /\ sealed' = [sealed EXCEPT ![c] = @ \cup {t}]
                  /\ deleted' = [deleted EXCEPT ![p] = {t}]
                  /\ pc' = [pc EXCEPT ![p] = "push"]
             ELSE /\ Reap(c)
                  /\ pc' = [pc EXCEPT ![p] = "failed"]
                  /\ UNCHANGED <<sealed, deleted>>
    /\ UNCHANGED <<seen, saw, saved, pruned>>

-----------------------------------------------------------------------------
(* push *)

\* Every local ref overwrites origin's.  (The mutant pushes task refs only.)
Pushed(c) == [t \in Task |-> IF rec[c][t] # Absent THEN rec[c][t]
                                                   ELSE rec[Origin][t]]
PushedTasksOnly(c) == sealed[Origin]
PushedSeals(c) == sealed[Origin] \cup sealed[c]

Push(p) ==
    /\ pc[p] = "push" /\ Posture = "shared"
    /\ rec' = [rec EXCEPT ![Origin] = Pushed(Home(p))]
    /\ sealed' = [sealed EXCEPT ![Origin] = PushedSeals(Home(p))]
    /\ pc' = [pc EXCEPT ![p] = IF deleted[p] = {} THEN "done" ELSE "push_deletes"]
    /\ UNCHANGED <<lock, seen, deleted, saw, saved, pruned>>

\* The wildcard push again, with a deletion for each ref deleted here.
PushDeletes(p) ==
    /\ pc[p] = "push_deletes"
    /\ rec' = [rec EXCEPT ![Origin] =
                  [t \in Task |-> IF t \in deleted[p] THEN Absent
                                                      ELSE Pushed(Home(p))[t]]]
    /\ sealed' = [sealed EXCEPT ![Origin] = PushedSeals(Home(p))]
    /\ deleted' = [deleted EXCEPT ![p] = {}]
    /\ pc' = [pc EXCEPT ![p] = "done"]
    /\ UNCHANGED <<lock, seen, saw, saved, pruned>>

\* Nothing is pushed in shadow posture or without a remote, and a push may
\* fail. Only record-merge insists, and shadow posture exempts it.
NoPush(p) ==
    /\ pc[p] \in {"push", "push_deletes"}
    /\ Posture # "shared" \/ Offline
    /\ pc' = [pc EXCEPT ![p] =
                 IF Kind[p] = "settle" /\ Posture # "shadow" THEN "failed" ELSE "done"]
    /\ UNCHANGED <<rec, sealed, lock, seen, deleted, saw, saved, pruned>>

\* The process dies; the kernel frees its lock.
Crash(p) ==
    /\ Crashes /\ ~Idle(p)
    /\ lock' = [w \in Tree |-> IF lock[w] = p THEN None ELSE lock[w]]
    /\ pc' = [pc EXCEPT ![p] = "failed"]
    /\ UNCHANGED <<rec, sealed, seen, deleted, saw, saved, pruned>>

-----------------------------------------------------------------------------
\* Every place starts with the same board.
Init ==
    /\ \E born \in SUBSET Task :
          rec = [c \in Place |-> [t \in Task |-> IF t \in born THEN {Born} ELSE Absent]]
    /\ sealed = [c \in Place |-> {}]
    /\ lock = [w \in Tree |-> None]
    /\ pc = [p \in Process |-> "start"]
    /\ seen = [p \in Process |-> [t \in Task |-> Absent]]
    /\ deleted = [p \in Process |-> {}]
    /\ saw = [p \in Process |-> {}]
    /\ saved = {} /\ pruned = {}

Step(p) ==
    \/ Fetch(p) \/ NoFetch(p) \/ Resolve(p) \/ Load(p) \/ Save(p) \/ SaveFails(p)
    \/ Seal(p) \/ Push(p) \/ PushDeletes(p) \/ NoPush(p) \/ Crash(p)

Next == \E p \in Process : Step(p)

Spec == Init /\ [][Next]_vars

-----------------------------------------------------------------------------
(* Properties *)

\* A write that was saved is in the record of every task it concerned, until
\* that task settles: no other command overwrites it with a record it loaded
\* earlier (the compare-and-swap of save; queue_lock).  Only a sync that found
\* the task over takes it away, with what was written since it looked.
SavedWritesSurvive ==
    \A p \in saved : \A t \in Written(p) :
        p \in rec[Home(p)][t] \/ t \in sealed[Home(p)] \/ <<Home(p), p, t>> \in pruned

\* What a command has pushed stays on origin, until the task settles.
PushedWritesSurvive ==
    \A p \in saved : pc[p] = "done" /\ Kind[p] # "sync" =>
        \A t \in Written(p) : p \in rec[Origin][t] \/ t \in sealed[Origin]

\* A command that fetched a tombstone does not have the task on the board it
\* loads, whatever stale task refs other clones pushed before or since (load
\* reads the tombstones first; a fresh clone never resurrects settled work).
TombstonesWin ==
    \A p \in Process : pc[p] \in {"save", "seal"} =>
        \A t \in saw[p] : seen[p][t] = Absent

\* A sync saves without a task it had loaded as over: its closer had saved it
\* and not sealed it.
Prunes(p, t) == Kind[p] = "sync" /\ pc[p] = "save" /\ pc'[p] = "done" /\ t \in Dropped(p)

\* A task leaves a board by assertion, not by absence: where its ref goes, the
\* tombstone is (seal's single transaction; push sends the tombstones before
\* the deletions).  The exception is a sync, in its own clone only: it drops
\* without a tombstone a task it found between its closer's save and seal.
LeavesByAssertion ==
    [][\A c \in Place, t \in Task :
          rec[c][t] # Absent /\ rec'[c][t] = Absent =>
              \/ t \in sealed'[c]
              \/ \E p \in Process : Home(p) = c /\ Prunes(p, t)]_vars

\* What a record says leaves a clone only when the task settles, when a command
\* of the clone starts and its fetch puts origin's record in its place, or when
\* a sync of the clone drops the record of a task that was over when it looked:
\* no other save, no load or seal, by whatever worktree, and no push loses a
\* write of another command (save's compare-and-swap; fetch overwrites by
\* design).
OnlyFetchesOverwrite ==
    [][\A c \in Clone, t \in Task :
          ~(rec[c][t] \subseteq rec'[c][t]) =>
              \/ t \in sealed'[c]
              \/ /\ rec'[c][t] = rec[Origin][t]
                 /\ \E p \in Process :
                      Home(p) = c /\ pc[p] = "start" /\ pc'[p] # "start"
              \/ \E p \in Process : Home(p) = c /\ Prunes(p, t)]_vars
=============================================================================
