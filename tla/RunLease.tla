------------------------------ MODULE RunLease ------------------------------
(***************************************************************************)
(* Who may write the shared board: the run lease of src/aet/queue.py       *)
(* (acquire_lease, check_lease, lease_guard, release_lease), the liveness  *)
(* predicate of src/aet/liveness.py and queue_lock.                        *)
(*                                                                         *)
(* Linked worktrees share one lease file in the common git directory, but  *)
(* each has a queue lock of its own. A process reads a lease file, removes *)
(* it when it is stale, takes the lock and acts, each a step of its own:   *)
(* check_lease runs outside queue_lock.                                    *)
(***************************************************************************)
EXTENDS Integers, FiniteSets

CONSTANTS
    Run,        \* orchestrator runs, one process each
    Command,    \* processes that write the board: children of runs, operators
    Checkout,   \* linked worktrees of one repository
    Home,       \* the worktree a process works in
    Parent,     \* the run a command inherits AET_RUN_ID from, or None
    Old,        \* runs an earlier release started: their lease is per checkout
    Forced,     \* processes given --force
    Mortal,     \* runs that may be killed
    Overlap     \* does a process start while another has checked but not acted?

None == "none"
Common == "common"
Process == Run \cup Command

ASSUME LeaseAssumption ==
    /\ Run \cap Command = {}
    /\ None \notin Process
    /\ Common \notin Checkout
    /\ Home \in [Process -> Checkout]
    /\ Parent \in [Command -> Run \cup {None}]
    /\ Old \subseteq Run /\ Forced \subseteq Process /\ Mortal \subseteq Run
    /\ \A r, s \in Old : Home[r] = Home[s] => r = s
    /\ Overlap \in BOOLEAN

Pcs == {"off", "checking", "reclaiming", "cleared", "running", "releasing",
        "writing", "removing", "done"}

VARIABLES
    file,    \* lease files: at the common path, and per checkout (legacy)
    lock,    \* queue_lock of each checkout
    pc,      \* where each process is
    at,      \* the lease path a check or a release has come to
    gone,    \* runs whose process no longer exists
    seized   \* runs from which a forced run took the lease (history)

vars == <<file, lock, pc, at, gone, seized>>

Paths == {Common} \cup Checkout

TypeOK ==
    /\ file \in [Paths -> Run \cup {None}]
    /\ lock \in [Checkout -> Process \cup {None}]
    /\ pc \in [Process -> Pcs]
    /\ at \in [Process -> Paths]
    /\ gone \subseteq Run
    /\ seized \subseteq Run

-----------------------------------------------------------------------------
(* Liveness and identity *)

\* is_run_alive: a recorded return code, a process that is gone, and a process
\* that started after the run did, all say that the run is over.
Alive(r) == r \notin gone /\ pc[r] # "done"

\* The run a process acts for: AET_RUN_ID, or its own run id.
Acts(p) == IF p \in Run THEN p ELSE Parent[p]

\* Between a check and the act it allows.
InWindow(p) ==
    /\ p \notin gone
    /\ pc[p] \in {"checking", "reclaiming", "cleared", "writing",
                  "releasing", "removing"}

\* Without Overlap a run starts or ends while nobody is in that window, and
\* nobody starts while a run is.
MayStart(p) ==
    \/ Overlap
    \/ \A q \in IF p \in Run THEN Process ELSE Run : ~InWindow(q)

-----------------------------------------------------------------------------
(* check_lease: the common path first, then the legacy path. *)

Advance(p) ==
    IF at[p] = Common
      THEN /\ at' = [at EXCEPT ![p] = Home[p]]
           /\ pc' = [pc EXCEPT ![p] = "checking"]
      ELSE /\ pc' = [pc EXCEPT ![p] = "cleared"]
           /\ UNCHANGED at

\* A run that starts, or a command of an operator, of a run, or of a run whose
\* process is gone: --force skips the check.
Start(p) ==
    /\ pc[p] = "off" /\ p \notin gone /\ MayStart(p)
    /\ p \in Command =>
          Parent[p] \in {None} \cup {r \in Run : pc[r] = "running"}
    /\ pc' = [pc EXCEPT ![p] = IF p \in Forced THEN "cleared" ELSE "checking"]
    /\ at' = [at EXCEPT ![p] = Common]
    /\ UNCHANGED <<file, lock, gone, seized>>

Checks(p) == pc[p] = "checking" /\ p \notin gone
Holder(p) == file[at[p]]

\* os.unlink
RemovedAt(q) == [file EXCEPT ![q] = None]

Stale(p) == Holder(p) \in Run /\ ~Alive(Holder(p))
Mine(p) == Holder(p) = Acts(p)

CheckFree(p) ==
    /\ Checks(p)
    /\ Holder(p) = None \/ (~Stale(p) /\ Mine(p))
    /\ Advance(p)
    /\ UNCHANGED <<file, lock, gone, seized>>

CheckStale(p) ==
    /\ Checks(p)
    /\ Stale(p)
    /\ pc' = [pc EXCEPT ![p] = "reclaiming"]
    /\ UNCHANGED <<file, lock, at, gone, seized>>

\* os.unlink of the path that was found stale, whatever it holds by now.
Reclaim(p) ==
    /\ pc[p] = "reclaiming" /\ p \notin gone
    /\ file' = RemovedAt(at[p])
    /\ Advance(p)
    /\ UNCHANGED <<lock, gone, seized>>

\* LeaseHeldError: a run does not start, a command does not write.
CheckHeld(p) ==
    /\ Checks(p)
    /\ Holder(p) # None /\ ~Stale(p) /\ ~Mine(p)
    /\ pc' = [pc EXCEPT ![p] = IF p \in Run THEN "done" ELSE "off"]
    /\ UNCHANGED <<file, lock, at, gone, seized>>

-----------------------------------------------------------------------------
(* Runs *)

\* lease_path: one file for every linked worktree.  (The mutant is the lease
\* of the earlier releases.)
LeasePathPerCheckout(r) == Home[r]
LeasePath(r) == Common

\* acquire_lease writes the lease file by os.replace while it holds the lock;
\* a forced one also removes the legacy file.
Claim(r) ==
    /\ pc[r] = "cleared" /\ r \notin gone
    /\ lock[Home[r]] = None
    /\ file' = [q \in Paths |-> IF q = LeasePath(r) THEN r
                                ELSE IF r \in Forced /\ q = Home[r] THEN None
                                ELSE file[q]]
    /\ seized' = IF r \in Forced THEN seized \cup {s \in Run : pc[s] = "running"}
                              ELSE seized
    /\ pc' = [pc EXCEPT ![r] = "running"]
    /\ UNCHANGED <<lock, at, gone>>

\* The run ends: it terminates its children, whose locks the kernel frees, and
\* release_lease takes the lock.
ChildOf(p, r) == p \in Command /\ Parent[p] = r

BeginRelease(r) ==
    /\ pc[r] = "running" /\ r \notin gone
    /\ Overlap \/ \A q \in Run \ {r} : ~InWindow(q)
    /\ lock[Home[r]] = None \/ ChildOf(lock[Home[r]], r)
    /\ pc' = [p \in Process |-> IF p = r THEN "releasing"
                                ELSE IF ChildOf(p, r) THEN "off" ELSE pc[p]]
    /\ lock' = [c \in Checkout |-> IF c = Home[r] THEN r
                                   ELSE IF ChildOf(lock[c], r) THEN None
                                   ELSE lock[c]]
    /\ at' = [at EXCEPT ![r] = Common]
    /\ UNCHANGED <<file, gone, seized>>

\* For each path: read it, and unlink it when it was the run's own.  (The
\* mutant looks at the common path only.)
Owns(r) == Holder(r) = r

ReleaseCommonOnly(r) ==
    /\ pc' = [pc EXCEPT ![r] = "done"]
    /\ lock' = [lock EXCEPT ![Home[r]] = None]
    /\ UNCHANGED at

ReleaseNext(r) ==
    IF at[r] = Common
      THEN /\ at' = [at EXCEPT ![r] = Home[r]]
           /\ pc' = [pc EXCEPT ![r] = "releasing"]
           /\ UNCHANGED lock
      ELSE /\ pc' = [pc EXCEPT ![r] = "done"]
           /\ lock' = [lock EXCEPT ![Home[r]] = None]
           /\ UNCHANGED at

ReleaseRead(r) ==
    /\ pc[r] = "releasing" /\ r \notin gone
    /\ IF Owns(r) THEN /\ pc' = [pc EXCEPT ![r] = "removing"]
                       /\ UNCHANGED <<lock, at>>
                  ELSE ReleaseNext(r)
    /\ UNCHANGED <<file, gone, seized>>

ReleaseRemove(r) ==
    /\ pc[r] = "removing" /\ r \notin gone
    /\ file' = RemovedAt(at[r])
    /\ ReleaseNext(r)
    /\ UNCHANGED <<gone, seized>>

\* The process is killed: its lease file stays, its lock is freed, and its
\* children live on in process groups of their own.
Kill(r) ==
    /\ r \in Mortal \ gone /\ pc[r] \notin {"off", "done"}
    /\ gone' = gone \cup {r}
    /\ lock' = [c \in Checkout |-> IF lock[c] = r THEN None ELSE lock[c]]
    /\ UNCHANGED <<file, pc, at, seized>>

-----------------------------------------------------------------------------
(* Commands *)

BeginWrite(c) ==
    /\ pc[c] = "cleared"
    /\ lock[Home[c]] = None
    /\ lock' = [lock EXCEPT ![Home[c]] = c]
    /\ pc' = [pc EXCEPT ![c] = "writing"]
    /\ UNCHANGED <<file, at, gone, seized>>

EndWrite(c) ==
    /\ pc[c] = "writing"
    /\ lock' = [lock EXCEPT ![Home[c]] = None]
    /\ pc' = [pc EXCEPT ![c] = "off"]
    /\ UNCHANGED <<file, at, gone, seized>>

-----------------------------------------------------------------------------
Init ==
    /\ file = [q \in Paths |->
                  IF \E r \in Old : Home[r] = q
                    THEN CHOOSE r \in Old : Home[r] = q ELSE None]
    /\ lock = [c \in Checkout |-> None]
    /\ pc = [p \in Process |-> IF p \in Old THEN "running" ELSE "off"]
    /\ at = [p \in Process |-> Common]
    /\ gone = {}
    /\ seized = {}

Next ==
    \/ \E p \in Process : \/ Start(p) \/ CheckFree(p) \/ CheckStale(p)
                          \/ Reclaim(p) \/ CheckHeld(p)
    \/ \E r \in Run : \/ Claim(r) \/ BeginRelease(r) \/ ReleaseRead(r)
                      \/ ReleaseRemove(r) \/ Kill(r)
    \/ \E c \in Command : BeginWrite(c) \/ EndWrite(c)

Spec == Init /\ [][Next]_vars

-----------------------------------------------------------------------------
(* Properties *)

\* A run that is working and that nobody has taken the lease from.
Owner(r) == pc[r] = "running" /\ r \notin gone \cup seized

\* The lease of an earlier release is seen in its own worktree only.
Unseen(r, checkout) == r \in Old /\ Home[r] # checkout

\* A run that finishes leaves no lease behind: what remains on disk belongs to
\* a run that works, or to one that was killed.
NoLeaseLeftBehind ==
    \A q \in Paths, r \in Run :
        file[q] = r => pc[r] \in {"running", "releasing", "removing"}

\* Two runs never own the board at once, in one worktree or in two linked
\* ones, whatever runs died and whatever leases were reclaimed or released
\* meanwhile (acquire_lease refuses a live lease).
OneOwner ==
    \A r, s \in Run : Owner(r) /\ Owner(s) /\ r # s
                          => Unseen(r, Home[s]) \/ Unseen(s, Home[r])

\* The lease names the owner for as long as it works: nobody's release and
\* nobody's reclaim takes it away (release_lease leaves the lease of another
\* run untouched).
LeaseNamesTheOwner ==
    \A r \in Run : Owner(r) => file[IF r \in Old THEN Home[r] ELSE Common] = r

\* A process that writes the board acts for the owner, when there is one:
\* operators, the runs an owner seized the board from, and the orphans of
\* killed runs are shut out (lease_guard).
WriterActsForTheOwner ==
    \A c \in Command, r \in Run :
        pc[c] = "writing" /\ Owner(r) =>
            Acts(c) = r \/ c \in Forced \/ Unseen(r, Home[c])
=============================================================================
