---------------------------- MODULE WorkspaceProofs ----------------------------
(***************************************************************************)
(* Proofs about what the sessions of a checkout work in: no work is lost   *)
(* with a worktree or a branch (Worktrees), for any pieces of work, any    *)
(* base and any number of attempts; and no entry of the ledger and of the  *)
(* handoff note is (SharedFiles), for any number of processes and crashes. *)
(***************************************************************************)
EXTENDS Worktrees, SharedFiles, TLAPS

-----------------------------------------------------------------------------
(* The worktree                                                             *)

\* None is a value of its own.
NoneIsApart ==
    /\ None \notin Dirs
    /\ None \notin [at : Nat, own : SUBSET Work]

Shapes ==
    /\ seen \in Nat /\ upstream \in Nat
    /\ dir = None \/ dir \in Dirs
    /\ branch = None \/ branch \in [at : Nat, own : SUBSET Work]
    /\ dir # None => branch # None
    /\ at \in {"save", "clear", "refresh", "stuck", "rebuild", "drop",
               "handed", "session", "cleanup", "teardown"} => dir # None
    /\ at \in {"build", "delete"} => dir = None
    /\ at = "delete" => branch # None
    /\ dir # None /\ ~dir.midway => dir.head = {}

Saved(S) == \E n \in DOMAIN snap : S \subseteq snap[n]

\* What is about to be removed has no changes but those of a commit of the
\* branch, or a snapshot has them and what is on a detached HEAD.
DirInv ==
    /\ at = "save" => OfKind(dir.edits, "rendered") = {}
    /\ at = "clear" => Saved(dir.edits \cup dir.head)
    /\ at \in {"stuck", "rebuild", "drop"} => dir.edits \subseteq branch.own
    /\ at = "stuck" => dir.edits = {} \/ dir.head = {}
    /\ at \in {"rebuild", "drop"} => dir.head = {}
    /\ at = "rebuild" => ~dir.midway
    /\ at = "teardown" /\ saved => Saved(dir.edits \cup dir.head)

\* A branch is deleted in a conflict only, and by then what create_worktree
\* found tells where its code is.
BranchInv ==
    /\ at \in {"drop", "delete"} => Conflicts(branch)
    /\ at \in {"save", "clear"} => found \in {"midway", "dirty"}
    /\ at = "save" /\ found = "dirty" => ~dir.midway
    /\ at = "clear" /\ found = "dirty" => Saved(branch.own)
    /\ at \in {"refresh", "stuck"} => found = "clean"
    /\ at \in {"build", "rebuild", "drop", "delete"} /\ branch # None =>
          \/ found \in {"none", "midway"}
          \/ found = "dirty" /\ Saved(branch.own)
          \/ found = "clean" /\ OfKind(branch.own, "code") = {}

WorkInv == Shapes /\ DirInv /\ BranchInv

-----------------------------------------------------------------------------

\* Cleaning a worktree leaves a worktree.
LEMMA CleanedShape ==
  ASSUME NEW d \in Dirs
  PROVE  /\ Cleaned(d) \in Dirs
         /\ Cleaned(d).edits = d.edits \ OfKind(d.edits, "rendered")
         /\ Cleaned(d).midway = d.midway /\ Cleaned(d).head = d.head
         /\ OfKind(Cleaned(d).edits, "rendered") = {}
  BY DEF Cleaned, OfKind, Dirs

\* A snapshot has the changes that are not rendered plans, and the commits of
\* HEAD: those of the branch, or those made in the middle of a rebase.
LEMMA SnapshotSaves ==
  ASSUME Shapes, dir # None, NEW n, Snapshot(n)
  PROVE  /\ n \in DOMAIN snap'
         /\ Cleaned(dir).edits \subseteq snap'[n]
         /\ ~dir.midway => branch.own \subseteq snap'[n]
         /\ dir.head \subseteq snap'[n]
  BY DEF Snapshot, Shapes

\* A rebase that stops leaves the changes of a commit of the branch.
LEMMA StoppedShape ==
  ASSUME NEW d, branch # None, branch \in [at : Nat, own : SUBSET Work], Stopped(d)
  PROVE  /\ d \in Dirs /\ d.edits \subseteq branch.own /\ d.head = {}
         /\ d.midway /\ Conflicts(branch)
  BY DEF Stopped, Conflicting, Conflicts, Dirs

\* A fresh worktree is one.
LEMMA FreshShape ==
    /\ Fresh \in Dirs /\ Fresh.edits = {} /\ Fresh.head = {} /\ Fresh.midway = FALSE
  BY DEF Fresh, Dirs

\* Before the first attempt there is no work to lose.
LEMMA WorkInit == Init => WorkInv
  BY DEF Init, WorkInv, Shapes, DirInv, BranchInv

\* Every step of an attempt keeps the work.
LEMMA WorkStep ==
  ASSUME NoneIsApart
  PROVE  WorkInv /\ [Next]_vars => WorkInv'
<1> SUFFICES ASSUME WorkInv, [Next]_vars PROVE WorkInv'
  OBVIOUS
<1> USE NoneIsApart DEF WorkInv, Shapes, DirInv, BranchInv, Saved, Goto, Leave,
    run, bases, git, NoneIsApart
<1>1. CASE StartRun
  BY <1>1 DEF StartRun
<1>2. CASE Look
  BY <1>2, CleanedShape DEF Look, Obstructed, OfKind
<1>3. CASE SaveFirst
  <2>1. Cleaned(dir).edits = dir.edits
    BY <1>3, CleanedShape DEF SaveFirst
  <2> QED
    BY <1>3, <2>1, SnapshotSaves DEF SaveFirst
<1>4. CASE Clear
  BY <1>4 DEF Clear
<1>5. CASE KeepAsIs
  BY <1>5 DEF KeepAsIs
<1>6. CASE Rebase
  <2>1. CASE dir.midway /\ Goto("stuck") /\ UNCHANGED <<dir, branch>>
    BY <1>6, <2>1 DEF Rebase, AsItIs
  <2>2. CASE ~dir.midway /\ Stopped(dir') /\ Goto("stuck") /\ UNCHANGED branch
    BY <1>6, <2>2, StoppedShape DEF Rebase
  <2>3. CASE ~dir.midway /\ ~Conflicts(branch) /\ branch' = [branch EXCEPT !.at = seen]
             /\ Goto("handed") /\ UNCHANGED dir
    BY <1>6, <2>3 DEF Rebase
  <2> QED
    BY <1>6, <2>1, <2>2, <2>3 DEF Rebase
<1>7. CASE Abort
  BY <1>7, FreshShape DEF Abort, HasCode
<1>8. CASE Build
  <2>1. CASE branch = None \/ OnBase(branch) \/ Unborn(branch)
    <3>1. PICK own \in SUBSET Work : branch' = [at |-> seen, own |-> own]
      <4>1. CASE branch = None
        BY <1>8, <4>1 DEF Build
      <4>2. CASE branch # None
        BY <1>8, <2>1, <4>2 DEF Build
      <4> QED
        BY <4>1, <4>2
    <3>2. branch' \in [at : Nat, own : SUBSET Work]
      BY <3>1
    <3>3. /\ dir' = Fresh
          /\ at' = "handed" /\ seen' = seen /\ upstream' = upstream
      BY <1>8, <2>1 DEF Build
    <3>4. /\ dir' \in Dirs /\ dir'.head = {}
          /\ dir' # None /\ branch' # None
      BY <3>2, <3>3, FreshShape
    <3> QED
      BY <3>2, <3>3, <3>4
  <2>2. CASE ~(branch = None \/ OnBase(branch) \/ Unborn(branch))
    <3>1. /\ at = "build" /\ at' = "rebuild" /\ branch' = branch
          /\ dir' = Fresh
          /\ seen' = seen /\ upstream' = upstream /\ snap' = snap /\ found' = found
      BY <1>8, <2>2 DEF Build
    <3>2. branch # None
      BY <2>2
    <3>3. /\ dir' \in Dirs /\ dir'.edits = {} /\ dir'.head = {}
          /\ dir' # None /\ ~dir'.midway
      BY <3>1, FreshShape
    <3>4. Shapes' /\ DirInv'
      BY <3>1, <3>2, <3>3
    <3>5. BranchInv'
      BY <3>1, <3>2
    <3> QED
      BY <3>4, <3>5
  <2> QED
    BY <2>1, <2>2
<1>9. CASE Rebuild
  <2>1. CASE Stopped(dir') /\ Goto("drop") /\ UNCHANGED branch
    <3>1. Conflicts(branch)'
      BY <1>9, <2>1, StoppedShape DEF Rebuild, Conflicts, Conflicting
    <3> QED
      BY <1>9, <2>1, <3>1, StoppedShape DEF Rebuild
  <2>2. CASE /\ ~Conflicts(branch) /\ branch' = [branch EXCEPT !.at = seen]
             /\ Goto("handed") /\ UNCHANGED dir
    BY <1>9, <2>2 DEF Rebuild
  <2> QED
    BY <1>9, <2>1, <2>2 DEF Rebuild
<1>10. CASE Drop
  BY <1>10 DEF Drop, Conflicts, Conflicting
<1>11. CASE DeleteBranch
  BY <1>11 DEF DeleteBranch
<1>12. CASE Hand
  BY <1>12 DEF Hand, OfKind, Dirs
<1>13. ASSUME NEW p \in Work, Edit(p) \/ Commit(p) PROVE WorkInv'
  <2>1. CASE Edit(p)
    BY <2>1 DEF Edit, Dirs
  <2>2. CASE Commit(p)
    <3>1. /\ dir' \in Dirs /\ dir'.midway = dir.midway
          /\ ~dir.midway => dir'.head = dir.head
      BY <2>2 DEF Commit, Dirs
    <3>2. branch' \in [at : Nat, own : SUBSET Work]
      BY <2>2 DEF Commit
    <3>3. at = "session" /\ UNCHANGED <<at, seen, upstream, snap, found>>
      BY <2>2 DEF Commit
    <3> QED
      BY <3>1, <3>2, <3>3
  <2> QED
    BY <1>13, <2>1, <2>2
<1>14. CASE Integrate \/ IntegrateStops \/ LeaveIt \/ EndAttempt
  BY <1>14, FreshShape DEF Integrate, IntegrateStops, LeaveIt, EndAttempt
<1>15. CASE Cleanup
  BY <1>15, CleanedShape, SnapshotSaves DEF Cleanup
<1>16. CASE Teardown \/ Retry \/ EndRun
  BY <1>16 DEF Teardown, Retry, EndRun
<1>17. CASE Crash \/ ResetHard \/ Close
  BY <1>17 DEF Crash, ResetHard, Close
<1>18. CASE Advance \/ UNCHANGED vars
  BY <1>18 DEF Advance, vars, Conflicts, Conflicting
<1> QED
  BY <1>1, <1>2, <1>3, <1>4, <1>5, <1>6, <1>7, <1>8, <1>9, <1>10, <1>11,
     <1>12, <1>13, <1>14, <1>15, <1>16, <1>17, <1>18 DEF Next, Prepare

-----------------------------------------------------------------------------

\* Each step on its own: a worktree goes in Clear, Abort, Drop, Teardown, in a
\* hard reset and when it is integrated.
LEMMA RemovalStep ==
  ASSUME NoneIsApart, WorkInv, Next,
         dir # None, dir' = None, at \notin {"session", "off", "blocked"}
  PROVE  dir.edits \subseteq branch.own \/ Saved(dir.edits)
<1> USE NoneIsApart DEF WorkInv, Shapes, DirInv, NoneIsApart
<1>1. CASE Clear \/ Abort \/ Drop
  BY <1>1 DEF Clear, Abort, Drop, Saved
<1>2. CASE Teardown
  BY <1>2 DEF Teardown, Removable, Saved
<1>3. CASE Look \/ Cleanup
  <2>1. Cleaned(dir) # None
    BY CleanedShape
  <2>2. CASE Look
    BY <2>1, <2>2 DEF Look
  <2>3. CASE Cleanup
    BY <2>1, <2>3 DEF Cleanup
  <2> QED
    BY <1>3, <2>2, <2>3
<1>4. CASE Rebase
  BY <1>4, StoppedShape DEF Rebase
<1>5. CASE Build \/ Rebuild
  BY <1>5, FreshShape, StoppedShape DEF Build, Rebuild
<1>6. CASE Hand
  BY <1>6 DEF Hand, OfKind, Dirs
<1>7. CASE \/ StartRun \/ SaveFirst \/ KeepAsIs \/ DeleteBranch
           \/ LeaveIt \/ EndAttempt \/ Retry \/ EndRun \/ Crash \/ Advance \/ Close
  BY <1>7 DEF StartRun, SaveFirst, KeepAsIs, DeleteBranch, LeaveIt,
     EndAttempt, Retry, EndRun, Crash, Advance, Close, git
<1>8. CASE \/ ResetHard \/ Integrate \/ IntegrateStops
           \/ \E p \in Work : Edit(p) \/ Commit(p)
  BY <1>8 DEF ResetHard, Integrate, IntegrateStops, Edit, Commit
<1> QED
  BY <1>1, <1>2, <1>3, <1>4, <1>5, <1>6, <1>7, <1>8 DEF Next, Prepare

\* A worktree is removed only when its uncommitted changes are in a snapshot
\* ref, but for a reset the operator asked for and an integrated one
\* (create_worktree, teardown_worktree).
THEOREM RemovalSaves ==
  ASSUME NoneIsApart
  PROVE  Spec => UncommittedIsSaved
<1>1. WorkInv /\ [Next]_vars =>
        [dir # None /\ dir' = None /\ at \notin {"session", "off", "blocked"}
           => \/ dir.edits \subseteq branch.own
              \/ \E n \in DOMAIN snap : dir.edits \subseteq snap[n]]_vars
  BY RemovalStep DEF Saved, vars, git
<1> QED
  BY WorkInit, WorkStep, <1>1, PTL DEF Spec, UncommittedIsSaved

\* A branch loses code in DeleteBranch, onto the train, and in a hard reset.
LEMMA LossStep ==
  ASSUME NoneIsApart, WorkInv, Next, NEW p \in OfKind(Work, "code"),
         branch # None, p \in branch.own,
         branch' = None \/ (branch' # None /\ p \notin branch'.own)
  PROVE  \/ p \in train' \/ at \in {"off", "blocked"}
         \/ RebuiltUnsaved
         \/ \E n \in DOMAIN snap : p \in snap[n]
<1> USE NoneIsApart DEF WorkInv, Shapes, NoneIsApart
<1>1. CASE DeleteBranch
  BY <1>1 DEF DeleteBranch, BranchInv, OfKind, Saved, RebuiltUnsaved
<1>2. CASE Integrate \/ ResetHard
  BY <1>2 DEF Integrate, ResetHard
<1>3. CASE Rebase \/ Rebuild
  BY <1>3 DEF Rebase, Rebuild
<1>4. CASE Build
  BY <1>4 DEF Build
<1>5. CASE \E q \in Work : Edit(q) \/ Commit(q)
  BY <1>5 DEF Edit, Commit
<1>6. CASE Look \/ SaveFirst \/ Clear \/ KeepAsIs \/ Abort \/ Drop \/ Hand
  BY <1>6 DEF Look, SaveFirst, Clear, KeepAsIs, Abort, Drop, Hand, git
<1>7. CASE \/ StartRun \/ IntegrateStops \/ LeaveIt \/ EndAttempt \/ Cleanup
           \/ Teardown \/ Retry \/ EndRun \/ Crash \/ Advance \/ Close
  BY <1>7 DEF StartRun, IntegrateStops, LeaveIt, EndAttempt, Cleanup, Teardown,
     Retry, EndRun, Crash, Advance, Close, git
<1> QED
  BY <1>1, <1>2, <1>3, <1>4, <1>5, <1>6, <1>7 DEF Next, Prepare

\* A detached HEAD goes with its worktree, when its rebase is aborted, and in a
\* hard reset: a snapshot has it, or nothing obstructed the worktree.
LEMMA MidwayStep ==
  ASSUME NoneIsApart, WorkInv, Next, NEW p \in Work,
         dir # None, p \in dir.head,
         dir' = None \/ (dir' # None /\ p \notin dir'.head)
  PROVE  \/ at \in {"off", "blocked", "session"} \/ ~Obstructed(dir)
         \/ \E n \in DOMAIN snap : p \in snap[n]
<1> USE NoneIsApart DEF WorkInv, Shapes, NoneIsApart
<1>1. CASE Clear
  BY <1>1 DEF Clear, DirInv, Saved
<1>2. CASE Teardown
  BY <1>2 DEF Teardown, Removable, DirInv, Saved, Obstructed, OfKind
<1>3. CASE Abort \/ Drop
  BY <1>3 DEF Abort, Drop, DirInv, Obstructed, OfKind
<1>4. CASE Rebase
  BY <1>4, StoppedShape DEF Rebase
<1>5. CASE Build \/ Rebuild
  BY <1>5 DEF Build, Rebuild, DirInv
<1>6. CASE Look \/ Cleanup
  <2>1. Cleaned(dir) # None /\ Cleaned(dir).head = dir.head
    BY CleanedShape
  <2>2. CASE Look
    BY <2>1, <2>2 DEF Look
  <2>3. CASE Cleanup
    BY <2>1, <2>3 DEF Cleanup
  <2> QED
    BY <1>6, <2>2, <2>3
<1>7. CASE Hand
  <2>1. dir'.head = dir.head /\ dir' \in Dirs
    BY <1>7 DEF Hand, Dirs, OfKind
  <2> QED
    BY <2>1
<1>8. CASE \/ Integrate \/ IntegrateStops \/ ResetHard
           \/ \E q \in Work : Edit(q) \/ Commit(q)
  BY <1>8 DEF Integrate, IntegrateStops, ResetHard, Edit, Commit
<1>9. CASE \/ StartRun \/ SaveFirst \/ KeepAsIs \/ DeleteBranch
           \/ LeaveIt \/ EndAttempt \/ Retry \/ EndRun \/ Crash \/ Advance \/ Close
  BY <1>9 DEF StartRun, SaveFirst, KeepAsIs, DeleteBranch, LeaveIt,
     EndAttempt, Retry, EndRun, Crash, Advance, Close, git
<1> QED
  BY <1>1, <1>2, <1>3, <1>4, <1>5, <1>6, <1>7, <1>8, <1>9 DEF Next, Prepare

\* Committed code leaves its branch onto the train, in a hard reset, or where a
\* branch that conflicts with the base is rebuilt; then a snapshot has it unless
\* there was no worktree or a crash had left it in the middle of a rebase.
\* Code committed in the middle of a rebase goes with a worktree that nothing
\* obstructs (create_worktree).
THEOREM CodeStays ==
  ASSUME NoneIsApart
  PROVE  Spec => CommitsAreKept
<1>1. ASSUME WorkInv, Next,
             NEW p \in OfKind(Work, "code") \cap (Commits \ Commits')
      PROVE  \/ p \in train' \/ at \in {"off", "blocked"}
             \/ branch # None /\ p \in branch.own /\ RebuiltUnsaved
             \/ CommittedMidway(p)
             \/ \E n \in DOMAIN snap : p \in snap[n]
  <2>1. CASE branch # None /\ p \in branch.own
    <3>1. branch' = None \/ (branch' # None /\ p \notin branch'.own)
      BY DEF Commits
    <3> QED
      BY <1>1, <2>1, <3>1, LossStep
  <2>2. CASE ~(branch # None /\ p \in branch.own)
    <3>1. /\ p \in Work /\ dir # None /\ p \in dir.head
          /\ dir' = None \/ (dir' # None /\ p \notin dir'.head)
      BY <2>2 DEF Commits, OfKind
    <3>2. branch # None
      BY <1>1, <3>1 DEF WorkInv, Shapes
    <3> QED
      BY <1>1, <2>2, <3>1, <3>2, MidwayStep DEF CommittedMidway
  <2> QED
    BY <2>1, <2>2
<1>2. UNCHANGED vars => Commits' = Commits
  BY DEF vars, git, Commits
<1>3. WorkInv /\ [Next]_vars =>
        [\A p \in OfKind(Work, "code") \cap (Commits \ Commits') :
           \/ p \in train' \/ at \in {"off", "blocked"}
           \/ branch # None /\ p \in branch.own /\ RebuiltUnsaved
           \/ CommittedMidway(p)
           \/ \E n \in DOMAIN snap : p \in snap[n]]_vars
  BY <1>1
<1> QED
  BY WorkInit, WorkStep, <1>3, PTL DEF Spec, CommitsAreKept

\* How far create_worktree is from its end.  A branch in conflict with its
\* base is rebuilt once, for there is none afterwards.
Preparing == Points \ {"off", "session", "cleanup", "teardown", "idle",
                       "blocked", "done"}
Remaining ==
    CASE at = "create" -> 11
      [] at \in {"save", "refresh"} -> 10
      [] at \in {"clear", "stuck"} -> 9
      [] at = "build" -> IF branch = None THEN 2 ELSE 8
      [] at = "rebuild" -> 7
      [] at = "drop" -> 6
      [] at = "delete" -> 5
      [] at = "handed" -> 1
      [] OTHER -> 0

\* Every step of create_worktree brings it nearer to its end, whatever it finds,
\* and no other step sets it back: what there is to PrepareEnds but for
\* fairness (it retries once it has deleted a branch in conflict).
THEOREM PrepareDescends ==
    Spec => [][(at \in Preparing) =>
                  /\ Prepare => Remaining' < Remaining
                  /\ \/ Remaining' <= Remaining /\ at' \in Preparing
                     \/ at' \in {"session", "blocked", "off"}]_vars
<1>1. ASSUME at \in Preparing, Prepare
      PROVE  /\ Remaining' < Remaining
             /\ at' \in Preparing \cup {"session", "blocked"}
  <2> USE DEF Goto, Remaining, Preparing, Points
  <2>1. CASE Look
    BY <2>1 DEF Look
  <2>2. CASE SaveFirst \/ Clear
    BY <2>2 DEF SaveFirst, Clear
  <2>3. CASE KeepAsIs \/ Rebase
    BY <2>3 DEF KeepAsIs, Rebase
  <2>4. CASE Abort
    BY <2>4 DEF Abort
  <2>5. CASE Build
    BY <2>5 DEF Build
  <2>6. CASE Rebuild \/ Drop
    BY <2>6 DEF Rebuild, Drop
  <2>7. CASE DeleteBranch
    BY <2>7 DEF DeleteBranch
  <2>8. CASE Hand
    BY <2>8 DEF Hand
  <2> QED
    BY <1>1, <2>1, <2>2, <2>3, <2>4, <2>5, <2>6, <2>7, <2>8 DEF Prepare
<1>2. ASSUME at \in Preparing, [Next]_vars, ~Prepare
      PROVE  at' = "off" \/ (at' = at /\ branch' = branch)
  <2> USE DEF Preparing, Points, run, bases, git
  <2>1. CASE UNCHANGED vars
    BY <2>1 DEF vars
  <2>2. CASE Crash
    BY <2>2 DEF Crash, Leave
  <2>3. CASE Advance
    BY <2>3 DEF Advance
  <2>4. CASE \E p \in Work : Edit(p) \/ Commit(p)
    BY <1>2, <2>4 DEF Edit, Commit
  <2>5. CASE \/ StartRun \/ Integrate \/ IntegrateStops \/ LeaveIt \/ EndAttempt
             \/ Cleanup \/ Teardown
    BY <1>2, <2>5 DEF StartRun, Integrate, IntegrateStops, LeaveIt, EndAttempt,
       Cleanup, Teardown
  <2>6. CASE Retry \/ EndRun \/ ResetHard \/ Close
    BY <1>2, <2>6 DEF Retry, EndRun, ResetHard, Close
  <2> QED
    BY <1>2, <2>1, <2>2, <2>3, <2>4, <2>5, <2>6 DEF Next
<1>3. Remaining \in Nat
  BY DEF Remaining
<1>4. at' = at /\ branch' = branch => Remaining' = Remaining
  BY DEF Remaining
<1>5. ASSUME at \in Preparing, [Next]_vars
      PROVE  /\ Prepare => Remaining' < Remaining
             /\ \/ Remaining' <= Remaining /\ at' \in Preparing
                \/ at' \in {"session", "blocked", "off"}
  <2>1. Remaining' \in Nat
    BY DEF Remaining
  <2>2. CASE Prepare
    BY <1>1, <1>3, <1>5, <2>1, <2>2
  <2>3. CASE ~Prepare
    BY <1>2, <1>3, <1>4, <1>5, <2>3
  <2> QED
    BY <2>2, <2>3
<1>6. [Next]_vars =>
        [(at \in Preparing) =>
            /\ Prepare => Remaining' < Remaining
            /\ \/ Remaining' <= Remaining /\ at' \in Preparing
               \/ at' \in {"session", "blocked", "off"}]_vars
  BY <1>5
<1> QED
  BY <1>6, PTL DEF Spec

-----------------------------------------------------------------------------
(* The ledger and the handoff note                                          *)

\* Appending to a sequence adds one element to its set, and it is the last.
LEMMA AppendAdds ==
    ASSUME NEW S, NEW s \in Seq(S), NEW e \in S
    PROVE  /\ Append(s, e) \in Seq(S) \ {<<>>}
           /\ Len(Append(s, e)) = Len(s) + 1
           /\ \A i \in 1..Len(s) : Append(s, e)[i] = s[i]
           /\ Append(s, e)[Len(s) + 1] = e
           /\ ToSet(Append(s, e)) = ToSet(s) \cup {e}
           /\ Last(Append(s, e)) = e
<1>1. /\ Append(s, e) \in Seq(S) /\ Len(Append(s, e)) = Len(s) + 1
      /\ Len(s) \in Nat
      /\ \A i \in 1..Len(s) : Append(s, e)[i] = s[i]
      /\ Append(s, e)[Len(s) + 1] = e
  OBVIOUS
<1>2. DOMAIN Append(s, e) = 1..(Len(s) + 1) /\ DOMAIN s = 1..Len(s)
  BY <1>1
<1>3. ToSet(Append(s, e)) = ToSet(s) \cup {e}
  BY <1>1, <1>2 DEF ToSet
<1>4. Last(Append(s, e)) = e
  BY <1>1 DEF Last
<1>5. Append(s, e) # <<>>
  BY <1>1
<1>6. QED BY <1>1, <1>3, <1>4, <1>5

\* The last element of a sequence is in its set.
LEMMA LastInside ==
    ASSUME NEW S, NEW s \in Seq(S), s # <<>>
    PROVE  /\ Last(s) = s[Len(s)] /\ Len(s) \in DOMAIN s
           /\ Last(s) \in ToSet(s) /\ Last(s) \in S
<1>1. Len(s) \in Nat \ {0} /\ DOMAIN s = 1..Len(s) /\ s[Len(s)] \in S
  OBVIOUS
<1>2. s[Len(s)] \in {s[i] : i \in DOMAIN s}
  BY <1>1
<1>3. QED BY <1>1, <1>2 DEF Last, ToSet

\* Replacing the last element leaves the others.
LEMMA ReplaceLast ==
    ASSUME NEW S, NEW s \in Seq(S), s # <<>>, NEW e \in S
    PROVE  LET t == [s EXCEPT ![Len(s)] = e]
           IN  /\ t \in Seq(S) /\ DOMAIN t = 1..Len(s) /\ t[Len(s)] = e
               /\ \A i \in 1..(Len(s) - 1) : t[i] = s[i]
<1> DEFINE n == Len(s)
           t == [s EXCEPT ![n] = e]
<1>1. n \in Nat \ {0} /\ s \in [1..n -> S] /\ n \in 1..n
  OBVIOUS
<1>2. t \in [1..n -> S]
  BY <1>1
<1>3. t \in Seq(S) /\ DOMAIN t = 1..n
  BY <1>1, <1>2
<1>4. t[n] = e /\ \A i \in 1..(n - 1) : t[i] = s[i]
  <2> HIDE DEF n
  <2>1. QED BY <1>1
<1>5. QED BY <1>3, <1>4

Holding == {"reload", "append", "flush"}

\* Where a writer is: its event has its effect behind it, it holds the lock
\* from the second look at the file to the end of the line, and what it is
\* about to append, or has begun to, is nowhere else in the file.
WriterSafe(w) ==
    /\ ~At(w, "idle") => writer[w].event \in Event
    /\ writer[w].at \in {"construct", "acquire"} \cup Holding =>
          writer[w].event.id \in done
    /\ writer[w].at \in Holding => ledgerLock = w
    /\ At(w, "append") => writer[w].event.id \notin Indexed
    /\ At(w, "flush") =>
          /\ lines # <<>> /\ Last(lines) \in {writer[w].event, Torn}
          /\ \A i \in 1..(Len(lines) - 1) : lines[i].id # writer[w].event.id
WriterInv == \A w \in Writers : WriterSafe(w)

\* Who has read the note holds its lock, and will write all of it back.
NoteInv == \A w \in Writers :
    drafts[w] # Nil => noteLock = w /\ ToSet(note) \subseteq ToSet(drafts[w])

FilesInv == FilesTypeOK /\ FilesKeepEntries /\ WriterInv /\ NoteInv

\* The invariant holds of two empty files.
LEMMA FilesStart == FilesInit => FilesInv
<1> SUFFICES ASSUME FilesInit PROVE FilesInv
  OBVIOUS
<1>1. <<>> \in Seq(Event \cup {Torn}) /\ <<>> \in Seq(1..MaxStarts)
      /\ 0 \in 0..MaxStarts /\ 0 \in 0..MaxCrashes
  BY SharedFilesAssumption
<1>2. FilesTypeOK
  BY <1>1 DEF FilesInit, FilesTypeOK, Off
<1>3. FilesKeepEntries
  BY <1>1 DEF FilesInit, FilesKeepEntries, OneEventPerId, AnsweredStay, EventHasCause,
     EntriesAreKept, ToSet
<1>4. WriterInv /\ NoteInv
  BY DEF FilesInit, WriterInv, WriterSafe, NoteInv, Off, At, Holding
<1>5. QED BY <1>2, <1>3, <1>4 DEF FilesInv

\* A line is an event or Torn, which has no identity.
LEMMA LineShapes ==
    ASSUME FilesInv
    PROVE  /\ Torn.id = Nil /\ Torn \notin Event
           /\ \A e \in Event : e.id \in Ids /\ e.id # Nil
           /\ \A i \in DOMAIN lines : lines[i] \in Event \cup {Torn}
<1>1. Torn.id = Nil
  BY DEF Torn
<1>2. \A e \in Event : e.id \in Ids /\ e.id # Nil
  BY SharedFilesAssumption DEF Event
<1>3. QED BY <1>1, <1>2 DEF FilesInv, FilesTypeOK

\* A writer that moves on without touching the file or its lock.
LEMMA WriterMoves ==
    ASSUME FilesInv, NEW w \in Writers, NEW v,
           writer' = [writer EXCEPT ![w] = v],
           v \in [at : {"idle", "effect", "construct", "acquire", "reload", "append",
                        "flush"},
                  event : Event \cup {Torn}, index : SUBSET (Ids \cup {Nil})],
           v.at # "idle" => v.event \in Event,
           v.at \in {"construct", "acquire"} => v.event.id \in done',
           v.at \notin Holding,
           lines' = lines, done \subseteq done', ledgerLock' = ledgerLock
    PROVE  WriterInv'
<1>1. writer \in [Writers -> [at : {"idle", "effect", "construct", "acquire", "reload",
                                    "append", "flush"},
                              event : Event \cup {Torn},
                              index : SUBSET (Ids \cup {Nil})]]
  BY DEF FilesInv, FilesTypeOK
<1>2. writer'[w] = v /\ \A u \in Writers \ {w} : writer'[u] = writer[u]
  BY <1>1
<1>3. Indexed' = Indexed
  BY DEF Indexed
<1> SUFFICES ASSUME NEW u \in Writers PROVE WriterSafe(u)'
  BY DEF WriterInv
<1>4. CASE u = w
  BY <1>2, <1>4 DEF WriterSafe, At, Holding
<1>5. CASE u # w
  BY <1>2, <1>3, <1>5 DEF FilesInv, WriterInv, WriterSafe, At, Holding
<1>6. QED BY <1>4, <1>5

\* The steps that leave both files and both locks alone.
LEMMA LocalSteps ==
    ASSUME FilesInv, NEW w \in Writers,
           \/ \E id \in Ids : Begin(w, id)
           \/ Effect(w) \/ Construct(w)
    PROVE  FilesInv'
<1> USE DEF noteVars, At
<1> DEFINE Local == [at : {"idle", "effect", "construct", "acquire", "reload", "append",
                           "flush"},
                     event : Event \cup {Torn}, index : SUBSET (Ids \cup {Nil})]
<1>1. /\ writer \in [Writers -> Local] /\ writer[w] \in Local
      /\ starts \in 0..MaxStarts /\ MaxStarts \in Nat /\ done \subseteq Ids
  BY SharedFilesAssumption DEF FilesInv, FilesTypeOK
<1>2. UNCHANGED <<lines, endless, ledgerLock, answered, crashes, note, noteLock,
                  noted, drafts>>
  BY DEF Begin, Effect, Construct
<1>3. ASSUME NEW v \in Local, writer' = [writer EXCEPT ![w] = v],
             v.at # "idle" => v.event \in Event,
             v.at \in {"construct", "acquire"} => v.event.id \in done',
             v.at \notin Holding, starts' \in 0..MaxStarts,
             done \subseteq done', done' \subseteq Ids
      PROVE  FilesInv'
  <2>1. WriterInv'
    BY <1>2, <1>3, WriterMoves
  <2>2. writer' \in [Writers -> Local]
    BY <1>1, <1>3
  <2>3. FilesTypeOK'
    BY <1>2, <1>3, <2>2 DEF FilesInv, FilesTypeOK
  <2>4. FilesKeepEntries' /\ NoteInv'
    BY <1>2, <1>3 DEF FilesInv, FilesKeepEntries, OneEventPerId, AnsweredStay,
       EventHasCause, EntriesAreKept, NoteInv
  <2>5. QED BY <2>1, <2>3, <2>4 DEF FilesInv
<1>4. ASSUME NEW id \in Ids, Begin(w, id) PROVE FilesInv'
  <2> DEFINE v == [at |-> "effect", event |-> [id |-> id, body |-> starts'], index |-> {}]
  <2>1. starts' \in 1..MaxStarts /\ starts' \in 0..MaxStarts /\ done' = done
    BY <1>1, <1>4 DEF Begin
  <2>2. v \in Local /\ v.event \in Event
    BY <2>1 DEF Event
  <2>3. writer' = [writer EXCEPT ![w] = v]
    BY <1>4 DEF Begin
  <2>4. v.at = "effect"
    OBVIOUS
  <2> HIDE DEF v
  <2>5. QED BY <1>1, <1>3, <2>1, <2>2, <2>3, <2>4 DEF Holding
<1>5. ASSUME Effect(w) PROVE FilesInv'
  <2> DEFINE v == [writer[w] EXCEPT !.at = "construct"]
  <2>1. writer[w].event \in Event
    BY <1>5 DEF Effect, FilesInv, WriterInv, WriterSafe
  <2>2. v \in Local /\ v.event = writer[w].event /\ v.at = "construct"
    BY <1>1
  <2>3. writer' = [writer EXCEPT ![w] = v] /\ starts' = starts
        /\ done' = done \cup {writer[w].event.id}
    BY <1>1, <1>5 DEF Effect, MoveOn
  <2>4. writer[w].event.id \in Ids
    BY <2>1, LineShapes
  <2> HIDE DEF v
  <2>5. QED BY <1>1, <1>3, <2>1, <2>2, <2>3, <2>4 DEF Holding
<1>6. ASSUME Construct(w) PROVE FilesInv'
  <2>1. starts' = starts /\ done' = done /\ writer[w].event \in Event
        /\ writer[w].event.id \in done
    BY <1>6 DEF Construct, FilesInv, WriterInv, WriterSafe
  <2>2. CASE Damaged
    <3>1. writer' = [writer EXCEPT ![w] = Off] /\ Off \in Local /\ Off.at = "idle"
      BY <1>6, <2>2 DEF Construct, Stop, Off
    <3>2. QED BY <1>1, <1>3, <2>1, <3>1 DEF Holding
  <2>3. CASE ~Damaged
    <3> DEFINE v == [writer[w] EXCEPT !.at = "acquire", !.index = Indexed]
    <3>1. Indexed \subseteq Ids \cup {Nil}
      BY LineShapes DEF Indexed
    <3>2. v \in Local /\ v.event = writer[w].event /\ v.at = "acquire"
      BY <1>1, <3>1
    <3>3. writer' = [writer EXCEPT ![w] = v]
      BY <1>1, <1>6, <2>3 DEF Construct
    <3> HIDE DEF v
    <3>4. QED BY <1>1, <1>3, <2>1, <3>2, <3>3 DEF Holding
  <2>4. QED BY <2>2, <2>3
<1>7. QED BY <1>4, <1>5, <1>6

\* While one writer has the lock of the ledger, or takes it, the others are
\* outside.
LEMMA OthersOutside ==
    ASSUME FilesInv, NEW w \in Writers, ledgerLock \in {w, Nil},
           NEW u \in Writers, u # w, writer'[u] = writer[u], done' = done
    PROVE  WriterSafe(u)'
<1>1. writer[u].at \notin Holding
  BY SharedFilesAssumption DEF FilesInv, WriterInv, WriterSafe
<1>2. QED BY <1>1 DEF FilesInv, WriterInv, WriterSafe, At, Holding

\* The steps of a writer that takes the lock, and of one that has it.
LEMMA LockSteps ==
    ASSUME FilesInv, NEW w \in Writers, Acquire(w) \/ Reload(w) \/ Write(w) \/ Flush(w)
    PROVE  FilesInv'
<1> USE DEF noteVars, At
<1> DEFINE Local == [at : {"idle", "effect", "construct", "acquire", "reload", "append",
                           "flush"},
                     event : Event \cup {Torn}, index : SUBSET (Ids \cup {Nil})]
           Line == Event \cup {Torn}
<1>1. /\ writer \in [Writers -> Local] /\ writer[w] \in Local
      /\ lines \in Seq(Line) /\ endless \in BOOLEAN /\ answered \subseteq Event
  BY DEF FilesInv, FilesTypeOK
<1>2. UNCHANGED <<starts, done, crashes, note, noteLock, noted, drafts>>
  BY DEF Acquire, Reload, Write, Flush
<1>3. ledgerLock \in {w, Nil} /\ ~At(w, "idle")
  BY DEF Acquire, Reload, Write, Flush, FilesInv, WriterInv, WriterSafe, Holding
<1>4. writer[w].event \in Event /\ writer[w].event.id \in done
      /\ writer[w].event \in Line /\ writer[w].event # Torn
      /\ writer[w].event.id # Nil
  BY <1>3, LineShapes DEF Acquire, Reload, Write, Flush, FilesInv, WriterInv, WriterSafe,
     Holding
<1>5. ASSUME NEW v \in Local, writer' = [writer EXCEPT ![w] = v],
             lines' \in Seq(Line), endless' \in BOOLEAN,
             ledgerLock' \in {w, Nil}, answered' \subseteq Event,
             OneEventPerId', AnsweredStay', EventHasCause', WriterSafe(w)'
      PROVE  FilesInv'
  <2>1. writer' \in [Writers -> Local] /\ \A u \in Writers \ {w} : writer'[u] = writer[u]
    BY <1>1, <1>5
  <2>2. \A u \in Writers \ {w} : WriterSafe(u)'
    BY <1>2, <1>3, <2>1, OthersOutside
  <2>3. WriterInv'
    BY <1>5, <2>2 DEF WriterInv
  <2>4. FilesTypeOK'
    BY <1>2, <1>5, <2>1 DEF FilesInv, FilesTypeOK
  <2>5. NoteInv' /\ EntriesAreKept'
    BY <1>2 DEF FilesInv, FilesKeepEntries, NoteInv, EntriesAreKept
  <2>6. QED BY <1>5, <2>3, <2>4, <2>5 DEF FilesInv, FilesKeepEntries
<1>6. lines' = lines =>
         OneEventPerId' /\ EventHasCause' /\ (answered' = answered => AnsweredStay')
         /\ Indexed' = Indexed
  BY <1>2 DEF FilesInv, FilesKeepEntries, OneEventPerId, EventHasCause, AnsweredStay,
     Indexed
<1>7. Off \in Local /\ Off.at = "idle"
  BY DEF Off
<1>8. ASSUME Acquire(w) PROVE FilesInv'
  <2> DEFINE v == [writer[w] EXCEPT !.at = "reload"]
  <2>1. v \in Local /\ v.event = writer[w].event /\ v.at = "reload"
    BY <1>1
  <2>2. writer' = [writer EXCEPT ![w] = v] /\ writer'[w] = v
    BY <1>1, <1>8 DEF Acquire, MoveOn
  <2>3. ledgerLock' = w /\ UNCHANGED <<lines, endless, answered>>
    BY <1>8 DEF Acquire
  <2> HIDE DEF v
  <2>4. WriterSafe(w)'
    BY <1>2, <1>4, <2>1, <2>2, <2>3 DEF WriterSafe, Holding
  <2>5. QED BY <1>1, <1>5, <1>6, <2>1, <2>2, <2>3, <2>4
<1>9. ASSUME Reload(w) PROVE FilesInv'
  <2>1. UNCHANGED <<lines, endless>> /\ Known(w) = Indexed /\ writer[w].at = "reload"
    BY <1>9 DEF Reload, Known
  <2>2. ASSUME Stop(w), ledgerLock' = Nil, answered' \subseteq Event, AnsweredStay'
        PROVE  FilesInv'
    <3>1. writer' = [writer EXCEPT ![w] = Off] /\ writer'[w] = Off
      BY <1>1, <2>2 DEF Stop
    <3>2. WriterSafe(w)'
      BY <1>7, <3>1 DEF WriterSafe, Holding
    <3>3. QED BY <1>1, <1>5, <1>6, <1>7, <2>1, <2>2, <3>1, <3>2
  <2>3. CASE Damaged
    BY <1>1, <1>6, <1>9, <2>1, <2>2, <2>3 DEF Reload
  <2>4. CASE ~Damaged /\ writer[w].event.id \in Known(w)
    <3> DEFINE same == {e \in ToSet(lines) : e.id = writer[w].event.id}
    <3>1. same \subseteq Event /\ same \subseteq ToSet(lines)
      BY <1>4, LineShapes DEF ToSet
    <3>2. Stop(w) /\ ledgerLock' = Nil /\ answered' = answered \cup same
      BY <1>9, <2>4 DEF Reload
    <3> HIDE DEF same
    <3>3. AnsweredStay'
      BY <2>1, <3>1, <3>2 DEF FilesInv, FilesKeepEntries, AnsweredStay
    <3>4. QED BY <1>1, <2>2, <3>1, <3>2, <3>3
  <2>5. CASE ~Damaged /\ writer[w].event.id \notin Known(w)
    <3> DEFINE v == [writer[w] EXCEPT !.at = "append"]
    <3>1. v \in Local /\ v.event = writer[w].event /\ v.at = "append"
      BY <1>1
    <3>2. writer' = [writer EXCEPT ![w] = v] /\ writer'[w] = v
      BY <1>1, <1>9, <2>5 DEF Reload, MoveOn
    <3>3. ledgerLock' = ledgerLock /\ answered' = answered /\ ledgerLock = w
      BY <1>9, <2>1, <2>5 DEF Reload, FilesInv, WriterInv, WriterSafe, Holding
    <3> HIDE DEF v
    <3>4. WriterSafe(w)'
      BY <1>2, <1>4, <1>6, <2>1, <2>5, <3>1, <3>2, <3>3 DEF WriterSafe, Holding
    <3>5. QED BY <1>1, <1>5, <1>6, <2>1, <3>1, <3>2, <3>3, <3>4
  <2>6. QED BY <2>3, <2>4, <2>5
<1>10. ASSUME Write(w) PROVE FilesInv'
  <2>1. PICK e \in {writer[w].event, Torn} : lines' = Append(lines, e)
    BY <1>10 DEF Write, Extended
  <2>2. /\ e \in Line /\ answered' = answered /\ ledgerLock' = ledgerLock
        /\ ledgerLock = w /\ writer[w].at = "append"
    BY <1>4, <1>10 DEF Write, FilesInv, WriterInv, WriterSafe, Holding
  <2>3. /\ lines' \in Seq(Line) \ {<<>>} /\ Len(lines') = Len(lines) + 1
        /\ \A i \in 1..Len(lines) : lines'[i] = lines[i]
        /\ lines'[Len(lines) + 1] = e
        /\ ToSet(lines') = ToSet(lines) \cup {e}
        /\ Last(lines') = e
    BY <1>1, <2>1, <2>2, AppendAdds
  <2>4. /\ Len(lines) \in Nat /\ DOMAIN lines = 1..Len(lines)
        /\ DOMAIN lines' = 1..(Len(lines) + 1)
    BY <1>1, <2>3
  <2>5. endless' \in BOOLEAN
    <3>1. endless' \in {TRUE, lines'[Len(lines')] = Torn}
      BY <1>10 DEF Write
    <3>2. QED BY <3>1
  <2>6. writer[w].event.id \notin Indexed
    BY <2>2 DEF FilesInv, WriterInv, WriterSafe
  <2>7. \A i \in 1..Len(lines) : lines[i].id # writer[w].event.id
    BY <2>4, <2>6 DEF Indexed
  <2>8. OneEventPerId'
    <3> SUFFICES ASSUME NEW i \in 1..(Len(lines) + 1), NEW j \in 1..(Len(lines) + 1),
                        i # j
                 PROVE  lines'[i] = Torn \/ lines'[i].id # lines'[j].id
      BY <2>4 DEF OneEventPerId
    <3>1. CASE i \in 1..Len(lines) /\ j \in 1..Len(lines)
      BY <2>3, <2>4, <3>1 DEF FilesInv, FilesKeepEntries, OneEventPerId
    <3>2. CASE i = Len(lines) + 1 /\ j \in 1..Len(lines)
      BY <2>1, <2>3, <2>7, <3>2
    <3>3. CASE i \in 1..Len(lines) /\ j = Len(lines) + 1
      <4>1. e = Torn => lines[i] = Torn \/ lines[i].id # Nil
        BY <2>4, <3>3, LineShapes
      <4>2. QED BY <2>1, <2>3, <2>7, <3>3, <4>1, LineShapes
    <3>4. QED BY <2>4, <3>1, <3>2, <3>3
  <2>9. EventHasCause'
    BY <1>2, <1>4, <2>1, <2>3, <2>4 DEF FilesInv, FilesKeepEntries, EventHasCause
  <2>10. AnsweredStay'
    BY <2>2, <2>3 DEF FilesInv, FilesKeepEntries, AnsweredStay
  <2> DEFINE v == [writer[w] EXCEPT !.at = "flush"]
  <2>11. v \in Local /\ v.event = writer[w].event /\ v.at = "flush"
    BY <1>1
  <2>12. writer' = [writer EXCEPT ![w] = v] /\ writer'[w] = v
    BY <1>1, <1>10 DEF Write, MoveOn
  <2> HIDE DEF v
  <2>13. WriterSafe(w)'
    <3>1. \A i \in 1..(Len(lines') - 1) : lines'[i].id # writer[w].event.id
      BY <2>3, <2>4, <2>7
    <3>2. lines' # <<>> /\ Last(lines') \in {writer[w].event, Torn}
      BY <2>1, <2>3
    <3>3. QED BY <1>2, <1>4, <2>2, <2>11, <2>12, <3>1, <3>2 DEF WriterSafe, Holding
  <2>14. QED BY <1>1, <1>5, <2>2, <2>3, <2>5, <2>8, <2>9, <2>10, <2>11, <2>12, <2>13
<1>11. ASSUME Flush(w) PROVE FilesInv'
  <2> DEFINE n == Len(lines)
             ev == writer[w].event
  <2>1. /\ lines # <<>> /\ Last(lines) \in {ev, Torn}
        /\ \A i \in 1..(n - 1) : lines[i].id # ev.id
    BY <1>11 DEF Flush, FilesInv, WriterInv, WriterSafe
  <2>2. /\ n \in Nat \ {0} /\ DOMAIN lines = 1..n /\ Last(lines) = lines[n]
    BY <1>1, <2>1, LastInside
  <2>3. /\ lines' \in Seq(Line) /\ DOMAIN lines' = 1..n /\ lines'[n] = ev
        /\ \A i \in 1..(n - 1) : lines'[i] = lines[i]
    <3>1. CASE Last(lines) = Torn
      <4>1. lines' = [lines EXCEPT ![n] = ev]
        BY <1>11, <3>1 DEF Flush
      <4> HIDE DEF ev
      <4>2. ev \in Line
        BY <1>4 DEF ev
      <4> HIDE DEF Line
      <4>3. QED BY <1>1, <2>1, <4>1, <4>2, ReplaceLast
    <3>2. CASE Last(lines) # Torn
      <4>1. lines' = lines
        BY <1>11, <3>2 DEF Flush
      <4> HIDE DEF n, ev, Line
      <4>2. QED BY <1>1, <2>1, <2>2, <3>2, <4>1
    <3>3. QED BY <3>1, <3>2
  <2>12. ev \in Event /\ ev.id \in done /\ ev # Torn
    BY <1>4
  <2> HIDE DEF n, ev
  <2>4. answered' = answered \cup {ev} /\ Stop(w) /\ ledgerLock' = Nil
        /\ endless' = FALSE
    BY <1>11 DEF Flush, ev
  <2>5. writer' = [writer EXCEPT ![w] = Off] /\ writer'[w] = Off
    BY <1>1, <2>4 DEF Stop
  <2>6. WriterSafe(w)'
    BY <1>7, <2>5 DEF WriterSafe, Holding
  <2>7. OneEventPerId'
    <3> SUFFICES ASSUME NEW i \in 1..n, NEW j \in 1..n, i # j
                 PROVE  lines'[i] = Torn \/ lines'[i].id # lines'[j].id
      BY <2>3 DEF OneEventPerId
    <3>1. CASE i \in 1..(n - 1) /\ j \in 1..(n - 1)
      BY <2>2, <2>3, <3>1 DEF FilesInv, FilesKeepEntries, OneEventPerId
    <3>2. CASE i = n \/ j = n
      BY <2>1, <2>2, <2>3, <3>2
    <3>3. QED BY <2>2, <3>1, <3>2
  <2>8. EventHasCause'
    <3> SUFFICES ASSUME NEW i \in 1..n
                 PROVE  lines'[i] = Torn \/ lines'[i].id \in done
      BY <1>2, <2>3 DEF EventHasCause
    <3>1. CASE i = n
      BY <2>3, <2>12, <3>1
    <3>2. CASE i \in 1..(n - 1)
      BY <2>2, <2>3, <3>2 DEF FilesInv, FilesKeepEntries, EventHasCause
    <3>3. QED BY <2>2, <3>1, <3>2
  <2>9. AnsweredStay'
    <3>1. ev \in ToSet(lines')
      BY <2>2, <2>3 DEF ToSet
    <3>2. ASSUME NEW e \in answered PROVE e \in ToSet(lines')
      <4>1. e \in ToSet(lines) /\ e # Torn
        BY <1>1, LineShapes DEF FilesInv, FilesKeepEntries, AnsweredStay
      <4>2. PICK i \in 1..n : lines[i] = e
        BY <2>2, <4>1 DEF ToSet
      <4>3. lines'[i] = e
        BY <2>1, <2>2, <2>3, <4>1, <4>2
      <4>4. QED BY <2>3, <4>3 DEF ToSet
    <3>3. QED BY <2>4, <3>1, <3>2 DEF AnsweredStay
  <2>10. answered' \subseteq Event
    BY <1>1, <2>4, <2>12
  <2>11. QED BY <1>5, <1>7, <2>3, <2>4, <2>5, <2>6, <2>7, <2>8, <2>9, <2>10
<1>12. QED BY <1>8, <1>9, <1>10, <1>11

\* The steps of the handoff note, and the end of a process.
LEMMA NoteSteps ==
    ASSUME FilesInv, NEW w \in Writers, ReadNote(w) \/ ReplaceNote(w) \/ Dies(w)
    PROVE  FilesInv'
<1> USE DEF ledgerVars
<1> DEFINE Draft == {Nil} \cup (Seq(1..MaxStarts) \ {<<>>})
<1>1. /\ drafts \in [Writers -> Draft] /\ note \in Seq(1..MaxStarts)
      /\ starts \in 0..MaxStarts /\ MaxStarts \in Nat /\ crashes \in 0..MaxCrashes
      /\ MaxCrashes \in Nat /\ noted \subseteq 1..MaxStarts
      /\ noteLock \in Writers \cup {Nil}
  BY SharedFilesAssumption DEF FilesInv, FilesTypeOK
<1>2. UNCHANGED <<lines, endless, done, answered>>
  BY DEF ReadNote, ReplaceNote, Dies
<1>3. OneEventPerId' /\ AnsweredStay' /\ EventHasCause' /\ Indexed' = Indexed
  BY <1>2 DEF FilesInv, FilesKeepEntries, OneEventPerId, AnsweredStay, EventHasCause,
     Indexed
<1>4. ASSUME UNCHANGED <<writer, ledgerLock, crashes>>, starts' \in 0..MaxStarts,
             drafts' \in [Writers -> Draft], note' \in Seq(1..MaxStarts),
             noted' \subseteq 1..MaxStarts, noteLock' \in Writers \cup {Nil},
             NoteInv', EntriesAreKept'
      PROVE  FilesInv'
  <2>1. FilesTypeOK'
    BY <1>2, <1>4 DEF FilesInv, FilesTypeOK
  <2>2. WriterInv'
    BY <1>2, <1>3, <1>4 DEF FilesInv, WriterInv, WriterSafe, At
  <2>3. QED BY <1>3, <1>4, <2>1, <2>2 DEF FilesInv, FilesKeepEntries
<1>5. ASSUME ReadNote(w) PROVE FilesInv'
  <2>1. starts' \in 1..MaxStarts /\ starts' \in 0..MaxStarts
    BY <1>1, <1>5 DEF ReadNote
  <2> DEFINE d == Append(note, starts')
  <2>2. d \in Draft /\ ToSet(note) \subseteq ToSet(d)
    BY <1>1, <2>1, AppendAdds
  <2>3. /\ drafts' = [drafts EXCEPT ![w] = d] /\ noteLock = Nil /\ noteLock' = w
        /\ UNCHANGED <<note, noted, writer, ledgerLock, crashes>>
    BY <1>5 DEF ReadNote
  <2> HIDE DEF d
  <2>4. drafts' \in [Writers -> Draft] /\ drafts'[w] = d
        /\ \A u \in Writers \ {w} : drafts'[u] = drafts[u]
    BY <1>1, <2>2, <2>3
  <2>5. \A u \in Writers : drafts[u] = Nil
    BY <2>3, SharedFilesAssumption DEF FilesInv, NoteInv
  <2>6. NoteInv' /\ EntriesAreKept'
    BY <2>2, <2>3, <2>4, <2>5 DEF FilesInv, FilesKeepEntries, NoteInv, EntriesAreKept
  <2>7. QED BY <1>1, <1>4, <2>1, <2>3, <2>4, <2>6
<1>6. ASSUME ReplaceNote(w) PROVE FilesInv'
  <2> DEFINE d == drafts[w]
  <2>1. /\ d # Nil /\ note' = d /\ noted' = noted \cup {Last(d)} /\ noteLock' = Nil
        /\ drafts' = [drafts EXCEPT ![w] = Nil]
        /\ UNCHANGED <<writer, ledgerLock, crashes, starts>>
    BY <1>6 DEF ReplaceNote
  <2>2. d \in Seq(1..MaxStarts) \ {<<>>} /\ noteLock = w /\ ToSet(note) \subseteq ToSet(d)
    BY <1>1, <2>1 DEF FilesInv, NoteInv
  <2> HIDE DEF d
  <2>3. Last(d) \in ToSet(d) /\ Last(d) \in 1..MaxStarts
    <3>1. d \in Seq(1..MaxStarts) /\ d # <<>>
      BY <2>2
    <3>2. QED BY <3>1, LastInside
  <2>4. drafts' \in [Writers -> Draft] /\ \A u \in Writers : drafts'[u] = Nil
    <3>1. \A u \in Writers \ {w} : drafts[u] = Nil
      BY <2>2 DEF FilesInv, NoteInv
    <3>2. QED BY <1>1, <2>1, <3>1
  <2>5. NoteInv' /\ EntriesAreKept'
    BY <2>1, <2>2, <2>3, <2>4 DEF FilesInv, FilesKeepEntries, NoteInv, EntriesAreKept
  <2>6. QED BY <1>1, <1>4, <2>1, <2>2, <2>3, <2>4, <2>5
<1>7. ASSUME Dies(w) PROVE FilesInv'
  <2>1. /\ writer' = [writer EXCEPT ![w] = Off] /\ drafts' = [drafts EXCEPT ![w] = Nil]
        /\ ledgerLock' = (IF ledgerLock = w THEN Nil ELSE ledgerLock)
        /\ noteLock' = (IF noteLock = w THEN Nil ELSE noteLock)
        /\ crashes' = crashes + 1 /\ crashes < MaxCrashes
        /\ UNCHANGED <<starts, note, noted>>
    BY <1>7 DEF Dies, Stop
  <2> DEFINE Local == [at : {"idle", "effect", "construct", "acquire", "reload",
                             "append", "flush"},
                       event : Event \cup {Torn}, index : SUBSET (Ids \cup {Nil})]
  <2>2. writer \in [Writers -> Local] /\ Off \in Local /\ Off.at = "idle"
        /\ ledgerLock \in Writers \cup {Nil}
    BY DEF FilesInv, FilesTypeOK, Off
  <2>3. /\ writer' \in [Writers -> Local] /\ writer'[w] = Off
        /\ \A u \in Writers \ {w} : writer'[u] = writer[u]
        /\ drafts' \in [Writers -> Draft] /\ drafts'[w] = Nil
        /\ \A u \in Writers \ {w} : drafts'[u] = drafts[u]
    BY <1>1, <2>1, <2>2
  <2>4. crashes' \in 0..MaxCrashes
    BY <1>1, <2>1
  <2>5. FilesTypeOK'
    BY <1>1, <1>2, <2>1, <2>2, <2>3, <2>4 DEF FilesInv, FilesTypeOK
  <2>6. WriterInv'
    <3>1. WriterSafe(w)'
      BY <2>2, <2>3 DEF WriterSafe, At, Holding
    <3>2. ASSUME NEW u \in Writers \ {w} PROVE WriterSafe(u)'
      <4>1. WriterSafe(u) /\ writer'[u] = writer[u] /\ (ledgerLock = u => ledgerLock' = u)
        BY <2>1, <2>3 DEF FilesInv, WriterInv
      <4>2. QED BY <1>2, <1>3, <4>1 DEF WriterSafe, At
    <3>3. QED BY <3>1, <3>2 DEF WriterInv
  <2>7. NoteInv' /\ EntriesAreKept'
    BY <2>1, <2>3 DEF FilesInv, FilesKeepEntries, NoteInv, EntriesAreKept
  <2>8. QED BY <1>3, <2>5, <2>6, <2>7 DEF FilesInv, FilesKeepEntries
<1>8. QED BY <1>5, <1>6, <1>7

\* Every step of every process keeps the invariant.
LEMMA FilesStep == FilesInv /\ [FilesNext]_fileVars => FilesInv'
<1> SUFFICES ASSUME FilesInv, [FilesNext]_fileVars PROVE FilesInv'
  OBVIOUS
<1>1. CASE UNCHANGED fileVars
  BY <1>1 DEF fileVars, ledgerVars, noteVars, FilesInv, FilesTypeOK, FilesKeepEntries,
     OneEventPerId, AnsweredStay, EventHasCause, EntriesAreKept, WriterInv, WriterSafe,
     NoteInv, At, Indexed
<1>2. CASE FilesNext
  BY <1>2, LocalSteps, LockSteps, NoteSteps DEF FilesNext
<1>3. QED BY <1>1, <1>2

\* Whatever the processes of a checkout append to the ledger and the note, and
\* wherever they end: no two lines of the ledger are the same event, one that
\* write_event has returned is in the file, each stands for an effect that was
\* durable before, and an entry append_entry has returned is in the note
\* (ledger.py, handoff.py).
THEOREM EntriesStay == FilesSpec => []FilesKeepEntries
<1>1. FilesInv => FilesKeepEntries
  BY DEF FilesInv
<1>2. QED BY <1>1, FilesStart, FilesStep, PTL DEF FilesSpec

\* Both files keep their shape: a line of the ledger is an event or was cut
\* short (SharedFiles).
THEOREM FilesTypes == FilesSpec => []FilesTypeOK
<1>1. FilesInv => FilesTypeOK
  BY DEF FilesInv
<1>2. QED BY <1>1, FilesStart, FilesStep, PTL DEF FilesSpec
================================================================================
