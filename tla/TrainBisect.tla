----------------------------- MODULE TrainBisect -----------------------------
(***************************************************************************)
(* bisect (src/aet/train.py): the search for the commit that broke a batch *)
(* of the merge train.  The snapshot c1..cn has just failed validation;    *)
(* the search validates prefixes of it, one suite run at a time, and names *)
(* a culprit or finds none, which flush takes for a flake.                 *)
(*                                                                         *)
(* A prefix has a real outcome, but a run may show red for a prefix that   *)
(* is really green: the suite is flaky, or the run timed out.              *)
(***************************************************************************)
EXTENDS Integers

CONSTANT MaxCommits         \* bound on the length of a batch

ASSUME MaxCommitsAssumption == MaxCommits \in Nat

None == 0                   \* culprit_idx = None; commits count from 1

VARIABLES
    n,          \* number of commits between the base and the snapshot
    red,        \* red[k]: the tree of ck really fails the suite
    low, high,  \* the interval still searched
    culprit,    \* the last prefix that showed red
    runs,       \* suite runs so far
    seen,       \* seen[k]: what the runs on ck showed
    pc          \* "start", "search", "done", or "raised": checkout failed

vars == <<n, red, low, high, culprit, runs, seen, pc>>

Shown == {"unrun", "red", "green"}

TypeOK ==
    /\ n \in 0..MaxCommits
    /\ red \in [1..n -> BOOLEAN]
    /\ low \in 1..(n + 1)
    /\ high \in 0..n
    /\ culprit \in 0..n
    /\ runs \in Nat
    /\ seen \in [1..n -> Shown]
    /\ pc \in {"start", "search", "done", "raised"}

Init ==
    /\ n \in 0..MaxCommits
    /\ red \in [1..n -> BOOLEAN]
    /\ low = 1
    /\ high = n
    /\ culprit = None
    /\ runs = 0
    /\ seen = [k \in 1..n |-> "unrun"]
    /\ pc = "start"

\* The prefix to run next.
Mid == (low + high) \div 2

\* What becomes of the interval.
LowAfterGreen == Mid + 1
HighAfterRed == Mid - 1

\* The count of runs, capped past any count a search should reach.
Tick == IF runs <= MaxCommits THEN runs + 1 ELSE runs

\* There is something to search and a worktree to search it in.
Begin ==
    /\ pc = "start" /\ n > 0
    /\ pc' = "search"
    /\ UNCHANGED <<n, red, low, high, culprit, runs, seen>>

\* Nothing is staged above the base, or the worktree cannot be added: None.
GiveUp ==
    /\ pc = "start"
    /\ pc' = "done"
    /\ UNCHANGED <<n, red, low, high, culprit, runs, seen>>

\* git checkout or git clean fails, and the exception leaves bisect.
Raise ==
    /\ pc = "search" /\ low <= high
    /\ pc' = "raised"
    /\ UNCHANGED <<n, red, low, high, culprit, runs, seen>>

\* The mutant of the next action: it keeps the first prefix that failed.
ProbeRedKeepsFirst ==
    /\ pc = "search" /\ low <= high
    /\ culprit' = IF culprit = None THEN Mid ELSE culprit
    /\ high' = HighAfterRed
    /\ seen' = [seen EXCEPT ![Mid] = "red"]
    /\ runs' = Tick
    /\ UNCHANGED <<n, red, low, pc>>

\* A run on c_mid fails: it really does, or this run is a flake.
ProbeRed ==
    /\ pc = "search" /\ low <= high
    /\ culprit' = Mid
    /\ high' = HighAfterRed
    /\ seen' = [seen EXCEPT ![Mid] = "red"]
    /\ runs' = Tick
    /\ UNCHANGED <<n, red, low, pc>>

\* A run on c_mid passes.
ProbeGreen ==
    /\ pc = "search" /\ low <= high
    /\ ~red[Mid]
    /\ low' = LowAfterGreen
    /\ seen' = [seen EXCEPT ![Mid] = "green"]
    /\ runs' = Tick
    /\ UNCHANGED <<n, red, high, culprit, pc>>

Return ==
    /\ pc = "search" /\ low > high
    /\ pc' = "done"
    /\ UNCHANGED <<n, red, low, high, culprit, runs, seen>>

Search == Begin \/ GiveUp \/ ProbeRed \/ ProbeGreen \/ Return
Next == Search \/ Raise

\* A suite run ends: _run_flush_validation gives it a timeout.  Nothing has
\* to raise.
Spec == Init /\ [][Next]_vars /\ WF_vars(Search)

-----------------------------------------------------------------------------
(* Properties *)

\* The culprit is a commit at which the batch was seen to turn: a run on it
\* failed, and a run on its predecessor passed, so flush may restack on the
\* predecessor.  Whatever the suite does: no assumption that it is
\* deterministic, nor that a broken batch stays broken.
CulpritTurnsTheBatch ==
    pc = "done" /\ culprit # None =>
        /\ seen[culprit] = "red"
        /\ culprit > 1 => seen[culprit - 1] = "green"

\* flush takes None for a flake of the run on the snapshot: a search that
\* ran returns it only when a run on the snapshot's own commit has passed.
NoneMeansSnapshotPassed ==
    pc = "done" /\ culprit = None /\ runs > 0 => seen[n] = "green"

\* bisect's docstring: "Returns the smallest failing k".  It does when no
\* run is a flake and a prefix that fails is not mended by a later commit.
Honest == \A k \in 1..n : seen[k] = "red" => red[k]
StaysBroken == \A j, k \in 1..n : j <= k /\ red[j] => red[k]
FindsFirstFailing ==
    pc = "done" /\ runs > 0 /\ Honest /\ StaysBroken =>
        IF culprit = None THEN \A k \in 1..n : ~red[k]
        ELSE red[culprit] /\ \A k \in 1..(culprit - 1) : ~red[k]

-----------------------------------------------------------------------------
(* The inductive invariant behind the safety properties *)

\* Everything below low has its last prefix seen green, everything above
\* high starts with the culprit, seen red.
Interval ==
    /\ low <= high + 1
    /\ low > 1 => seen[low - 1] = "green"
    /\ high < n => culprit = high + 1 /\ seen[high + 1] = "red"
    /\ high = n => culprit = None
    /\ pc = "done" /\ runs > 0 => low = high + 1
    /\ pc = "start" => runs = 0 /\ low = 1 /\ high = n
    /\ runs = 0 => culprit = None
    /\ runs > 0 => n > 0

\* A green run tells the truth: the tree passes.
GreenIsTrue == \A k \in 1..n : seen[k] = "green" => ~red[k]

BisectInv == TypeOK /\ Interval /\ GreenIsTrue
=============================================================================
