------------------------------ MODULE MCWorkspace ------------------------------
(***************************************************************************)
(* What the sessions of a checkout work in, in two parts of one run.  One  *)
(* part is chosen at the start, the other stands still:                    *)
(*   "work"   the worktree of a task over several attempts (Worktrees);    *)
(*   "files"  the provenance ledger and the handoff note (SharedFiles).    *)
(***************************************************************************)
EXTENDS Worktrees, SharedFiles

CONSTANTS p1, p2

VARIABLE part

all == <<part, vars, fileVars>>

\* Two pieces of code, a change to a tracked plan, and the rendered plan.  The
\* first version of the base touches a plan only and conflicts with the plan
\* change, the second conflicts with one piece of code.
Pieces == {"code1", "code2", "plan", "rendered"}
Kinds == [p \in Pieces |-> IF p \in {"code1", "code2"} THEN "code" ELSE p]
Clashing == <<{"plan"}, {"code1"}>>

TwoWriters == {p1, p2}
TwoEvents == {"x", "y"}

ASSUME WorktreesAssumption

\* Nothing is worked on in the part of the files.
PartsInit ==
    /\ FilesInit /\ Init
    /\ \/ part = "work"
       \/ part = "files" /\ ~remote

Working == part = "work" /\ Next /\ UNCHANGED <<part, fileVars>>
Writing == part = "files" /\ FilesNext /\ UNCHANGED <<part, vars>>
PartsNext == Working \/ Writing

\* The fairness of Worktrees.
Preparing == part = "work" /\ Prepare /\ UNCHANGED <<part, fileVars>>
PartsSpec == PartsInit /\ [][PartsNext]_all /\ WF_all(Preparing)

-----------------------------------------------------------------------------
(* The properties of both modules are checked under their own names.        *)
================================================================================
