--------------------------- MODULE DependencyGate ---------------------------
(***************************************************************************)
(* What the task board promises its users about dependencies, without      *)
(* counters, inverse edges, tombstones or git: a waiting task is opened by *)
(* the step that settles the last task it needs, in that very step, and by *)
(* no other step.  TaskBoard implements this specification.                *)
(***************************************************************************)
EXTENDS FiniteSets

CONSTANTS Task, PlanBlockers

VARIABLES
    status,     \* where each task stands
    needs       \* the tasks it waits for

vars == <<status, needs>>

Settled == {t \in Task : status[t] = "settled"}

\* A task enters the board, or is planned anew before any work on it.
Admit(t, bs) ==
    /\ status[t] \in {"absent", "listed", "waiting", "open"}
    /\ needs' = [needs EXCEPT ![t] = bs]
    /\ status' = [status EXCEPT ![t] = IF bs \subseteq Settled THEN "open"
                                                               ELSE "waiting"]

\* A listed task is picked by name, ahead of its turn.
Select(t) ==
    /\ status[t] = "listed"
    /\ status' = [status EXCEPT ![t] = "open"]
    /\ UNCHANGED needs

\* A task is finished or given up; whoever needed only this one is opened.
Settle(t) ==
    /\ status[t] \in {"listed", "waiting", "open"}
    /\ status' = [d \in Task |->
                     IF d = t THEN "settled"
                     ELSE IF /\ status[d] \in {"listed", "waiting"}
                             /\ t \in needs[d]
                             /\ needs[d] \subseteq Settled \cup {t}
                       THEN "open"
                     ELSE status[d]]
    /\ UNCHANGED needs

Init ==
    /\ status \in [Task -> {"absent", "listed"}]
    /\ needs \in [Task -> SUBSET Task]

Next ==
    \E t \in Task :
       \/ \E bs \in PlanBlockers[t] : Admit(t, bs)
       \/ Select(t)
       \/ Settle(t)

Spec == Init /\ [][Next]_vars
=============================================================================
