-------------------------------- MODULE MCBatch --------------------------------
(***************************************************************************)
(* The batch loop and the breakers that stop it, in two parts of one run.  *)
(* One part is chosen at the start, the other stands still:                *)
(*   "batch"    two tasks and one that waits for both, in one run          *)
(*              (BatchRun), whose tally starts empty;                      *)
(*   "breaker"  the tally over several runs and the commands of an         *)
(*              operator (Breaker).                                        *)
(***************************************************************************)
EXTENDS BatchRun, Breaker

CONSTANTS a, b, c, s1

VARIABLE part

all == <<part, vars, breakerVars>>

\* A closed provider window, a failure of the task, and one at a shutdown.
Failure(tail, stopped) ==
    [exit |-> 1, tail |-> tail, verdict |-> TRUE, shutdown |-> stopped,
     killed |-> FALSE]
Failures == {Failure("throttle", FALSE), Failure("design", FALSE),
             Failure("other", TRUE)}

\* b waits for the others.
Both == [t \in Task |-> IF t = b THEN {a, c} ELSE {}]
Queue == [t \in Task |-> CASE t = a -> 1 [] t = b -> 2 [] OTHER -> 3]

ASSUME Failures \subseteq Symptoms

BatchInit == part \in {"batch", "breaker"} /\ Init /\ BreakerInit

Looping == part = "batch" /\ Next /\ UNCHANGED <<part, breakerVars>>
Breaking == part = "breaker" /\ BreakerNext /\ UNCHANGED <<part, vars>>
BatchNext == Looping \/ Breaking

\* The fairness of BatchRun.
Stepping == part = "batch" /\ RunStep /\ UNCHANGED <<part, breakerVars>>
BatchSpec == BatchInit /\ [][BatchNext]_all /\ WF_all(Stepping)

-----------------------------------------------------------------------------
\* Every batch ends, whatever its children do, except when the run waits for
\* the queue lock it holds itself (the loop of run_batch).
LoopEnds == part = "batch" => BatchEnds
===============================================================================
