------------------------------ MODULE MCBatchRun ------------------------------
(* A small board for BatchRun: two tasks, and one that waits for both.        *)
EXTENDS BatchRun

CONSTANTS a, b, c, s1, s2

\* b waits for the others.
MCBlockers == [t \in Task |-> IF t = b THEN {a, c} \cap Task ELSE {}]
MCPlace == [t \in Task |-> CASE t = a -> 1 [] t = b -> 2 [] OTHER -> 3]
===============================================================================
