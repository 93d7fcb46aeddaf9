---------------------------- MODULE MCTaskBoard ----------------------------
(* Small boards for TLC. *)
EXTENDS TaskBoard, TLC

CONSTANTS t1, t2, t3

\* t3 waits for both others, and t2's plan may be edited to wait for t1.
Diamond == t1 :> {{}} @@ t2 :> {{}, {t1}} @@ t3 :> {{t1, t2}}
\* t2 waits for t1.
Pair == t1 :> {{}} @@ t2 :> {{t1}}
=============================================================================
