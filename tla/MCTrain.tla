-------------------------------- MODULE MCTrain --------------------------------
(***************************************************************************)
(* The merge train for TLC, in three parts that share a run.  One of them  *)
(* is chosen at the start and the others stand at an initial state:        *)
(*   "bisect"  the search of TrainBisect, over every batch up to           *)
(*             MaxCommits commits and every way a suite may fail on it;    *)
(*   "alone"   one process that flushes three tasks twice, each after the  *)
(*             markers are written;                                        *)
(*   "pair"    two processes that flush two tasks at once, with markers    *)
(*             that are written late.                                      *)
(***************************************************************************)
EXTENDS TrainBisect, MergeTrain

CONSTANTS t1, t2, t3, f1, f2, o1

VARIABLE part

\* t2 breaks the suite by itself, t3 may conflict.
Three == {t1, t2, t3}
Both == {f1, f2}
Others == {o1}
Broken == {{t2}}
Refused == {t3}

NoSearch ==
    /\ n = 0 /\ red = <<>> /\ low = 1 /\ high = 0 /\ culprit = None
    /\ runs = 0 /\ seen = <<>> /\ pc = "done"

PartsInit ==
    /\ TrainInit
    /\ \/ part = "bisect" /\ Init
       \/ part \in {"alone", "pair"} /\ NoSearch

\* What the parts leave out of MergeTrain.
Alone == starts'[f2] = 0 /\ unseen' = {} /\ Unwritten \cap guessed' = {}
Pair ==
    /\ t1 \in branch' /\ diag'[t1] = "none"
    /\ outside' = Others
    /\ \A f \in Both : starts'[f] <= 1

Bisecting == part = "bisect" /\ Next /\ UNCHANGED <<part, trainVars>>
Flushing ==
    /\ TrainNext
    /\ \/ part = "alone" /\ Alone
       \/ part = "pair" /\ Pair
    /\ UNCHANGED <<part, vars>>
PartsNext == Bisecting \/ Flushing

\* The fairness of MergeTrain, for the part whose liveness is checked.
FlushStepAlone ==
    part = "alone" /\ FlushStep(f1) /\ Alone /\ UNCHANGED <<part, vars>>
MarkAlone(t) == part = "alone" /\ Mark(t) /\ UNCHANGED <<part, vars>>
all == <<part, vars, trainVars>>
PartsSpec ==
    /\ PartsInit /\ [][PartsNext]_all
    /\ WF_all(FlushStepAlone) /\ \A t \in Three : WF_all(MarkAlone(t))

-----------------------------------------------------------------------------
(* The properties of the two modules are checked under their own names, but *)
(* for the one that needs fairness.                                         *)

\* A flush ends, whatever it ejects: each round restacks fewer commits.
AloneFlushEnds == part = "alone" /\ ~At(f1, "idle") ~> At(f1, "idle")
================================================================================
