--------------------------------- MODULE Breaker ---------------------------------
(***************************************************************************)
(* The circuit breaker (src/aet/breaker.py, cli/breaker.py) with the       *)
(* classification that feeds it (src/aet/failure.py) and the two that act  *)
(* on it: the run, which keeps the tally in memory and writes it whole,    *)
(* and the operator, who clears it under no lock.                          *)
(***************************************************************************)
EXTENDS Integers, SequencesExt

CONSTANTS
    Tasks,
    Sigs,        \* signatures: stage and normalised error line
    Killed,      \* the signature of a session killed by a signal
    Shown,       \* the ways a session that fails looks
    MaxFailures, \* bound on the sessions that fail
    MaxRuns,     \* bound on the runs started
    MaxOrders,   \* bound on the operator's commands
    Nil

VARIABLES
    record,    \* failure_signatures of each task record
    parked,    \* quarantined tasks
    tally,     \* refs/aet/breaker: signature -> tasks
    run,       \* "off", "spawned", "on" or "draining"
    mine,      \* the tally in the memory of the run
    working,   \* tasks with a child
    waiting,   \* how a child ended that the run has not finalised yet
    hand,      \* an operator's `aet state reset`, half done
    failures, runs, orders,
    ever       \* history: the tasks that failed, with the signature they left

breakerVars == <<record, parked, tally, run, mine, working, waiting, hand,
          failures, runs, orders, ever>>

PER_TASK_BREAKER_THRESHOLD == 3
SYSTEMIC_BREAKER_THRESHOLD == 3
AllSigs == Sigs \cup {Killed}
Empty == [s \in AllSigs |-> {}]
NoHand == [task |-> Nil, read |-> Nil]

BreakerInit ==
    /\ record = [t \in Tasks |-> <<>>] /\ parked = {}
    /\ tally = Empty /\ mine = Empty /\ run = "off"
    /\ working = {} /\ waiting = [t \in Tasks |-> Nil] /\ hand = NoHand
    /\ failures = 0 /\ runs = 0 /\ orders = 0
    /\ ever = {}

-----------------------------------------------------------------------------
(* What a failure is                                                       *)

\* Shown is a subset of these.
Symptoms ==
    [exit : {0, 1}, tail : {"throttle", "deadline", "environment", "design", "other"},
     verdict : BOOLEAN, shutdown : BOOLEAN, killed : BOOLEAN]

Classify(f) ==
    IF f.shutdown THEN "canceled"
    ELSE IF f.killed THEN "timeout"
    ELSE IF f.tail = "throttle" THEN "throttled"
    ELSE IF f.tail = "deadline" THEN "timeout"
    ELSE IF f.tail = "environment" THEN "environment"
    ELSE IF f.verdict /\ f.tail = "design" THEN "design"
    ELSE IF f.exit # 0 THEN "flaky"
    ELSE "environment"

ClassesShown == {Classify(f) : f \in Shown}

AllCountable(class) == class # "canceled"
Countable(class) == class \notin {"canceled", "throttled"}

\* append_failure_if_countable: a cancelled session leaves nothing, a
\* throttled one an entry that does not count.
Appended(entries, sig, class) ==
    IF class = "canceled" THEN entries
    ELSE Append(entries, [sig |-> sig, class |-> class, countable |-> Countable(class)])

Counted(entries) == SelectSeq(entries, LAMBDA e : e.countable)
CountableSigs(entries) ==
    {entries[i].sig : i \in {j \in DOMAIN entries : entries[j].countable}}

LastClass(entries) == IF entries = <<>> THEN Nil ELSE Last(entries).class

ShouldQuarantine(entries) ==
    \E s \in AllSigs :
       Len(SelectSeq(Counted(entries), LAMBDA e : e.sig = s))
          >= PER_TASK_BREAKER_THRESHOLD

Tripped(counts) ==
    \E s \in AllSigs : Cardinality(counts[s]) >= SYSTEMIC_BREAKER_THRESHOLD
WithTask(counts, t, sigs) ==
    [s \in AllSigs |-> IF s \in sigs THEN counts[s] \cup {t} ELSE counts[s]]
WithoutTask(counts, t) == [s \in AllSigs |-> counts[s] \ {t}]

-----------------------------------------------------------------------------
(* The run                                                                 *)

Loaded == tally

\* `aet run` looks at the tally before it starts the orchestrator ...
Preflight ==
    /\ run = "off" /\ runs < MaxRuns /\ runs' = runs + 1
    /\ run' = IF Tripped(Loaded) THEN "off" ELSE "spawned"
    /\ UNCHANGED <<record, parked, tally, mine, working, waiting, hand,
                   failures, orders, ever>>

\* ... and the orchestrator loads it again, and refuses or starts its children.
Start ==
    /\ run = "spawned" /\ mine' = Loaded
    /\ run' = IF Tripped(Loaded) THEN "off" ELSE "on"
    /\ working' = IF run' = "on" THEN Tasks \ parked ELSE {}
    /\ UNCHANGED <<record, parked, tally, waiting, hand,
                   failures, runs, orders, ever>>

\* The child writes its failure to the record and exits: 1, by a signal, for
\* a missing plan (2) or for an integration failure (3).
Fail(t, sig, class) ==
    /\ t \in working /\ failures < MaxFailures /\ failures' = failures + 1
    /\ working' = working \ {t}
    /\ record' = [record EXCEPT ![t] = Appended(@, sig, class)]
    /\ waiting' = [waiting EXCEPT ![t] = IF class = "canceled" THEN "canceled" ELSE "failed"]
    /\ LET new == IF class \in {"canceled", "throttled"} THEN {} ELSE {<<t, sig>>}
       IN  ever' = ever \cup new
    /\ UNCHANGED <<parked, tally, run, mine, hand, runs, orders>>

\* These leave nothing of their own in the record.
ExitSilently(t, how) ==
    /\ t \in working /\ failures < MaxFailures /\ failures' = failures + 1
    /\ working' = working \ {t} /\ waiting' = [waiting EXCEPT ![t] = how]
    /\ UNCHANGED <<record, parked, tally, run, mine, hand, runs, orders, ever>>

\* _finalize_task writes the timeout a killed child could not.
Finalized(t) ==
    IF waiting[t] = "killed" /\ LastClass(record[t]) # "timeout"
    THEN Appended(record[t], Killed, "timeout") ELSE record[t]

\* The run finalises the task and adds every countable signature of its
\* record, the earlier ones too, to its own tally, which replaces the stored one.
Finalize(t) ==
    LET entries == Finalized(t)
        quarantine == waiting[t] = "failed" /\ LastClass(entries) # "timeout"
                         /\ ShouldQuarantine(entries)
        throttled == waiting[t] = "failed" /\ LastClass(entries) = "throttled"
        counts == WithTask(mine, t, CountableSigs(entries))
        new == IF entries # record[t] THEN {<<t, Killed>>} ELSE {}
    IN  /\ waiting[t] # Nil
        /\ waiting' = [waiting EXCEPT ![t] = Nil]
        /\ record' = [record EXCEPT ![t] = entries]
        /\ ever' = ever \cup new
        /\ parked' = IF quarantine THEN parked \cup {t} ELSE parked
        /\ IF waiting[t] = "canceled" THEN UNCHANGED <<mine, tally>>
           ELSE mine' = counts /\ tally' = counts
        /\ run' \in IF quarantine \/ throttled \/ Tripped(mine')
                       \/ waiting[t] \in {"missing", "canceled"}
                    THEN {"draining"} ELSE {run, "draining"}  \* --on-failure halt
        /\ working' = IF run' = "on" THEN working \cup {t} ELSE working \* requeued
        /\ UNCHANGED <<hand, failures, runs, orders>>

\* No child is left, or the run is killed.
End ==
    /\ run \in {"on", "draining"} /\ run' = "off"
    /\ working' = {} /\ waiting' = [t \in Tasks |-> Nil]
    /\ UNCHANGED <<record, parked, tally, mine, hand, failures, runs, orders,
                   ever>>

-----------------------------------------------------------------------------
(* The operator                                                            *)

\* aet breaker reset: no lease, no lock.  A failure the run has yet to finalise
\* counts as a later one.
BreakerReset ==
    /\ orders < MaxOrders /\ orders' = orders + 1
    /\ tally' = Empty
    /\ UNCHANGED <<record, parked, run, mine, working, waiting, hand, failures, runs, ever>>

\* aet state reset, hard-reset, requeue: the lease is looked at, ...
ResetTask(t) ==
    /\ orders < MaxOrders /\ orders' = orders + 1
    /\ hand.task = Nil /\ run \in {"off", "spawned"}
    /\ hand' = [task |-> t, read |-> Nil]
    /\ UNCHANGED <<record, parked, tally, run, mine, working, waiting,
                   failures, runs, ever>>

\* ... the tally read ...
LoadTally ==
    /\ hand.task # Nil /\ hand.read = Nil /\ hand' = [hand EXCEPT !.read = tally]
    /\ UNCHANGED <<record, parked, tally, run, mine, working, waiting,
                   failures, runs, orders, ever>>

\* ... and written without the task, if it was in there.
SaveTally ==
    LET t == hand.task
    IN  /\ t # Nil /\ hand.read # Nil /\ hand' = NoHand
        /\ tally' = IF \E s \in AllSigs : t \in hand.read[s]
                    THEN WithoutTask(hand.read, t) ELSE tally
        /\ record' = [record EXCEPT ![t] = <<>>] /\ parked' = parked \ {t}
        /\ UNCHANGED <<run, mine, working, waiting, failures, runs, orders, ever>>

BreakerNext ==
    \/ Preflight \/ Start \/ End
    \/ \E t \in Tasks :
          \/ Finalize(t) \/ ResetTask(t)
          \/ \E sig \in Sigs, class \in ClassesShown : Fail(t, sig, class)
          \/ \E how \in {"killed", "missing", "integration"} : ExitSilently(t, how)
    \/ BreakerReset \/ LoadTally \/ SaveTally

BreakerSpec == BreakerInit /\ [][BreakerNext]_breakerVars

-----------------------------------------------------------------------------

\* A task is counted for a signature only if it once failed with it by its own
\* fault: neither a closed provider window nor the operator's interrupt ever
\* moves the systemic breaker, through whatever record, memory or stale read
\* (append_failure_if_countable, the tally update of the batch loop).
TallyIsEarned ==
    \A s \in AllSigs : \A t \in tally[s] \cup mine[s] : <<t, s>> \in ever
================================================================================
