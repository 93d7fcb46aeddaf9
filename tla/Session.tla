------------------------------- MODULE Session -------------------------------
(***************************************************************************)
(* One agent session of a stage (_run_with_live_tee of cli/orchestrator.py *)
(* and LivenessMonitor of liveness.py).  The main thread reads the output  *)
(* of the child until it ends; a watchdog thread polls the child and, on a *)
(* shutdown, on the wall-clock backstop or after a stall, terminates its   *)
(* process group; a monitor thread samples signs of life.  The output ends *)
(* when no process holds the pipe: the child, and the processes it left    *)
(* running.                                                                *)
(***************************************************************************)
EXTENDS Naturals

CONSTANTS Kids,         \* may the child leave a process running?
          Stall, Wall,  \* stall_timeout and wall_backstop, in ticks
          Nil

VARIABLES
    child,      \* "running", or how it ended: "ok", "failed", "signal"
    deaf,       \* the child ignores SIGTERM
    kid,        \* a descendant that holds the pipe: Nil, "alive" or "gone"
    age,        \* ticks since the start
    silence,    \* ticks since monitor.last_sign_of_life
    shutdown,   \* _shutdown_requested
    dog,        \* the watchdog: [at, why]
    cause,      \* the variable the two threads share
    signalled,  \* what a signal has been sent for, or Nil
    reader      \* the main thread: [at, result]

procVars == <<child, deaf, kid, signalled>>
clockVars == <<age, silence, shutdown>>
vars == <<procVars, clockVars, dog, cause, reader>>

Running == child = "running"
Deadlines == {"stall", "wall"}

Init ==
    /\ child = "running" /\ deaf \in BOOLEAN /\ kid = Nil
    /\ age = 0 /\ silence = 0 /\ shutdown = FALSE
    /\ dog = [at |-> "watching", why |-> Nil] /\ cause = Nil /\ signalled = Nil
    /\ reader = [at |-> "reading", result |-> Nil]

-----------------------------------------------------------------------------
(* The child and its clocks *)

Tick ==
    /\ reader.at # "done" /\ (age <= Wall \/ silence <= Stall)
    /\ age' = IF age <= Wall THEN age + 1 ELSE age
    /\ silence' = IF silence <= Stall THEN silence + 1 ELSE silence
    /\ UNCHANGED <<procVars, shutdown, dog, cause, reader>>

\* A line the reader sees, or a sample that finds a descendant or a write.
Alive ==
    /\ reader.at = "reading" /\ (Running \/ kid = "alive")
    /\ silence' = 0
    /\ UNCHANGED <<procVars, age, shutdown, dog, cause, reader>>

Leave ==
    /\ Kids /\ Running /\ kid = Nil /\ kid' = "alive"
    /\ UNCHANGED <<child, deaf, signalled, clockVars, dog, cause, reader>>

KidEnds ==
    /\ kid = "alive" /\ kid' = "gone"
    /\ UNCHANGED <<child, deaf, signalled, clockVars, dog, cause, reader>>

Exit ==
    /\ Running /\ child' \in {"ok", "failed"}
    /\ UNCHANGED <<deaf, kid, signalled, clockVars, dog, cause, reader>>

Shutdown ==
    /\ ~shutdown /\ reader.at # "done" /\ shutdown' = TRUE
    /\ UNCHANGED <<procVars, age, silence, dog, cause, reader>>

-----------------------------------------------------------------------------
(* The watchdog thread *)

Stopped == reader.at # "reading"
Dog(at, why) == dog' = [at |-> at, why |-> why]

\* stop_watchdog.wait, then proc.poll: with the child gone nobody watches.
Poll ==
    /\ dog.at = "watching"
    /\ Dog(IF Stopped \/ ~Running THEN "done" ELSE "polled", Nil)
    /\ UNCHANGED <<procVars, clockVars, cause, reader>>

Verdict ==
    IF shutdown THEN "shutdown"
    ELSE IF age > Wall THEN "wall"
    ELSE IF silence > Stall THEN "stall" ELSE Nil

NamedAfterwards(why) == cause
\* The cause is set before the group is terminated.
Named(why) == why
Decide ==
    /\ dog.at = "polled"
    /\ IF Verdict = Nil
       THEN Dog("watching", Nil) /\ UNCHANGED cause
       ELSE Dog("terminating", Verdict) /\ cause' = Named(Verdict)
    /\ UNCHANGED <<procVars, clockVars, reader>>

\* SIGTERM to the group; a child that exited meanwhile is left alone, and a
\* process whose group leader is gone gets no signal.
Terminate ==
    /\ dog.at = "terminating"
    /\ IF Running
       THEN Dog("waiting", dog.why) /\ signalled' = dog.why
       ELSE Dog("named", dog.why) /\ UNCHANGED signalled
    /\ UNCHANGED <<child, deaf, kid, clockVars, cause, reader>>

\* The child ends on SIGTERM, by the signal or with a code of its own.
Obey ==
    /\ signalled # Nil /\ Running /\ ~deaf
    /\ child' \in {"ok", "failed", "signal"}
    /\ UNCHANGED <<deaf, kid, signalled, clockVars, dog, cause, reader>>

\* 10 s later SIGKILL takes the whole group.
Kill ==
    /\ dog.at = "waiting"
    /\ IF Running
       THEN child' = "signal" /\ kid' = IF kid = "alive" THEN "gone" ELSE kid
       ELSE UNCHANGED <<child, kid>>
    /\ Dog("named", dog.why)
    /\ UNCHANGED <<deaf, signalled, clockVars, cause, reader>>

Rest ==
    /\ dog.at = "named" /\ Dog("done", dog.why)
    /\ cause' = dog.why
    /\ UNCHANGED <<procVars, clockVars, reader>>

-----------------------------------------------------------------------------
(* The main thread *)

EndOfOutput ==
    /\ reader.at = "reading" /\ ~Running /\ kid # "alive"
    /\ reader' = [reader EXCEPT !.at = "joining"]
    /\ UNCHANGED <<procVars, clockVars, dog, cause>>

\* watchdog.join(timeout=5): half of what a termination may take.
Join ==
    /\ reader.at = "joining" /\ reader' = [reader EXCEPT !.at = "waiting"]
    /\ UNCHANGED <<procVars, clockVars, dog, cause>>

\* proc.wait, then the cause: -9 for a deadline, else the exit code.
Report ==
    /\ reader.at = "waiting" /\ ~Running
    /\ reader' = [at |-> "done",
                  result |-> IF cause \in Deadlines THEN "timeout" ELSE child]
    /\ UNCHANGED <<procVars, clockVars, dog, cause>>

Over == reader.at = "done" /\ dog.at = "done" /\ UNCHANGED vars

Dogs == Poll \/ Decide \/ Terminate \/ Kill \/ Rest
Main == EndOfOutput \/ Join \/ Report
Next == Tick \/ Alive \/ Leave \/ KidEnds \/ Exit \/ Shutdown \/ Obey
        \/ Dogs \/ Main \/ Over

\* The threads are scheduled and time passes; the child and what it left
\* running owe nothing.
Fairness == WF_vars(Tick) /\ WF_vars(Dogs) /\ WF_vars(Main)

Spec == Init /\ [][Next]_vars /\ Fairness

-----------------------------------------------------------------------------
(* Properties *)

\* A session that a deadline signalled is reported as a timeout, whatever code
\* the child made of the signal and although the reader waits for the watchdog
\* half as long as a termination may take.
KillsAreTimeouts ==
    reader.at = "done" /\ signalled \in Deadlines => reader.result = "timeout"

\* However the child behaves, stage code gets its answer, unless the child is
\* gone and a process it left running holds the pipe for good (such a process
\* leaves the pipe once at most).
EndsOrHeldOpen ==
    []<>(reader.at = "done" \/ (~Running /\ kid = "alive"))
===============================================================================
