-------------------------------- MODULE MCTask --------------------------------
(***************************************************************************)
(* A task on its way through the stages, and one of its sessions, in two   *)
(* parts of one run.  One part is chosen at the start, the other stands    *)
(* still:                                                                  *)
(*   "task"     the stages of a task over two attempts (TaskRun);          *)
(*   "session"  an agent session and the two threads that watch it         *)
(*              (Session).                                                 *)
(***************************************************************************)
EXTENDS Session, TaskRun

VARIABLE part

all == <<part, vars, taskVars>>

\* A workflow of four stages: one whose result is commits, two that leave a
\* verdict and share a session, the second gated, and one without a skill.
Evidence == <<None, "qa", "docs", None>>
OneSession == <<{1}, {2, 3}>>
\* The first edit is to code, the second to documents.
Code == [v \in 0..2 |-> IF v = 0 THEN 0 ELSE 1]
Kinds == {"qa", "docs"}
WithSkill == {1, 2, 3}
Skippable == {3}
Both == {"minimal", "standard"}
AllModes == {"single-pr", "pr-per-task"}

\* No session runs in the part of the task.
NoSession ==
    /\ child = "ok" /\ deaf = FALSE /\ kid = Nil /\ age = 0 /\ silence = 0
    /\ shutdown = FALSE /\ dog = [at |-> "done", why |-> Nil] /\ cause = Nil
    /\ signalled = Nil /\ reader = [at |-> "done", result |-> "ok"]

PartsInit ==
    /\ TaskInit
    /\ \/ part = "task" /\ NoSession
       \/ part = "session" /\ Init

Staging == part = "task" /\ TaskNext /\ UNCHANGED <<part, vars>>
Watched == part = "session" /\ Next /\ UNCHANGED <<part, taskVars>>
PartsNext == Staging \/ Watched

\* The fairness of TaskRun and of Session; one formula does for two steps that
\* belong to different parts.
Walking ==
    \/ part = "task" /\ Orchestrator /\ UNCHANGED <<part, vars>>
    \/ part = "session" /\ Tick /\ UNCHANGED <<part, taskVars>>
Watching == part = "session" /\ Dogs /\ UNCHANGED <<part, taskVars>>
Reading == part = "session" /\ Main /\ UNCHANGED <<part, taskVars>>
PartsSpec ==
    /\ PartsInit /\ [][PartsNext]_all
    /\ WF_all(Walking) /\ WF_all(Watching) /\ WF_all(Reading)

-----------------------------------------------------------------------------
(* The invariants of the two modules are checked under their own names.     *)

\* A run ends, whatever its sessions do; and stage code that reads a session
\* gets its result, unless a process the child left running holds the pipe for
\* good.  It is RunEnds and EndsOrHeldOpen in one formula.
RunsAndSessionsEnd ==
    \/ part = "task" /\ run.at # "off"
    \/ part = "session" /\ reader.at # "done"
    ~>
    \/ part = "task" /\ run.at = "off"
    \/ part = "session" /\ (reader.at = "done" \/ (~Running /\ kid = "alive"))
===============================================================================
