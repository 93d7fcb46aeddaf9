--------------------------------- MODULE Archive ---------------------------------
(***************************************************************************)
(* The telemetry archive (src/aet/telemetry.py) and the two that read it   *)
(* while runs write it: the prune of `aet report` (cli/report.py), which   *)
(* deletes run directories, and the track record (track_record.py), which  *)
(* counts clean merges and decides whether a task skips the human review.  *)
(*                                                                         *)
(* Time counts in half days: a directory carries the date of its run, the  *)
(* files in it their own times.                                            *)
(***************************************************************************)
EXTENDS Integers, FiniteSets

CONSTANTS
    Runs, Jobs, Stages,
    Days,       \* ages the operator prunes at
    Policies,   \* review policies of a repository: enabled, threshold
    MaxTime, MaxWrites,  \* bounds
    Void

ASSUME ArchiveAssumption == Days \subseteq Int

VARIABLES
    now, writes,
    dirs,       \* run -> date and time of the last write, or Void
    lease,      \* the run that holds the queue lease of this checkout
    logs,       \* stage records: run, task, stage, result
    prune,      \* the prune under way: cutoff, protected runs, what is to be seen
    outcome,      \* of the tasks: "working", "failed", "awaiting" or "merged"
    reentered,  \* tasks started again after they had failed
    policy,     \* review policy of their class
    live,       \* history: runs that have not ended
    fresh       \* history: runs written to since the cutoff, when the prune began

archiveVars == <<dirs, lease, logs, live>>
taskVars == <<outcome, reentered>>
telemetryVars == <<now, writes, archiveVars, prune, taskVars, policy, fresh>>

NoPrune == [cutoff |-> Void, keep |-> {}, left |-> {}, doomed |-> Void]

\* load_policy: without a readable file nothing is enabled.
ArchiveInit ==
    /\ now = 0 /\ writes = 0
    /\ dirs = [r \in Runs |-> Void] /\ lease = Void /\ logs = {} /\ live = {}
    /\ prune = NoPrune /\ fresh = {}
    /\ outcome = [t \in Jobs |-> "working"] /\ reentered = {}
    /\ policy \in Policies

Tick ==
    /\ now < MaxTime /\ now' = now + 1
    /\ UNCHANGED <<writes, archiveVars, prune, taskVars, policy, fresh>>

-----------------------------------------------------------------------------
(* Runs                                                                    *)

Midnight(t) == 2 * (t \div 2)

\* RunLogger and the lease.  A run of another checkout logs to the same
\* archive and holds no lease here.
Open(r) ==
    /\ dirs[r] = Void
    /\ dirs' = [dirs EXCEPT ![r] = [date |-> Midnight(now), last |-> now]]
    /\ live' = live \cup {r}
    /\ lease' \in IF lease = Void THEN {r, Void} ELSE {lease}
    /\ UNCHANGED <<now, writes, logs, prune, taskVars, policy, fresh>>

\* append_record: the directory is made once, by RunLogger, and a write to one
\* that is gone raises.
Touched(r) == [dirs EXCEPT ![r].last = now]

Log(r, t, s, ok) ==
    /\ r \in live /\ dirs[r] # Void /\ writes < MaxWrites /\ writes' = writes + 1
    /\ outcome[t] = "working" /\ dirs' = Touched(r)
    /\ logs' = logs \cup {[run |-> r, task |-> t, stage |-> s, ok |-> ok, nr |-> writes]}
    /\ outcome' = IF ok THEN outcome ELSE [outcome EXCEPT ![t] = "failed"]
    /\ UNCHANGED <<now, lease, live, prune, reentered, policy, fresh>>

Requeue(t) ==
    /\ outcome[t] = "failed" /\ outcome' = [outcome EXCEPT ![t] = "working"]
    /\ reentered' = reentered \cup {t}
    /\ UNCHANGED <<now, writes, archiveVars, prune, policy, fresh>>

Close(r) ==
    /\ r \in live /\ live' = live \ {r}
    /\ lease' = IF lease = r THEN Void ELSE lease
    /\ dirs' = IF dirs[r] = Void THEN dirs ELSE Touched(r)  \* last-run.json
    /\ UNCHANGED <<now, writes, logs, prune, taskVars, policy, fresh>>

-----------------------------------------------------------------------------
(* The prune                                                               *)

\* _leased_run_id: no lease is read unless .agents/aet-queue is a file.  The
\* queue lives in refs: the path only anchors it and nothing creates the file.
QueueFileExists == FALSE
Leased == IF QueueFileExists /\ lease # Void THEN {lease} ELSE {}

BeginPrune(days, own) ==
    /\ prune.cutoff = Void
    /\ prune' = [cutoff |-> now - 2 * days, keep |-> Leased \cup own,
                 left |-> {r \in Runs : dirs[r] # Void}, doomed |-> Void]
    /\ fresh' = {r \in Runs : dirs[r] # Void /\ dirs[r].last >= now - 2 * days}
    /\ UNCHANGED <<now, writes, archiveVars, taskVars, policy>>

OldByDate(r) == dirs[r].date < prune.cutoff
Old(r) == OldByDate(r) /\ dirs[r].last < prune.cutoff

\* One directory is judged ...
Judge(r) ==
    /\ prune.doomed = Void /\ r \in prune.left
    /\ prune' = [prune EXCEPT !.left = @ \ {r},
                              !.doomed = IF Old(r) /\ r \notin prune.keep THEN r ELSE Void]
    /\ UNCHANGED <<now, writes, archiveVars, taskVars, policy, fresh>>

\* ... and removed with whatever has been written to it since.
Remove ==
    /\ prune.doomed # Void
    /\ dirs' = [dirs EXCEPT ![prune.doomed] = Void]
    /\ logs' = {l \in logs : l.run # prune.doomed}
    /\ prune' = [prune EXCEPT !.doomed = Void]
    /\ UNCHANGED <<now, writes, lease, live, taskVars, policy, fresh>>

EndPrune ==
    /\ prune.cutoff # Void /\ prune.left = {} /\ prune.doomed = Void
    /\ prune' = NoPrune /\ fresh' = {}
    /\ UNCHANGED <<now, writes, archiveVars, taskVars, policy>>

-----------------------------------------------------------------------------
(* The track record                                                        *)

HasFailedStage(t) == \E l \in logs : l.task = t /\ ~l.ok
HasRepeatedStage(t) ==
    \E l, k \in logs : l.task = t /\ k.task = t /\ l.stage = k.stage /\ l # k

\* Every task here has its verdicts: a task reaches awaiting_merge with them.
IsCleanMerge(t) ==
    /\ outcome[t] = "merged" /\ t \notin reentered
    /\ ~HasFailedStage(t) /\ ~HasRepeatedStage(t)

CountCleanMerges(history) == Cardinality({t \in history : IsCleanMerge(t)})

\* Both callers leave history_file out: no task is counted.
HistoryRead == {}
ClassEligible(history) ==
    /\ policy.enabled /\ policy.threshold # Void
    /\ CountCleanMerges(history) >= policy.threshold

\* The last stage has passed: the task awaits its merge, or is merged here if
\* its class may and integrate() succeeds.
Finish(t) ==
    /\ outcome[t] = "working" /\ \E l \in logs : l.task = t
    /\ IF ClassEligible(HistoryRead)
       THEN \E end \in {"merged", "awaiting"} : outcome' = [outcome EXCEPT ![t] = end]
       ELSE outcome' = [outcome EXCEPT ![t] = "awaiting"]
    /\ UNCHANGED <<now, writes, archiveVars, prune, reentered, policy, fresh>>

\* The reviewer merges it.
Merge(t) ==
    /\ outcome[t] = "awaiting" /\ outcome' = [outcome EXCEPT ![t] = "merged"]
    /\ UNCHANGED <<now, writes, archiveVars, prune, reentered, policy, fresh>>

ArchiveNext ==
    \/ Tick
    \/ \E r \in Runs :
          \/ Open(r) \/ Close(r) \/ Judge(r)
          \/ \E t \in Jobs, s \in Stages, ok \in BOOLEAN : Log(r, t, s, ok)
    \/ \E days \in Days, own \in {{}} \cup {{r} : r \in live} : BeginPrune(days, own)
    \/ Remove \/ EndPrune
    \/ \E t \in Jobs : Requeue(t) \/ Finish(t) \/ Merge(t)

ArchiveSpec == ArchiveInit /\ [][ArchiveNext]_telemetryVars

-----------------------------------------------------------------------------

\* A forced prune spares every run directory that had been written to within
\* the retention when it began, also of a run that started long before and is
\* still going, and of one that ended after (prune_archive).
FreshRunsSurvive == [][\A r \in fresh : dirs[r] # Void => dirs'[r] # Void]_telemetryVars
================================================================================
