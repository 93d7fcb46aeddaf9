----------------------------- MODULE StoresProofs -----------------------------
(***************************************************************************)
(* Proofs about what is kept while others edit, clean up, fail or die, for *)
(* any tasks, plans, runs, clones, worktrees and commands: the spec of a   *)
(* record that was started (Intake), the runs written to within the        *)
(* retention of a prune (Archive), what tombstones guarantee whatever      *)
(* overlaps, and what the compare-and-swap of save guarantees among the    *)
(* commands of one clone (RefStore).                                       *)
(***************************************************************************)
EXTENDS RefStore, Intake, Archive, TLAPS

-----------------------------------------------------------------------------
(* The specs of records: Intake                                            *)

States == {"ready", "blocked", "in_progress", "awaiting_merge", "failed",
           "merged", "abandoned"}
Records == [state : States, spec : Texts, ran : BOOLEAN]

BoardInv ==
    /\ plan \in [Id -> Texts \cup {Nil}]
    /\ board \in [Id -> Records \cup {Nil}]
    /\ tomb \in [Id -> Records \cup {Nil}]

\* The initial states are well typed.
LEMMA BoardInit == IntakeInit => BoardInv
  BY DEF IntakeInit, BoardInv

\* A new record has a plan's text.
LEMMA NewTaskIsRecord ==
  ASSUME BoardInv, NEW t \in Id, plan[t] # Nil
  PROVE  NewTask(t) \in Records
<1>1. plan[t] \in Texts
  BY DEF BoardInv
<1>2. (IF Satisfied(t) THEN "ready" ELSE "blocked") \in States
  BY DEF States
<1> QED
  BY <1>1, <1>2 DEF NewTask, Records

\* A record with another state or branch keeps its spec.
LEMMA Updated ==
  ASSUME NEW r \in Records, NEW s \in States, NEW b \in BOOLEAN
  PROVE  /\ [r EXCEPT !.state = s] \in Records
         /\ [r EXCEPT !.state = s].spec = r.spec
         /\ [r EXCEPT !.state = s, !.ran = b] \in Records
         /\ [r EXCEPT !.state = s, !.ran = b].spec = r.spec
  BY DEF Records

\* So does one that is reset.
LEMMA ReopenedIsRecord ==
  ASSUME NEW t, board[t] \in Records, NEW hard \in BOOLEAN
  PROVE  Reopened(t, hard) \in Records /\ Reopened(t, hard).spec = board[t].spec
  BY DEF Reopened, Records, States

\* Every step preserves the types.
LEMMA BoardStep == BoardInv /\ [IntakeNext]_intakeVars => BoardInv'
<1> SUFFICES ASSUME BoardInv, [IntakeNext]_intakeVars PROVE BoardInv'
  OBVIOUS
<1> USE DEF BoardInv, OnBoard
<1>1. ASSUME NEW t \in Id, SprintAdd(t) \/ Reingest(t) PROVE BoardInv'
  <2>1. NewTask(t) \in Records
    BY <1>1, NewTaskIsRecord DEF SprintAdd, Reingest, Admissible
  <2> QED
    BY <1>1, <2>1 DEF SprintAdd, Reingest
<1>2. ASSUME NEW cands \in SUBSET Id, IntakePass(cands) PROVE BoardInv'
  <2>1. ASSUME NEW t \in cands, Admissible(t) PROVE NewTask(t) \in Records
    BY <2>1, NewTaskIsRecord DEF Admissible
  <2> QED
    BY <1>2, <2>1 DEF IntakePass
<1>3. ASSUME NEW t \in Id, Start(t) \/ Work(t) PROVE BoardInv'
  <2>1. board[t] \in Records
    BY <1>3 DEF Start, Work
  <2>2. CASE Start(t)
    <3>1. [board[t] EXCEPT !.state = "in_progress", !.ran = TRUE] \in Records
      BY <2>1, Updated DEF States
    <3> QED
      BY <2>2, <3>1 DEF Start
  <2>3. CASE Work(t)
    <3>1. PICK s \in States :
            board' = [board EXCEPT ![t] = [board[t] EXCEPT !.state = s]]
      BY <2>3 DEF Work, States
    <3>2. [board[t] EXCEPT !.state = s] \in Records
      BY <2>1, <3>1, Updated
    <3> QED
      BY <2>3, <3>1, <3>2 DEF Work
  <2> QED
    BY <1>3, <2>2, <2>3
<1>4. ASSUME NEW t \in Id, NEW skip \in BOOLEAN, RunOne(t, skip) PROVE BoardInv'
  <2>1. board[t] \in Records
    BY <1>4 DEF RunOne
  <2> QED
    BY <1>4, <2>1, Updated DEF RunOne, States
<1>5. ASSUME NEW t \in Id, NEW hard \in BOOLEAN, Reset(t, hard) PROVE BoardInv'
  <2>1. board[t] \in Records
    BY <1>5 DEF Reset
  <2> QED
    BY <1>5, <2>1, ReopenedIsRecord DEF Reset
<1>6. ASSUME NEW t \in Id, NEW s \in {"merged", "abandoned"}, Settle(t, s)
      PROVE  BoardInv'
  <2>1. /\ \A d \in OnBoard : board[d] \in Records
        /\ [board[t] EXCEPT !.state = s] \in Records
    BY <1>6, Updated DEF Settle, States
  <2>2. \A d \in OnBoard : [board[d] EXCEPT !.state = "ready"] \in Records
    BY <2>1, Updated DEF States
  <2> QED
    BY <1>6, <2>1, <2>2 DEF Settle
<1>7. ASSUME NEW t \in Id, EditPlan(t) PROVE BoardInv'
  BY <1>7 DEF EditPlan
<1>8. CASE EditPrd \/ UNCHANGED intakeVars
  BY <1>8 DEF EditPrd, intakeVars
<1> QED
  BY <1>1, <1>2, <1>3, <1>4, <1>5, <1>6, <1>7, <1>8 DEF IntakeNext

\* What the step does to a record that was started.
SpecKept(t) ==
    \/ board'[t] # Nil /\ board'[t].spec = board[t].spec
    \/ tomb'[t] # Nil /\ tomb'[t].spec = board[t].spec

LEMMA SpecStep ==
  ASSUME Nil \notin Records, BoardInv, IntakeNext, NEW t \in OnBoard, board[t].ran
  PROVE  SpecKept(t)
<1> USE DEF BoardInv, OnBoard, SpecKept
<1>1. ASSUME NEW d \in Id, SprintAdd(d) PROVE SpecKept(t)
  BY <1>1 DEF SprintAdd, Admissible
<1>2. ASSUME NEW d \in Id, Reingest(d) PROVE SpecKept(t)
  BY <1>2 DEF Reingest, IsInert
<1>3. ASSUME NEW cands \in SUBSET Id, IntakePass(cands) PROVE SpecKept(t)
  BY <1>3 DEF IntakePass, Admissible
<1>4. ASSUME NEW d \in OnBoard, NEW r \in Records, r.spec = board[d].spec,
             board' = [board EXCEPT ![d] = r]
      PROVE  SpecKept(t)
  BY <1>4
<1>5. ASSUME NEW d \in Id, Start(d) \/ \E skip \in BOOLEAN : RunOne(d, skip)
      PROVE  SpecKept(t)
  <2>1. d \in OnBoard /\ board[d] \in Records
    BY <1>5 DEF Start, RunOne
  <2>2. board' = [board EXCEPT ![d] =
                    [board[d] EXCEPT !.state = "in_progress", !.ran = TRUE]]
    BY <1>5 DEF Start, RunOne
  <2>3. PICK r \in Records :
          r.spec = board[d].spec /\ board' = [board EXCEPT ![d] = r]
    BY <2>1, <2>2, Updated DEF States
  <2> QED
    BY <2>1, <2>3, <1>4
<1>6. ASSUME NEW d \in Id, Work(d) PROVE SpecKept(t)
  <2>1. d \in OnBoard /\ board[d] \in Records
    BY <1>6 DEF Work
  <2>2. PICK s \in States : board' = [board EXCEPT ![d] = [board[d] EXCEPT !.state = s]]
    BY <1>6 DEF Work, States
  <2>3. PICK r \in Records :
          r.spec = board[d].spec /\ board' = [board EXCEPT ![d] = r]
    BY <2>1, <2>2, Updated
  <2> QED
    BY <2>1, <2>3, <1>4
<1>7. ASSUME NEW d \in Id, NEW hard \in BOOLEAN, Reset(d, hard) PROVE SpecKept(t)
  <2>1. d \in OnBoard /\ board[d] \in Records
    BY <1>7 DEF Reset
  <2> QED
    BY <1>7, <2>1, <1>4, ReopenedIsRecord DEF Reset
<1>8. ASSUME NEW d \in Id, NEW s \in {"merged", "abandoned"}, Settle(d, s)
      PROVE  SpecKept(t)
  <2>1. board[t] \in Records /\ s \in States /\ "ready" \in States
    BY DEF States
  <2>2. CASE d = t
    <3>1. tomb'[t] = [board[t] EXCEPT !.state = s]
      BY <1>8, <2>2 DEF Settle
    <3>2. PICK r \in Records : r = tomb'[t] /\ r.spec = board[t].spec
      BY <3>1, <2>1, Updated
    <3> QED
      BY <3>2
  <2>3. CASE d # t
    <3>1. board'[t] \in {board[t], [board[t] EXCEPT !.state = "ready"]}
      BY <1>8, <2>3 DEF Settle
    <3>2. PICK r \in Records : r = board'[t] /\ r.spec = board[t].spec
      BY <3>1, <2>1, Updated
    <3> QED
      BY <3>2
  <2> QED
    BY <2>2, <2>3
<1>9. ASSUME NEW d \in Id, EditPlan(d) PROVE SpecKept(t)
  BY <1>9 DEF EditPlan
<1>10. CASE EditPrd
  BY <1>10 DEF EditPrd
<1> QED
  BY <1>1, <1>2, <1>3, <1>5, <1>6, <1>7, <1>8, <1>9, <1>10 DEF IntakeNext

\* No edit of a plan followed by another sprint add replaces the text under
\* work that was done for the old one (cmd_add of cli/sprint.py).
THEOREM SpecStays ==
  ASSUME Nil \notin Records
  PROVE  IntakeSpec => SpecFrozen
<1>1. BoardInv /\ [IntakeNext]_intakeVars =>
        [\A t \in OnBoard :
           board[t].ran =>
              \/ board'[t] # Nil /\ board'[t].spec = board[t].spec
              \/ tomb'[t] # Nil /\ tomb'[t].spec = board[t].spec]_intakeVars
  BY SpecStep DEF SpecKept
<1> QED
  BY BoardInit, BoardStep, <1>1, PTL DEF IntakeSpec, SpecFrozen

-----------------------------------------------------------------------------
(* The archive                                                             *)

Dates == [date : Int, last : Int]

ArchiveTypeOK ==
    /\ now \in Int
    /\ dirs \in [Runs -> Dates \cup {Void}]
    /\ live \subseteq Runs
    /\ fresh \subseteq Runs
    /\ prune \in [cutoff : Int \cup {Void}, keep : SUBSET Runs,
                  left : SUBSET Runs, doomed : Runs \cup {Void}]

\* A prune under way has its cutoff, every fresh run is still there with a
\* write since the cutoff, no write is later than now, and the directory that
\* was judged old is none of them.
PruneInv ==
    /\ \A r \in Runs : dirs[r] # Void => dirs[r].last <= now
    /\ \A r \in fresh : /\ prune.cutoff \in Int
                        /\ dirs[r] # Void
                        /\ prune.cutoff <= dirs[r].last
    /\ prune.doomed # Void => prune.doomed \notin fresh

ArchiveInv == ArchiveTypeOK /\ PruneInv

\* A write: the directory has the time of the write as its last.
LEMMA TouchedDirs ==
  ASSUME NEW r \in Runs, ArchiveTypeOK, dirs[r] # Void
  PROVE  /\ Touched(r) \in [Runs -> Dates \cup {Void}]
         /\ Touched(r)[r] = [dirs[r] EXCEPT !.last = now]
         /\ Touched(r)[r] \in Dates /\ Touched(r)[r].last = now
         /\ \A q \in Runs : q # r => Touched(r)[q] = dirs[q]
<1>1. dirs[r] \in Dates
  BY DEF ArchiveTypeOK
<1>2. [dirs[r] EXCEPT !.last = now] \in Dates /\ [dirs[r] EXCEPT !.last = now].last = now
  BY <1>1 DEF ArchiveTypeOK, Dates
<1> QED
  BY <1>2 DEF Touched, ArchiveTypeOK

\* A write keeps the invariant: it is later than any that made a run fresh.
LEMMA WriteKeeps ==
  ASSUME Void \notin Dates, ArchiveInv, NEW r \in Runs, dirs[r] # Void,
         dirs' = Touched(r), UNCHANGED <<now, prune, fresh>>, live' \subseteq Runs
  PROVE  ArchiveInv'
<1>1. ArchiveTypeOK'
  BY TouchedDirs DEF ArchiveInv, ArchiveTypeOK
<1>2. \A q \in Runs : q # r => dirs'[q] = dirs[q]
  BY TouchedDirs DEF ArchiveInv
<1>3. dirs'[r] # Void /\ dirs'[r].last = now
  BY TouchedDirs DEF ArchiveInv
<1>4. dirs[r].last <= now /\ now \in Int /\ dirs[r].last \in Int
  BY DEF ArchiveInv, ArchiveTypeOK, PruneInv, Dates
<1>5. \A q \in Runs : dirs'[q] # Void => dirs'[q].last <= now'
  BY <1>2, <1>3, <1>4 DEF ArchiveInv, PruneInv
<1>6. ASSUME NEW q \in fresh'
      PROVE  prune'.cutoff \in Int /\ dirs'[q] # Void /\ prune'.cutoff <= dirs'[q].last
  <2>1. q \in Runs /\ prune.cutoff \in Int /\ prune.cutoff <= dirs[q].last /\ dirs[q] # Void
    BY <1>6 DEF ArchiveInv, ArchiveTypeOK, PruneInv
  <2>2. CASE q = r
    BY <2>1, <2>2, <1>3, <1>4
  <2>3. CASE q # r
    BY <2>1, <2>3, <1>2
  <2> QED
    BY <2>2, <2>3
<1>7. prune'.doomed # Void => prune'.doomed \notin fresh'
  BY DEF ArchiveInv, PruneInv
<1> QED
  BY <1>1, <1>5, <1>6, <1>7 DEF ArchiveInv, PruneInv

\* A new run was not fresh, for it was not there.
LEMMA OpenKeeps ==
  ASSUME Void \notin Dates, ArchiveInv, NEW r \in Runs, Open(r)
  PROVE  ArchiveInv'
<1> DEFINE d == [date |-> Midnight(now), last |-> now]
<1>1. d \in Dates /\ d.last = now
  BY DEF ArchiveInv, ArchiveTypeOK, Dates, Midnight
<1>2. dirs[r] = Void /\ dirs' = [dirs EXCEPT ![r] = d]
  BY DEF Open
<1> HIDE DEF d
<1>3. UNCHANGED <<now, prune, fresh>> /\ live' \subseteq Runs
  BY DEF Open, ArchiveInv, ArchiveTypeOK
<1>4. ArchiveTypeOK'
  BY <1>1, <1>2, <1>3 DEF ArchiveInv, ArchiveTypeOK
<1>5. now \in Int /\ dirs'[r] = d /\ \A q \in Runs : q # r => dirs'[q] = dirs[q]
  BY <1>2 DEF ArchiveInv, ArchiveTypeOK
<1>6. \A q \in Runs : dirs'[q] # Void => dirs'[q].last <= now'
  BY <1>1, <1>3, <1>5 DEF ArchiveInv, PruneInv
<1>7. r \notin fresh
  BY <1>2 DEF ArchiveInv, PruneInv
<1>8. \A q \in fresh' : dirs'[q] = dirs[q]
  BY <1>3, <1>5, <1>7 DEF ArchiveInv, ArchiveTypeOK
<1> QED
  BY <1>3, <1>4, <1>6, <1>8 DEF ArchiveInv, PruneInv

\* A prune begins: its cutoff is before the writes of all it calls fresh.
LEMMA BeginKeeps ==
  ASSUME Void \notin Dates, ArchiveInv, NEW days \in Days,
         NEW own \in {{}} \cup {{r} : r \in live}, BeginPrune(days, own)
  PROVE  ArchiveInv'
<1>1. UNCHANGED <<now, dirs, live>>
  BY DEF BeginPrune, archiveVars
<1>2. now - 2 * days \in Int
  BY ArchiveAssumption DEF ArchiveInv, ArchiveTypeOK
<1>3. own \subseteq Runs
  BY DEF ArchiveInv, ArchiveTypeOK
<1>4. prune' = [cutoff |-> now - 2 * days, keep |-> own,
                left |-> {r \in Runs : dirs[r] # Void}, doomed |-> Void]
  BY DEF BeginPrune, Leased, QueueFileExists
<1>5. /\ prune' \in [cutoff : Int \cup {Void}, keep : SUBSET Runs,
                     left : SUBSET Runs, doomed : Runs \cup {Void}]
      /\ prune'.cutoff = now - 2 * days /\ prune'.doomed = Void
  BY <1>2, <1>3, <1>4
<1>6. fresh' = {r \in Runs : dirs[r] # Void /\ dirs[r].last >= now - 2 * days}
  BY DEF BeginPrune
<1>7. ArchiveTypeOK'
  BY <1>1, <1>5, <1>6 DEF ArchiveInv, ArchiveTypeOK
<1>8. \A r \in fresh' : dirs'[r] # Void /\ prune'.cutoff \in Int /\ dirs'[r] \in Dates
                          /\ dirs'[r].last >= prune'.cutoff
  BY <1>1, <1>2, <1>5, <1>6 DEF ArchiveInv, ArchiveTypeOK
<1>9. \A r \in fresh' : prune'.cutoff <= dirs'[r].last
  BY <1>8 DEF Dates
<1> QED
  BY <1>1, <1>5, <1>7, <1>8, <1>9 DEF ArchiveInv, PruneInv

\* A run that is judged old is not fresh: its last write is before the cutoff.
LEMMA JudgeKeeps ==
  ASSUME ArchiveInv, NEW r \in Runs, Judge(r)
  PROVE  ArchiveInv'
<1>1. UNCHANGED <<now, dirs, live, fresh>>
  BY DEF Judge, archiveVars
<1> DEFINE d == IF Old(r) /\ r \notin prune.keep THEN r ELSE Void
<1>2. prune' = [prune EXCEPT !.left = prune.left \ {r}, !.doomed = d]
  BY DEF Judge
<1>3. d \in Runs \cup {Void} /\ (d # Void => Old(r) /\ d = r)
  OBVIOUS
<1> HIDE DEF d
<1>4. /\ prune' \in [cutoff : Int \cup {Void}, keep : SUBSET Runs,
                     left : SUBSET Runs, doomed : Runs \cup {Void}]
      /\ prune'.cutoff = prune.cutoff /\ prune'.doomed = d
  BY <1>2, <1>3 DEF ArchiveInv, ArchiveTypeOK
<1>5. ASSUME r \in fresh, Old(r) PROVE FALSE
  <2>1. /\ prune.cutoff \in Int /\ dirs[r] \in Dates
        /\ prune.cutoff <= dirs[r].last /\ dirs[r].last < prune.cutoff
    BY <1>5 DEF Old, ArchiveInv, ArchiveTypeOK, PruneInv
  <2> QED
    BY <2>1 DEF Dates
<1> QED
  BY <1>1, <1>3, <1>4, <1>5 DEF ArchiveInv, ArchiveTypeOK, PruneInv

\* What is removed is not fresh.
LEMMA RemoveKeeps ==
  ASSUME ArchiveInv, Remove
  PROVE  /\ ArchiveInv'
         /\ \A r \in fresh : dirs'[r] = dirs[r]
<1>1. UNCHANGED <<now, live, fresh>>
  BY DEF Remove
<1>2. /\ prune.doomed \in Runs /\ prune.doomed \notin fresh
      /\ dirs' = [dirs EXCEPT ![prune.doomed] = Void]
      /\ prune' = [prune EXCEPT !.doomed = Void]
  BY DEF Remove, ArchiveInv, ArchiveTypeOK, PruneInv
<1>3. /\ prune' \in [cutoff : Int \cup {Void}, keep : SUBSET Runs,
                     left : SUBSET Runs, doomed : Runs \cup {Void}]
      /\ prune'.cutoff = prune.cutoff /\ prune'.doomed = Void
  BY <1>2 DEF ArchiveInv, ArchiveTypeOK
<1>4. dirs' \in [Runs -> Dates \cup {Void}]
  BY <1>2 DEF ArchiveInv, ArchiveTypeOK
<1>5. \A r \in Runs : dirs'[r] \in {dirs[r], Void}
  BY <1>2 DEF ArchiveInv, ArchiveTypeOK
<1>6. \A r \in fresh : dirs'[r] = dirs[r]
  BY <1>2 DEF ArchiveInv, ArchiveTypeOK
<1>7. \A r \in Runs : dirs'[r] # Void => dirs'[r].last <= now'
  BY <1>1, <1>5 DEF ArchiveInv, PruneInv
<1> QED
  BY <1>1, <1>3, <1>4, <1>6, <1>7 DEF ArchiveInv, ArchiveTypeOK, PruneInv

\* The initial states are safe.
LEMMA ArchiveInvInit == ArchiveInit => ArchiveInv
  BY DEF ArchiveInit, ArchiveInv, ArchiveTypeOK, PruneInv, NoPrune

\* Every step keeps the invariant and every fresh run.
LEMMA ArchiveInvStep ==
  ASSUME Void \notin Dates, ArchiveInv, [ArchiveNext]_telemetryVars
  PROVE  ArchiveInv' /\ \A r \in fresh : dirs[r] # Void => dirs'[r] # Void
<1> DEFINE Kept == \A r \in fresh : dirs[r] # Void => dirs'[r] # Void
<1> USE DEF telemetryVars, archiveVars, taskVars
<1>1. CASE Tick
  <2>1. now' = now + 1 /\ UNCHANGED <<dirs, live, prune, fresh>>
    BY <1>1 DEF Tick
  <2>2. now \in Int /\ \A r \in Runs : dirs[r] # Void => dirs[r].last \in Int
    BY DEF ArchiveInv, ArchiveTypeOK, Dates
  <2> QED
    BY <2>1, <2>2 DEF ArchiveInv, ArchiveTypeOK, PruneInv
<1>2. ASSUME NEW r \in Runs, Open(r) PROVE ArchiveInv' /\ Kept
  <2>1. \A q \in fresh : dirs'[q] = dirs[q]
    BY <1>2 DEF Open, ArchiveInv, ArchiveTypeOK, PruneInv
  <2> QED
    BY <1>2, <2>1, OpenKeeps
<1>3. ASSUME NEW r \in Runs, dirs[r] # Void, dirs' = Touched(r),
             UNCHANGED <<now, prune, fresh>>, live' \subseteq Runs
      PROVE  ArchiveInv' /\ Kept
  <2>1. ArchiveInv'
    BY <1>3, WriteKeeps
  <2>2. \A q \in fresh' : dirs'[q] # Void
    BY <2>1 DEF ArchiveInv, PruneInv
  <2> QED
    BY <1>3, <2>1, <2>2
<1>4. ASSUME NEW r \in Runs, NEW t \in Jobs, NEW s \in Stages, NEW ok \in BOOLEAN,
             Log(r, t, s, ok)
      PROVE  ArchiveInv' /\ Kept
  <2>1. dirs[r] # Void /\ dirs' = Touched(r) /\ UNCHANGED <<now, prune, fresh, live>>
    BY <1>4 DEF Log
  <2>2. live' \subseteq Runs
    BY <2>1 DEF ArchiveInv, ArchiveTypeOK
  <2> QED
    BY <1>3, <2>1, <2>2
<1>5. ASSUME NEW r \in Runs, Close(r) PROVE ArchiveInv' /\ Kept
  <2>1. UNCHANGED <<now, prune, fresh>> /\ live' \subseteq Runs
    BY <1>5 DEF Close, ArchiveInv, ArchiveTypeOK
  <2>2. CASE dirs[r] = Void
    <3>1. dirs' = dirs
      BY <1>5, <2>2 DEF Close
    <3> QED
      BY <2>1, <3>1 DEF ArchiveInv, ArchiveTypeOK, PruneInv
  <2>3. CASE dirs[r] # Void
    <3>1. dirs' = Touched(r)
      BY <1>5, <2>3 DEF Close
    <3> QED
      BY <1>3, <2>1, <2>3, <3>1
  <2> QED
    BY <2>2, <2>3
<1>6. ASSUME NEW days \in Days, NEW own \in {{}} \cup {{r} : r \in live},
             BeginPrune(days, own)
      PROVE  ArchiveInv' /\ Kept
  BY <1>6, BeginKeeps DEF BeginPrune
<1>7. ASSUME NEW r \in Runs, Judge(r) PROVE ArchiveInv' /\ Kept
  BY <1>7, JudgeKeeps DEF Judge
<1>8. CASE Remove
  BY <1>8, RemoveKeeps
<1>9. CASE EndPrune
  <2>1. UNCHANGED <<now, dirs, live>> /\ prune' = NoPrune /\ fresh' = {}
    BY <1>9 DEF EndPrune
  <2> QED
    BY <2>1 DEF NoPrune, ArchiveInv, ArchiveTypeOK, PruneInv
<1>10. CASE (\E t \in Jobs : Requeue(t) \/ Finish(t) \/ Merge(t))
            \/ UNCHANGED telemetryVars
  <2>1. UNCHANGED <<now, dirs, live, prune, fresh>>
    BY <1>10 DEF Requeue, Finish, Merge
  <2> QED
    BY <2>1 DEF ArchiveInv, ArchiveTypeOK, PruneInv
<1> QED
  BY <1>1, <1>2, <1>4, <1>5, <1>6, <1>7, <1>8, <1>9, <1>10 DEF ArchiveNext

\* The archive keeps its types, and no write is later than the clock
\* (telemetry.py).
THEOREM ArchiveTypes ==
  ASSUME Void \notin Dates
  PROVE  ArchiveSpec => []ArchiveInv
BY ArchiveInvInit, ArchiveInvStep, PTL DEF ArchiveSpec

\* A forced prune spares every run that had been written to within the
\* retention when it began, whatever is logged, opened and closed while it
\* judges and removes (prune_archive of telemetry.py).
THEOREM FreshRunsStay ==
  ASSUME Void \notin Dates
  PROVE  ArchiveSpec => FreshRunsSurvive
<1>1. ArchiveInv /\ [ArchiveNext]_telemetryVars =>
        [\A r \in fresh : dirs[r] # Void => dirs'[r] # Void]_telemetryVars
  BY ArchiveInvStep
<1> QED
  BY <1>1, ArchiveInvInit, ArchiveInvStep, PTL DEF ArchiveSpec, FreshRunsSurvive

-----------------------------------------------------------------------------
(* Records in refs: RefStore                                               *)

USE DEF None, Origin, Born, Absent

\* The initial states are well typed.
LEMMA InitTypeOK == Init => TypeOK
BY DEF Init, TypeOK, Record, Pcs, Place

\* Where a command runs is a clone, whose board is well typed.
LEMMA HomeType ==
    ASSUME TypeOK, NEW p \in Process
    PROVE  /\ Home(p) \in Clone /\ Home(p) \in Place /\ Home(p) # Origin
           /\ TreeOf[p] \in Tree
           /\ Board(Home(p)) \in [Task -> Record]
           /\ Fetched(Home(p)) \in [Task -> Record]
           /\ Pushed(Home(p)) \in [Task -> Record]
BY StoreAssumption DEF Home, TypeOK, Board, Fetched, Pushed, Place, Record

\* Every step preserves the types.
LEMMA NextTypeOK == TypeOK /\ [Next]_vars => TypeOK'
<1> SUFFICES ASSUME TypeOK, [Next]_vars PROVE TypeOK'
    OBVIOUS
<1>1. ASSUME NEW p \in Process, Step(p) PROVE TypeOK'
  <2> USE HomeType DEF TypeOK, Pcs
  <2>1. CASE Fetch(p)
    BY <2>1 DEF Fetch, FetchedSeals, AfterFetch, Place
  <2>2. CASE NoFetch(p)
    BY <2>2 DEF NoFetch, AfterFetch
  <2>3. CASE Resolve(p)
    BY <2>3 DEF Resolve, Reap
  <2>4. CASE Load(p)
    BY <2>4 DEF Load, Reap
  <2>5. CASE Save(p)
    <3>1. [t \in Task |-> IF t \in Dropped(p) THEN Absent
                         ELSE IF t \in Written(p) THEN seen[p][t] \cup {p}
                         ELSE rec[Home(p)][t]]
             \in [Task -> Record]
      BY DEF Record
    <3>2. rec' \in [Place -> [Task -> Record]]
      BY <2>5, <3>1 DEF Save
    <3>3. lock' \in [Tree -> Process \cup {None}] /\ pc' \in [Process -> Pcs]
      BY <2>5 DEF Save, Unlock
    <3>4. Dropped(p) \subseteq Task
      BY DEF Dropped
    <3>5. \A t \in Dropped(p) : \A q \in rec[Home(p)][t] :
             <<Home(p), q, t>> \in Clone \X (Process \cup {Born}) \X Task
      BY <3>4 DEF Record
    <3>6. pruned' \subseteq Clone \X (Process \cup {Born}) \X Task
      BY <2>5, <3>5 DEF Save
    <3> QED
      BY <2>5, <3>2, <3>3, <3>6 DEF Save
  <2>6. CASE SaveFails(p)
    BY <2>6 DEF SaveFails, Unlock
  <2>7. CASE Seal(p)
    <3>1. [Board(Home(p)) EXCEPT ![Target[p]] = Absent] \in [Task -> Record]
      BY DEF Record
    <3>2. Target[p] \in Task
      BY StoreAssumption
    <3>3. CASE Board(Home(p))[Target[p]] # Absent
      <4>1. /\ rec' = [rec EXCEPT ![Home(p)] = [Board(Home(p)) EXCEPT ![Target[p]] = Absent]]
            /\ sealed' = [sealed EXCEPT ![Home(p)] = @ \cup {Target[p]}]
            /\ deleted' = [deleted EXCEPT ![p] = {Target[p]}]
            /\ pc' = [pc EXCEPT ![p] = "push"]
            /\ UNCHANGED <<seen, saw, saved, pruned>>
        BY <2>7, <3>3 DEF Seal
      <4>2. lock' \in [Tree -> Process \cup {None}]
        BY <2>7 DEF Seal, Unlock
      <4> QED
        BY <3>1, <3>2, <4>1, <4>2
    <3>4. CASE Board(Home(p))[Target[p]] = Absent
      <4>1. lock' \in [Tree -> Process \cup {None}]
        BY <2>7 DEF Seal, Unlock
      <4>2. rec' \in [Place -> [Task -> Record]]
        BY <2>7, <3>4 DEF Seal, Reap
      <4> QED
        BY <2>7, <3>4, <4>1, <4>2 DEF Seal
    <3> QED
      BY <3>3, <3>4
  <2>8. CASE Push(p)
    BY <2>8 DEF Push, PushedSeals, Place
  <2>9. CASE PushDeletes(p)
    BY <2>9 DEF PushDeletes, PushedSeals, Place, Record
  <2>10. CASE NoPush(p)
    BY <2>10 DEF NoPush
  <2>11. CASE Crash(p)
    BY <2>11 DEF Crash
  <2> QED
    BY <1>1, <2>1, <2>2, <2>3, <2>4, <2>5, <2>6, <2>7, <2>8, <2>9, <2>10, <2>11 DEF Step
<1>2. CASE UNCHANGED vars
  BY <1>2 DEF vars, TypeOK
<1> QED
  BY <1>1, <1>2 DEF Next

\* What a save leaves out of the queue is pruned by a sync, and told.
LEMMA PruneTold ==
    ASSUME TypeOK, NEW p \in Process, Save(p), NEW t \in Dropped(p)
    PROVE  /\ Prunes(p, t)
           /\ \A q \in rec[Home(p)][t] : <<Home(p), q, t>> \in pruned'
<1>1. Kind[p] = "sync"
  BY DEF Dropped
<1>2. pc'[p] = "done"
  BY <1>1 DEF Save, Closes, TypeOK
<1>3. \A q \in rec[Home(p)][t] : <<Home(p), q, t>> \in pruned'
  BY DEF Save
<1> QED
  BY <1>1, <1>2, <1>3 DEF Prunes, Save

\* A load, a save or a seal replaces a record by one that contains it, where
\* it does not bury or prune the task.
LEMMA LocalSteps ==
    ASSUME TypeOK, NEW p \in Process, Resolve(p) \/ Load(p) \/ Save(p) \/ Seal(p),
           NEW c \in Place, NEW t \in Task
    PROVE  \/ rec[c][t] \subseteq rec'[c][t] \/ t \in sealed'[c]
           \/ Save(p) /\ c = Home(p) /\ t \in Dropped(p)
<1> USE HomeType DEF TypeOK
<1>1. ASSUME Reap(Home(p)) PROVE rec[c][t] \subseteq rec'[c][t] \/ t \in sealed[c]
  <2>1. CASE c = Home(p)
    BY <1>1, <2>1 DEF Reap, Board
  <2>2. CASE c # Home(p)
    BY <1>1, <2>2 DEF Reap
  <2> QED
    BY <2>1, <2>2
<1>2. CASE Resolve(p) \/ Load(p)
  BY <1>1, <1>2 DEF Resolve, Load
<1>3. CASE Save(p)
  <2>1. CASE c = Home(p) /\ t \notin Dropped(p)
    BY <1>3, <2>1 DEF Save, Fresh
  <2>2. CASE c # Home(p)
    BY <1>3, <2>2 DEF Save
  <2> QED
    BY <1>3, <2>1, <2>2
<1>4. CASE Seal(p)
  <2>1. CASE Board(Home(p))[Target[p]] = Absent
    BY <1>1, <1>4, <2>1 DEF Seal
  <2>2. CASE Board(Home(p))[Target[p]] # Absent
    <3>1. /\ rec' = [rec EXCEPT ![Home(p)] = [Board(Home(p)) EXCEPT ![Target[p]] = Absent]]
          /\ sealed' = [sealed EXCEPT ![Home(p)] = @ \cup {Target[p]}]
      BY <1>4, <2>2 DEF Seal
    <3>2. CASE c = Home(p)
      BY <3>1, <3>2 DEF Board
    <3>3. CASE c # Home(p)
      BY <3>1, <3>3
    <3> QED
      BY <3>2, <3>3
  <2> QED
    BY <2>1, <2>2
<1> QED
  BY <1>2, <1>3, <1>4

-----------------------------------------------------------------------------
(* Tombstones *)

\* A clone has the tombstones its commands fetched, and those of the task refs
\* they deleted; a command that has come to the lock has loaded without them.
Buried ==
    \A p \in Process :
        /\ saw[p] \subseteq sealed[Home(p)]
        /\ deleted[p] \subseteq sealed[Home(p)]

\* Tombstones are never removed.
LEMMA SealedGrows ==
    ASSUME TypeOK, [Next]_vars, NEW c \in Place
    PROVE  sealed[c] \subseteq sealed'[c]
<1>1. ASSUME NEW p \in Process, Step(p) PROVE sealed[c] \subseteq sealed'[c]
  <2>1. CASE Fetch(p)
    BY <2>1, HomeType DEF TypeOK, Fetch, FetchedSeals
  <2>3. CASE Seal(p)
    <3>1. sealed' \in {sealed, [sealed EXCEPT ![Home(p)] = @ \cup {Target[p]}]}
      BY <2>3 DEF Seal
    <3> QED
      BY <3>1, HomeType DEF TypeOK
  <2>4. CASE Push(p) \/ PushDeletes(p)
    BY <2>4 DEF TypeOK, Place, Push, PushedSeals, PushDeletes
  <2>2. CASE \/ NoFetch(p) \/ Resolve(p) \/ Load(p) \/ Save(p) \/ SaveFails(p)
            \/ NoPush(p) \/ Crash(p)
    BY <2>2 DEF NoFetch, Resolve, Load, Save, SaveFails, NoPush, Crash
  <2> QED
    BY <1>1, <2>1, <2>2, <2>3, <2>4 DEF Step
<1> QED
  BY <1>1 DEF Next, vars

\* The initial states satisfy the tombstone invariant.
LEMMA InitBuried == Init => Buried /\ TombstonesWin
BY DEF Init, Buried, TombstonesWin

\* Every step preserves it.
LEMMA NextBuried ==
    TypeOK /\ Buried /\ TombstonesWin /\ [Next]_vars => (Buried /\ TombstonesWin)'
<1> SUFFICES ASSUME TypeOK, Buried, TombstonesWin, [Next]_vars
             PROVE  (Buried /\ TombstonesWin)'
    OBVIOUS
<1>1. \A q \in Process : sealed[Home(q)] \subseteq sealed'[Home(q)]
  BY SealedGrows, HomeType
<1>2. ASSUME NEW p \in Process, Step(p) PROVE (Buried /\ TombstonesWin)'
  <2> USE <1>1, HomeType DEF TypeOK, Buried, TombstonesWin, Home
  <2>1. CASE Fetch(p)
    <3>1. sealed[Origin] \subseteq sealed'[Home(p)]
      BY <2>1 DEF Fetch, FetchedSeals
    <3> QED
      BY <2>1, <3>1 DEF Fetch, AfterFetch
  <2>2. CASE NoFetch(p) \/ Resolve(p)
    BY <2>2 DEF NoFetch, AfterFetch, Resolve
  <2>3. CASE Load(p)
    <3>1. \A t \in saw[p] : Board(Home(p))[t] = Absent
      BY DEF Board
    <3> QED
      BY <2>3, <3>1 DEF Load
  <2>4. CASE Save(p) \/ SaveFails(p)
    BY <2>4 DEF Save, SaveFails
  <2>5. CASE Seal(p)
    <3>1. deleted'[p] \subseteq sealed'[Home(p)]
      BY <2>5 DEF Seal
    <3> QED
      BY <2>5, <3>1 DEF Seal
  <2>6. CASE Push(p) \/ NoPush(p) \/ Crash(p)
    <3>1. CASE Push(p)
      BY <3>1 DEF Push
    <3>2. CASE NoPush(p)
      BY <3>2 DEF NoPush
    <3>3. CASE Crash(p)
      BY <3>3 DEF Crash
    <3> QED
      BY <2>6, <3>1, <3>2, <3>3
  <2>7. CASE PushDeletes(p)
    <3>1. /\ \A q \in Process : deleted'[q] \subseteq deleted[q]
          /\ \A q \in Process : pc'[q] \in {"save", "seal"} => pc[q] = pc'[q]
          /\ UNCHANGED <<saw, seen>>
      BY <2>7 DEF PushDeletes
    <3> QED
      BY <3>1
  <2> QED
    BY <1>2, <2>1, <2>2, <2>3, <2>4, <2>5, <2>6, <2>7 DEF Step
<1>3. CASE UNCHANGED vars
  BY <1>3 DEF vars, Buried, TombstonesWin, Home
<1> QED
  BY <1>2, <1>3 DEF Next

\* A command that fetched a tombstone does not have the task on the board it
\* loads, with any number of clones, stale refs, failures and crashes.
THEOREM FetchedTombstonesWin == Spec => []TombstonesWin
<1> DEFINE IInv == TypeOK /\ Buried /\ TombstonesWin
<1>1. Init => IInv
  BY InitTypeOK, InitBuried
<1>2. IInv /\ [Next]_vars => IInv'
  BY NextTypeOK, NextBuried
<1> QED
  BY <1>1, <1>2, PTL DEF Spec

\* A task ref goes only where its tombstone is, in every clone and at origin, but
\* where a sync drops in its own clone what it loaded as over.
THEOREM TasksLeaveByAssertion == Spec => LeavesByAssertion
<1> DEFINE IInv == TypeOK /\ Buried /\ TombstonesWin
<1>1. Init => IInv
  BY InitTypeOK, InitBuried
<1>2. IInv /\ [Next]_vars => IInv'
  BY NextTypeOK, NextBuried
<1>3. ASSUME IInv, [Next]_vars, NEW c \in Place, NEW t \in Task,
             rec[c][t] # Absent, rec'[c][t] = Absent
      PROVE  t \in sealed'[c] \/ \E p \in Process : Home(p) = c /\ Prunes(p, t)
  <2>1. sealed[c] \subseteq sealed'[c]
    BY <1>3, SealedGrows
  <2>2. ASSUME NEW p \in Process, Step(p)
        PROVE  t \in sealed'[c] \/ (Home(p) = c /\ Prunes(p, t))
    <3> USE <1>3, <2>1, HomeType DEF TypeOK, Place
    <3>1. CASE Fetch(p)
      BY <3>1 DEF Fetch, Fetched
    <3>2. CASE NoFetch(p) \/ SaveFails(p) \/ NoPush(p) \/ Crash(p)
      BY <3>2 DEF NoFetch, SaveFails, NoPush, Crash
    <3>3. CASE Resolve(p) \/ Load(p) \/ Save(p) \/ Seal(p)
      BY <3>3, LocalSteps, PruneTold
    <3>4. CASE Push(p)
      BY <3>4 DEF Push, Pushed
    <3>5. CASE PushDeletes(p)
      <4>1. c = Origin
        BY <3>5 DEF PushDeletes
      <4>2. t \in deleted[p]
        BY <3>5, <4>1 DEF PushDeletes, Pushed
      <4>3. sealed[Home(p)] \subseteq sealed'[Origin]
        BY <3>5 DEF PushDeletes, PushedSeals
      <4> QED
        BY <4>1, <4>2, <4>3 DEF Buried
    <3> QED
      BY <2>2, <3>1, <3>2, <3>3, <3>4, <3>5 DEF Step
  <2> QED
    BY <1>3, <2>2 DEF Next, vars
<1>4. IInv /\ [Next]_vars
        => [\A c \in Place, t \in Task :
               rec[c][t] # Absent /\ rec'[c][t] = Absent =>
                  \/ t \in sealed'[c]
                  \/ \E p \in Process : Home(p) = c /\ Prunes(p, t)]_vars
  BY <1>3
<1> QED
  BY <1>1, <1>2, <1>4, PTL DEF Spec, LeavesByAssertion

-----------------------------------------------------------------------------
(* What a clone may lose *)

\* A fetch leaves a record as it is or puts origin's in its place, and it is
\* the first step of a command of the clone.
LEMMA FetchOverwrites ==
    ASSUME TypeOK, NEW p \in Process, Fetch(p), NEW c \in Clone, NEW t \in Task,
           ~(rec[c][t] \subseteq rec'[c][t])
    PROVE  /\ rec'[c][t] = rec[Origin][t]
           /\ Home(p) = c /\ pc[p] = "start" /\ pc'[p] # "start"
<1>1. c \in Place /\ Home(p) \in Place
  BY HomeType DEF Place
<1>2. rec' = [rec EXCEPT ![Home(p)] = Fetched(Home(p))]
  BY DEF Fetch
<1>3. c = Home(p)
  BY <1>1, <1>2 DEF TypeOK
<1>4. rec'[c][t] = Fetched(c)[t]
  BY <1>1, <1>2, <1>3 DEF TypeOK
<1>5. rec'[c][t] = rec[Origin][t]
  BY <1>4 DEF Fetched
<1>6. pc[p] = "start" /\ pc'[p] # "start"
  BY DEF TypeOK, Fetch, AfterFetch
<1> QED
  BY <1>3, <1>5, <1>6

\* In every posture, a write leaves a record of a clone only when the task
\* settles, a fetch puts origin's record there or a sync drops the record of a
\* task that was over when it loaded, with any number of worktrees, overlapping
\* commands, failures and crashes.
THEOREM WritesLeaveByFetch == Spec => OnlyFetchesOverwrite
<1>1. ASSUME TypeOK, [Next]_vars, NEW c \in Clone, NEW t \in Task,
             ~(rec[c][t] \subseteq rec'[c][t])
      PROVE  \/ t \in sealed'[c]
             \/ /\ rec'[c][t] = rec[Origin][t]
                /\ \E p \in Process :
                     Home(p) = c /\ pc[p] = "start" /\ pc'[p] # "start"
             \/ \E p \in Process : Home(p) = c /\ Prunes(p, t)
  <2>1. rec' # rec
    BY <1>1
  <2>2. PICK p \in Process : Step(p)
    BY <1>1, <2>1 DEF Next, vars
  <2>3. c \in Place /\ c # Origin
    BY StoreAssumption DEF Place
  <2>4. CASE Fetch(p)
    BY <1>1, <2>4, FetchOverwrites
  <2>5. CASE Resolve(p) \/ Load(p) \/ Save(p) \/ Seal(p)
    BY <1>1, <2>3, <2>5, LocalSteps, PruneTold
  <2>6. CASE NoFetch(p) \/ SaveFails(p) \/ NoPush(p) \/ Crash(p)
    BY <2>1, <2>6 DEF NoFetch, SaveFails, NoPush, Crash
  <2>7. CASE Push(p) \/ PushDeletes(p)
    <3>1. rec'[c] = rec[c]
      BY <1>1, <2>3, <2>7 DEF TypeOK, Push, PushDeletes
    <3> QED
      BY <1>1, <3>1
  <2> QED
    BY <2>2, <2>4, <2>5, <2>6, <2>7 DEF Step
<1>2. TypeOK /\ [Next]_vars
        => [\A c \in Clone, t \in Task :
              ~(rec[c][t] \subseteq rec'[c][t]) =>
                  \/ t \in sealed'[c]
                  \/ /\ rec'[c][t] = rec[Origin][t]
                     /\ \E p \in Process :
                          Home(p) = c /\ pc[p] = "start" /\ pc'[p] # "start"
                  \/ \E p \in Process : Home(p) = c /\ Prunes(p, t)]_vars
  BY <1>1
<1> QED
  BY <1>2, InitTypeOK, NextTypeOK, PTL DEF Spec, OnlyFetchesOverwrite

-----------------------------------------------------------------------------
(* The commands of one clone *)

\* A command saves once: before its save it is not among the saved.
Unsaved == \A p \in Process :
               pc[p] \in {"start", "resolve", "load", "save"} => p \notin saved

\* Without a remote, every step preserves what was saved.
LEMMA NextSaved ==
    ASSUME Posture = "none", TypeOK, Unsaved, SavedWritesSurvive, [Next]_vars
    PROVE  (Unsaved /\ SavedWritesSurvive)'
<1>1. \A q \in Process : sealed[Home(q)] \subseteq sealed'[Home(q)]
  BY SealedGrows, HomeType
<1>2. ASSUME NEW p \in Process, Step(p) PROVE (Unsaved /\ SavedWritesSurvive)'
  <2> USE <1>1, HomeType DEF TypeOK, Unsaved, SavedWritesSurvive, Home
  <2>1. \A q \in Process : Written(q) \subseteq Task
    BY StoreAssumption DEF Written
  <2>0. \A q \in Process : seen'[q] = seen[q] => Written(q)' = Written(q)
    BY DEF Written, Dropped
  <2>2. CASE Fetch(p)
    BY <2>2, Posture = "none" DEF Fetch
  <2>3. CASE NoFetch(p) \/ SaveFails(p) \/ NoPush(p) \/ Crash(p)
    BY <2>0, <2>3 DEF NoFetch, AfterFetch, SaveFails, NoPush, Crash
  <2>4. CASE Push(p) \/ PushDeletes(p)
    BY <2>0, <2>4 DEF Push, PushDeletes
  <2>5. CASE Resolve(p) \/ Load(p) \/ Save(p) \/ Seal(p)
    <3> DEFINE Told(q, t) == \/ q \in rec[Home(q)][t] \/ t \in sealed[Home(q)]
                             \/ <<Home(q), q, t>> \in pruned
    <3>0. pruned \subseteq pruned'
      BY <2>5 DEF Resolve, Load, Save, Seal
    <3>1. ASSUME NEW q \in saved, NEW t \in Task, Told(q, t) PROVE Told(q, t)'
      <4>1. CASE q \in rec[Home(q)][t]
        <5>1. CASE Save(p) /\ Home(q) = Home(p) /\ t \in Dropped(p)
          <6>1. <<Home(p), q, t>> \in pruned'
            BY <4>1, <5>1, PruneTold
          <6> QED
            BY <5>1, <6>1
        <5>2. CASE ~(Save(p) /\ Home(q) = Home(p) /\ t \in Dropped(p))
          <6>1. rec[Home(q)][t] \subseteq rec'[Home(q)][t] \/ t \in sealed'[Home(q)]
            BY <2>5, <5>2, LocalSteps
          <6> QED
            BY <4>1, <6>1
        <5> QED
          BY <5>1, <5>2
      <4>2. CASE t \in sealed[Home(q)] \/ <<Home(q), q, t>> \in pruned
        BY <3>0, <4>2
      <4> QED
        BY <3>1, <4>1, <4>2
    <3>2. CASE Resolve(p)
      BY <2>0, <2>1, <3>1, <3>2 DEF Resolve
    <3>3. CASE Load(p)
      <4>1. p \notin saved /\ saved' = saved /\ Unsaved'
        BY <3>3 DEF Load
      <4>2. \A q \in saved : seen'[q] = seen[q]
        BY <3>3, <4>1 DEF Load
      <4>3. ASSUME NEW q \in saved, NEW t \in Written(q)'
            PROVE  Told(q, t)'
        <5>1. t \in Written(q)
          BY <2>0, <4>2
        <5>2. t \in Task /\ Told(q, t)
          BY <2>1, <5>1
        <5> QED
          BY <3>1, <5>2
      <4> QED
        BY <4>1, <4>3
    <3>4. CASE Save(p)
      <4>1. saved' = saved \cup {p} /\ seen' = seen /\ Unsaved'
        BY <3>4 DEF Save
      <4>2. ASSUME NEW t \in Written(p) PROVE p \in rec'[Home(p)][t]
        <5>1. t \in Task /\ t \notin Dropped(p)
          BY <2>1, <4>2 DEF Written, Dropped
        <5> QED
          BY <3>4, <5>1 DEF Save
      <4>3. ASSUME NEW q \in saved', NEW t \in Written(q)'
            PROVE  Told(q, t)'
        <5>1. t \in Written(q)
          BY <2>0, <4>1, <4>3
        <5>2. CASE q = p
          BY <4>2, <5>1, <5>2
        <5>3. CASE q \in saved
          BY <2>1, <3>1, <5>1, <5>3
        <5> QED
          BY <4>1, <5>2, <5>3
      <4> QED
        BY <4>1, <4>3
    <3>5. CASE Seal(p)
      <4>1. saved' = saved /\ seen' = seen /\ Unsaved'
        BY <3>5 DEF Seal
      <4>2. \A q \in saved : \A t \in Written(q) :
               t \in Task /\ Told(q, t)
        BY <2>1
      <4> QED
        BY <2>0, <3>1, <4>1, <4>2
    <3> QED
      BY <2>5, <3>2, <3>3, <3>4, <3>5
  <2> QED
    BY <1>2, <2>2, <2>3, <2>4, <2>5 DEF Step
<1>3. CASE UNCHANGED vars
  BY <1>3 DEF vars, Unsaved, SavedWritesSurvive, Written, Dropped, Home
<1> QED
  BY <1>2, <1>3 DEF Next

\* Among the commands of one clone, in any number of worktrees, which crash or
\* overlap as they like, no save loses the write of another: a record is only
\* ever replaced by one that was computed from it.  Only the prune of a sync
\* takes it away, with the record of a task that was over.
THEOREM CompareAndSwapKeepsWrites ==
    ASSUME Posture = "none"
    PROVE  Spec => []SavedWritesSurvive
<1>1. Init => TypeOK /\ Unsaved /\ SavedWritesSurvive
  BY InitTypeOK DEF Init, Unsaved, SavedWritesSurvive
<1>2. TypeOK /\ Unsaved /\ SavedWritesSurvive /\ [Next]_vars
        => (TypeOK /\ Unsaved /\ SavedWritesSurvive)'
  BY NextTypeOK, NextSaved
<1> QED
  BY <1>1, <1>2, PTL DEF Spec
===============================================================================
