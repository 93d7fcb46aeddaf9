-------------------------------- MODULE MCStores --------------------------------
(***************************************************************************)
(* What commands keep in refs, branches and files, in six parts of one     *)
(* run.  One part is chosen at the start, the others stand still:          *)
(*   "refs"     commands of two clones and their origin (RefStore);        *)
(*   "local"    commands of two worktrees of a clone without a remote      *)
(*              (RefStore);                                                *)
(*   "intake"   plans on their way to the board (Intake);                  *)
(*   "epic"     two tasks of one PRD, whose branch is edited (Epics);      *)
(*   "epics"    two tasks of two PRDs, that is, of two epics (Epics);      *)
(*   "archive"  telemetry that is pruned and read (Archive).               *)
(* The properties of the parts are under their own names.                  *)
(***************************************************************************)
EXTENDS MCRefStore, Intake, Archive, Epics, TLC

CONSTANTS p1, p2, E1, E2

VARIABLE part

-----------------------------------------------------------------------------
(* The instances *)

L == INSTANCE RefStore WITH
    Task <- Tasks, Clone <- Clones, Tree <- Trees, CloneOf <- Clones_Of,
    TreeOf <- Near, Kind <- KindsLocal, Target <- Targets, Others <- Releases,
    Posture <- "none", Offline <- FALSE

\* Plans without a finding, one of which waits for b; one whose finding its
\* author acknowledged; one that is over and has a finding.
Plan(blocked, cites, faults, acks, over) ==
    [blocked |-> blocked, cites |-> cites, faults |-> faults, acks |-> acks,
     over |-> over]
Plans == {Plan({}, {"R-1"}, {}, {}, FALSE), Plan({b}, {"R-1"}, {}, {}, FALSE),
          Plan({}, {}, {"acceptance"}, {"acceptance"}, FALSE),
          Plan({}, {}, {"scope"}, {}, TRUE)}
Required == {"R-1"}
Repairs == {"reset"}

\* b waits for a.  Both come from one PRD whose branch is edited once, or from
\* two that nobody edits; nobody passes --base.
OnePrd == {p1}
Prds == {p1, p2}
Waits == a :> {} @@ b :> {a}
Same == a :> p1 @@ b :> p1
Own == a :> p1 @@ b :> p2
Named == p1 :> E1 @@ p2 :> E2
FirstNamed == p1 :> E1
Ends == {E1, E2}
Never == {}
P == INSTANCE Epics WITH
    Prd <- Prds, PrdOf <- Own, Derived <- Named, MaxRetargets <- 0

Recorded == {"r1", "r2"}
Shipped == {"x"}
Staged_ == {"s"}
Kept == {1}
Reviewed == {[enabled |-> TRUE, threshold |-> 0]}

ASSUME Plans \subseteq Text

-----------------------------------------------------------------------------
(* One part at a time *)

NoRefs == Init /\ rec = [c \in Place |-> [t \in Task |-> Absent]]

NoEpics == EpicsInit /\ ~remote /\ rootAt = Null

StoresInit ==
    /\ IntakeInit /\ ArchiveInit
    /\ \/ part \in {"refs", "local"} /\ Init /\ NoEpics
       \/ part = "epic" /\ NoRefs /\ EpicsInit
       \/ part = "epics" /\ NoRefs /\ P!EpicsInit
       \/ part \in {"intake", "archive"} /\ NoRefs /\ NoEpics

Sharing ==
    /\ part = "refs" /\ Next
    /\ UNCHANGED <<part, intakeVars, epicVars, telemetryVars>>
Local ==
    /\ part = "local" /\ L!Next
    /\ UNCHANGED <<part, intakeVars, epicVars, telemetryVars>>
Planning ==
    /\ part = "intake" /\ IntakeNext
    /\ UNCHANGED <<part, vars, epicVars, telemetryVars>>
EpicBranches ==
    /\ \/ part = "epic" /\ EpicsNext
       \/ part = "epics" /\ P!EpicsNext
    /\ UNCHANGED <<part, vars, intakeVars, telemetryVars>>
Archiving ==
    /\ part = "archive" /\ ArchiveNext
    /\ UNCHANGED <<part, vars, intakeVars, epicVars>>
StoresNext ==
    Sharing \/ Local \/ Planning \/ EpicBranches \/ Archiving

StoresSpec ==
    StoresInit
    /\ [][StoresNext]_<<part, vars, intakeVars, epicVars, telemetryVars>>
=================================================================================
