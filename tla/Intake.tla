------------------------------- MODULE Intake -------------------------------
(***************************************************************************)
(* The doors through which a plan joins the board: aet sprint add, the     *)
(* intake pass over GitHub issues, and aet run-one, which judges a plan    *)
(* file again before it runs the board's record of it                      *)
(* (src/aet/admission.py, src/aet/plan_validate.py, src/aet/plan_parser.py,*)
(* src/aet/cli/sprint.py, src/aet/cli/plan.py, src/aet/cli/orchestrator.py)*)
(*                                                                         *)
(* A plan's text is abstracted to what the checks tell apart: the tasks it *)
(* waits for, the requirements its task list cites, the families of checks *)
(* its own text fails, the families its author acknowledges, and whether   *)
(* it carries a terminal status or footer.  Every plan names one PRD, whose*)
(* requirements may be edited at any time, as may the plans.               *)
(***************************************************************************)
EXTENDS Naturals, FiniteSets

CONSTANTS
    Id, Requirement,
    Texts,              \* the plan texts an author writes
    Commands,           \* a subset of {"reset"}: the repairs an operator uses
    MaxEdits,           \* edits of plans and of the PRD
    Nil

VARIABLES
    plan,               \* docs/plans: the text of a task's plan file, or Nil
    prd,                \* the requirements the PRD declares
    board,              \* the open records: [state, spec, ran] or Nil, ran
                        \* telling whether branch and worktree are recorded
    tomb,               \* the settled records, same fields, or Nil
    edits

intakeVars == <<plan, prd, board, tomb, edits>>

Text == [blocked : SUBSET Id, cites : SUBSET Requirement,
         faults : SUBSET {"structural", "acceptance", "scope"},
         acks : SUBSET {"structural", "rtrace", "acceptance", "scope"},
         over : BOOLEAN]

Inert == {"ready", "blocked"}

OnBoard == {t \in Id : board[t] # Nil}
Settled == {t \in Id : tomb[t] # Nil}

(***************************************************************************)
(* The suite.  Plans that look finished are left out of the corpus and are *)
(* not judged themselves; requirements are covered by the corpus and by    *)
(* the specs of live and of settled records.                               *)
(***************************************************************************)
Corpus == {t \in Id : plan[t] # Nil /\ ~plan[t].over}

Covered(t) ==
    plan[t].cites
        \cup UNION {plan[p].cites : p \in Corpus}
        \cup UNION {board[p].spec.cites : p \in OnBoard}
        \cup UNION {tomb[p].spec.cites : p \in Settled}

\* Every requirement is covered, and the plan cites none that is not there.
Traced(t) == prd \subseteq Covered(t) /\ plan[t].cites \subseteq prd

\* Acceptance criteria that restate tasks, new files without a named test,
\* references that do not resolve: what the text alone decides.
TextFaults(t) == plan[t].faults

\* The families the author overrides, each with a reason.
Acked(t) == plan[t].acks

\* A blocker must be named by a plan of the corpus or by an id in known.
UnknownBlockers(t, known) == plan[t].blocked \ (Corpus \cup {t} \cup known)

\* The findings nobody answered for.
Unacked(t, known) ==
    (TextFaults(t)
        \cup (IF UnknownBlockers(t, known) # {} THEN {"structural"} ELSE {})
        \cup (IF Traced(t) THEN {} ELSE {"rtrace"})) \ Acked(t)

\* What validate reports for a plan: nothing when the plan looks finished.
Findings(t, known) == IF plan[t].over THEN {} ELSE Unacked(t, known)

\* The board doors pass the live and the settled ids ...
AddFindings(t) == Findings(t, OnBoard \cup Settled)

\* ... aet run-one and aet plan validate pass none.
RunFindings(t) == Findings(t, {})

(***************************************************************************)
(* A record is built from the plan and the board as it is.  A blocker is   *)
(* satisfied by its tombstone and by nothing else: one that is on neither  *)
(* list has simply not been added yet.  (Terminal records leave the board  *)
(* in the step that settles them.)                                         *)
(***************************************************************************)
Satisfied(t) == plan[t].blocked \subseteq Settled

NewTask(t) ==
    [state |-> IF Satisfied(t) THEN "ready" ELSE "blocked",
     spec |-> plan[t], ran |-> FALSE]

\* A record may be rebuilt from its plan only while nothing has run on it: a
\* task that waits for another attempt is ready, and has a branch.
InertState(t) == board[t].state \in Inert

IsInert(t) == board[t].state \in Inert /\ ~board[t].ran

Admissible(t) ==
    /\ t \notin OnBoard \cup Settled
    /\ plan[t] # Nil
    /\ AddFindings(t) = {}

\* aet sprint add of a task that is not on the board.
SprintAdd(t) ==
    /\ Admissible(t)
    /\ board' = [board EXCEPT ![t] = NewTask(t)]
    /\ UNCHANGED <<plan, prd, tomb, edits>>

\* aet sprint add of a task that is: the record takes the plan's new text.
Reingest(t) ==
    /\ t \in OnBoard
    /\ plan[t] # Nil
    /\ IsInert(t)
    /\ AddFindings(t) = {}
    /\ board' = [board EXCEPT ![t] = NewTask(t)]
    /\ UNCHANGED <<plan, prd, tomb, edits>>

\* The forge pass: every candidate is judged against the queue with the
\* candidates before it already appended, blocked ones are refused, and the
\* queue is saved once.  A candidate admitted in the same pass is live, so a
\* later one that waits for it is blocked whichever comes first.
IntakePass(cands) ==
    LET admitted == {t \in cands : Admissible(t) /\ Satisfied(t)}
    IN  /\ admitted # {}
        /\ board' = [t \in Id |-> IF t \in admitted THEN NewTask(t) ELSE board[t]]
        /\ UNCHANGED <<plan, prd, tomb, edits>>

\* A batch takes a ready record; its plan is not judged again.
Start(t) ==
    /\ t \in OnBoard
    /\ board[t].state = "ready"
    /\ board' = [board EXCEPT ![t] = [@ EXCEPT !.state = "in_progress", !.ran = TRUE]]
    /\ UNCHANGED <<plan, prd, tomb, edits>>

\* aet run-one: the plan file is judged, the record is run.  With
\* --skip-intake the findings are stamped on the record and it runs anyway.
RunOne(t, skip) ==
    /\ t \in OnBoard
    /\ plan[t] # Nil
    /\ board[t].state \in {"ready", "failed"}
    /\ RunFindings(t) = {} \/ skip
    /\ board' = [board EXCEPT ![t] = [@ EXCEPT !.state = "in_progress", !.ran = TRUE]]
    /\ UNCHANGED <<plan, prd, tomb, edits>>

\* The run's outcomes that leave the record on the board; a transient
\* failure makes it ready for the next attempt.
Work(t) ==
    /\ t \in OnBoard
    /\ board[t].state = "in_progress"
    /\ \E s \in {"awaiting_merge", "failed", "ready"} :
          board' = [board EXCEPT ![t] = [@ EXCEPT !.state = s]]
    /\ UNCHANGED <<plan, prd, tomb, edits>>

\* A record is merged or given up: it leaves the board with a tombstone, and
\* whoever waited for it alone becomes ready.
Settle(t, s) ==
    /\ t \in OnBoard
    /\ s = "merged" => board[t].state = "awaiting_merge"
    /\ tomb' = [tomb EXCEPT ![t] = [board[t] EXCEPT !.state = s]]
    /\ board' = [d \in Id |->
                    IF d = t THEN Nil
                    ELSE IF /\ d \in OnBoard
                            /\ board[d].state = "blocked"
                            /\ board[d].spec.blocked \subseteq Settled \cup {t}
                      THEN [board[d] EXCEPT !.state = "ready"]
                    ELSE board[d]]
    /\ UNCHANGED <<plan, prd, edits>>

\* aet state reset: the record goes back to ready or blocked, a blocker that
\* is not on the board counting as merged; a hard reset also drops the branch
\* and the worktree.
Reopened(t, hard) ==
    [board[t] EXCEPT
        !.state = IF board[t].spec.blocked \cap OnBoard = {} THEN "ready" ELSE "blocked",
        !.ran = @ /\ ~hard]

Reset(t, hard) ==
    /\ "reset" \in Commands
    /\ t \in OnBoard
    /\ board' = [board EXCEPT ![t] = Reopened(t, hard)]
    /\ UNCHANGED <<plan, prd, tomb, edits>>

\* The author writes, rewrites or files away a plan.
EditPlan(t) ==
    /\ edits < MaxEdits
    /\ \E c \in Texts \cup {Nil} : c # plan[t] /\ plan' = [plan EXCEPT ![t] = c]
    /\ edits' = edits + 1
    /\ UNCHANGED <<prd, board, tomb>>

EditPrd ==
    /\ edits < MaxEdits
    /\ \E rs \in SUBSET Requirement : rs # prd /\ prd' = rs
    /\ edits' = edits + 1
    /\ UNCHANGED <<plan, board, tomb>>

IntakeInit ==
    /\ plan = [t \in Id |-> Nil]
    /\ prd = {}
    /\ board = [t \in Id |-> Nil]
    /\ tomb = [t \in Id |-> Nil]
    /\ edits = 0

IntakeNext ==
    \/ \E t \in Id :
          \/ SprintAdd(t) \/ Reingest(t) \/ Start(t) \/ Work(t) \/ EditPlan(t)
          \/ \E skip \in BOOLEAN : RunOne(t, skip)
          \/ \E hard \in BOOLEAN : Reset(t, hard)
          \/ \E s \in {"merged", "abandoned"} : Settle(t, s)
    \/ \E cands \in SUBSET Id : IntakePass(cands)
    \/ EditPrd

IntakeSpec == IntakeInit /\ [][IntakeNext]_intakeVars

(***************************************************************************)
(* From the moment a task has a branch until a hard reset drops it, the    *)
(* record keeps the spec that branch was started from, through failures,   *)
(* requeues and settlement: no edit of the plan followed by another sprint *)
(* add replaces the text under work that was done for the old one.         *)
(***************************************************************************)
SpecFrozen ==
    [][\A t \in OnBoard :
          board[t].ran =>
             \/ board'[t] # Nil /\ board'[t].spec = board[t].spec
             \/ tomb'[t] # Nil /\ tomb'[t].spec = board[t].spec]_intakeVars
=============================================================================
