------------------------------ MODULE SharedFiles ------------------------------
(***************************************************************************)
(* The two files that every process of a checkout writes: the provenance   *)
(* ledger (src/aet/ledger.py) and the handoff note of a run                *)
(* (src/aet/handoff.py).  Both have a file lock.  The ledger is only ever  *)
(* appended to and refuses to answer once a line is damaged; the note is   *)
(* replaced whole and starts again when it cannot be read.                 *)
(*                                                                         *)
(* A process ends at any step.  The lock of a process that has ended is    *)
(* free, and what it had written of a line stays in the file.              *)
(***************************************************************************)
EXTENDS Integers, SequencesExt

CONSTANTS
    Writers,    \* processes
    Ids,        \* identity of an event: source, task, kind, ref or time
    MaxStarts,  \* bound on the commands started
    MaxCrashes, \* bound on the processes that end between two steps
    Nil

ASSUME SharedFilesAssumption ==
    /\ Nil \notin Writers /\ Nil \notin Ids
    /\ MaxStarts \in Nat /\ MaxCrashes \in Nat

VARIABLES
    lines,      \* the ledger: events, and Torn for a line cut short
    endless,    \* the last line has no newline
    ledgerLock, \* the writer that holds it, or Nil
    writer,     \* local variables of each writer
    starts, crashes,
    done,       \* commands whose own effect is durable: board, verdict, plan
    answered,   \* history: the events write_event has returned
    note, noteLock, noted, drafts
                \* the handoff note, its lock, the entries append_entry has
                \* returned, and the note each writer has read

ledgerVars == <<lines, endless, ledgerLock, writer, done, answered>>
noteVars == <<note, noteLock, noted, drafts>>
fileVars == <<ledgerVars, starts, crashes, noteVars>>

Torn == [id |-> Nil, body |-> 0]
Off == [at |-> "idle", event |-> Torn, index |-> {}]

Event == [id : Ids, body : 1..MaxStarts]

FilesTypeOK ==
    /\ lines \in Seq(Event \cup {Torn}) /\ endless \in BOOLEAN
    /\ ledgerLock \in Writers \cup {Nil} /\ noteLock \in Writers \cup {Nil}
    /\ writer \in [Writers ->
          [at : {"idle", "effect", "construct", "acquire", "reload", "append",
                 "flush"},
           event : Event \cup {Torn}, index : SUBSET (Ids \cup {Nil})]]
    /\ starts \in 0..MaxStarts /\ crashes \in 0..MaxCrashes
    /\ done \subseteq Ids /\ answered \subseteq Event
    /\ note \in Seq(1..MaxStarts) /\ noted \subseteq 1..MaxStarts
    /\ drafts \in [Writers -> {Nil} \cup (Seq(1..MaxStarts) \ {<<>>})]

FilesInit ==
    /\ lines = <<>> /\ endless = FALSE /\ ledgerLock = Nil
    /\ writer = [w \in Writers |-> Off]
    /\ starts = 0 /\ crashes = 0 /\ done = {} /\ answered = {}
    /\ note = <<>> /\ noteLock = Nil /\ noted = {}
    /\ drafts = [w \in Writers |-> Nil]

-----------------------------------------------------------------------------
(* The ledger                                                              *)

At(w, p) == writer[w].at = p
MoveOn(w, p) == writer' = [writer EXCEPT ![w].at = p]
Stop(w) == writer' = [writer EXCEPT ![w] = Off]

\* _scan: a line that is not an event is a problem; so are two bodies of one id.
Damaged ==
    \/ Torn \in ToSet(lines)
    \/ \E i, j \in DOMAIN lines :
          lines[i].id = lines[j].id /\ lines[i].body # lines[j].body
Indexed == {lines[i].id : i \in DOMAIN lines}

\* The body holds created_at and the payload: no two are the same.
Begin(w, id) ==
    /\ At(w, "idle") /\ starts < MaxStarts /\ starts' = starts + 1
    /\ writer' = [writer EXCEPT ![w] =
          [at |-> "effect", event |-> [id |-> id, body |-> starts'], index |-> {}]]
    /\ UNCHANGED <<lines, endless, ledgerLock, done, answered, crashes, noteVars>>

\* The command saves the board, the verdict or the record before its event.
Effect(w) ==
    /\ At(w, "effect") /\ done' = done \cup {writer[w].event.id}
    /\ MoveOn(w, "construct")
    /\ UNCHANGED <<lines, endless, ledgerLock, answered, starts, crashes, noteVars>>

\* Ledger.__init__ reads outside the lock, and so may see half a line.
Construct(w) ==
    /\ At(w, "construct")
    /\ IF Damaged THEN Stop(w)
       ELSE writer' = [writer EXCEPT ![w].at = "acquire", ![w].index = Indexed]
    /\ UNCHANGED <<lines, endless, ledgerLock, done, answered, starts, crashes, noteVars>>

Acquire(w) ==
    /\ At(w, "acquire") /\ ledgerLock = Nil /\ ledgerLock' = w
    /\ MoveOn(w, "reload")
    /\ UNCHANGED <<lines, endless, done, answered, starts, crashes, noteVars>>

KnownFromStart(w) == writer[w].index
Known(w) == Indexed

\* write_event reloads: refused, a duplicate that returns the earlier event,
\* or a line to append.
Reload(w) ==
    /\ At(w, "reload")
    /\ IF Damaged
       THEN Stop(w) /\ ledgerLock' = Nil /\ UNCHANGED answered
       ELSE IF writer[w].event.id \in Known(w)
       THEN /\ Stop(w) /\ ledgerLock' = Nil
            /\ answered' = answered \cup
                  {e \in ToSet(lines) : e.id = writer[w].event.id}
       ELSE MoveOn(w, "append") /\ UNCHANGED <<ledgerLock, answered>>
    /\ UNCHANGED <<lines, endless, done, starts, crashes, noteVars>>

\* A file without a final newline gets one first.
Extended(e) == Append(lines, e)

\* What one write of the buffer leaves: the start of the line, or the line
\* with or without its newline.
Write(w) ==
    /\ At(w, "append") /\ MoveOn(w, "flush")
    /\ \E e \in {writer[w].event, Torn} : lines' = Extended(e)
    /\ endless' \in {TRUE, lines'[Len(lines')] = Torn}
    /\ UNCHANGED <<ledgerLock, done, answered, starts, crashes, noteVars>>

\* The rest of the line, and fsync
Flush(w) ==
    /\ At(w, "flush") /\ Stop(w) /\ ledgerLock' = Nil /\ endless' = FALSE
    /\ lines' = IF Last(lines) = Torn
                THEN [lines EXCEPT ![Len(lines)] = writer[w].event] ELSE lines
    /\ answered' = answered \cup {writer[w].event}
    /\ UNCHANGED <<done, starts, crashes, noteVars>>

-----------------------------------------------------------------------------
(* The handoff note                                                        *)

\* append_entry: under the lock the note is read, then replaced whole.
ReadNote(w) ==
    /\ drafts[w] = Nil /\ starts < MaxStarts /\ starts' = starts + 1
    /\ noteLock = Nil /\ noteLock' = w
    /\ drafts' = [drafts EXCEPT ![w] = Append(note, starts')]
    /\ UNCHANGED <<ledgerVars, crashes, note, noted>>

ReplaceNote(w) ==
    /\ drafts[w] # Nil /\ note' = drafts[w]
    /\ noted' = noted \cup {Last(drafts[w])}
    /\ drafts' = [drafts EXCEPT ![w] = Nil] /\ noteLock' = Nil
    /\ UNCHANGED <<ledgerVars, starts, crashes>>

-----------------------------------------------------------------------------

Dies(w) ==
    /\ crashes < MaxCrashes /\ crashes' = crashes + 1
    /\ ~At(w, "idle") \/ drafts[w] # Nil
    /\ Stop(w) /\ drafts' = [drafts EXCEPT ![w] = Nil]
    /\ ledgerLock' = IF ledgerLock = w THEN Nil ELSE ledgerLock
    /\ noteLock' = IF noteLock = w THEN Nil ELSE noteLock
    /\ UNCHANGED <<lines, endless, done, answered, starts, note, noted>>

FilesNext ==
    \E w \in Writers :
       \/ \E id \in Ids : Begin(w, id)
       \/ Effect(w) \/ Construct(w) \/ Acquire(w) \/ Reload(w)
       \/ Write(w) \/ Flush(w)
       \/ ReadNote(w) \/ ReplaceNote(w)
       \/ Dies(w)

FilesSpec == FilesInit /\ [][FilesNext]_fileVars

-----------------------------------------------------------------------------

\* No two lines of the ledger are the same event, whoever wrote them and
\* however old the index of the writer is (write_event).
OneEventPerId ==
    \A i, j \in DOMAIN lines :
        i # j => lines[i] = Torn \/ lines[i].id # lines[j].id

\* An event that write_event has returned stays in the file as it was, also
\* when a process has ended in the middle of a later or an earlier line.
AnsweredStay == answered \subseteq ToSet(lines)

\* An event stands for an effect that is durable: no crash leaves provenance
\* for something that has not happened (the callers of write_event).
EventHasCause == \A i \in DOMAIN lines : lines[i] = Torn \/ lines[i].id \in done

\* An entry append_entry has returned is in the note, whatever the other
\* sessions of the run write at the same time.
EntriesAreKept == noted \subseteq ToSet(note)

\* What the processes of a checkout write to the two files, dying anywhere,
\* stays.
FilesKeepEntries ==
    /\ OneEventPerId /\ AnsweredStay /\ EventHasCause /\ EntriesAreKept
================================================================================
