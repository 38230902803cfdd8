------------------------------ MODULE EventStore ------------------------------
(***************************************************************************)
(* The hash-chained event journal TASKS.LOG                                *)
(* (main/infrastructure/agent_event_store.c).  The file is a sequence of   *)
(* records; a record whose newline is missing is torn, one that decayed on *)
(* the card is bad.  A hash stands for what it is computed from, so the    *)
(* hash of a record is the sequence of all events up to it.  One append is *)
(* split where a reset or an I/O error can fall; the mutex keeps all other *)
(* operations out (they time out after 250 ms and change nothing).         *)
(***************************************************************************)
EXTENDS Naturals, Sequences, SequencesExt

CONSTANTS
  Events,
  JournalMax,   \* SI_AGENT_EVENT_JOURNAL_MAX_BYTES, two units per record
  MaxDamage     \* bound: records that decay

\* What the parameters are.
JournalBounds == JournalMax \in Nat /\ MaxDamage \in Nat

VARIABLES
  file,       \* the records on the card
  mounted,    \* si_storage_get_tf_status
  ready,      \* s_event_store_ready
  cursor,     \* s_event_store_latest_seq, _latest_hash and _file_bytes
  writing,    \* the append that holds the mutex
  known,      \* history: what was acknowledged or handed out by a recovery
  lost,       \* history: an unacknowledged event that may be on the card
  damage

storeVars ==
  <<file, mounted, ready, cursor, writing, known, lost, damage>>

NoCursor == [seq |-> 0, hash |-> <<>>, bytes |-> 0]
NoWrite == [at |-> "none", ev |-> <<>>]

\* st_size: a torn record is shorter than a whole one.
FileBytes(f) ==
  2 * Len(f) - (IF f # <<>> /\ Last(f).state = "torn" THEN 1 ELSE 0)

\* event_hash_compute: over the previous hash and the event.
EventHash(previous, e) == Append(previous, e)

\* add_envelope_fields: the record an append writes.
Envelope(c, e) ==
  [seq |-> c.seq + 1, previous |-> c.hash, ev |-> e, state |-> "whole"]

\* parse_and_verify_record: sequence, link and hash of record i.
Verified(f, i) ==
  /\ f[i].state = "whole" /\ f[i].seq = i
  /\ f[i].previous = [j \in 1..(i - 1) |-> f[j].ev]

\* scan_locked: the verified records up to the first fault, and the fault.
ValidCount(f) ==
  CHOOSE n \in 0..Len(f) :
    /\ \A i \in 1..n : Verified(f, i)
    /\ n = Len(f) \/ ~Verified(f, n + 1)
ScanLocked(f) ==
  LET n == ValidCount(f)
  IN [status |-> IF n = Len(f) THEN IF n = 0 THEN "empty" ELSE "clean"
                 ELSE IF n + 1 = Len(f) /\ f[n + 1].state = "torn"
                 THEN "tail_truncated" ELSE "corrupt",
      valid |-> SubSeq(f, 1, n)]
EventsOf(f) == [i \in DOMAIN f |-> f[i].ev]

CursorOf(f) ==
  [seq |-> Len(f), hash |-> EventsOf(f), bytes |-> FileBytes(f)]

StoreInit ==
  /\ file = <<>> /\ mounted = TRUE /\ ready = FALSE /\ cursor = NoCursor
  /\ writing = NoWrite /\ known = <<>> /\ lost = <<>> /\ damage = 0

-----------------------------------------------------------------------------
\* Mutant: a corrupt record is cut off like an unterminated one.
RecoverStoreRepairsAll ==
  LET s == ScanLocked(file)
  IN /\ writing = NoWrite /\ mounted
     /\ file' = s.valid /\ cursor' = CursorOf(s.valid) /\ ready' = TRUE
     /\ known' = EventsOf(s.valid) /\ lost' = <<>>
     /\ UNCHANGED <<mounted, writing, damage>>

\* si_agent_event_store_recover, which si_agent_event_store_init calls too:
\* an unterminated tail is cut off, any other fault leaves the store closed.
\* ensure_store_ready_locked refuses without a card, and the truncate may
\* fail.
RecoverStore ==
  LET s == ScanLocked(file)
  IN /\ writing = NoWrite /\ mounted
     /\ s.status # "corrupt"
     /\ file' = s.valid /\ cursor' = CursorOf(s.valid) /\ ready' = TRUE
     /\ known' = EventsOf(s.valid) /\ lost' = <<>>
     /\ UNCHANGED <<mounted, writing, damage>>

RecoverFails ==
  /\ writing = NoWrite
  /\ ~mounted \/ ScanLocked(file).status \in {"corrupt", "tail_truncated"}
  /\ ready' = FALSE
  /\ UNCHANGED <<file, mounted, cursor, writing, known, lost, damage>>

\* si_agent_event_store_append, up to the size check: the file must have the
\* size the cursor says, and the record must fit.
StartAppend(e) ==
  /\ writing = NoWrite /\ ready
  /\ IF mounted /\ FileBytes(file) = cursor.bytes
     THEN cursor.bytes + 2 <= JournalMax /\ writing' = [at |-> "write", ev |-> e]
          /\ UNCHANGED ready
     ELSE ready' = FALSE /\ UNCHANGED writing
  /\ UNCHANGED <<file, mounted, cursor, known, lost, damage>>

\* fwrite and fflush put the record, or a part of it, on the card.
WriteRecord ==
  /\ writing.at = "write" /\ mounted
  /\ \E state \in {"whole", "torn"} :
       /\ file' = Append(file, [Envelope(cursor, writing.ev) EXCEPT !.state = state])
       /\ writing' = [writing EXCEPT !.at = IF state = "whole" THEN "sync" ELSE "undo"]
  /\ UNCHANGED <<mounted, ready, cursor, known, lost, damage>>

\* fsync and fclose succeed: only now does the cursor move and the caller
\* learn that the event is durable.
SyncRecord ==
  /\ writing.at = "sync"
  /\ cursor' = [seq |-> cursor.seq + 1,
                hash |-> EventHash(cursor.hash, writing.ev),
                bytes |-> FileBytes(file)]
  /\ writing' = NoWrite /\ known' = Append(known, writing.ev)
  /\ UNCHANGED <<file, mounted, ready, lost, damage>>

\* fwrite, fflush, fsync or fclose fails.
SyncFails ==
  /\ writing.at \in {"write", "sync"}
  /\ writing' = [writing EXCEPT !.at = "undo"]
  /\ UNCHANGED <<file, mounted, ready, cursor, known, lost, damage>>

\* Mutant: a file that could not be cut back leaves the store open.
UndoRecordStaysOpen ==
  /\ writing.at = "undo"
  /\ \/ mounted /\ file' = SubSeq(file, 1, cursor.seq) /\ UNCHANGED lost
     \/ UNCHANGED file /\ lost' = <<writing.ev>>
  /\ writing' = NoWrite
  /\ UNCHANGED <<mounted, ready, cursor, known, damage>>

\* The failed append cuts the file back to the size it had; if that fails too
\* the store closes until the next recovery.
UndoRecord ==
  /\ writing.at = "undo"
  /\ \/ /\ mounted /\ file' = SubSeq(file, 1, cursor.seq)
        /\ UNCHANGED <<ready, lost>>
     \/ /\ UNCHANGED file /\ ready' = FALSE
        /\ lost' = <<writing.ev>>
  /\ writing' = NoWrite
  /\ UNCHANGED <<mounted, cursor, known, damage>>

\* si_agent_event_store_replay: a fault, or a cursor that moved, is an error;
\* a fault closes the store.
Replay ==
  /\ writing = NoWrite /\ ready
  /\ ready' = (mounted /\ ScanLocked(file).status \in {"clean", "empty"})
  /\ UNCHANGED <<file, mounted, cursor, writing, known, lost, damage>>

\* A reset: what was being written is on the card whole, in part or not.
Crash ==
  /\ ready' = FALSE /\ cursor' = NoCursor /\ writing' = NoWrite
  /\ IF writing = NoWrite THEN UNCHANGED <<file, lost>>
     ELSE /\ \/ UNCHANGED file
             \/ file' = SubSeq(file, 1, cursor.seq)
             \/ /\ Len(file) > cursor.seq
                /\ file' = [file EXCEPT ![Len(file)].state = "torn"]
          /\ lost' = <<writing.ev>>
  /\ UNCHANGED <<mounted, known, damage>>

\* The card is pulled or put back, and a record decays.
Remount == mounted' = ~mounted
           /\ UNCHANGED <<file, ready, cursor, writing, known, lost, damage>>
Decay ==
  /\ damage < MaxDamage /\ writing = NoWrite
  /\ \E i \in DOMAIN file :
       file[i].state = "whole" /\ file' = [file EXCEPT ![i].state = "bad"]
  /\ damage' = damage + 1
  /\ UNCHANGED <<mounted, ready, cursor, writing, known, lost>>

StoreNext ==
  \/ \E e \in Events : StartAppend(e)
  \/ WriteRecord \/ SyncRecord \/ SyncFails \/ UndoRecord
  \/ RecoverStore \/ RecoverFails \/ Replay \/ Crash \/ Remount \/ Decay

StoreSpec == StoreInit /\ [][StoreNext]_storeVars

-----------------------------------------------------------------------------
\* Types: one unfinished record at most, and only at the end of the file.
StoreTypeOK ==
  /\ mounted \in BOOLEAN /\ ready \in BOOLEAN /\ damage \in 0..MaxDamage
  /\ writing.at \in {"none", "write", "sync", "undo"}
  /\ FileBytes(file) <= JournalMax
  /\ \A i \in DOMAIN file : file[i].state \in {"whole", "torn", "bad"}
  /\ \A i \in 1..(Len(file) - 1) : file[i].state # "torn"

\* No run of write errors, failed undos, resets and recoveries drops or
\* reorders an event somebody was told is durable: they are the first records
\* of the file, and at most one more is behind them.
AcknowledgedIsStored ==
  /\ Len(known) <= Len(file) /\ Len(file) <= Len(known) + 1
  /\ \A i \in DOMAIN known : file[i].ev = known[i] /\ file[i].seq = i
  /\ Len(file) = Len(known) + 1 => file[Len(file)].ev \in {writing.ev} \cup Range(lost)

\* A store that is open and not in an append agrees with its file: the next
\* record gets the number and the link the next scan will ask for.
OpenStoreMatchesFile ==
  ready /\ writing = NoWrite =>
    /\ cursor = [CursorOf(file) EXCEPT !.bytes = cursor.bytes]
    /\ cursor.hash = known

\* The three together.
RecordsAreKept == StoreTypeOK /\ AcknowledgedIsStored /\ OpenStoreMatchesFile

-----------------------------------------------------------------------------
\* The log as its users see it.
Log == INSTANCE DurableLog WITH log <- known, limbo <- lost, serving <- ready

\* What was acknowledged is neither lost nor reordered by write errors, failed
\* undos, card changes, resets and recoveries, and an append nobody was told
\* about is decided once.
ImplementsDurableLog == Log!LogSpec
===============================================================================
