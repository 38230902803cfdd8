----------------------------- MODULE FrameStore -----------------------------
(***************************************************************************)
(* The immutable JPEG store of video_frame_store.c.  One arena is shared   *)
(* by two metadata slots: slot 0 grows from the front, slot 1 from the     *)
(* back.  The ingest task publishes (the copy runs without the lock),      *)
(* readers borrow the current frame by reference, and a change of mode or  *)
(* of stream clears the store at any moment.                               *)
(*                                                                         *)
(* The arena is a function from cells to the frame whose bytes they hold,  *)
(* so that an overlap of two slots shows as a borrowed frame that changes. *)
(***************************************************************************)
EXTENDS Integers, FiniteSets

CONSTANTS
  Readers,          \* tasks that borrow a frame
  Capacity,         \* cells of the arena, and the largest frame
  MaxFrames,        \* bound: frames published
  MaxClears         \* bound: clears of the store

\* What the proofs assume of the constants: a whole number of cells, frames
\* and clears, and finitely many tasks.
StoreBounds ==
  /\ Capacity \in Nat /\ MaxFrames \in Nat /\ MaxClears \in Nat
  /\ IsFiniteSet(Readers)

Slots == {0, 1}
None == -1
EmptySlot == [offset |-> 0, len |-> 0, frame |-> 0, gen |-> 0,
              refs |-> 0, valid |-> FALSE, writing |-> FALSE]

VARIABLES
  slot,      \* the two metadata slots
  current,   \* the slot readers see, or None
  gen,       \* s_store.generation
  lastId,    \* s_store.next_frame_id
  arena,     \* cell -> the frame whose byte is there, 0 when none
  writer,    \* the publication under way: its slot, generation and phase
  view       \* reader -> the view it holds, or None

storeVars == <<slot, current, gen, lastId, arena, writer, view>>

Idle == [slot |-> None, gen |-> 0, cells |-> 0]
NoView == [slot |-> None, frame |-> 0, offset |-> 0, len |-> 0]
Cells(s) == s.offset .. (s.offset + s.len - 1)

(* si_video_frame_store_init: one arena, nothing published.                *)
StoreInit ==
  /\ slot = [i \in Slots |-> EmptySlot]
  /\ current = None /\ gen = 1 /\ lastId = 0
  /\ arena = [c \in 0 .. (Capacity - 1) |-> 0]
  /\ writer = Idle
  /\ view = [r \in Readers |-> NoView]

(* slot_occupies_arena_locked.                                             *)
Occupies(i) ==
  \/ slot[i].writing \/ slot[i].refs > 0
  \/ i = current /\ slot[i].valid /\ slot[i].gen = gen

(* The place layout_slot_locked gives a frame of len cells in a slot.      *)
Offset(i, len) == IF i = 0 THEN 0 ELSE Capacity - len

(* layout_slot_locked: the frame fits beside what the other slot holds.    *)
Fits(i, len) ==
  ~Occupies(1 - i) \/ IF i = 0 THEN len <= slot[1].offset
                      ELSE Capacity - len >= slot[0].offset + slot[0].len

(* Mutant: a slot somebody still reads is taken.                           *)
WritableAnyway(i, len) == ~slot[i].writing /\ Fits(i, len)

Writable(i, len) == slot[i].refs = 0 /\ ~slot[i].writing /\ Fits(i, len)

(* select_write_slot_locked: the slot readers do not see is tried first.   *)
WriteSlot(len) ==
  LET first == IF current # None THEN 1 - current ELSE 0
  IN IF \E i \in Slots : slot[i].writing THEN None
     ELSE IF Writable(first, len) THEN first
     ELSE IF Writable(1 - first, len) THEN 1 - first ELSE None

(* The size check at the entry of publish (ESP_ERR_INVALID_SIZE).          *)
Accepted(len) == len <= Capacity

(* si_video_frame_store_publish, up to the release of the lock.            *)
PublishBegin(len) ==
  /\ writer = Idle /\ lastId < MaxFrames /\ Accepted(len)
  /\ LET t == WriteSlot(len)
     IN /\ t # None
        /\ slot' = [slot EXCEPT ![t] =
             [@ EXCEPT !.valid = FALSE, !.writing = TRUE,
                       !.offset = Offset(t, len), !.len = len]]
        /\ current' = IF t = current THEN None ELSE current
        /\ writer' = [slot |-> t, gen |-> gen, cells |-> 0]
  /\ UNCHANGED <<gen, lastId, arena, view>>

(* The memmove, one cell at a time: readers run between two cells.         *)
PublishCopy ==
  /\ writer # Idle /\ writer.cells < slot[writer.slot].len
  /\ arena' = [arena EXCEPT
       ![slot[writer.slot].offset + writer.cells] = lastId + 1]
  /\ writer' = [writer EXCEPT !.cells = @ + 1]
  /\ UNCHANGED <<slot, current, gen, lastId, view>>

(* The end of publish: a clear meanwhile drops the copy, else the frame    *)
(* becomes the current one and an unread predecessor is forgotten.         *)
PublishEnd ==
  /\ writer # Idle /\ writer.cells = slot[writer.slot].len
  /\ LET t == writer.slot
         dropped == [slot EXCEPT ![t] =
           [@ EXCEPT !.writing = FALSE, !.valid = FALSE, !.len = 0]]
         published == [slot EXCEPT ![t] =
           [@ EXCEPT !.frame = lastId + 1, !.gen = writer.gen,
                     !.valid = TRUE, !.writing = FALSE]]
         forgotten(i) == i = current /\ i # t /\ slot[i].refs = 0
     IN IF writer.gen # gen
        THEN slot' = dropped /\ UNCHANGED <<current, lastId>>
        ELSE /\ slot' = [i \in Slots |->
                  IF forgotten(i)
                  THEN [published[i] EXCEPT !.valid = FALSE, !.len = 0]
                  ELSE published[i]]
             /\ current' = t
             /\ lastId' = lastId + 1
  /\ writer' = Idle
  /\ UNCHANGED <<gen, arena, view>>

(* si_video_frame_store_acquire: the current frame, unless the reader had  *)
(* it last.                                                                *)
Acquire(r) ==
  /\ view[r].slot = None /\ current # None
  /\ LET s == slot[current]
     IN /\ s.valid /\ ~s.writing /\ s.gen = gen /\ s.len > 0
        /\ view[r].frame # s.frame
        /\ view' = [view EXCEPT ![r] =
             [slot |-> current, frame |-> s.frame, offset |-> s.offset,
              len |-> s.len]]
        /\ slot' = [slot EXCEPT ![current].refs = @ + 1]
  /\ UNCHANGED <<current, gen, lastId, arena, writer>>

(* si_video_frame_store_release: the last reader of a frame that is no     *)
(* longer shown frees its slot.  The reader remembers the frame's number.  *)
Release(r) ==
  /\ view[r].slot # None
  /\ LET i == view[r].slot
         s == [slot[i] EXCEPT !.refs = @ - 1]
         over == s.refs = 0 /\ (i # current \/ s.gen # gen \/ ~s.valid)
     IN slot' = [slot EXCEPT ![i] =
          IF over THEN [s EXCEPT !.valid = FALSE, !.len = 0] ELSE s]
  /\ view' = [view EXCEPT ![r].slot = None]
  /\ UNCHANGED <<current, gen, lastId, arena, writer>>

(* si_video_frame_store_clear: readers see nothing any more, but a frame   *)
(* that is read or written keeps its place.                                *)
Clear ==
  /\ gen <= MaxClears
  /\ gen' = gen + 1
  /\ current' = None
  /\ slot' = [i \in Slots |->
       IF slot[i].refs = 0 /\ ~slot[i].writing
       THEN [slot[i] EXCEPT !.valid = FALSE, !.len = 0] ELSE slot[i]]
  /\ UNCHANGED <<lastId, arena, writer, view>>

(* si_video_frame_store_copy, si_video_acquire_jpeg and the HTTP senders   *)
(* are an Acquire, a copy of the bytes and a Release.                      *)
StoreNext ==
  \/ \E len \in 1 .. (Capacity + 1) : PublishBegin(len)
  \/ PublishCopy \/ PublishEnd
  \/ \E r \in Readers : Acquire(r) \/ Release(r)
  \/ Clear

StoreSpec ==
  /\ StoreInit /\ [][StoreNext]_storeVars
  /\ WF_storeVars(PublishCopy \/ PublishEnd)
  /\ \A r \in Readers : WF_storeVars(Release(r))

(***************************************************************************)
(* Properties                                                              *)
(***************************************************************************)
Holds(r) == view[r].slot # None

(* Every field of the store has its type.                                  *)
StoreTypeOK ==
  /\ slot \in [Slots -> [offset : 0 .. Capacity, len : 0 .. Capacity,
                         frame : 0 .. MaxFrames, gen : 0 .. (MaxClears + 1),
                         refs : 0 .. Cardinality(Readers),
                         valid : BOOLEAN, writing : BOOLEAN]]
  /\ current \in Slots \cup {None}
  /\ lastId \in 0 .. MaxFrames /\ gen \in 1 .. (MaxClears + 1)

(* The bytes a reader borrowed stay those of its frame until it releases   *)
(* them, whatever is published or cleared meanwhile (the view is sent to a *)
(* socket without any lock).                                               *)
BorrowedBytesStay ==
  \A r \in Readers : Holds(r) =>
    \A c \in Cells(view[r]) : arena[c] = view[r].frame

(* The frame a reader could borrow now is complete: no cell of it belongs  *)
(* to an older or a half-copied frame.                                     *)
ShownFrameIsWhole ==
  current # None /\ slot[current].valid =>
    /\ slot[current].gen = gen
    /\ \A c \in Cells(slot[current]) : arena[c] = slot[current].frame

(* Each slot counts exactly the readers that hold it: a lost reference     *)
(* would block the slot, a surplus one would free bytes that are read.     *)
ReferencesAreCounted ==
  \A i \in Slots :
    slot[i].refs = Cardinality({r \in Readers : view[r].slot = i})

(* What the store promises in every state: a frame a reader borrowed keeps *)
(* its bytes until it is released, the frame that is offered is whole, and *)
(* references are counted.                                                 *)
StoredFrameIsWhole ==
  /\ StoreTypeOK /\ BorrowedBytesStay /\ ShownFrameIsWhole
  /\ ReferencesAreCounted

(* A reader never gets an older frame than the one it had before, and      *)
(* never the same one twice (borrow_jpeg_if_new).                          *)
FramesAdvance ==
  \A r \in Readers : ~Holds(r) /\ Holds(r)' => view'[r].frame > view[r].frame

(* A frame of any accepted size can be published: once the readers         *)
(* released, the space of an abandoned slot is not lost (MCVideo).         *)
Accepts == writer = Idle /\ \A len \in 1 .. Capacity : WriteSlot(len) # None
=============================================================================
