--------------------------- MODULE FrameStoreProofs -------------------------
(***************************************************************************)
(* The frame store keeps borrowed bytes, offers whole frames and counts    *)
(* its readers, for any arena, any number of readers, frames and clears.   *)
(* The inductive invariant is about the arena: the slots that occupy it    *)
(* lie apart, a slot that is not being written holds the bytes of its      *)
(* frame, and the writer has its slot for itself.                          *)
(***************************************************************************)
EXTENDS FrameStore, FiniteSetTheorems, TLAPS

SlotType == [offset : 0 .. Capacity, len : 0 .. Capacity,
             frame : 0 .. MaxFrames, gen : 0 .. (MaxClears + 1),
             refs : Nat, valid : BOOLEAN, writing : BOOLEAN]
WriterType == [slot : Slots \cup {None}, gen : 0 .. (MaxClears + 1),
               cells : Nat]
ViewType == [slot : Slots \cup {None}, frame : 0 .. MaxFrames,
             offset : 0 .. Capacity, len : 0 .. Capacity]

\* The full types of the variables.
Types ==
  /\ slot \in [Slots -> SlotType]
  /\ current \in Slots \cup {None}
  /\ lastId \in 0 .. MaxFrames /\ gen \in 1 .. (MaxClears + 1)
  /\ arena \in [0 .. (Capacity - 1) -> Nat]
  /\ writer \in WriterType
  /\ view \in [Readers -> ViewType]

\* A slot whose place nobody else may take.
InUse(i) == slot[i].writing \/ slot[i].refs > 0 \/ i = current

\* Slot 0 lies at the front, slot 1 at the back; two that are in use lie apart.
SlotsLieApart ==
  /\ slot[0].offset = 0
  /\ slot[1].len = 0 \/ slot[1].offset = Capacity - slot[1].len
  /\ InUse(0) /\ InUse(1) => slot[0].len <= slot[1].offset

\* The slot being written is the writer's: nobody reads it or is shown it, and
\* the cells copied so far are those of the next frame.
WriterIsAlone ==
  /\ \A i \in Slots : slot[i].writing <=> writer.slot = i
  /\ writer.slot = None => writer = Idle
  /\ writer.slot # None =>
       /\ slot[writer.slot].refs = 0 /\ writer.slot # current
       /\ slot[writer.slot].len > 0
       /\ writer.cells <= slot[writer.slot].len /\ lastId < MaxFrames
       /\ \A c \in slot[writer.slot].offset ..
                     (slot[writer.slot].offset + writer.cells - 1) :
            arena[c] = lastId + 1

\* A slot that is in use and not being written holds its frame.
SlotsAreWhole ==
  \A i \in Slots : InUse(i) /\ ~slot[i].writing =>
    \A c \in Cells(slot[i]) : arena[c] = slot[i].frame

\* The frame that is shown is the last one published.
ShownIsLast ==
  current # None =>
    /\ slot[current].valid /\ slot[current].gen = gen
    /\ slot[current].frame = lastId

\* A reader that holds a frame holds what its slot says, and remembers no
\* frame that has not been published.
ViewsAreOfSlots ==
  \A r \in Readers :
    /\ view[r].frame <= lastId
    /\ Holds(r) =>
         LET s == slot[view[r].slot]
         IN view[r].frame = s.frame /\ view[r].offset = s.offset
              /\ view[r].len = s.len

Inv == /\ Types /\ SlotsLieApart /\ WriterIsAlone /\ SlotsAreWhole
       /\ ShownIsLast /\ ViewsAreOfSlots /\ ReferencesAreCounted

\* The invariant holds initially (si_video_frame_store_init).
LEMMA InitIsSafe == ASSUME StoreBounds, StoreInit PROVE Inv
<1> USE DEF StoreBounds, StoreInit, Slots, None
<1>1. Types
  BY DEF Types, SlotType, WriterType, ViewType, EmptySlot, Idle, NoView
<1>2. SlotsLieApart
  BY DEF SlotsLieApart, EmptySlot, InUse
<1>3. WriterIsAlone
  BY DEF WriterIsAlone, EmptySlot, Idle
<1>4. SlotsAreWhole
  BY DEF SlotsAreWhole, EmptySlot, InUse
<1>5. ShownIsLast
  BY DEF ShownIsLast
<1>6. ViewsAreOfSlots
  BY DEF ViewsAreOfSlots, NoView, Holds
<1>7. ReferencesAreCounted
  <2> SUFFICES ASSUME NEW i \in Slots
               PROVE slot[i].refs = Cardinality({r \in Readers : view[r].slot = i})
    BY DEF ReferencesAreCounted
  <2>1. {r \in Readers : view[r].slot = i} = {}
    BY DEF NoView
  <2>2. slot[i].refs = 0
    BY DEF EmptySlot
  <2> QED BY <2>1, <2>2, FS_EmptySet
<1> QED BY <1>1, <1>2, <1>3, <1>4, <1>5, <1>6, <1>7 DEF Inv

\* A slot that a reader holds has a reference, one without has no reader.
LEMMA HeldHasReference ==
  ASSUME StoreBounds, Types, ReferencesAreCounted, NEW r \in Readers, Holds(r)
  PROVE  view[r].slot \in Slots /\ slot[view[r].slot].refs > 0
<1> DEFINE i == view[r].slot
           S == {q \in Readers : view[q].slot = i}
<1>1. i \in Slots
  BY DEF Types, ViewType, Holds, None
<1>2. IsFiniteSet(S) /\ S # {}
  BY FS_Subset DEF StoreBounds
<1>3. Cardinality(S) \in Nat /\ Cardinality(S) # 0
  BY <1>2, FS_EmptySet, FS_CardinalityType
<1>4. slot[i].refs = Cardinality(S)
  BY <1>1 DEF ReferencesAreCounted
<1> QED BY <1>1, <1>3, <1>4

\* References stay counted as long as neither they nor the views' slots change.
LEMMA CountStays ==
  ASSUME ReferencesAreCounted, view' = view,
         \A i \in Slots : slot'[i].refs = slot[i].refs
  PROVE  ReferencesAreCounted'
BY DEF ReferencesAreCounted

\* A slot whose frame is forgotten keeps everything but its length.
LEMMA ForgottenSlot ==
  ASSUME StoreBounds, NEW s \in SlotType, NEW f,
         f = [s EXCEPT !.valid = FALSE, !.len = 0]
  PROVE  /\ f \in SlotType /\ f.len = 0 /\ f.refs = s.refs
         /\ f.offset = s.offset /\ f.writing = s.writing
         /\ f.frame = s.frame /\ f.gen = s.gen
<1>1. 0 \in 0 .. Capacity
  BY DEF StoreBounds
<1> QED BY <1>1 DEF SlotType

\* publish, up to the release of the lock: the slot it takes is nobody's and
\* lies apart from the other one.
LEMMA PublishBeginIsSafe ==
  ASSUME StoreBounds, Inv, NEW len \in 1 .. (Capacity + 1), PublishBegin(len)
  PROVE  Inv'
<1> DEFINE t == WriteSlot(len)
<1> USE DEF Inv, StoreBounds
<1>0. /\ writer.slot = None /\ lastId < MaxFrames /\ len \in 1 .. Capacity
      /\ \A i \in Slots : ~slot[i].writing
  BY DEF PublishBegin, Idle, WriterIsAlone, Accepted, Types, None, Slots
<1>1. t \in Slots /\ Writable(t, len)
  <2> DEFINE first == IF current # None THEN 1 - current ELSE 0
  <2>1. first \in Slots /\ 1 - first \in Slots
    BY DEF Types, Slots, None
  <2>2. t # None /\ t = (IF Writable(first, len) THEN first
                         ELSE IF Writable(1 - first, len) THEN 1 - first ELSE None)
    BY <1>0 DEF PublishBegin, WriteSlot
  <2> HIDE DEF t, first
  <2> QED  BY <2>1, <2>2
<1>2. /\ slot' = [slot EXCEPT ![t] =
           [@ EXCEPT !.valid = FALSE, !.writing = TRUE,
                     !.offset = Offset(t, len), !.len = len]]
      /\ current' = IF t = current THEN None ELSE current
      /\ writer' = [slot |-> t, gen |-> gen, cells |-> 0]
      /\ UNCHANGED <<gen, lastId, arena, view>>
  BY DEF PublishBegin
<1>3. /\ slot'[t] = [slot[t] EXCEPT !.valid = FALSE, !.writing = TRUE,
                              !.offset = Offset(t, len), !.len = len]
      /\ \A i \in Slots : i # t => slot'[i] = slot[i]
  BY <1>1, <1>2 DEF Types
<1>4. slot'[t].writing /\ slot'[t].offset = Offset(t, len)
      /\ slot'[t].len = len /\ slot'[t].refs = 0
      /\ slot'[t].frame = slot[t].frame
  BY <1>1, <1>3 DEF Types, SlotType, Writable
<1>5. Offset(t, len) \in 0 .. Capacity
  BY <1>0, <1>1 DEF Offset
<1> HIDE DEF t
<1>6. Types'
  <2>1. slot'[t] \in SlotType
    <3>1. slot[t] \in SlotType
      BY <1>1 DEF Types
    <3>2. len \in 0 .. Capacity
      BY <1>0
    <3> QED BY <1>3, <1>5, <3>1, <3>2 DEF SlotType
  <2>2. slot' \in [Slots -> SlotType]
    BY <1>1, <1>2, <1>3, <2>1 DEF Types
  <2>3. writer' \in WriterType /\ current' \in Slots \cup {None}
    BY <1>1, <1>2 DEF Types, WriterType
  <2> QED BY <1>2, <2>2, <2>3 DEF Types
<1>7. current' # t /\ (current' # None => current' = current)
  BY <1>1, <1>2 DEF Slots, None
<1>8. ASSUME NEW i \in Slots, i # t
      PROVE  (InUse(i)' => InUse(i)) /\ slot'[i] = slot[i]
  BY <1>3, <1>7, <1>8 DEF InUse, Slots, None
<1>9. SlotsLieApart'
  <2>1. InUse(1 - t) => Occupies(1 - t)
    BY <1>1 DEF InUse, Occupies, ShownIsLast, Slots, None
  <2>2. CASE t = 0
    <3>1. slot'[0].offset = 0 /\ slot'[0].len = len /\ slot'[1] = slot[1]
      <4>1. slot'[1] = slot[1]
        BY <1>8, <2>2 DEF Slots
      <4> QED BY <1>4, <2>2, <4>1 DEF Offset
    <3>2. InUse(1)' => len <= slot[1].offset
      BY <1>1, <1>8, <2>1, <2>2 DEF Writable, Fits, Slots
    <3> QED BY <3>1, <3>2 DEF SlotsLieApart
  <2>3. CASE t = 1
    <3>1. /\ slot'[1].offset = Capacity - len /\ slot'[1].len = len
          /\ slot'[0] = slot[0]
      <4>1. slot'[0] = slot[0]
        BY <1>8, <2>3 DEF Slots
      <4> QED BY <1>4, <2>3, <4>1 DEF Offset
    <3>2. InUse(0)' => Capacity - len >= slot[0].offset + slot[0].len
      BY <1>1, <1>8, <2>1, <2>3 DEF Writable, Fits, Slots
    <3>3. slot[0].offset = 0 /\ slot[0].len \in Nat
      BY DEF SlotsLieApart, Types, SlotType, Slots
    <3> QED BY <1>0, <3>1, <3>2, <3>3 DEF SlotsLieApart
  <2> QED BY <1>1, <2>2, <2>3 DEF Slots
<1>10. WriterIsAlone'
  <2>1. writer'.slot = t /\ writer'.cells = 0 /\ t # None
    BY <1>1, <1>2 DEF Slots, None
  <2>2. \A i \in Slots : slot'[i].writing <=> writer'.slot = i
    BY <1>0, <1>3, <1>4, <2>1
  <2>3. slot'[t].offset .. (slot'[t].offset + 0 - 1) = {}
    BY <1>4, <1>5
  <2>4. \A c \in slot'[t].offset .. (slot'[t].offset + writer'.cells - 1) :
          arena'[c] = lastId' + 1
    BY <2>1, <2>3
  <2>5. /\ slot'[t].refs = 0 /\ t # current' /\ slot'[t].len > 0
        /\ writer'.cells <= slot'[t].len /\ lastId' < MaxFrames
    BY <1>0, <1>2, <1>4, <1>7, <2>1
  <2> QED BY <2>1, <2>2, <2>4, <2>5 DEF WriterIsAlone
<1>11. SlotsAreWhole'
  <2> SUFFICES ASSUME NEW i \in Slots, InUse(i)', ~slot'[i].writing
               PROVE  \A c \in Cells(slot'[i]) : arena'[c] = slot'[i].frame
    BY DEF SlotsAreWhole, Cells
  <2>1. i # t
    BY <1>4
  <2>2. InUse(i) /\ slot'[i] = slot[i]
    BY <1>8, <2>1
  <2> QED BY <1>2, <2>2 DEF SlotsAreWhole
<1>12. ShownIsLast'
  BY <1>2, <1>3, <1>7 DEF ShownIsLast, Types, Slots
<1>13. ViewsAreOfSlots'
  <2>1. slot[t].refs = 0
    BY <1>1 DEF Writable
  <2>2. ASSUME NEW r \in Readers, Holds(r)
        PROVE  slot'[view[r].slot] = slot[view[r].slot]
    BY <1>3, <2>1, <2>2, HeldHasReference
  <2> QED BY <1>2, <2>2 DEF ViewsAreOfSlots, Holds
<1>14. ReferencesAreCounted'
  BY <1>1, <1>2, <1>3, <1>4, CountStays DEF Writable
<1> QED BY <1>6, <1>9, <1>10, <1>11, <1>12, <1>13, <1>14

\* The copy of one cell: it falls into the writer's slot, where nobody reads.
LEMMA PublishCopyIsSafe ==
  ASSUME StoreBounds, Inv, PublishCopy PROVE Inv'
<1> DEFINE t == writer.slot
           at == slot[t].offset + writer.cells
<1> USE DEF Inv, StoreBounds
<1>1. /\ t \in Slots /\ slot[t].writing /\ writer.cells < slot[t].len
      /\ slot[t].offset \in Nat /\ slot[t].len \in Nat /\ writer.cells \in Nat
      /\ slot[t].offset + slot[t].len <= Capacity
  <2>1. t \in Slots
    BY DEF PublishCopy, WriterIsAlone, Types, WriterType
  <2>2. slot[t] \in SlotType /\ writer \in WriterType
    BY <2>1 DEF Types
  <2>3. slot[t].writing /\ writer.cells < slot[t].len
    BY <2>1 DEF PublishCopy, WriterIsAlone
  <2>4. slot[t].offset + slot[t].len <= Capacity
    BY <2>1, <2>2, <2>3 DEF SlotsLieApart, Slots, SlotType, WriterType
  <2> QED BY <2>1, <2>2, <2>3, <2>4 DEF SlotType, WriterType
<1>2. /\ arena' = [arena EXCEPT ![at] = lastId + 1]
      /\ writer' = [writer EXCEPT !.cells = @ + 1]
      /\ UNCHANGED <<slot, current, gen, lastId, view>>
  BY DEF PublishCopy
<1>3. /\ writer'.slot = t /\ writer'.cells = writer.cells + 1
      /\ writer'.gen = writer.gen
  BY <1>2 DEF Types, WriterType
<1>4. at \in 0 .. (Capacity - 1)
  BY <1>1
<1> HIDE DEF at, t
<1>5. arena'[at] = lastId + 1 /\ arena' \in [0 .. (Capacity - 1) -> Nat]
      /\ \A c \in 0 .. (Capacity - 1) : c # at => arena'[c] = arena[c]
  BY <1>2, <1>4 DEF Types
<1>6. Types'
  <2>1. writer' \in WriterType
    BY <1>2 DEF Types, WriterType
  <2> QED BY <1>2, <1>5, <2>1 DEF Types
<1>7. SlotsLieApart' /\ ShownIsLast' /\ ViewsAreOfSlots'
  BY <1>2 DEF SlotsLieApart, ShownIsLast, ViewsAreOfSlots, InUse, Holds
<1>8. ReferencesAreCounted'
  BY <1>2, CountStays
<1>9. WriterIsAlone'
  <2>1. \A c \in slot[t].offset .. (slot[t].offset + writer.cells - 1) :
          arena[c] = lastId + 1 /\ c # at /\ c \in 0 .. (Capacity - 1)
    BY <1>1, <1>3 DEF WriterIsAlone, at, t, Slots, None
  <2>2. \A c \in slot[t].offset .. (slot[t].offset + writer'.cells - 1) :
          arena'[c] = lastId + 1
    <3> SUFFICES ASSUME NEW c \in
                         slot[t].offset .. (slot[t].offset + writer'.cells - 1)
                 PROVE  arena'[c] = lastId + 1
      OBVIOUS
    <3>1. at = slot[t].offset + writer.cells
      BY DEF at, t
    <3>2. CASE c = at
      BY <1>5, <3>2
    <3>3. CASE c # at
      <4>1. c \in slot[t].offset .. (slot[t].offset + writer.cells - 1)
        BY <1>1, <1>3, <3>1, <3>3
      <4> QED BY <1>5, <2>1, <3>3, <4>1
    <3> QED BY <3>2, <3>3
  <2>3. t # None /\ writer.slot = t
    BY <1>1 DEF Slots, None, t
  <2>4. /\ slot[t].refs = 0 /\ t # current /\ slot[t].len > 0
        /\ lastId < MaxFrames
    BY <2>3 DEF WriterIsAlone
  <2>5. \A i \in Slots : slot'[i].writing <=> writer'.slot = i
    BY <1>2, <1>3, <2>3 DEF WriterIsAlone
  <2>6. writer'.cells <= slot[t].len
    BY <1>1, <1>3
  <2> QED BY <1>2, <1>3, <2>2, <2>3, <2>4, <2>5, <2>6 DEF WriterIsAlone
<1>10. SlotsAreWhole'
  <2> SUFFICES ASSUME NEW i \in Slots, InUse(i)', ~slot'[i].writing,
                      NEW c \in Cells(slot'[i])
               PROVE  arena'[c] = slot'[i].frame
    BY DEF SlotsAreWhole
  <2>1. i # t /\ InUse(i) /\ InUse(t) /\ c \in Cells(slot[i])
    BY <1>1, <1>2 DEF InUse
  <2>2. slot[i] \in SlotType
    BY DEF Types
  <2>3. c # at /\ c \in 0 .. (Capacity - 1)
    <3>1. CASE i = 0 /\ t = 1
      BY <1>1, <2>1, <2>2, <3>1 DEF SlotsLieApart, Cells, SlotType, at
    <3>2. CASE i = 1 /\ t = 0
      BY <1>1, <2>1, <2>2, <3>2 DEF SlotsLieApart, Cells, SlotType, at
    <3> QED BY <1>1, <2>1, <3>1, <3>2 DEF Slots
  <2>4. arena[c] = slot[i].frame
    BY <1>2, <2>1 DEF SlotsAreWhole
  <2> QED BY <1>2, <1>5, <2>3, <2>4
<1> QED BY <1>6, <1>7, <1>8, <1>9, <1>10

\* The end of publish: the copy is dropped, or becomes the frame that is shown.
LEMMA PublishEndIsSafe ==
  ASSUME StoreBounds, Inv, PublishEnd PROVE Inv'
<1> USE DEF Inv, StoreBounds
<1>t. PICK t \in Slots : t = writer.slot
  BY DEF PublishEnd, WriterIsAlone, Types, WriterType
<1>p. PICK o \in Slots : o = 1 - t
  BY DEF Slots
<1>1. /\ t \in Slots /\ o \in Slots /\ o # t /\ t # None
      /\ \A i \in Slots : i = t \/ i = o
      /\ slot[t] \in SlotType /\ slot[o] \in SlotType /\ writer \in WriterType
  BY <1>p DEF Types, Slots, None
<1>2. /\ slot[t].writing /\ writer.cells = slot[t].len /\ slot[t].refs = 0
      /\ t # current /\ lastId < MaxFrames /\ ~slot[o].writing
      /\ slot[t].len > 0
      /\ \A c \in Cells(slot[t]) : arena[c] = lastId + 1
  <2>1. ~slot[o].writing /\ slot[t].writing
    BY <1>t, <1>1 DEF WriterIsAlone
  <2>2. writer.cells = slot[t].len
    BY <1>t DEF PublishEnd
  <2> QED BY <1>t, <1>1, <2>1, <2>2 DEF WriterIsAlone, Cells
<1>3. writer' = Idle /\ UNCHANGED <<gen, arena, view>>
  BY DEF PublishEnd
<1>4. \A r \in Readers : Holds(r) => view[r].slot = o /\ slot[o].refs > 0
  BY <1>1, <1>2, HeldHasReference
<1>o. /\ (t = 0 /\ o = 1) \/ (t = 1 /\ o = 0)
      /\ InUse(t) /\ 0 \in 0 .. Capacity
  BY <1>p, <1>2 DEF Slots, InUse
<1>5. CASE writer.gen # gen
  <2>1. /\ slot' = [slot EXCEPT ![t] =
             [@ EXCEPT !.writing = FALSE, !.valid = FALSE, !.len = 0]]
        /\ UNCHANGED <<current, lastId>>
    BY <1>t, <1>5 DEF PublishEnd
  <2>2. /\ slot'[t] = [slot[t] EXCEPT !.writing = FALSE, !.valid = FALSE,
                                     !.len = 0]
        /\ slot'[o] = slot[o] /\ DOMAIN slot' = Slots
    BY <1>1, <2>1 DEF Types
  <2>3. /\ slot'[t] \in SlotType /\ ~slot'[t].writing /\ slot'[t].refs = 0
        /\ slot'[t].len = 0 /\ slot'[t].offset = slot[t].offset
    <3>1. slot[t].refs = 0
      BY <1>2
    <3> QED BY <1>1, <1>o, <2>2, <3>1 DEF SlotType
  <2>4. Types'
    <3>1. slot' \in [Slots -> SlotType]
      BY <1>1, <2>1, <2>2, <2>3
    <3>2. writer' \in WriterType
      BY <1>3 DEF Idle, WriterType
    <3> QED BY <1>3, <2>1, <3>1, <3>2 DEF Types
  <2>5. ~InUse(t)' /\ (InUse(o)' => InUse(o))
    BY <1>2, <2>1, <2>2, <2>3 DEF InUse
  <2>6. SlotsLieApart'
    BY <1>o, <2>2, <2>3, <2>5 DEF SlotsLieApart
  <2>7. WriterIsAlone'
    <3>1. \A i \in Slots : ~slot'[i].writing
      BY <1>1, <1>2, <2>2, <2>3
    <3> QED BY <1>3, <3>1 DEF WriterIsAlone, Idle, Slots, None
  <2>8. SlotsAreWhole'
    <3> SUFFICES ASSUME InUse(o)'
                 PROVE  \A c \in Cells(slot'[o]) : arena'[c] = slot'[o].frame
      BY <1>1, <2>5 DEF SlotsAreWhole
    <3> QED BY <1>1, <1>2, <1>3, <2>2, <2>5 DEF SlotsAreWhole
  <2>9. ShownIsLast'
    BY <1>1, <1>2, <1>3, <2>1, <2>2 DEF ShownIsLast, Types
  <2>10. ViewsAreOfSlots'
    <3> SUFFICES ASSUME NEW r \in Readers
                 PROVE  /\ view[r].frame <= lastId
                        /\ Holds(r) => /\ slot'[view[r].slot].frame = view[r].frame
                                       /\ slot'[view[r].slot].offset = view[r].offset
                                       /\ slot'[view[r].slot].len = view[r].len
      BY <1>3, <2>1 DEF ViewsAreOfSlots, Holds
    <3> QED BY <1>4, <2>2 DEF ViewsAreOfSlots
  <2>11. ReferencesAreCounted'
    BY <1>1, <1>2, <1>3, <2>2, <2>3, CountStays
  <2> QED BY <2>4, <2>6, <2>7, <2>8, <2>9, <2>10, <2>11
<1>6. CASE writer.gen = gen
  <2>1. current' = t /\ lastId' = lastId + 1
    BY <1>t, <1>6 DEF PublishEnd
  <2>2. /\ slot'[t] = [slot[t] EXCEPT !.frame = lastId + 1,
                         !.gen = writer.gen, !.valid = TRUE, !.writing = FALSE]
        /\ slot'[o] = IF o = current /\ slot[o].refs = 0
                      THEN [slot[o] EXCEPT !.valid = FALSE, !.len = 0]
                      ELSE slot[o]
        /\ DOMAIN slot' = Slots
    <3> DEFINE w == writer.slot
               published == [slot EXCEPT ![w] =
                 [@ EXCEPT !.frame = lastId + 1, !.gen = writer.gen,
                           !.valid = TRUE, !.writing = FALSE]]
    <3>1. slot' = [i \in Slots |->
                  IF i = current /\ i # w /\ slot[i].refs = 0
                  THEN [published[i] EXCEPT !.valid = FALSE, !.len = 0]
                  ELSE published[i]]
      BY <1>6 DEF PublishEnd
    <3>2. /\ published[t] = [slot[t] EXCEPT !.frame = lastId + 1,
                         !.gen = writer.gen, !.valid = TRUE, !.writing = FALSE]
          /\ published[o] = slot[o]
      BY <1>t, <1>1 DEF Types
    <3> HIDE DEF published
    <3> QED BY <1>t, <1>1, <1>2, <3>1, <3>2
  <2>3. /\ slot'[t] \in SlotType /\ ~slot'[t].writing /\ slot'[t].refs = 0
        /\ slot'[t].len = slot[t].len /\ slot'[t].offset = slot[t].offset
        /\ slot'[t].frame = lastId + 1 /\ slot'[t].valid /\ slot'[t].gen = gen
    <3>1. lastId + 1 \in 0 .. MaxFrames /\ writer.gen \in 0 .. (MaxClears + 1)
      BY <1>1, <1>2 DEF Types, WriterType
    <3>2. slot[t].refs = 0
      BY <1>2
    <3> QED BY <1>1, <1>6, <2>2, <3>1, <3>2 DEF SlotType
  <2>4. /\ slot'[o] \in SlotType /\ ~slot'[o].writing
        /\ slot'[o].refs = slot[o].refs /\ slot'[o].offset = slot[o].offset
        /\ slot'[o].frame = slot[o].frame
        /\ slot'[o].len \in {0, slot[o].len}
        /\ slot[o].refs > 0 => slot'[o] = slot[o]
    <3>1. ~slot[o].writing
      BY <1>2
    <3>2. CASE o = current /\ slot[o].refs = 0
      <4>1. slot'[o] = [slot[o] EXCEPT !.valid = FALSE, !.len = 0]
        BY <2>2, <3>2
      <4>2. slot[o].refs = 0
        BY <3>2
      <4>3. /\ slot'[o] \in SlotType /\ slot'[o].len = 0
            /\ slot'[o].refs = slot[o].refs /\ slot'[o].offset = slot[o].offset
            /\ slot'[o].frame = slot[o].frame
            /\ slot'[o].writing = slot[o].writing
        BY <1>1, <4>1, ForgottenSlot
      <4>4. ~(slot[o].refs > 0)
        BY <4>2
      <4> QED BY <3>1, <4>3, <4>4, Zenon
    <3>3. CASE ~(o = current /\ slot[o].refs = 0)
      BY <1>1, <2>2, <3>1, <3>3
    <3> QED BY <3>2, <3>3
  <2>5. Types'
    <3>1. slot' = [i \in Slots |-> slot'[i]]
      BY <1>6 DEF PublishEnd
    <3>2. slot' \in [Slots -> SlotType]
      BY <1>1, <2>3, <2>4, <3>1
    <3>3. lastId' \in 0 .. MaxFrames
      BY <1>2, <2>1 DEF Types
    <3> QED BY <1>1, <1>3, <2>1, <3>2, <3>3
            DEF Types, Idle, WriterType, Slots, None
  <2>6. InUse(o)' => InUse(o) /\ slot[o].refs > 0
    BY <1>1, <2>1, <2>4 DEF InUse
  <2>8. SlotsLieApart'
    <3>1. slot[0].len \in Nat /\ slot[1].offset \in Nat
      BY DEF Types, SlotType, Slots
    <3>2. CASE t = 0 /\ o = 1
      BY <1>o, <2>3, <2>4, <2>6, <3>1, <3>2 DEF SlotsLieApart
    <3>3. CASE t = 1 /\ o = 0
      BY <1>o, <2>3, <2>4, <2>6, <3>1, <3>3 DEF SlotsLieApart
    <3> QED BY <1>o, <3>2, <3>3
  <2>9. WriterIsAlone'
    BY <1>1, <1>3, <2>3, <2>4 DEF WriterIsAlone, Idle, Slots, None
  <2>10. SlotsAreWhole'
    <3>1. \A c \in Cells(slot'[t]) : arena'[c] = slot'[t].frame
      BY <1>2, <1>3, <2>3 DEF Cells
    <3>2. InUse(o)' => \A c \in Cells(slot'[o]) : arena'[c] = slot'[o].frame
      BY <1>1, <1>2, <1>3, <2>4, <2>6 DEF SlotsAreWhole
    <3> QED BY <1>1, <3>1, <3>2 DEF SlotsAreWhole
  <2>11. ShownIsLast'
    BY <1>3, <2>1, <2>3 DEF ShownIsLast
  <2>12. ViewsAreOfSlots'
    <3> SUFFICES ASSUME NEW r \in Readers
                 PROVE  /\ view[r].frame <= lastId'
                        /\ Holds(r) => /\ view[r].slot = o
                                       /\ slot'[o] = slot[o]
      BY <1>3 DEF ViewsAreOfSlots, Holds
    <3>1. view[r].frame <= lastId'
      BY <2>1 DEF ViewsAreOfSlots, Types, ViewType
    <3> QED BY <1>4, <2>4, <3>1
  <2>13. ReferencesAreCounted'
    BY <1>1, <1>2, <1>3, <2>3, <2>4, CountStays
  <2> QED BY <2>5, <2>8, <2>9, <2>10, <2>11, <2>12, <2>13
<1> QED BY <1>5, <1>6

\* A reader borrows the frame that is shown, which nobody writes.
LEMMA AcquireIsSafe ==
  ASSUME StoreBounds, Inv, NEW r \in Readers, Acquire(r) PROVE Inv'
<1> USE DEF Inv, StoreBounds
<1>t. PICK t \in Slots : t = current
  BY DEF Acquire, Types
<1>1. /\ view[r].slot = None /\ ~slot[t].writing /\ view[r] \in ViewType
      /\ slot[t] \in SlotType /\ t # None
      /\ \A i \in Slots : slot[i] \in SlotType
  BY <1>t DEF Acquire, Types, Slots, None
<1>2. /\ view' = [view EXCEPT ![r] =
             [slot |-> t, frame |-> slot[t].frame,
              offset |-> slot[t].offset, len |-> slot[t].len]]
      /\ slot' = [slot EXCEPT ![t].refs = @ + 1]
      /\ UNCHANGED <<current, gen, lastId, arena, writer>>
  BY <1>t DEF Acquire
<1>3. /\ slot'[t] = [slot[t] EXCEPT !.refs = @ + 1]
      /\ slot'[t] \in SlotType
      /\ \A i \in Slots : i # t => slot'[i] = slot[i]
      /\ slot' \in [Slots -> SlotType]
  <2>1. [slot[t] EXCEPT !.refs = @ + 1] \in SlotType
    BY <1>1 DEF SlotType
  <2> QED BY <1>2, <2>1 DEF Types
<1>4. \A i \in Slots :
        /\ slot'[i].offset = slot[i].offset /\ slot'[i].len = slot[i].len
        /\ slot'[i].frame = slot[i].frame /\ slot'[i].gen = slot[i].gen
        /\ slot'[i].valid = slot[i].valid /\ slot'[i].writing = slot[i].writing
  BY <1>1, <1>3 DEF SlotType
<1>5. /\ slot'[t].refs = slot[t].refs + 1
      /\ \A i \in Slots : i # t => slot'[i].refs = slot[i].refs
  BY <1>1, <1>3 DEF SlotType
<1>6. /\ view'[r] = [slot |-> t, frame |-> slot[t].frame,
                     offset |-> slot[t].offset, len |-> slot[t].len]
      /\ view'[r] \in ViewType
      /\ \A q \in Readers : q # r => view'[q] = view[q]
      /\ view' \in [Readers -> ViewType]
  BY <1>1, <1>2 DEF Types, ViewType, SlotType
<1>7. Types'
  BY <1>2, <1>3, <1>6 DEF Types
<1>8. \A i \in Slots : InUse(i)' => InUse(i)
  BY <1>t, <1>2, <1>4, <1>5 DEF InUse
<1>9. SlotsLieApart'
  BY <1>4, <1>8 DEF SlotsLieApart, Slots
<1>10. WriterIsAlone'
  <2>1. writer.slot # t
    BY <1>1 DEF WriterIsAlone
  <2>2. writer.slot # None => writer.slot \in Slots
    BY DEF Types, WriterType
  <2>3. writer.slot # None =>
          /\ slot'[writer.slot].refs = 0
          /\ slot'[writer.slot].len = slot[writer.slot].len
          /\ slot'[writer.slot].offset = slot[writer.slot].offset
    BY <1>4, <1>5, <2>1, <2>2 DEF WriterIsAlone
  <2>4. \A i \in Slots : slot'[i].writing <=> writer.slot = i
    BY <1>4 DEF WriterIsAlone
  <2> QED BY <1>2, <2>3, <2>4 DEF WriterIsAlone
<1>11. SlotsAreWhole'
  BY <1>2, <1>4, <1>8 DEF SlotsAreWhole, Cells
<1>12. ShownIsLast'
  BY <1>t, <1>2, <1>4 DEF ShownIsLast
<1>13. ViewsAreOfSlots'
  <2> SUFFICES ASSUME NEW q \in Readers
               PROVE  /\ view'[q].frame <= lastId'
                      /\ view'[q].slot # None =>
                           /\ view'[q].frame = slot'[view'[q].slot].frame
                           /\ view'[q].offset = slot'[view'[q].slot].offset
                           /\ view'[q].len = slot'[view'[q].slot].len
    BY DEF ViewsAreOfSlots, Holds
  <2>1. CASE q = r
    <3>1. slot[t].frame = lastId /\ lastId \in Nat
      BY <1>t, <1>1 DEF ShownIsLast, Types
    <3> QED BY <1>2, <1>4, <1>6, <2>1, <3>1
  <2>2. CASE q # r
    <3>1. view'[q] = view[q]
      BY <1>6, <2>2
    <3>2. view[q].slot # None => view[q].slot \in Slots
      BY DEF Types, ViewType
    <3> QED BY <1>2, <1>4, <3>1, <3>2 DEF ViewsAreOfSlots, Holds
  <2> QED BY <2>1, <2>2
<1>14. ReferencesAreCounted'
  <2> SUFFICES ASSUME NEW i \in Slots
               PROVE  slot'[i].refs =
                        Cardinality({q \in Readers : view'[q].slot = i})
    BY DEF ReferencesAreCounted
  <2> DEFINE S == {q \in Readers : view[q].slot = i}
             T == {q \in Readers : view'[q].slot = i}
  <2>1. IsFiniteSet(S) /\ slot[i].refs = Cardinality(S)
    BY FS_Subset DEF ReferencesAreCounted
  <2>2. CASE i = t
    <3>1. T = S \cup {r} /\ r \notin S
      BY <1>1, <1>6, <2>2
    <3>2. Cardinality(T) = Cardinality(S) + 1
      BY <2>1, <3>1, FS_AddElement
    <3> QED BY <1>5, <2>1, <2>2, <3>2
  <2>3. CASE i # t
    <3>1. T = S
      BY <1>1, <1>6, <2>3 DEF Slots, None
    <3> QED BY <1>5, <2>1, <2>3, <3>1
  <2> QED BY <2>2, <2>3
<1> QED BY <1>7, <1>9, <1>10, <1>11, <1>12, <1>13, <1>14

\* A reader gives its frame back; the last one of a frame that is no longer
\* shown frees the slot.
LEMMA ReleaseIsSafe ==
  ASSUME StoreBounds, Inv, NEW r \in Readers, Release(r) PROVE Inv'
<1> USE DEF Inv, StoreBounds
<1>t. PICK t \in Slots : t = view[r].slot /\ slot[t].refs > 0
  BY HeldHasReference DEF Release, Holds
<1>1. /\ view[r] \in ViewType /\ t # None
      /\ \A i \in Slots : slot[i] \in SlotType
  BY <1>t DEF Types, Slots, None
<1>2. /\ view' = [view EXCEPT ![r].slot = None]
      /\ UNCHANGED <<current, gen, lastId, arena, writer>>
  BY DEF Release
<1> DEFINE s == [slot[t] EXCEPT !.refs = @ - 1]
<1>s. /\ s \in SlotType /\ s.refs = slot[t].refs - 1
      /\ s.offset = slot[t].offset /\ s.len = slot[t].len
      /\ s.frame = slot[t].frame /\ s.writing = slot[t].writing
      /\ s.gen = slot[t].gen /\ s.valid = slot[t].valid
  BY <1>t, <1>1 DEF SlotType
<1>3. slot' = [slot EXCEPT ![t] =
        IF s.refs = 0 /\ (t # current \/ s.gen # gen \/ ~s.valid)
        THEN [s EXCEPT !.valid = FALSE, !.len = 0] ELSE s]
  BY <1>t DEF Release
<1> HIDE DEF s
<1>k. ~(t # current \/ s.gen # gen \/ ~s.valid) <=> t = current
  BY <1>s, <1>1 DEF ShownIsLast
<1>4. /\ slot'[t] = IF s.refs = 0 /\ t # current
                    THEN [s EXCEPT !.valid = FALSE, !.len = 0] ELSE s
      /\ \A i \in Slots : i # t => slot'[i] = slot[i]
  BY <1>3, <1>k DEF Types
<1>5. /\ slot'[t] \in SlotType /\ slot'[t].refs = slot[t].refs - 1
      /\ slot'[t].offset = slot[t].offset /\ slot'[t].writing = slot[t].writing
      /\ slot'[t].frame = slot[t].frame
      /\ slot'[t].refs > 0 \/ t = current =>
           /\ slot'[t].len = slot[t].len /\ slot'[t].gen = slot[t].gen
           /\ slot'[t].valid = slot[t].valid
      /\ slot'[t].len = 0 \/ slot'[t].len = slot[t].len
  <2>1. CASE s.refs = 0 /\ t # current
    <3>1. slot'[t] = [s EXCEPT !.valid = FALSE, !.len = 0]
      BY <1>4, <2>1
    <3>2. /\ slot'[t] \in SlotType /\ slot'[t].len = 0
          /\ slot'[t].refs = s.refs /\ slot'[t].offset = s.offset
          /\ slot'[t].writing = s.writing /\ slot'[t].frame = s.frame
      BY <1>s, <3>1, ForgottenSlot
    <3>3. ~(slot'[t].refs > 0 \/ t = current)
      BY <2>1, <3>2
    <3> QED BY <1>s, <3>2, <3>3, Zenon
  <2>2. CASE ~(s.refs = 0 /\ t # current)
    <3>1. slot'[t] = s
      BY <1>4, <2>2
    <3> QED BY <1>s, <3>1
  <2> QED BY <2>1, <2>2
<1>6. ~slot[t].writing /\ writer.slot # t
  BY <1>t DEF WriterIsAlone, Slots, None
<1>7. /\ view'[r] = [view[r] EXCEPT !.slot = None]
      /\ view'[r] \in ViewType /\ view'[r].slot = None
      /\ view'[r].frame = view[r].frame
      /\ \A q \in Readers : q # r => view'[q] = view[q]
      /\ view' \in [Readers -> ViewType]
  BY <1>1, <1>2 DEF Types, ViewType
<1>8. Types'
  <2>1. slot' \in [Slots -> SlotType]
    BY <1>1, <1>3, <1>4, <1>5 DEF Types
  <2> QED BY <1>2, <1>7, <2>1 DEF Types
<1>9. ASSUME NEW i \in Slots, InUse(i)'
      PROVE  /\ InUse(i) /\ slot'[i].len = slot[i].len
             /\ slot'[i].offset = slot[i].offset
             /\ slot'[i].frame = slot[i].frame
             /\ slot'[i].writing = slot[i].writing
  <2>1. CASE i = t
    BY <1>t, <1>2, <1>5, <1>6, <1>9, <2>1 DEF InUse
  <2>2. CASE i # t
    BY <1>2, <1>4, <1>9, <2>2 DEF InUse
  <2> QED BY <2>1, <2>2
<1>10. SlotsLieApart'
  <2>1. slot'[0].offset = slot[0].offset
    BY <1>4, <1>5 DEF Slots
  <2>2. slot'[1].len = 0 \/ slot'[1].len = slot[1].len
    BY <1>4, <1>5 DEF Slots
  <2>3. slot'[1].offset = slot[1].offset
    BY <1>4, <1>5 DEF Slots
  <2>4. InUse(0)' /\ InUse(1)' => InUse(0) /\ InUse(1) /\ slot'[0].len = slot[0].len
    BY <1>9 DEF Slots
  <2> QED BY <2>1, <2>2, <2>3, <2>4 DEF SlotsLieApart
<1>11. WriterIsAlone'
  <2>1. writer.slot # None => slot'[writer.slot] = slot[writer.slot]
    BY <1>4, <1>6 DEF Types, WriterType
  <2>2. \A i \in Slots : slot'[i].writing <=> writer.slot = i
    BY <1>4, <1>5 DEF WriterIsAlone
  <2> QED BY <1>2, <2>1, <2>2 DEF WriterIsAlone
<1>12. SlotsAreWhole'
  <2> SUFFICES ASSUME NEW i \in Slots, InUse(i)', ~slot'[i].writing,
                      NEW c \in Cells(slot'[i])
               PROVE  arena'[c] = slot'[i].frame
    BY DEF SlotsAreWhole
  <2>1. c \in Cells(slot[i])
    BY <1>9 DEF Cells
  <2> QED BY <1>2, <1>9, <2>1 DEF SlotsAreWhole
<1>13. ShownIsLast'
  <2>1. CASE current = t
    BY <1>2, <1>5, <2>1 DEF ShownIsLast
  <2>2. CASE current # t
    BY <1>2, <1>4, <2>2 DEF ShownIsLast, Types
  <2> QED BY <2>1, <2>2
<1>15. ReferencesAreCounted'
  <2> SUFFICES ASSUME NEW i \in Slots
               PROVE  slot'[i].refs =
                        Cardinality({q \in Readers : view'[q].slot = i})
    BY DEF ReferencesAreCounted
  <2> DEFINE S == {q \in Readers : view[q].slot = i}
             T == {q \in Readers : view'[q].slot = i}
  <2>1. IsFiniteSet(S) /\ slot[i].refs = Cardinality(S)
    BY FS_Subset DEF ReferencesAreCounted
  <2>2. CASE i = t
    <3>1. \A q \in Readers : view'[q].slot = i <=> view[q].slot = i /\ q # r
      BY <1>t, <1>1, <1>7, <2>2
    <3>3. T = S \ {r} /\ r \in S
      <4>1. r \in S
        BY <1>t, <2>2
      <4>2. \A q : q \in T <=> q \in S \ {r}
        BY <3>1
      <4> QED  BY <4>1, <4>2
    <3>2. Cardinality(T) = Cardinality(S) - 1
      <4> HIDE DEF S, T, Inv, StoreBounds
      <4>1. Cardinality(S \ {r}) = Cardinality(S) - 1
        BY <2>1, <3>3, FS_RemoveElement
      <4> QED  BY <3>3, <4>1
    <3> QED BY <1>5, <2>1, <2>2, <3>2
  <2>3. CASE i # t
    <3>2. \A q \in Readers : view'[q].slot = i <=> view[q].slot = i
      <4>1. i # None /\ view[r].slot # i /\ view'[r].slot # i
        BY <1>t, <1>7, <2>3 DEF Slots, None
      <4> QED BY <1>7, <4>1
    <3>1. T = S
      BY <3>2
    <3> QED BY <1>4, <2>1, <2>3, <3>1
  <2> QED BY <2>2, <2>3
<1>14. ViewsAreOfSlots'
  <2> SUFFICES ASSUME NEW q \in Readers
               PROVE  /\ view'[q].frame <= lastId
                      /\ view'[q].slot # None =>
                           /\ view'[q].frame = slot'[view'[q].slot].frame
                           /\ view'[q].offset = slot'[view'[q].slot].offset
                           /\ view'[q].len = slot'[view'[q].slot].len
    BY <1>2 DEF ViewsAreOfSlots, Holds
  <2>1. CASE q = r
    BY <1>7, <2>1 DEF ViewsAreOfSlots
  <2>2. CASE q # r
    <3>1. view'[q] = view[q] /\ view[q].frame <= lastId
      BY <1>7, <2>2 DEF ViewsAreOfSlots
    <3> SUFFICES ASSUME view[q].slot # None
                 PROVE  /\ view[q].frame = slot'[view[q].slot].frame
                        /\ view[q].offset = slot'[view[q].slot].offset
                        /\ view[q].len = slot'[view[q].slot].len
      BY <3>1
    <3>p. PICK i \in Slots : i = view[q].slot
      BY DEF Types, ViewType
    <3> DEFINE T == {p \in Readers : view'[p].slot = i}
    <3>2. IsFiniteSet(T) /\ T # {}
      BY <3>1, <3>p, FS_Subset
    <3>3. Cardinality(T) \in Nat /\ Cardinality(T) # 0
      BY <3>2, FS_EmptySet, FS_CardinalityType
    <3>4. slot'[i].refs > 0
      BY <1>15, <3>3 DEF ReferencesAreCounted
    <3>5. InUse(i)'
      BY <3>4 DEF InUse
    <3> QED BY <1>9, <3>p, <3>5 DEF ViewsAreOfSlots, Holds
  <2> QED BY <2>1, <2>2
<1> QED BY <1>8, <1>10, <1>11, <1>12, <1>13, <1>14, <1>15

\* A clear leaves every slot that is read or written alone.
LEMMA ClearIsSafe ==
  ASSUME StoreBounds, Inv, Clear PROVE Inv'
<1> USE DEF Inv, StoreBounds
<1>1. /\ gen' = gen + 1 /\ current' = None
      /\ UNCHANGED <<lastId, arena, writer, view>>
  BY DEF Clear
<1>g. gen' \in 1 .. (MaxClears + 1)
  <2>1. gen <= MaxClears
    BY DEF Clear
  <2>2. gen \in 1 .. (MaxClears + 1)
    BY DEF Types
  <2> QED BY <1>1, <2>1, <2>2
<1>2. slot' = [i \in Slots |->
       IF slot[i].refs = 0 /\ ~slot[i].writing
       THEN [slot[i] EXCEPT !.valid = FALSE, !.len = 0] ELSE slot[i]]
  BY DEF Clear
<1>3. ASSUME NEW i \in Slots
      PROVE  /\ slot'[i] \in SlotType /\ slot'[i].refs = slot[i].refs
             /\ slot'[i].offset = slot[i].offset
             /\ slot'[i].writing = slot[i].writing
             /\ slot'[i].len = 0 \/ slot'[i].len = slot[i].len
             /\ slot[i].refs > 0 \/ slot[i].writing => slot'[i] = slot[i]
  <2>0. slot[i] \in SlotType
    BY DEF Types
  <2>1. CASE slot[i].refs = 0 /\ ~slot[i].writing
    <3>1. slot'[i] = [slot[i] EXCEPT !.valid = FALSE, !.len = 0]
      BY <1>2, <2>1
    <3>2. /\ slot'[i] \in SlotType /\ slot'[i].len = 0
          /\ slot'[i].refs = slot[i].refs /\ slot'[i].offset = slot[i].offset
          /\ slot'[i].writing = slot[i].writing
      BY <2>0, <3>1, ForgottenSlot
    <3>3. ~(slot[i].refs > 0 \/ slot[i].writing)
      BY <2>1
    <3> QED BY <3>2, <3>3, Zenon
  <2>2. CASE ~(slot[i].refs = 0 /\ ~slot[i].writing)
    <3>1. slot'[i] = slot[i]
      BY <1>2, <2>2
    <3> QED BY <2>0, <3>1
  <2> QED BY <2>1, <2>2
<1>4. Types'
  <2>1. slot' \in [Slots -> SlotType]
    BY <1>2, <1>3
  <2> QED BY <1>1, <1>g, <2>1 DEF Types
<1>5. ASSUME NEW i \in Slots, InUse(i)'
      PROVE  InUse(i) /\ slot'[i] = slot[i]
  BY <1>1, <1>3, <1>5 DEF InUse, Slots, None
<1>6. SlotsLieApart'
  <2>1. slot'[0].offset = slot[0].offset /\ slot'[1].offset = slot[1].offset
    BY <1>3 DEF Slots
  <2>2. slot'[1].len = 0 \/ slot'[1].len = slot[1].len
    BY <1>3 DEF Slots
  <2>3. InUse(0)' /\ InUse(1)' => InUse(0) /\ InUse(1) /\ slot'[0].len = slot[0].len
    BY <1>5 DEF Slots
  <2> QED BY <2>1, <2>2, <2>3 DEF SlotsLieApart
<1>7. WriterIsAlone'
  <2>1. writer.slot # None => slot'[writer.slot] = slot[writer.slot]
    BY <1>3 DEF WriterIsAlone, Types, WriterType
  <2>2. \A i \in Slots : slot'[i].writing <=> writer.slot = i
    BY <1>3 DEF WriterIsAlone
  <2>3. writer.slot # None => writer.slot # current'
    BY <1>1
  <2> QED BY <1>1, <2>1, <2>2, <2>3 DEF WriterIsAlone
<1>8. SlotsAreWhole'
  BY <1>1, <1>5 DEF SlotsAreWhole
<1>9. ShownIsLast'
  BY <1>1 DEF ShownIsLast
<1>10. ViewsAreOfSlots'
  BY <1>1, <1>3, HeldHasReference DEF ViewsAreOfSlots, Holds
<1>11. ReferencesAreCounted'
  BY <1>1, <1>3, CountStays
<1> QED BY <1>4, <1>6, <1>7, <1>8, <1>9, <1>10, <1>11

\* Every step of the store keeps the invariant.
LEMMA StepIsSafe ==
  ASSUME StoreBounds, Inv, [StoreNext]_storeVars PROVE Inv'
<1>1. ASSUME NEW len \in 1 .. (Capacity + 1), PublishBegin(len) PROVE Inv'
  BY <1>1, PublishBeginIsSafe
<1>2. CASE PublishCopy
  BY <1>2, PublishCopyIsSafe
<1>3. CASE PublishEnd
  BY <1>3, PublishEndIsSafe
<1>4. ASSUME NEW r \in Readers, Acquire(r) PROVE Inv'
  BY <1>4, AcquireIsSafe
<1>5. ASSUME NEW r \in Readers, Release(r) PROVE Inv'
  BY <1>5, ReleaseIsSafe
<1>6. CASE Clear
  BY <1>6, ClearIsSafe
<1>7. CASE UNCHANGED storeVars
  <2>1. /\ slot' = slot /\ current' = current /\ gen' = gen
        /\ lastId' = lastId /\ arena' = arena /\ writer' = writer
        /\ view' = view
    BY <1>7 DEF storeVars
  <2>2. Types' /\ SlotsLieApart' /\ WriterIsAlone'
    BY <2>1 DEF Inv, Types, SlotsLieApart, WriterIsAlone, InUse
  <2>3. SlotsAreWhole' /\ ShownIsLast' /\ ViewsAreOfSlots'
    BY <2>1 DEF Inv, SlotsAreWhole, ShownIsLast, ViewsAreOfSlots, InUse, Holds
  <2>4. ReferencesAreCounted'
    BY <2>1, CountStays DEF Inv
  <2> QED BY <2>2, <2>3, <2>4 DEF Inv
<1> QED BY <1>1, <1>2, <1>3, <1>4, <1>5, <1>6, <1>7 DEF StoreNext

\* The invariant says what the store promises.
LEMMA InvIsEnough ==
  ASSUME StoreBounds, Inv PROVE StoredFrameIsWhole
<1> USE DEF Inv, StoreBounds
<1>1. StoreTypeOK
  <2>1. ASSUME NEW i \in Slots PROVE slot[i].refs \in 0 .. Cardinality(Readers)
    <3> DEFINE S == {r \in Readers : view[r].slot = i}
    <3>1. slot[i].refs = Cardinality(S)
      BY DEF ReferencesAreCounted
    <3>2. IsFiniteSet(S) /\ Cardinality(S) <= Cardinality(Readers)
      BY FS_Subset
    <3>3. Cardinality(S) \in Nat /\ Cardinality(Readers) \in Nat
      BY <3>2, FS_CardinalityType
    <3> QED BY <3>1, <3>2, <3>3
  <2>2. ASSUME NEW i \in Slots
        PROVE  slot[i] \in [offset : 0 .. Capacity, len : 0 .. Capacity,
                         frame : 0 .. MaxFrames, gen : 0 .. (MaxClears + 1),
                         refs : 0 .. Cardinality(Readers),
                         valid : BOOLEAN, writing : BOOLEAN]
    <3>1. slot[i] \in SlotType
      BY DEF Types
    <3> QED BY <2>1, <3>1 DEF SlotType
  <2> QED BY <2>2 DEF StoreTypeOK, Types
<1>2. BorrowedBytesStay
  <2> SUFFICES ASSUME NEW r \in Readers, Holds(r), NEW c \in Cells(view[r])
               PROVE  arena[c] = view[r].frame
    BY DEF BorrowedBytesStay
  <2>p. PICK i \in Slots : i = view[r].slot /\ slot[i].refs > 0
    BY HeldHasReference
  <2>1. /\ view[r].frame = slot[i].frame /\ view[r].offset = slot[i].offset
        /\ view[r].len = slot[i].len
    BY <2>p DEF ViewsAreOfSlots
  <2>2. ~slot[i].writing /\ InUse(i)
    BY <2>p DEF WriterIsAlone, InUse, Slots, None
  <2>3. c \in Cells(slot[i])
    BY <2>1 DEF Cells
  <2> QED BY <2>1, <2>2, <2>3 DEF SlotsAreWhole
<1>3. ShownFrameIsWhole
  <2> SUFFICES ASSUME current # None
               PROVE  /\ slot[current].gen = gen
                      /\ \A c \in Cells(slot[current]) :
                           arena[c] = slot[current].frame
    BY DEF ShownFrameIsWhole
  <2>1. current \in Slots /\ InUse(current)
    BY DEF Types, InUse
  <2>2. ~slot[current].writing
    BY <2>1 DEF WriterIsAlone
  <2> QED BY <2>1, <2>2 DEF SlotsAreWhole, ShownIsLast
<1> QED BY <1>1, <1>2, <1>3 DEF StoredFrameIsWhole

\* A frame that a reader borrowed keeps its bytes until it is released, the
\* frame that is offered is whole, and the references are counted, whatever is
\* published and cleared meanwhile (video_frame_store.c).
THEOREM FramesAreWhole ==
  ASSUME StoreBounds PROVE StoreSpec => []StoredFrameIsWhole
<1>1. StoreInit => Inv
  BY InitIsSafe
<1>2. Inv /\ [StoreNext]_storeVars => Inv'
  BY StepIsSafe
<1>3. Inv => StoredFrameIsWhole
  BY InvIsEnough
<1> QED BY <1>1, <1>2, <1>3, PTL DEF StoreSpec

\* A reader that borrows again gets a frame that is newer than the one it had
\* (si_video_frame_store_acquire with last_frame_id).
THEOREM FramesOnlyAdvance ==
  ASSUME StoreBounds PROVE StoreSpec => [][FramesAdvance]_storeVars
<1>1. StoreInit => Inv
  BY InitIsSafe
<1>2. Inv /\ [StoreNext]_storeVars => Inv'
  BY StepIsSafe
<1>3. ASSUME Inv, StoreNext PROVE FramesAdvance
  <2> SUFFICES ASSUME NEW r \in Readers, view[r].slot = None,
                      view'[r].slot # None
               PROVE  view'[r].frame > view[r].frame
    BY DEF FramesAdvance, Holds
  <2> USE DEF Inv
  <2>1. view \in [Readers -> ViewType]
    BY <1>3 DEF Types
  <2>2. CASE Acquire(r)
    <3>1. current # None /\ view[r].frame # slot[current].frame
      BY <2>2 DEF Acquire
    <3>2. view'[r].frame = slot[current].frame
      BY <2>1, <2>2 DEF Acquire
    <3>3. slot[current].frame = lastId /\ view[r].frame <= lastId
      BY <1>3, <3>1 DEF ShownIsLast, ViewsAreOfSlots
    <3>4. lastId \in Nat /\ view[r].frame \in Nat
      BY <1>3, <2>1 DEF Types, ViewType, StoreBounds
    <3> QED BY <3>1, <3>2, <3>3, <3>4
  <2>3. ASSUME NEW q \in Readers, q # r, Acquire(q) PROVE view'[r] = view[r]
    BY <2>1, <2>3 DEF Acquire
  <2>4. ASSUME NEW q \in Readers, Release(q) PROVE view'[r].slot = None
    BY <2>1, <2>4 DEF Release, ViewType
  <2>5. ASSUME NEW len \in 1 .. (Capacity + 1), PublishBegin(len)
        PROVE  view' = view
    BY <2>5 DEF PublishBegin
  <2>6. PublishCopy \/ PublishEnd \/ Clear => view' = view
    BY DEF PublishCopy, PublishEnd, Clear
  <2> QED BY <1>3, <2>2, <2>3, <2>4, <2>5, <2>6 DEF StoreNext
<1>4. ASSUME UNCHANGED storeVars PROVE FramesAdvance
  BY <1>4 DEF storeVars, FramesAdvance, Holds
<1> QED BY <1>1, <1>2, <1>3, <1>4, PTL DEF StoreSpec
===============================================================================
