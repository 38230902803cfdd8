-------------------------- MODULE PersistenceProofs --------------------------
(***************************************************************************)
(* What survives a restart, for every value of the constants: the journal  *)
(* keeps what it acknowledged and implements DurableLog; the agent's files *)
(* and their writer, the settings, the account, the second factors and the *)
(* network configuration are what MCPersistence says of them.  Each part   *)
(* has an inductive invariant of its own, named ...Inv, that says what     *)
(* flash holds at every point where an operation may be cut off, and how   *)
(* memory and the requests under way stand to it.                          *)
(***************************************************************************)
EXTENDS MCPersistence, WellFoundedInduction, FiniteSetTheorems, TLAPS

-----------------------------------------------------------------------------
(* The journal of the agent's events. *)

Records == [seq: Nat, previous: Seq(Events), ev: Events,
            state: {"whole", "torn", "bad"}]
Cursors == [seq: Nat, hash: Seq(Events), bytes: Nat]
Writes == {NoWrite} \cup [at: {"write", "sync", "undo"}, ev: Events]
Limbos == {<<>>} \cup {<<e>> : e \in Events}

\* The full types of the variables.
Types ==
  /\ file \in Seq(Records) /\ cursor \in Cursors /\ writing \in Writes
  /\ known \in Seq(Events) /\ lost \in Limbos
  /\ mounted \in BOOLEAN /\ ready \in BOOLEAN /\ damage \in 0..MaxDamage

\* Record i is the one the append of event e after "before" wrote.
Written(r, i, e, before) == r.seq = i /\ r.ev = e /\ r.previous = before

\* What was acknowledged is on the card, with its numbers and links.
KnownIsStored ==
  \A i \in 1..Len(known) :
    /\ Written(file[i], i, known[i], [j \in 1..(i - 1) |-> known[j]])
    /\ file[i].state # "torn"

\* Behind it there is at most the record of the append in progress, or of the
\* one that was cut off.
TailIsUnknown ==
  /\ Len(file) \in {Len(known), Len(known) + 1}
  /\ Len(file) = Len(known) + 1 =>
       \E e \in Events :
         /\ Written(file[Len(file)], Len(file), e, known)
         /\ \/ writing.at \in {"sync", "undo"} /\ writing.ev = e
            \/ writing = NoWrite /\ lost = <<e>>

\* An append runs in an open store; one that still writes or synchronises has
\* written nothing or all of its record.
AppendInOpenStore ==
  /\ writing # NoWrite => ready
  /\ writing.at = "write" =>
       Len(file) = Len(known) /\ FileBytes(file) + 2 <= JournalMax
  /\ writing.at = "sync" =>
       Len(file) = Len(known) + 1 /\ file[Len(file)].state = "whole"

\* An open store has nothing in limbo, its cursor is at what was acknowledged,
\* and between two appends the file has no more.
OpenStoreIsAtKnown ==
  ready => /\ lost = <<>>
           /\ cursor.seq = Len(known) /\ cursor.hash = known
           /\ writing = NoWrite => Len(file) = Len(known)

\* The file fits.
FileFits == FileBytes(file) <= JournalMax

JournalInv == /\ Types /\ KnownIsStored /\ TailIsUnknown /\ AppendInOpenStore
       /\ OpenStoreIsAtKnown /\ FileFits

-----------------------------------------------------------------------------
Less == {ss \in Nat \X Nat : ss[1] < ss[2]}

\* The order of the naturals is well-founded.
LEMMA LessIsWellFounded == IsWellFoundedOn(Less, Nat)
BY NatLessThanWellFounded, Zenon DEF OpToRel, Less

\* A set of naturals has a least member: induction without a predicate.
LEMMA LeastMember ==
  ASSUME NEW T, T \subseteq Nat, T # {}
  PROVE  \E x \in T : \A y \in T : x <= y
<1>1. PICK x \in T : \A y \in T : ~(<<y, x>> \in Less)
  BY WFMin, LessIsWellFounded
<1>2. ASSUME NEW y \in T
      PROVE  x <= y
  <2>1. ~(y < x)
    BY <1>1 DEF Less
  <2> QED  BY <2>1
<1> QED  BY <1>2

\* scan_locked stops somewhere: at the end of the file or at the first fault.
LEMMA ScanStops ==
  ASSUME NEW f \in Seq(Records)
  PROVE  /\ ValidCount(f) \in 0..Len(f)
         /\ \A i \in 1..ValidCount(f) : Verified(f, i)
         /\ ValidCount(f) = Len(f) \/ ~Verified(f, ValidCount(f) + 1)
<1> DEFINE Faults == {i \in 1..Len(f) : ~Verified(f, i)}
           Stops(n) == /\ \A i \in 1..n : Verified(f, i)
                       /\ n = Len(f) \/ ~Verified(f, n + 1)
<1>1. \E n \in 0..Len(f) : Stops(n)
  <2>1. CASE Faults = {}
    <3>1. Stops(Len(f)) /\ Len(f) \in 0..Len(f)
      BY <2>1
    <3> HIDE DEF Stops
    <3> QED  BY <3>1
  <2>2. CASE Faults # {}
    <3>1. Faults \subseteq Nat
      OBVIOUS
    <3> HIDE DEF Faults
    <3>2. PICK x \in Faults : \A y \in Faults : x <= y
      BY <2>2, <3>1, LeastMember
    <3> USE DEF Faults
    <3>3. x \in 1..Len(f) /\ ~Verified(f, x)
      BY <3>2
    <3>4. \A i \in 1..(x - 1) : Verified(f, i)
      BY <3>2, <3>3
    <3>5. Stops(x - 1) /\ x - 1 \in 0..Len(f)
      BY <3>3, <3>4
    <3> HIDE DEF Stops
    <3> QED  BY <3>5
  <2> QED  BY <2>1, <2>2
<1>2. ValidCount(f) = CHOOSE n \in 0..Len(f) : Stops(n)
  BY DEF ValidCount
<1>3. ValidCount(f) \in 0..Len(f) /\ Stops(ValidCount(f))
  <2> HIDE DEF Stops
  <2> QED  BY <1>1, <1>2
<1> QED  BY <1>3

-----------------------------------------------------------------------------
\* The size of the file by its length and its last record.
LEMMA Sizes ==
  ASSUME NEW f \in Seq(Records)
  PROVE  /\ FileBytes(f) \in Nat /\ FileBytes(f) <= 2 * Len(f)
         /\ Len(f) = 0 => FileBytes(f) = 0
         /\ Len(f) # 0 => FileBytes(f) \in {2 * Len(f), 2 * Len(f) - 1}
         /\ Len(f) # 0 /\ f[Len(f)].state # "torn" => FileBytes(f) = 2 * Len(f)
BY DEF FileBytes, Last

\* The same, exactly.
LEMMA ExactSize ==
  ASSUME NEW f \in Seq(Records), Len(f) # 0
  PROVE  FileBytes(f) =
           2 * Len(f) - (IF f[Len(f)].state = "torn" THEN 1 ELSE 0)
BY DEF FileBytes, Last

\* The journal when the device has started.
LEMMA InitInv ==
  ASSUME JournalBounds, StoreInit
  PROVE  JournalInv
<1> USE DEF StoreInit
<1>1. Types
  <2>1. file \in Seq(Records) /\ known \in Seq(Events) /\ lost \in Limbos
    BY DEF Limbos
  <2>2. cursor \in Cursors
    BY DEF NoCursor, Cursors
  <2>3. writing \in Writes
    BY DEF Writes
  <2>4. damage \in 0..MaxDamage
    BY DEF JournalBounds
  <2>5. mounted \in BOOLEAN /\ ready \in BOOLEAN
    OBVIOUS
  <2> QED  BY <2>1, <2>2, <2>3, <2>4, <2>5 DEF Types
<1>2. FileFits
  BY DEF JournalBounds, FileFits, FileBytes
<1> QED  BY <1>1, <1>2 DEF JournalInv, KnownIsStored, TailIsUnknown, AppendInOpenStore,
            OpenStoreIsAtKnown, NoWrite

\* si_agent_event_store_append up to the size check.
LEMMA StartStep ==
  ASSUME JournalBounds, JournalInv, NEW e \in Events, StartAppend(e)
  PROVE  JournalInv'
<1>1. /\ writing = NoWrite /\ ready
      /\ UNCHANGED <<file, mounted, cursor, known, lost, damage>>
  BY DEF StartAppend
<1>2. NoWrite.at = "none" /\ Len(file) = Len(known)
  BY <1>1 DEF NoWrite, JournalInv, OpenStoreIsAtKnown
<1>3. KnownIsStored' /\ FileFits'
  BY <1>1 DEF JournalInv, KnownIsStored, FileFits
<1>4. CASE mounted /\ FileBytes(file) = cursor.bytes
  <2>1. /\ cursor.bytes + 2 <= JournalMax /\ ready' = ready
        /\ writing' = [at |-> "write", ev |-> e]
    BY <1>4 DEF StartAppend
  <2>2. writing' \in [at: {"write", "sync", "undo"}, ev: Events]
        /\ writing'.at = "write"
    BY <2>1
  <2>3. Types'
    BY <1>1, <2>1, <2>2 DEF JournalInv, Types, Writes
  <2>4. TailIsUnknown' /\ OpenStoreIsAtKnown'
    BY <1>1, <1>2, <2>1 DEF JournalInv, Types, TailIsUnknown, OpenStoreIsAtKnown
  <2>5. AppendInOpenStore'
    BY <1>1, <1>2, <1>4, <2>1, <2>2 DEF AppendInOpenStore
  <2> QED  BY <1>3, <2>3, <2>4, <2>5 DEF JournalInv
<1>5. CASE ~(mounted /\ FileBytes(file) = cursor.bytes)
  <2>1. ready' = FALSE /\ writing' = writing
    BY <1>5 DEF StartAppend
  <2>2. Types'
    BY <1>1, <2>1 DEF JournalInv, Types
  <2>3. TailIsUnknown' /\ OpenStoreIsAtKnown' /\ AppendInOpenStore'
    BY <1>1, <1>2, <2>1 DEF JournalInv, Types, TailIsUnknown, OpenStoreIsAtKnown,
       AppendInOpenStore
  <2> QED  BY <1>3, <2>2, <2>3 DEF JournalInv
<1> QED  BY <1>4, <1>5

\* fwrite and fflush: one more record, whole or torn.
LEMMA WriteStep ==
  ASSUME JournalBounds, JournalInv, WriteRecord
  PROVE  JournalInv'
<1>1. PICK state \in {"whole", "torn"} :
        /\ file' = Append(file, [Envelope(cursor, writing.ev) EXCEPT !.state = state])
        /\ writing' = [writing EXCEPT !.at = IF state = "whole" THEN "sync" ELSE "undo"]
  BY DEF WriteRecord
<1>2. /\ writing \in [at: {"write", "sync", "undo"}, ev: Events] /\ writing # NoWrite
      /\ writing.at = "write"
      /\ UNCHANGED <<mounted, ready, cursor, known, lost, damage>>
  BY DEF WriteRecord, JournalInv, Types, Writes, NoWrite
<1>3. /\ ready /\ Len(file) = Len(known) /\ FileBytes(file) + 2 <= JournalMax
      /\ lost = <<>> /\ cursor.seq = Len(known) /\ cursor.hash = known
  BY <1>2 DEF JournalInv, AppendInOpenStore, OpenStoreIsAtKnown
<1> DEFINE r == [seq |-> Len(known) + 1, previous |-> known, ev |-> writing.ev,
                 state |-> state]
<1>4. [Envelope(cursor, writing.ev) EXCEPT !.state = state] = r
  BY <1>3 DEF Envelope
<1>5. file \in Seq(Records) /\ known \in Seq(Events) /\ r \in Records
  BY <1>2 DEF JournalInv, Types, Records
<1>6. /\ file' = Append(file, r) /\ file' \in Seq(Records)
      /\ Len(file') = Len(known) + 1 /\ file'[Len(file')] = r
      /\ \A i \in 1..Len(known) : file'[i] = file[i]
  <2>1. file' = Append(file, r)
    BY <1>1, <1>4
  <2> HIDE DEF r
  <2> QED  BY <1>3, <1>5, <2>1
<1>7. /\ writing' \in [at: {"write", "sync", "undo"}, ev: Events]
      /\ writing' # NoWrite /\ writing'.ev = writing.ev
      /\ writing'.at = IF state = "whole" THEN "sync" ELSE "undo"
  BY <1>1, <1>2 DEF NoWrite
<1>8. Types'
  BY <1>2, <1>6, <1>7 DEF JournalInv, Types, Writes
<1>9. KnownIsStored'
  <2> HIDE DEF r
  <2> QED  BY <1>2, <1>6 DEF JournalInv, KnownIsStored
<1>10. TailIsUnknown'
  BY <1>2, <1>6, <1>7 DEF TailIsUnknown, Written
<1>11. AppendInOpenStore' /\ OpenStoreIsAtKnown'
  BY <1>2, <1>3, <1>6, <1>7 DEF AppendInOpenStore, OpenStoreIsAtKnown
<1>12. FileFits'
  <2>1. FileBytes(file') <= FileBytes(file) + 2
    <3>1. Len(file) # 0 => file[Len(file)].state # "torn"
      <4> SUFFICES ASSUME Len(file) # 0 PROVE file[Len(known)].state # "torn"
        BY <1>3
      <4>1. Len(known) \in 1..Len(known)
        BY <1>3, <1>5
      <4> QED  BY <4>1 DEF JournalInv, KnownIsStored
    <3>2. FileBytes(file) = 2 * Len(file)
      BY <1>5, <3>1, Sizes
    <3>3. FileBytes(file') <= 2 * Len(file')
      BY <1>6, Sizes
    <3>4. Len(file') = Len(file) + 1 /\ Len(file) \in Nat
      BY <1>3, <1>5, <1>6
    <3> HIDE DEF r
    <3> QED  BY <3>2, <3>3, <3>4
  <2>2. FileBytes(file) \in Nat /\ FileBytes(file') \in Nat
    BY <1>5, <1>6, Sizes
  <2> QED  BY <1>3, <2>1, <2>2 DEF FileFits, JournalBounds
<1> QED  BY <1>8, <1>9, <1>10, <1>11, <1>12 DEF JournalInv

\* fsync and fclose succeed: the event is acknowledged.
LEMMA SyncStep ==
  ASSUME JournalInv, SyncRecord
  PROVE  JournalInv' /\ known' = Append(known, writing.ev) /\ writing.ev \in Events
         /\ ready /\ UNCHANGED <<ready, lost>>
<1>1. /\ writing \in [at: {"write", "sync", "undo"}, ev: Events] /\ writing # NoWrite
      /\ writing.at = "sync" /\ writing' = NoWrite
      /\ known' = Append(known, writing.ev)
      /\ UNCHANGED <<file, mounted, ready, lost, damage>>
  BY DEF SyncRecord, JournalInv, Types, Writes, NoWrite
<1>2. file \in Seq(Records) /\ known \in Seq(Events) /\ known' \in Seq(Events)
      /\ writing.ev \in Events
  BY <1>1 DEF JournalInv, Types
<1>3. /\ ready /\ Len(file) = Len(known) + 1 /\ file[Len(file)].state = "whole"
      /\ lost = <<>> /\ cursor.seq = Len(known) /\ cursor.hash = known
  BY <1>1 DEF JournalInv, AppendInOpenStore, OpenStoreIsAtKnown
<1>4. Written(file[Len(file)], Len(file), writing.ev, known)
  BY <1>1, <1>3 DEF JournalInv, TailIsUnknown
<1>5. /\ cursor' \in Cursors /\ cursor'.seq = Len(known) + 1 /\ cursor'.hash = known'
  BY <1>1, <1>2, <1>3, Sizes DEF SyncRecord, EventHash, Cursors, JournalInv, Types
<1>6. /\ Len(known') = Len(known) + 1 /\ known'[Len(known) + 1] = writing.ev
      /\ \A i \in 1..Len(known) : known'[i] = known[i]
  BY <1>1, <1>2
<1>7. Types'
  BY <1>1, <1>2, <1>5 DEF JournalInv, Types, Writes
<1>8. KnownIsStored'
  <2> SUFFICES ASSUME NEW i \in 1..Len(known')
               PROVE  /\ Written(file[i], i, known'[i], [j \in 1..(i - 1) |-> known'[j]])
                      /\ file[i].state # "torn"
    BY <1>1 DEF KnownIsStored
  <2>1. CASE i \in 1..Len(known)
    <3>1. [j \in 1..(i - 1) |-> known'[j]] = [j \in 1..(i - 1) |-> known[j]]
      <4>1. \A j \in 1..(i - 1) : j \in 1..Len(known)
        BY <1>2, <2>1
      <4> QED  BY <1>6, <4>1
    <3> QED  BY <1>6, <2>1, <3>1 DEF JournalInv, KnownIsStored
  <2>2. CASE i = Len(known) + 1
    <3>1. [j \in 1..(i - 1) |-> known'[j]] = known
      BY <1>2, <1>6, <2>2
    <3> QED  BY <1>3, <1>4, <1>6, <2>2, <3>1
  <2> QED  BY <1>2, <1>6, <2>1, <2>2
<1>9. TailIsUnknown' /\ AppendInOpenStore' /\ OpenStoreIsAtKnown'
  BY <1>1, <1>2, <1>3, <1>5, <1>6
     DEF TailIsUnknown, AppendInOpenStore, OpenStoreIsAtKnown, NoWrite
<1> QED  BY <1>1, <1>2, <1>3, <1>7, <1>8, <1>9 DEF JournalInv, FileFits

\* A failed call of the append: nothing but its place changes.
LEMMA FailStep ==
  ASSUME JournalInv, SyncFails
  PROVE  JournalInv'
<1>1. /\ writing \in [at: {"write", "sync", "undo"}, ev: Events] /\ writing # NoWrite
      /\ UNCHANGED <<file, mounted, ready, cursor, known, lost, damage>>
      /\ writing' = [writing EXCEPT !.at = "undo"] /\ writing.at \in {"write", "sync"}
  BY DEF SyncFails, JournalInv, Types, Writes, NoWrite
<1>2. /\ writing' \in [at: {"write", "sync", "undo"}, ev: Events]
      /\ writing'.at = "undo" /\ writing'.ev = writing.ev /\ ready
  BY <1>1 DEF JournalInv, AppendInOpenStore
<1>3. Types'
  BY <1>1, <1>2 DEF JournalInv, Types, Writes
<1>4. KnownIsStored' /\ FileFits'
  BY <1>1 DEF JournalInv, KnownIsStored, FileFits
<1>5. TailIsUnknown'
  BY <1>1, <1>2 DEF JournalInv, TailIsUnknown, NoWrite
<1>6. AppendInOpenStore' /\ OpenStoreIsAtKnown'
  BY <1>1, <1>2 DEF JournalInv, AppendInOpenStore, OpenStoreIsAtKnown, NoWrite
<1> QED  BY <1>3, <1>4, <1>5, <1>6 DEF JournalInv

\* The file cut back to what was acknowledged.
LEMMA CutBack ==
  ASSUME JournalBounds, JournalInv, file' = SubSeq(file, 1, Len(known)), known' = known
  PROVE  /\ file' \in Seq(Records) /\ Len(file') = Len(known)
         /\ KnownIsStored' /\ FileFits'
<1>1. file \in Seq(Records) /\ known \in Seq(Events) /\ Len(known) <= Len(file)
  BY DEF JournalInv, Types, TailIsUnknown
<1>2. /\ file' \in Seq(Records) /\ Len(file') = Len(known)
      /\ \A i \in 1..Len(known) : file'[i] = file[i]
  BY <1>1
<1>3. KnownIsStored'
  BY <1>2 DEF JournalInv, KnownIsStored
<1>4. FileFits'
  <2>1. CASE Len(file) = Len(known)
    <3>1. file' = SubSeq(file, 1, Len(file)) /\ Len(file) \in Nat
      BY <1>1, <2>1
    <3>2. /\ file = [i \in 1..Len(file) |-> file[i]]
          /\ SubSeq(file, 1, Len(file)) = [i \in 1..Len(file) |-> file[i]]
      BY <1>1, SMTT(40)
    <3>3. file' = file
      BY <3>1, <3>2
    <3> QED  BY <3>3 DEF JournalInv, FileFits
  <2>2. CASE Len(file) = Len(known) + 1
    <3>1. FileBytes(file) \in {2 * Len(file), 2 * Len(file) - 1}
      <4>1. Len(known) \in Nat /\ Len(file) # 0
        BY <1>1, <2>2
      <4> QED  BY <1>1, <4>1, Sizes
    <3>2. FileBytes(file') <= 2 * Len(known)
      BY <1>2, Sizes
    <3>3. /\ FileBytes(file) \in Nat /\ FileBytes(file') \in Nat
          /\ Len(known) \in Nat
      <4>1. FileBytes(file) \in Nat
        BY <1>1, Sizes
      <4>2. FileBytes(file') \in Nat
        BY <1>2, Sizes
      <4> QED  BY <1>1, <4>1, <4>2
    <3>4. FileBytes(file') <= FileBytes(file)
      BY <2>2, <3>1, <3>2, <3>3
    <3>5. FileBytes(file) <= JournalMax
      BY DEF JournalInv, FileFits
    <3> QED  BY <3>3, <3>4, <3>5 DEF FileFits, JournalBounds
  <2> QED  BY <2>1, <2>2 DEF JournalInv, TailIsUnknown
<1> QED  BY <1>2, <1>3, <1>4

\* The undo of a failed append: cut back, or closed with the event in limbo.
LEMMA UndoStep ==
  ASSUME JournalBounds, JournalInv, UndoRecord
  PROVE  /\ JournalInv' /\ known' = known /\ ready
         /\ \/ UNCHANGED <<lost, ready>>
            \/ ~ready' /\ \E e \in Events : lost' = <<e>>
<1>1. /\ writing \in [at: {"write", "sync", "undo"}, ev: Events] /\ writing # NoWrite
      /\ writing.at = "undo" /\ writing' = NoWrite /\ NoWrite.at = "none"
      /\ UNCHANGED <<mounted, cursor, known, damage>>
  BY DEF UndoRecord, JournalInv, Types, Writes, NoWrite
<1>2. ready /\ cursor.seq = Len(known) /\ writing.ev \in Events
  BY <1>1 DEF JournalInv, AppendInOpenStore, OpenStoreIsAtKnown
<1>3. CASE file' = SubSeq(file, 1, cursor.seq) /\ UNCHANGED <<ready, lost>>
  <2>1. file' \in Seq(Records) /\ Len(file') = Len(known) /\ KnownIsStored' /\ FileFits'
    BY <1>1, <1>2, <1>3, CutBack
  <2>2. Types'
    BY <1>1, <1>3, <2>1 DEF JournalInv, Types, Writes
  <2>3. TailIsUnknown' /\ AppendInOpenStore' /\ OpenStoreIsAtKnown'
    BY <1>1, <1>3, <2>1 DEF JournalInv, Types, TailIsUnknown, AppendInOpenStore,
       OpenStoreIsAtKnown
  <2> QED  BY <1>1, <1>2, <1>3, <2>1, <2>2, <2>3 DEF JournalInv
<1>4. CASE file' = file /\ ready' = FALSE /\ lost' = <<writing.ev>>
  <2>1. Types'
    BY <1>1, <1>2, <1>4 DEF JournalInv, Types, Writes, Limbos
  <2>2. KnownIsStored' /\ FileFits'
    BY <1>1, <1>4 DEF JournalInv, KnownIsStored, FileFits
  <2>3. TailIsUnknown'
    BY <1>1, <1>2, <1>4 DEF JournalInv, TailIsUnknown
  <2>4. AppendInOpenStore' /\ OpenStoreIsAtKnown'
    BY <1>1, <1>4 DEF AppendInOpenStore, OpenStoreIsAtKnown
  <2> QED  BY <1>1, <1>2, <1>4, <2>1, <2>2, <2>3, <2>4 DEF JournalInv
<1> QED  BY <1>3, <1>4 DEF UndoRecord

\* Recovery: the scan met no fault but a torn tail, so what it hands out is
\* what was acknowledged, with or without the event in limbo.
LEMMA RecoverStep ==
  ASSUME JournalBounds, JournalInv, RecoverStore
  PROVE  /\ JournalInv' /\ known' \in {known, known \o lost} /\ lost' = <<>> /\ ready'
<1> DEFINE n == ValidCount(file)
<1>1. /\ file \in Seq(Records) /\ known \in Seq(Events) /\ lost \in Limbos
      /\ Len(known) \in Nat /\ Len(file) \in Nat
      /\ Len(file) \in {Len(known), Len(known) + 1}
  BY DEF JournalInv, Types, TailIsUnknown
<1>2. /\ n \in 0..Len(file) /\ \A i \in 1..n : Verified(file, i)
  BY <1>1, ScanStops
<1>3. n = Len(file) \/ (n + 1 = Len(file) /\ file[n + 1].state = "torn")
  BY DEF RecoverStore, ScanLocked
<1>4. /\ writing = NoWrite /\ ready' = TRUE /\ lost' = <<>>
      /\ UNCHANGED <<mounted, writing, damage>> /\ NoWrite.at = "none"
      /\ file' = SubSeq(file, 1, n) /\ cursor' = CursorOf(file')
      /\ known' = EventsOf(file')
  BY DEF RecoverStore, ScanLocked, NoWrite
<1> HIDE DEF n
<1>5. /\ file' \in Seq(Records) /\ Len(file') = n
      /\ \A i \in 1..n : file'[i] = file[i]
  BY <1>1, <1>2, <1>4
<1>6. /\ known' \in Seq(Events) /\ Len(known') = n
      /\ \A i \in 1..n : known'[i] = file[i].ev
  <2>1. \A i \in 1..n : file[i].ev \in Events
    <3> SUFFICES ASSUME NEW i \in 1..n
                 PROVE  file[i].ev \in Events
      OBVIOUS
    <3>1. file[i] \in Records
      BY <1>1, <1>2
    <3> QED  BY <3>1 DEF Records
  <2>2. known' = [i \in 1..n |-> file[i].ev]
    BY <1>4, <1>5 DEF EventsOf
  <2> QED  BY <1>2, <2>1, <2>2
<1>7. n \in {Len(known), Len(known) + 1}
  <2> SUFFICES ASSUME n + 1 = Len(file), file[n + 1].state = "torn",
                      n # Len(known)
               PROVE  FALSE
    BY <1>1, <1>2, <1>3
  <2>1. n + 1 = Len(known) /\ n + 1 \in 1..Len(known)
    BY <1>1, <1>2
  <2> QED  BY <2>1 DEF JournalInv, KnownIsStored
<1>8. \A i \in 1..Len(known) : file[i].ev = known[i]
  BY DEF JournalInv, KnownIsStored, Written
<1>9. known' \in {known, known \o lost}
  <2>1. CASE n = Len(known)
    <3>1. known' = known
      BY <1>1, <1>6, <1>8, <2>1
    <3> QED  BY <3>1
  <2>2. CASE n = Len(known) + 1
    <3>1. PICK e \in Events : /\ Written(file[Len(file)], Len(file), e, known)
                             /\ lost = <<e>>
      BY <1>1, <1>2, <1>4, <2>2 DEF JournalInv, TailIsUnknown
    <3>2. known \o lost \in Seq(Events) /\ Len(known \o lost) = n
          /\ (known \o lost)[n] = e
          /\ \A i \in 1..Len(known) : (known \o lost)[i] = known[i]
      BY <1>1, <2>2, <3>1
    <3>3. known'[n] = e
      BY <1>1, <1>2, <1>6, <2>2, <3>1 DEF Written
    <3>4. \A i \in 1..n : known'[i] = (known \o lost)[i]
      BY <1>1, <1>6, <1>8, <2>2, <3>2, <3>3
    <3>5. known' = known \o lost
      BY <1>6, <3>2, <3>4
    <3> QED  BY <3>5
  <2> QED  BY <1>7, <2>1, <2>2
<1>10. cursor' \in Cursors /\ cursor'.seq = Len(known') /\ cursor'.hash = known'
  <2>1. FileBytes(file') \in Nat /\ EventsOf(file') = known'
    BY <1>4, <1>5, Sizes
  <2> QED  BY <1>4, <1>5, <1>6, <2>1 DEF CursorOf, Cursors
<1>11. Types'
  BY <1>4, <1>5, <1>6, <1>10 DEF JournalInv, Types, Writes, Limbos
<1>12. KnownIsStored'
  <2> SUFFICES ASSUME NEW i \in 1..n
               PROVE  /\ Written(file'[i], i, known'[i], [j \in 1..(i - 1) |-> known'[j]])
                      /\ file'[i].state # "torn"
    BY <1>6 DEF KnownIsStored
  <2>1. [j \in 1..(i - 1) |-> known'[j]] = [j \in 1..(i - 1) |-> file[j].ev]
    BY <1>2, <1>6
  <2>2. Verified(file, i) /\ file'[i] = file[i] /\ known'[i] = file[i].ev
    BY <1>2, <1>5, <1>6
  <2> QED  BY <2>1, <2>2 DEF Verified, Written
<1>13. TailIsUnknown' /\ AppendInOpenStore' /\ OpenStoreIsAtKnown'
  BY <1>1, <1>2, <1>4, <1>5, <1>6, <1>10
     DEF TailIsUnknown, AppendInOpenStore, OpenStoreIsAtKnown
<1>14. FileFits'
  <2>1. CASE n = Len(file)
    <3>1. file' = file
      BY <1>1, <1>5, <2>1
    <3> QED  BY <3>1 DEF JournalInv, FileFits
  <2>2. CASE n = Len(known)
    <3>1. file' = SubSeq(file, 1, n) /\ Len(file) \in {n, n + 1}
      BY <1>1, <1>4, <2>2
    <3>2. FileBytes(file) <= JournalMax /\ FileBytes(file) \in Nat
      BY <1>1, Sizes DEF JournalInv, FileFits
    <3>3. CASE Len(file) = n + 1
      <4>1. FileBytes(file) \in {2 * n + 2, 2 * n + 1}
        BY <1>1, <1>2, <3>3, Sizes
      <4>2. FileBytes(file') <= 2 * n /\ FileBytes(file') \in Nat
        BY <1>5, Sizes
      <4>3. n \in Nat
        BY <1>1, <1>2
      <4> QED  BY <3>2, <4>1, <4>2, <4>3 DEF FileFits, JournalBounds
    <3> QED  BY <2>1, <3>1, <3>3
  <2> QED  BY <1>1, <1>2, <1>7, <2>1, <2>2
<1> QED  BY <1>4, <1>9, <1>11, <1>12, <1>13, <1>14 DEF JournalInv

\* A store that only opens or closes.
LEMMA ClosingStep ==
  ASSUME JournalInv, ready' \in BOOLEAN, ready' => ready, writing = NoWrite,
         UNCHANGED <<file, mounted, cursor, writing, known, lost, damage>>
  PROVE  JournalInv'
<1>1. Types' /\ KnownIsStored' /\ TailIsUnknown' /\ FileFits'
  BY DEF JournalInv, Types, KnownIsStored, TailIsUnknown, FileFits
<1>2. AppendInOpenStore' /\ OpenStoreIsAtKnown'
  BY DEF JournalInv, AppendInOpenStore, OpenStoreIsAtKnown, NoWrite
<1> QED  BY <1>1, <1>2 DEF JournalInv

\* One record changes its state, and with it the size of the file by one.
LEMMA RestateFile ==
  ASSUME JournalInv, NEW i \in 1..Len(file), NEW state \in {"torn", "bad"},
         file' = [file EXCEPT ![i].state = state], known' = known,
         state = "torn" => i = Len(file)
  PROVE  /\ file' \in Seq(Records) /\ Len(file') = Len(file)
         /\ \A k \in 1..Len(file) :
              /\ file'[k].ev = file[k].ev /\ file'[k].seq = file[k].seq
              /\ file'[k].previous = file[k].previous
              /\ file'[k].state = IF k = i THEN state ELSE file[k].state
<1>1. file \in Seq(Records) /\ file[i] \in Records
  BY DEF JournalInv, Types
<1>2. [file[i] EXCEPT !.state = state] \in Records
  BY <1>1 DEF Records
<1>3. file' \in Seq(Records) /\ Len(file') = Len(file)
  BY <1>1, <1>2
<1>4. ASSUME NEW k \in 1..Len(file)
      PROVE  /\ file'[k].ev = file[k].ev /\ file'[k].seq = file[k].seq
             /\ file'[k].previous = file[k].previous
             /\ file'[k].state = IF k = i THEN state ELSE file[k].state
  <2>1. CASE k = i
    BY <1>1, <2>1 DEF Records
  <2>2. CASE k # i
    BY <1>1, <2>2
  <2> QED  BY <2>1, <2>2
<1> QED  BY <1>3, <1>4

\* A record decays on the card.
LEMMA DecayStep ==
  ASSUME JournalBounds, JournalInv, Decay
  PROVE  JournalInv'
<1>1. PICK i \in DOMAIN file :
        file[i].state = "whole" /\ file' = [file EXCEPT ![i].state = "bad"]
  BY DEF Decay
<1>2. /\ writing = NoWrite /\ NoWrite.at = "none" /\ damage' \in 0..MaxDamage
      /\ UNCHANGED <<mounted, ready, cursor, writing, known, lost>>
  BY DEF Decay, NoWrite, JournalInv, Types, JournalBounds
<1>3. file \in Seq(Records) /\ known \in Seq(Events) /\ i \in 1..Len(file)
      /\ Len(file) \in {Len(known), Len(known) + 1}
  BY <1>1 DEF JournalInv, Types, TailIsUnknown
<1>4. /\ file' \in Seq(Records) /\ Len(file') = Len(file)
      /\ \A k \in 1..Len(file) :
           /\ file'[k].ev = file[k].ev /\ file'[k].seq = file[k].seq
           /\ file'[k].previous = file[k].previous
           /\ file'[k].state = IF k = i THEN "bad" ELSE file[k].state
  BY <1>1, <1>2, <1>3, RestateFile
<1>5. Types'
  BY <1>2, <1>4 DEF JournalInv, Types
<1>6. KnownIsStored'
  <2> SUFFICES ASSUME NEW k \in 1..Len(known)
               PROVE  /\ Written(file'[k], k, known[k], [j \in 1..(k - 1) |-> known[j]])
                      /\ file'[k].state # "torn"
    BY <1>2 DEF KnownIsStored
  <2>1. k \in 1..Len(file)
    BY <1>3
  <2>2. /\ Written(file[k], k, known[k], [j \in 1..(k - 1) |-> known[j]])
        /\ file[k].state # "torn"
    BY DEF JournalInv, KnownIsStored
  <2> QED  BY <1>4, <2>1, <2>2 DEF Written
<1>7. TailIsUnknown'
  BY <1>2, <1>3, <1>4, SMTT(40) DEF JournalInv, TailIsUnknown, Written
<1>8. AppendInOpenStore' /\ OpenStoreIsAtKnown'
  BY <1>2, <1>4 DEF JournalInv, AppendInOpenStore, OpenStoreIsAtKnown
<1>9. FileFits'
  <2>1. Len(file) # 0 /\ (file'[Len(file)].state = "torn" <=> file[Len(file)].state = "torn")
    <3>1. Len(file) \in 1..Len(file) /\ Len(file) # 0
      BY <1>3
    <3> QED  BY <1>1, <1>4, <3>1
  <2>2. FileBytes(file') = FileBytes(file)
    <3>1. FileBytes(file) = 2 * Len(file) - (IF file[Len(file)].state = "torn" THEN 1 ELSE 0)
      BY <1>3, <2>1, ExactSize
    <3>2. FileBytes(file') = 2 * Len(file') - (IF file'[Len(file')].state = "torn" THEN 1 ELSE 0)
      BY <1>4, <2>1, ExactSize
    <3> QED  BY <1>4, <2>1, <3>1, <3>2, SMTT(40)
  <2> QED  BY <2>2 DEF JournalInv, FileFits
<1> QED  BY <1>5, <1>6, <1>7, <1>8, <1>9 DEF JournalInv

\* A reset: the append in progress is on the card whole, in part or not.
LEMMA CrashStep ==
  ASSUME JournalBounds, JournalInv, Crash
  PROVE  /\ JournalInv' /\ known' = known /\ ~ready'
         /\ \/ lost' = lost
            \/ ready /\ \E e \in Events : lost' = <<e>>
<1>1. /\ ready' = FALSE /\ cursor' = NoCursor /\ writing' = NoWrite
      /\ UNCHANGED <<mounted, known, damage>> /\ NoWrite.at = "none"
  BY DEF Crash, NoWrite
<1>2. file \in Seq(Records) /\ known \in Seq(Events)
      /\ Len(file) \in {Len(known), Len(known) + 1}
  BY DEF JournalInv, Types, TailIsUnknown
<1>3. cursor' \in Cursors /\ AppendInOpenStore' /\ OpenStoreIsAtKnown'
  BY <1>1 DEF NoCursor, Cursors, AppendInOpenStore, OpenStoreIsAtKnown
<1>4. CASE writing = NoWrite
  <2>1. UNCHANGED <<file, lost>>
    BY <1>4 DEF Crash
  <2>2. Types' /\ KnownIsStored' /\ TailIsUnknown' /\ FileFits'
    BY <1>1, <1>3, <1>4, <2>1 DEF JournalInv, Types, KnownIsStored, TailIsUnknown, FileFits
  <2> QED  BY <1>1, <1>3, <2>1, <2>2 DEF JournalInv
<1>5. CASE writing # NoWrite
  <2>1. /\ writing \in [at: {"write", "sync", "undo"}, ev: Events] /\ ready
        /\ writing.ev \in Events /\ lost' = <<writing.ev>>
        /\ cursor.seq = Len(known)
    BY <1>5 DEF Crash, JournalInv, Types, Writes, AppendInOpenStore, OpenStoreIsAtKnown
  <2>2. lost' \in Limbos /\ writing' \in Writes
    BY <1>1, <2>1 DEF Limbos, Writes
  <2>3. CASE file' = file
    <3>1. Types' /\ KnownIsStored' /\ FileFits'
      BY <1>1, <1>3, <2>2, <2>3 DEF JournalInv, Types, KnownIsStored, FileFits
    <3>2. TailIsUnknown'
      BY <1>1, <2>1, <2>3 DEF JournalInv, TailIsUnknown, NoWrite
    <3> QED  BY <1>1, <1>3, <2>1, <3>1, <3>2 DEF JournalInv
  <2>4. CASE file' = SubSeq(file, 1, cursor.seq)
    <3>1. file' \in Seq(Records) /\ Len(file') = Len(known) /\ KnownIsStored' /\ FileFits'
      BY <1>1, <2>1, <2>4, CutBack
    <3>2. Types'
      BY <1>1, <1>3, <2>2, <3>1 DEF JournalInv, Types
    <3>3. TailIsUnknown'
      BY <1>1, <1>2, <3>1 DEF TailIsUnknown
    <3> QED  BY <1>1, <1>3, <2>1, <3>1, <3>2, <3>3 DEF JournalInv
  <2>5. CASE /\ Len(file) > cursor.seq
             /\ file' = [file EXCEPT ![Len(file)].state = "torn"]
    <3>1. Len(file) = Len(known) + 1 /\ Len(file) \in 1..Len(file)
      BY <1>2, <2>1, <2>5
    <3>2. /\ file' \in Seq(Records) /\ Len(file') = Len(file)
          /\ \A k \in 1..Len(file) :
               /\ file'[k].ev = file[k].ev /\ file'[k].seq = file[k].seq
               /\ file'[k].previous = file[k].previous
               /\ file'[k].state = IF k = Len(file) THEN "torn" ELSE file[k].state
      BY <1>1, <2>5, <3>1, RestateFile
    <3>3. Types'
      BY <1>1, <1>3, <2>2, <3>2 DEF JournalInv, Types
    <3>4. KnownIsStored'
      <4> SUFFICES ASSUME NEW k \in 1..Len(known)
                   PROVE  /\ Written(file'[k], k, known[k], [j \in 1..(k - 1) |-> known[j]])
                          /\ file'[k].state # "torn"
        BY <1>1 DEF KnownIsStored
      <4>1. k \in 1..Len(file) /\ k # Len(file)
        BY <1>2, <3>1
      <4>2. /\ Written(file[k], k, known[k], [j \in 1..(k - 1) |-> known[j]])
            /\ file[k].state # "torn"
        BY DEF JournalInv, KnownIsStored
      <4> QED  BY <3>2, <4>1, <4>2 DEF Written
    <3>5. TailIsUnknown'
      BY <1>1, <1>2, <2>1, <3>1, <3>2 DEF JournalInv, TailIsUnknown, Written, NoWrite
    <3>6. FileFits'
      <4>1. FileBytes(file') <= FileBytes(file)
        BY <1>2, <3>1, <3>2 DEF FileBytes, Last
      <4>2. FileBytes(file) \in Nat
        BY <1>2, Sizes
      <4>3. FileBytes(file') \in Nat
        BY <3>2, Sizes
      <4>4. FileBytes(file) <= JournalMax
        BY DEF JournalInv, FileFits
      <4> QED  BY <4>1, <4>2, <4>3, <4>4 DEF FileFits, JournalBounds
    <3> QED  BY <1>1, <1>3, <2>1, <3>3, <3>4, <3>5, <3>6 DEF JournalInv
  <2> QED  BY <1>5, <2>3, <2>4, <2>5 DEF Crash
<1> QED  BY <1>4, <1>5

-----------------------------------------------------------------------------
\* Every step keeps the invariant.
LEMMA InvStep ==
  ASSUME JournalBounds, JournalInv, [StoreNext]_storeVars
  PROVE  JournalInv'
<1>1. CASE UNCHANGED storeVars
  BY <1>1 DEF storeVars, JournalInv, Types, KnownIsStored, TailIsUnknown,
     AppendInOpenStore, OpenStoreIsAtKnown, FileFits
<1>2. CASE RecoverFails \/ Replay
  BY <1>2, ClosingStep DEF RecoverFails, Replay
<1>3. CASE Remount
  <2>1. mounted' \in BOOLEAN
        /\ UNCHANGED <<file, ready, cursor, writing, known, lost, damage>>
    BY <1>3 DEF Remount
  <2> QED  BY <2>1 DEF JournalInv, Types, KnownIsStored, TailIsUnknown,
              AppendInOpenStore, OpenStoreIsAtKnown, FileFits
<1> QED  BY <1>1, <1>2, <1>3, StartStep, WriteStep, SyncStep, FailStep, UndoStep,
            RecoverStep, CrashStep, DecayStep DEF StoreNext

\* The invariant holds of every behaviour.
LEMMA Invariance ==
  ASSUME JournalBounds
  PROVE  StoreSpec => []JournalInv
<1>1. JournalInv /\ [StoreNext]_storeVars => JournalInv'
  BY InvStep
<1>2. StoreInit => JournalInv
  BY InitInv
<1> QED  BY <1>1, <1>2, PTL DEF StoreSpec

\* Nothing that agent_event_store.c acknowledged is dropped or reordered by
\* write errors, failed undos, resets, decay and recoveries, at most one record
\* is behind it, and an open store agrees with its file.
THEOREM JournalKeepsRecords ==
  ASSUME JournalBounds
  PROVE  StoreSpec => []RecordsAreKept
<1>1. JournalInv => RecordsAreKept
  <2> SUFFICES ASSUME JournalInv PROVE RecordsAreKept
    OBVIOUS
  <2>1. /\ file \in Seq(Records) /\ known \in Seq(Events) /\ lost \in Limbos
        /\ Len(file) \in {Len(known), Len(known) + 1}
    BY DEF JournalInv, Types, TailIsUnknown
  <2>2. \A i \in 1..Len(known) : file[i].ev = known[i] /\ file[i].seq = i
    BY DEF JournalInv, KnownIsStored, Written
  <2>3. StoreTypeOK
    <3>1. \A i \in DOMAIN file : file[i].state \in {"whole", "torn", "bad"}
      <4> SUFFICES ASSUME NEW i \in DOMAIN file
                   PROVE  file[i].state \in {"whole", "torn", "bad"}
        OBVIOUS
      <4>1. file[i] \in Records
        BY <2>1
      <4> QED  BY <4>1 DEF Records
    <3>2. \A i \in 1..(Len(file) - 1) : file[i].state # "torn"
      <4>1. \A i \in 1..(Len(file) - 1) : i \in 1..Len(known)
        BY <2>1
      <4>2. \A i \in 1..Len(known) : file[i].state # "torn"
        BY DEF JournalInv, KnownIsStored
      <4> QED  BY <4>1, <4>2
    <3>3. writing.at \in {"none", "write", "sync", "undo"}
      BY DEF JournalInv, Types, Writes, NoWrite
    <3> QED  BY <3>1, <3>2, <3>3 DEF StoreTypeOK, JournalInv, Types, FileFits
  <2>4. AcknowledgedIsStored
    <3>1. \A i \in DOMAIN known : file[i].ev = known[i] /\ file[i].seq = i
      BY <2>1, <2>2
    <3>2. Len(file) = Len(known) + 1 =>
            file[Len(file)].ev \in {writing.ev} \cup Range(lost)
      <4> SUFFICES ASSUME Len(file) = Len(known) + 1
                   PROVE  file[Len(file)].ev \in {writing.ev} \cup Range(lost)
        OBVIOUS
      <4>1. PICK e \in Events :
              /\ file[Len(file)].ev = e
              /\ writing.ev = e \/ lost = <<e>>
        BY DEF JournalInv, TailIsUnknown, Written
      <4>2. lost = <<e>> => e \in Range(lost)
        BY DEF Range
      <4> QED  BY <4>1, <4>2
    <3> QED  BY <2>1, <3>1, <3>2 DEF AcknowledgedIsStored
  <2>5. OpenStoreMatchesFile
    <3> SUFFICES ASSUME ready, writing = NoWrite
                 PROVE  /\ cursor = [CursorOf(file) EXCEPT !.bytes = cursor.bytes]
                        /\ cursor.hash = known
      BY DEF OpenStoreMatchesFile
    <3>1. cursor.seq = Len(file) /\ cursor.hash = known /\ Len(file) = Len(known)
      BY DEF JournalInv, OpenStoreIsAtKnown
    <3>2. EventsOf(file) = known
      BY <2>1, <2>2, <3>1 DEF EventsOf
    <3>3. cursor \in Cursors
      BY DEF JournalInv, Types
    <3> QED  BY <3>1, <3>2, <3>3 DEF CursorOf, Cursors
  <2> QED  BY <2>3, <2>4, <2>5 DEF RecordsAreKept
<1> QED  BY <1>1, Invariance, PTL

\* Every step of the journal is one of the log, or leaves it alone.
LEMMA LogStep ==
  ASSUME JournalBounds, JournalInv, [StoreNext]_storeVars
  PROVE  [Log!LogNext]_<<known, lost, ready>>
<1>1. CASE UNCHANGED storeVars
  BY <1>1 DEF storeVars
<1>2. CASE \/ WriteRecord \/ SyncFails \/ Remount \/ Decay
  BY <1>2 DEF WriteRecord, SyncFails, Remount, Decay
<1>3. ASSUME NEW e \in Events, StartAppend(e)
      PROVE  [Log!LogNext]_<<known, lost, ready>>
  BY <1>3 DEF StartAppend, Log!LogNext, Log!Stop
<1>4. CASE RecoverFails \/ Replay
  <2>1. UNCHANGED <<known, lost>> /\ (ready' = ready \/ ready' = FALSE)
    BY <1>4 DEF RecoverFails, Replay, JournalInv, Types
  <2> QED  BY <2>1 DEF Log!LogNext, Log!Stop
<1>5. CASE SyncRecord
  BY <1>5, SyncStep DEF Log!LogNext, Log!Store
<1>6. CASE UndoRecord
  BY <1>6, UndoStep DEF Log!LogNext, Log!Refuse, JournalInv, Types
<1>7. CASE RecoverStore
  BY <1>7, RecoverStep DEF Log!LogNext, Log!Recover, JournalInv, Types
<1>8. CASE Crash
  BY <1>8, CrashStep DEF Log!LogNext, Log!Restart, Log!Stop, Log!RestartDuring,
     JournalInv, Types
<1> QED  BY <1>1, <1>2, <1>3, <1>4, <1>5, <1>6, <1>7, <1>8 DEF StoreNext

\* The journal implements DurableLog: recoveries neither lose nor reorder what
\* was acknowledged, and the event of an append that nobody was told about is
\* decided for or against once (agent_event_store.c).
THEOREM JournalIsDurable ==
  ASSUME JournalBounds
  PROVE  StoreSpec => ImplementsDurableLog
<1>1. StoreInit => Log!LogInit
  BY DEF StoreInit, Log!LogInit
<1>2. JournalInv /\ [StoreNext]_storeVars => [Log!LogNext]_<<known, lost, ready>>
  BY LogStep
<1> QED  BY <1>1, <1>2, Invariance, PTL DEF StoreSpec, ImplementsDurableLog, Log!LogSpec

-----------------------------------------------------------------------------
(* The agent's files. *)

\* What a line of the memory file can be.
MemoryLines == [rec: Memories \cup {Raw}, nl: BOOLEAN]

FileTypes ==
  /\ mem \in Seq(MemoryLines) /\ Len(mem) <= FileLines
  /\ ckpt \in Files!Checkpoints \cup {Files!NoCheckpoint}
  /\ tmp \in Files!Checkpoints \cup {Files!NoCheckpoint}
  /\ lock = Files!Unlocked
       \/ \E o \in {"write", "remove", "rename", "unlink"}, n \in Files!Checkpoints :
            lock = [op |-> o, next |-> n]
  /\ stored \subseteq Memories /\ gap \in BOOLEAN /\ faults \in 0..FileFaults

\* The checkpoint file is the newest, except that a step before the rename
\* removed it or a write broke off there; what is about to be unlinked is what
\* the file holds.
CheckpointIsNewest ==
  /\ \/ ckpt = newest
     \/ ckpt = Files!NoCheckpoint /\ gap = TRUE
     \/ ckpt = Files!NoCheckpoint /\ lock.op = "rename"
  /\ lock.op = "unlink" => lock.next = ckpt /\ ckpt # Files!NoCheckpoint

FileInv == FileTypes /\ CheckpointIsNewest /\ Files!StoredMemoryIsRead

\* Nothing is stored at first.
LEMMA FilesInitially ==
  ASSUME Files!FilesBounds, Files!RepositoryInit
  PROVE  FileInv
<1>0. gap \in BOOLEAN  BY DEF Files!RepositoryInit
<1>1. FileTypes
  BY <1>0 DEF Files!FilesBounds, Files!RepositoryInit, FileTypes, Files!Unlocked
<1>2. CheckpointIsNewest /\ Files!StoredMemoryIsRead
  BY DEF Files!RepositoryInit, CheckpointIsNewest, Files!StoredMemoryIsRead, Files!Unlocked
<1> QED  BY <1>1, <1>2 DEF FileInv

\* Ending a torn line changes nothing else.
LEMMA EndedKeeps ==
  ASSUME NEW f \in Seq(MemoryLines)
  PROVE  /\ Files!Ended(f) \in Seq(MemoryLines) /\ Len(Files!Ended(f)) = Len(f)
         /\ Files!HasNewline(Files!Ended(f))
         /\ \A i \in 1..Len(f) :
              Files!Ended(f)[i].rec = f[i].rec /\ (f[i].nl => Files!Ended(f)[i].nl)
<1>1. CASE Files!HasNewline(f)
  BY <1>1 DEF Files!Ended
<1>2. CASE ~Files!HasNewline(f)
  <2>1. f # <<>> /\ Len(f) \in 1..Len(f)  BY <1>2 DEF Files!HasNewline
  <2> DEFINE n == Len(f)
             l == [f[n] EXCEPT !.nl = TRUE]
  <2>2. Files!Ended(f) = [f EXCEPT ![n] = l]
    BY <1>2 DEF Files!Ended
  <2>3. f[n] \in MemoryLines  BY <2>1
  <2>4. l \in MemoryLines /\ l.nl = TRUE /\ l.rec = f[n].rec
    BY <2>3 DEF MemoryLines
  <2> HIDE DEF l
  <2>5. /\ Files!Ended(f) \in Seq(MemoryLines) /\ Len(Files!Ended(f)) = n
        /\ Files!Ended(f)[n] = l /\ \A i \in 1..n : i # n => Files!Ended(f)[i] = f[i]
    BY <2>1, <2>2, <2>4
  <2>6. Files!HasNewline(Files!Ended(f))
    BY <2>1, <2>4, <2>5 DEF Files!HasNewline, Files!Last
  <2>7. \A i \in 1..n : Files!Ended(f)[i].rec = f[i].rec /\ (f[i].nl => Files!Ended(f)[i].nl)
    BY <2>4, <2>5
  <2> QED  BY <2>5, <2>6, <2>7
<1> QED  BY <1>1, <1>2

\* Behind a whole line a record, or a part of it, is a line of its own.
LEMMA WrittenBehind ==
  ASSUME NEW f \in Seq(MemoryLines), Files!HasNewline(f), NEW r \in Memories,
         NEW o \in {"nothing", "fragment", "unterminated", "line"}
  PROVE  /\ Files!Written(f, r, o) \in Seq(MemoryLines)
         /\ Len(Files!Written(f, r, o)) <= Len(f) + 1 /\ Len(Files!Written(f, r, o)) >= Len(f)
         /\ \A i \in 1..Len(f) : Files!Written(f, r, o)[i] = f[i]
         /\ o = "line" => /\ Len(Files!Written(f, r, o)) = Len(f) + 1
                          /\ Files!Written(f, r, o)[Len(f) + 1].rec = r
                          /\ Files!Written(f, r, o)[Len(f) + 1].nl
<1> DEFINE l == [rec |-> IF o = "fragment" THEN Raw ELSE r, nl |-> o = "line"]
<1>1. CASE o = "nothing"  BY <1>1 DEF Files!Written
<1>2. CASE o # "nothing"
  <2>1. Files!Written(f, r, o) = Append(f, l)  BY <1>2 DEF Files!Written
  <2>2. l \in MemoryLines  BY DEF MemoryLines
  <2>3. o = "line" => l.rec = r /\ l.nl  OBVIOUS
  <2> HIDE DEF l
  <2>4. /\ Append(f, l) \in Seq(MemoryLines) /\ Len(Append(f, l)) = Len(f) + 1
        /\ \A i \in 1..Len(f) : Append(f, l)[i] = f[i]
        /\ Append(f, l)[Len(f) + 1] = l
    BY <2>2
  <2> QED  BY <2>1, <2>3, <2>4
<1> QED  BY <1>1, <1>2

\* What was stored stays readable in a file that only gained lines.
LEMMA StillHolds ==
  ASSUME NEW f, NEW g, Len(f) \in Nat, Len(g) \in Nat, Len(f) <= Len(g),
         \A i \in 1..Len(f) : g[i].rec = f[i].rec /\ (f[i].nl => g[i].nl),
         NEW r, Files!Holds(f, r)
  PROVE  Files!Holds(g, r)
<1>1. PICK i \in 1..Len(f) : f[i].nl /\ f[i].rec = r  BY DEF Files!Holds
<1>2. i \in 1..Len(g)  OBVIOUS
<1> QED  BY <1>1, <1>2 DEF Files!Holds

\* Appending to the memory file.
LEMMA MemoryAppendIsSafe ==
  ASSUME Files!FilesBounds, FileInv, NEW r \in Memories, Files!MemoryAppend(r)
  PROVE  FileInv'
<1> DEFINE f == Files!Ended(mem)
<1>1. mem \in Seq(MemoryLines) /\ Len(mem) < FileLines /\ FileLines \in Nat /\ Len(mem) \in Nat
  BY DEF FileInv, FileTypes, Files!MemoryAppend, Files!FilesBounds
<1>2. /\ f \in Seq(MemoryLines) /\ Len(f) = Len(mem) /\ Files!HasNewline(f)
      /\ \A i \in 1..Len(mem) : f[i].rec = mem[i].rec /\ (mem[i].nl => f[i].nl)
  BY <1>1, EndedKeeps
<1>3. PICK o \in {"nothing", "fragment", "unterminated", "line"} :
        /\ mem' = Files!Written(f, r, o)
        /\ stored' = stored \cup (IF o = "line" THEN {r} ELSE {}) \/ stored' = stored
  BY DEF Files!MemoryAppend, Files!Outcomes
<1>4. faults' \in 0..FileFaults
  BY DEF FileInv, FileTypes, Files!MemoryAppend, Files!FilesBounds
<1>5. UNCHANGED <<ckpt, tmp, lock, newest, gap>>  BY DEF Files!MemoryAppend
<1> HIDE DEF f
<1>6. /\ mem' \in Seq(MemoryLines) /\ Len(mem') <= Len(mem) + 1 /\ Len(mem') >= Len(mem)
      /\ \A i \in 1..Len(mem) : mem'[i] = f[i]
      /\ o = "line" => /\ Len(mem') = Len(mem) + 1 /\ mem'[Len(mem) + 1].rec = r
                       /\ mem'[Len(mem) + 1].nl
  BY <1>2, <1>3, WrittenBehind
<1>7. Len(mem') \in Nat /\ Len(mem') <= FileLines  BY <1>1, <1>6
<1>8. FileTypes'
  <2>1. stored' \subseteq Memories  BY <1>3 DEF FileInv, FileTypes
  <2>2. ckpt' \in Files!Checkpoints \cup {Files!NoCheckpoint}
        /\ tmp' \in Files!Checkpoints \cup {Files!NoCheckpoint}
    BY <1>5 DEF FileInv, FileTypes
  <2>3. lock' = Files!Unlocked
       \/ \E o2 \in {"write", "remove", "rename", "unlink"}, n \in Files!Checkpoints :
            lock' = [op |-> o2, next |-> n]
    BY <1>5 DEF Files!MemoryAppend
  <2>4. gap' \in BOOLEAN  BY <1>5 DEF FileInv, FileTypes
  <2> QED  BY <1>4, <1>6, <1>7, <2>1, <2>2, <2>3, <2>4 DEF FileTypes
<1>9. CheckpointIsNewest'  BY <1>5 DEF FileInv, CheckpointIsNewest
<1>10. Files!StoredMemoryIsRead'
  <2> SUFFICES ASSUME NEW q \in stored' PROVE Files!Holds(mem', q)
    BY DEF Files!StoredMemoryIsRead, Files!Holds
  <2>1. CASE q \in stored
    <3>1. Files!Holds(mem, q)  BY <2>1 DEF FileInv, Files!StoredMemoryIsRead
    <3>2. \A i \in 1..Len(mem) : mem'[i].rec = mem[i].rec /\ (mem[i].nl => mem'[i].nl)
      BY <1>2, <1>6
    <3> QED  BY <1>1, <1>6, <1>7, <3>1, <3>2, StillHolds
  <2>2. CASE q \notin stored
    <3>1. o = "line" /\ q = r  BY <1>3, <2>2
    <3>2. Len(mem) + 1 \in 1..Len(mem')  BY <1>1, <1>6, <3>1
    <3> QED  BY <1>6, <3>1, <3>2 DEF Files!Holds
  <2> QED  BY <2>1, <2>2
<1> QED  BY <1>8, <1>9, <1>10 DEF FileInv

\* The steps of the checkpoint: the memory file is left alone.
LEMMA CheckpointStepIsSafe ==
  ASSUME FileInv, FileTypes', CheckpointIsNewest', UNCHANGED <<mem, stored>>
  PROVE  FileInv'
BY DEF FileInv, Files!StoredMemoryIsRead, Files!Holds

\* An operation on the checkpoint takes the lock.
LEMMA BeginIsSafe ==
  ASSUME FileInv, NEW o \in {"write", "unlink"}, NEW n \in Files!Checkpoints,
         Files!Begin(o, n), o = "unlink" => n = ckpt /\ ckpt # Files!NoCheckpoint
  PROVE  FileInv'
<1>1. /\ lock = Files!Unlocked /\ lock' = [op |-> o, next |-> n]
      /\ UNCHANGED <<mem, ckpt, tmp, stored, newest, gap, faults>>
  BY DEF Files!Begin
<1>2. lock.op = "free" /\ lock'.op = o /\ lock'.next = n  BY <1>1 DEF Files!Unlocked
<1>3. FileTypes'
  <2>1. \E o2 \in {"write", "remove", "rename", "unlink"}, n2 \in Files!Checkpoints :
          lock' = [op |-> o2, next |-> n2]
    BY <1>1
  <2> QED  BY <1>1, <2>1 DEF FileInv, FileTypes
<1>4. CheckpointIsNewest'  BY <1>1, <1>2 DEF FileInv, CheckpointIsNewest
<1> QED  BY <1>1, <1>3, <1>4, CheckpointStepIsSafe

\* Every step of the repository keeps the invariant.
LEMMA FilesStep ==
  ASSUME Files!FilesBounds, FileInv, Files!RepositoryNext
  PROVE  FileInv'
<1>t. /\ mem \in Seq(MemoryLines) /\ Len(mem) <= FileLines
      /\ ckpt \in Files!Checkpoints \cup {Files!NoCheckpoint}
      /\ tmp \in Files!Checkpoints \cup {Files!NoCheckpoint}
      /\ stored \subseteq Memories /\ faults \in 0..FileFaults /\ FileFaults \in Nat
      /\ gap \in BOOLEAN
      /\ FileLines \in Nat
  BY DEF FileInv, FileTypes, Files!FilesBounds
<1>l. lock = Files!Unlocked
       \/ \E o \in {"write", "remove", "rename", "unlink"}, n \in Files!Checkpoints :
            lock = [op |-> o, next |-> n]
  BY DEF FileInv, FileTypes
<1>f. Files!Unlocked.op = "free"  BY DEF Files!Unlocked
<1>1. CASE \E r \in Memories : Files!MemoryAppend(r)
  BY <1>1, MemoryAppendIsSafe
<1>2. CASE \E c \in Files!Checkpoints : Files!CheckpointWrite(c)
  BY <1>2, BeginIsSafe DEF Files!CheckpointWrite
<1>3. CASE \E j \in Jobs : Files!ClearIfJob(j)
  BY <1>3, <1>t, BeginIsSafe DEF Files!ClearIfJob
<1>4. CASE Files!RevokePageContext
  <2>1. ckpt \in Files!Checkpoints  BY <1>4, <1>t DEF Files!RevokePageContext
  <2>2. [ckpt EXCEPT !.context = FALSE] \in Files!Checkpoints
    BY <2>1 DEF Files!Checkpoints
  <2> QED  BY <1>4, <2>2, BeginIsSafe DEF Files!RevokePageContext
<1>5. CASE Files!WriteTmp
  <2>1. PICK n \in Files!Checkpoints : lock = [op |-> "write", next |-> n]
    BY <1>5, <1>l, <1>f DEF Files!WriteTmp
  <2>2. /\ \/ tmp' = n /\ lock' = [op |-> "remove", next |-> n] /\ faults' = faults
           \/ /\ faults < FileFaults /\ faults' = faults + 1 /\ tmp' = Files!NoCheckpoint
              /\ lock' = Files!Unlocked
        /\ UNCHANGED <<mem, ckpt, stored, newest, gap>>
    BY <1>5, <2>1 DEF Files!WriteTmp
  <2>3. faults' \in 0..FileFaults  BY <1>t, <2>2
  <2>4. tmp' \in Files!Checkpoints \cup {Files!NoCheckpoint}  BY <2>2
  <2>5. FileTypes'
    <3>1. CASE lock' = Files!Unlocked
      BY <1>t, <2>2, <2>3, <2>4, <3>1 DEF FileTypes
    <3>2. CASE lock' = [op |-> "remove", next |-> n]
      BY <1>t, <2>2, <2>3, <2>4, <3>2 DEF FileTypes
    <3> QED  BY <2>2, <3>1, <3>2
  <2>6. CheckpointIsNewest'
    <3>1. lock.op = "write" /\ lock'.op \in {"remove", "free"}  BY <1>f, <2>1, <2>2
    <3> QED  BY <2>2, <3>1 DEF FileInv, CheckpointIsNewest
  <2> QED  BY <2>2, <2>5, <2>6, CheckpointStepIsSafe
<1>6. CASE Files!RemoveOld
  <2>1. PICK n \in Files!Checkpoints : lock = [op |-> "remove", next |-> n]
    BY <1>6, <1>l, <1>f DEF Files!RemoveOld
  <2>2. /\ \/ ckpt' = Files!NoCheckpoint /\ faults' = faults
           \/ faults < FileFaults /\ faults' = faults + 1 /\ ckpt' = ckpt
        /\ lock' = [op |-> "rename", next |-> n]
        /\ UNCHANGED <<mem, tmp, stored, newest, gap>>
    BY <1>6, <2>1 DEF Files!RemoveOld
  <2>3. faults' \in 0..FileFaults /\ ckpt' \in Files!Checkpoints \cup {Files!NoCheckpoint}
    BY <1>t, <2>2
  <2>4. FileTypes'  BY <1>t, <2>2, <2>3 DEF FileTypes
  <2>5. lock.op = "remove" /\ lock'.op = "rename"  BY <2>1, <2>2
  <2>6. CheckpointIsNewest'
    <3>1. ckpt = newest \/ (ckpt = Files!NoCheckpoint /\ gap = TRUE)
      BY <2>5 DEF FileInv, CheckpointIsNewest
    <3>2. /\ \/ ckpt' = newest'
             \/ ckpt' = Files!NoCheckpoint /\ gap' = TRUE
             \/ ckpt' = Files!NoCheckpoint /\ lock'.op = "rename"
      BY <2>2, <2>5, <3>1
    <3> QED  BY <2>5, <3>2 DEF CheckpointIsNewest, Files!NoCheckpoint
  <2> QED  BY <2>2, <2>4, <2>6, CheckpointStepIsSafe
<1>7. CASE Files!Rename
  <2>1. lock.op = "rename" /\ lock' = Files!Unlocked /\ UNCHANGED <<mem, stored>>
        /\ tmp' = Files!NoCheckpoint
    BY <1>7 DEF Files!Rename
  <2>2. \/ ckpt' = tmp /\ newest' = tmp /\ gap' = FALSE /\ faults' = faults
        \/ /\ faults < FileFaults /\ faults' = faults + 1 /\ newest' = newest
           /\ ckpt = Files!NoCheckpoint /\ ckpt' = ckpt /\ gap' = TRUE
        \/ ckpt # Files!NoCheckpoint /\ UNCHANGED <<ckpt, newest, gap, faults>>
    BY <1>7 DEF Files!Rename
  <2>g. gap' \in BOOLEAN  BY <1>t, <2>2, Zenon
  <2>3. faults' \in 0..FileFaults  BY <1>t, <2>2
  <2>4. ckpt' \in Files!Checkpoints \cup {Files!NoCheckpoint}  BY <1>t, <2>2
  <2>5. FileTypes'  BY <1>t, <2>1, <2>3, <2>4, <2>g DEF FileTypes
  <2>6. ckpt' = newest' \/ (ckpt' = Files!NoCheckpoint /\ gap' = TRUE)
    BY <2>2 DEF FileInv, CheckpointIsNewest
  <2>7. CheckpointIsNewest'
    BY <1>f, <2>1, <2>6 DEF CheckpointIsNewest, Files!NoCheckpoint
  <2> QED  BY <2>1, <2>5, <2>7, CheckpointStepIsSafe
<1>8. CASE Files!Unlink
  <2>1. lock.op = "unlink" /\ lock' = Files!Unlocked /\ UNCHANGED <<mem, stored>>
    BY <1>8 DEF Files!Unlink
  <2>2. \/ /\ ckpt' = Files!NoCheckpoint /\ tmp' = Files!NoCheckpoint /\ faults' = faults
           /\ newest' = (IF newest.job = lock.next.job THEN Files!NoCheckpoint ELSE newest)
           /\ gap' = FALSE
        \/ faults < FileFaults /\ faults' = faults + 1 /\ UNCHANGED <<ckpt, tmp, newest, gap>>
    BY <1>8 DEF Files!Unlink
  <2>g. gap' \in BOOLEAN  BY <1>t, <2>2, Zenon
  <2>3. faults' \in 0..FileFaults  BY <1>t, <2>2
  <2>4. /\ ckpt' \in Files!Checkpoints \cup {Files!NoCheckpoint}
        /\ tmp' \in Files!Checkpoints \cup {Files!NoCheckpoint}
    BY <1>t, <2>2
  <2>5. FileTypes'  BY <1>t, <2>1, <2>3, <2>4, <2>g DEF FileTypes
  <2>6. ckpt' = newest'
    BY <2>1, <2>2 DEF FileInv, CheckpointIsNewest
  <2>7. CheckpointIsNewest'  BY <1>f, <2>1, <2>6 DEF CheckpointIsNewest
  <2> QED  BY <2>1, <2>5, <2>7, CheckpointStepIsSafe
<1>9. CASE Files!CheckpointClear
  <2>1. /\ lock = Files!Unlocked /\ lock' = Files!Unlocked /\ UNCHANGED <<mem, stored>>
        /\ tmp' = Files!NoCheckpoint
        /\ \/ /\ ckpt' = Files!NoCheckpoint /\ newest' = Files!NoCheckpoint /\ gap' = FALSE
              /\ faults' = faults
           \/ faults < FileFaults /\ faults' = faults + 1 /\ UNCHANGED <<ckpt, newest, gap>>
    BY <1>9 DEF Files!CheckpointClear
  <2>g. gap' \in BOOLEAN  BY <1>t, <2>1, Zenon
  <2>2. /\ faults' \in 0..FileFaults
        /\ ckpt' \in Files!Checkpoints \cup {Files!NoCheckpoint}
    BY <1>t, <2>1
  <2>3. FileTypes'  BY <1>t, <2>1, <2>2, <2>g DEF FileTypes
  <2>4. CheckpointIsNewest'  BY <1>f, <2>1 DEF FileInv, CheckpointIsNewest
  <2> QED  BY <2>1, <2>3, <2>4, CheckpointStepIsSafe
<1>10. ASSUME NEW h \in BOOLEAN, NEW m \in BOOLEAN, NEW c \in BOOLEAN, Files!Clear(h, m, c)
       PROVE  FileInv'
  <2>1. lock = Files!Unlocked /\ lock' = lock  BY <1>10 DEF Files!Clear
  <2>2. /\ mem' \in {mem, <<>>} /\ (mem' = <<>> => stored' = {}) /\ stored' \in {stored, {}}
        /\ (mem' # <<>> => mem' = mem)
    <3>1. mem = <<>> => stored = {}
      BY DEF FileInv, Files!StoredMemoryIsRead, Files!Holds
    <3>2. \/ /\ mem' = (IF m THEN <<>> ELSE mem) /\ stored' = (IF m THEN {} ELSE stored)
          \/ /\ mem' \in {mem} \cup (IF m THEN {<<>>} ELSE {})
             /\ stored' = (IF mem' = <<>> THEN {} ELSE stored)
      BY <1>10 DEF Files!Clear
    <3> QED  BY <3>1, <3>2
  <2>3. /\ \/ /\ ckpt' = Files!NoCheckpoint /\ tmp' = Files!NoCheckpoint
              /\ newest' = Files!NoCheckpoint /\ gap' = FALSE
           \/ UNCHANGED <<ckpt, newest, gap>> /\ tmp' \in {tmp, Files!NoCheckpoint}
        /\ faults' = faults \/ (faults < FileFaults /\ faults' = faults + 1)
    BY <1>10 DEF Files!Clear
  <2>g. gap' \in BOOLEAN  BY <1>t, <2>3, Zenon
  <2>4. faults' \in 0..FileFaults  BY <1>t, <2>3
  <2>5. FileTypes'
    <3>1. mem' \in Seq(MemoryLines) /\ Len(mem') <= FileLines
      <4>1. CASE mem' = <<>>
        <5>1. Len(mem') = 0 /\ mem' \in Seq(MemoryLines)  BY <4>1
        <5> QED  BY <5>1 DEF Files!FilesBounds
      <4>2. CASE mem' # <<>>  BY <1>t, <2>2, <4>2
      <4> QED  BY <4>1, <4>2
    <3>2. stored' \subseteq Memories  BY <1>t, <2>2
    <3>3. /\ ckpt' \in Files!Checkpoints \cup {Files!NoCheckpoint}
          /\ tmp' \in Files!Checkpoints \cup {Files!NoCheckpoint}
      BY <1>t, <2>3
    <3> QED  BY <2>1, <2>4, <2>g, <3>1, <3>2, <3>3 DEF FileTypes
  <2>6. CheckpointIsNewest'
    BY <1>f, <2>1, <2>3 DEF FileInv, CheckpointIsNewest
  <2>7. Files!StoredMemoryIsRead'
    <3>1. CASE mem' = <<>>  BY <2>2, <3>1 DEF Files!StoredMemoryIsRead
    <3>2. CASE mem' # <<>>
      BY <2>2, <3>2 DEF FileInv, Files!StoredMemoryIsRead, Files!Holds
    <3> QED  BY <3>1, <3>2
  <2> QED  BY <2>5, <2>6, <2>7 DEF FileInv
<1>11. CASE Files!Reset
  <2>1. /\ lock' = Files!Unlocked /\ UNCHANGED <<mem, stored, ckpt, tmp, newest>>
        /\ faults < FileFaults /\ faults' = faults + 1
        /\ gap' = (gap \/ (lock.op = "rename" /\ ckpt = Files!NoCheckpoint))
    BY <1>11 DEF Files!Reset
  <2>g. gap' \in BOOLEAN  BY <1>t, <2>1, Zenon
  <2>2. faults' \in 0..FileFaults  BY <1>t, <2>1
  <2>3. FileTypes'  BY <1>t, <2>1, <2>2, <2>g DEF FileTypes
  <2>4. ckpt' = newest' \/ (ckpt' = Files!NoCheckpoint /\ gap' = TRUE)
    BY <1>t, <2>1 DEF FileInv, CheckpointIsNewest
  <2>5. CheckpointIsNewest'  BY <1>f, <2>1, <2>4 DEF CheckpointIsNewest
  <2> QED  BY <2>1, <2>3, <2>5, CheckpointStepIsSafe
<1> QED
  BY <1>1, <1>2, <1>3, <1>4, <1>5, <1>6, <1>7, <1>8, <1>9, <1>10, <1>11
     DEF Files!RepositoryNext, Files!ClearHistory, Files!ClearMemory, Files!ClearAll

\* What the invariant says to those who read the files.
LEMMA FilesMeaning ==
  ASSUME FileInv
  PROVE  /\ Files!RepositoryTypeOK /\ Files!StoredMemoryIsRead
         /\ Files!NewestCheckpointIsKept
<1>1. lock \in [op: {"write", "remove", "rename", "unlink"}, next: Files!Checkpoints]
              \cup {Files!Unlocked}
  BY DEF FileInv, FileTypes
<1>2. Files!RepositoryTypeOK
  BY <1>1 DEF FileInv, FileTypes, MemoryLines, Files!RepositoryTypeOK
<1>3. Files!NewestCheckpointIsKept
  BY DEF FileInv, CheckpointIsNewest, Files!NewestCheckpointIsKept, Files!Unlocked
<1> QED  BY <1>2, <1>3 DEF FileInv

-----------------------------------------------------------------------------
(* The history writer. *)

Pool == History!Pool
SlotStates == {"free", "queued", "writing", "complete"}

\* A slot that is signalled has its answer, or is free again.
SlotOK(s) ==
  /\ {"state", "gen", "waiting", "done"} \subseteq DOMAIN s
  /\ s.state \in SlotStates /\ s.gen \in Nat
  /\ s.waiting \in BOOLEAN /\ s.done \in BOOLEAN
  /\ s.state # "free" => "turn" \in DOMAIN s /\ s.turn \in Turns
  /\ s.done = TRUE => s.state \in {"free", "complete"}

\* Only a caller that reads, or has read, was woken by a signal.
CallerOK(r) ==
  /\ {"pc", "answer", "woke"} \subseteq DOMAIN r
  /\ r.pc \in {"idle", "send", "wait", "read"} /\ r.woke \in BOOLEAN
  /\ r.pc # "idle" =>
       {"slot", "gen"} \subseteq DOMAIN r /\ r.slot \in Pool /\ r.answer = "none"
  /\ r.woke = TRUE => r.pc \in {"idle", "read"} /\ (r.answer = "pending" => r.late = TRUE)

\* How a caller inside store_turn stands to its slot.
Owned(r, s) ==
  /\ s.gen = r.gen /\ s.waiting = TRUE /\ s.state # "free"
  /\ r.pc = "send" => s.state = "queued"
  /\ r.woke = TRUE => s.state = "complete"

SlotTypes == DOMAIN slots = Pool /\ \A i \in Pool : SlotOK(slots[i])
CallerTypes == DOMAIN caller = Callers /\ \A c \in Callers : CallerOK(caller[c])
CallerHasItsSlot ==
  /\ \A c \in Callers : caller[c].pc # "idle" => Owned(caller[c], slots[caller[c].slot])
  /\ \A c, d \in Callers :
       caller[c].pc # "idle" /\ caller[d].pc # "idle" /\ caller[c].slot = caller[d].slot
         => c = d

\* The queue holds numbers of slots that wait for the writer, each once, and
\* none that is still to be sent.
QueueIsOfQueued ==
  /\ queue \in Seq(Pool)
  /\ \A k \in 1..Len(queue) : slots[queue[k]].state = "queued"
  /\ \A k, m \in 1..Len(queue) : queue[k] = queue[m] => k = m
  /\ \A c \in Callers : caller[c].pc = "send" =>
       \A k \in 1..Len(queue) : queue[k] # caller[c].slot

\* The slot the writer works on stays its own, and so does the repository
\* while it reads and writes the file.
WorkerHasItsSlot ==
  /\ worker.pc \in {"idle", "lock", "user", "assistant", "unlock", "publish"}
  /\ worker.pc # "idle" =>
       /\ {"pc", "slot", "saved"} \subseteq DOMAIN worker
       /\ worker.slot \in Pool /\ slots[worker.slot].state = "writing"
  /\ worker.pc \in {"user", "assistant", "unlock"} => lock = [op |-> "writer"]

PoolInv ==
  SlotTypes /\ CallerTypes /\ CallerHasItsSlot /\ QueueIsOfQueued /\ WorkerHasItsSlot

\* The file: whole lines but perhaps the last one, and what a reader does not
\* find although the append was told to have worked is glued.
TurnRecords == Turns \X {"user", "assistant"}
TurnLines == [rec: TurnRecords \cup {Raw}, nl: BOOLEAN]
KeptIn(r, f, g) == History!Holds(f, r) \/ r \in g
ExemptIn(r, g) == \E u \in Turns : r = History!Assistant(u) /\ History!User(u) \in g
WholeBefore == \A i \in 1..Len(hist) : i # Len(hist) => hist[i].nl = TRUE
RecordOnce ==
  \A i, j \in 1..Len(hist) :
    hist[i].rec = hist[j].rec /\ hist[i].rec # Raw => i = j \/ ExemptIn(hist[i].rec, glued)

\* What the scan found still holds when the writer appends, and when it says
\* that the turn is saved.
ScanHolds ==
  /\ worker.pc = "user" => /\ worker.saved # TRUE
                           /\ ~History!Holds(hist, History!User(History!Turn))
                           /\ ~History!Holds(hist, History!Assistant(History!Turn))
  /\ worker.pc = "assistant" =>
       /\ KeptIn(History!User(History!Turn), hist, glued)
       /\ History!Holds(hist, History!Assistant(History!Turn)) =>
            History!User(History!Turn) \in glued
  /\ worker.pc = "unlock" /\ worker.saved = TRUE =>
       /\ KeptIn(History!User(History!Turn), hist, glued)
       /\ KeptIn(History!Assistant(History!Turn), hist, glued)
FileIsSound ==
  /\ hist \in Seq(TurnLines) /\ WholeBefore /\ RecordOnce
  /\ History!PairInOrder /\ History!SavedTurnIsRead
TurnsAreKept == FileIsSound /\ ScanHolds

HistInv == PoolInv /\ TurnsAreKept

\* Nothing is claimed at first.
LEMMA HistoryInitially ==
  ASSUME History!WriterBounds, History!WriterInit
  PROVE  HistInv
<1>1. SlotTypes
  <2>1. SlotOK(History!FreeSlot)
    BY DEF History!WriterBounds, SlotOK, SlotStates, History!FreeSlot
  <2> QED  BY <2>1 DEF History!WriterInit, SlotTypes, Pool
<1>2. CallerTypes /\ CallerHasItsSlot
  BY DEF History!WriterInit, CallerTypes, CallerOK, History!IdleCaller, CallerHasItsSlot
<1>3. QueueIsOfQueued /\ WorkerHasItsSlot
  BY DEF History!WriterInit, QueueIsOfQueued, WorkerHasItsSlot, History!IdleWorker,
         History!IdleCaller
<1>4. TurnsAreKept
  BY DEF History!WriterInit, History!RepositoryInit, TurnsAreKept, FileIsSound, ScanHolds,
         History!IdleWorker, WholeBefore, RecordOnce, History!PairInOrder,
         History!SavedTurnIsRead
<1> QED  BY <1>1, <1>2, <1>3, <1>4 DEF HistInv, PoolInv

\* A slot is claimed: nobody else has a free one.
LEMMA ClaimKeepsPool ==
  ASSUME PoolInv, NEW c \in Callers, NEW turn \in Turns, History!ClaimSlot(c, turn),
         History!WriterBounds
  PROVE  PoolInv' /\ worker' = worker /\ hist' = hist
                  /\ (worker.pc # "idle" => slots'[worker.slot] = slots[worker.slot])
<1>1. PICK i \in Pool :
        /\ caller[c].pc = "idle" /\ slots[i].state = "free"
        /\ slots' = [slots EXCEPT ![i] = [state |-> "queued", gen |-> @.gen + 1,
                                          waiting |-> TRUE, done |-> FALSE, turn |-> turn]]
        /\ caller' = [caller EXCEPT ![c] =
                        [pc |-> "send", slot |-> i, gen |-> slots[i].gen + 1,
                         turn |-> turn, answer |-> "none", woke |-> FALSE, late |-> FALSE]]
  BY DEF History!ClaimSlot, Pool
<1>2. UNCHANGED <<hist, lock, queue, worker>>
  BY DEF History!ClaimSlot, History!repoVars
<1> DEFINE s == slots'[i]
           r == caller'[c]
<1>3. /\ DOMAIN slots' = Pool /\ \A j \in Pool : j # i => slots'[j] = slots[j]
      /\ s = [state |-> "queued", gen |-> slots[i].gen + 1,
              waiting |-> TRUE, done |-> FALSE, turn |-> turn]
  BY <1>1 DEF PoolInv, SlotTypes
<1>4. /\ DOMAIN caller' = Callers /\ \A d \in Callers : d # c => caller'[d] = caller[d]
      /\ r = [pc |-> "send", slot |-> i, gen |-> slots[i].gen + 1,
              turn |-> turn, answer |-> "none", woke |-> FALSE, late |-> FALSE]
  BY <1>1 DEF PoolInv, CallerTypes
<1>5. SlotOK(s) /\ s.state = "queued" /\ s.waiting = TRUE /\ s.gen = slots[i].gen + 1
  BY <1>1, <1>3 DEF SlotOK, SlotStates, PoolInv, SlotTypes, History!WriterBounds
<1>6. /\ CallerOK(r) /\ r.pc = "send" /\ r.slot = i /\ r.gen = slots[i].gen + 1
      /\ r.woke = FALSE
  BY <1>4 DEF CallerOK
<1> HIDE DEF s, r
<1>7. SlotTypes'
  BY <1>3, <1>5 DEF SlotTypes, PoolInv, s, Pool, History!Pool
<1>8. CallerTypes'
  BY <1>4, <1>6 DEF CallerTypes, PoolInv, r
<1>9. \A d \in Callers : d # c /\ caller[d].pc # "idle" => caller[d].slot # i /\ caller[d].slot \in Pool
  BY <1>1 DEF PoolInv, CallerHasItsSlot, Owned, CallerTypes, CallerOK
<1>10. CallerHasItsSlot'
  <2>1. Owned(r, s)  BY <1>5, <1>6 DEF Owned
  <2>2. \A d \in Callers : caller'[d].pc # "idle" =>
          Owned(caller'[d], slots'[caller'[d].slot])
    <3> SUFFICES ASSUME NEW d \in Callers, caller'[d].pc # "idle"
                 PROVE  Owned(caller'[d], slots'[caller'[d].slot])
      OBVIOUS
    <3>1. CASE d = c  BY <1>6, <2>1, <3>1 DEF r, s
    <3>2. CASE d # c
      <4>1. /\ caller'[d] = caller[d]
            /\ slots'[caller[d].slot] = slots[caller[d].slot]
        BY <1>3, <1>4, <1>9, <3>2
      <4> QED  BY <4>1 DEF PoolInv, CallerHasItsSlot
    <3> QED  BY <3>1, <3>2
  <2>3. \A d, e \in Callers :
          caller'[d].pc # "idle" /\ caller'[e].pc # "idle" /\ caller'[d].slot = caller'[e].slot
            => d = e
    BY <1>4, <1>6, <1>9 DEF PoolInv, CallerHasItsSlot, r
  <2> QED  BY <2>2, <2>3 DEF CallerHasItsSlot
<1>11. \A k \in 1..Len(queue) : queue[k] \in Pool /\ queue[k] # i
  BY <1>1 DEF PoolInv, QueueIsOfQueued
<1>12. QueueIsOfQueued'
  BY <1>2, <1>3, <1>4, <1>6, <1>11 DEF PoolInv, QueueIsOfQueued, r, Pool, History!Pool
<1>13. worker.pc # "idle" => worker.slot \in Pool /\ worker.slot # i
  BY <1>1 DEF PoolInv, WorkerHasItsSlot
<1>14. WorkerHasItsSlot'
  BY <1>2, <1>3, <1>13 DEF PoolInv, WorkerHasItsSlot, Pool, History!Pool
<1> QED  BY <1>2, <1>3, <1>7, <1>8, <1>10, <1>12, <1>13, <1>14 DEF PoolInv

\* A caller and its slot change together, and the slot is not taken out of the
\* writer's or the queue's hands.
LEMMA OneCaller ==
  ASSUME PoolInv, NEW c \in Callers, NEW i \in Pool, caller[c].pc # "idle", caller[c].slot = i,
         DOMAIN caller' = Callers, \A d \in Callers : d # c => caller'[d] = caller[d],
         CallerOK(caller'[c]),
         caller'[c].pc # "idle" =>
           caller'[c].pc # "send" /\ caller'[c].slot = i /\ Owned(caller'[c], slots'[i]),
         DOMAIN slots' = Pool, \A j \in Pool : j # i => slots'[j] = slots[j],
         SlotOK(slots'[i]),
         slots[i].state \in {"queued", "writing"} =>
           slots'[i].state = slots[i].state /\ slots'[i].turn = slots[i].turn,
         UNCHANGED <<queue, worker, lock>>
  PROVE  PoolInv' /\ (worker.pc # "idle" => slots'[worker.slot].turn = slots[worker.slot].turn)
<1>1. SlotTypes' /\ CallerTypes'
  BY DEF PoolInv, SlotTypes, CallerTypes, Pool, History!Pool
<1>2. \A d \in Callers : d # c /\ caller[d].pc # "idle" =>
        caller[d].slot # i /\ caller[d].slot \in Pool
  BY DEF PoolInv, CallerHasItsSlot, CallerTypes, CallerOK
<1>3. CallerHasItsSlot'
  <2>1. \A d \in Callers : caller'[d].pc # "idle" =>
          Owned(caller'[d], slots'[caller'[d].slot])
    <3> SUFFICES ASSUME NEW d \in Callers, caller'[d].pc # "idle"
                 PROVE  Owned(caller'[d], slots'[caller'[d].slot])
      OBVIOUS
    <3>1. CASE d = c  BY <3>1
    <3>2. CASE d # c
      <4>1. /\ caller'[d] = caller[d]
            /\ slots'[caller[d].slot] = slots[caller[d].slot]
        BY <1>2, <3>2
      <4> QED  BY <4>1 DEF PoolInv, CallerHasItsSlot
    <3> QED  BY <3>1, <3>2
  <2>2. \A d, e \in Callers :
          caller'[d].pc # "idle" /\ caller'[e].pc # "idle" /\ caller'[d].slot = caller'[e].slot
            => d = e
    BY <1>2 DEF PoolInv, CallerHasItsSlot
  <2> QED  BY <2>1, <2>2 DEF CallerHasItsSlot
<1>4. QueueIsOfQueued'
  <2>1. \A k \in 1..Len(queue) : queue[k] \in Pool /\ slots'[queue[k]].state = "queued"
    BY DEF PoolInv, QueueIsOfQueued
  <2> QED  BY <2>1 DEF PoolInv, QueueIsOfQueued, Pool, History!Pool
<1>5. worker.pc # "idle" =>
        /\ slots'[worker.slot].state = "writing"
        /\ slots'[worker.slot].turn = slots[worker.slot].turn
  BY DEF PoolInv, WorkerHasItsSlot
<1>6. WorkerHasItsSlot'
  BY <1>5 DEF PoolInv, WorkerHasItsSlot, Pool, History!Pool
<1> QED  BY <1>1, <1>3, <1>4, <1>5, <1>6 DEF PoolInv

\* The queue has room for every claimed slot: it holds each at most once, and
\* not the one that is to be sent.
LEMMA QueueHasRoom ==
  ASSUME PoolInv, History!WriterBounds, NEW c \in Callers, caller[c].pc = "send"
  PROVE  Len(queue) < PoolSize
<1> DEFINE i == caller[c].slot
           n == Len(queue)
<1>1. i \in Pool /\ n \in Nat /\ PoolSize \in Nat
  BY DEF PoolInv, CallerTypes, CallerOK, QueueIsOfQueued, History!WriterBounds
<1>2. queue \in Injection(1..n, Pool \ {i})
  <2>1. queue \in [1..n -> Pool \ {i}]
    BY DEF PoolInv, QueueIsOfQueued
  <2>2. \A a, b \in DOMAIN queue : queue[a] = queue[b] => a = b
    BY <2>1 DEF PoolInv, QueueIsOfQueued
  <2> QED  BY <2>1, <2>2 DEF Injection, IsInjective
<1>3. IsFiniteSet(Pool) /\ Cardinality(Pool) = PoolSize
  BY <1>1, FS_Interval DEF Pool, History!Pool
<1>4. IsFiniteSet(Pool \ {i}) /\ Cardinality(Pool \ {i}) = PoolSize - 1
  BY <1>1, <1>3, FS_RemoveElement
<1>5. Cardinality(1..n) <= PoolSize - 1
  BY <1>2, <1>4, FS_Injection
<1> HIDE DEF n
<1>6. Cardinality(1..n) = IF 1 > n THEN 0 ELSE n - 1 + 1
  BY <1>1, FS_Interval
<1>7. Cardinality(1..n) = n  BY <1>1, <1>6
<1>8. n < PoolSize  BY <1>1, <1>5, <1>7
<1> QED  BY <1>8 DEF n

\* The slot is queued.
LEMMA SendKeepsPool ==
  ASSUME PoolInv, History!WriterBounds, NEW c \in Callers, History!SendSlot(c)
  PROVE  PoolInv' /\ UNCHANGED <<hist, worker, slots>>
<1> DEFINE i == caller[c].slot
<1>1. caller[c].pc = "send"  BY DEF History!SendSlot
<1>2. /\ queue' = Append(queue, i) /\ UNCHANGED <<hist, lock, worker, slots>>
      /\ caller' = [caller EXCEPT ![c].pc = "wait"]
  BY <1>1, QueueHasRoom DEF History!SendSlot, History!repoVars
<1>3. /\ CallerOK(caller[c]) /\ i \in Pool /\ Owned(caller[c], slots[i])
      /\ caller[c].woke = FALSE
  <2>1. CallerOK(caller[c]) /\ i \in Pool /\ Owned(caller[c], slots[i])
    BY <1>1 DEF PoolInv, CallerTypes, CallerOK, CallerHasItsSlot
  <2>2. caller[c].woke # TRUE /\ caller[c].woke \in BOOLEAN
    BY <1>1, <2>1 DEF CallerOK
  <2> QED  BY <2>1, <2>2
<1> DEFINE r == caller'[c]
<1>4. /\ DOMAIN caller' = Callers /\ \A d \in Callers : d # c => caller'[d] = caller[d]
      /\ r = [caller[c] EXCEPT !.pc = "wait"]
  BY <1>2 DEF PoolInv, CallerTypes
<1>5. /\ DOMAIN r = DOMAIN caller[c] /\ r.pc = "wait" /\ r.slot = i
      /\ r.gen = caller[c].gen /\ r.answer = caller[c].answer /\ r.woke = caller[c].woke
  BY <1>1, <1>3, <1>4 DEF CallerOK
<1> HIDE DEF r
<1>6. CallerOK(r)
  BY <1>1, <1>3, <1>5 DEF CallerOK
<1>7. Owned(r, slots[i])
  BY <1>3, <1>5 DEF Owned
<1>8. SlotTypes' /\ CallerTypes'
  BY <1>2, <1>4, <1>6 DEF PoolInv, SlotTypes, CallerTypes, Pool, History!Pool, r
<1>9. CallerHasItsSlot'
  <2>1. \A d \in Callers : caller'[d].pc # "idle" =>
          Owned(caller'[d], slots'[caller'[d].slot])
    <3> SUFFICES ASSUME NEW d \in Callers, caller'[d].pc # "idle"
                 PROVE  Owned(caller'[d], slots'[caller'[d].slot])
      OBVIOUS
    <3>1. CASE d = c  BY <1>2, <1>5, <1>7, <3>1 DEF r
    <3>2. CASE d # c  BY <1>2, <1>4, <3>2 DEF PoolInv, CallerHasItsSlot
    <3> QED  BY <3>1, <3>2
  <2>2. \A d, e \in Callers :
          caller'[d].pc # "idle" /\ caller'[e].pc # "idle" /\ caller'[d].slot = caller'[e].slot
            => d = e
    <3>1. \A d \in Callers : caller'[d].pc # "idle" =>
            caller[d].pc # "idle" /\ caller'[d].slot = caller[d].slot
      BY <1>1, <1>4, <1>5 DEF r
    <3> QED  BY <3>1 DEF PoolInv, CallerHasItsSlot
  <2> QED  BY <2>1, <2>2 DEF CallerHasItsSlot
<1>10. QueueIsOfQueued'
  <2>1. queue \in Seq(Pool) /\ Len(queue) \in Nat  BY DEF PoolInv, QueueIsOfQueued
  <2>2. /\ queue' \in Seq(Pool) /\ Len(queue') = Len(queue) + 1
        /\ \A k \in 1..Len(queue) : queue'[k] = queue[k]
        /\ queue'[Len(queue) + 1] = i
    BY <1>2, <1>3, <2>1
  <2>3. \A k \in 1..Len(queue) : queue[k] # i
    BY <1>1 DEF PoolInv, QueueIsOfQueued
  <2>4. slots[i].state = "queued"  BY <1>1, <1>3 DEF Owned
  <2>5. \A k \in 1..Len(queue') : k \in 1..Len(queue) \/ k = Len(queue) + 1
    BY <2>1, <2>2
  <2>6. \A k \in 1..Len(queue') : slots'[queue'[k]].state = "queued"
    BY <1>2, <2>2, <2>4, <2>5 DEF PoolInv, QueueIsOfQueued
  <2>7. \A k, m \in 1..Len(queue') : queue'[k] = queue'[m] => k = m
    BY <2>2, <2>3, <2>5 DEF PoolInv, QueueIsOfQueued
  <2>8. \A d \in Callers : caller'[d].pc = "send" =>
          \A k \in 1..Len(queue') : queue'[k] # caller'[d].slot
    <3> SUFFICES ASSUME NEW d \in Callers, caller'[d].pc = "send"
                 PROVE  \A k \in 1..Len(queue') : queue'[k] # caller'[d].slot
      OBVIOUS
    <3>1. d # c  BY <1>5 DEF r
    <3>2. caller'[d] = caller[d]  BY <1>4, <3>1
    <3>3. caller[d].slot # i  BY <1>1, <3>1, <3>2 DEF PoolInv, CallerHasItsSlot
    <3> QED  BY <2>2, <2>5, <3>2, <3>3 DEF PoolInv, QueueIsOfQueued
  <2> QED  BY <2>2, <2>6, <2>7, <2>8 DEF QueueIsOfQueued, Pool, History!Pool
<1>11. WorkerHasItsSlot'
  BY <1>2 DEF PoolInv, WorkerHasItsSlot, Pool, History!Pool
<1> QED  BY <1>2, <1>8, <1>9, <1>10, <1>11 DEF PoolInv

\* The signal of a slot is taken by the caller that has the slot.
LEMMA SignalledKeepsPool ==
  ASSUME PoolInv, NEW c \in Callers, History!Signalled(c)
  PROVE  /\ PoolInv' /\ UNCHANGED <<hist, worker>>
         /\ worker.pc # "idle" => slots'[worker.slot].turn = slots[worker.slot].turn
<1> DEFINE i == caller[c].slot
           r == caller'[c]
           s == slots'[i]
<1>1. /\ caller[c].pc = "wait" /\ slots[i].done
      /\ slots' = [slots EXCEPT ![i].done = FALSE]
      /\ caller' = [caller EXCEPT ![c] = [@ EXCEPT !.pc = "read", !.woke = TRUE]]
      /\ UNCHANGED <<hist, lock, queue, worker>>
  BY DEF History!Signalled, History!repoVars
<1>2. /\ i \in Pool /\ CallerOK(caller[c]) /\ SlotOK(slots[i]) /\ Owned(caller[c], slots[i])
      /\ DOMAIN slots = Pool /\ DOMAIN caller = Callers
  BY <1>1 DEF PoolInv, CallerTypes, SlotTypes, CallerOK, CallerHasItsSlot
<1>3. slots[i].done = TRUE  BY <1>1, <1>2 DEF SlotOK
<1>4. slots[i].state = "complete"  BY <1>2, <1>3 DEF SlotOK, Owned
<1>5. /\ DOMAIN slots' = Pool /\ \A j \in Pool : j # i => slots'[j] = slots[j]
      /\ s = [slots[i] EXCEPT !.done = FALSE]
  BY <1>1, <1>2
<1>6. /\ DOMAIN caller' = Callers /\ \A d \in Callers : d # c => caller'[d] = caller[d]
      /\ r = [caller[c] EXCEPT !.pc = "read", !.woke = TRUE]
  BY <1>1, <1>2
<1>7. /\ DOMAIN s = DOMAIN slots[i] /\ s.done = FALSE
      /\ \A x \in DOMAIN s : x # "done" => s[x] = slots[i][x]
  BY <1>2, <1>5 DEF SlotOK
<1>8. r = [x \in DOMAIN caller[c] |->
             IF x = "woke" THEN TRUE ELSE IF x = "pc" THEN "read" ELSE caller[c][x]]
  BY <1>6, Zenon
<1>9. /\ DOMAIN r = DOMAIN caller[c] /\ r.pc = "read" /\ r.woke = TRUE
      /\ \A x \in DOMAIN r : x # "pc" /\ x # "woke" => r[x] = caller[c][x]
  BY <1>2, <1>8 DEF CallerOK
<1> HIDE DEF r, s
<1>10. s.state = "complete" /\ s.gen = slots[i].gen /\ s.waiting = slots[i].waiting /\ s.turn = slots[i].turn
  BY <1>2, <1>4, <1>7 DEF SlotOK
<1>11. SlotOK(s)
  BY <1>2, <1>7, <1>10 DEF SlotOK, SlotStates
<1>12. r.slot = i /\ r.gen = caller[c].gen /\ r.answer = caller[c].answer
  BY <1>1, <1>2, <1>9 DEF CallerOK
<1>13. CallerOK(r)
  BY <1>1, <1>2, <1>9, <1>12 DEF CallerOK
<1>14. Owned(r, s)
  BY <1>2, <1>9, <1>10, <1>12 DEF Owned
<1>15. /\ PoolInv'
       /\ worker.pc # "idle" => slots'[worker.slot].turn = slots[worker.slot].turn
  BY <1>1, <1>2, <1>4, <1>5, <1>6, <1>9, <1>11, <1>12, <1>13, <1>14, OneCaller DEF r, s
<1> QED  BY <1>1, <1>15

\* The wait of a caller expires; nothing else changes.
LEMMA WaitExpiresKeepsPool ==
  ASSUME PoolInv, NEW c \in Callers, History!WaitExpires(c)
  PROVE  PoolInv' /\ UNCHANGED <<hist, worker, slots>>
<1> DEFINE i == caller[c].slot
           r == caller'[c]
<1>1. /\ caller[c].pc = "wait" /\ caller' = [caller EXCEPT ![c].pc = "read"]
      /\ UNCHANGED <<hist, lock, slots, queue, worker>>
  BY DEF History!WaitExpires, History!repoVars
<1>2. /\ i \in Pool /\ CallerOK(caller[c]) /\ SlotOK(slots[i]) /\ Owned(caller[c], slots[i])
      /\ DOMAIN slots = Pool /\ DOMAIN caller = Callers
  BY <1>1 DEF PoolInv, CallerTypes, SlotTypes, CallerOK, CallerHasItsSlot
<1>3. /\ DOMAIN caller' = Callers /\ \A d \in Callers : d # c => caller'[d] = caller[d]
      /\ r = [caller[c] EXCEPT !.pc = "read"]
  BY <1>1, <1>2
<1>4. /\ DOMAIN r = DOMAIN caller[c] /\ r.pc = "read" /\ r.slot = i
      /\ r.gen = caller[c].gen /\ r.answer = caller[c].answer /\ r.woke = caller[c].woke
  BY <1>1, <1>2, <1>3 DEF CallerOK
<1> HIDE DEF r
<1>5. CallerOK(r)
  BY <1>1, <1>2, <1>4 DEF CallerOK
<1>6. Owned(r, slots[i])
  BY <1>2, <1>4 DEF Owned
<1>7. PoolInv'
  BY <1>1, <1>2, <1>3, <1>4, <1>5, <1>6, OneCaller DEF r
<1> QED  BY <1>1, <1>7

\* What a caller is left with when it returns.
LEMMA AnswerIsIdle ==
  ASSUME PoolInv, NEW c \in Callers, NEW a, NEW l \in BOOLEAN, History!Answer(c, a, l),
         a = "pending" /\ l = FALSE => caller[c].woke # TRUE
  PROVE  /\ DOMAIN caller' = Callers /\ \A d \in Callers : d # c => caller'[d] = caller[d]
         /\ CallerOK(caller'[c]) /\ caller'[c].pc = "idle"
<1> DEFINE r == caller'[c]
           b == caller[c].woke
<1>1. b \in BOOLEAN /\ DOMAIN caller = Callers
  BY DEF PoolInv, CallerTypes, CallerOK
<1>2. caller' = [caller EXCEPT ![c] =
                   [History!IdleCaller EXCEPT !.answer = a, !.late = l, !.woke = b]]
  BY DEF History!Answer
<1>3. /\ DOMAIN caller' = Callers /\ \A d \in Callers : d # c => caller'[d] = caller[d]
      /\ r = [History!IdleCaller EXCEPT !.answer = a, !.late = l, !.woke = b]
  BY <1>1, <1>2
<1> HIDE DEF b
<1>4. r = [pc |-> "idle", answer |-> a, woke |-> b, late |-> l]
  BY <1>3 DEF History!IdleCaller
<1> HIDE DEF r
<1>5. /\ DOMAIN r = {"pc", "answer", "woke", "late"} /\ r.pc = "idle" /\ r.answer = a
      /\ r.woke = b /\ r.late = l
  BY <1>4
<1>6. r.woke = TRUE /\ r.answer = "pending" => r.late = TRUE  BY <1>5 DEF b
<1>7. CallerOK(r)  BY <1>1, <1>5, <1>6 DEF CallerOK
<1> QED  BY <1>3, <1>5, <1>7 DEF r

\* A caller reads its answer: the slot is still its own, so it is freed if the
\* answer is there, and is otherwise left to the writer.
LEMMA ReadResultKeepsPool ==
  ASSUME PoolInv, NEW c \in Callers, History!ReadResult(c)
  PROVE  /\ PoolInv' /\ UNCHANGED <<hist, worker>>
         /\ worker.pc # "idle" => slots'[worker.slot].turn = slots[worker.slot].turn
<1> DEFINE i == caller[c].slot
           s == slots'[i]
           done0 == slots[i].state = "complete"
<1>1. caller[c].pc = "read" /\ UNCHANGED <<hist, lock, queue, worker>>
  BY DEF History!ReadResult, History!repoVars
<1>2. /\ i \in Pool /\ CallerOK(caller[c]) /\ SlotOK(slots[i]) /\ Owned(caller[c], slots[i])
      /\ DOMAIN slots = Pool /\ DOMAIN caller = Callers
  BY <1>1 DEF PoolInv, CallerTypes, SlotTypes, CallerOK, CallerHasItsSlot
<1>3. slots[i].gen = caller[c].gen  BY <1>2 DEF Owned
<1> DEFINE t == IF done0 THEN "free" ELSE slots[i].state
           u == [slots[i] EXCEPT !.waiting = FALSE, !.state = t]
<1>4. slots' = [slots EXCEPT ![i] = u]
  <2>1. slots' = [slots EXCEPT ![i] = [slots[i] EXCEPT !.waiting = FALSE,
           !.state = IF slots[i].gen = caller[c].gen /\ done0 THEN "free" ELSE slots[i].state]]
    BY <1>3, Zenon DEF History!ReadResult
  <2>2. (IF slots[i].gen = caller[c].gen /\ done0 THEN "free" ELSE slots[i].state) = t
    BY <1>3
  <2> HIDE DEF t, done0
  <2> QED  BY <2>1, <2>2, Zenon
<1>5. PICK a : History!Answer(c, a, FALSE) /\ (a = "pending" => ~done0)
  <2> DEFINE own == slots[i].gen = caller[c].gen
             said == IF ~own THEN "invalid"
                  ELSE IF ~(own /\ done0) THEN "pending"
                  ELSE IF slots[i].saved THEN "saved" ELSE "failed"
  <2>1. History!Answer(c, said, FALSE)  BY Zenon DEF History!ReadResult
  <2>2. said = "pending" => ~done0  BY <1>3
  <2> QED  BY <2>1, <2>2
<1>6. a = "pending" => caller[c].woke # TRUE
  BY <1>2, <1>5 DEF Owned
<1>7. /\ DOMAIN caller' = Callers /\ \A d \in Callers : d # c => caller'[d] = caller[d]
      /\ CallerOK(caller'[c]) /\ caller'[c].pc = "idle"
  BY <1>5, <1>6, AnswerIsIdle
<1> HIDE DEF u
<1>8. /\ DOMAIN slots' = Pool /\ \A j \in Pool : j # i => slots'[j] = slots[j]
      /\ s = u
  BY <1>2, <1>4
<1>9. t \in SlotStates /\ (slots[i].state \in {"queued", "writing"} => t = slots[i].state)
      /\ (slots[i].done = TRUE => t \in {"free", "complete"})
      /\ (t # "free" => slots[i].state # "free")
  BY <1>2 DEF SlotOK, SlotStates
<1> HIDE DEF t
<1>10. s = [x \in DOMAIN slots[i] |->
              IF x = "state" THEN t ELSE IF x = "waiting" THEN FALSE ELSE slots[i][x]]
  BY <1>8, Zenon DEF u
<1>11. /\ DOMAIN s = DOMAIN slots[i] /\ s.state = t /\ s.waiting = FALSE
       /\ s.gen = slots[i].gen /\ s.done = slots[i].done
       /\ "turn" \in DOMAIN s => s.turn = slots[i].turn
  BY <1>2, <1>10 DEF SlotOK
<1> HIDE DEF s
<1>12. SlotOK(s)
  BY <1>2, <1>9, <1>11 DEF SlotOK, SlotStates
<1>13. slots[i].state \in {"queued", "writing"} =>
         s.state = slots[i].state /\ s.turn = slots[i].turn
  BY <1>2, <1>9, <1>11 DEF SlotOK
<1>14. /\ PoolInv'
       /\ worker.pc # "idle" => slots'[worker.slot].turn = slots[worker.slot].turn
  BY <1>1, <1>2, <1>7, <1>8, <1>12, <1>13, OneCaller DEF s
<1> QED  BY <1>1, <1>14

\* A caller leaves without the slots' lock: it only says that nobody waits.
LEMMA AbandonKeepsPool ==
  ASSUME PoolInv, NEW c \in Callers, History!AbandonResult(c)
  PROVE  /\ PoolInv' /\ UNCHANGED <<hist, worker>>
         /\ worker.pc # "idle" => slots'[worker.slot].turn = slots[worker.slot].turn
<1> DEFINE i == caller[c].slot
           s == slots'[i]
<1>1. /\ caller[c].pc = "read" /\ slots' = [slots EXCEPT ![i].waiting = FALSE]
      /\ History!Answer(c, "pending", TRUE) /\ UNCHANGED <<hist, lock, queue, worker>>
  BY DEF History!AbandonResult, History!repoVars
<1>2. /\ i \in Pool /\ CallerOK(caller[c]) /\ SlotOK(slots[i]) /\ Owned(caller[c], slots[i])
      /\ DOMAIN slots = Pool /\ DOMAIN caller = Callers
  BY <1>1 DEF PoolInv, CallerTypes, SlotTypes, CallerOK, CallerHasItsSlot
<1>3. /\ DOMAIN caller' = Callers /\ \A d \in Callers : d # c => caller'[d] = caller[d]
      /\ CallerOK(caller'[c]) /\ caller'[c].pc = "idle"
  BY <1>1, AnswerIsIdle
<1>4. /\ DOMAIN slots' = Pool /\ \A j \in Pool : j # i => slots'[j] = slots[j]
      /\ s = [slots[i] EXCEPT !.waiting = FALSE]
  BY <1>1, <1>2
<1>5. /\ DOMAIN s = DOMAIN slots[i] /\ s.waiting = FALSE /\ s.state = slots[i].state
      /\ s.gen = slots[i].gen /\ s.done = slots[i].done
      /\ "turn" \in DOMAIN s => s.turn = slots[i].turn
  BY <1>2, <1>4 DEF SlotOK
<1> HIDE DEF s
<1>6. SlotOK(s)
  BY <1>2, <1>5 DEF SlotOK
<1>7. slots[i].state \in {"queued", "writing"} =>
        s.state = slots[i].state /\ s.turn = slots[i].turn
  BY <1>2, <1>5 DEF SlotOK
<1>8. /\ PoolInv'
      /\ worker.pc # "idle" => slots'[worker.slot].turn = slots[worker.slot].turn
  BY <1>1, <1>2, <1>3, <1>4, <1>6, <1>7, OneCaller DEF s
<1> QED  BY <1>1, <1>8

\* The writer goes on with its slot; the slots, the queue and the callers stay.
LEMMA WorkerGoesOn ==
  ASSUME PoolInv, worker.pc # "idle", UNCHANGED <<slots, queue, caller>>,
         worker'.pc \in {"lock", "user", "assistant", "unlock", "publish"},
         DOMAIN worker' = DOMAIN worker, worker'.slot = worker.slot,
         worker'.pc \in {"user", "assistant", "unlock"} => lock' = [op |-> "writer"]
  PROVE  PoolInv'
<1>1. SlotTypes' /\ CallerTypes' /\ CallerHasItsSlot'
  BY DEF PoolInv, SlotTypes, CallerTypes, CallerHasItsSlot, Pool, History!Pool
<1>2. QueueIsOfQueued'
  BY DEF PoolInv, QueueIsOfQueued, Pool, History!Pool
<1>3. WorkerHasItsSlot'
  BY DEF PoolInv, WorkerHasItsSlot, Pool, History!Pool
<1> QED  BY <1>1, <1>2, <1>3 DEF PoolInv

\* A slot changes its state and nobody but the writer is concerned.
LEMMA OneSlot ==
  ASSUME PoolInv, NEW i \in Pool, DOMAIN slots' = Pool,
         \A j \in Pool : j # i => slots'[j] = slots[j], SlotOK(slots'[i]),
         \A c \in Callers : caller[c].pc # "idle" /\ caller[c].slot = i =>
           Owned(caller[c], slots'[i]),
         caller' = caller
  PROVE  SlotTypes' /\ CallerTypes' /\ CallerHasItsSlot'
<1>1. SlotTypes' /\ CallerTypes'
  BY DEF PoolInv, SlotTypes, CallerTypes, Pool, History!Pool
<1>2. \A c \in Callers : caller[c].pc # "idle" => Owned(caller[c], slots'[caller[c].slot])
  <2> SUFFICES ASSUME NEW c \in Callers, caller[c].pc # "idle"
               PROVE  Owned(caller[c], slots'[caller[c].slot])
    OBVIOUS
  <2>1. CASE caller[c].slot = i  BY <2>1
  <2>2. CASE caller[c].slot # i
    <3>1. caller[c].slot \in Pool  BY DEF PoolInv, CallerTypes, CallerOK
    <3>2. slots'[caller[c].slot] = slots[caller[c].slot]  BY <2>2, <3>1
    <3> QED  BY <3>2 DEF PoolInv, CallerHasItsSlot
  <2> QED  BY <2>1, <2>2
<1>3. CallerHasItsSlot'
  BY <1>2 DEF PoolInv, CallerHasItsSlot
<1> QED  BY <1>1, <1>3

\* The writer takes the slot that is first in the queue: it is queued, and its
\* caller, if one waits, has sent it.
LEMMA TakeKeepsPool ==
  ASSUME PoolInv, History!TakeSlot
  PROVE  PoolInv' /\ hist' = hist /\ worker'.pc = "lock"
<1> DEFINE i == Head(queue)
           s == slots'[i]
<1>1. /\ worker.pc = "idle" /\ queue # <<>> /\ queue' = Tail(queue)
      /\ UNCHANGED <<hist, lock, caller>>
  BY DEF History!TakeSlot, History!repoVars
<1>2. queue \in Seq(Pool) /\ Len(queue) \in Nat /\ Len(queue) > 0 /\ i = queue[1]
  BY <1>1 DEF PoolInv, QueueIsOfQueued
<1>3. 1 \in 1..Len(queue) /\ i \in Pool  BY <1>2
<1>4. slots[i].state = "queued"  BY <1>2, <1>3 DEF PoolInv, QueueIsOfQueued
<1>5. /\ slots' = [slots EXCEPT ![i].state = "writing"]
      /\ worker' = [pc |-> "lock", slot |-> i, gen |-> slots[i].gen, saved |-> FALSE]
  BY <1>4 DEF History!TakeSlot
<1>6. DOMAIN slots = Pool /\ SlotOK(slots[i])  BY <1>3 DEF PoolInv, SlotTypes
<1>7. /\ DOMAIN slots' = Pool /\ \A j \in Pool : j # i => slots'[j] = slots[j]
      /\ s = [slots[i] EXCEPT !.state = "writing"]
  BY <1>3, <1>5, <1>6
<1>8. /\ DOMAIN s = DOMAIN slots[i] /\ s.state = "writing" /\ s.waiting = slots[i].waiting
      /\ s.gen = slots[i].gen /\ s.done = slots[i].done /\ s.turn = slots[i].turn
  BY <1>4, <1>6, <1>7 DEF SlotOK
<1>n. queue' \in Seq(Pool) /\ Len(queue') = Len(queue) - 1
      /\ \A k \in 1..Len(queue') : k + 1 \in 1..Len(queue) /\ queue'[k] = queue[k + 1]
  BY <1>1, <1>2
<1> HIDE DEF s, i
<1>9. SlotOK(s)  BY <1>4, <1>6, <1>8 DEF SlotOK, SlotStates
<1>10. \A c \in Callers : caller[c].pc # "idle" /\ caller[c].slot = i => Owned(caller[c], s)
  <2> SUFFICES ASSUME NEW c \in Callers, caller[c].pc # "idle", caller[c].slot = i
               PROVE  Owned(caller[c], s)
    OBVIOUS
  <2>1. Owned(caller[c], slots[i])  BY DEF PoolInv, CallerHasItsSlot
  <2>2. caller[c].pc # "send"  BY <1>2, <1>3 DEF PoolInv, QueueIsOfQueued
  <2>3. caller[c].woke # TRUE  BY <1>4, <2>1 DEF Owned
  <2> QED  BY <1>8, <2>1, <2>2, <2>3 DEF Owned
<1>11. SlotTypes' /\ CallerTypes' /\ CallerHasItsSlot'
  BY <1>1, <1>3, <1>7, <1>9, <1>10, OneSlot DEF s
<1>12. QueueIsOfQueued'
  <2>1. \A k \in 1..Len(queue') : queue'[k] # i /\ queue'[k] \in Pool
    <3> SUFFICES ASSUME NEW k \in 1..Len(queue')
                 PROVE  queue'[k] # i /\ queue'[k] \in Pool
      OBVIOUS
    <3>1. k + 1 \in 1..Len(queue) /\ k + 1 # 1 /\ queue'[k] = queue[k + 1]  BY <1>n
    <3> QED  BY <1>2, <1>3, <3>1 DEF PoolInv, QueueIsOfQueued
  <2>2. \A k \in 1..Len(queue') : slots'[queue'[k]].state = "queued"
    BY <1>7, <1>n, <2>1 DEF PoolInv, QueueIsOfQueued
  <2>3. \A k, m \in 1..Len(queue') : queue'[k] = queue'[m] => k = m
    <3> SUFFICES ASSUME NEW k \in 1..Len(queue'), NEW m \in 1..Len(queue'), queue'[k] = queue'[m]
                 PROVE  k = m
      OBVIOUS
    <3>1. k + 1 = m + 1  BY <1>n DEF PoolInv, QueueIsOfQueued
    <3> QED  BY <3>1
  <2>4. \A c \in Callers : caller'[c].pc = "send" =>
          \A k \in 1..Len(queue') : queue'[k] # caller'[c].slot
    BY <1>1, <1>n DEF PoolInv, QueueIsOfQueued
  <2> QED  BY <1>n, <2>2, <2>3, <2>4 DEF QueueIsOfQueued, Pool, History!Pool
<1>13. WorkerHasItsSlot'
  BY <1>3, <1>5, <1>8 DEF WorkerHasItsSlot, Pool, History!Pool, s
<1> QED  BY <1>1, <1>5, <1>11, <1>12, <1>13 DEF PoolInv

\* Answers that nobody waits for are freed: no caller has their slots.
LEMMA ReapKeepsPool ==
  ASSUME PoolInv, History!ReapAbandoned
  PROVE  PoolInv' /\ UNCHANGED <<hist, worker>> /\ worker.pc = "idle"
<1>1. /\ worker.pc = "idle" /\ queue = <<>> /\ UNCHANGED <<hist, lock, queue, worker, caller>>
  BY DEF History!ReapAbandoned, History!repoVars
<1>2. slots' = [i \in Pool |-> IF slots[i].state = "complete" /\ ~slots[i].waiting
                               THEN [slots[i] EXCEPT !.state = "free"] ELSE slots[i]]
  BY DEF History!ReapAbandoned, Pool
<1>3. \A i \in Pool : slots[i].waiting = TRUE => slots'[i] = slots[i]
  BY <1>2
<1>4. \A i \in Pool : SlotOK(slots'[i])
  <2> SUFFICES ASSUME NEW i \in Pool, slots'[i] # slots[i]  PROVE SlotOK(slots'[i])
    BY DEF PoolInv, SlotTypes
  <2>1. SlotOK(slots[i]) /\ slots'[i] = [slots[i] EXCEPT !.state = "free"]
    BY <1>2 DEF PoolInv, SlotTypes
  <2> DEFINE s == slots'[i]
  <2>2. /\ DOMAIN s = DOMAIN slots[i] /\ s.state = "free" /\ s.waiting = slots[i].waiting
        /\ s.gen = slots[i].gen /\ s.done = slots[i].done
    BY <2>1 DEF SlotOK
  <2> HIDE DEF s
  <2>3. SlotOK(s)  BY <2>1, <2>2 DEF SlotOK, SlotStates
  <2> QED  BY <2>3 DEF s
<1>5. SlotTypes' /\ CallerTypes'
  BY <1>1, <1>2, <1>4 DEF PoolInv, SlotTypes, CallerTypes, Pool, History!Pool
<1>6. \A c \in Callers : caller[c].pc # "idle" => slots'[caller[c].slot] = slots[caller[c].slot]
  BY <1>3 DEF PoolInv, CallerTypes, CallerOK, CallerHasItsSlot, Owned
<1>7. CallerHasItsSlot'
  BY <1>1, <1>6 DEF PoolInv, CallerHasItsSlot
<1>8. QueueIsOfQueued' /\ WorkerHasItsSlot'
  BY <1>1 DEF PoolInv, QueueIsOfQueued, WorkerHasItsSlot, Pool, History!Pool
<1> QED  BY <1>1, <1>5, <1>7, <1>8 DEF PoolInv

\* The answer is published to a caller that waits, else the slot is freed.
LEMMA PublishKeepsPool ==
  ASSUME PoolInv, History!Publish
  PROVE  PoolInv' /\ hist' = hist /\ worker'.pc = "idle"
<1> DEFINE i == worker.slot
           s == slots'[i]
<1>1. /\ worker.pc = "publish" /\ worker' = [pc |-> "idle"] /\ UNCHANGED <<hist, lock, queue, caller>>
  BY DEF History!Publish, History!repoVars, History!IdleWorker
<1>2. i \in Pool /\ slots[i].state = "writing" /\ SlotOK(slots[i]) /\ DOMAIN slots = Pool
  BY <1>1 DEF PoolInv, WorkerHasItsSlot, SlotTypes
<1>3. /\ DOMAIN slots' = Pool /\ \A j \in Pool : j # i => slots'[j] = slots[j]
      /\ \/ s = slots[i]
         \/ /\ slots[i].waiting
            /\ s = [state |-> "complete", gen |-> slots[i].gen, done |-> TRUE, waiting |-> TRUE,
                    turn |-> slots[i].turn, saved |-> worker.saved]
         \/ ~slots[i].waiting /\ s = [slots[i] EXCEPT !.state = "free"]
  BY <1>2 DEF History!Publish
<1> HIDE DEF s
<1>5. /\ SlotOK(s)
      /\ \A c \in Callers : caller[c].pc # "idle" /\ caller[c].slot = i => Owned(caller[c], s)
  <2>1. \A c \in Callers : caller[c].pc # "idle" /\ caller[c].slot = i =>
          Owned(caller[c], slots[i])
    BY DEF PoolInv, CallerHasItsSlot
  <2>2. CASE s = slots[i]  BY <1>2, <2>1, <2>2
  <2>3. CASE /\ slots[i].waiting
             /\ s = [state |-> "complete", gen |-> slots[i].gen, done |-> TRUE,
                     waiting |-> TRUE, turn |-> slots[i].turn, saved |-> worker.saved]
    <3>1. SlotOK(s) /\ s.state = "complete" /\ s.gen = slots[i].gen /\ s.waiting = TRUE
      BY <1>2, <2>3 DEF SlotOK, SlotStates
    <3> QED  BY <1>2, <2>1, <3>1 DEF Owned
  <2>4. CASE ~slots[i].waiting /\ s = [slots[i] EXCEPT !.state = "free"]
    <3>1. /\ DOMAIN s = DOMAIN slots[i] /\ s.state = "free" /\ s.waiting = slots[i].waiting
          /\ s.gen = slots[i].gen /\ s.done = slots[i].done
      BY <1>2, <2>4 DEF SlotOK
    <3>2. SlotOK(s)  BY <1>2, <3>1 DEF SlotOK, SlotStates
    <3>3. \A c \in Callers : ~(caller[c].pc # "idle" /\ caller[c].slot = i)
      BY <2>1, <2>4 DEF Owned
    <3> QED  BY <3>2, <3>3
  <2> QED  BY <1>3, <2>2, <2>3, <2>4
<1>6. SlotTypes' /\ CallerTypes' /\ CallerHasItsSlot'
  BY <1>1, <1>2, <1>3, <1>5, OneSlot DEF s
<1>7. \A k \in 1..Len(queue) : queue[k] # i /\ queue[k] \in Pool
  BY <1>2 DEF PoolInv, QueueIsOfQueued
<1>8. QueueIsOfQueued'
  BY <1>1, <1>3, <1>7 DEF PoolInv, QueueIsOfQueued, Pool, History!Pool
<1>9. WorkerHasItsSlot'
  BY <1>1 DEF WorkerHasItsSlot
<1> QED  BY <1>1, <1>6, <1>8, <1>9 DEF PoolInv

\* One of the two records of a turn, the two kinds are told apart, and a
\* fragment is neither.
LEMMA RecordsOfATurn ==
  ASSUME History!WriterBounds
  PROVE  /\ \A t \in Turns : History!User(t) \in TurnRecords /\ History!Assistant(t) \in TurnRecords
         /\ \A t, u \in Turns : /\ History!User(t) # History!Assistant(u)
                                /\ History!Assistant(t) = History!Assistant(u) => t = u
         /\ \A t \in Turns : History!User(t) # Raw /\ History!Assistant(t) # Raw
BY DEF History!User, History!Assistant, TurnRecords, History!WriterBounds

\* What writing does to the file: behind whole lines there is a new one or
\* none, behind a torn line no new one, and that line may be ended.
LEMMA WrittenMeans ==
  ASSUME hist \in Seq(TurnLines), WholeBefore, NEW r \in TurnRecords,
         NEW o \in History!Outcomes, hist' = History!Written(hist, r, o)
  PROVE  /\ hist' \in Seq(TurnLines) /\ WholeBefore'
         /\ Len(hist') \in Nat /\ Len(hist) \in Nat
         /\ \A i \in 1..Len(hist) :
              /\ i \in 1..Len(hist') /\ hist'[i].rec = hist[i].rec
              /\ hist[i].nl = TRUE => hist'[i].nl = TRUE
         /\ \A i \in 1..Len(hist') : i \in 1..Len(hist) \/
              /\ i = Len(hist) + 1 /\ History!HasNewline(hist)
              /\ hist'[i].rec \in {r, Raw} /\ (hist'[i].nl = TRUE => hist'[i].rec = r)
         /\ \A i \in 1..Len(hist) : hist'[i].nl = TRUE =>
              hist[i].nl = TRUE \/ (~History!HasNewline(hist) /\ i = Len(hist))
         /\ o = "line" => \E i \in 1..Len(hist') :
              /\ hist'[i].nl = TRUE
              /\ hist'[i].rec = (IF History!HasNewline(hist) THEN r ELSE History!Last(hist).rec)
<1> DEFINE n == Len(hist)
<1>n. n \in Nat  OBVIOUS
<1>1. CASE o = "nothing"
  <2>1. hist' = hist  BY <1>1 DEF History!Written
  <2> QED  BY <1>1, <1>n, <2>1 DEF WholeBefore
<1>2. CASE o # "nothing" /\ History!HasNewline(hist)
  <2> DEFINE l == [rec |-> IF o = "fragment" THEN Raw ELSE r, nl |-> o = "line"]
  <2>1. hist' = Append(hist, l)  BY <1>2 DEF History!Written
  <2>2. /\ l \in TurnLines /\ l.rec \in {r, Raw}
        /\ (l.nl = TRUE => l.rec = r) /\ (o = "line" => l.nl = TRUE)
    BY DEF TurnLines
  <2> HIDE DEF l
  <2>3. /\ hist' \in Seq(TurnLines) /\ Len(hist') = n + 1 /\ hist'[n + 1] = l
        /\ \A i \in 1..n : hist'[i] = hist[i]
    BY <2>1, <2>2
  <2>4. \A i \in 1..n : hist[i].nl = TRUE
    <3> SUFFICES ASSUME NEW i \in 1..n PROVE hist[i].nl = TRUE  OBVIOUS
    <3>1. CASE i = n
      <4>1. hist # <<>> /\ hist[n] \in TurnLines  BY <3>1
      <4>2. hist[n].nl \in BOOLEAN  BY <4>1 DEF TurnLines
      <4> QED  BY <1>2, <3>1, <4>1, <4>2 DEF History!HasNewline, History!Last
    <3>2. CASE i # n  BY <3>2 DEF WholeBefore
    <3> QED  BY <3>1, <3>2
  <2>5. \A i \in 1..n + 1 : i \in 1..n \/ i = n + 1  BY <1>n
  <2>6. WholeBefore'
    <3> SUFFICES ASSUME NEW i \in 1..Len(hist'), i # Len(hist')  PROVE hist'[i].nl = TRUE
      BY DEF WholeBefore
    <3>1. i \in 1..n  BY <1>n, <2>3
    <3> QED  BY <2>3, <2>4, <3>1
  <2>7. n + 1 \in 1..Len(hist')  BY <1>n, <2>3
  <2> QED  BY <1>2, <1>n, <2>2, <2>3, <2>4, <2>5, <2>6, <2>7
<1>3. CASE o # "nothing" /\ ~History!HasNewline(hist)
  <2>1. hist # <<>> /\ n \in 1..n  BY <1>3, <1>n DEF History!HasNewline
  <2>2. hist[n] \in TurnLines  BY <2>1
  <2> DEFINE l == [hist[n] EXCEPT !.nl = o = "line"]
  <2>3. hist' = [hist EXCEPT ![n] = l]  BY <1>3 DEF History!Written
  <2>4. l \in TurnLines /\ l.rec = hist[n].rec /\ (o = "line" => l.nl = TRUE)
    BY <2>2 DEF TurnLines
  <2>5. hist[n].nl # TRUE
    BY <1>3, <2>1 DEF History!HasNewline, History!Last
  <2> HIDE DEF l
  <2>6. /\ hist' \in Seq(TurnLines) /\ Len(hist') = n /\ hist'[n] = l
        /\ \A i \in 1..n : i # n => hist'[i] = hist[i]
    BY <2>1, <2>3, <2>4
  <2>7. WholeBefore'  BY <2>6 DEF WholeBefore
  <2>8. \A i \in 1..n : hist'[i].rec = hist[i].rec  BY <2>4, <2>6
  <2>9. \A i \in 1..n : hist[i].nl = TRUE => hist'[i].nl = TRUE  BY <2>5, <2>6
  <2>10. \A i \in 1..n : hist'[i].nl = TRUE =>
           hist[i].nl = TRUE \/ (~History!HasNewline(hist) /\ i = n)
    BY <1>3, <2>6
  <2>11. o = "line" => hist'[n].nl = TRUE /\ hist'[n].rec = History!Last(hist).rec
    BY <2>1, <2>4, <2>6 DEF History!Last
  <2> QED  BY <1>3, <1>n, <2>1, <2>6, <2>7, <2>8, <2>9, <2>10, <2>11
<1> QED  BY <1>1, <1>2, <1>3

\* A line with a newline is a line whose newline is there: the field is Boolean.
LEMMA HoldsMeans ==
  ASSUME NEW f \in Seq(TurnLines), NEW q
  PROVE  History!Holds(f, q) <=> \E i \in 1..Len(f) : f[i].nl = TRUE /\ f[i].rec = q
<1>1. \A i \in 1..Len(f) : f[i].nl \in BOOLEAN
  <2>1. \A e \in TurnLines : e.nl \in BOOLEAN  BY DEF TurnLines
  <2> QED  BY <2>1
<1> QED  BY <1>1 DEF History!Holds

\* What is held after writing: what was, the record, or the torn one.
LEMMA HeldAfter ==
  ASSUME hist \in Seq(TurnLines), WholeBefore, NEW r \in TurnRecords,
         NEW o \in History!Outcomes, hist' = History!Written(hist, r, o), NEW q
  PROVE  /\ History!Holds(hist, q) => History!Holds(hist', q)
         /\ History!Holds(hist', q) =>
              \/ History!Holds(hist, q)
              \/ History!HasNewline(hist) /\ q = r
              \/ ~History!HasNewline(hist) /\ q = History!Last(hist).rec
         /\ o = "line" =>
              History!Holds(hist', IF History!HasNewline(hist) THEN r ELSE History!Last(hist).rec)
<1>1. hist' \in Seq(TurnLines)  BY WrittenMeans
<1>2. ASSUME History!Holds(hist, q)  PROVE History!Holds(hist', q)
  <2>1. PICK i \in 1..Len(hist) : hist[i].nl = TRUE /\ hist[i].rec = q  BY <1>2, HoldsMeans
  <2>2. i \in 1..Len(hist') /\ hist'[i].nl = TRUE /\ hist'[i].rec = q  BY <2>1, WrittenMeans
  <2> QED  BY <1>1, <2>2, HoldsMeans
<1>3. ASSUME History!Holds(hist', q), ~History!Holds(hist, q)
      PROVE  \/ History!HasNewline(hist) /\ q = r
             \/ ~History!HasNewline(hist) /\ q = History!Last(hist).rec
  <2>1. PICK i \in 1..Len(hist') : hist'[i].nl = TRUE /\ hist'[i].rec = q
    BY <1>1, <1>3, HoldsMeans
  <2>2. CASE i \in 1..Len(hist)
    <3>1. hist[i].nl # TRUE  BY <1>3, <2>1, <2>2, HoldsMeans, WrittenMeans
    <3>2. ~History!HasNewline(hist) /\ i = Len(hist) /\ hist[i].rec = q
      BY <2>1, <2>2, <3>1, WrittenMeans
    <3> QED  BY <3>2 DEF History!Last
  <2>3. CASE i \notin 1..Len(hist)
    BY <2>1, <2>3, WrittenMeans
  <2> QED  BY <2>2, <2>3
<1>4. ASSUME o = "line"
      PROVE  History!Holds(hist', IF History!HasNewline(hist) THEN r ELSE History!Last(hist).rec)
  <2> DEFINE p == IF History!HasNewline(hist) THEN r ELSE History!Last(hist).rec
  <2>1. \E i \in 1..Len(hist') : hist'[i].nl = TRUE /\ hist'[i].rec = p
    BY <1>4, WrittenMeans
  <2> HIDE DEF p
  <2>2. History!Holds(hist', p)  BY <1>1, <2>1, HoldsMeans
  <2> QED  BY <2>2 DEF p
<1> QED  BY <1>2, <1>3, <1>4

\* A record is written that the file lacks, or that may be there twice; an
\* answer only behind its question: the file stays sound.
LEMMA WritingIsSound ==
  ASSUME History!WriterBounds, FileIsSound, NEW r \in TurnRecords,
         NEW o \in History!Outcomes, hist' = History!Written(hist, r, o),
         glued \subseteq glued', claimed' = claimed,
         History!Holds(hist, r) => ExemptIn(r, glued),
         \A t \in Turns : r = History!Assistant(t) => KeptIn(History!User(t), hist, glued)
  PROVE  FileIsSound'
<1> DEFINE n == Len(hist)
<1>0. hist \in Seq(TurnLines) /\ WholeBefore /\ n \in Nat  BY DEF FileIsSound
<1>1. /\ hist' \in Seq(TurnLines) /\ WholeBefore' /\ Len(hist') \in Nat
      /\ \A i \in 1..n : i \in 1..Len(hist') /\ hist'[i].rec = hist[i].rec
                         /\ (hist[i].nl = TRUE => hist'[i].nl = TRUE)
      /\ \A i \in 1..Len(hist') : i \in 1..n \/
           (i = n + 1 /\ History!HasNewline(hist) /\ hist'[i].rec \in {r, Raw})
  BY <1>0, WrittenMeans
<1>2. \A q : ExemptIn(q, glued) => ExemptIn(q, glued')
  BY DEF ExemptIn
<1>3. ASSUME NEW i \in 1..n, hist[i].rec = r, History!HasNewline(hist)  PROVE ExemptIn(r, glued)
  <2>1. hist[i].nl = TRUE
    <3>1. CASE i # n  BY <1>0, <3>1 DEF WholeBefore
    <3>2. CASE i = n
      <4>1. hist # <<>> /\ hist[n] \in TurnLines  BY <1>0, <3>2
      <4>2. hist[n].nl \in BOOLEAN  BY <4>1 DEF TurnLines
      <4> QED  BY <1>3, <3>2, <4>1, <4>2 DEF History!HasNewline, History!Last
    <3> QED  BY <3>1, <3>2
  <2> QED  BY <1>0, <1>3, <2>1, HoldsMeans
<1>4. RecordOnce'
  <2> SUFFICES ASSUME NEW i \in 1..Len(hist'), NEW j \in 1..Len(hist'),
                      hist'[i].rec = hist'[j].rec, hist'[i].rec # Raw, i # j
               PROVE  ExemptIn(hist'[i].rec, glued')
    BY DEF RecordOnce
  <2> DEFINE q == hist'[i].rec
  <2>1. CASE i \in 1..n /\ j \in 1..n
    <3>1. hist[i].rec = hist[j].rec /\ hist[i].rec # Raw /\ q = hist[i].rec
      BY <1>1, <2>1
    <3>2. ExemptIn(hist[i].rec, glued)  BY <2>1, <3>1 DEF FileIsSound, RecordOnce
    <3> QED  BY <1>2, <3>1, <3>2
  <2>2. CASE i \notin 1..n \/ j \notin 1..n
    <3>1. q = r /\ History!HasNewline(hist)  BY <1>1, <2>2
    <3>2. \E k \in 1..n : hist[k].rec = r  BY <1>1, <2>2, <3>1
    <3>3. ExemptIn(r, glued)  BY <1>3, <3>1, <3>2
    <3> QED  BY <1>2, <3>1, <3>3
  <2> QED  BY <2>1, <2>2
<1>5. History!PairInOrder'
  <2> SUFFICES ASSUME NEW j \in 1..Len(hist'), NEW t \in Turns,
                      hist'[j].rec = History!Assistant(t), History!User(t) \notin glued'
               PROVE  \E i \in 1..j - 1 : hist'[i].nl /\ hist'[i].rec = History!User(t)
    BY DEF History!PairInOrder, History!Assistant, History!User
  <2>1. History!User(t) \notin glued  OBVIOUS
  <2>2. PICK k \in 1..n : hist[k].nl /\ hist[k].rec = History!User(t) /\ k \in 1..j - 1
    <3>1. CASE j \in 1..n
      <4>1. hist[j].rec = History!Assistant(t)  BY <1>1, <3>1
      <4>2. PICK i \in 1..j - 1 : hist[i].nl /\ hist[i].rec = History!User(t)
        BY <2>1, <3>1, <4>1 DEF FileIsSound, History!PairInOrder
      <4>3. i \in 1..n  BY <1>0, <3>1
      <4> QED  BY <4>2, <4>3
    <3>2. CASE j \notin 1..n
      <4>1. j = n + 1 /\ hist'[j].rec \in {r, Raw}  BY <1>1, <3>2
      <4>2. History!Assistant(t) = r  BY <4>1, RecordsOfATurn
      <4>3. History!Holds(hist, History!User(t))  BY <2>1, <4>2 DEF KeptIn
      <4>4. PICK i \in 1..n : hist[i].nl /\ hist[i].rec = History!User(t)
        BY <4>3 DEF History!Holds
      <4>5. i \in 1..j - 1  BY <1>0, <4>1
      <4> QED  BY <4>4, <4>5
    <3> QED  BY <3>1, <3>2
  <2>3. hist[k].nl = TRUE
    <3>1. hist[k] \in TurnLines  BY <1>0, <2>2
    <3>2. hist[k].nl \in BOOLEAN  BY <3>1 DEF TurnLines
    <3> QED  BY <2>2, <3>2
  <2> QED  BY <1>1, <2>2, <2>3
<1>6. History!SavedTurnIsRead'
  <2> SUFFICES ASSUME NEW t \in claimed, NEW q \in {History!User(t), History!Assistant(t)}
               PROVE  History!Holds(hist', q) \/ q \in glued'
    BY DEF History!SavedTurnIsRead, History!Holds, History!User, History!Assistant
  <2>1. History!Holds(hist, q) \/ q \in glued
    BY DEF FileIsSound, History!SavedTurnIsRead
  <2> QED  BY <1>0, <2>1, HeldAfter
<1> QED  BY <1>1, <1>4, <1>5, <1>6 DEF FileIsSound

\* The file is as it was.
LEMMA FileStays ==
  ASSUME FileIsSound, UNCHANGED <<hist, claimed, glued>>
  PROVE  FileIsSound'
BY DEF FileIsSound, WholeBefore, RecordOnce, ExemptIn, History!PairInOrder,
       History!SavedTurnIsRead, History!Holds, History!User, History!Assistant, TurnLines, TurnRecords

\* Nothing is written: what the writer knows of the file stays true.
LEMMA TurnsStay ==
  ASSUME TurnsAreKept, UNCHANGED <<hist, claimed, glued>>,
         worker'.pc \in {"user", "assistant", "unlock"} =>
           /\ worker'.pc = worker.pc /\ worker'.saved = worker.saved
           /\ slots'[worker'.slot].turn = slots[worker.slot].turn
  PROVE  TurnsAreKept'
<1>1. FileIsSound'  BY FileStays DEF TurnsAreKept
<1>2. ScanHolds'
  <2>1. worker'.pc \in {"user", "assistant", "unlock"} => History!Turn' = History!Turn
    BY DEF History!Turn
  <2> QED  BY <2>1 DEF TurnsAreKept, ScanHolds, KeptIn, History!Holds, History!User,
                       History!Assistant
<1> QED  BY <1>1, <1>2 DEF TurnsAreKept

\* The writer's record keeps its other fields.
LEMMA WorkerFields ==
  ASSUME NEW r, {"pc", "slot", "saved"} \subseteq DOMAIN r, NEW p, NEW b
  PROVE  /\ DOMAIN [r EXCEPT !.pc = p] = DOMAIN r /\ [r EXCEPT !.pc = p].pc = p
         /\ [r EXCEPT !.pc = p].slot = r.slot /\ [r EXCEPT !.pc = p].saved = r.saved
         /\ DOMAIN [r EXCEPT !.pc = p, !.saved = b] = DOMAIN r
         /\ [r EXCEPT !.pc = p, !.saved = b].pc = p
         /\ [r EXCEPT !.pc = p, !.saved = b].slot = r.slot
         /\ [r EXCEPT !.pc = p, !.saved = b].saved = b
OBVIOUS

\* The repository is locked and the file read: what it holds of the turn.
LEMMA ScanKeepsHistory ==
  ASSUME HistInv, History!LockAndScan
  PROVE  HistInv'
<1> DEFINE t == History!Turn
           user == History!Holds(hist, History!User(t))
           assistant == History!Holds(hist, History!Assistant(t))
           p == IF assistant THEN "unlock" ELSE IF user THEN "assistant" ELSE "user"
<1>1. /\ worker.pc = "lock" /\ lock' = [op |-> "writer"]
      /\ UNCHANGED <<hist, slots, queue, caller>>
  BY DEF History!LockAndScan
<1>2. worker' = [worker EXCEPT !.pc = p, !.saved = user /\ assistant]
  BY DEF History!LockAndScan, History!ScanIds
<1>3. {"pc", "slot", "saved"} \subseteq DOMAIN worker
  BY <1>1 DEF HistInv, PoolInv, WorkerHasItsSlot
<1> DEFINE b == user /\ assistant
<1> HIDE DEF p, b
<1>4. worker' = [worker EXCEPT !.pc = p, !.saved = b]  BY <1>2 DEF b
<1>5. DOMAIN worker' = DOMAIN worker /\ worker'.pc = p /\ worker'.slot = worker.slot
  BY <1>3, <1>4, WorkerFields
<1>6. p \in {"unlock", "assistant", "user"}
      /\ (p = "user" => ~user /\ ~assistant) /\ (p = "assistant" => user /\ ~assistant)
  BY DEF p
<1>7. PoolInv'
  BY <1>1, <1>5, <1>6, WorkerGoesOn DEF HistInv
<1>8. History!Turn' = t
  BY <1>1, <1>5 DEF History!Turn
<1>9. FileIsSound'
  BY <1>1, FileStays DEF HistInv, TurnsAreKept, History!LockAndScan, History!ghosts
<1>10. worker'.saved = TRUE => user /\ assistant
  <2>1. worker'.saved = b  BY <1>3, <1>4, WorkerFields
  <2> QED  BY <2>1 DEF b
<1>11. ScanHolds'
  BY <1>1, <1>5, <1>6, <1>8, <1>10 DEF ScanHolds, KeptIn, History!Holds, History!User,
     History!Assistant
<1> QED  BY <1>7, <1>9, <1>11 DEF HistInv, TurnsAreKept

\* How much of a record an append, told to have worked or not, can write.
LEMMA AppendWrites ==
  ASSUME NEW r, NEW b \in BOOLEAN, History!HistoryAppend(r, b)
  PROVE  \E o \in History!Outcomes :
           hist' = History!Written(hist, r, o) /\ (b = TRUE => o = "line")
<1>1. hist' = hist => hist' = History!Written(hist, r, "nothing")
  BY DEF History!Written
<1>2. CASE b = TRUE  BY <1>2 DEF History!HistoryAppend, History!Outcomes
<1>3. CASE b = FALSE  BY <1>1, <1>3 DEF History!HistoryAppend, History!Outcomes
<1> QED  BY <1>2, <1>3

\* A record whose append is told to have worked is kept, or glued; when the
\* file lacked it and it is not glued, nothing else has come to light.
LEMMA ToldIsKept ==
  ASSUME hist \in Seq(TurnLines), WholeBefore, NEW r \in TurnRecords, NEW b \in BOOLEAN,
         NEW o \in History!Outcomes, hist' = History!Written(hist, r, o),
         b = TRUE => o = "line", glued' = glued \cup History!Glued(r, b),
         NEW told \in History!Told(r, b), told = TRUE
  PROVE  /\ KeptIn(r, hist', glued')
         /\ ~History!Holds(hist, r) => \A q :
              History!Holds(hist', q) => History!Holds(hist, q) \/ q = r \/ r \in glued'
<1>1. History!Holds(hist', r) => KeptIn(r, hist', glued')  BY DEF KeptIn, History!Holds
<1>2. CASE History!HasNewline(hist)
  <2>1. \A q : History!Holds(hist', q) => History!Holds(hist, q) \/ q = r
    BY <1>2, HeldAfter
  <2>2. CASE b = TRUE  BY <1>1, <1>2, <2>1, <2>2, HeldAfter
  <2>3. CASE b = FALSE
    <3>1. History!Holds(hist', r)  BY <2>3 DEF History!Told
    <3> QED  BY <1>1, <2>1, <3>1
  <2> QED  BY <2>2, <2>3
<1>3. CASE ~History!HasNewline(hist) /\ History!Last(hist).rec = r
  <2>1. \A q : History!Holds(hist', q) => History!Holds(hist, q) \/ q = r
    BY <1>3, HeldAfter
  <2>2. CASE b = TRUE  BY <1>1, <1>3, <2>1, <2>2, HeldAfter
  <2>3. CASE b = FALSE
    <3>1. History!Holds(hist', r)  BY <2>3 DEF History!Told
    <3> QED  BY <1>1, <2>1, <3>1
  <2> QED  BY <2>2, <2>3
<1>4. CASE ~History!HasNewline(hist) /\ History!Last(hist).rec # r
  <2>1. CASE b = TRUE
    <3>1. r \in glued'  BY <1>4, <2>1 DEF History!Glued
    <3> QED  BY <3>1 DEF KeptIn
  <2>2. CASE b = FALSE
    <3>1. History!Holds(hist', r)  BY <2>2 DEF History!Told
    <3>2. \A q : History!Holds(hist', q) => History!Holds(hist, q) \/ q = History!Last(hist).rec
      BY <1>4, HeldAfter
    <3>3. History!Holds(hist, r)  BY <1>4, <3>1, <3>2
    <3> QED  BY <1>1, <3>1, <3>3
  <2> QED  BY <2>1, <2>2
<1> QED  BY <1>2, <1>3, <1>4

\* The user record: the answer is appended next only if the question is kept.
LEMMA AppendUserKeepsHistory ==
  ASSUME History!WriterBounds, HistInv, NEW b \in BOOLEAN, History!AppendUser(b)
  PROVE  HistInv'
<1> DEFINE t == History!Turn
           r == History!User(t)
           a == History!Assistant(t)
<1>1. /\ worker.pc = "user" /\ History!HistoryAppend(r, b)
      /\ UNCHANGED <<lock, slots, queue, caller, claimed>>
      /\ glued' = glued \cup History!Glued(r, b)
  BY DEF History!AppendUser
<1>2. PICK told \in History!Told(r, b) :
        worker' = [worker EXCEPT !.pc = IF told THEN "assistant" ELSE "unlock"]
  BY DEF History!AppendUser
<1> DEFINE p == IF told THEN "assistant" ELSE "unlock"
<1>3. {"pc", "slot", "saved"} \subseteq DOMAIN worker /\ lock = [op |-> "writer"]
  BY <1>1 DEF HistInv, PoolInv, WorkerHasItsSlot
<1>t. t \in Turns
  BY <1>1 DEF HistInv, PoolInv, WorkerHasItsSlot, SlotTypes, SlotOK, History!Turn
<1>b. told \in BOOLEAN  BY <1>2, Zenon DEF History!Told
<1>5. p \in {"assistant", "unlock"} /\ (p = "assistant" => told = TRUE)  BY <1>b
<1>2a. worker' = [worker EXCEPT !.pc = p]  BY <1>2
<1> HIDE DEF p
<1>4. /\ DOMAIN worker' = DOMAIN worker /\ worker'.pc = p /\ worker'.slot = worker.slot
      /\ worker'.saved = worker.saved
  BY <1>2a, <1>3, WorkerFields
<1>6. PoolInv'
  BY <1>1, <1>3, <1>4, <1>5, WorkerGoesOn DEF HistInv
<1>7. /\ hist \in Seq(TurnLines) /\ WholeBefore /\ FileIsSound /\ worker.saved # TRUE
      /\ ~History!Holds(hist, r) /\ ~History!Holds(hist, a)
  BY <1>1 DEF HistInv, TurnsAreKept, FileIsSound, ScanHolds
<1>8. r \in TurnRecords /\ r # a /\ \A u \in Turns : r # History!Assistant(u)
  BY <1>t, RecordsOfATurn
<1> HIDE DEF r, a
<1>9. PICK o \in History!Outcomes :
        hist' = History!Written(hist, r, o) /\ (b = TRUE => o = "line")
  BY <1>1, AppendWrites
<1>10. FileIsSound'
  BY <1>1, <1>7, <1>8, <1>9, WritingIsSound
<1>11. p = "assistant" => /\ KeptIn(r, hist', glued')
                          /\ History!Holds(hist', a) => r \in glued'
  <2> SUFFICES ASSUME p = "assistant"
               PROVE  KeptIn(r, hist', glued') /\ (History!Holds(hist', a) => r \in glued')
    OBVIOUS
  <2>1. told = TRUE  BY <1>5
  <2>2. KeptIn(r, hist', glued') /\ \A q : History!Holds(hist', q) =>
                      History!Holds(hist, q) \/ q = r \/ r \in glued'
    BY <1>1, <1>2, <1>7, <1>8, <1>9, <2>1, ToldIsKept
  <2> QED  BY <1>7, <1>8, <2>2
<1>12. History!Turn' = t  BY <1>1, <1>4 DEF History!Turn
<1>13. ScanHolds'
  BY <1>4, <1>5, <1>7, <1>11, <1>12
     DEF ScanHolds, KeptIn, History!Holds, History!User, History!Assistant, r, a
<1> QED  BY <1>6, <1>10, <1>13 DEF HistInv, TurnsAreKept

\* The assistant record: a turn is said to be saved only if both are kept.
LEMMA AppendAssistantKeepsHistory ==
  ASSUME History!WriterBounds, HistInv, NEW b \in BOOLEAN, History!AppendAssistant(b)
  PROVE  HistInv'
<1> DEFINE t == History!Turn
           r == History!Assistant(t)
           q == History!User(t)
<1>1. /\ worker.pc = "assistant" /\ History!HistoryAppend(r, b)
      /\ UNCHANGED <<lock, slots, queue, caller, claimed>>
      /\ glued' = glued \cup History!Glued(r, b)
  BY DEF History!AppendAssistant
<1>2. PICK told \in History!Told(r, b) :
        worker' = [worker EXCEPT !.pc = "unlock", !.saved = told]
  BY Zenon DEF History!AppendAssistant
<1>3. {"pc", "slot", "saved"} \subseteq DOMAIN worker /\ lock = [op |-> "writer"]
  BY <1>1 DEF HistInv, PoolInv, WorkerHasItsSlot
<1>t. t \in Turns
  BY <1>1 DEF HistInv, PoolInv, WorkerHasItsSlot, SlotTypes, SlotOK, History!Turn
<1>4. /\ DOMAIN worker' = DOMAIN worker /\ worker'.pc = "unlock" /\ worker'.slot = worker.slot
      /\ worker'.saved = told
  BY <1>2, <1>3, WorkerFields
<1>5. PoolInv'
  BY <1>1, <1>3, <1>4, WorkerGoesOn DEF HistInv
<1>6. /\ hist \in Seq(TurnLines) /\ WholeBefore /\ FileIsSound /\ KeptIn(q, hist, glued)
      /\ History!Holds(hist, r) => q \in glued
  BY <1>1 DEF HistInv, TurnsAreKept, FileIsSound, ScanHolds
<1>7. r \in TurnRecords /\ \A u \in Turns : r = History!Assistant(u) => u = t
  BY <1>t, RecordsOfATurn
<1>8. /\ History!Holds(hist, r) => ExemptIn(r, glued)
      /\ \A u \in Turns : r = History!Assistant(u) => KeptIn(History!User(u), hist, glued)
  BY <1>t, <1>6, <1>7 DEF ExemptIn
<1> HIDE DEF r, q
<1>9. PICK o \in History!Outcomes :
        hist' = History!Written(hist, r, o) /\ (b = TRUE => o = "line")
  BY <1>1, AppendWrites
<1>10. FileIsSound'
  BY <1>1, <1>6, <1>7, <1>8, <1>9, WritingIsSound
<1>11. told = TRUE => KeptIn(r, hist', glued')
  BY <1>1, <1>2, <1>6, <1>7, <1>9, ToldIsKept
<1>12. KeptIn(q, hist', glued')
  <2>1. History!Holds(hist, q) => History!Holds(hist', q)  BY <1>6, <1>7, <1>9, HeldAfter
  <2> QED  BY <1>1, <1>6, <2>1 DEF KeptIn, History!Holds
<1>13. History!Turn' = t  BY <1>1, <1>4 DEF History!Turn
<1>14. ScanHolds'
  BY <1>4, <1>11, <1>12, <1>13
     DEF ScanHolds, KeptIn, History!Holds, History!User, History!Assistant, r, q
<1> QED  BY <1>5, <1>10, <1>14 DEF HistInv, TurnsAreKept

\* The writer gives up the repository, or never gets it.
LEMMA UnlockKeepsHistory ==
  ASSUME HistInv, History!UnlockRepository \/ History!RepositoryUnavailable
  PROVE  HistInv'
<1>1. /\ worker.pc # "idle" /\ worker' = [worker EXCEPT !.pc = "publish"]
      /\ UNCHANGED <<hist, slots, queue, caller, glued>>
  BY DEF History!UnlockRepository, History!RepositoryUnavailable, History!repoVars,
         History!ghosts
<1>2. {"pc", "slot", "saved"} \subseteq DOMAIN worker
  BY <1>1 DEF HistInv, PoolInv, WorkerHasItsSlot
<1>3. DOMAIN worker' = DOMAIN worker /\ worker'.pc = "publish" /\ worker'.slot = worker.slot
  BY <1>1, <1>2, WorkerFields
<1>4. PoolInv'  BY <1>1, <1>3, WorkerGoesOn DEF HistInv
<1>5. CASE claimed' = claimed
  BY <1>1, <1>3, <1>4, <1>5, TurnsStay DEF HistInv
<1>6. CASE claimed' # claimed
  <2>1. History!UnlockRepository
    BY <1>6 DEF History!RepositoryUnavailable, History!ghosts
  <2>2. worker.pc = "unlock" /\ worker.saved /\ claimed' = claimed \cup {History!Turn}
    BY <1>6, <2>1 DEF History!UnlockRepository
  <2>3. worker.saved = TRUE
    BY <2>2 DEF HistInv, PoolInv, WorkerHasItsSlot
  <2>4. /\ KeptIn(History!User(History!Turn), hist, glued)
        /\ KeptIn(History!Assistant(History!Turn), hist, glued)
    BY <2>2, <2>3 DEF HistInv, TurnsAreKept, ScanHolds
  <2>5. History!SavedTurnIsRead'
    <3> SUFFICES ASSUME NEW u \in claimed', NEW q \in {History!User(u), History!Assistant(u)}
                 PROVE  History!Holds(hist, q) \/ q \in glued
      BY <1>1 DEF History!SavedTurnIsRead, History!Holds, History!User, History!Assistant
    <3>1. CASE u \in claimed
      BY <3>1 DEF HistInv, TurnsAreKept, FileIsSound, History!SavedTurnIsRead
    <3>2. CASE u = History!Turn  BY <2>4, <3>2 DEF KeptIn
    <3> QED  BY <2>2, <3>1, <3>2
  <2>6. /\ hist' \in Seq(TurnLines) /\ WholeBefore' /\ RecordOnce' /\ History!PairInOrder'
    BY <1>1 DEF HistInv, TurnsAreKept, FileIsSound, WholeBefore, RecordOnce, ExemptIn,
                History!PairInOrder, History!User, History!Assistant
  <2>7. ScanHolds'  BY <1>3 DEF ScanHolds
  <2> QED  BY <1>4, <2>5, <2>6, <2>7 DEF HistInv, TurnsAreKept, FileIsSound, TurnLines, TurnRecords
<1> QED  BY <1>5, <1>6

\* The history is cleared, which the writer's lock keeps out of its own work.
LEMMA ClearKeepsHistory ==
  ASSUME HistInv, History!ClearTurns
  PROVE  HistInv'
<1>1. /\ lock = [op |-> "free"] /\ hist' = <<>>
      /\ UNCHANGED <<lock, slots, queue, worker, caller>>
  BY DEF History!ClearTurns, History!Unlocked
<1>2. worker.pc \notin {"user", "assistant", "unlock"}
  <2>1. lock # [op |-> "writer"]  BY <1>1
  <2> QED  BY <2>1 DEF HistInv, PoolInv, WorkerHasItsSlot
<1>3. PoolInv'
  BY <1>1 DEF HistInv, PoolInv, SlotTypes, CallerTypes, CallerHasItsSlot, QueueIsOfQueued,
              WorkerHasItsSlot, Pool, History!Pool
<1>4. claimed' = {}  BY DEF History!ClearTurns
<1>5. FileIsSound'
  BY <1>1, <1>4 DEF FileIsSound, WholeBefore, RecordOnce, History!PairInOrder,
                    History!SavedTurnIsRead
<1>6. ScanHolds'  BY <1>1, <1>2 DEF ScanHolds
<1> QED  BY <1>3, <1>5, <1>6 DEF HistInv, TurnsAreKept

\* A reset, with a record that was under way on the card or not.
LEMMA ResetKeepsHistory ==
  ASSUME History!WriterBounds, HistInv, History!ResetWriter
  PROVE  HistInv'
<1>1. /\ queue' = <<>> /\ worker' = [pc |-> "idle"]
      /\ slots' = [i \in Pool |-> [History!FreeSlot EXCEPT !.gen = slots[i].gen]]
      /\ caller' = [c \in Callers |-> History!IdleCaller]
  BY DEF History!ResetWriter, Pool, History!IdleWorker
<1>2. \A i \in Pool : SlotOK(slots'[i])
  <2> SUFFICES ASSUME NEW i \in Pool PROVE SlotOK(slots'[i])
    OBVIOUS
  <2>1. slots[i].gen \in Nat  BY DEF HistInv, PoolInv, SlotTypes, SlotOK
  <2>2. slots'[i] = [state |-> "free", gen |-> slots[i].gen, waiting |-> FALSE, done |-> FALSE]
    BY <1>1 DEF History!FreeSlot
  <2> QED  BY <2>1, <2>2 DEF SlotOK, SlotStates
<1>3. \A c \in Callers : CallerOK(caller'[c]) /\ caller'[c].pc = "idle"
  BY <1>1 DEF CallerOK, History!IdleCaller
<1>4. PoolInv'
  <2>1. SlotTypes' /\ CallerTypes'
    BY <1>1, <1>2, <1>3 DEF SlotTypes, CallerTypes, Pool, History!Pool
  <2>2. CallerHasItsSlot'  BY <1>3 DEF CallerHasItsSlot
  <2>3. QueueIsOfQueued' /\ WorkerHasItsSlot'
    BY <1>1 DEF QueueIsOfQueued, WorkerHasItsSlot
  <2> QED  BY <2>1, <2>2, <2>3 DEF PoolInv
<1>5. ScanHolds'  BY <1>1 DEF ScanHolds
<1>6. UNCHANGED <<claimed, glued>>  BY DEF History!ResetWriter, History!ghosts
<1> DEFINE t == History!Turn
<1>7. \/ hist' = hist
      \/ /\ worker.pc = "user"
         /\ \E o \in History!Outcomes : hist' = History!Written(hist, History!User(t), o)
      \/ /\ worker.pc = "assistant"
         /\ \E o \in History!Outcomes : hist' = History!Written(hist, History!Assistant(t), o)
  BY DEF History!ResetWriter
<1>8. worker.pc \in {"user", "assistant"} => t \in Turns
  BY DEF HistInv, PoolInv, WorkerHasItsSlot, SlotTypes, SlotOK, History!Turn
<1>9. FileIsSound  BY DEF HistInv, TurnsAreKept
<1>10. CASE hist' = hist  BY <1>4, <1>5, <1>6, <1>9, <1>10, FileStays DEF HistInv, TurnsAreKept
<1>11. CASE worker.pc = "user" /\ \E o \in History!Outcomes :
              hist' = History!Written(hist, History!User(t), o)
  <2>1. ~History!Holds(hist, History!User(t))
    BY <1>11 DEF HistInv, TurnsAreKept, ScanHolds
  <2>2. /\ History!User(t) \in TurnRecords
        /\ \A u \in Turns : History!User(t) # History!Assistant(u)
    BY <1>8, <1>11, RecordsOfATurn
  <2>3. FileIsSound'
    BY <1>6, <1>9, <1>11, <2>1, <2>2, WritingIsSound
  <2> QED  BY <1>4, <1>5, <2>3 DEF HistInv, TurnsAreKept
<1>12. CASE worker.pc = "assistant" /\ \E o \in History!Outcomes :
              hist' = History!Written(hist, History!Assistant(t), o)
  <2>1. /\ KeptIn(History!User(t), hist, glued)
        /\ History!Holds(hist, History!Assistant(t)) => History!User(t) \in glued
    BY <1>12 DEF HistInv, TurnsAreKept, ScanHolds
  <2>2. /\ History!Assistant(t) \in TurnRecords
        /\ \A u \in Turns : History!Assistant(t) = History!Assistant(u) => u = t
    BY <1>8, <1>12, RecordsOfATurn
  <2>3. /\ History!Holds(hist, History!Assistant(t)) => ExemptIn(History!Assistant(t), glued)
        /\ \A u \in Turns :
             History!Assistant(t) = History!Assistant(u) => KeptIn(History!User(u), hist, glued)
    BY <1>8, <1>12, <2>1, <2>2 DEF ExemptIn
  <2>4. FileIsSound'
    BY <1>6, <1>9, <1>12, <2>2, <2>3, WritingIsSound
  <2> QED  BY <1>4, <1>5, <2>4 DEF HistInv, TurnsAreKept
<1> QED  BY <1>7, <1>10, <1>11, <1>12

\* Every step of the writer and its callers.
LEMMA HistoryStep ==
  ASSUME History!WriterBounds, HistInv, History!Next
  PROVE  HistInv'
<1>1. ASSUME NEW c \in Callers, NEW turn \in Turns, History!ClaimSlot(c, turn)  PROVE HistInv'
  <2>1. /\ PoolInv' /\ worker' = worker /\ hist' = hist
        /\ worker.pc # "idle" => slots'[worker.slot] = slots[worker.slot]
    BY <1>1, ClaimKeepsPool DEF HistInv
  <2>2. UNCHANGED <<claimed, glued>>  BY <1>1 DEF History!ClaimSlot, History!ghosts
  <2> QED  BY <2>1, <2>2, TurnsStay DEF HistInv
<1>2. ASSUME NEW c \in Callers, History!CallerNext(c)  PROVE HistInv'
  <2>1. /\ PoolInv' /\ hist' = hist /\ worker' = worker
        /\ worker.pc # "idle" => slots'[worker.slot].turn = slots[worker.slot].turn
    <3>1. CASE History!SendSlot(c)  BY <3>1, SendKeepsPool DEF HistInv
    <3>2. CASE History!Signalled(c)  BY <3>2, SignalledKeepsPool DEF HistInv
    <3>3. CASE History!WaitExpires(c)  BY <3>3, WaitExpiresKeepsPool DEF HistInv
    <3>4. CASE History!ReadResult(c)  BY <3>4, ReadResultKeepsPool DEF HistInv
    <3>5. CASE History!AbandonResult(c)  BY <3>5, AbandonKeepsPool DEF HistInv
    <3> QED  BY <1>2, <3>1, <3>2, <3>3, <3>4, <3>5 DEF History!CallerNext
  <2>2. UNCHANGED <<claimed, glued>>
    BY <1>2 DEF History!CallerNext, History!SendSlot, History!Signalled, History!WaitExpires,
                History!ReadResult, History!AbandonResult, History!ghosts
  <2> QED  BY <2>1, <2>2, TurnsStay DEF HistInv
<1>3. CASE History!TakeSlot
  <2>1. UNCHANGED <<claimed, glued>>  BY <1>3 DEF History!TakeSlot, History!ghosts
  <2> QED  BY <1>3, <2>1, TakeKeepsPool, TurnsStay DEF HistInv
<1>4. CASE History!ReapAbandoned
  <2>1. UNCHANGED <<claimed, glued>>  BY <1>4 DEF History!ReapAbandoned, History!ghosts
  <2> QED  BY <1>4, <2>1, ReapKeepsPool, TurnsStay DEF HistInv
<1>5. CASE History!Publish
  <2>1. UNCHANGED <<claimed, glued>>  BY <1>5 DEF History!Publish, History!ghosts
  <2> QED  BY <1>5, <2>1, PublishKeepsPool, TurnsStay DEF HistInv
<1>6. CASE History!UnlockRepository \/ History!RepositoryUnavailable
  BY <1>6, UnlockKeepsHistory
<1>7. CASE History!LockAndScan  BY <1>7, ScanKeepsHistory
<1>8. ASSUME NEW b \in BOOLEAN, History!AppendUser(b) \/ History!AppendAssistant(b)
      PROVE  HistInv'
  BY <1>8, AppendUserKeepsHistory, AppendAssistantKeepsHistory
<1>9. CASE History!ClearTurns \/ History!ResetWriter
  BY <1>9, ClearKeepsHistory, ResetKeepsHistory
<1> QED  BY <1>1, <1>2, <1>3, <1>4, <1>5, <1>6, <1>7, <1>8, <1>9
         DEF History!Next, History!WorkerNext

\* What the invariant says to a caller and to a reader of the file.
LEMMA HistoryMeaning ==
  ASSUME History!WriterBounds, HistInv
  PROVE  /\ History!WriterTypeOK /\ History!NoRecordTwice /\ History!PairInOrder
         /\ History!SavedTurnIsRead /\ History!NoFalsePending
<1>1. \A c \in Callers : caller[c].pc = "send" => Len(queue) < PoolSize
  BY QueueHasRoom DEF HistInv
<1>2. History!IsInjective(queue)
  BY DEF HistInv, PoolInv, QueueIsOfQueued, History!IsInjective
<1>3. \A i \in Pool : slots[i].state \in SlotStates /\ slots[i].gen \in Nat
  BY DEF HistInv, PoolInv, SlotTypes, SlotOK
<1>4. \A k \in 1..Len(queue) : queue[k] \in Pool /\ slots[queue[k]].state = "queued"
  BY DEF HistInv, PoolInv, QueueIsOfQueued
<1>5. History!WriterTypeOK
  BY <1>1, <1>2, <1>3, <1>4 DEF History!WriterTypeOK, SlotStates, Pool
<1>6. History!NoFalsePending
  BY DEF HistInv, PoolInv, CallerTypes, CallerOK, History!NoFalsePending
<1>7. History!NoRecordTwice
  BY DEF HistInv, TurnsAreKept, FileIsSound, RecordOnce, ExemptIn, History!NoRecordTwice
<1> QED  BY <1>5, <1>6, <1>7 DEF HistInv, TurnsAreKept, FileIsSound

-----------------------------------------------------------------------------
(* The settings store: one lock, one place for the operation, one result. *)

SettingsTypes ==
  /\ handle \in [Settings!Tasks -> {"closed", "read", "write"}]
  /\ pc \in [Settings!Tasks -> {"idle", "direct", "locking", "waiting"}]
  /\ op \in [Settings!Tasks -> Settings!Ops]
  /\ DOMAIN ran = Settings!Tasks /\ ran = [t \in Settings!Tasks |-> ran[t]]
  /\ lock \in Settings!Tasks \cup {None}
  /\ notified \in BOOLEAN /\ done \in BOOLEAN

\* Whoever waits holds the lock, and the operation in its place is the holder's.
WaiterHoldsTheLock ==
  /\ \A t \in Settings!Tasks : pc[t] = "waiting" <=> lock = t
  /\ pending = lock

\* The notification or the result is the holder's, and never both are there.
ResultIsTheHolders ==
  /\ lock = None => ~notified /\ ~done
  /\ lock # None => notified = ~done
  /\ lock # None /\ done => result = ran[lock]

SettingsInv ==
  SettingsTypes /\ WaiterHoldsTheLock /\ ResultIsTheHolders /\ mine

\* No operation is under way at first.
LEMMA SettingsInitially ==
  ASSUME Settings!SettingsBounds, Settings!Init
  PROVE  SettingsInv
BY DEF Settings!SettingsBounds, Settings!Init, SettingsInv, SettingsTypes,
       WaiterHoldsTheLock, ResultIsTheHolders, Settings!Ops, Settings!NoOp

\* Every step of a caller and of the proxy task keeps the invariant.
LEMMA SettingsStep ==
  ASSUME Settings!SettingsBounds, SettingsInv, Settings!Next
  PROVE  SettingsInv'
<1> USE DEF Settings!SettingsBounds, SettingsInv
<1>1. ASSUME NEW t \in Settings!Tasks, NEW o \in Settings!Ops, Settings!Call(t, o)
      PROVE  SettingsInv'
  <2>1. /\ pc[t] = "idle" /\ op' = [op EXCEPT ![t] = o]
        /\ pc' = [pc EXCEPT ![t] = IF t \in Internal THEN "direct" ELSE "locking"]
        /\ ran' = [ran EXCEPT ![t] = Settings!NotFound]
        /\ UNCHANGED <<handle, lock, pending, notified, result, done, mine>>
    BY <1>1 DEF Settings!Call
  <2>2. SettingsTypes'
    BY <2>1 DEF SettingsTypes
  <2>3. WaiterHoldsTheLock'
    BY <2>1 DEF SettingsTypes, WaiterHoldsTheLock
  <2>4. ResultIsTheHolders'
    BY <2>1 DEF SettingsTypes, WaiterHoldsTheLock, ResultIsTheHolders
  <2> QED  BY <2>1, <2>2, <2>3, <2>4
<1>2. ASSUME NEW t \in Settings!Tasks, Settings!Direct(t)
      PROVE  SettingsInv'
  <2>1. /\ pc[t] = "direct" /\ op' = [op EXCEPT ![t] = Settings!NoOp]
        /\ pc' = [pc EXCEPT ![t] = "idle"]
        /\ ran' = [ran EXCEPT ![t] = Settings!Returns(t, op[t])]
        /\ handle' = IF Settings!Opens(t, op[t])
                     THEN [handle EXCEPT ![t] = op[t].mode] ELSE handle
        /\ mine' = (mine /\ Settings!Returns(t, op[t]) = ran'[t])
        /\ UNCHANGED <<lock, pending, notified, result, done>>
    BY <1>2 DEF Settings!Direct, Settings!Effect, Settings!Return
  <2>2. ran'[t] = Settings!Returns(t, op[t])
    BY <2>1 DEF SettingsTypes
  <2>3. SettingsTypes'
    BY <2>1 DEF SettingsTypes, Settings!Ops, Settings!NoOp, Settings!Opens
  <2>4. WaiterHoldsTheLock' /\ ResultIsTheHolders'
    BY <2>1 DEF SettingsTypes, WaiterHoldsTheLock, ResultIsTheHolders
  <2> QED  BY <2>1, <2>2, <2>3, <2>4
<1>3. ASSUME NEW t \in Settings!Tasks, Settings!Refused(t)
      PROVE  SettingsInv'
  <2>1. /\ pc[t] = "locking" /\ op' = [op EXCEPT ![t] = Settings!NoOp]
        /\ pc' = [pc EXCEPT ![t] = "idle"]
        /\ ran' = [ran EXCEPT ![t] = Settings!TimedOut]
        /\ mine' = (mine /\ Settings!TimedOut = ran'[t])
        /\ UNCHANGED <<handle, lock, pending, notified, result, done>>
    BY <1>3 DEF Settings!Refused, Settings!Return
  <2>2. ran'[t] = Settings!TimedOut
    BY <2>1 DEF SettingsTypes
  <2>3. SettingsTypes'
    BY <2>1 DEF SettingsTypes, Settings!Ops, Settings!NoOp
  <2>4. WaiterHoldsTheLock' /\ ResultIsTheHolders'
    BY <2>1 DEF SettingsTypes, WaiterHoldsTheLock, ResultIsTheHolders
  <2> QED  BY <2>1, <2>2, <2>3, <2>4
<1>4. ASSUME NEW t \in Settings!Tasks, Settings!HandOver(t)
      PROVE  SettingsInv'
  BY <1>4 DEF Settings!HandOver, SettingsTypes, WaiterHoldsTheLock, ResultIsTheHolders
<1>5. ASSUME NEW t \in Settings!Tasks, Settings!TakeBack(t)
      PROVE  SettingsInv'
  <2>1. /\ pc[t] = "waiting" /\ op' = [op EXCEPT ![t] = Settings!NoOp]
        /\ pc' = [pc EXCEPT ![t] = "idle"] /\ done /\ done' = FALSE
        /\ lock' = None /\ pending' = None
        /\ mine' = (mine /\ result = ran[t])
        /\ UNCHANGED <<handle, notified, result, ran>>
    BY <1>5 DEF Settings!TakeBack, Settings!Return
  <2>2. lock = t /\ result = ran[t] /\ ~notified
    BY <2>1 DEF WaiterHoldsTheLock, ResultIsTheHolders, SettingsTypes
  <2>3. SettingsTypes'
    BY <2>1 DEF SettingsTypes, Settings!Ops, Settings!NoOp
  <2>4. WaiterHoldsTheLock' /\ ResultIsTheHolders'
    BY <2>1, <2>2 DEF SettingsTypes, WaiterHoldsTheLock, ResultIsTheHolders
  <2> QED  BY <2>1, <2>2, <2>3, <2>4
<1>6. ASSUME NEW t \in Settings!Tasks, Settings!Close(t)
      PROVE  SettingsInv'
  BY <1>6 DEF Settings!Close, SettingsTypes, WaiterHoldsTheLock, ResultIsTheHolders
<1>7. CASE Settings!Proxy
  <2>1. pending \in Settings!Tasks /\ pending = lock /\ ~done
    BY <1>7 DEF Settings!Proxy, WaiterHoldsTheLock, ResultIsTheHolders, SettingsTypes
  <2>2. /\ notified' = FALSE /\ done' = TRUE /\ result' = Settings!Returns(pending, op[pending])
        /\ ran' = [ran EXCEPT ![pending] = Settings!Returns(pending, op[pending])]
        /\ handle' = IF Settings!Opens(pending, op[pending])
                     THEN [handle EXCEPT ![pending] = op[pending].mode] ELSE handle
        /\ UNCHANGED <<pc, op, lock, pending, mine>>
    BY <1>7, <2>1 DEF Settings!Proxy, Settings!Effect
  <2>3. SettingsTypes'
    BY <2>1, <2>2 DEF SettingsTypes, Settings!Ops, Settings!Opens
  <2>4. WaiterHoldsTheLock' /\ ResultIsTheHolders'
    BY <2>1, <2>2 DEF SettingsTypes, WaiterHoldsTheLock, ResultIsTheHolders
  <2> QED  BY <2>2, <2>3, <2>4
<1> QED  BY <1>1, <1>2, <1>3, <1>4, <1>5, <1>6, <1>7 DEF Settings!Next

\* What the invariant says to the callers.
LEMMA SettingsMeaning ==
  ASSUME Settings!SettingsBounds, SettingsInv
  PROVE  /\ Settings!ResultIsMine /\ Settings!ProxyHasACaller
         /\ Settings!ConfiguredIsReadable
<1>1. Settings!ResultIsMine
  BY DEF SettingsInv, Settings!ResultIsMine
<1>2. Settings!ProxyHasACaller
  BY DEF SettingsInv, SettingsTypes, WaiterHoldsTheLock, ResultIsTheHolders,
         Settings!ProxyHasACaller, Settings!SettingsBounds
<1>3. Settings!ConfiguredIsReadable
  BY DEF Settings!ConfiguredIsReadable, Settings!Configured, Settings!SecretGet,
         Settings!NotFound, Settings!Good
<1> QED  BY <1>1, <1>2, <1>3

-----------------------------------------------------------------------------
(* The schema of the settings. *)

Versions == Nat \cup {Missing}

SchemaTypes ==
  /\ keys \in [version: Versions, last_good: Versions, pending: Versions]
  /\ data \in Nat /\ torn \in BOOLEAN /\ cur \in Nat /\ ver \in Nat
  /\ pc \in {"read", "ready", "refused"} \cup Schema!Writing

\* Settings without a version are untouched and of the running image's own.
UnversionedIsOwn ==
  keys.version = Missing =>
    /\ data = cur /\ ~torn /\ keys.last_good = Missing /\ keys.pending = Missing
    /\ pc \in {"read", "adopt", "refused"}

\* The last good version is no later than the version, and that no later than
\* the data; data that are not of the version on record are marked.
RecordIsBehind ==
  keys.version # Missing =>
    /\ keys.version <= data
    /\ keys.last_good # Missing => keys.last_good <= keys.version
    /\ torn \/ data # keys.version =>
         keys.pending # Missing /\ keys.pending > keys.version

\* What the boot knows at each of its steps.
BootKnows ==
  /\ pc = "adopt" => keys.version = Missing /\ ver = cur
  /\ pc \in {"adopt_good", "adopt_clear", "store_good", "store_clear", "ready"} =>
       keys.version = cur /\ ver = cur /\ data = cur /\ ~torn
  /\ pc \in {"stale", "mark_good", "mark_pending"} =>
       /\ keys.version = ver /\ ver <= cur
       /\ keys.pending # Missing => keys.pending <= cur
  /\ pc \in {"mark_good", "mark_pending"} => ver < cur
  /\ pc = "migrate" =>
       /\ keys.version # Missing /\ keys.version < cur /\ keys.pending = cur
       /\ keys.version <= ver /\ ver <= cur
       /\ keys.version < ver => data = ver
       /\ torn => ver < cur

SchemaInv == SchemaTypes /\ UnversionedIsOwn /\ RecordIsBehind /\ BootKnows

\* A boot finds settings of some image, with or without a version.
LEMMA SchemaInitially ==
  ASSUME Schema!SchemaBounds, Schema!Init
  PROVE  SchemaInv
<1>1. PICK v \in {data} \cup (IF data = First THEN {Missing} ELSE {}) :
        keys = [version |-> v, last_good |-> Missing, pending |-> Missing]
  BY DEF Schema!Init
<1>2. /\ keys.version = v /\ keys.last_good = Missing /\ keys.pending = Missing
      /\ v = data \/ (v = Missing /\ data = cur)
  BY <1>1 DEF Schema!Init
<1>3. SchemaTypes
  <2>1. data \in Nat /\ v \in Versions /\ Missing \in Versions
    BY <1>2 DEF Schema!SchemaBounds, Schema!Init, Versions
  <2>2. keys \in [version: Versions, last_good: Versions, pending: Versions]
    BY <1>1, <2>1
  <2> QED  BY <2>1, <2>2 DEF Schema!SchemaBounds, Schema!Init, SchemaTypes
<1>4. UnversionedIsOwn /\ RecordIsBehind /\ BootKnows
  BY <1>2, <1>3 DEF Schema!SchemaBounds, Schema!Init, SchemaTypes,
     UnversionedIsOwn, RecordIsBehind, BootKnows
<1> QED  BY <1>3, <1>4 DEF SchemaInv

\* Every write of a boot, a fault and the next image keep the invariant.
LEMMA SchemaStep ==
  ASSUME Schema!SchemaBounds, SchemaInv, Schema!Next
  PROVE  SchemaInv'
<1> USE DEF Schema!SchemaBounds, SchemaInv, SchemaTypes, Versions,
            UnversionedIsOwn, RecordIsBehind, BootKnows, Schema!Writing
<1>1. CASE Schema!Read
  BY <1>1 DEF Schema!Read, Schema!Newer
<1>2. CASE Schema!Adopt
  BY <1>2 DEF Schema!Adopt, Schema!Set
<1>3. CASE Schema!DropStale
  <2>1. CASE keys.pending # Missing /\ keys.pending <= ver
    BY <1>3, <2>1 DEF Schema!DropStale, Schema!Set
  <2>2. CASE ~(keys.pending # Missing /\ keys.pending <= ver)
    BY <1>3, <2>2 DEF Schema!DropStale
  <2> QED  BY <2>1, <2>2
<1>4. CASE Schema!Mark
  BY <1>4 DEF Schema!Mark, Schema!Set
<1>5. CASE Schema!Migrate
  <2>1. /\ pc = "migrate" /\ ver < cur /\ UNCHANGED <<keys, cur, pc, faults>>
        /\ \/ ~torn /\ torn' = TRUE /\ UNCHANGED <<data, ver>>
           \/ torn /\ torn' = FALSE /\ data' = ver + 1 /\ ver' = ver + 1
    BY <1>5 DEF Schema!Migrate
  <2>2. CASE torn' = TRUE /\ UNCHANGED <<data, ver>>
    BY <2>1, <2>2
  <2>3. CASE torn' = FALSE /\ data' = ver + 1 /\ ver' = ver + 1
    <3>1. SchemaTypes'
      <4>1. keys' = keys /\ pc' = pc /\ cur' = cur
        BY <2>1
      <4>2. data' \in Nat /\ ver' \in Nat
        BY <2>3
      <4>3. torn' \in BOOLEAN
        BY <2>3
      <4> HIDE DEF UnversionedIsOwn, RecordIsBehind, BootKnows, Versions, Schema!Writing
      <4> QED  BY <4>1, <4>2, <4>3
    <3>2. UnversionedIsOwn' /\ RecordIsBehind' /\ BootKnows'
      BY <2>1, <2>3
    <3> QED  BY <3>1, <3>2
  <2> QED  BY <2>1, <2>2, <2>3
<1>6. CASE Schema!Finish
  BY <1>6 DEF Schema!Finish, Schema!Set
<1>7. CASE Schema!WriteFails
  BY <1>7 DEF Schema!WriteFails, Schema!Fails
<1>8. CASE Schema!PowerCycle
  BY <1>8 DEF Schema!PowerCycle
<1> QED  BY <1>1, <1>2, <1>3, <1>4, <1>5, <1>6, <1>7, <1>8
         DEF Schema!Next, Schema!Boots

\* What the invariant says of the version on record.
LEMMA SchemaMeaning ==
  ASSUME Schema!SchemaBounds, SchemaInv
  PROVE  /\ Schema!ReadyMeansOwnVersion /\ Schema!HalfWayIsMarked
         /\ Schema!RecordTrailsData
<1> USE DEF Schema!SchemaBounds, SchemaInv, SchemaTypes, Versions
<1>1. Schema!ReadyMeansOwnVersion
  BY DEF Schema!ReadyMeansOwnVersion, BootKnows
<1>2. Schema!HalfWayIsMarked
  BY DEF Schema!HalfWayIsMarked, UnversionedIsOwn, RecordIsBehind
<1>3. Schema!RecordTrailsData
  BY DEF Schema!RecordTrailsData, UnversionedIsOwn, RecordIsBehind
<1> QED  BY <1>1, <1>2, <1>3

-----------------------------------------------------------------------------
(* The second factor. *)

FactorStates == [enabled: BOOLEAN, secret: Nat, last: Nat, used: SUBSET Recovery]

CodeTypes ==
  /\ flash \in FactorStates /\ st \in FactorStates /\ ok \in BOOLEAN
  /\ pend \in [secret: Nat, gen: Nat] /\ login \in [gen: Nat, secret: Nat]
  /\ gen \in Nat /\ gen # 0 /\ sess \in SUBSET Nat /\ secrets \in Nat
  /\ granted \in [Codes!Codes -> Nat]

\* Secrets are numbered as they are drawn: that in force, that being enrolled.
SecretsAreDrawn ==
  /\ pend.secret <= secrets
  /\ flash.enabled =>
       flash.secret # 0 /\ flash.secret <= secrets /\ flash.secret # pend.secret

\* The record f does not take the code c any more.
SpentIn(f, c) ==
  f.enabled /\ f.secret = c.secret =>
    /\ c.kind = "recovery" => c.n \in f.used
    /\ c.kind = "totp" => c.n <= f.last

\* A code that was accepted is spent in the record, and belongs to no
\* enrollment that could still be confirmed.
GrantedIsSpent ==
  \A c \in Codes!Codes :
    /\ granted[c] <= 1
    /\ granted[c] = 1 =>
         c.secret <= secrets /\ c.secret # pend.secret /\ SpentIn(flash, c)

\* Sessions, and the login that may still become one, proved the factor on
\* record, whether or not memory knows the record.
ProvedTheRecord ==
  /\ flash.enabled => sess \subseteq {flash.secret}
  /\ login.gen <= gen
  /\ flash.enabled /\ login.gen = gen => login.secret = flash.secret

CodeInv ==
  CodeTypes /\ SecretsAreDrawn /\ GrantedIsSpent /\ ProvedTheRecord
    /\ Codes!MemoryIsTheRecord

\* No factor is in force at first.
LEMMA CodesInitially ==
  ASSUME Codes!TwoStepBounds, Codes!Init
  PROVE  CodeInv
<1>1. CodeTypes
  BY DEF Codes!Init, CodeTypes, FactorStates, Codes!Off, Codes!NoPending,
         Codes!NoLogin
<1>2. SecretsAreDrawn /\ ProvedTheRecord /\ Codes!MemoryIsTheRecord
  BY DEF Codes!Init, SecretsAreDrawn, ProvedTheRecord, Codes!MemoryIsTheRecord,
         Codes!Off, Codes!NoPending, Codes!NoLogin
<1>3. GrantedIsSpent
  BY DEF Codes!Init, GrantedIsSpent
<1> QED  BY <1>1, <1>2, <1>3 DEF CodeInv

\* A code names a secret, and the number of a time-based one is a step.
LEMMA CodeFields ==
  ASSUME Codes!TwoStepBounds, NEW c \in Codes!Codes
  PROVE  /\ c.secret \in Nat /\ c.secret # 0 /\ c.kind \in {"totp", "recovery"}
         /\ c.kind = "totp" => c.n \in Nat
         /\ c.kind = "recovery" => c.n \in Recovery
BY DEF Codes!TwoStepBounds, Codes!Codes

\* What a code leaves behind: the same factor, the code spent, no other code
\* unspent.
LEMMA ConsumedSpends ==
  ASSUME Codes!TwoStepBounds, NEW s \in FactorStates, NEW c \in Codes!Codes,
         c.kind = "totp" => c.n > s.last, NEW n, n = Codes!Consumed(s, c)
  PROVE  /\ n \in FactorStates /\ n.enabled = s.enabled /\ n.secret = s.secret
         /\ SpentIn(n, c)
         /\ \A d \in Codes!Codes : SpentIn(s, d) => SpentIn(n, d)
<1>0. /\ c.kind \in {"totp", "recovery"} /\ (c.kind = "totp" => c.n \in Nat)
      /\ (c.kind = "recovery" => c.n \in Recovery)
  BY CodeFields
<1>1. CASE c.kind = "recovery"
  <2>1. n = [s EXCEPT !.used = s.used \cup {c.n}]
    BY <1>1 DEF Codes!Consumed
  <2>2. /\ n \in FactorStates /\ n.enabled = s.enabled /\ n.secret = s.secret
        /\ n.used = s.used \cup {c.n} /\ n.last = s.last
    BY <1>0, <1>1, <2>1 DEF FactorStates
  <2> QED  BY <1>1, <2>2 DEF SpentIn
<1>2. CASE c.kind = "totp"
  <2>1. n = [s EXCEPT !.last = c.n]
    BY <1>2 DEF Codes!Consumed
  <2>2. /\ n \in FactorStates /\ n.enabled = s.enabled /\ n.secret = s.secret
        /\ n.used = s.used /\ n.last = c.n /\ s.last \in Nat /\ c.n \in Nat
    BY <1>0, <1>2, <2>1 DEF FactorStates
  <2>3. \A d \in Codes!Codes : d.kind = "totp" => d.n \in Nat
    BY CodeFields
  <2>4. \A d \in Codes!Codes : SpentIn(s, d) => SpentIn(n, d)
    BY <1>2, <2>2, <2>3 DEF SpentIn
  <2> QED  BY <1>2, <2>2, <2>4 DEF SpentIn
<1> QED  BY <1>0, <1>1, <1>2

\* A code that is accepted by the factor in force was not accepted before.
LEMMA AcceptedIsNew ==
  ASSUME Codes!TwoStepBounds, CodeInv, ok, st.enabled, NEW c \in Codes!Codes,
         NEW r \in BOOLEAN, NEW client, Codes!CheckCode(st, c, r, client)
  PROVE  /\ granted[c] = 0 /\ c.secret = flash.secret /\ flash.enabled /\ st = flash
         /\ c.kind = "totp" => c.n > flash.last
<1>1. st = flash /\ c.secret = flash.secret /\ flash.enabled
  BY DEF CodeInv, Codes!MemoryIsTheRecord, Codes!CheckCode
<1>2. /\ c.kind = "totp" => c.n > flash.last
      /\ ~SpentIn(flash, c)
  BY <1>1, CodeFields DEF Codes!CheckCode, SpentIn, CodeInv, CodeTypes, FactorStates
<1>3. granted[c] \in Nat /\ granted[c] <= 1 /\ granted[c] # 1
  BY <1>2 DEF CodeInv, CodeTypes, GrantedIsSpent
<1> QED  BY <1>1, <1>2, <1>3

\* The outcomes of a save.
LEMMA SaveOutcome ==
  ASSUME NEW new, NEW o \in Codes!Outcomes(new)
  PROVE  o.good \in BOOLEAN /\ (o.good => o.rec = new) /\ o.rec \in {new, flash}
<1>1. o \in {[good |-> TRUE, rec |-> new], [good |-> FALSE, rec |-> new],
              [good |-> FALSE, rec |-> flash]}
  BY DEF Codes!Outcomes
<1>2. CASE o = [good |-> TRUE, rec |-> new]  BY <1>2
<1>3. CASE o = [good |-> FALSE, rec |-> new]  BY <1>3
<1>4. CASE o = [good |-> FALSE, rec |-> flash]  BY <1>4
<1> QED  BY <1>1, <1>2, <1>3, <1>4

\* A step after which the record is the same.
LEMMA RecordStays ==
  ASSUME Codes!TwoStepBounds, CodeInv,
         flash' = flash, st' \in FactorStates, ok' \in BOOLEAN, ok' => st' = flash,
         pend' \in {pend, Codes!NoPending, [secret |-> secrets + 1, gen |-> gen]},
         pend' = [secret |-> secrets + 1, gen |-> gen] =>
           secrets' = secrets + 1 /\ ~flash.enabled,
         secrets' \in {secrets, secrets + 1}, granted' = granted, gen' \in Nat, gen' # 0,
         login' \in [gen: Nat, secret: Nat], ProvedTheRecord', sess' \in SUBSET Nat
  PROVE  CodeInv'
<1>1. CodeTypes'
  BY DEF CodeInv, CodeTypes, Codes!NoPending
<1>2. SecretsAreDrawn'
  BY DEF CodeInv, CodeTypes, FactorStates, SecretsAreDrawn, Codes!NoPending
<1>3. GrantedIsSpent'
  <2> SUFFICES ASSUME NEW c \in Codes!Codes
               PROVE  /\ granted[c] <= 1
                      /\ granted[c] = 1 =>
                           c.secret <= secrets' /\ c.secret # pend'.secret /\ SpentIn(flash, c)
    BY DEF GrantedIsSpent, SpentIn
  <2>1. /\ granted[c] <= 1
        /\ granted[c] = 1 => c.secret <= secrets /\ c.secret # pend.secret /\ SpentIn(flash, c)
    BY DEF CodeInv, GrantedIsSpent
  <2>2. c.secret \in Nat /\ c.secret # 0 /\ secrets \in Nat
    BY CodeFields DEF CodeInv, CodeTypes
  <2> QED  BY <2>1, <2>2 DEF Codes!NoPending
<1>4. Codes!MemoryIsTheRecord'
  BY DEF Codes!MemoryIsTheRecord
<1> QED  BY <1>1, <1>2, <1>3, <1>4 DEF CodeInv

\* A code is accepted or its save failed, and the factor stays what it is.
LEMMA VerifyIsSafe ==
  ASSUME Codes!TwoStepBounds, CodeInv, NEW c \in Codes!Codes, NEW client,
         Codes!Verify(gen, c, client)
  PROVE  CodeInv'
<1>0. /\ ok /\ st.enabled /\ gen' = gen /\ sess' = sess /\ secrets' = secrets
      /\ pend' = Codes!Pending
  BY DEF Codes!Verify
<1>a. pend' \in {pend, Codes!NoPending}
  BY <1>0 DEF Codes!Pending
<1>1. CASE Codes!CheckCode(st, c, TRUE, client)
  <2>1. PICK o \in Codes!Outcomes(Codes!Consumed(st, c)) :
          /\ Codes!SaveConsumed(Codes!Consumed(st, c), o)
          /\ IF o.good
               THEN /\ granted' = [granted EXCEPT ![c] = @ + 1]
                    /\ login' = [gen |-> gen, secret |-> st.secret]
               ELSE UNCHANGED <<granted, login>>
    BY <1>1 DEF Codes!Verify
  <2>2. /\ granted[c] = 0 /\ c.secret = flash.secret /\ flash.enabled /\ st = flash
        /\ c.kind = "totp" => c.n > flash.last
    BY <1>0, <1>1, AcceptedIsNew
  <2> DEFINE n == Codes!Consumed(flash, c)
  <2>3. /\ n \in FactorStates /\ n.enabled = flash.enabled /\ n.secret = flash.secret
        /\ SpentIn(n, c) /\ \A d \in Codes!Codes : SpentIn(flash, d) => SpentIn(n, d)
    BY <2>2, ConsumedSpends DEF CodeInv, CodeTypes
  <2>4. /\ o.good \in BOOLEAN /\ (o.good => o.rec = n) /\ o.rec \in {n, flash}
    BY <2>2, SaveOutcome
  <2>5. /\ flash' = o.rec /\ st' = (IF o.good THEN n ELSE st) /\ ok' = o.good
    BY <2>1, <2>2 DEF Codes!SaveConsumed
  <2> HIDE DEF n
  <2>6. /\ flash' \in FactorStates /\ flash'.enabled = flash.enabled
        /\ flash'.secret = flash.secret
        /\ \A d \in Codes!Codes : SpentIn(flash, d) => SpentIn(flash', d)
        /\ o.good => SpentIn(flash', c)
    BY <2>3, <2>4, <2>5 DEF CodeInv, CodeTypes
  <2>7. login' \in [gen: Nat, secret: Nat] /\ granted' \in [Codes!Codes -> Nat]
    BY <2>1, <2>2, <2>4 DEF CodeInv, CodeTypes, FactorStates
  <2>8. CodeTypes'
    BY <1>0, <1>a, <2>2, <2>3, <2>4, <2>5, <2>6, <2>7
       DEF CodeInv, CodeTypes, Codes!NoPending
  <2>9. SecretsAreDrawn'
    BY <1>0, <1>a, <2>6 DEF CodeInv, CodeTypes, SecretsAreDrawn, Codes!NoPending
  <2>10. GrantedIsSpent'
    <3> SUFFICES ASSUME NEW d \in Codes!Codes
                 PROVE  /\ granted'[d] <= 1
                        /\ granted'[d] = 1 =>
                             d.secret <= secrets /\ d.secret # pend'.secret
                               /\ SpentIn(flash', d)
      BY <1>0 DEF GrantedIsSpent, SpentIn
    <3>1. /\ granted[d] <= 1
          /\ granted[d] = 1 => d.secret <= secrets /\ d.secret # pend.secret /\ SpentIn(flash, d)
      BY DEF CodeInv, GrantedIsSpent
    <3>2. d.secret # 0 /\ pend'.secret \in {pend.secret, 0}
      BY <1>a, CodeFields DEF Codes!NoPending
    <3>3. c.secret <= secrets /\ c.secret # pend.secret
      BY <2>2 DEF CodeInv, SecretsAreDrawn
    <3>4. CASE d = c /\ o.good
      BY <2>1, <2>2, <2>6, <3>2, <3>3, <3>4 DEF CodeInv, CodeTypes
    <3>5. CASE ~(d = c /\ o.good)
      <4>1. granted'[d] = granted[d]
        BY <2>1, <2>4, <3>5 DEF CodeInv, CodeTypes
      <4> QED  BY <2>6, <3>1, <3>2, <4>1
    <3> QED  BY <3>4, <3>5
  <2>11. ProvedTheRecord'
    BY <1>0, <2>1, <2>2, <2>4, <2>6 DEF CodeInv, CodeTypes, ProvedTheRecord
  <2>12. Codes!MemoryIsTheRecord'
    BY <2>4, <2>5 DEF Codes!MemoryIsTheRecord
  <2> QED  BY <2>8, <2>9, <2>10, <2>11, <2>12 DEF CodeInv
<1>2. CASE ~Codes!CheckCode(st, c, TRUE, client)
  <2>1. UNCHANGED <<flash, st, ok, granted, login>>
    BY <1>2 DEF Codes!Verify
  <2>2. ProvedTheRecord'
    BY <1>0, <2>1 DEF CodeInv, ProvedTheRecord
  <2>3. pend'.secret # secrets + 1
    BY <1>a DEF CodeInv, CodeTypes, SecretsAreDrawn, Codes!NoPending
  <2>4. pend' # [secret |-> secrets + 1, gen |-> gen]
    BY <2>3
  <2>5. /\ st' \in FactorStates /\ ok' \in BOOLEAN /\ (ok' => st' = flash)
        /\ login' \in [gen: Nat, secret: Nat] /\ gen' \in Nat /\ gen' # 0
        /\ sess' \in SUBSET Nat
    BY <1>0, <2>1 DEF CodeInv, CodeTypes, Codes!MemoryIsTheRecord
  <2> QED  BY <1>0, <1>a, <2>1, <2>2, <2>4, <2>5, RecordStays
<1> QED  BY <1>1, <1>2

\* The factor is switched on or off: generation and sessions first, then the
\* record.  "on" is the record of a factor just confirmed, or Off.
LEMMA TransitionIsSafe ==
  ASSUME Codes!TwoStepBounds, CodeInv, ok, NEW c \in Codes!Codes, granted[c] = 0,
         NEW on \in FactorStates, NEW o \in Codes!Outcomes(on),
         Codes!SecurityCommit(on, o), c.secret <= secrets,
         \/ /\ on = Codes!Off /\ pend' \in {pend, Codes!NoPending}
            /\ c.secret # pend.secret
         \/ /\ on.enabled /\ on.secret = c.secret /\ on.secret = pend.secret
            /\ on.secret # 0 /\ SpentIn(on, c) /\ pend' = Codes!NoPending,
         granted' = IF o.good THEN [granted EXCEPT ![c] = @ + 1] ELSE granted,
         login' = login, secrets' = secrets
  PROVE  CodeInv'
<1>1. /\ gen' = gen + 1 /\ sess' = {} /\ flash' = o.rec /\ ok' = ok
      /\ st' = IF o.good THEN on ELSE o.rec
  BY DEF Codes!SecurityCommit, Codes!SaveTransition
<1>2. o.good \in BOOLEAN /\ (o.good => o.rec = on) /\ o.rec \in {on, flash}
  BY SaveOutcome
<1>3. st' = flash' /\ flash' \in {on, flash} /\ (o.good => flash' = on)
  BY <1>1, <1>2
<1>4. granted' \in [Codes!Codes -> Nat]
  BY DEF CodeInv, CodeTypes
<1>5. CodeTypes'
  BY <1>1, <1>3, <1>4 DEF CodeInv, CodeTypes, Codes!NoPending
<1>6. SecretsAreDrawn'
  BY <1>3 DEF CodeInv, CodeTypes, SecretsAreDrawn, Codes!NoPending, Codes!Off
<1>7. GrantedIsSpent'
  <2> SUFFICES ASSUME NEW d \in Codes!Codes
               PROVE  /\ granted'[d] <= 1
                      /\ granted'[d] = 1 =>
                           d.secret <= secrets /\ d.secret # pend'.secret
                             /\ SpentIn(flash', d)
    BY DEF GrantedIsSpent, SpentIn
  <2>1. /\ granted[d] <= 1
        /\ granted[d] = 1 => d.secret <= secrets /\ d.secret # pend.secret /\ SpentIn(flash, d)
    BY DEF CodeInv, GrantedIsSpent
  <2>2. d.secret # 0 /\ c.secret # 0 /\ pend'.secret \in {pend.secret, 0}
    BY CodeFields DEF Codes!NoPending
  <2>3. granted[d] = 1 => SpentIn(on, d)
    BY <2>1 DEF SpentIn, Codes!Off
  <2>4. SpentIn(on, c)
    BY DEF SpentIn, Codes!Off
  <2>5. c.secret # pend'.secret
    BY <2>2 DEF Codes!NoPending
  <2>6. CASE d = c /\ o.good
    BY <1>3, <2>4, <2>5, <2>6 DEF CodeInv, CodeTypes
  <2>7. CASE ~(d = c /\ o.good)
    <3>1. granted'[d] = granted[d]
      BY <1>2, <2>7 DEF CodeInv, CodeTypes
    <3> QED  BY <1>3, <2>1, <2>2, <2>3, <3>1
  <2> QED  BY <2>6, <2>7
<1>8. ProvedTheRecord'
  BY <1>1 DEF CodeInv, CodeTypes, ProvedTheRecord
<1>9. Codes!MemoryIsTheRecord'
  BY <1>3 DEF Codes!MemoryIsTheRecord
<1> QED  BY <1>5, <1>6, <1>7, <1>8, <1>9 DEF CodeInv

\* Every step keeps the invariant.
LEMMA CodesStep ==
  ASSUME Codes!TwoStepBounds, CodeInv, Codes!Next
  PROVE  CodeInv'
<1> DEFINE drawn == [secret |-> secrets + 1, gen |-> gen]
<1>0. /\ pend # drawn /\ Codes!NoPending # drawn
      /\ ok => st = flash
  <2>1. pend.secret # secrets + 1 /\ Codes!NoPending.secret # secrets + 1
    BY DEF CodeInv, CodeTypes, SecretsAreDrawn, Codes!NoPending
  <2> QED  BY <2>1 DEF CodeInv, Codes!MemoryIsTheRecord
<1>t. /\ flash \in FactorStates /\ st \in FactorStates /\ ok \in BOOLEAN
      /\ login \in [gen: Nat, secret: Nat] /\ gen \in Nat /\ gen # 0
      /\ sess \in SUBSET Nat /\ secrets \in Nat
      /\ Codes!NoLogin \in [gen: Nat, secret: Nat]
  BY DEF CodeInv, CodeTypes, Codes!NoLogin
<1>1. CASE Codes!VerifyOff(gen)
  <2>1. /\ ok /\ ~st.enabled /\ login' = [gen |-> gen, secret |-> 0]
        /\ pend' \in {pend, Codes!NoPending}
        /\ UNCHANGED <<flash, st, ok, gen, sess, secrets, granted>>
    BY <1>1 DEF Codes!VerifyOff, Codes!Pending
  <2>2. ProvedTheRecord'
    BY <1>0, <1>t, <2>1 DEF ProvedTheRecord
  <2>3. login' \in [gen: Nat, secret: Nat]
    BY <1>t, <2>1
  <2> QED  BY <1>0, <1>t, <2>1, <2>2, <2>3, RecordStays
<1>2. CASE Codes!CreateSession
  <2>1. /\ sess' = (IF login.gen = gen THEN sess \cup {login.secret} ELSE sess)
        /\ login' = Codes!NoLogin
        /\ UNCHANGED <<flash, st, ok, pend, gen, secrets, granted>>
    BY <1>2 DEF Codes!CreateSession
  <2>2. ProvedTheRecord'
    <3>1. login'.gen = 0 /\ gen' \in Nat /\ gen' # 0
      BY <1>t, <2>1 DEF Codes!NoLogin
    <3>2. flash'.enabled => sess' \subseteq {flash'.secret}
      BY <1>t, <2>1 DEF CodeInv, ProvedTheRecord
    <3> QED  BY <3>1, <3>2 DEF ProvedTheRecord
  <2>3. sess' \in SUBSET Nat
    BY <1>t, <2>1
  <2> QED  BY <1>0, <1>t, <2>1, <2>2, <2>3, RecordStays
<1>3. CASE Codes!BeginEnrollment(gen)
  <2>1. /\ ok /\ ~st.enabled /\ secrets' = secrets + 1 /\ pend' = drawn
        /\ UNCHANGED <<flash, st, ok, gen, login, sess, granted>>
    BY <1>3 DEF Codes!BeginEnrollment
  <2>2. ProvedTheRecord'
    BY <2>1 DEF CodeInv, ProvedTheRecord
  <2>3. ~flash.enabled
    BY <1>0, <2>1
  <2> QED  BY <1>0, <1>t, <2>1, <2>2, <2>3, RecordStays
<1>4. ASSUME NEW c \in Codes!Codes, NEW client, Codes!Verify(gen, c, client)
      PROVE  CodeInv'
  BY <1>4, VerifyIsSafe
<1>5. ASSUME NEW c \in Codes!Codes, NEW client, Codes!Confirm(pend.secret, c, client, gen)
      PROVE  CodeInv'
  <2> DEFINE id == pend.secret
             fresh == Codes!Fresh(id)
             new == Codes!Consumed(fresh, c)
  <2>1. /\ ok /\ ~st.enabled /\ id # 0 /\ login' = login /\ secrets' = secrets
    BY <1>5 DEF Codes!Confirm
  <2>2. CASE Codes!CheckCode(fresh, c, FALSE, client)
    <3>1. PICK o \in Codes!Outcomes(new) :
            /\ Codes!SecurityCommit(new, o) /\ pend' = Codes!NoPending
            /\ granted' = IF o.good THEN [granted EXCEPT ![c] = @ + 1] ELSE granted
      BY <1>5, <2>2 DEF Codes!Confirm
    <3>2. c.secret = id /\ c.kind = "totp" /\ c.n > fresh.last /\ id \in Nat
      BY <2>2 DEF Codes!CheckCode, Codes!Fresh, CodeInv, CodeTypes
    <3>3. fresh \in FactorStates /\ fresh.enabled = TRUE /\ fresh.secret = id
      BY <3>2 DEF Codes!Fresh, FactorStates
    <3> HIDE DEF id, fresh
    <3>4. /\ new \in FactorStates /\ new.enabled = TRUE /\ new.secret = id
          /\ SpentIn(new, c)
      BY <3>2, <3>3, ConsumedSpends
    <3> HIDE DEF new
    <3>5. c.secret <= secrets /\ granted[c] = 0
      BY <3>2 DEF id, CodeInv, CodeTypes, SecretsAreDrawn, GrantedIsSpent
    <3> QED  BY <2>1, <3>1, <3>2, <3>4, <3>5, TransitionIsSafe DEF id
  <2>3. CASE ~Codes!CheckCode(fresh, c, FALSE, client)
    <3>1. UNCHANGED <<flash, st, ok, pend, gen, sess, granted>>
      BY <1>5, <2>3 DEF Codes!Confirm
    <3>2. ProvedTheRecord'
      BY <2>1, <3>1 DEF CodeInv, ProvedTheRecord
    <3> QED  BY <1>0, <1>t, <2>1, <3>1, <3>2, RecordStays
  <2> QED  BY <2>2, <2>3
<1>6. ASSUME NEW c \in Codes!Codes, NEW client, Codes!Disable(c, client, gen)
      PROVE  CodeInv'
  <2>1. /\ ok /\ st.enabled /\ login' = login /\ secrets' = secrets
        /\ pend' \in {pend, Codes!NoPending}
    BY <1>6 DEF Codes!Disable, Codes!Pending
  <2>2. CASE Codes!CheckCode(st, c, TRUE, client)
    <3>1. PICK o \in Codes!Outcomes(Codes!Off) :
            /\ Codes!SecurityCommit(Codes!Off, o)
            /\ granted' = IF o.good THEN [granted EXCEPT ![c] = @ + 1] ELSE granted
      BY <1>6, <2>2 DEF Codes!Disable
    <3>2. granted[c] = 0 /\ c.secret = flash.secret /\ flash.enabled
      BY <2>1, <2>2, AcceptedIsNew
    <3>3. c.secret <= secrets /\ c.secret # pend.secret
      BY <3>2 DEF CodeInv, SecretsAreDrawn
    <3>4. Codes!Off \in FactorStates
      BY DEF Codes!Off, FactorStates
    <3> QED  BY <2>1, <3>1, <3>2, <3>3, <3>4, TransitionIsSafe
  <2>3. CASE ~Codes!CheckCode(st, c, TRUE, client)
    <3>1. UNCHANGED <<flash, st, ok, gen, sess, granted>>
      BY <1>6, <2>3 DEF Codes!Disable
    <3>2. ProvedTheRecord'
      BY <2>1, <3>1 DEF CodeInv, ProvedTheRecord
    <3> QED  BY <1>0, <1>t, <2>1, <3>1, <3>2, RecordStays
  <2> QED  BY <2>2, <2>3
<1>7. CASE Codes!PasswordChange
  <2>1. /\ gen' = gen + 1 /\ sess' = {}
        /\ UNCHANGED <<flash, st, ok, pend, login, secrets, granted>>
    BY <1>7 DEF Codes!PasswordChange
  <2>2. ProvedTheRecord'
    BY <1>t, <2>1 DEF CodeInv, ProvedTheRecord
  <2>3. gen' \in Nat /\ gen' # 0 /\ sess' \in SUBSET Nat
    BY <1>t, <2>1
  <2> QED  BY <1>0, <1>t, <2>1, <2>2, <2>3, RecordStays
<1>8. CASE Codes!Unlock \/ Codes!Expire \/ Codes!Tick
  <2>1. /\ UNCHANGED <<flash, st, ok, gen, login, sess, secrets, granted>>
        /\ pend' \in {pend, Codes!NoPending}
    BY <1>8 DEF Codes!Unlock, Codes!Expire, Codes!Tick
  <2>2. ProvedTheRecord'
    BY <2>1 DEF CodeInv, ProvedTheRecord
  <2> QED  BY <1>0, <1>t, <2>1, <2>2, RecordStays
<1>9. ASSUME NEW kept \in BOOLEAN, NEW bad \in BOOLEAN, Codes!Restart(kept, bad)
      PROVE  CodeInv'
  <2>1. /\ st' = (IF bad THEN Codes!Off ELSE flash) /\ ok' = ~bad
        /\ pend' = Codes!NoPending /\ gen' = 1 /\ login' = Codes!NoLogin
        /\ sess' = (IF kept THEN sess ELSE {})
        /\ UNCHANGED <<flash, secrets, granted>>
    BY <1>9 DEF Codes!Restart
  <2>2. ProvedTheRecord'
    BY <2>1 DEF CodeInv, ProvedTheRecord, Codes!NoLogin
  <2>3. ok' \in BOOLEAN /\ (ok' => st' = flash)
    BY <1>9, <2>1
  <2>5. Codes!Off \in FactorStates /\ flash \in FactorStates
    BY <1>t DEF Codes!Off, FactorStates, CodeInv, CodeTypes
  <2>4. /\ st' \in FactorStates
        /\ gen' \in Nat /\ gen' # 0 /\ sess' \in SUBSET Nat
    BY <1>t, <2>1, <2>5
  <2> QED  BY <1>0, <1>t, <2>1, <2>2, <2>3, <2>4, RecordStays
<1> QED  BY <1>1, <1>2, <1>3, <1>4, <1>5, <1>6, <1>7, <1>8, <1>9 DEF Codes!Next

\* What the invariant says of codes and sessions.
LEMMA CodesMeaning ==
  ASSUME CodeInv
  PROVE  /\ Codes!CodeIsGoodOnce /\ Codes!MemoryIsTheRecord
         /\ Codes!SessionsProvedTheFactor
BY DEF CodeInv, Codes!CodeIsGoodOnce, Codes!MemoryIsTheRecord,
       Codes!SessionsProvedTheFactor, GrantedIsSpent, ProvedTheRecord

-----------------------------------------------------------------------------
(* The passkeys. *)

\* What a record of passkeys can be: some keys and their counters.
KeyStates == UNION {[D -> Nat] : D \in SUBSET KeyIds}

Challenges == [boot: Nat, gen: Nat, live: BOOLEAN, holder: Holders \cup {0}]

KeyTypes ==
  /\ flash \in KeyStates /\ pk \in KeyStates /\ ok \in BOOLEAN
  /\ boot \in Nat /\ gen \in Nat /\ gen # 0
  /\ login \in [key: KeyIds \cup {0}, gen: Nat]
  /\ \E n \in Nat : chal \in [1..n -> Challenges] /\ granted \in [1..n -> Nat]

\* A challenge that was accepted is remembered, has expired, or was made with
\* the key of an earlier boot.
GrantedIsRemembered ==
  \A n \in DOMAIN chal :
    /\ granted[n] <= 1
    /\ chal[n].boot <= boot
    /\ granted[n] = 1 => n \in spent \/ chal[n].live = FALSE \/ chal[n].boot < boot

\* Sessions, and the login that may still become one, are of a key on record.
HaveTheirKey ==
  /\ sess \subseteq DOMAIN flash
  /\ login.gen <= gen
  /\ login.gen = gen => login.key \in DOMAIN flash

KeyInv ==
  KeyTypes /\ GrantedIsRemembered /\ HaveTheirKey /\ PassKeys!KeysAreTheRecord

\* No key or every key is on record at first.
LEMMA KeysInitially ==
  ASSUME PassKeys!Init
  PROVE  KeyInv
<1>1. flash \in KeyStates
  <2>1. CASE flash = <<>>
    <3>1. flash \in [{} -> Nat]  BY <2>1
    <3> QED  BY <3>1 DEF KeyStates
  <2>2. CASE flash \in [KeyIds -> {0}]
    <3>1. flash \in [KeyIds -> Nat]  BY <2>2
    <3> QED  BY <3>1 DEF KeyStates
  <2> QED  BY <2>1, <2>2 DEF PassKeys!Init
<1>2. chal \in [1..0 -> Challenges] /\ granted \in [1..0 -> Nat]
  BY DEF PassKeys!Init
<1>3. KeyTypes
  BY <1>1, <1>2 DEF KeyTypes, PassKeys!Init, PassKeys!NoLogin
<1>4. GrantedIsRemembered
  BY <1>2 DEF GrantedIsRemembered
<1> QED  BY <1>3, <1>4 DEF KeyInv, HaveTheirKey, PassKeys!Init, PassKeys!NoLogin,
               PassKeys!KeysAreTheRecord

\* A save leaves the old record or the new one, and memory that agrees with it
\* or is closed.
LEMMA KeySave ==
  ASSUME KeyInv, ok, NEW new \in KeyStates,
         NEW o \in PassKeys!Outcomes(new), PassKeys!Save(new, o)
  PROVE  /\ o.good \in BOOLEAN /\ flash' \in {flash, new} /\ flash' \in KeyStates
         /\ pk' \in KeyStates /\ ok' = o.good /\ (ok' => pk' = flash' /\ flash' = new)
<1>1. o \in {[good |-> TRUE, rec |-> new], [good |-> FALSE, rec |-> new],
             [good |-> FALSE, rec |-> flash]}
  BY DEF PassKeys!Outcomes
<1>2. o.good \in BOOLEAN /\ o.rec \in {new, flash} /\ (o.good => o.rec = new)
  <2>1. CASE o = [good |-> TRUE, rec |-> new]  BY <2>1
  <2>2. CASE o = [good |-> FALSE, rec |-> new]  BY <2>2
  <2>3. CASE o = [good |-> FALSE, rec |-> flash]  BY <2>3
  <2> QED  BY <1>1, <2>1, <2>2, <2>3
<1>3. flash \in KeyStates /\ pk \in KeyStates
  BY DEF KeyInv, KeyTypes
<1> QED  BY <1>2, <1>3 DEF PassKeys!Save

\* The challenges and what was accepted stay as they are.
LEMMA ChallengesStay ==
  ASSUME KeyInv, UNCHANGED <<chal, granted, spent, boot>>
  PROVE  /\ GrantedIsRemembered'
         /\ \E n \in Nat : chal' \in [1..n -> Challenges] /\ granted' \in [1..n -> Nat]
         /\ boot' \in Nat
BY DEF KeyInv, KeyTypes, GrantedIsRemembered

\* pk_commit: whatever the save does, sessions are gone and logins fenced.
LEMMA CommitIsSafe ==
  ASSUME KeyInv, ok, NEW new \in KeyStates, NEW o \in PassKeys!Outcomes(new),
         PassKeys!Commit(new, o), UNCHANGED <<chal, granted, spent, boot, login>>
  PROVE  KeyInv'
<1>1. PassKeys!Save(new, o) /\ gen' = gen + 1 /\ sess' = {}
  BY DEF PassKeys!Commit
<1>2. /\ o.good \in BOOLEAN /\ flash' \in KeyStates /\ pk' \in KeyStates
      /\ ok' = o.good /\ (ok' => pk' = flash')
  BY <1>1, KeySave
<1>3. ok' \in BOOLEAN  BY <1>2
<1>4. /\ gen \in Nat /\ gen' \in Nat /\ gen' # 0 /\ login' \in [key: KeyIds \cup {0}, gen: Nat]
      /\ login.gen \in Nat /\ login.gen <= gen
  BY <1>1 DEF KeyInv, KeyTypes, HaveTheirKey
<1>5. HaveTheirKey'
  <2>1. login'.gen = login.gen /\ login.gen < gen'
    BY <1>1, <1>4
  <2> QED  BY <1>1, <1>4, <2>1 DEF HaveTheirKey
<1> QED  BY <1>2, <1>3, <1>4, <1>5, ChallengesStay
      DEF KeyInv, KeyTypes, PassKeys!KeysAreTheRecord

\* A challenge handed out is the next one, and nothing was accepted for it.
LEMMA IssueIsSafe ==
  ASSUME KeyInv, NEW h \in Holders \cup {0}, PassKeys!Issue(h),
         UNCHANGED <<flash, pk, ok, spent, boot, gen, login, sess>>
  PROVE  KeyInv'
<1>1. PICK n \in Nat : chal \in [1..n -> Challenges] /\ granted \in [1..n -> Nat]
  BY DEF KeyInv, KeyTypes
<1>2. Cardinality(PassKeys!Issued) + 1 = n + 1
  <2>1. Cardinality(1..n) = n  BY FS_Interval, <1>1
  <2> QED  BY <1>1, <2>1 DEF PassKeys!Issued
<1> DEFINE c == [boot |-> boot, gen |-> gen, live |-> TRUE, holder |-> h]
<1>3. /\ chal' = [i \in 1..(n + 1) |-> IF i < n + 1 THEN chal[i] ELSE c]
      /\ granted' = [i \in 1..(n + 1) |-> IF i < n + 1 THEN granted[i] ELSE 0]
  <2> DEFINE m == PassKeys!Cardinality(PassKeys!Issued) + 1
  <2>1. /\ chal' = [i \in 1..m |-> IF i < m THEN chal[i] ELSE c]
        /\ granted' = [i \in 1..m |-> IF i < m THEN granted[i] ELSE 0]
    BY DEF PassKeys!Issue
  <2>2. m = n + 1
    <3>1. PassKeys!Cardinality(PassKeys!Issued) = Cardinality(PassKeys!Issued)
      BY DEF PassKeys!Cardinality, Cardinality
    <3> QED  BY <1>2, <3>1
  <2> HIDE DEF m
  <2> QED  BY <2>1, <2>2
<1>4. c \in Challenges /\ c.boot = boot /\ boot \in Nat
  BY DEF KeyInv, KeyTypes, Challenges
<1> HIDE DEF c
<1>5. /\ n + 1 \in Nat /\ chal' \in [1..(n + 1) -> Challenges]
      /\ granted' \in [1..(n + 1) -> Nat]
  BY <1>1, <1>3, <1>4
<1>6. GrantedIsRemembered'
  <2> SUFFICES ASSUME NEW i \in DOMAIN chal'
               PROVE  /\ granted'[i] <= 1
                      /\ chal'[i].boot <= boot
                      /\ granted'[i] = 1 =>
                           i \in spent \/ chal'[i].live = FALSE \/ chal'[i].boot < boot
    BY DEF GrantedIsRemembered
  <2>1. i \in 1..(n + 1)  BY <1>5
  <2>2. CASE i < n + 1
    <3>1. i \in DOMAIN chal /\ chal'[i] = chal[i] /\ granted'[i] = granted[i]
      BY <1>1, <1>3, <2>1, <2>2
    <3> QED  BY <3>1 DEF KeyInv, GrantedIsRemembered
  <2>3. CASE ~(i < n + 1)
    BY <1>3, <1>4, <2>1, <2>3
  <2> QED  BY <2>2, <2>3
<1> QED  BY <1>5, <1>6 DEF KeyInv, KeyTypes, HaveTheirKey, PassKeys!KeysAreTheRecord

\* si_passkey_finish for a login: the challenge was not accepted before.
LEMMA LoginIsSafe ==
  ASSUME KeyInv, NEW n \in DOMAIN chal, NEW k \in KeyIds, NEW c \in Nat,
         PassKeys!LoginFinish(n, k, c)
  PROVE  KeyInv'
<1> DEFINE new == [pk EXCEPT ![k] = c]
<1>1. /\ ok /\ pk = flash /\ k \in DOMAIN pk
  BY DEF PassKeys!LoginFinish, KeyInv, PassKeys!KeysAreTheRecord
<1>2. PICK D \in SUBSET KeyIds : pk \in [D -> Nat]
  BY DEF KeyInv, KeyTypes, KeyStates
<1>3. new \in [D -> Nat] /\ new \in KeyStates /\ DOMAIN new = D /\ DOMAIN flash = D
  <2>1. new \in [D -> Nat]  BY <1>1, <1>2
  <2> QED  BY <1>1, <1>2, <2>1 DEF KeyStates
<1>4. PICK o \in (IF c = pk[k] THEN {[good |-> TRUE, rec |-> flash]}
                  ELSE PassKeys!Outcomes(new)) :
        /\ PassKeys!Save(new, o)
        /\ IF o.good
             THEN /\ spent' = spent \cup {n}
                  /\ granted' = [granted EXCEPT ![n] = @ + 1]
                  /\ login' = [key |-> k, gen |-> gen]
             ELSE UNCHANGED <<spent, granted, login>>
  BY DEF PassKeys!LoginFinish
<1>5. UNCHANGED <<chal, boot, gen, sess>>
  BY DEF PassKeys!LoginFinish
<1>6. c = pk[k] => new = flash
  BY <1>1, <1>2
<1>7. o \in PassKeys!Outcomes(new)
  BY <1>4, <1>6 DEF PassKeys!Outcomes
<1> HIDE DEF new
<1>8. /\ o.good \in BOOLEAN /\ flash' \in {flash, new} /\ flash' \in KeyStates
      /\ pk' \in KeyStates /\ ok' = o.good /\ (ok' => pk' = flash')
  BY <1>1, <1>3, <1>4, <1>7, KeySave
<1>9. DOMAIN flash' = DOMAIN flash  BY <1>3, <1>8
<1>10. ok' \in BOOLEAN  BY <1>8
<1>11. CASE ~o.good
  <2>1. UNCHANGED <<spent, granted, login>>  BY <1>4, <1>11
  <2>2. HaveTheirKey'
    BY <1>5, <1>9, <2>1 DEF KeyInv, HaveTheirKey
  <2> QED  BY <1>5, <1>8, <1>10, <2>1, <2>2, ChallengesStay
        DEF KeyInv, KeyTypes, PassKeys!KeysAreTheRecord
<1>12. CASE o.good
  <2>1. /\ spent' = spent \cup {n} /\ granted' = [granted EXCEPT ![n] = @ + 1]
        /\ login' = [key |-> k, gen |-> gen]
    BY <1>4, <1>12
  <2>2. HaveTheirKey'
    BY <1>1, <1>5, <1>9, <2>1 DEF KeyInv, HaveTheirKey, KeyTypes
  <2>3. PICK m \in Nat : chal \in [1..m -> Challenges] /\ granted \in [1..m -> Nat]
    BY DEF KeyInv, KeyTypes
  <2>4. chal[n].live /\ chal[n].boot = boot /\ n \notin spent
    BY DEF PassKeys!LoginFinish, PassKeys!Ticket
  <2>5. granted[n] = 0
    <3>1. granted[n] # 1
      <4>1. chal[n] \in Challenges /\ boot \in Nat  BY <2>3 DEF KeyInv, KeyTypes
      <4> QED  BY <2>4, <4>1 DEF KeyInv, GrantedIsRemembered
    <3>2. granted[n] \in Nat /\ granted[n] <= 1
      BY <2>3 DEF KeyInv, GrantedIsRemembered
    <3> QED  BY <3>1, <3>2
  <2>6. granted' \in [1..m -> Nat]
    BY <2>1, <2>3
  <2>7. GrantedIsRemembered'
    <3> SUFFICES ASSUME NEW i \in DOMAIN chal
                 PROVE  /\ granted'[i] <= 1
                        /\ chal[i].boot <= boot
                        /\ granted'[i] = 1 =>
                             i \in spent' \/ chal[i].live = FALSE \/ chal[i].boot < boot
      BY <1>5 DEF GrantedIsRemembered
    <3>1. CASE i = n
      BY <2>1, <2>3, <2>5, <3>1 DEF KeyInv, GrantedIsRemembered
    <3>2. CASE i # n
      <4>1. granted'[i] = granted[i]  BY <2>1, <2>3, <3>2
      <4> QED  BY <2>1, <4>1 DEF KeyInv, GrantedIsRemembered
    <3> QED  BY <3>1, <3>2
  <2>8. gen' \in Nat /\ gen' # 0 /\ boot' \in Nat /\ login' \in [key: KeyIds \cup {0}, gen: Nat]
    BY <1>5, <2>1 DEF KeyInv, KeyTypes
  <2> QED  BY <1>5, <1>8, <1>10, <2>2, <2>3, <2>6, <2>7, <2>8
        DEF KeyInv, KeyTypes, PassKeys!KeysAreTheRecord
<1> QED  BY <1>8, <1>11, <1>12

\* Every step keeps the invariant of the passkeys.
LEMMA KeysStep ==
  ASSUME PassKeys!PasskeyBounds, KeyInv, PassKeys!Next
  PROVE  KeyInv'
<1>t. /\ flash \in KeyStates /\ pk \in KeyStates /\ gen \in Nat /\ gen # 0
      /\ boot \in Nat /\ login \in [key: KeyIds \cup {0}, gen: Nat]
  BY DEF KeyInv, KeyTypes
<1>1. CASE PassKeys!LoginOptions
  <2>1. /\ PassKeys!Issue(0)
        /\ UNCHANGED <<flash, pk, ok, spent, boot, gen, login, sess>>
    BY <1>1 DEF PassKeys!LoginOptions
  <2> QED  BY <2>1, IssueIsSafe
<1>2. ASSUME NEW h \in Holders, PassKeys!RegisterOptions(h)
      PROVE  KeyInv'
  <2>1. /\ PassKeys!Issue(h)
        /\ UNCHANGED <<flash, pk, ok, spent, boot, gen, login, sess>>
    BY <1>2 DEF PassKeys!RegisterOptions
  <2> QED  BY <2>1, IssueIsSafe
<1>3. CASE PassKeys!CreateSession
  <2>1. /\ sess' = (IF login.gen = gen THEN sess \cup {login.key} ELSE sess)
        /\ login' = PassKeys!NoLogin
        /\ UNCHANGED <<flash, pk, ok, spent, chal, boot, gen, granted>>
    BY <1>3 DEF PassKeys!CreateSession
  <2>2. sess' \subseteq DOMAIN flash'
    BY <2>1 DEF KeyInv, HaveTheirKey
  <2>3. login' \in [key: KeyIds \cup {0}, gen: Nat] /\ login'.gen = 0
    BY <2>1 DEF PassKeys!NoLogin
  <2>4. HaveTheirKey'
    BY <1>t, <2>1, <2>2, <2>3 DEF HaveTheirKey
  <2> QED  BY <2>1, <2>3, <2>4, ChallengesStay
        DEF KeyInv, KeyTypes, PassKeys!KeysAreTheRecord
<1>4. CASE PassKeys!CredentialChange
  <2>1. /\ gen' = gen + 1 /\ sess' = {}
        /\ UNCHANGED <<flash, pk, ok, spent, chal, boot, login, granted>>
    BY <1>4 DEF PassKeys!CredentialChange
  <2>2. HaveTheirKey' /\ gen' \in Nat /\ gen' # 0
    BY <1>t, <2>1 DEF KeyInv, HaveTheirKey
  <2> QED  BY <2>1, <2>2, ChallengesStay
        DEF KeyInv, KeyTypes, PassKeys!KeysAreTheRecord
<1>5. CASE PassKeys!Configure
  <2>1. PICK o \in PassKeys!Outcomes(pk) : PassKeys!Commit(pk, o)
    BY <1>5 DEF PassKeys!Configure
  <2>2. ok /\ UNCHANGED <<chal, granted, spent, boot, login>>
    BY <1>5 DEF PassKeys!Configure
  <2> QED  BY <1>t, <2>1, <2>2, CommitIsSafe
<1>6. ASSUME NEW n \in PassKeys!Issued, NEW k \in KeyIds, NEW c \in 0..MaxCounter,
             PassKeys!LoginFinish(n, k, c)
      PROVE  KeyInv'
  <2>1. c \in Nat /\ n \in DOMAIN chal
    BY <1>6 DEF PassKeys!PasskeyBounds, PassKeys!Issued
  <2> QED  BY <1>6, <2>1, LoginIsSafe
<1>7. ASSUME NEW n \in PassKeys!Issued, NEW k \in KeyIds, NEW c \in 0..MaxCounter,
             NEW h \in Holders, PassKeys!RegisterFinish(n, h, k, c)
      PROVE  KeyInv'
  <2>0. ok /\ UNCHANGED <<chal, granted, spent, boot, login>>
    BY <1>7 DEF PassKeys!RegisterFinish
  <2>1. c \in Nat  BY <1>7 DEF PassKeys!PasskeyBounds
  <2> DEFINE new == [j \in DOMAIN pk \cup {k} |-> IF j = k THEN c ELSE pk[j]]
  <2>2. new \in KeyStates
    <3>1. PICK D \in SUBSET KeyIds : pk \in [D -> Nat]  BY <1>t DEF KeyStates
    <3>2. new \in [D \cup {k} -> Nat] /\ D \cup {k} \in SUBSET KeyIds
      BY <2>1, <3>1
    <3> QED  BY <3>2 DEF KeyStates
  <2>3. \/ \E o \in PassKeys!Outcomes(new) : PassKeys!Commit(new, o)
        \/ UNCHANGED <<flash, pk, ok, gen, sess>>
    BY <1>7 DEF PassKeys!RegisterFinish
  <2> HIDE DEF new
  <2>4. CASE \E o \in PassKeys!Outcomes(new) : PassKeys!Commit(new, o)
    BY <2>0, <2>2, <2>4, CommitIsSafe
  <2>5. CASE UNCHANGED <<flash, pk, ok, gen, sess>>
    <3>1. HaveTheirKey'
      BY <2>0, <2>5 DEF KeyInv, HaveTheirKey
    <3> QED  BY <2>0, <2>5, <3>1, ChallengesStay
          DEF KeyInv, KeyTypes, PassKeys!KeysAreTheRecord
  <2> QED  BY <2>3, <2>4, <2>5
<1>8. ASSUME NEW k \in KeyIds, PassKeys!Remove(k)
      PROVE  KeyInv'
  <2>0. ok /\ UNCHANGED <<chal, granted, spent, boot, login>>
    BY <1>8 DEF PassKeys!Remove
  <2> DEFINE new == PassKeys!Restrict(pk, DOMAIN pk \ {k})
  <2>1. \E o \in PassKeys!Outcomes(new) : PassKeys!Commit(new, o)
    BY <1>8 DEF PassKeys!Remove
  <2>2. new \in KeyStates
    <3>1. PICK D \in SUBSET KeyIds : pk \in [D -> Nat]  BY <1>t DEF KeyStates
    <3>2. new \in [D \ {k} -> Nat] /\ D \ {k} \in SUBSET KeyIds
      BY <3>1 DEF PassKeys!Restrict
    <3> QED  BY <3>2 DEF KeyStates
  <2> HIDE DEF new
  <2> QED  BY <2>0, <2>1, <2>2, CommitIsSafe
<1>9. ASSUME NEW n \in PassKeys!Issued, PassKeys!Expire(n)
      PROVE  KeyInv'
  <2>1. /\ chal' = [chal EXCEPT ![n].live = FALSE] /\ spent' = spent \ {n}
        /\ UNCHANGED <<flash, pk, ok, boot, gen, login, sess, granted>>
    BY <1>9 DEF PassKeys!Expire
  <2>2. PICK m \in Nat : chal \in [1..m -> Challenges] /\ granted \in [1..m -> Nat]
    BY DEF KeyInv, KeyTypes
  <2>3. chal' \in [1..m -> Challenges]
    BY <2>1, <2>2 DEF Challenges
  <2>4. GrantedIsRemembered'
    <3> SUFFICES ASSUME NEW i \in DOMAIN chal'
                 PROVE  /\ granted[i] <= 1
                        /\ chal'[i].boot <= boot
                        /\ granted[i] = 1 =>
                             i \in spent' \/ chal'[i].live = FALSE \/ chal'[i].boot < boot
      BY <2>1 DEF GrantedIsRemembered
    <3>0. i \in DOMAIN chal  BY <2>2, <2>3
    <3>1. CASE i = n
      <4>1. chal'[i].boot = chal[i].boot /\ chal'[i].live = FALSE
        BY <2>1, <2>2, <3>0, <3>1 DEF Challenges
      <4> QED  BY <3>0, <4>1 DEF KeyInv, GrantedIsRemembered
    <3>2. CASE i # n
      <4>1. chal'[i] = chal[i]  BY <2>1, <2>2, <3>0, <3>2
      <4> QED  BY <2>1, <3>0, <3>2, <4>1 DEF KeyInv, GrantedIsRemembered
    <3> QED  BY <3>1, <3>2
  <2>5. HaveTheirKey'
    BY <2>1 DEF KeyInv, HaveTheirKey
  <2> QED  BY <2>1, <2>2, <2>3, <2>4, <2>5
        DEF KeyInv, KeyTypes, PassKeys!KeysAreTheRecord
<1>10. ASSUME NEW kept \in BOOLEAN, NEW bad \in BOOLEAN, PassKeys!Restart(kept, bad)
       PROVE  KeyInv'
  <2>1. /\ boot' = boot + 1 /\ gen' = 1 /\ pk' = (IF bad THEN <<>> ELSE flash)
        /\ ok' = ~bad /\ login' = PassKeys!NoLogin
        /\ sess' = (IF kept THEN sess ELSE {})
        /\ UNCHANGED <<flash, chal, granted>>
    BY <1>10 DEF PassKeys!Restart
  <2>2. ok' \in BOOLEAN /\ (ok' => pk' = flash')
    BY <1>10, <2>1
  <2>3. pk' \in KeyStates
    <3>1. <<>> \in [{} -> Nat]  OBVIOUS
    <3>2. <<>> \in KeyStates  BY <3>1 DEF KeyStates
    <3> QED  BY <1>t, <2>1, <3>2
  <2>4. /\ boot' \in Nat /\ gen' \in Nat /\ gen' # 0
        /\ login' \in [key: KeyIds \cup {0}, gen: Nat] /\ login'.gen = 0
    BY <1>t, <2>1 DEF PassKeys!NoLogin
  <2>5. HaveTheirKey'
    BY <2>1, <2>4 DEF KeyInv, HaveTheirKey
  <2>6. PICK m \in Nat : chal \in [1..m -> Challenges] /\ granted \in [1..m -> Nat]
    BY DEF KeyInv, KeyTypes
  <2>7. GrantedIsRemembered'
    <3> SUFFICES ASSUME NEW i \in DOMAIN chal
                 PROVE  granted[i] <= 1 /\ chal[i].boot <= boot' /\ chal[i].boot < boot'
      BY <2>1 DEF GrantedIsRemembered
    <3>1. chal[i] \in Challenges  BY <2>6
    <3>2. chal[i].boot \in Nat  BY <3>1 DEF Challenges
    <3> QED  BY <1>t, <2>1, <3>2 DEF KeyInv, GrantedIsRemembered
  <2> QED  BY <2>1, <2>2, <2>3, <2>4, <2>5, <2>6, <2>7
        DEF KeyInv, KeyTypes, PassKeys!KeysAreTheRecord
<1> QED  BY <1>1, <1>2, <1>3, <1>4, <1>5, <1>6, <1>7, <1>8, <1>9, <1>10
      DEF PassKeys!Next

\* What the invariant says of challenges and sessions.
LEMMA KeysMeaning ==
  ASSUME KeyInv
  PROVE  /\ PassKeys!ChallengeIsGoodOnce /\ PassKeys!KeysAreTheRecord
         /\ PassKeys!SessionsHaveTheirKey
BY DEF KeyInv, PassKeys!ChallengeIsGoodOnce, PassKeys!KeysAreTheRecord,
       PassKeys!SessionsHaveTheirKey, GrantedIsRemembered, HaveTheirKey,
       PassKeys!Issued

-----------------------------------------------------------------------------
(* The local account. *)

\* The keys that are still to be written when the n-th is next; s is whether the
\* write opens the first-account setup.
KeysLeft(n, s) ==
  CASE n = 1 -> IF s THEN <<"hash", "salt", "iter", "boot", "setup", "commit">>
                     ELSE <<"hash", "salt", "iter", "setup", "boot", "commit">>
    [] n = 2 -> IF s THEN <<"salt", "iter", "boot", "setup", "commit">>
                     ELSE <<"salt", "iter", "setup", "boot", "commit">>
    [] n = 3 -> IF s THEN <<"iter", "boot", "setup", "commit">>
                     ELSE <<"iter", "setup", "boot", "commit">>
    [] n = 4 -> IF s THEN <<"boot", "setup", "commit">> ELSE <<"setup", "boot", "commit">>
    [] n = 5 -> IF s THEN <<"setup", "commit">> ELSE <<"boot", "commit">>
    [] n = 6 -> <<"commit">>
    [] n = 7 -> <<>>

\* The n-th key.
KeyAt(n, s) ==
  CASE n = 1 -> "hash" [] n = 2 -> "salt" [] n = 3 -> "iter"
    [] n = 4 -> IF s THEN "boot" ELSE "setup"
    [] n = 5 -> IF s THEN "setup" ELSE "boot"
    [] n = 6 -> "commit"

\* A write begins with all its keys.
LEMMA KeysAtFirst ==
  ASSUME NEW b \in BOOLEAN, NEW s \in BOOLEAN
  PROVE  Account!Keys(b, s) = KeysLeft(1, b /\ s)
<1>1. CASE b /\ s  BY <1>1 DEF Account!Keys, KeysLeft
<1>2. CASE ~(b /\ s)  BY <1>2 DEF Account!Keys, KeysLeft
<1> QED  BY <1>1, <1>2

\* Storing the n-th key leaves those after it.
LEMMA KeysNext ==
  ASSUME NEW s \in BOOLEAN, NEW n \in 1..6
  PROVE  /\ Head(KeysLeft(n, s)) = KeyAt(n, s)
         /\ Tail(KeysLeft(n, s)) = KeysLeft(n + 1, s)
         /\ KeysLeft(n, s) = <<"commit">> => n = 6
<1>1. Head(KeysLeft(n, s)) = KeyAt(n, s) /\ (KeysLeft(n, s) = <<"commit">> => n = 6)
  BY DEF KeysLeft, KeyAt
<1>2. Tail(KeysLeft(n, s)) = KeysLeft(n + 1, s)
  BY DEF KeysLeft
<1> QED  BY <1>1, <1>2

\* What a request and a write are.
Progress == {"idle", "queued", "storing", "failed", "verify", "passed",
             "read", "derive", "revoke", "sign in"}

Requests == [st: Progress, pw: Passwords \cup {None}, setup: BOOLEAN, gen: Nat, epoch: Nat]

Writers == [by: {"boot", "setup", "login", "change", "reset"},
            pw: Passwords \cup {Random}, boot: BOOLEAN, setup: BOOLEAN,
            rotate: BOOLEAN, salt: 2..(MaxWrites + 1),
            keys: {KeysLeft(n, s) : n \in 1..7, s \in BOOLEAN}]

AccountTypes ==
  /\ DOMAIN flash = {"hash", "salt", "iter", "boot", "setup"}
  /\ flash = [k \in DOMAIN flash |-> flash[k]]
  /\ ram.boot \in BOOLEAN /\ ram.setup \in BOOLEAN
  /\ gen \in Nat /\ epoch \in Nat /\ writes \in 0..MaxWrites
  /\ w # None => w \in Writers
  /\ job \in Requests /\ chg \in Requests

\* The write at its n-th key has stored the keys before it.
WrittenTo(n) ==
  /\ w.keys = KeysLeft(n, w.setup)
  /\ w.setup => w.boot
  /\ n > 1 => flash.hash = Account!Hash(w.pw, w.salt, "cur")
  /\ n > 2 => flash.salt = w.salt
  /\ n > 3 => flash.iter = "cur"
  /\ n > 4 => IF w.setup THEN flash.boot = 1 ELSE flash.setup = 0
  /\ n > 5 => /\ flash.boot = (IF w.boot THEN 1 ELSE 0)
              /\ flash.setup = (IF w.setup THEN 1 ELSE 0)

WriteIsInOrder == w # None => \E n \in 1..7 : WrittenTo(n)

\* An account with an owner is no bootstrap account, anywhere, and no write under
\* way makes it one.
OwnedIsNotBootstrap ==
  owned => /\ flash.boot # 1 /\ flash.hash # None /\ ram.boot = FALSE
           /\ w # None => w.boot = FALSE

AckedIsStored ==
  mixed = FALSE /\ acked # None => Account!Matches(Account!Load(flash), acked)

\* A login of this generation was checked in this epoch.
LoginIsFenced ==
  /\ job.gen <= gen
  /\ job.st # "idle" => job.pw \in Passwords
  /\ job.st \in {"verify", "passed"} \/ (job.st = "storing" /\ job.setup = FALSE) =>
       (job.gen = gen => job.epoch = epoch)
  /\ "setup" \in revoking => job.gen < gen /\ job.st = "storing" /\ job.setup = TRUE
  /\ w # None /\ w.by = "login" => job.st = "storing" /\ job.setup = FALSE
  /\ w # None /\ w.by = "setup" => job.st = "storing" /\ job.setup = TRUE

\* So is the session that the settings page opens after a change.
ChangeIsFenced ==
  /\ chg.gen <= gen
  /\ chg.st # "idle" => chg.pw \in Passwords
  /\ chg.st \in {"revoke", "sign in"} => chg.gen < gen
  /\ chg.st = "sign in" /\ gen = chg.gen + 1 => chg.epoch = epoch
  /\ "change" \in revoking => chg.st = "revoke"
  /\ w # None /\ w.by = "change" => chg.st = "storing" /\ w.rotate = TRUE

SessionsAreOfThisEpoch ==
  stale = FALSE /\ revoking = {} => sess \subseteq {epoch}

AccountInv ==
  /\ AccountTypes /\ WriteIsInOrder /\ OwnedIsNotBootstrap /\ AckedIsStored
  /\ LoginIsFenced /\ ChangeIsFenced /\ SessionsAreOfThisEpoch


\* No request is a request too.
LEMMA IdleIsARequest == Account!Idle \in Requests
BY DEF Account!Idle, Requests, Progress

\* What load_credentials makes of what is stored.
LEMMA LoadMeans ==
  ASSUME NEW f
  PROVE  /\ Account!Load(f).boot \in BOOLEAN /\ Account!Load(f).setup \in BOOLEAN
         /\ f.boot # 1 => Account!Load(f).boot = FALSE /\ Account!Load(f).setup = FALSE
<1>1. CASE f.hash = None \/ (f.setup = 1 /\ ~(f.boot = 1))
  BY <1>1 DEF Account!Load, Account!Locked
<1>2. CASE ~(f.hash = None \/ (f.setup = 1 /\ ~(f.boot = 1)))
  <2>1. Account!Load(f).boot = (f.boot = 1)
    BY <1>2 DEF Account!Load
  <2>2. Account!Load(f).setup = (IF f.setup = None THEN f.boot = 1 ELSE f.setup = 1)
    BY <1>2 DEF Account!Load
  <2> QED  BY <1>2, <2>1, <2>2
<1> QED  BY <1>1, <1>2

\* A complete set of keys of this firmware opens with its password.
LEMMA CompleteMatches ==
  ASSUME Account!CredentialsBounds, NEW f, NEW p \in Passwords \cup {Random},
         NEW s \in 2..(MaxWrites + 1),
         f.hash = Account!Hash(p, s, "cur"), f.salt = s, f.iter = "cur",
         f.setup = 1 => f.boot = 1
  PROVE  Account!Matches(Account!Load(f), p)
<1>1. f.hash # None /\ s # None /\ f.salt # None /\ f.iter # None
  BY DEF Account!CredentialsBounds
<1>2. /\ Account!Load(f).hash = f.hash /\ Account!Load(f).salt = f.salt
      /\ Account!Load(f).iter = f.iter
  BY <1>1 DEF Account!Load
<1> QED  BY <1>1, <1>2 DEF Account!Matches

\* The account is a fresh one or one that was stored before.
LEMMA AccountInitially ==
  ASSUME Account!CredentialsBounds, Account!Init
  PROVE  AccountInv
<1>0. None # 0 /\ None # 1 /\ None # "old" /\ None # "cur"
  BY DEF Account!CredentialsBounds
<1> DEFINE Kept(p, s, i, b) == [hash |-> Account!Hash(p, s, i), salt |-> s, iter |-> i,
                                boot |-> b, setup |-> None]
<1>1. \/ flash = Account!Blank
      \/ flash = Kept("admin", 1, "old", 1)
      \/ \E p \in Passwords : flash = Kept(p, None, None, None) \/ flash = Kept(p, 1, "old", 0)
  BY DEF Account!Init, Account!Firmware
<1>2. /\ DOMAIN flash = {"hash", "salt", "iter", "boot", "setup"}
      /\ flash = [k \in DOMAIN flash |-> flash[k]]
  BY <1>1 DEF Account!Blank
<1>3. AccountTypes
  <2>1. Account!Idle \in Requests
    BY DEF Account!Idle, Requests, Progress
  <2>2. ram.boot \in BOOLEAN /\ ram.setup \in BOOLEAN /\ job \in Requests /\ chg \in Requests
    BY <2>1 DEF Account!Init, Account!Locked
  <2>3. gen \in Nat /\ epoch \in Nat /\ writes \in 0..MaxWrites /\ w = None
    BY DEF Account!Init, Account!CredentialsBounds
  <2> QED  BY <1>2, <2>2, <2>3 DEF AccountTypes
<1>4. flash.hash # None => Account!Matches(Account!Load(flash), flash.hash.pw)
  <2>1. ASSUME NEW p, NEW b, flash = Kept(p, None, None, b), flash.hash # None
        PROVE  Account!Matches(Account!Load(flash), flash.hash.pw)
    BY <1>0, <2>1 DEF Account!Matches, Account!Load, Account!Hash
  <2>2. ASSUME NEW p, NEW b, flash = Kept(p, 1, "old", b), flash.hash # None
        PROVE  Account!Matches(Account!Load(flash), flash.hash.pw)
    BY <1>0, <2>2 DEF Account!Matches, Account!Load, Account!Hash
  <2>3. flash = Account!Blank => flash.hash = None
    BY DEF Account!Blank
  <2> QED  BY <1>1, <2>1, <2>2, <2>3
<1>5. AckedIsStored
  BY <1>4 DEF AckedIsStored, Account!Init
<1>6. WriteIsInOrder /\ SessionsAreOfThisEpoch
  BY DEF WriteIsInOrder, SessionsAreOfThisEpoch, Account!Init
<1>7. OwnedIsNotBootstrap
  BY DEF OwnedIsNotBootstrap, Account!Init, Account!Locked
<1>8. LoginIsFenced /\ ChangeIsFenced
  BY DEF LoginIsFenced, ChangeIsFenced, Account!Init, Account!Idle
<1> QED  BY <1>3, <1>5, <1>6, <1>7, <1>8 DEF AccountInv

\* A step that leaves the stored keys alone and begins no write.
LEMMA StorageKept ==
  ASSUME AccountInv, UNCHANGED <<flash, acked, mixed>>, w' \in {w, None},
         owned' => owned /\ ram'.boot = FALSE
  PROVE  WriteIsInOrder' /\ OwnedIsNotBootstrap' /\ AckedIsStored'
<1>1. WriteIsInOrder'
  BY DEF AccountInv, WriteIsInOrder, WrittenTo
<1>2. OwnedIsNotBootstrap'
  BY DEF AccountInv, OwnedIsNotBootstrap
<1>3. AckedIsStored'
  BY DEF AccountInv, AckedIsStored
<1> QED  BY <1>1, <1>2, <1>3

\* A write that begins.
LEMMA WriteBegins ==
  ASSUME Account!CredentialsBounds, AccountInv,
         NEW by \in {"boot", "setup", "login", "change", "reset"},
         NEW p \in Passwords \cup {Random}, NEW boot_ \in BOOLEAN, NEW setup \in BOOLEAN,
         NEW rotate \in BOOLEAN, Account!Begin(by, p, boot_, setup, rotate),
         UNCHANGED <<flash, acked, mixed>>,
         owned' => owned /\ ram'.boot = FALSE /\ boot_ = FALSE
  PROVE  /\ w = None /\ w' \in Writers /\ w'.by = by /\ w'.rotate = rotate
         /\ writes' \in 0..MaxWrites
         /\ WriteIsInOrder' /\ OwnedIsNotBootstrap' /\ AckedIsStored'
<1> DEFINE first == boot_ /\ setup
<1>0. first \in BOOLEAN  OBVIOUS
<1>1. /\ w = None /\ writes' = writes + 1 /\ writes < MaxWrites
      /\ w' = [by |-> by, pw |-> p, boot |-> boot_, setup |-> boot_ /\ setup,
               rotate |-> rotate, salt |-> 2 + writes, keys |-> Account!Keys(boot_, setup)]
  BY DEF Account!Begin, Account!Writer
<1>2. Account!Keys(boot_, setup) = KeysLeft(1, first)
  BY KeysAtFirst
<1>3. w' = [by |-> by, pw |-> p, boot |-> boot_, setup |-> first,
            rotate |-> rotate, salt |-> 2 + writes, keys |-> KeysLeft(1, first)]
  BY <1>1, <1>2
<1>4. writes' \in 0..MaxWrites /\ 2 + writes \in 2..(MaxWrites + 1)
  BY <1>1 DEF AccountInv, AccountTypes, Account!CredentialsBounds
<1>5. first => boot_  OBVIOUS
<1> HIDE DEF first
<1>6. w' \in Writers
  BY <1>0, <1>3, <1>4 DEF Writers
<1>7. w'.by = by /\ w'.rotate = rotate /\ w'.boot = boot_ /\ w'.setup = first
        /\ w'.keys = KeysLeft(1, first)
  BY <1>3
<1>8. WriteIsInOrder'
  <2>1. WrittenTo(1)'
    BY <1>5, <1>7 DEF WrittenTo
  <2>2. 1 \in 1..7  OBVIOUS
  <2> QED  BY <2>1, <2>2 DEF WriteIsInOrder
<1>9. OwnedIsNotBootstrap'
  BY <1>7 DEF AccountInv, OwnedIsNotBootstrap
<1>10. AckedIsStored'
  BY DEF AccountInv, AckedIsStored
<1> QED  BY <1>1, <1>4, <1>6, <1>7, <1>8, <1>9, <1>10

\* One more key is stored.
LEMMA WriteKeyKeeps ==
  ASSUME Account!CredentialsBounds, AccountInv, Account!WriteKey
  PROVE  /\ w \in Writers /\ w' \in Writers /\ w'.by = w.by /\ w'.rotate = w.rotate
         /\ DOMAIN flash' = {"hash", "salt", "iter", "boot", "setup"}
         /\ flash' = [k \in DOMAIN flash' |-> flash'[k]]
         /\ WriteIsInOrder' /\ OwnedIsNotBootstrap' /\ AckedIsStored'
<1>0. /\ w # None /\ w \in Writers /\ Head(w.keys) # "commit" /\ w.keys # <<>>
      /\ UNCHANGED <<ram, owned, acked>> /\ mixed' = TRUE
  BY DEF Account!WriteKey, AccountInv, AccountTypes
<1>1. PICK n \in 1..7 : WrittenTo(n)
  BY <1>0 DEF AccountInv, WriteIsInOrder
<1> DEFINE k == KeyAt(n, w.setup)
<1>2. /\ w.setup \in BOOLEAN /\ w.boot \in BOOLEAN /\ w.salt \in 2..(MaxWrites + 1)
      /\ w.pw \in Passwords \cup {Random}
  BY <1>0 DEF Writers
<1>3. n \in 1..5 /\ n \in 1..6
  <2>1. n # 7  BY <1>0, <1>1 DEF WrittenTo, KeysLeft
  <2>2. n # 6
    <3>1. SUFFICES ASSUME n = 6 PROVE FALSE  OBVIOUS
    <3>2. w.keys = <<"commit">>  BY <1>1, <3>1 DEF WrittenTo, KeysLeft
    <3> QED  BY <1>0, <3>2
  <2> QED  BY <2>1, <2>2
<1>4. Head(w.keys) = k /\ Tail(w.keys) = KeysLeft(n + 1, w.setup)
  BY <1>1, <1>2, <1>3, KeysNext DEF WrittenTo
<1>5. /\ flash' = [flash EXCEPT ![k] = Account!ValueOf(k)]
      /\ w' = [w EXCEPT !.keys = KeysLeft(n + 1, w.setup)]
  BY <1>4 DEF Account!WriteKey
<1>6. k \in {"hash", "salt", "iter", "boot", "setup"}
  BY <1>2, <1>3 DEF KeyAt
<1>d. DOMAIN flash = {"hash", "salt", "iter", "boot", "setup"}
  BY DEF AccountInv, AccountTypes
<1>7. /\ DOMAIN flash' = {"hash", "salt", "iter", "boot", "setup"}
      /\ flash' = [j \in DOMAIN flash' |-> flash'[j]]
  BY <1>5, <1>d
<1>8. /\ w' \in Writers /\ w'.by = w.by /\ w'.rotate = w.rotate /\ w'.boot = w.boot
      /\ w'.setup = w.setup /\ w'.pw = w.pw /\ w'.salt = w.salt
      /\ w'.keys = KeysLeft(n + 1, w.setup)
  <2>1. KeysLeft(n + 1, w.setup) \in {KeysLeft(m, s) : m \in 1..7, s \in BOOLEAN}
    BY <1>2, <1>3
  <2> QED  BY <1>0, <1>5, <2>1 DEF Writers
<1>v. /\ n = 1 => k = "hash" /\ Account!ValueOf(k) = Account!Hash(w.pw, w.salt, "cur")
      /\ n = 2 => k = "salt" /\ Account!ValueOf(k) = w.salt
      /\ n = 3 => k = "iter" /\ Account!ValueOf(k) = "cur"
      /\ n = 4 /\ w.setup => k = "boot" /\ Account!ValueOf(k) = (IF w.boot THEN 1 ELSE 0)
      /\ n = 4 /\ ~w.setup => k = "setup" /\ Account!ValueOf(k) = (IF w.setup THEN 1 ELSE 0)
      /\ n = 5 /\ w.setup => k = "setup" /\ Account!ValueOf(k) = (IF w.setup THEN 1 ELSE 0)
      /\ n = 5 /\ ~w.setup => k = "boot" /\ Account!ValueOf(k) = (IF w.boot THEN 1 ELSE 0)
  BY DEF KeyAt, Account!ValueOf
<1> HIDE DEF k
<1>9. flash'[k] = Account!ValueOf(k) /\ \A j \in DOMAIN flash : j # k => flash'[j] = flash[j]
  BY <1>5, <1>6, <1>d
<1>10. WrittenTo(n + 1)'
  <2>1. w'.keys = KeysLeft(n + 1, w'.setup) /\ (w'.setup => w'.boot)
    BY <1>1, <1>8 DEF WrittenTo
  <2>2. CASE n = 1
    <3>1. flash'.hash = Account!Hash(w.pw, w.salt, "cur")
      BY <1>9, <1>v, <2>2
    <3> QED  BY <1>8, <2>1, <2>2, <3>1 DEF WrittenTo, Account!Hash
  <2>3. CASE n = 2
    <3>1. flash'.salt = w.salt /\ flash'.hash = flash.hash
      BY <1>9, <1>d, <1>v, <2>3
    <3> QED  BY <1>1, <1>8, <2>1, <2>3, <3>1 DEF WrittenTo, Account!Hash
  <2>4. CASE n = 3
    <3>1. flash'.iter = "cur" /\ flash'.salt = flash.salt /\ flash'.hash = flash.hash
      BY <1>9, <1>d, <1>v, <2>4
    <3> QED  BY <1>1, <1>8, <2>1, <2>4, <3>1 DEF WrittenTo, Account!Hash
  <2>5. CASE n = 4
    <3>1. /\ flash'.iter = flash.iter /\ flash'.salt = flash.salt /\ flash'.hash = flash.hash
          /\ w.setup => flash'.boot = 1
          /\ ~w.setup => flash'.setup = 0
      BY <1>1, <1>9, <1>d, <1>v, <2>5 DEF WrittenTo
    <3> QED  BY <1>1, <1>8, <2>1, <2>5, <3>1 DEF WrittenTo, Account!Hash
  <2>6. CASE n = 5
    <3>1. /\ flash'.iter = flash.iter /\ flash'.salt = flash.salt /\ flash'.hash = flash.hash
          /\ flash'.boot = (IF w.boot THEN 1 ELSE 0)
          /\ flash'.setup = (IF w.setup THEN 1 ELSE 0)
      BY <1>1, <1>9, <1>d, <1>v, <2>6 DEF WrittenTo
    <3> QED  BY <1>1, <1>8, <2>1, <2>6, <3>1 DEF WrittenTo, Account!Hash
  <2> QED  BY <1>3, <2>2, <2>3, <2>4, <2>5, <2>6
<1>11. WriteIsInOrder'
  <2>1. n + 1 \in 1..7  BY <1>3
  <2> QED  BY <1>10, <2>1 DEF WriteIsInOrder
<1>12. OwnedIsNotBootstrap'
  <2> SUFFICES ASSUME owned
               PROVE  /\ flash'.boot # 1 /\ flash'.hash # None /\ ram.boot = FALSE
                      /\ w' # None => w'.boot = FALSE
    BY <1>0 DEF OwnedIsNotBootstrap
  <2>1. flash.boot # 1 /\ flash.hash # None /\ ram.boot = FALSE /\ w.boot = FALSE
    BY <1>0 DEF AccountInv, OwnedIsNotBootstrap
  <2>2. flash'.boot # 1
    <3>1. CASE k = "boot"
      <4>1. n \in {4, 5} /\ flash'.boot = (IF w.boot THEN 1 ELSE 0)
        BY <1>2, <1>3, <1>9, <1>v, <3>1
      <4> QED  BY <2>1, <4>1
    <3>2. CASE k # "boot"  BY <1>9, <1>d, <2>1, <3>2
    <3> QED  BY <3>1, <3>2
  <2>3. flash'.hash # None
    <3>1. CASE k = "hash"
      <4>1. flash'.hash = Account!Hash(w.pw, w.salt, "cur")
        BY <1>2, <1>3, <1>9, <1>v, <3>1
      <4> QED  BY <1>2, <4>1 DEF Account!CredentialsBounds
    <3>2. CASE k # "hash"  BY <1>9, <1>d, <2>1, <3>2
    <3> QED  BY <3>1, <3>2
  <2> QED  BY <1>8, <2>1, <2>2, <2>3
<1>13. AckedIsStored'
  BY <1>0 DEF AckedIsStored
<1> QED  BY <1>0, <1>7, <1>8, <1>11, <1>12, <1>13

\* The requests are as they were, and no write of theirs begins.
LEMMA RequestsStay ==
  ASSUME AccountInv, UNCHANGED <<gen, epoch, job, chg>>, revoking' \subseteq revoking,
         w' \in {w, None}
  PROVE  LoginIsFenced' /\ ChangeIsFenced'
<1>1. LoginIsFenced'  BY DEF AccountInv, LoginIsFenced
<1>2. ChangeIsFenced'  BY Zenon DEF AccountInv, ChangeIsFenced
<1> QED  BY <1>1, <1>2

\* The commit: everything is stored, so the password works and the flags agree.
LEMMA ApplyKeeps ==
  ASSUME Account!CredentialsBounds, AccountInv, Account!Apply
  PROVE  AccountInv'
<1>0. /\ w # None /\ w \in Writers /\ w.keys = <<"commit">>
      /\ UNCHANGED <<flash, sess, up, stale, writes>>
      /\ acked' = w.pw /\ mixed' = FALSE
      /\ owned' = (IF w.rotate THEN ~w.boot ELSE owned)
  BY DEF Account!Apply, Account!bounds, AccountInv, AccountTypes
<1>1. /\ w.setup \in BOOLEAN /\ w.boot \in BOOLEAN /\ w.rotate \in BOOLEAN
      /\ w.salt \in 2..(MaxWrites + 1) /\ w.pw \in Passwords \cup {Random}
      /\ w.by \in {"boot", "setup", "login", "change", "reset"}
  BY <1>0 DEF Writers
<1>2. WrittenTo(6)
  <2>1. PICK n \in 1..7 : WrittenTo(n)
    BY <1>0 DEF AccountInv, WriteIsInOrder
  <2>2. n # 7
    <3>1. SUFFICES ASSUME n = 7 PROVE FALSE  OBVIOUS
    <3>2. w.keys = <<>>  BY <2>1, <3>1 DEF WrittenTo, KeysLeft
    <3> QED  BY <1>0, <3>2
  <2>4. n \in 1..6  BY <2>2
  <2>3. n = 6  BY <2>4, <1>0, <1>1, <2>1, <2>2, KeysNext DEF WrittenTo
  <2> QED  BY <2>1, <2>3
<1>3. /\ flash.hash = Account!Hash(w.pw, w.salt, "cur") /\ flash.salt = w.salt
      /\ flash.iter = "cur" /\ (w.setup => w.boot)
      /\ flash.boot = (IF w.boot THEN 1 ELSE 0) /\ flash.setup = (IF w.setup THEN 1 ELSE 0)
  BY <1>2 DEF WrittenTo
<1>4. ram'.boot = w.boot /\ ram'.setup = w.setup
  BY DEF Account!Apply
<1>5. w' = (IF w.by = "setup" THEN [w EXCEPT !.keys = <<>>] ELSE None)
  BY DEF Account!Apply
<1>w. w' # None => /\ w.by = "setup" /\ w' \in Writers /\ w'.by = w.by /\ w'.boot = w.boot
                   /\ w'.setup = w.setup /\ w'.keys = <<>> /\ w'.rotate = w.rotate
                   /\ w'.pw = w.pw /\ w'.salt = w.salt
  <2>1. <<>> \in {KeysLeft(m, s) : m \in 1..7, s \in BOOLEAN}
    <3>1. <<>> = KeysLeft(7, w.setup)  BY DEF KeysLeft
    <3>2. KeysLeft(7, w.setup) \in {KeysLeft(m, s) : m \in 1..7, s \in BOOLEAN}
      BY <1>1
    <3> QED  BY <3>1, <3>2
  <2> QED  BY <1>0, <1>5, <2>1 DEF Writers
<1>6. WriteIsInOrder'
  <2> SUFFICES ASSUME w' # None PROVE WrittenTo(7)'
    BY DEF WriteIsInOrder
  <2>1. w'.keys = KeysLeft(7, w'.setup)
    BY <1>w DEF KeysLeft
  <2> QED  BY <1>0, <1>3, <1>w, <2>1 DEF WrittenTo, Account!Hash
<1>7. AckedIsStored'
  <2>1. flash.setup = 1 => flash.boot = 1  BY <1>1, <1>3
  <2>2. Account!Matches(Account!Load(flash), w.pw)
    BY <1>1, <1>3, <2>1, CompleteMatches
  <2> QED  BY <1>0, <2>2 DEF AckedIsStored
<1>8. OwnedIsNotBootstrap'
  <2> SUFFICES ASSUME owned'
               PROVE  /\ flash.boot # 1 /\ flash.hash # None /\ ram'.boot = FALSE
                      /\ w' # None => w'.boot = FALSE
    BY <1>0 DEF OwnedIsNotBootstrap
  <2>1. w.boot = FALSE
    <3>1. CASE w.rotate  BY <1>0, <1>1, <3>1
    <3>2. CASE ~w.rotate  BY <1>0, <3>2 DEF AccountInv, OwnedIsNotBootstrap
    <3> QED  BY <3>1, <3>2
  <2>2. flash.hash # None  BY <1>1, <1>3 DEF Account!CredentialsBounds
  <2>3. flash.boot = 0  BY <1>3, <2>1
  <2> QED  BY <1>4, <1>w, <2>1, <2>2, <2>3
<1>g. /\ gen \in Nat /\ epoch \in Nat /\ job \in Requests /\ chg \in Requests
      /\ job.gen \in Nat /\ chg.gen \in Nat /\ job.gen <= gen /\ chg.gen <= gen
  BY Zenon DEF AccountInv, AccountTypes, Requests, LoginIsFenced, ChangeIsFenced
<1>9. \/ /\ w.rotate /\ gen' = gen + 1 /\ epoch' = epoch + 1
         /\ revoking' = revoking \cup {w.by}
      \/ /\ ~w.rotate /\ UNCHANGED <<gen, epoch, revoking>>
  BY <1>1 DEF Account!Apply
<1>j. /\ w.by # "login" => job' = job
      /\ w.by = "login" => job' = [job EXCEPT !.st = "verify"]
      /\ w.by # "change" => chg' = chg
      /\ w.by = "change" => chg' = [chg EXCEPT !.st = "revoke"]
  BY DEF Account!Apply, Account!Report
<1>k. /\ job' \in Requests /\ job'.gen = job.gen /\ job'.epoch = job.epoch
      /\ job'.pw = job.pw /\ job'.setup = job.setup
      /\ chg' \in Requests /\ chg'.gen = chg.gen /\ chg'.epoch = chg.epoch /\ chg'.pw = chg.pw
      /\ job'.st = (IF w.by = "login" THEN "verify" ELSE job.st)
      /\ chg'.st = (IF w.by = "change" THEN "revoke" ELSE chg.st)
  BY Zenon, <1>g, <1>j DEF Requests, Progress
<1>t. gen' \in Nat /\ epoch' \in Nat
  BY <1>9, <1>g
<1>10. AccountTypes'
  <2>1. ram'.boot \in BOOLEAN /\ ram'.setup \in BOOLEAN  BY <1>1, <1>4
  <2>2. writes' \in 0..MaxWrites  BY <1>0 DEF AccountInv, AccountTypes
  <2>3. /\ DOMAIN flash' = {"hash", "salt", "iter", "boot", "setup"}
        /\ flash' = [k \in DOMAIN flash' |-> flash'[k]]
    BY <1>0 DEF AccountInv, AccountTypes
  <2> QED  BY <1>k, <1>t, <1>w, <2>1, <2>2, <2>3 DEF AccountTypes
<1>11. LoginIsFenced'
  <2>1. job'.gen <= gen' /\ (job'.st # "idle" => job'.pw \in Passwords)
    BY <1>0, <1>9, <1>g, <1>k DEF AccountInv, LoginIsFenced
  <2>2. job'.st \in {"verify", "passed"} \/ (job'.st = "storing" /\ job'.setup = FALSE) =>
          (job'.gen = gen' => job'.epoch = epoch')
    <3>1. CASE w.rotate  BY <1>9, <1>g, <1>k, <3>1
    <3>2. CASE ~w.rotate
      <4>1. gen' = gen /\ epoch' = epoch  BY <1>9, <3>2
      <4>2. CASE w.by = "login"
        <5>1. job.st = "storing" /\ job.setup = FALSE
          BY <1>0, <4>2 DEF AccountInv, LoginIsFenced
        <5> QED  BY <1>k, <4>1, <5>1 DEF AccountInv, LoginIsFenced
      <4>3. CASE w.by # "login"
        BY <1>k, <4>1, <4>3 DEF AccountInv, LoginIsFenced
      <4> QED  BY <4>2, <4>3
    <3> QED  BY <3>1, <3>2
  <2>3. "setup" \in revoking' => job'.gen < gen' /\ job'.st = "storing" /\ job'.setup = TRUE
    <3> SUFFICES ASSUME "setup" \in revoking'
                 PROVE  job'.gen < gen' /\ job'.st = "storing" /\ job'.setup = TRUE
      OBVIOUS
    <3>1. CASE "setup" \in revoking
      <4>1. job.gen < gen /\ job.st = "storing" /\ job.setup = TRUE
        BY <3>1 DEF AccountInv, LoginIsFenced
      <4>2. w.by # "login"  BY <1>0, <4>1 DEF AccountInv, LoginIsFenced
      <4> QED  BY <1>9, <1>g, <1>k, <4>1, <4>2
    <3>2. CASE "setup" \notin revoking
      <4>1. w.rotate /\ w.by = "setup" /\ gen' = gen + 1  BY <1>9, <3>2
      <4>2. job.st = "storing" /\ job.setup = TRUE
        BY <1>0, <4>1 DEF AccountInv, LoginIsFenced
      <4> QED  BY <1>g, <1>k, <4>1, <4>2
    <3> QED  BY <3>1, <3>2
  <2>4. w' # None => w'.by = "setup" /\ job'.st = "storing" /\ job'.setup = TRUE
    BY <1>0, <1>k, <1>w DEF AccountInv, LoginIsFenced
  <2> QED  BY <2>1, <2>2, <2>3, <2>4 DEF LoginIsFenced
<1>12. ChangeIsFenced'
  <2>0. w.by = "change" => chg.st = "storing" /\ w.rotate
    BY Zenon, <1>0 DEF AccountInv, ChangeIsFenced
  <2>8. chg.gen < gen => gen + 1 # chg.gen + 1
    BY <1>g
  <2> DEFINE Goal == /\ chg'.gen <= gen' /\ (chg'.st # "idle" => chg'.pw \in Passwords)
                     /\ chg'.st \in {"revoke", "sign in"} => chg'.gen < gen'
                     /\ chg'.st = "sign in" /\ gen' = chg'.gen + 1 => chg'.epoch = epoch'
  <2>6. w.rotate => Goal
    <3> SUFFICES ASSUME w.rotate PROVE Goal  BY Zenon
    <3>1. gen' = gen + 1  BY <1>9
    <3>3. chg'.st # "idle" => chg'.pw \in Passwords
      BY Zenon, <1>k, <2>0 DEF AccountInv, ChangeIsFenced
    <3>4. chg'.st = "sign in" => chg.gen < gen
      BY Zenon, <1>k DEF AccountInv, ChangeIsFenced
    <3>5. chg'.gen <= gen' /\ chg'.gen < gen'
      BY <1>g, <1>k, <3>1
    <3>6. chg'.st = "sign in" => gen' # chg'.gen + 1
      <4> SUFFICES ASSUME chg'.st = "sign in" PROVE gen' # chg'.gen + 1  BY Zenon
      <4>1. chg'.gen = chg.gen  BY Zenon, <1>k
      <4>2. chg.gen < gen  BY Zenon, <3>4
      <4>3. chg.gen \in Nat /\ gen \in Nat  BY Zenon, <1>g
      <4>4. gen' # chg.gen + 1  BY Zenon, <2>8, <3>1, <4>2
      <4> QED  BY <4>1, <4>4
    <3> QED  BY Zenon, <3>3, <3>5, <3>6
  <2>7. ~w.rotate => Goal
    <3> SUFFICES ASSUME ~w.rotate PROVE Goal  BY Zenon
    <3>1. UNCHANGED <<gen, epoch>> /\ w.by # "change"  BY <1>9, <2>0
    <3>2. chg' = chg  BY <1>j, <3>1
    <3> QED  BY Zenon, <3>1, <3>2 DEF AccountInv, ChangeIsFenced
  <2>1. Goal  BY Zenon, <2>6, <2>7
  <2>4. "change" \in revoking' => chg'.st = "revoke"
    BY Zenon, <1>9, <1>k DEF AccountInv, ChangeIsFenced
  <2>5. w' # None => w'.by = "setup"  BY <1>w
  <2> QED  BY Zenon, <2>1, <2>4, <2>5 DEF ChangeIsFenced
<1>13. SessionsAreOfThisEpoch'
  BY <1>0, <1>9 DEF AccountInv, SessionsAreOfThisEpoch
<1> QED  BY <1>6, <1>7, <1>8, <1>10, <1>11, <1>12, <1>13 DEF AccountInv

\* The types after a step, from those of the variables it may change.
LEMMA AccountTypesKept ==
  ASSUME AccountInv, UNCHANGED flash, ram'.boot \in BOOLEAN, ram'.setup \in BOOLEAN,
         gen' \in Nat, epoch' \in Nat, writes' \in 0..MaxWrites, w' # None => w' \in Writers,
         job' \in Requests, chg' \in Requests
  PROVE  AccountTypes'
BY DEF AccountInv, AccountTypes

\* A write that breaks off.
LEMMA WriteFailsKeeps ==
  ASSUME AccountInv, Account!WriteFails
  PROVE  AccountInv'
<1>0. /\ w # None /\ w \in Writers /\ w' = None
      /\ UNCHANGED <<flash, gen, sess, revoking, acked, owned, mixed, stale, epoch, writes>>
      /\ ram' = (IF w.by = "boot" THEN Account!Locked ELSE ram)
  BY DEF Account!WriteFails, AccountInv, AccountTypes
<1>g. /\ gen \in Nat /\ epoch \in Nat /\ job \in Requests /\ chg \in Requests
      /\ ram.boot \in BOOLEAN /\ ram.setup \in BOOLEAN /\ writes \in 0..MaxWrites
  BY DEF AccountInv, AccountTypes
<1>1. ram'.boot \in BOOLEAN /\ ram'.setup \in BOOLEAN /\ (owned' => ram'.boot = FALSE)
  BY <1>0, <1>g DEF Account!Locked, AccountInv, OwnedIsNotBootstrap
<1>j. /\ w.by # "login" => job' = job
      /\ w.by = "login" => job' = [job EXCEPT !.st = "failed"]
      /\ w.by # "change" => chg' = chg
      /\ w.by = "change" => chg' = Account!Idle
  BY DEF Account!WriteFails, Account!Report
<1>k. /\ job' \in Requests /\ job'.gen = job.gen /\ job'.epoch = job.epoch
      /\ job'.pw = job.pw /\ job'.setup = job.setup
      /\ job'.st = (IF w.by = "login" THEN "failed" ELSE job.st)
  BY Zenon, <1>g, <1>j DEF Requests, Progress
<1>l. chg' \in Requests /\ (chg' = chg \/ chg' = Account!Idle)
  BY <1>g, <1>j, IdleIsARequest
<1>2. AccountTypes'
  BY <1>0, <1>1, <1>g, <1>k, <1>l, AccountTypesKept
<1>3. WriteIsInOrder' /\ OwnedIsNotBootstrap' /\ AckedIsStored'
  BY <1>0, <1>1, StorageKept
<1>4. LoginIsFenced'
  <2>1. CASE w.by = "login"
    <3>1. job.st = "storing" /\ job.setup = FALSE
      BY <1>0, <2>1 DEF AccountInv, LoginIsFenced
    <3>2. job'.st = "failed"  BY <1>k, <2>1
    <3>3. "setup" \notin revoking'  BY <1>0, <3>1 DEF AccountInv, LoginIsFenced
    <3> QED  BY <1>0, <1>k, <3>1, <3>2, <3>3 DEF AccountInv, LoginIsFenced
  <2>2. CASE w.by # "login"
    <3>1. job' = job  BY <1>j, <2>2
    <3> QED  BY <1>0, <3>1 DEF AccountInv, LoginIsFenced
  <2> QED  BY <2>1, <2>2
<1>5. ChangeIsFenced'
  <2>1. CASE chg' = chg
    BY Zenon, <1>0, <2>1 DEF AccountInv, ChangeIsFenced
  <2>2. CASE chg' # chg
    <3>1. w.by = "change" /\ chg' = Account!Idle  BY <1>j, <2>2
    <3>2. chg.st = "storing"  BY Zenon, <1>0, <3>1 DEF AccountInv, ChangeIsFenced
    <3>3. "change" \notin revoking'  BY <1>0, <3>2 DEF AccountInv, ChangeIsFenced
    <3>4. chg'.st = "idle" /\ chg'.gen = 0  BY <3>1 DEF Account!Idle
    <3> QED  BY <1>0, <1>g, <3>3, <3>4 DEF ChangeIsFenced
  <2> QED  BY <2>1, <2>2
<1>6. SessionsAreOfThisEpoch'
  BY <1>0 DEF AccountInv, SessionsAreOfThisEpoch
<1> QED  BY <1>2, <1>3, <1>4, <1>5, <1>6 DEF AccountInv

\* si_auth_revoke_all_sessions and the session it leads to.
LEMMA RevokeKeeps ==
  ASSUME AccountInv, NEW by \in {"boot", "setup", "change", "reset"}, Account!RevokeAll(by)
  PROVE  AccountInv'
<1>0. /\ by \in revoking /\ revoking' = revoking \ {by} /\ sess' = {}
      /\ UNCHANGED <<flash, ram, gen, acked, owned, mixed, epoch, writes>>
      /\ w' \in {w, None} /\ (by = "setup" => w' = None)
      /\ job' = (IF by = "setup"
                 THEN [job EXCEPT !.st = "passed", !.gen = @ + 1, !.epoch = epoch] ELSE job)
      /\ chg' = (IF by = "change" THEN [chg EXCEPT !.st = "sign in", !.epoch = epoch]
                 ELSE chg)
  BY DEF Account!RevokeAll, Account!bounds
<1>g. /\ gen \in Nat /\ epoch \in Nat /\ job \in Requests /\ chg \in Requests
      /\ ram.boot \in BOOLEAN /\ ram.setup \in BOOLEAN /\ writes \in 0..MaxWrites
      /\ w # None => w \in Writers
      /\ job.gen \in Nat /\ chg.gen \in Nat
  BY DEF AccountInv, AccountTypes, Requests
<1>k. job' \in Requests /\ chg' \in Requests
  <2>1. [job EXCEPT !.st = "passed", !.gen = @ + 1, !.epoch = epoch] \in Requests
    <3>1. job.gen + 1 \in Nat /\ "passed" \in Progress  BY <1>g DEF Progress
    <3>2. ASSUME NEW g \in Nat
          PROVE  [job EXCEPT !.st = "passed", !.gen = g, !.epoch = epoch] \in Requests
      BY <1>g, <3>1 DEF Requests
    <3> QED  BY Zenon, <3>1, <3>2
  <2>2. [chg EXCEPT !.st = "sign in", !.epoch = epoch] \in Requests
    BY Zenon, <1>g DEF Requests, Progress
  <2> QED  BY <1>0, <1>g, <2>1, <2>2
<1>2. AccountTypes'
  BY <1>0, <1>g, <1>k, AccountTypesKept
<1>o. owned' => owned /\ ram'.boot = FALSE
  BY <1>0 DEF AccountInv, OwnedIsNotBootstrap
<1>3. WriteIsInOrder' /\ OwnedIsNotBootstrap' /\ AckedIsStored'
  BY <1>0, <1>o, StorageKept
<1>4. LoginIsFenced'
  <2>1. CASE by = "setup"
    <3>1. /\ job'.st = "passed" /\ job'.gen = job.gen + 1 /\ job'.epoch = epoch
          /\ job'.pw = job.pw
      BY <1>0, <1>g, <2>1 DEF Requests
    <3>2. job.gen < gen /\ job.st = "storing"
      BY <1>0, <2>1 DEF AccountInv, LoginIsFenced
    <3>3. job.pw \in Passwords  BY <3>2 DEF AccountInv, LoginIsFenced
    <3>4. job'.gen <= gen'  BY <1>0, <1>g, <3>1, <3>2
    <3>5. w' = None /\ "setup" \notin revoking'  BY <1>0, <2>1
    <3> QED  BY <1>0, <3>1, <3>3, <3>4, <3>5 DEF LoginIsFenced
  <2>2. CASE by # "setup"
    <3>1. job' = job  BY <1>0, <2>2
    <3> QED  BY <1>0, <3>1 DEF AccountInv, LoginIsFenced
  <2> QED  BY <2>1, <2>2
<1>5. ChangeIsFenced'
  <2>1. CASE by = "change"
    <3>1. /\ chg'.st = "sign in" /\ chg'.gen = chg.gen /\ chg'.epoch = epoch
          /\ chg'.pw = chg.pw
      BY <1>0, <1>g, <2>1 DEF Requests
    <3>2. chg.st = "revoke"  BY Zenon, <1>0, <2>1 DEF AccountInv, ChangeIsFenced
    <3>3. chg.gen <= gen /\ chg.gen < gen /\ chg.pw \in Passwords
      BY <3>2 DEF AccountInv, ChangeIsFenced
    <3>4. w' # None => w'.by # "change"
      BY <1>0, <3>2 DEF AccountInv, ChangeIsFenced
    <3>5. "change" \notin revoking'  BY <1>0, <2>1
    <3> QED  BY Zenon, <1>0, <3>1, <3>3, <3>4, <3>5 DEF ChangeIsFenced
  <2>2. CASE by # "change"
    <3>1. chg' = chg  BY <1>0, <2>2
    <3> QED  BY Zenon, <1>0, <3>1 DEF AccountInv, ChangeIsFenced
  <2> QED  BY <2>1, <2>2
<1>6. SessionsAreOfThisEpoch'
  BY <1>0 DEF SessionsAreOfThisEpoch
<1> QED  BY <1>2, <1>3, <1>4, <1>5, <1>6 DEF AccountInv

\* load_credentials and a restart.
LEMMA BootKeeps ==
  ASSUME Account!CredentialsBounds, AccountInv,
         Account!LoadCredentials \/ \E kept \in BOOLEAN : Account!Restart(kept)
  PROVE  AccountInv'
<1>g. /\ gen \in Nat /\ epoch \in Nat /\ job \in Requests /\ chg \in Requests
      /\ ram.boot \in BOOLEAN /\ ram.setup \in BOOLEAN /\ writes \in 0..MaxWrites
      /\ w # None => w \in Writers
  BY DEF AccountInv, AccountTypes
<1>1. CASE Account!LoadCredentials
  <2>0. /\ w = None /\ ram' = Account!Load(flash)
        /\ UNCHANGED <<flash, gen, sess, revoking, job, chg, acked, owned, mixed, stale, epoch>>
    BY <1>1 DEF Account!LoadCredentials
  <2>1. ram'.boot \in BOOLEAN /\ ram'.setup \in BOOLEAN
    BY <2>0, LoadMeans
  <2>2. owned => flash.boot # 1 /\ flash.hash # None
    BY DEF AccountInv, OwnedIsNotBootstrap
  <2>3. owned' => owned /\ ram'.boot = FALSE
    BY <2>0, <2>2, LoadMeans
  <2>4. CASE flash.hash = None \/ Account!SharedFactory(Account!Load(flash))
    <3>1. Account!Begin("boot", Random, TRUE, TRUE, TRUE)
      BY <1>1, <2>4 DEF Account!LoadCredentials
    <3>2. owned = FALSE \/ ~owned
      BY <2>2, <2>4, LoadMeans DEF Account!SharedFactory
    <3>3. /\ w' \in Writers /\ w'.by = "boot" /\ writes' \in 0..MaxWrites
          /\ WriteIsInOrder' /\ OwnedIsNotBootstrap' /\ AckedIsStored'
      BY <2>0, <3>1, <3>2, WriteBegins
    <3>4. LoginIsFenced' /\ ChangeIsFenced'
      BY Zenon, <2>0, <3>3 DEF AccountInv, LoginIsFenced, ChangeIsFenced
    <3>5. AccountTypes'
      BY <1>g, <2>0, <2>1, <3>3, AccountTypesKept
    <3>6. SessionsAreOfThisEpoch'
      BY <2>0 DEF AccountInv, SessionsAreOfThisEpoch
    <3> QED  BY <3>3, <3>4, <3>5, <3>6 DEF AccountInv
  <2>5. CASE ~(flash.hash = None \/ Account!SharedFactory(Account!Load(flash)))
    <3>1. UNCHANGED <<w, writes>>
      BY <1>1, <2>5 DEF Account!LoadCredentials
    <3>2. WriteIsInOrder' /\ OwnedIsNotBootstrap' /\ AckedIsStored'
      BY <2>0, <2>3, <3>1, StorageKept
    <3>3. LoginIsFenced' /\ ChangeIsFenced'
      BY <2>0, <3>1, RequestsStay
    <3>4. AccountTypes'
      BY <1>g, <2>0, <2>1, <3>1, AccountTypesKept
    <3>5. SessionsAreOfThisEpoch'
      BY <2>0 DEF AccountInv, SessionsAreOfThisEpoch
    <3> QED  BY <3>2, <3>3, <3>4, <3>5 DEF AccountInv
  <2> QED  BY <2>4, <2>5
<1>2. ASSUME NEW kept \in BOOLEAN, Account!Restart(kept)
      PROVE  AccountInv'
  <2>0. /\ sess' = (IF kept THEN sess ELSE {})
        /\ stale' = (kept /\ (stale \/ (revoking # {} /\ sess # {})))
        /\ gen' = 1 /\ ram' = Account!Locked /\ w' = None /\ revoking' = {}
        /\ job' = Account!Idle /\ chg' = Account!Idle
        /\ UNCHANGED <<flash, acked, owned, mixed, epoch, writes>>
    BY <1>2 DEF Account!Restart
  <2>1. ram'.boot = FALSE /\ ram'.setup = FALSE
    BY <2>0 DEF Account!Locked
  <2>2. job' \in Requests /\ chg' \in Requests
    BY <2>0 DEF Account!Idle, Requests, Progress
  <2>3. AccountTypes'
    BY <1>g, <2>0, <2>1, <2>2, AccountTypesKept
  <2>4. WriteIsInOrder' /\ OwnedIsNotBootstrap' /\ AckedIsStored'
    BY <2>0, <2>1, StorageKept
  <2>5. LoginIsFenced' /\ ChangeIsFenced'
    BY <2>0 DEF LoginIsFenced, ChangeIsFenced, Account!Idle
  <2>6. SessionsAreOfThisEpoch'
    <3> SUFFICES ASSUME stale' = FALSE PROVE sess' \subseteq {epoch}
      BY <2>0 DEF SessionsAreOfThisEpoch
    <3>1. CASE ~kept \/ sess = {}  BY <2>0, <3>1
    <3>2. CASE kept /\ sess # {}
      <4>1. ~stale /\ revoking = {}  BY <2>0, <3>2
      <4> QED  BY <2>0, <3>2, <4>1 DEF AccountInv, SessionsAreOfThisEpoch
    <3> QED  BY <3>1, <3>2
  <2> QED  BY <2>3, <2>4, <2>5, <2>6 DEF AccountInv
<1> QED  BY <1>1, <1>2

\* A step of a login that is not the end of a write or of a revocation.
LEMMA LoginKeeps ==
  ASSUME Account!CredentialsBounds, AccountInv,
         \/ \E p \in Passwords, setup \in BOOLEAN : Account!Submit(p, setup)
         \/ Account!SetupAccount \/ Account!CredentialsMatch \/ Account!FinishJob
         \/ Account!SetupFails \/ Account!Collect
  PROVE  AccountInv'
<1>g. /\ gen \in Nat /\ epoch \in Nat /\ job \in Requests /\ chg \in Requests
      /\ ram.boot \in BOOLEAN /\ ram.setup \in BOOLEAN /\ writes \in 0..MaxWrites
      /\ w # None => w \in Writers
      /\ job.gen \in Nat /\ job.gen <= gen /\ job.setup \in BOOLEAN
      /\ job.st # "idle" => job.pw \in Passwords
  BY DEF AccountInv, AccountTypes, Requests, LoginIsFenced
<1>o. owned => ram.boot = FALSE
  BY DEF AccountInv, OwnedIsNotBootstrap
<1>c. ASSUME UNCHANGED <<gen, epoch, revoking, chg>>,
             w' \in {w, None} \/ (w' \in Writers /\ w'.by # "change")
      PROVE  ChangeIsFenced'
  BY Zenon, <1>c DEF AccountInv, ChangeIsFenced
<1>s. ASSUME UNCHANGED <<flash, acked, mixed, owned, ram, w, gen, epoch, revoking, chg, writes>>,
             job' \in Requests, LoginIsFenced', SessionsAreOfThisEpoch'
      PROVE  AccountInv'
  <2>1. AccountTypes'  BY <1>g, <1>s, AccountTypesKept
  <2>2. WriteIsInOrder' /\ OwnedIsNotBootstrap' /\ AckedIsStored'
    BY <1>o, <1>s, StorageKept
  <2> QED  BY <1>c, <1>s, <2>1, <2>2 DEF AccountInv
<1>e. ASSUME UNCHANGED <<sess, stale, revoking, epoch>>
      PROVE  SessionsAreOfThisEpoch'
  BY <1>e DEF AccountInv, SessionsAreOfThisEpoch
<1>1. ASSUME NEW p \in Passwords, NEW setup \in BOOLEAN, Account!Submit(p, setup)
      PROVE  AccountInv'
  <2>0. /\ job.st = "idle"
        /\ job' = [st |-> "queued", pw |-> p, setup |-> setup, gen |-> gen, epoch |-> 0]
        /\ UNCHANGED <<flash, ram, gen, sess, w, revoking, chg, acked, owned, mixed,
                       stale, epoch, writes>>
    BY <1>1 DEF Account!Submit, Account!bounds
  <2>1. job' \in Requests  BY Zenon, <1>1, <1>g, <2>0 DEF Requests, Progress
  <2>2. LoginIsFenced'
    BY <1>1, <1>g, <2>0 DEF AccountInv, LoginIsFenced
  <2> QED  BY <1>e, <1>s, <2>0, <2>1, <2>2
<1>2. CASE Account!SetupAccount
  <2>0. /\ job.st = "queued" /\ job.setup
        /\ UNCHANGED <<flash, ram, gen, sess, revoking, chg, acked, owned, mixed,
                       stale, epoch>>
    BY <1>2 DEF Account!SetupAccount
  <2>1. CASE Account!SetupRequired(ram) /\ job.gen = gen
    <3>1. /\ Account!Begin("setup", job.pw, FALSE, FALSE, TRUE)
          /\ job' = [job EXCEPT !.st = "storing"]
      BY <1>2, <2>1 DEF Account!SetupAccount
    <3>2. /\ w' \in Writers /\ w'.by = "setup" /\ writes' \in 0..MaxWrites
          /\ WriteIsInOrder' /\ OwnedIsNotBootstrap' /\ AckedIsStored'
      BY <1>g, <1>o, <2>0, <3>1, WriteBegins
    <3>3. /\ job' \in Requests /\ job'.st = "storing" /\ job'.setup = job.setup
          /\ job'.gen = job.gen /\ job'.pw = job.pw
      BY Zenon, <1>g, <3>1 DEF Requests, Progress
    <3>4. LoginIsFenced'
      <4>1. "setup" \notin revoking  BY <2>0 DEF AccountInv, LoginIsFenced
      <4>2. job'.setup = TRUE  BY <1>g, <2>0, <3>3
      <4> QED  BY <1>g, <2>0, <3>2, <3>3, <4>1, <4>2 DEF LoginIsFenced
    <3>5. AccountTypes'  BY <1>g, <2>0, <3>2, <3>3, AccountTypesKept
    <3> QED  BY <1>c, <1>e, <2>0, <3>2, <3>4, <3>5 DEF AccountInv
  <2>2. CASE ~(Account!SetupRequired(ram) /\ job.gen = gen)
    <3>1. job' = Account!Idle /\ UNCHANGED <<w, writes>>
      BY <1>2, <2>2 DEF Account!SetupAccount
    <3>2. job' \in Requests  BY <3>1, IdleIsARequest
    <3>3. "setup" \notin revoking /\ w = None
      BY <1>2, <2>0, <2>2 DEF AccountInv, LoginIsFenced, Account!SetupAccount
    <3>4. LoginIsFenced'
      BY <1>g, <2>0, <3>1, <3>3 DEF LoginIsFenced, Account!Idle
    <3> QED  BY <1>e, <1>s, <2>0, <3>1, <3>2, <3>4
  <2> QED  BY <2>1, <2>2
<1>3. CASE Account!CredentialsMatch
  <2>0. /\ job.st = "queued" /\ ~job.setup /\ w = None
        /\ UNCHANGED <<flash, ram, gen, sess, revoking, chg, acked, owned, mixed,
                       stale, epoch>>
    BY <1>3 DEF Account!CredentialsMatch
  <2>1. job.setup = FALSE /\ "setup" \notin revoking
    BY <1>g, <2>0 DEF AccountInv, LoginIsFenced
  <2>2. CASE Account!Begin("login", job.pw, ram.boot, ram.setup, FALSE)
              /\ job' = [job EXCEPT !.st = "storing", !.epoch = epoch]
    <3>2. /\ w' \in Writers /\ w'.by = "login" /\ writes' \in 0..MaxWrites
          /\ WriteIsInOrder' /\ OwnedIsNotBootstrap' /\ AckedIsStored'
      BY <1>g, <1>o, <2>0, <2>2, WriteBegins
    <3>3. /\ job' \in Requests /\ job'.st = "storing" /\ job'.setup = job.setup
          /\ job'.gen = job.gen /\ job'.pw = job.pw /\ job'.epoch = epoch
      BY Zenon, <1>g, <2>2 DEF Requests, Progress
    <3>4. LoginIsFenced'
      BY <1>g, <2>0, <2>1, <3>2, <3>3 DEF LoginIsFenced
    <3>5. AccountTypes'  BY <1>g, <2>0, <3>2, <3>3, AccountTypesKept
    <3> QED  BY <1>c, <1>e, <2>0, <3>2, <3>4, <3>5 DEF AccountInv
  <2>3. CASE /\ UNCHANGED <<w, writes>>
             /\ \/ job' = [job EXCEPT !.st = "failed"]
                \/ job' = [job EXCEPT !.st = "verify", !.epoch = epoch]
    <3>1. /\ job' \in Requests /\ job'.gen = job.gen /\ job'.pw = job.pw
          /\ job'.st \in {"failed", "verify"}
          /\ job'.st = "verify" => job'.epoch = epoch
      BY Zenon, <1>g, <2>3 DEF Requests, Progress
    <3>2. LoginIsFenced'
      BY <1>g, <2>0, <2>1, <2>3, <3>1 DEF LoginIsFenced
    <3> QED  BY <1>e, <1>s, <2>0, <2>3, <3>1, <3>2
  <2> QED  BY <1>3, <2>2, <2>3 DEF Account!CredentialsMatch
<1>4. CASE Account!FinishJob
  <2>0. /\ job.st \in {"verify", "failed"}
        /\ job' = (IF job.st = "verify" /\ job.gen = gen
                   THEN [job EXCEPT !.st = "passed"] ELSE Account!Idle)
        /\ UNCHANGED <<flash, ram, gen, sess, w, revoking, chg, acked, owned, mixed,
                       stale, epoch, writes>>
    BY <1>4 DEF Account!FinishJob, Account!bounds
  <2>1. "setup" \notin revoking /\ (w # None => w.by # "login" /\ w.by # "setup")
    BY <2>0 DEF AccountInv, LoginIsFenced
  <2>2. CASE job.st = "verify" /\ job.gen = gen
    <3>1. /\ job' \in Requests /\ job'.gen = job.gen /\ job'.pw = job.pw
          /\ job'.st = "passed" /\ job'.epoch = job.epoch
      BY Zenon, <1>g, <2>0, <2>2 DEF Requests, Progress
    <3>2. job.epoch = epoch  BY <2>2 DEF AccountInv, LoginIsFenced
    <3>3. LoginIsFenced'
      BY <1>g, <2>0, <2>1, <3>1, <3>2 DEF LoginIsFenced
    <3> QED  BY <1>e, <1>s, <2>0, <3>1, <3>3
  <2>3. CASE ~(job.st = "verify" /\ job.gen = gen)
    <3>1. job' = Account!Idle /\ job' \in Requests  BY <2>0, <2>3, IdleIsARequest
    <3>2. LoginIsFenced'
      BY <1>g, <2>0, <2>1, <3>1 DEF LoginIsFenced, Account!Idle
    <3> QED  BY <1>e, <1>s, <2>0, <3>1, <3>2
  <2> QED  BY <2>2, <2>3
<1>5. CASE Account!SetupFails
  <2>0. /\ job' = Account!Idle /\ w = None /\ "setup" \notin revoking
        /\ UNCHANGED <<flash, ram, gen, sess, w, revoking, chg, acked, owned, mixed,
                       stale, epoch, writes>>
    BY <1>5 DEF Account!SetupFails, Account!bounds
  <2>1. job' \in Requests  BY <2>0, IdleIsARequest
  <2>2. LoginIsFenced'
    BY <1>g, <2>0 DEF LoginIsFenced, Account!Idle
  <2> QED  BY <1>e, <1>s, <2>0, <2>1, <2>2
<1>6. CASE Account!Collect
  <2>0. /\ job.st = "passed" /\ job' = Account!Idle
        /\ sess' = sess \/ (job.gen = gen /\ sess' = sess \cup {job.epoch})
        /\ UNCHANGED <<flash, ram, gen, w, revoking, chg, acked, owned, mixed,
                       stale, epoch, writes>>
    BY <1>6 DEF Account!Collect, Account!bounds
  <2>1. job' \in Requests  BY <2>0, IdleIsARequest
  <2>2. "setup" \notin revoking /\ (w # None => w.by # "login" /\ w.by # "setup")
    BY <2>0 DEF AccountInv, LoginIsFenced
  <2>3. LoginIsFenced'
    BY <1>g, <2>0, <2>2 DEF LoginIsFenced, Account!Idle
  <2>4. job.gen = gen => job.epoch = epoch
    BY <2>0 DEF AccountInv, LoginIsFenced
  <2>5. SessionsAreOfThisEpoch'
    BY <2>0, <2>4 DEF AccountInv, SessionsAreOfThisEpoch
  <2> QED  BY <1>s, <2>0, <2>1, <2>3, <2>5
<1> QED  BY <1>1, <1>2, <1>3, <1>4, <1>5, <1>6

\* A step of the settings page, the console or a factor change.
LEMMA ChangeKeeps ==
  ASSUME Account!CredentialsBounds, AccountInv,
         \/ \E e \in sess : Account!Logout(e)
         \/ \E p \in Passwords : Account!ReadChange(p)
         \/ Account!StoreChange \/ Account!SignInAfterChange \/ Account!ResetBootstrap
         \/ Account!SecurityCommit(gen)
  PROVE  AccountInv'
<1>g. /\ gen \in Nat /\ epoch \in Nat /\ job \in Requests /\ chg \in Requests
      /\ ram.boot \in BOOLEAN /\ ram.setup \in BOOLEAN /\ writes \in 0..MaxWrites
      /\ w # None => w \in Writers
      /\ chg.gen \in Nat /\ chg.gen <= gen /\ job.gen \in Nat /\ job.gen <= gen
      /\ chg.st # "idle" => chg.pw \in Passwords
  BY Zenon DEF AccountInv, AccountTypes, Requests, ChangeIsFenced, LoginIsFenced
<1>o. owned => ram.boot = FALSE
  BY DEF AccountInv, OwnedIsNotBootstrap
<1>l. ASSUME UNCHANGED <<gen, epoch, revoking, job>>,
             w' \in {w, None} \/ (w' \in Writers /\ w'.by \notin {"login", "setup"})
      PROVE  LoginIsFenced'
  BY <1>l DEF AccountInv, LoginIsFenced
<1>s. ASSUME UNCHANGED <<flash, acked, mixed, owned, ram, w, gen, epoch, revoking, job, writes>>,
             chg' \in Requests, ChangeIsFenced', SessionsAreOfThisEpoch'
      PROVE  AccountInv'
  <2>1. AccountTypes'  BY <1>g, <1>s, AccountTypesKept
  <2>2. WriteIsInOrder' /\ OwnedIsNotBootstrap' /\ AckedIsStored'
    BY <1>o, <1>s, StorageKept
  <2> QED  BY <1>l, <1>s, <2>1, <2>2 DEF AccountInv
<1>e. ASSUME UNCHANGED <<sess, stale, revoking, epoch>>
      PROVE  SessionsAreOfThisEpoch'
  BY <1>e DEF AccountInv, SessionsAreOfThisEpoch
<1>1. ASSUME NEW e \in sess, Account!Logout(e)
      PROVE  AccountInv'
  <2>0. /\ sess' = sess \ {e}
        /\ UNCHANGED <<flash, ram, gen, w, revoking, job, chg, acked, owned, mixed,
                       stale, epoch, writes>>
    BY <1>1 DEF Account!Logout, Account!bounds
  <2>1. SessionsAreOfThisEpoch'
    BY <2>0 DEF AccountInv, SessionsAreOfThisEpoch
  <2>2. ChangeIsFenced'  BY <2>0, RequestsStay
  <2> QED  BY <1>g, <1>s, <2>0, <2>1, <2>2
<1>2. ASSUME NEW p \in Passwords, Account!ReadChange(p)
      PROVE  AccountInv'
  <2>0. /\ chg.st = "idle"
        /\ chg' = [st |-> "read", pw |-> p, setup |-> FALSE, gen |-> gen, epoch |-> 0]
        /\ UNCHANGED <<flash, ram, gen, sess, w, revoking, job, acked, owned, mixed,
                       stale, epoch, writes>>
    BY <1>2 DEF Account!ReadChange, Account!bounds
  <2>1. chg' \in Requests  BY Zenon, <1>2, <1>g, <2>0 DEF Requests, Progress
  <2>2. ChangeIsFenced'
    BY <1>2, <1>g, <2>0 DEF AccountInv, ChangeIsFenced
  <2> QED  BY <1>e, <1>s, <2>0, <2>1, <2>2
<1>3. CASE Account!StoreChange
  <2>0. /\ UNCHANGED <<flash, ram, gen, sess, revoking, job, acked, owned, mixed,
                       stale, epoch>>
        /\ chg.st \in {"read", "derive"}
    BY <1>3 DEF Account!StoreChange
  <2>r. "change" \notin revoking /\ (w # None => w.by # "change")
    BY Zenon, <2>0 DEF AccountInv, ChangeIsFenced
  <2>1. CASE chg' = [chg EXCEPT !.st = "derive"] /\ UNCHANGED <<w, writes>>
    <3>1. /\ chg' \in Requests /\ chg'.gen = chg.gen /\ chg'.pw = chg.pw
          /\ chg'.st = "derive"
      BY Zenon, <1>g, <2>1 DEF Requests, Progress
    <3>2. ChangeIsFenced'
      BY <1>g, <2>0, <2>1, <2>r, <3>1 DEF ChangeIsFenced
    <3> QED  BY <1>e, <1>s, <2>0, <2>1, <3>1, <3>2
  <2>2. CASE chg' = Account!Idle /\ UNCHANGED <<w, writes>>
    <3>1. chg' \in Requests  BY <2>2, IdleIsARequest
    <3>2. ChangeIsFenced'
      BY <1>g, <2>0, <2>2, <2>r DEF ChangeIsFenced, Account!Idle
    <3> QED  BY <1>e, <1>s, <2>0, <2>2, <3>1, <3>2
  <2>3. CASE Account!Begin("change", chg.pw, FALSE, FALSE, TRUE)
               /\ chg' = [chg EXCEPT !.st = "storing"]
    <3>1. /\ w' \in Writers /\ w'.by = "change" /\ w'.rotate = TRUE
          /\ writes' \in 0..MaxWrites
          /\ WriteIsInOrder' /\ OwnedIsNotBootstrap' /\ AckedIsStored'
      BY <1>g, <1>o, <2>0, <2>3, WriteBegins
    <3>2. /\ chg' \in Requests /\ chg'.gen = chg.gen /\ chg'.pw = chg.pw
          /\ chg'.st = "storing"
      BY Zenon, <1>g, <2>3 DEF Requests, Progress
    <3>3. ChangeIsFenced'
      BY <1>g, <2>0, <2>r, <3>1, <3>2 DEF ChangeIsFenced
    <3>4. AccountTypes'  BY <1>g, <2>0, <3>1, <3>2, AccountTypesKept
    <3> QED  BY <1>e, <1>l, <2>0, <3>1, <3>3, <3>4 DEF AccountInv
  <2> QED  BY <1>3, <2>1, <2>2, <2>3 DEF Account!StoreChange
<1>4. CASE Account!SignInAfterChange
  <2>0. /\ chg.st = "sign in" /\ chg' = Account!Idle
        /\ sess' = (IF gen = chg.gen + 1 THEN sess \cup {chg.epoch} ELSE sess)
        /\ UNCHANGED <<flash, ram, gen, w, revoking, job, acked, owned, mixed,
                       stale, epoch, writes>>
    BY Zenon, <1>4 DEF Account!SignInAfterChange, Account!bounds
  <2>r. "change" \notin revoking /\ (w # None => w.by # "change")
    BY Zenon, <2>0 DEF AccountInv, ChangeIsFenced
  <2>1. chg' \in Requests  BY Zenon, <2>0, IdleIsARequest
  <2>2. ChangeIsFenced'
    <3>1. chg'.st = "idle" /\ chg'.gen = 0  BY Zenon, <2>0 DEF Account!Idle
    <3>4. gen' \in Nat  BY Zenon, <1>g, <2>0
    <3>2. chg'.gen <= gen'  BY <3>1, <3>4
    <3>3. "change" \notin revoking' /\ (w' # None => w'.by # "change")  BY Zenon, <2>0, <2>r
    <3> QED  BY <3>1, <3>2, <3>3 DEF ChangeIsFenced
  <2>3. gen = chg.gen + 1 => chg.epoch = epoch
    BY Zenon, <2>0 DEF AccountInv, ChangeIsFenced
  <2>4. SessionsAreOfThisEpoch'
    BY Zenon, <2>0, <2>3 DEF AccountInv, SessionsAreOfThisEpoch
  <2> QED  BY Zenon, <1>s, <2>0, <2>1, <2>2, <2>4
<1>5. CASE Account!ResetBootstrap
  <2>0. /\ Account!Begin("reset", Random, TRUE, TRUE, TRUE) /\ owned' = FALSE
        /\ UNCHANGED <<flash, ram, gen, sess, revoking, job, chg, acked, mixed,
                       stale, epoch>>
    BY <1>5 DEF Account!ResetBootstrap
  <2>1. /\ w' \in Writers /\ w'.by = "reset" /\ writes' \in 0..MaxWrites
        /\ WriteIsInOrder' /\ OwnedIsNotBootstrap' /\ AckedIsStored'
    BY <2>0, WriteBegins
  <2>2. ChangeIsFenced'
    BY Zenon, <2>0, <2>1 DEF AccountInv, ChangeIsFenced
  <2>3. AccountTypes'  BY <1>g, <2>0, <2>1, AccountTypesKept
  <2> QED  BY <1>e, <1>l, <2>0, <2>1, <2>2, <2>3 DEF AccountInv
<1>6. CASE Account!SecurityCommit(gen)
  <2>0. /\ w = None /\ gen' = gen + 1 /\ epoch' = epoch + 1 /\ sess' = {}
        /\ UNCHANGED <<flash, ram, w, revoking, job, chg, acked, owned, mixed, writes>>
    BY <1>6 DEF Account!SecurityCommit, Account!bounds
  <2>1. gen' \in Nat /\ epoch' \in Nat  BY <1>g, <2>0
  <2>2. AccountTypes'  BY <1>g, <2>0, <2>1, AccountTypesKept
  <2>3. WriteIsInOrder' /\ OwnedIsNotBootstrap' /\ AckedIsStored'
    BY <1>o, <2>0, StorageKept
  <2>4. LoginIsFenced'
    <3>1. job'.gen <= gen' /\ job'.gen < gen' /\ job'.gen # gen'
      BY <1>g, <2>0
    <3> QED  BY <2>0, <3>1 DEF AccountInv, LoginIsFenced
  <2>5. ChangeIsFenced'
    <3>1. chg'.gen <= gen' /\ chg'.gen < gen' /\ (chg.gen < gen => gen' # chg'.gen + 1)
      BY <1>g, <2>0
    <3>2. chg.st = "sign in" => chg.gen < gen
      BY Zenon DEF AccountInv, ChangeIsFenced
    <3>3. chg'.st = "sign in" => gen' # chg'.gen + 1
      BY Zenon, <2>0, <3>1, <3>2
    <3>4. /\ chg'.st # "idle" => chg'.pw \in Passwords
          /\ "change" \in revoking' => chg'.st = "revoke"
          /\ w' = None
      BY Zenon, <2>0 DEF AccountInv, ChangeIsFenced
    <3> QED  BY Zenon, <3>1, <3>3, <3>4 DEF ChangeIsFenced
  <2>6. SessionsAreOfThisEpoch'
    BY <2>0 DEF SessionsAreOfThisEpoch
  <2> QED  BY <2>2, <2>3, <2>4, <2>5, <2>6 DEF AccountInv
<1> QED  BY <1>1, <1>2, <1>3, <1>4, <1>5, <1>6

\* Every step keeps the invariant of the account.
LEMMA AccountStep ==
  ASSUME Account!CredentialsBounds, AccountInv, Account!Next
  PROVE  AccountInv'
<1>1. CASE Account!WriteKey
  <2>0. UNCHANGED <<ram, gen, sess, revoking, job, chg, stale, epoch, writes>> /\ w # None
    BY <1>1 DEF Account!WriteKey, Account!bounds
  <2>1. /\ w' \in Writers /\ w'.by = w.by /\ w'.rotate = w.rotate
        /\ DOMAIN flash' = {"hash", "salt", "iter", "boot", "setup"}
        /\ flash' = [k \in DOMAIN flash' |-> flash'[k]]
        /\ WriteIsInOrder' /\ OwnedIsNotBootstrap' /\ AckedIsStored'
    BY <1>1, WriteKeyKeeps
  <2>2. AccountTypes'
    BY <2>0, <2>1 DEF AccountInv, AccountTypes
  <2>3. LoginIsFenced' /\ ChangeIsFenced'
    BY Zenon, <2>0, <2>1 DEF AccountInv, LoginIsFenced, ChangeIsFenced
  <2>4. SessionsAreOfThisEpoch'
    BY <2>0 DEF AccountInv, SessionsAreOfThisEpoch
  <2> QED  BY <2>1, <2>2, <2>3, <2>4 DEF AccountInv
<1>2. CASE Account!WriteFails  BY <1>2, WriteFailsKeeps
<1>3. CASE Account!Apply  BY <1>3, ApplyKeeps
<1>4. CASE \E by \in {"boot", "setup", "change", "reset"} : Account!RevokeAll(by)
  BY <1>4, RevokeKeeps
<1>5. CASE Account!LoadCredentials \/ \E kept \in BOOLEAN : Account!Restart(kept)
  BY <1>5, BootKeeps
<1>6. CASE \/ \E p \in Passwords, setup \in BOOLEAN : Account!Submit(p, setup)
           \/ Account!SetupAccount \/ Account!CredentialsMatch \/ Account!FinishJob
           \/ Account!SetupFails \/ Account!Collect
  BY <1>6, LoginKeeps
<1>7. CASE \/ \E e \in sess : Account!Logout(e)
           \/ \E p \in Passwords : Account!ReadChange(p)
           \/ Account!StoreChange \/ Account!SignInAfterChange \/ Account!ResetBootstrap
           \/ Account!SecurityCommit(gen)
  BY <1>7, ChangeKeeps
<1> QED  BY <1>1, <1>2, <1>3, <1>4, <1>5, <1>6, <1>7 DEF Account!Next

\* What the invariant says of passwords, set-up and sessions.
LEMMA AccountMeaning ==
  ASSUME AccountInv
  PROVE  /\ Account!NoSessionOfAnOldPassword /\ Account!AcknowledgedPasswordWorks
         /\ Account!OwnedAccountIsNotOffered
<1>1. Account!NoSessionOfAnOldPassword
  BY DEF AccountInv, SessionsAreOfThisEpoch, Account!NoSessionOfAnOldPassword
<1>2. owned => /\ ~Account!SetupRequired(ram) /\ Account!Load(flash).boot = FALSE
               /\ Account!Load(flash).setup = FALSE
  BY LoadMeans DEF AccountInv, OwnedIsNotBootstrap, Account!SetupRequired
<1>3. Account!AcknowledgedPasswordWorks
  BY <1>2 DEF AccountInv, AckedIsStored, Account!AcknowledgedPasswordWorks
<1>4. Account!OwnedAccountIsNotOffered
  BY <1>2 DEF Account!OwnedAccountIsNotOffered, Account!SetupRequired
<1> QED  BY <1>1, <1>3, <1>4

-----------------------------------------------------------------------------
(* The network configuration. *)

\* The configuration that the record f makes active.
Held(f) == f[Network!SlotKey(f.act)]

\* A record whose active slot can be read.
NetRecord(f) ==
  /\ DOMAIN f = {"s1", "s2", "act", "stg", "pnd"}
  /\ f.act \in {1, 2} /\ f.stg \in {0, 1, 2} /\ f.pnd \in {0, 1, 2}
  /\ Held(f) # Broken

NetTypes ==
  /\ NetRecord(flash)
  /\ cache = [active |-> cache.active, staged |-> cache.staged, pending |-> cache.pending]
  /\ cache.pending \in BOOLEAN /\ applied \in BOOLEAN /\ conf \in BOOLEAN
  /\ persist \in BOOLEAN /\ refused \in BOOLEAN
  /\ acd \in {"idle", "waiting", "conflict", "timeout", "ok"}

\* The active configuration is the snapshot's, was confirmed, and its address
\* is free unless it could not be probed; so is that of the running one.
HeldIsConfirmed ==
  /\ cache.active = Held(flash)
  /\ Held(flash) \in {Network!Factory} \cup asked
  /\ Held(flash).id \in InUse => Held(flash).id \in blind
  /\ run.id \in InUse => run.id \in blind

\* What the snapshot shows as staged is what flash holds, or flash holds none.
StagedIsStored ==
  cache.pending = FALSE /\ cache.staged # Broken =>
    Network!Status(flash).staged \in {Broken, cache.staged}

\* During a trial or a probe the snapshot is the record, and what runs or is
\* probed is what it shows as staged.
TrialIsStaged ==
  /\ applied = TRUE \/ acd # "idle" =>
       cache.pending = TRUE /\ cache.staged = Network!Status(flash).staged
  /\ applied = TRUE => run = cache.staged
  /\ acd # "idle" => probed = cache.staged.id
  /\ acd = "ok" => probed \notin InUse

\* A confirmation waited for is of a change that is pending.
WaitsForPending == conf = TRUE => cache.pending = TRUE

\* Outside a trial the active configuration runs, unless it was refused.
RunsActive ==
  (cache.pending = FALSE \/ acd # "idle" \/ (persist = TRUE /\ applied = FALSE))
    /\ refused = FALSE => run = cache.active

NetInv ==
  /\ NetTypes /\ HeldIsConfirmed /\ StagedIsStored /\ TrialIsStaged
  /\ WaitsForPending /\ RunsActive

\* After a confirmation, a reset or a retry that was given up the record may also
\* be one that says of no slot that it is active.
SomeRecord(f) == NetRecord(f) \/ (DOMAIN f = {"s1", "s2", "act", "stg", "pnd"} /\ f.act = 0)

\* What a boot needs, and what survives those failures, of a record f, a snapshot
\* s, whether a trial is applied, what runs and what was confirmed: the active slot
\* was confirmed, a change that may be confirmed is the one that runs, and what may
\* be applied is what the snapshot shows.
BootOK(f, s, a, r, q) ==
  /\ SomeRecord(f)
  /\ s = [active |-> s.active, staged |-> s.staged, pending |-> s.pending]
  /\ s.pending \in BOOLEAN /\ a \in BOOLEAN
  /\ NetRecord(f) => Held(f) \in {Network!Factory} \cup q
  /\ NetRecord(f) /\ s.pending = TRUE /\ Network!Status(f).pending = TRUE =>
       s.staged = Network!Status(f).staged
  /\ s.pending = TRUE /\ a = TRUE => r = s.staged
  /\ NetRecord(f) /\ s.pending = FALSE /\ s.staged # Broken =>
       Network!Status(f).staged \in {Broken, s.staged}

BootInv == BootOK(flash, cache, applied, run, asked)

-----------------------------------------------------------------------------
\* The writes before the k-th leave a key alone that none of them names.
LEMMA AfterKeeps ==
  ASSUME NEW f, NEW ws, NEW k \in Nat, NEW x \in DOMAIN f, \A i \in 1..k : ws[i].key # x
  PROVE  Network!After(f, ws, k)[x] = f[x]
<1>1. {i \in 1..k : ws[i].key = x} = {}  OBVIOUS
<1> QED  BY <1>1 DEF Network!After

\* The last write that names a key decides.
LEMMA AfterSets ==
  ASSUME NEW f, NEW ws, NEW k \in Nat, NEW x \in DOMAIN f, NEW m \in 1..k,
         ws[m].key = x, \A i \in 1..k : i > m => ws[i].key # x
  PROVE  Network!After(f, ws, k)[x] = ws[m].val
<1> DEFINE I == {i \in 1..k : ws[i].key = x}
<1>1. m \in I /\ \A i \in I : i <= m /\ i \in Nat
  OBVIOUS
<1>2. Network!Max(I) = m
  <2>1. Network!Max(I) \in I /\ \A i \in I : Network!Max(I) >= i
    BY <1>1 DEF Network!Max
  <2> QED  BY <1>1, <2>1
<1>3. I # {}  BY <1>1
<1>4. Network!After(f, ws, k)[x] = (IF I = {} THEN f[x] ELSE ws[Network!Max(I)].val)
  BY DEF Network!After
<1> HIDE DEF I
<1> QED  BY <1>2, <1>3, <1>4

\* Which of the five keys there are.
Names == {"s1", "s2", "act", "stg", "pnd"}

\* Writes add no key and remove none.
LEMMA AfterNames ==
  ASSUME NEW f, NEW ws, NEW k
  PROVE  DOMAIN Network!After(f, ws, k) = DOMAIN f
BY DEF Network!After

\* The key of a slot.
LEMMA SlotKeys ==
  ASSUME NEW n
  PROVE  /\ Network!SlotKey(n) \in {"s1", "s2"}
         /\ n = 1 => Network!SlotKey(n) = "s1"
         /\ n = 2 => Network!SlotKey(n) = "s2"
BY DEF Network!SlotKey

\* What load_status makes of a record.
LEMMA StatusMeans ==
  ASSUME NEW f
  PROVE  /\ Network!Status(f) = [active |-> Network!Status(f).active,
                                 staged |-> Network!Status(f).staged,
                                 pending |-> Network!Status(f).pending]
         /\ Network!Status(f).active = Held(f)
         /\ Network!Status(f).pending \in BOOLEAN
         /\ Network!Status(f).staged # Broken =>
              /\ f.stg # 0 /\ f.stg # f.act
              /\ Network!Status(f).staged = f[Network!SlotKey(f.stg)]
         /\ f.stg = 0 \/ f.stg = f.act =>
              Network!Status(f).staged = Broken /\ Network!Status(f).pending = FALSE
         /\ f.stg # f.pnd => Network!Status(f).pending = FALSE
         /\ Network!Status(f).pending = TRUE =>
              Network!Status(f).staged # Broken /\ f.pnd = f.stg
         /\ Network!Status(f).staged # Broken /\ f.pnd = f.stg =>
              Network!Status(f).pending = TRUE
<1> DEFINE have == Network!Readable(f, f.stg) /\ f.stg # f.act
<1>1. Network!Status(f) = [active |-> Held(f),
         staged |-> IF have THEN f[Network!SlotKey(f.stg)] ELSE Broken,
         pending |-> have /\ f.pnd = f.stg]
  BY DEF Network!Status, Held
<1>2. have => f.stg # 0 /\ f.stg # f.act /\ f[Network!SlotKey(f.stg)] # Broken
  BY DEF Network!Readable
<1>3. have \in BOOLEAN  OBVIOUS
<1> HIDE DEF have
<1>4. /\ Network!Status(f).active = Held(f)
      /\ Network!Status(f).staged = (IF have THEN f[Network!SlotKey(f.stg)] ELSE Broken)
      /\ Network!Status(f).pending = (have /\ f.pnd = f.stg)
  BY <1>1
<1>5. Network!Status(f).pending \in BOOLEAN
  BY <1>3, <1>4
<1>6. Network!Status(f) = [active |-> Network!Status(f).active,
                           staged |-> Network!Status(f).staged,
                           pending |-> Network!Status(f).pending]
  BY <1>1
<1>7. CASE have
  BY <1>2, <1>4, <1>5, <1>6, <1>7
<1>8. CASE ~have
  BY <1>2, <1>4, <1>5, <1>6, <1>8
<1> QED  BY <1>7, <1>8

\* A record of the same slots and numbers means the same.
LEMMA SameRecord ==
  ASSUME NEW f, NEW g, g.s1 = f.s1, g.s2 = f.s2, g.act = f.act
  PROVE  /\ Held(g) = Held(f)
         /\ g.stg = f.stg => Network!Status(g).staged = Network!Status(f).staged
<1>1. \A n : g[Network!SlotKey(n)] = f[Network!SlotKey(n)]
  BY SlotKeys
<1>2. Held(g) = Held(f)  BY <1>1 DEF Held
<1>3. g.stg = f.stg => Network!Status(g).staged = Network!Status(f).staged
  BY <1>1 DEF Network!Status, Network!Readable
<1> QED  BY <1>2, <1>3

\* The keys that are left when the marks of a change are cleared, or half so.
LEMMA ClearedKeys ==
  ASSUME NEW f, DOMAIN f = {"s1", "s2", "act", "stg", "pnd"}, NEW k \in 0..2, NEW g,
         g = Network!After(f, Network!ClearWrites, k)
  PROVE  /\ DOMAIN g = {"s1", "s2", "act", "stg", "pnd"}
         /\ g.s1 = f.s1 /\ g.s2 = f.s2 /\ g.act = f.act
         /\ k = 0 => g.stg = f.stg /\ g.pnd = f.pnd
         /\ k # 0 => g.stg = 0
         /\ g.pnd \in {f.pnd, 0}
<1> DEFINE ws == Network!ClearWrites
<1>1. /\ ws[1].key = "stg" /\ ws[1].val = 0
      /\ ws[2].key = "pnd" /\ ws[2].val = 0
  BY DEF Network!ClearWrites, Network!W
<1>2. DOMAIN f = Names  BY DEF Names
<1>3. DOMAIN g = Names  BY <1>2, AfterNames
<1>0. k \in Nat /\ \A i \in 1..k : i = 1 \/ i = 2  OBVIOUS
<1> HIDE DEF ws
<1>4. \A x \in {"s1", "s2", "act"} : g[x] = f[x]
  <2> SUFFICES ASSUME NEW x \in {"s1", "s2", "act"} PROVE g[x] = f[x]  OBVIOUS
  <2>1. \A i \in 1..k : ws[i].key # x  BY <1>0, <1>1
  <2> QED  BY <1>0, <1>2, <2>1, AfterKeeps DEF Names, ws
<1>5. k = 0 => g["stg"] = f["stg"] /\ g["pnd"] = f["pnd"]
  BY <1>0, <1>2, AfterKeeps DEF Names
<1>6. k # 0 => g.stg = 0
  <2> SUFFICES ASSUME k # 0 PROVE g["stg"] = 0  OBVIOUS
  <2>1. 1 \in 1..k /\ \A i \in 1..k : i > 1 => ws[i].key # "stg"  BY <1>0, <1>1
  <2>2. "stg" \in DOMAIN f  BY <1>2 DEF Names
  <2> QED  BY <1>0, <1>1, <2>1, <2>2, AfterSets DEF ws
<1>7. g.pnd \in {f.pnd, 0}
  <2>1. "pnd" \in DOMAIN f  BY <1>2 DEF Names
  <2>2. CASE k = 2
    <3>1. 2 \in 1..k /\ \A i \in 1..k : i > 2 => ws[i].key # "pnd"  BY <1>0, <2>2
    <3>2. g["pnd"] = ws[2].val  BY <1>0, <1>1, <2>1, <3>1, AfterSets DEF ws
    <3> QED  BY <1>1, <3>2
  <2>3. CASE k # 2
    <3>1. \A i \in 1..k : i = 1  BY <2>3
    <3>2. g["pnd"] = f["pnd"]  BY <1>0, <1>1, <2>1, <3>1, AfterKeeps DEF ws
    <3> QED  BY <3>2
  <2> QED  BY <2>2, <2>3
<1> QED  BY <1>3, <1>4, <1>5, <1>6, <1>7 DEF Names

\* A record of the same keys means the same.
LEMMA SameKeys ==
  ASSUME NEW f, NEW g, DOMAIN f = {"s1", "s2", "act", "stg", "pnd"},
         DOMAIN g = {"s1", "s2", "act", "stg", "pnd"}, g.s1 = f.s1, g.s2 = f.s2,
         g.act = f.act, g.stg = f.stg, g.pnd = f.pnd
  PROVE  /\ NetRecord(g) <=> NetRecord(f)
         /\ Held(g) = Held(f) /\ Network!Status(g) = Network!Status(f)
<1>1. \A n : g[Network!SlotKey(n)] = f[Network!SlotKey(n)]
  BY SlotKeys
<1>2. Held(g) = Held(f)  BY <1>1 DEF Held
<1>3. Network!Status(g) = Network!Status(f)
  BY <1>1 DEF Network!Status, Network!Readable
<1> QED  BY <1>2, <1>3 DEF NetRecord

\* A list given up before its first write.
LEMMA NothingWritten ==
  ASSUME NEW f, NetRecord(f), NEW ws, NEW g, g = Network!After(f, ws, 0)
  PROVE  NetRecord(g) /\ Held(g) = Held(f) /\ Network!Status(g) = Network!Status(f)
<1>1. \A i \in 1..0 : FALSE  OBVIOUS
<1>2. \A x \in DOMAIN f : g[x] = f[x]  BY <1>1, AfterKeeps
<1>3. DOMAIN f = Names /\ DOMAIN g = Names  BY AfterNames DEF NetRecord, Names
<1>4. g.s1 = f.s1 /\ g.s2 = f.s2 /\ g.act = f.act /\ g.stg = f.stg /\ g.pnd = f.pnd
  BY <1>2, <1>3 DEF Names
<1> QED  BY <1>3, <1>4, SameKeys DEF Names

\* A record that is left when the marks of a change are cleared, or half so.
LEMMA Cleared ==
  ASSUME NEW f, NetRecord(f), NEW k \in 0..2, NEW g,
         g = Network!After(f, Network!ClearWrites, k)
  PROVE  /\ NetRecord(g) /\ Held(g) = Held(f)
         /\ Network!Status(g).staged \in {Broken, Network!Status(f).staged}
         /\ k = 0 => Network!Status(g) = Network!Status(f)
         /\ k # 0 => Network!Status(g).pending = FALSE /\ Network!Status(g).staged = Broken
<1>0. DOMAIN f = {"s1", "s2", "act", "stg", "pnd"}  BY DEF NetRecord
<1>1. /\ DOMAIN g = {"s1", "s2", "act", "stg", "pnd"}
      /\ g.s1 = f.s1 /\ g.s2 = f.s2 /\ g.act = f.act
      /\ k = 0 => g.stg = f.stg /\ g.pnd = f.pnd
      /\ k # 0 => g.stg = 0
      /\ g.pnd \in {f.pnd, 0}
  BY <1>0, ClearedKeys
<1>2. CASE k = 0
  BY <1>0, <1>1, <1>2, SameKeys
<1>3. CASE k # 0
  <2>1. Held(g) = Held(f)  BY <1>1, SameRecord
  <2>2. NetRecord(g)  BY <1>1, <1>3, <2>1 DEF NetRecord
  <2>3. Network!Status(g).staged = Broken /\ Network!Status(g).pending = FALSE
    BY <1>1, <1>3, StatusMeans
  <2> QED  BY <1>3, <2>1, <2>2, <2>3
<1> QED  BY <1>2, <1>3

\* What is left when the staged slot is marked as pending.
LEMMA Marked ==
  ASSUME NEW f, NetRecord(f), NEW g,
         g = Network!After(f, Network!PendingWrites(f.stg),
                           Network!Len(Network!PendingWrites(f.stg)))
  PROVE  /\ NetRecord(g) /\ Held(g) = Held(f)
         /\ Network!Status(g).staged = Network!Status(f).staged
         /\ Network!Status(f).staged # Broken => Network!Status(g).pending = TRUE
<1> DEFINE ws == Network!PendingWrites(f.stg)
<1>1. ws[1].key = "pnd" /\ ws[1].val = f.stg /\ Network!Len(ws) = 1
  BY DEF Network!PendingWrites, Network!W
<1>2. DOMAIN f = Names  BY DEF NetRecord, Names
<1>3. DOMAIN g = Names  BY <1>2, AfterNames
<1> HIDE DEF ws
<1>4. g = Network!After(f, ws, 1)  BY <1>1 DEF ws
<1>5. \A x \in {"s1", "s2", "act", "stg"} : g[x] = f[x]
  <2> SUFFICES ASSUME NEW x \in {"s1", "s2", "act", "stg"} PROVE g[x] = f[x]  OBVIOUS
  <2>1. \A i \in 1..1 : ws[i].key # x  BY <1>1
  <2> QED  BY <1>2, <1>4, <2>1, AfterKeeps DEF Names
<1>6. g.pnd = f.stg
  <2>1. "pnd" \in DOMAIN f /\ 1 \in 1..1 /\ \A i \in 1..1 : i > 1 => ws[i].key # "pnd"
    BY <1>2 DEF Names
  <2>2. g["pnd"] = ws[1].val  BY <1>1, <1>4, <2>1, AfterSets
  <2> QED  BY <1>1, <2>2
<1>7. g.s1 = f.s1 /\ g.s2 = f.s2 /\ g.act = f.act /\ g.stg = f.stg  BY <1>5
<1>8. Held(g) = Held(f) /\ Network!Status(g).staged = Network!Status(f).staged
  BY <1>7, SameRecord
<1>9. NetRecord(g)
  BY <1>3, <1>6, <1>7, <1>8 DEF NetRecord, Names
<1> QED  BY <1>6, <1>7, <1>8, <1>9, StatusMeans

\* What is left, wherever it ends, when the pending slot is made active.
LEMMA Confirmed ==
  ASSUME NEW f, NetRecord(f), Network!Status(f).pending = TRUE, NEW k \in 0..3, NEW g,
         g = Network!After(f, Network!ConfirmWrites(f.pnd), k)
  PROVE  /\ NetRecord(g) /\ Held(g) \in {Held(f), Network!Status(f).staged}
         /\ k = 3 => Held(g) = Network!Status(f).staged
         /\ k = 0 => Network!Status(g) = Network!Status(f) /\ Held(g) = Held(f)
         /\ k # 0 => Network!Status(g).pending = FALSE
<1> DEFINE ws == Network!ConfirmWrites(f.pnd)
<1>1. /\ ws[1].key = "act" /\ ws[1].val = f.pnd
      /\ ws[2].key = "stg" /\ ws[2].val = 0
      /\ ws[3].key = "pnd" /\ ws[3].val = 0
  BY DEF Network!ConfirmWrites, Network!W
<1>2. DOMAIN f = Names  BY DEF NetRecord, Names
<1>3. DOMAIN g = Names  BY <1>2, AfterNames
<1>0. k \in Nat /\ \A i \in 1..k : i = 1 \/ i = 2 \/ i = 3  OBVIOUS
<1> HIDE DEF ws
<1>4. \A x \in {"s1", "s2"} : g[x] = f[x]
  <2> SUFFICES ASSUME NEW x \in {"s1", "s2"} PROVE g[x] = f[x]  OBVIOUS
  <2>1. \A i \in 1..k : ws[i].key # x  BY <1>0, <1>1
  <2> QED  BY <1>0, <1>2, <2>1, AfterKeeps DEF Names, ws
<1>5. IF k = 0 THEN g.act = f.act ELSE g.act = f.pnd
  <2>1. "act" \in DOMAIN f  BY <1>2 DEF Names
  <2>2. CASE k = 0
    <3>1. \A i \in 1..k : ws[i].key # "act"  BY <2>2
    <3>2. g["act"] = f["act"]  BY <1>0, <2>1, <3>1, AfterKeeps DEF ws
    <3> QED  BY <2>2, <3>2
  <2>3. CASE k # 0
    <3>1. 1 \in 1..k /\ \A i \in 1..k : i > 1 => ws[i].key # "act"  BY <1>0, <1>1, <2>3
    <3>2. g["act"] = ws[1].val  BY <1>0, <1>1, <2>1, <3>1, AfterSets DEF ws
    <3> QED  BY <1>1, <2>3, <3>2
  <2> QED  BY <2>2, <2>3
<1>6. g.stg \in {f.stg, 0}
  <2>1. "stg" \in DOMAIN f  BY <1>2 DEF Names
  <2>2. CASE k < 2
    <3>1. \A i \in 1..k : ws[i].key # "stg"  BY <1>1, <2>2
    <3>2. g["stg"] = f["stg"]  BY <1>0, <2>1, <3>1, AfterKeeps DEF ws
    <3> QED  BY <3>2
  <2>3. CASE ~(k < 2)
    <3>1. 2 \in 1..k /\ \A i \in 1..k : i > 2 => ws[i].key # "stg"  BY <1>0, <1>1, <2>3
    <3>2. g["stg"] = ws[2].val  BY <1>0, <1>1, <2>1, <3>1, AfterSets DEF ws
    <3> QED  BY <1>1, <3>2
  <2> QED  BY <2>2, <2>3
<1>7. g.pnd \in {f.pnd, 0}
  <2>1. "pnd" \in DOMAIN f  BY <1>2 DEF Names
  <2>2. CASE k < 3
    <3>1. \A i \in 1..k : ws[i].key # "pnd"  BY <1>1, <2>2
    <3>2. g["pnd"] = f["pnd"]  BY <1>0, <2>1, <3>1, AfterKeeps DEF ws
    <3> QED  BY <3>2
  <2>3. CASE ~(k < 3)
    <3>1. 3 \in 1..k /\ \A i \in 1..k : i > 3 => ws[i].key # "pnd"  BY <1>0, <1>1, <2>3
    <3>2. g["pnd"] = ws[3].val  BY <1>0, <1>1, <2>1, <3>1, AfterSets DEF ws
    <3> QED  BY <1>1, <3>2
  <2> QED  BY <2>2, <2>3
<1>8. \A n : g[Network!SlotKey(n)] = f[Network!SlotKey(n)]
  BY <1>4, SlotKeys
<1>9. /\ Network!Status(f).staged # Broken /\ f.pnd = f.stg /\ f.stg # 0
      /\ Network!Status(f).staged = f[Network!SlotKey(f.stg)]
  BY StatusMeans
<1>10. CASE k = 0
  <2>1. \A i \in 1..k : FALSE  BY <1>10
  <2>2. \A x \in Names : g[x] = f[x]  BY <1>0, <1>2, <2>1, AfterKeeps DEF ws
  <2>3. g.s1 = f.s1 /\ g.s2 = f.s2 /\ g.act = f.act /\ g.stg = f.stg /\ g.pnd = f.pnd
    BY <2>2 DEF Names
  <2> QED  BY <1>2, <1>3, <1>10, <2>3, SameKeys DEF Names
<1>11. CASE k # 0
  <2>1. g.act = f.stg  BY <1>5, <1>9, <1>11
  <2>2. Held(g) = Network!Status(f).staged  BY <1>8, <1>9, <2>1 DEF Held
  <2>3. NetRecord(g)
    BY <1>3, <1>6, <1>7, <1>9, <2>1, <2>2 DEF NetRecord, Names
  <2>4. g.stg = 0 \/ g.stg = g.act  BY <1>6, <2>1
  <2>5. Network!Status(g).pending = FALSE  BY <2>4, StatusMeans
  <2> QED  BY <1>11, <2>2, <2>3, <2>5
<1> QED  BY <1>10, <1>11

\* What is left, wherever it ends, when a configuration is staged: the active
\* slot is not touched.
LEMMA StagedAway ==
  ASSUME NEW f, NetRecord(f), NEW n, n = Network!Other(f.act), NEW c, NEW t,
         NEW k \in 0..4, NEW g, g = Network!After(f, Network!StageWrites(n, c, t), k)
  PROVE  /\ NetRecord(g) /\ Held(g) = Held(f)
         /\ k = 4 => Network!Status(g).pending = FALSE
<1> DEFINE ws == Network!StageWrites(n, c, t)
<1>1. /\ ws[1].key = Network!SlotKey(n) /\ ws[2].key = Network!SlotKey(n)
      /\ ws[3].key = "stg" /\ ws[3].val = n
      /\ ws[4].key = "pnd" /\ ws[4].val = 0
  BY DEF Network!StageWrites, Network!W
<1>n. n \in {1, 2} /\ n # f.act
  BY DEF Network!Other, NetRecord
<1>s. /\ Network!SlotKey(n) # Network!SlotKey(f.act)
      /\ Network!SlotKey(f.act) \in {"s1", "s2"} /\ Network!SlotKey(n) \in {"s1", "s2"}
  BY <1>n, SlotKeys DEF NetRecord
<1>2. DOMAIN f = Names  BY DEF NetRecord, Names
<1>3. DOMAIN g = Names  BY <1>2, AfterNames
<1>0. k \in Nat /\ \A i \in 1..k : i = 1 \/ i = 2 \/ i = 3 \/ i = 4  OBVIOUS
<1> HIDE DEF ws
<1>4. g.act = f.act
  <2>1. \A i \in 1..k : ws[i].key # "act"  BY <1>0, <1>1, <1>s
  <2>2. "act" \in DOMAIN f  BY <1>2 DEF Names
  <2>3. g["act"] = f["act"]  BY <1>0, <2>1, <2>2, AfterKeeps DEF ws
  <2> QED  BY <2>3
<1>5. Held(g) = Held(f)
  <2> DEFINE x == Network!SlotKey(f.act)
  <2>1. \A i \in 1..k : ws[i].key # x  BY <1>0, <1>1, <1>s
  <2>2. x \in DOMAIN f  BY <1>2, <1>s DEF Names
  <2> HIDE DEF x
  <2>3. g[x] = f[x]  BY <1>0, <2>1, <2>2, AfterKeeps DEF ws
  <2> QED  BY <1>4, <2>3 DEF Held, x
<1>6. g.stg \in {f.stg, n} /\ (k = 4 => g.stg = n)
  <2>1. "stg" \in DOMAIN f  BY <1>2 DEF Names
  <2>2. CASE k < 3
    <3>1. \A i \in 1..k : ws[i].key # "stg"  BY <1>1, <1>s, <2>2
    <3>2. g["stg"] = f["stg"]  BY <1>0, <2>1, <3>1, AfterKeeps DEF ws
    <3> QED  BY <2>2, <3>2
  <2>3. CASE ~(k < 3)
    <3>1. 3 \in 1..k /\ \A i \in 1..k : i > 3 => ws[i].key # "stg"  BY <1>0, <1>1, <2>3
    <3>2. g["stg"] = ws[3].val  BY <1>0, <1>1, <2>1, <3>1, AfterSets DEF ws
    <3> QED  BY <1>1, <3>2
  <2> QED  BY <2>2, <2>3
<1>7. g.pnd \in {f.pnd, 0} /\ (k = 4 => g.pnd = 0)
  <2>1. "pnd" \in DOMAIN f  BY <1>2 DEF Names
  <2>2. CASE k < 4
    <3>1. \A i \in 1..k : ws[i].key # "pnd"  BY <1>1, <1>s, <2>2
    <3>2. g["pnd"] = f["pnd"]  BY <1>0, <2>1, <3>1, AfterKeeps DEF ws
    <3> QED  BY <2>2, <3>2
  <2>3. CASE ~(k < 4)
    <3>1. 4 \in 1..k /\ \A i \in 1..k : i > 4 => ws[i].key # "pnd"  BY <1>0, <1>1, <2>3
    <3>2. g["pnd"] = ws[4].val  BY <1>0, <1>1, <2>1, <3>1, AfterSets DEF ws
    <3> QED  BY <1>1, <3>2
  <2> QED  BY <2>2, <2>3
<1>8. NetRecord(g)
  BY <1>3, <1>4, <1>5, <1>6, <1>7, <1>n DEF NetRecord, Names
<1>9. k = 4 => Network!Status(g).pending = FALSE
  <2>1. k = 4 => g.stg # g.pnd  BY <1>6, <1>7, <1>n
  <2> QED  BY <2>1, StatusMeans
<1> QED  BY <1>5, <1>8, <1>9

\* How a list of writes may end.
LEMMA EndsMean ==
  ASSUME NEW ws, NEW n \in Nat, Network!Len(ws) = n, NEW e \in Network!Ends(ws)
  PROVE  /\ e.k \in 0..n /\ e.how \in {"ok", "error", "restart"}
         /\ e.how = "ok" => e.k = n
<1>1. \/ e = [how |-> "ok", k |-> n]
      \/ \E h \in {"error", "restart"}, k \in 0..n : e = [how |-> h, k |-> k]
  BY DEF Network!Ends, Network!Ok, Network!Err, Network!Cut
<1>2. CASE e = [how |-> "ok", k |-> n]  BY <1>2
<1>3. CASE \E h \in {"error", "restart"}, k \in 0..n : e = [how |-> h, k |-> k]  BY <1>3
<1> QED  BY <1>1, <1>2, <1>3

\* A record a restart may find, and what it may make active.
Bootable(f, confirmed) ==
  \/ ~Network!Loads(f)
  \/ /\ NetRecord(f) /\ Held(f) \in {Network!Factory} \cup confirmed
     /\ Held(f).id \in InUse => Held(f).id \in blind

\* The factory record can be read and makes the factory configuration active.
LEMMA FactoryIsARecord ==
  ASSUME Network!NetConfigBounds
  PROVE  /\ NetRecord(Network!FactoryRecord)
         /\ Held(Network!FactoryRecord) = Network!Factory
         /\ Network!FactoryRecord.stg = 0
         /\ Network!Factory.id \notin InUse
<1>1. Network!SlotKey(1) = "s1"  BY DEF Network!SlotKey
<1>2. Held(Network!FactoryRecord) = Network!Factory
  BY <1>1 DEF Held, Network!FactoryRecord
<1>3. NetRecord(Network!FactoryRecord)
  BY <1>2 DEF NetRecord, Network!FactoryRecord, Network!NetConfigBounds
<1> QED  BY <1>2, <1>3 DEF Network!FactoryRecord, Network!Factory, Network!NetConfigBounds

\* A record whose active slot can be read is loaded.
LEMMA RecordLoads ==
  ASSUME NEW f, NetRecord(f)
  PROVE  Network!Loads(f)
BY DEF NetRecord, Network!Loads, Network!Readable, Held

\* si_network_settings_initialize leaves a record without a pending change.
LEMMA RecoveredIsSound ==
  ASSUME Network!NetConfigBounds, NEW f, NEW confirmed, Bootable(f, confirmed),
         NEW g, g = Network!Recovered(f)
  PROVE  /\ NetRecord(g) /\ Network!Status(g).pending = FALSE
         /\ Held(g) \in {Network!Factory} \cup confirmed
         /\ Held(g).id \in InUse => Held(g).id \in blind
<1>1. CASE ~Network!Loads(f)
  <2>1. g = Network!FactoryRecord  BY <1>1 DEF Network!Recovered
  <2> QED  BY <2>1, FactoryIsARecord, StatusMeans
<1>2. CASE Network!Loads(f)
  <2>0. /\ NetRecord(f) /\ Held(f) \in {Network!Factory} \cup confirmed
        /\ Held(f).id \in InUse => Held(f).id \in blind
    BY <1>2 DEF Bootable
  <2>1. CASE Network!Status(f).pending
    <3>1. g = [f EXCEPT !.stg = 0, !.pnd = 0]
      BY <1>2, <2>1 DEF Network!Recovered
    <3>2. DOMAIN f = Names  BY <2>0 DEF NetRecord, Names
    <3>3. /\ DOMAIN g = Names /\ g.stg = 0 /\ g.pnd = 0 /\ g.act = f.act
          /\ g.s1 = f.s1 /\ g.s2 = f.s2
      BY <3>1, <3>2 DEF Names
    <3>4. Held(g) = Held(f)  BY <3>3, SameRecord
    <3>5. NetRecord(g)  BY <2>0, <3>3, <3>4 DEF NetRecord, Names
    <3>6. Network!Status(g).pending = FALSE  BY <3>3, StatusMeans
    <3> QED  BY <2>0, <3>4, <3>5, <3>6
  <2>2. CASE ~Network!Status(f).pending
    <3>1. g = f  BY <1>2, <2>2 DEF Network!Recovered
    <3>2. Network!Status(f).pending = FALSE  BY <2>2, StatusMeans
    <3> QED  BY <2>0, <3>1, <3>2
  <2> QED  BY <2>1, <2>2
<1> QED  BY <1>1, <1>2

\* si_net_init establishes the invariant from any record that may be found.
LEMMA BootIsSafe ==
  ASSUME Network!NetConfigBounds, NEW f, Bootable(f, asked'),
         flash' = Network!Recovered(f), cache' = Network!Status(Network!Recovered(f)),
         \/ run' = Network!Status(Network!Recovered(f)).active /\ refused' = FALSE
         \/ run' = Network!Factory /\ refused' = TRUE,
         applied' = FALSE, conf' = FALSE, persist' = FALSE, acd' = "idle", blind' = blind
  PROVE  NetInv'
<1>1. /\ NetRecord(flash') /\ Network!Status(flash').pending = FALSE
      /\ Held(flash') \in {Network!Factory} \cup asked'
      /\ Held(flash').id \in InUse => Held(flash').id \in blind
  BY RecoveredIsSound
<1>2. /\ cache' = Network!Status(flash') /\ cache'.active = Held(flash')
      /\ cache' = [active |-> cache'.active, staged |-> cache'.staged, pending |-> cache'.pending]
  BY StatusMeans
<1>3. run' \in {Held(flash'), Network!Factory} /\ (refused' = FALSE => run' = cache'.active)
  BY <1>2
<1>4. NetTypes'
  <2>1. cache'.pending = FALSE  BY <1>1, <1>2
  <2>2. refused' \in BOOLEAN  OBVIOUS
  <2> QED  BY <1>1, <1>2, <2>1, <2>2 DEF NetTypes, NetRecord, Held
<1>5. HeldIsConfirmed'
  <2>1. run'.id \in InUse => run'.id \in blind  BY <1>1, <1>3, FactoryIsARecord
  <2> QED  BY <1>1, <1>2, <2>1 DEF HeldIsConfirmed, Held
<1>6. StagedIsStored' /\ TrialIsStaged' /\ WaitsForPending' /\ RunsActive'
  BY <1>2, <1>3 DEF StagedIsStored, TrialIsStaged, WaitsForPending, RunsActive
<1> QED  BY <1>4, <1>5, <1>6 DEF NetInv

\* The same for an action that ends in a restart.
LEMMA BootActionIsSafe ==
  ASSUME Network!NetConfigBounds, NEW f, Bootable(f, asked), Network!Boot(f)
  PROVE  NetInv'
<1>1. /\ flash' = Network!Recovered(f) /\ cache' = Network!Status(Network!Recovered(f))
      /\ \/ run' = Network!Status(Network!Recovered(f)).active /\ refused' = FALSE
         \/ run' = Network!Factory /\ refused' = TRUE
      /\ applied' = FALSE /\ conf' = FALSE /\ persist' = FALSE /\ acd' = "idle"
      /\ blind' = blind /\ asked' = asked
  BY DEF Network!Boot, Network!StopAcd
<1>2. Bootable(f, asked')  BY <1>1
<1> QED  BY <1>1, <1>2, BootIsSafe

\* What the invariant says of the record and of one that is active alike.
LEMMA HeldIsBootable ==
  ASSUME NetInv, NEW f, NetRecord(f), Held(f) = Held(flash)
  PROVE  Bootable(f, asked)
BY DEF NetInv, HeldIsConfirmed, Bootable

\* The device starts with the factory record.
LEMMA NetworkInitially ==
  ASSUME Network!NetConfigBounds, Network!Init
  PROVE  NetInv
<1>1. /\ flash = Network!FactoryRecord /\ cache = Network!Status(flash)
      /\ run = Network!Factory /\ refused = FALSE /\ applied = FALSE /\ conf = FALSE
      /\ persist = FALSE /\ acd = "idle"
  BY DEF Network!Init
<1>2. NetRecord(flash) /\ Held(flash) = Network!Factory /\ Network!Factory.id \notin InUse
  BY <1>1, FactoryIsARecord
<1>3. /\ cache.active = Held(flash) /\ cache.pending \in BOOLEAN
      /\ cache = [active |-> cache.active, staged |-> cache.staged, pending |-> cache.pending]
  BY <1>1, StatusMeans
<1>4. NetTypes  BY <1>1, <1>2, <1>3 DEF NetTypes
<1>5. HeldIsConfirmed  BY <1>1, <1>2, <1>3 DEF HeldIsConfirmed
<1>6. StagedIsStored /\ TrialIsStaged /\ WaitsForPending /\ RunsActive
  BY <1>1, <1>2, <1>3 DEF StagedIsStored, TrialIsStaged, WaitsForPending, RunsActive
<1> QED  BY <1>4, <1>5, <1>6 DEF NetInv

\* The snapshot without what was staged.
LEMMA RolledBackMeans ==
  ASSUME cache = [active |-> cache.active, staged |-> cache.staged, pending |-> cache.pending]
  PROVE  /\ Network!RolledBack = [active |-> cache.active, staged |-> Broken, pending |-> FALSE]
         /\ Network!RolledBack.active = cache.active /\ Network!RolledBack.staged = Broken
         /\ Network!RolledBack.pending = FALSE
<1>2. DOMAIN cache = {"active", "staged", "pending"}
  OBVIOUS
<1>3. Network!RolledBack = [x \in DOMAIN cache |->
        IF x = "pending" THEN FALSE ELSE IF x = "staged" THEN Broken ELSE cache[x]]
  <2> DEFINE mid == [cache EXCEPT !.staged = Broken]
  <2>1. mid = [x \in DOMAIN cache |-> IF x = "staged" THEN Broken ELSE cache[x]]
    BY <1>2, Zenon
  <2>2. [mid EXCEPT !.pending = FALSE]
          = [x \in DOMAIN mid |-> IF x = "pending" THEN FALSE ELSE mid[x]]
    BY Zenon
  <2>3. DOMAIN mid = DOMAIN cache /\ \A x \in DOMAIN cache :
          mid[x] = (IF x = "staged" THEN Broken ELSE cache[x])
    BY <2>1
  <2>4. Network!RolledBack = [mid EXCEPT !.pending = FALSE]
    BY DEF Network!RolledBack
  <2> HIDE DEF mid
  <2> QED  BY <2>2, <2>3, <2>4
<1>4. /\ DOMAIN Network!RolledBack = {"active", "staged", "pending"}
      /\ Network!RolledBack.active = cache.active /\ Network!RolledBack.staged = Broken
      /\ Network!RolledBack.pending = FALSE
  BY <1>2, <1>3
<1>5. Network!RolledBack = [x \in DOMAIN Network!RolledBack |-> Network!RolledBack[x]]
  BY <1>3
<1> HIDE DEF Network!RolledBack
<1>6. Network!RolledBack = [active |-> cache.active, staged |-> Broken, pending |-> FALSE]
  BY <1>4, <1>5
<1> QED  BY <1>4, <1>6

\* The active configuration is put back, or refused.
LEMMA ReapplyMeans ==
  ASSUME Network!Reapply
  PROVE  (run' = cache.active /\ refused' = FALSE) \/ (run' = run /\ refused' = TRUE)
BY DEF Network!Reapply

\* A trial or a probe is given up, or there was none: the marks are cleared as far
\* as that goes, the snapshot follows when it went all the way.
LEMMA UndoneIsSafe ==
  ASSUME NetInv, NEW e, e.k \in 0..2, e.how \in {"ok", "error"},
         flash' = Network!After(flash, Network!ClearWrites, e.k),
         cache' = (IF e.how = "ok" THEN Network!RolledBack ELSE cache),
         persist' = (e.how # "ok"), applied' = FALSE, acd' = "idle",
         conf' \in BOOLEAN, conf' = TRUE => conf = TRUE, e.how = "ok" => conf' = FALSE,
         UNCHANGED <<asked, blind>>,
         \/ run' = cache.active /\ refused' = FALSE
         \/ run' = run /\ refused' = TRUE
         \/ run' = run /\ refused' = refused /\ (refused = FALSE => run = cache.active)
  PROVE  NetInv'
<1>2. NetRecord(flash)  BY DEF NetInv, NetTypes
<1>3. /\ NetRecord(flash') /\ Held(flash') = Held(flash)
      /\ Network!Status(flash').staged \in {Broken, Network!Status(flash).staged}
  BY <1>2, Cleared
<1>4. /\ cache' = [active |-> cache'.active, staged |-> cache'.staged, pending |-> cache'.pending]
      /\ cache'.active = cache.active
  BY RolledBackMeans DEF NetInv, NetTypes
<1>5. /\ e.how = "ok" => cache'.staged = Broken /\ cache'.pending = FALSE /\ persist' = FALSE
      /\ e.how # "ok" => cache' = cache /\ persist' = TRUE
  BY RolledBackMeans DEF NetInv, NetTypes
<1>6. cache'.pending \in BOOLEAN /\ persist' \in BOOLEAN  BY <1>5 DEF NetInv, NetTypes
<1>7. refused' \in BOOLEAN  BY DEF NetInv, NetTypes
<1>8. NetTypes'  BY <1>3, <1>4, <1>6, <1>7 DEF NetTypes, NetRecord, Held
<1>9. HeldIsConfirmed'
  <2>1. run' \in {run, cache.active}  OBVIOUS
  <2> QED  BY <1>3, <1>4, <2>1 DEF NetInv, HeldIsConfirmed, Held
<1>10. refused' = FALSE => run' = cache'.active  BY <1>4
<1>11. TrialIsStaged' /\ RunsActive'
  BY <1>10 DEF TrialIsStaged, RunsActive
<1>12. WaitsForPending'
  BY <1>5 DEF NetInv, WaitsForPending
<1>13. StagedIsStored'
  <2> SUFFICES ASSUME cache'.pending = FALSE, cache'.staged # Broken
               PROVE  Network!Status(flash').staged \in {Broken, cache'.staged}
    BY DEF StagedIsStored, Network!Status, Network!Readable
  <2>1. cache' = cache  BY <1>5
  <2> QED  BY <1>3, <2>1 DEF NetInv, StagedIsStored
<1> QED  BY <1>8, <1>9, <1>11, <1>12, <1>13 DEF NetInv

\* The same for what both ways back do.
LEMMA UndoIsSafe ==
  ASSUME NetInv, NEW e, e.k \in 0..2, e.how \in {"ok", "error"},
         Network!Undo(e),
         \/ run' = cache.active /\ refused' = FALSE
         \/ run' = run /\ refused' = TRUE
         \/ run' = run /\ refused' = refused /\ (refused = FALSE => run = cache.active)
  PROVE  NetInv'
<1>1. /\ flash' = Network!After(flash, Network!ClearWrites, e.k)
      /\ cache' = (IF e.how = "ok" THEN Network!RolledBack ELSE cache)
      /\ persist' = (e.how # "ok") /\ applied' = FALSE /\ conf' = FALSE /\ acd' = "idle"
      /\ UNCHANGED <<asked, blind>>
  BY DEF Network!Undo, Network!Ok, Network!StopAcd
<1>2. conf' \in BOOLEAN  BY <1>1
<1> QED  BY <1>1, <1>2, UndoneIsSafe

\* Nothing that matters changes.
LEMMA NothingChanges ==
  ASSUME NetInv, NetRecord(flash'), Held(flash') = Held(flash),
         Network!Status(flash').staged = Network!Status(flash).staged,
         persist' \in BOOLEAN, applied' = TRUE \/ persist' = persist, conf' = conf,
         UNCHANGED <<cache, run, refused, applied, acd, probed, blind>>,
         asked \subseteq asked'
  PROVE  NetInv'
<1>1. NetTypes' /\ HeldIsConfirmed'
  BY DEF NetInv, NetTypes, HeldIsConfirmed, NetRecord, Held
<1>2. Network!Status(flash)'.staged = Network!Status(flash).staged
  BY DEF Network!Status, Network!Readable
<1>3. StagedIsStored' /\ TrialIsStaged'
  BY <1>2 DEF NetInv, StagedIsStored, TrialIsStaged
<1>4. WaitsForPending' /\ RunsActive'
  BY DEF NetInv, NetTypes, WaitsForPending, RunsActive
<1> QED  BY <1>1, <1>3, <1>4 DEF NetInv

\* The lengths of the lists.
LEMMA Lengths ==
  ASSUME NEW n, NEW c, NEW t
  PROVE  /\ Network!Len(Network!ClearWrites) = 2
         /\ Network!Len(Network!ConfirmWrites(n)) = 3
         /\ Network!Len(Network!StageWrites(n, c, t)) = 4
BY DEF Network!ClearWrites, Network!ConfirmWrites, Network!StageWrites

\* The clearing of the marks ended, in one of three ways.
LEMMA ClearEnds ==
  ASSUME NEW e \in Network!Ends(Network!ClearWrites)
  PROVE  e.k \in 0..2 /\ e.how \in {"ok", "error", "restart"}
<1>1. 2 \in Nat  OBVIOUS
<1> QED  BY <1>1, EndsMean, Lengths

\* An apply that fails before its trial began.
LEMMA ApplyFailedIsSafe ==
  ASSUME NetInv, cache.pending = FALSE, NEW f, NetRecord(f), Held(f) = Held(flash),
         Network!Status(f).staged = Network!Status(flash).staged, NEW snap,
         snap = cache \/ (snap = Network!Status(f) /\ Network!Status(f).pending = TRUE),
         Network!ApplyFailed(f, snap)
  PROVE  NetInv'
<1>0. PICK e \in Network!Ends(Network!ClearWrites) :
        /\ e.how # "restart" /\ flash' = Network!After(f, Network!ClearWrites, e.k)
        /\ cache' = (IF e.how = "ok" THEN Network!RolledBack ELSE snap)
  BY DEF Network!ApplyFailed, Network!Cut, Network!Ok
<1>1. /\ applied' = FALSE /\ conf' = FALSE /\ acd' = "idle"
      /\ Network!Reapply /\ UNCHANGED <<persist, asked, blind>>
  <2>1. acd = "idle"  BY DEF NetInv, NetTypes, TrialIsStaged
  <2> QED  BY <2>1 DEF Network!ApplyFailed
<1>2. e.k \in 0..2 /\ e.how \in {"ok", "error"}
  BY <1>0, ClearEnds
<1>3. /\ NetRecord(flash') /\ Held(flash') = Held(flash)
      /\ Network!Status(flash').staged \in {Broken, Network!Status(flash).staged}
  BY <1>0, <1>2, Cleared
<1>4. /\ snap = [active |-> snap.active, staged |-> snap.staged, pending |-> snap.pending]
      /\ snap.active = cache.active /\ snap.pending \in BOOLEAN
      /\ snap.pending = FALSE => snap = cache
  <2>1. CASE snap = cache  BY <2>1 DEF NetInv, NetTypes
  <2>2. CASE snap = Network!Status(f) /\ Network!Status(f).pending = TRUE
    BY <2>2, StatusMeans DEF NetInv, HeldIsConfirmed
  <2> QED  BY <2>1, <2>2
<1>5. /\ cache' = [active |-> cache'.active, staged |-> cache'.staged, pending |-> cache'.pending]
      /\ cache'.active = cache.active
      /\ cache' = snap \/ (cache'.staged = Broken /\ cache'.pending = FALSE)
  BY <1>0, <1>4, RolledBackMeans DEF NetInv, NetTypes
<1>6. cache'.pending \in BOOLEAN  BY <1>4, <1>5
<1>7. (run' = cache.active /\ refused' = FALSE) \/ (run' = run /\ refused' = TRUE)
  BY <1>1, ReapplyMeans
<1>8. persist' \in BOOLEAN  BY <1>1 DEF NetInv, NetTypes
<1>r. refused' \in BOOLEAN  BY <1>7
<1>9. NetTypes'  BY <1>1, <1>3, <1>5, <1>6, <1>8, <1>r DEF NetTypes, NetRecord, Held
<1>10. HeldIsConfirmed'
  <2>1. run' \in {run, cache.active}  BY <1>7
  <2> QED  BY <1>1, <1>3, <1>5, <2>1 DEF NetInv, HeldIsConfirmed, Held
<1>11. StagedIsStored'
  <2> SUFFICES ASSUME cache'.pending = FALSE, cache'.staged # Broken
               PROVE  Network!Status(flash').staged \in {Broken, cache'.staged}
    BY DEF StagedIsStored, Network!Status, Network!Readable
  <2>1. cache' = cache  BY <1>4, <1>5
  <2> QED  BY <1>3, <2>1 DEF NetInv, StagedIsStored
<1>12. RunsActive'  BY <1>5, <1>7 DEF RunsActive
<1>13. TrialIsStaged' /\ WaitsForPending'
  BY <1>1 DEF TrialIsStaged, WaitsForPending
<1> QED  BY <1>9, <1>10, <1>11, <1>12, <1>13 DEF NetInv

\* A restart while the marks are cleared.
LEMMA CutClearIsSafe ==
  ASSUME Network!NetConfigBounds, NetInv, NEW k \in 0..2,
         Network!Boot(Network!After(flash, Network!ClearWrites, k))
  PROVE  NetInv'
<1>1. NetRecord(flash)  BY DEF NetInv, NetTypes
<1>2. /\ NetRecord(Network!After(flash, Network!ClearWrites, k))
      /\ Held(Network!After(flash, Network!ClearWrites, k)) = Held(flash)
  BY <1>1, Cleared
<1> QED  BY <1>2, HeldIsBootable, BootActionIsSafe

\* A restart between two operations.
LEMMA RestartIsSafe ==
  ASSUME Network!NetConfigBounds, NetInv, Network!Restart
  PROVE  NetInv'
<1>1. NetRecord(flash)  BY DEF NetInv, NetTypes
<1>2. Network!Boot(flash)  BY DEF Network!Restart
<1> QED  BY <1>1, <1>2, HeldIsBootable, BootActionIsSafe

\* Staging, stored, cut off, or given up with nothing staged before.
LEMMA StageIsSafe ==
  ASSUME Network!NetConfigBounds, NetInv, NEW cid, Network!Stage(cid), "stage" \notin mishap'
  PROVE  NetInv'
<1> DEFINE spot == Network!Other(flash.act)
           cfg == [id |-> cid, g |-> Network!Status(flash).active.g + 1]
<1>0. PICK half \in Network!Torn(flash, spot, cfg) :
        \E e \in Network!Ends(Network!StageWrites(spot, cfg, half)) :
          /\ Network!Mishap("stage", e.how = "error" /\ e.k > 0 /\ cache.staged # Broken)
          /\ IF e.how = "restart"
             THEN Network!Boot(Network!After(flash, Network!StageWrites(spot, cfg, half), e.k))
             ELSE /\ flash' = Network!After(flash, Network!StageWrites(spot, cfg, half), e.k)
                  /\ IF e.how = "ok"
                     THEN /\ cache' = Network!Status(Network!After(flash, Network!StageWrites(spot, cfg, half), e.k))
                          /\ applied' = FALSE /\ persist' = FALSE
                     ELSE UNCHANGED <<cache, applied, persist>>
                  /\ UNCHANGED <<run, conf, acd, probed, refused, asked, blind>>
  BY DEF Network!Stage, Network!Cut, Network!Ok, Network!Err
<1> DEFINE ws == Network!StageWrites(spot, cfg, half)
<1>1. PICK e \in Network!Ends(ws) :
          /\ Network!Mishap("stage", e.how = "error" /\ e.k > 0 /\ cache.staged # Broken)
          /\ IF e.how = "restart" THEN Network!Boot(Network!After(flash, ws, e.k))
             ELSE /\ flash' = Network!After(flash, ws, e.k)
                  /\ IF e.how = "ok"
                     THEN /\ cache' = Network!Status(Network!After(flash, ws, e.k))
                          /\ applied' = FALSE /\ persist' = FALSE
                     ELSE UNCHANGED <<cache, applied, persist>>
                  /\ UNCHANGED <<run, conf, acd, probed, refused, asked, blind>>
  BY <1>0
<1>2. Network!Len(ws) = 4  BY Lengths
<1>3. e.k \in 0..4 /\ e.how \in {"ok", "error", "restart"} /\ (e.how = "ok" => e.k = 4)
  <2>1. 4 \in Nat  OBVIOUS
  <2> HIDE DEF ws
  <2> QED  BY <1>1, <1>2, <2>1, EndsMean
<1>m. e.how = "error" => e.k = 0 \/ cache.staged = Broken
  <2>1. ~(e.how = "error" /\ e.k > 0 /\ cache.staged # Broken)
    BY <1>1 DEF Network!Mishap
  <2> QED  BY <1>3, <2>1
<1> DEFINE left == Network!After(flash, ws, e.k)
<1>4. NetRecord(flash) /\ cache.pending = FALSE
  BY DEF NetInv, NetTypes, Network!Stage
<1>5. NetRecord(left) /\ Held(left) = Held(flash) /\ (e.k = 4 => Network!Status(left).pending = FALSE)
  BY <1>3, <1>4, StagedAway
<1>k. e.k = 0 => Network!Status(left).staged = Network!Status(flash).staged
  BY <1>4, NothingWritten
<1>6. /\ e.how = "restart" => Network!Boot(left)
      /\ e.how = "error" =>
           flash' = left /\ UNCHANGED <<cache, applied, persist, run, conf, acd, probed, refused,
                                      asked, blind>>
      /\ e.how = "ok" => /\ flash' = left /\ cache' = Network!Status(left) /\ applied' = FALSE
                         /\ persist' = FALSE
                         /\ UNCHANGED <<run, conf, acd, probed, refused, asked, blind>>
  BY <1>1
<1> HIDE DEF ws, left, spot, cfg
<1>7. CASE e.how = "restart"
  BY <1>5, <1>6, <1>7, HeldIsBootable, BootActionIsSafe
<1>8. CASE e.how = "ok"
  <2>1. /\ flash' = left /\ cache' = Network!Status(flash') /\ applied' = FALSE
        /\ persist' = FALSE /\ UNCHANGED <<run, conf, acd, probed, refused, asked, blind>>
        /\ NetRecord(flash') /\ Held(flash') = Held(flash)
    BY <1>5, <1>6, <1>8
  <2>2. /\ cache' = [active |-> cache'.active, staged |-> cache'.staged, pending |-> cache'.pending]
        /\ cache'.active = Held(flash')
    BY <2>1, StatusMeans
  <2>3. cache'.pending = FALSE  BY <1>3, <1>5, <1>8, <2>1
  <2>4. acd' = "idle" /\ conf' = FALSE
    BY <1>4, <2>1 DEF NetInv, NetTypes, TrialIsStaged, WaitsForPending
  <2>5. NetTypes'
    <3>1. refused' \in BOOLEAN  BY <2>1 DEF NetInv, NetTypes
    <3> QED  BY <2>1, <2>2, <2>3, <2>4, <3>1 DEF NetTypes, NetRecord, Held
  <2>6. HeldIsConfirmed'
    BY <2>1, <2>2 DEF NetInv, HeldIsConfirmed, Held
  <2>7. StagedIsStored' /\ TrialIsStaged' /\ WaitsForPending'
    BY <2>1, <2>3, <2>4 DEF StagedIsStored, TrialIsStaged, WaitsForPending
  <2>8. RunsActive'
    BY <1>4, <2>1, <2>2 DEF NetInv, HeldIsConfirmed, RunsActive
  <2> QED  BY <2>5, <2>6, <2>7, <2>8 DEF NetInv
<1>9. CASE e.how = "error"
  <2>1. /\ flash' = left /\ NetRecord(flash') /\ Held(flash') = Held(flash)
        /\ UNCHANGED <<cache, applied, persist, run, conf, acd, probed, refused, asked, blind>>
    BY <1>5, <1>6, <1>9
  <2>2. NetTypes' /\ HeldIsConfirmed'
    BY <2>1 DEF NetInv, NetTypes, HeldIsConfirmed, NetRecord, Held
  <2>3. TrialIsStaged' /\ WaitsForPending' /\ RunsActive'
    <3>1. applied = FALSE /\ acd = "idle"
      BY <1>4 DEF NetInv, NetTypes, TrialIsStaged
    <3> QED  BY <2>1, <3>1 DEF NetInv, NetTypes, TrialIsStaged, WaitsForPending, RunsActive
  <2>4. StagedIsStored'
    <3> SUFFICES ASSUME cache'.pending = FALSE, cache'.staged # Broken
                 PROVE  Network!Status(flash').staged \in {Broken, cache'.staged}
      BY DEF StagedIsStored, Network!Status, Network!Readable
    <3>1. e.k = 0 /\ cache' = cache  BY <1>9, <1>m, <2>1
    <3> QED  BY <1>4, <1>k, <2>1, <3>1 DEF NetInv, StagedIsStored
  <2> QED  BY <2>2, <2>3, <2>4 DEF NetInv
<1> QED  BY <1>3, <1>7, <1>8, <1>9

\* si_net_apply_staged goes through: a trial or a probe of what is staged begins.
LEMMA TrialBegins ==
  ASSUME NetInv, Network!NetConfigBounds, cache.staged # Broken, cache.pending = FALSE,
         Network!Status(flash).staged # Broken, NEW probe \in BOOLEAN,
         probe = (cache.staged.id \in Static /\ link), NEW g,
         g = Network!After(flash, Network!PendingWrites(flash.stg),
                           Network!Len(Network!PendingWrites(flash.stg))),
         flash' = g, cache' = Network!Status(g), conf' = TRUE,
         IF probe THEN Network!StartAcd(cache.staged.id) ELSE UNCHANGED <<acd, probed>>,
         run' = (IF probe THEN run ELSE cache.staged), refused' = (refused /\ probe),
         applied' = ~probe,
         blind' = (IF ~probe /\ cache.staged.id \in Static
                   THEN blind \cup {cache.staged.id} ELSE blind),
         UNCHANGED <<persist, asked>>
  PROVE  NetInv'
<1>1. /\ NetRecord(flash') /\ Held(flash') = Held(flash)
      /\ cache'.staged = Network!Status(flash).staged /\ cache'.pending = TRUE
      /\ cache'.staged = Network!Status(flash').staged
  <2>1. NetRecord(flash)  BY DEF NetInv, NetTypes
  <2>2. /\ NetRecord(g) /\ Held(g) = Held(flash)
        /\ Network!Status(g).staged = Network!Status(flash).staged
        /\ Network!Status(g).pending = TRUE
    BY <2>1, Marked
  <2> QED  BY <2>2
<1>2. cache'.staged = cache.staged
  BY <1>1 DEF NetInv, StagedIsStored
<1>3. /\ cache' = [active |-> cache'.active, staged |-> cache'.staged, pending |-> cache'.pending]
      /\ cache'.active = Held(flash') /\ cache'.active = cache.active
  <2>1. cache.active = Held(flash)  BY DEF NetInv, HeldIsConfirmed
  <2> QED  BY <1>1, <2>1, StatusMeans
<1>4. persist' \in BOOLEAN /\ acd = "idle"
  BY DEF NetInv, NetTypes, TrialIsStaged
<1>5. CASE probe
  <2>1. /\ acd' = "waiting" /\ probed' = cache.staged.id /\ run' = run
        /\ applied' = FALSE /\ blind' = blind
    BY <1>5 DEF Network!StartAcd
  <2>2. refused' = refused /\ refused' \in BOOLEAN  BY <1>5 DEF NetInv, NetTypes
  <2>3. NetTypes'
    BY <1>1, <1>3, <1>4, <2>1, <2>2 DEF NetTypes, NetRecord, Held
  <2>4. HeldIsConfirmed'
    BY <1>1, <1>3, <2>1 DEF NetInv, HeldIsConfirmed, Held
  <2>5. TrialIsStaged' 
    <3>1. /\ cache'.pending = TRUE /\ cache'.staged = Network!Status(flash)'.staged
          /\ probed' = cache'.staged.id
      BY <1>1, <1>2, <2>1 DEF Network!Status, Network!Readable
    <3> QED  BY <2>1, <3>1 DEF TrialIsStaged
  <2>6. StagedIsStored' /\ WaitsForPending'
    BY <1>1, <1>4 DEF StagedIsStored, WaitsForPending
  <2>7. RunsActive'
    BY <1>3, <2>1, <2>2 DEF NetInv, RunsActive
  <2> QED  BY <2>3, <2>4, <2>5, <2>6, <2>7 DEF NetInv
<1>6. CASE ~probe
  <2>1. acd' = "idle" /\ run' = cache.staged /\ applied' = TRUE /\ refused' = FALSE
    BY <1>4, <1>6
  <2>2. blind \subseteq blind' /\ (cache.staged.id \in InUse => cache.staged.id \in blind')
    BY <1>6 DEF Network!NetConfigBounds
  <2>3. NetTypes'
    BY <1>1, <1>3, <1>4, <2>1 DEF NetTypes, NetRecord, Held
  <2>4. HeldIsConfirmed'
    BY <1>1, <1>3, <2>1, <2>2 DEF NetInv, HeldIsConfirmed, Held
  <2>5. TrialIsStaged' 
    <3>1. /\ cache'.pending = TRUE /\ cache'.staged = Network!Status(flash)'.staged
          /\ run' = cache'.staged
      BY <1>1, <1>2, <2>1 DEF Network!Status, Network!Readable
    <3> QED  BY <2>1, <3>1 DEF TrialIsStaged
  <2>6. StagedIsStored' /\ WaitsForPending' /\ RunsActive'
    BY <1>1, <1>4, <2>1 DEF StagedIsStored, WaitsForPending, RunsActive
  <2> QED  BY <2>3, <2>4, <2>5, <2>6 DEF NetInv
<1> QED  BY <1>5, <1>6

\* Applying, whether it goes through or fails before, at or after the mark.
LEMMA ApplyIsSafe ==
  ASSUME Network!NetConfigBounds, NetInv, Network!ApplyStaged
  PROVE  NetInv'
<1> DEFINE marked == Network!After(flash, Network!PendingWrites(flash.stg),
                                   Network!Len(Network!PendingWrites(flash.stg)))
           probe == cache.staged.id \in Static /\ link
           have == cache.staged # Broken /\ Network!Loads(flash)
                   /\ Network!Status(flash).staged # Broken
<1>1. cache.pending = FALSE
  BY DEF NetInv, NetTypes, Network!ApplyStaged
<1>2. NetRecord(flash)  BY DEF NetInv, NetTypes
<1>3. /\ NetRecord(marked) /\ Held(marked) = Held(flash)
      /\ Network!Status(marked).staged = Network!Status(flash).staged
      /\ Network!Status(flash).staged # Broken => Network!Status(marked).pending = TRUE
  BY <1>2, Marked
<1>4. CASE /\ have
           /\ flash' = marked /\ cache' = Network!Status(marked) /\ conf' = TRUE
           /\ IF probe THEN Network!StartAcd(cache.staged.id) ELSE UNCHANGED <<acd, probed>>
           /\ run' = (IF probe THEN run ELSE cache.staged)
           /\ refused' = (refused /\ probe) /\ applied' = ~probe
           /\ blind' = (IF ~probe /\ cache.staged.id \in Static
                        THEN blind \cup {cache.staged.id} ELSE blind)
           /\ UNCHANGED <<persist, asked>>
  <2>1. probe \in BOOLEAN  OBVIOUS
  <2>2. probe = (cache.staged.id \in Static /\ link)  OBVIOUS
  <2> HIDE DEF marked, probe
  <2> QED  BY <1>1, <1>4, <2>1, <2>2, TrialBegins DEF marked
<1>5. CASE /\ have
           /\ \/ Network!ApplyFailed(flash, cache) \/ Network!ApplyFailed(marked, cache)
              \/ Network!ApplyFailed(marked, Network!Status(marked)) \/ Network!Boot(marked)
  <2> HIDE DEF marked
  <2>1. CASE Network!ApplyFailed(flash, cache)
    BY <1>1, <1>2, <2>1, ApplyFailedIsSafe
  <2>2. CASE Network!ApplyFailed(marked, cache)
    BY <1>1, <1>3, <2>2, ApplyFailedIsSafe
  <2>3. CASE Network!ApplyFailed(marked, Network!Status(marked))
    BY <1>1, <1>3, <1>5, <2>3, ApplyFailedIsSafe
  <2>4. CASE Network!Boot(marked)
    BY <1>3, <2>4, HeldIsBootable, BootActionIsSafe
  <2> QED  BY <1>5, <2>1, <2>2, <2>3, <2>4
<1>6. CASE ~have /\ Network!ApplyFailed(flash, cache)
  BY <1>1, <1>2, <1>6, ApplyFailedIsSafe
<1>7. \/ /\ have
         /\ flash' = marked /\ cache' = Network!Status(marked) /\ conf' = TRUE
         /\ IF probe THEN Network!StartAcd(cache.staged.id) ELSE UNCHANGED <<acd, probed>>
         /\ run' = (IF probe THEN run ELSE cache.staged)
         /\ refused' = (refused /\ probe) /\ applied' = ~probe
         /\ blind' = (IF ~probe /\ cache.staged.id \in Static
                      THEN blind \cup {cache.staged.id} ELSE blind)
         /\ UNCHANGED <<persist, asked>>
      \/ /\ have
         /\ \/ Network!ApplyFailed(flash, cache) \/ Network!ApplyFailed(marked, cache)
            \/ Network!ApplyFailed(marked, Network!Status(marked)) \/ Network!Boot(marked)
      \/ ~have /\ Network!ApplyFailed(flash, cache)
  BY DEF Network!ApplyStaged
<1> HIDE DEF marked, probe, have
<1> QED  BY <1>4, <1>5, <1>6, <1>7

\* Confirming, stored, cut off, or given up before its first write: what becomes
\* active is what ran.
LEMMA ConfirmIsSafe ==
  ASSUME Network!NetConfigBounds, NetInv, Network!CommitPending, "confirm" \notin mishap'
  PROVE  NetInv'
<1> DEFINE ws == Network!ConfirmWrites(flash.pnd)
           kept == Network!Status(flash).staged
<1>1. /\ applied = TRUE /\ cache.pending = TRUE /\ acd = "idle"
      /\ Network!Status(flash).pending = TRUE
      /\ asked' = asked \cup {run} /\ blind' = blind
  BY StatusMeans DEF NetInv, NetTypes, Network!CommitPending
<1>2. run = cache.staged /\ run = kept /\ persist \in BOOLEAN
  BY <1>1 DEF NetInv, NetTypes, TrialIsStaged
<1>3. PICK e \in Network!Ends(ws) :
        /\ Network!Mishap("confirm", e.how = "error" /\ e.k > 0)
        /\ \/ /\ e.how = "ok" /\ flash' = Network!After(flash, ws, e.k)
              /\ cache' = [active |-> kept, staged |-> Broken, pending |-> FALSE]
              /\ applied' = FALSE /\ conf' = FALSE
              /\ UNCHANGED <<run, refused, persist, acd, probed>>
           \/ /\ e.how = "error" /\ flash' = Network!After(flash, ws, e.k)
              /\ UNCHANGED <<cache, run, refused, applied, conf, persist, acd, probed>>
           \/ /\ e.how = "restart"
              /\ flash' = Network!Recovered(Network!After(flash, ws, e.k))
              /\ cache' = Network!Status(Network!Recovered(Network!After(flash, ws, e.k)))
              /\ \/ /\ run' = Network!Status(Network!Recovered(Network!After(flash, ws, e.k))).active
                    /\ refused' = FALSE
                 \/ run' = Network!Factory /\ refused' = TRUE
              /\ applied' = FALSE /\ conf' = FALSE /\ persist' = FALSE /\ acd' = "idle"
  BY DEF Network!CommitPending, Network!Ok, Network!Err, Network!Cut, Network!StopAcd
<1>4. /\ e.k \in 0..3 /\ e.how \in {"ok", "error", "restart"} /\ (e.how = "ok" => e.k = 3)
      /\ e.how = "error" => e.k = 0
  <2>1. 3 \in Nat  OBVIOUS
  <2>2. Network!Len(ws) = 3  BY Lengths
  <2> HIDE DEF ws
  <2>3. e.k \in 0..3 /\ e.how \in {"ok", "error", "restart"} /\ (e.how = "ok" => e.k = 3)
    BY <1>3, <2>1, <2>2, EndsMean
  <2>4. ~(e.how = "error" /\ e.k > 0)  BY <1>3 DEF Network!Mishap
  <2> QED  BY <2>3, <2>4
<1> DEFINE f == Network!After(flash, ws, e.k)
<1>5. /\ NetRecord(f) /\ Held(f) \in {Held(flash), kept} /\ (e.k = 3 => Held(f) = kept)
      /\ e.k = 0 => Network!Status(f) = Network!Status(flash) /\ Held(f) = Held(flash)
  <2>1. NetRecord(flash)  BY DEF NetInv, NetTypes
  <2> QED  BY <1>1, <1>4, <2>1, Confirmed
<1>6. /\ Held(f) \in {Network!Factory} \cup asked'
      /\ Held(f).id \in InUse => Held(f).id \in blind
  BY <1>1, <1>2, <1>5 DEF NetInv, HeldIsConfirmed
<1>7. CASE e.how = "ok"
  <2>1. /\ flash' = f /\ cache' = [active |-> kept, staged |-> Broken, pending |-> FALSE]
        /\ applied' = FALSE /\ conf' = FALSE /\ UNCHANGED <<run, refused, persist, acd, probed>>
    BY <1>3, <1>7
  <2>2. Held(f) = kept  BY <1>4, <1>5, <1>7
  <2> HIDE DEF f, kept, ws
  <2>3. /\ cache'.active = kept /\ cache'.staged = Broken /\ cache'.pending = FALSE
        /\ cache' = [active |-> cache'.active, staged |-> cache'.staged, pending |-> cache'.pending]
    BY <2>1
  <2>4. persist' \in BOOLEAN /\ acd' = "idle" /\ refused' \in BOOLEAN
    BY <1>1, <1>2, <2>1 DEF NetInv, NetTypes
  <2>5. NetTypes'
    BY <1>5, <2>1, <2>3, <2>4 DEF NetTypes, NetRecord, Held
  <2>6. HeldIsConfirmed'
    BY <1>1, <1>2, <1>6, <2>1, <2>2, <2>3 DEF HeldIsConfirmed, Held
  <2>7. StagedIsStored' /\ TrialIsStaged' /\ WaitsForPending' /\ RunsActive'
    BY <1>2, <2>1, <2>3, <2>4 DEF StagedIsStored, TrialIsStaged, WaitsForPending, RunsActive
  <2> QED  BY <2>5, <2>6, <2>7 DEF NetInv
<1>8. CASE e.how = "restart"
  <2>1. Bootable(f, asked')  BY <1>5, <1>6 DEF Bootable
  <2> QED  BY <1>1, <1>3, <1>8, <2>1, BootIsSafe
<1>9. CASE e.how = "error"
  <2>1. /\ flash' = f /\ NetRecord(f) /\ Held(f) = Held(flash)
        /\ Network!Status(f) = Network!Status(flash)
        /\ UNCHANGED <<cache, run, refused, applied, conf, persist, acd, probed, blind>>
    BY <1>1, <1>3, <1>4, <1>5, <1>9
  <2> HIDE DEF f, ws
  <2>2. asked \subseteq asked'  BY <1>1
  <2> QED  BY <1>2, <2>1, <2>2, NothingChanges
<1> QED  BY <1>4, <1>7, <1>8, <1>9

\* A rollback, asked for or timed out.
LEMMA RollbackIsSafe ==
  ASSUME Network!NetConfigBounds, NetInv, Network!RollbackPending
  PROVE  NetInv'
<1>1. PICK e \in Network!Ends(Network!ClearWrites) :
        IF e.how = "restart" THEN Network!Boot(Network!After(flash, Network!ClearWrites, e.k))
        ELSE Network!Undo(e) /\ Network!Reapply
  BY DEF Network!RollbackPending, Network!Cut
<1>2. e.k \in 0..2 /\ e.how \in {"ok", "error", "restart"}  BY ClearEnds
<1>3. CASE e.how = "restart"  BY <1>1, <1>2, <1>3, CutClearIsSafe
<1>4. CASE e.how # "restart"
  <2>1. (run' = cache.active /\ refused' = FALSE) \/ (run' = run /\ refused' = TRUE)
    BY <1>1, <1>4, ReapplyMeans
  <2> QED  BY <1>1, <1>2, <1>4, <2>1, UndoIsSafe
<1> QED  BY <1>3, <1>4

\* Another try to store a rollback, with no newer trial or probe.
LEMMA RetryIsSafe ==
  ASSUME Network!NetConfigBounds, NetInv, Network!RetryPersist, "retry" \notin mishap'
  PROVE  NetInv'
<1>0. persist = TRUE /\ conf \in BOOLEAN /\ applied \in BOOLEAN
  BY DEF NetInv, NetTypes, Network!RetryPersist
<1>1. PICK e \in Network!Ends(Network!ClearWrites) :
        /\ Network!Mishap("retry", e.how # "restart" /\ e.k > 0 /\ (applied \/ acd # "idle"))
        /\ IF e.how = "restart" THEN Network!Boot(Network!After(flash, Network!ClearWrites, e.k))
           ELSE /\ flash' = Network!After(flash, Network!ClearWrites, e.k)
                /\ cache' = (IF e.how = "ok" THEN Network!RolledBack ELSE cache)
                /\ persist' = (e.how # "ok") /\ conf' = (conf /\ e.how # "ok")
                /\ UNCHANGED <<run, refused, applied, acd, probed, asked, blind>>
  BY DEF Network!RetryPersist, Network!Cut, Network!Ok
<1>2. e.k \in 0..2 /\ e.how \in {"ok", "error", "restart"} /\ (e.how = "ok" => e.k = 2)
  <2>1. 2 \in Nat  OBVIOUS
  <2> QED  BY <2>1, EndsMean, Lengths
<1>3. CASE e.how = "restart"  BY <1>1, <1>2, <1>3, CutClearIsSafe
<1>4. CASE e.how # "restart" /\ applied = FALSE /\ acd = "idle"
  <2>0. refused = FALSE => run = cache.active
    BY <1>0, <1>4 DEF NetInv, RunsActive
  <2>1. /\ conf' \in BOOLEAN /\ (conf' = TRUE => conf = TRUE) /\ (e.how = "ok" => conf' = FALSE)
    BY <1>0, <1>1, <1>4
  <2>2. /\ flash' = Network!After(flash, Network!ClearWrites, e.k)
        /\ cache' = (IF e.how = "ok" THEN Network!RolledBack ELSE cache)
        /\ persist' = (e.how # "ok") /\ applied' = FALSE /\ acd' = "idle"
        /\ UNCHANGED <<asked, blind>> /\ run' = run /\ refused' = refused
    BY <1>0, <1>1, <1>4
  <2> QED  BY <1>2, <1>4, <2>0, <2>1, <2>2, UndoneIsSafe
<1>5. CASE e.how # "restart" /\ (applied = TRUE \/ acd # "idle")
  <2>1. ~(e.how # "restart" /\ e.k > 0 /\ (applied \/ acd # "idle"))
    BY <1>1 DEF Network!Mishap
  <2>2. e.k = 0 /\ e.how = "error"  BY <1>0, <1>2, <1>5, <2>1
  <2>3. /\ flash' = Network!After(flash, Network!ClearWrites, e.k) /\ cache' = cache
        /\ persist' = TRUE /\ conf' = conf
        /\ UNCHANGED <<run, refused, applied, acd, probed, asked, blind>>
    BY <1>0, <1>1, <2>2
  <2>4. NetRecord(flash)  BY DEF NetInv, NetTypes
  <2>5. /\ NetRecord(flash') /\ Held(flash') = Held(flash)
        /\ Network!Status(flash') = Network!Status(flash)
    BY <1>2, <2>2, <2>3, <2>4, Cleared
  <2> QED  BY <1>0, <2>3, <2>5, NothingChanges
<1> QED  BY <1>0, <1>3, <1>4, <1>5

\* A reset to the factory configuration, wherever it is cut off.
LEMMA ResetIsSafe ==
  ASSUME Network!NetConfigBounds, NetInv, Network!ResetConfig, "reset" \notin mishap'
  PROVE  NetInv'
<1> DEFINE erased == [s1 |-> Broken, s2 |-> Broken, act |-> 0, stg |-> 0, pnd |-> 0]
<1>1. CASE /\ flash' = Network!FactoryRecord /\ cache' = Network!Status(Network!FactoryRecord)
           /\ \/ run' = Network!Factory /\ refused' = FALSE
              \/ run' = run /\ refused' = TRUE
           /\ applied' = FALSE /\ conf' = FALSE /\ persist' = FALSE /\ acd' = "idle"
           /\ UNCHANGED <<asked, blind>>
  <2>1. /\ NetRecord(flash') /\ Held(flash') = Network!Factory
        /\ Network!Factory.id \notin InUse /\ flash'.stg = 0
    BY <1>1, FactoryIsARecord
  <2>2. /\ cache' = [active |-> cache'.active, staged |-> cache'.staged, pending |-> cache'.pending]
        /\ cache'.active = Held(flash') /\ cache'.pending = FALSE /\ cache'.staged = Broken
    BY <1>1, <2>1, StatusMeans
  <2>3. refused' \in BOOLEAN  BY <1>1
  <2>4. NetTypes'  BY <1>1, <2>1, <2>2, <2>3 DEF NetTypes, NetRecord, Held
  <2>5. HeldIsConfirmed'
    BY <1>1, <2>1, <2>2 DEF NetInv, HeldIsConfirmed, Held
  <2>6. StagedIsStored' /\ TrialIsStaged' /\ WaitsForPending' /\ RunsActive'
    BY <1>1, <2>1, <2>2 DEF StagedIsStored, TrialIsStaged, WaitsForPending, RunsActive
  <2> QED  BY <2>4, <2>5, <2>6 DEF NetInv
<1>2. CASE \E f \in {flash, erased, [erased EXCEPT !.s1 = Network!Factory]} : Network!Boot(f)
  <2>1. PICK f \in {flash, erased, [erased EXCEPT !.s1 = Network!Factory]} : Network!Boot(f)
    BY <1>2
  <2>2. Bootable(f, asked)
    <3>1. CASE f = flash  BY <3>1, HeldIsBootable DEF NetInv, NetTypes
    <3>2. CASE f = erased \/ f = [erased EXCEPT !.s1 = Network!Factory]
      <4>1. f.act = 0  BY <3>2
      <4> QED  BY <4>1 DEF Bootable, Network!Loads
    <3> QED  BY <2>1, <3>1, <3>2
  <2> QED  BY <2>1, <2>2, BootActionIsSafe
<1>3. ~Network!Mishap("reset", TRUE)  BY DEF Network!Mishap
<1> QED  BY <1>1, <1>2, <1>3 DEF Network!ResetConfig, Network!StopAcd

\* A reset that went through establishes the invariant from any state.
LEMMA CleanReset ==
  ASSUME Network!NetConfigBounds, flash' = Network!FactoryRecord,
         cache' = Network!Status(Network!FactoryRecord), run' = Network!Factory,
         refused' = FALSE, applied' = FALSE, conf' = FALSE, persist' = FALSE, acd' = "idle"
  PROVE  NetInv'
<1>1. /\ NetRecord(flash') /\ Held(flash') = Network!Factory
      /\ Network!Factory.id \notin InUse /\ flash'.stg = 0
  BY FactoryIsARecord
<1>2. /\ cache' = [active |-> cache'.active, staged |-> cache'.staged, pending |-> cache'.pending]
      /\ cache'.active = Held(flash') /\ cache'.pending = FALSE /\ cache'.staged = Broken
  BY <1>1, StatusMeans
<1>3. NetTypes'  BY <1>1, <1>2 DEF NetTypes, NetRecord, Held
<1>4. HeldIsConfirmed'
  BY <1>1, <1>2 DEF HeldIsConfirmed, Held
<1>5. StagedIsStored' /\ TrialIsStaged' /\ WaitsForPending' /\ RunsActive'
  BY <1>1, <1>2 DEF StagedIsStored, TrialIsStaged, WaitsForPending, RunsActive
<1> QED  BY <1>3, <1>4, <1>5 DEF NetInv

\* An answer, or none, for the probe that waits.
LEMMA AnswerIsSafe ==
  ASSUME NetInv, Network!AcdCallback \/ Network!AcdTimeout
  PROVE  NetInv'
<1>1. /\ acd = "waiting" /\ acd' \in {"conflict", "timeout", "ok"}
      /\ acd' = "ok" => probed \notin InUse
      /\ UNCHANGED <<flash, cache, run, refused, applied, conf, persist, probed, asked, blind>>
  BY DEF Network!AcdCallback, Network!AcdTimeout
<1>2. NetTypes' /\ HeldIsConfirmed'
  BY <1>1 DEF NetInv, NetTypes, HeldIsConfirmed, NetRecord, Held
<1>3. StagedIsStored'
  BY <1>1 DEF NetInv, StagedIsStored, Network!Status, Network!Readable
<1>4. TrialIsStaged'
  BY <1>1 DEF NetInv, TrialIsStaged, Network!Status, Network!Readable
<1>5. WaitsForPending' /\ RunsActive'
  BY <1>1 DEF NetInv, NetTypes, WaitsForPending, RunsActive
<1> QED  BY <1>2, <1>3, <1>4, <1>5 DEF NetInv

\* The end of a probe.
LEMMA FinishIsSafe ==
  ASSUME Network!NetConfigBounds, NetInv, Network!FinishAcd
  PROVE  NetInv'
<1>0. /\ acd # "idle" /\ cache.pending = TRUE /\ cache.staged = Network!Status(flash).staged
      /\ probed = cache.staged.id /\ (refused = FALSE => run = cache.active)
      /\ (acd = "ok" => probed \notin InUse)
  BY DEF NetInv, NetTypes, TrialIsStaged, RunsActive, Network!FinishAcd
<1>1. CASE acd = "ok" /\ Network!UseProbed
  <2>1. /\ acd' = "idle" /\ run' = cache.staged /\ refused' = FALSE /\ applied' = TRUE
        /\ UNCHANGED <<flash, cache, conf, persist, asked, blind>>
    BY <1>1 DEF Network!UseProbed, Network!StopAcd
  <2>2. NetTypes'  BY <2>1 DEF NetInv, NetTypes, NetRecord, Held
  <2>3. HeldIsConfirmed'  BY <1>0, <1>1, <2>1 DEF NetInv, HeldIsConfirmed, Held
  <2>4. StagedIsStored' /\ WaitsForPending' /\ RunsActive'
    BY <1>0, <2>1 DEF StagedIsStored, WaitsForPending, RunsActive
  <2>5. TrialIsStaged'
    <3>1. cache'.staged = Network!Status(flash)'.staged
      BY <1>0, <2>1 DEF Network!Status, Network!Readable
    <3> QED  BY <1>0, <2>1, <3>1 DEF TrialIsStaged
  <2> QED  BY <2>2, <2>3, <2>4, <2>5 DEF NetInv
<1>2. CASE \E tried \in BOOLEAN : Network!DropProbed(tried)
  <2>1. PICK tried \in BOOLEAN : Network!DropProbed(tried)  BY <1>2
  <2>2. PICK e \in (IF cache.staged = Broken THEN {[how |-> "ok", k |-> 0]}
                    ELSE Network!Ends(Network!ClearWrites)) :
        IF e.how = "restart" THEN Network!Boot(Network!After(flash, Network!ClearWrites, e.k))
        ELSE Network!Undo(e) /\ (IF tried THEN Network!Reapply ELSE UNCHANGED <<run, refused>>)
    BY <2>1 DEF Network!DropProbed, Network!Cut, Network!Ok
  <2>3. e.k \in 0..2 /\ e.how \in {"ok", "error", "restart"}
    <3>1. CASE cache.staged = Broken  BY <3>1
    <3>2. CASE cache.staged # Broken  BY <3>2, ClearEnds
    <3> QED  BY <3>1, <3>2
  <2>4. CASE e.how = "restart"  BY <2>2, <2>3, <2>4, CutClearIsSafe
  <2>5. CASE e.how # "restart"
    <3>1. \/ run' = cache.active /\ refused' = FALSE
          \/ run' = run /\ refused' = TRUE
          \/ run' = run /\ refused' = refused /\ (refused = FALSE => run = cache.active)
      BY <1>0, <2>2, <2>5, ReapplyMeans
    <3> QED  BY <1>0, <2>2, <2>3, <2>5, <3>1, UndoIsSafe
  <2> QED  BY <2>4, <2>5
<1> QED  BY <1>1, <1>2 DEF Network!FinishAcd

\* A step that changes none of it.
LEMMA NetworkStutters ==
  ASSUME NetInv, UNCHANGED <<flash, cache, run, refused, applied, conf, persist, acd, probed,
                             asked, blind>>
  PROVE  NetInv'
<1>1. NetTypes' /\ HeldIsConfirmed'
  BY DEF NetInv, NetTypes, HeldIsConfirmed, NetRecord, Held
<1>2. StagedIsStored' /\ TrialIsStaged'
  BY DEF NetInv, StagedIsStored, TrialIsStaged, Network!Status, Network!Readable
<1>3. WaitsForPending' /\ RunsActive'
  BY DEF NetInv, WaitsForPending, RunsActive
<1> QED  BY <1>1, <1>2, <1>3 DEF NetInv

\* A step either adds to what went wrong, or is a reset that went through.
LEMMA MishapsStay ==
  ASSUME Network!Next
  PROVE  \/ mishap \subseteq mishap'
         \/ /\ flash' = Network!FactoryRecord /\ cache' = Network!Status(Network!FactoryRecord)
            /\ run' = Network!Factory /\ refused' = FALSE /\ applied' = FALSE /\ conf' = FALSE
            /\ persist' = FALSE /\ acd' = "idle"
<1>0. \A kind, it : Network!Mishap(kind, it) => mishap \subseteq mishap'
  BY DEF Network!Mishap
<1>1. CASE Network!Restart  BY <1>1 DEF Network!Restart
<1>2. CASE \E c \in Static \cup Dhcp : Network!Stage(c)
  BY <1>0, <1>2 DEF Network!Stage
<1>3. CASE Network!ApplyStaged  BY <1>3 DEF Network!ApplyStaged
<1>4. CASE Network!CommitPending  BY <1>0, <1>4 DEF Network!CommitPending
<1>5. CASE Network!RollbackPending  BY <1>5 DEF Network!RollbackPending
<1>6. CASE Network!RetryPersist  BY <1>0, <1>6 DEF Network!RetryPersist
<1>7. CASE Network!ResetConfig
  BY <1>0, <1>7 DEF Network!ResetConfig, Network!StopAcd
<1>8. CASE Network!AcdCallback \/ Network!AcdTimeout
  BY <1>8 DEF Network!AcdCallback, Network!AcdTimeout
<1>9. CASE Network!FinishAcd
  BY <1>9 DEF Network!FinishAcd, Network!UseProbed, Network!DropProbed
<1>10. CASE Network!Link  BY <1>10 DEF Network!Link
<1> QED
  BY <1>1, <1>2, <1>3, <1>4, <1>5, <1>6, <1>7, <1>8, <1>9, <1>10
     DEF Network!Next, Network!Rollback, Network!Timeout

\* As long as nothing went wrong every step keeps the invariant.
LEMMA NetworkStep ==
  ASSUME Network!NetConfigBounds, NetInv, Network!Next, mishap' = {}
  PROVE  NetInv'
<1>1. CASE Network!Restart  BY <1>1, RestartIsSafe
<1>2. CASE \E c \in Static \cup Dhcp : Network!Stage(c)  BY <1>2, StageIsSafe
<1>3. CASE Network!ApplyStaged  BY <1>3, ApplyIsSafe
<1>4. CASE Network!CommitPending  BY <1>4, ConfirmIsSafe
<1>5. CASE Network!Rollback \/ Network!Timeout
  BY <1>5, RollbackIsSafe DEF Network!Rollback, Network!Timeout
<1>7. CASE Network!RetryPersist  BY <1>7, RetryIsSafe
<1>8. CASE Network!ResetConfig  BY <1>8, ResetIsSafe
<1>9. CASE Network!AcdCallback \/ Network!AcdTimeout  BY <1>9, AnswerIsSafe
<1>10. CASE Network!FinishAcd  BY <1>10, FinishIsSafe
<1>11. CASE Network!Link  BY <1>11, NetworkStutters DEF Network!Link
<1> QED
  BY <1>1, <1>2, <1>3, <1>4, <1>5, <1>7, <1>8, <1>9, <1>10, <1>11 DEF Network!Next

-----------------------------------------------------------------------------
(* What a boot needs. *)

\* The primed invariant is the same of the primed variables.
LEMMA BootPrimed ==
  ASSUME BootOK(flash', cache', applied', run', asked')
  PROVE  BootInv'
BY DEF BootInv, BootOK, SomeRecord, NetRecord, Held, Network!Status, Network!Readable,
       Network!SlotKey, Network!Factory

\* Only a record can be loaded.
LEMMA LoadedIsRecord ==
  ASSUME NEW f, SomeRecord(f)
  PROVE  Network!Loads(f) <=> NetRecord(f)
BY RecordLoads DEF SomeRecord, Network!Loads

\* A boot.
LEMMA BootOKBoot ==
  ASSUME Network!NetConfigBounds, NEW f, SomeRecord(f), NEW q, NEW r, NEW g,
         NetRecord(f) => Held(f) \in {Network!Factory} \cup q, g = Network!Recovered(f)
  PROVE  BootOK(g, Network!Status(g), FALSE, r, q)
<1>1. NetRecord(g) /\ Held(g) \in {Network!Factory} \cup q
  <2>1. CASE ~Network!Loads(f)
    <3>1. g = Network!FactoryRecord  BY <2>1 DEF Network!Recovered
    <3> QED  BY <3>1, FactoryIsARecord
  <2>2. CASE Network!Loads(f) /\ Network!Status(f).pending
    <3>0. NetRecord(f)  BY <2>2, LoadedIsRecord
    <3>1. g = [f EXCEPT !.stg = 0, !.pnd = 0]
      BY <2>2 DEF Network!Recovered
    <3>2. DOMAIN f = Names  BY <3>0 DEF NetRecord, Names
    <3>3. /\ DOMAIN g = Names /\ g.stg = 0 /\ g.pnd = 0 /\ g.act = f.act
          /\ g.s1 = f.s1 /\ g.s2 = f.s2
      BY <3>1, <3>2 DEF Names
    <3>4. Held(g) = Held(f)  BY <3>3, SameRecord
    <3>5. NetRecord(g)  BY <3>0, <3>3, <3>4 DEF NetRecord, Names
    <3> QED  BY <3>0, <3>4, <3>5
  <2>3. CASE Network!Loads(f) /\ ~Network!Status(f).pending
    <3>0. NetRecord(f)  BY <2>3, LoadedIsRecord
    <3>1. g = f  BY <2>3 DEF Network!Recovered
    <3> QED  BY <3>0, <3>1
  <2> QED  BY <2>1, <2>2, <2>3
<1>2. /\ Network!Status(g) = [active |-> Network!Status(g).active,
                              staged |-> Network!Status(g).staged,
                              pending |-> Network!Status(g).pending]
      /\ Network!Status(g).pending \in BOOLEAN
  BY StatusMeans
<1> QED  BY <1>1, <1>2 DEF BootOK, SomeRecord

\* A trial ends.
LEMMA BootOKEnds ==
  ASSUME NEW f, NEW s, NEW a, NEW r, NEW q, BootOK(f, s, a, r, q), NEW r2
  PROVE  BootOK(f, s, FALSE, r2, q)
BY DEF BootOK

\* The marks are cleared, all or some.
LEMMA BootOKClear ==
  ASSUME NEW f, NEW s, NEW a, NEW r, NEW q, BootOK(f, s, a, r, q), NEW k \in 0..2,
         NEW g, g = Network!After(f, Network!ClearWrites, k)
  PROVE  BootOK(g, s, a, r, q)
<1>1. CASE NetRecord(f)
  <2>1. /\ NetRecord(g) /\ Held(g) = Held(f)
        /\ Network!Status(g).staged \in {Broken, Network!Status(f).staged}
        /\ k = 0 => Network!Status(g) = Network!Status(f)
        /\ k # 0 => Network!Status(g).pending = FALSE /\ Network!Status(g).staged = Broken
    BY <1>1, Cleared
  <2> QED  BY <1>1, <2>1 DEF BootOK, SomeRecord
<1>2. CASE DOMAIN f = {"s1", "s2", "act", "stg", "pnd"} /\ f.act = 0
  <2>1. DOMAIN g = {"s1", "s2", "act", "stg", "pnd"} /\ g.act = 0
    BY <1>2, ClearedKeys
  <2>2. ~NetRecord(g)  BY <2>1 DEF NetRecord
  <2> QED  BY <2>1, <2>2 DEF BootOK, SomeRecord
<1> QED  BY <1>1, <1>2 DEF BootOK, SomeRecord

\* The snapshot shows nothing staged any more.
LEMMA BootOKBack ==
  ASSUME NEW f, NEW s, NEW a, NEW r, NEW q, BootOK(f, s, a, r, q), NEW s2,
         s2 = [active |-> s2.active, staged |-> s2.staged, pending |-> s2.pending],
         s2.staged = Broken, s2.pending = FALSE, NEW a2 \in BOOLEAN, NEW r2
  PROVE  BootOK(f, s2, a2, r2, q)
BY DEF BootOK

\* What is staged is marked as pending; a trial that begins is of what was staged.
LEMMA BootOKMark ==
  ASSUME NEW f, NEW s, NEW a, NEW r, NEW q, BootOK(f, s, a, r, q), NetRecord(f),
         s.pending = FALSE, s.staged # Broken, Network!Status(f).staged # Broken, NEW g,
         g = Network!After(f, Network!PendingWrites(f.stg),
                           Network!Len(Network!PendingWrites(f.stg))),
         NEW a2 \in BOOLEAN, NEW r2, a2 = TRUE => r2 = s.staged
  PROVE  BootOK(g, s, FALSE, r2, q) /\ BootOK(g, Network!Status(g), a2, r2, q)
<1>1. /\ NetRecord(g) /\ Held(g) = Held(f)
      /\ Network!Status(g).staged = Network!Status(f).staged
  BY Marked
<1>2. /\ Network!Status(g) = [active |-> Network!Status(g).active,
                              staged |-> Network!Status(g).staged,
                              pending |-> Network!Status(g).pending]
      /\ Network!Status(g).pending \in BOOLEAN
  BY StatusMeans
<1>3. Network!Status(f).staged = s.staged  BY DEF BootOK
<1>4. BootOK(g, s, FALSE, r2, q)  BY <1>1 DEF BootOK, SomeRecord
<1>5. BootOK(g, Network!Status(g), a2, r2, q)
  BY <1>1, <1>2, <1>3 DEF BootOK, SomeRecord
<1> QED  BY <1>4, <1>5

\* An action that ends in a restart.
LEMMA BootActionBoots ==
  ASSUME Network!NetConfigBounds, NEW f, SomeRecord(f), Network!Boot(f),
         NetRecord(f) => Held(f) \in {Network!Factory} \cup asked
  PROVE  BootInv'
<1>1. /\ flash' = Network!Recovered(f) /\ cache' = Network!Status(Network!Recovered(f))
      /\ applied' = FALSE /\ asked' = asked
  BY DEF Network!Boot
<1>2. BootOK(Network!Recovered(f), Network!Status(Network!Recovered(f)), FALSE, run', asked)
  BY BootOKBoot
<1> QED  BY <1>1, <1>2, BootPrimed

\* A rollback that is stored, or stored in part.
LEMMA UndoBoots ==
  ASSUME BootInv, NEW k \in 0..2, flash' = Network!After(flash, Network!ClearWrites, k),
         cache' \in {cache, Network!RolledBack}, asked' = asked, applied' \in BOOLEAN,
         applied' = TRUE => applied = TRUE /\ run' = run
  PROVE  BootInv'
<1>0. BootOK(flash, cache, applied, run, asked)  BY DEF BootInv
<1>1. BootOK(flash', cache, applied', run', asked)
  <2>1. BootOK(flash', cache, applied, run, asked)  BY <1>0, BootOKClear
  <2>2. CASE applied' = FALSE  BY <2>1, <2>2, BootOKEnds
  <2>3. CASE applied' = TRUE
    <3>1. applied' = applied /\ run' = run  BY <2>3
    <3> QED  BY <2>1, <3>1
  <2> QED  BY <2>2, <2>3
<1>2. BootOK(flash', Network!RolledBack, applied', run', asked)
  <2>1. cache = [active |-> cache.active, staged |-> cache.staged, pending |-> cache.pending]
    BY DEF BootInv, BootOK
  <2>2. /\ Network!RolledBack = [active |-> Network!RolledBack.active,
             staged |-> Network!RolledBack.staged, pending |-> Network!RolledBack.pending]
        /\ Network!RolledBack.staged = Broken /\ Network!RolledBack.pending = FALSE
    BY <2>1, RolledBackMeans
  <2> HIDE DEF Network!RolledBack
  <2> QED  BY <1>1, <2>2, BootOKBack
<1> QED  BY <1>1, <1>2, BootPrimed

\* A rollback that is cut off.
LEMMA CutClearBoots ==
  ASSUME Network!NetConfigBounds, BootInv, NEW k \in 0..2,
         Network!Boot(Network!After(flash, Network!ClearWrites, k))
  PROVE  BootInv'
<1> DEFINE g == Network!After(flash, Network!ClearWrites, k)
<1>0. BootOK(flash, cache, applied, run, asked)  BY DEF BootInv
<1>1. BootOK(g, cache, applied, run, asked)
  BY <1>0, BootOKClear
<1> HIDE DEF g
<1>2. SomeRecord(g) /\ (NetRecord(g) => Held(g) \in {Network!Factory} \cup asked)
  BY <1>1 DEF BootOK
<1> QED  BY <1>2, BootActionBoots DEF g

\* Staging; given up over what was staged before it would be a mishap.
LEMMA StageBoots ==
  ASSUME Network!NetConfigBounds, BootInv, NEW cid, Network!Stage(cid), "stage" \notin mishap'
  PROVE  BootInv'
<1> DEFINE spot == Network!Other(flash.act)
           cfg == [id |-> cid, g |-> Network!Status(flash).active.g + 1]
<1>0. PICK half \in Network!Torn(flash, spot, cfg) :
        \E e \in Network!Ends(Network!StageWrites(spot, cfg, half)) :
          /\ Network!Mishap("stage", e.how = "error" /\ e.k > 0 /\ cache.staged # Broken)
          /\ IF e.how = "restart"
             THEN Network!Boot(Network!After(flash, Network!StageWrites(spot, cfg, half), e.k))
             ELSE /\ flash' = Network!After(flash, Network!StageWrites(spot, cfg, half), e.k)
                  /\ IF e.how = "ok"
                     THEN /\ cache' = Network!Status(Network!After(flash, Network!StageWrites(spot, cfg, half), e.k))
                          /\ applied' = FALSE
                     ELSE UNCHANGED <<cache, applied>>
                  /\ UNCHANGED <<run, asked>>
  BY DEF Network!Stage, Network!Cut, Network!Ok, Network!Err
<1> DEFINE ws == Network!StageWrites(spot, cfg, half)
<1>1. PICK e \in Network!Ends(ws) :
          /\ Network!Mishap("stage", e.how = "error" /\ e.k > 0 /\ cache.staged # Broken)
          /\ IF e.how = "restart" THEN Network!Boot(Network!After(flash, ws, e.k))
             ELSE /\ flash' = Network!After(flash, ws, e.k)
                  /\ IF e.how = "ok"
                     THEN cache' = Network!Status(Network!After(flash, ws, e.k)) /\ applied' = FALSE
                     ELSE UNCHANGED <<cache, applied>>
                  /\ UNCHANGED <<run, asked>>
  BY <1>0
<1>2. Network!Len(ws) = 4  BY Lengths
<1>3. e.k \in 0..4 /\ e.how \in {"ok", "error", "restart"} /\ (e.how = "ok" => e.k = 4)
  <2>1. 4 \in Nat  OBVIOUS
  <2> HIDE DEF ws
  <2> QED  BY <1>1, <1>2, <2>1, EndsMean
<1>m. e.how = "error" => e.k = 0 \/ cache.staged = Broken
  <2>1. ~(e.how = "error" /\ e.k > 0 /\ cache.staged # Broken)
    BY <1>1 DEF Network!Mishap
  <2> QED  BY <1>3, <2>1
<1> DEFINE left == Network!After(flash, ws, e.k)
<1>4. NetRecord(flash) /\ cache.pending = FALSE
  <2>1. SomeRecord(flash) /\ Network!Loads(flash)
    BY DEF BootInv, BootOK, Network!Stage
  <2> QED  BY <2>1, LoadedIsRecord DEF BootInv, BootOK, Network!Stage
<1>5. NetRecord(left) /\ Held(left) = Held(flash) /\ (e.k = 4 => Network!Status(left).pending = FALSE)
  BY <1>3, <1>4, StagedAway
<1>k. e.k = 0 => Network!Status(left).staged = Network!Status(flash).staged
  BY <1>4, NothingWritten
<1>6. /\ e.how = "restart" => Network!Boot(left)
      /\ e.how = "error" => flash' = left /\ UNCHANGED <<cache, applied, run, asked>>
      /\ e.how = "ok" => /\ flash' = left /\ cache' = Network!Status(left) /\ applied' = FALSE
                         /\ UNCHANGED <<run, asked>>
  BY <1>1
<1>h. Held(flash) \in {Network!Factory} \cup asked  BY <1>4 DEF BootInv, BootOK
<1> HIDE DEF ws, left, spot, cfg
<1>7. CASE e.how = "restart"
  BY <1>5, <1>6, <1>7, <1>h, BootActionBoots DEF SomeRecord
<1>8. CASE e.how = "ok"
  <2>1. BootOK(left, Network!Status(left), FALSE, run, asked)
    BY <1>5, <1>h, StatusMeans DEF BootOK, SomeRecord
  <2> QED  BY <1>6, <1>8, <2>1, BootPrimed
<1>9. CASE e.how = "error"
  <2>1. NetRecord(left) /\ cache.staged # Broken =>
          Network!Status(left).staged \in {Broken, cache.staged}
    BY <1>4, <1>9, <1>k, <1>m DEF BootInv, BootOK
  <2>2. BootOK(left, cache, applied, run, asked)
    BY <1>4, <1>5, <1>h, <2>1 DEF BootInv, BootOK, SomeRecord
  <2> QED  BY <1>6, <1>9, <2>2, BootPrimed
<1> QED  BY <1>3, <1>7, <1>8, <1>9

\* An apply that fails.
LEMMA ApplyFailedBoots ==
  ASSUME NEW f, NEW snap, BootOK(f, snap, FALSE, run, asked), Network!ApplyFailed(f, snap),
         cache = [active |-> cache.active, staged |-> cache.staged, pending |-> cache.pending]
  PROVE  BootInv'
<1>0. PICK e \in Network!Ends(Network!ClearWrites) :
        /\ flash' = Network!After(f, Network!ClearWrites, e.k)
        /\ cache' = (IF e.how = "ok" THEN Network!RolledBack ELSE snap)
  BY DEF Network!ApplyFailed, Network!Ok
<1>1. applied' = FALSE /\ asked' = asked /\ FALSE \in BOOLEAN
  BY DEF Network!ApplyFailed
<1>2. e.k \in 0..2  BY <1>0, ClearEnds
<1>3. BootOK(flash', snap, FALSE, run', asked)
  <2>1. BootOK(flash', snap, FALSE, run, asked)  BY <1>0, <1>2, BootOKClear
  <2> QED  BY <2>1, BootOKEnds
<1>4. BootOK(flash', Network!RolledBack, FALSE, run', asked)
  <2>2. /\ Network!RolledBack = [active |-> Network!RolledBack.active,
             staged |-> Network!RolledBack.staged, pending |-> Network!RolledBack.pending]
        /\ Network!RolledBack.staged = Broken /\ Network!RolledBack.pending = FALSE
    BY RolledBackMeans
  <2> HIDE DEF Network!RolledBack
  <2> QED  BY <1>1, <1>3, <2>2, BootOKBack
<1> QED  BY <1>0, <1>1, <1>3, <1>4, BootPrimed

\* Applying.
LEMMA ApplyBoots ==
  ASSUME Network!NetConfigBounds, BootInv, Network!ApplyStaged
  PROVE  BootInv'
<1> DEFINE marked == Network!After(flash, Network!PendingWrites(flash.stg),
                                   Network!Len(Network!PendingWrites(flash.stg)))
           probe == cache.staged.id \in Static /\ link
           have == cache.staged # Broken /\ Network!Loads(flash)
                   /\ Network!Status(flash).staged # Broken
<1>1. /\ cache.pending = FALSE
      /\ cache = [active |-> cache.active, staged |-> cache.staged, pending |-> cache.pending]
  BY DEF BootInv, BootOK, Network!ApplyStaged
<1>2. \/ /\ have /\ flash' = marked /\ cache' = Network!Status(marked)
         /\ run' = (IF probe THEN run ELSE cache.staged) /\ applied' = ~probe /\ asked' = asked
      \/ /\ have
         /\ \/ Network!ApplyFailed(flash, cache) \/ Network!ApplyFailed(marked, cache)
            \/ Network!ApplyFailed(marked, Network!Status(marked)) \/ Network!Boot(marked)
      \/ ~have /\ Network!ApplyFailed(flash, cache)
  BY DEF Network!ApplyStaged
<1>3. have => NetRecord(flash)
  BY LoadedIsRecord DEF BootInv, BootOK
<1>4. BootOK(flash, cache, FALSE, run, asked)
  BY <1>1 DEF BootInv, BootOK
<1>5. have => /\ BootOK(marked, cache, FALSE, run, asked)
              /\ BootOK(marked, Network!Status(marked), FALSE, run, asked)
              /\ \A r2 : \A a2 \in BOOLEAN : (a2 = TRUE => r2 = cache.staged) =>
                   BootOK(marked, Network!Status(marked), a2, r2, asked)
  <2> SUFFICES ASSUME have
               PROVE /\ BootOK(marked, cache, FALSE, run, asked)
                     /\ BootOK(marked, Network!Status(marked), FALSE, run, asked)
                     /\ \A r2 : \A a2 \in BOOLEAN : (a2 = TRUE => r2 = cache.staged) =>
                          BootOK(marked, Network!Status(marked), a2, r2, asked)
    OBVIOUS
  <2>1. marked = Network!After(flash, Network!PendingWrites(flash.stg),
                               Network!Len(Network!PendingWrites(flash.stg)))
    OBVIOUS
  <2>2. NetRecord(flash) /\ cache.staged # Broken /\ Network!Status(flash).staged # Broken
    BY <1>3
  <2> HIDE DEF marked, have
  <2>3. FALSE \in BOOLEAN  OBVIOUS
  <2>4. BootOK(marked, cache, FALSE, run, asked)
        /\ BootOK(marked, Network!Status(marked), FALSE, run, asked)
    BY <1>1, <1>4, <2>1, <2>2, <2>3, BootOKMark
  <2>5. ASSUME NEW a2 \in BOOLEAN, NEW r2, a2 = TRUE => r2 = cache.staged
        PROVE  BootOK(marked, Network!Status(marked), a2, r2, asked)
    BY <1>1, <1>4, <2>1, <2>2, <2>5, BootOKMark
  <2> QED  BY <2>4, <2>5
<1>6. probe \in BOOLEAN  OBVIOUS
<1> HIDE DEF marked, probe, have
<1>7. CASE /\ have /\ flash' = marked /\ cache' = Network!Status(marked)
           /\ run' = (IF probe THEN run ELSE cache.staged) /\ applied' = ~probe /\ asked' = asked
  <2>1. applied' \in BOOLEAN /\ (applied' = TRUE => run' = cache.staged)
    BY <1>6, <1>7
  <2>2. BootOK(marked, Network!Status(marked), applied', run', asked)
    BY <1>5, <1>7, <2>1
  <2> QED  BY <1>7, <2>2, BootPrimed
<1>8. CASE Network!ApplyFailed(flash, cache)
  BY <1>1, <1>4, <1>8, ApplyFailedBoots
<1>9. CASE have /\ Network!ApplyFailed(marked, cache)
  BY <1>1, <1>5, <1>9, ApplyFailedBoots
<1>10. CASE have /\ Network!ApplyFailed(marked, Network!Status(marked))
  BY <1>1, <1>5, <1>10, ApplyFailedBoots
<1>11. CASE have /\ Network!Boot(marked)
  <2>1. SomeRecord(marked) /\ (NetRecord(marked) => Held(marked) \in {Network!Factory} \cup asked)
    BY <1>5, <1>11 DEF BootOK
  <2> QED  BY <1>11, <2>1, BootActionBoots
<1> QED  BY <1>2, <1>7, <1>8, <1>9, <1>10, <1>11

\* Confirming: what becomes active is what ran, wherever the storing ends.
LEMMA ConfirmBoots ==
  ASSUME Network!NetConfigBounds, BootInv, Network!CommitPending
  PROVE  BootInv'
<1> DEFINE ws == Network!ConfirmWrites(flash.pnd)
           kept == Network!Status(flash).staged
<1>1. /\ applied = TRUE /\ cache.pending = TRUE /\ Network!Loads(flash)
      /\ Network!Status(flash).pending = TRUE /\ asked' = asked \cup {run}
  BY StatusMeans DEF BootInv, BootOK, Network!CommitPending
<1>0. NetRecord(flash)  BY <1>1, LoadedIsRecord DEF BootInv, BootOK
<1>2. run = cache.staged /\ run = kept
  BY <1>0, <1>1 DEF BootInv, BootOK
<1>3. PICK e \in Network!Ends(ws) :
        \/ /\ e.how = "ok" /\ flash' = Network!After(flash, ws, e.k)
           /\ cache' = [active |-> kept, staged |-> Broken, pending |-> FALSE]
           /\ applied' = FALSE
        \/ /\ e.how = "error" /\ flash' = Network!After(flash, ws, e.k)
           /\ UNCHANGED <<cache, run, applied>>
        \/ /\ e.how = "restart"
           /\ flash' = Network!Recovered(Network!After(flash, ws, e.k))
           /\ cache' = Network!Status(Network!Recovered(Network!After(flash, ws, e.k)))
           /\ applied' = FALSE
  BY DEF Network!CommitPending, Network!Ok, Network!Err, Network!Cut
<1>4. e.k \in 0..3
  <2>1. 3 \in Nat  OBVIOUS
  <2>2. Network!Len(ws) = 3  BY Lengths
  <2> HIDE DEF ws
  <2> QED  BY <1>3, <2>1, <2>2, EndsMean
<1> DEFINE f == Network!After(flash, ws, e.k)
<1>5. /\ NetRecord(f) /\ Held(f) \in {Held(flash), kept}
      /\ e.k = 0 => Network!Status(f) = Network!Status(flash)
      /\ e.k # 0 => Network!Status(f).pending = FALSE
  BY <1>0, <1>1, <1>4, Confirmed
<1>6. Held(f) \in {Network!Factory} \cup asked'
  BY <1>0, <1>1, <1>2, <1>5 DEF BootInv, BootOK
<1> HIDE DEF f, kept, ws
<1>7. CASE e.how = "ok" /\ flash' = f /\ applied' = FALSE
           /\ cache' = [active |-> kept, staged |-> Broken, pending |-> FALSE]
  <2>1. /\ cache'.staged = Broken /\ cache'.pending = FALSE
        /\ cache' = [active |-> cache'.active, staged |-> cache'.staged, pending |-> cache'.pending]
    BY <1>7
  <2>2. BootOK(f, cache', FALSE, run', asked')
    BY <1>5, <1>6, <2>1 DEF BootOK, SomeRecord
  <2> QED  BY <1>7, <2>2, BootPrimed
<1>8. CASE e.how = "error" /\ flash' = f /\ UNCHANGED <<cache, run, applied>>
  <2>1. Network!Status(f).pending = TRUE => cache.staged = Network!Status(f).staged
    BY <1>2, <1>5 DEF kept
  <2>2. BootOK(f, cache, applied, run, asked')
    BY <1>1, <1>2, <1>5, <1>6, <2>1 DEF BootInv, BootOK, SomeRecord
  <2> QED  BY <1>8, <2>2, BootPrimed
<1>9. CASE /\ flash' = Network!Recovered(f) /\ cache' = Network!Status(Network!Recovered(f))
           /\ applied' = FALSE
  <2>1. BootOK(Network!Recovered(f), Network!Status(Network!Recovered(f)), FALSE, run', asked')
    BY <1>5, <1>6, BootOKBoot DEF SomeRecord
  <2> QED  BY <1>9, <2>1, BootPrimed
<1> QED  BY <1>3, <1>7, <1>8, <1>9 DEF f

\* A rollback, asked for or timed out.
LEMMA RollbackBoots ==
  ASSUME Network!NetConfigBounds, BootInv, Network!RollbackPending
  PROVE  BootInv'
<1>1. PICK e \in Network!Ends(Network!ClearWrites) :
        IF e.how = "restart" THEN Network!Boot(Network!After(flash, Network!ClearWrites, e.k))
        ELSE Network!Undo(e)
  BY DEF Network!RollbackPending, Network!Cut
<1>2. e.k \in 0..2  BY ClearEnds
<1>3. CASE e.how = "restart"  BY <1>1, <1>2, <1>3, CutClearBoots
<1>4. CASE e.how # "restart"
  <2>1. /\ flash' = Network!After(flash, Network!ClearWrites, e.k)
        /\ cache' \in {cache, Network!RolledBack} /\ applied' = FALSE /\ asked' = asked
    BY <1>1, <1>4 DEF Network!Undo
  <2>2. applied' \in BOOLEAN  BY <2>1
  <2> QED  BY <1>2, <2>1, <2>2, UndoBoots
<1> QED  BY <1>3, <1>4

\* Another try to store a rollback.
LEMMA RetryBoots ==
  ASSUME Network!NetConfigBounds, BootInv, Network!RetryPersist
  PROVE  BootInv'
<1>1. PICK e \in Network!Ends(Network!ClearWrites) :
        IF e.how = "restart" THEN Network!Boot(Network!After(flash, Network!ClearWrites, e.k))
        ELSE /\ flash' = Network!After(flash, Network!ClearWrites, e.k)
             /\ cache' \in {cache, Network!RolledBack}
             /\ UNCHANGED <<run, applied, asked>>
  BY DEF Network!RetryPersist, Network!Cut
<1>2. e.k \in 0..2  BY ClearEnds
<1>3. CASE e.how = "restart"  BY <1>1, <1>2, <1>3, CutClearBoots
<1>4. CASE e.how # "restart"
  <2>1. applied' \in BOOLEAN  BY <1>1, <1>4 DEF BootInv, BootOK
  <2> QED  BY <1>1, <1>2, <1>4, <2>1, UndoBoots
<1> QED  BY <1>3, <1>4

\* A reset, stored, cut off or given up.
LEMMA ResetBoots ==
  ASSUME Network!NetConfigBounds, BootInv, Network!ResetConfig
  PROVE  BootInv'
<1> DEFINE erased == [s1 |-> Broken, s2 |-> Broken, act |-> 0, stg |-> 0, pnd |-> 0]
           left == {flash, erased, [erased EXCEPT !.s1 = Network!Factory]}
<1>0. \A f \in left : f = flash \/ (SomeRecord(f) /\ ~NetRecord(f))
  <2> SUFFICES ASSUME NEW f, f = erased \/ f = [erased EXCEPT !.s1 = Network!Factory]
               PROVE  SomeRecord(f) /\ ~NetRecord(f)
    OBVIOUS
  <2>1. DOMAIN f = {"s1", "s2", "act", "stg", "pnd"} /\ f.act = 0  OBVIOUS
  <2> QED  BY <2>1 DEF SomeRecord, NetRecord
<1>1. \/ /\ flash' = Network!FactoryRecord /\ cache' = Network!Status(Network!FactoryRecord)
         /\ applied' = FALSE /\ asked' = asked
      \/ \E f \in left : Network!Boot(f)
      \/ flash' \in left /\ applied' = FALSE /\ UNCHANGED <<cache, asked>>
  BY DEF Network!ResetConfig
<1> HIDE DEF left
<1>2. CASE /\ flash' = Network!FactoryRecord /\ cache' = Network!Status(Network!FactoryRecord)
           /\ applied' = FALSE /\ asked' = asked
  <2>1. BootOK(Network!FactoryRecord, Network!Status(Network!FactoryRecord), FALSE, run', asked)
    BY FactoryIsARecord, StatusMeans DEF BootOK, SomeRecord
  <2> QED  BY <1>2, <2>1, BootPrimed
<1>3. CASE \E f \in left : Network!Boot(f)
  <2>1. PICK f \in left : Network!Boot(f)  BY <1>3
  <2>2. SomeRecord(f) /\ (NetRecord(f) => Held(f) \in {Network!Factory} \cup asked)
    BY <1>0, <2>1 DEF BootInv, BootOK
  <2> QED  BY <2>1, <2>2, BootActionBoots
<1>4. CASE flash' \in left /\ applied' = FALSE /\ UNCHANGED <<cache, asked>>
  <2>1. BootOK(flash', cache, FALSE, run', asked)
    <3>1. CASE flash' = flash  BY <3>1 DEF BootInv, BootOK
    <3>2. CASE SomeRecord(flash') /\ ~NetRecord(flash')
      BY <3>2 DEF BootInv, BootOK
    <3> QED  BY <1>0, <1>4, <3>1, <3>2
  <2> QED  BY <1>4, <2>1, BootPrimed
<1> QED  BY <1>1, <1>2, <1>3, <1>4

\* The end of a probe.
LEMMA FinishBoots ==
  ASSUME Network!NetConfigBounds, BootInv, Network!FinishAcd
  PROVE  BootInv'
<1>1. CASE Network!UseProbed
  <2>1. run' = cache.staged /\ applied' = TRUE /\ UNCHANGED <<flash, cache, asked>>
    BY <1>1 DEF Network!UseProbed
  <2>2. BootOK(flash, cache, TRUE, cache.staged, asked)  BY DEF BootInv, BootOK
  <2> QED  BY <2>1, <2>2, BootPrimed
<1>2. CASE \E tried \in BOOLEAN : Network!DropProbed(tried)
  <2>2. PICK e \in (IF cache.staged = Broken THEN {[how |-> "ok", k |-> 0]}
                    ELSE Network!Ends(Network!ClearWrites)) :
        IF e.how = "restart" THEN Network!Boot(Network!After(flash, Network!ClearWrites, e.k))
        ELSE Network!Undo(e)
    BY <1>2 DEF Network!DropProbed, Network!Cut, Network!Ok
  <2>3. e.k \in 0..2
    <3>1. CASE cache.staged = Broken  BY <3>1
    <3>2. CASE cache.staged # Broken  BY <3>2, ClearEnds
    <3> QED  BY <3>1, <3>2
  <2>4. CASE e.how = "restart"  BY <2>2, <2>3, <2>4, CutClearBoots
  <2>5. CASE e.how # "restart"
    <3>1. /\ flash' = Network!After(flash, Network!ClearWrites, e.k)
          /\ cache' \in {cache, Network!RolledBack} /\ applied' = FALSE /\ asked' = asked
      BY <2>2, <2>5 DEF Network!Undo
    <3>2. applied' \in BOOLEAN  BY <3>1
    <3> QED  BY <2>3, <3>1, <3>2, UndoBoots
  <2> QED  BY <2>4, <2>5
<1> QED  BY <1>1, <1>2 DEF Network!FinishAcd

\* A step that changes none of it.
LEMMA BootStutters ==
  ASSUME BootInv, UNCHANGED <<flash, cache, applied, run, asked>>
  PROVE  BootInv'
BY BootPrimed DEF BootInv

\* Every step keeps what a boot needs, but a stage given up over an older one.
LEMMA BootStep ==
  ASSUME Network!NetConfigBounds, BootInv, Network!Next, "stage" \notin mishap'
  PROVE  BootInv'
<1>1. CASE Network!Restart
  <2>1. SomeRecord(flash) /\ (NetRecord(flash) => Held(flash) \in {Network!Factory} \cup asked)
    BY DEF BootInv, BootOK
  <2> QED  BY <1>1, <2>1, BootActionBoots DEF Network!Restart
<1>2. CASE \E c \in Static \cup Dhcp : Network!Stage(c)  BY <1>2, StageBoots
<1>3. CASE Network!ApplyStaged  BY <1>3, ApplyBoots
<1>4. CASE Network!CommitPending  BY <1>4, ConfirmBoots
<1>5. CASE Network!Rollback \/ Network!Timeout
  BY <1>5, RollbackBoots DEF Network!Rollback, Network!Timeout
<1>6. CASE Network!RetryPersist  BY <1>6, RetryBoots
<1>7. CASE Network!ResetConfig  BY <1>7, ResetBoots
<1>8. CASE Network!FinishAcd  BY <1>8, FinishBoots
<1>9. CASE Network!AcdCallback \/ Network!AcdTimeout \/ Network!Link
  BY <1>9, BootStutters DEF Network!AcdCallback, Network!AcdTimeout, Network!Link
<1> QED  BY <1>1, <1>2, <1>3, <1>4, <1>5, <1>6, <1>7, <1>8, <1>9 DEF Network!Next

\* The device starts with the factory record, which is all a boot needs.
LEMMA BootInitially ==
  ASSUME Network!NetConfigBounds, Network!Init
  PROVE  BootInv
<1>1. /\ flash = Network!FactoryRecord /\ cache = Network!Status(Network!FactoryRecord)
      /\ applied = FALSE
  BY DEF Network!Init
<1>2. BootOK(Network!FactoryRecord, Network!Status(Network!FactoryRecord), FALSE, run, asked)
  BY FactoryIsARecord, StatusMeans DEF BootOK, SomeRecord
<1> QED  BY <1>1, <1>2 DEF BootInv

\* What it says of a restart.
LEMMA BootMeaning ==
  ASSUME Network!NetConfigBounds, BootInv
  PROVE  Network!BootsConfirmed
<1>1. SomeRecord(flash) /\ (NetRecord(flash) => Held(flash) \in {Network!Factory} \cup asked)
  BY DEF BootInv, BootOK
<1>2. BootOK(Network!Recovered(flash), Network!Status(Network!Recovered(flash)), FALSE, run, asked)
  BY <1>1, BootOKBoot
<1>3. NetRecord(Network!Recovered(flash))
  <2>1. CASE ~Network!Loads(flash)
    BY <2>1, FactoryIsARecord DEF Network!Recovered
  <2>2. CASE Network!Loads(flash) /\ ~Network!Status(flash).pending
    BY <1>1, <2>2, LoadedIsRecord DEF Network!Recovered
  <2>3. CASE Network!Loads(flash) /\ Network!Status(flash).pending
    <3>0. NetRecord(flash)  BY <1>1, <2>3, LoadedIsRecord
    <3>1. Network!Recovered(flash) = [flash EXCEPT !.stg = 0, !.pnd = 0]
      BY <2>3 DEF Network!Recovered
    <3>2. Network!Recovered(flash).act # 0
      BY <3>0, <3>1 DEF NetRecord
    <3> QED  BY <1>2, <3>2 DEF BootOK, SomeRecord
  <2> QED  BY <2>1, <2>2, <2>3
<1> QED  BY <1>2, <1>3, StatusMeans DEF BootOK, Network!BootsConfirmed

\* What the invariant says of a restart and of the interface.
LEMMA NetworkMeaning ==
  ASSUME NetInv
  PROVE  Network!NoAddressInUse /\ Network!IdleRunsActive /\ Network!SnapshotIsTheRecord
<1>1. NetRecord(flash) /\ cache.pending \in BOOLEAN /\ refused \in BOOLEAN
  BY DEF NetInv, NetTypes
<1>2. Network!Status(Network!Recovered(flash)).active = Held(flash)
  <2>1. Network!Loads(flash)  BY <1>1, RecordLoads
  <2>2. CASE Network!Status(flash).pending
    <3>1. Network!Recovered(flash) = [flash EXCEPT !.stg = 0, !.pnd = 0]
      BY <2>1, <2>2 DEF Network!Recovered
    <3>2. DOMAIN flash = Names  BY <1>1 DEF NetRecord, Names
    <3>3. /\ Network!Recovered(flash).act = flash.act
          /\ Network!Recovered(flash).s1 = flash.s1 /\ Network!Recovered(flash).s2 = flash.s2
      BY <3>1, <3>2 DEF Names
    <3>4. Held(Network!Recovered(flash)) = Held(flash)  BY <3>3, SameRecord
    <3> QED  BY <3>4, StatusMeans
  <2>3. CASE ~Network!Status(flash).pending
    <3>1. Network!Recovered(flash) = flash  BY <2>1, <2>3 DEF Network!Recovered
    <3> QED  BY <3>1, StatusMeans
  <2> QED  BY <2>2, <2>3
<1>3. Network!NoAddressInUse /\ Network!SnapshotIsTheRecord
  BY <1>2 DEF NetInv, HeldIsConfirmed, Network!NoAddressInUse, Network!SnapshotIsTheRecord
<1>4. Network!IdleRunsActive
  BY <1>1 DEF NetInv, RunsActive, Network!IdleRunsActive
<1> QED  BY <1>3, <1>4

-----------------------------------------------------------------------------
(* The parts together. *)

\* A behaviour begins in one part.
LEMMA InitOfPart ==
  ASSUME Init
  PROVE  /\ part = "files" => Files!RepositoryInit
         /\ part = "history" => History!WriterInit
         /\ part = "settings" => Settings!Init
         /\ part = "schema" => Schema!Init
         /\ part = "account" => Account!Init
         /\ part = "codes" => Codes!Init
         /\ part = "keys" => PassKeys!Init
         /\ part = "network" => Network!Init
BY Zenon DEF Init

\* It stays there, and takes that part's steps.
LEMMA StepOfPart ==
  ASSUME Next
  PROVE  /\ part' = part
         /\ part = "files" => Files!RepositoryNext
         /\ part = "history" => History!Next
         /\ part = "settings" => Settings!Next
         /\ part = "schema" => Schema!Next
         /\ part = "account" => Account!Next
         /\ part = "codes" => Codes!Next
         /\ part = "keys" => PassKeys!Next
         /\ part = "network" => Network!Next
BY Zenon DEF Next

\* The agent's files and their writer (agent_repository.c,
\* agent_history_writer.c): an acknowledged memory is read back; the newest
\* checkpoint is there, or none is, and that only after a write broke off between
\* its remove and its rename; a record is in the history at most once and in
\* order and a turn that was answered "saved" is read back, but for records that
\* went behind a torn line; the queue has room for every claimed slot; a caller
\* that was woken and has the slots' lock gets its answer.  For all callers,
\* turns, slots, torn lines and numbers of faults.
THEOREM HistoryStaysKept ==
  ASSUME Files!FilesBounds, History!WriterBounds
  PROVE  Spec => []HistoryIsKept
<1> DEFINE IInv == (part = "files" => FileInv) /\ (part = "history" => HistInv)
<1>1. Init => IInv
  BY InitOfPart, FilesInitially, HistoryInitially
<1>2. IInv /\ [Next]_vars => IInv'
  <2> SUFFICES ASSUME IInv, [Next]_vars PROVE IInv'  OBVIOUS
  <2>1. CASE Next
    BY <2>1, StepOfPart, FilesStep, HistoryStep
  <2>2. CASE UNCHANGED vars
    <3>1. part' = part /\ UNCHANGED fileVars /\ UNCHANGED writerVars /\ UNCHANGED <<lock, faults>>
      BY <2>2 DEF vars
    <3>2. FileInv => FileInv'
      BY <3>1 DEF fileVars, FileInv, FileTypes, MemoryLines, CheckpointIsNewest,
                  Files!StoredMemoryIsRead, Files!Holds, Files!Checkpoints, Files!NoCheckpoint,
                  Files!Unlocked
    <3>3. PoolInv => PoolInv'
      BY <3>1 DEF writerVars, PoolInv, SlotTypes, CallerTypes, CallerHasItsSlot,
                  QueueIsOfQueued, WorkerHasItsSlot, Pool, History!Pool
    <3>4. TurnsAreKept => TurnsAreKept'
      BY <3>1, TurnsStay DEF writerVars, fileVars
    <3> QED  BY <3>1, <3>2, <3>3, <3>4 DEF HistInv
  <2> QED  BY <2>1, <2>2
<1>3. IInv => HistoryIsKept
  BY FilesMeaning, HistoryMeaning DEF HistoryIsKept
<1> QED  BY <1>1, <1>2, <1>3, PTL DEF Spec

\* The settings store and the schema of the settings (settings_store.c,
\* settings_schema.c): a caller gets the result of its own operation, what is
\* marked as configured can be read, and data that a migration left half-way are
\* marked, for all tasks, values, images and numbers of faults.
THEOREM SettingsStaySound ==
  ASSUME Settings!SettingsBounds, Schema!SchemaBounds
  PROVE  Spec => []SettingsAreSound
<1> DEFINE IInv == (part = "settings" => SettingsInv) /\ (part = "schema" => SchemaInv)
<1>1. Init => IInv
  BY InitOfPart, SettingsInitially, SchemaInitially
<1>2. IInv /\ [Next]_vars => IInv'
  <2> SUFFICES ASSUME IInv, [Next]_vars PROVE IInv'  OBVIOUS
  <2>1. CASE Next
    BY <2>1, StepOfPart, SettingsStep, SchemaStep
  <2>2. CASE UNCHANGED vars
    <3>1. part' = part /\ UNCHANGED settingsVars /\ UNCHANGED schemaVars
          /\ lock' = lock /\ pc' = pc
      BY <2>2 DEF vars
    <3>2. SettingsInv => SettingsInv'
      BY <3>1 DEF settingsVars, SettingsInv, SettingsTypes, WaiterHoldsTheLock,
                  ResultIsTheHolders
    <3>3. SchemaInv => SchemaInv'
      BY <3>1 DEF schemaVars, SchemaInv, SchemaTypes, UnversionedIsOwn, RecordIsBehind,
                  BootKnows
    <3> QED  BY <3>1, <3>2, <3>3
  <2> QED  BY <2>1, <2>2
<1>3. IInv => SettingsAreSound
  BY SettingsMeaning, SchemaMeaning DEF SettingsAreSound
<1> QED  BY <1>1, <1>2, <1>3, PTL DEF Spec

\* The second factors (two_step.c, passkey.c): no code and no challenge is taken
\* twice, and every session proved the factor in force, over restarts, failed
\* writes and races with a disable, for all numbers of them.
THEOREM FactorsAreGoodOnce ==
  ASSUME Codes!TwoStepBounds, PassKeys!PasskeyBounds
  PROVE  Spec => []FactorIsGoodOnce
<1> DEFINE IInv == (part = "codes" => CodeInv) /\ (part = "keys" => KeyInv)
<1>1. Init => IInv
  BY InitOfPart, CodesInitially, KeysInitially
<1>2. IInv /\ [Next]_vars => IInv'
  <2> SUFFICES ASSUME IInv, [Next]_vars PROVE IInv'  OBVIOUS
  <2>1. CASE Next
    BY <2>1, StepOfPart, CodesStep, KeysStep
  <2>2. CASE UNCHANGED vars
    <3>1. /\ part' = part /\ UNCHANGED codeVars /\ UNCHANGED keyVars
          /\ UNCHANGED <<flash, ok, pend, login, gen, sess, granted>>
      BY <2>2 DEF vars
    <3>2. CodeInv => CodeInv'
      BY <3>1 DEF codeVars, CodeInv, CodeTypes, SecretsAreDrawn, GrantedIsSpent, SpentIn,
                  ProvedTheRecord, Codes!MemoryIsTheRecord
    <3>3. KeyInv => KeyInv'
      BY <3>1 DEF keyVars, KeyInv, KeyTypes, GrantedIsRemembered, HaveTheirKey,
                  PassKeys!KeysAreTheRecord
    <3> QED  BY <3>1, <3>2, <3>3
  <2> QED  BY <2>1, <2>2
<1>3. IInv => FactorIsGoodOnce
  BY CodesMeaning, KeysMeaning DEF FactorIsGoodOnce
<1> QED  BY <1>1, <1>2, <1>3, PTL DEF Spec

\* The local account (auth_service.c): an account with an owner is not offered for
\* set-up, wherever a write fails or the device restarts; the password that was
\* acknowledged works until a later write breaks off between its keys; and no
\* session outlives its password, but for a restart between the change and the
\* revocation.
THEOREM AcknowledgedPasswordHolds ==
  ASSUME Account!CredentialsBounds
  PROVE  Spec => []PasswordIsWhatWasAcknowledged
<1> DEFINE IInv == part = "account" => AccountInv
<1>1. Init => IInv
  BY InitOfPart, AccountInitially
<1>2. IInv /\ [Next]_vars => IInv'
  <2> SUFFICES ASSUME IInv, [Next]_vars PROVE IInv'  OBVIOUS
  <2>1. CASE Next
    BY <2>1, StepOfPart, AccountStep
  <2>2. CASE UNCHANGED vars
    <3>1. part' = part /\ UNCHANGED accountVars /\ UNCHANGED <<flash, gen, sess>>
      BY <2>2 DEF vars
    <3>2. AccountTypes /\ WriteIsInOrder => AccountTypes' /\ WriteIsInOrder'
      BY <3>1 DEF accountVars, AccountTypes, WriteIsInOrder, WrittenTo
    <3>3. OwnedIsNotBootstrap /\ AckedIsStored => OwnedIsNotBootstrap' /\ AckedIsStored'
      BY <3>1 DEF accountVars, OwnedIsNotBootstrap, AckedIsStored
    <3>4. LoginIsFenced /\ ChangeIsFenced /\ SessionsAreOfThisEpoch =>
            LoginIsFenced' /\ ChangeIsFenced' /\ SessionsAreOfThisEpoch'
      BY Zenon, <3>1 DEF accountVars, LoginIsFenced, ChangeIsFenced, SessionsAreOfThisEpoch
    <3> QED  BY <3>1, <3>2, <3>3, <3>4 DEF AccountInv
  <2> QED  BY <2>1, <2>2
<1>3. IInv => PasswordIsWhatWasAcknowledged
  BY AccountMeaning DEF PasswordIsWhatWasAcknowledged
<1> QED  BY <1>1, <1>2, <1>3, PTL DEF Spec

\* The network configuration (network_settings.c, net_manager.c): wherever the
\* storing of a change is cut off or given up, a restart brings up what somebody
\* confirmed, unless a stage was given up over an older one.  As long as no stage,
\* confirmation or reset was given up half-way and no retry erased a newer trial, no
\* address in use goes on the interface unless it could not be probed, and what is
\* reported is what is stored and runs.
THEOREM NetworkStaysConfirmed ==
  ASSUME Network!NetConfigBounds
  PROVE  Spec => []NetworkIsConfirmed
<1> DEFINE IInv == part = "network" =>
                     /\ mishap = {} => NetInv
                     /\ "stage" \notin mishap => BootInv
<1>1. Init => IInv
  BY InitOfPart, NetworkInitially, BootInitially
<1>2. IInv /\ [Next]_vars => IInv'
  <2> SUFFICES ASSUME IInv, [Next]_vars PROVE IInv'  OBVIOUS
  <2>1. CASE Next
    <3> SUFFICES ASSUME part = "network"
                 PROVE  /\ mishap' = {} => NetInv'
                        /\ "stage" \notin mishap' => BootInv'
      BY <2>1, StepOfPart
    <3>1. Network!Next  BY <2>1, StepOfPart
    <3>2. CASE mishap \subseteq mishap'
      <4>1. mishap' = {} => NetInv'  BY <3>1, <3>2, NetworkStep
      <4>2. "stage" \notin mishap' => BootInv'  BY <3>1, <3>2, BootStep
      <4> QED  BY <4>1, <4>2
    <3>3. CASE /\ flash' = Network!FactoryRecord
               /\ cache' = Network!Status(Network!FactoryRecord)
               /\ run' = Network!Factory /\ refused' = FALSE /\ applied' = FALSE
               /\ conf' = FALSE /\ persist' = FALSE /\ acd' = "idle"
      <4>1. NetInv'  BY <3>3, CleanReset
      <4>2. BootOK(Network!FactoryRecord, Network!Status(Network!FactoryRecord), FALSE, run', asked')
        BY FactoryIsARecord, StatusMeans DEF BootOK, SomeRecord
      <4>3. BootInv'  BY <3>3, <4>2, BootPrimed
      <4> QED  BY <4>1, <4>3
    <3> QED  BY <3>1, <3>2, <3>3, MishapsStay
  <2>2. CASE UNCHANGED vars
    <3>1. /\ part' = part /\ mishap' = mishap
          /\ UNCHANGED <<flash, cache, run, refused, applied, conf, persist, acd, probed,
                         asked, blind>>
      BY <2>2 DEF vars, networkVars
    <3>2. NetInv => NetInv'  BY <3>1, NetworkStutters
    <3>3. BootInv => BootInv'  BY <3>1, BootStutters
    <3> QED  BY <3>1, <3>2, <3>3
  <2> QED  BY <2>1, <2>2
<1>3. IInv => NetworkIsConfirmed
  BY NetworkMeaning, BootMeaning DEF NetworkIsConfirmed
<1> QED  BY <1>1, <1>2, <1>3, PTL DEF Spec
=============================================================================
