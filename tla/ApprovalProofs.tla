--------------------------- MODULE ApprovalProofs ---------------------------
(***************************************************************************)
(* What allows and stops the agent's actions, for every value of the       *)
(* constants.                                                              *)
(*                                                                         *)
(* The gate between the automation, the operator and the maintenance, for  *)
(* any resources and channels and a counter of any width.  Its inductive   *)
(* invariant GateInv ties a slot to the task that occupies it, the run of  *)
(* an operation to the agent's present run, the operator's permission to   *)
(* the lock, and, as long as the counter has not gone round, the number    *)
(* the page read to the operation it read it of.                           *)
(*                                                                         *)
(* The request broker for any table, any requests and any times.  Between  *)
(* two resets a record only moves forward (Moved); BrokerInv ties the      *)
(* history of the effects to the records that stand for them as            *)
(* tombstones, a grant to the decision at its root, and the snapshot to    *)
(* the table it was taken of.                                              *)
(***************************************************************************)
EXTENDS AutomationGate, RequestBroker, FiniteSetTheorems, WellFoundedInduction, TLAPS

-----------------------------------------------------------------------------
(* The gate. *)

SlotType == [on: BOOLEAN, cancel: BOOLEAN, cancellable: BOOLEAN, gen: Nat,
             actor: Actors \cup {"system", None}, run: Nat]
TaskType == [pc: {"idle", "locking", "working", "ending"},
             slot: Slots \cup {None}, gen: Nat]
PageType == [slot: Slots \cup Leases, gen: Nat, serial: Nat]

\* The types of the variables.
Types ==
  /\ slot \in [Slots -> SlotType]
  /\ serial \in [Slots -> Nat] /\ asked \in [Slots -> BOOLEAN]
  /\ task \in [Actors -> TaskType]
  /\ run \in [id: Nat, on: BOOLEAN, abort: BOOLEAN, asked: BOOLEAN, swept: BOOLEAN]
  /\ page \in PageType \cup {None} /\ abort \in Nat
  /\ hand \in {"idle", "waiting", "locked", "allowed"}
  /\ lock \in {None, "operator"}
  /\ typed \in BOOLEAN

\* How far the maintenance request is, and that its slot still has a number for it.
RequestOK ==
  /\ DOMAIN sys = {"pc", "todo"}
  /\ sys.pc \in {"idle", "stopping", "quieting", "beginning", "maintaining"}
  /\ sys.pc \in {"stopping", "quieting", "beginning"} => serial[Maint] < MaxMaint

\* A task that is not idle occupies its slot, which is not the maintenance's.
TaskHasItsSlot ==
  \A a \in Actors : task[a].pc # "idle" =>
    /\ task[a].slot \in Resources \cup Channels
    /\ slot[task[a].slot].on /\ slot[task[a].slot].actor = a
    /\ slot[task[a].slot].gen = task[a].gen

\* An operation that names a run is the one the agent has now, in that run.
RunOfSlot ==
  \A s \in Slots : slot[s].on /\ slot[s].run # 0 =>
    /\ run.on /\ slot[s].run = run.id
    /\ task["agent"].pc # "idle" /\ task["agent"].slot = s

\* The operator has the lock from the second check to the write, and is allowed
\* to write only while no operation works on the line.
HandHasLock ==
  /\ lock = "operator" <=> hand \in {"locked", "allowed"}
  /\ hand = "allowed" =>
       \A a \in Actors : ~(task[a].slot = Uart /\ task[a].pc = "working")

\* No slot has had more operations than its counter has numbers.
Fresh == \A s \in Slots : serial[s] < GenMod

\* Until it goes round, the counter tells the operations of a slot apart.
CounterTells ==
  /\ \A s \in Slots :
       slot[s].gen < GenMod /\ (serial[s] < GenMod => slot[s].gen = serial[s])
  /\ Fresh =>
    /\ page # None => page.gen = page.serial
    /\ StopHitsWhatItNamed /\ AbortHitsItsRun
    /\ abort <= run.id /\ (abort # 0 /\ abort = run.id => run.asked)

GateInv ==
  /\ Types /\ RequestOK /\ TaskHasItsSlot /\ RunOfSlot /\ HandHasLock
  /\ CounterTells /\ MaintenanceIsAlone /\ HasANumber /\ NoTypingIntoOperations

\* The leases have epochs, and the page is stopping one of them or none.
LeasesOK ==
  /\ leases \in [Leases -> [on: BOOLEAN, gen: Nat, actor: Actors \cup {None}]]
  /\ stopper = Stopped \/ stopper.of \in Leases

-----------------------------------------------------------------------------
\* The next generation is not zero, and one more as long as the counter has room.
LEMMA NextGenCounts ==
  ASSUME GateBounds, NEW g \in Nat
  PROVE  /\ NextGen(g) \in Nat /\ NextGen(g) # 0 /\ NextGen(g) < GenMod
         /\ g + 1 < GenMod => NextGen(g) = g + 1
<1>1. GenMod \in Nat /\ GenMod > 1 /\ g + 1 \in Nat
  BY DEF GateBounds
<1>2. (g + 1) % GenMod \in Nat /\ (g + 1) % GenMod < GenMod
  BY <1>1
<1>3. g + 1 < GenMod => (g + 1) % GenMod = g + 1
  BY <1>1
<1> QED BY <1>1, <1>2, <1>3 DEF NextGen

\* The invariant holds initially.
LEMMA GateInitIsSafe == ASSUME GateBounds, GateInit PROVE GateInv
<1> USE DEF GateInit, Vacant, AtRest, NoRequest
<1>1. Types
  BY DEF Types, SlotType, TaskType, PageType, Slots, Actors
<1>2. RequestOK
  BY DEF RequestOK
<1>3. TaskHasItsSlot /\ RunOfSlot /\ HandHasLock
  BY DEF TaskHasItsSlot, RunOfSlot, HandHasLock, GateBounds
<1>4. CounterTells
  BY DEF CounterTells, Fresh, StopHitsWhatItNamed, AbortHitsItsRun, GateBounds
<1>5. MaintenanceIsAlone /\ HasANumber /\ NoTypingIntoOperations
  BY DEF MaintenanceIsAlone, HasANumber, NoTypingIntoOperations, Slots
<1> QED BY <1>1, <1>2, <1>3, <1>4, <1>5 DEF GateInv

\* A new run of the agent: an abort that is still on its way is of an older one.
LEMMA StartRunIsSafe == ASSUME GateBounds, GateInv, StartRun PROVE GateInv'
<1> USE DEF GateInv
<1>0. /\ run' = [id |-> run.id + 1, on |-> TRUE, abort |-> FALSE, asked |-> FALSE,
                swept |-> FALSE]
      /\ UNCHANGED <<slot, serial, asked, task, page, abort, hand, lock, typed, sys>>
      /\ ~run.on /\ run.id \in Nat /\ abort \in Nat
  BY DEF StartRun, Types
<1>1. Types'
  BY <1>0 DEF Types
<1>2. RequestOK' /\ TaskHasItsSlot' /\ HandHasLock'
  BY <1>0 DEF RequestOK, TaskHasItsSlot, HandHasLock
<1>3. RunOfSlot'
  BY <1>0 DEF RunOfSlot
<1>4. CounterTells'
  <2>1. run'.id = run.id + 1 /\ ~run'.abort
    BY <1>0
  <2>2. Fresh => abort' <= run'.id /\ abort' # run'.id
    BY <1>0, <2>1 DEF CounterTells
  <2> QED BY <1>0, <2>1, <2>2 DEF CounterTells, Fresh, StopHitsWhatItNamed, AbortHitsItsRun
<1>5. MaintenanceIsAlone' /\ HasANumber' /\ NoTypingIntoOperations'
  BY <1>0 DEF MaintenanceIsAlone, HasANumber, NoTypingIntoOperations
<1> QED BY <1>1, <1>2, <1>3, <1>4, <1>5

\* The end of a run, between two operations of the agent.
LEMMA EndRunIsSafe == ASSUME GateBounds, GateInv, EndRun PROVE GateInv'
<1> USE DEF GateInv
<1>0. /\ run' = [run EXCEPT !.on = FALSE] /\ task["agent"].pc = "idle"
      /\ UNCHANGED <<slot, serial, asked, task, page, abort, hand, lock, typed, sys>>
  BY DEF EndRun
<1>1. Types'
  BY <1>0 DEF Types
<1>2. RequestOK' /\ TaskHasItsSlot' /\ HandHasLock'
  BY <1>0 DEF RequestOK, TaskHasItsSlot, HandHasLock
<1>3. RunOfSlot'
  BY <1>0 DEF RunOfSlot
<1>4. CounterTells'
  <2>1. run'.id = run.id /\ run'.abort = run.abort /\ run'.asked = run.asked
        /\ run'.swept = run.swept
    BY <1>0 DEF Types
  <2> QED BY <1>0, <2>1 DEF CounterTells, Fresh, StopHitsWhatItNamed, AbortHitsItsRun
<1>5. MaintenanceIsAlone' /\ HasANumber' /\ NoTypingIntoOperations'
  BY <1>0 DEF MaintenanceIsAlone, HasANumber, NoTypingIntoOperations
<1> QED BY <1>1, <1>2, <1>3, <1>4, <1>5

\* Of a slot that an actor other than the system has begun to occupy.
LEMMA BeginIsSafe ==
  ASSUME GateBounds, GateInv, NEW a \in Actors, NEW s \in Resources \cup Channels,
         Begin(a, s)
  PROVE  GateInv'
<1> DEFINE g == NextGen(slot[s].gen)
           n == IF a = "agent" THEN run.id ELSE 0
           x == [on |-> TRUE, cancel |-> FALSE, actor |-> a,
                 cancellable |-> TRUE, gen |-> g, run |-> n]
           y == [pc |-> IF s = Uart THEN "locking" ELSE "working",
                 slot |-> s, gen |-> g]
<1> USE DEF GateInv
<1>0. /\ slot' = [slot EXCEPT ![s] = x]
      /\ serial' = [serial EXCEPT ![s] = @ + 1]
      /\ asked' = [asked EXCEPT ![s] = FALSE]
      /\ task' = [task EXCEPT ![a] = y]
      /\ task[a].pc = "idle" /\ serial[s] < MaxOps /\ ~slot[s].on
      /\ a = "agent" => run.on
      /\ UNCHANGED <<run, page, abort, hand, lock, typed, sys>>
  BY DEF Begin, Occupy, MayBegin
<1>m. s \in Resources => ~slot[Maint].on
  BY DEF Begin, MayBegin
<1>1. /\ s \in Slots /\ s # Maint /\ g \in Nat /\ g # 0 /\ g < GenMod
      /\ serial[s] + 1 < GenMod /\ slot[s].gen = serial[s] => g = serial[s] + 1
      /\ n \in Nat
  BY NextGenCounts DEF Types, SlotType, Slots, GateBounds
<1> HIDE DEF g, n
<1>2. x \in SlotType /\ y \in TaskType
  BY <1>1 DEF SlotType, TaskType
<1>3. /\ x.on /\ ~x.cancel /\ x.actor = a /\ x.gen = g /\ x.run = n
      /\ y.slot = s /\ y.gen = g /\ y.pc # "idle"
      /\ y.pc = "working" => s # Uart
  OBVIOUS
<1> HIDE DEF x, y
<1>4. /\ slot'[s] = x /\ \A r \in Slots : r # s => slot'[r] = slot[r]
      /\ serial'[s] = serial[s] + 1
      /\ \A r \in Slots : r # s => serial'[r] = serial[r]
      /\ ~asked'[s] /\ \A r \in Slots : r # s => asked'[r] = asked[r]
      /\ task'[a] = y /\ \A b \in Actors : b # a => task'[b] = task[b]
  BY <1>0, <1>1 DEF Types
<1>5. Types'
  <2>1. slot' \in [Slots -> SlotType] /\ task' \in [Actors -> TaskType]
    BY <1>0, <1>1, <1>2 DEF Types
  <2>2. serial' \in [Slots -> Nat] /\ asked' \in [Slots -> BOOLEAN]
    BY <1>0, <1>1 DEF Types
  <2> QED BY <1>0, <2>1, <2>2 DEF Types
<1>6. RequestOK'
  BY <1>0, <1>1, <1>4 DEF RequestOK, Slots
<1>7. \A b \in Actors : task[b].pc # "idle" => b # a /\ task[b].slot # s
  BY <1>0 DEF TaskHasItsSlot
<1>8. TaskHasItsSlot'
  <2> SUFFICES ASSUME NEW b \in Actors, task'[b].pc # "idle"
               PROVE  /\ task'[b].slot \in Resources \cup Channels
                      /\ slot'[task'[b].slot].on /\ slot'[task'[b].slot].actor = b
                      /\ slot'[task'[b].slot].gen = task'[b].gen
    BY DEF TaskHasItsSlot
  <2>1. CASE b = a
    BY <1>3, <1>4, <2>1
  <2>2. CASE b # a
    <3>1. task'[b] = task[b] /\ task[b].pc # "idle"
      BY <1>4, <2>2
    <3>2. slot'[task[b].slot] = slot[task[b].slot]
      BY <1>4, <1>7, <3>1 DEF TaskHasItsSlot, Slots
    <3> QED BY <3>1, <3>2 DEF TaskHasItsSlot
  <2> QED BY <2>1, <2>2
<1>9. RunOfSlot'
  <2> SUFFICES ASSUME NEW r \in Slots, slot'[r].on, slot'[r].run # 0
               PROVE  /\ run.on /\ slot'[r].run = run.id
                      /\ task'["agent"].pc # "idle" /\ task'["agent"].slot = r
    BY <1>0 DEF RunOfSlot
  <2>1. CASE r = s
    <3>1. a = "agent"
      BY <1>3, <1>4, <2>1 DEF n
    <3> QED BY <1>0, <1>3, <1>4, <2>1, <3>1 DEF n
  <2>2. CASE r # s
    <3>1. slot'[r] = slot[r] /\ task["agent"].pc # "idle"
      BY <1>4, <2>2 DEF RunOfSlot
    <3>2. a # "agent"
      BY <1>0, <3>1
    <3>3. task'["agent"] = task["agent"]
      BY <1>4, <3>2 DEF Actors
    <3> QED BY <3>1, <3>3 DEF RunOfSlot
  <2> QED BY <2>1, <2>2
<1>10. HandHasLock'
  BY <1>0, <1>3, <1>4 DEF HandHasLock
<1>11. CounterTells'
  <2>1. serial[s] \in Nat /\ GenMod \in Nat
    BY <1>1 DEF GateBounds, Types
  <2>2. serial'[s] < GenMod => g = serial'[s] /\ serial[s] < GenMod
    BY <1>1, <1>4, <2>1 DEF CounterTells
  <2>3. \A r \in Slots :
          slot'[r].gen < GenMod /\ (serial'[r] < GenMod => slot'[r].gen = serial'[r])
    BY <1>1, <1>3, <1>4, <2>2 DEF CounterTells
  <2>4. Fresh' => Fresh
    BY <1>1, <1>4, <2>2 DEF Fresh
  <2>5. Fresh => StopHitsWhatItNamed'
    BY <1>3, <1>4 DEF CounterTells, StopHitsWhatItNamed
  <2> QED BY <1>0, <2>3, <2>4, <2>5 DEF CounterTells, AbortHitsItsRun
<1>12. MaintenanceIsAlone'
  <2>1. slot'[Maint] = slot[Maint]
    BY <1>1, <1>4 DEF Slots
  <2> QED BY <1>m, <1>4, <2>1 DEF MaintenanceIsAlone, Slots
<1>13. HasANumber' /\ NoTypingIntoOperations'
  BY <1>0, <1>1, <1>3, <1>4 DEF HasANumber, NoTypingIntoOperations
<1> QED BY <1>5, <1>6, <1>8, <1>9, <1>10, <1>11, <1>12, <1>13

\* A task that goes on with its operation: it works on the line of the operator
\* only when it had the lock.
LEMMA GoOnIsSafe ==
  ASSUME GateBounds, GateInv, NEW a \in Actors, task[a].pc # "idle",
         NEW v \in {"working", "ending"}, v = "working" => lock = None,
         task' = [task EXCEPT ![a].pc = v],
         UNCHANGED <<slot, serial, asked, run, page, abort, hand, lock, typed, sys>>
  PROVE  GateInv'
<1> USE DEF GateInv
<1>1. /\ task'[a].pc = v /\ task'[a].slot = task[a].slot
      /\ task'[a].gen = task[a].gen
      /\ \A b \in Actors : b # a => task'[b] = task[b]
      /\ task' \in [Actors -> TaskType]
  BY DEF Types, TaskType
<1>2. Types' /\ RequestOK'
  BY <1>1 DEF Types, RequestOK
<1>3. TaskHasItsSlot'
  BY <1>1 DEF TaskHasItsSlot
<1>4. RunOfSlot'
  BY <1>1 DEF RunOfSlot, Actors
<1>5. HandHasLock'
  <2>1. v = "working" => hand # "allowed"
    BY DEF HandHasLock, GateBounds
  <2> QED BY <1>1, <2>1 DEF HandHasLock
<1>6. CounterTells'
  BY DEF CounterTells, Fresh, StopHitsWhatItNamed, AbortHitsItsRun
<1>7. MaintenanceIsAlone' /\ HasANumber' /\ NoTypingIntoOperations'
  BY DEF MaintenanceIsAlone, HasANumber, NoTypingIntoOperations
<1> QED BY <1>2, <1>3, <1>4, <1>5, <1>6, <1>7

\* The end of an operation: the token still names it, so the slot is vacated.
LEMMA GateFinishIsSafe ==
  ASSUME GateBounds, GateInv, NEW a \in Actors, Finish(a) PROVE GateInv'
<1> USE DEF GateInv
<1>0. /\ Vacate(task[a].slot, task[a].gen) /\ task' = [task EXCEPT ![a] = AtRest]
      /\ task[a].pc = "ending"
      /\ UNCHANGED <<serial, asked, run, page, abort, hand, lock, typed, sys>>
  BY DEF Finish
<1>s. PICK s \in Resources \cup Channels :
        s = task[a].slot /\ slot[s].on /\ slot[s].actor = a /\ slot[s].gen = task[a].gen
  BY <1>0 DEF TaskHasItsSlot
<1>1. s \in Slots /\ s # Maint /\ slot[s] \in SlotType
  BY DEF Slots, GateBounds, Types
<1>2. slot' = [slot EXCEPT ![s] = Vacant(slot[s].gen)]
  BY <1>0, <1>s DEF Vacate
<1>3. /\ slot'[s] = Vacant(slot[s].gen)
      /\ \A r \in Slots : r # s => slot'[r] = slot[r]
      /\ task'[a] = AtRest /\ \A b \in Actors : b # a => task'[b] = task[b]
  BY <1>0, <1>1, <1>2 DEF Types
<1>4. /\ ~slot'[s].on /\ slot'[s].gen = slot[s].gen /\ ~slot'[s].cancel
      /\ slot'[s] \in SlotType /\ task'[a].pc = "idle" /\ task'[a] \in TaskType
      /\ task'[a].slot = None
  BY <1>1, <1>3 DEF Vacant, AtRest, SlotType, TaskType
<1>5. Types'
  <2>1. slot' \in [Slots -> SlotType] /\ task' \in [Actors -> TaskType]
    BY <1>0, <1>1, <1>2, <1>3, <1>4 DEF Types
  <2> QED BY <1>0, <2>1 DEF Types
<1>6. RequestOK'
  BY <1>0 DEF RequestOK
<1>7. TaskHasItsSlot'
  <2> SUFFICES ASSUME NEW b \in Actors, task'[b].pc # "idle"
               PROVE  /\ task'[b].slot \in Resources \cup Channels
                      /\ slot'[task'[b].slot].on /\ slot'[task'[b].slot].actor = b
                      /\ slot'[task'[b].slot].gen = task'[b].gen
    BY DEF TaskHasItsSlot
  <2>1. b # a /\ task'[b] = task[b] /\ task[b].pc # "idle"
    BY <1>3, <1>4
  <2>2. task[b].slot \in Slots /\ slot[task[b].slot].actor = b
    BY <2>1 DEF TaskHasItsSlot, Slots
  <2>3. slot'[task[b].slot] = slot[task[b].slot]
    BY <1>s, <1>3, <2>1, <2>2
  <2> QED BY <2>1, <2>3 DEF TaskHasItsSlot
<1>8. RunOfSlot'
  <2> SUFFICES ASSUME NEW r \in Slots, slot'[r].on, slot'[r].run # 0
               PROVE  /\ run.on /\ slot'[r].run = run.id
                      /\ task'["agent"].pc # "idle" /\ task'["agent"].slot = r
    BY <1>0 DEF RunOfSlot
  <2>1. r # s /\ slot'[r] = slot[r]
    BY <1>3, <1>4
  <2>2. task["agent"].slot = r /\ task["agent"].pc # "idle"
    BY <2>1 DEF RunOfSlot
  <2>3. task'["agent"] = task["agent"]
    BY <1>s, <1>3, <2>1, <2>2 DEF Actors
  <2> QED BY <2>1, <2>2, <2>3 DEF RunOfSlot
<1>9. HandHasLock'
  BY <1>0, <1>3, <1>4 DEF HandHasLock
<1>10. CounterTells'
  <2>1. \A r \in Slots : slot'[r].gen = slot[r].gen
    BY <1>3, <1>4
  <2>2. \A r \in Slots : slot'[r].cancel => slot[r].cancel
    BY <1>3, <1>4
  <2> QED BY <1>0, <2>1, <2>2 DEF CounterTells, Fresh, StopHitsWhatItNamed, AbortHitsItsRun
<1>11. MaintenanceIsAlone' /\ HasANumber' /\ NoTypingIntoOperations'
  BY <1>0, <1>1, <1>3, <1>4
     DEF MaintenanceIsAlone, HasANumber, NoTypingIntoOperations, Slots
<1> QED BY <1>5, <1>6, <1>7, <1>8, <1>9, <1>10, <1>11

\* The page reads the number of an operation.
LEMMA LookIsSafe ==
  ASSUME GateBounds, GateInv, NEW s \in Slots, Look(s) PROVE GateInv'
<1> USE DEF GateInv
<1>0. /\ page' = [slot |-> s, gen |-> slot[s].gen, serial |-> serial[s]]
      /\ UNCHANGED <<slot, serial, asked, task, run, abort, hand, lock, typed, sys>>
  BY DEF Look
<1>1. page' \in PageType
  BY <1>0 DEF Types, PageType, SlotType
<1>2. Types' /\ RequestOK'
  BY <1>0, <1>1 DEF Types, RequestOK
<1>3. TaskHasItsSlot' /\ RunOfSlot' /\ HandHasLock'
  BY <1>0 DEF TaskHasItsSlot, RunOfSlot, HandHasLock
<1>4. CounterTells'
  BY <1>0 DEF CounterTells, Fresh, StopHitsWhatItNamed, AbortHitsItsRun
<1>5. MaintenanceIsAlone' /\ HasANumber' /\ NoTypingIntoOperations'
  BY <1>0 DEF MaintenanceIsAlone, HasANumber, NoTypingIntoOperations
<1> QED BY <1>2, <1>3, <1>4, <1>5

\* A step that asks some operations to stop, and tells so.
LEMMA GateCancelIsSafe ==
  ASSUME GateBounds, GateInv, NEW hit \in SUBSET Slots,
         slot' \in [Slots -> SlotType], asked' \in [Slots -> BOOLEAN],
         \A s \in Slots :
           /\ slot'[s].on = slot[s].on /\ slot'[s].actor = slot[s].actor
           /\ slot'[s].gen = slot[s].gen /\ slot'[s].run = slot[s].run
           /\ s \notin hit => slot'[s].cancel = slot[s].cancel
           /\ asked[s] => asked'[s],
         run' \in [id: Nat, on: BOOLEAN, abort: BOOLEAN, asked: BOOLEAN, swept: BOOLEAN],
         run'.id = run.id, run'.on = run.on, run.asked => run'.asked,
         run'.swept = run.swept,
         page' \in {page, None}, abort' \in Nat,
         Fresh =>
           /\ \A s \in hit : asked'[s]
           /\ run'.abort => run.abort \/ run'.asked
           /\ abort' <= run.id
           /\ abort' # 0 /\ abort' = run.id /\ abort' # abort => run'.asked,
         UNCHANGED <<serial, task, hand, lock, typed>>, RequestOK'
  PROVE  GateInv'
<1> USE DEF GateInv
<1>1. Types'
  BY DEF Types
<1>2. TaskHasItsSlot'
  <2>1. \A a \in Actors : task[a].pc # "idle" => task[a].slot \in Slots
    BY DEF TaskHasItsSlot, Slots
  <2> QED BY <2>1 DEF TaskHasItsSlot
<1>3. RunOfSlot' /\ HandHasLock'
  BY DEF RunOfSlot, HandHasLock
<1>4. CounterTells'
  <2>0. Fresh' => Fresh
    BY DEF Fresh
  <2>1. Fresh => StopHitsWhatItNamed'
    BY DEF CounterTells, StopHitsWhatItNamed
  <2>2. Fresh => AbortHitsItsRun'
    BY DEF CounterTells, AbortHitsItsRun
  <2>3. Fresh => (abort' # 0 /\ abort' = run'.id => run'.asked)
    BY DEF CounterTells
  <2> QED BY <2>0, <2>1, <2>2, <2>3 DEF CounterTells
<1>5. MaintenanceIsAlone' /\ HasANumber' /\ NoTypingIntoOperations'
  BY DEF MaintenanceIsAlone, HasANumber, NoTypingIntoOperations, Slots
<1> QED BY <1>1, <1>2, <1>3, <1>4, <1>5

\* The browser's stop hits the operation the page read, or none.
LEMMA StopIsSafe == ASSUME GateBounds, GateInv, Stop PROVE GateInv'
<1> USE DEF GateInv
<1>s. PICK s \in Slots : s = page.slot /\ page \in PageType
  BY DEF Stop, Types
<1>0. /\ page' = None /\ UNCHANGED <<serial, task, hand, lock, typed, sys>>
      /\ page # None /\ abort = 0
  BY DEF Stop
<1>1. RequestOK'
  BY <1>0 DEF RequestOK
<1>2. CASE MayCancel(s, page.gen)
  <2> DEFINE told == page.serial = serial[s]
  <2>1. /\ slot' = [slot EXCEPT ![s].cancel = TRUE]
        /\ asked' = [asked EXCEPT ![s] = @ \/ told]
        /\ abort' = slot[s].run
        /\ run' = IF told /\ run.on /\ run.id = slot[s].run
                  THEN [run EXCEPT !.asked = TRUE] ELSE run
    BY <1>s, <1>2 DEF Stop
  <2>2. slot[s].on /\ slot[s].gen = page.gen
    BY <1>2 DEF MayCancel
  <2>3. Fresh => told
    BY <1>0, <2>2 DEF CounterTells, Fresh
  <2> HIDE DEF told
  <2>4. /\ slot' \in [Slots -> SlotType]
        /\ \A r \in Slots :
             /\ slot'[r].on = slot[r].on /\ slot'[r].actor = slot[r].actor
             /\ slot'[r].gen = slot[r].gen /\ slot'[r].run = slot[r].run
             /\ r \notin {s} => slot'[r].cancel = slot[r].cancel
    BY <2>1 DEF Types, SlotType
  <2>5. /\ asked' \in [Slots -> BOOLEAN] /\ (told => asked'[s])
        /\ \A r \in Slots : asked[r] => asked'[r]
    BY <2>1 DEF Types, told
  <2>6. /\ run' \in [id: Nat, on: BOOLEAN, abort: BOOLEAN, asked: BOOLEAN, swept: BOOLEAN]
        /\ run'.id = run.id /\ run'.on = run.on /\ (run.asked => run'.asked)
        /\ run'.abort = run.abort /\ run'.swept = run.swept
        /\ told /\ run.on /\ run.id = slot[s].run => run'.asked
    BY <2>1 DEF Types
  <2>7. slot[s].run \in Nat /\ run.id \in Nat
        /\ (slot[s].run # 0 => run.on /\ slot[s].run = run.id)
    BY <2>2 DEF RunOfSlot, Types, SlotType
  <2>8. Fresh =>
           /\ \A r \in {s} : asked'[r]
           /\ run'.abort => run.abort \/ run'.asked
           /\ abort' <= run.id
           /\ abort' # 0 /\ abort' = run.id /\ abort' # abort => run'.asked
    BY <2>1, <2>3, <2>5, <2>6, <2>7
  <2>9. abort' \in Nat
    BY <2>1, <2>7
  <2>10. /\ page' \in {page, None} /\ {s} \in SUBSET Slots
         /\ UNCHANGED <<serial, task, hand, lock, typed>>
    BY <1>0
  <2> HIDE DEF GateInv
  <2> QED BY <1>1, <2>4, <2>5, <2>6, <2>8, <2>9, <2>10, GateCancelIsSafe, ZenonT(60)
<1>3. CASE ~MayCancel(s, page.gen)
  <2>1. UNCHANGED <<slot, asked, abort, run>>
    BY <1>s, <1>3 DEF Stop
  <2>2. Types'
    BY <1>0, <2>1 DEF Types
  <2>3. TaskHasItsSlot' /\ RunOfSlot' /\ HandHasLock'
    BY <1>0, <2>1 DEF TaskHasItsSlot, RunOfSlot, HandHasLock
  <2>4. CounterTells'
    BY <1>0, <2>1 DEF CounterTells, Fresh, StopHitsWhatItNamed, AbortHitsItsRun
  <2>5. MaintenanceIsAlone' /\ HasANumber' /\ NoTypingIntoOperations'
    BY <1>0, <2>1 DEF MaintenanceIsAlone, HasANumber, NoTypingIntoOperations
  <2> QED BY <1>1, <2>2, <2>3, <2>4, <2>5
<1> QED BY <1>2, <1>3

\* The abort that follows a stop hits the run of the operation that was stopped.
LEMMA AbortIsSafe == ASSUME GateBounds, GateInv, Abort PROVE GateInv'
<1> USE DEF GateInv
<1>0. /\ abort # 0 /\ abort' = 0
      /\ run' = IF run.on /\ run.id = abort THEN [run EXCEPT !.abort = TRUE] ELSE run
      /\ UNCHANGED <<slot, serial, asked, task, page, hand, lock, typed, sys>>
  BY DEF Abort
<1>1. /\ run' \in [id: Nat, on: BOOLEAN, abort: BOOLEAN, asked: BOOLEAN, swept: BOOLEAN]
      /\ run'.id = run.id /\ run'.on = run.on /\ run'.asked = run.asked
      /\ run'.swept = run.swept
      /\ run'.abort => run.abort \/ run.id = abort
  BY <1>0 DEF Types
<1>2. Types' /\ RequestOK'
  BY <1>0, <1>1 DEF Types, RequestOK
<1>3. TaskHasItsSlot' /\ RunOfSlot' /\ HandHasLock'
  BY <1>0, <1>1 DEF TaskHasItsSlot, RunOfSlot, HandHasLock
<1>4. CounterTells'
  <2>1. run.id \in Nat
    BY DEF Types
  <2> QED BY <1>0, <1>1, <2>1 DEF CounterTells, Fresh, StopHitsWhatItNamed, AbortHitsItsRun
<1>5. MaintenanceIsAlone' /\ HasANumber' /\ NoTypingIntoOperations'
  BY <1>0 DEF MaintenanceIsAlone, HasANumber, NoTypingIntoOperations
<1> QED BY <1>2, <1>3, <1>4, <1>5

\* A step of the leases: a grant, a move, the page's stop up to its abort.
LEMMA LeaseStepIsSafe ==
  ASSUME GateBounds, GateInv, page' = page \/ page' = None,
         UNCHANGED <<slot, serial, asked, task, run, abort, hand, lock, typed, sys>>
  PROVE  GateInv'
<1> USE DEF GateInv
<1>1. Types' /\ RequestOK'
  BY DEF Types, RequestOK
<1>2. TaskHasItsSlot' /\ RunOfSlot' /\ HandHasLock'
  BY DEF TaskHasItsSlot, RunOfSlot, HandHasLock
<1>3. CounterTells'
  BY DEF CounterTells, Fresh, StopHitsWhatItNamed, AbortHitsItsRun
<1>4. MaintenanceIsAlone' /\ HasANumber' /\ NoTypingIntoOperations'
  BY DEF MaintenanceIsAlone, HasANumber, NoTypingIntoOperations
<1> QED BY <1>1, <1>2, <1>3, <1>4

\* The page reads the epoch of a lease.
LEMMA LookAtLeaseIsSafe ==
  ASSUME GateBounds, GateInv, LeasesOK, NEW l \in Leases, LookAtLease(l) PROVE GateInv'
<1> USE DEF GateInv
<1>0. /\ page' = [slot |-> l, gen |-> leases[l].gen, serial |-> leases[l].gen]
      /\ UNCHANGED <<slot, serial, asked, task, run, abort, hand, lock, typed, sys>>
  BY DEF LookAtLease
<1>1. page' \in PageType
  BY <1>0 DEF LeasesOK, PageType
<1>2. Types' /\ RequestOK'
  BY <1>0, <1>1 DEF Types, RequestOK
<1>3. TaskHasItsSlot' /\ RunOfSlot' /\ HandHasLock'
  BY <1>0 DEF TaskHasItsSlot, RunOfSlot, HandHasLock
<1>4. CounterTells'
  BY <1>0 DEF CounterTells, Fresh, StopHitsWhatItNamed, AbortHitsItsRun
<1>5. MaintenanceIsAlone' /\ HasANumber' /\ NoTypingIntoOperations'
  BY <1>0 DEF MaintenanceIsAlone, HasANumber, NoTypingIntoOperations
<1> QED BY <1>2, <1>3, <1>4, <1>5

\* The abort after the stop of a lease hits the run there is, and tells so.
LEMMA SweepIsSafe == ASSUME GateBounds, GateInv, Sweep PROVE GateInv'
<1> USE DEF GateInv
<1>0. /\ run' = run \/ run' = [run EXCEPT !.abort = TRUE, !.swept = TRUE]
      /\ UNCHANGED <<slot, serial, asked, task, page, abort, hand, lock, typed, sys>>
  BY DEF Sweep
<1>1. /\ run' \in [id: Nat, on: BOOLEAN, abort: BOOLEAN, asked: BOOLEAN, swept: BOOLEAN]
      /\ run'.id = run.id /\ run'.on = run.on /\ run'.asked = run.asked
      /\ run'.swept \/ (run'.abort = run.abort /\ run'.swept = run.swept)
  BY <1>0 DEF Types
<1>2. Types' /\ RequestOK'
  BY <1>0, <1>1 DEF Types, RequestOK
<1>3. TaskHasItsSlot' /\ RunOfSlot' /\ HandHasLock'
  BY <1>0, <1>1 DEF TaskHasItsSlot, RunOfSlot, HandHasLock
<1>4. CounterTells'
  BY <1>0, <1>1 DEF CounterTells, Fresh, StopHitsWhatItNamed, AbortHitsItsRun
<1>5. MaintenanceIsAlone' /\ HasANumber' /\ NoTypingIntoOperations'
  BY <1>0 DEF MaintenanceIsAlone, HasANumber, NoTypingIntoOperations
<1> QED BY <1>2, <1>3, <1>4, <1>5

\* The operator's write: the two checks, the lock and the bytes.
LEMMA HandIsSafe ==
  ASSUME GateBounds, GateInv, HandLook \/ HandLock \/ HandCheck \/ HandWrite
  PROVE  GateInv'
<1> USE DEF GateInv
<1>0. UNCHANGED <<slot, serial, asked, task, run, page, abort, sys>>
  BY DEF HandLook, HandLock, HandCheck, HandWrite
<1>1. RequestOK' /\ TaskHasItsSlot' /\ RunOfSlot'
  BY <1>0 DEF RequestOK, TaskHasItsSlot, RunOfSlot
<1>2. CounterTells'
  BY <1>0 DEF CounterTells, Fresh, StopHitsWhatItNamed, AbortHitsItsRun
<1>3. MaintenanceIsAlone' /\ HasANumber'
  BY <1>0 DEF MaintenanceIsAlone, HasANumber
<1>4. Types' /\ HandHasLock' /\ NoTypingIntoOperations'
  <2> USE DEF Types, HandHasLock, NoTypingIntoOperations
  <2>0. None # "operator" /\ ~typed
    BY DEF GateBounds
  <2>1. CASE HandLook
    BY <1>0, <2>0, <2>1 DEF HandLook
  <2>2. CASE HandLock
    BY <1>0, <2>0, <2>2 DEF HandLock
  <2>3. CASE HandCheck
    <3>1. ManualAllowed(Uart) =>
            \A a \in Actors : ~(task[a].slot = Uart /\ task[a].pc = "working")
      BY DEF ManualAllowed, TaskHasItsSlot
    <3> QED BY <1>0, <2>0, <2>3, <3>1 DEF HandCheck
  <2>4. CASE HandWrite
    <3>1. ~\E a \in Actors : task[a].slot = Uart /\ task[a].pc = "working"
      BY <2>4 DEF HandWrite
    <3>2. /\ hand' = "idle" /\ lock' = None /\ typed' = FALSE
      BY <2>0, <2>4, <3>1 DEF HandWrite
    <3> QED BY <1>0, <2>0, <3>2
  <2> QED BY <2>1, <2>2, <2>3, <2>4
<1> QED BY <1>1, <1>2, <1>3, <1>4

\* A step of the maintenance request that touches nothing else.
LEMMA RequestStepIsSafe ==
  ASSUME GateBounds, GateInv, RequestOK',
         UNCHANGED <<slot, serial, asked, task, run, page, abort, hand, lock, typed>>
  PROVE  GateInv'
<1> USE DEF GateInv
<1>1. Types'
  BY DEF Types
<1>2. TaskHasItsSlot' /\ RunOfSlot' /\ HandHasLock'
  BY DEF TaskHasItsSlot, RunOfSlot, HandHasLock
<1>3. CounterTells'
  BY DEF CounterTells, Fresh, StopHitsWhatItNamed, AbortHitsItsRun
<1>4. MaintenanceIsAlone' /\ HasANumber' /\ NoTypingIntoOperations'
  BY DEF MaintenanceIsAlone, HasANumber, NoTypingIntoOperations
<1> QED BY <1>1, <1>2, <1>3, <1>4

\* The request for maintenance, and its checks that all is quiet.
LEMMA QuietIsSafe ==
  ASSUME GateBounds, GateInv, Request \/ CheckQuiet \/ NotQuiet PROVE GateInv'
<1>0. UNCHANGED <<slot, serial, asked, task, run, page, abort, hand, lock, typed>>
  BY DEF Request, CheckQuiet, NotQuiet
<1>2. RequestOK
  BY DEF GateInv
<1>3. RequestOK'
  <2>1. CASE Request
    BY <1>0, <2>1 DEF Request, RequestOK
  <2>2. CASE CheckQuiet
    <3>1. CASE Len(sys.todo) = 1
      BY <1>0, <1>2, <2>2, <3>1 DEF CheckQuiet, RequestOK
    <3>2. CASE Len(sys.todo) # 1
      BY <1>0, <1>2, <2>2, <3>2 DEF CheckQuiet, RequestOK
    <3> QED BY <3>1, <3>2
  <2>3. CASE NotQuiet
    <3>1. CASE sys' = [sys EXCEPT !.todo = QuietPlan]
      BY <1>0, <1>2, <3>1 DEF RequestOK
    <3>2. CASE sys' = NoRequest
      BY <1>0, <3>2 DEF NoRequest, RequestOK
    <3> QED BY <2>3, <3>1, <3>2 DEF NotQuiet
  <2> QED BY <2>1, <2>2, <2>3
<1> QED BY <1>0, <1>3, RequestStepIsSafe

\* The request goes on to its next step.
LEMMA ProceedIsOK ==
  ASSUME GateInv, sys.pc = "stopping", UNCHANGED serial, NEW todo, sys' = Proceed(todo)
  PROVE  RequestOK'
<1>1. serial[Maint] < MaxMaint
  BY DEF GateInv, RequestOK
<1>2. CASE todo = <<>>
  BY <1>1, <1>2 DEF Proceed, RequestOK
<1>3. CASE todo # <<>>
  BY <1>1, <1>3 DEF Proceed, RequestOK
<1> QED BY <1>2, <1>3

\* One step of automation_request_stop_all.
LEMMA StopOneIsSafe == ASSUME GateBounds, GateInv, StopOne PROVE GateInv'
<1> USE DEF GateInv
<1>0. /\ sys.pc = "stopping" /\ UNCHANGED <<serial, task, page, abort, hand, lock, typed>>
      /\ sys' = Proceed(Tail(sys.todo))
  BY DEF StopOne
<1>1. RequestOK'
  BY <1>0, ProceedIsOK
<1>2. /\ run' \in [id: Nat, on: BOOLEAN, abort: BOOLEAN, asked: BOOLEAN, swept: BOOLEAN]
      /\ run'.id = run.id /\ run'.on = run.on /\ (run.asked => run'.asked)
      /\ run'.swept = run.swept
      /\ run'.abort => run.abort \/ run'.asked
  <2>1. run' = run \/ run' = [run EXCEPT !.abort = TRUE, !.asked = TRUE]
    BY DEF StopOne
  <2> QED BY <2>1 DEF Types
<1>3. PICK hit \in SUBSET Slots :
        \/ hit = {} /\ UNCHANGED <<slot, asked>>
        \/ /\ slot' = [s \in Slots |-> IF s \in hit THEN [slot[s] EXCEPT !.cancel = TRUE]
                                       ELSE slot[s]]
           /\ asked' = [s \in Slots |-> asked[s] \/ s \in hit]
  <2>1. ASSUME NEW S \in SUBSET Slots, NEW a, CancelAll(S, a)
        PROVE  \E hit \in SUBSET Slots :
          /\ slot' = [s \in Slots |-> IF s \in hit THEN [slot[s] EXCEPT !.cancel = TRUE]
                                      ELSE slot[s]]
          /\ asked' = [s \in Slots |-> asked[s] \/ s \in hit]
    <3> DEFINE H == {s \in S : slot[s].on /\ slot[s].cancellable /\ slot[s].actor = a}
    <3>1. /\ slot' = [s \in Slots |-> IF s \in H THEN [slot[s] EXCEPT !.cancel = TRUE]
                                      ELSE slot[s]]
          /\ asked' = [s \in Slots |-> asked[s] \/ s \in H]
      BY <2>1 DEF CancelAll
    <3>2. H \in SUBSET Slots
      OBVIOUS
    <3> HIDE DEF H
    <3> QED BY <3>1, <3>2
  <2>2. \/ UNCHANGED <<slot, asked>>
        \/ CancelAll(Guarded, "agent") \/ CancelAll(Channels, "agent")
        \/ CancelAll(Guarded, "mcp") \/ CancelAll(Channels, "mcp")
    BY DEF StopOne
  <2>3. Guarded \in SUBSET Slots /\ Channels \in SUBSET Slots
    BY DEF Guarded, Slots
  <2>4. CASE UNCHANGED <<slot, asked>>
    BY <2>4
  <2>5. CASE CancelAll(Guarded, "agent")
    BY <2>1, <2>3, <2>5
  <2>6. CASE CancelAll(Channels, "agent")
    BY <2>1, <2>3, <2>6
  <2>7. CASE CancelAll(Guarded, "mcp")
    BY <2>1, <2>3, <2>7
  <2>8. CASE CancelAll(Channels, "mcp")
    BY <2>1, <2>3, <2>8
  <2> QED BY <2>2, <2>4, <2>5, <2>6, <2>7, <2>8
<1>4. ASSUME NEW s \in Slots
      PROVE  /\ slot'[s] \in SlotType
             /\ slot'[s].on = slot[s].on /\ slot'[s].actor = slot[s].actor
             /\ slot'[s].gen = slot[s].gen /\ slot'[s].run = slot[s].run
             /\ s \notin hit => slot'[s].cancel = slot[s].cancel
  <2>1. slot[s] \in SlotType
    BY DEF Types
  <2>2. slot'[s] = slot[s] \/ (s \in hit /\ slot'[s] = [slot[s] EXCEPT !.cancel = TRUE])
    BY <1>3
  <2> QED BY <2>1, <2>2 DEF SlotType
<1>5. slot' \in [Slots -> SlotType]
  BY <1>3, <1>4 DEF Types
<1>6. /\ asked' \in [Slots -> BOOLEAN] /\ \A s \in hit : asked'[s]
      /\ \A s \in Slots : asked[s] => asked'[s]
  BY <1>3 DEF Types
<1>7. abort' \in Nat /\ (Fresh => abort' <= run.id) /\ abort' = abort
  BY <1>0 DEF Types, CounterTells
<1>8. page' \in {page, None} /\ UNCHANGED <<serial, task, hand, lock, typed>>
  BY <1>0
<1>9. Fresh =>
           /\ \A s \in hit : asked'[s]
           /\ run'.abort => run.abort \/ run'.asked
           /\ abort' <= run.id
           /\ abort' # 0 /\ abort' = run.id /\ abort' # abort => run'.asked
  BY <1>2, <1>6, <1>7
<1> HIDE DEF GateInv
<1> QED BY <1>1, <1>2, <1>4, <1>5, <1>6, <1>7, <1>8, <1>9, GateCancelIsSafe, ZenonT(60)

\* Maintenance takes its slot when no other of the table is occupied.
LEMMA BeginMaintenanceIsSafe ==
  ASSUME GateBounds, GateInv, BeginMaintenance PROVE GateInv'
<1> USE DEF GateInv
<1>0. UNCHANGED <<task, run, page, abort, hand, lock, typed>> /\ sys.pc = "beginning"
  BY DEF BeginMaintenance
<1>1. CASE ~MayBegin(Maint)
  <2>1. sys' = NoRequest /\ UNCHANGED <<slot, serial, asked>>
    BY <1>1 DEF BeginMaintenance
  <2>2. RequestOK'
    BY <2>1 DEF NoRequest, RequestOK
  <2> QED BY <1>0, <2>1, <2>2, RequestStepIsSafe
<1>2. CASE MayBegin(Maint)
  <2> DEFINE g == NextGen(slot[Maint].gen)
  <2>1. PICK c \in BOOLEAN : Occupy(Maint, "system", c, 0)
    BY <1>2 DEF BeginMaintenance
  <2> DEFINE x == [on |-> TRUE, cancel |-> FALSE, actor |-> "system",
                   cancellable |-> c, gen |-> g, run |-> 0]
  <2>2. /\ slot' = [slot EXCEPT ![Maint] = x]
        /\ serial' = [serial EXCEPT ![Maint] = @ + 1]
        /\ asked' = [asked EXCEPT ![Maint] = FALSE]
        /\ sys' = [pc |-> "maintaining", todo |-> <<>>]
    BY <1>2, <2>1 DEF Occupy, BeginMaintenance
  <2>3. /\ Maint \in Slots /\ g \in Nat /\ g # 0 /\ g < GenMod /\ serial[Maint] \in Nat
        /\ serial[Maint] + 1 < GenMod /\ slot[Maint].gen = serial[Maint]
             => g = serial[Maint] + 1
    BY NextGenCounts DEF Types, SlotType, Slots
  <2> HIDE DEF g
  <2>4. /\ x \in SlotType /\ x.on /\ ~x.cancel /\ x.gen = g /\ x.run = 0
    BY <2>3 DEF SlotType
  <2> HIDE DEF x
  <2>5. /\ slot'[Maint] = x /\ \A s \in Slots : s # Maint => slot'[s] = slot[s]
        /\ serial'[Maint] = serial[Maint] + 1
        /\ \A s \in Slots : s # Maint => serial'[s] = serial[s]
        /\ ~asked'[Maint] /\ \A s \in Slots : s # Maint => asked'[s] = asked[s]
    BY <2>2, <2>3 DEF Types
  <2>6. Types'
    <3>1. slot' \in [Slots -> SlotType]
      BY <2>2, <2>3, <2>4 DEF Types
    <3>2. serial' \in [Slots -> Nat] /\ asked' \in [Slots -> BOOLEAN]
      BY <2>2, <2>3 DEF Types
    <3> QED BY <1>0, <3>1, <3>2 DEF Types
  <2>7. RequestOK'
    BY <2>2 DEF RequestOK
  <2>8. \A s \in Resources \cup Channels : s \in Slots /\ s # Maint
    BY DEF Slots, GateBounds
  <2>9. TaskHasItsSlot'
    BY <1>0, <2>5, <2>8 DEF TaskHasItsSlot
  <2>10. RunOfSlot' /\ HandHasLock'
    BY <1>0, <2>4, <2>5 DEF RunOfSlot, HandHasLock
  <2>11. CounterTells'
    <3>1. GenMod \in Nat
      BY DEF GateBounds
    <3>2. serial'[Maint] < GenMod => g = serial'[Maint] /\ serial[Maint] < GenMod
      BY <2>3, <2>5, <3>1 DEF CounterTells
    <3>3. \A s \in Slots :
            slot'[s].gen < GenMod /\ (serial'[s] < GenMod => slot'[s].gen = serial'[s])
      BY <2>3, <2>4, <2>5, <3>2 DEF CounterTells
    <3>4. Fresh' => Fresh
      BY <2>3, <2>5, <3>2 DEF Fresh
    <3>5. Fresh => StopHitsWhatItNamed'
      BY <2>4, <2>5 DEF CounterTells, StopHitsWhatItNamed
    <3> QED BY <1>0, <3>3, <3>4, <3>5 DEF CounterTells, AbortHitsItsRun
  <2>12. MaintenanceIsAlone'
    BY <1>2, <2>5, <2>8 DEF MaintenanceIsAlone, MayBegin, Guarded
  <2>13. HasANumber' /\ NoTypingIntoOperations'
    BY <1>0, <2>3, <2>4, <2>5 DEF HasANumber, NoTypingIntoOperations
  <2> QED BY <2>6, <2>7, <2>9, <2>10, <2>11, <2>12, <2>13
<1> QED BY <1>1, <1>2

\* Maintenance ends.
LEMMA EndMaintenanceIsSafe ==
  ASSUME GateBounds, GateInv, EndMaintenance PROVE GateInv'
<1> USE DEF GateInv
<1>0. /\ UNCHANGED <<serial, asked, task, run, page, abort, hand, lock, typed>>
      /\ sys' = NoRequest /\ Vacate(Maint, slot[Maint].gen)
  BY DEF EndMaintenance
<1>1. /\ Maint \in Slots /\ slot[Maint] \in SlotType
      /\ \A s \in Resources \cup Channels : s \in Slots /\ s # Maint
  BY DEF Types, Slots, GateBounds
<1>2. slot' = slot \/ slot' = [slot EXCEPT ![Maint] = Vacant(slot[Maint].gen)]
  BY <1>0 DEF Vacate
<1>3. \A s \in Slots : s # Maint => slot'[s] = slot[s]
  BY <1>1, <1>2 DEF Types
<1>4. /\ slot'[Maint] \in SlotType /\ slot'[Maint].gen = slot[Maint].gen
      /\ slot'[Maint].on => slot'[Maint] = slot[Maint]
      /\ slot'[Maint].cancel => slot'[Maint] = slot[Maint]
  <2>1. slot'[Maint] = slot[Maint] \/ slot'[Maint] = Vacant(slot[Maint].gen)
    BY <1>1, <1>2 DEF Types
  <2>2. CASE slot'[Maint] = slot[Maint]
    BY <1>1, <2>2
  <2>3. CASE slot'[Maint] = Vacant(slot[Maint].gen)
    <3>1. slot[Maint].gen \in Nat
      BY <1>1 DEF SlotType
    <3>2. Vacant(slot[Maint].gen) \in SlotType
      BY <3>1 DEF Vacant, SlotType
    <3>3. /\ Vacant(slot[Maint].gen).gen = slot[Maint].gen
          /\ ~Vacant(slot[Maint].gen).on /\ ~Vacant(slot[Maint].gen).cancel
      BY DEF Vacant
    <3> QED BY <2>3, <3>2, <3>3
  <2> QED BY <2>1, <2>2, <2>3
<1>5. Types'
  <2>1. slot' \in [Slots -> SlotType]
    BY <1>1, <1>2, <1>3, <1>4 DEF Types
  <2> QED BY <1>0, <2>1 DEF Types
<1>6. RequestOK'
  BY <1>0 DEF RequestOK, NoRequest
<1>7. TaskHasItsSlot'
  BY <1>0, <1>1, <1>3 DEF TaskHasItsSlot
<1>8. RunOfSlot' /\ HandHasLock'
  BY <1>0, <1>3, <1>4 DEF RunOfSlot, HandHasLock
<1>9. CounterTells'
  <2>1. \A s \in Slots : slot'[s].gen = slot[s].gen
    BY <1>3, <1>4
  <2>2. StopHitsWhatItNamed => StopHitsWhatItNamed'
    BY <1>0, <1>3, <1>4 DEF StopHitsWhatItNamed
  <2> QED BY <1>0, <2>1, <2>2 DEF CounterTells, Fresh, AbortHitsItsRun
<1>10. MaintenanceIsAlone'
  BY <1>1, <1>3, <1>4 DEF MaintenanceIsAlone
<1>11. HasANumber' /\ NoTypingIntoOperations'
  BY <1>0, <1>3, <1>4 DEF HasANumber, NoTypingIntoOperations
<1> QED BY <1>5, <1>6, <1>7, <1>8, <1>9, <1>10, <1>11

\* Every step of the gate keeps the invariant.
LEMMA GateStepIsSafe ==
  ASSUME GateBounds, GateInv, LeasesOK, [GateNext]_gateVars PROVE GateInv'
<1>1. CASE UNCHANGED gateVars
  <2>1. /\ UNCHANGED <<slot, serial, asked, task, run, page, abort, hand, lock, typed>>
        /\ sys' = sys
    BY <1>1 DEF gateVars
  <2>2. RequestOK'
    BY <2>1 DEF GateInv, RequestOK
  <2> QED BY <2>1, <2>2, RequestStepIsSafe
<1>2. CASE StartRun \/ EndRun
  BY <1>2, StartRunIsSafe, EndRunIsSafe
<1>3. ASSUME NEW a \in Actors, NEW s \in Resources \cup Channels, Begin(a, s)
      PROVE  GateInv'
  BY <1>3, BeginIsSafe
<1>4. ASSUME NEW a \in Actors, Write(a) PROVE GateInv'
  <2>1. /\ task[a].pc # "idle"
        /\ UNCHANGED <<slot, serial, asked, run, page, abort, hand, lock, typed, sys>>
    BY <1>4 DEF Write
  <2>2. CASE lock = None
    <3>1. task' = [task EXCEPT ![a].pc = "working"]
      BY <1>4, <2>2 DEF Write
    <3> QED BY <2>1, <2>2, <3>1, GoOnIsSafe
  <2>3. CASE lock # None
    <3>1. task' = [task EXCEPT ![a].pc = "ending"]
      BY <1>4, <2>3 DEF Write
    <3> QED BY <2>1, <3>1, GoOnIsSafe
  <2> QED BY <2>2, <2>3
<1>5. ASSUME NEW a \in Actors, Work(a) \/ Heed(a) PROVE GateInv'
  <2>1. /\ task[a].pc # "idle" /\ task' = [task EXCEPT ![a].pc = "ending"]
        /\ UNCHANGED <<slot, serial, asked, run, page, abort, hand, lock, typed, sys>>
    BY <1>5 DEF Work, Heed
  <2> QED BY <2>1, GoOnIsSafe
<1>6. ASSUME NEW a \in Actors, Finish(a) PROVE GateInv'
  BY <1>6, GateFinishIsSafe
<1>7. ASSUME NEW s \in Slots, Look(s) PROVE GateInv'
  BY <1>7, LookIsSafe
<1>8. CASE Stop \/ Abort
  BY <1>8, StopIsSafe, AbortIsSafe
<1>9. CASE HandLook \/ HandLock \/ HandCheck \/ HandWrite
  BY <1>9, HandIsSafe
<1>10. CASE Request \/ CheckQuiet \/ NotQuiet
  BY <1>10, QuietIsSafe
<1>11. CASE StopOne
  BY <1>11, StopOneIsSafe
<1>13. ASSUME NEW l \in Leases, (\E a \in Actors : Grant(a, l)) \/ Move(l) PROVE GateInv'
  BY <1>13, LeaseStepIsSafe DEF Grant, Move
<1>14. ASSUME NEW l \in Leases, LookAtLease(l) PROVE GateInv'
  BY <1>14, LookAtLeaseIsSafe
<1>15. CASE FindLease \/ TakeLease
  BY <1>15, LeaseStepIsSafe DEF FindLease, TakeLease
<1>16. CASE Sweep
  BY <1>16, SweepIsSafe
<1>17. CASE StopLease
  <2>1. /\ sys.pc = "stopping" /\ \E todo : sys' = Proceed(todo)
        /\ UNCHANGED <<slot, serial, asked, task, run, page, abort, hand, lock, typed>>
    BY <1>17 DEF StopLease
  <2>2. RequestOK'
    BY <2>1, ProceedIsOK
  <2> QED BY <2>1, <2>2, RequestStepIsSafe
<1>12. CASE BeginMaintenance \/ EndMaintenance
  BY <1>12, BeginMaintenanceIsSafe, EndMaintenanceIsSafe
<1> QED BY <1>1, <1>2, <1>3, <1>4, <1>5, <1>6, <1>7, <1>8, <1>9, <1>10, <1>11,
           <1>12, <1>13, <1>14, <1>15, <1>16, <1>17 DEF GateNext

\* The leases keep their types.
LEMMA DropIsOK ==
  ASSUME GateBounds, LeasesOK, NEW l \in Leases, Drop(l)
  PROVE  leases' \in [Leases -> [on: BOOLEAN, gen: Nat, actor: Actors \cup {None}]]
<1>1. leases[l].gen \in Nat /\ NextGen(leases[l].gen) \in Nat
  BY NextGenCounts DEF LeasesOK
<1> QED BY <1>1 DEF Drop, LeasesOK

\* Every step of the gate keeps the leases well-typed.
LEMMA LeaseStepIsOK ==
  ASSUME GateBounds, LeasesOK, [GateNext]_gateVars PROVE LeasesOK'
<1> DEFINE LeaseType == [on: BOOLEAN, gen: Nat, actor: Actors \cup {None}]
<1>0. \A l \in Leases : leases[l].gen \in Nat /\ NextGen(leases[l].gen) \in Nat
  BY NextGenCounts DEF LeasesOK
<1>1. CASE UNCHANGED leaseVars
  BY <1>1 DEF leaseVars, LeasesOK
<1>2. ASSUME NEW a \in Actors, NEW l \in Leases, Grant(a, l) PROVE LeasesOK'
  <2>1. [on |-> TRUE, gen |-> NextGen(leases[l].gen), actor |-> a] \in LeaseType
    BY <1>0
  <2> QED BY <1>2, <2>1 DEF Grant, LeasesOK
<1>3. ASSUME NEW l \in Leases, Move(l) PROVE LeasesOK'
  <2>1. PICK on \in BOOLEAN, g \in {leases[l].gen, NextGen(leases[l].gen)} :
          leases' = [leases EXCEPT ![l] = [@ EXCEPT !.on = on, !.gen = g]]
    BY <1>3 DEF Move
  <2>2. g \in Nat /\ leases \in [Leases -> LeaseType]
    BY <1>0 DEF LeasesOK
  <2>3. [leases[l] EXCEPT !.on = on, !.gen = g] \in LeaseType
    BY <2>2
  <2> QED BY <1>3, <2>1, <2>2, <2>3 DEF Move, LeasesOK
<1>4. CASE FindLease
  BY <1>4 DEF FindLease, LeasesOK
<1>5. CASE TakeLease
  <2>1. stopper.pc = "taking" /\ stopper.of \in Leases
    BY <1>5 DEF TakeLease, LeasesOK, Stopped
  <2>2. leases' \in [Leases -> LeaseType]
    BY <1>5, <2>1, DropIsOK DEF TakeLease, LeasesOK
  <2>3. stopper' = Stopped \/ stopper' = [pc |-> "sweeping", of |-> stopper.of]
    BY <1>5 DEF TakeLease
  <2> QED BY <2>1, <2>2, <2>3 DEF LeasesOK
<1>6. CASE Sweep
  BY <1>6 DEF Sweep, LeasesOK
<1>7. CASE StopLease
  <2>1. UNCHANGED stopper /\ (UNCHANGED leases \/ \E l \in Leases : Drop(l))
    BY <1>7 DEF StopLease, Leases
  <2>2. leases' \in [Leases -> LeaseType]
    BY <2>1, DropIsOK DEF LeasesOK
  <2> QED BY <2>1, <2>2 DEF LeasesOK
<1>8. CASE StartRun \/ EndRun \/ Stop \/ Abort \/ HandLook \/ HandLock \/ HandCheck
           \/ HandWrite \/ Request \/ StopOne \/ CheckQuiet \/ NotQuiet
           \/ BeginMaintenance \/ EndMaintenance
  BY <1>1, <1>8 DEF StartRun, EndRun, Stop, Abort, HandLook, HandLock, HandCheck, HandWrite,
     Request, StopOne, CheckQuiet, NotQuiet, BeginMaintenance, EndMaintenance
<1>9. ASSUME NEW a \in Actors,
             (\E s \in Resources \cup Channels : Begin(a, s))
             \/ Write(a) \/ Work(a) \/ Heed(a) \/ Finish(a)
      PROVE  LeasesOK'
  BY <1>1, <1>9 DEF Begin, Write, Work, Heed, Finish
<1>10. ASSUME (\E s \in Slots : Look(s)) \/ (\E l \in Leases : LookAtLease(l))
       PROVE  LeasesOK'
  BY <1>1, <1>10 DEF Look, LookAtLease
<1>11. CASE UNCHANGED gateVars
  BY <1>1, <1>11 DEF gateVars
<1> QED BY <1>2, <1>3, <1>4, <1>5, <1>6, <1>7, <1>8, <1>9, <1>10, <1>11 DEF GateNext

\* Operations of the automation exclude maintenance and the operator's typing
\* and keep their number; as long as the counter has not gone round, a stop hits
\* only the operation it named and an abort only the run it named, except the
\* abort after the stop of a lease, which hits whatever run there is
\* (resource_operation_state.c, terminal_control_state.c and their callers).
THEOREM OperationsStayApart ==
  ASSUME GateBounds PROVE GateSpec => []OperationsAreApart
<1>0. GateInit => LeasesOK
  BY DEF GateInit, LeasesOK
<1>1. GateInit => GateInv /\ LeasesOK
  BY <1>0, GateInitIsSafe
<1>2. GateInv /\ LeasesOK /\ [GateNext]_gateVars => GateInv' /\ LeasesOK'
  BY GateStepIsSafe, LeaseStepIsOK
<1>3. GateInv => OperationsAreApart
  <2> SUFFICES ASSUME GateInv PROVE OperationsAreApart
    OBVIOUS
  <2>1. CountersAreFresh => Fresh
    BY DEF GateInv, CounterTells, CountersAreFresh, Fresh
  <2> QED BY <2>1
       DEF GateInv, OperationsAreApart, TokenIsCurrent, TaskHasItsSlot, CounterTells
<1> QED BY <1>1, <1>2, <1>3, PTL DEF GateSpec

-----------------------------------------------------------------------------
(* The broker. *)

\* The states of a request whose effect began, and those a step leaves a record in.
Begun == Started \cup {"completed", "failed", "unknown"}
Kept == Waiting \cup {"granted"} \cup Started \cup Ended

RecordType ==
  [id: Nat, in: InputType, state: Kept, scope: 0..3, expires: Nat,
   consumed: BOOLEAN, granted: Int, root: Nat]

\* What is true of a record wherever it is kept; n is the next free number.
RecordOK(r, n) ==
  /\ r \in RecordType /\ r.id >= 1 /\ r.id < n /\ r.root < n
  /\ r.expires <= MaxTime /\ r.scope <= r.in.scope
  /\ r.consumed <=> r.state \in Begun
  /\ r.state \in Waiting => r.root = r.id

\* A record that gives or passes on authority now.
Live(r) ==
  \/ r.state \in {"granted"} \cup Started
  \/ r.state = "completed" /\ now < r.expires

TableOK(table, n) ==
  /\ DOMAIN table = Places
  /\ \A s \in Places : table[s] = EmptySlot \/ RecordOK(table[s], n)

\* Numbers and keys tell the records apart.
Distinct(table) ==
  \A s, t \in Used(table) :
    s # t => table[s].id # table[t].id /\ table[s].in.key # table[t].in.key

\* Authority was granted in this boot, and so was the decision at its root.
RootsOK(table) ==
  \A s \in Used(table) : Live(table[s]) =>
    /\ table[s].granted = boot
    /\ \A t \in Used(table) : table[t].id = table[s].root => table[t].granted = boot

\* A record q that was reused from the decision r at the root of its chain.
Inside(q, r) ==
  /\ q.expires <= r.expires /\ q.scope <= r.scope
  /\ q.in.plan = r.in.plan /\ q.in.args = r.in.args /\ q.in.kind = r.in.kind
  /\ SameWithin(r.scope, r.in, q.in)
  /\ r.scope = Thread => q.in.kind = "context"
  /\ r.state = "completed"

InsideOK(table) ==
  boot = 0 => \A s, t \in Used(table) :
    s # t /\ table[s].root = table[t].id => Inside(table[s], table[t])

\* The record that stands for an effect: it can start none any more.
Stands(r, e) ==
  /\ e = [id |-> e.id, key |-> e.key, run |-> e.run, seen |-> e.seen]
  /\ r.id = e.id /\ r.in.key = e.key /\ r.in.run = e.run
  /\ r.consumed \/ r.state \in Ended
  /\ e.seen => r.consumed
Tombstones(table) ==
  \A e \in effects : \E s \in Used(table) : Stands(table[s], e)

\* A request that was called off stays so.
CalledOK(table) ==
  \A s \in Used(table) : table[s].id \in called => table[s].state = "cancelled"

\* A number the snapshot knows is the number of the same request in the table.
Matches(table) ==
  \A f \in snapshot.entries : \A s \in Used(table) :
    f.r.id = table[s].id => f.r.in = table[s].in

SnapshotOK ==
  /\ snapshot.next \in Nat /\ snapshot.next >= 1 /\ snapshot.next <= nextSeq
  /\ \A f \in snapshot.entries :
       f.at \in Places /\ RecordOK(f.r, snapshot.next) /\ f.left \in Nat /\ f.left <= MaxTime
  /\ \A f, h \in snapshot.entries :
       f.at = h.at \/ f.r.id = h.r.id \/ f.r.in.key = h.r.in.key => f = h

NumbersOK ==
  /\ nextSeq \in 1..(MaxSeq + 1) /\ now \in 0..MaxTime /\ boot \in 0..MaxResets
  /\ \A i \in called : i \in Nat /\ i < nextSeq

Sound(table) ==
  /\ TableOK(table, nextSeq) /\ Distinct(table) /\ RootsOK(table)
  /\ InsideOK(table) /\ Tombstones(table) /\ Matches(table)

BrokerInv == NumbersOK /\ SnapshotOK /\ Sound(slots) /\ CalledOK(slots)

-----------------------------------------------------------------------------
(* How a record moves between two resets *)

\* From record r to record q: who asked for what until when is fixed, an ended
\* one stays as it is, an effect begins in time, authority comes from authority
\* or from a decision, and only a decision sets the scope.
Moved(r, q) ==
  /\ q \in RecordType /\ q.id = r.id /\ q.in = r.in /\ q.root = r.root
  /\ q.expires = r.expires /\ q.scope <= q.in.scope
  /\ q.consumed <=> q.state \in Begun
  /\ r.consumed => q.consumed
  /\ q.consumed /\ ~r.consumed => now < r.expires
  /\ r.state \in Ended => q = r
  /\ q.state \in Waiting => r.state \in Waiting
  /\ q.scope # r.scope => r.state \in Waiting
  /\ Live(q) => Live(r) \/ (r.state \in Waiting /\ q.granted = boot)
  /\ r.granted = boot => q.granted = boot

\* A record that has moved is as sound as before.
LEMMA MovedIsOK ==
  ASSUME NEW r, NEW q, NEW n, RecordOK(r, n), Moved(r, q)
  PROVE  RecordOK(q, n)
<1>1. q.state \in Waiting => r.state \in Waiting
  BY DEF Moved
<1> QED BY <1>1 DEF Moved, RecordOK

\* Two moves are one.
LEMMA MovedTwice ==
  ASSUME NEW a, NEW b, NEW c, Moved(a, b), Moved(b, c)
  PROVE  Moved(a, c)
<1>1. c \in RecordType /\ c.id = a.id /\ c.in = a.in /\ c.root = a.root
  BY DEF Moved
<1>2. c.expires = a.expires /\ c.scope <= c.in.scope /\ (c.consumed <=> c.state \in Begun)
  BY DEF Moved
<1>3. /\ a.consumed => c.consumed
      /\ c.consumed /\ ~a.consumed => now < a.expires
  BY DEF Moved
<1>4. /\ a.state \in Ended => c = a
      /\ c.state \in Waiting => a.state \in Waiting
      /\ c.scope # a.scope => a.state \in Waiting
      /\ a.granted = boot => c.granted = boot
  BY DEF Moved
<1>5. Live(c) => Live(a) \/ (a.state \in Waiting /\ c.granted = boot)
  BY DEF Moved
<1> QED BY <1>1, <1>2, <1>3, <1>4, <1>5 DEF Moved

\* A record stands still.
LEMMA MovedNot ==
  ASSUME NEW r, NEW n, RecordOK(r, n)
  PROVE  Moved(r, r)
BY DEF RecordOK, Moved

\* The states of the machine are different ones.
LEMMA StatesApart ==
  /\ Begun \cap (Waiting \cup {"granted", "denied", "expired", "cancelled"}) = {}
  /\ Ended \cap (Waiting \cup {"granted"} \cup Started) = {}
  /\ Waiting \cap ({"granted"} \cup Started \cup Ended) = {}
BY DEF Begun, Started, Waiting, Ended

\* set_state moves a record; to "executing" only in time.
LEMMA SetStateMoves ==
  ASSUME NEW r, NEW n, RecordOK(r, n), NEW next \in Kept, boot \in Int,
         next = "executing" => now < r.expires
  PROVE  Moved(r, set_state(r, next))
<1> DEFINE q == set_state(r, next)
<1>1. CASE ~transition_allowed(r.state, next)
  BY <1>1, MovedNot DEF set_state
<1>2. CASE transition_allowed(r.state, next)
  <2>1. q = [r EXCEPT !.state = next, !.consumed = @ \/ next = "executing",
                      !.granted = IF next = "granted" THEN boot ELSE @]
    BY <1>2 DEF set_state
  <2>2. r \in RecordType /\ r.expires <= MaxTime /\ r.scope <= r.in.scope
        /\ (r.consumed <=> r.state \in Begun)
    BY DEF RecordOK
  <2>3. /\ q \in RecordType /\ q.id = r.id /\ q.in = r.in /\ q.root = r.root
        /\ q.expires = r.expires /\ q.scope = r.scope /\ q.state = next
        /\ (q.consumed <=> (r.consumed \/ next = "executing"))
        /\ q.granted = (IF next = "granted" THEN boot ELSE r.granted)
    BY <2>1, <2>2 DEF RecordType
  <2> HIDE DEF q
  <2>4. \/ r.state \in Waiting
           /\ next \in Waiting \cup {"granted", "denied", "cancelled", "expired"}
        \/ r.state = "granted" /\ next \in {"executing", "cancelled", "expired"}
        \/ r.state \in Started /\ next \in {"verifying", "completed", "failed", "unknown"}
    BY <1>2, <2>2 DEF transition_allowed, RecordType, Kept, Waiting, Started, Ended
  <2>5. /\ q.consumed <=> q.state \in Begun
        /\ r.consumed => q.consumed
        /\ q.consumed /\ ~r.consumed => now < r.expires
    BY <2>2, <2>3, <2>4 DEF Begun, Started, Waiting
  <2>6. r.state \notin Ended /\ (q.state \in Waiting => r.state \in Waiting)
    BY <2>3, <2>4 DEF Ended, Started, Waiting
  <2>7. Live(q) => Live(r) \/ (r.state \in Waiting /\ q.granted = boot)
    BY <2>3, <2>4 DEF Live, Started, Waiting
  <2>8. q.scope <= q.in.scope
    BY <2>2, <2>3
  <2>9. r.granted = boot => q.granted = boot
    BY <2>3
  <2> QED BY <2>3, <2>5, <2>6, <2>7, <2>8, <2>9 DEF Moved, q
<1> QED BY <1>1, <1>2

-----------------------------------------------------------------------------
(* Tables that moved *)

\* Every record of the first table is in the second, moved or not.
TableMoved(old, new) ==
  /\ DOMAIN new = Places
  /\ \A s \in Places :
       \/ new[s] = old[s]
       \/ s \in Used(old) /\ new[s] # EmptySlot /\ Moved(old[s], new[s])

\* A record is not the empty slot.
LEMMA RecordIsNotEmpty == ASSUME NEW r \in RecordType PROVE r # EmptySlot
<1>1. r.state # "empty"
  BY DEF RecordType, Kept, Waiting, Started, Ended
<1> QED BY <1>1 DEF EmptySlot

\* Where a table moved, the same places are used.
LEMMA SamePlaces ==
  ASSUME NEW old, NEW new, NEW n, TableOK(old, n), TableMoved(old, new)
  PROVE  /\ Used(new) = Used(old)
         /\ \A s \in Used(old) : Moved(old[s], new[s]) /\ RecordOK(old[s], n)
<1>1. ASSUME NEW s \in Used(old) PROVE Moved(old[s], new[s]) /\ RecordOK(old[s], n)
  <2>1. RecordOK(old[s], n)
    BY DEF Used, TableOK
  <2>2. new[s] = old[s] \/ Moved(old[s], new[s])
    BY DEF TableMoved, Used
  <2> QED BY <2>1, <2>2, MovedNot
<1>2. \A s \in Places : new[s] # EmptySlot <=> old[s] # EmptySlot
  BY DEF TableMoved, Used
<1> QED BY <1>1, <1>2 DEF Used

\* A sound table that moved is sound.
LEMMA MovedIsSound ==
  ASSUME NEW old, NEW new, Sound(old), TableMoved(old, new)
  PROVE  Sound(new)
<1>0. /\ TableOK(old, nextSeq) /\ Distinct(old) /\ RootsOK(old) /\ InsideOK(old)
      /\ Tombstones(old) /\ Matches(old)
  BY DEF Sound
<1>1. /\ Used(new) = Used(old)
      /\ \A s \in Used(old) : Moved(old[s], new[s]) /\ RecordOK(old[s], nextSeq)
  BY <1>0, SamePlaces
<1>2. \A s \in Used(old) :
        /\ new[s].id = old[s].id /\ new[s].in = old[s].in /\ new[s].root = old[s].root
        /\ new[s].expires = old[s].expires
  BY <1>1 DEF Moved
<1>3. TableOK(new, nextSeq)
  <2>1. \A s \in Used(new) : RecordOK(new[s], nextSeq)
    BY <1>1, MovedIsOK
  <2> QED BY <2>1 DEF TableOK, TableMoved, Used
<1>4. Distinct(new)
  BY <1>0, <1>1, <1>2 DEF Distinct
<1>5. RootsOK(new)
  <2> SUFFICES ASSUME NEW s \in Used(new), Live(new[s])
               PROVE  /\ new[s].granted = boot
                      /\ \A t \in Used(new) :
                           new[t].id = new[s].root => new[t].granted = boot
    BY DEF RootsOK
  <2>0. s \in Used(old)
    BY <1>1
  <2>1. Live(old[s]) \/ (old[s].state \in Waiting /\ new[s].granted = boot)
    BY <1>1, <2>0 DEF Moved
  <2>2. CASE Live(old[s])
    <3>1. /\ old[s].granted = boot
          /\ \A t \in Used(old) : old[t].id = old[s].root => old[t].granted = boot
      BY <1>0, <2>0, <2>2 DEF RootsOK
    <3>2. \A t \in Used(old) : old[t].granted = boot => new[t].granted = boot
      BY <1>1 DEF Moved
    <3> QED BY <1>1, <1>2, <2>0, <3>1, <3>2
  <2>3. CASE old[s].state \in Waiting /\ new[s].granted = boot
    <3>1. old[s].root = old[s].id
      BY <1>1, <2>0, <2>3 DEF RecordOK
    <3>2. \A t \in Used(new) : new[t].id = new[s].root => t = s
      BY <1>0, <1>1, <1>2, <2>0, <3>1 DEF Distinct
    <3> QED BY <2>3, <3>2
  <2> QED BY <2>1, <2>2, <2>3
<1>6. InsideOK(new)
  <2> SUFFICES ASSUME boot = 0, NEW s \in Used(old), NEW t \in Used(old), s # t,
                      new[s].root = new[t].id
               PROVE  Inside(new[s], new[t])
    BY <1>1 DEF InsideOK
  <2>1. Inside(old[s], old[t])
    BY <1>0, <1>2 DEF InsideOK
  <2>2. new[t] = old[t]
    BY <1>1, <2>1 DEF Inside, Moved, Ended
  <2>3. old[s].state \notin Waiting
    <3>1. old[s].root # old[s].id
      BY <1>0, <1>2 DEF Distinct
    <3> QED BY <1>1, <3>1 DEF RecordOK
  <2>4. new[s].scope = old[s].scope
    BY <1>1, <2>3 DEF Moved
  <2> QED BY <1>2, <2>1, <2>2, <2>4 DEF Inside
<1>7. Tombstones(new)
  <2> SUFFICES ASSUME NEW e \in effects PROVE \E s \in Used(new) : Stands(new[s], e)
    BY DEF Tombstones
  <2>1. PICK s \in Used(old) : Stands(old[s], e)
    BY <1>0 DEF Tombstones
  <2>2. old[s].state \in Ended => new[s] = old[s]
    BY <1>1 DEF Moved
  <2>3. old[s].consumed => new[s].consumed
    BY <1>1 DEF Moved
  <2>4. Stands(new[s], e)
    BY <1>2, <2>1, <2>2, <2>3 DEF Stands
  <2> QED BY <1>1, <2>4
<1>8. Matches(new)
  BY <1>0, <1>1, <1>2 DEF Matches
<1> QED BY <1>3, <1>4, <1>5, <1>6, <1>7, <1>8 DEF Sound

\* What was called off is still called off.
LEMMA MovedIsCalled ==
  ASSUME NEW old, NEW new, Sound(old), CalledOK(old), TableMoved(old, new)
  PROVE  CalledOK(new)
<1>1. /\ Used(new) = Used(old)
      /\ \A s \in Used(old) : Moved(old[s], new[s]) /\ RecordOK(old[s], nextSeq)
  BY SamePlaces DEF Sound
<1> SUFFICES ASSUME NEW s \in Used(old), new[s].id \in called
             PROVE  new[s].state = "cancelled"
  BY <1>1 DEF CalledOK
<1>2. old[s].state = "cancelled"
  BY <1>1 DEF Moved, CalledOK
<1>3. new[s] = old[s]
  BY <1>1, <1>2 DEF Moved, Ended
<1> QED BY <1>2, <1>3

\* Two moves of a table are one.
LEMMA TableMovedTwice ==
  ASSUME NEW a, NEW b, NEW c, NEW n, TableOK(a, n), TableMoved(a, b), TableMoved(b, c)
  PROVE  TableMoved(a, c)
<1>1. Used(b) = Used(a) /\ \A s \in Used(a) : Moved(a[s], b[s]) /\ RecordOK(a[s], n)
  BY SamePlaces
<1>2. ASSUME NEW s \in Places, c[s] # a[s]
      PROVE  s \in Used(a) /\ c[s] # EmptySlot /\ Moved(a[s], c[s])
  <2>1. CASE c[s] = b[s]
    <3>1. s \in Used(a) /\ b[s] # EmptySlot /\ Moved(a[s], b[s])
      BY <1>2, <2>1 DEF TableMoved
    <3> QED BY <2>1, <3>1
  <2>2. CASE c[s] # b[s]
    <3>1. s \in Used(b) /\ c[s] # EmptySlot /\ Moved(b[s], c[s])
      BY <2>2 DEF TableMoved
    <3>2. Moved(a[s], b[s])
      BY <1>1, <3>1
    <3> QED BY <1>1, <3>1, <3>2, MovedTwice
  <2> QED BY <2>1, <2>2
<1> QED BY <1>2 DEF TableMoved

\* One record of a table moves.
LEMMA OneMoves ==
  ASSUME NEW table, NEW n, TableOK(table, n), NEW s \in Used(table), NEW r,
         Moved(table[s], r)
  PROVE  TableMoved(table, [table EXCEPT ![s] = r])
<1>1. r # EmptySlot
  BY RecordIsNotEmpty DEF Moved
<1>2. s \in Places /\ DOMAIN table = Places
  BY DEF Used, TableOK
<1> QED BY <1>1, <1>2 DEF TableMoved

\* expire_all moves the table, and leaves what is granted or waits before its end.
LEMMA ExpireMoves ==
  ASSUME BrokerInv
  PROVE  /\ TableMoved(slots, expire_all) /\ Sound(expire_all) /\ CalledOK(expire_all)
         /\ \A s \in Used(expire_all) :
              /\ s \in Used(slots) /\ RecordOK(expire_all[s], nextSeq)
              /\ expire_all[s].state \in Expires =>
                   expire_all[s] = slots[s] /\ now < slots[s].expires
<1>0. boot \in Int /\ now \in Int /\ TableOK(slots, nextSeq)
  BY DEF BrokerInv, NumbersOK, Sound
<1>1. ASSUME NEW s \in Places
      PROVE  \/ /\ expire_all[s] = slots[s]
                /\ slots[s] # EmptySlot /\ slots[s].state \in Expires => now < slots[s].expires
             \/ /\ s \in Used(slots) /\ expire_all[s] # EmptySlot
                /\ Moved(slots[s], expire_all[s]) /\ expire_all[s].state = "expired"
  <2>1. CASE slots[s].state \in Expires /\ deadline_reached(slots[s].expires)
    <3>1. expire_all[s] = set_state(slots[s], "expired")
      BY <2>1 DEF expire_all
    <3>2. slots[s] # EmptySlot
      BY <2>1 DEF EmptySlot, Expires, Waiting
    <3>3. RecordOK(slots[s], nextSeq) /\ s \in Used(slots)
      BY <1>0, <3>2 DEF TableOK, Used
    <3>4. Moved(slots[s], expire_all[s])
      BY <1>0, <3>1, <3>3, SetStateMoves DEF Kept, Ended
    <3>5. transition_allowed(slots[s].state, "expired") /\ slots[s] \in RecordType
      BY <2>1, <3>3 DEF transition_allowed, Expires, Waiting, RecordOK
    <3>6. expire_all[s].state = "expired"
      BY <3>1, <3>5 DEF set_state, RecordType
    <3>7. expire_all[s] # EmptySlot
      BY <3>4, RecordIsNotEmpty DEF Moved
    <3> QED BY <3>3, <3>4, <3>6, <3>7
  <2>2. CASE ~(slots[s].state \in Expires /\ deadline_reached(slots[s].expires))
    <3>1. expire_all[s] = slots[s]
      BY <2>2 DEF expire_all
    <3>2. slots[s] # EmptySlot => slots[s].expires \in Int
      BY <1>0 DEF TableOK, RecordOK, RecordType
    <3> QED BY <1>0, <2>2, <3>1, <3>2 DEF deadline_reached
  <2> QED BY <2>1, <2>2
<1>2. DOMAIN expire_all = Places
  BY DEF expire_all
<1>3. TableMoved(slots, expire_all)
  BY <1>1, <1>2 DEF TableMoved
<1>4. Sound(expire_all) /\ CalledOK(expire_all)
  BY <1>3, MovedIsSound, MovedIsCalled DEF BrokerInv
<1>5. Used(expire_all) = Used(slots)
  BY <1>0, <1>3, SamePlaces
<1>6. ASSUME NEW s \in Used(expire_all)
      PROVE  /\ s \in Used(slots) /\ RecordOK(expire_all[s], nextSeq)
             /\ expire_all[s].state \in Expires =>
                  expire_all[s] = slots[s] /\ now < slots[s].expires
  <2>1. s \in Places /\ s \in Used(slots) /\ slots[s] # EmptySlot
    BY <1>5 DEF Used
  <2>2. RecordOK(expire_all[s], nextSeq)
    BY <1>4, <1>6 DEF Sound, TableOK, Used
  <2>3. "expired" \notin Expires
    BY DEF Expires, Waiting
  <2> QED BY <1>1, <2>1, <2>2, <2>3
<1> QED BY <1>3, <1>4, <1>6

-----------------------------------------------------------------------------
(* The steps *)

\* What no step but a reset does to a record: an effect begins in time, in a
\* record that was moved there.
EffectsBeginWell ==
  \A s \in Places : slots'[s] # EmptySlot =>
    \/ slots[s] # EmptySlot /\ Moved(slots[s], slots'[s])
    \/ slots[s] = EmptySlot /\ ~slots'[s].consumed

\* A step that puts a table in place, with the effects that begin in it.
LEMMA PutIsSound ==
  ASSUME NEW table, Put(table), TableOK(table, nextSeq'), Distinct(table), RootsOK(table),
         InsideOK(table), Tombstones(table), UNCHANGED <<now, boot>>
  PROVE  /\ TableOK(slots, nextSeq)' /\ Distinct(slots)' /\ RootsOK(slots)'
         /\ InsideOK(slots)' /\ Tombstones(slots)'
<1>1. slots' = table
  BY DEF Put
<1>2. TableOK(slots, nextSeq)'
  BY <1>1 DEF TableOK, RecordOK
<1>3. Distinct(slots)'
  BY <1>1 DEF Distinct, Used
<1>4. RootsOK(slots)'
  BY <1>1 DEF RootsOK, Live, Used
<1>5. InsideOK(slots)'
  BY <1>1 DEF InsideOK, Inside, Used
<1>6. Tombstones(slots)'
  <2> SUFFICES ASSUME NEW e \in effects'
               PROVE  \E s \in Used(table) : Stands(table[s], e)
    BY <1>1 DEF Tombstones, Used, Stands
  <2>1. CASE e \in effects
    BY <2>1 DEF Tombstones
  <2>2. CASE e \notin effects
    <3>1. PICK s \in Used(table) :
            /\ table[s].consumed
            /\ e = [id |-> table[s].id, key |-> table[s].in.key,
                    run |-> table[s].in.run, seen |-> TRUE]
      BY <2>2 DEF Put
    <3>2. Stands(table[s], e)
      BY <3>1 DEF Stands
    <3> QED BY <3>2
  <2> QED BY <2>1, <2>2
<1> QED BY <1>2, <1>3, <1>4, <1>5, <1>6

\* A step that puts a sound table in place keeps the invariant.
LEMMA PutIsSafe ==
  ASSUME NEW table, Put(table), Sound(table), NumbersOK', SnapshotOK', CalledOK(slots)',
         UNCHANGED <<nextSeq, now, snapshot, boot>>
  PROVE  BrokerInv'
<1>1. /\ TableOK(table, nextSeq) /\ Distinct(table) /\ RootsOK(table)
      /\ InsideOK(table) /\ Tombstones(table) /\ Matches(table) /\ slots' = table
  BY DEF Sound, Put
<1>2. TableOK(table, nextSeq')
  BY <1>1
<1>3. Matches(slots)'
  BY <1>1 DEF Matches, Used
<1>4. Sound(slots)'
  BY <1>1, <1>2, <1>3, PutIsSound DEF Sound
<1> QED BY <1>4 DEF BrokerInv

\* Nothing else changes: the numbers and the snapshot are as before.
LEMMA RestIsSafe ==
  ASSUME BrokerInv, UNCHANGED <<nextSeq, now, snapshot, boot, called>>
  PROVE  NumbersOK' /\ SnapshotOK'
<1>1. NumbersOK'
  BY DEF BrokerInv, NumbersOK
<1>2. SnapshotOK'
  BY DEF BrokerInv, SnapshotOK, RecordOK
<1> QED BY <1>1, <1>2

\* A step that moves the table and touches nothing else.
LEMMA MoveIsSafe ==
  ASSUME BrokerInv, NEW table, TableMoved(slots, table), Put(table),
         UNCHANGED <<nextSeq, now, snapshot, boot, called>>
  PROVE  BrokerInv' /\ EffectsBeginWell
<1>1. Sound(table) /\ CalledOK(table) /\ slots' = table
  BY MovedIsSound, MovedIsCalled DEF BrokerInv, Put
<1>2. CalledOK(slots)'
  BY <1>1 DEF CalledOK, Used
<1>3. BrokerInv'
  BY <1>1, <1>2, RestIsSafe, PutIsSafe
<1>4. Used(table) = Used(slots) /\ \A s \in Used(slots) : Moved(slots[s], table[s])
  BY SamePlaces DEF BrokerInv, Sound
<1>5. EffectsBeginWell
  BY <1>1, <1>4 DEF EffectsBeginWell, Used
<1> QED BY <1>3, <1>5

\* A step that moves one record of the table with its deadlines looked at.
LEMMA ChangeIsSafe ==
  ASSUME BrokerInv, NEW s \in Used(expire_all), NEW r, Moved(expire_all[s], r),
         PutAt(expire_all, s, r),
         UNCHANGED <<nextSeq, now, snapshot, boot, called>>
  PROVE  BrokerInv' /\ EffectsBeginWell
<1> DEFINE table == [expire_all EXCEPT ![s] = r]
<1>1. TableMoved(slots, expire_all) /\ TableOK(expire_all, nextSeq)
      /\ TableOK(slots, nextSeq)
  BY ExpireMoves DEF BrokerInv, Sound
<1>2. TableMoved(expire_all, table)
  BY <1>1, OneMoves
<1>3. TableMoved(slots, table)
  BY <1>1, <1>2, TableMovedTwice
<1>4. Put(table)
  BY DEF PutAt
<1> QED BY <1>3, <1>4, MoveIsSafe

\* A status query, or any operation that only looks at the deadlines.
LEMMA QueryIsSafe ==
  ASSUME BrokerInv, Put(expire_all), UNCHANGED <<nextSeq, now, snapshot, boot, called>>
  PROVE  BrokerInv' /\ EffectsBeginWell
BY ExpireMoves, MoveIsSafe

\* A decision: of a request that waits, no wider than it asked for.
LEMMA DecideIsSafe ==
  ASSUME BrokerInv, NEW id, NEW by, NEW approved \in BOOLEAN, NEW scope \in 0..3,
         DecideV2(id, by, approved, scope)
  PROVE  BrokerInv' /\ EffectsBeginWell
<1>1. PICK s \in find_by_id(expire_all, id) :
        /\ MayDecide(by, expire_all[s])
        /\ approved => scope <= expire_all[s].in.scope
        /\ PutAt(expire_all, s,
             IF approved THEN set_state([expire_all[s] EXCEPT !.scope = scope], "granted")
             ELSE set_state(expire_all[s], "denied"))
        /\ UNCHANGED <<nextSeq, now, snapshot, boot, called>>
  BY DEF DecideV2
<1> DEFINE r == expire_all[s]
<1>2. s \in Used(expire_all) /\ RecordOK(r, nextSeq) /\ r.state \in Waiting
  BY <1>1, ExpireMoves DEF find_by_id, MayDecide
<1>3. boot \in Int
  BY DEF BrokerInv, NumbersOK
<1> HIDE DEF r
<1>4. CASE approved
  <2> DEFINE w == [r EXCEPT !.scope = scope]
  <2>1. r \in RecordType /\ scope <= r.in.scope
    BY <1>1, <1>2, <1>4 DEF RecordOK, r
  <2>2. /\ w \in RecordType /\ w.id = r.id /\ w.in = r.in /\ w.root = r.root
        /\ w.expires = r.expires /\ w.scope = scope /\ w.state = r.state
        /\ w.consumed = r.consumed /\ w.granted = r.granted
    BY <2>1 DEF RecordType
  <2> HIDE DEF w
  <2>3. RecordOK(w, nextSeq)
    BY <1>2, <2>1, <2>2 DEF RecordOK
  <2>4. Moved(r, w)
    <3>1. Live(w) <=> Live(r)
      BY <2>2 DEF Live
    <3>2. r.state \notin Ended /\ (r.consumed <=> r.state \in Begun)
      BY <1>2, StatesApart DEF RecordOK
    <3> QED BY <1>2, <2>1, <2>2, <3>1, <3>2 DEF Moved
  <2>5. Moved(w, set_state(w, "granted"))
    BY <1>3, <2>3, SetStateMoves DEF Kept
  <2>6. Moved(r, set_state(w, "granted"))
    BY <2>4, <2>5, MovedTwice
  <2>7. PutAt(expire_all, s, set_state(w, "granted"))
    BY <1>1, <1>4 DEF w, r
  <2> QED BY <1>1, <1>2, <2>6, <2>7, ChangeIsSafe DEF r
<1>5. CASE ~approved
  <2>1. Moved(r, set_state(r, "denied"))
    BY <1>2, <1>3, SetStateMoves DEF Kept, Ended
  <2>2. PutAt(expire_all, s, set_state(r, "denied"))
    BY <1>1, <1>5 DEF r
  <2> QED BY <1>1, <1>2, <2>1, <2>2, ChangeIsSafe DEF r
<1> QED BY <1>4, <1>5

\* The executor takes the grant, in time, or voids it.
LEMMA ConsumeIsSafe ==
  ASSUME BrokerInv, NEW id, NEW b, Consume(id, b)
  PROVE  BrokerInv' /\ EffectsBeginWell
<1>1. PICK s \in find_by_id(expire_all, id) :
        /\ expire_all[s].state = "granted"
        /\ PutAt(expire_all, s, set_state(expire_all[s],
             IF binding_matches(b, expire_all[s].in) THEN "executing" ELSE "expired"))
        /\ UNCHANGED <<nextSeq, now, snapshot, boot, called>>
  BY DEF Consume
<1> DEFINE next == IF binding_matches(b, expire_all[s].in) THEN "executing" ELSE "expired"
<1>2. s \in Used(expire_all) /\ boot \in Int /\ next \in Kept
  BY <1>1 DEF find_by_id, BrokerInv, NumbersOK, Kept, Started, Ended
<1>3. RecordOK(expire_all[s], nextSeq) /\ now < expire_all[s].expires
  BY <1>1, <1>2, ExpireMoves DEF Expires
<1>4. Moved(expire_all[s], set_state(expire_all[s], next))
  BY <1>2, <1>3, SetStateMoves
<1> QED BY <1>1, <1>2, <1>4, ChangeIsSafe

\* The executor tells how far the effect is, or how it ended.
LEMMA SettleIsSafe ==
  ASSUME BrokerInv, NEW id, NEW next \in {"verifying", "completed", "unknown"}, Settle(id, next)
  PROVE  BrokerInv' /\ EffectsBeginWell
<1>1. PICK s \in find_by_id(slots, id) :
        /\ PutAt(slots, s, set_state(slots[s], next))
        /\ UNCHANGED <<nextSeq, now, snapshot, boot, called>>
  BY DEF Settle
<1>2. /\ s \in Used(slots) /\ boot \in Int /\ TableOK(slots, nextSeq)
      /\ next \in Kept /\ next # "executing"
  BY DEF find_by_id, BrokerInv, NumbersOK, Sound, Kept, Started, Ended
<1>3. RecordOK(slots[s], nextSeq)
  BY <1>2 DEF TableOK, Used
<1>4. Moved(slots[s], set_state(slots[s], next))
  BY <1>2, <1>3, SetStateMoves
<1>5. TableMoved(slots, [slots EXCEPT ![s] = set_state(slots[s], next)])
  BY <1>2, <1>4, OneMoves
<1> QED BY <1>1, <1>5, MoveIsSafe DEF PutAt

\* The old entry point consumes and ends in one call.
LEMMA FinishIsSafe ==
  ASSUME BrokerInv, NEW id, NEW ok \in BOOLEAN, FinishRequest(id, ok)
  PROVE  BrokerInv' /\ EffectsBeginWell
<1> DEFINE next == IF ok THEN "verifying" ELSE "failed"
<1>1. PICK s \in find_by_id(expire_all, id) :
        /\ expire_all[s].state \in {"granted", "executing"}
        /\ PutAt(expire_all, s, set_state(set_state(expire_all[s], "executing"), next))
        /\ UNCHANGED <<nextSeq, now, snapshot, boot, called>>
  BY DEF FinishRequest
<1> DEFINE r == expire_all[s]
           q == set_state(r, "executing")
<1>2. s \in Used(expire_all) /\ boot \in Int /\ next \in Kept /\ next # "executing"
      /\ "executing" \in Kept
  BY DEF find_by_id, BrokerInv, NumbersOK, Kept, Started, Ended
<1>3. RecordOK(r, nextSeq) /\ (r.state = "granted" => now < r.expires)
  BY <1>2, ExpireMoves DEF Expires
<1> HIDE DEF next, r
<1>4. Moved(r, q)
  <2>1. CASE r.state = "granted"
    BY <1>2, <1>3, <2>1, SetStateMoves
  <2>2. CASE r.state = "executing"
    <3>1. q = r
      BY <2>2 DEF set_state, transition_allowed
    <3> QED BY <1>3, <3>1, MovedNot
  <2> QED BY <1>1, <2>1, <2>2 DEF r
<1>5. RecordOK(q, nextSeq)
  BY <1>3, <1>4, MovedIsOK
<1> HIDE DEF q
<1>6. Moved(r, set_state(q, next))
  BY <1>2, <1>4, <1>5, SetStateMoves, MovedTwice
<1>7. PutAt(expire_all, s, set_state(q, next))
  BY <1>1 DEF q, r
<1> QED BY <1>1, <1>2, <1>6, <1>7, ChangeIsSafe DEF r

\* A request is called off before its effect, or its outcome becomes unknown.
LEMMA CancelOneMoves ==
  ASSUME NEW r, NEW n, RecordOK(r, n), boot \in Int
  PROVE  /\ Moved(r, CancelOne(r))
         /\ r.state \in Expires => CancelOne(r).state = "cancelled"
<1>1. Moved(r, CancelOne(r))
  <2>1. Moved(r, set_state(r, "unknown")) /\ Moved(r, set_state(r, "cancelled"))
    BY SetStateMoves DEF Kept, Ended
  <2> QED BY <2>1, MovedNot DEF CancelOne
<1>2. ASSUME r.state \in Expires PROVE CancelOne(r).state = "cancelled"
  <2>1. r.state \notin Started /\ transition_allowed(r.state, "cancelled")
    BY <1>2 DEF Expires, Waiting, Started, transition_allowed
  <2>2. CancelOne(r) = set_state(r, "cancelled") /\ r \in RecordType
    BY <1>2, <2>1 DEF CancelOne, RecordOK
  <2> QED BY <2>1, <2>2 DEF set_state, RecordType
<1> QED BY <1>1, <1>2

\* Some requests of a table are called off.
CancelSome(table, at) ==
  [s \in Places |-> IF s \in at THEN CancelOne(table[s]) ELSE table[s]]

\* To call off is to move.
LEMMA CancelSomeMoves ==
  ASSUME NEW table, NEW n, TableOK(table, n), boot \in Int, NEW at \in SUBSET Used(table)
  PROVE  TableMoved(table, CancelSome(table, at))
<1> DEFINE new == CancelSome(table, at)
<1>1. ASSUME NEW s \in Places, new[s] # table[s]
      PROVE  s \in Used(table) /\ new[s] # EmptySlot /\ Moved(table[s], new[s])
  <2>1. s \in at /\ new[s] = CancelOne(table[s])
    BY <1>1 DEF CancelSome
  <2>2. s \in Used(table) /\ RecordOK(table[s], n)
    BY <2>1 DEF Used, TableOK
  <2>3. Moved(table[s], new[s])
    BY <2>1, <2>2, CancelOneMoves
  <2> QED BY <2>2, <2>3, RecordIsNotEmpty DEF Moved
<1>2. DOMAIN new = Places
  BY DEF CancelSome
<1> HIDE DEF new
<1> QED BY <1>1, <1>2 DEF TableMoved, new

\* A step that calls some requests off, and says so.
LEMMA CallOffIsSafe ==
  ASSUME BrokerInv, NEW at \in SUBSET Used(expire_all), Put(CancelSome(expire_all, at)),
         called' = called \cup Called(expire_all, at),
         UNCHANGED <<nextSeq, now, snapshot, boot>>
  PROVE  BrokerInv' /\ EffectsBeginWell
<1> DEFINE old == expire_all
           new == CancelSome(expire_all, at)
<1>0. boot \in Int /\ TableOK(slots, nextSeq) /\ NumbersOK /\ SnapshotOK
  BY DEF BrokerInv, NumbersOK, Sound
<1>1. /\ TableMoved(slots, old) /\ Sound(old) /\ CalledOK(old)
      /\ \A s \in Used(old) : RecordOK(old[s], nextSeq)
  BY ExpireMoves
<1>2. TableMoved(old, new)
  BY <1>0, <1>1, CancelSomeMoves DEF Sound
<1>3. slots' = new
  BY DEF Put
<1>4. ASSUME NEW s \in at, old[s].state \in Expires PROVE new[s].state = "cancelled"
  <2>1. RecordOK(old[s], nextSeq) /\ s \in Places
    BY <1>1 DEF Used
  <2> QED BY <1>0, <1>4, <2>1, CancelOneMoves DEF CancelSome
<1> HIDE DEF old, new
<1>5. Sound(new) /\ CalledOK(new)
  BY <1>1, <1>2, MovedIsSound, MovedIsCalled
<1>6. TableMoved(slots, new)
  BY <1>0, <1>1, <1>2, TableMovedTwice
<1>7. /\ Used(new) = Used(old)
      /\ \A s \in Used(old) : Moved(old[s], new[s])
  BY <1>1, <1>2, SamePlaces DEF Sound
<1>8. CalledOK(slots)'
  <2> SUFFICES ASSUME NEW s \in Used(new), new[s].id \in called'
               PROVE  new[s].state = "cancelled"
    BY <1>3 DEF CalledOK, Used
  <2>1. CASE new[s].id \in called
    BY <1>5, <2>1 DEF CalledOK
  <2>2. CASE new[s].id \in Called(old, at)
    <3>1. PICK t \in at : old[t].state \in Expires /\ new[s].id = old[t].id
      BY <2>2 DEF Called
    <3>2. t \in Used(old) /\ new[s].id = old[s].id /\ s \in Used(old)
      BY <1>7 DEF Moved, old
    <3>3. s = t
      BY <1>1, <3>1, <3>2 DEF Sound, Distinct
    <3> QED BY <1>4, <3>1, <3>3
  <2> QED BY <2>1, <2>2 DEF old
<1>9. NumbersOK' /\ SnapshotOK'
  <2>1. \A i \in called' : i \in Nat /\ i < nextSeq
    <3>1. \A s \in at : old[s].id \in Nat /\ old[s].id < nextSeq
      BY <1>1 DEF RecordOK, RecordType, old
    <3>2. \A i \in Called(old, at) : i \in Nat /\ i < nextSeq
      BY <3>1 DEF Called
    <3> QED BY <1>0, <3>2 DEF NumbersOK, old
  <2>2. NumbersOK'
    BY <1>0, <2>1 DEF NumbersOK
  <2>3. SnapshotOK'
    BY <1>0 DEF SnapshotOK, RecordOK
  <2> QED BY <2>2, <2>3
<1>10. BrokerInv'
  BY <1>5, <1>8, <1>9, PutIsSafe DEF new
<1>11. Used(new) = Used(slots) /\ \A s \in Used(slots) : Moved(slots[s], new[s])
  BY <1>0, <1>6, SamePlaces
<1>12. EffectsBeginWell
  BY <1>3, <1>11 DEF EffectsBeginWell, Used
<1> QED BY <1>10, <1>12

\* One request is called off.
LEMMA CancelIsSafe ==
  ASSUME BrokerInv, NEW id, CancelRequest(id)
  PROVE  BrokerInv' /\ EffectsBeginWell
<1>1. PICK s \in find_by_id(expire_all, id) :
        /\ PutAt(expire_all, s, CancelOne(expire_all[s]))
        /\ called' = called \cup Called(expire_all, {s})
        /\ UNCHANGED <<nextSeq, now, snapshot, boot>>
  BY DEF CancelRequest
<1>2. s \in Used(expire_all) /\ s \in Places /\ {s} \in SUBSET Used(expire_all)
  BY DEF find_by_id, Used
<1>3. [expire_all EXCEPT ![s] = CancelOne(expire_all[s])] = CancelSome(expire_all, {s})
  BY <1>2 DEF CancelSome, expire_all
<1> QED BY <1>1, <1>2, <1>3, CallOffIsSafe DEF PutAt

\* All requests of a run are called off.
LEMMA CancelRunIsSafe ==
  ASSUME BrokerInv, NEW runId, CancelRun(runId)
  PROVE  BrokerInv' /\ EffectsBeginWell
<1>1. OfRun(expire_all, runId) \in SUBSET Used(expire_all)
  BY DEF OfRun
<1>2. /\ Put(CancelSome(expire_all, OfRun(expire_all, runId)))
      /\ called' = called \cup Called(expire_all, OfRun(expire_all, runId))
      /\ UNCHANGED <<nextSeq, now, snapshot, boot>>
  BY DEF CancelRun, CancelSome
<1> QED BY <1>1, <1>2, CallOffIsSafe

\* The records of a run are wiped: its effects are forgotten with them.
LEMMA WipeIsSafe ==
  ASSUME BrokerInv, NEW table, NEW runId, TableMoved(slots, table), Wipe(table, runId)
  PROVE  BrokerInv' /\ EffectsBeginWell
<1>0. /\ slots' = [s \in Places |-> IF s \in OfRun(table, runId) THEN EmptySlot ELSE table[s]]
      /\ effects' = {e \in effects : e.run # runId}
      /\ called' = called \ {table[s].id : s \in OfRun(table, runId)}
      /\ UNCHANGED <<nextSeq, now, snapshot, boot>>
  BY DEF Wipe
<1>1. /\ TableOK(table, nextSeq) /\ Distinct(table) /\ RootsOK(table) /\ InsideOK(table)
      /\ Tombstones(table) /\ Matches(table) /\ CalledOK(table)
  BY MovedIsSound, MovedIsCalled DEF BrokerInv, Sound
<1>2. /\ Used(slots)' = Used(table) \ OfRun(table, runId)
      /\ \A s \in Used(slots)' : slots'[s] = table[s] /\ s \in Used(table)
                                  /\ table[s].in.run # runId
  BY <1>0 DEF Used, OfRun
<1>3. TableOK(slots, nextSeq)'
  BY <1>0, <1>1 DEF TableOK, RecordOK
<1>4. Distinct(slots)'
  BY <1>1, <1>2 DEF Distinct
<1>5. RootsOK(slots)'
  <2>1. \A r : Live(r)' <=> Live(r)
    BY <1>0 DEF Live
  <2> SUFFICES ASSUME NEW s \in Used(slots)', Live(table[s])
               PROVE  /\ slots'[s].granted = boot
                      /\ \A t \in Used(slots)' :
                           slots'[t].id = slots'[s].root => slots'[t].granted = boot
    BY <1>0, <1>2, <2>1 DEF RootsOK, Live
  <2> QED BY <1>1, <1>2 DEF RootsOK
<1>6. InsideOK(slots)'
  BY <1>0, <1>1, <1>2 DEF InsideOK, Inside
<1>7. Tombstones(slots)'
  <2> SUFFICES ASSUME NEW e \in effects, e.run # runId
               PROVE  \E s \in Used(slots)' : Stands(slots'[s], e)
    BY <1>0 DEF Tombstones, Stands
  <2>1. PICK s \in Used(table) : Stands(table[s], e)
    BY <1>1 DEF Tombstones
  <2>2. s \in Used(slots)'
    BY <1>2, <2>1 DEF Stands, OfRun
  <2> QED BY <1>2, <2>1, <2>2
<1>8. Matches(slots)'
  BY <1>0, <1>1, <1>2 DEF Matches
<1>9. CalledOK(slots)'
  BY <1>0, <1>1, <1>2 DEF CalledOK
<1>10. NumbersOK' /\ SnapshotOK'
  <2>1. NumbersOK'
    BY <1>0 DEF BrokerInv, NumbersOK
  <2>2. SnapshotOK'
    BY <1>0 DEF BrokerInv, SnapshotOK, RecordOK
  <2> QED BY <2>1, <2>2
<1>11. \A s \in Used(slots) : Moved(slots[s], table[s])
  BY SamePlaces DEF BrokerInv, Sound
<1>12. Used(table) = Used(slots)
  BY SamePlaces DEF BrokerInv, Sound
<1>13. EffectsBeginWell
  <2> SUFFICES ASSUME NEW s \in Places, slots'[s] # EmptySlot
               PROVE  slots[s] # EmptySlot /\ Moved(slots[s], slots'[s])
    BY DEF EffectsBeginWell
  <2>1. s \in Used(slots)'
    BY DEF Used
  <2>2. s \in Used(slots) /\ slots'[s] = table[s]
    BY <1>2, <1>12, <2>1
  <2> QED BY <1>11, <2>2 DEF Used
<1> QED BY <1>3, <1>4, <1>5, <1>6, <1>7, <1>8, <1>9, <1>10, <1>13 DEF BrokerInv, Sound

\* A run is retired, with or without an end of its requests before.
LEMMA RetireIsSafe ==
  ASSUME BrokerInv, NEW runId, RetireRun(runId) \/ TerminalizeAndRetireRun(runId)
  PROVE  BrokerInv' /\ EffectsBeginWell
<1>1. CASE RetireRun(runId)
  BY <1>1, ExpireMoves, WipeIsSafe DEF RetireRun
<1>2. CASE TerminalizeAndRetireRun(runId)
  <2>1. Wipe(CancelSome(slots, OfRun(slots, runId)), runId)
    BY <1>2 DEF TerminalizeAndRetireRun, CancelSome
  <2>2. OfRun(slots, runId) \in SUBSET Used(slots)
    BY DEF OfRun
  <2>3. TableMoved(slots, CancelSome(slots, OfRun(slots, runId)))
    BY <2>2, CancelSomeMoves DEF BrokerInv, Sound, NumbersOK
  <2> QED BY <2>1, <2>3, WipeIsSafe
<1> QED BY <1>1, <1>2

-----------------------------------------------------------------------------
(* A new request *)

Less == {ss \in Nat \X Nat : ss[1] < ss[2]}

\* The least place of a set of places is one of them.
LEMMA MinIsMember ==
  ASSUME NEW S \in SUBSET Nat, S # {}
  PROVE  Min(S) \in S
<1>1. IsWellFoundedOn(Less, Nat)
  BY NatLessThanWellFounded, Zenon DEF OpToRel, Less
<1>2. PICK x \in S : \A y \in S : ~(<<y, x>> \in Less)
  BY <1>1, WFMin
<1>3. \A y \in S : x =< y
  <2> SUFFICES ASSUME NEW y \in S PROVE x =< y
    OBVIOUS
  <2>1. ~(y < x)
    BY <1>2 DEF Less
  <2> QED BY <2>1
<1>4. \E z \in S : \A y \in S : z =< y
  BY <1>3
<1> QED BY <1>4 DEF Min

\* What a reused or a new record is, before anything happens to it.
NewOK(q, in) ==
  /\ q \in RecordType /\ q.id = nextSeq /\ q.in = in
  /\ q.expires <= MaxTime /\ q.scope <= in.scope /\ ~q.consumed
  /\ q.state \in Waiting \cup {"granted"}
  /\ q.state = "granted" => q.granted = boot

\* A request that nobody granted before: evaluated by the policy or to be asked for.
LEMMA EvaluateIsOK ==
  ASSUME BrokerBounds, NumbersOK, NEW in \in InputType,
         now + clamp_ttl(in.ttl) <= MaxTime
  PROVE  NewOK(Evaluate(in), in) /\ Evaluate(in).root = nextSeq
<1> DEFINE r == NewRecord(in)
<1>1. clamp_ttl(in.ttl) \in Nat /\ nextSeq \in Nat /\ now \in Nat /\ boot \in Int
      /\ in.scope \in 0..3
  BY DEF clamp_ttl, BrokerBounds, InputType, NumbersOK
<1>2. r = [id |-> nextSeq, in |-> in, state |-> "evaluating", scope |-> 0,
           expires |-> now + clamp_ttl(in.ttl), consumed |-> FALSE, granted |-> -1,
           root |-> nextSeq]
  BY DEF NewRecord, Once
<1> HIDE DEF r
<1>3. ASSUME NEW next \in Waiting \cup {"granted"}
      PROVE  NewOK(set_state(r, next), in) /\ set_state(r, next).root = nextSeq
  <2> DEFINE q == set_state(r, next)
  <2>1. transition_allowed(r.state, next)
    BY <1>2, <1>3 DEF transition_allowed, Waiting
  <2>2. q = [r EXCEPT !.state = next, !.consumed = @ \/ next = "executing",
                      !.granted = IF next = "granted" THEN boot ELSE @]
    BY <2>1 DEF set_state
  <2>3. next # "executing" /\ next \in Kept
    BY DEF Waiting, Kept
  <2>4. /\ q.id = nextSeq /\ q.in = in /\ q.state = next /\ q.scope = 0
        /\ q.expires = now + clamp_ttl(in.ttl) /\ q.consumed = FALSE
        /\ q.granted = (IF next = "granted" THEN boot ELSE -1) /\ q.root = nextSeq
        /\ q = [id |-> q.id, in |-> q.in, state |-> q.state, scope |-> q.scope,
                expires |-> q.expires, consumed |-> q.consumed, granted |-> q.granted,
                root |-> q.root]
    BY <1>2, <2>2, <2>3
  <2> HIDE DEF q
  <2>5. /\ q.id \in Nat /\ q.in \in InputType /\ q.state \in Kept /\ q.scope \in 0..3
        /\ q.expires \in Nat /\ q.granted \in Int /\ q.root \in Nat
    BY <1>1, <2>3, <2>4
  <2>6. q \in RecordType
    BY <2>4, <2>5 DEF RecordType
  <2> QED BY <1>1, <2>4, <2>6 DEF NewOK, q
<1>4. \E next \in Waiting \cup {"granted"} : Evaluate(in) = set_state(r, next)
  BY DEF Evaluate, Waiting, r
<1> QED BY <1>3, <1>4

\* A request that an earlier grant covers: no longer, no wider, of the same root.
LEMMA ReuseIsOK ==
  ASSUME BrokerBounds, NumbersOK, NEW in \in InputType, NEW g, RecordOK(g, nextSeq),
         grant_scope_matches(g, in), now + clamp_ttl(in.ttl) <= MaxTime
  PROVE  /\ NewOK(Reuse(in, g), in) /\ Reuse(in, g).state = "granted"
         /\ Reuse(in, g).root = g.root
         /\ Reuse(in, g).scope <= g.scope /\ Reuse(in, g).expires <= g.expires
<1> DEFINE r == NewRecord(in)
           sc == Min({g.scope, in.scope})
           ex == IF remaining_ttl(g.expires) < remaining_ttl(r.expires)
                 THEN g.expires ELSE r.expires
           w == [r EXCEPT !.scope = sc, !.root = g.root, !.expires = ex]
           q == Reuse(in, g)
<1>1. clamp_ttl(in.ttl) \in Nat /\ nextSeq \in Nat /\ now \in Nat /\ boot \in Int
      /\ in.scope \in 0..3
  BY DEF clamp_ttl, BrokerBounds, InputType, NumbersOK
<1>2. g.scope \in 0..3 /\ g.expires \in Nat /\ g.root \in Nat /\ g.expires <= MaxTime
  BY DEF RecordOK, RecordType
<1>3. now < g.expires
  BY <1>1, <1>2 DEF grant_scope_matches, deadline_reached
<1>4. r = [id |-> nextSeq, in |-> in, state |-> "evaluating", scope |-> 0,
           expires |-> now + clamp_ttl(in.ttl), consumed |-> FALSE, granted |-> -1,
           root |-> nextSeq]
  BY DEF NewRecord, Once
<1>5. sc \in 0..3 /\ sc <= g.scope /\ sc <= in.scope
  <2>1. \E x \in {g.scope, in.scope} : \A y \in {g.scope, in.scope} : x =< y
    BY <1>1, <1>2
  <2>2. sc \in {g.scope, in.scope} /\ \A y \in {g.scope, in.scope} : sc =< y
    BY <2>1 DEF Min
  <2> QED BY <1>1, <1>2, <2>2
<1>6. ex \in Nat /\ ex <= MaxTime /\ ex <= g.expires
  <2>1. r.expires = now + clamp_ttl(in.ttl)
    BY <1>4
  <2> QED BY <1>1, <1>2, <1>3, <2>1 DEF remaining_ttl, deadline_reached
<1>7. q = set_state(w, "granted")
  BY DEF Reuse
<1> HIDE DEF r, sc, ex, q
<1>8. /\ w.id = nextSeq /\ w.in = in /\ w.state = "evaluating" /\ w.scope = sc
      /\ w.expires = ex /\ w.consumed = FALSE /\ w.granted = -1 /\ w.root = g.root
      /\ w = [id |-> w.id, in |-> w.in, state |-> w.state, scope |-> w.scope,
              expires |-> w.expires, consumed |-> w.consumed, granted |-> w.granted,
              root |-> w.root]
  <2>1. /\ w.id = r.id /\ w.in = r.in /\ w.state = r.state /\ w.scope = sc
        /\ w.expires = ex /\ w.consumed = r.consumed /\ w.granted = r.granted
        /\ w.root = g.root
    BY <1>4
  <2>2. DOMAIN w = {"id", "in", "state", "scope", "expires", "consumed", "granted", "root"}
    BY <1>4
  <2>3. w = [i \in DOMAIN w |-> w[i]]
    OBVIOUS
  <2> HIDE DEF w
  <2> QED BY <1>4, <2>1, <2>2, <2>3
<1> HIDE DEF w
<1>9. q = [w EXCEPT !.state = "granted", !.consumed = @ \/ FALSE, !.granted = boot]
  <2>1. transition_allowed(w.state, "granted")
    BY <1>8 DEF transition_allowed, Waiting
  <2> QED BY <1>7, <2>1 DEF set_state
<1>10. /\ q.id = nextSeq /\ q.in = in /\ q.state = "granted" /\ q.scope = sc
       /\ q.expires = ex /\ q.consumed = FALSE /\ q.granted = boot /\ q.root = g.root
       /\ q = [id |-> q.id, in |-> q.in, state |-> q.state, scope |-> q.scope,
               expires |-> q.expires, consumed |-> q.consumed, granted |-> q.granted,
               root |-> q.root]
  BY <1>8, <1>9
<1>11. q \in RecordType
  BY <1>1, <1>2, <1>5, <1>6, <1>10 DEF RecordType, Kept
<1> QED BY <1>5, <1>6, <1>10, <1>11 DEF NewOK, q

\* A grant passed on stays inside the decision it comes from.
LEMMA PassedOnStaysInside ==
  ASSUME NEW q, NEW g, NEW r, q.scope \in 0..3, g.scope \in 0..3, r.scope \in 0..3,
         q.expires \in Nat, g.expires \in Nat, r.expires \in Nat,
         Inside(q, g), Inside(g, r), g.scope # Once
  PROVE  Inside(q, r)
<1>1. /\ q.expires <= r.expires /\ q.scope <= r.scope
      /\ q.in.plan = r.in.plan /\ q.in.args = r.in.args /\ q.in.kind = r.in.kind
      /\ r.state = "completed"
  BY DEF Inside
<1>2. r.scope = Thread => q.in.kind = "context"
  BY DEF Inside
<1>3. SameWithin(r.scope, r.in, q.in)
  <2>1. SameWithin(r.scope, r.in, g.in) /\ SameWithin(g.scope, g.in, q.in) /\ g.scope <= r.scope
    BY DEF Inside
  <2>2. r.scope \in {0, 1, 2, 3} /\ g.scope \in {1, 2, 3}
    BY DEF Once
  <2> QED BY <2>1, <2>2 DEF SameWithin, Step, Run, Thread
<1> QED BY <1>1, <1>2, <1>3 DEF Inside

\* A new record, that comes from nothing or from a live grant, takes a free place.
LEMMA AddIsSound ==
  ASSUME BrokerInv, NEW table, Sound(table), NEW p \in Places, table[p] = EmptySlot,
         NEW in \in InputType, NEW q, NewOK(q, in),
         \A s \in Used(table) : table[s].in.key # in.key,
         \/ q.root = nextSeq
         \/ /\ q.state = "granted"
            /\ \E s \in Used(table) :
                 /\ q.root = table[s].root /\ Live(table[s]) /\ table[s].scope # Once
                 /\ Inside(q, table[s])
  PROVE  LET new == [table EXCEPT ![p] = q]
         IN  /\ TableOK(new, nextSeq + 1) /\ Distinct(new) /\ RootsOK(new)
             /\ InsideOK(new) /\ Tombstones(new) /\ Matches(new)
<1> DEFINE new == [table EXCEPT ![p] = q]
<1>0. /\ TableOK(table, nextSeq) /\ Distinct(table) /\ RootsOK(table) /\ InsideOK(table)
      /\ Tombstones(table) /\ Matches(table) /\ nextSeq \in Nat /\ nextSeq >= 1 /\ boot \in Int
  BY DEF Sound, BrokerInv, NumbersOK
<1>1. /\ q \in RecordType /\ q.id = nextSeq /\ q.in = in /\ q.expires <= MaxTime
      /\ q.scope <= in.scope /\ ~q.consumed /\ q.state \in Waiting \cup {"granted"}
      /\ q.state = "granted" => q.granted = boot
  BY DEF NewOK
<1>2. /\ DOMAIN new = Places /\ Used(new) = Used(table) \cup {p} /\ new[p] = q
      /\ p \notin Used(table) /\ \A s \in Used(table) : new[s] = table[s] /\ s # p
  <2>1. DOMAIN table = Places /\ q # EmptySlot
    BY <1>0, <1>1, RecordIsNotEmpty DEF TableOK
  <2> QED BY <2>1 DEF Used
<1> HIDE DEF new
<1>3. \A s \in Used(table) :
        /\ RecordOK(table[s], nextSeq) /\ table[s] \in RecordType
        /\ table[s].id \in Nat /\ table[s].id < nextSeq
        /\ table[s].root \in Nat /\ table[s].root < nextSeq
  BY <1>0 DEF TableOK, Used, RecordOK, RecordType
<1>4. q.root \in Nat /\ q.root <= nextSeq
  BY <1>0, <1>1, <1>3 DEF RecordType
<1>5. TableOK(new, nextSeq + 1)
  <2>1. RecordOK(q, nextSeq + 1)
    <3>1. ~(q.state \in Begun)
      BY <1>1, StatesApart
    <3>2. q.state \in Waiting => q.root = nextSeq
      BY DEF Waiting
    <3> QED BY <1>0, <1>1, <1>4, <3>1, <3>2 DEF RecordOK
  <2>2. \A s \in Used(table) : RecordOK(table[s], nextSeq + 1)
    BY <1>0, <1>3 DEF RecordOK
  <2>3. \A s \in Places : s \in Used(table) \/ s = p \/ new[s] = EmptySlot
    BY <1>2 DEF Used
  <2> QED BY <1>2, <2>1, <2>2, <2>3 DEF TableOK
<1>6. Distinct(new)
  <2>1. \A s \in Used(table) : table[s].id # q.id /\ table[s].in.key # q.in.key
    BY <1>0, <1>1, <1>3
  <2> QED BY <1>0, <1>2, <2>1 DEF Distinct
<1>7. RootsOK(new)
  <2> SUFFICES ASSUME NEW s \in Used(new), Live(new[s])
               PROVE  /\ new[s].granted = boot
                      /\ \A t \in Used(new) :
                           new[t].id = new[s].root => new[t].granted = boot
    BY DEF RootsOK
  <2>1. CASE s \in Used(table)
    <3>1. /\ table[s].granted = boot
          /\ \A t \in Used(table) : table[t].id = table[s].root => table[t].granted = boot
      BY <1>0, <1>2, <2>1 DEF RootsOK
    <3>2. new[p].id # new[s].root
      BY <1>0, <1>1, <1>2, <1>3, <2>1
    <3> QED BY <1>2, <2>1, <3>1, <3>2
  <2>2. CASE s = p
    <3>0. Live(q)
      BY <1>2, <2>2
    <3>1. q.state = "granted" /\ q.granted = boot
      BY <1>1, <3>0 DEF Live, Waiting, Started
    <3>2. ASSUME NEW t \in Used(table), table[t].id = q.root PROVE table[t].granted = boot
      <4>1. q.root # nextSeq
        BY <1>0, <1>3, <3>2
      <4>2. PICK u \in Used(table) : q.root = table[u].root /\ Live(table[u])
        BY <4>1
      <4> QED BY <1>0, <3>2, <4>2 DEF RootsOK
    <3> QED BY <1>2, <2>2, <3>1, <3>2
  <2> QED BY <1>2, <2>1, <2>2
<1>8. InsideOK(new)
  <2> SUFFICES ASSUME boot = 0, NEW s \in Used(new), NEW t \in Used(new), s # t,
                      new[s].root = new[t].id
               PROVE  Inside(new[s], new[t])
    BY DEF InsideOK
  <2>1. CASE s \in Used(table)
    <3>1. t \in Used(table)
      BY <1>0, <1>1, <1>2, <1>3, <2>1
    <3> QED BY <1>0, <1>2, <2>1, <3>1 DEF InsideOK
  <2>2. CASE s = p
    <3>1. t \in Used(table) /\ new[t] = table[t] /\ new[s] = q /\ q.root = table[t].id
      BY <1>2, <2>2
    <3>2. q.root # nextSeq
      BY <1>0, <1>3, <3>1
    <3>3. PICK u \in Used(table) :
            /\ q.root = table[u].root /\ Live(table[u]) /\ table[u].scope # Once
            /\ Inside(q, table[u])
      BY <3>2
    <3>4. CASE u = t
      BY <3>1, <3>3, <3>4
    <3>5. CASE u # t
      <4>1. Inside(table[u], table[t])
        BY <1>0, <3>1, <3>3, <3>5 DEF InsideOK
      <4>2. /\ q.scope \in 0..3 /\ table[u].scope \in 0..3 /\ table[t].scope \in 0..3
            /\ q.expires \in Nat /\ table[u].expires \in Nat /\ table[t].expires \in Nat
        BY <1>1, <1>3, <3>1 DEF RecordType
      <4>3. Inside(q, table[t])
        BY <3>3, <4>1, <4>2, PassedOnStaysInside
      <4> QED BY <3>1, <4>3
    <3> QED BY <3>4, <3>5
  <2> QED BY <1>2, <2>1, <2>2
<1>9. Tombstones(new)
  BY <1>0, <1>2 DEF Tombstones
<1>10. Matches(new)
  <2>1. \A f \in snapshot.entries : f.r.id # q.id
    BY <1>0, <1>1 DEF BrokerInv, SnapshotOK, RecordOK, RecordType
  <2> QED BY <1>0, <1>2, <2>1 DEF Matches
<1> QED BY <1>5, <1>6, <1>7, <1>8, <1>9, <1>10 DEF new

\* create_v2: a known key or a full table adds nothing, else a new record.
LEMMA CreateIsSafe ==
  ASSUME BrokerBounds, BrokerInv, NEW in \in InputType, CreateV2(in)
  PROVE  BrokerInv' /\ EffectsBeginWell
<1> DEFINE table == expire_all
           free == allocate_slot(table)
           grants == {s \in Used(table) : grant_scope_matches(table[s], in)}
           q == IF grants = {} THEN Evaluate(in) ELSE Reuse(in, table[Min(grants)])
<1>0. /\ nextSeq <= MaxSeq /\ now + clamp_ttl(in.ttl) <= MaxTime
      /\ UNCHANGED <<now, snapshot, boot, called>>
      /\ IF find_idempotency(table, in.key) # {} \/ free = {}
         THEN Put(table) /\ UNCHANGED nextSeq
         ELSE nextSeq' = nextSeq + 1 /\ PutAt(table, Min(free), q)
  BY DEF CreateV2
<1>1. NumbersOK /\ SnapshotOK /\ nextSeq \in Nat /\ now \in Nat /\ boot \in Int
  BY DEF BrokerInv, NumbersOK
<1>2. /\ TableMoved(slots, table) /\ Sound(table) /\ CalledOK(table)
      /\ \A s \in Used(table) : RecordOK(table[s], nextSeq)
  BY ExpireMoves
<1>3. CASE find_idempotency(table, in.key) # {} \/ free = {}
  BY <1>0, <1>3, QueryIsSafe
<1>4. CASE ~(find_idempotency(table, in.key) # {} \/ free = {})
  <2> DEFINE p == Min(free)
             new == [table EXCEPT ![p] = q]
  <2>1. nextSeq' = nextSeq + 1 /\ Put(new)
    BY <1>0, <1>4 DEF PutAt
  <2>2. p \in Places /\ table[p] = EmptySlot
    <3>1. free \in SUBSET Nat /\ free # {}
      BY <1>4 DEF allocate_slot, Places
    <3>2. p \in free
      BY <3>1, MinIsMember
    <3> QED BY <3>2 DEF allocate_slot
  <2>3. \A s \in Used(table) : table[s].in.key # in.key
    BY <1>4 DEF find_idempotency
  <2>4. /\ NewOK(q, in)
        /\ \/ q.root = nextSeq
           \/ /\ q.state = "granted"
              /\ \E s \in Used(table) :
                   /\ q.root = table[s].root /\ Live(table[s]) /\ table[s].scope # Once
                   /\ Inside(q, table[s])
    <3>1. CASE grants = {}
      <4>1. q = Evaluate(in)
        BY <3>1
      <4> QED BY <1>0, <1>1, <4>1, EvaluateIsOK
    <3>2. CASE grants # {}
      <4> DEFINE s == Min(grants)
                 g == table[s]
      <4>1. grants \in SUBSET Nat
        BY DEF Used, Places
      <4>2. s \in grants
        BY <3>2, <4>1, MinIsMember
      <4>3. s \in Used(table) /\ grant_scope_matches(g, in) /\ RecordOK(g, nextSeq)
        BY <1>2, <4>2
      <4>4. q = Reuse(in, g)
        BY <3>2
      <4> HIDE DEF s, g, q, grants, table
      <4>5. /\ NewOK(q, in) /\ q.state = "granted" /\ q.root = g.root
            /\ q.scope <= g.scope /\ q.expires <= g.expires
        BY <1>0, <1>1, <4>3, <4>4, ReuseIsOK
      <4>6. Live(g) /\ g.scope # Once
        <5>1. g.expires \in Nat
          BY <4>3 DEF RecordOK, RecordType
        <5> QED BY <1>1, <4>3, <5>1 DEF Live, grant_scope_matches, deadline_reached
      <4>7. Inside(q, g)
        <5>1. /\ g.in.plan = in.plan /\ g.in.args = in.args /\ g.in.kind = in.kind
              /\ SameWithin(g.scope, g.in, in) /\ g.state = "completed"
              /\ g.scope = Thread => g.in.kind = "context"
          BY <4>3 DEF grant_scope_matches
        <5>2. q.in = in
          BY <4>5 DEF NewOK
        <5> QED BY <4>5, <5>1, <5>2 DEF Inside
      <4> QED BY <4>3, <4>5, <4>6, <4>7 DEF g
    <3> QED BY <3>1, <3>2
  <2>5. Used(table) = Used(slots) /\ \A s \in Used(slots) : Moved(slots[s], table[s])
    BY <1>2, SamePlaces DEF BrokerInv, Sound
  <2> HIDE DEF table, q, p, new
  <2>6. /\ TableOK(new, nextSeq + 1) /\ Distinct(new) /\ RootsOK(new)
        /\ InsideOK(new) /\ Tombstones(new) /\ Matches(new)
    BY <1>2, <2>2, <2>3, <2>4, AddIsSound DEF new
  <2>7. /\ slots' = new
        /\ TableOK(slots, nextSeq)' /\ Distinct(slots)' /\ RootsOK(slots)'
        /\ InsideOK(slots)' /\ Tombstones(slots)'
    <3>1. TableOK(new, nextSeq')
      BY <2>1, <2>6
    <3> QED BY <1>0, <2>1, <2>6, <3>1, PutIsSound DEF Put
  <2>8. Matches(slots)'
    BY <1>0, <2>6, <2>7 DEF Matches, Used
  <2>9. /\ \A s \in Places : new[s] = (IF s = p THEN q ELSE table[s])
        /\ q # EmptySlot /\ ~q.consumed /\ q.id = nextSeq
    <3>1. DOMAIN table = Places
      BY <1>2 DEF Sound, TableOK
    <3>2. q \in RecordType /\ ~q.consumed /\ q.id = nextSeq
      BY <2>4 DEF NewOK
    <3> QED BY <2>2, <3>1, <3>2, RecordIsNotEmpty DEF new
  <2>10. CalledOK(slots)'
    <3> SUFFICES ASSUME NEW s \in Places, new[s] # EmptySlot, new[s].id \in called
                 PROVE  new[s].state = "cancelled"
      BY <1>0, <2>7 DEF CalledOK, Used
    <3>1. s # p
      BY <1>1, <2>9 DEF NumbersOK
    <3>2. s \in Used(table) /\ new[s] = table[s]
      BY <2>9, <3>1 DEF Used
    <3> QED BY <1>2, <3>2 DEF CalledOK
  <2>11. NumbersOK'
    <3>1. \A i \in called : i \in Nat /\ i < nextSeq + 1
      BY <1>1 DEF NumbersOK
    <3>2. nextSeq + 1 \in 1..(MaxSeq + 1)
      BY <1>0, <1>1 DEF BrokerBounds
    <3> QED BY <1>0, <1>1, <2>1, <3>1, <3>2 DEF NumbersOK
  <2>12. SnapshotOK'
    <3>1. snapshot.next <= nextSeq + 1
      BY <1>1 DEF SnapshotOK
    <3> QED BY <1>0, <1>1, <2>1, <3>1 DEF SnapshotOK, RecordOK
  <2>13. EffectsBeginWell
    <3> SUFFICES ASSUME NEW s \in Places, new[s] # EmptySlot
                 PROVE  \/ slots[s] # EmptySlot /\ Moved(slots[s], new[s])
                        \/ slots[s] = EmptySlot /\ ~new[s].consumed
      BY <2>7 DEF EffectsBeginWell
    <3>1. CASE s = p
      BY <2>2, <2>5, <2>9, <3>1 DEF Used
    <3>2. CASE s # p
      BY <2>5, <2>9, <3>2 DEF Used
    <3> QED BY <3>1, <3>2
  <2> QED BY <2>7, <2>8, <2>10, <2>11, <2>12, <2>13 DEF BrokerInv, Sound
<1> QED BY <1>3, <1>4

\* The legacy entry point makes a request of its own from what it is given.
LEMMA LegacyIsSafe ==
  ASSUME BrokerBounds, BrokerInv, NEW in \in InputType, Create(in)
  PROVE  BrokerInv' /\ EffectsBeginWell
<1> DEFINE a == [in EXCEPT !.key = "legacy"]
           b == [a EXCEPT !.thread = in.run]
           c == [b EXCEPT !.step = "legacy"]
           d == [c EXCEPT !.plan = 1]
           e == [d EXCEPT !.reviewer = FALSE]
           f == [e EXCEPT !.through = -1]
           g == [f EXCEPT !.scope = Once]
<1>1. CreateV2(g)
  BY DEF Create
<1>9. ASSUME NEW x \in InputType, NEW k \in BrokerNames
      PROVE  [x EXCEPT !.key = k] \in InputType /\ [x EXCEPT !.step = k] \in InputType
  BY DEF InputType
<1>10. "legacy" \in BrokerNames
  BY DEF BrokerNames
<1>0. in.run \in BrokerNames
  BY DEF InputType
<1>2. a \in InputType
  BY <1>9, <1>10
<1> HIDE DEF a
<1>3. b \in InputType
  BY <1>0, <1>2 DEF InputType
<1> HIDE DEF b
<1>4. c \in InputType
  BY <1>3, <1>9, <1>10
<1> HIDE DEF c
<1>5. d \in InputType
  BY <1>0, <1>4 DEF InputType
<1> HIDE DEF d
<1>6. e \in InputType
  BY <1>0, <1>5 DEF InputType
<1> HIDE DEF e
<1>7. f \in InputType
  BY <1>0, <1>6 DEF InputType
<1> HIDE DEF f
<1>8. g \in InputType
  BY <1>0, <1>7 DEF InputType, Once
<1> HIDE DEF g
<1> QED BY <1>1, <1>8, CreateIsSafe

-----------------------------------------------------------------------------
(* Snapshot and reset *)

\* A snapshot is of the table it leaves behind.
LEMMA ExportIsSafe ==
  ASSUME BrokerBounds, BrokerInv, ExportSnapshot
  PROVE  BrokerInv' /\ EffectsBeginWell
<1> DEFINE table == expire_all
           entry(s) == [at |-> s, r |-> table[s], left |-> remaining_ttl(table[s].expires)]
<1>0. /\ snapshot' = [next |-> nextSeq, entries |-> {entry(s) : s \in Used(table)}]
      /\ Put(table) /\ UNCHANGED <<nextSeq, now, boot, called>>
  BY DEF ExportSnapshot
<1>1. /\ NumbersOK /\ nextSeq \in Nat /\ nextSeq >= 1 /\ now \in Nat /\ MaxTime \in Nat
      /\ TableOK(slots, nextSeq)
  BY DEF BrokerInv, NumbersOK, Sound, BrokerBounds
<1>2. /\ TableMoved(slots, table) /\ Sound(table) /\ CalledOK(table) /\ slots' = table
      /\ \A s \in Used(table) : RecordOK(table[s], nextSeq)
  BY <1>0, ExpireMoves DEF Put
<1> HIDE DEF table
<1>3. \A s \in Used(table) :
        entry(s).left \in Nat /\ entry(s).left <= MaxTime /\ entry(s).at = s
        /\ entry(s).r = table[s] /\ s \in Places
  <2> SUFFICES ASSUME NEW s \in Used(table)
               PROVE  remaining_ttl(table[s].expires) \in Nat
                      /\ remaining_ttl(table[s].expires) <= MaxTime /\ s \in Places
    OBVIOUS
  <2>1. table[s].expires \in Nat /\ table[s].expires <= MaxTime
    BY <1>2 DEF RecordOK, RecordType
  <2> QED BY <1>1, <2>1 DEF remaining_ttl, deadline_reached, Used
<1> HIDE DEF entry
<1>4. /\ snapshot'.next = nextSeq
      /\ snapshot'.entries = {entry(s) : s \in Used(table)}
  BY <1>0
<1>5. \A s, t \in Used(table) : s # t =>
        table[s].id # table[t].id /\ table[s].in.key # table[t].in.key
  BY <1>2 DEF Sound, Distinct
<1>6. SnapshotOK'
  <2>1. ASSUME NEW f \in snapshot'.entries
        PROVE  f.at \in Places /\ RecordOK(f.r, snapshot'.next)
               /\ f.left \in Nat /\ f.left <= MaxTime
    BY <1>2, <1>3, <1>4
  <2>2. ASSUME NEW f \in snapshot'.entries, NEW h \in snapshot'.entries,
               f.at = h.at \/ f.r.id = h.r.id \/ f.r.in.key = h.r.in.key
        PROVE  f = h
    <3>1. PICK s \in Used(table) : f = entry(s)
      BY <1>4
    <3>2. PICK t \in Used(table) : h = entry(t)
      BY <1>4
    <3>3. s = t
      BY <1>3, <1>5, <2>2, <3>1, <3>2
    <3> QED BY <3>1, <3>2, <3>3
  <2>3. snapshot'.next \in Nat /\ snapshot'.next >= 1 /\ snapshot'.next <= nextSeq'
    BY <1>0, <1>1, <1>4
  <2> QED BY <2>1, <2>2, <2>3 DEF SnapshotOK, RecordOK
<1>7. Matches(slots)'
  <2> SUFFICES ASSUME NEW f \in snapshot'.entries, NEW s \in Used(table),
                      f.r.id = table[s].id
               PROVE  f.r.in = table[s].in
    BY <1>2 DEF Matches, Used
  <2>1. PICK t \in Used(table) : f = entry(t)
    BY <1>4
  <2> QED BY <1>3, <1>5, <2>1
<1>8. /\ TableOK(slots, nextSeq)' /\ Distinct(slots)' /\ RootsOK(slots)'
      /\ InsideOK(slots)' /\ Tombstones(slots)'
  <2>1. /\ TableOK(table, nextSeq') /\ Distinct(table) /\ RootsOK(table)
        /\ InsideOK(table) /\ Tombstones(table)
    BY <1>0, <1>2 DEF Sound
  <2> QED BY <1>0, <2>1, PutIsSound
<1>9. CalledOK(slots)' /\ NumbersOK'
  <2>1. CalledOK(slots)'
    BY <1>0, <1>2 DEF CalledOK, Used
  <2>2. NumbersOK'
    BY <1>0, <1>1 DEF NumbersOK
  <2> QED BY <2>1, <2>2
<1>10. Used(table) = Used(slots) /\ \A s \in Used(slots) : Moved(slots[s], table[s])
  BY <1>1, <1>2, SamePlaces
<1>11. EffectsBeginWell
  BY <1>2, <1>10 DEF EffectsBeginWell, Used
<1> QED BY <1>6, <1>7, <1>8, <1>9, <1>11 DEF BrokerInv, Sound

\* The place an entry comes back to.
Rank(e) == Cardinality({f.at : f \in snapshot.entries} \cap (1..e.at))

\* Every entry has a place in the table, and a place of its own.
LEMMA RanksAreApart ==
  ASSUME BrokerBounds, SnapshotOK
  PROVE  /\ \A e \in snapshot.entries : Rank(e) \in Places
         /\ \A e, h \in snapshot.entries : Rank(e) = Rank(h) => e = h
<1> DEFINE Upto(e) == {f.at : f \in snapshot.entries} \cap (1..e.at)
<1>0. \A e \in snapshot.entries : e.at \in Nat /\ 1 <= e.at /\ e.at <= Capacity
  BY DEF SnapshotOK, Places, BrokerBounds
<1>1. ASSUME NEW e \in snapshot.entries
      PROVE  /\ IsFiniteSet(Upto(e)) /\ Rank(e) \in Nat /\ Rank(e) <= e.at
             /\ Rank(e) # 0 /\ e.at \in Upto(e)
  <2>1. IsFiniteSet(1..e.at) /\ Cardinality(1..e.at) = e.at
    BY <1>0, FS_Interval
  <2>2. Upto(e) \in SUBSET (1..e.at)
    OBVIOUS
  <2>3. IsFiniteSet(Upto(e)) /\ Cardinality(Upto(e)) <= Cardinality(1..e.at)
    BY <2>1, <2>2, FS_Subset
  <2>4. e.at \in Upto(e)
    BY <1>0
  <2>5. Cardinality(Upto(e)) # 0 /\ Cardinality(Upto(e)) \in Nat
    BY <2>3, <2>4, FS_EmptySet, FS_CardinalityType
  <2> QED BY <2>1, <2>3, <2>4, <2>5 DEF Rank
<1>2. ASSUME NEW e \in snapshot.entries, NEW h \in snapshot.entries, e.at < h.at
      PROVE  Rank(e) # Rank(h)
  <2>1. Upto(e) \in SUBSET Upto(h)
    BY <1>0, <1>2
  <2>2. h.at \in Upto(h) /\ h.at \notin Upto(e)
    BY <1>0, <1>1, <1>2
  <2>3. Cardinality(Upto(h)) # Cardinality(Upto(e))
    BY <1>1, <2>1, <2>2, FS_Subset
  <2> QED BY <2>3 DEF Rank
<1>3. \A e, h \in snapshot.entries : Rank(e) = Rank(h) => e = h
  <2> SUFFICES ASSUME NEW e \in snapshot.entries, NEW h \in snapshot.entries,
                      Rank(e) = Rank(h)
               PROVE  e = h
    OBVIOUS
  <2>1. e.at = h.at
    BY <1>0, <1>2
  <2> QED BY <2>1 DEF SnapshotOK
<1>4. ASSUME NEW e \in snapshot.entries PROVE Rank(e) \in Places
  <2>1. Rank(e) \in Nat /\ Rank(e) <= e.at /\ Rank(e) # 0 /\ e.at \in Nat /\ e.at <= Capacity
    BY <1>0, <1>1
  <2>2. Capacity \in Nat
    BY DEF BrokerBounds
  <2> QED BY <2>1, <2>2 DEF Places
<1> QED BY <1>3, <1>4

\* What an entry comes back as: nothing that may run, nothing that runs, and no
\* grant that could be passed on; the clock is 0.
LEMMA RestoredIsOK ==
  ASSUME NEW e, NEW n, RecordOK(e.r, n), e.left \in Nat, e.left <= MaxTime, MaxTime \in Nat
  PROVE  LET q == Restored(e)
         IN  /\ RecordOK(q, n) /\ q.id = e.r.id /\ q.in = e.r.in /\ q.consumed = e.r.consumed
             /\ q.state \notin {"granted"} \cup Started
             /\ q.state = "completed" => q.expires = 0
             /\ e.r.state \notin Waiting => q.state \in Ended
<1> DEFINE r == e.r
           q == Restored(e)
<1>1. /\ r \in RecordType /\ r.id >= 1 /\ r.id < n /\ r.root < n /\ r.expires <= MaxTime
      /\ r.scope <= r.in.scope /\ (r.consumed <=> r.state \in Begun)
      /\ (r.state \in Waiting => r.root = r.id)
  BY DEF RecordOK
<1>2. ASSUME NEW x \in Ended PROVE [r EXCEPT !.state = x] \in RecordType
  BY <1>1 DEF RecordType, Kept
<1> SUFFICES /\ RecordOK(q, n) /\ q.id = r.id /\ q.in = r.in /\ q.consumed = r.consumed
             /\ q.state \notin {"granted"} \cup Started
             /\ q.state = "completed" => q.expires = 0
             /\ r.state \notin Waiting => q.state \in Ended
  OBVIOUS
<1>3. CASE r.state \in Started
  <2>1. q = [r EXCEPT !.state = "unknown"]
    BY <1>3 DEF Restored
  <2>2. /\ q \in RecordType /\ q.id = r.id /\ q.in = r.in /\ q.consumed = r.consumed
        /\ q.state = "unknown" /\ q.root = r.root /\ q.expires = r.expires /\ q.scope = r.scope
    BY <1>1, <2>1 DEF RecordType, Kept, Ended
  <2> HIDE DEF q, r
  <2>3. RecordOK(q, n)
    BY <1>1, <1>3, <2>2 DEF RecordOK, Begun, Waiting
  <2> QED BY <2>2, <2>3 DEF Started, Ended
<1>4. CASE r.state = "granted"
  <2>1. q = [r EXCEPT !.state = "expired"]
    BY <1>4 DEF Restored, Started
  <2>2. /\ q \in RecordType /\ q.id = r.id /\ q.in = r.in /\ q.consumed = r.consumed
        /\ q.state = "expired" /\ q.root = r.root /\ q.expires = r.expires /\ q.scope = r.scope
    BY <1>1, <2>1 DEF RecordType, Kept, Ended
  <2> HIDE DEF q, r
  <2>3. RecordOK(q, n)
    BY <1>1, <1>4, <2>2 DEF RecordOK, Begun, Waiting, Started
  <2> QED BY <2>2, <2>3 DEF Started, Ended
<1>5. CASE r.state \in Waiting
  <2>0. r.state \in Expires /\ r.state \notin Started /\ r.state # "granted"
    BY <1>5 DEF Expires, Waiting, Started
  <2>1. q = [r EXCEPT !.expires = e.left, !.state = IF e.left = 0 THEN "expired" ELSE @]
    BY <2>0 DEF Restored
  <2>2. /\ q \in RecordType /\ q.id = r.id /\ q.in = r.in /\ q.consumed = r.consumed
        /\ q.state = (IF e.left = 0 THEN "expired" ELSE r.state)
        /\ q.root = r.root /\ q.expires = e.left /\ q.scope = r.scope
    BY <1>1, <2>1 DEF RecordType, Kept, Ended
  <2> HIDE DEF q, r
  <2>3. RecordOK(q, n)
    BY <1>1, <1>5, <2>2 DEF RecordOK, Begun, Waiting, Started
  <2> QED BY <1>5, <2>2, <2>3 DEF Started, Ended, Waiting
<1>6. CASE r.state \in Ended
  <2>0. r.state \notin Expires /\ r.state \notin Started /\ r.state # "granted"
    BY <1>6 DEF Expires, Waiting, Started, Ended
  <2>1. q = [r EXCEPT !.expires = 0]
    BY <2>0 DEF Restored
  <2>2. /\ q \in RecordType /\ q.id = r.id /\ q.in = r.in /\ q.consumed = r.consumed
        /\ q.state = r.state /\ q.root = r.root /\ q.expires = 0 /\ q.scope = r.scope
    BY <1>1, <2>1 DEF RecordType
  <2> HIDE DEF q, r
  <2>3. RecordOK(q, n)
    BY <1>1, <2>2 DEF RecordOK
  <2> QED BY <1>6, <2>0, <2>2, <2>3
<1>7. r.state \in Kept
  BY <1>1 DEF RecordType
<1> QED BY <1>3, <1>4, <1>5, <1>6, <1>7 DEF Kept

\* A reset and the import of the snapshot keep the invariant.
LEMMA RestartIsSafe ==
  ASSUME BrokerBounds, BrokerInv, Restart
  PROVE  BrokerInv' /\ boot' # boot
<1> DEFINE entries == snapshot.entries
           n == snapshot.next
           known == {e.r.id : e \in {f \in entries : f.r.state \notin Waiting}}
           begun == {e.r.id : e \in {f \in entries : f.r.consumed}}
<1>0. /\ boot < MaxResets /\ boot' = boot + 1 /\ now' = 0 /\ called' = {}
      /\ slots' = Placed(entries)
      /\ nextSeq' = Max({n} \cup {e.r.id + 1 : e \in entries})
      /\ effects' = {[e EXCEPT !.seen = e.id \in begun] : e \in {f \in effects : f.id \in known}}
      /\ snapshot' = snapshot
  BY DEF Restart
<1>1. /\ NumbersOK /\ SnapshotOK /\ Matches(slots) /\ Tombstones(slots)
      /\ boot \in Nat /\ boot' # boot /\ boot' # 0 /\ boot' \in 0..MaxResets
      /\ MaxTime \in Nat /\ MaxSeq \in Nat
  BY <1>0 DEF BrokerInv, Sound, NumbersOK, BrokerBounds
<1>2. /\ n \in Nat /\ n >= 1 /\ n <= nextSeq
      /\ \A e \in entries : e.at \in Places /\ RecordOK(e.r, n) /\ e.left \in Nat /\ e.left <= MaxTime
      /\ \A e, h \in entries : e.at = h.at \/ e.r.id = h.r.id \/ e.r.in.key = h.r.in.key => e = h
  BY <1>1 DEF SnapshotOK
<1>3. nextSeq' = n
  <2> DEFINE S == {n} \cup {e.r.id + 1 : e \in entries}
  <2>1. \A e \in entries : e.r.id \in Nat /\ e.r.id + 1 <= n
    BY <1>2 DEF RecordOK, RecordType
  <2>2. n \in S /\ \A y \in S : y \in Nat /\ n >= y
    BY <1>2, <2>1
  <2>3. Max(S) \in S /\ \A y \in S : Max(S) >= y
    BY <2>2 DEF Max
  <2> HIDE DEF S
  <2>4. Max(S) = n
    BY <1>2, <2>2, <2>3
  <2> QED BY <1>0, <2>4 DEF S
<1>4. \A e \in entries :
        /\ RecordOK(Restored(e), n) /\ Restored(e).id = e.r.id /\ Restored(e).in = e.r.in
        /\ Restored(e).consumed = e.r.consumed
        /\ Restored(e).state \notin {"granted"} \cup Started
        /\ Restored(e).state = "completed" => Restored(e).expires = 0
        /\ e.r.state \notin Waiting => Restored(e).state \in Ended
  BY <1>1, <1>2, RestoredIsOK
<1>5. /\ DOMAIN slots' = Places
      /\ \A s \in Used(slots)' : \E e \in entries : slots'[s] = Restored(e) /\ Rank(e) = s
      /\ \A e \in entries : Rank(e) \in Used(slots)' /\ slots'[Rank(e)] = Restored(e)
  <2> DEFINE here(s) == {e \in entries : Rank(e) = s}
  <2>1. slots' = [s \in Places |-> IF here(s) = {} THEN EmptySlot
                                  ELSE Restored(CHOOSE e \in here(s) : TRUE)]
    BY <1>0 DEF Placed, Rank
  <2>2. ASSUME NEW e \in entries
        PROVE  Rank(e) \in Places /\ here(Rank(e)) = {e}
    BY <1>1, RanksAreApart
  <2>3. ASSUME NEW e \in entries PROVE slots'[Rank(e)] = Restored(e)
    <3>1. (CHOOSE x \in here(Rank(e)) : TRUE) = e
      BY <2>2
    <3> QED BY <2>1, <2>2, <3>1
  <2>4. ASSUME NEW e \in entries PROVE Restored(e) # EmptySlot
    BY <1>4, RecordIsNotEmpty DEF RecordOK
  <2>5. ASSUME NEW s \in Used(slots)'
        PROVE  \E e \in entries : slots'[s] = Restored(e) /\ Rank(e) = s
    <3>1. s \in Places /\ here(s) # {}
      BY <2>1 DEF Used
    <3>2. PICK e \in entries : Rank(e) = s
      BY <3>1
    <3> QED BY <2>3, <3>2
  <2>6. ASSUME NEW e \in entries PROVE Rank(e) \in Used(slots)'
    BY <2>2, <2>3, <2>4 DEF Used
  <2>7. DOMAIN slots' = Places
    BY <2>1
  <2> QED BY <2>3, <2>5, <2>6, <2>7
<1> HIDE DEF entries, n
<1>6. TableOK(slots, nextSeq)'
  <2>1. \A s \in Used(slots)' : RecordOK(slots'[s], n)
    BY <1>4, <1>5
  <2>2. \A s \in Places : slots'[s] = EmptySlot \/ RecordOK(slots'[s], n)
    BY <2>1 DEF Used
  <2> QED BY <1>3, <1>5, <2>2 DEF TableOK, RecordOK
<1>7. Distinct(slots)'
  <2> SUFFICES ASSUME NEW s \in Used(slots)', NEW t \in Used(slots)', s # t
               PROVE  slots'[s].id # slots'[t].id /\ slots'[s].in.key # slots'[t].in.key
    BY DEF Distinct
  <2>1. PICK e \in entries : slots'[s] = Restored(e) /\ Rank(e) = s
    BY <1>5
  <2>2. PICK h \in entries : slots'[t] = Restored(h) /\ Rank(h) = t
    BY <1>5
  <2>3. e # h
    BY <2>1, <2>2
  <2> QED BY <1>2, <1>4, <2>1, <2>2, <2>3
<1>8. RootsOK(slots)'
  <2>1. \A s \in Used(slots)' : slots'[s].state \notin {"granted"} \cup Started
          /\ (slots'[s].state = "completed" => slots'[s].expires = 0)
    BY <1>4, <1>5
  <2>2. \A s \in Used(slots)' : ~Live(slots[s])'
    BY <1>0, <2>1 DEF Live
  <2> QED BY <2>2 DEF RootsOK
<1>9. InsideOK(slots)'
  BY <1>1 DEF InsideOK
<1>10. Tombstones(slots)'
  <2> SUFFICES ASSUME NEW d \in effects' PROVE \E s \in Used(slots)' : Stands(slots'[s], d)
    BY DEF Tombstones, Stands
  <2>1. PICK e \in effects : e.id \in known /\ d = [e EXCEPT !.seen = e.id \in begun]
    BY <1>0
  <2>2. PICK s \in Used(slots) : Stands(slots[s], e)
    BY <1>1 DEF Tombstones
  <2>3. PICK f \in entries : f.r.state \notin Waiting /\ e.id = f.r.id
    BY <2>1
  <2>4. f.r.in = slots[s].in
    BY <1>1, <2>2, <2>3 DEF Matches, Stands, entries
  <2>5. e.id \in begun => f.r.consumed
    BY <1>2, <2>3
  <2>6. /\ d.id = e.id /\ d.key = e.key /\ d.run = e.run /\ d.seen = (e.id \in begun)
        /\ d = [id |-> d.id, key |-> d.key, run |-> d.run, seen |-> d.seen]
    <3>1. e = [id |-> e.id, key |-> e.key, run |-> e.run, seen |-> e.seen]
      BY <2>2 DEF Stands
    <3> HIDE DEF begun
    <3> QED BY <2>1, <3>1
  <2> HIDE DEF begun, known
  <2>7. /\ Restored(f).id = f.r.id /\ Restored(f).in = f.r.in
        /\ Restored(f).consumed = f.r.consumed /\ Restored(f).state \in Ended
    BY <1>4, <2>3
  <2>8. Stands(Restored(f), d)
    BY <2>2, <2>3, <2>4, <2>5, <2>6, <2>7 DEF Stands
  <2> QED BY <1>5, <2>8
<1>11. Matches(slots)'
  <2> SUFFICES ASSUME NEW f \in entries, NEW s \in Used(slots)', f.r.id = slots'[s].id
               PROVE  f.r.in = slots'[s].in
    BY <1>0 DEF Matches, entries
  <2>1. PICK e \in entries : slots'[s] = Restored(e)
    BY <1>5
  <2> QED BY <1>2, <1>4, <2>1
<1>12. CalledOK(slots)'
  BY <1>0 DEF CalledOK
<1>13. NumbersOK'
  <2>1. n \in 1..(MaxSeq + 1)
    BY <1>1, <1>2 DEF NumbersOK
  <2> QED BY <1>0, <1>1, <1>3, <2>1 DEF NumbersOK
<1>14. SnapshotOK'
  <2>1. nextSeq' = n /\ snapshot' = snapshot /\ n <= n /\ n = snapshot.next
    <3>1. n <= n
      BY <1>2
    <3> QED BY <1>0, <1>3, <3>1 DEF n
  <2> HIDE DEF n
  <2> QED BY <1>1, <2>1 DEF SnapshotOK, RecordOK
<1> QED BY <1>1, <1>6, <1>7, <1>8, <1>9, <1>10, <1>11, <1>12, <1>13, <1>14 DEF BrokerInv, Sound

\* The clock runs: less is live.
LEMMA TickIsSafe ==
  ASSUME BrokerBounds, BrokerInv, Tick
  PROVE  BrokerInv' /\ EffectsBeginWell
<1>0. /\ now < MaxTime /\ now' = now + 1 /\ now \in Nat /\ MaxTime \in Nat
      /\ UNCHANGED <<slots, nextSeq, snapshot, boot, effects, called>>
  BY DEF Tick, BrokerInv, NumbersOK, BrokerBounds
<1>1. /\ TableOK(slots, nextSeq) /\ Distinct(slots) /\ RootsOK(slots) /\ InsideOK(slots)
      /\ Tombstones(slots) /\ Matches(slots) /\ NumbersOK /\ SnapshotOK /\ CalledOK(slots)
  BY DEF BrokerInv, Sound
<1>2. \A s \in Used(slots) : RecordOK(slots[s], nextSeq) /\ slots[s].expires \in Nat
  BY <1>1 DEF TableOK, Used, RecordOK, RecordType
<1>3. NumbersOK' /\ SnapshotOK'
  <2>1. NumbersOK'
    BY <1>0, <1>1 DEF NumbersOK
  <2>2. SnapshotOK'
    BY <1>0, <1>1 DEF SnapshotOK, RecordOK
  <2> QED BY <2>1, <2>2
<1>4. TableOK(slots, nextSeq)' /\ Distinct(slots)'
  <2>1. TableOK(slots, nextSeq)'
    BY <1>0, <1>1 DEF TableOK, RecordOK
  <2>2. Distinct(slots)'
    BY <1>0, <1>1 DEF Distinct, Used
  <2> QED BY <2>1, <2>2
<1>5. InsideOK(slots)' /\ Tombstones(slots)'
  <2>1. InsideOK(slots)'
    BY <1>0, <1>1 DEF InsideOK, Inside, Used
  <2>2. Tombstones(slots)'
    BY <1>0, <1>1 DEF Tombstones, Stands, Used
  <2> QED BY <2>1, <2>2
<1>6. Matches(slots)' /\ CalledOK(slots)'
  BY <1>0, <1>1 DEF Matches, CalledOK, Used
<1>7. RootsOK(slots)'
  <2>1. Used(slots)' = Used(slots)
    BY <1>0 DEF Used
  <2>2. \A s \in Used(slots) : Live(slots[s])' => Live(slots[s])
    BY <1>0, <1>2 DEF Live
  <2> QED BY <1>0, <1>1, <2>1, <2>2 DEF RootsOK
<1>8. EffectsBeginWell
  BY <1>0, <1>2, MovedNot DEF EffectsBeginWell, Used
<1> QED BY <1>3, <1>4, <1>5, <1>6, <1>7, <1>8 DEF BrokerInv, Sound

\* At the start the table is empty.
LEMMA BrokerInitIsSafe ==
  ASSUME BrokerBounds, BrokerInit
  PROVE  BrokerInv
<1>1. Used(slots) = {} /\ snapshot.entries = {} /\ snapshot.next = 1
  BY DEF BrokerInit, Used
<1>2. NumbersOK
  BY DEF NumbersOK, BrokerInit, BrokerBounds
<1>3. SnapshotOK
  BY <1>1 DEF SnapshotOK, BrokerInit
<1>4. TableOK(slots, nextSeq)
  BY DEF TableOK, BrokerInit
<1>5. Sound(slots) /\ CalledOK(slots)
  BY <1>1, <1>4 DEF Sound, Distinct, RootsOK, InsideOK, Tombstones, Matches, CalledOK,
                    BrokerInit
<1> QED BY <1>2, <1>3, <1>5 DEF BrokerInv

\* Every step keeps the invariant; but for a reset, effects begin well in it.
LEMMA BrokerStepIsSafe ==
  ASSUME BrokerBounds, BrokerInv, BrokerNext
  PROVE  BrokerInv' /\ (EffectsBeginWell \/ boot' # boot)
<1>1. ASSUME NEW in \in Inputs, CreateV2(in) PROVE BrokerInv' /\ EffectsBeginWell
  BY <1>1, CreateIsSafe DEF BrokerBounds
<1>2. ASSUME NEW in \in Legacy, Create(in) PROVE BrokerInv' /\ EffectsBeginWell
  BY <1>2, LegacyIsSafe DEF BrokerBounds
<1>3. ASSUME NEW id, NEW by, NEW ok \in BOOLEAN, NEW scope \in 0..3, DecideV2(id, by, ok, scope)
      PROVE  BrokerInv' /\ EffectsBeginWell
  BY <1>3, DecideIsSafe
<1>4. ASSUME NEW id, NEW in, Consume(id, in) PROVE BrokerInv' /\ EffectsBeginWell
  BY <1>4, ConsumeIsSafe
<1>5. ASSUME NEW id, MarkVerifying(id) \/ CompleteVerified(id) \/ MarkUnknown(id)
      PROVE  BrokerInv' /\ EffectsBeginWell
  BY <1>5, SettleIsSafe DEF MarkVerifying, CompleteVerified, MarkUnknown
<1>6. ASSUME NEW id, CancelRequest(id) PROVE BrokerInv' /\ EffectsBeginWell
  BY <1>6, CancelIsSafe
<1>7. ASSUME NEW id, NEW ok \in BOOLEAN, FinishRequest(id, ok) PROVE BrokerInv' /\ EffectsBeginWell
  BY <1>7, FinishIsSafe
<1>8. ASSUME NEW runId, CancelRun(runId) \/ RetireRun(runId) \/ TerminalizeAndRetireRun(runId)
      PROVE  BrokerInv' /\ EffectsBeginWell
  BY <1>8, CancelRunIsSafe, RetireIsSafe
<1>9. CASE Query
  BY <1>9, QueryIsSafe DEF Query
<1>10. CASE ExportSnapshot
  BY <1>10, ExportIsSafe
<1>11. CASE Restart
  BY <1>11, RestartIsSafe
<1>12. CASE Tick
  BY <1>12, TickIsSafe
<1> QED BY <1>1, <1>2, <1>3, <1>4, <1>5, <1>6, <1>7, <1>8, <1>9, <1>10, <1>11, <1>12
        DEF BrokerNext

\* A step that changes nothing.
LEMMA NothingIsSafe ==
  ASSUME BrokerInv, UNCHANGED brokerVars
  PROVE  BrokerInv'
<1>1. NumbersOK' /\ SnapshotOK'
  BY RestIsSafe DEF brokerVars
<1>2. /\ TableOK(slots, nextSeq)' /\ Distinct(slots)' /\ RootsOK(slots)'
      /\ InsideOK(slots)' /\ Tombstones(slots)' /\ Matches(slots)' /\ CalledOK(slots)'
  <2>0. /\ TableOK(slots, nextSeq) /\ Distinct(slots) /\ RootsOK(slots) /\ InsideOK(slots)
        /\ Tombstones(slots) /\ Matches(slots) /\ CalledOK(slots)
    BY DEF BrokerInv, Sound
  <2>1. TableOK(slots, nextSeq)'
    BY <2>0 DEF TableOK, RecordOK, brokerVars
  <2>2. Distinct(slots)' /\ Matches(slots)' /\ CalledOK(slots)'
    BY <2>0 DEF Distinct, Matches, CalledOK, Used, brokerVars
  <2>3. RootsOK(slots)'
    BY <2>0 DEF RootsOK, Live, Used, brokerVars
  <2>4. InsideOK(slots)'
    BY <2>0 DEF InsideOK, Inside, Used, brokerVars
  <2>5. Tombstones(slots)'
    BY <2>0 DEF Tombstones, Stands, Used, brokerVars
  <2> QED BY <2>1, <2>2, <2>3, <2>4, <2>5
<1> QED BY <1>1, <1>2 DEF BrokerInv, Sound

\* The invariant gives what the broker promises of its table.
LEMMA InvIsInside ==
  ASSUME BrokerBounds, BrokerInv
  PROVE  ApprovalStaysInside
<1>0. /\ TableOK(slots, nextSeq) /\ Distinct(slots) /\ RootsOK(slots) /\ InsideOK(slots)
      /\ Tombstones(slots) /\ NumbersOK
  BY DEF BrokerInv, Sound
<1>1. \A s \in Used(slots) : RecordOK(slots[s], nextSeq)
  BY <1>0 DEF TableOK, Used
<1>2. BrokerTypeOK
  <2>1. ASSUME NEW s \in Used(slots)
        PROVE  /\ slots[s].id \in 1..nextSeq - 1 /\ slots[s].state \in States
               /\ slots[s].scope \in 0..slots[s].in.scope /\ slots[s].expires \in 0..MaxTime
    <3>1. /\ slots[s] \in RecordType /\ slots[s].id >= 1 /\ slots[s].id < nextSeq /\ slots[s].expires <= MaxTime
          /\ slots[s].scope <= slots[s].in.scope
      BY <1>1 DEF RecordOK
    <3>2. slots[s].in.scope \in 0..3 /\ slots[s].scope \in 0..3 /\ slots[s].expires \in Nat
          /\ slots[s].id \in Nat /\ slots[s].state \in Kept
      BY <3>1 DEF RecordType, InputType
    <3>3. slots[s].state \in States
      BY <3>2 DEF Kept, States, Expires
    <3> QED BY <1>0, <3>1, <3>2, <3>3 DEF NumbersOK, BrokerBounds
  <2> QED BY <1>0, <2>1 DEF BrokerTypeOK, NumbersOK, Distinct
<1>3. ReuseStaysInside
  BY <1>0 DEF ReuseStaysInside, InsideOK, Inside
<1>4. GrantIsOfThisBoot
  BY <1>0 DEF GrantIsOfThisBoot, RootsOK, Live
<1>5. EffectIsNotDenied
  <2> SUFFICES ASSUME NEW s \in Used(slots), NEW e \in effects, e.seen, slots[s].id = e.id
               PROVE  slots[s].state \in Started \cup {"completed", "failed", "unknown"}
    BY DEF EffectIsNotDenied
  <2>1. PICK t \in Used(slots) : Stands(slots[t], e)
    BY <1>0 DEF Tombstones
  <2>2. s = t
    BY <1>0, <2>1 DEF Distinct, Stands
  <2> QED BY <1>1, <2>1, <2>2 DEF Stands, RecordOK, Begun
<1> QED BY <1>2, <1>3, <1>4, <1>5 DEF ApprovalStaysInside

\* A step keeps what the broker promises of the approvals that are used.
LEMMA UsedOnceStep ==
  ASSUME BrokerInv, BrokerInv', EffectsBeginWell \/ boot' # boot
  PROVE  NoSecondEffect /\ EffectIsTimely
<1> SUFFICES ASSUME NEW s \in Used(slots)', slots'[s].consumed,
                    ~(slots[s] # EmptySlot /\ slots[s].consumed), boot' = boot
             PROVE  /\ \A e \in effects : e.key # slots'[s].in.key
                    /\ now < slots[s].expires /\ slots[s].id \notin called
  BY DEF NoSecondEffect, EffectIsTimely
<1>1. s \in Places /\ slots'[s] # EmptySlot
  BY DEF Used
<1>2. slots[s] # EmptySlot /\ Moved(slots[s], slots'[s]) /\ ~slots[s].consumed
  BY <1>1 DEF EffectsBeginWell
<1>3. now < slots[s].expires /\ slots[s].state \notin Ended
  BY <1>2 DEF Moved
<1>4. slots[s].id \notin called
  BY <1>1, <1>2, <1>3 DEF BrokerInv, CalledOK, Used, Ended
<1>5. ASSUME NEW e \in effects PROVE e.key # slots'[s].in.key
  <2>1. PICK t \in Used(slots) : Stands(slots[t], e)
    BY DEF BrokerInv, Sound, Tombstones
  <2>2. s # t
    BY <1>2, <1>3, <2>1 DEF Stands
  <2>3. slots[s].in.key # slots[t].in.key
    BY <1>1, <1>2, <2>2 DEF BrokerInv, Sound, Distinct, Used
  <2> QED BY <1>2, <2>1, <2>3 DEF Stands, Moved
<1> QED BY <1>3, <1>4, <1>5

\* Nothing that an agent asked for goes beyond what was decided: a reused grant
\* ends no later and is no wider than the decision it comes from, no grant is
\* of an earlier boot, and what began is not reported as if it had not
\* (si_agent_request_broker_create_v2, _import_snapshot, _cancel_run).
THEOREM ApprovalsStayInside ==
  ASSUME BrokerBounds
  PROVE  BrokerSpec => []ApprovalStaysInside
<1>1. BrokerInit => BrokerInv
  BY BrokerInitIsSafe
<1>2. BrokerInv /\ [BrokerNext]_brokerVars => BrokerInv'
  BY BrokerStepIsSafe, NothingIsSafe
<1>3. BrokerInv => ApprovalStaysInside
  BY InvIsInside
<1> QED BY <1>1, <1>2, <1>3, PTL DEF BrokerSpec

\* An approval starts one effect: its key had none before, its time has not run
\* out and its request was not cancelled, whatever was retried, reused, evicted
\* or restored from a snapshot in between (si_agent_request_broker_consume,
\* _finish, allocate_slot_locked).
THEOREM ApprovalsAreUsedOnce ==
  ASSUME BrokerBounds
  PROVE  BrokerSpec => ApprovalIsUsedOnce
<1>1. BrokerInit => BrokerInv
  BY BrokerInitIsSafe
<1>2. BrokerInv /\ [BrokerNext]_brokerVars => BrokerInv'
  BY BrokerStepIsSafe, NothingIsSafe
<1>3. BrokerInv /\ [BrokerNext]_brokerVars => [NoSecondEffect /\ EffectIsTimely]_brokerVars
  BY BrokerStepIsSafe, UsedOnceStep
<1> QED BY <1>1, <1>2, <1>3, PTL DEF BrokerSpec, ApprovalIsUsedOnce
===============================================================================
