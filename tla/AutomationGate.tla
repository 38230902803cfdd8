---------------------------- MODULE AutomationGate ----------------------------
(***************************************************************************)
(* Who of the embedded agent, the MCP client, the operator in the browser  *)
(* and the device's own maintenance may use a resource                     *)
(* (core/resource_operation_state.c, core/terminal_control_state.c and     *)
(* their adapters under services/web).  An operation of the agent or the   *)
(* MCP client occupies the resource's slot under a generation number; the  *)
(* browser stops it by that number, which it read some time ago.           *)
(* Maintenance asks everyone to stop, waits until all is quiet and takes   *)
(* its own slot, which keeps the others out.                               *)
(*                                                                         *)
(* The HID lease and the watching of the video have no slot.  The page     *)
(* shows them under their epochs, stops them too, and then aborts whatever *)
(* run the agent has.                                                      *)
(*                                                                         *)
(* serial, asked, run.asked and run.swept are history: how many operations *)
(* a slot has seen, whether the present one, or the present run, was asked *)
(* to stop, and whether it was aborted unnamed, after the stop of a lease. *)
(***************************************************************************)
EXTENDS Naturals, Sequences, FiniteSets

CONSTANTS
  Resources,  \* slots of resource_operation_state but maintenance
  Channels,   \* slots of terminal_control_state
  Maint,      \* the maintenance slot
  Uart,       \* the channel with an operation lock
  GenMod,     \* generations are 32 bits wide: 2^32
  MaxOps,     \* operations in one behaviour
  MaxMaint,   \* times of maintenance in one behaviour
  MaxRuns,    \* runs of the agent in one behaviour
  MaxGrants,  \* bound: epochs of a lease in one behaviour
  None

\* s_epoch of the control lease and s_agent_stream_epoch of the video stand for
\* the operations "hid" and "video-observe".
Leases == {"hid", "video-observe"}

\* What the proofs assume of the constants: the slots are different ones, None
\* is nothing else, and the counter is wide enough to count.
GateBounds ==
  /\ Maint \notin Resources \cup Channels /\ Resources \cap Channels = {}
  /\ Uart \in Channels
  /\ GenMod \in Nat /\ GenMod > 1 /\ MaxOps \in Nat /\ MaxMaint \in Nat
  /\ None \notin {"operator", "agent", "mcp", "system"} \cup Resources \cup Channels
  /\ None \notin [slot: Resources \cup Channels \cup {Maint} \cup Leases, gen: Nat, serial: Nat]

VARIABLES
  slot, serial, asked,
  task,     \* what the agent's and the MCP client's task do
  run,      \* the agent's run: number, active, abort requested, asked for, swept
  page,     \* what the browser last read: an operation, or nothing
  abort,    \* the browser's stop has yet to abort this run
  leases,   \* the HID lease and the watching of the video: active, epoch, holder
  stopper,  \* the browser's stop of a lease: "idle", "taking" one, "sweeping"
  hand,     \* the operator's write: "idle", "waiting", "locked", "allowed"
  lock,     \* s_uart_operation_lock
  typed,    \* history: the operator's bytes came within another's operation
  sys       \* the maintenance request: what is left to do

leaseVars == <<leases, stopper>>
gateVars == <<slot, serial, asked, task, run, page, abort, leaseVars, hand, lock, typed, sys>>

Actors == {"agent", "mcp"}
Slots == Resources \cup Channels \cup {Maint}
Guarded == Resources \cup {Maint}

Vacant(g) == [on |-> FALSE, cancel |-> FALSE, cancellable |-> FALSE, gen |-> g,
              actor |-> None, run |-> 0]
Stopped == [pc |-> "idle", of |-> None]
AtRest == [pc |-> "idle", slot |-> None, gen |-> 0]

-------------------------------------------------------------------------------
(* The two state cores *)

\* Zero is no generation.
NextGen(g) == IF (g + 1) % GenMod = 0 THEN 1 ELSE (g + 1) % GenMod

\* si_resource_operation_state_begin and si_terminal_control_state_begin
MayBegin(s) ==
  /\ ~slot[s].on
  /\ s \in Resources => ~slot[Maint].on
  /\ s = Maint => \A r \in Guarded : ~slot[r].on

Occupy(s, actor, cancellable, ofRun) ==
  /\ slot' = [slot EXCEPT ![s] = [on |-> TRUE, cancel |-> FALSE, actor |-> actor,
                cancellable |-> cancellable, gen |-> NextGen(slot[s].gen), run |-> ofRun]]
  /\ serial' = [serial EXCEPT ![s] = @ + 1]
  /\ asked' = [asked EXCEPT ![s] = FALSE]

\* si_resource_operation_state_request_cancel and its terminal twin, where
\* every operation is cancellable
MayCancel(s, g) ==
  g # 0 /\ slot[s].on /\ slot[s].cancellable /\ slot[s].gen = g

\* si_..._cancel_requested, as the holder of a token asks it
Canceled(s, g) == ~slot[s].on \/ slot[s].gen # g \/ slot[s].cancel

\* si_..._finish
Vacate(s, g) ==
  slot' = IF slot[s].on /\ slot[s].gen = g
          THEN [slot EXCEPT ![s] = Vacant(g)] ELSE slot

\* si_..._manual_allowed and si_..._manual_input_allowed
ManualAllowed(s) == ~slot[s].on /\ (s \in Resources => ~slot[Maint].on)

-------------------------------------------------------------------------------
(* The agent and the MCP client *)

StartRun ==
  /\ ~run.on /\ run.id < MaxRuns
  /\ run' = [id |-> run.id + 1, on |-> TRUE, abort |-> FALSE,
             asked |-> FALSE, swept |-> FALSE]
  /\ UNCHANGED <<leaseVars, slot, serial, asked, task, page, abort, hand, lock, typed, sys>>

EndRun ==
  /\ run.on /\ task["agent"].pc = "idle"
  /\ run' = [run EXCEPT !.on = FALSE]
  /\ UNCHANGED <<leaseVars, slot, serial, asked, task, page, abort, hand, lock, typed, sys>>

\* resource_operation_begin or terminal_control_begin; the agent acts in a run.
Begin(a, s) ==
  /\ task[a].pc = "idle" /\ serial[s] < MaxOps /\ MayBegin(s)
  /\ a = "agent" => run.on
  /\ Occupy(s, a, TRUE, IF a = "agent" THEN run.id ELSE 0)
  /\ task' = [task EXCEPT ![a] = [pc |-> IF s = Uart THEN "locking" ELSE "working",
                                  slot |-> s, gen |-> NextGen(slot[s].gen)]]
  /\ UNCHANGED <<leaseVars, run, page, abort, hand, lock, typed, sys>>

\* uart_mutation_begin, the write and uart_mutation_end; the lock may not come.
Write(a) ==
  /\ task[a].pc = "locking"
  /\ task' = [task EXCEPT ![a].pc = IF lock = None THEN "working" ELSE "ending"]
  /\ UNCHANGED <<leaseVars, slot, serial, asked, run, page, abort, hand, lock, typed, sys>>

\* The operation is over, which may take as long as it likes ...
Work(a) ==
  /\ task[a].pc = "working"
  /\ task' = [task EXCEPT ![a].pc = "ending"]
  /\ UNCHANGED <<leaseVars, slot, serial, asked, run, page, abort, hand, lock, typed, sys>>

\* ... or its wait sees that it is to stop (power_resource_cancel_cb,
\* terminal_ssh_exec_cancel_cb, the reading of the UART).
Heed(a) ==
  /\ task[a].pc = "working" /\ Canceled(task[a].slot, task[a].gen)
  /\ task' = [task EXCEPT ![a].pc = "ending"]
  /\ UNCHANGED <<leaseVars, slot, serial, asked, run, page, abort, hand, lock, typed, sys>>

\* resource_operation_finish or terminal_control_finish
Finish(a) ==
  /\ task[a].pc = "ending"
  /\ Vacate(task[a].slot, task[a].gen)
  /\ task' = [task EXCEPT ![a] = AtRest]
  /\ UNCHANGED <<leaseVars, serial, asked, run, page, abort, hand, lock, typed, sys>>

\* A tool of the agent's run or of the MCP client takes the HID lease or looks
\* at the video, also from the other one; a holder that goes on is the same one.
Grant(a, l) ==
  /\ ~(leases[l].on /\ leases[l].actor = a) /\ leases[l].gen < MaxGrants
  /\ a = "agent" => run.on
  /\ leases' = [leases EXCEPT ![l] = [on |-> TRUE, gen |-> NextGen(@.gen), actor |-> a]]
  /\ UNCHANGED <<stopper, slot, serial, asked, task, run, page, abort, hand, lock, typed, sys>>

\* It is released, expires or goes to a browser, with or without a new epoch;
\* a new mode or a new viewer moves only the epoch.
Move(l) ==
  /\ leases[l].on /\ leases[l].gen < MaxGrants
  /\ \E on \in BOOLEAN, g \in {leases[l].gen, NextGen(leases[l].gen)} :
       leases' = [leases EXCEPT ![l] = [@ EXCEPT !.on = on, !.gen = g]]
  /\ UNCHANGED <<stopper, slot, serial, asked, task, run, page, abort, hand, lock, typed, sys>>

-------------------------------------------------------------------------------
(* The browser *)

\* automation_add_status_json: the page shows an operation.
Look(s) ==
  /\ slot[s].on
  /\ page' = [slot |-> s, gen |-> slot[s].gen, serial |-> serial[s]]
  /\ UNCHANGED <<leaseVars, slot, serial, asked, task, run, abort, hand, lock, typed, sys>>

LookAtLease(l) ==
  /\ leases[l].on
  /\ page' = [slot |-> l, gen |-> leases[l].gen, serial |-> leases[l].gen]
  /\ UNCHANGED <<leaseVars, slot, serial, asked, task, run, abort, hand, lock, typed, sys>>

\* automation_stop_handler and terminal_control_stop_handler
Stop ==
  /\ page # None /\ page.slot \in Slots /\ abort = 0 /\ stopper = Stopped
  /\ LET s == page.slot IN
     IF MayCancel(s, page.gen)
     THEN /\ slot' = [slot EXCEPT ![s].cancel = TRUE]
          /\ asked' = [asked EXCEPT ![s] = @ \/ page.serial = serial[s]]
          /\ abort' = slot[s].run
          /\ run' = IF page.serial = serial[s] /\ run.on /\ run.id = slot[s].run
                    THEN [run EXCEPT !.asked = TRUE] ELSE run
     ELSE UNCHANGED <<slot, asked, abort, run>>
  /\ page' = None
  /\ UNCHANGED <<leaseVars, serial, task, hand, lock, typed, sys>>

\* automation_abort_active_agent with the run of the operation that was
\* stopped, which may be over by now.
Abort ==
  /\ abort # 0 /\ abort' = 0
  /\ run' = IF run.on /\ run.id = abort THEN [run EXCEPT !.abort = TRUE] ELSE run
  /\ UNCHANGED <<leaseVars, slot, serial, asked, task, page, hand, lock, typed, sys>>

\* automation_stop_handler for a lease: the epoch is compared; the HID lease
\* has to be active, the watching of the video need not ...
FindLease ==
  /\ page # None /\ page.slot \in Leases /\ abort = 0 /\ stopper = Stopped
  /\ LET l == page.slot IN
     stopper' = IF leases[l].gen = page.gen /\ (l = "hid" => leases[l].on)
                THEN [pc |-> "taking", of |-> l] ELSE Stopped
  /\ page' = None
  /\ UNCHANGED <<leases, slot, serial, asked, task, run, abort, hand, lock, typed, sys>>

\* A lease ends; its epoch moves, unless nobody had it.
Drop(l) ==
  \E g \in {leases[l].gen, NextGen(leases[l].gen)} :
    /\ leases[l].on => g = NextGen(leases[l].gen)
    /\ leases' = [leases EXCEPT ![l] = [on |-> FALSE, gen |-> g, actor |-> None]]

\* ... then whoever has it by now loses it.  The update of the HID lease may be
\* refused; a release that does not get its lock counts as done ...
TakeLease ==
  /\ stopper.pc = "taking"
  /\ \/ Drop(stopper.of) /\ stopper' = [pc |-> "sweeping", of |-> stopper.of]
     \/ /\ UNCHANGED leases
        /\ stopper' = IF stopper.of = "hid" THEN Stopped
                      ELSE [pc |-> "sweeping", of |-> stopper.of]
  /\ UNCHANGED <<slot, serial, asked, task, run, page, abort, hand, lock, typed, sys>>

\* ... and automation_abort_active_agent with no name aborts the run there is,
\* if it gets the lock.
Sweep ==
  /\ stopper.pc = "sweeping" /\ stopper' = Stopped
  /\ \/ run' = IF run.on THEN [run EXCEPT !.abort = TRUE, !.swept = TRUE] ELSE run
     \/ UNCHANGED run
  /\ UNCHANGED <<leases, slot, serial, asked, task, page, abort, hand, lock, typed, sys>>

\* The operator types into the UART terminal: the check ...
HandLook ==
  /\ hand = "idle" /\ ManualAllowed(Uart)
  /\ hand' = "waiting"
  /\ UNCHANGED <<leaseVars, slot, serial, asked, task, run, page, abort, lock, typed, sys>>

\* ... uart_mutation_begin, which may not get the lock ...
HandLock ==
  /\ hand = "waiting"
  /\ IF lock = None THEN lock' = "operator" /\ hand' = "locked"
     ELSE hand' = "idle" /\ UNCHANGED lock
  /\ UNCHANGED <<leaseVars, slot, serial, asked, task, run, page, abort, typed, sys>>

\* Mutant: the check before the lock is enough.
HandCheckedBefore ==
  /\ hand = "locked"
  /\ hand' = "allowed" /\ UNCHANGED lock
  /\ UNCHANGED <<leaseVars, slot, serial, asked, task, run, page, abort, typed, sys>>

\* ... the check again ...
HandCheck ==
  /\ hand = "locked"
  /\ IF ManualAllowed(Uart)
       THEN hand' = "allowed" /\ UNCHANGED lock
       ELSE hand' = "idle" /\ lock' = None
  /\ UNCHANGED <<leaseVars, slot, serial, asked, task, run, page, abort, typed, sys>>

\* ... and the write.
HandWrite ==
  /\ hand = "allowed" /\ hand' = "idle" /\ lock' = None
  /\ typed' = (typed \/ \E a \in Actors : task[a].slot = Uart /\ task[a].pc = "working")
  /\ UNCHANGED <<leaseVars, slot, serial, asked, task, run, page, abort, sys>>

-------------------------------------------------------------------------------
(* Maintenance: reset, upload, boot selection.  sys counts down            *)
(* automation_request_stop_all and then automation_is_quiescent.           *)

StopPlan == <<"abort agent", "stop agent slots", "stop agent channels",
              "stop agent hid", "see agent video", "drop video",
              "stop mcp slots", "stop mcp channels",
              "stop mcp hid", "see mcp video", "drop video">>
QuietPlan == <<"slots", "channels", "hid", "video-observe", "run">>
StopHid == [agent |-> "stop agent hid", mcp |-> "stop mcp hid"]
SeeVideo == [agent |-> "see agent video", mcp |-> "see mcp video"]
NoRequest == [pc |-> "idle", todo |-> <<>>]

Request ==
  /\ sys.pc = "idle" /\ serial[Maint] < MaxMaint
  /\ sys' = [pc |-> "stopping", todo |-> StopPlan]
  /\ UNCHANGED <<leaseVars, slot, serial, asked, task, run, page, abort, hand, lock, typed>>

\* The slots of set S that an operation of actor a occupies are to stop.
CancelAll(S, a) ==
  LET hit == {s \in S : slot[s].on /\ slot[s].cancellable /\ slot[s].actor = a} IN
  /\ slot' = [s \in Slots |-> IF s \in hit THEN [slot[s] EXCEPT !.cancel = TRUE] ELSE slot[s]]
  /\ asked' = [s \in Slots |-> asked[s] \/ s \in hit]

\* What the request does next.
Proceed(todo) ==
  IF todo = <<>> THEN [pc |-> "quieting", todo |-> QuietPlan]
  ELSE [pc |-> "stopping", todo |-> todo]

StopOne ==
  /\ sys.pc = "stopping"
  /\ LET todo == Head(sys.todo) IN
     /\ run' = IF todo = "abort agent" /\ run.on
               THEN [run EXCEPT !.abort = TRUE, !.asked = TRUE] ELSE run
     /\ \/ todo = "abort agent" /\ UNCHANGED <<slot, asked>>
        \/ todo = "stop agent slots" /\ CancelAll(Guarded, "agent")
        \/ todo = "stop agent channels" /\ CancelAll(Channels, "agent")
        \/ todo = "stop mcp slots" /\ CancelAll(Guarded, "mcp")
        \/ todo = "stop mcp channels" /\ CancelAll(Channels, "mcp")
  /\ sys' = Proceed(Tail(sys.todo))
  /\ UNCHANGED <<leaseVars, serial, task, page, abort, hand, lock, typed>>

\* The leases of an actor: the HID lease goes with its session; the watching of
\* the video is released, by whoever it is, once it was seen to be the actor's.
StopLease ==
  /\ sys.pc = "stopping"
  /\ LET todo == Head(sys.todo)
         rest == Tail(sys.todo)
         Holds(a, l) == leases[l].on /\ leases[l].actor = a
     IN \/ \E a \in Actors :
             /\ todo = StopHid[a] /\ sys' = Proceed(rest)
             /\ IF Holds(a, "hid") THEN Drop("hid") ELSE UNCHANGED leases
        \/ \E a \in Actors :
             /\ todo = SeeVideo[a] /\ UNCHANGED leases
             /\ sys' = Proceed(IF Holds(a, "video-observe") THEN rest ELSE Tail(rest))
        \/ todo = "drop video" /\ Drop("video-observe") /\ sys' = Proceed(rest)
  /\ UNCHANGED <<stopper, slot, serial, asked, task, run, page, abort, hand, lock, typed>>

\* What a step of automation_is_quiescent finds.
Quiet(what) ==
  \/ what = "slots" /\ \A s \in Guarded : ~slot[s].on
  \/ what = "channels" /\ \A s \in Channels : ~slot[s].on
  \/ what \in Leases /\ ~leases[what].on
  \/ what = "run" /\ ~run.on

\* One check passes; the last one lets the request go on.
CheckQuiet ==
  /\ sys.pc = "quieting" /\ Quiet(Head(sys.todo))
  /\ sys' = IF Len(sys.todo) = 1 THEN [pc |-> "beginning", todo |-> <<>>]
            ELSE [sys EXCEPT !.todo = Tail(@)]
  /\ UNCHANGED <<leaseVars, slot, serial, asked, task, run, page, abort, hand, lock, typed>>

\* One fails: look again from the start, or give up after three seconds.
NotQuiet ==
  /\ sys.pc = "quieting" /\ ~Quiet(Head(sys.todo))
  /\ \/ sys.todo # QuietPlan /\ sys' = [sys EXCEPT !.todo = QuietPlan]
     \/ sys' = NoRequest
  /\ UNCHANGED <<leaseVars, slot, serial, asked, task, run, page, abort, hand, lock, typed>>

BeginMaintenance ==
  /\ sys.pc = "beginning"
  /\ IF MayBegin(Maint)
       THEN /\ \E c \in BOOLEAN : Occupy(Maint, "system", c, 0)
            /\ sys' = [pc |-> "maintaining", todo |-> <<>>]
       ELSE sys' = NoRequest /\ UNCHANGED <<slot, serial, asked>>
  /\ UNCHANGED <<leaseVars, task, run, page, abort, hand, lock, typed>>

EndMaintenance ==
  /\ sys.pc = "maintaining"
  /\ Vacate(Maint, slot[Maint].gen)
  /\ sys' = NoRequest
  /\ UNCHANGED <<leaseVars, serial, asked, task, run, page, abort, hand, lock, typed>>

-------------------------------------------------------------------------------
GateInit ==
  /\ slot = [s \in Slots |-> Vacant(0)]
  /\ serial = [s \in Slots |-> 0] /\ asked = [s \in Slots |-> FALSE]
  /\ task = [a \in Actors |-> AtRest]
  /\ run = [id |-> 0, on |-> FALSE, abort |-> FALSE, asked |-> FALSE, swept |-> FALSE]
  /\ leases = [l \in Leases |-> [on |-> FALSE, gen |-> 0, actor |-> None]]
  /\ stopper = Stopped
  /\ page = None /\ abort = 0 /\ hand = "idle" /\ lock = None /\ typed = FALSE
  /\ sys = NoRequest

GateNext ==
  \/ StartRun \/ EndRun
  \/ \E a \in Actors : (\E s \in Resources \cup Channels : Begin(a, s))
                       \/ Write(a) \/ Work(a) \/ Heed(a) \/ Finish(a)
  \/ \E l \in Leases : (\E a \in Actors : Grant(a, l)) \/ Move(l) \/ LookAtLease(l)
  \/ (\E s \in Slots : Look(s)) \/ Stop \/ Abort
  \/ FindLease \/ TakeLease \/ Sweep
  \/ HandLook \/ HandLock \/ HandCheck \/ HandWrite
  \/ Request \/ StopOne \/ StopLease \/ CheckQuiet \/ NotQuiet \/ BeginMaintenance \/ EndMaintenance

GateSpec == GateInit /\ [][GateNext]_gateVars

\* The tasks run and their waits poll; how long an operation that nobody
\* stops takes is open, so Work is not fair.
GateFairSpec ==
  /\ GateSpec
  /\ \A a \in Actors : WF_gateVars(Write(a)) /\ WF_gateVars(Heed(a)) /\ WF_gateVars(Finish(a))

-------------------------------------------------------------------------------
(* A slot with an operation belongs to the task that began it, under its    *)
(* generation, until that task ends it: nothing begins over it and no old   *)
(* token ends it.                                                           *)
TokenIsCurrent ==
  \A a \in Actors : task[a].pc # "idle" =>
    LET s == slot[task[a].slot] IN s.on /\ s.actor = a /\ s.gen = task[a].gen

(* An operation is told to stop only when the page named that operation, or *)
(* everything of its actor was to stop: a stop that comes late hits nobody. *)
StopHitsWhatItNamed == \A s \in Slots : slot[s].cancel => asked[s]

(* A run is aborted only when the page stopped an operation of that run, or *)
(* everything was to stop, or unnamed, when the page had stopped the HID    *)
(* lease or the watching of the video, anybody's: that abort hits whatever  *)
(* runs by then.  The late abort of an operation's stop does not hit the    *)
(* run after it, and the stop of an MCP operation with a slot aborts none.  *)
AbortHitsItsRun == run.abort => run.asked \/ run.swept

(* While maintenance has its slot no other slot of its table is occupied.   *)
MaintenanceIsAlone ==
  slot[Maint].on => \A s \in Resources : ~slot[s].on

(* Every operation has a number it can be stopped by, also after the        *)
(* counter has wrapped.                                                     *)
HasANumber == \A s \in Slots : slot[s].on => slot[s].gen # 0

(* The operator's bytes never come into an operation of the automation that *)
(* has begun to write: "its writes are fail-closed".                        *)
NoTypingIntoOperations == ~typed

\* The counter of no slot has gone round.
CountersAreFresh == \A s \in Slots : slot[s].gen = serial[s]

(* Operations of the automation exclude maintenance and the operator's      *)
(* typing and keep their number; and as long as no counter has gone round,  *)
(* a stop hits only the operation it named, and an abort the run it named,  *)
(* but for the abort after the stop of a lease, which names none.           *)
OperationsAreApart ==
  /\ TokenIsCurrent /\ MaintenanceIsAlone /\ HasANumber
  /\ NoTypingIntoOperations
  /\ CountersAreFresh => StopHitsWhatItNamed /\ AbortHitsItsRun
===============================================================================
