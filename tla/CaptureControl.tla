--------------------------- MODULE CaptureControl ---------------------------
(***************************************************************************)
(* Who the video is captured for (application/video_control.c, the part    *)
(* that is not about HID): the viewers' wishes, the control task and the   *)
(* requests that bring them to the driver under s_apply_lock, the          *)
(* transaction that changes the KVM mode, the settings it saves, and the   *)
(* suspension around a firmware update.                                    *)
(*                                                                         *)
(* A mode is a size and a rate, saved under two keys one after the other   *)
(* (three in the code: width and height stand and fall together here).     *)
(* Preview, agent and always-on use one fixed mode that every card has.    *)
(***************************************************************************)
EXTENDS Integers, FiniteSets

CONSTANTS
  Sizes, Rates,   \* of KVM modes
  CardKinds,      \* sets of exact modes that cards have
  MaxOps,         \* bound: requests of viewers and browsers
  MaxLockFails,   \* bound: waits for a lock that time out
  MaxSaveFails,   \* bound: saves that fail
  MaxCrashes,     \* bound: power losses
  MaxCards        \* bound: replaced capture cards

(* The configured mode is one, and a key that is missing has no value.     *)
CaptureBounds ==
  Sizes # {} /\ Rates # {} /\ "none" \notin Sizes /\ "none" \notin Rates

Modes == Sizes \X Rates
FixedMode == <<"preview", "preview">>
Off == [owner |-> "off", mode |-> FixedMode]
DefaultMode == CHOOSE m \in Modes : TRUE
Tasks == {"ctl", "web", "ota"}

VARIABLES
  want,     \* suspended, kvm viewer, agent, preview, always on
  kvmMode,  \* s_kvm_width, s_kvm_height, s_kvm_fps_x100
  active,   \* s_active_*: what was last applied
  drv,      \* the driver's capture request
  card,     \* exact modes of the card, {} before it enumerates
  task,     \* the tasks: where they are, their request, the mode before
  holder,   \* s_apply_lock
  h264,     \* s_h264_transport_active, the driver's switch, a change under way;
            \* lost: a flag that could not be set back
  saved,    \* the settings in flash, and whether size and rate are of one save
  good,     \* modes that passed the validation of a change
  missed,   \* the driver's last request could not be stored in active
  count     \* bounds used: ops, locks, fails, crashes, cards; restarts that found
            \* a mode half saved

vars == <<want, kvmMode, active, drv, card, task, holder, h264, saved, good,
          missed, count>>

(* A task: where it is and goes on after its apply, whether that returned  *)
(* ESP_OK, and the request, the mode before and the new mode it works on.  *)
NoTask == [pc |-> "idle", next |-> "idle", ok |-> FALSE, req |-> Off,
           prev |-> DefaultMode, new |-> DefaultMode]
NoSwitch == [ctl |-> FALSE, drv |-> FALSE, prev |-> FALSE, lost |-> FALSE,
             pc |-> "idle"]
NoWant == [suspended |-> FALSE, kvm |-> FALSE, agent |-> FALSE,
           preview |-> FALSE, always |-> FALSE]

(* load_settings: each key on its own, defaults where one is missing.      *)
Loaded(s) ==
  IF s.size = "none" THEN DefaultMode
  ELSE <<s.size, IF s.rate = "none" THEN DefaultMode[2] ELSE s.rate>>

(* si_video_control_start.                                                 *)
CaptureInit ==
  /\ want = NoWant /\ kvmMode = DefaultMode
  /\ active = Off /\ drv = Off /\ card = {}
  /\ task = [t \in Tasks |-> NoTask] /\ holder = "none"
  /\ h264 = NoSwitch
  /\ saved = [size |-> "none", rate |-> "none", always |-> FALSE, whole |-> TRUE]
  /\ good = {DefaultMode} /\ missed = FALSE
  /\ count = [ops |-> 0, locks |-> 0, fails |-> 0, crashes |-> 0, cards |-> 0,
              torn |-> 0]

Spend(what, max) == count[what] < max /\ count' = [count EXCEPT ![what] = @ + 1]
Lock == UNCHANGED count
LockFails == Spend("locks", MaxLockFails)

(* desired_locked.                                                         *)
Desired ==
  IF want.suspended THEN Off
  ELSE IF want.kvm THEN [owner |-> "kvm", mode |-> kvmMode]
  ELSE IF want.agent THEN [owner |-> "agent", mode |-> FixedMode]
  ELSE IF want.preview THEN [owner |-> "preview", mode |-> FixedMode]
  ELSE IF want.always THEN [owner |-> "always", mode |-> FixedMode] ELSE Off

(* Mutant: off always matches.                                             *)
MatchesOff(req) == req.owner = "off" \/ req = active

(* matches_active_locked.                                                  *)
Matches(req) == req = active

(* si_video_set_capture and si_video_validate_mode: an exact mode the card *)
(* does not have is refused; validation needs a card.                      *)
DriverTakes(req) == req.owner # "kvm" \/ card = {} \/ req.mode \in card
CardHas(mode) == mode \in card

(***************************************************************************)
(* Wishes                                                                  *)
(***************************************************************************)

(* A viewer, the agent, the dashboard: kvm_active_locked,                  *)
(* agent_active_locked, si_video_control_set_preview.                      *)
Wish(field) ==
  /\ Spend("ops", MaxOps)
  /\ want' = [want EXCEPT ![field] = ~@]
  /\ UNCHANGED <<kvmMode, active, drv, card, task, holder, h264, saved, good, missed>>

(* Another card enumerates, with other modes; the driver keeps the request *)
(* and selects what fits.                                                  *)
NewCard ==
  /\ Spend("cards", MaxCards)
  /\ card' \in CardKinds
  /\ UNCHANGED <<want, kvmMode, active, drv, task, holder, h264, saved, good, missed>>

(***************************************************************************)
(* si_video_control_apply                                                  *)
(***************************************************************************)
Go(t, pc) == task' = [task EXCEPT ![t].pc = pc]
Done(t, ok) ==
  task' = [task EXCEPT ![t] = [NoTask EXCEPT !.pc = task[t].next,
                                             !.ok = ok /\ task[t].next = "writing"]]

(* Two seconds for s_apply_lock.                                           *)
ApplyLock(t) ==
  /\ task[t].pc = "apply" /\ holder = "none"
  /\ holder' = t /\ Go(t, "read")
  /\ UNCHANGED <<want, kvmMode, active, drv, card, h264, saved, good, missed, count>>
ApplyLockTimesOut(t) ==
  /\ task[t].pc = "apply" /\ holder # "none" /\ LockFails /\ Done(t, FALSE)
  /\ UNCHANGED <<want, kvmMode, active, drv, card, holder, h264, saved, good, missed>>

(* Nothing to do, or the driver is called without the state lock.          *)
ApplyRead(t) ==
  /\ task[t].pc = "read"
  /\ \/ /\ Lock /\ ~Matches(Desired)
        /\ task' = [task EXCEPT ![t] = [@ EXCEPT !.pc = "set", !.req = Desired]]
        /\ UNCHANGED holder
     \/ /\ Lock /\ Matches(Desired)
        /\ Done(t, TRUE) /\ holder' = "none"
     \/ LockFails /\ Done(t, FALSE) /\ holder' = "none"
  /\ UNCHANGED <<want, kvmMode, active, drv, card, h264, saved, good, missed>>

(* The driver refuses the mode, or its own lock is not free in time.       *)
ApplySet(t) ==
  /\ task[t].pc = "set"
  /\ \/ /\ Lock /\ DriverTakes(task[t].req)
        /\ drv' = task[t].req /\ Go(t, "store") /\ UNCHANGED holder
     \/ /\ LockFails \/ (Lock /\ ~DriverTakes(task[t].req))
        /\ Done(t, FALSE) /\ holder' = "none" /\ UNCHANGED drv
  /\ UNCHANGED <<want, kvmMode, active, card, h264, saved, good, missed>>

(* store_active_locked, if the lock comes in time.                         *)
StoreActive(req) ==
  \/ Lock /\ active' = req /\ missed' = FALSE
  \/ LockFails /\ missed' = TRUE /\ UNCHANGED active

ApplyStore(t) ==
  /\ task[t].pc = "store"
  /\ StoreActive(task[t].req)
  /\ Done(t, TRUE) /\ holder' = "none"
  /\ UNCHANGED <<want, kvmMode, drv, card, h264, saved, good>>

(* control_task: once a second.                                            *)
ControlTask ==
  /\ task["ctl"].pc = "idle" /\ ~Matches(Desired)
  /\ Go("ctl", "apply")
  /\ UNCHANGED <<want, kvmMode, active, drv, card, holder, h264, saved, good, missed, count>>

(* si_video_control_set_suspended around an update: the flag, then apply;  *)
(* without the lock neither, and the update, which does not look at the    *)
(* result, goes on.                                                        *)
SetSuspended(on, then) ==
  \/ /\ want' = [want EXCEPT !.suspended = on]
     /\ task' = [task EXCEPT !["ota"] = [NoTask EXCEPT !.pc = "apply", !.next = then]]
  \/ /\ count.locks < MaxLockFails /\ UNCHANGED want
     /\ task' = [task EXCEPT !["ota"] = [NoTask EXCEPT !.pc = then]]
Used(ops) ==
  count' = [count EXCEPT !.ops = @ + ops,
                         !.locks = IF task'["ota"].pc = "apply" THEN @ ELSE @ + 1]

Suspend ==
  /\ task["ota"].pc = "idle" /\ count.ops < MaxOps
  /\ SetSuspended(TRUE, "writing") /\ Used(1)
  /\ UNCHANGED <<kvmMode, active, drv, card, holder, h264, saved, good, missed>>
Resume ==
  /\ task["ota"].pc = "writing"
  /\ SetSuspended(FALSE, "idle") /\ Used(0)
  /\ UNCHANGED <<kvmMode, active, drv, card, holder, h264, saved, good, missed>>

(***************************************************************************)
(* si_video_control_change_kvm_mode and the handler's save                 *)
(***************************************************************************)
Change(mode) ==
  /\ task["web"].pc = "idle" /\ Spend("ops", MaxOps)
  /\ task' = [task EXCEPT !["web"] = [NoTask EXCEPT !.pc = "change",
                                                    !.new = mode]]
  /\ UNCHANGED <<want, kvmMode, active, drv, card, holder, h264, saved, good, missed>>

(* Up to the second critical section: the mode is valid and the card has   *)
(* it; a busy lock or a mode it has not ends the request.                  *)
ChangeBegin ==
  /\ task["web"].pc = "change"
  /\ \/ /\ Lock /\ holder = "none" /\ CardHas(task["web"].new)
        /\ kvmMode' = task["web"].new /\ holder' = "web"
        /\ task' = [task EXCEPT !["web"] =
                      [@ EXCEPT !.pc = "try", !.prev = kvmMode,
                                !.req = IF want.kvm /\ ~want.suspended
                                        THEN [owner |-> "kvm", mode |-> task["web"].new]
                                        ELSE Off]]
     \/ /\ LockFails \/ (Lock /\ holder = "none" /\ ~CardHas(task["web"].new))
        /\ Done("web", FALSE) /\ UNCHANGED <<kvmMode, holder>>
  /\ UNCHANGED <<want, active, drv, card, h264, saved, good, missed>>

(* What the driver says to the new mode: nobody watches, it takes it, or   *)
(* it refuses or its lock is not free in time.                             *)
NotWatched ==
  /\ Lock /\ task["web"].req = Off /\ Go("web", "saveSize") /\ holder' = "none"
  /\ good' = good \cup {kvmMode} /\ UNCHANGED drv
Switched ==
  /\ Lock /\ task["web"].req # Off /\ DriverTakes(task["web"].req)
  /\ drv' = task["web"].req /\ Go("web", "keep")
  /\ good' = good \cup {kvmMode} /\ UNCHANGED holder
NotSwitched ==
  /\ task["web"].req # Off
  /\ LockFails \/ (Lock /\ ~DriverTakes(task["web"].req))
  /\ Done("web", FALSE) /\ holder' = "none" /\ UNCHANGED <<drv, good>>

(* Mutant: a refused mode stays the KVM mode.                              *)
TryNoRollback ==
  /\ task["web"].pc = "try"
  /\ NotWatched \/ Switched \/ NotSwitched
  /\ UNCHANGED <<want, kvmMode, active, card, h264, saved, missed>>

(* A live viewer's stream is switched; a refusal rolls the mode back.      *)
ChangeTry ==
  /\ task["web"].pc = "try"
  /\ \/ (NotWatched \/ Switched) /\ UNCHANGED kvmMode
     \/ NotSwitched /\ kvmMode' = task["web"].prev
  /\ UNCHANGED <<want, active, card, h264, saved, missed>>

ChangeKeep ==
  /\ task["web"].pc = "keep"
  /\ StoreActive(task["web"].req)
  /\ Go("web", "saveSize") /\ holder' = "none"
  /\ UNCHANGED <<want, kvmMode, drv, card, h264, saved, good>>

(* si_video_control_get_kvm_mode and _save_kvm_mode: one key after the     *)
(* other, until one fails.                                                 *)
SaveSize ==
  /\ task["web"].pc = "saveSize" /\ Go("web", "saveRate")
  /\ saved' = [saved EXCEPT !.size = task["web"].new[1], !.whole = FALSE]
  /\ UNCHANGED <<want, kvmMode, active, drv, card, holder, h264, good, missed, count>>
SaveRate ==
  /\ task["web"].pc = "saveRate" /\ Done("web", TRUE)
  /\ saved' = [saved EXCEPT !.rate = task["web"].new[2], !.whole = TRUE]
  /\ UNCHANGED <<want, kvmMode, active, drv, card, holder, h264, good, missed, count>>
SaveFails ==
  /\ task["web"].pc \in {"saveSize", "saveRate"} /\ Spend("fails", MaxSaveFails)
  /\ Done("web", FALSE)
  /\ UNCHANGED <<want, kvmMode, active, drv, card, holder, h264, saved, good, missed>>

(* si_video_control_save_runtime_settings and _set_always_on, then apply;  *)
(* without the lock only the saved setting changes.                        *)
SetAlwaysOn ==
  /\ task["web"].pc = "idle" /\ count.ops < MaxOps
  /\ saved' = [saved EXCEPT !.always = ~want.always]
  /\ \/ /\ want' = [want EXCEPT !.always = ~@] /\ Go("web", "apply")
        /\ count' = [count EXCEPT !.ops = @ + 1]
     \/ /\ count.locks < MaxLockFails /\ UNCHANGED <<want, task>>
        /\ count' = [count EXCEPT !.ops = @ + 1, !.locks = @ + 1]
  /\ UNCHANGED <<kvmMode, active, drv, card, holder, h264, good, missed>>

(* Power is lost and the device starts with what it saved.                 *)
Crash ==
  /\ count.crashes < MaxCrashes
  /\ count' = [count EXCEPT !.crashes = @ + 1,
                            !.torn = IF saved.whole THEN @ ELSE @ + 1]
  /\ want' = [NoWant EXCEPT !.always = saved.always]
  /\ kvmMode' = Loaded(saved)
  /\ active' = Off /\ drv' = Off /\ card' = {} /\ missed' = FALSE
  /\ task' = [t \in Tasks |-> NoTask] /\ holder' = "none"
  /\ h264' = NoSwitch
  /\ UNCHANGED <<saved, good>>

(***************************************************************************)
(* si_video_control_set_h264_transport                                     *)
(***************************************************************************)
TransportBegin(on) ==
  /\ h264.pc = "idle" /\ Spend("ops", MaxOps)
  /\ h264' = [h264 EXCEPT !.ctl = on, !.prev = h264.ctl, !.pc = "switch"]
  /\ UNCHANGED <<want, kvmMode, active, drv, card, task, holder, saved, good, missed>>

(* The driver switches, or it fails and a flag that was changed is set     *)
(* back, if the lock comes in time.                                        *)
TransportEnd ==
  /\ h264.pc = "switch"
  /\ \/ Lock /\ h264' = [h264 EXCEPT !.drv = h264.ctl, !.lost = FALSE, !.pc = "idle"]
     \/ Lock /\ h264' = [h264 EXCEPT !.ctl = h264.prev, !.pc = "idle"]
     \/ /\ h264.ctl # h264.prev /\ LockFails
        /\ h264' = [h264 EXCEPT !.lost = TRUE, !.pc = "idle"]
  /\ UNCHANGED <<want, kvmMode, active, drv, card, task, holder, saved, good, missed>>

Apply(t) ==
  \/ ApplyLock(t) \/ ApplyLockTimesOut(t) \/ ApplyRead(t) \/ ApplySet(t) \/ ApplyStore(t)
WebNext ==
  \/ ChangeBegin \/ ChangeTry \/ ChangeKeep \/ SaveSize \/ SaveRate \/ SaveFails
TaskNext == (\E t \in Tasks : Apply(t)) \/ WebNext \/ TransportEnd
CaptureNext ==
  \/ \E f \in {"kvm", "agent", "preview"} : Wish(f)
  \/ NewCard \/ ControlTask \/ Suspend \/ Resume \/ SetAlwaysOn \/ Crash
  \/ \E m \in Modes : Change(m)
  \/ \E on \in BOOLEAN : TransportBegin(on)
  \/ TaskNext

CaptureSpec == CaptureInit /\ [][CaptureNext]_vars

(* A call that has the apply lock.                                         *)
ApplyOn(t) == ApplyRead(t) \/ ApplySet(t) \/ ApplyStore(t)

(* The control task runs every second and calls return.                    *)
CaptureFair ==
  /\ CaptureSpec /\ WF_vars(ControlTask) /\ WF_vars(WebNext)
  /\ \A t \in Tasks : SF_vars(ApplyLock(t)) /\ WF_vars(ApplyOn(t))

(***************************************************************************)
(* Properties                                                              *)
(***************************************************************************)

(* The tasks, the lock and the applied request have their types; whoever   *)
(* talks to the driver holds the apply lock, and nobody else does.         *)
CaptureTypeOK ==
  /\ kvmMode \in Modes /\ holder \in Tasks \cup {"none"}
  /\ active.owner \in {"off", "kvm", "agent", "preview", "always"}
  /\ \A t \in Tasks :
       task[t].pc \in {"read", "set", "store", "try", "keep"} <=> holder = t

(* The control task never sends the driver a KVM mode that no change       *)
(* request got through with: a refused change is rolled back inside the    *)
(* same transaction.  Only a restart that found the two keys of different  *)
(* saves comes up with a mode nobody has validated, of the size of one     *)
(* that was and the rate of another.                                       *)
RefusedModeIsNotRetried ==
  \A t \in Tasks : task[t].pc = "set" /\ task[t].req.owner = "kvm" =>
    /\ \E g, h \in good : task[t].req.mode = <<g[1], h[2]>>
    /\ count.torn = 0 => task[t].req.mode \in good

(* What the control layer believes the driver was told is what it was told *)
(* whenever nobody talks to it, unless a store was given up for the lock.  *)
ActiveIsTheDrivers == holder = "none" /\ ~missed => active = drv

(* While an update writes that was told its suspension came through,       *)
(* nothing is captured, whoever came and went, changed the mode or applied *)
(* meanwhile - unless a store was missed, when the off is taken for done.  *)
(* The update itself does not ask: it also writes if it was told no.       *)
UpdateIsUndisturbed ==
  task["ota"].pc = "writing" /\ task["ota"].ok /\ ~missed => drv = Off

(* The H.264 flag of the control layer is the driver's, except inside a    *)
(* switch and after a failed one whose flag could not be set back, until   *)
(* the next that succeeds.                                                 *)
TransportFlagsAgree == h264.pc = "idle" /\ ~h264.lost => h264.ctl = h264.drv

(* Nobody wants video (desired_locked): the driver's capture is to be    *)
(* off for good (MCVideo).                                       *)
Unwanted == Desired = Off

(* A KVM viewer stays, with a mode the card has, and is to end up with   *)
(* the driver capturing in that mode (control_task applies every         *)
(* second).                                                              *)
WantsKvm == Desired.owner = "kvm" /\ kvmMode \in card
CapturesKvm == drv = [owner |-> "kvm", mode |-> kvmMode]
=============================================================================
