------------------------------- MODULE BootKey -------------------------------
(***************************************************************************)
(* The boot-key plan (application/boot_key_manager.c with the decision of  *)
(* core/boot_key_sequence.c and the requests of services/boot_key_http.c): *)
(* one plan in memory, approved by a person, carried out by a worker task  *)
(* that renews the control lease and sends a key at every due time.        *)
(*                                                                         *)
(* A worker that finished its plan still has to give the lease back, so a  *)
(* second one may already run for the next plan.  Times are in units of    *)
(* 100 ms.  The lease is the one of ControlLease, seen from its callers.   *)
(***************************************************************************)
EXTENDS Integers, FiniteSets

CONSTANTS
  Workers,       \* worker tasks that may exist at the same time
  MaxDelay, MaxKeys, MaxTimeout,  \* bounds of a plan's configuration
  MaxPlans,      \* bound: plans made
  MaxLockFails   \* bound: waits of 200 ms for s_lock that time out

VARIABLES
  plan,      \* s_status
  task,      \* s_task is set
  work,      \* the worker tasks: where they are and their copies
  lease,     \* who holds the control lease: a worker, "human" or "free"
  mounted,   \* si_hid_is_mounted
  clock,     \* time since the sequence started
  confirm,   \* plans whose confirmation passed the look at the KVM view
  locks,     \* lock waits that timed out
  keys       \* keys sent for the plan, those after a cancel, records lost

vars == <<plan, task, work, lease, mounted, clock, confirm, locks, keys>>

(* What the parameters are.                                                *)
BootBounds ==
  /\ MaxDelay \in Nat /\ MaxKeys \in Nat \ {0} /\ MaxTimeout \in Nat \ {0}
  /\ MaxPlans \in Nat /\ MaxLockFails \in Nat
  /\ "human" \notin Workers /\ "free" \notin Workers

Configs ==
  [delay : 0 .. MaxDelay, interval : {1}, max : 1 .. MaxKeys,
   timeout : 1 .. MaxTimeout, reset : BOOLEAN]

(* si_boot_key_sequence_validate: the last key is due before the timeout.  *)
Valid(c) == c.timeout >= c.delay + (c.max - 1) * c.interval + 1

WorkerStates == {"starting", "waiting_hid", "waiting_start", "running"}
OpenStates == {"planned", "approved", "awaiting_verification"}
FinalStates == {"cancelled", "preempted", "timed_out", "failed", "verified"}

(* state_accepts_new_plan.                                                 *)
AcceptsNewPlan(state) == state \in FinalStates \cup {"empty"}

NoCfg == CHOOSE c \in Configs : Valid(c)
NoWork == [pc |-> "none", id |-> 0, cfg |-> NoCfg, sent |-> 0,
           cancel |-> FALSE, result |-> "failed"]
NoKeys == [sent |-> 0, late |-> 0, lost |-> 0]

(* si_boot_key_manager_start.                                              *)
BootInit ==
  /\ plan = [state |-> "empty", id |-> 0, approved |-> FALSE,
             cancel |-> FALSE, sent |-> 0, cfg |-> NoCfg]
  /\ task = FALSE /\ work = [w \in Workers |-> NoWork]
  /\ lease = "free" /\ mounted \in BOOLEAN /\ clock = 0
  /\ confirm = {} /\ locks = 0 /\ keys = NoKeys

LockFails == locks < MaxLockFails /\ locks' = locks + 1
LockTaken == UNCHANGED locks

(***************************************************************************)
(* Requests                                                                *)
(***************************************************************************)

(* si_boot_key_plan_create.                                                *)
Create(c) ==
  /\ Valid(c) /\ AcceptsNewPlan(plan.state) /\ plan.id < MaxPlans
  /\ plan' = [state |-> "planned", id |-> plan.id + 1, approved |-> FALSE,
              cancel |-> FALSE, sent |-> 0, cfg |-> c]
  /\ keys' = NoKeys
  /\ UNCHANGED <<task, work, lease, mounted, clock, confirm, locks>>

(* si_boot_key_plan_approve.                                               *)
Approve ==
  /\ plan.state = "planned"
  /\ plan' = [plan EXCEPT !.state = "approved", !.approved = TRUE]
  /\ UNCHANGED <<task, work, lease, mounted, clock, confirm, locks, keys>>

(* si_boot_key_plan_start; the task may fail to be created.                *)
Start ==
  /\ plan.state = "approved" /\ plan.approved /\ ~task
  /\ \/ /\ \E w \in Workers :
             /\ work[w].pc = "none"
             /\ work' = [work EXCEPT ![w] = [NoWork EXCEPT !.pc = "first"]]
        /\ task' = TRUE /\ plan' = [plan EXCEPT !.state = "starting"]
     \/ /\ plan' = [plan EXCEPT !.state = "failed"]
        /\ UNCHANGED <<task, work>>
  /\ UNCHANGED <<lease, mounted, clock, confirm, locks, keys>>

(* si_boot_key_plan_cancel: a worker is asked to stop.                     *)
Cancel ==
  /\ plan.state \in WorkerStates \cup OpenStates
  /\ IF plan.state \in WorkerStates
     THEN plan' = [plan EXCEPT !.cancel = TRUE] /\ UNCHANGED task
     ELSE /\ plan' = [plan EXCEPT !.state = "cancelled", !.approved = FALSE]
          /\ task' = FALSE
  /\ UNCHANGED <<work, lease, mounted, clock, confirm, locks, keys>>

(* si_boot_key_cancel_for_manual_hid.                                      *)
CancelForManualHid ==
  /\ plan.state \in WorkerStates \cup {"planned", "approved"}
  /\ plan' = [plan EXCEPT !.cancel = TRUE,
                !.state = IF @ \in WorkerStates THEN @ ELSE "cancelled"]
  /\ task' = (task /\ plan.state \in WorkerStates)
  /\ UNCHANGED <<work, lease, mounted, clock, confirm, locks, keys>>

(* si_boot_key_http_handler reads the KVM view for a confirmation before   *)
(* the manager takes its lock.                                             *)
ConfirmRequest ==
  /\ lease = "human" /\ plan.id > 0
  /\ confirm' = confirm \cup {plan.id}
  /\ UNCHANGED <<plan, task, work, lease, mounted, clock, locks, keys>>

(* si_boot_key_plan_confirm.                                               *)
Confirm(id) ==
  /\ id \in confirm /\ confirm' = confirm \ {id}
  /\ plan' = IF plan.id = id /\ plan.state = "awaiting_verification"
             THEN [plan EXCEPT !.state = "verified"] ELSE plan
  /\ UNCHANGED <<task, work, lease, mounted, clock, locks, keys>>

(***************************************************************************)
(* The host's side                                                         *)
(***************************************************************************)

(* A person's KVM input takes the lease from whoever has it.               *)
HumanTakes ==
  /\ lease # "human" /\ lease' = "human"
  /\ UNCHANGED <<plan, task, work, mounted, clock, confirm, locks, keys>>
HumanLeaves ==
  /\ lease = "human" /\ lease' = "free"
  /\ UNCHANGED <<plan, task, work, mounted, clock, confirm, locks, keys>>
Mount ==
  /\ mounted' = ~mounted
  /\ UNCHANGED <<plan, task, work, lease, clock, confirm, locks, keys>>
Tick ==
  /\ clock < MaxTimeout
  /\ \E w \in Workers : work[w].pc \in {"snap", "decide", "send", "record"}
  /\ clock' = clock + 1
  /\ UNCHANGED <<plan, task, work, lease, mounted, confirm, locks, keys>>

(***************************************************************************)
(* The worker                                                              *)
(***************************************************************************)
Set(w, new) == work' = [work EXCEPT ![w] = new]
Goto(w, pc) == Set(w, [work[w] EXCEPT !.pc = pc])
End(w, result) ==
  Set(w, [NoWork EXCEPT !.pc = "finish", !.id = work[w].id, !.result = result])

(* task_snapshot, also of the plan's name; pc is where the task goes on.   *)
Copied(w, pc) ==
  [work[w] EXCEPT !.pc = pc, !.id = plan.id, !.cfg = plan.cfg,
                  !.sent = plan.sent, !.cancel = plan.cancel]
CopiedOrCancelled(w, pc) ==
  IF plan.cancel
  THEN [NoWork EXCEPT !.pc = "finish", !.id = plan.id, !.result = "cancelled"]
  ELSE Copied(w, pc)

(* The head of boot_key_task.                                              *)
First(w) ==
  /\ work[w].pc = "first"
  /\ \/ LockTaken /\ Set(w, CopiedOrCancelled(w, "touch"))
     \/ LockFails /\ End(w, "failed")
  /\ UNCHANGED <<plan, task, lease, mounted, clock, confirm, keys>>

(* The first si_control_lease_touch_boot_sequence_owned: a lease that      *)
(* somebody holds, an earlier worker too, is denied.                       *)
TakeLease(w) ==
  /\ work[w].pc = "touch"
  /\ IF lease = "free"
     THEN lease' = w /\ Goto(w, IF work[w].cfg.reset THEN "reset" ELSE "begin")
     ELSE End(w, "preempted") /\ UNCHANGED lease
  /\ UNCHANGED <<plan, task, mounted, clock, confirm, locks, keys>>

(* The reset trigger: one more look at the cancellation, then the pulse,   *)
(* which may fail.                                                         *)
Reset(w) ==
  /\ work[w].pc = "reset"
  /\ \/ LockTaken /\ Set(w, CopiedOrCancelled(w, "begin"))
     \/ LockTaken /\ ~plan.cancel /\ End(w, "failed")
     \/ LockFails /\ End(w, "failed")
  /\ UNCHANGED <<plan, task, lease, mounted, clock, confirm, keys>>

(* What the worker stores, if it gets the lock and the plan is still its.  *)
Store(w, new) ==
  \/ LockTaken /\ plan' = IF plan.id = work[w].id THEN new ELSE plan
  \/ LockFails /\ UNCHANGED plan

Begin(w) ==
  /\ work[w].pc = "begin" /\ Goto(w, "snap")
  /\ clock' = 0
  /\ Store(w, [plan EXCEPT !.state = "waiting_start"])
  /\ UNCHANGED <<task, lease, mounted, confirm, keys>>

Snap(w) ==
  /\ work[w].pc = "snap"
  /\ \/ LockTaken /\ Set(w, Copied(w, "decide"))
     \/ LockFails /\ End(w, "failed")
  /\ UNCHANGED <<plan, task, lease, mounted, clock, confirm, keys>>

(* si_boot_key_sequence_decide.                                            *)
Decide(c, elapsed, sent, cancel, held, ready) ==
  IF ~Valid(c) \/ cancel THEN "cancel"
  ELSE IF ~held THEN "preempt"
  ELSE IF sent >= c.max THEN "complete"
  ELSE IF elapsed >= c.timeout THEN "timeout"
  ELSE IF ~ready THEN "wait_hid"
  ELSE IF elapsed >= c.delay + sent * c.interval THEN "send" ELSE "wait"

(* The loop renews the lease, decides, and for a wait records the state.   *)
(* Only a person takes a lease that is renewed every 50 ms, and that sets  *)
(* s_embedded_preempted, so touch_embedded_owned does not take it again.   *)
Loop(w) ==
  LET d == Decide(work[w].cfg, clock, work[w].sent, work[w].cancel,
                  lease = w, mounted)
  IN /\ work[w].pc = "decide"
     /\ \/ /\ d \in {"wait", "wait_hid"}
           /\ Store(w, [plan EXCEPT !.state =
                IF d = "wait" THEN "waiting_start" ELSE "waiting_hid"])
           /\ Goto(w, "snap")
        \/ d = "send" /\ Goto(w, "send") /\ LockTaken /\ UNCHANGED plan
        \/ /\ d \in {"complete", "cancel", "preempt", "timeout"}
           /\ End(w, CASE d = "complete" -> "awaiting_verification"
                       [] d = "cancel" -> "cancelled"
                       [] d = "preempt" -> "preempted"
                       [] d = "timeout" -> "timed_out")
           /\ LockTaken /\ UNCHANGED plan
     /\ UNCHANGED <<task, lease, mounted, clock, confirm, keys>>

(* si_hid_execute_owned: refused to a token that lost the device.          *)
Send(w) ==
  /\ work[w].pc = "send"
  /\ IF lease = w /\ mounted
     THEN /\ Set(w, [work[w] EXCEPT !.pc = "record", !.sent = @ + 1])
          /\ keys' = [keys EXCEPT !.sent = @ + 1,
                        !.late = IF plan.cancel THEN @ + 1 ELSE @]
     ELSE End(w, "failed") /\ UNCHANGED keys
  /\ UNCHANGED <<plan, task, lease, mounted, clock, confirm, locks>>

(* The count goes back to the plan; the next snapshot reads it from there. *)
Record(w) ==
  /\ work[w].pc = "record" /\ Goto(w, "snap")
  /\ Store(w, [plan EXCEPT !.state = "running", !.sent = work[w].sent])
  /\ keys' = [keys EXCEPT !.lost = IF locks' > locks THEN @ + 1 ELSE @]
  /\ UNCHANGED <<task, lease, mounted, clock, confirm>>

(* task_finish, first half: finish_locked if the lock is there and the     *)
(* plan is the one the worker knows.                                       *)
Finish(w) ==
  /\ work[w].pc = "finish" /\ Set(w, [NoWork EXCEPT !.pc = "release"])
  /\ \/ /\ LockTaken
        /\ IF plan.id = work[w].id /\ plan.id # 0
           THEN plan' = [plan EXCEPT !.state = work[w].result] /\ task' = FALSE
           ELSE UNCHANGED <<plan, task>>
     \/ LockFails /\ UNCHANGED <<plan, task>>
  /\ UNCHANGED <<lease, mounted, clock, confirm, keys>>

(* Second half: keys up, lease back; only the exact token releases.        *)
Release(w) ==
  /\ work[w].pc = "release" /\ Set(w, NoWork)
  /\ lease' = IF lease = w THEN "free" ELSE lease
  /\ UNCHANGED <<plan, task, mounted, clock, confirm, locks, keys>>

Worker(w) ==
  \/ First(w) \/ TakeLease(w) \/ Reset(w) \/ Begin(w) \/ Snap(w) \/ Loop(w)
  \/ Send(w) \/ Record(w) \/ Finish(w) \/ Release(w)
Request ==
  \/ \E c \in Configs : Create(c)
  \/ Approve \/ Start \/ Cancel \/ CancelForManualHid \/ ConfirmRequest
  \/ \E id \in confirm : Confirm(id)
HostNext == HumanTakes \/ HumanLeaves \/ Mount \/ Tick

BootNext == Request \/ HostNext \/ \E w \in Workers : Worker(w)
BootSpec == BootInit /\ [][BootNext]_vars

(* Tasks run and time passes.                                              *)
BootFair ==
  BootSpec /\ WF_vars(Tick) /\ \A w \in Workers : WF_vars(Worker(w))

(***************************************************************************)
(* Properties                                                              *)
(***************************************************************************)

(* The plan, its worker and the lease have their types.                    *)
BootTypeOK ==
  /\ plan.state \in WorkerStates \cup OpenStates \cup FinalStates \cup {"empty"}
  /\ plan.sent \in 0 .. MaxKeys /\ clock \in 0 .. MaxTimeout
  /\ lease \in Workers \cup {"human", "free"}
  /\ plan.state = "starting" => task

(* A key goes out only for a plan that a person approved and that is under *)
(* way, by the one worker that serves it, also when the next plan starts   *)
(* before the last worker is gone.                                         *)
KeysNeedApproval ==
  keys'.sent > keys.sent =>
    /\ plan.approved /\ plan.state \in WorkerStates
    /\ Cardinality({w \in Workers : work[w].pc = "send"}) = 1

(* A cancellation, by request or by manual input, lets at most the one key *)
(* go out that was already decided.                                        *)
CancelStopsKeys == keys.late <= 1

(* A plan sends its keys at most max_attempts times, plus one for every    *)
(* record of a sent key that was lost to a busy lock: the count is read    *)
(* back from the plan.                                                     *)
KeysAreBounded == keys.sent <= plan.cfg.max + keys.lost

(* Only a plan that sent all its keys waits for, or has, a verification.   *)
VerifiedSentAll ==
  plan.state \in {"awaiting_verification", "verified"}
    => keys.sent >= plan.cfg.max

(* Every exit of a worker gives the lease back: nobody who is gone has it. *)
LeaseHasWorker == \A w \in Workers : lease = w => work[w].pc # "none"

(* A plan has its worker.  One that was started ends, whatever is        *)
(* cancelled, taken over or unmounted in the meantime (MCProgress).      *)
PlanRuns == plan.state \in WorkerStates

(* A worker whose first copy of the plan, or whose last word on it, met a  *)
(* busy lock is gone, and its plan stays under way for ever.               *)
PlanIsOrphaned == locks > 0 /\ \A w \in Workers : work[w].pc = "none"
=============================================================================
