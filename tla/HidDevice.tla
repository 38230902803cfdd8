------------------------------ MODULE HidDevice ------------------------------
(***************************************************************************)
(* The HID manager (main/drivers/hid_device.c): the only path from the     *)
(* device to the keyboard, mouse and absolute pointer of the target host.  *)
(* Two locks carry it.  The authority gate protects who owns the reports;  *)
(* the command lock protects the report state while one command, possibly  *)
(* a delayed composite, is being sent.  A revoker holds the gate, advances *)
(* the abort fence and then waits for the running command, which polls the *)
(* fence, to let go of the command lock.                                   *)
(*                                                                         *)
(* One step is the code between two points where another task, or the USB  *)
(* callback, can be observed.  Counters, error texts, coordinates and the  *)
(* remote wake-up signal are left out.                                     *)
(***************************************************************************)
EXTENDS HidOwner, Sequences, FiniteSets

CONSTANTS
  Tasks,        \* FreeRTOS tasks that call the HID manager
  Claims,       \* claims the authority callbacks may ask for
  Endpoints,    \* HID interfaces (keyboard, mouse, absolute pointer)
  Keyboard,     \* the interface that combos use
  Keys,         \* keys and buttons
  KeySlots,     \* length of s_keys
  Commands,     \* commands the producers submit
  ProducerSlots,\* HID_EMBEDDED_PRODUCER_SLOTS
  FenceMod,     \* 2^32 in the code: the fence counts 1..FenceMod-1 and wraps
  MaxGen,       \* bound: no transition starts that could mint a higher one
  RacyUsb,      \* TRUE: the host may re-enumerate while a command is running
  None          \* no task

CommandTypes == {"down", "up", "move", "click", "moveclick", "combo",
                 "release_all", "unsupported"}

ASSUME HidAssumption ==
  /\ None \notin Tasks
  /\ Keyboard \in Endpoints
  /\ Commands \subseteq [type: CommandTypes, ep: Endpoints, key: Keys]
  /\ FenceMod \in Nat /\ FenceMod > 2
  /\ MaxGen \in Nat /\ ProducerSlots \in Nat /\ KeySlots \in Nat
  /\ RacyUsb \in BOOLEAN

VARIABLES
  \* guarded by the authority gate
  gate,           \* holder of s_authority_gate
  current,        \* s_owner_state.current
  nextGen,        \* s_owner_state.next_generation
  fence,          \* s_abort_fence, read without a lock
  bound,          \* s_embedded_producers, by task
  \* guarded by the command lock
  cmdLock,        \* holder of s_command_lock
  reportOwner,    \* s_owner_state.report_owner
  dirty,          \* s_owner_state.dirty_reports
  neutralPending, \* s_owner_state.neutral_pending
  pressed,        \* s_modifiers, s_keys, s_mouse_buttons, s_abs_buttons
  cmdActive,      \* s_command_active
  cmdAborted,     \* s_command_was_aborted
  sendOk,         \* s_command_send_ok
  \* written by the TinyUSB callback
  mounted,        \* s_mounted
  resetPending,   \* s_mount_reset_pending
  owed,           \* the callback has stored s_mounted and not yet the reset
  host,           \* external: the keys and buttons the host holds down
  \* per task
  pc,
  known,          \* the token the task last received from the manager
  \* arguments and locals of the call a task is in
  tok,            \* owner
  adm,            \* admission_generation
  cmd, ip,        \* the command and the next step of its body
  saved,          \* prev_mod, prev_keys in send_combo
  prev,           \* previous, in owner_transition_locked
  req,            \* the claim to install, NoClaim to leave no owner
  neut,           \* neutral, in owner_transition_locked
  ret             \* where the transition returns: the caller or a guard

authVars   == <<current, nextGen, fence, bound>>
ownerVars  == <<reportOwner, dirty, neutralPending>>
flagVars   == <<cmdActive, cmdAborted, sendOk>>
reportVars == <<ownerVars, pressed, host, flagVars>>
usbVars    == <<mounted, resetPending, owed>>
execVars   == <<tok, adm, cmd, ip, saved>>
transVars  == <<prev, req, neut, ret>>
vars == <<gate, authVars, cmdLock, reportVars, usbVars, pc, known, execVars,
          transVars>>

Neutral == [e \in Endpoints |-> {}]
NoCommand == [type |-> "none"]

Init ==
  /\ gate = None /\ current = NoToken /\ nextGen = 0 /\ fence = 1
  /\ bound = [t \in Tasks |-> NoToken]
  /\ cmdLock = None /\ reportOwner = NoToken /\ dirty = {}
  /\ neutralPending = FALSE /\ pressed = Neutral
  /\ cmdActive = FALSE /\ cmdAborted = FALSE /\ sendOk = FALSE
  /\ mounted = FALSE /\ resetPending = TRUE /\ owed = FALSE /\ host = Neutral
  /\ pc = [t \in Tasks |-> "idle"]
  /\ known = [t \in Tasks |-> NoToken]
  /\ tok = [t \in Tasks |-> NoToken] /\ adm = [t \in Tasks |-> 0]
  /\ cmd = [t \in Tasks |-> NoCommand] /\ ip = [t \in Tasks |-> 1]
  /\ saved = [t \in Tasks |-> {}]
  /\ prev = [t \in Tasks |-> NoToken] /\ req = [t \in Tasks |-> NoClaim]
  /\ neut = [t \in Tasks |-> FALSE] /\ ret = [t \in Tasks |-> "idle"]

\* Mutant: the owner is compared by claim, not by generation.
SameClaim(token) == current.gen # 0 /\ current.claim = token.claim

IsCurrent(token) == TokenEqual(current, token)

GoTo(t, label) == pc' = [pc EXCEPT ![t] = label]

\* The locals of owner_transition_locked and of si_hid_execute_owned are gone
\* when the function returns.
DropTransition(t) ==
  /\ prev' = [prev EXCEPT ![t] = NoToken]
  /\ req' = [req EXCEPT ![t] = NoClaim]
  /\ neut' = [neut EXCEPT ![t] = FALSE]
  /\ ret' = [ret EXCEPT ![t] = "idle"]

DropExecution(t) ==
  /\ tok' = [tok EXCEPT ![t] = NoToken]
  /\ adm' = [adm EXCEPT ![t] = 0]
  /\ cmd' = [cmd EXCEPT ![t] = NoCommand]
  /\ ip' = [ip EXCEPT ![t] = 1]
  /\ saved' = [saved EXCEPT ![t] = {}]

Done(t) == GoTo(t, "idle") /\ DropTransition(t) /\ DropExecution(t)

-----------------------------------------------------------------------------
(***************************************************************************)
(* Neutral reports.  "sent" is the set of endpoints whose neutral report   *)
(* the stack accepted; only the dirty ones are tried.                      *)
(***************************************************************************)

\* release_all_locked.  note_report clears a dirty bit only while the reports
\* have an owner.
ReleaseAllLocked(sent) ==
  /\ sent \subseteq dirty
  /\ mounted \/ sent = {}
  /\ pressed' = Neutral
  /\ host' = [e \in Endpoints |-> IF e \in sent THEN {} ELSE host[e]]
  /\ dirty' = IF reportOwner.gen # 0 THEN dirty \ sent ELSE dirty

\* si_hid_owner_state_host_reset with reset_report_state_locked.
HostReset ==
  /\ reportOwner' = NoToken /\ dirty' = {} /\ neutralPending' = FALSE
  /\ pressed' = Neutral
  /\ UNCHANGED host

\* drain_neutral_pending_locked; its result is the negation of
\* neutralPending'.  The three flags of the command are not read again before
\* the next command sets them.
DrainNeutral(sent) ==
  /\ resetPending' = FALSE
  /\ IF resetPending \/ ~mounted
       THEN sent = {} /\ HostReset
       ELSE /\ ReleaseAllLocked(sent)
            /\ neutralPending' = (sent # dirty \/ dirty' # {})
            /\ reportOwner' = IF neutralPending' THEN reportOwner ELSE NoToken

-----------------------------------------------------------------------------
(***************************************************************************)
(* Ownership: owner_transition_locked and the entry points that reach it.  *)
(***************************************************************************)

\* A transition mints a generation on revoking and another on installing.
GenerationsLeft == nextGen + 2 <= MaxGen

\* Mutants: the wrap-around is not handled; the fence is not advanced.
FenceWithoutWrap == fence' = fence + 1
FenceNotAdvanced == fence' = fence

\* si_hid_abort_fence_advance: 0 is skipped on wrap-around.
AdvanceFence == fence' = IF fence + 1 = FenceMod THEN 1 ELSE fence + 1

\* Mutant: the producers of the revoked owner stay bound.
KeepBindings == bound' = bound

\* The producers bound to the owner that is being revoked.
ClearBindings ==
  bound' = [u \in Tasks |->
              IF TokenEqual(bound[u], current) THEN NoToken ELSE bound[u]]

\* The first half of owner_transition_locked: revoke, unbind, fence.
StartTransition(t, claim, back) ==
  /\ GenerationsLeft
  /\ current' = NoToken
  /\ nextGen' = IF current.gen # 0 THEN nextGen + 1 ELSE nextGen
  /\ ClearBindings
  /\ AdvanceFence
  /\ gate' = t
  /\ prev' = [prev EXCEPT ![t] = current]
  /\ req' = [req EXCEPT ![t] = claim]
  /\ ret' = [ret EXCEPT ![t] = back]
  /\ GoTo(t, "t_lock")
  /\ UNCHANGED <<cmdLock, reportVars, usbVars, known, execVars, neut>>

\* si_hid_authority_transition: take the gate, then call the domain callback.
EnterGate(t) ==
  /\ pc[t] = "idle" /\ gate = None
  /\ gate' = t
  /\ GoTo(t, "t_callback")
  /\ UNCHANGED <<authVars, cmdLock, reportVars, usbVars, known, execVars,
                 transVars>>


LeaveGate(t) ==
  /\ gate' = None
  /\ Done(t)
  /\ UNCHANGED <<authVars, cmdLock, reportVars, usbVars>>

\* The callback refuses, or asks for a claim that is not valid.
CallbackRejects(t) ==
  /\ pc[t] = "t_callback"
  /\ LeaveGate(t) /\ UNCHANGED known

\* The callback asks for the claim that already owns the reports.
KeepOwner(t) ==
  /\ pc[t] = "t_callback"
  /\ current.gen # 0 /\ ClaimValid(current.claim)
  /\ known' = [known EXCEPT ![t] = current]
  /\ LeaveGate(t)

\* The callback asks for another owner, for the same one anew (replace), or
\* for none.
CallbackDecides(t) ==
  /\ pc[t] = "t_callback"
  /\ \/ StartTransition(t, NoClaim, "idle")
     \/ \E c \in Claims : ClaimValid(c) /\ StartTransition(t, c, "idle")

\* si_hid_owner_release_if_current with a token the task received earlier.
ReleaseIfCurrent(t) ==
  /\ pc[t] = "idle" /\ gate = None
  /\ IsCurrent(known[t])
  /\ StartTransition(t, NoClaim, "idle")

\* si_hid_owner_revoke_session: only authenticated sessions match.
RevokedBySession == current.gen # 0 /\ current.claim.auth # 0

RevokeSession(t) ==
  /\ pc[t] = "idle" /\ gate = None
  /\ RevokedBySession
  /\ StartTransition(t, NoClaim, "idle")

\* A live-auth lookup inside a guard or a callback expires a session and
\* revokes it on the same task: the gate is recursive.
RevokeInGuard(t) ==
  /\ pc[t] \in {"x_guard", "t_callback"}
  /\ RevokedBySession
  /\ StartTransition(t, NoClaim, pc[t])

\* Mutant: the reports of the owner that is being revoked are not looked at.
OwesIfPending(t) == neutralPending

\* previous_owned_reports || neutral_pending.
OwesNeutral(t) == TokenEqual(reportOwner, prev[t]) \/ neutralPending

\* The second half: with the command lock, apply a pending mount reset, else
\* neutralise what the previous owner or a failed drain left behind.
Neutralise(t) ==
  /\ pc[t] = "t_lock" /\ cmdLock = None
  /\ IF ~resetPending /\ OwesNeutral(t)
       THEN \E sent \in SUBSET dirty : DrainNeutral(sent)
       ELSE /\ resetPending' = FALSE
            /\ IF resetPending THEN HostReset
                 ELSE UNCHANGED <<ownerVars, pressed, host>>
  /\ neut' = [neut EXCEPT ![t] = ~neutralPending']
  /\ GoTo(t, "t_install")
  /\ UNCHANGED <<gate, authVars, cmdLock, flagVars, mounted, owed, known,
                 execVars, prev, req, ret>>

\* Back to the caller: a transition made inside a guard keeps the gate.
Return(t) ==
  /\ GoTo(t, ret[t])
  /\ gate' = IF ret[t] = "idle" THEN None ELSE gate
  /\ DropTransition(t)
  /\ UNCHANGED <<fence, bound, cmdLock, reportVars, usbVars, execVars>>

\* The reports could not be neutralised: nobody owns them.
InstallRefused(t) ==
  /\ pc[t] = "t_install" /\ ~neut[t] /\ mounted
  /\ Return(t) /\ UNCHANGED <<current, nextGen, known>>

Install(t) ==
  /\ pc[t] = "t_install" /\ (neut[t] \/ ~mounted)
  /\ IF req[t] # NoClaim
       THEN /\ nextGen' = nextGen + 1
            /\ current' = Token(req[t], nextGen')
            /\ known' = [known EXCEPT ![t] = current']
       ELSE UNCHANGED <<current, nextGen, known>>
  /\ Return(t)

\* si_hid_owner_get_current, si_hid_get_bound_embedded_owner.
GetOwner(t) ==
  /\ pc[t] = "idle" /\ gate = None
  /\ \E token \in {current, bound[t]} \ {NoToken} :
       known' = [known EXCEPT ![t] = token]
  /\ UNCHANGED <<gate, authVars, cmdLock, reportVars, usbVars, pc, execVars,
                 transVars>>

BoundTasks == {u \in Tasks : bound[u] # NoToken}

\* si_hid_bind_embedded_producer.
BindEmbeddedProducer(t) ==
  /\ pc[t] = "idle" /\ gate = None
  /\ IsEmbedded(known[t].claim) /\ IsCurrent(known[t])
  /\ t \in BoundTasks \/ Cardinality(BoundTasks) < ProducerSlots
  /\ bound' = [bound EXCEPT ![t] = known[t]]
  /\ UNCHANGED <<gate, current, nextGen, fence, cmdLock, reportVars, usbVars,
                 pc, known, execVars,
                 transVars>>

-----------------------------------------------------------------------------
(***************************************************************************)
(* Commands: si_hid_execute_owned.                                         *)
(***************************************************************************)

\* The reports of a command and the points where it looks at the fence.
Programs ==
  [down        |-> <<"press">>,
   up          |-> <<"lift">>,
   move        |-> <<"keep">>,
   click       |-> <<"press", "check", "check", "lift">>,
   moveclick   |-> <<"keep", "press", "check", "check", "lift">>,
   combo       |-> <<"chord", "check", "check", "clear", "check", "restore">>,
   release_all |-> <<"release_all">>,
   unsupported |-> <<>>,
   none        |-> <<>>]

Program(c) == Programs[c.type]

\* A caller submits a command with the token it holds.
Execute(t) ==
  /\ pc[t] = "idle" /\ mounted
  /\ \E c \in Commands : cmd' = [cmd EXCEPT ![t] = c]
  /\ tok' = [tok EXCEPT ![t] = known[t]]
  /\ GoTo(t, "x_gate")
  /\ UNCHANGED <<gate, authVars, cmdLock, reportVars, usbVars, known, adm, ip,
                 saved, transVars>>

\* 500 ms for the gate.
GateBusy(t) ==
  /\ pc[t] = "x_gate" /\ gate # None
  /\ Done(t)
  /\ UNCHANGED <<gate, authVars, cmdLock, reportVars, usbVars, known>>

\* Under the gate: is the owner current; snapshot the fence before the guard.
CheckOwner(t) ==
  /\ pc[t] = "x_gate" /\ gate = None
  /\ IF IsCurrent(tok[t])
       THEN /\ gate' = t
            /\ adm' = [adm EXCEPT ![t] = fence]
            /\ GoTo(t, "x_guard")
            /\ UNCHANGED <<tok, cmd, ip, saved, transVars>>
       ELSE Done(t) /\ UNCHANGED gate
  /\ UNCHANGED <<authVars, cmdLock, reportVars, usbVars, known>>

GuardDenies(t) ==
  /\ pc[t] = "x_guard"
  /\ LeaveGate(t) /\ UNCHANGED known

GuardAllows(t) ==
  /\ pc[t] = "x_guard"
  /\ GoTo(t, "x_lock")
  /\ UNCHANGED <<gate, authVars, cmdLock, reportVars, usbVars, known, execVars,
                 transVars>>

\* 500 ms for the command lock, or the fence moved while the guard ran.
CommandRefused(t) ==
  /\ pc[t] = "x_lock"
  /\ cmdLock # None \/ adm[t] # fence
  /\ LeaveGate(t) /\ UNCHANGED known

TakeCommandLock(t) ==
  /\ pc[t] = "x_lock" /\ cmdLock = None /\ adm[t] = fence
  /\ cmdLock' = t
  /\ GoTo(t, "x_drain")
  /\ UNCHANGED <<gate, authVars, reportVars, usbVars, known, execVars,
                 transVars>>

\* Neutral reports that are still owed come before the command.
DrainFirst(t) ==
  /\ pc[t] = "x_drain"
  /\ IF resetPending \/ neutralPending
       THEN \E sent \in SUBSET dirty : DrainNeutral(sent)
       ELSE UNCHANGED <<ownerVars, pressed, host, resetPending>>
  /\ IF neutralPending'
       THEN cmdLock' = None /\ gate' = None /\ Done(t)
       ELSE /\ GoTo(t, "x_begin")
            /\ UNCHANGED <<cmdLock, gate, execVars, transVars>>
  /\ UNCHANGED <<authVars, flagVars, mounted, owed, known>>

\* si_hid_owner_state_begin_report; the gate is released once the command is
\* admitted.
BeginReport(t) ==
  /\ pc[t] = "x_begin"
  /\ gate' = None
  /\ IF IsCurrent(tok[t]) /\ ~neutralPending
       THEN /\ reportOwner' = tok[t]
            /\ cmdActive' = TRUE /\ cmdAborted' = FALSE /\ sendOk' = TRUE
            /\ GoTo(t, "run")
            /\ UNCHANGED <<cmdLock, execVars, transVars>>
       ELSE /\ cmdLock' = None /\ Done(t)
            /\ UNCHANGED <<reportOwner, flagVars>>
  /\ UNCHANGED <<authVars, dirty, neutralPending, pressed, host, usbVars,
                 known>>

\* active_command_aborted.
Aborted(t) == cmdActive /\ adm[t] # fence

Body(t) == Program(cmd[t])

Running(t, ops) ==
  /\ pc[t] = "run"
  /\ ip[t] <= Len(Body(t))
  /\ Body(t)[ip[t]] \in ops

\* What a step of a command does to the report of its endpoint.  A seventh
\* key is dropped; modifiers and buttons are bits.
Edit(op, c, before) ==
  LET held == pressed[c.ep]
  IN CASE op = "press"   -> IF c.ep = Keyboard /\ Cardinality(held) >= KeySlots
                              THEN held ELSE held \cup {c.key}
       [] op = "lift"    -> held \ {c.key}
       [] op = "chord"   -> {c.key}
       [] op = "clear"   -> {}
       [] op = "restore" -> before
       [] op = "keep"    -> held

Reports == {"press", "lift", "keep", "chord", "clear", "restore"}

\* The local report changes before anything is sent.
EditReport(t) ==
  LET c  == cmd[t]
      op == Body(t)[ip[t]]
  IN /\ pressed' = [pressed EXCEPT ![c.ep] = Edit(op, c, saved[t])]
     /\ saved' = [saved EXCEPT ![t] = IF op = "chord" THEN pressed[c.ep] ELSE @]

\* Wait for the endpoint, look at the fence for the last time.
PrepareReport(t) ==
  /\ Running(t, Reports)
  /\ mounted /\ ~Aborted(t)
  /\ EditReport(t)
  /\ GoTo(t, "emit")
  /\ UNCHANGED <<gate, authVars, cmdLock, ownerVars, host, flagVars, usbVars,
                 known, tok, adm, cmd, ip, transVars>>

\* The endpoint never became ready, or the host or the authority is gone: the
\* report is not sent, the local change stays.
ReportNotSent(t) ==
  /\ Running(t, Reports)
  /\ EditReport(t)
  /\ sendOk' = FALSE
  /\ ip' = [ip EXCEPT ![t] = @ + 1]
  /\ UNCHANGED <<gate, authVars, cmdLock, ownerVars, host, cmdActive,
                 cmdAborted, usbVars, pc, known, tok, adm, cmd, transVars>>

\* tud_hid_n_report and, if the stack took it, note_report.
EmitReport(t) ==
  /\ pc[t] = "emit"
  /\ \/ LET e == cmd[t].ep
        IN /\ mounted
           /\ host' = [host EXCEPT ![e] = pressed[e]]
           /\ dirty' = IF reportOwner.gen = 0 THEN dirty
                       ELSE IF pressed[e] = {} THEN dirty \ {e}
                       ELSE dirty \cup {e}
           /\ UNCHANGED sendOk
     \/ sendOk' = FALSE /\ UNCHANGED <<host, dirty>>
  /\ GoTo(t, "run")
  /\ ip' = [ip EXCEPT ![t] = @ + 1]
  /\ UNCHANGED <<gate, authVars, cmdLock, reportOwner, neutralPending, pressed,
                 cmdActive, cmdAborted, usbVars, known, tok, adm, cmd, saved,
                 transVars>>

\* neutralize_aborted_command_locked, for a command found to be aborted.
NeutraliseAborted(sent) ==
  /\ cmdAborted' = TRUE /\ cmdActive' = FALSE
  /\ ReleaseAllLocked(sent)
  /\ sendOk' = (sent = dirty)

\* The fence is polled around the delay of a composite command; an aborted
\* one skips the rest of its body.
CheckFence(t) ==
  /\ Running(t, {"check"})
  /\ IF Aborted(t)
       THEN /\ \E sent \in SUBSET dirty : NeutraliseAborted(sent)
            /\ ip' = [ip EXCEPT ![t] = Len(Body(t)) + 1]
       ELSE /\ ip' = [ip EXCEPT ![t] = @ + 1]
            /\ UNCHANGED <<flagVars, pressed, host, dirty>>
  /\ UNCHANGED <<gate, authVars, cmdLock, reportOwner, neutralPending,
                 usbVars, pc, known, tok, adm, cmd, saved, transVars>>

\* The RELEASE_ALL command; an aborted one sends nothing.
ReleaseAllCommand(t) ==
  /\ Running(t, {"release_all"})
  /\ \E sent \in SUBSET dirty :
       /\ Aborted(t) => sent = {}
       /\ ReleaseAllLocked(sent)
       /\ sendOk' = (sendOk /\ sent = dirty)
  /\ IF sendOk'
       THEN /\ reportOwner' = IF TokenEqual(reportOwner, tok[t])
                              THEN NoToken ELSE reportOwner
            /\ UNCHANGED neutralPending
       ELSE neutralPending' = TRUE /\ UNCHANGED reportOwner
  /\ ip' = [ip EXCEPT ![t] = @ + 1]
  /\ UNCHANGED <<gate, authVars, cmdLock, cmdActive, cmdAborted, usbVars, pc,
                 known, tok, adm, cmd, saved, transVars>>

Finished(t) == pc[t] = "run" /\ ip[t] > Len(Body(t))

\* The flags of the command are dead until the next one.
EndCommand(t) ==
  /\ cmdLock' = None
  /\ Done(t)
  /\ cmdActive' = FALSE /\ cmdAborted' = FALSE /\ sendOk' = FALSE
  /\ UNCHANGED <<gate, authVars, mounted, owed, known>>

FinishAborted(t) ==
  /\ Finished(t) /\ (cmdAborted \/ Aborted(t))
  /\ IF cmdAborted
       THEN UNCHANGED <<pressed, host, dirty>>
       ELSE \E sent \in SUBSET dirty : ReleaseAllLocked(sent)
  /\ EndCommand(t)
  /\ UNCHANGED <<reportOwner, neutralPending, resetPending>>

\* Mutant: success clears the report owner although a key is held down.
OwnerClearedAlways(t) == NoToken

\* si_hid_owner_state_clear_report after a command that succeeded.
OwnerAfterSuccess(t) ==
  IF /\ cmd[t].type # "unsupported" /\ dirty = {}
     /\ TokenEqual(reportOwner, tok[t])
  THEN NoToken ELSE reportOwner

\* Sent in full, or (an unsupported command) not at all.
FinishOk(t) ==
  /\ Finished(t) /\ ~cmdAborted /\ ~Aborted(t) /\ sendOk
  /\ reportOwner' = OwnerAfterSuccess(t)
  /\ EndCommand(t)
  /\ UNCHANGED <<pressed, host, dirty, neutralPending, resetPending>>

\* A report was refused: neutralise now what the host may still hold.
FinishFailed(t) ==
  /\ Finished(t) /\ ~cmdAborted /\ ~Aborted(t) /\ ~sendOk
  /\ IF dirty # {}
       THEN \E sent \in SUBSET dirty : DrainNeutral(sent)
       ELSE /\ neutralPending' = FALSE
            /\ UNCHANGED <<reportOwner, dirty, pressed, host, resetPending>>
  /\ EndCommand(t)

-----------------------------------------------------------------------------
(***************************************************************************)
(* hid_event_cb: two stores, first s_mounted and then the pending reset.   *)
(* A host that loses the device forgets every key.  Unless RacyUsb, the    *)
(* host takes longer to enumerate the device again than a command runs,    *)
(* and the two stores of the attach event are not separated.               *)
(***************************************************************************)
Detach ==
  /\ mounted /\ ~owed
  /\ mounted' = FALSE /\ owed' = TRUE
  /\ host' = Neutral
  /\ UNCHANGED <<gate, authVars, cmdLock, ownerVars, pressed, flagVars,
                 resetPending, pc, known, execVars,
                 transVars>>

Attach ==
  /\ ~mounted /\ ~owed
  /\ mounted' = TRUE
  /\ IF RacyUsb
       THEN owed' = TRUE /\ UNCHANGED resetPending
       ELSE cmdLock = None /\ resetPending' = TRUE /\ UNCHANGED owed
  /\ UNCHANGED <<gate, authVars, cmdLock, reportVars, pc, known, execVars,
                 transVars>>

StoreReset ==
  /\ owed /\ owed' = FALSE /\ resetPending' = TRUE
  /\ UNCHANGED <<gate, authVars, cmdLock, reportVars, mounted, pc, known, execVars,
                 transVars>>

-----------------------------------------------------------------------------
Ownership(t) ==
  \/ EnterGate(t) \/ CallbackRejects(t) \/ KeepOwner(t) \/ CallbackDecides(t)
  \/ ReleaseIfCurrent(t) \/ RevokeSession(t) \/ RevokeInGuard(t)
  \/ Neutralise(t) \/ InstallRefused(t) \/ Install(t)
  \/ GetOwner(t) \/ BindEmbeddedProducer(t)

Command(t) ==
  \/ Execute(t) \/ GateBusy(t) \/ CheckOwner(t) \/ GuardDenies(t)
  \/ GuardAllows(t) \/ CommandRefused(t) \/ TakeCommandLock(t)
  \/ DrainFirst(t) \/ BeginReport(t) \/ PrepareReport(t) \/ ReportNotSent(t)
  \/ EmitReport(t) \/ CheckFence(t) \/ ReleaseAllCommand(t)
  \/ FinishAborted(t) \/ FinishOk(t) \/ FinishFailed(t)

Usb == Detach \/ Attach \/ StoreReset

Next == (\E t \in Tasks : Ownership(t) \/ Command(t)) \/ Usb

\* A task that is inside the manager keeps running; callers and the USB bus
\* owe nothing.
Inside(t) == pc[t] # "idle" /\ (Ownership(t) \/ Command(t))

Spec == Init /\ [][Next]_vars
FairSpec == Spec /\ \A t \in Tasks : WF_vars(Inside(t))

-----------------------------------------------------------------------------
Tokens == {NoToken} \cup [claim: Claims, gen: 1..MaxGen]
Requests == {NoClaim} \cup Claims
Labels == {"idle", "t_callback", "t_lock", "t_install", "x_gate", "x_guard",
           "x_lock", "x_drain", "x_begin", "run", "emit"}

\* The type of every variable.
TypeOK ==
  /\ gate \in Tasks \cup {None} /\ cmdLock \in Tasks \cup {None}
  /\ current \in Tokens /\ reportOwner \in Tokens
  /\ nextGen \in 0..MaxGen /\ fence \in 1..(FenceMod - 1)
  /\ bound \in [Tasks -> Tokens] /\ known \in [Tasks -> Tokens]
  /\ dirty \subseteq Endpoints
  /\ pressed \in [Endpoints -> SUBSET Keys]
  /\ host \in [Endpoints -> SUBSET Keys]
  /\ neutralPending \in BOOLEAN /\ cmdActive \in BOOLEAN
  /\ cmdAborted \in BOOLEAN /\ sendOk \in BOOLEAN
  /\ mounted \in BOOLEAN /\ resetPending \in BOOLEAN /\ owed \in BOOLEAN
  /\ pc \in [Tasks -> Labels]
  /\ tok \in [Tasks -> Tokens] /\ prev \in [Tasks -> Tokens]
  /\ adm \in [Tasks -> 0..(FenceMod - 1)]
  /\ cmd \in [Tasks -> Commands \cup {NoCommand}]
  /\ ip \in [Tasks -> Nat \ {0}] /\ saved \in [Tasks -> SUBSET Keys]
  /\ req \in [Tasks -> Requests] /\ neut \in [Tasks -> BOOLEAN]
  /\ ret \in [Tasks -> {"idle", "x_guard", "t_callback"}]

InCommand(t) == pc[t] \in {"run", "emit"}

\* u took the ownership away from "token" and waits for the command lock.
Revoking(u, token) ==
  gate = u /\ pc[u] = "t_lock" /\ prev[u] = token

\* A command runs with the command lock and for the current owner, unless a
\* transition has just taken the ownership away and, gate in hand, is waiting
\* for that very command: because owner_transition_locked waits for the
\* command lock, "the owner has changed" means "its command is over".
RunningCommandIsAuthorized ==
  \A t \in Tasks : InCommand(t) =>
    /\ cmdLock = t
    /\ \/ TokenEqual(current, tok[t])
       \/ \E u \in Tasks : Revoking(u, tok[t])

\* The dirty bits can always be cleared: what is dirty has an owner, and that
\* owner's transition, a pending drain or a host reset, which the callback may
\* still owe, will take care of it.
DirtyReportsAreOwned ==
  dirty # {} =>
    /\ reportOwner.gen # 0
    /\ \/ TokenEqual(current, reportOwner)
       \/ neutralPending \/ resetPending \/ owed \/ ~mounted
       \/ \E u \in Tasks : Revoking(u, reportOwner)

\* A producer token bound to a task is the current token: the cleanup of an
\* old producer cannot reach a new owner through its binding.
BoundIsCurrent == \A t \in Tasks : bound[t] # NoToken => bound[t] = current

AllUp(report) == \A e \in Endpoints : report[e] = {}

\* Whenever ownership is handed out the host holds no key and no button: no
\* owner inherits what another one pressed.
HandoffNeutral ==
  [][current' # current /\ current'.gen # 0 => AllUp(host)]_vars

\* The same for the report the device keeps: the sequence "fence, drain,
\* neutral, install" leaves nothing pressed for the next owner's first report.
NeutralBeforeInstall ==
  [][current' # current /\ current'.gen # 0 => AllUp(pressed)]_vars

\* Once its owner has been revoked a command starts no further report: the one
\* whose last look at the fence came before the revocation is the last one.
NoReportAfterRevoke ==
  [][\A t \in Tasks :
       pc[t] = "run" /\ pc'[t] = "emit" => TokenEqual(current, tok[t])]_vars

-----------------------------------------------------------------------------
\* The generation in control as the host sees it: a command that outlives the
\* revocation of its owner is still that owner's.
Holder ==
  IF \E t \in Tasks : InCommand(t)
    THEN tok[CHOOSE t \in Tasks : InCommand(t)].gen
    ELSE current.gen

Promise == INSTANCE ExclusiveInput
             WITH holder <- Holder, last <- nextGen, held <- host

\* The manager implements ExclusiveInput.
ImplementsExclusiveInput == Promise!Spec
=============================================================================
