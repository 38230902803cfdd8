--------------------------- MODULE HidDeviceProofs ---------------------------
(***************************************************************************)
(* The safety properties of HidDevice, for every number of tasks, claims,  *)
(* endpoints, keys and commands, and every fence width.  The inductive     *)
(* invariant says which label holds which lock, that an admitted command   *)
(* and its revoker meet at the command lock, and that what the host holds  *)
(* is always accounted for by a dirty bit.                                 *)
(***************************************************************************)
EXTENDS HidDevice, TLAPS

GateLabels == {"t_callback", "t_lock", "t_install", "x_guard", "x_lock",
               "x_drain", "x_begin"}
LockLabels == {"x_drain", "x_begin", "run", "emit"}

\* A label says which locks its task holds.
LocksHeld ==
  \A t \in Tasks : /\ pc[t] \in GateLabels <=> gate = t
                   /\ pc[t] \in LockLabels <=> cmdLock = t

\* During a transition nobody owns the reports, and one generation is left.
TransitionOpen ==
  \A t \in Tasks : pc[t] \in {"t_lock", "t_install"} =>
    current = NoToken /\ nextGen + 1 <= MaxGen

\* Between locking and starting, the fence cannot move.
AdmissionFresh ==
  \A t \in Tasks : pc[t] \in {"x_drain", "x_begin"} => adm[t] = fence

\* A running command: its owner is current and its admission fresh, or both
\* ended in a transition that still waits for it.
CommandOrRevoker ==
  \A t \in Tasks : InCommand(t) =>
    \/ TokenEqual(current, tok[t]) /\ adm[t] = fence
    \/ /\ adm[t] # fence /\ tok[t].gen # 0
       /\ \E u \in Tasks : Revoking(u, tok[t])

\* The body of a command that is not finished is active and owns the report.
BodyOwnsReport ==
  \A t \in Tasks : InCommand(t) =>
    /\ \/ reportOwner = tok[t]
       \/ dirty = {} /\ Finished(t)
    /\ cmdActive \/ Finished(t)
    /\ pc[t] = "emit" => ip[t] <= Len(Body(t))

\* What the host holds is marked dirty, unless it forgot everything.
HostAccounted ==
  \A e \in Endpoints : host[e] # {} => e \in dirty /\ mounted /\ ~resetPending

\* The host enumerates the device only between commands.
QuietUsb ==
  /\ mounted => ~owed
  /\ \A t \in Tasks : pc[t] \in {"x_begin", "run", "emit"} /\ mounted
                        => ~resetPending

\* After the neutral step of a transition the host holds nothing.
NeutralHost ==
  \A t \in Tasks : pc[t] = "t_install" /\ neut[t] => AllUp(host)

\* Who may send, as far as gate, fence and tokens decide it.
Authority == TransitionOpen /\ AdmissionFresh /\ CommandOrRevoker
             /\ BoundIsCurrent

\* Every part of the invariant that does not depend on the USB timing.
Inv == TypeOK /\ LocksHeld /\ Authority /\ BodyOwnsReport
       /\ DirtyReportsAreOwned

-----------------------------------------------------------------------------
\* A task with a step left in its body has a command.
LEMMA StepHasCommand ==
  ASSUME NEW c \in Commands \cup {NoCommand}, NEW i \in Nat \ {0},
         i <= Len(Program(c))
  PROVE  c \in Commands
BY HidAssumption DEF Program, Programs, NoCommand, CommandTypes

\* RELEASE_ALL is the last step of a body.
LEMMA ReleaseAllIsLast ==
  ASSUME NEW c \in Commands, NEW i \in Nat \ {0},
         i <= Len(Program(c)), Program(c)[i] = "release_all"
  PROVE  i + 1 > Len(Program(c))
<1>1. c.type \in CommandTypes
  BY HidAssumption
<1>2. CASE c.type \in {"down", "up", "move", "release_all", "unsupported"}
  <2>1. CASE c.type = "unsupported"
    BY <2>1 DEF Program, Programs
  <2>2. CASE c.type \in {"down", "up", "move", "release_all"}
    <3>1. Program(c) \in {<<"press">>, <<"lift">>, <<"keep">>,
                          <<"release_all">>}
      BY <2>2 DEF Program, Programs
    <3>2. Len(Program(c)) = 1
      BY <3>1
    <3> QED  BY <3>2
  <2> QED  BY <1>2, <2>1, <2>2
<1>3. CASE c.type = "click"
  <2>1. Len(Program(c)) = 4 /\ \A k \in 1..4 : Program(c)[k] # "release_all"
    BY <1>3 DEF Program, Programs
  <2> QED  BY <2>1
<1>4. CASE c.type = "moveclick"
  <2>1. Len(Program(c)) = 5 /\ \A k \in 1..5 : Program(c)[k] # "release_all"
    BY <1>4 DEF Program, Programs
  <2> QED  BY <2>1
<1>5. CASE c.type = "combo"
  <2>1. Len(Program(c)) = 6 /\ \A k \in 1..6 : Program(c)[k] # "release_all"
    BY <1>5 DEF Program, Programs
  <2> QED  BY <2>1
<1> QED  BY <1>1, <1>2, <1>3, <1>4, <1>5 DEF CommandTypes

\* The length of a body.
LEMMA BodyLength ==
  ASSUME NEW c \in Commands \cup {NoCommand}
  PROVE  Len(Program(c)) \in Nat
BY HidAssumption DEF Program, Programs, CommandTypes, NoCommand

-----------------------------------------------------------------------------
(***************************************************************************)
(* Types.                                                                  *)
(***************************************************************************)

\* Generation 0 is the mark of NoToken.
LEMMA TokenFacts ==
  /\ NoToken \in Tokens
  /\ \A x \in Tokens : x.gen \in 0..MaxGen /\ (x.gen = 0 <=> x = NoToken)
<1>1. NoToken \in Tokens
  BY DEF Tokens
<1>2. \A x \in Tokens : x.gen \in 0..MaxGen /\ (x.gen = 0 <=> x = NoToken)
  BY HidAssumption DEF Tokens, NoToken, NoClaim
<1> QED  BY <1>1, <1>2

\* The report of an endpoint after an edit is a set of keys.
LEMMA EditType ==
  ASSUME NEW op \in Reports, NEW c \in Commands, NEW keys \in SUBSET Keys,
         pressed \in [Endpoints -> SUBSET Keys]
  PROVE  Edit(op, c, keys) \in SUBSET Keys
BY HidAssumption DEF Edit, Reports

\* Every initial state is well typed.
LEMMA TypeInit == Init => TypeOK
<1> SUFFICES ASSUME Init PROVE TypeOK
  OBVIOUS
<1> USE DEF Init
<1>1. /\ gate \in Tasks \cup {None} /\ cmdLock \in Tasks \cup {None}
      /\ current \in Tokens /\ reportOwner \in Tokens
      /\ nextGen \in 0..MaxGen /\ fence \in 1..(FenceMod - 1)
      /\ dirty \subseteq Endpoints
      /\ pressed \in [Endpoints -> SUBSET Keys]
      /\ host \in [Endpoints -> SUBSET Keys]
  BY TokenFacts, HidAssumption DEF Neutral
<1>2. /\ bound \in [Tasks -> Tokens] /\ known \in [Tasks -> Tokens]
      /\ tok \in [Tasks -> Tokens] /\ prev \in [Tasks -> Tokens]
  BY TokenFacts
<1>3. /\ adm \in [Tasks -> 0..(FenceMod - 1)]
      /\ cmd \in [Tasks -> Commands \cup {NoCommand}]
      /\ ip \in [Tasks -> Nat \ {0}] /\ saved \in [Tasks -> SUBSET Keys]
  BY HidAssumption
<1>4. /\ req \in [Tasks -> Requests] /\ neut \in [Tasks -> BOOLEAN]
      /\ ret \in [Tasks -> {"idle", "x_guard", "t_callback"}]
      /\ pc \in [Tasks -> Labels]
  BY DEF Labels, Requests
<1> QED  BY <1>1, <1>2, <1>3, <1>4 DEF TypeOK

\* A neutral drain keeps the report state well typed.
LEMMA DrainType ==
  ASSUME TypeOK, NEW sent, DrainNeutral(sent)
  PROVE  /\ reportOwner' \in Tokens /\ dirty' \subseteq Endpoints
         /\ pressed' \in [Endpoints -> SUBSET Keys]
         /\ host' \in [Endpoints -> SUBSET Keys]
         /\ neutralPending' \in BOOLEAN /\ resetPending' \in BOOLEAN
BY TokenFacts DEF TypeOK, DrainNeutral, HostReset, ReleaseAllLocked, Neutral

\* The first half of a transition keeps the types.
LEMMA StartTransitionType ==
  ASSUME TypeOK, NEW t \in Tasks, NEW request \in Requests,
         NEW back \in {"idle", "x_guard", "t_callback"},
         StartTransition(t, request, back)
  PROVE  TypeOK'
<1> USE DEF TypeOK
<1>1. prev' \in [Tasks -> Tokens] /\ req' \in [Tasks -> Requests]
  BY DEF StartTransition
<1>2. nextGen' \in 0..MaxGen
  BY HidAssumption DEF StartTransition, GenerationsLeft
<1>3. fence' \in 1..(FenceMod - 1)
  BY HidAssumption DEF StartTransition, AdvanceFence
<1>4. bound' \in [Tasks -> Tokens]
  BY TokenFacts DEF StartTransition, ClearBindings
<1>5. pc' \in [Tasks -> Labels]
  BY DEF StartTransition, GoTo, Labels
<1> QED  BY <1>1, <1>2, <1>3, <1>4, <1>5, TokenFacts
         DEF StartTransition, reportVars, ownerVars, flagVars, usbVars, execVars


\* Leaving a call resets its locals to values of their types.
LEMMA DoneType ==
  ASSUME TypeOK, NEW t \in Tasks, Done(t)
  PROVE  /\ pc' \in [Tasks -> Labels]
         /\ tok' \in [Tasks -> Tokens] /\ prev' \in [Tasks -> Tokens]
         /\ adm' \in [Tasks -> 0..(FenceMod - 1)]
         /\ cmd' \in [Tasks -> Commands \cup {NoCommand}]
         /\ ip' \in [Tasks -> Nat \ {0}] /\ saved' \in [Tasks -> SUBSET Keys]
         /\ req' \in [Tasks -> Requests] /\ neut' \in [Tasks -> BOOLEAN]
         /\ ret' \in [Tasks -> {"idle", "x_guard", "t_callback"}]
BY TokenFacts, HidAssumption
DEF TypeOK, Done, DropTransition, DropExecution, GoTo, Labels, Requests

\* Ownership steps keep the types.  The generation bound is kept because a
\* transition starts only while two generations are left.
LEMMA OwnershipType ==
  ASSUME TypeOK, TransitionOpen, NEW t \in Tasks, Ownership(t)
  PROVE  TypeOK'
<1> USE DEF authVars, ownerVars, flagVars, reportVars, usbVars, execVars,
            transVars
<1>1. CASE EnterGate(t)
  BY <1>1 DEF EnterGate, GoTo, TypeOK, Labels
<1>2. CASE CallbackRejects(t) \/ KeepOwner(t)
  BY <1>2, DoneType DEF CallbackRejects, KeepOwner, LeaveGate, TypeOK
<1>3. CASE CallbackDecides(t)
  BY <1>3, StartTransitionType DEF CallbackDecides, Requests
<1>4. CASE ReleaseIfCurrent(t) \/ RevokeSession(t)
  BY <1>4, StartTransitionType DEF ReleaseIfCurrent, RevokeSession,
     Requests
<1>5. CASE RevokeInGuard(t)
  BY <1>5, StartTransitionType DEF RevokeInGuard, Requests
<1>6. CASE Neutralise(t)
  <2>1. /\ reportOwner' \in Tokens /\ dirty' \subseteq Endpoints
        /\ pressed' \in [Endpoints -> SUBSET Keys]
        /\ host' \in [Endpoints -> SUBSET Keys]
        /\ neutralPending' \in BOOLEAN /\ resetPending' \in BOOLEAN
    BY <1>6, DrainType, TokenFacts DEF Neutralise, HostReset, Neutral, TypeOK
  <2>2. pc' \in [Tasks -> Labels] /\ neut' \in [Tasks -> BOOLEAN]
    BY <1>6, <2>1 DEF Neutralise, GoTo, Labels, TypeOK
  <2> QED  BY <1>6, <2>1, <2>2 DEF Neutralise, TypeOK
<1>7. CASE InstallRefused(t)
  <2>1. pc' \in [Tasks -> Labels] /\ gate' \in Tasks \cup {None}
    BY <1>7 DEF InstallRefused, Return, GoTo, Labels, TypeOK
  <2> QED  BY <1>7, <2>1, TokenFacts
           DEF InstallRefused, Return, DropTransition, TypeOK, Requests
<1>8. CASE Install(t)
  <2>1. pc' \in [Tasks -> Labels] /\ gate' \in Tasks \cup {None}
    BY <1>8 DEF Install, Return, GoTo, Labels, TypeOK
  <2>2. current' \in Tokens /\ nextGen' \in 0..MaxGen
    <3>1. nextGen + 1 <= MaxGen
      BY <1>8 DEF Install, TransitionOpen
    <3>2. CASE req[t] # NoClaim
      <4>1. req[t] \in Claims
        BY <3>2 DEF TypeOK, Requests
      <4> QED  BY <1>8, <3>1, <3>2, <4>1, HidAssumption
               DEF Install, Token, Tokens, TypeOK
    <3> QED  BY <1>8, <3>2 DEF Install, TypeOK
  <2>3. known' \in [Tasks -> Tokens]
    BY <1>8, <2>2 DEF Install, TypeOK
  <2> QED  BY <1>8, <2>1, <2>2, <2>3, TokenFacts
           DEF Install, Return, DropTransition, TypeOK, Requests
<1>9. CASE GetOwner(t) \/ BindEmbeddedProducer(t)
  BY <1>9 DEF GetOwner, BindEmbeddedProducer, TypeOK
<1> QED  BY <1>1, <1>2, <1>3, <1>4, <1>5, <1>6, <1>7, <1>8, <1>9 DEF Ownership

\* Moving to the next step of a body.
LEMMA NextStep ==
  ASSUME TypeOK, NEW t \in Tasks, ip' = [ip EXCEPT ![t] = @ + 1]
  PROVE  ip' \in [Tasks -> Nat \ {0}]
<1>1. ip[t] + 1 \in Nat \ {0}
  BY DEF TypeOK
<1> QED  BY <1>1 DEF TypeOK

\* The steps that send a report keep the types.
LEMMA ReportType ==
  ASSUME TypeOK, BodyOwnsReport, NEW t \in Tasks,
         \/ PrepareReport(t) \/ ReportNotSent(t) \/ EmitReport(t)
         \/ CheckFence(t) \/ ReleaseAllCommand(t)
  PROVE  TypeOK'
<1> USE DEF authVars, ownerVars, flagVars, reportVars, usbVars, execVars,
            transVars
<1>1. ASSUME Running(t, Reports), EditReport(t)
      PROVE  /\ pressed' \in [Endpoints -> SUBSET Keys]
             /\ saved' \in [Tasks -> SUBSET Keys]
  <2>1. cmd[t] \in Commands /\ Body(t)[ip[t]] \in Reports
    BY <1>1, StepHasCommand DEF Running, Body, TypeOK
  <2>2. cmd[t].ep \in Endpoints
    BY <2>1, HidAssumption
  <2>3. Edit(Body(t)[ip[t]], cmd[t], saved[t]) \in SUBSET Keys
    BY <2>1, EditType DEF TypeOK
  <2>4. pressed' = [pressed EXCEPT ![cmd[t].ep] =
                      Edit(Body(t)[ip[t]], cmd[t], saved[t])]
    BY <1>1 DEF EditReport
  <2>5. \E x \in SUBSET Keys : saved' = [saved EXCEPT ![t] = x]
    BY <1>1, <2>2 DEF EditReport, TypeOK
  <2> QED  BY <2>2, <2>3, <2>4, <2>5 DEF TypeOK
<1>2. CASE PrepareReport(t)
  BY <1>1, <1>2 DEF PrepareReport, GoTo, Labels, TypeOK
<1>3. CASE ReportNotSent(t)
  <2>1. ip' \in [Tasks -> Nat \ {0}]
    BY <1>3, NextStep DEF ReportNotSent
  <2>2. sendOk' \in BOOLEAN
    BY <1>3 DEF ReportNotSent
  <2> QED  BY <1>1, <1>3, <2>1, <2>2 DEF ReportNotSent, TypeOK
<1>4. CASE EmitReport(t)
  <2>1. cmd[t].ep \in Endpoints
    BY <1>4, StepHasCommand, HidAssumption
    DEF EmitReport, BodyOwnsReport, InCommand, Body, TypeOK
  <2>2. dirty' \subseteq Endpoints /\ host' \in [Endpoints -> SUBSET Keys]
    BY <1>4, <2>1 DEF EmitReport, TypeOK
  <2>3. ip' \in [Tasks -> Nat \ {0}]
    BY <1>4, NextStep DEF EmitReport
  <2>4. pc' \in [Tasks -> Labels]
    BY <1>4 DEF EmitReport, GoTo, Labels, TypeOK
  <2>5. sendOk' \in BOOLEAN
    BY <1>4 DEF EmitReport, TypeOK
  <2> QED  BY <1>4, <2>2, <2>3, <2>4, <2>5 DEF EmitReport, TypeOK
<1>5. CASE CheckFence(t)
  <2>1. Len(Body(t)) \in Nat
    BY BodyLength DEF TypeOK, Body
  <2>2. ip' \in [Tasks -> Nat \ {0}]
    BY <1>5, <2>1 DEF CheckFence, TypeOK
  <2>3. /\ pressed' \in [Endpoints -> SUBSET Keys]
        /\ host' \in [Endpoints -> SUBSET Keys] /\ dirty' \subseteq Endpoints
        /\ cmdActive' \in BOOLEAN /\ cmdAborted' \in BOOLEAN
        /\ sendOk' \in BOOLEAN
    <3>1. CASE Aborted(t)
      <4>1. PICK sent \in SUBSET dirty : NeutraliseAborted(sent)
        BY <1>5, <3>1 DEF CheckFence
      <4> QED  BY <4>1 DEF NeutraliseAborted, ReleaseAllLocked, Neutral, TypeOK
    <3>2. CASE ~Aborted(t)
      BY <1>5, <3>2 DEF CheckFence, flagVars, TypeOK
    <3> QED  BY <3>1, <3>2
  <2> QED  BY <1>5, <2>2, <2>3 DEF CheckFence, TypeOK
<1>6. CASE ReleaseAllCommand(t)
  <2>1. /\ pressed' \in [Endpoints -> SUBSET Keys]
        /\ host' \in [Endpoints -> SUBSET Keys] /\ dirty' \subseteq Endpoints
        /\ sendOk' \in BOOLEAN
    BY <1>6 DEF ReleaseAllCommand, ReleaseAllLocked, Neutral, TypeOK
  <2>2. reportOwner' \in Tokens /\ neutralPending' \in BOOLEAN
    BY <1>6, <2>1, TokenFacts DEF ReleaseAllCommand, TypeOK
  <2> QED  BY <1>6, <2>1, <2>2 DEF ReleaseAllCommand, TypeOK
<1> QED  BY <1>2, <1>3, <1>4, <1>5, <1>6

\* Admission and completion of a command keep the types.
LEMMA CommandType ==
  ASSUME TypeOK, BodyOwnsReport, NEW t \in Tasks, Command(t)
  PROVE  TypeOK'
<1> USE DEF authVars, ownerVars, flagVars, reportVars, usbVars, execVars,
            transVars
<1>1. CASE Execute(t)
  BY <1>1 DEF Execute, GoTo, Labels, TypeOK
<1>2. CASE GateBusy(t)
  BY <1>2, DoneType DEF GateBusy, TypeOK
<1>3. CASE CheckOwner(t)
  <2>1. CASE IsCurrent(tok[t])
    BY <1>3, <2>1 DEF CheckOwner, GoTo, Labels, TypeOK
  <2>2. CASE ~IsCurrent(tok[t])
    BY <1>3, <2>2, DoneType DEF CheckOwner, TypeOK
  <2> QED  BY <2>1, <2>2
<1>4. CASE GuardDenies(t) \/ CommandRefused(t)
  BY <1>4, DoneType DEF GuardDenies, CommandRefused, LeaveGate, TypeOK
<1>5. CASE GuardAllows(t) \/ TakeCommandLock(t)
  BY <1>5 DEF GuardAllows, TakeCommandLock, GoTo, Labels, TypeOK
<1>6. CASE DrainFirst(t)
  <2>1. /\ reportOwner' \in Tokens /\ dirty' \subseteq Endpoints
        /\ pressed' \in [Endpoints -> SUBSET Keys]
        /\ host' \in [Endpoints -> SUBSET Keys]
        /\ neutralPending' \in BOOLEAN /\ resetPending' \in BOOLEAN
    BY <1>6, DrainType DEF DrainFirst, TypeOK
  <2>2. CASE neutralPending'
    BY <1>6, <2>1, <2>2, DoneType DEF DrainFirst, TypeOK
  <2>3. CASE ~neutralPending'
    BY <1>6, <2>1, <2>3 DEF DrainFirst, GoTo, Labels, TypeOK
  <2> QED  BY <2>2, <2>3
<1>7. CASE BeginReport(t)
  <2>1. CASE IsCurrent(tok[t]) /\ ~neutralPending
    <3>1. pc' \in [Tasks -> Labels] /\ reportOwner' \in Tokens
      BY <1>7, <2>1 DEF BeginReport, GoTo, Labels, TypeOK
    <3> QED  BY <1>7, <2>1, <3>1 DEF BeginReport, TypeOK
  <2>2. CASE ~(IsCurrent(tok[t]) /\ ~neutralPending)
    BY <1>7, <2>2, DoneType DEF BeginReport, TypeOK
  <2> QED  BY <2>1, <2>2
<1>8. CASE FinishAborted(t)
  <2>1. /\ pressed' \in [Endpoints -> SUBSET Keys]
        /\ host' \in [Endpoints -> SUBSET Keys] /\ dirty' \subseteq Endpoints
    BY <1>8 DEF FinishAborted, ReleaseAllLocked, Neutral, TypeOK
  <2> QED  BY <1>8, <2>1, DoneType DEF FinishAborted, EndCommand, TypeOK
<1>9. CASE FinishOk(t)
  <2>1. reportOwner' \in Tokens
    BY <1>9, TokenFacts DEF FinishOk, OwnerAfterSuccess, TypeOK
  <2> QED  BY <1>9, <2>1, DoneType DEF FinishOk, EndCommand, TypeOK
<1>10. CASE FinishFailed(t)
  <2>1. /\ reportOwner' \in Tokens /\ dirty' \subseteq Endpoints
        /\ pressed' \in [Endpoints -> SUBSET Keys]
        /\ host' \in [Endpoints -> SUBSET Keys]
        /\ neutralPending' \in BOOLEAN /\ resetPending' \in BOOLEAN
    BY <1>10, DrainType DEF FinishFailed, TypeOK
  <2> QED  BY <1>10, <2>1, DoneType DEF FinishFailed, EndCommand, TypeOK
<1> QED  BY <1>1, <1>2, <1>3, <1>4, <1>5, <1>6, <1>7, <1>8, <1>9, <1>10,
            ReportType DEF Command

\* The USB callback keeps the types.
LEMMA UsbType == TypeOK /\ Usb => TypeOK'
BY DEF Usb, Detach, Attach, StoreReset, TypeOK, Neutral, authVars, ownerVars,
       flagVars, reportVars, usbVars, execVars, transVars

-----------------------------------------------------------------------------
(***************************************************************************)
(* Locks and ownership.                                                    *)
(***************************************************************************)

Starts(t) == \/ CallbackDecides(t) \/ ReleaseIfCurrent(t)
             \/ RevokeSession(t) \/ RevokeInGuard(t)

\* The four ways into a transition: the gate is free or already ours.
LEMMA StartFacts ==
  ASSUME LocksHeld, NEW t \in Tasks, Starts(t)
  PROVE  /\ gate \in {None, t} /\ pc[t] \notin LockLabels
         /\ pc[t] \notin {"t_lock", "t_install"}
         /\ \E claim \in Requests, back \in {"idle", "x_guard", "t_callback"} :
              StartTransition(t, claim, back)
<1>1. /\ gate \in {None, t} /\ pc[t] \notin LockLabels
      /\ pc[t] \notin {"t_lock", "t_install"}
  BY DEF Starts, CallbackDecides, ReleaseIfCurrent, RevokeSession,
         RevokeInGuard, LocksHeld, GateLabels, LockLabels
<1>2. \E claim \in Requests, back \in {"idle", "x_guard", "t_callback"} :
        StartTransition(t, claim, back)
  BY DEF Starts, CallbackDecides, ReleaseIfCurrent, RevokeSession,
         RevokeInGuard, Requests
<1> QED  BY <1>1, <1>2

\* Every step keeps label and lock together.
LEMMA LocksStep ==
  ASSUME TypeOK, LocksHeld, Next
  PROVE  LocksHeld'
<1> USE HidAssumption DEF LocksHeld, GateLabels, LockLabels, GoTo, Done
<1>1. ASSUME NEW t \in Tasks, Starts(t)
      PROVE  LocksHeld'
  BY <1>1, StartFacts DEF StartTransition, TypeOK
<1>2. ASSUME NEW t \in Tasks, Ownership(t), ~Starts(t)
      PROVE  LocksHeld'
  <2>1. CASE EnterGate(t)
    BY <1>2, <2>1 DEF EnterGate, TypeOK
  <2>2. CASE CallbackRejects(t) \/ KeepOwner(t)
    BY <1>2, <2>2 DEF CallbackRejects, KeepOwner, LeaveGate, TypeOK
  <2>3. CASE Neutralise(t)
    BY <1>2, <2>3, SMTT(40) DEF Neutralise, TypeOK
  <2>4. CASE InstallRefused(t) \/ Install(t)
    BY <1>2, <2>4 DEF InstallRefused, Install, Return, TypeOK
  <2>5. CASE GetOwner(t) \/ BindEmbeddedProducer(t)
    BY <1>2, <2>5 DEF GetOwner, BindEmbeddedProducer, TypeOK
  <2> QED  BY <1>2, <2>1, <2>2, <2>3, <2>4, <2>5 DEF Ownership, Starts
<1>3. ASSUME NEW t \in Tasks, Command(t)
      PROVE  LocksHeld'
  <2>1. CASE Execute(t) \/ GateBusy(t) \/ CheckOwner(t)
    BY <1>3, <2>1 DEF Execute, GateBusy, CheckOwner, TypeOK
  <2>2. CASE GuardDenies(t) \/ CommandRefused(t)
    BY <1>3, <2>2 DEF GuardDenies, CommandRefused, LeaveGate, TypeOK
  <2>3. CASE GuardAllows(t) \/ TakeCommandLock(t)
    BY <1>3, <2>3 DEF GuardAllows, TakeCommandLock, TypeOK
  <2>4. CASE DrainFirst(t) \/ BeginReport(t)
    BY <1>3, <2>4 DEF DrainFirst, BeginReport, TypeOK
  <2>5. CASE PrepareReport(t) \/ ReportNotSent(t) \/ EmitReport(t)
    BY <1>3, <2>5 DEF PrepareReport, ReportNotSent, EmitReport, Running, TypeOK
  <2>6. CASE CheckFence(t) \/ ReleaseAllCommand(t)
    BY <1>3, <2>6 DEF CheckFence, ReleaseAllCommand, TypeOK
  <2>7. CASE FinishAborted(t) \/ FinishOk(t) \/ FinishFailed(t)
    BY <1>3, <2>7 DEF FinishAborted, FinishOk, FinishFailed, EndCommand,
                      Finished, TypeOK
  <2> QED  BY <1>3, <2>1, <2>2, <2>3, <2>4, <2>5, <2>6, <2>7 DEF Command
<1>4. CASE Usb
  BY <1>4 DEF Usb, Detach, Attach, StoreReset
<1> QED  BY <1>1, <1>2, <1>3, <1>4 DEF Next

\* A call that returns, or that holds neither a transition nor the command
\* lock, concerns nobody else.
LEMMA AuthorityFrame ==
  ASSUME TypeOK, LocksHeld, Authority, NEW t \in Tasks, UNCHANGED authVars,
         \A u \in Tasks \ {t} : /\ pc'[u] = pc[u] /\ tok'[u] = tok[u]
                                /\ adm'[u] = adm[u] /\ prev'[u] = prev[u],
         gate \in {None, t} \/ gate' = gate,
         pc[t] # "t_lock",
         pc'[t] \notin {"t_lock", "t_install"} \cup LockLabels
  PROVE  Authority'
<1> USE DEF Authority, authVars, LockLabels
<1>1. TransitionOpen'
  BY DEF TransitionOpen
<1>2. AdmissionFresh'
  BY DEF AdmissionFresh
<1>3. BoundIsCurrent'
  BY DEF BoundIsCurrent
<1>4. ASSUME NEW v \in Tasks, InCommand(v)'
      PROVE  /\ InCommand(v) /\ v # t
             /\ \A u \in Tasks : Revoking(u, tok[v]) => Revoking(u, tok[v])'
  BY <1>4, HidAssumption DEF InCommand, Revoking
<1> QED  BY <1>1, <1>2, <1>3, <1>4 DEF CommandOrRevoker, TokenEqual

Outside(t) ==
  \/ EnterGate(t) \/ CallbackRejects(t) \/ KeepOwner(t) \/ Execute(t)
  \/ GateBusy(t) \/ CheckOwner(t) \/ GuardDenies(t) \/ CommandRefused(t)
  \/ FinishAborted(t) \/ FinishOk(t) \/ FinishFailed(t)

\* They keep the authority facts.
LEMMA AuthorityOutside ==
  ASSUME TypeOK, LocksHeld, Authority, NEW t \in Tasks, Outside(t)
  PROVE  Authority'
<1> USE DEF Outside, EnterGate, CallbackRejects, KeepOwner, Execute, GateBusy,
            CheckOwner, GuardDenies, CommandRefused, FinishAborted, FinishOk,
            FinishFailed, LeaveGate, EndCommand
<1>1. UNCHANGED authVars
  OBVIOUS
<1>2. /\ pc[t] # "t_lock"
      /\ pc'[t] \notin {"t_lock", "t_install"} \cup LockLabels
  BY DEF TypeOK, GoTo, Done, LockLabels, Finished
<1>3. \A u \in Tasks \ {t} : pc'[u] = pc[u] /\ prev'[u] = prev[u]
  BY DEF TypeOK, GoTo, Done, DropTransition, transVars
<1>4. \A u \in Tasks \ {t} : tok'[u] = tok[u] /\ adm'[u] = adm[u]
  BY DEF TypeOK, GoTo, Done, DropExecution, execVars
<1>5. gate \in {None, t} \/ gate' = gate
  BY DEF LocksHeld, GateLabels
<1> HIDE DEF Outside
<1> QED  BY <1>1, <1>2, <1>3, <1>4, <1>5, AuthorityFrame

\* The steps of a body change neither its token nor its admission.
LEMMA AuthorityBody ==
  ASSUME TypeOK, Authority, NEW t \in Tasks,
         UNCHANGED <<gate, authVars, tok, adm, prev>>,
         NEW label \in {"run", "emit"}, pc[t] \in {"run", "emit"},
         GoTo(t, label)
  PROVE  Authority'
<1> USE DEF Authority, authVars, GoTo, TypeOK
<1>1. TransitionOpen' /\ AdmissionFresh' /\ BoundIsCurrent'
  BY DEF TransitionOpen, AdmissionFresh, BoundIsCurrent
<1>2. \A v \in Tasks : InCommand(v)' => InCommand(v)
  BY DEF InCommand
<1>3. \A u \in Tasks : (pc[u] = "t_lock") = (pc'[u] = "t_lock")
  OBVIOUS
<1>4. \A u, v \in Tasks : Revoking(u, tok[v]) => Revoking(u, tok[v])'
  BY <1>3 DEF Revoking
<1> QED  BY <1>1, <1>2, <1>4 DEF CommandOrRevoker, TokenEqual

\* Every step keeps Authority.  The fence separates a command from the
\* transition that revokes it; a second transition cannot start before the
\* first has had the command lock, so the fence cannot wrap past a command.
LEMMA AuthorityStep ==
  ASSUME TypeOK, LocksHeld, Authority, Next
  PROVE  Authority'
<1> USE HidAssumption, TokenFacts
    DEF Authority, TransitionOpen, AdmissionFresh, CommandOrRevoker,
        BoundIsCurrent, LocksHeld, GateLabels, LockLabels, GoTo, Done,
        InCommand, Revoking, TokenEqual, authVars, execVars, transVars,
        DropTransition, DropExecution
<1>1. ASSUME NEW t \in Tasks, Starts(t)
      PROVE  Authority'
  <2>1. PICK claim \in Requests, back \in {"idle", "x_guard", "t_callback"} :
          StartTransition(t, claim, back)
    BY <1>1, StartFacts
  <2>2. gate \in {None, t} /\ pc[t] \notin LockLabels
    BY <1>1, StartFacts
  <2>3. fence' # fence
    BY <2>1 DEF StartTransition, AdvanceFence, TypeOK
  <2>4. TransitionOpen'
    BY <2>1, <2>2 DEF StartTransition, GenerationsLeft, TypeOK
  <2>5. AdmissionFresh'
    BY <2>1, <2>2 DEF StartTransition, TypeOK
  <2>6. CommandOrRevoker'
    <3> SUFFICES ASSUME NEW v \in Tasks, InCommand(v)'
                 PROVE  /\ adm'[v] # fence' /\ tok'[v].gen # 0
                        /\ Revoking(t, tok[v])'
      BY <2>1 DEF StartTransition
    <3>1. InCommand(v) /\ UNCHANGED <<tok, adm>>
      BY <2>1, <2>2 DEF StartTransition, TypeOK
    <3>2. current = tok[v] /\ adm[v] = fence /\ tok[v].gen # 0
      BY <2>2, <3>1, StartFacts, <1>1
    <3> QED  BY <2>1, <2>3, <3>1, <3>2 DEF StartTransition, TypeOK
  <2>7. BoundIsCurrent'
    BY <2>1 DEF StartTransition, ClearBindings, TypeOK
  <2> QED  BY <2>4, <2>5, <2>6, <2>7
<1>2. ASSUME NEW t \in Tasks, Ownership(t), ~Starts(t)
      PROVE  Authority'
  <2>1. CASE Outside(t)
    BY <2>1, AuthorityOutside
  <2>3. CASE Neutralise(t)
    BY <1>2, <2>3, SMTT(40) DEF Neutralise, TypeOK
  <2>4. CASE InstallRefused(t)
    BY <1>2, <2>4, SMTT(40) DEF InstallRefused, Return, TypeOK
  <2>5. CASE Install(t)
    BY <1>2, <2>5, SMTT(40) DEF Install, Return, TypeOK
  <2>6. CASE GetOwner(t)
    BY <1>2, <2>6 DEF GetOwner, TypeOK
  <2>7. CASE BindEmbeddedProducer(t)
    BY <1>2, <2>7 DEF BindEmbeddedProducer, IsCurrent, TypeOK
  <2> QED  BY <1>2, <2>1, <2>3, <2>4, <2>5, <2>6, <2>7
           DEF Ownership, Starts, Outside
<1>3. ASSUME NEW t \in Tasks, Command(t)
      PROVE  Authority'
  <2>1. CASE Outside(t)
    BY <2>1, AuthorityOutside
  <2>4. CASE GuardAllows(t) \/ TakeCommandLock(t)
    BY <1>3, <2>4, SMTT(40) DEF GuardAllows, TakeCommandLock, TypeOK
  <2>5. CASE DrainFirst(t)
    BY <1>3, <2>5, SMTT(40) DEF DrainFirst, TypeOK
  <2>6. CASE BeginReport(t)
    BY <1>3, <2>6 DEF BeginReport, IsCurrent, TypeOK
  <2>7. CASE PrepareReport(t) \/ ReportNotSent(t) \/ EmitReport(t)
    <3>1. PICK label \in {"run", "emit"} : GoTo(t, label)
      BY <2>7 DEF PrepareReport, ReportNotSent, EmitReport, Running, TypeOK
    <3> QED  BY <2>7, <3>1, AuthorityBody
             DEF PrepareReport, ReportNotSent, EmitReport, Running
  <2>8. CASE CheckFence(t) \/ ReleaseAllCommand(t)
    BY <1>3, <2>8, SMTT(40) DEF CheckFence, ReleaseAllCommand, TypeOK
  <2> QED  BY <1>3, <2>1, <2>4, <2>5, <2>6, <2>7, <2>8 DEF Command, Outside
<1>4. CASE Usb
  BY <1>4 DEF Usb, Detach, Attach, StoreReset
<1> QED  BY <1>1, <1>2, <1>3, <1>4 DEF Next

-----------------------------------------------------------------------------
(***************************************************************************)
(* The report state.                                                       *)
(***************************************************************************)

\* At most one command runs.
LEMMA OneCommand ==
  ASSUME LocksHeld, NEW t \in Tasks, cmdLock = t
  PROVE  \A u \in Tasks : InCommand(u) => u = t
BY DEF LocksHeld, LockLabels, InCommand

\* Draining leaves nothing dirty, or the reports pending.
LEMMA DrainFacts ==
  ASSUME TypeOK, NEW sent, DrainNeutral(sent)
  PROVE  /\ dirty' # {} => neutralPending' /\ reportOwner' = reportOwner
         /\ dirty' \subseteq dirty
         /\ resetPending' = FALSE
BY DEF DrainNeutral, HostReset, ReleaseAllLocked, TypeOK

\* A transition that waits for the command lock goes on waiting.
LEMMA StillRevoking ==
  ASSUME TypeOK, LocksHeld, NEW t \in Tasks, NEW label \in Labels,
         GoTo(t, label), pc[t] # "t_lock",
         gate \in {None, t} \/ gate' = gate,
         \A u \in Tasks \ {t} : prev'[u] = prev[u]
  PROVE  \A u \in Tasks : \A x : Revoking(u, x) => Revoking(u, x)'
<1> SUFFICES ASSUME NEW u \in Tasks, NEW x, Revoking(u, x)
             PROVE  Revoking(u, x)'
  OBVIOUS
<1>1. u # t /\ gate = u
  BY DEF Revoking
<1>2. pc'[u] = pc[u] /\ prev'[u] = prev[u] /\ gate' = gate
  BY <1>1, HidAssumption DEF GoTo, TypeOK
<1> QED  BY <1>1, <1>2 DEF Revoking

\* The first half of a transition: the owner of the dirty reports is the one
\* being revoked.
LEMMA ReportStart ==
  ASSUME Inv, NEW t \in Tasks, Starts(t)
  PROVE  BodyOwnsReport' /\ DirtyReportsAreOwned'
<1>1. PICK claim \in Requests, back \in {"idle", "x_guard", "t_callback"} :
        StartTransition(t, claim, back)
  BY StartFacts DEF Inv
<1>2. /\ gate \in {None, t} /\ pc[t] \notin LockLabels
      /\ pc[t] \notin {"t_lock", "t_install"}
  BY StartFacts DEF Inv
<1>3. UNCHANGED <<reportOwner, dirty, neutralPending, cmdActive, resetPending,
                  owed, mounted, tok, cmd, ip>>
  BY <1>1 DEF StartTransition, reportVars, ownerVars, flagVars, usbVars,
              execVars
<1>4. BodyOwnsReport'
  BY <1>1, <1>2, <1>3 DEF Inv, BodyOwnsReport, InCommand, Finished, Body,
                          StartTransition, GoTo, TypeOK, LockLabels
<1>5. DirtyReportsAreOwned'
  <2>1. \A u \in Tasks : ~Revoking(u, reportOwner)
    BY <1>2, HidAssumption DEF Revoking
  <2>2. TokenEqual(current, reportOwner) => Revoking(t, reportOwner)'
    BY <1>1, <1>3 DEF StartTransition, Revoking, TokenEqual, GoTo, Inv, TypeOK
  <2> QED  BY <2>1, <2>2, <1>3 DEF Inv, DirtyReportsAreOwned
<1> QED  BY <1>4, <1>5

\* Steps that touch no report state.
LEMMA ReportFrame ==
  ASSUME Inv, NEW t \in Tasks, NEW label \in Labels, GoTo(t, label),
         pc[t] # "t_lock", label \notin {"run", "emit"},
         gate \in {None, t} \/ gate' = gate,
         UNCHANGED <<reportOwner, dirty, neutralPending, cmdActive,
                     resetPending, owed, mounted, current>>,
         \A u \in Tasks \ {t} : /\ prev'[u] = prev[u] /\ tok'[u] = tok[u]
                                /\ cmd'[u] = cmd[u] /\ ip'[u] = ip[u]
  PROVE  BodyOwnsReport' /\ DirtyReportsAreOwned'
<1>1. \A u \in Tasks : Revoking(u, reportOwner) => Revoking(u, reportOwner)'
  BY StillRevoking DEF Inv
<1>2. DirtyReportsAreOwned'
  BY <1>1 DEF Inv, DirtyReportsAreOwned, TokenEqual
<1>3. \A u \in Tasks : InCommand(u)' => u # t /\ InCommand(u)
                                        /\ pc'[u] = pc[u]
  BY DEF InCommand, GoTo, Inv, TypeOK
<1>4. BodyOwnsReport'
  BY <1>3 DEF Inv, BodyOwnsReport, Finished, Body
<1> QED  BY <1>2, <1>4

Aside(t) ==
  \/ EnterGate(t) \/ CallbackRejects(t) \/ KeepOwner(t) \/ InstallRefused(t)
  \/ Execute(t) \/ GateBusy(t) \/ CheckOwner(t) \/ GuardDenies(t)
  \/ GuardAllows(t) \/ CommandRefused(t) \/ TakeCommandLock(t)

\* The steps of a call outside its command body.
LEMMA ReportAside ==
  ASSUME Inv, NEW t \in Tasks, Aside(t)
  PROVE  BodyOwnsReport' /\ DirtyReportsAreOwned'
<1> USE DEF Aside, EnterGate, CallbackRejects, KeepOwner, InstallRefused,
            Execute, GateBusy, CheckOwner, GuardDenies, GuardAllows,
            CommandRefused, TakeCommandLock, LeaveGate, Return
<1>1. PICK label \in Labels \ {"run", "emit"} : GoTo(t, label)
  BY DEF Done, Labels, Inv, TypeOK
<1>2. UNCHANGED <<reportOwner, dirty, neutralPending, cmdActive, resetPending,
                  owed, mounted, current>>
  BY DEF authVars, reportVars, ownerVars, flagVars, usbVars
<1>3. \A u \in Tasks \ {t} : prev'[u] = prev[u]
  BY DEF Done, DropTransition, transVars, Inv, TypeOK
<1>4. \A u \in Tasks \ {t} : /\ tok'[u] = tok[u]
                             /\ cmd'[u] = cmd[u] /\ ip'[u] = ip[u]
  BY DEF Done, DropExecution, execVars, Inv, TypeOK
<1>5. pc[t] # "t_lock" /\ (gate \in {None, t} \/ gate' = gate)
  BY DEF Inv, LocksHeld, GateLabels
<1> HIDE DEF Aside
<1> QED  BY <1>1, <1>2, <1>3, <1>4, <1>5, ReportFrame

\* The neutral step.  If it does not drain, the reports belong to nobody or to
\* an older owner, and nothing is dirty.
LEMMA ReportNeutralise ==
  ASSUME Inv, NEW t \in Tasks, Neutralise(t)
  PROVE  /\ BodyOwnsReport' /\ DirtyReportsAreOwned'
         /\ dirty' # {} => neutralPending' \/ owed \/ ~mounted
<1>1. gate = t /\ cmdLock = None /\ current = NoToken
  BY DEF Neutralise, Inv, LocksHeld, GateLabels, Authority, TransitionOpen
<1>2. \A u \in Tasks : ~InCommand(u)'
  BY <1>1, HidAssumption DEF Inv, LocksHeld, LockLabels, Neutralise, GoTo,
                             InCommand, TypeOK
<1>3. (reportOwner.gen # 0 /\ Revoking(t, reportOwner))
        => TokenEqual(reportOwner, prev[t])
  BY DEF Revoking, TokenEqual
<1>4. \A u \in Tasks : Revoking(u, reportOwner) => u = t
  BY <1>1 DEF Revoking
<1>5. dirty' # {} => /\ neutralPending' \/ owed \/ ~mounted
                     /\ reportOwner'.gen # 0 /\ UNCHANGED <<owed, mounted>>
  <2>1. CASE ~resetPending /\ OwesNeutral(t)
    BY <2>1, DrainFacts DEF Neutralise, Inv, DirtyReportsAreOwned
  <2>2. CASE resetPending
    BY <2>2 DEF Neutralise, HostReset
  <2>3. CASE ~resetPending /\ ~OwesNeutral(t)
    BY <2>3, <1>1, <1>3, <1>4
    DEF Neutralise, OwesNeutral, Inv, DirtyReportsAreOwned, TokenEqual,
        NoToken, ownerVars
  <2> QED  BY <2>1, <2>2, <2>3
<1> QED  BY <1>2, <1>5 DEF BodyOwnsReport, DirtyReportsAreOwned

\* Installing an owner: what is dirty now is pending or about to be reset.
LEMMA ReportInstall ==
  ASSUME Inv, NEW t \in Tasks, Install(t)
  PROVE  BodyOwnsReport' /\ DirtyReportsAreOwned'
<1>1. gate = t /\ current = NoToken
  BY DEF Install, Inv, LocksHeld, GateLabels, Authority, TransitionOpen
<1>2. \A u \in Tasks : ~Revoking(u, reportOwner)
  BY <1>1 DEF Revoking, Install
<1>3. DirtyReportsAreOwned'
  BY <1>1, <1>2 DEF Inv, DirtyReportsAreOwned, TokenEqual, NoToken, Install,
                    Return, reportVars, ownerVars, usbVars
<1>4. \A u \in Tasks : InCommand(u)' => InCommand(u) /\ pc'[u] = pc[u]
  BY DEF InCommand, Install, Return, GoTo, Inv, TypeOK
<1>5. BodyOwnsReport'
  BY <1>4 DEF Inv, BodyOwnsReport, Finished, Body, Install, Return,
              reportVars, ownerVars, flagVars, execVars
<1> QED  BY <1>3, <1>5

\* Admission: draining first, then the report gets its owner.
LEMMA ReportAdmission ==
  ASSUME Inv, NEW t \in Tasks, DrainFirst(t) \/ BeginReport(t)
  PROVE  BodyOwnsReport' /\ DirtyReportsAreOwned'
<1>1. cmdLock = t /\ gate = t
  BY DEF DrainFirst, BeginReport, Inv, LocksHeld, GateLabels, LockLabels
<1>2. \A u \in Tasks : ~InCommand(u)
  BY <1>1, OneCommand DEF Inv, InCommand, DrainFirst, BeginReport
<1>3. \A u \in Tasks : ~Revoking(u, reportOwner)
  BY <1>1 DEF Revoking, DrainFirst, BeginReport
<1>4. CASE DrainFirst(t)
  <2>1. \A u \in Tasks : ~InCommand(u)'
    BY <1>2, <1>4 DEF DrainFirst, Done, GoTo, InCommand, Inv, TypeOK
  <2>2. DirtyReportsAreOwned'
    <3>1. CASE resetPending \/ neutralPending
      BY <1>4, <3>1, DrainFacts DEF DrainFirst, Inv, DirtyReportsAreOwned
    <3>2. CASE ~(resetPending \/ neutralPending)
      BY <1>3, <1>4, <3>2 DEF DrainFirst, Inv, DirtyReportsAreOwned,
                              TokenEqual, ownerVars, authVars
    <3> QED  BY <3>1, <3>2
  <2> QED  BY <2>1, <2>2 DEF BodyOwnsReport
<1>5. CASE BeginReport(t) /\ IsCurrent(tok[t]) /\ ~neutralPending
  <2>1. /\ reportOwner' = tok[t] /\ TokenEqual(current', reportOwner')
        /\ cmdActive'
    BY <1>5 DEF BeginReport, IsCurrent, TokenEqual, authVars
  <2>2. \A u \in Tasks : InCommand(u)' => u = t /\ pc'[u] = "run"
    BY <1>2, <1>5 DEF BeginReport, GoTo, InCommand, Inv, TypeOK
  <2>3. tok' = tok
    BY <1>5 DEF BeginReport, execVars
  <2> QED  BY <2>1, <2>2, <2>3
           DEF BodyOwnsReport, DirtyReportsAreOwned, TokenEqual
<1>6. CASE BeginReport(t) /\ ~(IsCurrent(tok[t]) /\ ~neutralPending)
  <2>1. \A u \in Tasks : ~InCommand(u)'
    BY <1>2, <1>6 DEF BeginReport, Done, GoTo, InCommand, Inv, TypeOK
  <2>2. DirtyReportsAreOwned'
    BY <1>3, <1>6 DEF BeginReport, Inv, DirtyReportsAreOwned, TokenEqual,
                      authVars, usbVars
  <2> QED  BY <2>1, <2>2 DEF BodyOwnsReport
<1> QED  BY <1>4, <1>5, <1>6

\* The body of a command.  The owner of its reports is its own token, which is
\* current or the one being revoked, until it has been released.
LEMMA ReportBody ==
  ASSUME Inv, NEW t \in Tasks,
         \/ PrepareReport(t) \/ ReportNotSent(t) \/ EmitReport(t)
         \/ CheckFence(t) \/ ReleaseAllCommand(t)
  PROVE  BodyOwnsReport' /\ DirtyReportsAreOwned'
<1> USE DEF PrepareReport, ReportNotSent, EmitReport, CheckFence,
            ReleaseAllCommand
<1>1. InCommand(t) /\ cmdLock = t
  BY DEF Running, Inv, LocksHeld, LockLabels, InCommand
<1>2. \A u \in Tasks : InCommand(u)' => u = t
  BY <1>1, OneCommand DEF Inv, InCommand, GoTo, TypeOK
<1>3. /\ pc[t] = "run" => ip[t] <= Len(Body(t))
      /\ pc[t] = "emit" => ip[t] <= Len(Body(t))
  BY <1>1 DEF Running, Inv, BodyOwnsReport
<1>4. ip[t] <= Len(Body(t)) /\ ~Finished(t)
  BY <1>1, <1>3, BodyLength DEF InCommand, Finished, Inv, TypeOK, Body
<1>5. reportOwner = tok[t] /\ cmdActive
  BY <1>1, <1>4 DEF Inv, BodyOwnsReport
<1>6. tok' = tok /\ cmd' = cmd /\ current' = current /\ gate' = gate
      /\ prev' = prev /\ mounted' = mounted /\ resetPending' = resetPending
  BY DEF authVars, usbVars, transVars
<1>7. tok[t].gen # 0
  BY <1>1 DEF Inv, Authority, CommandOrRevoker, TokenEqual
<1>8. \A u \in Tasks : Revoking(u, tok[t]) => Revoking(u, tok[t])'
  BY <1>1, <1>6 DEF Revoking, GoTo, Inv, TypeOK, InCommand
<1>9. TokenEqual(current, tok[t]) \/ \E u \in Tasks : Revoking(u, tok[t])'
  BY <1>1, <1>8 DEF Inv, Authority, CommandOrRevoker
<1>10. reportOwner' = tok[t] \/ dirty' = {}
  BY <1>5, <1>7 DEF ReleaseAllLocked, ownerVars, TokenEqual, Inv, TypeOK
<1>11. DirtyReportsAreOwned'
  BY <1>6, <1>7, <1>9, <1>10 DEF DirtyReportsAreOwned, TokenEqual
<1>12. BodyOwnsReport'
  <2>1. CASE PrepareReport(t)
    BY <2>1, <1>2, <1>4, <1>5, <1>6
    DEF BodyOwnsReport, GoTo, Inv, TypeOK, ownerVars, flagVars, Body
  <2>2. CASE ReportNotSent(t) \/ EmitReport(t)
    <3>1. reportOwner' = tok[t] /\ cmdActive'
      BY <2>2, <1>5 DEF ownerVars, flagVars
    <3>2. pc'[t] = "run"
      BY <2>2 DEF GoTo, Inv, TypeOK, Running
    <3> QED  BY <3>1, <3>2, <1>2, <1>6 DEF BodyOwnsReport
  <2>3. CASE CheckFence(t)
    <3>1. reportOwner' = tok[t] /\ pc'[t] = "run"
      BY <2>3, <1>5 DEF Running
    <3>2. cmdActive' \/ ip'[t] = Len(Body(t)) + 1
      BY <2>3, <1>5 DEF flagVars, Inv, TypeOK
    <3>3. cmdActive' \/ Finished(t)'
      BY <3>1, <3>2, <1>6, BodyLength DEF Finished, Body, Inv, TypeOK
    <3> QED  BY <3>1, <3>3, <1>2, <1>6 DEF BodyOwnsReport
  <2>4. CASE ReleaseAllCommand(t)
    <3>1. cmd[t] \in Commands
      BY <2>4, StepHasCommand DEF Running, Body, Inv, TypeOK
    <3>2. ip[t] + 1 > Len(Body(t))
      BY <2>4, <3>1, ReleaseAllIsLast DEF Running, Body, Inv, TypeOK
    <3>3. pc'[t] = "run" /\ ip'[t] = ip[t] + 1
      BY <2>4 DEF Running, Inv, TypeOK
    <3>4. Finished(t)'
      BY <3>2, <3>3, <1>6 DEF Finished, Body
    <3> QED  BY <3>3, <3>4, <1>2, <1>6, <1>10 DEF BodyOwnsReport
  <2> QED  BY <2>1, <2>2, <2>3, <2>4
<1> QED  BY <1>11, <1>12

\* The end of a command.
LEMMA ReportFinish ==
  ASSUME Inv, NEW t \in Tasks,
         FinishAborted(t) \/ FinishOk(t) \/ FinishFailed(t)
  PROVE  BodyOwnsReport' /\ DirtyReportsAreOwned'
<1> USE DEF FinishAborted, FinishOk, FinishFailed
<1>1. InCommand(t) /\ cmdLock = t
  BY DEF Finished, Inv, LocksHeld, LockLabels, InCommand
<1>2. \A u \in Tasks : ~InCommand(u)'
  BY <1>1, OneCommand DEF Inv, InCommand, EndCommand, Done, GoTo, TypeOK
<1>3. BodyOwnsReport'
  BY <1>2 DEF BodyOwnsReport
<1>4. UNCHANGED <<current, gate, owed, mounted>>
  BY DEF EndCommand, authVars
<1>5. reportOwner' = reportOwner =>
        \A u \in Tasks : Revoking(u, reportOwner) => Revoking(u, reportOwner)'
  <2>1. pc[t] # "t_lock" /\ \A u \in Tasks \ {t} : pc'[u] = pc[u]
    BY DEF Finished, EndCommand, Done, GoTo, Inv, TypeOK
  <2>2. \A u \in Tasks \ {t} : prev'[u] = prev[u]
    BY DEF EndCommand, Done, DropTransition, Inv, TypeOK
  <2> QED  BY <2>1, <2>2, <1>4 DEF Revoking
<1>6. DirtyReportsAreOwned'
  <2>1. CASE FinishFailed(t) /\ dirty # {}
    BY <2>1, DrainFacts DEF Inv, DirtyReportsAreOwned
  <2>2. CASE FinishFailed(t) /\ dirty = {}
    BY <2>2 DEF DirtyReportsAreOwned
  <2>3. CASE FinishAborted(t)
    <3>1. dirty' \subseteq dirty
      BY <2>3 DEF ReleaseAllLocked
    <3> QED  BY <2>3, <3>1, <1>4, <1>5
             DEF Inv, DirtyReportsAreOwned, TokenEqual
  <2>4. CASE FinishOk(t)
    BY <2>4, <1>4, <1>5 DEF OwnerAfterSuccess, Inv, DirtyReportsAreOwned,
                            TokenEqual
  <2> QED  BY <2>1, <2>2, <2>3, <2>4
<1> QED  BY <1>3, <1>6

\* USB events set the pending reset, or detach.
LEMMA ReportUsb ==
  ASSUME Inv, Usb
  PROVE  BodyOwnsReport' /\ DirtyReportsAreOwned'
<1>1. UNCHANGED <<gate, authVars, ownerVars, cmdActive, pc, execVars, transVars>>
  BY DEF Usb, Detach, Attach, StoreReset, reportVars, flagVars
<1>2. BodyOwnsReport'
  BY <1>1 DEF Inv, BodyOwnsReport, InCommand, Finished, Body, execVars,
              ownerVars
<1>3. resetPending' \/ owed' \/ ~mounted'
  BY DEF Usb, Detach, Attach, StoreReset
<1>4. DirtyReportsAreOwned'
  BY <1>1, <1>3 DEF Inv, DirtyReportsAreOwned, TokenEqual, Revoking, authVars,
                    ownerVars, transVars
<1> QED  BY <1>2, <1>4

\* The invariant holds at the start.
LEMMA InvInit == Init => Inv
<1> SUFFICES ASSUME Init PROVE Inv
  OBVIOUS
<1>1. TypeOK
  BY TypeInit
<1>2. LocksHeld
  BY HidAssumption DEF Init, LocksHeld, GateLabels, LockLabels
<1>3. Authority
  BY DEF Init, Authority, TransitionOpen, AdmissionFresh, CommandOrRevoker,
         BoundIsCurrent, InCommand
<1>4. BodyOwnsReport /\ DirtyReportsAreOwned
  BY DEF Init, BodyOwnsReport, DirtyReportsAreOwned, InCommand
<1> QED  BY <1>1, <1>2, <1>3, <1>4 DEF Inv

\* Every step keeps the invariant.
LEMMA InvStep ==
  ASSUME Inv, [Next]_vars
  PROVE  Inv'
<1>1. CASE UNCHANGED vars
  BY <1>1 DEF vars, authVars, reportVars, ownerVars, flagVars, usbVars,
       execVars, transVars, Inv, TypeOK, LocksHeld, Authority, TransitionOpen,
       AdmissionFresh, CommandOrRevoker, BoundIsCurrent, BodyOwnsReport,
       DirtyReportsAreOwned, InCommand, Revoking, Finished, Body
<1>2. CASE Next
  <2>1. TypeOK'
    BY <1>2, OwnershipType, CommandType, UsbType DEF Next, Inv, Authority
  <2>2. LocksHeld' /\ Authority'
    BY <1>2, LocksStep, AuthorityStep DEF Inv
  <2>3. BodyOwnsReport' /\ DirtyReportsAreOwned'
    <3>1. ASSUME NEW t \in Tasks, GetOwner(t) \/ BindEmbeddedProducer(t)
          PROVE  BodyOwnsReport' /\ DirtyReportsAreOwned'
      BY <3>1 DEF GetOwner, BindEmbeddedProducer, Inv, BodyOwnsReport,
         DirtyReportsAreOwned, InCommand, Revoking, Finished, Body, authVars,
         reportVars, ownerVars, flagVars, usbVars, execVars, transVars
    <3> QED  BY <1>2, <3>1, ReportStart, ReportAside, ReportNeutralise,
                ReportInstall, ReportAdmission, ReportBody, ReportFinish,
                ReportUsb
             DEF Next, Ownership, Command, Starts, Aside
  <2> QED  BY <2>1, <2>2, <2>3 DEF Inv
<1> QED  BY <1>1, <1>2

-----------------------------------------------------------------------------
(***************************************************************************)
(* What the host holds, with a USB bus that re-enumerates the device only  *)
(* between two commands.                                                   *)
(***************************************************************************)

\* The invariant with the state of the host.
HostInv == Inv /\ HostAccounted /\ QuietUsb /\ NeutralHost

\* The ways in which a step of a task, other than the sending of a report,
\* changes the state shared with the host: not at all, by a drain, by neutral
\* reports, or by a host reset.
HostKept == UNCHANGED <<host, dirty, mounted, owed, resetPending>>
HostDrained == /\ \E sent \in SUBSET dirty : DrainNeutral(sent)
               /\ UNCHANGED <<mounted, owed>>
HostReleased == /\ \E sent \in SUBSET dirty : ReleaseAllLocked(sent)
                /\ UNCHANGED <<mounted, owed, resetPending>>
HostForgotten == /\ resetPending /\ HostReset
                 /\ resetPending' = FALSE /\ UNCHANGED <<mounted, owed>>

\* Every step of a task is of one of these kinds, or sends a report.
LEMMA HostKinds ==
  ASSUME TypeOK, NEW t \in Tasks, Ownership(t) \/ Command(t)
  PROVE  HostKept \/ HostDrained \/ HostReleased \/ HostForgotten
         \/ EmitReport(t)
<1> USE DEF authVars, ownerVars, flagVars, reportVars, usbVars, HostKept
<1>1. CASE \/ EnterGate(t) \/ CallbackRejects(t) \/ KeepOwner(t)
           \/ InstallRefused(t) \/ Install(t) \/ GetOwner(t)
           \/ BindEmbeddedProducer(t)
  BY <1>1 DEF EnterGate, CallbackRejects, KeepOwner, LeaveGate, InstallRefused,
     Install, Return, GetOwner, BindEmbeddedProducer
<1>2. CASE \/ CallbackDecides(t) \/ ReleaseIfCurrent(t) \/ RevokeSession(t)
           \/ RevokeInGuard(t)
  BY <1>2 DEF CallbackDecides, ReleaseIfCurrent, RevokeSession, RevokeInGuard,
     StartTransition
<1>3. CASE Neutralise(t)
  BY <1>3 DEF Neutralise, HostDrained, HostForgotten, TypeOK
<1>4. CASE \/ Execute(t) \/ GateBusy(t) \/ CheckOwner(t) \/ GuardDenies(t)
           \/ GuardAllows(t) \/ CommandRefused(t) \/ TakeCommandLock(t)
           \/ BeginReport(t) \/ PrepareReport(t) \/ ReportNotSent(t)
  BY <1>4 DEF Execute, GateBusy, CheckOwner, GuardDenies, LeaveGate,
     GuardAllows, CommandRefused, TakeCommandLock, BeginReport, PrepareReport,
     ReportNotSent
<1>5. CASE DrainFirst(t)
  BY <1>5 DEF DrainFirst, HostDrained
<1>6. CASE CheckFence(t) \/ ReleaseAllCommand(t)
  BY <1>6 DEF CheckFence, NeutraliseAborted, ReleaseAllCommand, HostReleased
<1>7. CASE FinishAborted(t) \/ FinishOk(t) \/ FinishFailed(t)
  BY <1>7 DEF FinishAborted, FinishOk, FinishFailed, EndCommand, HostDrained,
     HostReleased
<1> QED  BY <1>1, <1>2, <1>3, <1>4, <1>5, <1>6, <1>7 DEF Command, Ownership

\* Sending aside, a step of a task presses nothing, and what the host still
\* holds stays accounted for.
LEMMA HostShrinks ==
  ASSUME HostInv, HostKept \/ HostDrained \/ HostReleased \/ HostForgotten
  PROVE  HostAccounted' /\ \A e \in Endpoints : host'[e] \in {{}, host[e]}
<1>1. resetPending \/ ~mounted => \A e \in Endpoints : host[e] = {}
  BY DEF HostInv, HostAccounted
<1>2. CASE HostKept
  BY <1>2 DEF HostKept, HostInv, HostAccounted
<1>3. CASE HostForgotten \/ (HostDrained /\ (resetPending \/ ~mounted))
  BY <1>1, <1>3 DEF HostForgotten, HostDrained, DrainNeutral, HostReset,
                    HostAccounted
<1>4. CASE HostReleased
  BY <1>4 DEF HostReleased, ReleaseAllLocked, HostInv, HostAccounted
<1>5. CASE HostDrained /\ ~resetPending /\ mounted
  BY <1>5 DEF HostDrained, DrainNeutral, ReleaseAllLocked, HostInv,
              HostAccounted
<1> QED  BY <1>2, <1>3, <1>4, <1>5

\* A report that is sent marks its endpoint before anything can reset it.
LEMMA HostEmit ==
  ASSUME HostInv, NEW t \in Tasks, EmitReport(t)
  PROVE  /\ HostAccounted'
         /\ \A u \in Tasks : pc[u] # "t_install"
<1>1. InCommand(t) /\ pc[t] = "emit" /\ cmdLock = t
  BY DEF EmitReport, InCommand, HostInv, Inv, LocksHeld, LockLabels
<1>2. reportOwner.gen # 0
  BY <1>1 DEF HostInv, Inv, BodyOwnsReport, Authority, CommandOrRevoker,
              Finished, TokenEqual
<1>3. HostAccounted'
  BY <1>1, <1>2 DEF EmitReport, HostInv, HostAccounted, QuietUsb, usbVars, Inv,
                    TypeOK
<1>4. \A u \in Tasks : pc[u] # "t_install"
  BY <1>1 DEF HostInv, Inv, LocksHeld, GateLabels, Authority, TransitionOpen,
              CommandOrRevoker, Revoking, TokenEqual, NoToken
<1> QED  BY <1>3, <1>4

\* After the neutral step nothing is held, or the step failed.
LEMMA HostNeutralise ==
  ASSUME HostInv, NEW t \in Tasks, Neutralise(t), neut'[t]
  PROVE  AllUp(host)'
<1>1. ~neutralPending' /\ UNCHANGED <<mounted, owed>>
  BY DEF Neutralise, HostInv, Inv, TypeOK
<1>2. HostAccounted'
  BY HostKinds, HostShrinks, HostEmit DEF Ownership, HostInv, Inv
<1>3. dirty' # {} => ~mounted
  BY <1>1, ReportNeutralise DEF HostInv, QuietUsb
<1> QED  BY <1>1, <1>2, <1>3 DEF HostAccounted, AllUp

\* A task comes to install an owner through the neutral step only, and into a
\* command body through the drain only.
LEMMA LabelStep ==
  ASSUME TypeOK, NEW t \in Tasks, Ownership(t) \/ Command(t), NEW u \in Tasks
  PROVE  /\ pc'[u] = "t_install" /\ neut'[u] =>
              (Neutralise(t) /\ u = t) \/ (pc[u] = "t_install" /\ neut[u])
         /\ pc'[u] \in {"x_begin", "run", "emit"} =>
              \/ DrainFirst(t)
              \/ pc[u] \in {"x_begin", "run", "emit"}
<1> USE DEF TypeOK, GoTo, Done, DropTransition
<1>1. CASE \/ EnterGate(t) \/ CallbackRejects(t) \/ KeepOwner(t)
           \/ InstallRefused(t) \/ Install(t) \/ GetOwner(t)
           \/ BindEmbeddedProducer(t)
  BY <1>1 DEF EnterGate, CallbackRejects, KeepOwner, LeaveGate, InstallRefused,
     Install, Return, GetOwner, BindEmbeddedProducer, transVars
<1>2. CASE \/ CallbackDecides(t) \/ ReleaseIfCurrent(t) \/ RevokeSession(t)
           \/ RevokeInGuard(t)
  BY <1>2 DEF CallbackDecides, ReleaseIfCurrent, RevokeSession, RevokeInGuard,
     StartTransition
<1>3. CASE Neutralise(t)
  BY <1>3 DEF Neutralise
<1>4. CASE \/ Execute(t) \/ GateBusy(t) \/ CheckOwner(t) \/ GuardDenies(t)
           \/ GuardAllows(t) \/ CommandRefused(t) \/ TakeCommandLock(t)
  BY <1>4 DEF Execute, GateBusy, CheckOwner, GuardDenies, LeaveGate,
     GuardAllows, CommandRefused, TakeCommandLock, transVars
<1>5. CASE DrainFirst(t) \/ BeginReport(t)
  BY <1>5 DEF DrainFirst, BeginReport, transVars
<1>6. CASE \/ PrepareReport(t) \/ ReportNotSent(t) \/ EmitReport(t)
           \/ CheckFence(t) \/ ReleaseAllCommand(t)
  BY <1>6 DEF PrepareReport, ReportNotSent, EmitReport, CheckFence,
     ReleaseAllCommand, Running, transVars
<1>7. CASE FinishAborted(t) \/ FinishOk(t) \/ FinishFailed(t)
  BY <1>7 DEF FinishAborted, FinishOk, FinishFailed, EndCommand
<1> QED  BY <1>1, <1>2, <1>3, <1>4, <1>5, <1>6, <1>7 DEF Ownership, Command

\* Every step keeps the invariant of the host.
LEMMA HostStep ==
  ASSUME HostInv, [Next]_vars, ~RacyUsb
  PROVE  HostInv'
<1>1. Inv'
  BY InvStep DEF HostInv
<1>2. CASE UNCHANGED vars
  BY <1>1, <1>2 DEF vars, authVars, reportVars, ownerVars, flagVars, usbVars,
     execVars, transVars, HostInv, HostAccounted, QuietUsb, NeutralHost, AllUp
<1>3. ASSUME NEW t \in Tasks, Ownership(t) \/ Command(t)
      PROVE  HostInv'
  <2>1. HostAccounted'
    BY <1>3, HostKinds, HostShrinks, HostEmit DEF HostInv, Inv
  <2>2. QuietUsb'
    <3>1. UNCHANGED <<mounted, owed>> /\ (resetPending' => resetPending)
      BY <1>3, HostKinds DEF HostInv, Inv, HostKept, HostDrained, DrainNeutral, HostReleased,
         HostForgotten, EmitReport, usbVars
    <3>2. DrainFirst(t) => ~resetPending'
      BY DEF DrainFirst, DrainNeutral
    <3>3. \A u \in Tasks : pc'[u] \in {"x_begin", "run", "emit"} =>
            DrainFirst(t) \/ pc[u] \in {"x_begin", "run", "emit"}
      BY <1>3, LabelStep DEF HostInv, Inv
    <3> QED  BY <3>1, <3>2, <3>3 DEF HostInv, QuietUsb
  <2>3. NeutralHost'
    <3> SUFFICES ASSUME NEW u \in Tasks, pc'[u] = "t_install", neut'[u]
                 PROVE  AllUp(host)'
      BY DEF NeutralHost
    <3>1. CASE Neutralise(t) /\ u = t
      BY <3>1, HostNeutralise
    <3>2. CASE ~(Neutralise(t) /\ u = t)
      <4>1. pc[u] = "t_install" /\ neut[u]
        BY <1>3, <3>2, LabelStep DEF HostInv, Inv
      <4>2. AllUp(host)
        BY <4>1 DEF HostInv, NeutralHost
      <4>3. \A e \in Endpoints : host'[e] \in {{}, host[e]}
        BY <4>1, <1>3, HostKinds, HostShrinks, HostEmit DEF HostInv, Inv
      <4> QED  BY <4>2, <4>3 DEF AllUp
    <3> QED  BY <3>1, <3>2
  <2> QED  BY <1>1, <2>1, <2>2, <2>3 DEF HostInv
<1>4. CASE Usb
  <2>1. HostAccounted' /\ NeutralHost'
    BY <1>4 DEF Usb, Detach, Attach, StoreReset, HostInv, HostAccounted,
       QuietUsb, NeutralHost, AllUp, Neutral, reportVars, ownerVars, transVars
  <2>2. QuietUsb'
    BY <1>4, HidAssumption DEF Usb, Detach, Attach, StoreReset, HostInv,
       QuietUsb, Inv, LocksHeld, LockLabels
  <2> QED  BY <1>1, <2>1, <2>2 DEF HostInv
<1> QED  BY <1>2, <1>3, <1>4 DEF Next

-----------------------------------------------------------------------------
(***************************************************************************)
(* The theorems.                                                           *)
(***************************************************************************)

\* A command sends a report only after the last look at the fence.
LEMMA OnlyPrepareEmits ==
  ASSUME TypeOK, Next, NEW t \in Tasks, pc[t] = "run", pc'[t] = "emit"
  PROVE  PrepareReport(t)
<1> USE DEF TypeOK, GoTo, Done
<1>1. ~Usb
  BY DEF Usb, Detach, Attach, StoreReset
<1>2. PICK u \in Tasks : Ownership(u) \/ Command(u)
  BY <1>1 DEF Next
<1>3. CASE Ownership(u)
  <2>1. CASE \/ CallbackDecides(u) \/ ReleaseIfCurrent(u) \/ RevokeSession(u)
             \/ RevokeInGuard(u)
    BY <2>1 DEF CallbackDecides, ReleaseIfCurrent, RevokeSession,
       RevokeInGuard, StartTransition
  <2> QED  BY <1>3, <2>1 DEF Ownership, EnterGate, CallbackRejects, KeepOwner,
              LeaveGate, Neutralise, InstallRefused, Install, Return, GetOwner,
              BindEmbeddedProducer
<1>4. CASE Command(u)
  BY <1>4 DEF Command, Execute, GateBusy, CheckOwner, GuardDenies, LeaveGate,
     GuardAllows, CommandRefused, TakeCommandLock, DrainFirst, BeginReport,
     PrepareReport, ReportNotSent, EmitReport, CheckFence, ReleaseAllCommand,
     FinishAborted, FinishOk, FinishFailed, EndCommand
<1> QED  BY <1>2, <1>3, <1>4

\* An owner appears only in the last step of a transition.
LEMMA OnlyInstallGrants ==
  ASSUME Next, current' # current, current'.gen # 0
  PROVE  \E t \in Tasks : Install(t)
<1> USE DEF authVars
<1>1. ~Usb
  BY DEF Usb, Detach, Attach, StoreReset
<1>2. PICK t \in Tasks : Ownership(t) \/ Command(t)
  BY <1>1 DEF Next
<1>3. CASE Ownership(t)
  <2>1. CASE \/ CallbackDecides(t) \/ ReleaseIfCurrent(t) \/ RevokeSession(t)
             \/ RevokeInGuard(t)
    BY <2>1 DEF CallbackDecides, ReleaseIfCurrent, RevokeSession,
       RevokeInGuard, StartTransition, NoToken
  <2> QED  BY <1>3, <2>1 DEF Ownership, EnterGate, CallbackRejects, KeepOwner,
              LeaveGate, Neutralise, InstallRefused, GetOwner,
              BindEmbeddedProducer
<1>4. CASE Command(t)
  BY <1>4 DEF Command, Execute, GateBusy, CheckOwner, GuardDenies, LeaveGate,
     GuardAllows, CommandRefused, TakeCommandLock, DrainFirst, BeginReport,
     PrepareReport, ReportNotSent, EmitReport, CheckFence, ReleaseAllCommand,
     FinishAborted, FinishOk, FinishFailed, EndCommand
<1> QED  BY <1>2, <1>3, <1>4

\* The invariant holds throughout, whatever the USB bus does.
LEMMA Invariance == Spec => []Inv
<1>1. Inv /\ [Next]_vars => Inv'
  BY InvStep
<1> QED  BY <1>1, InvInit, PTL DEF Spec

\* The types of HidDevice are kept by every step of hid_device.c, the
\* wrap-around of the fence included.
THEOREM TypeCorrect == Spec => []TypeOK
<1>1. Inv => TypeOK
  BY DEF Inv
<1> QED  BY <1>1, Invariance, PTL

\* A command of si_hid_execute_owned runs under the command lock and for the
\* current owner, or for the one whose revoker is waiting for it.
THEOREM CommandsAreAuthorized == Spec => []RunningCommandIsAuthorized
<1>1. Inv => RunningCommandIsAuthorized
  BY DEF Inv, LocksHeld, LockLabels, InCommand, Authority, CommandOrRevoker,
         RunningCommandIsAuthorized
<1> QED  BY <1>1, Invariance, PTL

\* A dirty report has an owner, and something is left that will neutralise it.
THEOREM DirtyIsOwned == Spec => []DirtyReportsAreOwned
<1>1. Inv => DirtyReportsAreOwned
  BY DEF Inv
<1> QED  BY <1>1, Invariance, PTL

\* The producer table of hid_device.c never holds the token of an old owner.
THEOREM BindingsAreCurrent == Spec => []BoundIsCurrent
<1>1. Inv => BoundIsCurrent
  BY DEF Inv, Authority
<1> QED  BY <1>1, Invariance, PTL

\* No command prepares a report after its owner has been revoked.
THEOREM RevocationStopsReports == Spec => NoReportAfterRevoke
<1> DEFINE Step == \A t \in Tasks : pc[t] = "run" /\ pc'[t] = "emit"
                                     => TokenEqual(current, tok[t])
<1>1. Inv /\ [Next]_vars => [Step]_vars
  <2> SUFFICES ASSUME Inv, Next, NEW t \in Tasks,
                      pc[t] = "run", pc'[t] = "emit"
               PROVE  TokenEqual(current, tok[t])
    OBVIOUS
  <2>1. PrepareReport(t)
    BY OnlyPrepareEmits DEF Inv
  <2>2. ~Finished(t)
    BY <2>1, BodyLength DEF PrepareReport, Running, Finished, Inv, TypeOK, Body
  <2>3. adm[t] = fence
    BY <2>1, <2>2 DEF PrepareReport, Aborted, Inv, BodyOwnsReport, InCommand
  <2> QED  BY <2>3 DEF Inv, Authority, CommandOrRevoker, InCommand
<1> QED  BY <1>1, Invariance, PTL DEF Spec, NoReportAfterRevoke

\* With a bus that re-enumerates the device between commands only, every owner
\* starts with a host that holds no key and no button.
THEOREM HandoffIsNeutral ==
  ASSUME ~RacyUsb
  PROVE  Spec => HandoffNeutral
<1> DEFINE Step == current' # current /\ current'.gen # 0 => AllUp(host)
<1>1. Init => HostInv
  BY InvInit DEF Init, HostInv, HostAccounted, QuietUsb, NeutralHost, Neutral
<1>2. HostInv /\ [Next]_vars => HostInv'
  BY HostStep
<1>3. HostInv /\ [Next]_vars => [Step]_vars
  <2> SUFFICES ASSUME HostInv, Next, current' # current, current'.gen # 0
               PROVE  AllUp(host)
    OBVIOUS
  <2>1. PICK t \in Tasks : Install(t)
    BY OnlyInstallGrants
  <2>2. CASE mounted
    BY <2>1, <2>2 DEF Install, HostInv, NeutralHost
  <2>3. CASE ~mounted
    BY <2>3 DEF HostInv, HostAccounted, AllUp
  <2> QED  BY <2>2, <2>3
<1> QED  BY <1>1, <1>2, <1>3, PTL DEF Spec, HandoffNeutral

-----------------------------------------------------------------------------
(***************************************************************************)
(* HidDevice implements ExclusiveInput: each step is a Grant, a Report or  *)
(* a Withdraw of the promise, or leaves it alone.                          *)
(***************************************************************************)

\* The host sees the command that runs, whose token is the holder's.
LEMMA HolderRuns ==
  ASSUME LocksHeld, NEW t \in Tasks, InCommand(t)
  PROVE  Holder = tok[t].gen
<1>1. \A u \in Tasks : InCommand(u) => u = t
  BY OneCommand DEF LocksHeld, LockLabels, InCommand
<1>2. (CHOOSE u \in Tasks : InCommand(u)) = t
  BY <1>1
<1> QED  BY <1>2 DEF Holder

\* The same in the next state.
LEMMA HolderRunsNext ==
  ASSUME LocksHeld', NEW t \in Tasks, InCommand(t)'
  PROVE  Holder' = tok'[t].gen
<1>1. \A u \in Tasks : InCommand(u)' => u = t
  BY DEF LocksHeld, LockLabels, InCommand
<1>2. (CHOOSE u \in Tasks : InCommand(u)') = t
  BY <1>1
<1> QED  BY <1>2 DEF Holder

\* Between commands the holder is the owner in force.
LEMMA HolderRests ==
  /\ (\A t \in Tasks : ~InCommand(t)) => Holder = current.gen
  /\ (\A t \in Tasks : ~InCommand(t)') => Holder' = current'.gen
BY DEF Holder

\* A command begins for the owner in force, keeps its token while it runs, and
\* its end leaves the owner alone.
LEMMA CommandMoves ==
  ASSUME TypeOK, NEW t \in Tasks, Ownership(t) \/ Command(t), NEW u \in Tasks
  PROVE  /\ InCommand(u)' =>
              /\ tok'[u] = tok[u]
              /\ InCommand(u) \/ (TokenEqual(current, tok[u]) /\ current' = current)
         /\ InCommand(u) /\ ~InCommand(u)' => current' = current
<1> USE DEF TypeOK, GoTo, Done, DropExecution, InCommand
<1>1. CASE \/ EnterGate(t) \/ CallbackRejects(t) \/ KeepOwner(t)
           \/ GetOwner(t) \/ BindEmbeddedProducer(t) \/ Neutralise(t)
  BY <1>1 DEF EnterGate, CallbackRejects, KeepOwner, LeaveGate, GetOwner,
     BindEmbeddedProducer, Neutralise, execVars
<1>2. CASE Starts(t)
  BY <1>2 DEF Starts, CallbackDecides, ReleaseIfCurrent, RevokeSession,
     RevokeInGuard, StartTransition, execVars
<1>3. CASE InstallRefused(t) \/ Install(t)
  BY <1>3 DEF InstallRefused, Install, Return, execVars
<1>4. CASE \/ Execute(t) \/ GateBusy(t) \/ CheckOwner(t) \/ GuardDenies(t)
           \/ GuardAllows(t) \/ CommandRefused(t) \/ TakeCommandLock(t)
           \/ DrainFirst(t)
  BY <1>4 DEF Execute, GateBusy, CheckOwner, GuardDenies, LeaveGate,
     GuardAllows, CommandRefused, TakeCommandLock, DrainFirst, execVars
<1>5. CASE BeginReport(t)
  BY <1>5 DEF BeginReport, execVars, authVars, IsCurrent
<1>6. CASE \/ PrepareReport(t) \/ ReportNotSent(t) \/ EmitReport(t)
           \/ CheckFence(t) \/ ReleaseAllCommand(t)
  BY <1>6 DEF PrepareReport, ReportNotSent, EmitReport, CheckFence,
     ReleaseAllCommand, Running
<1>7. CASE FinishAborted(t) \/ FinishOk(t) \/ FinishFailed(t)
  BY <1>7 DEF FinishAborted, FinishOk, FinishFailed, EndCommand, Finished,
     authVars
<1> QED  BY <1>1, <1>2, <1>3, <1>4, <1>5, <1>6, <1>7 DEF Ownership, Command, Starts

\* Who owns the reports changes in the two halves of a transition only.
LEMMA CurrentMoves ==
  ASSUME TypeOK, NEW t \in Tasks, Ownership(t) \/ Command(t)
  PROVE  \/ UNCHANGED <<current, nextGen>>
         \/ current' = NoToken /\ nextGen' \in {nextGen, nextGen + 1}
         \/ Install(t) /\ req[t] # NoClaim
<1> USE DEF authVars
<1>1. CASE Starts(t)
  BY <1>1 DEF Starts, CallbackDecides, ReleaseIfCurrent, RevokeSession,
     RevokeInGuard, StartTransition
<1>2. CASE Install(t)
  BY <1>2 DEF Install
<1>3. CASE Ownership(t) /\ ~Starts(t) /\ ~Install(t)
  BY <1>3 DEF Starts, Ownership, EnterGate, CallbackRejects, KeepOwner,
     LeaveGate, Neutralise, InstallRefused, GetOwner, BindEmbeddedProducer
<1>4. CASE Command(t)
  BY <1>4 DEF Command, Execute, GateBusy, CheckOwner, GuardDenies, LeaveGate,
     GuardAllows, CommandRefused, TakeCommandLock, DrainFirst, BeginReport,
     PrepareReport, ReportNotSent, EmitReport, CheckFence, ReleaseAllCommand,
     FinishAborted, FinishOk, FinishFailed, EndCommand
<1> QED  BY <1>1, <1>2, <1>3, <1>4

\* Without a grant, the holder stays or control ends.
LEMMA HolderMoves ==
  ASSUME Inv, Inv', NEW t \in Tasks, Ownership(t) \/ Command(t),
         ~(Install(t) /\ req[t] # NoClaim)
  PROVE  Holder' \in {0, Holder} /\ nextGen' \in {nextGen, nextGen + 1}
<1>1. \/ UNCHANGED <<current, nextGen>>
      \/ current' = NoToken /\ nextGen' \in {nextGen, nextGen + 1}
  BY CurrentMoves DEF Inv
<1>2. LocksHeld /\ LocksHeld' /\ NoToken.gen = 0
  BY DEF Inv, NoToken
<1>3. CASE \E u \in Tasks : InCommand(u)'
  <2>1. PICK u \in Tasks : InCommand(u)'
    BY <1>3
  <2>2. Holder' = tok'[u].gen /\ tok'[u] = tok[u]
    BY <1>2, <2>1, HolderRunsNext, CommandMoves DEF Inv
  <2>3. CASE InCommand(u)
    BY <1>1, <1>2, <2>2, <2>3, HolderRuns
  <2>4. CASE ~InCommand(u)
    <3>1. TokenEqual(current, tok[u]) /\ current' = current
      BY <2>1, <2>4, CommandMoves DEF Inv
    <3>2. CASE \E v \in Tasks : InCommand(v)
      <4>1. PICK v \in Tasks : InCommand(v)
        BY <3>2
      <4>2. \/ TokenEqual(current, tok[v])
            \/ \E w \in Tasks : Revoking(w, tok[v])
        BY <4>1 DEF Inv, Authority, CommandOrRevoker
      <4>3. \A w \in Tasks : ~Revoking(w, tok[v])
        BY <3>1, <1>2 DEF Revoking, Inv, Authority, TransitionOpen, TokenEqual
      <4> QED  BY <1>1, <1>2, <2>2, <3>1, <4>1, <4>2, <4>3, HolderRuns DEF TokenEqual
    <3>3. CASE \A v \in Tasks : ~InCommand(v)
      BY <1>1, <2>2, <3>1, <3>3, HolderRests DEF TokenEqual
    <3> QED  BY <3>2, <3>3
  <2> QED  BY <2>3, <2>4
<1>4. CASE \A u \in Tasks : ~InCommand(u)'
  <2>1. Holder' = current'.gen
    BY <1>4, HolderRests
  <2>2. CASE \A u \in Tasks : ~InCommand(u)
    BY <1>1, <1>2, <2>1, <2>2, HolderRests
  <2>3. CASE \E u \in Tasks : InCommand(u)
    <3>1. PICK u \in Tasks : InCommand(u)
      BY <2>3
    <3>2. Holder = tok[u].gen
      BY <1>2, <3>1, HolderRuns
    <3>3. \/ TokenEqual(current, tok[u])
          \/ \E w \in Tasks : Revoking(w, tok[u])
      BY <3>1 DEF Inv, Authority, CommandOrRevoker
    <3>4. (\E w \in Tasks : Revoking(w, tok[u])) => current.gen = 0
      BY <1>2 DEF Revoking, Inv, Authority, TransitionOpen
    <3> QED  BY <1>1, <1>2, <2>1, <3>2, <3>3, <3>4 DEF TokenEqual
  <2> QED  BY <2>2, <2>3
<1> QED  BY <1>3, <1>4

\* The last step of a transition grants control to a host that holds nothing.
LEMMA InstallGrants ==
  ASSUME HostInv, Inv', NEW t \in Tasks, Install(t), req[t] # NoClaim
  PROVE  Promise!Grant
<1>1. pc[t] = "t_install" /\ current = NoToken /\ NoToken.gen = 0
  BY DEF Install, HostInv, Inv, Authority, TransitionOpen, NoToken
<1>2. \A u \in Tasks : ~InCommand(u)
  BY <1>1 DEF HostInv, Inv, LocksHeld, GateLabels, Authority, CommandOrRevoker,
     Revoking, TokenEqual
<1>3. \A u \in Tasks : ~InCommand(u)'
  BY <1>1, <1>2, CommandMoves DEF HostInv, Inv, Ownership, TokenEqual
<1>4. Holder = 0 /\ Holder' = current'.gen
  BY <1>1, <1>2, <1>3, HolderRests
<1>5. nextGen' = nextGen + 1 /\ current'.gen = nextGen'
  BY DEF Install, Token
<1>6. host' = host /\ nextGen \in Nat
  BY HidAssumption DEF Install, Return, reportVars, HostInv, Inv, TypeOK
<1>7. \A e \in Endpoints : host[e] = {}
  BY <1>1 DEF Install, HostInv, NeutralHost, HostAccounted, AllUp
<1> QED  BY <1>4, <1>5, <1>6, <1>7 DEF Promise!Grant

\* A report is one of the holder.
LEMMA EmitReports ==
  ASSUME HostInv, Inv', NEW t \in Tasks, EmitReport(t)
  PROVE  Promise!Report
<1>1. InCommand(t) /\ InCommand(t)' /\ tok' = tok /\ nextGen' = nextGen
  BY DEF EmitReport, InCommand, GoTo, authVars, HostInv, Inv, TypeOK
<1>2. tok[t].gen # 0
  BY <1>1 DEF HostInv, Inv, Authority, CommandOrRevoker, TokenEqual
<1>3. Holder = tok[t].gen /\ Holder' = tok[t].gen
  BY <1>1, HolderRuns, HolderRunsNext DEF HostInv, Inv
<1>4. host' \in [Endpoints -> SUBSET Keys]
  BY DEF Inv, TypeOK
<1> QED  BY <1>1, <1>2, <1>3, <1>4 DEF Promise!Report

\* Every other step presses nothing and gives control to nobody.
LEMMA OthersWithdraw ==
  ASSUME HostInv, Inv', NEW t \in Tasks, Ownership(t) \/ Command(t),
         ~EmitReport(t), ~(Install(t) /\ req[t] # NoClaim)
  PROVE  Promise!Withdraw
<1>1. Holder' \in {0, Holder} /\ nextGen' \in {nextGen, nextGen + 1}
  BY HolderMoves DEF HostInv
<1>2. \A e \in Endpoints : host'[e] \in {{}, host[e]}
  BY HostKinds, HostShrinks DEF HostInv, Inv
<1>3. host' \in [Endpoints -> SUBSET Keys]
  BY DEF Inv, TypeOK
<1> QED  BY <1>1, <1>2, <1>3 DEF Promise!Withdraw, Promise!NothingPressed

\* So does the bus: a host that loses the device forgets its keys.
LEMMA UsbWithdraws ==
  ASSUME HostInv, Inv', Usb
  PROVE  Promise!Withdraw
<1>1. UNCHANGED <<pc, tok, current, nextGen>>
  BY DEF Usb, Detach, Attach, StoreReset, authVars, execVars
<1>2. Holder' = Holder
  BY <1>1 DEF Holder, InCommand
<1>3. host' = host \/ host' = Neutral
  BY DEF Usb, Detach, Attach, StoreReset, reportVars
<1>4. host' \in [Endpoints -> SUBSET Keys]
  BY DEF Inv, TypeOK
<1> QED  BY <1>1, <1>2, <1>3, <1>4
         DEF Promise!Withdraw, Promise!NothingPressed, Neutral

\* The HID manager implements ExclusiveInput: with a bus that re-enumerates the
\* device between commands only, the host's input comes from one holder at a
\* time, control is given under a new generation to a host that holds nothing,
\* and only the holder presses keys.
THEOREM InputIsExclusive ==
  ASSUME ~RacyUsb
  PROVE  Spec => ImplementsExclusiveInput
<1>1. Init => HostInv
  BY InvInit DEF Init, HostInv, HostAccounted, QuietUsb, NeutralHost, Neutral
<1>2. HostInv /\ [Next]_vars => HostInv'
  BY HostStep
<1>3. Init => Promise!Init
  BY HolderRests DEF Init, Promise!Init, Neutral, InCommand, NoToken
<1>4. HostInv /\ [Next]_vars => [Promise!Next]_(Promise!vars)
  <2> SUFFICES ASSUME HostInv, [Next]_vars
               PROVE  [Promise!Next]_(Promise!vars)
    OBVIOUS
  <2>1. Inv'
    BY HostStep DEF HostInv
  <2>2. CASE UNCHANGED vars
    BY <2>2 DEF vars, authVars, reportVars, execVars, Promise!vars, Holder,
       InCommand
  <2>3. CASE Usb
    BY <2>1, <2>3, UsbWithdraws DEF Promise!Next
  <2>4. ASSUME NEW t \in Tasks, Ownership(t) \/ Command(t)
        PROVE  Promise!Next
    BY <2>1, <2>4, InstallGrants, EmitReports, OthersWithdraw DEF Promise!Next
  <2> QED  BY <2>2, <2>3, <2>4 DEF Next
<1> QED  BY <1>1, <1>2, <1>3, <1>4, PTL
         DEF Spec, ImplementsExclusiveInput, Promise!Spec
===============================================================================
