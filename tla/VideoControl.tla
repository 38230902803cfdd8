----------------------------- MODULE VideoControl -----------------------------
(***************************************************************************)
(* KVM streams and the video takeover of the automation                    *)
(* (main/application/video_control.c, the part that decides on HID).  A    *)
(* browser page owns the KVM under a stream id that it chose; it keeps the *)
(* stream alive with heartbeats, and its WebSocket claims the reports.     *)
(* The automation's own liveness is kept under the module's lock alone,    *)
(* outside the HID gate.                                                   *)
(***************************************************************************)
EXTENDS HidAuthority

CONSTANTS
  Streams,         \* stream ids, positive
  Actors,          \* automation actors that touch the video lease
  CanceledSlots    \* VIDEO_CANCELED_STREAM_SLOTS

ASSUME VideoAssumption ==
  Streams \subseteq Nat \ {0} /\ CanceledSlots \in Nat \ {0}

VARIABLES
  kvm,        \* s_kvm_seen and s_kvm_last_ms as a phase, stream, epoch, who
  ring,       \* s_kvm_canceled_streams
  cursor,     \* s_kvm_canceled_cursor
  agent,      \* s_agent_seen and s_agent_last_ms as a phase
  takeover    \* s_agent_takeover

kvmVars == <<kvm, ring, cursor, agent, takeover>>

NoOne == [session |-> NoSession, auth |-> 0]

Kvm(phase, stream, epoch, who) ==
  [phase |-> phase, stream |-> stream, epoch |-> epoch, who |-> who]

VideoInit ==
  /\ kvm = Kvm("none", 0, 1, NoOne)
  /\ ring = [i \in 0..(CanceledSlots - 1) |-> 0] /\ cursor = 0
  /\ agent = "none" /\ takeover = FALSE

\* stream_was_canceled_locked.
Canceled(s) == s # 0 /\ \E i \in DOMAIN ring : ring[i] = s

\* forget_canceled_stream_locked leaves a hole.
Forgotten(r, s) == [i \in DOMAIN r |-> IF r[i] = s THEN 0 ELSE r[i]]

\* remember_canceled_stream_locked on the ring r, which the oldest entry
\* leaves.
Remember(r, s) ==
  IF s = 0 \/ \E i \in DOMAIN r : r[i] = s
  THEN ring' = r /\ UNCHANGED cursor
  ELSE /\ ring' = [r EXCEPT ![cursor] = s]
       /\ cursor' = (cursor + 1) % CanceledSlots

KvmActive == kvm.phase = "fresh"

\* Every callback first drops a takeover whose automation went silent.
TakeoverNow == takeover /\ agent = "fresh"

KvmClaim(k) ==
  [kind |-> KvmKind, session |-> k.who.session, auth |-> k.who.auth,
   resource |-> k.stream, epoch |-> k.epoch]

\* Mutant: the heartbeat takes the reports back from the automation's lease.
DesiredIgnoringLease(k, held) ==
  IF /\ k.phase = "fresh" /\ ~held
     /\ k.stream # 0 /\ k.who.session # NoSession
  THEN KvmClaim(k)
  ELSE IF current.claim.kind # KvmKind THEN current.claim ELSE NoClaim

\* The end of kvm_transition_under_hid_gate with set_kvm_hid_claim_locked: an
\* active stream gets the reports unless the automation has taken over or
\* owns them through a lease.
DesiredKvmOwner(k, held) ==
  IF /\ k.phase = "fresh" /\ ~held /\ current.claim.kind # LeaseKind
     /\ k.stream # 0 /\ k.who.session # NoSession
  THEN KvmClaim(k)
  ELSE IF current.claim.kind # KvmKind THEN current.claim ELSE NoClaim

\* A callback that does not accept; the silent takeover is dropped even so.
NotAccepted ==
  takeover' = TakeoverNow /\ UNCHANGED <<hidVars, kvm, ring, cursor, agent>>

-----------------------------------------------------------------------------
Owns(w, s) == kvm.stream = s /\ kvm.who = w

LiveHeartbeat(w, s) == Owns(w, s) /\ KvmActive

\* Why ACQUIRE accepts: by force, as the stream's own heartbeat, or as a
\* claim of a stream that was not canceled on a free or expired KVM or in
\* exchange for the stream the page names as its predecessor.
Accepts(w, s, force, claim, previous) ==
  \/ force
  \/ LiveHeartbeat(w, s)
  \/ /\ claim /\ ~Canceled(s)
     /\ \/ kvm.stream = 0
        \/ previous # 0 /\ kvm.stream = previous
        \/ ~KvmActive

\* KVM_OP_ACQUIRE; the browser session is checked under the gate.
Acquire(w, s, force, claim, previous) ==
  /\ Live(w)
  /\ Accepts(w, s, force, claim, previous)
  /\ LET r == IF force THEN Forgotten(ring, s) ELSE ring
     IN IF kvm.stream = s THEN ring' = r /\ UNCHANGED cursor
        ELSE Remember(r, kvm.stream)
  /\ agent' = IF force THEN "none" ELSE agent
  /\ takeover' = (TakeoverNow /\ ~force)
  /\ kvm' = Kvm("fresh", s,
                IF LiveHeartbeat(w, s) THEN kvm.epoch ELSE kvm.epoch + 1, w)
  /\ Handover(DesiredKvmOwner(kvm', takeover'), FALSE)

AcquireRejected(w, s, claim, previous) ==
  /\ Live(w) /\ ~Accepts(w, s, FALSE, claim, previous)
  /\ NotAccepted

\* KVM_OP_RELEASE.
ReleaseStream(w, s) ==
  /\ Live(w)
  /\ Owns(w, s)
  /\ Remember(ring, s)
  /\ kvm' = Kvm("none", 0, kvm.epoch + 1, NoOne)
  /\ takeover' = TakeoverNow /\ UNCHANGED agent
  /\ Handover(DesiredKvmOwner(kvm', takeover'), FALSE)

ReleaseRejected(w, s) ==
  /\ Live(w) /\ ~Owns(w, s)
  /\ NotAccepted

\* Mutant: the session was checked before the handshake, that will do.
WsAcceptedUnchecked(w, s) == LiveHeartbeat(w, s) /\ ~Canceled(s) /\ ~TakeoverNow

\* KVM_OP_WS_CLAIM: the socket of the current stream asks for a new token.
WsAccepted(w, s) ==
  /\ Live(w) /\ LiveHeartbeat(w, s)
  /\ ~Canceled(s) /\ ~TakeoverNow

WsUpdate(w, s) ==
  /\ kvm' = Kvm(kvm.phase, s, kvm.epoch + 1, w)
  /\ takeover' = TakeoverNow /\ UNCHANGED <<ring, cursor, agent>>

\* Mutant: the automation takes over and the KVM keeps the reports.
AgentKeepsOwner(take) ==
  /\ agent' = "fresh" /\ takeover' = take
  /\ UNCHANGED <<hidVars, kvm, ring, cursor>>

\* KVM_OP_AGENT: without takeover the owner is preserved.
TouchAutomation(take) ==
  /\ agent' = "fresh" /\ takeover' = take
  /\ IF take THEN Handover(DesiredKvmOwner(kvm, TRUE), FALSE)
     ELSE UNCHANGED hidVars
  /\ UNCHANGED <<kvm, ring, cursor>>

\* KVM_OP_EXPIRE, every 50 ms.
ExpireKvm ==
  /\ kvm.phase = "stale"
  /\ kvm' = Kvm("none", kvm.stream, kvm.epoch + 1, NoOne)
  /\ takeover' = TakeoverNow
  /\ Handover(DesiredKvmOwner(kvm', takeover'), FALSE)
  /\ UNCHANGED <<ring, cursor, agent>>

ExpireNothing == kvm.phase # "stale" /\ NotAccepted

\* si_video_control_keep_automation_alive and si_video_control_release_agent
\* take the module's lock only.
KeepAutomationAlive ==
  agent' = "fresh" /\ UNCHANGED <<hidVars, kvm, ring, cursor, takeover>>

ReleaseAgent ==
  /\ agent' = "none" /\ takeover' = FALSE
  /\ UNCHANGED <<hidVars, kvm, ring, cursor>>

KvmAges ==
  /\ KvmActive
  /\ kvm' = Kvm("stale", kvm.stream, kvm.epoch, kvm.who)
  /\ UNCHANGED <<hidVars, ring, cursor, agent, takeover>>

AgentAges ==
  /\ agent = "fresh" /\ agent' = "stale"
  /\ UNCHANGED <<hidVars, kvm, ring, cursor, takeover>>

PageNext(w, s) ==
  \/ \E force, claim \in BOOLEAN, previous \in Streams \cup {0} :
       \/ Acquire(w, s, force, claim, previous)
       \/ AcquireRejected(w, s, claim, previous)
  \/ ReleaseStream(w, s) \/ ReleaseRejected(w, s)

\* The actor's name only feeds the stream epoch of the status, left out.
AutomationNext ==
  \E actor \in Actors :
    \/ \E take \in BOOLEAN : TouchAutomation(take)
    \/ KeepAutomationAlive \/ ReleaseAgent

VideoTypeOK ==
  /\ kvm \in [phase: {"none", "fresh", "stale"}, stream: Streams \cup {0},
              epoch: Nat \ {0}, who: Browsers \cup {NoOne}]
  /\ ring \in [0..(CanceledSlots - 1) -> Streams \cup {0}]
  /\ cursor \in 0..(CanceledSlots - 1)
  /\ agent \in {"none", "fresh", "stale"} /\ takeover \in BOOLEAN
===============================================================================
