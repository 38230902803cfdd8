----------------------------- MODULE ControlPlane -----------------------------
(***************************************************************************)
(* Who may drive the host: the control lease, the KVM stream and its       *)
(* WebSockets, the automation's takeover and the authenticated sessions,   *)
(* all of which meet at the HID authority gate.  One step is one callback  *)
(* under the gate, or one access under a module's own lock.                *)
(***************************************************************************)
EXTENDS ControlLease, VideoControl

CONSTANTS
  Sockets,    \* KVM HID WebSockets
  MaxGen,     \* bound: no request starts that could mint more generations
  MaxEpoch    \* bound: no request starts at a higher lease or KVM epoch

VARIABLE sock   \* the context of each socket: its place, session and token

vars == <<hidVars, sess, leaseVars, producerVars, kvmVars, sock>>

ClosedSocket == [pc |-> "closed", who |-> NoWho, stream |-> 0, tok |-> NoToken]

Init ==
  /\ HidInit /\ AuthInit /\ LeaseInit /\ VideoInit
  /\ sock = [k \in Sockets |-> ClosedSocket]

-----------------------------------------------------------------------------
(***************************************************************************)
(* The KVM HID WebSocket (main/services/status_ws.c).                      *)
(***************************************************************************)
Socket(pc, who, stream, tok) ==
  [pc |-> pc, who |-> who, stream |-> stream, tok |-> tok]

\* hid_ws_pre_handshake up to the answer 409: a socket does not even try
\* while the automation controls the input.
WsCheck(k, w, s) ==
  /\ sock[k].pc = "closed" /\ Live(w)
  /\ ~InputControlActive
  /\ sock' = [sock EXCEPT ![k] = Socket("claim", w, s, NoToken)]
  /\ UNCHANGED <<hidVars, kvmVars>>

\* si_video_control_claim_kvm_hid_owner, and the context that keeps the token.
WsClaim(k) ==
  LET w == sock[k].who
      s == sock[k].stream
  IN /\ sock[k].pc = "claim" /\ WsAccepted(w, s)
     /\ WsUpdate(w, s)
     /\ HandoverDone(DesiredKvmOwner(kvm', takeover'), TRUE)
     /\ sock' = [sock EXCEPT ![k] = Socket("open", w, s, current')]

WsClaimFails(k) ==
  LET w == sock[k].who
      s == sock[k].stream
  IN /\ sock[k].pc = "claim"
     /\ IF WsAccepted(w, s)
          THEN /\ WsUpdate(w, s)
               /\ HandoverFails(DesiredKvmOwner(kvm', takeover'), TRUE)
          ELSE NotAccepted
     /\ sock' = [sock EXCEPT ![k] = ClosedSocket]

\* Mutant: the close of a socket releases whoever owns the reports.
ReleaseCurrent(token) == Handover(NoClaim, FALSE)

\* hid_ws_ctx_free: on close, on a refused frame, or when the peer is gone.
WsRelease(token) == ReleaseToken(token)

WsClose(k) ==
  /\ sock[k].pc = "open"
  /\ WsRelease(sock[k].tok)
  /\ sock' = [sock EXCEPT ![k] = ClosedSocket]
  /\ UNCHANGED kvmVars

-----------------------------------------------------------------------------
(***************************************************************************)
(* The end of a session: revoked_sessions_apply calls                      *)
(* si_control_lease_revoke_auth_session, two visits to the gate.           *)
(***************************************************************************)
RevokeHid(w) ==
  /\ sess[w] = "ended"
  /\ RevokeTokenOf(w)
  /\ sess' = [sess EXCEPT ![w] = "unhid"]
  /\ UNCHANGED <<leaseVars, producerVars>>

RevokeLeaseOf(w) ==
  /\ sess[w] = "unhid"
  /\ RevokeLease(w) \/ RevokeLater(w)
  /\ sess' = [sess EXCEPT ![w] = "revoked"]

\* automation_request_stop_actor revokes the session that a status snapshot
\* named, with auth generation 0.
Stop(name) ==
  LET r == [session |-> name, auth |-> 0]
  IN RevokeLease(r) \/ RevokeLater(r)

\* The sessions that a snapshot, perhaps an old one, may name.
Names == {w.session : w \in {v \in Sessions : sess[v] # "new"} \cup {Embedded}}

-----------------------------------------------------------------------------
Room ==
  /\ nextGen + 4 <= MaxGen
  /\ lease.epoch < MaxEpoch /\ kvm.epoch < MaxEpoch

AuthStep(w) ==
  /\ CreateSession(w) \/ EndSession(w)
  /\ UNCHANGED <<hidVars, leaseVars, producerVars, kvmVars, sock>>

ProducerStep(p) ==
  Room /\ ProducerNext(p) /\ UNCHANGED <<sess, kvmVars, sock>>

UpdateStep(w) ==
  Room /\ SessionUpdate(w) /\ UNCHANGED <<sess, kvmVars, sock>>

StopStep == \E name \in Names : Room /\ Stop(name) /\ UNCHANGED <<sess, kvmVars, sock>>

RevokeStep(w) ==
  (RevokeHid(w) \/ RevokeLeaseOf(w)) /\ UNCHANGED <<kvmVars, sock>>

MaintainStep == Maintain /\ UNCHANGED <<sess, kvmVars, sock>>

PageStep ==
  /\ Room /\ \E w \in Browsers, s \in Streams : PageNext(w, s)
  /\ UNCHANGED <<sess, leaseVars, producerVars, sock>>

AutomationStep ==
  Room /\ AutomationNext /\ UNCHANGED <<sess, leaseVars, producerVars, sock>>

ExpireStep ==
  /\ ExpireKvm \/ ExpireNothing
  /\ UNCHANGED <<sess, leaseVars, producerVars, sock>>

SocketStep(k) ==
  /\ \/ \E w \in Browsers, s \in Streams : Room /\ WsCheck(k, w, s)
     \/ Room /\ WsClaim(k)
     \/ WsClaimFails(k) \/ WsClose(k)
  /\ UNCHANGED <<sess, leaseVars, producerVars>>

TimePasses ==
  /\ \/ LeaseAges /\ UNCHANGED kvmVars
     \/ (KvmAges \/ AgentAges) /\ UNCHANGED <<leaseVars, producerVars>>
  /\ UNCHANGED <<sess, sock>>

Next ==
  \/ \E w \in Sessions : AuthStep(w) \/ UpdateStep(w) \/ RevokeStep(w)
  \/ \E p \in Producers : ProducerStep(p)
  \/ \E k \in Sockets : SocketStep(k)
  \/ StopStep \/ MaintainStep \/ PageStep \/ AutomationStep \/ ExpireStep
  \/ TimePasses

Spec == Init /\ [][Next]_vars

\* The two 50 ms tasks run for ever, and the task that ended a session goes
\* on to revoke it.  Clients owe nothing.
FairSpec ==
  /\ Spec
  /\ WF_vars(MaintainStep) /\ WF_vars(ExpireStep)
  /\ \A w \in Sessions : WF_vars(RevokeStep(w))

-----------------------------------------------------------------------------
Claims ==
  {NoClaim} \cup
  [kind: {LeaseKind, KvmKind},
   session: {w.session : w \in Sessions \cup {Embedded, NoWho}},
   auth: Nat, resource: Nat, epoch: Nat]
Tokens == [claim: Claims, gen: Nat]

\* The type of every variable.
TypeOK ==
  /\ LeaseTypeOK /\ VideoTypeOK
  /\ sess \in [Sessions -> SessionStates]
  /\ nextGen \in Nat /\ current \in Tokens /\ current.gen <= nextGen
  /\ current.gen = 0 => current = NoToken
  /\ ptok \in [Producers -> Tokens] /\ granted \in [Producers -> Tokens]
  /\ sock \in [Sockets -> [pc: {"closed", "claim", "open"},
                          who: Browsers \cup {NoWho},
                          stream: Streams \cup {0}, tok: Tokens]]

HoldsHid(w) == current.claim.session = w.session /\ current.claim.auth = w.auth
HoldsLease(w) == Seen(lease) /\ lease.who = w

\* What w still controls: the lease, or a token that is not told to be stale
\* by its epoch.
Controls(w) ==
  \/ HoldsLease(w)
  \/ /\ HoldsHid(w)
     /\ ~(current.claim.kind = LeaseKind /\ current.claim.epoch < lease.epoch)

Journaled(w) ==
  failClosed \/ \E r \in pending : r.session = w.session /\ r.auth \in {0, w.auth}

\* When the call that ended a session has returned (auth_service.c,
\* si_control_lease_revoke_auth_session), the session controls nothing, unless
\* its revocation found the lease lock busy and is journaled (a full journal
\* fails closed).  Until then the maintenance task may even have put its lease
\* token back, between the two halves of the revocation.
RevokedSessionIsOut ==
  \A w \in DOMAIN sess : sess[w] = "revoked" /\ Controls(w) => Journaled(w)

\* A lease token never carries an epoch ahead of the lease, and one that
\* carries its present epoch was minted for the present holder, resource and
\* a mode that allows input: the epoch alone tells a stale token from a good
\* one, which is what si_control_lease_get_hid_owner and the embedded guard
\* rely on.
LeaseTokenIsTold ==
  current.claim.kind = LeaseKind =>
    /\ current.claim.epoch <= lease.epoch
    /\ current.claim.epoch = lease.epoch =>
         /\ Seen(lease) /\ lease.mode # "observe"
         /\ current.claim = LeaseClaim(lease)

\* A KVM token always belongs to the stream that owns the KVM now, with its
\* present epoch and session: no change of stream, release or expiry leaves
\* the reports with the former one.
KvmTokenIsPresent ==
  current.claim.kind = KvmKind =>
    kvm.phase # "none" /\ current.claim = KvmClaim(kvm)

\* The owner of the reports can be told from the present lease and the present
\* KVM (control_lease.c, video_control.c).
TokenIsOfThePresent == LeaseTokenIsTold /\ KvmTokenIsPresent

\* While the automation has taken over the video, the KVM does not own the
\* reports, although the automation's liveness is refreshed outside the gate.
TakeoverExcludesKvm == takeover => current.claim.kind # KvmKind

\* The stream that owns the KVM is not in the ring of canceled streams: its
\* page could never claim the reports otherwise.
OwnerIsNotCanceled == ~Canceled(kvm.stream)

\* The automation's takeover and the KVM exclude each other at the gate, and
\* the stream that owns the KVM was not canceled (video_control.c).
TakeoverIsExclusive == TakeoverExcludesKvm /\ OwnerIsNotCanceled

\* A lease that gives input to a producer or session in good standing.
GoodLease ==
  InputControlActive /\ (lease.who = Embedded \/ Live(lease.who))

\* status_ws.c: "Do not let its eager HID WebSocket replace a live Agent/MCP
\* input lease".  More generally, as long as the lease is alive and does not
\* change, nothing takes its token away.
LeaseKeepsToken ==
  GoodLease /\ lease' = lease /\ (lease.who # Embedded => sess' = sess)
    => current' = current

\* As long as a lease in good standing does not change, no stream,
\* takeover, revocation or maintenance takes the reports from its holder.  (A
\* socket that passed its check before the lease began still may, whence the
\* exception for the steps of sockets.)
LeaseKeepsHid == [][sock' = sock => LeaseKeepsToken]_vars

\* AGENT_RUNTIME_V2.md: the close of an old socket may only revoke its own
\* token.  Hence a page that was reloaded keeps the reports when the socket
\* of its former self closes at last, although both belong to one stream.
SocketClosesOnlyItself ==
  \A k \in DOMAIN sock : sock[k].pc = "open" /\ sock'[k].pc = "closed" =>
    \A j \in DOMAIN sock \ {k} :
      sock[j].pc = "open" /\ TokenEqual(current, sock[j].tok)
        => current' = current

\* The socket of a page that was reloaded releases no token but its own when
\* it closes at last (status_ws.c, hid_ws_ctx_free).
OldSocketReleasesNothing == [][SocketClosesOnlyItself]_vars

\* The owner of the reports is a lease or a stream that is over.
StaleToken ==
  \/ current.claim.kind = LeaseKind /\ current.claim # LeaseClaim(lease)
  \/ current.claim.kind = LeaseKind /\ ~Active(lease)
  \/ current.claim.kind = KvmKind /\ ~KvmActive
===============================================================================
