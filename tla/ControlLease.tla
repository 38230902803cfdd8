----------------------------- MODULE ControlLease -----------------------------
(***************************************************************************)
(* The control lease (main/application/control_lease.c): the one lease     *)
(* under which the embedded agent, a boot-key plan, a browser or an        *)
(* external MCP session may drive the host.  Every operation runs as a     *)
(* callback under the HID authority gate, starts with the revocations that *)
(* an earlier one could not apply and with the lease's expiry, and ends    *)
(* with the HID owner that the lease now calls for.                        *)
(***************************************************************************)
EXTENDS HidAuthority

CONSTANTS
  Producers,     \* embedded producers: the agent run and the boot-key plan
  Modes,         \* permission modes of a lease; "observe" gives no input
  PendingSlots   \* LEASE_PENDING_REVOKES

ASSUME LeaseAssumption == PendingSlots \in Nat /\ "supervised" \in Modes

Embedded == [session |-> EmbeddedSession, auth |-> 0]
NoWho    == [session |-> NoSession, auth |-> 0]

VARIABLES
  lease,        \* s_seen and s_last_ms as a phase, identity, mode, ids
  nextResource, \* s_next_embedded_resource_id
  pending,      \* s_pending_revokes: revocations that found s_lock busy
  failClosed,   \* s_pending_revoke_fail_closed
  preempted,    \* s_embedded_preempted
  ppc,          \* where each producer is in touch_embedded_owned
  ptok,         \* the token each producer holds (its "owner" argument)
  granted       \* the token a touch got and has not bound yet

leaseVars    == <<lease, nextResource, pending, failClosed, preempted>>
producerVars == <<ppc, ptok, granted>>

\* phase: "none" (not seen), "fresh", or "stale" (past the grace period but
\* not yet materialised).
Lease(phase, who, mode, resource, epoch) ==
  [phase |-> phase, who |-> who, mode |-> mode, resource |-> resource,
   epoch |-> epoch]

LeaseInit ==
  /\ lease = Lease("none", Embedded, "supervised", 0, 1)
  /\ nextResource = 0 /\ pending = {} /\ failClosed = FALSE
  /\ preempted = FALSE
  /\ ppc = [p \in Producers |-> "idle"]
  /\ ptok = [p \in Producers |-> NoToken]
  /\ granted = [p \in Producers |-> NoToken]

Seen(l)   == l.phase # "none"
Active(l) == l.phase = "fresh"

\* The end of a lease by expiry or release keeps the identity, a revocation
\* erases it.
Expired(l) == Lease("none", l.who, l.mode, 0, l.epoch + 1)
Erased(l)  == Lease("none", NoWho, l.mode, 0, l.epoch + 1)

\* A revocation names a session; auth generation 0 stands for any.
Matches(r, l) ==
  l.who.session = r.session /\ (r.auth = 0 \/ r.auth = l.who.auth)

\* pending_revokes_apply_locked.
PendingApplied(l) ==
  IF Seen(l) /\ (failClosed \/ \E r \in pending : Matches(r, l))
  THEN Erased(l) ELSE l

\* Mutant: expiry is noticed but keeps the epoch.
ExpiryKeepsEpoch(l) ==
  IF l.phase = "stale" THEN Lease("none", l.who, l.mode, 0, l.epoch) ELSE l

\* materialize_expiry_locked.
ExpiryApplied(l) == IF l.phase = "stale" THEN Expired(l) ELSE l

\* What every callback does once it has s_lock; no stale lease is left.
Settled == ExpiryApplied(PendingApplied(lease))

JournalDone == pending' = {} /\ failClosed' = FALSE

LeaseClaim(l) ==
  [kind |-> LeaseKind, session |-> l.who.session, auth |-> l.who.auth,
   resource |-> l.resource, epoch |-> l.epoch]

\* desired_owner_locked.  Whether the KVM view is active makes no difference:
\* an owner that is not a lease is preserved either way.
DesiredOwner(l) ==
  IF Active(l) /\ l.mode # "observe" THEN LeaseClaim(l)
  ELSE IF current.claim.kind # LeaseKind THEN current.claim ELSE NoClaim

\* The rest of a callback that settled the lease to l and ran its operation.
Apply(l) == lease' = l /\ JournalDone
Complete(l) == Apply(l) /\ HandoverDone(DesiredOwner(l), FALSE)
Incomplete(l) == Apply(l) /\ HandoverFails(DesiredOwner(l), FALSE)

\* A callback that refuses after it settled the lease leaves the HID owner
\* to the next maintenance.
Refuse == Apply(Settled) /\ UNCHANGED <<hidVars, nextResource, preempted>>

-----------------------------------------------------------------------------
(***************************************************************************)
(* Embedded producers: touch_embedded_owned, step by step between two      *)
(* visits to the gate.                                                     *)
(***************************************************************************)
At(p, label) == ppc[p] = label
Move(p, label) == ppc' = [ppc EXCEPT ![p] = label]

\* The caller of a failed touch releases the token it still holds.
GiveUp(p) == Move(p, IF ptok[p] = NoToken THEN "idle" ELSE "failed")

Decision(expected) ==
  EmbeddedTouchDecide(Seen(Settled), current, expected, Settled.resource,
                      Settled.epoch)

\* The lease after a touch that was not denied.
Touched(expected, mode) ==
  LET l == Settled
  IN IF Decision(expected) = "renew"
     THEN Lease("fresh", Embedded, mode, l.resource,
                IF l.mode # mode THEN l.epoch + 1 ELSE l.epoch)
     ELSE Lease("fresh", Embedded, mode, nextResource + 1, l.epoch + 1)

NextResource(expected) ==
  nextResource' = IF Decision(expected) = "renew" THEN nextResource
                  ELSE nextResource + 1

\* TOUCH_AGENT and TOUCH_BOOT, granted and installed.  A first touch, one
\* without a token, forgets that an earlier lease was preempted.
TouchGranted(p, mode) ==
  /\ At(p, "idle") /\ Decision(ptok[p]) # "deny"
  /\ Complete(Touched(ptok[p], mode))
  /\ NextResource(ptok[p])
  /\ preempted' = (preempted /\ ptok[p] # NoToken)
  /\ granted' = [granted EXCEPT ![p] = current']
  /\ Move(p, "bind") /\ UNCHANGED ptok

\* Granted, but the HID owner could not be installed (NOT_FINISHED): only a
\* first touch abandons the lease it made.
TouchNotFinished(p, mode) ==
  /\ At(p, "idle") /\ Decision(ptok[p]) # "deny"
  /\ Incomplete(Touched(ptok[p], mode))
  /\ NextResource(ptok[p])
  /\ preempted' = (preempted /\ ptok[p] # NoToken)
  /\ Move(p, IF ptok[p] = NoToken THEN "abandon" ELSE "failed")
  /\ UNCHANGED <<ptok, granted>>

\* Denied: a producer that held a token looks whether it is still current.
TouchDenied(p) ==
  /\ At(p, "idle") /\ Decision(ptok[p]) = "deny"
  /\ Refuse
  /\ Move(p, IF ptok[p] = NoToken THEN "idle" ELSE "peek")
  /\ UNCHANGED <<ptok, granted>>

\* si_hid_owner_get_current, which finds no owner when the gate is busy.
Peek(p) ==
  /\ At(p, "peek")
  /\ \/ Move(p, "again")
     \/ TokenEqual(current, ptok[p]) /\ Move(p, "failed")
  /\ UNCHANGED <<hidVars, leaseVars, ptok, granted>>

\* The stale retry asks for a new lease, unless a human took the last one
\* away or someone owns the reports.
RetryAllowed ==
  ~preempted /\ current.gen = 0 /\ Decision(NoToken) # "deny"

RetryGranted(p, mode) ==
  /\ At(p, "again") /\ RetryAllowed
  /\ Complete(Touched(NoToken, mode)) /\ NextResource(NoToken)
  /\ granted' = [granted EXCEPT ![p] = current']
  /\ Move(p, "bind") /\ UNCHANGED <<ptok, preempted>>

RetryNotFinished(p, mode) ==
  /\ At(p, "again") /\ RetryAllowed
  /\ Incomplete(Touched(NoToken, mode)) /\ NextResource(NoToken)
  /\ Move(p, "abandon") /\ UNCHANGED <<ptok, granted, preempted>>

RetryDenied(p) ==
  /\ At(p, "again") /\ ~RetryAllowed
  /\ Refuse
  /\ Move(p, "failed") /\ UNCHANGED <<ptok, granted>>

\* The lease lock was busy for 100 ms: the touch fails, nothing changes.
TouchBusy(p) ==
  /\ ppc[p] \in {"idle", "again"}
  /\ ppc[p] = "idle" => ptok[p] # NoToken
  /\ GiveUp(p) /\ UNCHANGED <<hidVars, leaseVars, ptok, granted>>

\* ABANDON_EMBEDDED, or s_lock busy.
Abandon(p) ==
  /\ At(p, "abandon") /\ GiveUp(p)
  /\ \/ /\ LET l == Settled
           IN /\ Apply(IF Seen(l) /\ l.who = Embedded THEN Expired(l) ELSE l)
              /\ Handover(DesiredOwner(lease'), FALSE)
        /\ UNCHANGED <<nextResource, preempted>>
     \/ UNCHANGED <<hidVars, leaseVars>>
  /\ UNCHANGED <<ptok, granted>>

\* si_hid_bind_embedded_producer.
Bind(p) ==
  /\ At(p, "bind") /\ TokenEqual(current, granted[p])
  /\ ptok' = [ptok EXCEPT ![p] = granted[p]]
  /\ granted' = [granted EXCEPT ![p] = NoToken]
  /\ Move(p, "idle")
  /\ UNCHANGED <<hidVars, leaseVars>>

\* The token was replaced, no binding slot was free, or the run was canceled
\* in the meantime: the producer gives the new token back.
BindFails(p) ==
  /\ At(p, "bind") /\ Move(p, "unbind")
  /\ UNCHANGED <<hidVars, leaseVars, ptok, granted>>

Releases(token) ==
  EmbeddedReleaseMatches(Seen(Settled), token, Settled.resource,
                         Settled.epoch)

\* RELEASE_EMBEDDED with one exact token, or s_lock busy.
ReleaseEmbedded(token) ==
  \/ /\ Releases(token)
     /\ Apply(Expired(Settled))
     /\ Handover(DesiredOwner(lease'), FALSE)
     /\ UNCHANGED <<nextResource, preempted>>
  \/ ~Releases(token) /\ Refuse
  \/ UNCHANGED <<hidVars, leaseVars>>

Unbind(p) ==
  /\ At(p, "unbind") /\ ReleaseEmbedded(granted[p]) /\ GiveUp(p)
  /\ granted' = [granted EXCEPT ![p] = NoToken] /\ UNCHANGED ptok

ReleaseAfterFailure(p) ==
  /\ At(p, "failed") /\ ReleaseEmbedded(ptok[p]) /\ Move(p, "idle")
  /\ UNCHANGED <<ptok, granted>>

\* The end of the run or plan: si_control_lease_release_embedded_owner.
ProducerEnds(p) ==
  /\ At(p, "idle") /\ ptok[p] # NoToken
  /\ ReleaseEmbedded(ptok[p])
  /\ ptok' = [ptok EXCEPT ![p] = NoToken] /\ UNCHANGED <<ppc, granted>>

-----------------------------------------------------------------------------
(***************************************************************************)
(* Sessions and maintenance.                                               *)
(***************************************************************************)
HeldByOther(w) == Seen(Settled) /\ Settled.who # w
EmbeddedHeld == Seen(Settled) /\ Settled.who = Embedded

\* UPDATE with active: the session is checked again under the gate, and only
\* a browser may force.
UpdateHeld(w) ==
  /\ Live(w) /\ HeldByOther(w)
  /\ Refuse /\ UNCHANGED producerVars

UpdateActive(w, mode, force) ==
  /\ Live(w)
  /\ force => w \in Browsers
  /\ HeldByOther(w) => force
  /\ LET l == Settled
         changed == ~Seen(l) \/ l.who # w \/ l.mode # mode
     IN Apply(Lease("fresh", w, mode, 0,
                    IF changed THEN l.epoch + 1 ELSE l.epoch))
  /\ Handover(DesiredOwner(lease'), FALSE)
  /\ preempted' = (preempted \/ EmbeddedHeld)
  /\ UNCHANGED <<nextResource, producerVars>>

\* UPDATE without active: the holder, or a browser by force, ends the lease;
\* anyone else is told that all is well.
UpdateInactive(w, force) ==
  /\ Live(w)
  /\ force => w \in Browsers
  /\ LET ends == Seen(Settled) /\ (force \/ Settled.who = w)
     IN /\ Apply(IF ends THEN Expired(Settled) ELSE Settled)
        /\ preempted' = (preempted \/ (ends /\ EmbeddedHeld))
  /\ Handover(DesiredOwner(lease'), FALSE)
  /\ UNCHANGED <<nextResource, producerVars>>

\* REVOKE_SESSION.
RevokeLease(r) ==
  /\ LET l == Settled
     IN Apply(IF Matches(r, l)
              THEN Lease("none", NoWho, l.mode, 0,
                         IF Seen(l) THEN l.epoch + 1 ELSE l.epoch)
              ELSE l)
  /\ Handover(DesiredOwner(lease'), FALSE)
  /\ UNCHANGED <<nextResource, preempted, producerVars>>

\* Mutant: a full journal drops the revocation.
JournalDrops(r) ==
  /\ pending' = IF Cardinality(pending) < PendingSlots THEN pending \cup {r}
                ELSE pending
  /\ UNCHANGED failClosed

\* pending_revoke_add_under_hid_gate: a full journal fails closed.
JournalRevoke(r) ==
  IF r \in pending \/ Cardinality(pending) < PendingSlots
  THEN pending' = pending \cup {r} /\ UNCHANGED failClosed
  ELSE failClosed' = TRUE /\ UNCHANGED pending

\* REVOKE_SESSION that finds s_lock busy.
RevokeLater(r) ==
  /\ JournalRevoke(r)
  /\ UNCHANGED <<hidVars, lease, nextResource, preempted, producerVars>>

\* lease_maintenance, every 50 ms.
Maintain ==
  /\ Apply(Settled)
  /\ Handover(DesiredOwner(Settled), FALSE)
  /\ UNCHANGED <<nextResource, preempted, producerVars>>

\* SI_CONTROL_LEASE_GRACE_MS pass without a touch.
LeaseAges ==
  /\ Active(lease)
  /\ lease' = Lease("stale", lease.who, lease.mode, lease.resource,
                    lease.epoch)
  /\ UNCHANGED <<hidVars, nextResource, pending, failClosed, preempted,
                 producerVars>>

\* input_control_active in si_control_lease_get_status.
InputControlActive ==
  /\ Active(lease) /\ lease.mode # "observe"
  /\ current.gen # 0 /\ current.claim.kind = LeaseKind
  /\ current.claim.session = lease.who.session
  /\ current.claim.auth = lease.who.auth
  /\ current.claim.epoch = lease.epoch

ProducerNext(p) ==
  \/ TouchGranted(p, "supervised") \/ TouchNotFinished(p, "supervised")
  \/ TouchDenied(p) \/ Peek(p)
  \/ RetryGranted(p, "supervised") \/ RetryNotFinished(p, "supervised")
  \/ RetryDenied(p) \/ TouchBusy(p) \/ Abandon(p) \/ Bind(p)
  \/ BindFails(p) \/ Unbind(p)
  \/ ReleaseAfterFailure(p) \/ ProducerEnds(p)

SessionUpdate(w) ==
  \/ UpdateHeld(w)
  \/ \E mode \in Modes, force \in BOOLEAN : UpdateActive(w, mode, force)
  \/ \E force \in BOOLEAN : UpdateInactive(w, force)

LeaseTypeOK ==
  /\ lease \in [phase: {"none", "fresh", "stale"},
                who: Sessions \cup {Embedded, NoWho}, mode: Modes,
                resource: Nat, epoch: Nat \ {0}]
  /\ nextResource \in Nat
  /\ pending \subseteq [session: {w.session : w \in Sessions \cup {Embedded}},
                        auth: {w.auth : w \in Sessions} \cup {0}]
  /\ failClosed \in BOOLEAN /\ preempted \in BOOLEAN
  /\ ppc \in [Producers -> {"idle", "peek", "again", "bind", "unbind",
                            "abandon", "failed"}]
===============================================================================
