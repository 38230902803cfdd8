-------------------------- MODULE ControlPlaneProofs --------------------------
(***************************************************************************)
(* Proofs about ControlPlane, for any sets of sessions, producers, streams *)
(* and sockets and any number of slots.                                    *)
(*                                                                         *)
(* The argument does not go action by action.  Every operation of the      *)
(* lease ends in one of three ways as far as the owner of the reports is   *)
(* concerned (LeaseMove), and every operation of the KVM in one of three   *)
(* (KvmMove); the invariants follow from these two alone.                  *)
(***************************************************************************)
EXTENDS ControlPlane, TLAPS

-----------------------------------------------------------------------------
(***************************************************************************)
(* The three outcomes of a transition under the HID gate.                  *)
(***************************************************************************)

\* si_hid_authority_transition: the owner stays, or there is none, or the
\* claim has a token with a new generation.
LEMMA HandoverOutcome ==
  ASSUME NEW claim, NEW replace, Handover(claim, replace)
  PROVE  \/ Keeps(claim, replace) /\ UNCHANGED hidVars
         \/ ~Keeps(claim, replace) /\ current' = NoToken /\ nextGen' = Revoked
         \/ /\ ~Keeps(claim, replace) /\ claim # NoClaim
            /\ current' = Token(claim, Revoked + 1)
            /\ nextGen' = Revoked + 1
  BY Zenon DEF Handover, HandoverDone, HandoverFails

\* A claim or NoClaim owns the reports afterwards.
LEMMA HandoverClaim ==
  ASSUME NEW claim, NEW replace, Handover(claim, replace)
  PROVE  current'.claim \in {claim, NoClaim}
  <1>1. CASE Keeps(claim, replace) /\ UNCHANGED hidVars
    BY <1>1 DEF Keeps, hidVars
  <1>2. CASE current' = NoToken
    BY <1>2 DEF NoToken
  <1>3. CASE current' = Token(claim, Revoked + 1)
    BY <1>3 DEF Token
  <1> QED  BY <1>1, <1>2, <1>3, HandoverOutcome

\* No claim is a claim, as the code's zeroed structure is.
LEMMA NoClaimIsAClaim == NoClaim \in Claims /\ NoToken \in Tokens
  BY DEF Claims, NoToken, Tokens

\* The fields of a claim, and the only claim without a kind.
LEMMA ClaimFields ==
  ASSUME NEW c \in Claims
  PROVE  /\ c.epoch \in Nat /\ c.kind \in {NoneKind, LeaseKind, KvmKind}
         /\ c.kind = NoneKind => c = NoClaim
  BY DEF Claims, NoClaim, NoneKind, LeaseKind, KvmKind

HidTypeOK ==
  /\ nextGen \in Nat /\ current \in Tokens /\ current.gen <= nextGen
  /\ current.gen = 0 => current = NoToken

\* The types of the owner and of the generations survive a transition.
LEMMA HandoverTypes ==
  ASSUME NEW claim \in Claims, NEW replace, Handover(claim, replace),
         HidTypeOK
  PROVE  HidTypeOK' /\ nextGen <= nextGen'
  <1> USE DEF HidTypeOK
  <1>1. Revoked \in Nat /\ nextGen <= Revoked
    BY DEF Revoked
  <1>2. CASE UNCHANGED hidVars
    BY <1>2 DEF hidVars
  <1>4. CASE current' = NoToken /\ nextGen' = Revoked
    BY <1>1, <1>4, NoClaimIsAClaim DEF NoToken
  <1>5. CASE current' = Token(claim, Revoked + 1) /\ nextGen' = Revoked + 1
    BY <1>1, <1>5 DEF Token, Tokens
  <1> QED  BY <1>2, <1>4, <1>5, HandoverOutcome

-----------------------------------------------------------------------------
(***************************************************************************)
(* What an operation of the lease may do.                                  *)
(***************************************************************************)
LeaseRecords ==
  [phase: {"none", "fresh", "stale"}, who: Sessions \cup {Embedded, NoWho},
   mode: Modes, resource: Nat, epoch: Nat \ {0}]

\* The owner of the reports: untouched under the same lease, under a lease
\* whose epoch is over or that grew stale, or the one the lease now calls for.
LeaseMove ==
  \/ UNCHANGED <<hidVars, lease>>
  \/ UNCHANGED hidVars /\ lease.epoch < lease'.epoch
  \/ UNCHANGED hidVars /\ lease' = [lease EXCEPT !.phase = "stale"] /\ Seen(lease)
  \/ Handover(DesiredOwner(lease'), FALSE) /\ lease.epoch <= lease'.epoch

\* The holder of the lease: the embedded agent, a live session, or the former
\* holder, whom no revocation named or whose revocation is still journaled.
HolderMove ==
  Seen(lease') =>
    \/ lease'.who = Embedded \/ Live(lease'.who)
    \/ /\ Seen(lease) /\ lease'.who = lease.who
       /\ \/ pending \subseteq pending' /\ (failClosed => failClosed')
          \/ ~failClosed /\ \A r \in pending : ~Matches(r, lease)

LeaseStep ==
  LeaseMove /\ HolderMove /\ LeaseTypeOK' /\ HidTypeOK' /\ nextGen <= nextGen'

\* pending_revokes_apply_locked and materialize_expiry_locked: either nothing
\* happens to the lease, and then no revocation named it, or it is over and
\* its epoch too.
LEMMA SettledFacts ==
  ASSUME lease \in LeaseRecords
  PROVE  /\ Settled \in LeaseRecords /\ Settled.phase # "stale"
         /\ Settled = lease \/ (lease.epoch < Settled.epoch /\ ~Seen(Settled))
         /\ Seen(Settled) => /\ Settled = lease /\ ~failClosed
                             /\ \A r \in pending : ~Matches(r, lease)
  <1> DEFINE p == PendingApplied(lease)
  <1>1. /\ p \in LeaseRecords
        /\ p = lease \/ (lease.epoch < p.epoch /\ p.phase = "none")
        /\ Seen(p) => /\ p = lease /\ ~failClosed
                      /\ \A r \in pending : ~Matches(r, lease)
    BY DEF PendingApplied, Erased, Lease, LeaseRecords, Seen
  <1>2. /\ Expired(p) \in LeaseRecords /\ Expired(p).phase = "none"
        /\ p.epoch < Expired(p).epoch
    BY <1>1 DEF Expired, Lease, LeaseRecords
  <1>3. Settled = IF p.phase = "stale" THEN Expired(p) ELSE p
    BY DEF Settled, ExpiryApplied
  <1> HIDE DEF p
  <1>4. CASE p.phase = "stale"
    BY <1>1, <1>2, <1>3, <1>4 DEF Seen, LeaseRecords
  <1>5. CASE p.phase # "stale"
    BY <1>1, <1>3, <1>5 DEF Seen
  <1> QED  BY <1>4, <1>5

\* desired_owner_locked yields a claim.
LEMMA DesiredIsAClaim ==
  ASSUME NEW l \in LeaseRecords, current \in Tokens
  PROVE  DesiredOwner(l) \in Claims
  <1>1. current.claim \in Claims
    BY DEF Tokens
  <1>2. LeaseClaim(l) \in Claims
    <2>1. l.who \in Sessions \cup {Embedded, NoWho}
      BY DEF LeaseRecords
    <2>2. l.who.auth \in Nat
      BY <2>1, SessionAssumption DEF Embedded, NoWho
    <2>3. l.who.session \in {w.session : w \in Sessions \cup {Embedded, NoWho}}
      BY <2>1
    <2> QED  BY <2>2, <2>3 DEF LeaseClaim, Claims, LeaseRecords
  <1> QED  BY <1>1, <1>2, NoClaimIsAClaim DEF DesiredOwner

ProducerPlaces ==
  {"idle", "peek", "again", "bind", "unbind", "abandon", "failed"}

\* LeaseTypeOK with the sets it is made of under a name.
LEMMA LeaseTypes ==
  LeaseTypeOK <=>
    /\ lease \in LeaseRecords /\ nextResource \in Nat
    /\ pending \subseteq [session: {w.session : w \in Sessions \cup {Embedded}},
                          auth: {w.auth : w \in Sessions} \cup {0}]
    /\ failClosed \in BOOLEAN /\ preempted \in BOOLEAN
    /\ ppc \in [Producers -> ProducerPlaces]
  BY Zenon DEF LeaseTypeOK, LeaseRecords, ProducerPlaces

\* A callback that applies a lease and hands the reports over to the owner it
\* calls for.
LEMMA HandingStep ==
  ASSUME LeaseTypeOK, HidTypeOK, NEW l \in LeaseRecords, Apply(l),
         Handover(DesiredOwner(l), FALSE), lease.epoch <= l.epoch,
         Seen(l) => \/ l.who = Embedded \/ Live(l.who)
                    \/ Seen(Settled) /\ l.who = Settled.who,
         nextResource' \in Nat, preempted' \in BOOLEAN,
         ppc' \in [Producers -> ProducerPlaces]
  PROVE  LeaseStep
  <1>1. lease' = l /\ pending' = {} /\ failClosed' = FALSE
    BY DEF Apply, JournalDone
  <1>2. LeaseTypeOK'
    BY <1>1, LeaseTypes DEF LeaseTypeOK, LeaseRecords, ProducerPlaces
  <1>3. HidTypeOK' /\ nextGen <= nextGen'
    BY HandoverTypes, DesiredIsAClaim DEF HidTypeOK
  <1>4. LeaseMove
    BY <1>1 DEF LeaseMove
  <1>5. HolderMove
    BY <1>1, SettledFacts, LeaseTypes DEF HolderMove
  <1> QED  BY <1>2, <1>3, <1>4, <1>5 DEF LeaseStep

\* A callback that only settles the lease.
LEMMA SettlingStep ==
  ASSUME LeaseTypeOK, HidTypeOK, Refuse,
         ppc' \in [Producers -> ProducerPlaces]
  PROVE  LeaseStep
  <1>1. lease' = Settled /\ pending' = {} /\ failClosed' = FALSE
    BY DEF Refuse, Apply, JournalDone
  <1>2. UNCHANGED <<hidVars, nextResource, preempted>>
    BY DEF Refuse
  <1>3. LeaseTypeOK'
    BY <1>1, <1>2, LeaseTypes, SettledFacts
       DEF LeaseTypeOK, LeaseRecords, ProducerPlaces
  <1>4. HidTypeOK' /\ nextGen <= nextGen'
    BY <1>2 DEF HidTypeOK, hidVars
  <1>5. LeaseMove
    BY <1>1, <1>2, SettledFacts, LeaseTypes DEF LeaseMove
  <1>6. HolderMove
    BY <1>1, SettledFacts, LeaseTypes DEF HolderMove
  <1> QED  BY <1>3, <1>4, <1>5, <1>6 DEF LeaseStep

\* An operation that leaves both alone.
LEMMA IdleStep ==
  ASSUME LeaseTypeOK, HidTypeOK, UNCHANGED <<hidVars, leaseVars>>,
         ppc' \in [Producers -> ProducerPlaces]
  PROVE  LeaseStep
  <1>1. UNCHANGED <<hidVars, lease, nextResource, pending, failClosed, preempted>>
    BY DEF leaseVars
  <1>2. LeaseTypeOK'
    BY <1>1 DEF LeaseTypeOK, ProducerPlaces
  <1>3. HidTypeOK' /\ nextGen <= nextGen'
    BY <1>1 DEF HidTypeOK, hidVars
  <1>4. LeaseMove /\ HolderMove
    BY <1>1 DEF LeaseMove, HolderMove
  <1> QED  BY <1>2, <1>3, <1>4 DEF LeaseStep

-----------------------------------------------------------------------------
(***************************************************************************)
(* The embedded producers.                                                 *)
(***************************************************************************)

\* The lease that a touch leaves is the embedded agent's.
LEMMA TouchedFacts ==
  ASSUME LeaseTypeOK, NEW expected
  PROVE  LET l == Touched(expected, "supervised")
         IN l \in LeaseRecords /\ l.who = Embedded /\ lease.epoch <= l.epoch
  <1> DEFINE s == Settled
  <1>1. /\ s \in LeaseRecords /\ lease \in LeaseRecords
        /\ lease.epoch <= s.epoch /\ nextResource \in Nat
    BY LeaseTypes, SettledFacts DEF LeaseRecords
  <1>2. Embedded \in Sessions \cup {Embedded, NoWho}
    OBVIOUS
  <1>3. Touched(expected, "supervised") =
          IF Decision(expected) = "renew"
          THEN Lease("fresh", Embedded, "supervised", s.resource,
                     IF s.mode # "supervised" THEN s.epoch + 1 ELSE s.epoch)
          ELSE Lease("fresh", Embedded, "supervised", nextResource + 1,
                     s.epoch + 1)
    BY DEF Touched
  <1>4. /\ s.resource \in Nat /\ s.epoch \in Nat \ {0} /\ lease.epoch \in Nat
        /\ s.epoch + 1 \in Nat \ {0} /\ nextResource + 1 \in Nat
    BY <1>1 DEF LeaseRecords
  <1> DEFINE e == IF s.mode # "supervised" THEN s.epoch + 1 ELSE s.epoch
  <1>5. e \in Nat \ {0} /\ lease.epoch <= e /\ lease.epoch <= s.epoch + 1
    BY <1>1, <1>4
  <1>6. CASE Decision(expected) = "renew"
    <2> HIDE DEF e
    <2>1. Touched(expected, "supervised") =
            Lease("fresh", Embedded, "supervised", s.resource, e)
      BY <1>3, <1>6 DEF e
    <2> HIDE DEF s
    <2> QED  BY <1>2, <1>4, <1>5, <2>1, LeaseAssumption DEF Lease, LeaseRecords
  <1>7. CASE Decision(expected) # "renew"
    <2> HIDE DEF e
    <2>1. Touched(expected, "supervised") =
            Lease("fresh", Embedded, "supervised", nextResource + 1, s.epoch + 1)
      BY <1>3, <1>7
    <2> HIDE DEF s
    <2> QED  BY <1>2, <1>4, <1>5, <2>1, LeaseAssumption DEF Lease, LeaseRecords
  <1> QED  BY <1>6, <1>7

\* The resource number that create_resource_id hands out is a number again.
LEMMA NextResourceType ==
  ASSUME LeaseTypeOK, NEW expected, NextResource(expected)
  PROVE  nextResource' \in Nat
  BY LeaseTypes DEF NextResource

\* The owner is one of the outcomes of the handover, whether it was finished
\* or not.
LEMMA BothHandOver ==
  ASSUME NEW l
  PROVE  /\ Complete(l) => Apply(l) /\ Handover(DesiredOwner(l), FALSE)
         /\ Incomplete(l) => Apply(l) /\ Handover(DesiredOwner(l), FALSE)
  BY DEF Complete, Incomplete, Handover

\* A producer that moves to a place of its program keeps its type.
LEMMA PlacesMove ==
  ASSUME LeaseTypeOK, NEW p \in Producers, NEW label \in ProducerPlaces,
         Move(p, label)
  PROVE  ppc' \in [Producers -> ProducerPlaces]
  BY LeaseTypes DEF Move

\* So does one that gives up after a failure.
LEMMA GivesUp ==
  ASSUME LeaseTypeOK, NEW p \in Producers, GiveUp(p)
  PROVE  ppc' \in [Producers -> ProducerPlaces]
  BY PlacesMove DEF GiveUp, ProducerPlaces

\* A touch that is not denied, installed or not.
LEMMA TouchStep ==
  ASSUME LeaseTypeOK, HidTypeOK, NEW expected,
         \/ Complete(Touched(expected, "supervised"))
         \/ Incomplete(Touched(expected, "supervised")),
         NextResource(expected), preempted' \in BOOLEAN,
         ppc' \in [Producers -> ProducerPlaces]
  PROVE  LeaseStep
  <1> DEFINE l == Touched(expected, "supervised")
  <1>1. l \in LeaseRecords /\ l.who = Embedded /\ lease.epoch <= l.epoch
    BY TouchedFacts
  <1>2. Apply(l) /\ Handover(DesiredOwner(l), FALSE)
    BY BothHandOver
  <1>3. nextResource' \in Nat
    BY NextResourceType
  <1> HIDE DEF l
  <1> QED  BY <1>1, <1>2, <1>3, HandingStep

\* The end of a lease, if it is seen and this is its end, and what comes next.
LEMMA EndingStep ==
  ASSUME LeaseTypeOK, HidTypeOK, NEW ends \in BOOLEAN,
         Apply(IF ends THEN Expired(Settled) ELSE Settled),
         Handover(DesiredOwner(lease'), FALSE),
         nextResource' \in Nat, preempted' \in BOOLEAN,
         ppc' \in [Producers -> ProducerPlaces]
  PROVE  LeaseStep
  <1> DEFINE l == IF ends THEN Expired(Settled) ELSE Settled
  <1>1. lease \in LeaseRecords /\ Settled \in LeaseRecords
    BY LeaseTypes, SettledFacts
  <1>2. /\ Expired(Settled) \in LeaseRecords /\ ~Seen(Expired(Settled))
        /\ Settled.epoch < Expired(Settled).epoch
    BY <1>1 DEF Expired, Lease, LeaseRecords, Seen
  <1>3. lease.epoch <= Settled.epoch
    BY <1>1, SettledFacts DEF LeaseRecords
  <1>4. l \in LeaseRecords /\ lease.epoch <= l.epoch
    BY <1>1, <1>2, <1>3 DEF LeaseRecords
  <1>5. Seen(l) => Seen(Settled) /\ l.who = Settled.who
    BY <1>2
  <1>6. Apply(l) /\ lease' = l
    BY DEF Apply
  <1>7. Handover(DesiredOwner(l), FALSE)
    BY <1>6
  <1> HIDE DEF l
  <1> QED  BY <1>4, <1>5, <1>6, <1>7, HandingStep

\* RELEASE_EMBEDDED.
LEMMA ReleaseStep ==
  ASSUME LeaseTypeOK, HidTypeOK, NEW token, ReleaseEmbedded(token),
         ppc' \in [Producers -> ProducerPlaces]
  PROVE  LeaseStep
  <1>1. CASE /\ Apply(Expired(Settled)) /\ Handover(DesiredOwner(lease'), FALSE)
             /\ UNCHANGED <<nextResource, preempted>>
    <2>1. Apply(IF TRUE THEN Expired(Settled) ELSE Settled)
      BY <1>1
    <2> QED  BY <1>1, <2>1, EndingStep, LeaseTypes
  <1>2. CASE Refuse
    BY <1>2, SettlingStep
  <1>3. CASE UNCHANGED <<hidVars, leaseVars>>
    BY <1>3, IdleStep
  <1> QED  BY <1>1, <1>2, <1>3 DEF ReleaseEmbedded

ProducerTypeOK ==
  ptok \in [Producers -> Tokens] /\ granted \in [Producers -> Tokens]

\* Whatever an embedded producer does between two visits to the gate.
LEMMA ProducerLeaseStep ==
  ASSUME LeaseTypeOK, HidTypeOK, NEW p \in Producers, ProducerNext(p)
  PROVE  LeaseStep
  <1>1. preempted \in BOOLEAN /\ nextResource \in Nat
    BY LeaseTypes
  <1>2. CASE TouchGranted(p, "supervised")
    <2>1. ppc' \in [Producers -> ProducerPlaces]
      BY <1>2, PlacesMove DEF TouchGranted, ProducerPlaces
    <2>2. preempted' \in BOOLEAN
      BY <1>1, <1>2 DEF TouchGranted
    <2> QED  BY <1>2, <2>1, <2>2, TouchStep DEF TouchGranted
  <1>3. CASE TouchNotFinished(p, "supervised")
    <2>1. ppc' \in [Producers -> ProducerPlaces]
      BY <1>3, PlacesMove DEF TouchNotFinished, ProducerPlaces
    <2>2. preempted' \in BOOLEAN
      BY <1>1, <1>3 DEF TouchNotFinished
    <2> QED  BY <1>3, <2>1, <2>2, TouchStep DEF TouchNotFinished
  <1>4. CASE TouchDenied(p)
    <2>1. ppc' \in [Producers -> ProducerPlaces]
      BY <1>4, PlacesMove DEF TouchDenied, ProducerPlaces
    <2> QED  BY <1>4, <2>1, SettlingStep DEF TouchDenied
  <1>5. CASE Peek(p)
    <2>1. ppc' \in [Producers -> ProducerPlaces]
      BY <1>5, PlacesMove DEF Peek, ProducerPlaces
    <2> QED  BY <1>5, <2>1, IdleStep DEF Peek
  <1>6. CASE RetryGranted(p, "supervised")
    <2>1. ppc' \in [Producers -> ProducerPlaces]
      BY <1>6, PlacesMove DEF RetryGranted, ProducerPlaces
    <2>2. preempted' \in BOOLEAN
      BY <1>1, <1>6 DEF RetryGranted
    <2> QED  BY <1>6, <2>1, <2>2, TouchStep DEF RetryGranted
  <1>7. CASE RetryNotFinished(p, "supervised")
    <2>1. ppc' \in [Producers -> ProducerPlaces]
      BY <1>7, PlacesMove DEF RetryNotFinished, ProducerPlaces
    <2>2. preempted' \in BOOLEAN
      BY <1>1, <1>7 DEF RetryNotFinished
    <2> QED  BY <1>7, <2>1, <2>2, TouchStep DEF RetryNotFinished
  <1>8. CASE RetryDenied(p)
    <2>1. ppc' \in [Producers -> ProducerPlaces]
      BY <1>8, PlacesMove DEF RetryDenied, ProducerPlaces
    <2> QED  BY <1>8, <2>1, SettlingStep DEF RetryDenied
  <1>9. CASE TouchBusy(p)
    BY <1>9, GivesUp, IdleStep DEF TouchBusy
  <1>10. CASE Abandon(p)
    <2>1. ppc' \in [Producers -> ProducerPlaces]
      BY <1>10, GivesUp DEF Abandon
    <2>2. CASE UNCHANGED <<hidVars, leaseVars>>
      BY <2>1, <2>2, IdleStep
    <2>3. CASE /\ Apply(IF Seen(Settled) /\ Settled.who = Embedded
                       THEN Expired(Settled) ELSE Settled)
               /\ Handover(DesiredOwner(lease'), FALSE)
               /\ UNCHANGED <<nextResource, preempted>>
      <3> DEFINE ends == Seen(Settled) /\ Settled.who = Embedded
      <3>1. ends \in BOOLEAN /\ Apply(IF ends THEN Expired(Settled) ELSE Settled)
        BY <2>3
      <3> HIDE DEF ends
      <3> QED  BY <1>1, <2>1, <2>3, <3>1, EndingStep
    <2> QED  BY <1>10, <2>2, <2>3 DEF Abandon
  <1>11. CASE Bind(p)
    <2>1. ppc' \in [Producers -> ProducerPlaces]
      BY <1>11, PlacesMove DEF Bind, ProducerPlaces
    <2> QED  BY <1>11, <2>1, IdleStep DEF Bind
  <1>12. CASE BindFails(p)
    <2>1. ppc' \in [Producers -> ProducerPlaces]
      BY <1>12, PlacesMove DEF BindFails, ProducerPlaces
    <2> QED  BY <1>12, <2>1, IdleStep DEF BindFails
  <1>13. CASE Unbind(p)
    BY <1>13, GivesUp, ReleaseStep DEF Unbind
  <1>14. CASE ReleaseAfterFailure(p)
    <2>1. ppc' \in [Producers -> ProducerPlaces]
      BY <1>14, PlacesMove DEF ReleaseAfterFailure, ProducerPlaces
    <2> QED  BY <1>14, <2>1, ReleaseStep DEF ReleaseAfterFailure
  <1>15. CASE ProducerEnds(p)
    BY <1>15, ReleaseStep, LeaseTypes DEF ProducerEnds
  <1> QED
    BY <1>2, <1>3, <1>4, <1>5, <1>6, <1>7, <1>8, <1>9, <1>10, <1>11, <1>12,
       <1>13, <1>14, <1>15 DEF ProducerNext

\* The tokens a producer keeps are tokens it was given.
LEMMA ProducerTypes ==
  ASSUME ProducerTypeOK, current' \in Tokens, NEW p \in Producers,
         ProducerNext(p)
  PROVE  ProducerTypeOK'
  <1> USE NoClaimIsAClaim DEF ProducerTypeOK
  <1>1. CASE TouchGranted(p, "supervised") \/ RetryGranted(p, "supervised")
    BY <1>1 DEF TouchGranted, RetryGranted
  <1>2. CASE UNCHANGED <<ptok, granted>>
    BY <1>2
  <1>3. CASE Bind(p)
    BY <1>3 DEF Bind
  <1>4. CASE Unbind(p)
    BY <1>4 DEF Unbind
  <1>5. CASE ProducerEnds(p)
    BY <1>5 DEF ProducerEnds
  <1> QED
    BY <1>1, <1>2, <1>3, <1>4, <1>5
       DEF ProducerNext, TouchNotFinished, TouchDenied, Peek, RetryNotFinished,
           RetryDenied, TouchBusy, Abandon, BindFails, ReleaseAfterFailure

-----------------------------------------------------------------------------
(***************************************************************************)
(* Sessions and maintenance.                                               *)
(***************************************************************************)
LEMMA UpdateLeaseStep ==
  ASSUME LeaseTypeOK, HidTypeOK, NEW w \in Sessions, SessionUpdate(w)
  PROVE  LeaseStep
  <1>1. /\ preempted \in BOOLEAN /\ nextResource \in Nat
        /\ ppc \in [Producers -> ProducerPlaces]
        /\ lease \in LeaseRecords /\ Settled \in LeaseRecords
    BY LeaseTypes, SettledFacts
  <1>2. CASE UpdateHeld(w)
    BY <1>1, <1>2, SettlingStep DEF UpdateHeld, producerVars
  <1>3. ASSUME NEW mode \in Modes, NEW force \in BOOLEAN,
               UpdateActive(w, mode, force)
        PROVE  LeaseStep
    <2> DEFINE s == Settled
               e == IF ~Seen(s) \/ s.who # w \/ s.mode # mode THEN s.epoch + 1
                    ELSE s.epoch
               l == Lease("fresh", w, mode, 0, e)
    <2>1. Apply(l) /\ lease' = l
      BY <1>3 DEF UpdateActive, Apply
    <2>2. Handover(DesiredOwner(l), FALSE)
      BY <1>3, <2>1 DEF UpdateActive
    <2>3. s.epoch \in Nat \ {0} /\ lease.epoch \in Nat /\ lease.epoch <= s.epoch
      BY <1>1, SettledFacts DEF LeaseRecords
    <2>4. e \in Nat \ {0} /\ lease.epoch <= e
      BY <2>3
    <2> HIDE DEF e
    <2>5. l \in LeaseRecords /\ l.who = w /\ lease.epoch <= l.epoch
      BY <2>4 DEF Lease, LeaseRecords
    <2>6. Live(l.who)
      BY <1>3, <2>5 DEF UpdateActive
    <2>7. nextResource' \in Nat /\ ppc' \in [Producers -> ProducerPlaces]
      BY <1>1, <1>3 DEF UpdateActive, producerVars
    <2>8. preempted' \in BOOLEAN
      BY <1>1, <1>3 DEF UpdateActive, EmbeddedHeld
    <2> HIDE DEF l
    <2> QED  BY <2>1, <2>2, <2>5, <2>6, <2>7, <2>8, HandingStep
  <1>4. ASSUME NEW force \in BOOLEAN, UpdateInactive(w, force)
        PROVE  LeaseStep
    <2> DEFINE ends == Seen(Settled) /\ (force \/ Settled.who = w)
    <2>1. ends \in BOOLEAN /\ Apply(IF ends THEN Expired(Settled) ELSE Settled)
      BY <1>4 DEF UpdateInactive
    <2>2. preempted' = (preempted \/ (ends /\ EmbeddedHeld))
      BY <1>4 DEF UpdateInactive
    <2> HIDE DEF ends
    <2>3. /\ nextResource' \in Nat /\ ppc' \in [Producers -> ProducerPlaces]
          /\ Handover(DesiredOwner(lease'), FALSE)
      BY <1>1, <1>4 DEF UpdateInactive, producerVars
    <2> QED  BY <1>1, <2>1, <2>2, <2>3, EndingStep
  <1> QED  BY <1>2, <1>3, <1>4 DEF SessionUpdate

\* REVOKE_SESSION, applied at once or journaled.
LEMMA RevokeLeaseStep ==
  ASSUME LeaseTypeOK, HidTypeOK, NEW r, RevokeLease(r)
  PROVE  LeaseStep /\ (Seen(lease') => ~Matches(r, lease'))
  <1>1. /\ preempted \in BOOLEAN /\ nextResource \in Nat
        /\ ppc \in [Producers -> ProducerPlaces]
        /\ lease \in LeaseRecords /\ Settled \in LeaseRecords
    BY LeaseTypes, SettledFacts
  <1> DEFINE s == Settled
             e == IF Seen(s) THEN s.epoch + 1 ELSE s.epoch
             n == Lease("none", NoWho, s.mode, 0, e)
             l == IF Matches(r, s) THEN n ELSE s
  <1>2. Apply(l) /\ lease' = l
    BY DEF RevokeLease, Apply
  <1>3. Handover(DesiredOwner(l), FALSE)
    BY <1>2 DEF RevokeLease
  <1>4. s.epoch \in Nat \ {0} /\ lease.epoch \in Nat /\ lease.epoch <= s.epoch
    BY <1>1, SettledFacts DEF LeaseRecords
  <1>5. e \in Nat \ {0} /\ lease.epoch <= e
    BY <1>4
  <1> HIDE DEF e
  <1>6. n \in LeaseRecords /\ ~Seen(n) /\ lease.epoch <= n.epoch
    BY <1>1, <1>5 DEF Lease, LeaseRecords, Seen
  <1> HIDE DEF n
  <1>7. l \in LeaseRecords /\ lease.epoch <= l.epoch
    BY <1>1, <1>4, <1>6
  <1>8. Seen(l) => l = s /\ ~Matches(r, l)
    BY <1>6
  <1>9. /\ nextResource' \in Nat /\ ppc' \in [Producers -> ProducerPlaces]
        /\ preempted' \in BOOLEAN
    BY <1>1 DEF RevokeLease, producerVars
  <1> HIDE DEF l
  <1> QED  BY <1>2, <1>3, <1>7, <1>8, <1>9, HandingStep

Revocations == [session: {w.session : w \in Sessions \cup {Embedded}},
                auth: {w.auth : w \in Sessions} \cup {0}]

\* si_control_lease_revoke_auth_session when the lock was busy: the revocation
\* is in the journal, or the full journal fails closed.
LEMMA RevokeLaterStep ==
  ASSUME LeaseTypeOK, HidTypeOK, NEW r \in Revocations, RevokeLater(r)
  PROVE  LeaseStep /\ (failClosed' \/ r \in pending')
  <1>1. /\ UNCHANGED <<hidVars, lease, nextResource, preempted, ppc>>
        /\ \/ pending' = pending \cup {r} /\ failClosed' = failClosed
           \/ pending' = pending /\ failClosed' = TRUE
    BY DEF RevokeLater, JournalRevoke, producerVars
  <1>2. LeaseTypeOK'
    BY <1>1 DEF LeaseTypeOK, Revocations
  <1>3. HidTypeOK' /\ nextGen <= nextGen'
    BY <1>1 DEF HidTypeOK, hidVars
  <1>4. LeaseMove /\ HolderMove
    BY <1>1 DEF LeaseMove, HolderMove
  <1> QED  BY <1>1, <1>2, <1>3, <1>4 DEF LeaseStep

\* si_control_lease_maintain settles the lease and hands the reports over.
LEMMA MaintainLeaseStep ==
  ASSUME LeaseTypeOK, HidTypeOK, Maintain
  PROVE  LeaseStep
  <1>1. Apply(IF FALSE THEN Expired(Settled) ELSE Settled) /\ lease' = Settled
    BY DEF Maintain, Apply
  <1> QED  BY <1>1, EndingStep, LeaseTypes DEF Maintain, producerVars

\* A lease that ages keeps its holder and its epoch.
LEMMA AgingLeaseStep ==
  ASSUME LeaseTypeOK, HidTypeOK, LeaseAges
  PROVE  LeaseStep
  <1>1. lease' = [lease EXCEPT !.phase = "stale"] /\ Seen(lease)
    BY LeaseTypes DEF LeaseAges, Lease, LeaseRecords, Active, Seen
  <1>2. UNCHANGED <<hidVars, nextResource, pending, failClosed, preempted, ppc>>
    BY DEF LeaseAges, producerVars
  <1>3. lease' \in LeaseRecords /\ lease'.who = lease.who
    BY <1>1, LeaseTypes DEF LeaseRecords
  <1>4. LeaseTypeOK'
    BY <1>2, <1>3 DEF LeaseTypeOK, LeaseRecords
  <1>5. HidTypeOK' /\ nextGen <= nextGen'
    BY <1>2 DEF HidTypeOK, hidVars
  <1>6. LeaseMove /\ HolderMove
    BY <1>1, <1>2, <1>3 DEF LeaseMove, HolderMove
  <1> QED  BY <1>4, <1>5, <1>6 DEF LeaseStep

-----------------------------------------------------------------------------
(***************************************************************************)
(* What an operation of the KVM may do.                                    *)
(***************************************************************************)
Kvms == [phase: {"none", "fresh", "stale"}, stream: Streams \cup {0},
         epoch: Nat \ {0}, who: Browsers \cup {NoOne}]
Rings == [0..(CanceledSlots - 1) -> Streams \cup {0}]

\* The owner of the reports: untouched under the same KVM or one that grew
\* stale, or the one the KVM now calls for, and then only a live session's
\* stream gets them.
KvmMove(replace) ==
  \/ UNCHANGED <<hidVars, kvm>> /\ (takeover' => takeover)
  \/ /\ UNCHANGED <<hidVars, takeover>> /\ kvm.phase # "none"
     /\ kvm' = [kvm EXCEPT !.phase = "stale"]
  \/ /\ Handover(DesiredKvmOwner(kvm', takeover'), replace)
     /\ kvm'.phase = "fresh" /\ ~takeover' => Live(kvm'.who)

KvmStep(replace) ==
  /\ KvmMove(replace) /\ VideoTypeOK' /\ OwnerIsNotCanceled'
  /\ HidTypeOK' /\ nextGen <= nextGen'

\* The type of the KVM state by its parts.
LEMMA VideoTypes ==
  VideoTypeOK <=>
    /\ kvm \in Kvms /\ ring \in Rings /\ cursor \in 0..(CanceledSlots - 1)
    /\ agent \in {"none", "fresh", "stale"} /\ takeover \in BOOLEAN
  BY Zenon DEF VideoTypeOK, Kvms, Rings

\* remember_canceled_stream_locked adds at most the stream it is given.
LEMMA RememberFacts ==
  ASSUME NEW r \in Rings, NEW s \in Streams \cup {0}, Remember(r, s),
         cursor \in 0..(CanceledSlots - 1)
  PROVE  /\ ring' \in Rings /\ cursor' \in 0..(CanceledSlots - 1)
         /\ \A i \in 0..(CanceledSlots - 1) : ring'[i] \in {r[i], s}
  <1>1. CASE ring' = r /\ UNCHANGED cursor
    BY <1>1 DEF Rings
  <1>2. CASE /\ ring' = [r EXCEPT ![cursor] = s]
             /\ cursor' = (cursor + 1) % CanceledSlots
    <2>1. (cursor + 1) % CanceledSlots \in 0..(CanceledSlots - 1)
      BY VideoAssumption
    <2> QED  BY <1>2, <2>1 DEF Rings
  <1> QED  BY <1>1, <1>2 DEF Remember

\* Stream numbers are naturals, also the 0 that names no stream.
LEMMA StreamsAreNumbers == \A s \in Streams \cup {0} : s \in Nat
  <1>1. 0 \in Nat
    OBVIOUS
  <1>2. \A s \in Streams : s \in Nat
    BY VideoAssumption
  <1> QED  BY <1>1, <1>2, Zenon

\* The claim that the KVM calls for is a claim.
LEMMA DesiredKvmIsAClaim ==
  ASSUME NEW k \in Kvms, NEW held \in BOOLEAN, current \in Tokens
  PROVE  DesiredKvmOwner(k, held) \in Claims
  <1>1. current.claim \in Claims
    BY DEF Tokens
  <1>2. KvmClaim(k) \in Claims
    <2>1. k.who \in Browsers \cup {NoOne} /\ NoOne = NoWho
      BY DEF Kvms, NoOne, NoWho
    <2>2. k.who \in Sessions \cup {Embedded, NoWho}
      BY <2>1 DEF Sessions
    <2>3. k.who.auth \in Nat
      BY <2>2, SessionAssumption DEF Embedded, NoWho
    <2>4. k.who.session \in {w.session : w \in Sessions \cup {Embedded, NoWho}}
      BY <2>2
    <2>5. k.stream \in Nat /\ k.epoch \in Nat
      BY StreamsAreNumbers DEF Kvms
    <2> QED  BY <2>3, <2>4, <2>5 DEF KvmClaim, Claims
  <1> QED  BY <1>1, <1>2, NoClaimIsAClaim DEF DesiredKvmOwner

\* An operation that hands the reports over to the owner the KVM calls for.
LEMMA KvmHandingStep ==
  ASSUME HidTypeOK, NEW replace, kvm' \in Kvms, takeover' \in BOOLEAN,
         ring' \in Rings, cursor' \in 0..(CanceledSlots - 1),
         agent' \in {"none", "fresh", "stale"},
         Handover(DesiredKvmOwner(kvm', takeover'), replace),
         kvm'.phase = "fresh" /\ ~takeover' => Live(kvm'.who),
         OwnerIsNotCanceled'
  PROVE  KvmStep(replace)
  <1>1. VideoTypeOK'
    BY DEF VideoTypeOK, Kvms, Rings
  <1>2. HidTypeOK' /\ nextGen <= nextGen'
    BY HandoverTypes, DesiredKvmIsAClaim DEF HidTypeOK
  <1> QED  BY <1>1, <1>2 DEF KvmStep, KvmMove

\* An operation that does not touch the owner.
LEMMA KvmIdleStep ==
  ASSUME VideoTypeOK, HidTypeOK, OwnerIsNotCanceled, NEW replace,
         UNCHANGED <<hidVars, kvm, ring, cursor>>, takeover' \in BOOLEAN,
         takeover' => takeover, agent' \in {"none", "fresh", "stale"}
  PROVE  KvmStep(replace)
  <1>1. VideoTypeOK'
    BY DEF VideoTypeOK
  <1>2. HidTypeOK' /\ nextGen <= nextGen' /\ OwnerIsNotCanceled'
    BY DEF HidTypeOK, hidVars, OwnerIsNotCanceled, Canceled
  <1> QED  BY <1>1, <1>2 DEF KvmStep, KvmMove

\* A stream that is not accepted changes nothing but what the gate recomputes.
LEMMA NotAcceptedStep ==
  ASSUME VideoTypeOK, HidTypeOK, OwnerIsNotCanceled, NEW replace, NotAccepted
  PROVE  KvmStep(replace)
  BY KvmIdleStep, VideoTypes DEF NotAccepted, TakeoverNow

\* KVM_OP_ACQUIRE: the stream that is now the owner is not canceled, because
\* it was not before, was forgotten by force, or owned the KVM already.
LEMMA AcquireStep ==
  ASSUME VideoTypeOK, HidTypeOK, OwnerIsNotCanceled,
         NEW w \in Browsers, NEW s \in Streams, NEW force \in BOOLEAN,
         NEW claim \in BOOLEAN, NEW previous \in Streams \cup {0},
         Acquire(w, s, force, claim, previous)
  PROVE  KvmStep(FALSE)
  <1>1. /\ kvm \in Kvms /\ ring \in Rings /\ cursor \in 0..(CanceledSlots - 1)
        /\ agent \in {"none", "fresh", "stale"} /\ takeover \in BOOLEAN
    BY VideoTypes
  <1> DEFINE r == IF force THEN Forgotten(ring, s) ELSE ring
  <1>2. s # 0 /\ s \in Nat
    BY VideoAssumption
  <1>3. r \in Rings
    BY <1>1 DEF Forgotten, Rings
  <1>4. \/ kvm.stream = s /\ ring' = r /\ cursor' = cursor
        \/ kvm.stream # s /\ Remember(r, kvm.stream)
    BY DEF Acquire
  <1>5. kvm.stream \in Streams \cup {0} /\ kvm.epoch \in Nat \ {0}
    BY <1>1 DEF Kvms
  <1>6. ~Canceled(s) \/ force \/ kvm.stream = s
    BY DEF Acquire, Accepts, LiveHeartbeat, Owns
  <1>7. \A i \in 0..(CanceledSlots - 1) : r[i] # s
    <2>1. CASE force
      BY <1>1, <1>2, <2>1 DEF Forgotten, Rings
    <2>2. CASE ~force
      <3>1. r = ring /\ ~Canceled(s)
        BY <1>6, <2>2 DEF OwnerIsNotCanceled
      <3>2. DOMAIN ring = 0..(CanceledSlots - 1)
        BY <1>1 DEF Rings
      <3> QED  BY <1>2, <3>1, <3>2 DEF Canceled
    <2> QED  BY <2>1, <2>2
  <1> HIDE DEF r
  <1>8. /\ ring' \in Rings /\ cursor' \in 0..(CanceledSlots - 1)
        /\ \A i \in 0..(CanceledSlots - 1) : ring'[i] # s
    BY <1>1, <1>3, <1>4, <1>5, <1>7, RememberFacts
  <1>9. kvm' \in Kvms /\ kvm'.who = w /\ kvm'.stream = s /\ Live(w)
    BY <1>5 DEF Acquire, Kvm, Kvms
  <1>10. OwnerIsNotCanceled'
    <2>1. DOMAIN ring' = 0..(CanceledSlots - 1)
      BY <1>8 DEF Rings
    <2> QED  BY <1>8, <1>9, <2>1 DEF OwnerIsNotCanceled, Canceled
  <1>11. takeover' \in BOOLEAN /\ agent' \in {"none", "fresh", "stale"}
    BY <1>1 DEF Acquire, TakeoverNow
  <1>12. Handover(DesiredKvmOwner(kvm', takeover'), FALSE)
    BY DEF Acquire
  <1> QED  BY <1>8, <1>9, <1>10, <1>11, <1>12, KvmHandingStep

\* KVM_OP_RELEASE and KVM_OP_EXPIRE leave a KVM that calls for nothing.
LEMMA ReleaseStreamStep ==
  ASSUME VideoTypeOK, HidTypeOK, OwnerIsNotCanceled, NEW w \in Browsers,
         NEW s \in Streams, ReleaseStream(w, s)
  PROVE  KvmStep(FALSE)
  <1>1. /\ kvm \in Kvms /\ ring \in Rings /\ cursor \in 0..(CanceledSlots - 1)
        /\ agent \in {"none", "fresh", "stale"} /\ takeover \in BOOLEAN
    BY VideoTypes
  <1>2. ring' \in Rings /\ cursor' \in 0..(CanceledSlots - 1)
    BY <1>1, RememberFacts DEF ReleaseStream
  <1>3. kvm' \in Kvms /\ kvm'.stream = 0 /\ kvm'.phase = "none"
    BY <1>1 DEF ReleaseStream, Kvm, Kvms
  <1>4. OwnerIsNotCanceled'
    BY <1>3 DEF OwnerIsNotCanceled, Canceled
  <1>5. takeover' \in BOOLEAN /\ agent' \in {"none", "fresh", "stale"}
    BY <1>1 DEF ReleaseStream, TakeoverNow
  <1>6. Handover(DesiredKvmOwner(kvm', takeover'), FALSE)
    BY DEF ReleaseStream
  <1> QED  BY <1>2, <1>3, <1>4, <1>5, <1>6, KvmHandingStep

\* An expired heartbeat ends the KVM and keeps the number of its stream.
LEMMA ExpireKvmStep ==
  ASSUME VideoTypeOK, HidTypeOK, OwnerIsNotCanceled, ExpireKvm
  PROVE  KvmStep(FALSE)
  <1>1. /\ kvm \in Kvms /\ ring \in Rings /\ cursor \in 0..(CanceledSlots - 1)
        /\ agent \in {"none", "fresh", "stale"} /\ takeover \in BOOLEAN
    BY VideoTypes
  <1>2. kvm' \in Kvms /\ kvm'.stream = kvm.stream /\ kvm'.phase = "none"
    BY <1>1 DEF ExpireKvm, Kvm, Kvms
  <1>3. UNCHANGED <<ring, cursor, agent>> /\ takeover' \in BOOLEAN
    BY <1>1 DEF ExpireKvm, TakeoverNow
  <1>4. OwnerIsNotCanceled'
    BY <1>2, <1>3 DEF OwnerIsNotCanceled, Canceled
  <1>5. Handover(DesiredKvmOwner(kvm', takeover'), FALSE)
    BY DEF ExpireKvm
  <1> QED  BY <1>1, <1>2, <1>3, <1>4, <1>5, KvmHandingStep

\* The automation's touch, and what it does under the module's lock alone.
LEMMA AutomationKvmStep ==
  ASSUME VideoTypeOK, HidTypeOK, OwnerIsNotCanceled, AutomationNext
  PROVE  KvmStep(FALSE)
  <1>1. /\ kvm \in Kvms /\ ring \in Rings /\ cursor \in 0..(CanceledSlots - 1)
        /\ agent \in {"none", "fresh", "stale"} /\ takeover \in BOOLEAN
    BY VideoTypes
  <1>2. CASE TouchAutomation(TRUE)
    <2>1. /\ UNCHANGED <<kvm, ring, cursor>> /\ agent' = "fresh"
          /\ takeover' = TRUE /\ Handover(DesiredKvmOwner(kvm, TRUE), FALSE)
      BY <1>2 DEF TouchAutomation
    <2>2. OwnerIsNotCanceled'
      BY <2>1 DEF OwnerIsNotCanceled, Canceled
    <2>3. Handover(DesiredKvmOwner(kvm', takeover'), FALSE)
      BY <2>1
    <2> QED  BY <1>1, <2>1, <2>2, <2>3, KvmHandingStep
  <1>3. CASE TouchAutomation(FALSE)
    BY <1>3, KvmIdleStep DEF TouchAutomation
  <1>4. CASE KeepAutomationAlive
    BY <1>1, <1>4, KvmIdleStep DEF KeepAutomationAlive
  <1>5. CASE ReleaseAgent
    BY <1>5, KvmIdleStep DEF ReleaseAgent
  <1> QED  BY <1>2, <1>3, <1>4, <1>5 DEF AutomationNext

\* The requests of a page are moves of the KVM.
LEMMA PageKvmStep ==
  ASSUME VideoTypeOK, HidTypeOK, OwnerIsNotCanceled, NEW w \in Browsers,
         NEW s \in Streams, PageNext(w, s)
  PROVE  KvmStep(FALSE)
  <1>1. ASSUME NEW force \in BOOLEAN, NEW claim \in BOOLEAN,
               NEW previous \in Streams \cup {0},
               \/ Acquire(w, s, force, claim, previous)
               \/ AcquireRejected(w, s, claim, previous)
        PROVE  KvmStep(FALSE)
    BY <1>1, AcquireStep, NotAcceptedStep DEF AcquireRejected
  <1>2. CASE ReleaseStream(w, s) \/ ReleaseRejected(w, s)
    BY <1>2, ReleaseStreamStep, NotAcceptedStep DEF ReleaseRejected
  <1> QED  BY <1>1, <1>2 DEF PageNext

\* So are a heartbeat that ages and an agent that falls silent.
LEMMA AgingKvmStep ==
  ASSUME VideoTypeOK, HidTypeOK, OwnerIsNotCanceled, KvmAges \/ AgentAges
  PROVE  KvmStep(FALSE)
  <1>1. /\ kvm \in Kvms /\ ring \in Rings /\ cursor \in 0..(CanceledSlots - 1)
        /\ agent \in {"none", "fresh", "stale"} /\ takeover \in BOOLEAN
    BY VideoTypes
  <1>2. CASE KvmAges
    <2>1. /\ kvm' = [kvm EXCEPT !.phase = "stale"] /\ kvm.phase # "none"
          /\ UNCHANGED <<hidVars, ring, cursor, agent, takeover>>
      BY <1>1, <1>2 DEF KvmAges, Kvm, Kvms, KvmActive
    <2>2. kvm' \in Kvms /\ kvm'.stream = kvm.stream
      BY <1>1, <2>1 DEF Kvms
    <2>3. VideoTypeOK' /\ OwnerIsNotCanceled'
      BY <1>1, <2>1, <2>2
         DEF VideoTypeOK, Kvms, Rings, OwnerIsNotCanceled, Canceled
    <2>4. HidTypeOK' /\ nextGen <= nextGen'
      BY <2>1 DEF HidTypeOK, hidVars
    <2> QED  BY <2>1, <2>3, <2>4 DEF KvmStep, KvmMove
  <1>3. CASE AgentAges
    BY <1>1, <1>3, KvmIdleStep DEF AgentAges
  <1> QED  BY <1>2, <1>3

\* KVM_OP_WS_CLAIM, whose token is new even for the same claim.
LEMMA WsClaimStep ==
  ASSUME VideoTypeOK, HidTypeOK, OwnerIsNotCanceled, NEW w, NEW s,
         WsAccepted(w, s), WsUpdate(w, s),
         Handover(DesiredKvmOwner(kvm', takeover'), TRUE)
  PROVE  KvmStep(TRUE)
  <1>1. /\ kvm \in Kvms /\ ring \in Rings /\ cursor \in 0..(CanceledSlots - 1)
        /\ agent \in {"none", "fresh", "stale"} /\ takeover \in BOOLEAN
    BY VideoTypes
  <1>2. kvm.stream = s /\ kvm.who = w /\ Live(w)
    BY DEF WsAccepted, LiveHeartbeat, Owns
  <1>3. kvm' \in Kvms /\ kvm'.stream = kvm.stream /\ kvm'.who = w
    BY <1>1, <1>2 DEF WsUpdate, Kvm, Kvms
  <1>4. UNCHANGED <<ring, cursor, agent>> /\ takeover' \in BOOLEAN
    BY <1>1 DEF WsUpdate, TakeoverNow
  <1>5. OwnerIsNotCanceled'
    BY <1>3, <1>4 DEF OwnerIsNotCanceled, Canceled
  <1> QED  BY <1>1, <1>2, <1>3, <1>4, <1>5, KvmHandingStep

-----------------------------------------------------------------------------
(***************************************************************************)
(* The owner of the reports after a move.                                  *)
(***************************************************************************)

\* desired_owner_locked: the present lease, or the former owner if that was
\* none of a lease, or nobody.
LEMMA LeaseOwner ==
  ASSUME Handover(DesiredOwner(lease'), FALSE)
  PROVE  \/ /\ current'.claim = LeaseClaim(lease')
            /\ Active(lease') /\ lease'.mode # "observe"
         \/ current'.claim = current.claim /\ current.claim.kind # LeaseKind
         \/ current'.claim = NoClaim
  BY HandoverClaim DEF DesiredOwner

\* set_kvm_hid_claim_locked: the present stream, or the former owner if that
\* was none of the KVM, or nobody.
LEMMA KvmOwner ==
  ASSUME NEW replace, Handover(DesiredKvmOwner(kvm', takeover'), replace)
  PROVE  \/ current'.claim = KvmClaim(kvm') /\ kvm'.phase = "fresh" /\ ~takeover'
         \/ current'.claim = current.claim /\ current.claim.kind # KvmKind
         \/ current'.claim = NoClaim
  BY HandoverClaim DEF DesiredKvmOwner

\* The kinds of a claim.
LEMMA ClaimKinds ==
  /\ NoClaim.kind = NoneKind /\ NoClaim.auth = 0
  /\ \A l : LeaseClaim(l).kind = LeaseKind /\ LeaseClaim(l).epoch = l.epoch
  /\ \A k : KvmClaim(k).kind = KvmKind
  /\ NoneKind # LeaseKind /\ NoneKind # KvmKind /\ LeaseKind # KvmKind
  BY DEF NoClaim, LeaseClaim, KvmClaim, NoneKind, LeaseKind, KvmKind

\* After a move of the lease, its token is still told by the epoch ...
LEMMA LeaseMoveTold ==
  ASSUME lease \in LeaseRecords, lease' \in LeaseRecords, current \in Tokens,
         LeaseTokenIsTold, LeaseMove
  PROVE  LeaseTokenIsTold'
  <1>1. CASE UNCHANGED <<hidVars, lease>>
    BY <1>1 DEF LeaseTokenIsTold, hidVars, Seen, LeaseClaim
  <1>2. CASE UNCHANGED hidVars /\ lease.epoch < lease'.epoch
    BY <1>2, ClaimFields DEF LeaseTokenIsTold, hidVars, LeaseRecords, Tokens
  <1>3. CASE /\ UNCHANGED hidVars /\ Seen(lease)
             /\ lease' = [lease EXCEPT !.phase = "stale"]
    <2>1. /\ lease'.who = lease.who /\ lease'.resource = lease.resource
          /\ lease'.epoch = lease.epoch /\ lease'.mode = lease.mode
          /\ lease'.phase = "stale"
      BY <1>3 DEF LeaseRecords
    <2> QED  BY <1>3, <2>1 DEF LeaseTokenIsTold, hidVars, Seen, LeaseClaim
  <1>4. CASE Handover(DesiredOwner(lease'), FALSE)
    <2>1. lease'.epoch <= lease'.epoch
      BY DEF LeaseRecords
    <2>2. CASE /\ current'.claim = LeaseClaim(lease')
               /\ Active(lease') /\ lease'.mode # "observe"
      BY <2>1, <2>2, ClaimKinds DEF LeaseTokenIsTold, Active, Seen
    <2>3. CASE current'.claim = current.claim /\ current.claim.kind # LeaseKind
      BY <2>3 DEF LeaseTokenIsTold
    <2>4. CASE current'.claim = NoClaim
      BY <2>4, ClaimKinds DEF LeaseTokenIsTold
    <2> QED  BY <1>4, <2>2, <2>3, <2>4, LeaseOwner
  <1> QED  BY <1>1, <1>2, <1>3, <1>4 DEF LeaseMove

\* ... and the KVM has no token that it did not have.
LEMMA LeaseMoveKvm ==
  ASSUME LeaseMove, current'.claim.kind = KvmKind
  PROVE  current'.claim = current.claim
  <1>1. CASE UNCHANGED hidVars
    BY <1>1 DEF hidVars
  <1>2. CASE Handover(DesiredOwner(lease'), FALSE)
    BY <1>2, LeaseOwner, ClaimKinds
  <1> QED  BY <1>1, <1>2 DEF LeaseMove

\* After a move of the KVM, the token it has is the present stream's ...
LEMMA KvmMovePresent ==
  ASSUME kvm \in Kvms, NEW replace, KvmMove(replace), KvmTokenIsPresent
  PROVE  KvmTokenIsPresent'
  <1>1. CASE UNCHANGED <<hidVars, kvm>>
    BY <1>1 DEF KvmTokenIsPresent, hidVars, KvmClaim
  <1>2. CASE UNCHANGED hidVars /\ kvm' = [kvm EXCEPT !.phase = "stale"]
    <2>1. /\ kvm'.who = kvm.who /\ kvm'.stream = kvm.stream
          /\ kvm'.epoch = kvm.epoch /\ kvm'.phase = "stale"
      BY <1>2 DEF Kvms
    <2> QED  BY <1>2, <2>1 DEF KvmTokenIsPresent, hidVars, KvmClaim
  <1>3. CASE Handover(DesiredKvmOwner(kvm', takeover'), replace)
    BY <1>3, KvmOwner, ClaimKinds DEF KvmTokenIsPresent
  <1> QED  BY <1>1, <1>2, <1>3 DEF KvmMove

\* ... it has none during a takeover, ...
LEMMA KvmMoveTakeover ==
  ASSUME NEW replace, KvmMove(replace), TakeoverExcludesKvm
  PROVE  TakeoverExcludesKvm'
  <1>1. CASE UNCHANGED hidVars /\ (takeover' => takeover)
    BY <1>1 DEF TakeoverExcludesKvm, hidVars
  <1>2. CASE Handover(DesiredKvmOwner(kvm', takeover'), replace)
    BY <1>2, KvmOwner, ClaimKinds DEF TakeoverExcludesKvm
  <1> QED  BY <1>1, <1>2 DEF KvmMove

\* ... and the lease has no token that it did not have.
LEMMA KvmMoveLease ==
  ASSUME NEW replace, KvmMove(replace), current'.claim.kind = LeaseKind
  PROVE  current'.claim = current.claim
  <1>1. CASE UNCHANGED hidVars
    BY <1>1 DEF hidVars
  <1>2. CASE Handover(DesiredKvmOwner(kvm', takeover'), replace)
    BY <1>2, KvmOwner, ClaimKinds
  <1> QED  BY <1>1, <1>2 DEF KvmMove

-----------------------------------------------------------------------------
(***************************************************************************)
(* The inductive invariant.                                                *)
(***************************************************************************)

\* Between the two halves of its revocation and afterwards, a session has no
\* token of the KVM: its stream could only be renewed by a live session.
UnhidHasNoKvm ==
  \A w \in Sessions :
    sess[w] \in {"unhid", "revoked"} /\ HoldsHid(w) => current.claim.kind # KvmKind

\* The lease of a session whose revocation is over is journaled to be revoked.
RevokedLeaseIsJournaled ==
  \A w \in Sessions : sess[w] = "revoked" /\ HoldsLease(w) => Journaled(w)

\* Two open sockets never keep the same token.
SocketTokensDiffer ==
  \A k \in Sockets : sock[k].pc = "open" =>
    /\ sock[k].tok.gen <= nextGen
    /\ \A j \in Sockets \ {k} :
         sock[j].pc = "open" /\ sock[k].tok.gen # 0 =>
           sock[j].tok.gen # sock[k].tok.gen

Inv ==
  /\ TypeOK /\ TokenIsOfThePresent /\ TakeoverIsExclusive
  /\ UnhidHasNoKvm /\ RevokedLeaseIsJournaled /\ SocketTokensDiffer

SocketRecords ==
  [pc: {"closed", "claim", "open"}, who: Browsers \cup {NoWho},
   stream: Streams \cup {0}, tok: Tokens]

\* TypeOK by its parts.
LEMMA PlaneTypes ==
  TypeOK <=>
    /\ LeaseTypeOK /\ VideoTypeOK /\ HidTypeOK /\ ProducerTypeOK
    /\ sess \in [Sessions -> SessionStates]
    /\ sock \in [Sockets -> SocketRecords]
  BY Zenon DEF TypeOK, HidTypeOK, ProducerTypeOK, SocketRecords

\* The steps of the system by the one part they are steps of.
StepOfLease ==
  LeaseStep /\ ProducerTypeOK' /\ UNCHANGED <<sess, kvmVars, sock>>

StepOfKvm ==
  KvmStep(FALSE) /\ UNCHANGED <<sess, leaseVars, producerVars, sock>>

\* Every step is one of the lease, of the KVM, of the authentication service or
\* of a socket.
LEMMA StepKinds ==
  ASSUME TypeOK, OwnerIsNotCanceled, Next
  PROVE  \/ StepOfLease \/ StepOfKvm
         \/ \E w \in Sessions : AuthStep(w) \/ RevokeStep(w)
         \/ \E k \in Sockets : SocketStep(k)
  <1>1. LeaseTypeOK /\ VideoTypeOK /\ HidTypeOK /\ ProducerTypeOK
    BY PlaneTypes
  <1>2. ASSUME NEW p \in Producers, ProducerStep(p)
        PROVE  StepOfLease
    <2>1. LeaseStep
      BY <1>1, <1>2, ProducerLeaseStep DEF ProducerStep
    <2>2. ProducerTypeOK'
      BY <1>1, <1>2, <2>1, ProducerTypes DEF ProducerStep, LeaseStep, HidTypeOK
    <2> QED  BY <1>2, <2>1, <2>2 DEF StepOfLease, ProducerStep
  <1>3. ASSUME LeaseStep, UNCHANGED producerVars, UNCHANGED <<sess, kvmVars, sock>>
        PROVE  StepOfLease
    BY <1>1, <1>3 DEF StepOfLease, ProducerTypeOK, producerVars
  <1>4. ASSUME NEW w \in Sessions, UpdateStep(w)
        PROVE  StepOfLease
    <2>1. UNCHANGED producerVars
      BY <1>4 DEF UpdateStep, SessionUpdate, UpdateHeld, UpdateActive, UpdateInactive
    <2> QED  BY <1>1, <1>3, <1>4, <2>1, UpdateLeaseStep DEF UpdateStep
  <1>5. CASE StopStep
    <2>1. PICK name \in Names : Stop(name) /\ UNCHANGED <<sess, kvmVars, sock>>
      BY <1>5 DEF StopStep
    <2> DEFINE r == [session |-> name, auth |-> 0]
    <2>2. r \in Revocations
      <3>1. name \in {w.session : w \in Sessions \cup {Embedded}}
        BY DEF Names
      <3> QED  BY <3>1 DEF Revocations
    <2>3. RevokeLease(r) \/ RevokeLater(r)
      BY <2>1 DEF Stop
    <2> HIDE DEF r
    <2>4. UNCHANGED producerVars
      BY <2>3 DEF RevokeLease, RevokeLater
    <2> QED  BY <1>1, <1>3, <2>1, <2>2, <2>3, <2>4, RevokeLeaseStep, RevokeLaterStep
  <1>6. CASE MaintainStep
    BY <1>1, <1>3, <1>6, MaintainLeaseStep DEF MaintainStep, Maintain
  <1>7. CASE PageStep
    BY <1>1, <1>7, PageKvmStep DEF PageStep, StepOfKvm
  <1>8. CASE AutomationStep
    BY <1>1, <1>8, AutomationKvmStep DEF AutomationStep, StepOfKvm
  <1>9. CASE ExpireStep
    BY <1>1, <1>9, ExpireKvmStep, NotAcceptedStep
       DEF ExpireStep, ExpireNothing, StepOfKvm
  <1>10. CASE TimePasses
    <2>1. CASE LeaseAges /\ UNCHANGED kvmVars /\ UNCHANGED <<sess, sock>>
      BY <1>1, <1>3, <2>1, AgingLeaseStep DEF LeaseAges
    <2>2. CASE (KvmAges \/ AgentAges) /\ UNCHANGED <<leaseVars, producerVars, sess, sock>>
      BY <1>1, <2>2, AgingKvmStep DEF StepOfKvm
    <2> QED  BY <1>10, <2>1, <2>2 DEF TimePasses
  <1> QED
    BY <1>2, <1>4, <1>5, <1>6, <1>7, <1>8, <1>9, <1>10 DEF Next

\* What no step of another part disturbs.
LEMMA SocketsKept ==
  ASSUME SocketTokensDiffer, UNCHANGED sock, nextGen \in Nat, nextGen' \in Nat,
         sock \in [Sockets -> SocketRecords], nextGen <= nextGen'
  PROVE  SocketTokensDiffer'
  BY DEF SocketTokensDiffer, SocketRecords, Tokens

\* The invariant holds when the device has started.
LEMMA InitInv == Init => Inv
  <1> SUFFICES ASSUME Init PROVE Inv
    OBVIOUS
  <1> USE NoClaimIsAClaim DEF Init, HidInit, AuthInit, LeaseInit, VideoInit
  <1>1. HidTypeOK
    BY DEF HidTypeOK, NoToken
  <1>2. LeaseTypeOK
    <2>1. lease \in LeaseRecords
      BY LeaseAssumption DEF Lease, LeaseRecords
    <2>2. ppc \in [Producers -> ProducerPlaces]
      BY DEF ProducerPlaces
    <2> QED  BY <2>1, <2>2, LeaseTypes
  <1>3. VideoTypeOK
    <2>1. kvm \in Kvms
      BY DEF Kvm, Kvms
    <2>2. ring \in Rings
      BY DEF Rings
    <2>3. cursor \in 0..(CanceledSlots - 1)
      BY VideoAssumption
    <2> QED  BY <2>1, <2>2, <2>3, VideoTypes
  <1>4. ProducerTypeOK /\ sess \in [Sessions -> SessionStates]
    BY DEF ProducerTypeOK, SessionStates
  <1>5. sock \in [Sockets -> SocketRecords]
    BY DEF ClosedSocket, SocketRecords
  <1>6. TypeOK
    BY <1>1, <1>2, <1>3, <1>4, <1>5, PlaneTypes
  <1>7. TokenIsOfThePresent /\ TakeoverIsExclusive
    BY ClaimKinds DEF NoToken, TokenIsOfThePresent, LeaseTokenIsTold,
       KvmTokenIsPresent, TakeoverIsExclusive, TakeoverExcludesKvm,
       OwnerIsNotCanceled, Canceled, Kvm
  <1>8. UnhidHasNoKvm /\ RevokedLeaseIsJournaled /\ SocketTokensDiffer
    BY DEF UnhidHasNoKvm, RevokedLeaseIsJournaled, SocketTokensDiffer, ClosedSocket
  <1> QED  BY <1>6, <1>7, <1>8 DEF Inv

\* A session has no KVM token that it did not have, nor a lease it did not
\* have, unless it is live.
LEMMA LeaseStepInv ==
  ASSUME Inv, StepOfLease
  PROVE  Inv'
  <1>1. /\ LeaseTypeOK /\ VideoTypeOK /\ HidTypeOK /\ ProducerTypeOK
        /\ sess \in [Sessions -> SessionStates]
        /\ sock \in [Sockets -> SocketRecords]
    BY PlaneTypes DEF Inv
  <1>2. /\ LeaseMove /\ HolderMove /\ LeaseTypeOK' /\ HidTypeOK'
        /\ ProducerTypeOK' /\ nextGen <= nextGen'
    BY DEF StepOfLease, LeaseStep
  <1>3. UNCHANGED <<sess, sock, kvm, ring, cursor, agent, takeover>>
    BY DEF StepOfLease, kvmVars
  <1>4. TypeOK'
    <2>1. VideoTypeOK'
      BY <1>1, <1>3 DEF VideoTypeOK
    <2> QED  BY <1>1, <1>2, <1>3, <2>1
                DEF TypeOK, HidTypeOK, ProducerTypeOK, SocketRecords
  <1>5. lease \in LeaseRecords /\ lease' \in LeaseRecords
    BY <1>1, <1>2, LeaseTypes DEF LeaseTypeOK, LeaseRecords
  <1>6. TokenIsOfThePresent'
    <2>1. LeaseTokenIsTold'
      BY <1>1, <1>2, <1>5, LeaseMoveTold DEF Inv, TokenIsOfThePresent, HidTypeOK
    <2>2. KvmTokenIsPresent'
      BY <1>2, <1>3, LeaseMoveKvm
         DEF Inv, TokenIsOfThePresent, KvmTokenIsPresent, KvmClaim
    <2> QED  BY <2>1, <2>2 DEF TokenIsOfThePresent
  <1>7. TakeoverIsExclusive'
    BY <1>2, <1>3, LeaseMoveKvm
       DEF Inv, TakeoverIsExclusive, TakeoverExcludesKvm, OwnerIsNotCanceled, Canceled
  <1>8. UnhidHasNoKvm'
    BY <1>2, <1>3, LeaseMoveKvm DEF Inv, UnhidHasNoKvm, HoldsHid
  <1>9. RevokedLeaseIsJournaled'
    <2> SUFFICES ASSUME NEW w \in Sessions, sess[w] = "revoked", HoldsLease(w)'
                 PROVE  Journaled(w)'
      BY <1>3 DEF RevokedLeaseIsJournaled
    <2>1. Seen(lease') /\ lease'.who = w
      BY DEF HoldsLease
    <2>2. w # Embedded /\ ~Live(w)
      BY SessionAssumption DEF Embedded, Live
    <2>3. Seen(lease) /\ lease.who = w
      BY <1>2, <2>1, <2>2 DEF HolderMove
    <2>4. Journaled(w)
      BY <2>3 DEF Inv, RevokedLeaseIsJournaled, HoldsLease
    <2>5. ~(~failClosed /\ \A r \in pending : ~Matches(r, lease))
      BY <2>3, <2>4 DEF Journaled, Matches
    <2>6. pending \subseteq pending' /\ (failClosed => failClosed')
      BY <1>2, <2>1, <2>2, <2>5 DEF HolderMove
    <2> QED  BY <2>4, <2>6 DEF Journaled
  <1>10. SocketTokensDiffer'
    BY <1>1, <1>2, <1>3, SocketsKept DEF Inv, HidTypeOK
  <1> QED  BY <1>4, <1>6, <1>7, <1>8, <1>9, <1>10 DEF Inv

\* A move of the KVM keeps the invariant, whoever makes it.
LEMMA KvmStepInv ==
  ASSUME Inv, NEW replace, KvmStep(replace), UNCHANGED <<sess, leaseVars, producerVars>>,
         sock' \in [Sockets -> SocketRecords], SocketTokensDiffer'
  PROVE  Inv'
  <1>1. /\ LeaseTypeOK /\ VideoTypeOK /\ HidTypeOK /\ ProducerTypeOK
        /\ sess \in [Sessions -> SessionStates]
    BY PlaneTypes DEF Inv
  <1>2. /\ KvmMove(replace) /\ VideoTypeOK' /\ OwnerIsNotCanceled'
        /\ HidTypeOK' /\ nextGen <= nextGen'
    BY DEF KvmStep
  <1>3. UNCHANGED <<sess, lease, nextResource, pending, failClosed, preempted,
                    ppc, ptok, granted>>
    BY DEF leaseVars, producerVars
  <1>4. TypeOK'
    <2>1. LeaseTypeOK' /\ ProducerTypeOK'
      BY <1>1, <1>3 DEF LeaseTypeOK, ProducerTypeOK
    <2> QED  BY <1>1, <1>2, <1>3, <2>1
                DEF TypeOK, HidTypeOK, ProducerTypeOK, SocketRecords
  <1>5. kvm \in Kvms /\ kvm' \in Kvms
    BY <1>1, <1>2, VideoTypes DEF VideoTypeOK, Kvms
  <1>6. TokenIsOfThePresent'
    <2>1. LeaseTokenIsTold'
      BY <1>2, <1>3, KvmMoveLease
         DEF Inv, TokenIsOfThePresent, LeaseTokenIsTold, Seen, LeaseClaim
    <2>2. KvmTokenIsPresent'
      BY <1>2, <1>5, KvmMovePresent DEF Inv, TokenIsOfThePresent
    <2> QED  BY <2>1, <2>2 DEF TokenIsOfThePresent
  <1>7. TakeoverIsExclusive'
    BY <1>2, KvmMoveTakeover DEF Inv, TakeoverIsExclusive
  <1>8. UnhidHasNoKvm'
    <2> SUFFICES ASSUME NEW w \in Sessions, sess[w] \in {"unhid", "revoked"},
                        HoldsHid(w)', current'.claim.kind = KvmKind
                 PROVE  FALSE
      BY <1>3 DEF UnhidHasNoKvm
    <2>1. CASE UNCHANGED hidVars
      BY <2>1 DEF Inv, UnhidHasNoKvm, HoldsHid, hidVars
    <2>2. CASE /\ Handover(DesiredKvmOwner(kvm', takeover'), replace)
               /\ kvm'.phase = "fresh" /\ ~takeover' => Live(kvm'.who)
      <3>1. current'.claim = KvmClaim(kvm') /\ Live(kvm'.who)
        BY <2>2, KvmOwner, ClaimKinds
      <3>2. kvm'.who \in Sessions
        BY <1>1, <3>1 DEF Live
      <3>3. kvm'.who = w
        BY <3>1, <3>2, SessionAssumption DEF HoldsHid, KvmClaim
      <3> QED  BY <3>1, <3>3 DEF Live
    <2> QED  BY <1>2, <2>1, <2>2 DEF KvmMove
  <1>9. RevokedLeaseIsJournaled'
    BY <1>3 DEF Inv, RevokedLeaseIsJournaled, HoldsLease, Journaled, Seen
  <1> QED  BY <1>2, <1>4, <1>6, <1>7, <1>8, <1>9 DEF Inv

\* A session begins or ends: none goes back to a revoked state or leaves one.
LEMMA AuthStepInv ==
  ASSUME Inv, NEW w \in Sessions, AuthStep(w)
  PROVE  Inv'
  <1>1. UNCHANGED <<hidVars, leaseVars, producerVars, kvmVars, sock>>
    BY DEF AuthStep
  <1>2. sess \in [Sessions -> SessionStates]
    BY DEF Inv, TypeOK
  <1>3. /\ sess' \in [Sessions -> SessionStates]
        /\ \A v \in Sessions : sess'[v] \in {sess[v], "live", "ended"}
    BY <1>2 DEF AuthStep, CreateSession, EndSession, SessionStates, LivePeers, Peers,
       Sessions
  <1>4. TypeOK'
    BY <1>1, <1>3 DEF Inv, TypeOK, LeaseTypeOK, VideoTypeOK, hidVars, leaseVars,
       producerVars, kvmVars
  <1>5. TokenIsOfThePresent' /\ TakeoverIsExclusive' /\ SocketTokensDiffer'
    BY <1>1 DEF Inv, TokenIsOfThePresent, LeaseTokenIsTold, KvmTokenIsPresent,
       Seen, LeaseClaim, KvmClaim, TakeoverIsExclusive, TakeoverExcludesKvm,
       OwnerIsNotCanceled, Canceled, SocketTokensDiffer, hidVars, leaseVars, kvmVars
  <1>6. UnhidHasNoKvm'
    BY <1>1, <1>3 DEF Inv, UnhidHasNoKvm, HoldsHid, hidVars
  <1>7. RevokedLeaseIsJournaled'
    BY <1>1, <1>3
       DEF Inv, RevokedLeaseIsJournaled, HoldsLease, Journaled, Seen, leaseVars
  <1> QED  BY <1>4, <1>5, <1>6, <1>7 DEF Inv

\* si_hid_owner_revoke_session and si_hid_owner_release_if_current: the owner
\* stays, or there is none.
LEMMA OwnerLost ==
  ASSUME HidTypeOK, UNCHANGED hidVars \/ Handover(NoClaim, FALSE)
  PROVE  /\ HidTypeOK' /\ nextGen <= nextGen'
         /\ UNCHANGED hidVars \/ current'.claim = NoClaim
  <1>1. CASE UNCHANGED hidVars
    BY <1>1 DEF hidVars, HidTypeOK
  <1>2. CASE Handover(NoClaim, FALSE)
    BY <1>2, HandoverTypes, HandoverClaim, NoClaimIsAClaim DEF HidTypeOK
  <1> QED  BY <1>1, <1>2

\* Without an owner, or with the same one, the tokens are as good as they were.
LEMMA OwnerLostInv ==
  ASSUME Inv, UNCHANGED hidVars \/ Handover(NoClaim, FALSE),
         UNCHANGED <<leaseVars, producerVars, kvmVars>>,
         sess' \in [Sessions -> SessionStates],
         sock' \in [Sockets -> SocketRecords]
  PROVE  TypeOK' /\ TokenIsOfThePresent' /\ TakeoverIsExclusive' /\ nextGen <= nextGen'
  <1>1. HidTypeOK' /\ nextGen <= nextGen'
    BY OwnerLost, PlaneTypes DEF Inv
  <1>2. UNCHANGED hidVars \/ current'.claim = NoClaim
    BY OwnerLost, PlaneTypes DEF Inv
  <1>3. UNCHANGED <<lease, nextResource, pending, failClosed, preempted, ppc,
                    ptok, granted, kvm, ring, cursor, agent, takeover>>
    BY DEF leaseVars, producerVars, kvmVars
  <1>4. TypeOK'
    BY <1>1, <1>3 DEF Inv, TypeOK, HidTypeOK, LeaseTypeOK, VideoTypeOK, SocketRecords
  <1>5. TokenIsOfThePresent'
    BY <1>2, <1>3, ClaimKinds DEF Inv, TokenIsOfThePresent, LeaseTokenIsTold,
       KvmTokenIsPresent, Seen, LeaseClaim, KvmClaim, hidVars
  <1>6. TakeoverIsExclusive'
    BY <1>2, <1>3, ClaimKinds DEF Inv, TakeoverIsExclusive, TakeoverExcludesKvm,
       OwnerIsNotCanceled, Canceled, hidVars
  <1> QED  BY <1>1, <1>4, <1>5, <1>6

\* The first half of a revocation.
LEMMA RevokeHidInv ==
  ASSUME Inv, NEW w \in Sessions, RevokeHid(w), UNCHANGED <<kvmVars, sock>>
  PROVE  Inv'
  <1>1. /\ LeaseTypeOK /\ VideoTypeOK /\ HidTypeOK /\ ProducerTypeOK
        /\ sess \in [Sessions -> SessionStates]
        /\ sock \in [Sockets -> SocketRecords]
    BY PlaneTypes DEF Inv
  <1>2. /\ UNCHANGED hidVars \/ Handover(NoClaim, FALSE)
        /\ UNCHANGED <<leaseVars, producerVars, kvmVars>>
    BY DEF RevokeHid, RevokeTokenOf
  <1>3. /\ sess' = [sess EXCEPT ![w] = "unhid"]
        /\ sess' \in [Sessions -> SessionStates]
    BY <1>1 DEF RevokeHid, SessionStates
  <1>4. /\ TypeOK' /\ TokenIsOfThePresent' /\ TakeoverIsExclusive'
        /\ nextGen <= nextGen'
    BY <1>1, <1>2, <1>3, OwnerLostInv
  <1>5. UnhidHasNoKvm'
    <2> SUFFICES ASSUME NEW v \in Sessions, sess'[v] \in {"unhid", "revoked"},
                        HoldsHid(v)', current'.claim.kind = KvmKind
                 PROVE  FALSE
      BY DEF UnhidHasNoKvm
    <2>1. UNCHANGED hidVars
      BY <1>1, <1>2, OwnerLost, ClaimKinds
    <2>2. CASE v = w
      <3>1. w.auth # 0 /\ current.claim.auth = w.auth /\ current.claim.session = w.session
        BY <2>1, <2>2, SessionAssumption DEF HoldsHid, hidVars
      <3>2. current.gen = 0 \/ Handover(NoClaim, FALSE)
        BY <3>1 DEF RevokeHid, RevokeTokenOf
      <3>3. current.gen # 0 => ~Keeps(NoClaim, FALSE)
        BY <3>1, ClaimKinds DEF Keeps
      <3>4. CASE current.gen # 0
        <4>1. current' = NoToken
          BY <3>2, <3>3, <3>4, HandoverOutcome
        <4> QED  BY <2>1, <3>1, <4>1, ClaimKinds DEF NoToken, hidVars
      <3>5. CASE current.gen = 0
        BY <1>1, <3>1, <3>5, ClaimKinds DEF HidTypeOK, NoToken
      <3> QED  BY <3>4, <3>5
    <2>3. CASE v # w
      BY <1>1, <1>3, <2>1, <2>3 DEF Inv, UnhidHasNoKvm, HoldsHid, hidVars
    <2> QED  BY <2>2, <2>3
  <1>6. RevokedLeaseIsJournaled'
    BY <1>1, <1>2, <1>3
       DEF Inv, RevokedLeaseIsJournaled, HoldsLease, Journaled, Seen, leaseVars
  <1>7. SocketTokensDiffer'
    BY <1>1, <1>4, SocketsKept DEF Inv, HidTypeOK, TypeOK
  <1> QED  BY <1>4, <1>5, <1>6, <1>7 DEF Inv

\* The second half: the lease is revoked, or its revocation is journaled.
LEMMA RevokeLeaseOfInv ==
  ASSUME Inv, NEW w \in Sessions, RevokeLeaseOf(w), UNCHANGED <<kvmVars, sock>>
  PROVE  Inv'
  <1>1. /\ LeaseTypeOK /\ VideoTypeOK /\ HidTypeOK /\ ProducerTypeOK
        /\ sess \in [Sessions -> SessionStates]
        /\ sock \in [Sockets -> SocketRecords]
    BY PlaneTypes DEF Inv
  <1>2. w \in Revocations
    <2>1. /\ w = [session |-> w.session, auth |-> w.auth]
          /\ w.session \in {v.session : v \in Sessions \cup {Embedded}}
          /\ w.auth \in {v.auth : v \in Sessions} \cup {0}
      BY SessionAssumption
    <2> QED  BY <2>1 DEF Revocations
  <1>3. RevokeLease(w) \/ RevokeLater(w)
    BY DEF RevokeLeaseOf
  <1>4. /\ LeaseStep
        /\ (Seen(lease') => ~Matches(w, lease')) \/ failClosed' \/ w \in pending'
    BY <1>1, <1>2, <1>3, RevokeLeaseStep, RevokeLaterStep
  <1>5. /\ LeaseMove /\ HolderMove /\ LeaseTypeOK' /\ HidTypeOK' /\ nextGen <= nextGen'
    BY <1>4 DEF LeaseStep
  <1>6. UNCHANGED <<sock, kvm, ring, cursor, agent, takeover, ppc, ptok, granted>>
    BY <1>3 DEF RevokeLease, RevokeLater, kvmVars, producerVars
  <1>7. /\ sess[w] = "unhid" /\ sess' = [sess EXCEPT ![w] = "revoked"]
        /\ sess' \in [Sessions -> SessionStates]
    BY <1>1 DEF RevokeLeaseOf, SessionStates
  <1>8. TypeOK'
    <2>1. VideoTypeOK' /\ ProducerTypeOK'
      BY <1>1, <1>6 DEF VideoTypeOK, ProducerTypeOK
    <2> QED  BY <1>1, <1>5, <1>6, <1>7, <2>1
                DEF TypeOK, HidTypeOK, ProducerTypeOK, SocketRecords
  <1>9. lease \in LeaseRecords /\ lease' \in LeaseRecords
    BY <1>1, <1>5, LeaseTypes DEF LeaseTypeOK, LeaseRecords
  <1>10. TokenIsOfThePresent'
    <2>1. LeaseTokenIsTold'
      BY <1>1, <1>5, <1>9, LeaseMoveTold DEF Inv, TokenIsOfThePresent, HidTypeOK
    <2>2. KvmTokenIsPresent'
      BY <1>5, <1>6, LeaseMoveKvm
         DEF Inv, TokenIsOfThePresent, KvmTokenIsPresent, KvmClaim
    <2> QED  BY <2>1, <2>2 DEF TokenIsOfThePresent
  <1>11. TakeoverIsExclusive'
    BY <1>5, <1>6, LeaseMoveKvm
       DEF Inv, TakeoverIsExclusive, TakeoverExcludesKvm, OwnerIsNotCanceled, Canceled
  <1>12. UnhidHasNoKvm'
    <2>1. \A v \in Sessions : sess'[v] \in {"unhid", "revoked"} =>
            sess[v] \in {"unhid", "revoked"}
      BY <1>1, <1>7
    <2> QED  BY <1>5, <2>1, LeaseMoveKvm DEF Inv, UnhidHasNoKvm, HoldsHid
  <1>13. RevokedLeaseIsJournaled'
    <2> SUFFICES ASSUME NEW v \in Sessions, sess'[v] = "revoked", HoldsLease(v)'
                 PROVE  Journaled(v)'
      BY DEF RevokedLeaseIsJournaled
    <2>1. Seen(lease') /\ lease'.who = v
      BY DEF HoldsLease
    <2>2. CASE v = w
      BY <1>4, <2>1, <2>2 DEF Matches, Journaled
    <2>3. CASE v # w
      <3>1. sess[v] = "revoked"
        BY <1>1, <1>7, <2>3
      <3>2. v # Embedded /\ ~Live(v)
        BY <3>1, SessionAssumption DEF Embedded, Live
      <3>3. Seen(lease) /\ lease.who = v
        BY <1>5, <2>1, <3>2 DEF HolderMove
      <3>4. Journaled(v)
        BY <3>1, <3>3 DEF Inv, RevokedLeaseIsJournaled, HoldsLease
      <3>5. ~(~failClosed /\ \A r \in pending : ~Matches(r, lease))
        BY <3>3, <3>4 DEF Journaled, Matches
      <3>6. pending \subseteq pending' /\ (failClosed => failClosed')
        BY <1>5, <2>1, <3>2, <3>5 DEF HolderMove
      <3> QED  BY <3>4, <3>6 DEF Journaled
    <2> QED  BY <2>2, <2>3
  <1>14. SocketTokensDiffer'
    BY <1>1, <1>5, <1>6, SocketsKept DEF Inv, HidTypeOK
  <1> QED  BY <1>8, <1>10, <1>11, <1>12, <1>13, <1>14 DEF Inv

-----------------------------------------------------------------------------
(***************************************************************************)
(* The sockets.                                                            *)
(***************************************************************************)

\* A socket that is not open keeps no token.
LEMMA NotOpenSocket ==
  ASSUME SocketTokensDiffer, NEW k \in Sockets, NEW c \in SocketRecords,
         c.pc # "open", sock' = [sock EXCEPT ![k] = c],
         sock \in [Sockets -> SocketRecords], nextGen \in Nat, nextGen' \in Nat,
         nextGen <= nextGen'
  PROVE  sock' \in [Sockets -> SocketRecords] /\ SocketTokensDiffer'
  <1>1. sock' \in [Sockets -> SocketRecords]
    OBVIOUS
  <1>2. \A j \in Sockets : sock'[j].pc = "open" => j # k /\ sock'[j] = sock[j]
    OBVIOUS
  <1>3. \A j \in Sockets : sock[j].tok.gen \in Nat
    BY DEF SocketRecords, Tokens
  <1>4. SocketTokensDiffer'
    BY <1>2, <1>3 DEF SocketTokensDiffer
  <1> QED  BY <1>1, <1>4

\* The record of a closed socket.
LEMMA ClosedIsASocket == ClosedSocket \in SocketRecords /\ ClosedSocket.pc # "open"
  BY NoClaimIsAClaim DEF ClosedSocket, SocketRecords

\* Every step of a socket moves it.
LEMMA SocketMoves ==
  ASSUME sock \in [Sockets -> SocketRecords], NEW k \in Sockets, SocketStep(k)
  PROVE  sock'[k].pc # sock[k].pc
  <1>1. ASSUME NEW w, NEW s, WsCheck(k, w, s)
        PROVE  sock'[k].pc # sock[k].pc
    BY <1>1 DEF WsCheck, Socket
  <1>2. CASE WsClaim(k)
    BY <1>2 DEF WsClaim, Socket
  <1>3. CASE WsClaimFails(k)
    <2>1. sock[k].pc = "claim" /\ sock' = [sock EXCEPT ![k] = ClosedSocket]
      BY <1>3 DEF WsClaimFails
    <2> QED  BY <2>1 DEF ClosedSocket
  <1>4. CASE WsClose(k)
    BY <1>4 DEF WsClose, ClosedSocket
  <1> QED  BY <1>1, <1>2, <1>3, <1>4 DEF SocketStep

\* Every claim of a socket mints a generation that no other socket has.
LEMMA SocketStepInv ==
  ASSUME Inv, NEW k \in Sockets, SocketStep(k)
  PROVE  Inv'
  <1>1. /\ LeaseTypeOK /\ VideoTypeOK /\ HidTypeOK /\ ProducerTypeOK
        /\ sess \in [Sessions -> SessionStates]
        /\ sock \in [Sockets -> SocketRecords]
        /\ nextGen \in Nat /\ SocketTokensDiffer /\ OwnerIsNotCanceled
    BY PlaneTypes DEF Inv, HidTypeOK, TakeoverIsExclusive
  <1>2. UNCHANGED <<sess, leaseVars, producerVars>>
    BY DEF SocketStep
  <1>3. ASSUME NEW w \in Browsers, NEW s \in Streams, WsCheck(k, w, s)
        PROVE  Inv'
    <2> DEFINE c == Socket("claim", w, s, NoToken)
    <2>1. c \in SocketRecords /\ c.pc # "open"
      BY NoClaimIsAClaim DEF Socket, SocketRecords
    <2>2. sock' = [sock EXCEPT ![k] = c] /\ UNCHANGED <<hidVars, kvmVars>>
      BY <1>3 DEF WsCheck
    <2> HIDE DEF c
    <2>3. nextGen' = nextGen /\ nextGen <= nextGen
      BY <1>1, <2>2 DEF hidVars
    <2>4. sock' \in [Sockets -> SocketRecords] /\ SocketTokensDiffer'
      BY <1>1, <2>1, <2>2, <2>3, NotOpenSocket
    <2>5. KvmStep(FALSE)
      BY <1>1, <2>2, KvmIdleStep, VideoTypes DEF kvmVars
    <2> QED  BY <1>2, <2>4, <2>5, KvmStepInv
  <1>4. CASE WsClaim(k)
    <2> DEFINE w == sock[k].who
               s == sock[k].stream
               d == DesiredKvmOwner(kvm', takeover')
    <2>1. /\ WsAccepted(w, s) /\ WsUpdate(w, s) /\ HandoverDone(d, TRUE)
          /\ sock' = [sock EXCEPT ![k] = Socket("open", w, s, current')]
      BY <1>4 DEF WsClaim
    <2>2. Handover(d, TRUE)
      BY <2>1 DEF Handover
    <2>3. KvmStep(TRUE)
      BY <1>1, <2>1, <2>2, WsClaimStep
    <2>4. HidTypeOK'
      BY <2>3 DEF KvmStep
    <2>5. Socket("open", w, s, current') \in SocketRecords
      BY <1>1, <2>4 DEF Socket, SocketRecords, HidTypeOK
    <2>6. sock' \in [Sockets -> SocketRecords]
      BY <1>1, <2>1, <2>5
    <2>7. current'.gen = 0 \/ nextGen < current'.gen
      <3>1. ~Keeps(d, TRUE)
        BY DEF Keeps
      <3>2. CASE current' = NoToken
        BY <3>2 DEF NoToken
      <3>3. CASE current' = Token(d, Revoked + 1)
        BY <1>1, <3>3 DEF Token, Revoked, HidTypeOK
      <3> HIDE DEF d
      <3> QED  BY <2>2, <3>1, <3>2, <3>3, HandoverOutcome
    <2>8. /\ sock'[k].tok = current'
          /\ \A j \in Sockets \ {k} : sock'[j] = sock[j]
      BY <1>1, <2>1 DEF Socket
    <2>9. \A j \in Sockets : sock[j].tok.gen \in Nat
      BY <1>1 DEF SocketRecords, Tokens
    <2>10. nextGen' \in Nat /\ nextGen <= nextGen' /\ current'.gen <= nextGen' /\ current'.gen \in Nat
      BY <2>3, <2>4 DEF KvmStep, HidTypeOK, Tokens
    <2>11. SocketTokensDiffer'
      <3> SUFFICES ASSUME NEW i \in Sockets, sock'[i].pc = "open"
                   PROVE  /\ sock'[i].tok.gen <= nextGen'
                          /\ \A j \in Sockets \ {i} :
                               sock'[j].pc = "open" /\ sock'[i].tok.gen # 0 =>
                                 sock'[j].tok.gen # sock'[i].tok.gen
        BY DEF SocketTokensDiffer
      <3>1. CASE i = k
        BY <1>1, <2>7, <2>8, <2>9, <2>10, <3>1 DEF SocketTokensDiffer
      <3>2. CASE i # k
        BY <1>1, <2>7, <2>8, <2>9, <2>10, <3>2 DEF SocketTokensDiffer
      <3> QED  BY <3>1, <3>2
    <2> QED  BY <1>2, <2>3, <2>6, <2>11, KvmStepInv
  <1>5. CASE WsClaimFails(k)
    <2> DEFINE w == sock[k].who
               s == sock[k].stream
    <2>1. sock' = [sock EXCEPT ![k] = ClosedSocket]
      BY <1>5 DEF WsClaimFails
    <2>2. KvmStep(TRUE)
      <3>1. CASE WsAccepted(w, s)
        <4>1. /\ WsUpdate(w, s)
              /\ HandoverFails(DesiredKvmOwner(kvm', takeover'), TRUE)
          BY <1>5, <3>1 DEF WsClaimFails
        <4> QED  BY <1>1, <3>1, <4>1, WsClaimStep DEF Handover
      <3>2. CASE ~WsAccepted(w, s)
        BY <1>1, <1>5, <3>2, NotAcceptedStep DEF WsClaimFails
      <3> QED  BY <3>1, <3>2
    <2>3. nextGen' \in Nat /\ nextGen <= nextGen'
      BY <2>2 DEF KvmStep, HidTypeOK
    <2>4. sock' \in [Sockets -> SocketRecords] /\ SocketTokensDiffer'
      BY <1>1, <2>1, <2>3, NotOpenSocket, ClosedIsASocket
    <2> QED  BY <1>2, <2>2, <2>4, KvmStepInv
  <1>6. CASE WsClose(k)
    <2>1. /\ UNCHANGED hidVars \/ Handover(NoClaim, FALSE)
          /\ UNCHANGED <<sess, leaseVars, producerVars, kvmVars>>
          /\ sock' = [sock EXCEPT ![k] = ClosedSocket]
      BY <1>2, <1>6 DEF WsClose, WsRelease, ReleaseToken
    <2>2. HidTypeOK' /\ nextGen <= nextGen' /\ nextGen' \in Nat
      BY <1>1, <2>1, OwnerLost DEF HidTypeOK
    <2>3. sock' \in [Sockets -> SocketRecords] /\ SocketTokensDiffer'
      BY <1>1, <2>1, <2>2, NotOpenSocket, ClosedIsASocket
    <2>4. TypeOK' /\ TokenIsOfThePresent' /\ TakeoverIsExclusive'
      BY <1>1, <2>1, <2>3, OwnerLostInv
    <2>5. UnhidHasNoKvm'
      BY <1>1, <2>1, OwnerLost, ClaimKinds
         DEF Inv, UnhidHasNoKvm, HoldsHid, hidVars
    <2>6. RevokedLeaseIsJournaled'
      BY <2>1 DEF Inv, RevokedLeaseIsJournaled, HoldsLease, Journaled, Seen, leaseVars
    <2> QED  BY <2>3, <2>4, <2>5, <2>6 DEF Inv
  <1> QED  BY <1>3, <1>4, <1>5, <1>6 DEF SocketStep

-----------------------------------------------------------------------------
\* A step that changes nothing keeps the invariant.
LEMMA StutterInv ==
  ASSUME Inv, UNCHANGED vars
  PROVE  Inv'
  <1>1. UNCHANGED <<current, nextGen, sess, lease, nextResource, pending,
                    failClosed, preempted, ppc, ptok, granted, kvm, ring, cursor,
                    agent, takeover, sock>>
    BY DEF vars, hidVars, leaseVars, producerVars, kvmVars
  <1>2. TypeOK'
    BY <1>1 DEF Inv, TypeOK, LeaseTypeOK, VideoTypeOK
  <1>3. TokenIsOfThePresent' /\ TakeoverIsExclusive'
    BY <1>1 DEF Inv, TokenIsOfThePresent, LeaseTokenIsTold, KvmTokenIsPresent, Seen,
       LeaseClaim, KvmClaim, TakeoverIsExclusive, TakeoverExcludesKvm,
       OwnerIsNotCanceled, Canceled
  <1>4. UnhidHasNoKvm' /\ RevokedLeaseIsJournaled' /\ SocketTokensDiffer'
    BY <1>1 DEF Inv, UnhidHasNoKvm, RevokedLeaseIsJournaled, SocketTokensDiffer,
       HoldsHid, HoldsLease, Journaled, Seen
  <1> QED  BY <1>2, <1>3, <1>4 DEF Inv

\* Every step of the system preserves the invariant.
LEMMA NextInv == Inv /\ [Next]_vars => Inv'
  <1> SUFFICES ASSUME Inv, [Next]_vars PROVE Inv'
    OBVIOUS
  <1>1. CASE UNCHANGED vars
    BY <1>1, StutterInv
  <1>2. CASE StepOfLease
    BY <1>2, LeaseStepInv
  <1>3. CASE StepOfKvm
    <2>1. KvmStep(FALSE) /\ UNCHANGED <<sess, leaseVars, producerVars, sock>>
      BY <1>3 DEF StepOfKvm
    <2>2. sock' \in [Sockets -> SocketRecords] /\ SocketTokensDiffer'
      BY <2>1, PlaneTypes, SocketsKept DEF Inv, KvmStep, HidTypeOK
    <2> QED  BY <2>1, <2>2, KvmStepInv
  <1>4. ASSUME NEW w \in Sessions, AuthStep(w) \/ RevokeStep(w)
        PROVE  Inv'
    BY <1>4, AuthStepInv, RevokeHidInv, RevokeLeaseOfInv DEF RevokeStep
  <1>5. ASSUME NEW k \in Sockets, SocketStep(k)
        PROVE  Inv'
    BY <1>5, SocketStepInv
  <1> QED  BY <1>1, <1>2, <1>3, <1>4, <1>5, StepKinds DEF Inv, TakeoverIsExclusive

\* The invariant holds of every behaviour.
LEMMA Invariance == Spec => []Inv
  BY InitInv, NextInv, PTL DEF Spec

\* Every variable of the control plane stays in its type.
THEOREM PlaneTypeCorrect == Spec => []TypeOK
  <1>1. Inv => TypeOK
    BY DEF Inv
  <1> QED  BY <1>1, Invariance, PTL

\* The owner of the reports can always be told from the present lease and the
\* present KVM: a lease token of the present epoch is the present holder's, and
\* a KVM token is the present stream's (control_lease.c, video_control.c).
THEOREM TokensAreOfThePresent == Spec => []TokenIsOfThePresent
  <1>1. Inv => TokenIsOfThePresent
    BY DEF Inv
  <1> QED  BY <1>1, Invariance, PTL

\* A takeover by the automation and the KVM exclude each other at the gate, and
\* the stream that owns the KVM was not canceled (video_control.c).
THEOREM TakeoverExcludes == Spec => []TakeoverIsExclusive
  <1>1. Inv => TakeoverIsExclusive
    BY DEF Inv
  <1> QED  BY <1>1, Invariance, PTL

\* When the call that ended a session has returned, the session controls
\* nothing unless its revocation is journaled (control_lease.c,
\* si_control_lease_revoke_auth_session).  A token of the KVM was revoked in
\* the first half and cannot come back, one of a lease that is not stale is
\* the present holder's.
THEOREM RevokedSessionsAreOut == Spec => []RevokedSessionIsOut
  <1>1. Inv => RevokedSessionIsOut
    <2> SUFFICES ASSUME Inv, NEW w \in DOMAIN sess, sess[w] = "revoked", Controls(w)
                 PROVE  Journaled(w)
      BY DEF RevokedSessionIsOut
    <2>1. /\ w \in Sessions /\ lease \in LeaseRecords /\ current \in Tokens
      BY PlaneTypes, LeaseTypes DEF Inv, HidTypeOK
    <2>2. CASE HoldsLease(w)
      BY <2>1, <2>2 DEF Inv, RevokedLeaseIsJournaled
    <2>3. CASE /\ HoldsHid(w)
               /\ ~(current.claim.kind = LeaseKind /\ current.claim.epoch < lease.epoch)
      <3>1. current.claim.kind \in {NoneKind, LeaseKind, KvmKind}
        BY <2>1, ClaimFields DEF Tokens
      <3>2. current.claim.kind # KvmKind
        BY <2>1, <2>3 DEF Inv, UnhidHasNoKvm
      <3>3. current.claim.kind = LeaseKind => lease.who = w /\ Seen(lease)
        <4> SUFFICES ASSUME current.claim.kind = LeaseKind
                     PROVE  lease.who = w /\ Seen(lease)
          OBVIOUS
        <4>1. Seen(lease) /\ current.claim = LeaseClaim(lease)
          <5>1. current.claim.epoch \in Nat /\ lease.epoch \in Nat
            BY <2>1, ClaimFields DEF Tokens, LeaseRecords
          <5>2. current.claim.epoch = lease.epoch
            BY <2>3, <5>1 DEF Inv, TokenIsOfThePresent, LeaseTokenIsTold
          <5> QED  BY <5>2 DEF Inv, TokenIsOfThePresent, LeaseTokenIsTold
        <4>2. lease.who.session = w.session /\ lease.who.auth = w.auth
          BY <2>3, <4>1 DEF HoldsHid, LeaseClaim
        <4>3. lease.who \in Sessions \cup {Embedded, NoWho}
          BY <2>1 DEF LeaseRecords
        <4>4. lease.who \in Sessions
          BY <2>1, <4>2, <4>3, SessionAssumption DEF Embedded, NoWho
        <4> QED  BY <2>1, <4>1, <4>2, <4>4, SessionAssumption
      <3>4. CASE current.claim.kind = LeaseKind
        BY <2>1, <3>3, <3>4 DEF Inv, RevokedLeaseIsJournaled, HoldsLease
      <3>5. CASE current.claim.kind = NoneKind
        <4>1. current.claim = NoClaim
          BY <2>1, <3>5, ClaimFields DEF Tokens
        <4> QED  BY <2>1, <2>3, <4>1, SessionAssumption, ClaimKinds DEF HoldsHid
      <3> QED  BY <3>1, <3>2, <3>4, <3>5
    <2> QED  BY <2>2, <2>3 DEF Controls
  <1> QED  BY <1>1, Invariance, PTL

\* As long as a lease in good standing does not change, only a socket that
\* passed its check earlier takes the reports from its holder (status_ws.c).
THEOREM LiveLeaseKeepsReports == Spec => LeaseKeepsHid
  <1>1. Inv /\ [Next]_vars => [sock' = sock => LeaseKeepsToken]_vars
    <2> SUFFICES ASSUME Inv, Next, sock' = sock, GoodLease, lease' = lease,
                        lease.who # Embedded => sess' = sess
                 PROVE  current' = current
      BY DEF LeaseKeepsToken
    <2>1. /\ LeaseTypeOK /\ VideoTypeOK /\ HidTypeOK /\ ProducerTypeOK
          /\ sess \in [Sessions -> SessionStates]
          /\ sock \in [Sockets -> SocketRecords]
          /\ lease \in LeaseRecords
      BY PlaneTypes, LeaseTypes DEF Inv
    <2>2. /\ Active(lease) /\ lease.mode # "observe" /\ current.gen # 0
          /\ current.claim = LeaseClaim(lease) /\ current.claim.kind = LeaseKind
      BY DEF GoodLease, InputControlActive, Inv, TokenIsOfThePresent, LeaseTokenIsTold
    <2>3. ASSUME LeaseMove
          PROVE  current' = current
      <3>1. CASE UNCHANGED hidVars
        BY <3>1 DEF hidVars
      <3>2. CASE Handover(DesiredOwner(lease'), FALSE)
        <4>1. DesiredOwner(lease') = LeaseClaim(lease)
          BY <2>2 DEF DesiredOwner
        <4>2. Keeps(DesiredOwner(lease'), FALSE)
          BY <2>2, <4>1 DEF Keeps
        <4> QED  BY <3>2, <4>2, HandoverOutcome DEF hidVars
      <3> QED  BY <2>3, <3>1, <3>2 DEF LeaseMove
    <2>4. CASE StepOfLease
      BY <2>3, <2>4 DEF StepOfLease, LeaseStep
    <2>5. CASE StepOfKvm
      <3>1. CASE UNCHANGED hidVars
        BY <3>1 DEF hidVars
      <3>2. CASE Handover(DesiredKvmOwner(kvm', takeover'), FALSE)
        <4>1. DesiredKvmOwner(kvm', takeover') = current.claim
          BY <2>2, ClaimKinds DEF DesiredKvmOwner
        <4>2. Keeps(DesiredKvmOwner(kvm', takeover'), FALSE)
          BY <2>2, <4>1 DEF Keeps
        <4> QED  BY <3>2, <4>2, HandoverOutcome DEF hidVars
      <3> QED  BY <2>5, <3>1, <3>2 DEF StepOfKvm, KvmStep, KvmMove
    <2>6. ASSUME NEW w \in Sessions, AuthStep(w)
          PROVE  current' = current
      BY <2>6 DEF AuthStep, hidVars
    <2>7. ASSUME NEW w \in Sessions, RevokeStep(w)
          PROVE  current' = current
      <3>1. sess' # sess
        BY <2>1, <2>7 DEF RevokeStep, RevokeHid, RevokeLeaseOf
      <3>2. current.claim.auth = 0 /\ w.auth # 0
        BY <2>2, <3>1, SessionAssumption DEF LeaseClaim, Embedded
      <3>3. CASE RevokeHid(w)
        BY <3>2, <3>3 DEF RevokeHid, RevokeTokenOf, hidVars
      <3>4. CASE RevokeLeaseOf(w)
        <4>1. w \in Revocations
          <5>1. /\ w = [session |-> w.session, auth |-> w.auth]
                /\ w.session \in {v.session : v \in Sessions \cup {Embedded}}
                /\ w.auth \in {v.auth : v \in Sessions} \cup {0}
            BY SessionAssumption
          <5> QED  BY <5>1 DEF Revocations
        <4>2. LeaseStep
          BY <2>1, <3>4, <4>1, RevokeLeaseStep, RevokeLaterStep DEF RevokeLeaseOf
        <4> QED  BY <2>3, <4>2 DEF LeaseStep
      <3> QED  BY <2>7, <3>3, <3>4 DEF RevokeStep
    <2>8. ASSUME NEW k \in Sockets, SocketStep(k)
          PROVE  current' = current
      <3>1. sock'[k].pc # sock[k].pc
        BY <2>1, <2>8, SocketMoves
      <3> QED  BY <3>1
    <2> QED  BY <2>4, <2>5, <2>6, <2>7, <2>8, StepKinds DEF Inv, TakeoverIsExclusive
  <1> QED  BY <1>1, Invariance, PTL DEF Spec, LeaseKeepsHid

\* The socket of a page that was reloaded releases no token but its own
\* (status_ws.c, hid_ws_ctx_free), since no two open sockets have the same.
THEOREM OldSocketsReleaseNothing == Spec => OldSocketReleasesNothing
  <1>1. Inv /\ [Next]_vars => [SocketClosesOnlyItself]_vars
    <2> SUFFICES ASSUME Inv, Next, NEW k \in DOMAIN sock, sock[k].pc = "open",
                        sock'[k].pc = "closed", NEW j \in DOMAIN sock \ {k},
                        sock[j].pc = "open", TokenEqual(current, sock[j].tok)
                 PROVE  current' = current
      BY DEF SocketClosesOnlyItself
    <2>1. /\ sock \in [Sockets -> SocketRecords] /\ SocketTokensDiffer
          /\ k \in Sockets /\ j \in Sockets /\ j # k
      BY PlaneTypes DEF Inv
    <2>2. current.gen # 0 /\ current = sock[j].tok
      BY DEF TokenEqual
    <2>3. ~TokenEqual(current, sock[k].tok)
      BY <2>1, <2>2 DEF SocketTokensDiffer, TokenEqual
    <2>4. sock' # sock
      OBVIOUS
    <2>5. PICK i \in Sockets : SocketStep(i)
      BY <2>4, StepKinds DEF Inv, TakeoverIsExclusive, StepOfLease, StepOfKvm,
         AuthStep, RevokeStep
    <2>6. i = k
      BY <2>1, <2>5 DEF SocketStep, WsCheck, WsClaim, WsClaimFails, WsClose
    <2>7. WsClose(k)
      BY <2>1, <2>5, <2>6
         DEF SocketStep, WsCheck, WsClaim, WsClaimFails, Socket
    <2> QED  BY <2>3, <2>7 DEF WsClose, WsRelease, ReleaseToken, hidVars
  <1> QED  BY <1>1, Invariance, PTL DEF Spec, OldSocketReleasesNothing
===============================================================================
