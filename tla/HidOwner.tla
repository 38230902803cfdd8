------------------------------- MODULE HidOwner -------------------------------
(***************************************************************************)
(* The pure part of HID report ownership (main/core/hid_owner.c): claims,  *)
(* the tokens the HID manager mints for them, and the decisions taken on   *)
(* tokens alone.  A claim is what a domain (control lease or KVM stream)   *)
(* asks for; a token is a claim with the generation under which it was     *)
(* installed.  Generation 0 is "no token", as in the code.                 *)
(***************************************************************************)
EXTENDS Naturals

NoneKind     == "none"
LeaseKind    == "lease"
KvmKind      == "kvm"

\* The session id of the on-device agent and boot-key producers.
EmbeddedSession == "embedded-agent"

NoSession == "nosession"

\* memset(&claim, 0): kind NONE, empty session, all numbers zero.
NoClaim == [kind |-> NoneKind, session |-> NoSession, auth |-> 0,
            resource |-> 0, epoch |-> 0]

NoToken == [claim |-> NoClaim, gen |-> 0]

Token(claim, gen) == [claim |-> claim, gen |-> gen]

ClaimValid(c) ==
  /\ c.kind \in {LeaseKind, KvmKind}
  /\ c.session # NoSession
  /\ c.epoch # 0
  /\ c.kind = KvmKind => c.resource # 0

\* Equality of claims is equality of all their fields; two tokens are equal
\* only if they name a real generation.
TokenEqual(left, right) == left.gen # 0 /\ left = right

IsEmbedded(claim) ==
  /\ claim.kind = LeaseKind
  /\ claim.auth = 0
  /\ claim.session = EmbeddedSession

EmbeddedTokenMatchesDomain(token, resource, epoch) ==
  /\ token.gen # 0
  /\ IsEmbedded(token.claim)
  /\ token.claim.resource = resource
  /\ token.claim.epoch = epoch

\* The decision for an embedded producer that touches the lease with the
\* token it got last ("expected", NoToken on a first touch).
EmbeddedTouchDecide(leaseActive, current, expected, resource, epoch) ==
  IF leaseActive
  THEN IF /\ EmbeddedTokenMatchesDomain(expected, resource, epoch)
          /\ TokenEqual(current, expected)
       THEN "renew" ELSE "deny"
  ELSE IF expected.gen # 0 /\ ~TokenEqual(current, expected)
       THEN "deny" ELSE "new"

EmbeddedReleaseMatches(leaseActive, expected, resource, epoch) ==
  leaseActive /\ EmbeddedTokenMatchesDomain(expected, resource, epoch)
===============================================================================
