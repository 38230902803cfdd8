----------------------------- MODULE HidAuthority -----------------------------
(***************************************************************************)
(* The HID manager as the lease and the KVM stream see it: who owns the    *)
(* reports, and an atomic transition under the authority gate.  HidDevice  *)
(* models what the manager does inside one transition; here it is one      *)
(* step, because the gate is held from the domain's callback to the last   *)
(* store (si_hid_authority_transition).                                    *)
(*                                                                         *)
(* And the authenticated sessions they are given to                        *)
(* (main/application/auth_service.c), as far as control of the host        *)
(* depends on them: a session is created, perhaps in the slot of an older  *)
(* one; it ends by logout, expiry or eviction; and only after the auth     *)
(* lock is given back does the task that ended it revoke its HID token and *)
(* then its lease.                                                         *)
(***************************************************************************)
EXTENDS HidOwner, FiniteSets

VARIABLES
  current,    \* s_owner_state.current
  nextGen     \* s_owner_state.next_generation

hidVars == <<current, nextGen>>

HidInit == current = NoToken /\ nextGen = 0

\* Without "replace", the claim that already owns the reports keeps its token.
Keeps(claim, replace) ==
  ~replace /\ current.gen # 0 /\ current.claim = claim

Revoked == IF current.gen # 0 THEN nextGen + 1 ELSE nextGen

\* The transition completes: the owner stays, or is replaced by a token with
\* a new generation, or (NoClaim) there is no owner.
HandoverDone(claim, replace) ==
  IF Keeps(claim, replace) THEN UNCHANGED hidVars
  ELSE IF claim = NoClaim THEN current' = NoToken /\ nextGen' = Revoked
  ELSE current' = Token(claim, Revoked + 1) /\ nextGen' = Revoked + 1

\* The neutral reports could not be sent: the previous owner is revoked and
\* no owner takes its place.
HandoverFails(claim, replace) ==
  /\ ~Keeps(claim, replace)
  /\ current' = NoToken /\ nextGen' = Revoked

Handover(claim, replace) ==
  HandoverDone(claim, replace) \/ HandoverFails(claim, replace)

\* si_hid_owner_release_if_current: compare and revoke.
ReleaseToken(token) ==
  IF TokenEqual(current, token) THEN Handover(NoClaim, FALSE)
  ELSE UNCHANGED hidVars

\* si_hid_owner_revoke_session, for an exact session and auth generation.
RevokeTokenOf(who) ==
  IF /\ who.auth # 0 /\ current.gen # 0
     /\ current.claim.session = who.session /\ current.claim.auth = who.auth
  THEN Handover(NoClaim, FALSE) ELSE UNCHANGED hidVars

-----------------------------------------------------------------------------
CONSTANTS
  Browsers,     \* browser sessions: [session, auth], auth # 0
  Mcps,         \* sessions of the external MCP adapter
  SessionSlots  \* AUTH_BROWSER_SESSION_SLOTS, also used for MCP

Sessions == Browsers \cup Mcps

ASSUME SessionAssumption ==
  /\ Browsers \cap Mcps = {}
  /\ \A w \in Sessions :
       w = [session |-> w.session, auth |-> w.auth] /\ w.auth \in Nat \ {0}
  /\ SessionSlots \in Nat \ {0}

VARIABLE
  sess        \* how far each session has come

\* "ended": cleared under the auth lock; "unhid": its HID token is revoked;
\* "revoked": its lease is revoked too and the ending call has returned.
SessionStates == {"new", "live", "ended", "unhid", "revoked"}

AuthInit == sess = [w \in Sessions |-> "new"]

\* si_auth_session_get_live_context, for an exact session and generation.
Live(w) == w \in DOMAIN sess /\ sess[w] = "live"

Peers(w) == IF w \in Browsers THEN Browsers ELSE Mcps

LivePeers(w) == {v \in Peers(w) : Live(v)}

\* si_auth_create_session: take a free slot, else that of an older session.
CreateSession(w) ==
  /\ sess[w] = "new"
  /\ IF Cardinality(LivePeers(w)) < SessionSlots
       THEN sess' = [sess EXCEPT ![w] = "live"]
       ELSE \E v \in LivePeers(w) :
              sess' = [sess EXCEPT ![w] = "live", ![v] = "ended"]

\* session_clear_locked: logout, expiry, or all sessions at once.
EndSession(w) == sess[w] = "live" /\ sess' = [sess EXCEPT ![w] = "ended"]
===============================================================================
