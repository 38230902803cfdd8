------------------------------- MODULE Passkey --------------------------------
(***************************************************************************)
(* Passkey login and management (main/application/passkey.c).  A login     *)
(* challenge is not stored: it carries its own expiry and a MAC made with  *)
(* a key of this boot over the credential generation, and only the spent   *)
(* ones are remembered, eight at a time, until they would have expired.    *)
(* An enrollment challenge occupies the one slot there is.  Keys and their *)
(* counters live in one record in flash.                                   *)
(*                                                                         *)
(* Signatures, CBOR and JSON are valid or the request has no effect; a     *)
(* response is what a genuine authenticator may have signed, and the same  *)
(* response may be delivered again.                                        *)
(***************************************************************************)
EXTENDS Naturals, FiniteSets, Functions

CONSTANTS
  Keys,          \* credential ids
  Holders,       \* browser sessions that enroll
  KeyLimit,      \* SI_PASSKEY_LIMIT
  SpentSlots,    \* PK_SPENT
  MaxChallenges, \* bound: challenges handed out
  MaxCounter,    \* bound: an authenticator's counter
  MaxGen,        \* bound: credential generations since boot
  MaxFaults      \* bound: failed saves and restarts

\* What the parameters are.
PasskeyBounds == MaxCounter \in Nat

VARIABLES
  flash, pk,  \* the record and s_pk: the counter of each registered key
  ok,         \* s_pk_storage_ok
  pend,       \* s_pk_pending: the enrollment challenge, 0 is none
  spent,      \* s_pk_spent: spent challenges that have not expired
  chal,       \* challenges handed out: boot key, generation, expired or not
  boot, gen,  \* boots so far; si_auth_credential_generation
  login,      \* an accepted login that has no session yet
  sess,       \* live passkey sessions, by key
  granted,    \* ghost: how often each challenge was accepted
  faults

vars == <<flash, pk, ok, pend, spent, chal, boot, gen, login, sess, granted,
          faults>>

Issued == DOMAIN chal
NoPending == [ch |-> 0, holder |-> 0, gen |-> 0]
NoLogin == [key |-> 0, gen |-> 0]

Issue(holder) ==
  LET n == Cardinality(Issued) + 1
  IN  /\ n <= MaxChallenges
      /\ chal' = [i \in 1..n |->
                    IF i < n THEN chal[i]
                    ELSE [boot |-> boot, gen |-> gen, live |-> TRUE,
                          holder |-> holder]]
      /\ granted' = [i \in 1..n |-> IF i < n THEN granted[i] ELSE 0]

\* Mutant: a full spent set forgets its oldest entry.
TicketForgets(n) ==
  /\ chal[n].holder = 0
  /\ chal[n].boot = boot /\ chal[n].gen = gen
  /\ chal[n].live
  /\ n \notin spent \/ Cardinality(spent) = SpentSlots

\* pk_login_ticket: the MAC, the expiry, the spent set, and a slot to record it.
Ticket(n) ==
  /\ chal[n].holder = 0
  /\ chal[n].boot = boot /\ chal[n].gen = gen
  /\ chal[n].live
  /\ n \notin spent
  /\ Cardinality(spent) < SpentSlots

\* pk_auth_data: a counter that counts has to grow.
CounterGood(k, c) == (c = 0 /\ pk[k] = 0) \/ c > pk[k]

Outcomes(new) ==
  {[good |-> TRUE, rec |-> new]}
    \cup (IF faults < MaxFaults
          THEN {[good |-> FALSE, rec |-> new], [good |-> FALSE, rec |-> flash]}
          ELSE {})

\* pk_save: publish what is stored, or close passkeys until the next restart.
Save(new, o) ==
  /\ flash' = o.rec
  /\ faults' = IF o.good THEN faults ELSE faults + 1
  /\ pk' = IF o.good THEN new ELSE pk
  /\ ok' = o.good

\* si_auth_security_commit around pk_commit; the caller clears s_pk_pending.
Commit(new, o) ==
  /\ gen < MaxGen
  /\ gen' = gen + 1
  /\ sess' = {}
  /\ Save(new, o)

-------------------------------------------------------------------------------
\* si_passkey_begin for a login
LoginOptions ==
  /\ ok /\ pk # <<>>
  /\ Issue(0)
  /\ UNCHANGED <<flash, pk, ok, pend, spent, boot, gen, login, sess, faults>>

\* si_passkey_begin for an enrollment: the slot is free, expired, of another
\* generation or the session's own; otherwise the request is refused.
RegisterOptions(h) ==
  /\ ok /\ Cardinality(DOMAIN pk) < KeyLimit
  /\ \/ pend = NoPending
     \/ pend # NoPending /\ (~chal[pend.ch].live \/ pend.gen # gen
                               \/ pend.holder = h)
  /\ Issue(h)
  /\ pend' = [ch |-> Cardinality(Issued) + 1, holder |-> h, gen |-> gen]
  /\ UNCHANGED <<flash, pk, ok, spent, boot, gen, login, sess, faults>>

\* si_passkey_finish for a login: challenge n signed by key k at counter c.
LoginFinish(n, k, c) ==
  /\ login = NoLogin
  /\ ok
  /\ Ticket(n)
  /\ k \in DOMAIN pk /\ CounterGood(k, c)
  /\ LET new == [pk EXCEPT ![k] = c]
     IN  \E o \in (IF c = pk[k] THEN {[good |-> TRUE, rec |-> flash]}
                   ELSE Outcomes(new)) :
           /\ Save(new, o)
           /\ IF o.good
                THEN /\ spent' = spent \cup {n}
                     /\ granted' = [granted EXCEPT ![n] = @ + 1]
                     /\ login' = [key |-> k, gen |-> gen]
                ELSE UNCHANGED <<spent, granted, login>>
  /\ UNCHANGED <<pend, chal, boot, gen, sess>>

\* si_passkey_finish for an enrollment: the challenge is consumed before the
\* rest is looked at.
RegisterFinish(n, h, k, c) ==
  /\ ok
  /\ pend.ch = n
  /\ IF chal[n].live /\ pend.gen = gen /\ pend.holder = h
          /\ k \notin DOMAIN pk /\ Cardinality(DOMAIN pk) < KeyLimit
       THEN LET new == [j \in DOMAIN pk \cup {k} |-> IF j = k THEN c ELSE pk[j]]
            IN  \E o \in Outcomes(new) : Commit(new, o)
       ELSE UNCHANGED <<flash, pk, ok, gen, sess, faults>>
  /\ pend' = NoPending
  /\ UNCHANGED <<spent, chal, boot, login, granted>>

\* si_passkey_remove
Remove(k) ==
  /\ ok /\ k \in DOMAIN pk
  /\ LET new == Restrict(pk, DOMAIN pk \ {k})
     IN  \E o \in Outcomes(new) : Commit(new, o)
  /\ pend' = NoPending
  /\ UNCHANGED <<spent, chal, boot, login, granted>>

\* si_passkey_configure: without keys the host name and the user handle may be
\* replaced; neither has a property of its own.
Configure ==
  /\ ok /\ pk = <<>>
  /\ \E o \in Outcomes(pk) : Commit(pk, o)
  /\ pend' = NoPending
  /\ UNCHANGED <<spent, chal, boot, login, granted>>

\* si_auth_create_session_for_method, after s_pk_lock is given back.
CreateSession ==
  /\ login # NoLogin
  /\ sess' = IF login.gen = gen THEN sess \cup {login.key} ELSE sess
  /\ login' = NoLogin
  /\ UNCHANGED <<flash, pk, ok, pend, spent, chal, boot, gen, granted, faults>>

-------------------------------------------------------------------------------
\* A password or second-factor change (modules Credentials and TwoStep).
CredentialChange ==
  /\ gen < MaxGen
  /\ gen' = gen + 1
  /\ sess' = {}
  /\ UNCHANGED <<flash, pk, ok, pend, spent, chal, boot, login, granted, faults>>

\* Two minutes: the challenge expires and with it its entry in the spent set.
Expire(n) ==
  /\ chal[n].live
  /\ chal' = [chal EXCEPT ![n].live = FALSE]
  /\ spent' = spent \ {n}
  /\ UNCHANGED <<flash, pk, ok, pend, boot, gen, login, sess, granted, faults>>

\* si_passkey_initialize after a restart: another MAC key, an empty spent set.
Restart(kept, bad) ==
  /\ faults < MaxFaults
  /\ faults' = faults + 1
  /\ boot' = boot + 1
  /\ gen' = 1
  /\ pk' = IF bad THEN <<>> ELSE flash
  /\ ok' = ~bad
  /\ pend' = NoPending /\ spent' = {} /\ login' = NoLogin
  /\ sess' = IF kept THEN sess ELSE {}
  /\ UNCHANGED <<flash, chal, granted>>

Init ==
  /\ flash \in [Keys -> {0}] \cup {<<>>}
  /\ pk = flash /\ ok = TRUE
  /\ pend = NoPending /\ spent = {} /\ chal = <<>> /\ boot = 1 /\ gen = 1
  /\ login = NoLogin /\ sess = {} /\ granted = <<>> /\ faults = 0

Next ==
  \/ LoginOptions \/ CreateSession \/ CredentialChange \/ Configure
  \/ \E h \in Holders : RegisterOptions(h)
  \/ \E n \in Issued, k \in Keys, c \in 0..MaxCounter :
       \/ LoginFinish(n, k, c)
       \/ \E h \in Holders : RegisterFinish(n, h, k, c)
  \/ \E k \in Keys : Remove(k)
  \/ \E n \in Issued : Expire(n)
  \/ \E kept, bad \in BOOLEAN : Restart(kept, bad)

Spec == Init /\ [][Next]_vars

-------------------------------------------------------------------------------
(* A login challenge is accepted at most once although the server keeps no *)
(* list of the challenges it handed out: not again while it is in the      *)
(* spent set, not when that set is full, not after a restart emptied it.   *)
ChallengeIsGoodOnce == \A n \in Issued : granted[n] <= 1

(* While passkeys are open, memory and record agree on keys and counters:  *)
(* an unclear save closes them rather than leave a counter behind that a   *)
(* response could be replayed against.                                     *)
KeysAreTheRecord == ok => pk = flash

(* Every live passkey session belongs to a key that is still registered:   *)
(* removing a key ends its sessions, and a login that was accepted just    *)
(* before the removal cannot create its session after it.                  *)
SessionsHaveTheirKey == ok => sess \subseteq DOMAIN pk
===============================================================================
