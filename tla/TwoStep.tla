------------------------------- MODULE TwoStep --------------------------------
(***************************************************************************)
(* The second login factor (main/application/two_step.c): time-based and   *)
(* recovery codes, enrolling, disabling, and the record in flash that must *)
(* say which codes are spent.  Every operation holds s_two_lock from its   *)
(* first check to the end of its save; what can come in between are a      *)
(* failing save and a restart, and around it logins that were checked      *)
(* earlier and create their session later.                                 *)
(*                                                                         *)
(* A time-based code is its secret and its 30-second step, a recovery code *)
(* its secret and its number; distinct codes are taken to differ.          *)
(***************************************************************************)
EXTENDS Naturals, FiniteSets

CONSTANTS
  MaxSecrets,    \* bound: enrollments
  MaxStep,       \* bound: 30-second steps of the clock, from 1
  Recovery,      \* numbers of the recovery codes (8 in the code)
  MaxFailures,   \* the wrong codes that lock (5 in the code)
  MaxGen,        \* bound: credential generations since boot
  MaxFaults      \* bound: failed saves and restarts

\* What the parameters are.
TwoStepBounds == MaxSecrets \in Nat /\ MaxStep \in Nat

VARIABLES
  flash,    \* the "record" key: Off, or the enabled state
  st,       \* s_two_state
  ok,       \* s_two_storage_ok
  pend,     \* s_two_pending with its generation; secret 0 is none
  active, enroll, \* s_two_active, s_two_enroll: failures so far, or "locked"
  clock,    \* the device's 30-second step; 0 is unset
  gen,      \* si_auth_credential_generation
  login,    \* a login that passed and has no session yet
  sess,     \* live password sessions: the secret each proved, 0 is none
  secrets,  \* enrollments so far
  granted,  \* ghost: how often each code was accepted
  faults

vars == <<flash, st, ok, pend, active, enroll, clock, gen, login, sess,
          secrets, granted, faults>>

throttles == <<active, enroll>>

Off == [enabled |-> FALSE, secret |-> 0, last |-> 0, used |-> {}]

\* A freshly begun enrollment: no step used, no recovery code spent.
Fresh(s) == [enabled |-> TRUE, secret |-> s, last |-> 0, used |-> {}]

Codes == [secret : 1..MaxSecrets, kind : {"totp"}, n : 1..(MaxStep + 1)]
           \cup [secret : 1..MaxSecrets, kind : {"recovery"}, n : Recovery]

NoPending == [secret |-> 0, gen |-> 0]
NoLogin == [gen |-> 0, secret |-> 0]

-------------------------------------------------------------------------------
\* two_lock drops an enrollment of another generation before anything else.
Pending == IF pend.gen = gen THEN pend ELSE NoPending

\* The time two_check_code goes by: the device's, or the client's while unset.
TimeFor(client) == IF clock = 0 THEN client ELSE clock

\* two_check_code
CheckCode(state, c, recovery, client) ==
  /\ c.secret = state.secret
  /\ \/ recovery /\ c.kind = "recovery" /\ c.n \notin state.used
     \/ /\ c.kind = "totp" /\ TimeFor(client) # 0
        /\ c.n + 1 >= TimeFor(client) /\ c.n <= TimeFor(client) + 1
        /\ c.n > state.last

\* The candidate two_check_code leaves behind.
Consumed(state, c) ==
  IF c.kind = "recovery" THEN [state EXCEPT !.used = @ \cup {c.n}]
  ELSE [state EXCEPT !.last = c.n]

\* two_adopt_clock
Adopt(c, client) ==
  clock' = IF clock = 0 /\ c.kind = "totp" THEN client ELSE clock

\* two_attempt_result
Attempt(t, good) ==
  IF good THEN 0 ELSE IF t + 1 >= MaxFailures THEN MaxFailures ELSE t + 1

Allowed(t) == t < MaxFailures

\* What a save leaves in flash: an error may come before or after the write.
Outcomes(new) ==
  {[good |-> TRUE, rec |-> new]}
    \cup (IF faults < MaxFaults
          THEN {[good |-> FALSE, rec |-> new], [good |-> FALSE, rec |-> flash]}
          ELSE {})

\* two_save_locked for a spent code: an unclear result closes the factor.
SaveConsumed(new, o) ==
  /\ flash' = o.rec
  /\ faults' = IF o.good THEN faults ELSE faults + 1
  /\ st' = IF o.good THEN new ELSE st
  /\ ok' = o.good

\* two_save_locked for enabling or disabling: on an error the record decides.
SaveTransition(new, o) ==
  /\ flash' = o.rec
  /\ faults' = IF o.good THEN faults ELSE faults + 1
  /\ st' = IF o.good THEN new ELSE o.rec
  /\ UNCHANGED ok

\* si_auth_security_commit: fence the logins and end the sessions, then save.
SecurityCommit(new, o) ==
  /\ gen < MaxGen
  /\ gen' = gen + 1
  /\ sess' = {}
  /\ SaveTransition(new, o)

-------------------------------------------------------------------------------
\* si_two_step_verify for a login whose generation was read earlier.
VerifyOff(g) ==
  /\ login = NoLogin
  /\ ok /\ g = gen /\ ~st.enabled
  /\ login' = [gen |-> g, secret |-> 0]
  /\ pend' = Pending
  /\ UNCHANGED <<flash, st, ok, throttles, clock, gen, sess, secrets, granted,
                 faults>>

Verify(g, c, client) ==
  /\ login = NoLogin
  /\ ok /\ g = gen /\ st.enabled /\ Allowed(active)
  /\ pend' = Pending
  /\ IF CheckCode(st, c, TRUE, client)
       THEN \E o \in Outcomes(Consumed(st, c)) :
              /\ SaveConsumed(Consumed(st, c), o)
              /\ active' = Attempt(active, o.good)
              /\ IF o.good
                   THEN /\ Adopt(c, client)
                        /\ granted' = [granted EXCEPT ![c] = @ + 1]
                        /\ login' = [gen |-> g, secret |-> st.secret]
                   ELSE UNCHANGED <<clock, granted, login>>
       ELSE /\ active' = Attempt(active, FALSE)
            /\ UNCHANGED <<flash, st, ok, clock, granted, login, faults>>
  /\ UNCHANGED <<enroll, gen, sess, secrets>>

\* si_auth_create_session_for_method
CreateSession ==
  /\ login # NoLogin
  /\ sess' = IF login.gen = gen THEN sess \cup {login.secret} ELSE sess
  /\ login' = NoLogin
  /\ UNCHANGED <<flash, st, ok, pend, throttles, clock, gen, secrets, granted,
                 faults>>

\* si_two_step_begin, by a session
BeginEnrollment(g) ==
  /\ sess # {}
  /\ ok /\ ~st.enabled /\ g = gen
  /\ secrets < MaxSecrets
  /\ secrets' = secrets + 1
  /\ pend' = [secret |-> secrets + 1, gen |-> g]
  /\ UNCHANGED <<flash, st, ok, throttles, clock, gen, login, sess, granted,
                 faults>>

\* si_two_step_confirm
Confirm(id, c, client, g) ==
  /\ sess # {}
  /\ ok /\ ~st.enabled /\ id = Pending.secret /\ id # 0
  /\ g = Pending.gen /\ g = gen /\ Allowed(enroll)
  /\ LET good == CheckCode(Fresh(id), c, FALSE, client)
         new  == Consumed(Fresh(id), c)
     IN  /\ enroll' = Attempt(enroll, good)
         /\ IF good
              THEN \E o \in Outcomes(new) :
                     /\ SecurityCommit(new, o)
                     /\ IF o.good THEN Adopt(c, client) ELSE UNCHANGED clock
                     /\ granted' = IF o.good
                                   THEN [granted EXCEPT ![c] = @ + 1]
                                   ELSE granted
                     /\ pend' = NoPending
              ELSE UNCHANGED <<flash, st, ok, pend, clock, gen, sess, granted,
                               faults>>
  /\ UNCHANGED <<active, login, secrets>>

\* si_two_step_disable
Disable(c, client, g) ==
  /\ sess # {}
  /\ ok /\ st.enabled /\ g = gen /\ Allowed(active)
  /\ LET good == CheckCode(st, c, TRUE, client)
     IN  /\ active' = Attempt(active, good)
         /\ IF good
              THEN \E o \in Outcomes(Off) :
                     /\ SecurityCommit(Off, o)
                     /\ IF o.good THEN Adopt(c, client) ELSE UNCHANGED clock
                     /\ granted' = IF o.good
                                   THEN [granted EXCEPT ![c] = @ + 1]
                                   ELSE granted
              ELSE UNCHANGED <<flash, st, ok, clock, gen, sess, granted, faults>>
  /\ pend' = Pending
  /\ UNCHANGED <<enroll, login, secrets>>

-------------------------------------------------------------------------------
\* A password change: the generation and all sessions (module Credentials).
PasswordChange ==
  /\ gen < MaxGen
  /\ gen' = gen + 1
  /\ sess' = {}
  /\ UNCHANGED <<flash, st, ok, pend, throttles, clock, login, secrets,
                 granted, faults>>

\* The lockout and the five minutes of an enrollment run out; the clock goes.
Unlock ==
  /\ ~Allowed(active) \/ ~Allowed(enroll)
  /\ active' = IF Allowed(active) THEN active ELSE 0
  /\ enroll' = IF Allowed(enroll) THEN enroll ELSE 0
  /\ UNCHANGED <<flash, st, ok, pend, clock, gen, login, sess, secrets,
                 granted, faults>>

Expire ==
  /\ pend # NoPending
  /\ pend' = NoPending
  /\ UNCHANGED <<flash, st, ok, throttles, clock, gen, login, sess, secrets,
                 granted, faults>>

Tick ==
  /\ clock \in 1..(MaxStep - 1)
  /\ clock' = clock + 1
  /\ UNCHANGED <<flash, st, ok, pend, throttles, gen, login, sess, secrets,
                 granted, faults>>

\* two_load_locked after a restart; "bad" is a record that cannot be read.
Restart(kept, bad) ==
  /\ faults < MaxFaults
  /\ faults' = faults + 1
  /\ st' = IF bad THEN Off ELSE flash
  /\ ok' = ~bad
  /\ pend' = NoPending /\ active' = 0 /\ enroll' = 0
  /\ clock' = 0
  /\ gen' = 1
  /\ login' = NoLogin
  /\ sess' = IF kept THEN sess ELSE {}
  /\ UNCHANGED <<flash, secrets, granted>>

Init ==
  /\ flash = Off /\ st = Off /\ ok = TRUE /\ pend = NoPending
  /\ active = 0 /\ enroll = 0
  /\ clock \in {0, 1}
  /\ gen = 1 /\ login = NoLogin /\ sess = {} /\ secrets = 0
  /\ granted = [c \in Codes |-> 0] /\ faults = 0

Next ==
  \/ VerifyOff(gen) \/ CreateSession \/ BeginEnrollment(gen)
  \/ \E c \in Codes, client \in 1..MaxStep :
       \/ Verify(gen, c, client)
       \/ Confirm(pend.secret, c, client, gen)
       \/ Disable(c, client, gen)
  \/ PasswordChange \/ Unlock \/ Expire \/ Tick
  \/ \E kept, bad \in BOOLEAN : Restart(kept, bad)

Spec == Init /\ [][Next]_vars

-------------------------------------------------------------------------------
(* No code is accepted twice, whether it logs in, confirms or disables,    *)
(* and whatever saves fail or restarts come after its first use, although  *)
(* its window of three steps is still open and the clock may be unset or   *)
(* taken from a client.                                                    *)
CodeIsGoodOnce == \A c \in Codes : granted[c] <= 1

(* While the storage counts as good, memory holds what the record says:    *)
(* an error that came after the write must not leave the factor on in one  *)
(* place and off in the other until the next restart.                      *)
MemoryIsTheRecord == ok => st = flash

(* When the factor is on, every live password session has proved it with   *)
(* the secret that is in force: enabling ends the sessions from before,    *)
(* and a login that passed before it cannot create its session after it.   *)
SessionsProvedTheFactor ==
  ok /\ st.enabled => sess \subseteq {st.secret}
===============================================================================
