----------------------------- MODULE Credentials ------------------------------
(***************************************************************************)
(* The local account (main/application/auth_service.c) and the tasks that  *)
(* use it: the login worker, the settings page that changes the password,  *)
(* the serial console that resets it, and a factor change that fences      *)
(* everybody.  The password is stored key by key, the sessions are kept    *)
(* over a restart in memory that only a power loss clears, and the         *)
(* generation that fences slow logins starts at 1 with every boot.         *)
(*                                                                         *)
(* A verifier is the triple it was derived from.  The user name is written *)
(* with the first key and has no property of its own.                      *)
(***************************************************************************)
EXTENDS Naturals, Sequences, FiniteSets, TLC

CONSTANTS
  Passwords,   \* passwords an owner may choose
  None, Random,
  MaxEpochs,   \* bound: completed password or factor changes
  MaxWrites,   \* bound: key-by-key writes, each with a salt of its own
  MaxFaults    \* bound: failed writes and restarts

VARIABLES
  flash,    \* the keys of the credential namespace
  ram,      \* s_verifier, s_salt, s_iterations, s_legacy_password, ...
  gen,      \* s_credential_generation
  sess,     \* s_retained.sessions: for each, the epoch it was proved in
  w,        \* the write that holds s_credentials_lock, or None
  revoking, \* tasks that changed the generation and still have to revoke
  job,      \* s_auth_login_job with the worker's progress
  chg,      \* the settings page's request
  up,       \* FALSE until load_credentials has come to an end
  acked,    \* ghost: the password whose storing was last acknowledged
  owned,    \* ghost: an owner chose it and no reset was asked for since
  mixed,    \* ghost: flash holds keys of a write that is not complete
  stale,    \* ghost: a restart kept sessions that were about to be revoked
  epoch,    \* ghost: counts completed changes, over restarts
  writes, faults

vars == <<flash, ram, gen, sess, w, revoking, job, chg, up, acked, owned,
          mixed, stale, epoch, writes, faults>>

bounds == <<writes, faults>>

\* "old": an iteration count of another build; "cur": AUTH_PASSWORD_ITERATIONS.
Hash(p, s, i) == [pw |-> p, salt |-> s, iter |-> i]

\* What the parameters are: no salt, iteration count or verifier is None.
CredentialsBounds ==
  /\ MaxWrites \in Nat
  /\ None \notin Nat /\ None # "old" /\ None # "cur"
  /\ \A p \in Passwords \cup {Random}, s \in 2..(MaxWrites + 1) :
       Hash(p, s, "cur") # None

Blank == [hash |-> None, salt |-> None, iter |-> None, boot |-> None,
          setup |-> None]

\* Namespaces earlier firmware left behind, or none at all.
Firmware ==
  LET Kept(p, s, i, b) == [hash |-> Hash(p, s, i), salt |-> s, iter |-> i,
                           boot |-> b, setup |-> None]
  IN  {Blank, Kept("admin", 1, "old", 1)}
        \cup UNION {{Kept(p, None, None, None), Kept(p, 1, "old", 0)} :
                      p \in Passwords}

Idle == [st |-> "idle", pw |-> None, setup |-> FALSE, gen |-> 0, epoch |-> 0]

-------------------------------------------------------------------------------
(* Loading *)

Locked == [hash |-> None, salt |-> None, iter |-> None, legacy |-> FALSE,
           boot |-> FALSE, setup |-> FALSE]

\* load_credentials, for a stored verifier: a setup flag that contradicts the
\* bootstrap flag leaves no verifier at all.
Load(f) ==
  LET legacy == f.salt = None \/ f.iter = None
      boot   == f.boot = 1
  IN  IF f.hash = None \/ (f.setup = 1 /\ ~boot) THEN Locked
      ELSE [hash |-> f.hash, salt |-> IF legacy THEN None ELSE f.salt,
            iter |-> IF legacy THEN None ELSE f.iter, legacy |-> legacy,
            boot |-> boot,
            setup |-> IF f.setup = None THEN boot ELSE f.setup = 1]

\* load_credentials compares a bootstrap verifier with the old shared password.
SharedFactory(r) ==
  r.boot /\ r.hash # None /\ r.hash = Hash("admin", r.salt, r.iter)

\* si_auth_setup_required
SetupRequired(r) == r.setup /\ r.boot /\ r.hash # None

\* The comparison of si_auth_credentials_match.
Matches(r, p) == r.hash # None /\ r.hash = Hash(p, r.salt, r.iter)

\* si_auth_credentials_match re-encodes what another build stored.
NeedsMigration(r) == r.legacy \/ r.iter # "cur"

-------------------------------------------------------------------------------
(* Storing *)

\* The keys of set_credentials_internal in the order they are written.
Keys(boot, setup) ==
  IF boot /\ setup THEN <<"hash", "salt", "iter", "boot", "setup", "commit">>
                   ELSE <<"hash", "salt", "iter", "setup", "boot", "commit">>

Writer(by, p, boot, setup, rotate) ==
  [by |-> by, pw |-> p, boot |-> boot, setup |-> boot /\ setup,
   rotate |-> rotate, salt |-> 2 + writes, keys |-> Keys(boot, setup)]

\* Take s_credentials_lock for a write.
Begin(by, p, boot, setup, rotate) ==
  /\ w = None
  /\ writes < MaxWrites
  /\ w' = Writer(by, p, boot, setup, rotate)
  /\ writes' = writes + 1

ValueOf(k) ==
  CASE k = "hash" -> Hash(w.pw, w.salt, "cur")
    [] k = "salt" -> w.salt
    [] k = "iter" -> "cur"
    [] k = "boot" -> IF w.boot THEN 1 ELSE 0
    [] k = "setup" -> IF w.setup THEN 1 ELSE 0

WriteKey ==
  /\ w # None /\ w.keys # <<>> /\ Head(w.keys) # "commit"
  /\ flash' = [flash EXCEPT ![Head(w.keys)] = ValueOf(Head(w.keys))]
  /\ w' = [w EXCEPT !.keys = Tail(w.keys)]
  /\ mixed' = TRUE
  /\ UNCHANGED <<ram, gen, sess, revoking, job, chg, up, acked, owned, stale,
                 epoch, bounds>>

\* What a finished write means for the task that asked for it.
Report(ok) ==
  /\ job' = IF w.by # "login" THEN job
            ELSE [job EXCEPT !.st = IF ok THEN "verify" ELSE "failed"]
  /\ chg' = IF w.by # "change" THEN chg
            ELSE IF ok THEN [chg EXCEPT !.st = "revoke"] ELSE Idle

\* An error in any key or in the commit: the keys written so far stay.
WriteFails ==
  /\ w # None /\ w.keys # <<>>
  /\ faults < MaxFaults
  /\ faults' = faults + 1
  /\ Report(FALSE)
  /\ w' = None
  /\ up' = TRUE
  /\ ram' = IF w.by = "boot" THEN Locked ELSE ram
  /\ UNCHANGED <<flash, gen, sess, revoking, acked, owned, mixed, stale, epoch,
                 writes>>

\* The commit succeeded: publish, bump the generation, give the lock back (a
\* setup keeps it); the sessions are revoked after that.
Apply ==
  /\ w # None /\ w.keys = <<"commit">>
  /\ Report(TRUE)
  /\ ram' = [hash |-> flash.hash, salt |-> flash.salt, iter |-> "cur",
             legacy |-> FALSE, boot |-> w.boot, setup |-> w.setup]
  /\ acked' = w.pw
  /\ owned' = IF w.rotate THEN ~w.boot ELSE owned
  /\ mixed' = FALSE
  /\ IF w.rotate
       THEN /\ epoch < MaxEpochs
            /\ gen' = gen + 1 /\ epoch' = epoch + 1
            /\ revoking' = revoking \cup {w.by}
       ELSE UNCHANGED <<gen, epoch, revoking>>
  /\ w' = IF w.by = "setup" THEN [w EXCEPT !.keys = <<>>] ELSE None
  /\ UNCHANGED <<flash, sess, up, stale, bounds>>

\* si_auth_revoke_all_sessions, and what the caller does next.
RevokeAll(by) ==
  /\ by \in revoking
  /\ revoking' = revoking \ {by}
  /\ sess' = {}
  /\ stale' = FALSE
  /\ up' = (up \/ by = "boot")
  /\ w' = IF by = "setup" THEN None ELSE w
  /\ job' = IF by = "setup"
            THEN [job EXCEPT !.st = "passed", !.gen = @ + 1, !.epoch = epoch]
            ELSE job
  /\ chg' = IF by = "change" THEN [chg EXCEPT !.st = "sign in", !.epoch = epoch]
            ELSE chg
  /\ UNCHANGED <<flash, ram, gen, acked, owned, mixed, epoch, bounds>>

-------------------------------------------------------------------------------
(* Boot *)

\* load_credentials: nothing stored, or the shared password: store a random
\* one and open the first-account setup.
LoadCredentials ==
  /\ ~up /\ w = None /\ "boot" \notin revoking
  /\ ram' = Load(flash)
  /\ IF flash.hash = None \/ SharedFactory(Load(flash))
       THEN Begin("boot", Random, TRUE, TRUE, TRUE) /\ up' = FALSE
       ELSE up' = TRUE /\ UNCHANGED <<w, writes>>
  /\ UNCHANGED <<flash, gen, sess, revoking, job, chg, acked, owned, mixed,
                 stale, epoch, faults>>

\* retained_init_locked: a reset that is not a power loss keeps the sessions.
Restart(kept) ==
  /\ faults < MaxFaults
  /\ faults' = faults + 1
  /\ sess' = IF kept THEN sess ELSE {}
  /\ stale' = (kept /\ (stale \/ (revoking # {} /\ sess # {})))
  /\ gen' = 1
  /\ ram' = Locked
  /\ up' = FALSE
  /\ w' = None /\ revoking' = {} /\ job' = Idle /\ chg' = Idle
  /\ UNCHANGED <<flash, acked, owned, mixed, epoch, writes>>

-------------------------------------------------------------------------------
(* Logging in *)

\* auth_login_handler: one job at a time; the generation is read here.
Submit(p, setup) ==
  /\ up
  /\ job.st = "idle"
  /\ setup => SetupRequired(ram)
  /\ job' = [st |-> "queued", pw |-> p, setup |-> setup, gen |-> gen,
             epoch |-> 0]
  /\ UNCHANGED <<flash, ram, gen, sess, w, revoking, chg, up, acked, owned,
                 mixed, stale, epoch, bounds>>

\* si_auth_setup_credentials keeps the lock until the sessions are revoked.
SetupAccount ==
  /\ job.st = "queued" /\ job.setup
  /\ IF SetupRequired(ram) /\ job.gen = gen
       THEN Begin("setup", job.pw, FALSE, FALSE, TRUE)
              /\ job' = [job EXCEPT !.st = "storing"]
       ELSE w = None /\ job' = Idle /\ UNCHANGED <<w, writes>>
  /\ UNCHANGED <<flash, ram, gen, sess, revoking, chg, up, acked, owned, mixed,
                 stale, epoch, faults>>

\* si_auth_credentials_match under the lock.
CredentialsMatch ==
  /\ job.st = "queued" /\ ~job.setup
  /\ w = None
  /\ IF SetupRequired(ram) \/ ~Matches(ram, job.pw)
       THEN job' = [job EXCEPT !.st = "failed"] /\ UNCHANGED <<w, writes>>
     ELSE IF NeedsMigration(ram)
       THEN /\ Begin("login", job.pw, ram.boot, ram.setup, FALSE)
            /\ job' = [job EXCEPT !.st = "storing", !.epoch = epoch]
     ELSE /\ job' = [job EXCEPT !.st = "verify", !.epoch = epoch]
          /\ UNCHANGED <<w, writes>>
  /\ UNCHANGED <<flash, ram, gen, sess, revoking, chg, up, acked, owned, mixed,
                 stale, epoch, faults>>

\* auth_login_process_job: si_two_step_verify refuses another generation.
FinishJob ==
  /\ job.st \in {"verify", "failed"}
  /\ job' = IF job.st = "verify" /\ job.gen = gen
            THEN [job EXCEPT !.st = "passed"] ELSE Idle
  /\ UNCHANGED <<flash, ram, gen, sess, w, revoking, chg, up, acked, owned,
                 mixed, stale, epoch, bounds>>

\* A setup whose storing failed is a rejected job.
SetupFails ==
  /\ job.st = "storing" /\ job.setup
  /\ w = None /\ "setup" \notin revoking
  /\ job' = Idle
  /\ UNCHANGED <<flash, ram, gen, sess, w, revoking, chg, up, acked, owned,
                 mixed, stale, epoch, bounds>>

\* Mutant: the session is created without looking at the generation.
CollectAnyway ==
  /\ job.st = "passed"
  /\ job' = Idle
  /\ sess' = sess \cup {job.epoch}
  /\ UNCHANGED <<flash, ram, gen, w, revoking, chg, up, acked, owned, mixed,
                 stale, epoch, bounds>>

\* auth_login_status_handler and si_auth_create_session_for_method: the
\* generation is compared under the session lock.
Collect ==
  /\ job.st = "passed"
  /\ job' = Idle
  /\ sess' = IF job.gen = gen /\ ram.hash # None /\ ~SetupRequired(ram)
             THEN sess \cup {job.epoch} ELSE sess
  /\ UNCHANGED <<flash, ram, gen, w, revoking, chg, up, acked, owned, mixed,
                 stale, epoch, bounds>>

\* si_auth_revoke_session
Logout(e) ==
  /\ e \in sess
  /\ sess' = sess \ {e}
  /\ UNCHANGED <<flash, ram, gen, w, revoking, job, chg, up, acked, owned,
                 mixed, stale, epoch, bounds>>

-------------------------------------------------------------------------------
(* Changing *)

\* The settings page reads the generation, then looks the session up.
ReadChange(p) ==
  /\ up /\ chg.st = "idle"
  /\ chg' = [st |-> "read", pw |-> p, setup |-> FALSE, gen |-> gen, epoch |-> 0]
  /\ UNCHANGED <<flash, ram, gen, sess, w, revoking, job, up, acked, owned,
                 mixed, stale, epoch, bounds>>

\* A recent password session is asked for, the verifier derived outside the
\* lock, and the generation compared again under it.
StoreChange ==
  /\ \/ chg.st = "read" /\ sess # {} /\ chg' = [chg EXCEPT !.st = "derive"]
          /\ UNCHANGED <<w, writes>>
     \/ chg.st = "read" /\ sess = {} /\ chg' = Idle /\ UNCHANGED <<w, writes>>
     \/ /\ chg.st = "derive"
        /\ IF chg.gen = gen
             THEN Begin("change", chg.pw, FALSE, FALSE, TRUE)
                    /\ chg' = [chg EXCEPT !.st = "storing"]
             ELSE w = None /\ chg' = Idle /\ UNCHANGED <<w, writes>>
  /\ UNCHANGED <<flash, ram, gen, sess, revoking, job, up, acked, owned, mixed,
                 stale, epoch, faults>>

\* The page gets a session of the generation it made, if that is still current.
SignInAfterChange ==
  /\ chg.st = "sign in"
  /\ chg' = Idle
  /\ sess' = IF gen = chg.gen + 1 THEN sess \cup {chg.epoch} ELSE sess
  /\ UNCHANGED <<flash, ram, gen, w, revoking, job, up, acked, owned, mixed,
                 stale, epoch, bounds>>

\* si_auth_reset_bootstrap, from the serial console.
ResetBootstrap ==
  /\ up
  /\ Begin("reset", Random, TRUE, TRUE, TRUE)
  /\ owned' = FALSE
  /\ UNCHANGED <<flash, ram, gen, sess, revoking, job, chg, up, acked, mixed,
                 stale, epoch, faults>>

\* si_auth_security_commit: both locks, so sessions and generation go together.
SecurityCommit(g) ==
  /\ up /\ w = None /\ g = gen /\ epoch < MaxEpochs
  /\ gen' = gen + 1 /\ epoch' = epoch + 1
  /\ sess' = {}
  /\ stale' = FALSE
  /\ UNCHANGED <<flash, ram, w, revoking, job, chg, up, acked, owned, mixed,
                 bounds>>

-------------------------------------------------------------------------------
Init ==
  /\ flash \in Firmware
  /\ ram = Locked /\ gen = 1 /\ sess = {} /\ w = None /\ revoking = {}
  /\ job = Idle /\ chg = Idle /\ up = FALSE
  /\ acked = IF flash.hash = None THEN None ELSE flash.hash.pw
  /\ owned = (flash.boot # 1 /\ flash.hash # None)
  /\ mixed = FALSE /\ stale = FALSE /\ epoch = 0
  /\ writes = 0 /\ faults = 0

Next ==
  \/ WriteKey \/ WriteFails \/ Apply
  \/ \E by \in {"boot", "setup", "change", "reset"} : RevokeAll(by)
  \/ LoadCredentials
  \/ \E kept \in BOOLEAN : Restart(kept)
  \/ \E p \in Passwords, setup \in BOOLEAN : Submit(p, setup)
  \/ SetupAccount \/ CredentialsMatch \/ FinishJob \/ SetupFails \/ Collect
  \/ \E e \in sess : Logout(e)
  \/ \E p \in Passwords : ReadChange(p)
  \/ StoreChange \/ SignInAfterChange \/ ResetBootstrap
  \/ SecurityCommit(gen)

Spec == Init /\ [][Next]_vars

-------------------------------------------------------------------------------
(* Whatever password change, reset, setup or factor change was completed,  *)
(* no session that was proved before it is alive, although a login checks  *)
(* its password long before it creates its session and the generation it   *)
(* carries is compared under another lock than the one that guards it.     *)
(* The exception is the restart between the change and the revocation      *)
(* (stale): the retained sessions then outlive the password.               *)
NoSessionOfAnOldPassword ==
  ~stale /\ revoking = {} => sess \subseteq {epoch}

(* A password whose storing was acknowledged opens the account after any   *)
(* restart, as long as no write broke off in the middle (mixed): the keys  *)
(* of set_credentials_internal and the checks of load_credentials agree.   *)
AcknowledgedPasswordWorks ==
  ~mixed /\ acked # None =>
    Matches(Load(flash), acked) /\ (owned => ~Load(flash).setup)

(* Once an owner has chosen a password, nobody can claim the account by    *)
(* the first-account setup, in memory or after any restart, not even when  *)
(* power is lost between two keys, unless the console asked for a reset.   *)
OwnedAccountIsNotOffered ==
  owned => ~SetupRequired(ram) /\ ~SetupRequired(Load(flash))
===============================================================================
