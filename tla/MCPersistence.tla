---------------------------- MODULE MCPersistence ---------------------------
(***************************************************************************)
(* What the device keeps over a restart, for TLC: the agent's journal      *)
(* (EventStore), its history files and the task that writes them           *)
(* (AgentRepository, HistoryWriter), the settings and their schema         *)
(* (SettingsStore, SettingsSchema), the credentials and the second factors *)
(* (Credentials, TwoStep, Passkey) and the network configuration           *)
(* (NetConfig).                                                            *)
(*                                                                         *)
(* They share no state, so a behaviour is one of one part, chosen in the   *)
(* initial state; the variables of the other parts are Unused, those of    *)
(* the journal at rest: its properties are checked in every state, as      *)
(* EventStore states them.  A name that several components use is one      *)
(* variable here.  PersistenceProofs has the theorems.                     *)
(***************************************************************************)
EXTENDS EventStore, Integers, TLC

CONSTANTS
  Unused, Raw,
  Memories, Jobs, FileLines, FileFaults,                   \* files
  Callers, Turns, PoolSize, SlotUses, HistoryLines, HistoryFaults,  \* history
  Internal, External, Values, Empty, None, MaxCalls,       \* settings
  Images, First, Missing, SchemaFaults,                    \* schema
  Passwords, Random, MaxEpochs, MaxWrites, AccountFaults,  \* account
  MaxSecrets, MaxStep, Recovery, MaxFailures, CodeGens, CodeFaults,  \* codes
  KeyIds, Holders, KeyLimit, SpentSlots, MaxChallenges, MaxCounter,
  KeyGens, KeyFaults,                                      \* keys
  Static, Dhcp, InUse, Broken, MaxStages, NetworkFaults    \* network

VARIABLES
  part,
  hist, mem, ckpt, tmp, stored, newest, gap,
  slots, queue, worker, caller, claimed, glued,
  nvs, handle, op, pending, notified, result, done, ran, mine, calls,
  keys, data, torn, cur, ver,
  ram, w, revoking, job, chg, up, acked, owned, mixed, stale, epoch, writes,
  st, active, enroll, clock, secrets,
  pk, spent, chal, boot,
  cache, run, applied, conf, deadline, persist, acd, probed, link, refused,
  asked, blind, mishap, stages,
  lock, faults, pc, flash, gen, sess, ok, pend, login, granted   \* each of several parts

Files == INSTANCE AgentRepository WITH
  MaxLines <- FileLines, MaxFaults <- FileFaults, NoJob <- "none"
History == INSTANCE HistoryWriter WITH
  Memories <- {}, Jobs <- {}, NoJob <- "none", MaxGen <- SlotUses,
  MaxLines <- HistoryLines, MaxFaults <- HistoryFaults
Settings == INSTANCE SettingsStore
Schema == INSTANCE SettingsSchema WITH MaxFaults <- SchemaFaults
Account == INSTANCE Credentials WITH MaxFaults <- AccountFaults
Codes == INSTANCE TwoStep WITH MaxGen <- CodeGens, MaxFaults <- CodeFaults
PassKeys == INSTANCE Passkey WITH
  Keys <- KeyIds, MaxGen <- KeyGens, MaxFaults <- KeyFaults
Network == INSTANCE NetConfig WITH MaxFaults <- NetworkFaults

\* The first slot is used twice, the others once.
FewUses == [i \in 1..PoolSize |-> IF i = 1 THEN 2 ELSE 1]

\* The hypotheses of the theorems in PersistenceProofs hold of the constants here.
ASSUME ProofsApply ==
  /\ JournalBounds /\ Settings!SettingsBounds /\ Schema!SchemaBounds
  /\ Account!CredentialsBounds /\ Codes!TwoStepBounds /\ PassKeys!PasskeyBounds
  /\ Network!NetConfigBounds /\ Files!FilesBounds /\ History!WriterBounds

-----------------------------------------------------------------------------
fileVars == <<hist, mem, ckpt, tmp, stored, newest, gap>>
writerVars == <<slots, queue, worker, caller, claimed, glued>>
settingsVars == <<nvs, handle, op, pending, notified, result, done, ran, mine,
                  calls>>
schemaVars == <<keys, data, torn, cur, ver>>
accountVars == <<ram, w, revoking, job, chg, up, acked, owned, mixed, stale,
                 epoch, writes>>
codeVars == <<st, active, enroll, clock, secrets>>
keyVars == <<pk, spent, chal, boot>>
networkVars == <<cache, run, applied, conf, deadline, persist, acd, probed,
                 link, refused, asked, blind, mishap, stages>>
vars == <<part, storeVars, fileVars, writerVars, settingsVars, schemaVars,
          accountVars, codeVars, keyVars, networkVars, lock, faults, pc, flash,
          gen, sess, ok, pend, login, granted>>

NoFile ==
  /\ hist = Unused /\ mem = Unused /\ ckpt = Unused /\ tmp = Unused
  /\ stored = Unused /\ newest = Unused /\ gap = Unused
NoWriter ==
  /\ slots = Unused /\ queue = Unused /\ worker = Unused /\ caller = Unused
  /\ claimed = Unused /\ glued = Unused
NoSettings ==
  /\ nvs = Unused /\ handle = Unused /\ op = Unused /\ pending = Unused
  /\ notified = Unused /\ result = Unused /\ done = Unused /\ ran = Unused
  /\ mine = Unused /\ calls = Unused
NoSchema ==
  /\ keys = Unused /\ data = Unused /\ torn = Unused /\ cur = Unused
  /\ ver = Unused
NoAccount ==
  /\ ram = Unused /\ w = Unused /\ revoking = Unused /\ job = Unused
  /\ chg = Unused /\ up = Unused /\ acked = Unused /\ owned = Unused
  /\ mixed = Unused /\ stale = Unused /\ epoch = Unused /\ writes = Unused
NoCode ==
  /\ st = Unused /\ active = Unused /\ enroll = Unused /\ clock = Unused
  /\ secrets = Unused
NoKey ==
  /\ pk = Unused /\ spent = Unused /\ chal = Unused /\ boot = Unused
NoNetwork ==
  /\ cache = Unused /\ run = Unused /\ applied = Unused /\ conf = Unused
  /\ deadline = Unused /\ persist = Unused /\ acd = Unused /\ probed = Unused
  /\ link = Unused /\ refused = Unused /\ asked = Unused /\ blind = Unused
  /\ mishap = Unused /\ stages = Unused

Init ==
  \/ /\ part = "events" /\ StoreInit /\ NoFile /\ NoWriter
     /\ NoSettings /\ NoSchema /\ NoAccount /\ NoCode /\ NoKey /\ NoNetwork
     /\ lock = Unused /\ faults = Unused /\ pc = Unused /\ flash = Unused
     /\ gen = Unused /\ sess = Unused /\ ok = Unused /\ pend = Unused
     /\ login = Unused /\ granted = Unused
  \/ /\ part = "files" /\ Files!RepositoryInit /\ StoreInit /\ NoWriter
     /\ NoSettings /\ NoSchema /\ NoAccount /\ NoCode /\ NoKey /\ NoNetwork
     /\ pc = Unused /\ flash = Unused /\ gen = Unused /\ sess = Unused
     /\ ok = Unused /\ pend = Unused /\ login = Unused /\ granted = Unused
  \/ /\ part = "history" /\ History!WriterInit /\ StoreInit /\ NoSettings
     /\ NoSchema /\ NoAccount /\ NoCode /\ NoKey /\ NoNetwork /\ pc = Unused
     /\ flash = Unused /\ gen = Unused /\ sess = Unused /\ ok = Unused
     /\ pend = Unused /\ login = Unused /\ granted = Unused
  \/ /\ part = "settings" /\ Settings!Init /\ StoreInit /\ NoFile /\ NoWriter
     /\ NoSchema /\ NoAccount /\ NoCode /\ NoKey /\ NoNetwork
     /\ faults = Unused /\ flash = Unused /\ gen = Unused /\ sess = Unused
     /\ ok = Unused /\ pend = Unused /\ login = Unused /\ granted = Unused
  \/ /\ part = "schema" /\ Schema!Init /\ StoreInit /\ NoFile /\ NoWriter
     /\ NoSettings /\ NoAccount /\ NoCode /\ NoKey /\ NoNetwork
     /\ lock = Unused /\ flash = Unused /\ gen = Unused /\ sess = Unused
     /\ ok = Unused /\ pend = Unused /\ login = Unused /\ granted = Unused
  \/ /\ part = "account" /\ Account!Init /\ StoreInit /\ NoFile /\ NoWriter
     /\ NoSettings /\ NoSchema /\ NoCode /\ NoKey /\ NoNetwork /\ lock = Unused
     /\ pc = Unused /\ ok = Unused /\ pend = Unused /\ login = Unused
     /\ granted = Unused
  \/ /\ part = "codes" /\ Codes!Init /\ StoreInit /\ NoFile /\ NoWriter
     /\ NoSettings /\ NoSchema /\ NoAccount /\ NoKey /\ NoNetwork
     /\ lock = Unused /\ pc = Unused
  \/ /\ part = "keys" /\ PassKeys!Init /\ StoreInit /\ NoFile /\ NoWriter
     /\ NoSettings /\ NoSchema /\ NoAccount /\ NoCode /\ NoNetwork
     /\ lock = Unused /\ pc = Unused
  \/ /\ part = "network" /\ Network!Init /\ StoreInit /\ NoFile /\ NoWriter
     /\ NoSettings /\ NoSchema /\ NoAccount /\ NoCode /\ NoKey /\ lock = Unused
     /\ pc = Unused /\ gen = Unused /\ sess = Unused /\ ok = Unused
     /\ pend = Unused /\ login = Unused /\ granted = Unused

Next ==
  \/ /\ part = "events" /\ StoreNext
     /\ UNCHANGED <<part, fileVars, writerVars, settingsVars, schemaVars,
                    accountVars, codeVars, keyVars, networkVars, lock, faults,
                    pc, flash, gen, sess, ok, pend, login, granted>>
  \/ /\ part = "files" /\ Files!RepositoryNext
     /\ UNCHANGED <<part, storeVars, writerVars, settingsVars, schemaVars,
                    accountVars, codeVars, keyVars, networkVars, pc, flash,
                    gen, sess, ok, pend, login, granted>>
  \/ /\ part = "history" /\ History!Next
     /\ UNCHANGED <<part, storeVars, settingsVars, schemaVars, accountVars,
                    codeVars, keyVars, networkVars, pc, flash, gen, sess, ok,
                    pend, login, granted>>
  \/ /\ part = "settings" /\ Settings!Next
     /\ UNCHANGED <<part, storeVars, fileVars, writerVars, schemaVars,
                    accountVars, codeVars, keyVars, networkVars, faults, flash,
                    gen, sess, ok, pend, login, granted>>
  \/ /\ part = "schema" /\ Schema!Next
     /\ UNCHANGED <<part, storeVars, fileVars, writerVars, settingsVars,
                    accountVars, codeVars, keyVars, networkVars, lock, flash,
                    gen, sess, ok, pend, login, granted>>
  \/ /\ part = "account" /\ Account!Next
     /\ UNCHANGED <<part, storeVars, fileVars, writerVars, settingsVars,
                    schemaVars, codeVars, keyVars, networkVars, lock, pc, ok,
                    pend, login, granted>>
  \/ /\ part = "codes" /\ Codes!Next
     /\ UNCHANGED <<part, storeVars, fileVars, writerVars, settingsVars,
                    schemaVars, accountVars, keyVars, networkVars, lock, pc>>
  \/ /\ part = "keys" /\ PassKeys!Next
     /\ UNCHANGED <<part, storeVars, fileVars, writerVars, settingsVars,
                    schemaVars, accountVars, codeVars, networkVars, lock, pc>>
  \/ /\ part = "network" /\ Network!Next
     /\ UNCHANGED <<part, storeVars, fileVars, writerVars, settingsVars,
                    schemaVars, accountVars, codeVars, keyVars, lock, pc, gen,
                    sess, ok, pend, login, granted>>

Spec == Init /\ [][Next]_vars

-----------------------------------------------------------------------------
\* Passwords, turns and callers differ in nothing but themselves.
Symmetry == Permutations(Passwords) \cup Permutations(Turns) \cup Permutations(Callers)

\* A stored memory is read back; the newest checkpoint is kept but for a write
\* that breaks off between its remove and its rename; no retry, time-out or full
\* queue writes a turn twice or out of order, a saved turn is read back, both but
\* for a record that went behind a torn line; and a caller whose signal came is
\* told "pending" only if it could not have the slots' lock (agent_repository.c,
\* agent_history_writer.c).
HistoryIsKept ==
  /\ part = "files" =>
       /\ Files!RepositoryTypeOK /\ Files!StoredMemoryIsRead
       /\ Files!NewestCheckpointIsKept
  /\ part = "history" =>
       /\ History!WriterTypeOK /\ History!NoRecordTwice /\ History!PairInOrder
       /\ History!SavedTurnIsRead /\ History!NoFalsePending

\* A caller of the settings store gets the result of its own operation through
\* the proxy task, and the schema never calls data its own that a migration
\* left half-way (settings_store.c, settings_schema.c).
SettingsAreSound ==
  /\ part = "settings" =>
       Settings!ResultIsMine /\ Settings!ProxyHasACaller /\ Settings!ConfiguredIsReadable
  /\ part = "schema" =>
       Schema!ReadyMeansOwnVersion /\ Schema!HalfWayIsMarked /\ Schema!RecordTrailsData

\* After restarts the acknowledged password works, as long as no write has
\* broken off between its keys since; no session outlives the password it was
\* opened with, unless the device restarted between the change and the
\* revocation; and an owned account is not offered for set-up, whatever write
\* fails and whenever the device restarts (auth_service.c).
PasswordIsWhatWasAcknowledged ==
  part = "account" =>
    /\ Account!NoSessionOfAnOldPassword /\ Account!AcknowledgedPasswordWorks
    /\ Account!OwnedAccountIsNotOffered

\* A code or a passkey challenge is good once, across restarts and races with
\* a disable, and every session proved the factor that is in force
\* (two_step.c, passkey.c).
FactorIsGoodOnce ==
  /\ part = "codes" =>
       Codes!CodeIsGoodOnce /\ Codes!MemoryIsTheRecord /\ Codes!SessionsProvedTheFactor
  /\ part = "keys" =>
       /\ PassKeys!ChallengeIsGoodOnce /\ PassKeys!KeysAreTheRecord
       /\ PassKeys!SessionsHaveTheirKey

\* Wherever the storing of a change is cut off or given up, a restart brings up a
\* configuration that somebody confirmed or the factory's, unless a stage was given
\* up over an older one (network_settings.c:417).  Until a stage, a confirmation or
\* a reset is given up half-way or a retry erases a newer trial (net_manager.c:640),
\* no address found in use goes on the interface and what the device reports is
\* what it stores and runs.
NetworkIsConfirmed ==
  part = "network" =>
    /\ "stage" \notin mishap => Network!BootsConfirmed
    /\ mishap = {} =>
         /\ Network!NoAddressInUse /\ Network!IdleRunsActive
         /\ Network!SnapshotIsTheRecord
=============================================================================
