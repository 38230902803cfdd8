----------------------------- MODULE MCProgress -----------------------------
(***************************************************************************)
(* What has to happen in the end, for TLC: the gate of the HID manager is  *)
(* left (HidDevice), an owner whose lease or stream is over loses the      *)
(* reports (ControlPlane), a boot plan ends (BootKey), an operation heeds  *)
(* a stop (AutomationGate), a request is decided (RequestBroker), the      *)
(* recovery of the journal ends (TaskService), the history writer returns  *)
(* its slots (HistoryWriter), a trial of a network configuration ends and  *)
(* its rollback is stored (NetConfig), settings calls return and boots end *)
(* (SettingsStore, SettingsSchema), and SSH sessions end (SshClient).      *)
(*                                                                         *)
(* They share no state, so a behaviour is one of one part, chosen in the   *)
(* initial state; the variables of the other parts are Unused.  Each part  *)
(* has the fairness of its own module's specification.                     *)
(***************************************************************************)
EXTENDS Integers, Sequences

CONSTANTS Unused, None, Missing, Raw, Empty, Broken, k1, t1, t2, agentRun, w1, w2,
  power, uart, maint, r1, r2, i1, x1, v1, e1, s1, static, used, dhcp

VARIABLES
  part,
  gate, fence, bound, cmdLock, reportOwner, dirty, neutralPending, pressed,
  cmdActive, cmdAborted, sendOk, resetPending, owed, host, tok, adm, cmd, ip,
  saved, prev, neut, ret,
  sess, nextResource, failClosed, preempted, ppc, ptok, granted, kvm, cursor,
  agent, takeover, sock,
  plan, work, clock, confirm, locks,
  slot, serial, page, abort, leases, stopper, hand, sys,
  nextSeq, now, snapshot, boot, effects, called,
  rt, records, ringNext, ledger, lifecycle, retryable, healthy, finishing,
  opening, log, limbo, serving,
  hist, mem, ckpt, tmp, stored, newest, gap, queue, worker, caller, claimed,
  glued,
  flash, cache, applied, conf, deadline, persist, acd, probed, link, refused,
  blind, mishap, stages,
  nvs, handle, op, notified, result, done, ran, mine, calls,
  data, torn, cur, ver,
  sem, owner, cancel, late, held, secret, key, active, input,
  current, nextGen, mounted, pc, known, req, lease, pending, ring, task, keys,
  asked, run, lock, typed, slots, faults   \* each of several parts

Browser == [session |-> "browser", auth |-> 1]
SessionLease == [kind |-> "lease", session |-> "browser", auth |-> 1,
                 resource |-> 1, epoch |-> 1]
KeyCommands == {[type |-> t, ep |-> "kb", key |-> k1] : t \in {"combo", "down", "release_all"}}

\* A request for an action that waits for its reviewer, and one of the old callers.
Action == [key |-> "k1", thread |-> "t", run |-> "r1", step |-> "s1", plan |-> 1,
           args |-> "a", kind |-> "action", risk |-> 1, lease |-> FALSE,
           reviewer |-> TRUE, auto |-> FALSE, through |-> -1, scope |-> 1, ttl |-> 1]
Context == [Action EXCEPT !.key = "k2", !.kind = "context", !.risk = 0,
                          !.reviewer = FALSE, !.scope = 0, !.ttl = 2]

Hid == INSTANCE HidDevice WITH
  Tasks <- {t1, t2}, Claims <- {SessionLease}, Endpoints <- {"kb"},
  Keyboard <- "kb", Keys <- {k1}, KeySlots <- 6, Commands <- KeyCommands,
  ProducerSlots <- 1, FenceMod <- 3, MaxGen <- 2, RacyUsb <- FALSE
Control == INSTANCE ControlPlane WITH
  Browsers <- {Browser}, Mcps <- {}, SessionSlots <- 1,
  Producers <- {agentRun}, Modes <- {"supervised"}, PendingSlots <- 0,
  Actors <- {}, Streams <- {1}, CanceledSlots <- 1, Sockets <- {}, MaxGen <- 6,
  MaxEpoch <- 4
BootKeys == INSTANCE BootKey WITH
  Workers <- {w1, w2}, MaxDelay <- 0, MaxKeys <- 1, MaxTimeout <- 1,
  MaxPlans <- 2, MaxLockFails <- 1
Gate == INSTANCE AutomationGate WITH
  Resources <- {power}, Channels <- {uart}, Maint <- maint, Uart <- uart,
  GenMod <- 99, MaxOps <- 1, MaxMaint <- 1, MaxRuns <- 1, MaxGrants <- 0
Broker == INSTANCE RequestBroker WITH
  Capacity <- 2, Inputs <- {Action}, Legacy <- {Context}, Agent <- "agent",
  MinTtl <- 1, MaxTtl <- 2, DefaultTtl <- 2, MaxTime <- 3, MaxSeq <- 2,
  MaxResets <- 0
Service == INSTANCE TaskService WITH
  Runs <- {r1, r2}, Steps <- {}, PendingCapacity <- 1, StepCapacity <- 1,
  MaxCount <- 1, Keys <- {"k1", "k2"}, Actions <- {}, DedupeCapacity <- 2,
  LedgerCapacity <- 1, PhasesUsed <- {}, Wishes <- {<<FALSE, FALSE>>}, MaxFaults <- 2
History == INSTANCE HistoryWriter WITH
  Memories <- {}, Jobs <- {}, NoJob <- "none", Callers <- {"agent", "web"},
  Turns <- {"t1"}, PoolSize <- 2, MaxGen <- [i \in 1..2 |-> 1], MaxLines <- 4, MaxFaults <- 1
Network == INSTANCE NetConfig WITH
  Static <- {static, used}, Dhcp <- {dhcp}, InUse <- {used}, MaxStages <- 1,
  MaxFaults <- 2
Settings == INSTANCE SettingsStore WITH
  Internal <- {i1}, External <- {x1}, Values <- {Empty, v1}, MaxCalls <- 3
Schema == INSTANCE SettingsSchema WITH
  Images <- {1, 2}, First <- 1, MaxFaults <- 3
Ssh == INSTANCE SshClient WITH
  Execs <- {e1}, Shells <- {s1}, Keys <- {k1}, Fresh <- FALSE, MaxFaults <- 1

-----------------------------------------------------------------------------
hidVars == <<gate, fence, bound, cmdLock, reportOwner, dirty, neutralPending,
             pressed, cmdActive, cmdAborted, sendOk, resetPending, owed, host,
             tok, adm, cmd, ip, saved, prev, neut, ret>>
controlVars == <<sess, nextResource, failClosed, preempted, ppc, ptok, granted,
                 kvm, cursor, agent, takeover, sock>>
bootVars == <<plan, work, clock, confirm, locks>>
gateVars == <<slot, serial, page, abort, leases, stopper, hand, sys>>
brokerVars == <<nextSeq, now, snapshot, boot, effects, called>>
serviceVars == <<rt, records, ringNext, ledger, lifecycle, retryable, healthy,
                 finishing, opening, log, limbo, serving>>
historyVars == <<hist, mem, ckpt, tmp, stored, newest, gap, queue, worker,
                 caller, claimed, glued>>
networkVars == <<flash, cache, applied, conf, deadline, persist, acd, probed,
                 link, refused, blind, mishap, stages>>
settingsVars == <<nvs, handle, op, notified, result, done, ran, mine, calls>>
schemaVars == <<data, torn, cur, ver>>
sshVars == <<sem, owner, cancel, late, held, secret, key, active, input>>
vars == <<part, hidVars, controlVars, bootVars, gateVars, brokerVars,
          serviceVars, historyVars, networkVars, settingsVars, schemaVars,
          sshVars, current, nextGen, mounted, pc, known, req, lease, pending,
          ring, task, keys, asked, run, lock, typed, slots, faults>>

NoHid ==
  /\ gate = Unused /\ fence = Unused /\ bound = Unused /\ cmdLock = Unused
  /\ reportOwner = Unused /\ dirty = Unused /\ neutralPending = Unused
  /\ pressed = Unused /\ cmdActive = Unused /\ cmdAborted = Unused
  /\ sendOk = Unused /\ resetPending = Unused /\ owed = Unused /\ host = Unused
  /\ tok = Unused /\ adm = Unused /\ cmd = Unused /\ ip = Unused
  /\ saved = Unused /\ prev = Unused /\ neut = Unused /\ ret = Unused
NoControl ==
  /\ sess = Unused /\ nextResource = Unused /\ failClosed = Unused
  /\ preempted = Unused /\ ppc = Unused /\ ptok = Unused /\ granted = Unused
  /\ kvm = Unused /\ cursor = Unused /\ agent = Unused /\ takeover = Unused
  /\ sock = Unused
NoBoot ==
  /\ plan = Unused /\ work = Unused /\ clock = Unused /\ confirm = Unused
  /\ locks = Unused
NoGate ==
  /\ slot = Unused /\ serial = Unused /\ page = Unused /\ abort = Unused
  /\ leases = Unused /\ stopper = Unused
  /\ hand = Unused /\ sys = Unused
NoBroker ==
  /\ nextSeq = Unused /\ now = Unused /\ snapshot = Unused /\ boot = Unused
  /\ effects = Unused /\ called = Unused
NoService ==
  /\ rt = Unused /\ records = Unused /\ ringNext = Unused /\ ledger = Unused
  /\ lifecycle = Unused /\ retryable = Unused /\ healthy = Unused
  /\ finishing = Unused /\ opening = Unused /\ log = Unused /\ limbo = Unused
  /\ serving = Unused
NoHistory ==
  /\ hist = Unused /\ mem = Unused /\ ckpt = Unused /\ tmp = Unused
  /\ stored = Unused /\ newest = Unused /\ queue = Unused /\ worker = Unused
  /\ caller = Unused /\ claimed = Unused /\ gap = Unused /\ glued = Unused
NoNetwork ==
  /\ flash = Unused /\ cache = Unused /\ applied = Unused /\ conf = Unused
  /\ deadline = Unused /\ persist = Unused /\ acd = Unused /\ probed = Unused
  /\ link = Unused /\ refused = Unused /\ blind = Unused /\ mishap = Unused
  /\ stages = Unused
NoSettings ==
  /\ nvs = Unused /\ handle = Unused /\ op = Unused /\ notified = Unused
  /\ result = Unused /\ done = Unused /\ ran = Unused /\ mine = Unused
  /\ calls = Unused
NoSchema ==
  /\ data = Unused /\ torn = Unused /\ cur = Unused /\ ver = Unused
NoSsh ==
  /\ sem = Unused /\ owner = Unused /\ cancel = Unused /\ late = Unused
  /\ held = Unused /\ secret = Unused /\ key = Unused /\ active = Unused
  /\ input = Unused

Init ==
  \/ /\ part = "hid" /\ Hid!Init /\ NoControl /\ NoBoot /\ NoGate /\ NoBroker
     /\ NoService /\ NoHistory /\ NoNetwork /\ NoSettings /\ NoSchema /\ NoSsh
     /\ lease = Unused /\ pending = Unused /\ ring = Unused /\ task = Unused
     /\ keys = Unused /\ asked = Unused /\ run = Unused /\ lock = Unused
     /\ typed = Unused /\ slots = Unused /\ faults = Unused
  \/ /\ part = "control" /\ Control!Init /\ NoHid /\ NoBoot /\ NoGate
     /\ NoBroker /\ NoService /\ NoHistory /\ NoNetwork /\ NoSettings
     /\ NoSchema /\ NoSsh /\ mounted = Unused /\ pc = Unused /\ known = Unused
     /\ req = Unused /\ task = Unused /\ keys = Unused /\ asked = Unused
     /\ run = Unused /\ lock = Unused /\ typed = Unused /\ slots = Unused
     /\ faults = Unused
  \/ /\ part = "boot keys" /\ BootKeys!BootInit /\ NoHid /\ NoControl /\ NoGate
     /\ NoBroker /\ NoService /\ NoHistory /\ NoNetwork /\ NoSettings
     /\ NoSchema /\ NoSsh /\ current = Unused /\ nextGen = Unused
     /\ pc = Unused /\ known = Unused /\ req = Unused /\ pending = Unused
     /\ ring = Unused /\ asked = Unused /\ run = Unused /\ lock = Unused
     /\ typed = Unused /\ slots = Unused /\ faults = Unused
  \/ /\ part = "operations" /\ Gate!GateInit /\ NoHid /\ NoControl /\ NoBoot
     /\ NoBroker /\ NoService /\ NoHistory /\ NoNetwork /\ NoSettings
     /\ NoSchema /\ NoSsh /\ current = Unused /\ nextGen = Unused
     /\ mounted = Unused /\ pc = Unused /\ known = Unused /\ req = Unused
     /\ lease = Unused /\ pending = Unused /\ ring = Unused /\ keys = Unused
     /\ slots = Unused /\ faults = Unused
  \/ /\ part = "requests" /\ Broker!BrokerInit /\ NoHid /\ NoControl /\ NoBoot
     /\ NoGate /\ NoService /\ NoHistory /\ NoNetwork /\ NoSettings /\ NoSchema
     /\ NoSsh /\ current = Unused /\ nextGen = Unused /\ mounted = Unused
     /\ pc = Unused /\ known = Unused /\ req = Unused /\ lease = Unused
     /\ pending = Unused /\ ring = Unused /\ task = Unused /\ keys = Unused
     /\ asked = Unused /\ run = Unused /\ lock = Unused /\ typed = Unused
     /\ faults = Unused
  \/ /\ part = "journal" /\ Service!ServiceInit /\ NoHid /\ NoControl /\ NoBoot
     /\ NoGate /\ NoBroker /\ NoHistory /\ NoNetwork /\ NoSettings /\ NoSchema
     /\ NoSsh /\ current = Unused /\ nextGen = Unused /\ mounted = Unused
     /\ pc = Unused /\ known = Unused /\ req = Unused /\ lease = Unused
     /\ pending = Unused /\ task = Unused /\ keys = Unused /\ asked = Unused
     /\ run = Unused /\ lock = Unused /\ typed = Unused /\ slots = Unused
  \/ /\ part = "history" /\ History!WriterInit /\ NoHid /\ NoControl /\ NoBoot
     /\ NoGate /\ NoBroker /\ NoService /\ NoNetwork /\ NoSettings /\ NoSchema
     /\ NoSsh /\ current = Unused /\ nextGen = Unused /\ mounted = Unused
     /\ pc = Unused /\ known = Unused /\ req = Unused /\ lease = Unused
     /\ pending = Unused /\ ring = Unused /\ task = Unused /\ keys = Unused
     /\ asked = Unused /\ run = Unused /\ typed = Unused
  \/ /\ part = "network" /\ Network!Init /\ NoHid /\ NoControl /\ NoBoot
     /\ NoGate /\ NoBroker /\ NoService /\ NoHistory /\ NoSettings /\ NoSchema
     /\ NoSsh /\ current = Unused /\ nextGen = Unused /\ mounted = Unused
     /\ pc = Unused /\ known = Unused /\ req = Unused /\ lease = Unused
     /\ pending = Unused /\ ring = Unused /\ task = Unused /\ keys = Unused
     /\ lock = Unused /\ typed = Unused /\ slots = Unused
  \/ /\ part = "settings" /\ Settings!Init /\ NoHid /\ NoControl /\ NoBoot
     /\ NoGate /\ NoBroker /\ NoService /\ NoHistory /\ NoNetwork /\ NoSchema
     /\ NoSsh /\ current = Unused /\ nextGen = Unused /\ mounted = Unused
     /\ known = Unused /\ req = Unused /\ lease = Unused /\ ring = Unused
     /\ task = Unused /\ keys = Unused /\ asked = Unused /\ run = Unused
     /\ typed = Unused /\ slots = Unused /\ faults = Unused
  \/ /\ part = "schema" /\ Schema!Init /\ NoHid /\ NoControl /\ NoBoot
     /\ NoGate /\ NoBroker /\ NoService /\ NoHistory /\ NoNetwork /\ NoSettings
     /\ NoSsh /\ current = Unused /\ nextGen = Unused /\ mounted = Unused
     /\ known = Unused /\ req = Unused /\ lease = Unused /\ pending = Unused
     /\ ring = Unused /\ task = Unused /\ asked = Unused /\ run = Unused
     /\ lock = Unused /\ typed = Unused /\ slots = Unused
  \/ /\ part = "ssh" /\ Ssh!Init /\ NoHid /\ NoControl /\ NoBoot /\ NoGate
     /\ NoBroker /\ NoService /\ NoHistory /\ NoNetwork /\ NoSettings
     /\ NoSchema /\ current = Unused /\ nextGen = Unused /\ mounted = Unused
     /\ lease = Unused /\ pending = Unused /\ ring = Unused /\ task = Unused
     /\ keys = Unused /\ asked = Unused /\ run = Unused /\ slots = Unused

Next ==
  \/ /\ part = "hid" /\ Hid!Next
     /\ UNCHANGED <<part, controlVars, bootVars, gateVars, brokerVars,
                    serviceVars, historyVars, networkVars, settingsVars,
                    schemaVars, sshVars, lease, pending, ring, task, keys,
                    asked, run, lock, typed, slots, faults>>
  \/ /\ part = "control" /\ Control!Next
     /\ UNCHANGED <<part, hidVars, bootVars, gateVars, brokerVars, serviceVars,
                    historyVars, networkVars, settingsVars, schemaVars,
                    sshVars, mounted, pc, known, req, task, keys, asked, run,
                    lock, typed, slots, faults>>
  \/ /\ part = "boot keys" /\ BootKeys!BootNext
     /\ UNCHANGED <<part, hidVars, controlVars, gateVars, brokerVars,
                    serviceVars, historyVars, networkVars, settingsVars,
                    schemaVars, sshVars, current, nextGen, pc, known, req,
                    pending, ring, asked, run, lock, typed, slots, faults>>
  \/ /\ part = "operations" /\ Gate!GateNext
     /\ UNCHANGED <<part, hidVars, controlVars, bootVars, brokerVars,
                    serviceVars, historyVars, networkVars, settingsVars,
                    schemaVars, sshVars, current, nextGen, mounted, pc, known,
                    req, lease, pending, ring, keys, slots, faults>>
  \/ /\ part = "requests" /\ Broker!BrokerNext
     /\ UNCHANGED <<part, hidVars, controlVars, bootVars, gateVars,
                    serviceVars, historyVars, networkVars, settingsVars,
                    schemaVars, sshVars, current, nextGen, mounted, pc, known,
                    req, lease, pending, ring, task, keys, asked, run, lock,
                    typed, faults>>
  \/ /\ part = "journal" /\ Service!ServiceNext
     /\ UNCHANGED <<part, hidVars, controlVars, bootVars, gateVars, brokerVars,
                    historyVars, networkVars, settingsVars, schemaVars,
                    sshVars, current, nextGen, mounted, pc, known, req, lease,
                    pending, task, keys, asked, run, lock, typed, slots>>
  \/ /\ part = "history" /\ History!Next
     /\ UNCHANGED <<part, hidVars, controlVars, bootVars, gateVars, brokerVars,
                    serviceVars, networkVars, settingsVars, schemaVars,
                    sshVars, current, nextGen, mounted, pc, known, req, lease,
                    pending, ring, task, keys, asked, run, typed>>
  \/ /\ part = "network" /\ Network!Next
     /\ UNCHANGED <<part, hidVars, controlVars, bootVars, gateVars, brokerVars,
                    serviceVars, historyVars, settingsVars, schemaVars,
                    sshVars, current, nextGen, mounted, pc, known, req, lease,
                    pending, ring, task, keys, lock, typed, slots>>
  \/ /\ part = "settings" /\ Settings!Next
     /\ UNCHANGED <<part, hidVars, controlVars, bootVars, gateVars, brokerVars,
                    serviceVars, historyVars, networkVars, schemaVars, sshVars,
                    current, nextGen, mounted, known, req, lease, ring, task,
                    keys, asked, run, typed, slots, faults>>
  \/ /\ part = "schema" /\ Schema!Next
     /\ UNCHANGED <<part, hidVars, controlVars, bootVars, gateVars, brokerVars,
                    serviceVars, historyVars, networkVars, settingsVars,
                    sshVars, current, nextGen, mounted, known, req, lease,
                    pending, ring, task, asked, run, lock, typed, slots>>
  \/ /\ part = "ssh" /\ Ssh!Next
     /\ UNCHANGED <<part, hidVars, controlVars, bootVars, gateVars, brokerVars,
                    serviceVars, historyVars, networkVars, settingsVars,
                    schemaVars, current, nextGen, mounted, lease, pending,
                    ring, task, keys, asked, run, slots>>

Spec == Init /\ [][Next]_vars

-----------------------------------------------------------------------------
\* The variables of each part, with those that others use too.
hidAll == <<gate, current, nextGen, fence, bound, cmdLock, reportOwner, dirty,
            neutralPending, pressed, cmdActive, cmdAborted, sendOk, mounted,
            resetPending, owed, host, pc, known, tok, adm, cmd, ip, saved,
            prev, req, neut, ret>>
controlAll == <<current, nextGen, sess, lease, nextResource, pending,
                failClosed, preempted, ppc, ptok, granted, kvm, ring, cursor,
                agent, takeover, sock>>
bootAll == <<plan, task, work, lease, mounted, clock, confirm, locks, keys>>
gateAll == <<slot, serial, asked, task, run, page, abort, leases, stopper, hand, lock, typed,
             sys>>
brokerAll == <<slots, nextSeq, now, snapshot, boot, effects, called>>
serviceAll == <<rt, records, ring, ringNext, ledger, lifecycle, retryable,
                healthy, finishing, opening, log, limbo, serving, faults>>
historyAll == <<hist, mem, ckpt, tmp, lock, stored, newest, gap, faults, slots,
                queue, worker, caller, claimed, glued>>
networkAll == <<flash, cache, run, applied, conf, deadline, persist, acd,
                probed, link, refused, asked, blind, mishap, stages, faults>>
settingsAll == <<nvs, handle, pc, op, lock, pending, notified, result, done,
                 ran, mine, calls>>
schemaAll == <<keys, data, torn, cur, pc, ver, faults>>
sshAll == <<lock, sem, pc, owner, cancel, late, held, secret, key, known,
            active, req, input, typed, faults>>


\* The tasks of the firmware are scheduled: one inside the HID manager runs on,
\* the two 50 ms tasks run for ever, the task that ended a session goes on to
\* revoke it, workers and proxies take what is queued for them, timers fire,
\* and a caller inside a call goes on; clients poll their requests.  Browsers,
\* people and the host owe nothing.
Fairness ==
  /\ \A t \in {t1, t2} : WF_hidAll(part = "hid" /\ Hid!Inside(t))
  /\ WF_controlAll(part = "control" /\ Control!MaintainStep)
  /\ WF_controlAll(part = "control" /\ Control!ExpireStep)
  /\ WF_controlAll(part = "control" /\ Control!RevokeStep(Browser))
  /\ WF_bootAll(part = "boot keys" /\ BootKeys!Tick)
  /\ \A w \in {w1, w2} : WF_bootAll(part = "boot keys" /\ BootKeys!Worker(w))
  /\ \A a \in {"agent", "mcp"} :
       /\ WF_gateAll(part = "operations" /\ Gate!Write(a))
       /\ WF_gateAll(part = "operations" /\ Gate!Heed(a))
       /\ WF_gateAll(part = "operations" /\ Gate!Finish(a))
  /\ WF_brokerAll(part = "requests" /\ Broker!Tick)
  /\ WF_brokerAll(part = "requests" /\ Broker!Query)
  /\ WF_serviceAll(part = "journal" /\ Service!Recovery)
  /\ WF_historyAll(part = "history" /\ History!WorkerNext)
  /\ \A c \in {"agent", "web"} : WF_historyAll(part = "history" /\ History!CallerNext(c))
  /\ WF_networkAll(part = "network" /\ Network!Timeout)
  /\ WF_networkAll(part = "network" /\ Network!RetryPersist)
  /\ WF_networkAll(part = "network" /\ Network!FinishAcd)
  /\ WF_settingsAll(part = "settings" /\ Settings!Proxy)
  /\ \A t \in {i1, x1} :
       /\ WF_settingsAll(part = "settings" /\ Settings!Direct(t))
       /\ WF_settingsAll(part = "settings" /\ Settings!TakeBack(t))
       /\ WF_settingsAll(part = "settings" /\ (Settings!HandOver(t) \/ Settings!Refused(t)))
  /\ WF_schemaAll(part = "schema" /\ Schema!Boots)
  /\ \A j \in {e1, s1} :
       /\ WF_sshAll(part = "ssh" /\ Ssh!Expire(j))
       /\ WF_sshAll(part = "ssh" /\ Ssh!MustGiveUp(j))
       /\ WF_sshAll(part = "ssh" /\ Ssh!Ask(j))
       /\ WF_sshAll(part = "ssh" /\ Ssh!Heard(j))
       /\ WF_sshAll(part = "ssh" /\ Ssh!Broker(j))
       /\ WF_sshAll(part = "ssh" /\ Ssh!Ends(j))
       /\ WF_sshAll(part = "ssh" /\ Ssh!Start(j))

FairSpec == Spec /\ Fairness

-----------------------------------------------------------------------------
\* What may not last: a task's hold of the gate, a token that is stale, a plan's
\* worker, an operation that was told to stop, a request nobody answers, a
\* recovery, a slot in use, a trial, a call, a boot, a session.  Where there are
\* two of a kind, i tells them apart.
Waiting(i) ==
  CASE part = "hid" -> gate = <<t1, t2>>[i]
    [] part = "control" -> Control!StaleToken
    [] part = "boot keys" -> BootKeys!PlanRuns /\ ~BootKeys!PlanIsOrphaned
    [] part = "operations" -> slot[<<power, uart>>[i]].cancel
    [] part = "requests" -> Broker!Waits(i)
    [] part = "journal" -> lifecycle = "running"
    [] part = "history" -> slots[i].state # "free"
    [] part = "network" -> <<(conf \/ applied) /\ "retry" \notin mishap, persist>>[i]
    [] part = "settings" -> pc[<<i1, x1>>[i]] # "idle"
    [] part = "schema" -> pc \notin {"ready", "refused"}
    [] part = "ssh" -> <<owner[e1] = "open", owner[s1] = "stopping">>[i]


\* A session that ended loses the reports and the lease for good, the lock
\* time-outs and the journal of revocations notwithstanding
\* (si_control_lease_revoke_auth_session, lease_maintenance_task).
EndedSessionLosesControl ==
  (part = "control" /\ sess[Browser] = "ended")
    ~> [](part = "control" /\ ~Control!HoldsHid(Browser) /\ ~Control!HoldsLease(Browser))
=============================================================================
