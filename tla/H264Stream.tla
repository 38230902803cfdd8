----------------------------- MODULE H264Stream ------------------------------
(* The H.264 WebSocket stream (services/video_h264_stream.c): the handshake   *)
(* and the queued sends in the HTTPD task, the stream task that borrows a     *)
(* camera frame, encodes it and tears the pipeline down, and the JPEG decode  *)
(* worker beside it.  The session tuple is guarded by a lock that a handshake *)
(* keeps while it prepares the codec; every other user waits for it a bounded *)
(* time only and goes on without it.                                          *)
(*                                                                            *)
(* The codec and the agent's workers share a peak memory budget: the owner    *)
(* token, the runtime gate, the boot-time encoder handle and the preallocated *)
(* buffers.  The budget is one compare-and-swap word whose claims are         *)
(* serialised by the gate, while its releases are not.                        *)
EXTENDS Naturals, Sequences, FiniteSets, SequencesExt

-------------------------------------------------------------------------------
(* The memory budget *)

CONSTANTS
  Agents,      \* tasks that claim the budget for an agent worker
  Modes,       \* capture modes the codec supports
  CfgMode,     \* the mode the boot-time encoder is created for
  MaxEpoch     \* the last claim generation (UINT32_MAX >> 2 in the code)

VARIABLES
  gate,    \* holder of s_runtime_reserve_claimed, or "free"
  owner,   \* s_resource_owner_token
  epoch,   \* s_resource_owner_epoch
  mem,     \* the encoder handle, the buffers and their claim flags
  agent    \* per agent task: where it is in the claim, and its token

codecVars == <<gate, owner, epoch, mem, agent>>

NoToken == [epoch |-> 0, kind |-> "none"]
NoMode == "none"

(* The boot-time mode is one, and nobody is called "free". *)
BudgetBounds ==
  /\ CfgMode \in Modes /\ NoMode \notin Modes /\ MaxEpoch \in Nat \ {0}
  /\ "free" \notin Agents

(* What the heap may answer. *)
Heap == {"enough", "low"}

CodecInit ==
  /\ gate = "free"
  /\ owner = NoToken
  /\ epoch = 0
  /\ mem = [encoder |-> CfgMode, width |-> CfgMode, encClaimed |-> FALSE,
            bufs |-> FALSE, bufClaimed |-> FALSE, codec |-> FALSE,
            ready |-> FALSE, active |-> FALSE, poisoned |-> FALSE,
            available |-> FALSE, terminal |-> FALSE]
  /\ agent = [a \in Agents |-> [pc |-> "idle", token |-> NoToken]]

-------------------------------------------------------------------------------
(* Owner tokens.                                                              *)

GateTake(who) == gate = "free" /\ gate' = who

GateGive == gate' = "free"

NextEpoch == IF epoch + 1 > MaxEpoch THEN 1 ELSE epoch + 1

OwnerIs(token, kind) ==
  token # NoToken /\ token.kind = kind /\ owner = token

(* Mutant: the claim does not look at the word it overwrites. *)
ClaimAnyway(kind) ==
  /\ epoch' = NextEpoch
  /\ owner' = [epoch |-> NextEpoch, kind |-> kind]

ClaimLocked(kind) ==
  /\ owner = NoToken
  /\ epoch' = NextEpoch
  /\ owner' = [epoch |-> NextEpoch, kind |-> kind]

(* The compare-and-swap of h264_resource_release_exact: what becomes of the word. *)
ReleaseExact(token, kind) ==
  IF OwnerIs(token, kind) THEN NoToken ELSE owner

CodecBusy == \/ mem.active \/ mem.ready \/ mem.codec
             \/ mem.encClaimed \/ mem.bufClaimed

(* The codec's own release refuses while any part of a pipeline is left. *)
CanReleaseH264(m) ==
  ~ (m.active \/ m.ready \/ m.codec \/ m.encClaimed \/ m.bufClaimed \/ m.poisoned)

-------------------------------------------------------------------------------
(* The boot-time reserve and the reserve at the start of a session.           *)

(* The encoder is created for the configured mode, and its geometry noted. *)
EncoderReserve(m) == [m EXCEPT !.encoder = CfgMode, !.width = CfgMode]

(* What a reserve under the gate may make of the memory: the width is noted   *)
(* first, then the encoder is created unless there is one, then the buffers;  *)
(* a failure of the buffers gives the encoder back.                           *)
ReserveInternal(m) ==
  LET noted == [m EXCEPT !.width = CfgMode]
      ready == IF m.encoder = NoMode THEN EncoderReserve(noted) ELSE noted
  IN  {[ready EXCEPT !.bufs = TRUE, !.available = TRUE]}
        \cup (IF m.encoder = NoMode
              THEN {[noted EXCEPT !.available = FALSE],
                    [noted EXCEPT !.available = FALSE, !.terminal = TRUE]}
              ELSE {})
        \cup (IF ~m.bufs
              THEN {[ready EXCEPT !.encoder = NoMode, !.available = FALSE]}
              ELSE {})

(* h264_runtime_reserve while the gate is held for it. *)
RuntimeReserve(m) ==
  IF m.available \/ m.terminal THEN {m} ELSE ReserveInternal(m)

Reserved(m) == m.available

-------------------------------------------------------------------------------
(* A pipeline's hold on the memory.                                           *)

(* pipeline_release_internal, once the worker and the egress have stopped. *)
PipelineRelease(m, giveGate) ==
  [m EXCEPT !.encClaimed = FALSE, !.bufClaimed = FALSE, !.ready = FALSE,
            !.codec = IF giveGate THEN FALSE ELSE @]

(* The encoder handle for the mode: rebuilt when the dimensions changed. *)
EncoderFor(m, mode) ==
  IF m.encoder # NoMode /\ m.width = mode THEN m
  ELSE [m EXCEPT !.encoder = mode, !.width = mode]

(* Deleting the old handle worked and creating the new one did not. *)
EncoderLost(m, mode) ==
  IF m.encoder # NoMode /\ m.width = mode THEN m
  ELSE [m EXCEPT !.encoder = NoMode,
                 !.width = IF m.encoder # NoMode THEN NoMode ELSE @]

(* The memory after pipeline_configure succeeded, and when the encoder could  *)
(* not be had: every failure releases the pipeline and its codec gate.        *)
Configured(m, mode) ==
  [EncoderFor(m, mode) EXCEPT !.codec = TRUE, !.encClaimed = TRUE,
                              !.bufClaimed = m.bufs, !.ready = TRUE]

ConfigureFailed(m, mode) ==
  {PipelineRelease(m, TRUE), PipelineRelease(EncoderLost(m, mode), TRUE)}

-------------------------------------------------------------------------------
(* si_h264_stream_claim_agent_resources and its release.                      *)

At(a, pc) == agent[a].pc = pc

Go(a, pc, token) == agent' = [agent EXCEPT ![a] = [pc |-> pc, token |-> token]]

AgentGate(a) ==
  /\ At(a, "idle") /\ GateTake(a)
  /\ Go(a, "gated", NoToken)
  /\ UNCHANGED <<owner, epoch, mem>>

AgentRefused(a) ==
  /\ At(a, "gated") /\ owner # NoToken
  /\ GateGive /\ Go(a, "idle", NoToken)
  /\ UNCHANGED <<owner, epoch, mem>>

AgentClaims(a) ==
  /\ At(a, "gated") /\ ClaimLocked("agent")
  /\ Go(a, "claimed", owner')
  /\ UNCHANGED <<gate, mem>>

(* The claim is given back: the codec is busy, or the idle handle stays. *)
AgentBacksOut(a) ==
  /\ At(a, "claimed")
  /\ CodecBusy \/ mem.encoder # NoMode
  /\ owner' = ReleaseExact(agent[a].token, "agent")
  /\ GateGive /\ Go(a, "idle", NoToken)
  /\ UNCHANGED <<epoch, mem>>

AgentSuspendsEncoder(a) ==
  /\ At(a, "claimed") /\ ~CodecBusy
  /\ mem' = [mem EXCEPT !.encoder = NoMode, !.width = IF mem.encoder = NoMode THEN @ ELSE NoMode,
                        !.available = FALSE]
  /\ Go(a, "suspended", agent[a].token)
  /\ UNCHANGED <<gate, owner, epoch>>

AgentPreflight(a, heap) ==
  /\ At(a, "suspended") /\ GateGive
  /\ IF heap = "enough"
       THEN Go(a, "held", agent[a].token) /\ UNCHANGED owner
       ELSE /\ Go(a, "idle", NoToken)
            /\ owner' = ReleaseExact(agent[a].token, "agent")
  /\ UNCHANGED <<epoch, mem>>

AgentRelease(a) ==
  /\ At(a, "held")
  /\ owner' = ReleaseExact(agent[a].token, "agent")
  /\ Go(a, "idle", NoToken)
  /\ UNCHANGED <<gate, epoch, mem>>

AgentNext(a) ==
  \/ AgentGate(a) \/ AgentRefused(a) \/ AgentClaims(a) \/ AgentBacksOut(a)
  \/ AgentSuspendsEncoder(a) \/ (\E heap \in Heap : AgentPreflight(a, heap))
  \/ AgentRelease(a)

-------------------------------------------------------------------------------
CodecTypeOK ==
  /\ owner.epoch \in 0 .. MaxEpoch /\ owner.kind \in {"none", "agent", "h264"}
  /\ epoch \in 0 .. MaxEpoch
  /\ mem.encoder \in Modes \cup {NoMode} /\ mem.width \in Modes \cup {NoMode}

(* An agent worker that was given the budget has it alone: its token is the   *)
(* owner's, and there is no encoder handle, no pipeline and no H.264 session. *)
AgentHasTheBudget ==
  \A a \in Agents : At(a, "held") =>
     owner = agent[a].token /\ mem.encoder = NoMode /\ ~CodecBusy

(* The noted geometry is the encoder handle's: a session is never encoded with*)
(* the macro block geometry of an earlier resolution.                         *)
GeometryIsCurrent == mem.encoder # NoMode => mem.encoder = mem.width

-------------------------------------------------------------------------------
(* The stream *)

CONSTANTS
  Fds,            \* socket numbers, reused after a close
  StreamIds,      \* KVM stream ids the pages present
  FirstStream,    \* the one that is current at first
  Overlap,        \* CONFIG_SI_VIDEO_H264_PIPELINE_OVERLAP
  Limits          \* bounds, of which a behaviour has one: handshakes, access units
                  \* of a session, failures and time-outs, time-outs of the stream
                  \* lock, changes of the KVM stream or the camera's mode, the
                  \* sockets in use, and whether agent workers run

VARIABLES
  stream,    \* s_stream: the session tuple
  lock,      \* holder of s_stream.lock between steps
  restore,   \* s_restore_pending
  transport, \* si_video_control_set_h264_transport
  kvm,       \* the stream id that is current for the KVM (external)
  capture,   \* the capture mode the camera delivers (external)
  sock,      \* per socket: its state and the connection it is
  httpd,     \* the HTTPD task
  work,      \* its queue of access units
  pipe,      \* the stream task's pipeline
  worker,    \* the decode worker and its two queues of one job
  task,      \* the stream task
  sent,      \* per connection: the sequence number after the last unit it was sent
  bound      \* what of the bounds is used

streamVars == <<stream, lock, restore, transport, kvm, capture, sock, httpd,
                work, pipe, worker, task, sent, bound>>
vars == <<codecVars, streamVars>>

Slots == {"primary", "small"}
NoFd == 0

(* A socket has a number. *)
StreamBounds == BudgetBounds /\ NoFd \notin Fds /\ FirstStream \in StreamIds

NoJob == [surface |-> "none"]
Stop == [surface |-> "stop"]
NoPipe == [enc |-> FALSE, gate |-> FALSE,
           mode |-> NoMode, egress |-> FALSE, free |-> {}, stopping |-> FALSE,
           abort |-> FALSE, failed |-> 0, poisoned |-> FALSE, chain |-> 0]
NoWorker == [st |-> "none", job |-> NoJob, req |-> <<>>, res |-> <<>>,
             asked |-> FALSE, stopped |-> FALSE, confirmed |-> FALSE]
NoSnap == [fd |-> NoFd, conn |-> 0, session |-> 0, id |-> 0, token |-> NoToken]

H264Init ==
  /\ CodecInit
  /\ stream = [fd |-> NoFd, conn |-> 0, session |-> 0, id |-> 0, token |-> NoToken,
               teardown |-> FALSE]
  /\ lock = "free" /\ restore = FALSE /\ transport = FALSE
  /\ kvm = FirstStream /\ capture = CfgMode
  /\ sock = [f \in Fds |-> [st |-> "none", conn |-> 0]]
  /\ httpd = [pc |-> "idle", fd |-> NoFd, id |-> 0, token |-> NoToken, mine |-> FALSE]
  /\ work = <<>> /\ pipe = NoPipe /\ worker = NoWorker
  /\ task = [pc |-> "top", ret |-> "none", snap |-> NoSnap, local |-> 0, seq |-> 0,
             ready |-> "none", inflight |-> FALSE, err |-> FALSE]
  /\ bound \in {[session |-> 0, fault |-> 0, wait |-> 0, kvm |-> 0, max |-> m] : m \in Limits}
  /\ sent = [c \in 1 .. bound.max.session |-> 0]

Attached == stream.fd # NoFd
IsCurrent(session, fd) == stream.session = session /\ stream.fd = fd
KvmCurrent(id) == kvm = id

(* A failure or a time-out, within the bound. *)
Fault == bound.fault < bound.max.fault /\ bound' = [bound EXCEPT !.fault = @ + 1]

-------------------------------------------------------------------------------
(* Detaching a session.                                                       *)

DetachedIf(session, fd) ==
  IF IsCurrent(session, fd)
  THEN [stream EXCEPT !.fd = NoFd, !.conn = 0, !.id = 0] ELSE stream

(* The socket of a failed session is asked to close. *)
ClosedIf(session, fd, close) ==
  IF close /\ IsCurrent(session, fd) /\ sock[fd].st # "none"
  THEN [sock EXCEPT ![fd].st = "closing"] ELSE sock

(* stream_detach_internal with the lock held. *)
Detach(session, fd, close) ==
  /\ stream' = DetachedIf(session, fd)
  /\ sock' = ClosedIf(session, fd, close)
  /\ restore' = (restore \/ IsCurrent(session, fd))
  /\ mem' = [mem EXCEPT !.active = @ /\ ~IsCurrent(session, fd)]

(* From the stream task, after n failures: a handshake may keep the lock past *)
(* the time-out, and then nothing is detached.                                *)
TaskDetaches(close, n) ==
  /\ bound.fault + n <= bound.max.fault
  /\ \/ /\ lock = "free" /\ Detach(task.snap.session, task.snap.fd, close)
        /\ bound' = [bound EXCEPT !.fault = @ + n]
     \/ /\ lock = "httpd" /\ bound.wait < bound.max.wait
        /\ bound' = [bound EXCEPT !.fault = @ + n, !.wait = @ + 1]
        /\ UNCHANGED <<stream, sock, restore, mem>>

-------------------------------------------------------------------------------
(* Access unit slots.                                                         *)

Return(slot) == [pipe EXCEPT !.free = @ \cup {slot}]

AllFree == pipe.free = Slots

-------------------------------------------------------------------------------
(* The HTTPD task: the handshake (stream_attach).                             *)

HttpdAt(pc) == httpd.pc = pc
Idle == [pc |-> "idle", fd |-> NoFd, id |-> 0, token |-> NoToken, mine |-> FALSE]

(* A rejected handshake closes its socket. *)
Reject == httpd' = Idle /\ lock' = "free" /\ sock' = [sock EXCEPT ![httpd.fd].st = "none"]

Handshake(fd, id) ==
  /\ HttpdAt("idle") /\ sock[fd].st = "none" /\ bound.session < bound.max.session
  /\ fd \in bound.max.fds /\ KvmCurrent(id)
  /\ bound' = [bound EXCEPT !.session = @ + 1]
  /\ sock' = [sock EXCEPT ![fd] = [st |-> "http", conn |-> bound.session + 1]]
  /\ httpd' = [Idle EXCEPT !.pc = "lock", !.fd = fd, !.id = id]
  /\ UNCHANGED <<codecVars, stream, lock, restore, transport, kvm, capture, work,
                 pipe, worker, task, sent>>

AttachLock ==
  /\ HttpdAt("lock")
  /\ \/ /\ stream.teardown \/ ~KvmCurrent(httpd.id)
           \/ (stream.token # NoToken /\ ~OwnerIs(stream.token, "h264"))
        /\ Reject
     \/ /\ ~stream.teardown /\ KvmCurrent(httpd.id)
        /\ stream.token = NoToken \/ OwnerIs(stream.token, "h264")
        /\ lock' = "httpd"
        /\ httpd' = [httpd EXCEPT !.pc = IF stream.token = NoToken THEN "claim" ELSE "reserve",
                                  !.token = stream.token]
        /\ UNCHANGED sock
  /\ UNCHANGED <<codecVars, stream, restore, transport, kvm, capture, work,
                 pipe, worker, task, sent, bound>>

AttachClaim ==
  /\ HttpdAt("claim")
  /\ \/ /\ gate = "free" /\ ClaimLocked("h264")
        /\ httpd' = [httpd EXCEPT !.pc = "reserve", !.token = owner', !.mine = TRUE]
        /\ UNCHANGED <<lock, sock>>
     \/ /\ gate # "free" \/ owner # NoToken
        /\ Reject /\ UNCHANGED <<owner, epoch>>
  /\ UNCHANGED <<gate, mem, agent, stream, restore, transport, kvm, capture, work,
                 pipe, worker, task, sent, bound>>

(* A token claimed by this handshake is given back. *)
GivesBack(m) ==
  IF httpd.mine /\ CanReleaseH264(m) THEN ReleaseExact(httpd.token, "h264") ELSE owner

AttachReserve ==
  /\ HttpdAt("reserve")
  /\ \/ /\ gate = "free" /\ mem' \in RuntimeReserve(mem)
        /\ IF Reserved(mem')
             THEN /\ httpd' = [httpd EXCEPT !.pc = "transport"]
                  /\ UNCHANGED <<owner, lock, sock, bound>>
             ELSE Fault /\ owner' = GivesBack(mem') /\ Reject
     \/ /\ gate # "free" /\ owner' = GivesBack(mem) /\ Reject
        /\ UNCHANGED <<mem, bound>>
  /\ UNCHANGED <<gate, epoch, agent, stream, restore, transport, kvm, capture,
                 work, pipe, worker, task, sent>>

AttachTransport ==
  /\ HttpdAt("transport")
  /\ \/ /\ transport' = TRUE
        /\ httpd' = [httpd EXCEPT !.pc = "publish"]
        /\ UNCHANGED <<owner, lock, sock, bound>>
     \/ Fault /\ owner' = GivesBack(mem) /\ Reject /\ UNCHANGED transport
  /\ UNCHANGED <<gate, epoch, mem, agent, stream, restore, kvm, capture, work,
                 pipe, worker, task, sent>>

(* The KVM stream changed meanwhile: without an older session the MJPEG       *)
(* profile is restored, and when that fails the stream task is left to do it. *)
AttachStale ==
  /\ HttpdAt("publish") /\ ~KvmCurrent(httpd.id)
  /\ \/ /\ ~Attached /\ Fault
        /\ stream' = [stream EXCEPT !.token = httpd.token, !.teardown = TRUE]
        /\ restore' = TRUE
        /\ UNCHANGED <<owner, transport>>
     \/ /\ transport' = (transport /\ Attached)
        /\ owner' = GivesBack(mem)
        /\ UNCHANGED <<stream, restore, bound>>
  /\ Reject
  /\ UNCHANGED <<gate, epoch, mem, agent, kvm, capture, work, pipe, worker, task, sent>>

AttachPublish ==
  /\ HttpdAt("publish") /\ KvmCurrent(httpd.id)
  /\ stream' = [fd |-> httpd.fd, conn |-> sock[httpd.fd].conn, session |-> stream.session + 1, id |-> httpd.id,
                token |-> httpd.token, teardown |-> FALSE]
  /\ mem' = [mem EXCEPT !.active = TRUE, !.poisoned = FALSE]
  /\ restore' = FALSE /\ lock' = "free" /\ httpd' = Idle
  /\ sock' = [f \in Fds |->
                IF f = httpd.fd THEN [sock[f] EXCEPT !.st = "ws"]
                ELSE IF Attached /\ f = stream.fd /\ sock[f].st # "none"
                     THEN [sock[f] EXCEPT !.st = "closing"] ELSE sock[f]]
  /\ UNCHANGED <<gate, owner, epoch, agent, transport, kvm, capture, work, pipe,
                 worker, task, sent, bound>>

-------------------------------------------------------------------------------
(* The HTTPD task: sockets and queued sends.                                  *)

(* A CLOSE frame or a receive error on a socket (stream_finish_fd). *)
SocketEnds(fd, error) ==
  /\ HttpdAt("idle") /\ sock[fd].st = "ws"
  /\ stream' = DetachedIf(stream.session, fd)
  /\ restore' = (restore \/ stream.fd = fd)
  /\ mem' = [mem EXCEPT !.active = @ /\ stream.fd # fd]
  /\ sock' = [sock EXCEPT ![fd].st = IF error THEN "closing" ELSE "none"]
  /\ UNCHANGED <<gate, owner, epoch, agent, lock, transport, kvm, capture, httpd,
                 work, pipe, worker, task, sent, bound>>

SocketClosed(fd) ==
  /\ HttpdAt("idle") /\ sock[fd].st = "closing"
  /\ sock' = [sock EXCEPT ![fd].st = "none"]
  /\ UNCHANGED <<codecVars, stream, lock, restore, transport, kvm, capture, httpd,
                 work, pipe, worker, task, sent, bound>>

(* Mutant: the queued unit is checked by its socket number alone. *)
SendableByFd(au) ==
  ~pipe.stopping /\ stream.fd = au.fd /\ sock[au.fd].st \in {"ws", "closing"}

(* The queued access unit still belongs to the session and to a live socket. *)
Sendable(au) ==
  /\ ~pipe.stopping
  /\ IsCurrent(au.session, au.fd) /\ stream.id = au.id /\ KvmCurrent(au.id)
  /\ sock[au.fd].st \in {"ws", "closing"}

SendCheck ==
  /\ HttpdAt("idle") /\ work # <<>>
  /\ IF Sendable(Head(work))
       THEN httpd' = [httpd EXCEPT !.pc = "send"] /\ UNCHANGED <<work, pipe>>
       ELSE pipe' = Return(Head(work).slot) /\ work' = Tail(work) /\ UNCHANGED httpd
  /\ UNCHANGED <<codecVars, stream, lock, restore, transport, kvm, capture, sock,
                 worker, task, sent, bound>>

(* The write of a whole access unit ended well. *)
SendDone ==
  LET au == Head(work)  c == sock[au.fd].conn
  IN  /\ HttpdAt("send")
      /\ sent' = [sent EXCEPT ![c] = au.seq + 1]
      /\ pipe' = [Return(au.slot) EXCEPT !.failed = IF @ = au.session THEN 0 ELSE @]
      /\ work' = Tail(work) /\ httpd' = Idle
      /\ UNCHANGED <<codecVars, stream, lock, restore, transport, kvm, capture, sock,
                     worker, task, bound>>

(* The write failed, or was aborted by a teardown: a session that is still    *)
(* current fails with it.                                                     *)
SendFails ==
  LET au == Head(work)  live == IsCurrent(au.session, au.fd)
  IN  /\ HttpdAt("send") /\ (IF pipe.abort THEN UNCHANGED bound ELSE Fault)
      /\ pipe' = [Return(au.slot) EXCEPT !.failed = IF live THEN au.session ELSE @]
      /\ IF live THEN Detach(au.session, au.fd, TRUE)
                 ELSE UNCHANGED <<stream, sock, restore, mem>>
      /\ work' = Tail(work) /\ httpd' = Idle
      /\ UNCHANGED <<gate, owner, epoch, agent, lock, transport, kvm, capture, worker,
                     task, sent>>

-------------------------------------------------------------------------------
(* The decode worker.                                                         *)

WorkerTakes ==
  /\ worker.st = "idle" /\ worker.req # <<>>
  /\ worker' = IF Head(worker.req) = Stop
               THEN [worker EXCEPT !.st = "suspended", !.req = <<>>, !.stopped = TRUE]
               ELSE [worker EXCEPT !.st = "decode", !.job = Head(worker.req), !.req = <<>>]
  /\ UNCHANGED <<codecVars, stream, lock, restore, transport, kvm, capture, sock,
                 httpd, work, pipe, task, sent, bound>>

(* The frame is decoded, or refused and the decoder recreated; the camera's   *)
(* frame goes back before the result is published.  A full result queue       *)
(* drops the result.                                                          *)
WorkerDecodes(ok) ==
  /\ worker.st = "decode"
  /\ IF ok THEN UNCHANGED bound ELSE Fault
  /\ LET job == [worker.job EXCEPT !.ok = ok]
     IN  worker' = [worker EXCEPT !.st = "idle", !.job = NoJob,
                                  !.res = IF @ = <<>> THEN <<job>> ELSE @]
  /\ UNCHANGED <<codecVars, stream, lock, restore, transport, kvm, capture, sock,
                 httpd, work, pipe, task, sent>>

NewWorker == [NoWorker EXCEPT !.st = "idle"]

OverlapNow == worker.st # "none"

-------------------------------------------------------------------------------
(* The stream task.                                                           *)

TaskAt(pc) == task.pc = pc

(* The task's step leaves everything but what it names. *)
OnlyTask == UNCHANGED <<codecVars, stream, lock, restore, transport, kvm, capture,
                        sock, httpd, work, pipe, worker, sent, bound>>

(* A new browser session: the counters restart, and a pipeline that is still  *)
(* there is reset to a fresh IDR.                                             *)
NewSession(t) ==
  [t EXCEPT !.local = t.snap.session, !.seq = 0, !.ready = "none", !.inflight = FALSE,
            !.err = FALSE, !.ret = "restart", !.pc = IF pipe.enc THEN "stop" ELSE "client"]

(* stream_snapshot; a lock kept by a handshake reads as no session. *)
Snapshot ==
  /\ TaskAt("top") /\ lock = "free" /\ Attached
  /\ LET t == [task EXCEPT !.pc = "client",
                           !.snap = [fd |-> stream.fd, conn |-> stream.conn, id |-> stream.id,
                                     session |-> stream.session, token |-> stream.token]]
     IN  task' = IF stream.session # task.local THEN NewSession(t) ELSE t
  /\ OnlyTask

(* Mutant: a teardown that failed once is not tried again. *)
ClaimTeardownOnce ==
  /\ TaskAt("top") /\ lock = "free" /\ ~Attached /\ restore /\ ~stream.teardown
  /\ stream' = [stream EXCEPT !.teardown = TRUE]
  /\ task' = [task EXCEPT !.pc = "stop", !.ret = "cleanup", !.err = FALSE]
  /\ UNCHANGED <<codecVars, lock, restore, transport, kvm, capture, sock, httpd,
                 work, pipe, worker, sent, bound>>

(* Without a session, and after the idle grace, the teardown is claimed under *)
(* the lock.                                                                  *)
ClaimTeardown ==
  /\ TaskAt("top") /\ lock = "free" /\ ~Attached /\ restore
  /\ stream' = [stream EXCEPT !.teardown = TRUE]
  /\ task' = [task EXCEPT !.pc = "stop", !.ret = "cleanup", !.err = FALSE]
  /\ UNCHANGED <<codecVars, lock, restore, transport, kvm, capture, sock, httpd,
                 work, pipe, worker, sent, bound>>

(* pipeline_stop_decode_worker: the sentinel is queued once, behind the job.  *)
StopWorker ==
  /\ TaskAt("stop") /\ worker.st # "none" /\ ~worker.confirmed
  /\ \/ /\ ~worker.asked /\ worker.req = <<>>
        /\ worker' = [worker EXCEPT !.res = <<>>, !.req = <<Stop>>, !.asked = TRUE]
        /\ UNCHANGED <<task, bound>>
     \/ /\ worker.stopped
        /\ worker' = [worker EXCEPT !.confirmed = TRUE, !.res = <<>>]
        /\ UNCHANGED <<task, bound>>
     \/ /\ ~worker.stopped /\ Fault
        /\ task' = [task EXCEPT !.err = TRUE,
                                !.pc = IF task.ret = "restart" THEN "restart" ELSE "egress"]
        /\ UNCHANGED worker
  /\ UNCHANGED <<codecVars, stream, lock, restore, transport, kvm, capture, sock,
                 httpd, work, pipe, sent>>

DeleteWorker ==
  /\ TaskAt("stop") /\ (worker.st = "none" \/ worker.confirmed)
  /\ worker' = NoWorker
  /\ task' = [task EXCEPT !.pc = IF task.ret = "restart" THEN "restart" ELSE "egress"]
  /\ UNCHANGED <<codecVars, stream, lock, restore, transport, kvm, capture, sock,
                 httpd, work, pipe, sent, bound>>

(* The rest of the session reset: the encoder is closed and opened, and the   *)
(* worker started again.                                                      *)
RestartEncoder ==
  /\ TaskAt("restart") /\ ~task.err
  /\ pipe' = [pipe EXCEPT !.chain = task.snap.session]
  /\ worker' = IF Overlap THEN NewWorker ELSE worker
  /\ task' = [task EXCEPT !.pc = "client"]
  /\ UNCHANGED <<codecVars, stream, lock, restore, transport, kvm, capture, sock,
                 httpd, work, sent, bound>>

(* Any failure ends the session - if the lock can be had: else it goes on with*)
(* what is left, the encoder perhaps still in the middle of the old chain.    *)
RestartFails(opened) ==
  /\ TaskAt("restart") /\ TaskDetaches(TRUE, IF task.err THEN 0 ELSE 1)
  /\ opened => ~task.err
  /\ pipe' = IF opened THEN [pipe EXCEPT !.chain = task.snap.session] ELSE pipe
  /\ task' = [task EXCEPT !.pc = "top"]
  /\ UNCHANGED <<gate, owner, epoch, agent, lock, transport, kvm, capture, httpd,
                 work, worker, sent>>

(* pipeline_stop_egress: stop, abort the write when the pipeline goes for     *)
(* good, and wait until every slot has come back.                             *)
StopEgress ==
  /\ TaskAt("egress")
  /\ \/ /\ pipe.egress /\ ~(pipe.stopping /\ (pipe.abort \/ task.ret = "configure"))
        /\ pipe' = [pipe EXCEPT !.stopping = TRUE,
                                !.abort = @ \/ task.ret # "configure"]
        /\ UNCHANGED <<task, bound>>
     \/ /\ ~pipe.egress \/ (pipe.stopping /\ AllFree)
        /\ task' = [task EXCEPT !.pc = "release"]
        /\ UNCHANGED <<pipe, bound>>
     \/ /\ pipe.egress /\ pipe.stopping /\ ~AllFree /\ Fault
        /\ task' = [task EXCEPT !.err = TRUE, !.pc = "release"]
        /\ UNCHANGED pipe
  /\ UNCHANGED <<codecVars, stream, lock, restore, transport, kvm, capture, sock,
                 httpd, work, worker, sent>>

(* pipeline_release_internal: an incomplete stop keeps the whole pipeline.    *)
ReleasePipeline ==
  /\ TaskAt("release")
  /\ IF task.err
       THEN /\ pipe' = [pipe EXCEPT !.poisoned = TRUE] /\ UNCHANGED mem
       ELSE /\ mem' = PipelineRelease(mem, task.ret # "configure")
            /\ pipe' = [NoPipe EXCEPT !.gate = pipe.gate /\ task.ret = "configure"]
  /\ task' = [task EXCEPT !.pc = task.ret]
  /\ UNCHANGED <<gate, owner, epoch, agent, stream, lock, restore, transport, kvm,
                 capture, sock, httpd, work, worker, sent, bound>>

(* The rest of the teardown: the MJPEG profile, and then the budget itself.   *)
Cleanup ==
  /\ TaskAt("cleanup")
  /\ \/ /\ ~task.err /\ transport' = FALSE /\ lock = "free"
        /\ LET m == [mem EXCEPT !.poisoned = FALSE]
           IN  /\ mem' = m
               /\ stream.token = NoToken \/ CanReleaseH264(m)
               /\ owner' = ReleaseExact(stream.token, "h264")
        /\ stream' = [stream EXCEPT !.token = NoToken, !.teardown = FALSE]
        /\ restore' = FALSE
        /\ task' = [task EXCEPT !.pc = "top", !.local = 0, !.seq = 0, !.ready = "none",
                                !.inflight = FALSE]
        /\ UNCHANGED bound
     \/ /\ IF task.err THEN UNCHANGED bound ELSE Fault
        /\ mem' = [mem EXCEPT !.poisoned = pipe.poisoned]
        /\ task' = IF task.err THEN [task EXCEPT !.pc = "top"]
                   ELSE [task EXCEPT !.pc = "top", !.local = 0, !.seq = 0,
                                     !.ready = "none", !.inflight = FALSE]
        /\ UNCHANGED <<stream, restore, transport, owner>>
  /\ UNCHANGED <<gate, epoch, agent, lock, kvm, capture, sock, httpd, work, pipe,
                 worker, sent>>

(* The socket is looked at before a frame is taken. *)
SocketUsable == sock[task.snap.fd].st \in {"ws", "closing"}

SocketGone ==
  /\ TaskAt("client") /\ sock[task.snap.fd].st = "none"
  /\ TaskDetaches(FALSE, 0)
  /\ task' = [task EXCEPT !.pc = "top"]
  /\ UNCHANGED <<gate, owner, epoch, agent, lock, transport, kvm, capture, httpd,
                 work, pipe, worker, sent>>

SocketNotYet ==
  /\ TaskAt("client") /\ sock[task.snap.fd].st = "http"
  /\ task' = [task EXCEPT !.pc = "top"] /\ OnlyTask

(* The worker's result, if one is awaited: in low latency it is encoded now.  *)
(* Without a worker a decoded frame is encoded first.                         *)
TakeResult(hurry) ==
  /\ TaskAt("client") /\ SocketUsable
  /\ IF OverlapNow /\ task.inflight
       THEN /\ worker.res # <<>>
            /\ LET job == Head(worker.res)
               IN  task' = [task EXCEPT !.inflight = FALSE,
                                        !.ready = IF job.ok THEN job.surface ELSE "none",
                                        !.pc = IF job.ok /\ hurry THEN "encode" ELSE "borrow",
                                        !.ret = "borrow"]
            /\ worker' = [worker EXCEPT !.res = <<>>]
       ELSE /\ task' = [task EXCEPT !.ret = "borrow",
                           !.pc = IF ~OverlapNow /\ task.ready # "none" THEN "encode" ELSE "borrow"]
            /\ UNCHANGED worker
  /\ UNCHANGED <<codecVars, stream, lock, restore, transport, kvm, capture, sock,
                 httpd, work, pipe, sent, bound>>

ResultTimesOut ==
  /\ TaskAt("client") /\ SocketUsable
  /\ OverlapNow /\ task.inflight /\ worker.res = <<>>
  /\ TaskDetaches(TRUE, 1)
  /\ task' = [task EXCEPT !.inflight = FALSE, !.pc = "top"]
  /\ UNCHANGED <<gate, owner, epoch, agent, lock, transport, kvm, capture, httpd,
                 work, pipe, worker, sent>>

(* No new frame: a decoded one waits for the next, or is encoded at last. *)
NoFrame ==
  /\ TaskAt("borrow")
  /\ task' = [task EXCEPT !.pc = IF OverlapNow /\ task.ready # "none" THEN "encode" ELSE "top",
                          !.ret = "top"]
  /\ OnlyTask

FrameWaits ==
  /\ TaskAt("borrow") /\ OverlapNow /\ task.ready # "none"
  /\ task' = [task EXCEPT !.pc = "top"] /\ OnlyTask

(* A frame is leased from the camera.  When its mode is not the pipeline's,   *)
(* the pipeline is configured first; the lease is returned by every way out.  *)
Leased ==
  \/ TaskAt("submit")
  \/ TaskAt("borrow") /\ task.seq < bound.max.units /\ pipe.enc /\ pipe.mode = capture

Borrow ==
  /\ TaskAt("borrow") /\ task.seq < bound.max.units /\ ~(pipe.enc /\ pipe.mode = capture)
  /\ task' = [task EXCEPT !.pc = "gate", !.ready = "none", !.inflight = FALSE]
  /\ OnlyTask

(* pipeline_configure: the codec gate is taken once, under the runtime gate,  *)
(* for the token of the session.                                              *)
ConfigureGate ==
  /\ TaskAt("gate")
  /\ \/ /\ ~pipe.gate /\ OwnerIs(task.snap.token, "h264") /\ gate = "free" /\ ~mem.codec
        /\ mem' = [mem EXCEPT !.codec = TRUE]
        /\ pipe' = [pipe EXCEPT !.gate = TRUE]
        /\ task' = [task EXCEPT !.pc = "stop", !.ret = "configure", !.err = FALSE]
     \/ /\ pipe.gate
        /\ task' = [task EXCEPT !.pc = "stop", !.ret = "configure", !.err = FALSE]
        /\ UNCHANGED <<mem, pipe>>
     \/ /\ ~pipe.gate /\ (~OwnerIs(task.snap.token, "h264") \/ gate # "free" \/ mem.codec)
        /\ task' = [task EXCEPT !.pc = "fail"]
        /\ UNCHANGED <<mem, pipe>>
  /\ UNCHANGED <<gate, owner, epoch, agent, stream, lock, restore, transport, kvm,
                 capture, sock, httpd, work, worker, sent, bound>>

(* ... then the decoder, the encoder, the egress and the worker.  A worker    *)
(* that cannot be started leaves the serial path.                             *)
Configure(started) ==
  /\ TaskAt("configure")
  /\ \/ /\ ~task.err
        /\ mem' = Configured(mem, capture)
        /\ pipe' = [NoPipe EXCEPT !.enc = TRUE, !.gate = TRUE,
                                  !.mode = capture, !.egress = TRUE, !.free = Slots,
                                  !.chain = task.snap.session]
        /\ worker' = IF Overlap /\ started THEN NewWorker ELSE NoWorker
        /\ task' = [task EXCEPT !.pc = "submit"]
        /\ (IF Overlap /\ ~started THEN Fault ELSE UNCHANGED bound)
     \/ /\ ~task.err /\ Fault
        /\ mem' \in ConfigureFailed(mem, capture)
        /\ pipe' = NoPipe /\ worker' = NoWorker
        /\ task' = [task EXCEPT !.pc = "fail"]
     \/ /\ task.err
        /\ task' = [task EXCEPT !.pc = "fail"]
        /\ UNCHANGED <<mem, pipe, worker, bound>>
  /\ UNCHANGED <<gate, owner, epoch, agent, stream, lock, restore, transport, kvm,
                 capture, sock, httpd, work, sent>>

(* The session fails. *)
FailSession ==
  /\ TaskAt("fail")
  /\ TaskDetaches(TRUE, 0)
  /\ task' = [task EXCEPT !.pc = "top"]
  /\ UNCHANGED <<gate, owner, epoch, agent, lock, transport, kvm, capture, httpd,
                 work, pipe, worker, sent>>

(* The next decode goes to the surface the encoder is not going to read. *)
Surface == IF task.ready = "yuv" THEN "alt" ELSE "yuv"

(* The frame is copied, if there is a copy surface, and handed to the worker; *)
(* a decoded frame is encoded beside it.                                      *)
SubmitDecode ==
  /\ Leased /\ OverlapNow
  /\ IF worker.req = <<>>
       THEN /\ worker' = [worker EXCEPT !.req = <<[surface |-> Surface, ok |-> FALSE]>>]
            /\ task' = [task EXCEPT !.inflight = TRUE, !.ret = "top",
                                    !.pc = IF task.ready # "none" THEN "encode" ELSE "top"]
       ELSE /\ task' = [task EXCEPT !.pc = "fail"] /\ UNCHANGED worker
  /\ UNCHANGED <<codecVars, stream, lock, restore, transport, kvm, capture, sock,
                 httpd, work, pipe, sent, bound>>

(* The serial path decodes in the task itself. *)
SerialDecode(ok) ==
  /\ Leased /\ ~OverlapNow
  /\ IF ok THEN UNCHANGED bound ELSE Fault
  /\ task' = [task EXCEPT !.ready = IF ok THEN Surface ELSE "none", !.pc = "top"]
  /\ UNCHANGED <<codecVars, stream, lock, restore, transport, kvm, capture, sock,
                 httpd, work, pipe, worker, sent>>

(* A decoded frame that finds the encoder's slot taken is dropped before the  *)
(* encoder sees it.                                                           *)
EncodeDrops ==
  /\ TaskAt("encode") /\ ~pipe.stopping /\ "primary" \notin pipe.free
  /\ task' = [task EXCEPT !.ready = "none", !.pc = task.ret]
  /\ OnlyTask

(* The session ends: the egress is stopping, the last send of this session    *)
(* failed, or the encoder did.                                                *)
EncodeFails ==
  /\ TaskAt("encode")
  /\ \/ pipe.stopping /\ UNCHANGED bound
     \/ "primary" \in pipe.free /\ pipe.failed = task.snap.session /\ UNCHANGED bound
     \/ "primary" \in pipe.free /\ Fault
  /\ task' = [task EXCEPT !.ready = "none", !.pc = "fail"]
  /\ UNCHANGED <<codecVars, stream, lock, restore, transport, kvm, capture, sock,
                 httpd, work, pipe, worker, sent>>

(* Where the task has a unit in a slot. *)
Queueing(slot) == IF slot = "small" THEN "queue_small" ELSE "queue_primary"

(* The unit is encoded in the primary slot; a small one moves to the small    *)
(* slot when that is free, which gives the primary slot back.                 *)
Encode(small) ==
  /\ TaskAt("encode") /\ ~pipe.stopping /\ "primary" \in pipe.free
  /\ pipe.failed # task.snap.session
  /\ small => "small" \in pipe.free
  /\ pipe' = [pipe EXCEPT !.free = @ \ {IF small THEN "small" ELSE "primary"}]
  /\ task' = [task EXCEPT !.ready = "none", !.pc = Queueing(IF small THEN "small" ELSE "primary")]
  /\ UNCHANGED <<codecVars, stream, lock, restore, transport, kvm, capture, sock,
                 httpd, work, worker, sent, bound>>

(* The unit is queued for the HTTPD task if the session is still the current  *)
(* one; a lock that a handshake keeps reads as no.                            *)
QueueUnit(slot) ==
  LET au == [slot |-> slot, fd |-> task.snap.fd, conn |-> task.snap.conn, session |-> task.snap.session,
             id |-> task.snap.id, seq |-> task.seq, chain |-> pipe.chain]
      ok == lock = "free" /\ IsCurrent(au.session, au.fd) /\ KvmCurrent(au.id)
  IN  /\ TaskAt(Queueing(slot))
      /\ \/ /\ ok /\ work' = Append(work, au)
            /\ task' = [task EXCEPT !.seq = @ + 1, !.pc = task.ret]
            /\ UNCHANGED <<pipe, bound>>
         \/ /\ IF ok THEN Fault ELSE UNCHANGED bound
            /\ pipe' = Return(slot) /\ task' = [task EXCEPT !.pc = "fail"]
            /\ UNCHANGED work
      /\ UNCHANGED <<codecVars, stream, lock, restore, transport, kvm, capture, sock,
                     httpd, worker, sent>>

-------------------------------------------------------------------------------
(* The outside: the current KVM stream and the camera's mode.                 *)

KvmChanges(id) ==
  /\ bound.kvm < bound.max.kvm /\ id # kvm
  /\ kvm' = id /\ bound' = [bound EXCEPT !.kvm = @ + 1]
  /\ UNCHANGED <<codecVars, stream, lock, restore, transport, capture, sock, httpd,
                 work, pipe, worker, task, sent>>

CaptureChanges(m) ==
  /\ bound.kvm < bound.max.kvm /\ m # capture
  /\ capture' = m /\ bound' = [bound EXCEPT !.kvm = @ + 1]
  /\ UNCHANGED <<codecVars, stream, lock, restore, transport, kvm, sock, httpd,
                 work, pipe, worker, task, sent>>

HttpdNext ==
  \/ \E fd \in Fds, id \in StreamIds : Handshake(fd, id)
  \/ AttachLock \/ AttachClaim \/ AttachReserve \/ AttachTransport
  \/ AttachStale \/ AttachPublish
  \/ \E fd \in Fds, e \in BOOLEAN : SocketEnds(fd, e)
  \/ \E fd \in Fds : SocketClosed(fd)
  \/ SendCheck \/ SendDone \/ SendFails

WorkerNext == WorkerTakes \/ \E ok \in BOOLEAN : WorkerDecodes(ok)

TaskNext ==
  \/ Snapshot \/ ClaimTeardown
  \/ StopWorker \/ DeleteWorker \/ RestartEncoder \/ StopEgress \/ ReleasePipeline \/ Cleanup
  \/ \E b \in BOOLEAN : RestartFails(b) \/ Configure(b) \/ TakeResult(b) \/ Encode(b)
  \/ SocketGone \/ SocketNotYet \/ ResultTimesOut \/ NoFrame \/ FrameWaits \/ Borrow
  \/ ConfigureGate \/ FailSession \/ SubmitDecode
  \/ \E ok \in BOOLEAN : SerialDecode(ok)
  \/ EncodeDrops \/ EncodeFails \/ \E slot \in Slots : QueueUnit(slot)

OutsideNext ==
  \/ \E id \in StreamIds : KvmChanges(id)
  \/ \E m \in Modes : CaptureChanges(m)
  \/ bound.max.agents /\ (\E a \in Agents : AgentNext(a)) /\ UNCHANGED streamVars

H264Next == HttpdNext \/ WorkerNext \/ TaskNext \/ OutsideNext

H264Spec == H264Init /\ [][H264Next]_vars

(* The HTTPD task inside a handshake or with a queued unit.                   *)
ServeNext ==
  AttachLock \/ AttachClaim \/ AttachReserve \/ AttachTransport \/ AttachStale
  \/ AttachPublish \/ SendCheck \/ SendDone \/ SendFails

(* The tasks are scheduled, a queued unit is served, the decoder has a        *)
(* time-out of its own, and the idle grace ends.                              *)
H264Fair ==
  /\ H264Spec
  /\ WF_vars(TaskNext) /\ WF_vars(WorkerNext) /\ SF_vars(ClaimTeardown) /\ SF_vars(Cleanup)
  /\ WF_vars(ServeNext)

-------------------------------------------------------------------------------
H264TypeOK ==
  /\ CodecTypeOK
  /\ lock \in {"free", "httpd"}
  /\ pipe.free \subseteq Slots /\ Len(work) <= 2
  /\ Len(worker.req) <= 1 /\ Len(worker.res) <= 1

(* The stream's token is the budget's owner, so a session, a pipeline and a   *)
(* teardown that is still being retried keep the agent out (and the guard     *)
(* against a stale token in the handshake never fires); and no claim is lost  *)
(* by a handshake that failed, which would lock both out until a reboot.      *)
StreamOwnsBudget ==
  /\ stream.token # NoToken => owner = stream.token
  /\ owner.kind = "h264" => owner \in {stream.token, httpd.token}
  /\ (Attached \/ pipe.enc) => stream.token # NoToken

(* Every access unit that the HTTPD task still has to send lies in a slot of  *)
(* the live pipeline that nobody else may write: memory is never given back,  *)
(* nor reused, under a queued or running send (pipeline_stop_egress).         *)
QueuedUnitIsAlive ==
  /\ \A i \in DOMAIN work : pipe.egress /\ work[i].slot \notin pipe.free
  /\ \A i, j \in DOMAIN work : work[i].slot = work[j].slot => i = j

(* The slots that are taken are in the queue or in the encoder's hands: none  *)
(* is lost on the way, so a teardown never waits for a unit nobody has.       *)
NoSlotIsLost ==
  pipe.egress =>
    Slots \ pipe.free =
      {work[i].slot : i \in DOMAIN work}
        \cup (CASE TaskAt("queue_small") -> {"small"}
                [] TaskAt("queue_primary") -> {"primary"}
                [] OTHER -> {})

(* A decode never runs on surfaces that were given back (the worker is joined *)
(* before the pipeline's memory is released).                                 *)
DecoderHasMemory == worker.st = "decode" => pipe.enc

(* A connection is sent access units of its own session only, in order, and   *)
(* from an encoder that was opened for that session: no queued unit of an     *)
(* older client reaches a reused socket, and no P frame refers to a picture   *)
(* the client never had - unless a wait for the stream lock timed out: a      *)
(* session whose restart failed then goes on with the encoder of the last.    *)
UnitsReachTheirSession ==
  \A c \in DOMAIN sent : sent'[c] # sent[c] =>
    LET au == Head(work)
    IN  /\ au.conn = c /\ au.seq >= sent[c]
        /\ bound.wait = 0 => au.chain = au.session

(* The decoder and the encoder never use one surface at a time, unless a wait *)
(* for the stream lock timed out: the time-out of a decode then leaves the    *)
(* session where it is, with the worker still at its surface.                 *)
SurfacesAreApart ==
  bound.wait = 0 /\ TaskAt("encode") /\ worker.st = "decode"
    => worker.job.surface # task.ready
===============================================================================
