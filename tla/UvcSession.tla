----------------------------- MODULE UvcSession -----------------------------
(***************************************************************************)
(* The UVC capture of drivers/video_input.c.                               *)
(*                                                                         *)
(* The ownership of its frame buffers: the driver callback that retains a  *)
(* frame, the ingest task, the one-slot queue and the single lease of the  *)
(* H.264 path, the recovery of failed returns, and the switch between the  *)
(* MJPEG and the H.264 output.  A buffer is free (the driver's) or held by *)
(* one item of the application; buffers are alike, so an item carries no   *)
(* number.  The stream object's address may be reused by the next one, so  *)
(* it carries no handle either.  The epochs wrap at EpochMod (2^32 in the  *)
(* code).  What is published is the frame store's (FrameStore), and so is  *)
(* the clear at a switch, a snapshot and the end of a generation.          *)
(*                                                                         *)
(* The supervisor task, which alone opens, starts, stops and closes the    *)
(* stream, the capture card (unplugged, replugged, power-cycled) and the   *)
(* application that selects the mode.                                      *)
(* The procedures of the supervisor that wait (stop_uvc_stream,            *)
(* close_uvc_stream, close_disconnected_uvc_stream) are a sequence of      *)
(* steps sup.pc = "inval", "flush", "halt", "drain", "close" that ends at  *)
(* the label sup.next with a result sup.ok.  USB addresses are reused.     *)
(***************************************************************************)
EXTENDS Integers, Sequences, FiniteSets

-----------------------------------------------------------------------------
(* The frames *)

CONSTANTS
  N,             \* SI_CFG_VIDEO_FRAME_BUFFERS, at least 3
  Formats,       \* negotiated stream formats
  Senders,       \* HTTP tasks that send MJPEG
  EpochMod,      \* the width of the epochs
  H264Enabled,   \* SI_CFG_VIDEO_H264_ENABLED
  Pollers,       \* HTTP tasks that ask for a snapshot
  MaxFaults      \* bound: failed returns, driver calls and corrupt frames

VARIABLES
  uvc,      \* the stream: handle, alive device, URBs running, accept, epoch
  sig,      \* the supervisor's signals: fault, device gone, notified
  openFmt,  \* the format negotiated into the stream object
  ret,      \* s_uvc_retention_state: the cap bit and the count
  cb,       \* a callback is between its check and its reservation
  inq,      \* s_uvc_frame_queue
  ing,      \* the ingest task
  hq,       \* s_h264_frame_queue, at most one item
  hep,      \* s_h264_frame_epoch
  lease,    \* s_h264_borrowed
  retq,     \* s_uvc_return_queue
  tr,       \* the output switch: active, frame lock, gate, the switcher's pc
  snap,     \* snapshot generations, and who waits for one
  faults    \* faults so far

shared == <<uvc, sig, openFmt, faults>>

NoItem == [epoch |-> 0]
Idle == [pc |-> "idle", item |-> NoItem, route |-> FALSE]

(* advance_h264_frame_epoch_locked: zero is skipped.                       *)
NextEpoch(e) == (e % (EpochMod - 1)) + 1

HeldCount ==
  Len(inq) + Len(hq) + Len(retq) + (IF ing.item = NoItem THEN 0 ELSE 1)
  + (IF lease = NoItem THEN 0 ELSE 1)
HasFree == HeldCount < N

FramesInit ==
  /\ ret = [cap |-> FALSE, count |-> 0]
  /\ cb = FALSE /\ inq = <<>> /\ ing = Idle /\ hq = <<>> /\ hep = 1
  /\ lease = NoItem /\ retq = <<>>
  /\ tr = [active |-> FALSE, lock |-> FALSE, gate |-> "free", pc |-> "idle"]
  /\ snap = [req |-> 1, done |-> 1, ask |-> [p \in Pollers |-> FALSE]]

Fault == faults < MaxFaults /\ faults' = faults + 1
NoFault == UNCHANGED faults

(* Mutant: a failed return is taken for done.                              *)
ReleaseAnyway(item) ==
  /\ ret' = [ret EXCEPT !.count = @ - 1]
  /\ Fault \/ NoFault
  /\ IF faults' # faults THEN retq' = Append(retq, item)
     ELSE UNCHANGED retq

(* return_retained_uvc_frame: the driver takes the buffer back, or the     *)
(* recovery worker gets it and the retention stays.                        *)
GiveBack(item) ==
  \/ ret' = [ret EXCEPT !.count = @ - 1] /\ UNCHANGED retq /\ NoFault
  \/ Fault /\ retq' = Append(retq, item) /\ UNCHANGED ret

GiveBackAll(queue) ==
  IF queue = <<>> THEN UNCHANGED <<ret, retq, faults>>
  ELSE GiveBack(Head(queue))

(* uvc_return_task: a success ends the lease, a failure goes to the tail.  *)
ReturnTask ==
  /\ retq # <<>>
  /\ \/ retq' = Tail(retq) /\ ret' = [ret EXCEPT !.count = @ - 1] /\ NoFault
     \/ Fault /\ retq' = Append(Tail(retq), Head(retq)) /\ UNCHANGED ret
  /\ UNCHANGED <<uvc, openFmt, cb, inq, ing, hq, hep, lease, tr, snap>>
  /\ sig' = [sig EXCEPT !.notified = @ \/ ret'.count < ret.count]

(***************************************************************************)
(* The driver callback                                                     *)
(***************************************************************************)

(* uvc_frame_cb, up to its load of the accept flag and the handle.         *)
CallbackEnter ==
  /\ uvc.run /\ uvc.alive /\ ~cb /\ HasFree
  /\ uvc.accept /\ uvc.handle
  /\ cb' = TRUE
  /\ UNCHANGED <<inq, ing, hq, hep, lease, retq, ret, tr, snap>>
  /\ UNCHANGED shared

(* try_reserve_uvc_frame: under the cap one buffer stays with the driver.  *)
MayReserve == ~(ret.cap /\ ret.count >= N - 1)

(* The rest of uvc_frame_cb: reserve and queue the frame with the epoch as *)
(* it is now, or hand the buffer straight back.                            *)
CallbackAdmit ==
  /\ cb
  /\ IF MayReserve /\ Len(inq) < N
     THEN /\ ret' = [ret EXCEPT !.count = @ + 1]
          /\ inq' = Append(inq, [epoch |-> uvc.epoch, fmt |-> openFmt, hep |-> 0])
     ELSE UNCHANGED <<ret, inq>>
  /\ cb' = FALSE
  /\ UNCHANGED <<ing, hq, hep, lease, retq, tr, snap>>
  /\ UNCHANGED shared

(***************************************************************************)
(* The ingest task                                                         *)
(***************************************************************************)

(* The frame is of the stream and the generation that are running.         *)
Current(item) == uvc.accept /\ uvc.handle /\ item.epoch = uvc.epoch

(* The head of uvc_ingest_task's loop.                                     *)
IngestTake ==
  /\ inq # <<>> /\ ing = Idle
  /\ inq' = Tail(inq)
  /\ IF Current(Head(inq))
     THEN /\ ing' = [pc |-> "publish", item |-> Head(inq),
                     route |-> tr.active]
          /\ UNCHANGED <<ret, retq, faults>>
     ELSE GiveBack(Head(inq)) /\ UNCHANGED ing
  /\ UNCHANGED <<uvc, sig, openFmt, cb, hq, hep, lease, tr, snap>>

(* The frame is not wanted now (capture off, stride, decimation), is not   *)
(* baseline JPEG, or the store has no room for it.                         *)
IngestSkip ==
  /\ ing.pc = "publish"
  /\ ing' = Idle /\ GiveBack(ing.item)
  /\ UNCHANGED <<uvc, sig, openFmt, cb, inq, hq, hep, lease, tr, snap>>

(* Too many invalid JPEGs in a row: the transport is declared faulty.      *)
IngestInvalid ==
  /\ ing.pc = "publish" /\ Fault
  /\ ing' = Idle
  /\ ret' = [ret EXCEPT !.count = @ - 1] /\ UNCHANGED retq
  /\ sig' = [sig EXCEPT !.fault = TRUE, !.notified = TRUE]
  /\ UNCHANGED <<uvc, openFmt, cb, inq, hq, hep, lease, tr, snap>>

(* The MJPEG route copies into the frame store; the H.264 route does so    *)
(* only for a snapshot that waits, and goes on with the same frame.        *)
IngestPublish ==
  /\ ing.pc = "publish"
  /\ IF ing.route
     THEN /\ ing' = [ing EXCEPT !.pc = "handoff"]
          /\ \/ /\ snap.req # snap.done
                /\ snap' = [snap EXCEPT !.done = snap.req]
             \/ UNCHANGED snap
          /\ UNCHANGED <<ret, retq, faults>>
     ELSE /\ ing' = Idle /\ GiveBack(ing.item)
          /\ UNCHANGED snap
  /\ UNCHANGED <<uvc, sig, openFmt, cb, inq, hq, hep, lease, tr>>

(* handoff_h264_uvc_frame checks everything again under the lock.          *)
HandoffOk ==
  ~tr.lock /\ tr.active /\ Current(ing.item) /\ hq = <<>>

IngestHandoff ==
  /\ ing.pc = "handoff"
  /\ ing' = Idle
  /\ IF HandoffOk
     THEN /\ hq' = <<[ing.item EXCEPT !.hep = hep]>>
          /\ UNCHANGED <<ret, retq, faults>>
     ELSE GiveBack(ing.item) /\ UNCHANGED hq
  /\ UNCHANGED <<uvc, sig, openFmt, cb, inq, hep, lease, tr, snap>>

(***************************************************************************)
(* The H.264 consumer                                                      *)
(***************************************************************************)

(* si_video_borrow_h264_jpeg_if_new: one lease; a stale item goes back.    *)
Borrow ==
  /\ ~tr.lock /\ tr.active /\ lease = NoItem /\ hq # <<>>
  /\ hq' = <<>>
  /\ IF Head(hq).hep = hep /\ Head(hq).epoch = uvc.epoch /\ uvc.handle
     THEN lease' = Head(hq) /\ UNCHANGED <<ret, retq, faults>>
     ELSE GiveBack(Head(hq)) /\ UNCHANGED lease
  /\ UNCHANGED <<uvc, sig, openFmt, cb, inq, ing, hep, tr, snap>>

(* si_video_release_h264_jpeg waits for the lock as long as it takes.      *)
ReleaseLease ==
  /\ lease # NoItem /\ ~tr.lock
  /\ lease' = NoItem /\ GiveBack(lease)
  /\ UNCHANGED <<uvc, sig, openFmt, cb, inq, ing, hq, hep, tr, snap>>

(* invalidate_h264_frame_queue: advance the epoch, return what is queued.  *)
DropQueued ==
  /\ ~tr.lock
  /\ hep' = NextEpoch(hep) /\ hq' = <<>> /\ GiveBackAll(hq)

(* si_video_flush_h264_jpeg.                                               *)
FlushQueue ==
  /\ hq # <<>> /\ DropQueued
  /\ UNCHANGED <<uvc, sig, openFmt, cb, inq, ing, lease, tr, snap>>

(***************************************************************************)
(* The output switch: si_video_set_h264_transport_active, one at a time    *)
(***************************************************************************)
ActivateGate ==
  /\ H264Enabled /\ tr.pc = "idle" /\ ~tr.active
  /\ tr.gate = "free"
  /\ tr' = [tr EXCEPT !.gate = "h264", !.pc = "lock"]
  /\ UNCHANGED <<cb, inq, ing, hq, hep, lease, retq, ret, snap>>
  /\ UNCHANGED shared

ActivateLock ==
  /\ tr.pc = "lock" /\ ~tr.lock
  /\ tr' = [tr EXCEPT !.lock = TRUE, !.pc = "cap"]
  /\ UNCHANGED <<cb, inq, ing, hq, hep, lease, retq, ret, snap>>
  /\ UNCHANGED shared

(* try_enable_uvc_retention_cap: only when a buffer is left to the driver. *)
MayCap == tr.pc = "cap" /\ ret.count <= N - 1

ActivateCap ==
  /\ MayCap
  /\ ret' = [ret EXCEPT !.cap = TRUE]
  /\ tr' = [tr EXCEPT !.pc = "activate"]
  /\ UNCHANGED <<cb, inq, ing, hq, hep, lease, retq, snap>>
  /\ UNCHANGED shared

(* The cap's deadline passed: everything taken is given back.              *)
ActivateTimesOut ==
  /\ tr.pc = "cap" /\ ret.count > N - 1
  /\ tr' = [tr EXCEPT !.lock = FALSE, !.gate = "free", !.pc = "idle"]
  /\ UNCHANGED <<cb, inq, ing, hq, hep, lease, retq, ret, snap>>
  /\ UNCHANGED shared

Activate ==
  /\ tr.pc = "activate"
  /\ hep' = NextEpoch(hep) /\ hq' = <<>> /\ GiveBackAll(hq)
  /\ tr' = [tr EXCEPT !.active = TRUE, !.lock = FALSE, !.pc = "idle"]
  /\ UNCHANGED <<uvc, sig, openFmt, cb, inq, ing, lease, snap>>

Deactivate ==
  /\ tr.pc = "idle" /\ ~tr.lock /\ tr.active
  /\ hep' = NextEpoch(hep) /\ hq' = <<>>
  /\ IF hq = <<>>
     THEN ret' = [ret EXCEPT !.cap = FALSE] /\ UNCHANGED <<retq, faults>>
     ELSE \/ /\ ret' = [cap |-> FALSE, count |-> ret.count - 1]
             /\ UNCHANGED retq /\ NoFault
          \/ /\ Fault /\ retq' = Append(retq, Head(hq))
             /\ ret' = [ret EXCEPT !.cap = FALSE]
  /\ tr' = [tr EXCEPT !.active = FALSE, !.gate = "free"]
  /\ UNCHANGED <<uvc, sig, openFmt, cb, inq, ing, lease, snap>>

(* si_video_begin_mjpeg_send and si_video_end_mjpeg_send.                  *)
BeginSend(s) ==
  /\ tr.gate = "free" /\ ~tr.active
  /\ tr' = [tr EXCEPT !.gate = s]
  /\ UNCHANGED <<cb, inq, ing, hq, hep, lease, retq, ret, snap>>
  /\ UNCHANGED shared

EndSend(s) ==
  /\ tr.gate = s
  /\ tr' = [tr EXCEPT !.gate = "free"]
  /\ UNCHANGED <<cb, inq, ing, hq, hep, lease, retq, ret, snap>>
  /\ UNCHANGED shared

(* si_video_request_jpeg_snapshot: forget what is stored and, under H.264, *)
(* ask the ingest task for one copy.                                       *)
SnapshotRequest(p) ==
  /\ ~snap.ask[p]
  /\ snap' = [snap EXCEPT !.ask[p] = TRUE,
                !.req = IF tr.active THEN NextEpoch(@) ELSE @]
  /\ UNCHANGED <<cb, inq, ing, hq, hep, lease, retq, ret, tr>>
  /\ UNCHANGED shared

(* The snapshot handler's poll: a frame ends it, and so does its deadline. *)
SnapshotRead(p) ==
  /\ snap.ask[p]
  /\ snap' = [snap EXCEPT !.ask[p] = FALSE]
  /\ UNCHANGED <<cb, inq, ing, hq, hep, lease, retq, ret, tr>>
  /\ UNCHANGED shared

IngestNext ==
  IngestTake \/ IngestSkip \/ IngestInvalid \/ IngestPublish \/ IngestHandoff
SwitchNext ==
  \/ ActivateGate \/ ActivateLock \/ ActivateCap \/ ActivateTimesOut
  \/ Activate \/ Deactivate
FramesNext ==
  \/ CallbackEnter \/ CallbackAdmit \/ ReturnTask \/ IngestNext
  \/ Borrow \/ ReleaseLease \/ FlushQueue
  \/ SwitchNext
  \/ \E s \in Senders : BeginSend(s) \/ EndSend(s)
  \/ \E p \in Pollers : SnapshotRequest(p) \/ SnapshotRead(p)

(***************************************************************************)
(* Properties                                                              *)
(***************************************************************************)

(* The retention word counts exactly the frames the application has taken  *)
(* from the driver and not given back: the drain before a stop or a close  *)
(* relies on it (wait_for_ingest_drain).                                   *)
RetentionIsExact == ret.count = HeldCount

(* Under H.264 one buffer always stays with the driver, from the moment    *)
(* the cap is set and also for a callback that is already under way        *)
(* (try_reserve_uvc_frame's linearization).                                *)
DriverKeepsBuffer == ret.cap => ret.count <= N - 1

(* MJPEG is not sent while the H.264 output is active.                     *)
OutputsExclude == tr.active => tr.gate = "h264"

(* A frame that reaches the encoder has the format that is negotiated when *)
(* it is borrowed, although the mode may have been changed and the stream  *)
(* restarted since it was captured.                                        *)
LeaseIsCurrent ==
  lease = NoItem /\ lease' # NoItem =>
    lease'.fmt = openFmt /\ lease'.epoch = uvc.epoch

-----------------------------------------------------------------------------
(* The supervisor, the card and the application *)

CONSTANTS
  MaxOps,        \* bound: requests of the application
  MaxUnplugs,    \* bound: the card is taken out
  MaxLost,       \* bound: connect events that meet a busy state lock
  StopLimit,     \* SI_UVC_STOP_FAILURES_BEFORE_REPLUG
  MissingLoops   \* supervisor loops in the recovery delay

VARIABLES
  sess,      \* si_uvc_session_state_t
  sup,       \* the supervisor task
  app,       \* what the application asked for, and the known modes
  opened,    \* s_uvc_open_selection and s_uvc_open_quality
  closing,   \* s_uvc_close_pending, s_uvc_device_gone_active
  recover,   \* stop failures, no-frame reopens, missing loops, root port off
  usb,       \* the card: attached, enumerated address, connect event pending
  budget     \* requests, unplugs and lost events so far; mistaken: a disconnect
             \* of an earlier handle was consumed for a stream that is alive

sessVars == <<sess, sup, app, opened, closing, recover, usb, budget>>
vars == <<uvc, sig, openFmt, ret, cb, inq, ing, hq, hep, lease, retq, tr,
          snap, faults, sess, sup, app, opened, closing, recover,
          usb, budget>>

NoSel == [dev |-> 0, fmt |-> CHOOSE f \in Formats : TRUE]
NoOpen == [dev |-> 0, q |-> 0]
Recover0 == [stops |-> 0, empty |-> 0, missing |-> 0, rootOff |-> FALSE]

(* si_video_init: tasks started, no card enumerated, capture off.          *)
SessInit ==
  /\ FramesInit /\ faults = 0
  /\ uvc = [handle |-> FALSE, alive |-> FALSE, run |-> FALSE,
            accept |-> FALSE, epoch |-> 1]
  /\ sig = [fault |-> FALSE, gone |-> FALSE, notified |-> FALSE]
  /\ openFmt = NoSel.fmt
  /\ sess = "closed"
  /\ sup = [pc |-> "top", proc |-> "none", next |-> "top", ok |-> TRUE,
            sel |-> NoSel, q |-> 1, capture |-> FALSE]
  /\ app = [capture |-> FALSE, sel |-> NoSel, target |-> NoSel.fmt,
            modes |-> 0, q |-> 1]
  /\ opened = NoOpen
  /\ closing = [pending |-> FALSE, gone |-> FALSE]
  /\ recover = Recover0
  /\ usb = [attached |-> TRUE, addr |-> 1, connect |-> TRUE]
  /\ budget = [ops |-> 0, unplugs |-> 0, lost |-> 0, mistaken |-> FALSE]

Wake == sig' = [sig EXCEPT !.notified = TRUE]
Goto(pc) == sup' = [sup EXCEPT !.pc = pc]
Call(proc, next) ==
  sup' = [sup EXCEPT !.pc = "inval", !.proc = proc, !.next = next]
Return(ok) == sup' = [sup EXCEPT !.pc = sup.next, !.ok = ok]
framesKept == <<cb, inq, ing, hq, hep, lease, retq, ret, tr, snap>>

(***************************************************************************)
(* The capture card (external) and its events                              *)
(***************************************************************************)
NewAddr == IF usb.addr = 1 THEN 2 ELSE 1
Disconnected ==
  /\ uvc' = [uvc EXCEPT !.alive = FALSE, !.run = FALSE]
  /\ sig' = IF uvc.handle /\ uvc.alive
            THEN [fault |-> TRUE, gone |-> TRUE, notified |-> TRUE] ELSE sig

(* The card is taken out; uvc_stream_event_cb reports it for an open       *)
(* stream, on the task the frame callbacks run on.                         *)
Unplug ==
  /\ usb.attached /\ budget.unplugs < MaxUnplugs /\ ~cb
  /\ budget' = [budget EXCEPT !.unplugs = @ + 1]
  /\ usb' = [attached |-> FALSE, addr |-> 0, connect |-> FALSE]
  /\ Disconnected
  /\ UNCHANGED <<openFmt, faults, sess, sup, app, opened, closing, recover>>
  /\ UNCHANGED framesKept

(* The card is put back; its enumeration may fail.                         *)
Plug ==
  /\ ~usb.attached
  /\ \/ usb' = [attached |-> TRUE, addr |-> NewAddr, connect |-> TRUE] /\ NoFault
     \/ usb' = [attached |-> TRUE, addr |-> 0, connect |-> FALSE] /\ Fault
  /\ UNCHANGED <<uvc, sig, openFmt, sess, sup, app, opened, closing, recover,
                 budget>>
  /\ UNCHANGED framesKept

(* UVC_HOST_TRANSFER_ERROR in uvc_stream_event_cb.                         *)
TransferError ==
  /\ uvc.handle /\ uvc.alive /\ ~cb /\ Fault
  /\ sig' = [sig EXCEPT !.fault = TRUE, !.notified = TRUE]
  /\ UNCHANGED <<uvc, openFmt, sess, sup, app, opened, closing, recover, usb,
                 budget>>
  /\ UNCHANGED framesKept

(* select_stored_mode_locked, for an advertised mode.                      *)
Select(dev, fmt) == [dev |-> dev, fmt |-> fmt]

(* uvc_driver_event_cb: store the modes and select the configured one.     *)
ConnectEvent ==
  /\ usb.connect /\ ~cb
  /\ usb' = [usb EXCEPT !.connect = FALSE]
  /\ app' = [app EXCEPT !.modes = usb.addr, !.sel = Select(usb.addr, app.target)]
  /\ Wake
  /\ UNCHANGED <<uvc, openFmt, faults, sess, sup, opened, closing, recover,
                 budget>>
  /\ UNCHANGED framesKept

(* The same callback when the state lock is busy for 100 ms.               *)
ConnectLost ==
  /\ usb.connect /\ ~cb /\ budget.lost < MaxLost
  /\ usb' = [usb EXCEPT !.connect = FALSE]
  /\ budget' = [budget EXCEPT !.lost = @ + 1]
  /\ UNCHANGED <<uvc, sig, openFmt, faults, sess, sup, app, opened, closing,
                 recover>>
  /\ UNCHANGED framesKept

(***************************************************************************)
(* The application                                                         *)
(***************************************************************************)

(* si_video_set_capture(true, ...): an unknown camera only notes the       *)
(* request, a known one selects the mode and wakes the supervisor.         *)
SetCapture(fmt) ==
  LET sel == IF app.modes = 0 THEN NoSel ELSE Select(app.modes, fmt)
      changed == ~app.capture \/ sel # app.sel
  IN /\ budget.ops < MaxOps
     /\ budget' = [budget EXCEPT !.ops = @ + 1]
     /\ app' = [app EXCEPT !.capture = TRUE, !.target = fmt, !.sel = sel]
     /\ IF app.modes # 0 /\ changed THEN Wake ELSE UNCHANGED sig
     /\ UNCHANGED <<uvc, openFmt, faults, sess, sup, opened, closing, recover,
                    usb>>
     /\ UNCHANGED framesKept

(* si_video_set_capture(false, ...).                                       *)
StopCapture ==
  /\ budget.ops < MaxOps
  /\ budget' = [budget EXCEPT !.ops = @ + 1]
  /\ app' = [app EXCEPT !.capture = FALSE, !.sel = NoSel]
  /\ IF app.capture THEN Wake ELSE UNCHANGED sig
  /\ UNCHANGED <<uvc, openFmt, faults, sess, sup, opened, closing, recover, usb>>
  /\ UNCHANGED framesKept

(* si_video_set_quality: a new quality needs a reopened stream.            *)
SetQuality ==
  /\ budget.ops < MaxOps
  /\ budget' = [budget EXCEPT !.ops = @ + 1]
  /\ app' = [app EXCEPT !.q = 3 - @]
  /\ Wake
  /\ UNCHANGED <<uvc, openFmt, faults, sess, sup, opened, closing, recover, usb>>
  /\ UNCHANGED framesKept

(***************************************************************************)
(* Stop and close, step by step                                            *)
(***************************************************************************)
Refused == sup.proc = "closeStopped" /\ sess \in {"started", "draining", "faulted"}

(* The head of every procedure: without a handle there is nothing to do; a *)
(* close of a running stream is refused; else the generation ends.         *)
Invalidate ==
  /\ sup.pc = "inval"
  /\ IF ~uvc.handle /\ sup.proc # "open"
     THEN /\ sess' = "closed" /\ opened' = NoOpen /\ Return(TRUE)
          /\ UNCHANGED uvc
     ELSE IF Refused
     THEN Return(FALSE) /\ UNCHANGED <<sess, opened, uvc>>
     ELSE /\ uvc' = [uvc EXCEPT !.accept = FALSE, !.epoch = NextEpoch(@)]
          /\ sess' = IF sup.proc = "gone" THEN "draining" ELSE sess
          /\ Goto("flush")
          /\ UNCHANGED opened
  /\ UNCHANGED <<sig, openFmt, faults, app, closing, recover, usb, budget>>
  /\ UNCHANGED framesKept

(* The rest of invalidate_stream_generation, and where to go on.           *)
AfterFlush ==
  IF sup.proc = "open" THEN "open"
  ELSE IF sup.proc = "gone" THEN "drain"
  ELSE IF sup.proc = "closeStopped" THEN "close"
  ELSE IF sess \in {"started", "faulted"} THEN "halt"
  ELSE IF sess = "stopped" THEN (IF sup.proc = "stop" THEN sup.next ELSE "close")
  ELSE "drain"

Flush ==
  /\ sup.pc = "flush" /\ DropQueued
  /\ sup' = [sup EXCEPT !.pc = AfterFlush, !.ok = TRUE]
  /\ UNCHANGED <<uvc, sig, openFmt, cb, inq, ing, lease, tr, snap, sess,
                 app, opened, closing, recover, usb, budget>>

(* uvc_host_stream_stop: it ends after the callback that is under way, and *)
(* fails for a device that is not there.                                   *)
Halt ==
  /\ sup.pc = "halt"
  /\ \/ /\ uvc.alive /\ ~cb
        /\ uvc' = [uvc EXCEPT !.run = FALSE]
        /\ sess' = "draining" /\ Goto("drain") /\ NoFault /\ UNCHANGED recover
     \/ /\ IF uvc.alive THEN Fault ELSE NoFault
        /\ sess' = "faulted" /\ Return(FALSE) /\ UNCHANGED uvc
        /\ recover' = [recover EXCEPT !.stops =
             IF @ < StopLimit THEN @ + 1 ELSE @]
  /\ UNCHANGED <<sig, openFmt, app, opened, closing, usb, budget>>
  /\ UNCHANGED framesKept

(* wait_for_ingest_drain after a stop: all frames are back, or its         *)
(* deadline passes and the procedure fails.                                *)
Drain ==
  /\ sup.pc = "drain"
  /\ IF ret.count = 0
     THEN /\ sess' = "stopped"
          /\ recover' = IF sup.proc = "gone" THEN recover
                        ELSE [recover EXCEPT !.stops = 0]
          /\ IF sup.proc = "gone" THEN Call("closeStopped", sup.next)
             ELSE IF sup.proc = "close" THEN Goto("close") ELSE Return(TRUE)
     ELSE /\ sess' = "draining" /\ Return(FALSE)
          /\ recover' = [recover EXCEPT !.stops =
               IF @ < StopLimit THEN @ + 1 ELSE @]
  /\ UNCHANGED <<uvc, sig, openFmt, faults, app, opened, closing, usb, budget>>
  /\ UNCHANGED framesKept

(* The end of close_uvc_stream: drain once more, then close the handle.    *)
CloseHandle ==
  /\ sup.pc = "close"
  /\ \/ /\ ret.count = 0
        /\ uvc' = [uvc EXCEPT !.handle = FALSE, !.alive = FALSE, !.run = FALSE]
        /\ sess' = "closed" /\ opened' = NoOpen
        /\ recover' = [recover EXCEPT !.stops = 0]
        /\ closing' = [closing EXCEPT !.pending = FALSE]
        /\ Return(TRUE) /\ NoFault
     \/ /\ IF ret.count = 0 THEN Fault ELSE NoFault
        /\ Return(FALSE)
        /\ UNCHANGED <<uvc, sess, opened, recover, closing>>
  /\ UNCHANGED <<sig, openFmt, app, usb, budget>>
  /\ UNCHANGED framesKept

ProcNext == Invalidate \/ Flush \/ Halt \/ Drain \/ CloseHandle

(***************************************************************************)
(* Recovery                                                                *)
(***************************************************************************)

(* si_ms2109_power_cycle: the card goes and comes back with a new address. *)
Replugged == [usb EXCEPT !.addr = NewAddr, !.connect = TRUE]

(* power_cycle_uvc_root_port, without a handle: a port that does not come  *)
(* back stays off until ensure_uvc_root_port_powered.                      *)
PowerCycle ==
  IF uvc.handle THEN UNCHANGED <<usb, recover, faults>>
  ELSE \/ /\ usb' = IF usb.attached THEN Replugged ELSE usb
          /\ recover' = [recover EXCEPT !.missing = 0] /\ NoFault
       \/ /\ usb.addr # 0 /\ Fault
          /\ usb' = [usb EXCEPT !.addr = 0, !.connect = FALSE]
          /\ recover' = [recover EXCEPT !.missing = 0, !.rootOff = TRUE]

RestoreRoot ==
  /\ sup.pc = "top" /\ recover.rootOff
  /\ recover' = [recover EXCEPT !.rootOff = FALSE]
  /\ usb' = IF usb.attached THEN Replugged ELSE usb
  /\ UNCHANGED <<uvc, sig, openFmt, faults, sess, sup, app, opened, closing,
                 budget>>
  /\ UNCHANGED framesKept

(***************************************************************************)
(* The supervisor's loop                                                   *)
(***************************************************************************)
AtTop == sup.pc = "top" /\ ~recover.rootOff

(* consume_uvc_device_gone: forget the camera and its modes, close.        *)
ConsumeGone ==
  /\ AtTop /\ sig.gone
  /\ sig' = [sig EXCEPT !.gone = FALSE]
  /\ app' = [app EXCEPT !.sel = NoSel, !.modes = 0]
  /\ closing' = [pending |-> TRUE, gone |-> TRUE]
  /\ budget' = [budget EXCEPT !.mistaken = @ \/ uvc.alive]
  /\ Call("gone", "closed")
  /\ UNCHANGED <<uvc, openFmt, faults, sess, opened, recover, usb>>
  /\ UNCHANGED framesKept

RetryClose ==
  /\ AtTop /\ ~sig.gone /\ closing.pending
  /\ Call(IF closing.gone THEN "gone" ELSE "close", "closed")
  /\ UNCHANGED <<uvc, sig, openFmt, faults, sess, app, opened, closing, recover,
                 usb, budget>>
  /\ UNCHANGED framesKept

(* The result of the pending close; stops that keep failing replug the     *)
(* card, which ends the stream with a disconnect.                          *)
CloseTried ==
  /\ sup.pc = "closed" /\ Goto("top")
  /\ IF sup.ok
     THEN /\ closing' = [pending |-> FALSE, gone |-> FALSE]
          /\ UNCHANGED <<usb, recover, uvc, sig>>
     ELSE /\ UNCHANGED closing
          /\ IF sess = "faulted" /\ recover.stops >= StopLimit /\ ~cb
             THEN /\ recover' = [recover EXCEPT !.stops = 0]
                  /\ usb' = IF usb.attached THEN Replugged ELSE usb
                  /\ Disconnected
             ELSE UNCHANGED <<usb, recover, uvc, sig>>
  /\ UNCHANGED <<openFmt, faults, sess, app, opened, budget>>
  /\ UNCHANGED framesKept

TakeFault ==
  /\ AtTop /\ ~sig.gone /\ ~closing.pending /\ sig.fault
  /\ sig' = [sig EXCEPT !.fault = FALSE]
  /\ closing' = [closing EXCEPT !.pending = TRUE]
  /\ UNCHANGED <<uvc, openFmt, faults, sess, sup, app, opened, recover, usb,
                 budget>>
  /\ UNCHANGED framesKept

(* get_uvc_selection and the choice of what to do with the stream.         *)
TakeSelection ==
  LET seen == [sup EXCEPT !.sel = app.sel, !.q = app.q,
                          !.capture = app.capture, !.ok = TRUE]
      call(proc, next) == [seen EXCEPT !.pc = "inval", !.proc = proc,
                                       !.next = next]
  IN /\ AtTop /\ ~sig.gone /\ ~closing.pending /\ ~sig.fault
     /\ sup' = IF app.sel.dev = 0
               THEN IF sess \in {"stopped", "closed"}
                    THEN [seen EXCEPT !.pc = "unselected"]
                    ELSE call("stop", "unselected")
               ELSE IF ~uvc.handle THEN call("open", "open")
               ELSE IF opened # [dev |-> app.sel.dev, q |-> app.q]
                    THEN call("close", "reopen")
               ELSE IF openFmt # app.sel.fmt THEN call("stop", "format")
               ELSE [seen EXCEPT !.pc = "ready"]
     /\ UNCHANGED <<uvc, sig, openFmt, faults, sess, app, opened, closing,
                    recover, usb, budget>>
     /\ UNCHANGED framesKept

(* Mutant: a camera that stays away is not looked for.                     *)
UnselectedWaits ==
  /\ sup.pc = "unselected" /\ Goto("top")
  /\ sig' = [sig EXCEPT !.notified = FALSE]
  /\ UNCHANGED <<uvc, openFmt, faults, sess, app, opened, closing, recover, usb,
                 budget>>
  /\ UNCHANGED framesKept

(* No camera is selected: wait, and after the recovery delay replug it.    *)
Unselected ==
  LET missing == app.capture /\ app.modes = 0
  IN /\ sup.pc = "unselected" /\ Goto("top")
     /\ sig' = IF sup.ok THEN [sig EXCEPT !.notified = FALSE] ELSE sig
     /\ IF sup.ok /\ missing /\ recover.missing >= MissingLoops THEN PowerCycle
        ELSE /\ recover' = [recover EXCEPT !.missing =
                  IF ~sup.ok \/ @ >= MissingLoops THEN @
                  ELSE IF missing THEN @ + 1 ELSE 0]
             /\ UNCHANGED <<usb, faults>>
     /\ UNCHANGED <<uvc, openFmt, sess, app, opened, closing, budget>>
     /\ UNCHANGED framesKept

Reopen ==
  /\ sup.pc = "reopen"
  /\ IF sup.ok THEN Call("open", "open") /\ UNCHANGED closing
     ELSE Goto("top") /\ closing' = [closing EXCEPT !.pending = TRUE]
  /\ UNCHANGED <<uvc, sig, openFmt, faults, sess, app, opened, recover, usb,
                 budget>>
  /\ UNCHANGED framesKept

(* uvc_host_stream_open succeeds for the address that is enumerated now.   *)
OpenStream ==
  /\ sup.pc = "open" /\ usb.addr = sup.sel.dev
  /\ uvc' = [uvc EXCEPT !.handle = TRUE, !.alive = TRUE, !.run = FALSE]
  /\ sess' = "stopped"
  /\ opened' = [dev |-> sup.sel.dev, q |-> sup.q]
  /\ openFmt' = sup.sel.fmt
  /\ recover' = [recover EXCEPT !.missing = 0]
  /\ \/ Goto("ready") /\ NoFault
     \/ Call("closeStopped", "fallback") /\ Fault  \* the frame exceeds the arena
  /\ UNCHANGED <<sig, app, closing, usb, budget>>
  /\ UNCHANGED framesKept

(* The open failed: with no device enumerated the card is replugged after  *)
(* the recovery delay.                                                     *)
OpenFails ==
  /\ sup.pc = "open"
  /\ Goto("top")
  /\ IF usb.addr # sup.sel.dev
     THEN IF usb.addr = 0 /\ recover.missing >= MissingLoops THEN PowerCycle
          ELSE /\ recover' = [recover EXCEPT !.missing =
                    IF usb.addr # 0 THEN 0 ELSE @ + 1]
               /\ UNCHANGED <<usb, faults>>
     ELSE Fault /\ UNCHANGED <<usb, recover>>
  /\ UNCHANGED <<uvc, sig, openFmt, sess, app, opened, closing, budget>>
  /\ UNCHANGED framesKept

(* Another format on the retained stream, once it has stopped.             *)
SelectFormat ==
  /\ sup.pc = "format"
  /\ \/ ~sup.ok /\ Goto("top") /\ NoFault /\ UNCHANGED openFmt
     \/ /\ sup.ok /\ uvc.alive
        /\ openFmt' = sup.sel.fmt /\ Goto("ready") /\ NoFault
     \/ /\ sup.ok /\ UNCHANGED openFmt
        /\ IF uvc.alive THEN Fault ELSE NoFault
        /\ Call("closeStopped", "fallback")
  /\ UNCHANGED <<uvc, sig, sess, app, opened, closing, recover, usb, budget>>
  /\ UNCHANGED framesKept

(* The result of a close the supervisor fell back to.                      *)
Fallback ==
  /\ sup.pc = "fallback" /\ Goto("top")
  /\ closing' = [closing EXCEPT !.pending = ~sup.ok]
  /\ UNCHANGED <<uvc, sig, openFmt, faults, sess, app, opened, recover, usb,
                 budget>>
  /\ UNCHANGED framesKept

(* The stream fits the selection: idle keeps it open and stopped.          *)
Ready ==
  /\ sup.pc = "ready"
  /\ IF ~sup.capture
     THEN IF sess = "stopped" THEN Goto("idle") ELSE Call("stop", "idle")
     ELSE IF sess \in {"draining", "faulted"} THEN Call("stop", "start")
     ELSE sup' = [sup EXCEPT !.pc = "start", !.ok = TRUE]
  /\ UNCHANGED <<uvc, sig, openFmt, faults, sess, app, opened, closing, recover,
                 usb, budget>>
  /\ UNCHANGED framesKept

IdleWait ==
  /\ sup.pc = "idle" /\ Goto("top")
  /\ sig' = IF sup.ok THEN [sig EXCEPT !.notified = FALSE] ELSE sig
  /\ UNCHANGED <<uvc, openFmt, faults, sess, app, opened, closing, recover, usb,
                 budget>>
  /\ UNCHANGED framesKept

(* uvc_host_stream_start; frames are accepted only once it succeeded.      *)
Start ==
  /\ sup.pc = "start"
  /\ \/ /\ ~sup.ok /\ Goto("top") /\ NoFault /\ UNCHANGED <<uvc, sig, sess>>
     \/ /\ sup.ok /\ uvc.alive
        /\ sig' = [sig EXCEPT !.fault = FALSE]
        /\ uvc' = [uvc EXCEPT !.run = TRUE, !.accept = TRUE]
        /\ sess' = "started" /\ Goto("run") /\ NoFault
     \/ /\ sup.ok /\ IF uvc.alive THEN Fault ELSE NoFault
        /\ sig' = [sig EXCEPT !.fault = FALSE]
        /\ Call("closeStopped", "fallback")
        /\ UNCHANGED <<uvc, sess>>
  /\ UNCHANGED <<openFmt, app, opened, closing, recover, usb, budget>>
  /\ UNCHANGED framesKept

(* A notification in the running loop: a fault or a lost device ends it, a *)
(* request that fits the stream does not.                                  *)
RunNotified ==
  /\ sup.pc = "run" /\ sig.notified
  /\ IF sig.fault \/ sig.gone
     THEN /\ sig' = [sig EXCEPT !.fault = FALSE, !.notified = FALSE]
          /\ IF sig.gone
             THEN Goto("top") /\ closing' = [closing EXCEPT !.pending = TRUE]
             ELSE Call("close", "fallback") /\ UNCHANGED closing
     ELSE /\ sig' = [sig EXCEPT !.notified = FALSE]
          /\ IF app.capture /\ app.sel = sup.sel /\ app.q = opened.q
             THEN UNCHANGED sup ELSE Call("stop", "top")
          /\ UNCHANGED closing
  /\ UNCHANGED <<uvc, openFmt, faults, sess, app, opened, recover, usb, budget>>
  /\ UNCHANGED framesKept

(* Five seconds without a callback.                                        *)
NoFrames ==
  /\ sup.pc = "run" /\ ~sig.notified /\ ~cb
  /\ IF uvc.alive THEN Fault ELSE NoFault
  /\ Call("stop", "silent")
  /\ UNCHANGED <<uvc, sig, openFmt, sess, app, opened, closing, recover, usb,
                 budget>>
  /\ UNCHANGED framesKept

(* The second silence in a row closes the stream and cycles the port.      *)
Silent ==
  /\ sup.pc = "silent"
  /\ IF ~sup.ok THEN Goto("top") /\ UNCHANGED recover
     ELSE IF recover.empty = 0
     THEN Goto("top") /\ recover' = [recover EXCEPT !.empty = 1]
     ELSE /\ recover' = [recover EXCEPT !.empty = 0]
          /\ Call("closeStopped", "cycle")
  /\ UNCHANGED <<uvc, sig, openFmt, faults, sess, app, opened, closing, usb,
                 budget>>
  /\ UNCHANGED framesKept

SilentCycle ==
  /\ sup.pc = "cycle" /\ Goto("top")
  /\ closing' = [closing EXCEPT !.pending = ~sup.ok]
  /\ IF sup.ok THEN PowerCycle ELSE UNCHANGED <<usb, recover, faults>>
  /\ UNCHANGED <<uvc, sig, openFmt, sess, app, opened, budget>>
  /\ UNCHANGED framesKept

SupNext ==
  \/ ProcNext \/ RestoreRoot \/ ConsumeGone \/ RetryClose \/ CloseTried
  \/ TakeFault \/ TakeSelection \/ Unselected \/ Reopen \/ OpenStream
  \/ OpenFails \/ SelectFormat \/ Fallback \/ Ready \/ IdleWait \/ Start
  \/ RunNotified \/ NoFrames \/ Silent \/ SilentCycle
AppNext == (\E f \in Formats : SetCapture(f)) \/ StopCapture \/ SetQuality
UsbNext == Unplug \/ Plug \/ TransferError \/ ConnectEvent \/ ConnectLost
FrameStep == FramesNext /\ UNCHANGED sessVars

SessNext == SupNext \/ AppNext \/ UsbNext \/ FrameStep
SessSpec == SessInit /\ [][SessNext]_vars

CallbackStep == CallbackAdmit /\ UNCHANGED sessVars
IngestStep == IngestNext /\ UNCHANGED sessVars
ReturnStep == ReturnTask /\ UNCHANGED sessVars
LeaseStep == ReleaseLease /\ UNCHANGED sessVars
SwitchStep ==
  (ActivateLock \/ ActivateCap \/ ActivateTimesOut \/ Activate) /\ UNCHANGED sessVars

(* The tasks run, the card's events arrive, and a consumer releases its    *)
(* frame; nothing says when a card is put back or a mode is switched.      *)
SessFair ==
  /\ SessSpec
  /\ WF_vars(SupNext) /\ WF_vars(ConnectEvent)
  /\ WF_vars(CallbackStep) /\ WF_vars(IngestStep) /\ WF_vars(ReturnStep)
  /\ WF_vars(LeaseStep) /\ WF_vars(SwitchStep)

(***************************************************************************)
(* Properties                                                              *)
(***************************************************************************)

(* The supervisor's and the frame paths' state have their types.           *)
SessTypeOK ==
  /\ sess \in {"closed", "stopped", "started", "draining", "faulted"}
  /\ app.modes \in 0 .. 2 /\ usb.addr \in 0 .. 2
  /\ ret.count \in 0 .. N /\ Len(hq) <= 1 /\ Len(inq) <= N
  /\ recover.stops \in 0 .. StopLimit
  /\ uvc.epoch \in 1 .. (EpochMod - 1) /\ hep \in 1 .. (EpochMod - 1)

(* The USB transfers run only in a session that was started, and a format  *)
(* is negotiated or a handle closed only with every frame back at the      *)
(* driver, whatever the callback was doing when the stop began, and also   *)
(* after failed returns and unplugged cards - unless a live stream was     *)
(* taken for a disconnected one, which is closed without a stop.           *)
QuietWhenStopped ==
  sess \in {"closed", "stopped"} /\ ~budget.mistaken =>
    ~uvc.run /\ HeldCount = 0 /\ ~cb

(* No stream object is closed while the application holds one of its       *)
(* frames, in whatever queue, task or lease the frame is, with the same    *)
(* exception.                                                              *)
HeldFrameHasStream == HeldCount > 0 /\ ~budget.mistaken => uvc.handle

FramesAccounted ==
  /\ SessTypeOK /\ RetentionIsExact /\ HeldFrameHasStream /\ DriverKeepsBuffer
  /\ OutputsExclude /\ QuietWhenStopped

(* Capture is wanted and the card in its socket: the stream is to run    *)
(* again after unplugs, failed calls, lost returns and changes of mode,  *)
(* also when the disconnect is consumed only after the reconnect had     *)
(* stored the new modes, if no connect event was dropped (MCVideo).      *)
WantsStream == app.capture /\ usb.attached
StreamRuns ==
  /\ sess = "started" /\ uvc.accept /\ uvc.alive /\ openFmt = app.target
  /\ opened.q = app.q
=============================================================================
