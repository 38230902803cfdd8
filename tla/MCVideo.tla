------------------------------- MODULE MCVideo ------------------------------
(***************************************************************************)
(* The video path for TLC: the stored frame and its readers (FrameStore),  *)
(* the UVC session from the card's callbacks to the outputs, once for its  *)
(* frames, once for unplugged cards, once for changes of format and once   *)
(* for the outputs (UvcSession), the capture request and its modes         *)
(* (CaptureControl, VideoModes) and the H.264 stream with two viewers, an  *)
(* agent worker beside one, or a lock that is waited for in vain           *)
(* (H264Stream).                                                           *)
(*                                                                         *)
(* They share no state, so a behaviour is one of one part, chosen in the   *)
(* initial state; the variables of the other parts are Unused, those of    *)
(* the frame store at rest: its invariant is checked in every state as     *)
(* FrameStore states it and FrameStoreProofs proves it.  A name that       *)
(* several components use is one variable here.                            *)
(***************************************************************************)
EXTENDS FrameStore, Sequences

CONSTANTS
  Unused,
  s1, p1,                                                  \* outputs
  KvmSizes, KvmRates, KvmCards, CaptureOps, LockBudget, SaveBudget, Crashes,
  Cards,                                                   \* capture
  CodecModes, CfgMode, Epochs, Workers, Sockets, KvmStreams, FirstStream,
  Overlap, StreamLimits                                    \* h264

VARIABLES
  part,
  uvc, sig, openFmt, ret, cb, inq, ing, hq, hep, lease, retq, tr, snap,
  faults, sess, sup, app, opened, closing, recover, usb, budget,
  want, kvmMode, active, drv, card, holder, h264, saved, good, missed, count,
  modes, sel, asked, page,
  gate, owner, epoch, mem, agent, stream, lock, restore, transport, kvm,
  capture, sock, httpd, work, pipe, worker, sent, bound,
  task   \* each of several parts

\* A frame return or another call fails and the stream is stopped, changed or
\* closed; the card is unplugged too; two formats; an MJPEG sender and a snapshot
\* beside the H.264 output.
Frames == INSTANCE UvcSession WITH
  N <- 3, EpochMod <- 3, H264Enabled <- TRUE, MaxUnplugs <- 0, StopLimit <- 2,
  MissingLoops <- 1, Formats <- {"hd"}, Senders <- {}, Pollers <- {},
  MaxFaults <- 1, MaxOps <- 2, MaxLost <- 0
Unplugs == INSTANCE UvcSession WITH
  N <- 3, EpochMod <- 3, H264Enabled <- FALSE, MaxUnplugs <- 1, StopLimit <- 2,
  MissingLoops <- 1, Formats <- {"hd"}, Senders <- {}, Pollers <- {},
  MaxFaults <- 1, MaxOps <- 2, MaxLost <- 1
UvcFormats == INSTANCE UvcSession WITH
  N <- 3, EpochMod <- 3, H264Enabled <- TRUE, MaxUnplugs <- 0, StopLimit <- 2,
  MissingLoops <- 1, Formats <- {"hd", "sd"}, Senders <- {}, Pollers <- {},
  MaxFaults <- 0, MaxOps <- 2, MaxLost <- 0
Outputs == INSTANCE UvcSession WITH
  N <- 3, EpochMod <- 3, H264Enabled <- TRUE, MaxUnplugs <- 0, StopLimit <- 2,
  MissingLoops <- 1, Formats <- {"hd"}, Senders <- {s1}, Pollers <- {p1},
  MaxFaults <- 1, MaxOps <- 1, MaxLost <- 0

\* A card with all rates of one size, and one with one rate of all sizes.
SomeCards == {{"hd"} \X KvmRates, KvmSizes \X {"r25"}}

CaptureMode == INSTANCE CaptureControl WITH
  Sizes <- KvmSizes, Rates <- KvmRates, CardKinds <- KvmCards, MaxOps <- CaptureOps,
  MaxLockFails <- LockBudget, MaxSaveFails <- SaveBudget, MaxCrashes <- Crashes,
  MaxCards <- Cards
Table == INSTANCE VideoModes WITH
  Resolutions <- {"hd", "sd"},
  Intervals <- {0, 166667, 333333, 334500, 660000},
  Requests <- {0, 1000, 1480}, ListSizes <- {1, 2, 8}, DefaultFps <- 3000,
  MaxInfos <- 2, MaxModes <- 3
\* A viewer who comes back on the same socket, two units each; an agent worker
\* beside the viewers, with a failure; two viewers at a time, with a failure and a
\* lock that is waited for in vain.
SomeLimits ==
  {[session |-> 2, units |-> 2, fault |-> 0, wait |-> 0, kvm |-> 1, fds |-> {5},
    agents |-> FALSE],
   [session |-> 2, units |-> 1, fault |-> 1, wait |-> 0, kvm |-> 1, fds |-> {5},
    agents |-> TRUE],
   [session |-> 2, units |-> 1, fault |-> 1, wait |-> 1, kvm |-> 1, fds |-> {5, 6},
    agents |-> FALSE]}
Stream == INSTANCE H264Stream WITH
  Modes <- CodecModes, MaxEpoch <- Epochs, StreamIds <- KvmStreams,
  Agents <- Workers, Fds <- Sockets, Limits <- StreamLimits

\* Smaller instances, for what has to happen in the end.
StoreLive == INSTANCE FrameStore WITH MaxFrames <- 2, MaxClears <- 1
StreamLive == INSTANCE H264Stream WITH
  Agents <- {}, Modes <- CodecModes, MaxEpoch <- Epochs, Fds <- {5},
  StreamIds <- KvmStreams,
  Limits <- {[session |-> 1, units |-> 1, fault |-> 1, wait |-> 0, kvm |-> 1,
              fds |-> {5}, agents |-> FALSE]}
CaptureLive == INSTANCE CaptureControl WITH
  Sizes <- {"hd", "sd"}, Rates <- {"r25"}, MaxOps <- 3, MaxLockFails <- 0,
  CardKinds <- SUBSET ({"hd", "sd"} \X {"r25"}) \ {{}}, MaxSaveFails <- 0, MaxCrashes <- 0, MaxCards <- 1
UvcLive == INSTANCE UvcSession WITH
  N <- 3, Formats <- {"hd"}, Senders <- {}, Pollers <- {}, EpochMod <- 3,
  H264Enabled <- FALSE, MaxFaults <- 0, MaxOps <- 2, MaxUnplugs <- 1,
  MaxLost <- 0, StopLimit <- 2, MissingLoops <- 1
UvcFaults == INSTANCE UvcSession WITH
  N <- 3, Formats <- {"hd"}, Senders <- {}, Pollers <- {}, EpochMod <- 3,
  H264Enabled <- FALSE, MaxFaults <- 1, MaxOps <- 1, MaxUnplugs <- 1,
  MaxLost <- 0, StopLimit <- 2, MissingLoops <- 1

\* The hypotheses of the theorems hold of the constants here.
ASSUME ProofsApply == StoreBounds /\ CaptureMode!CaptureBounds /\ Stream!StreamBounds

-----------------------------------------------------------------------------
uvcVars == <<uvc, sig, openFmt, ret, cb, inq, ing, hq, hep, lease, retq, tr,
             snap, faults, sess, sup, app, opened, closing, recover,
             usb, budget>>
captureVars == <<want, kvmMode, active, drv, card, holder, h264, saved, good,
                 missed, count>>
tableVars == <<modes, sel, asked, page>>
streamVars == <<gate, owner, epoch, mem, agent, stream, lock, restore,
                transport, kvm, capture, sock, httpd, work, pipe, worker, sent,
                bound>>
vars == <<part, storeVars, uvcVars, captureVars, tableVars, streamVars, task>>

NoUvc ==
  /\ uvc = Unused /\ sig = Unused /\ openFmt = Unused /\ ret = Unused
  /\ cb = Unused /\ inq = Unused /\ ing = Unused /\ hq = Unused /\ hep = Unused
  /\ lease = Unused /\ retq = Unused /\ tr = Unused
  /\ snap = Unused /\ faults = Unused /\ sess = Unused /\ sup = Unused
  /\ app = Unused /\ opened = Unused /\ closing = Unused /\ recover = Unused
  /\ usb = Unused /\ budget = Unused
NoCapture ==
  /\ want = Unused /\ kvmMode = Unused /\ active = Unused /\ drv = Unused
  /\ card = Unused /\ holder = Unused /\ h264 = Unused /\ saved = Unused
  /\ good = Unused /\ missed = Unused /\ count = Unused
NoTable ==
  /\ modes = Unused /\ sel = Unused /\ asked = Unused /\ page = Unused
NoStream ==
  /\ gate = Unused /\ owner = Unused /\ epoch = Unused /\ mem = Unused
  /\ agent = Unused /\ stream = Unused /\ lock = Unused /\ restore = Unused
  /\ transport = Unused /\ kvm = Unused /\ capture = Unused /\ sock = Unused
  /\ httpd = Unused /\ work = Unused /\ pipe = Unused /\ worker = Unused
  /\ sent = Unused /\ bound = Unused

Init ==
  \/ /\ part = "store" /\ StoreInit /\ NoUvc /\ NoCapture /\ NoTable
     /\ NoStream /\ task = Unused
  \/ /\ part = "frames" /\ Frames!SessInit /\ StoreInit /\ NoCapture /\ NoTable
     /\ NoStream /\ task = Unused
  \/ /\ part = "unplugs" /\ Unplugs!SessInit /\ StoreInit /\ NoCapture /\ NoTable
     /\ NoStream /\ task = Unused
  \/ /\ part = "formats" /\ UvcFormats!SessInit /\ StoreInit /\ NoCapture
     /\ NoTable /\ NoStream /\ task = Unused
  \/ /\ part = "outputs" /\ Outputs!SessInit /\ StoreInit /\ NoCapture /\ NoTable
     /\ NoStream /\ task = Unused
  \/ /\ part = "capture" /\ CaptureMode!CaptureInit /\ StoreInit /\ NoUvc
     /\ NoTable /\ NoStream
  \/ /\ part = "modes" /\ Table!ModesInit /\ StoreInit /\ NoUvc /\ NoCapture
     /\ NoStream /\ task = Unused
  \/ /\ part = "h264" /\ Stream!H264Init /\ StoreInit /\ NoUvc /\ NoCapture
     /\ NoTable

Next ==
  \/ /\ part = "store" /\ StoreNext
     /\ UNCHANGED <<part, uvcVars, captureVars, tableVars, streamVars, task>>
  \/ /\ part = "frames" /\ Frames!SessNext
     /\ UNCHANGED <<part, storeVars, captureVars, tableVars, streamVars, task>>
  \/ /\ part = "unplugs" /\ Unplugs!SessNext
     /\ UNCHANGED <<part, storeVars, captureVars, tableVars, streamVars, task>>
  \/ /\ part = "formats" /\ UvcFormats!SessNext
     /\ UNCHANGED <<part, storeVars, captureVars, tableVars, streamVars, task>>
  \/ /\ part = "outputs" /\ Outputs!SessNext
     /\ UNCHANGED <<part, storeVars, captureVars, tableVars, streamVars, task>>
  \/ /\ part = "capture" /\ CaptureMode!CaptureNext
     /\ UNCHANGED <<part, storeVars, uvcVars, tableVars, streamVars>>
  \/ /\ part = "modes" /\ Table!ModesNext
     /\ UNCHANGED <<part, storeVars, uvcVars, captureVars, streamVars, task>>
  \/ /\ part = "h264" /\ Stream!H264Next
     /\ UNCHANGED <<part, storeVars, uvcVars, captureVars, tableVars>>

Spec == Init /\ [][Next]_vars

-----------------------------------------------------------------------------
\* Across failed frame returns and driver calls, unplugged cards, changes of format
\* and switches of output: every retained frame is counted exactly once, under H.264
\* the driver always has a buffer, MJPEG is not sent beside it, a stopped stream
\* holds nothing, and no stream is closed under a frame that is held - unless a
\* disconnect of an earlier handle was taken for that of a live stream
\* (video_input.c:1563).  What the store then holds is not said: a frame of the
\* previous output may be published late (video_input.c:1072).
UvcFramesAreAccounted ==
  /\ part = "frames" => Frames!FramesAccounted
  /\ part = "unplugs" => Unplugs!FramesAccounted
  /\ part = "formats" => UvcFormats!FramesAccounted
  /\ part = "outputs" => Outputs!FramesAccounted

\* A mode the card refused is not tried again, the mode the control task calls
\* active is the driver's, an update of the firmware is not disturbed by capture or
\* by viewers that come and go, and the camera's profile follows the H.264 transport:
\* the last two as far as set_suspended succeeded when the update began, and the
\* transport's 100 ms wait for the lock did not end in vain (video_control.c:963, 993).
\* The table of modes accepts what it offers (video_input.c).
CaptureModeIsSound ==
  /\ part = "capture" =>
       /\ CaptureMode!CaptureTypeOK /\ CaptureMode!RefusedModeIsNotRetried
       /\ CaptureMode!ActiveIsTheDrivers /\ CaptureMode!UpdateIsUndisturbed
       /\ CaptureMode!TransportFlagsAgree
  /\ part = "modes" =>
       /\ Table!TableOK /\ Table!OfferIsAccepted /\ Table!SelectionAnswers
       /\ Table!OneLineSelected /\ Table!CountIsWritten /\ Table!DerivedIsOffered

\* The H.264 stream's memory: the codec runs only on memory that is reserved, an
\* agent that holds the budget is alone with it, a queued unit keeps its slot and no
\* slot is lost, also after failures and waits for the lock that end in vain; and the
\* two stages never use one surface, unless such a wait kept a session alive whose
\* decode had timed out (video_h264_stream.c:3627).
StreamMemoryIsOwned ==
  part = "h264" =>
    /\ Stream!H264TypeOK /\ Stream!AgentHasTheBudget /\ Stream!GeometryIsCurrent
    /\ Stream!StreamOwnsBudget /\ Stream!QueuedUnitIsAlive /\ Stream!NoSlotIsLost
    /\ Stream!DecoderHasMemory /\ Stream!SurfacesAreApart

\* No reader gets a frame twice or an older one, no lease of a frame outlives
\* its epoch, and a connection is sent the access units of its own session only,
\* in order, from an encoder that was opened for it - unless the restart of the
\* encoder failed and the lock could not be had to end the session
\* (video_h264_stream.c:3571).
StreamUnitsAreItsOwn ==
  [][/\ part = "store" => FramesAdvance
     /\ part = "formats" => UvcFormats!LeaseIsCurrent
     /\ part = "h264" => Stream!UnitsReachTheirSession]_vars

-----------------------------------------------------------------------------
\* What has to happen in the end, on the smaller instances: the frame store
\* accepts frames again, the H.264 stream restores the camera, and the capture
\* is what its viewers want.
LiveInit ==
  \/ /\ part = "store" /\ StoreInit /\ NoStream /\ NoCapture /\ NoUvc
     /\ NoTable /\ task = Unused
  \/ /\ part = "h264" /\ StreamLive!H264Init /\ StoreInit /\ NoCapture /\ NoUvc
     /\ NoTable
  \/ /\ part = "capture" /\ CaptureLive!CaptureInit /\ StoreInit /\ NoStream
     /\ NoUvc /\ NoTable
  \/ /\ part = "uvc" /\ UvcLive!SessInit /\ StoreInit /\ NoStream /\ NoCapture
     /\ NoTable /\ task = Unused
  \/ /\ part = "faults" /\ UvcFaults!SessInit /\ StoreInit /\ NoStream
     /\ NoCapture /\ NoTable /\ task = Unused

LiveNext ==
  \/ /\ part = "store" /\ StoreLive!StoreNext
     /\ UNCHANGED <<part, tableVars, streamVars, captureVars, uvcVars, task>>
  \/ /\ part = "h264" /\ StreamLive!H264Next
     /\ UNCHANGED <<part, tableVars, storeVars, captureVars, uvcVars>>
  \/ /\ part = "capture" /\ CaptureLive!CaptureNext
     /\ UNCHANGED <<part, tableVars, storeVars, streamVars, uvcVars>>
  \/ /\ part = "uvc" /\ UvcLive!SessNext
     /\ UNCHANGED <<part, tableVars, storeVars, streamVars, captureVars, task>>
  \/ /\ part = "faults" /\ UvcFaults!SessNext
     /\ UNCHANGED <<part, tableVars, storeVars, streamVars, captureVars, task>>

\* The variables of each part, with those that others use too.
streamAll == <<gate, owner, epoch, mem, agent, stream, lock, restore,
               transport, kvm, capture, sock, httpd, work, pipe, worker, task,
               sent, bound>>
captureAll == <<want, kvmMode, active, drv, card, task, holder, h264, saved,
                good, missed, count>>
uvcAll == <<uvc, sig, openFmt, ret, cb, inq, ing, hq, hep, lease, retq, tr,
            snap, faults, sess, sup, app, opened, closing, recover, usb,
            budget>>


\* The tasks are scheduled, the card's events arrive and readers release their
\* frames; viewers owe nothing.  A blocking take of a lock is strongly fair:
\* FreeRTOS hands the lock to a waiting task.
Fairness ==
  /\ WF_storeVars(part = "store" /\ (StoreLive!PublishCopy \/ StoreLive!PublishEnd))
  /\ \A r \in Readers : WF_storeVars(part = "store" /\ StoreLive!Release(r))
  /\ WF_streamAll(part = "h264" /\ StreamLive!TaskNext)
  /\ WF_streamAll(part = "h264" /\ StreamLive!WorkerNext)
  /\ SF_streamAll(part = "h264" /\ StreamLive!ClaimTeardown)
  /\ SF_streamAll(part = "h264" /\ StreamLive!Cleanup)
  /\ WF_streamAll(part = "h264" /\ StreamLive!ServeNext)
  /\ WF_captureAll(part = "capture" /\ CaptureLive!ControlTask)
  /\ WF_captureAll(part = "capture" /\ CaptureLive!WebNext)
  /\ \A t \in {"ctl", "web", "ota"} :
       /\ SF_captureAll(part = "capture" /\ CaptureLive!ApplyLock(t))
       /\ WF_captureAll(part = "capture" /\ CaptureLive!ApplyOn(t))
  /\ WF_uvcAll(\/ part = "uvc" /\ UvcLive!SupNext
               \/ part = "faults" /\ UvcFaults!SupNext)
  /\ WF_uvcAll(\/ part = "uvc" /\ UvcLive!ConnectEvent
               \/ part = "faults" /\ UvcFaults!ConnectEvent)
  /\ WF_uvcAll(\/ part = "uvc" /\ UvcLive!CallbackStep
               \/ part = "faults" /\ UvcFaults!CallbackStep)
  /\ WF_uvcAll(\/ part = "uvc" /\ UvcLive!IngestStep
               \/ part = "faults" /\ UvcFaults!IngestStep)
  /\ WF_uvcAll(\/ part = "uvc" /\ UvcLive!ReturnStep
               \/ part = "faults" /\ UvcFaults!ReturnStep)
  /\ WF_uvcAll(\/ part = "uvc" /\ UvcLive!LeaseStep
               \/ part = "faults" /\ UvcFaults!LeaseStep)
  /\ WF_uvcAll(\/ part = "uvc" /\ UvcLive!SwitchStep
               \/ part = "faults" /\ UvcFaults!SwitchStep)

FairSpec == LiveInit /\ [][LiveNext]_vars /\ Fairness

-----------------------------------------------------------------------------
\* What may not last: a store that takes no frame, a camera that is not restored.
Waiting ==
  CASE part = "store" -> ~StoreLive!Accepts
    [] part = "h264" -> restore
    [] OTHER -> FALSE

\* The frame store takes a frame of any accepted size again once its readers
\* released (video_frame_store.c), and the camera gets its profile and the
\* memory back after the last H.264 client, whatever time-out poisoned the
\* teardown first (video_h264_stream.c).
VideoWaitsEnd == Waiting ~> ~Waiting

\* A viewer who stays is served: with capture wanted and the card in its socket
\* the stream runs again after a finite number of unplugs, failed driver calls and
\* changes, and the driver captures in the KVM's mode (video_input.c,
\* uvc_supervisor_task; video_control.c, control_task).  Two things it takes for
\* granted: every connect event is taken - one that finds the lock busy is dropped
\* and leaves the old address (video_input.c:1250) - and the control task gets its
\* lock (video_control.c:249).
Wanted ==
  CASE part \in {"uvc", "faults"} -> UvcLive!WantsStream
    [] part = "capture" -> CaptureLive!WantsKvm
    [] OTHER -> FALSE
Served ==
  CASE part \in {"uvc", "faults"} -> UvcLive!StreamRuns
    [] part = "capture" -> CaptureLive!CapturesKvm
    [] OTHER -> TRUE
ViewersAreServed == <>[]Wanted => <>[]Served

\* Capture that nobody wants any more comes to rest: the driver stops and the
\* card's transfers end.  It takes for granted that the control task gets the lock
\* under which it notes what the driver does: when that wait ends in vain the driver
\* captures on, unseen (video_control.c:270).
Unwanted ==
  CASE part \in {"uvc", "faults"} -> ~app.capture
    [] part = "capture" -> CaptureLive!Unwanted
    [] OTHER -> FALSE
AtRest ==
  CASE part \in {"uvc", "faults"} -> ~uvc.run
    [] part = "capture" -> drv = CaptureLive!Off
    [] OTHER -> TRUE
CaptureComesToRest == <>[]Unwanted => <>[]AtRest
=============================================================================
