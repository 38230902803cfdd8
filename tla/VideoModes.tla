----------------------------- MODULE VideoModes -----------------------------
(***************************************************************************)
(* The mode table of the capture driver (drivers/video_input.c): what is   *)
(* kept of the descriptors a card enumerates, which entry a request        *)
(* selects, the rates derived by publishing every k-th frame, and the list *)
(* the browser is offered.  Rates are hundredths of a frame per second,    *)
(* computed from UVC intervals of 100 ns.                                  *)
(*                                                                         *)
(* Every caller asks for an exact resolution, so the ranking by area in    *)
(* mode_is_better never decides and is left out.                           *)
(***************************************************************************)
EXTENDS Integers, Sequences, SequencesExt

CONSTANTS
  Resolutions,
  Intervals,    \* frame intervals a card may advertise, 0 included
  Requests,     \* rates a client asks for, 0 for the default
  ListSizes,    \* sizes of the buffers callers pass
  DefaultFps,   \* SI_CFG_VIDEO_FPS * 100
  MaxInfos,     \* bound: frame descriptors of a card
  MaxModes      \* SI_VIDEO_MAX_MODES

VARIABLES
  modes,   \* s_modes[0 .. s_mode_count)
  sel,     \* s_uvc_selection: resolution, the entry's rate, the logical
           \* rate, the decimation; NoSelection when invalid
  asked,   \* the last request that was accepted
  page     \* what si_video_get_modes last returned

vars == <<modes, sel, asked, page>>

NoSelection == [res |-> "none", fps |-> 0, logical |-> 0, decimation |-> 0]
NoPage == [list |-> <<>>, total |-> 0, size |-> 0]
Derived == 1500        \* s_derived_fps_x100

(* Of a descriptor: an MJPEG flag, a resolution, a list of intervals (empty *)
(* for a continuous range) and the default interval.                       *)
Infos ==
  [mjpeg : {TRUE}, res : Resolutions,
   intervals : {<<>>} \cup {<<i>> : i \in Intervals}, default : Intervals]
  \cup [mjpeg : {FALSE}, res : Resolutions, intervals : {<<>>},
        default : Intervals \ {0}]

Diff(a, b) == IF a > b THEN a - b ELSE b - a
Near(a, b) == Diff(a, b) <= 50

(* uvc_interval_to_fps_x100: rounds to the nearest.                        *)
ToFps(i) == IF i = 0 THEN 0 ELSE (1000000000 + i \div 2) \div i

(* stored_mode_exists_locked.                                              *)
Exists(ms, res, fps) ==
  \E i \in DOMAIN ms : ms[i].res = res /\ Near(ms[i].fps, fps)

(* add_uvc_mode_locked.                                                    *)
Add(ms, res, fps) ==
  IF fps = 0 \/ Len(ms) >= MaxModes \/ Exists(ms, res, fps)
  THEN ms ELSE Append(ms, [res |-> res, fps |-> fps])

(* store_uvc_modes_locked: the table is built anew from the MJPEG frames.  *)
Rates(info) == Append(info.intervals, info.default)
AddInfo(ms, info) ==
  IF ~info.mjpeg THEN ms
  ELSE FoldLeft(LAMBDA t, i : Add(t, info.res, ToFps(i)), ms, Rates(info))
StoreModes(infos) == FoldLeft(AddInfo, <<>>, infos)

(* mode_is_better between two entries of one resolution.                   *)
Better(candidate, best, fps) ==
  IF Diff(candidate.fps, fps) # Diff(best.fps, fps)
  THEN Diff(candidate.fps, fps) < Diff(best.fps, fps)
  ELSE candidate.fps > best.fps

(* select_stored_mode_locked: the scan for an entry, and the scan for a    *)
(* multiple k = 2, 3, 4 of the rate if there is none.                      *)
Fits(mode, res, fps, exact) ==
  mode.res = res /\ (exact => Near(mode.fps, fps))
ScanFrom(ms, res, fps, exact) ==
  FoldLeft(LAMBDA best, m :
             IF Fits(m, res, fps, exact)
                /\ (best = <<>> \/ Better(m, best[1], fps))
             THEN <<m>> ELSE best, <<>>, ms)
IsMultiple(parent, fps, k) == Diff(parent, fps * k) <= 50 * k
Multiples(ms, res, fps) ==
  {p \in (2 .. 4) \X (DOMAIN ms) :
     ms[p[2]].res = res /\ IsMultiple(ms[p[2]].fps, fps, p[1])}
FirstMultiple(ms, res, fps) ==
  CHOOSE p \in Multiples(ms, res, fps) :
    \A q \in Multiples(ms, res, fps) :
      p[1] < q[1] \/ (p[1] = q[1] /\ p[2] <= q[2])

Select(ms, res, fps, exact) ==
  LET best == ScanFrom(ms, res, fps, exact) IN
  IF best # <<>>
  THEN [res |-> res, fps |-> best[1].fps, logical |-> best[1].fps,
        decimation |-> 1]
  ELSE IF exact /\ Multiples(ms, res, fps) # {}
  THEN LET p == FirstMultiple(ms, res, fps) IN
       [res |-> res, fps |-> ms[p[2]].fps, logical |-> fps,
        decimation |-> p[1]]
  ELSE NoSelection

Requested(fps) == IF fps > 0 THEN fps ELSE DefaultFps

(* si_video_validate_mode.                                                 *)
Valid(ms, res, fps) == Select(ms, res, Requested(fps), TRUE) # NoSelection

(***************************************************************************)
(* si_video_get_modes                                                      *)
(***************************************************************************)
Entry(res, fps) ==
  [res |-> res, fps |-> fps,
   selected |-> sel # NoSelection /\ sel.res = res /\ Near(sel.logical, fps)]

Copied(size) ==
  [i \in 1 .. (IF Len(modes) < size THEN Len(modes) ELSE size) |->
     Entry(modes[i].res, modes[i].fps)]

Offers(parent) ==
  /\ \E k \in 2 .. 4 : IsMultiple(parent.fps, Derived, k)
  /\ ~Exists(modes, parent.res, Derived)

(* The entries, then the derived rate once for each resolution that has a  *)
(* multiple and not the rate itself.  Only what was written is searched    *)
(* for duplicates; the count runs on.                                      *)
Listed(size) ==
  LET copied == Len(Copied(size))
      step(acc, parent) ==
        IF \/ ~Offers(parent)
           \/ \E j \in (copied + 1) .. Len(acc.list) :
                acc.list[j].res = parent.res /\ acc.list[j].fps = Derived
        THEN acc
        ELSE [list |-> IF Len(acc.list) < size
                       THEN Append(acc.list, Entry(parent.res, Derived))
                       ELSE acc.list,
              total |-> acc.total + 1, size |-> size]
  IN FoldLeft(step, [list |-> Copied(size), total |-> Len(modes),
                     size |-> size], modes)

(***************************************************************************)
(* Actions                                                                 *)
(***************************************************************************)
ModesInit ==
  /\ modes = <<>> /\ sel = NoSelection /\ page = NoPage
  /\ asked \in [res : Resolutions, fps : {DefaultFps}, exact : {FALSE}]

(* uvc_device_connected: the table, and the configured mode if it is there. *)
Connect(infos) ==
  /\ modes' = StoreModes(infos)
  /\ sel' = Select(modes', asked.res, asked.fps, asked.exact)
  /\ page' = NoPage /\ UNCHANGED asked

(* si_video_set_capture with a card.                                       *)
SetCapture(res, fps, exact) ==
  /\ modes # <<>>
  /\ LET s == Select(modes, res, Requested(fps), exact) IN
     /\ s # NoSelection /\ sel' = s
     /\ asked' = [res |-> res, fps |-> Requested(fps), exact |-> exact]
  /\ page' = NoPage /\ UNCHANGED modes

GetModes(size) ==
  /\ page' = Listed(size) /\ UNCHANGED <<modes, sel, asked>>

ModesNext ==
  \/ \E n \in 0 .. MaxInfos : \E infos \in [1 .. n -> Infos] :
       modes = <<>> /\ Connect(infos)
  \/ \E r \in Resolutions, f \in Requests, e \in BOOLEAN : SetCapture(r, f, e)
  \/ \E n \in ListSizes : GetModes(n)

ModesSpec == ModesInit /\ [][ModesNext]_vars

(***************************************************************************)
(* Properties                                                              *)
(***************************************************************************)

(* The table fits SI_VIDEO_MAX_MODES and no two of its entries are the     *)
(* same mode within the tolerance (add_uvc_mode_locked).                   *)
TableOK ==
  /\ Len(modes) <= MaxModes
  /\ \A i, j \in DOMAIN modes :
       modes[i].res = modes[j].res /\ i # j => ~Near(modes[i].fps, modes[j].fps)

(* Every mode the browser is offered, derived ones too, is accepted by     *)
(* si_video_validate_mode when it is sent back.                            *)
OfferIsAccepted ==
  \A i \in DOMAIN page.list : Valid(modes, page.list[i].res, page.list[i].fps)

(* A selection is the closest entry, or exactly decimation times the       *)
(* logical rate up to the tolerance; the logical rate answers what was     *)
(* asked for exactly.                                                      *)
SelectionAnswers ==
  sel # NoSelection =>
    /\ sel.res = asked.res /\ \E i \in DOMAIN modes : modes[i].fps = sel.fps
    /\ IsMultiple(sel.fps, sel.logical, sel.decimation)
    /\ asked.exact => Near(sel.logical, asked.fps)
    /\ sel.decimation = 1 => \A i \in DOMAIN modes :
         modes[i].res = sel.res
           => Diff(modes[i].fps, asked.fps) >= Diff(sel.fps, asked.fps)

(* No two lines of the browser's list are marked as the running mode.      *)
OneLineSelected ==
  \A i, j \in DOMAIN page.list :
    page.list[i].selected /\ page.list[j].selected => i = j

(* The count si_video_get_modes returns, cut to the buffer, is the number  *)
(* of entries it wrote: what observe_video relies on when it copies them.  *)
CountIsWritten ==
  page # NoPage => Len(page.list) =
    (IF page.total < page.size THEN page.total ELSE page.size)

(* A rate 15 that a resolution has as an advertised multiple is always in  *)
(* a list with room for everything.                                        *)
DerivedIsOffered ==
  page # NoPage /\ page.size > page.total =>
    \A i \in DOMAIN modes :
      (\E k \in 2 .. 4 : IsMultiple(modes[i].fps, Derived, k)) =>
        \E j \in DOMAIN page.list : page.list[j].res = modes[i].res
                                      /\ Near(page.list[j].fps, Derived)
=============================================================================
