------------------------------- MODULE MCHost -------------------------------
(***************************************************************************)
(* The host's other lines for TLC: SSH (SshClient), the serial line, its   *)
(* journal, its bridge to the browser, its writers and the filter that     *)
(* hides an echoed secret (TargetUart), the power and reset buttons        *)
(* (PowerControl), the capture card's rails (Ms2109Power), the boot keys   *)
(* (BootKey) and the display modes (HostDisplay).                          *)
(*                                                                         *)
(* They share no state, so a behaviour is one of one part, chosen in the   *)
(* initial state; the variables of the other parts are Unused.  A name     *)
(* that several components use is one variable here.                       *)
(***************************************************************************)
EXTENDS Integers, Sequences, FiniteSets, TLC

CONSTANTS
  Unused, None,
  Commands, Shells, HostKeys, SshFaults,                   \* ssh
  e0, k0,                                                  \* first ssh
  a, b, star, w1, w2, w3,                                  \* echo, uart, write
  Gpios, Taken, ReturnPin, NoPin, PowerPin, ResetPin, DetectPin, LocatorPin,
  Pressers, PowerCalls, PowerFaults,                       \* power
  RailCalls, ColdStarts,                                   \* rails
  BootTasks, MaxDelay, MaxKeys, MaxTimeout, BootPlans, MaxLockFails,  \* boot keys
  Modes, DisplayPlans, MaxCalls                            \* display

VARIABLES
  part,
  lock, sem, owner, cancel, late, held, key, known, active, req, input, typed,
  faults,
  fail, state, armed, echoed, out,
  line, rx, ring, wpos, next, gen, log, backlog, ws, epoch, linking, outbuf,
  job, replay, got, lost, slip, baud,
  len, sent, used, mutex, wire,
  map, led, pins, busy, press, saved,
  rail, holder, call, cold, timer, want,
  plan, work, lease, mounted, clock, confirm, locks, keys,
  status, seq, tool, calls, approved, tried,
  pc, secret, count, task   \* each of several parts

DefaultPins == [power |-> PowerPin, reset |-> ResetPin, detect |-> DetectPin,
                locator |-> LocatorPin]

Ssh == INSTANCE SshClient WITH
  Execs <- Commands, Keys <- HostKeys, Fresh <- FALSE, MaxFaults <- SshFaults
FirstSsh == INSTANCE SshClient WITH
  Execs <- {e0}, Shells <- {}, Keys <- {k0}, Fresh <- TRUE, MaxFaults <- 1
Uart == INSTANCE TargetUart WITH
  JSize <- 2, BSize <- 1, OSize <- 2, MaxBytes <- 3, MaxBauds <- 1,
  MaxConns <- 2, MaxSlips <- 1,
  Bytes <- {a, b}, Star <- star, MaxSecret <- 4, MaxEcho <- 7,
  Writers <- {w1, w2, w3}, Lengths <- {1, 3, 5}, Ring <- 20, Chunk <- 2,
  Overhead <- 1
Power == INSTANCE PowerControl WITH
  Pins <- Gpios, Reserved <- Taken, Default <- DefaultPins,
  MaxOps <- PowerCalls, MaxFaults <- PowerFaults
Rails == INSTANCE Ms2109Power WITH
  MaxOps <- RailCalls, MaxCold <- ColdStarts
BootKeys == INSTANCE BootKey WITH
  Workers <- BootTasks, MaxPlans <- BootPlans
Display == INSTANCE HostDisplay WITH
  Requests <- Modes, MaxPlans <- DisplayPlans

\* The theorems of HostProofs apply to the instances checked here.
ASSUME ProofsApply ==
  /\ Ssh!SshBounds /\ Power!PowerBounds /\ BootKeys!BootBounds
  /\ Display!DisplayBounds

-----------------------------------------------------------------------------
sshVars == <<lock, sem, owner, cancel, late, held, key, known, active, req,
             input, typed, faults>>
echoVars == <<fail, state, armed, echoed, out>>
uartVars == <<line, rx, ring, wpos, next, gen, log, backlog, ws, epoch,
              linking, outbuf, job, replay, got, lost, slip, baud>>
writeVars == <<len, sent, used, mutex, wire>>
powerVars == <<map, led, pins, busy, press, saved>>
railVars == <<rail, holder, call, cold, timer, want>>
bootVars == <<plan, work, lease, mounted, clock, confirm, locks, keys>>
displayVars == <<status, seq, tool, calls, approved, tried>>
vars == <<part, sshVars, echoVars, uartVars, writeVars, powerVars, railVars,
          bootVars, displayVars, pc, secret, count, task>>

NoSsh ==
  /\ lock = Unused /\ sem = Unused /\ owner = Unused /\ cancel = Unused
  /\ late = Unused /\ held = Unused /\ key = Unused /\ known = Unused
  /\ active = Unused /\ req = Unused /\ input = Unused /\ typed = Unused
  /\ faults = Unused
NoEcho ==
  /\ fail = Unused /\ state = Unused /\ armed = Unused /\ echoed = Unused
  /\ out = Unused
NoUart ==
  /\ line = Unused /\ rx = Unused /\ ring = Unused /\ wpos = Unused
  /\ next = Unused /\ gen = Unused /\ log = Unused /\ backlog = Unused
  /\ ws = Unused /\ epoch = Unused /\ linking = Unused /\ outbuf = Unused
  /\ job = Unused /\ replay = Unused /\ got = Unused /\ lost = Unused /\ slip = Unused
  /\ baud = Unused
NoWrite ==
  /\ len = Unused /\ sent = Unused /\ used = Unused /\ mutex = Unused
  /\ wire = Unused
NoPower ==
  /\ map = Unused /\ led = Unused /\ pins = Unused /\ busy = Unused
  /\ press = Unused /\ saved = Unused
NoRail ==
  /\ rail = Unused /\ holder = Unused /\ call = Unused /\ cold = Unused
  /\ timer = Unused /\ want = Unused
NoBoot ==
  /\ plan = Unused /\ work = Unused /\ lease = Unused /\ mounted = Unused
  /\ clock = Unused /\ confirm = Unused /\ locks = Unused /\ keys = Unused
NoDisplay ==
  /\ status = Unused /\ seq = Unused /\ tool = Unused /\ calls = Unused
  /\ approved = Unused /\ tried = Unused

Init ==
  \/ /\ part = "ssh" /\ Ssh!Init /\ NoEcho /\ NoUart /\ NoWrite /\ NoPower
     /\ NoRail /\ NoBoot /\ NoDisplay /\ count = Unused /\ task = Unused
  \/ /\ part = "first ssh" /\ FirstSsh!Init /\ NoEcho /\ NoUart /\ NoWrite
     /\ NoPower /\ NoRail /\ NoBoot /\ NoDisplay /\ count = Unused
     /\ task = Unused
  \/ /\ part = "echo" /\ Uart!FilterInit /\ NoSsh /\ NoUart /\ NoWrite /\ NoPower
     /\ NoRail /\ NoBoot /\ NoDisplay /\ pc = Unused /\ count = Unused
     /\ task = Unused
  \/ /\ part = "uart" /\ Uart!Init /\ NoSsh /\ NoEcho /\ NoWrite /\ NoPower
     /\ NoRail /\ NoBoot /\ NoDisplay /\ pc = Unused /\ secret = Unused
  \/ /\ part = "write" /\ Uart!WriteInit /\ NoSsh /\ NoEcho /\ NoUart /\ NoPower
     /\ NoRail /\ NoBoot /\ NoDisplay /\ secret = Unused /\ count = Unused
     /\ task = Unused
  \/ /\ part = "power" /\ Power!PowerInit /\ NoSsh /\ NoEcho /\ NoUart
     /\ NoWrite /\ NoRail /\ NoBoot /\ NoDisplay /\ pc = Unused
     /\ secret = Unused /\ task = Unused
  \/ /\ part = "rails" /\ Rails!RailInit /\ NoSsh /\ NoEcho /\ NoUart
     /\ NoWrite /\ NoPower /\ NoBoot /\ NoDisplay /\ pc = Unused
     /\ secret = Unused /\ task = Unused
  \/ /\ part = "boot keys" /\ BootKeys!BootInit /\ NoSsh /\ NoEcho /\ NoUart
     /\ NoWrite /\ NoPower /\ NoRail /\ NoDisplay /\ pc = Unused
     /\ secret = Unused /\ count = Unused
  \/ /\ part = "display" /\ Display!Init /\ NoSsh /\ NoEcho /\ NoUart
     /\ NoWrite /\ NoPower /\ NoRail /\ NoBoot /\ pc = Unused
     /\ secret = Unused /\ count = Unused /\ task = Unused

Next ==
  \/ /\ part = "ssh" /\ Ssh!Next
     /\ UNCHANGED <<part, echoVars, uartVars, writeVars, powerVars, railVars,
                    bootVars, displayVars, count, task>>
  \/ /\ part = "first ssh" /\ FirstSsh!Next
     /\ UNCHANGED <<part, echoVars, uartVars, writeVars, powerVars, railVars,
                    bootVars, displayVars, count, task>>
  \/ /\ part = "echo" /\ Uart!FilterNext
     /\ UNCHANGED <<part, sshVars, uartVars, writeVars, powerVars, railVars,
                    bootVars, displayVars, pc, count, task>>
  \/ /\ part = "uart" /\ Uart!Next
     /\ UNCHANGED <<part, sshVars, echoVars, writeVars, powerVars, railVars,
                    bootVars, displayVars, pc, secret>>
  \/ /\ part = "write" /\ Uart!WriteNext
     /\ UNCHANGED <<part, sshVars, echoVars, uartVars, powerVars, railVars,
                    bootVars, displayVars, secret, count, task>>
  \/ /\ part = "power" /\ Power!PowerNext
     /\ UNCHANGED <<part, sshVars, echoVars, uartVars, writeVars, railVars,
                    bootVars, displayVars, pc, secret, task>>
  \/ /\ part = "rails" /\ Rails!RailNext
     /\ UNCHANGED <<part, sshVars, echoVars, uartVars, writeVars, powerVars,
                    bootVars, displayVars, pc, secret, task>>
  \/ /\ part = "boot keys" /\ BootKeys!BootNext
     /\ UNCHANGED <<part, sshVars, echoVars, uartVars, writeVars, powerVars,
                    railVars, displayVars, pc, secret, count>>
  \/ /\ part = "display" /\ Display!Next
     /\ UNCHANGED <<part, sshVars, echoVars, uartVars, writeVars, powerVars,
                    railVars, bootVars, pc, secret, count, task>>

Spec == Init /\ [][Next]_vars

-----------------------------------------------------------------------------
\* Commands differ in nothing but their state, and so do host keys.
Symmetry == Permutations(Commands) \cup Permutations(HostKeys)

\* SSH sessions are serialised, a password goes only to the host whose key was
\* confirmed first, and no cancel, time-out or late answer uses what was freed,
\* leaves a session behind or types a wake-up as input (ssh_client.c).  The semaphore
\* exists before two sessions meet (Fresh = FALSE): two that both find none make one
\* each and are not serialised (ssh_client.c:124).
SshIsOneAtATime ==
  part = "ssh" =>
    /\ Ssh!SessionsAreSerialized /\ Ssh!SecretsGoToTheKnownHost
    /\ Ssh!NobodyUsesFreed /\ Ssh!NothingIsLeft /\ Ssh!WakeIsNotTyped

\* The journal numbers the bytes of the line; a browser, also one that comes back,
\* gets them in order and without a gap it was not told of, unless bytes taken for the
\* client before it are dated or pushed after it came, or a wait for the lock or a call
\* of the bridge fails, after which bytes are missing without a word
\* (uart_module.inc:772, 820, 864, 874); messages are written whole and not mixed, and
\* an echoed secret is starred wherever it starts (target_uart.c, echo_redact.c).
SerialBytesAreKept ==
  /\ part = "uart" =>
       /\ Uart!JournalIsTheLine /\ Uart!BatchIsNumbered /\ Uart!OrderedReplay
       /\ Uart!NothingIsSkipped
  /\ part = "write" => Uart!WholeOrNothing /\ Uart!NotInterleaved
  /\ part = "echo" => Uart!OutIsRedaction /\ Uart!TailIsStarred

\* At most one button is down, only while a press of it lasts, and on the pin the
\* map names, whatever the map is changed to and wherever its saving is cut short;
\* the card's rails rise and fall in order and an operator's "off" stays, but for a
\* power cycle of the supervisor whose check came before it (power_control.c,
\* ms2109_power.c).
PowerLinesAreSafe ==
  /\ part = "power" =>
       /\ Power!MapIsValid /\ Power!ButtonsAreUp /\ Power!OneButtonDown
       /\ Power!LocatorShowsState
  /\ part = "rails" => Rails!RailOrder /\ Rails!OffStaysOff

\* A boot plan that is canceled sends at most the key already decided, one that
\* is verified sent all it promised, and none sends more than it promised but for one
\* more for each count that a lock time-out lost; and the display tool executes the
\* plan that was approved, not a later one, and its report finds that plan whenever
\* it gets the lock (boot_key_manager.c, host_display_manager.c).
PlansAreCarriedOut ==
  /\ part = "boot keys" =>
       /\ BootKeys!BootTypeOK /\ BootKeys!CancelStopsKeys /\ BootKeys!KeysAreBounded
       /\ BootKeys!VerifiedSentAll /\ BootKeys!LeaseHasWorker
  /\ part = "display" =>
       /\ Display!ExecutesTheApproved /\ Display!RollbackHasSomethingToUndo
       /\ Display!ReportIsTaken

\* The key of a host that was stored first is never replaced by a later one,
\* and no boot key goes out without an approval in force or from two workers.
NothingIsReplacedUnasked ==
  [][/\ part = "ssh" => Ssh!FirstKeyStays
     /\ part = "boot keys" => BootKeys!KeysNeedApproval]_vars
=============================================================================
