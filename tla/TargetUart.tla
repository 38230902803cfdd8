------------------------------ MODULE TargetUart ------------------------------
(***************************************************************************)
(* What the target's serial line says, on its way to its readers           *)
(* (drivers/target_uart.c and the WebSocket bridge in                      *)
(* services/web/uart_module.inc).  One receive task puts the bytes into a  *)
(* ring, the journal, numbers them, offers them to the command line's      *)
(* backlog and hands them to the bridge, which queues them for an output   *)
(* task.  A browser that connects is sent the journal first and then what  *)
(* comes after it; the hand-over between the two is the delicate part.     *)
(* A change of baud rate starts a new generation with an empty journal.    *)
(*                                                                         *)
(* A byte is its number on the line.  log[g] is history: all bytes of      *)
(* generation g.                                                           *)
(*                                                                         *)
(* Two parts of the line follow that share no state with this one: the     *)
(* filter on its echo and the writing.                                     *)
(***************************************************************************)
EXTENDS Naturals, Sequences, SequencesExt, FiniteSetsExt

CONSTANTS
  JSize,     \* s_journal (8192 bytes)
  BSize,     \* the command line's backlog
  OSize,     \* the bridge's output buffer
  MaxBytes,  \* bytes on the line in one behaviour
  MaxBauds,  \* changes of baud rate in one behaviour
  MaxConns,  \* connections in one behaviour
  MaxSlips   \* bound: waits and calls of the bridge that fail

VARIABLES
  line,      \* bytes received so far
  rx,        \* the receive task
  ring, wpos, count, next, gen,      \* the journal, under s_lock
  log,
  backlog,   \* s_cli_backlog
  ws,        \* the bridge's client: connected, live generation and number
  epoch,     \* s_uart_ws_epoch: connections so far
  linking,   \* how far the handshake of a new client has got
  outbuf,    \* s_uart_ws_output_buffer
  task,      \* the output task
  job,       \* the frame the server is to send: its queue, one long
  replay,    \* what the handshake is to send
  got,       \* what the present client has been sent, in order
  lost,      \* s_uart_ws_dropped_bytes # 0 for this client
  slip,      \* history: calls that failed, and what the present client was
             \* done without a word: bytes "dropped" or "doubled"
  baud       \* a change of baud rate: "idle" or "drained"

journal == <<ring, wpos, count, next, gen, log>>
bridge == <<ws, epoch, linking, replay, got>>
output == <<outbuf, task, job, lost, slip>>
vars == <<line, rx, journal, backlog, bridge, output, baud>>

Idle == [pc |-> "reading", buf |-> <<>>, gen |-> 0, first |-> 0, for |-> 0]
Away == [on |-> FALSE, gen |-> 0, from |-> 0, revoked |-> FALSE]
Resting == [pc |-> "waiting", data |-> <<>>, epoch |-> 0, first |-> 0, last |-> 0]

LeastOf(a, b) == IF a < b THEN a ELSE b

-------------------------------------------------------------------------------
(* The journal *)

\* Where the oldest byte is.
Oldest == (wpos + JSize - count) % JSize

\* n bytes of the ring from place p on.
Cells(p, n) == [i \in 1..n |-> ring[(p + i - 1) % JSize]]

\* si_target_uart_journal_read: the last bytes, as many as fit.
JournalRead(len) ==
  LET n == LeastOf(count, len) IN
  [bytes |-> Cells((Oldest + count - n) % JSize, n), start |-> next - n,
   lost |-> next > count + 1 \/ count > n]

\* si_target_uart_journal_read_from: what came at the cursor and after it; a
\* cursor the ring does not reach is moved to its oldest byte, and said so.
JournalReadFrom(cursor, len) ==
  LET oldest == next - count
      strange == cursor # 0 /\ (cursor < oldest \/ cursor > next)
      c == IF cursor = 0 \/ strange THEN oldest ELSE cursor
      n == LeastOf(next - c, len) IN
  [bytes |-> Cells((Oldest + c - oldest) % JSize, n), start |-> c, lost |-> strange]

-------------------------------------------------------------------------------
(* target_uart_rx_task *)

\* uart_read_bytes
Read(n) ==
  /\ rx.pc = "reading" /\ line + n <= MaxBytes
  /\ line' = line + n
  /\ rx' = [Idle EXCEPT !.pc = "storing", !.buf = [i \in 1..n |-> line + i]]
  /\ UNCHANGED <<journal, backlog, bridge, output, baud>>

\* Under s_lock: into the ring, with the generation and the first number.
Store ==
  /\ rx.pc = "storing"
  /\ LET n == Len(rx.buf) IN
     /\ rx' = [rx EXCEPT !.pc = "offering", !.gen = gen, !.first = next]
     /\ ring' = [p \in 0..JSize - 1 |->
                   IF \E i \in 1..n : p = (wpos + i - 1) % JSize
                   THEN rx.buf[Max({i \in 1..n : p = (wpos + i - 1) % JSize})] ELSE ring[p]]
     /\ wpos' = (wpos + n) % JSize
     /\ count' = LeastOf(count + n, JSize)
     /\ next' = next + n
     /\ log' = [log EXCEPT ![gen] = @ \o rx.buf]
  /\ UNCHANGED <<line, gen, backlog, bridge, output, baud>>

\* Into the command line's backlog, as much as fits.
Offer ==
  /\ rx.pc = "offering"
  /\ backlog' = backlog \o SubSeq(rx.buf, 1, LeastOf(Len(rx.buf), BSize - Len(backlog)))
  /\ rx' = [rx EXCEPT !.pc = "calling"]
  /\ UNCHANGED <<line, journal, bridge, output, baud>>

\* A wait or a call fails, within the bound, and bytes of that epoch are lost.
Fails(when) ==
  /\ slip.n < MaxSlips
  /\ slip' = [n |-> slip.n + 1,
              what |-> slip.what \cup (IF when = epoch THEN {"dropped"} ELSE {})]

\* Mutant: every batch is live to a client that is there.
CalledUnaware ==
  /\ rx.pc = "calling" /\ linking # "draining"
  /\ rx' = IF ws.on THEN [rx EXCEPT !.pc = "pushing", !.for = epoch] ELSE Idle
  /\ UNCHANGED <<line, journal, backlog, bridge, output, baud>>

\* uart_ws_output_callback, under s_uart_ws_lock: is there a client, and has
\* the replay shown it some of these bytes?
Called ==
  /\ rx.pc = "calling" /\ linking # "draining"
  /\ LET skip == IF rx.gen = ws.gen /\ rx.first < ws.from
                 THEN LeastOf(ws.from - rx.first, Len(rx.buf)) ELSE 0 IN
     rx' = IF ws.on /\ skip < Len(rx.buf)
           THEN [rx EXCEPT !.pc = "pushing",
                           !.buf = SubSeq(rx.buf, skip + 1, Len(rx.buf)),
                           !.first = rx.first + skip, !.for = epoch]
           ELSE Idle
  /\ UNCHANGED <<line, journal, backlog, bridge, output, baud>>

\* The lock is not had within 100 ms: the batch is lost to the client.
CallTimesOut ==
  /\ rx.pc = "calling" /\ Fails(epoch)
  /\ rx' = Idle
  /\ UNCHANGED <<line, journal, backlog, bridge, outbuf, task, job, lost, baud>>

\* ... and, the lock given back, into the output buffer, whoever reads it now.
Push ==
  /\ rx.pc = "pushing"
  /\ LET n == LeastOf(Len(rx.buf), OSize - Len(outbuf)) IN
     /\ outbuf' = outbuf \o SubSeq(rx.buf, 1, n)
     /\ lost' = (lost \/ n < Len(rx.buf))
  /\ rx' = Idle
  /\ slip' = [slip EXCEPT !.what = @ \cup (IF rx.for = epoch THEN {} ELSE {"doubled"})]
  /\ UNCHANGED <<line, journal, backlog, bridge, task, job, baud>>

-------------------------------------------------------------------------------
(* si_target_uart_read_cli and si_target_uart_set_baud_rate *)

ReadCli ==
  /\ backlog # <<>>
  /\ backlog' = Tail(backlog)
  /\ UNCHANGED <<line, rx, journal, bridge, output, baud>>

BaudDrain ==
  /\ baud = "idle" /\ gen <= MaxBauds
  /\ backlog' = <<>> /\ baud' = "drained"
  /\ UNCHANGED <<line, rx, journal, bridge, output>>

BaudReset ==
  /\ baud = "drained" /\ baud' = "idle"
  /\ gen' = gen + 1
  /\ wpos' = 0 /\ count' = 0 /\ next' = 1
  /\ log' = Append(log, <<>>)
  /\ UNCHANGED <<line, rx, ring, backlog, bridge, output>>

-------------------------------------------------------------------------------
(* The bridge's client.  linking is "draining" while uart_ws_post_handshake *)
(* holds s_uart_ws_lock and "replaying" while it sends the journal.         *)

\* The new client is alone; the lock is taken and the output buffer emptied.
Link ==
  /\ linking = "no" /\ ~ws.on /\ epoch < MaxConns
  /\ outbuf' = <<>> /\ linking' = "draining"
  /\ UNCHANGED <<line, rx, journal, backlog, ws, epoch, replay, got,
                 task, job, lost, slip, baud>>

\* The journal is read and the client published.
Publish ==
  /\ linking = "draining"
  /\ LET r == JournalRead(OSize) IN
     /\ ws' = [on |-> TRUE, gen |-> gen, from |-> next, revoked |-> FALSE]
     /\ replay' = r.bytes /\ got' = <<>>
  /\ epoch' = epoch + 1 /\ linking' = "replaying" /\ lost' = FALSE
  /\ slip' = [slip EXCEPT !.what = IF outbuf = <<>> THEN {} ELSE {"doubled"}]
  /\ UNCHANGED <<line, rx, journal, backlog, outbuf, task, job, baud>>

\* The replay is on the wire, or it cannot be sent and the client is let go.
Replay ==
  /\ linking = "replaying"
  /\ \/ got' = replay /\ UNCHANGED ws
     \/ ws' = [ws EXCEPT !.on = FALSE] /\ UNCHANGED got
  /\ linking' = "no" /\ replay' = <<>>
  /\ UNCHANGED <<line, rx, journal, backlog, epoch, output, baud>>

\* The client's session is revoked: it is sent nothing more (terminal_ws_close_all).
Revoke ==
  /\ ws.on /\ ~ws.revoked /\ linking # "draining"
  /\ ws' = [ws EXCEPT !.revoked = TRUE]
  /\ UNCHANGED <<line, rx, journal, backlog, epoch, linking, replay, got, output, baud>>

\* uart_ws_ctx_free: the socket is gone.
Unlink ==
  /\ ws.on /\ linking = "no"
  /\ ws' = [ws EXCEPT !.on = FALSE]
  /\ UNCHANGED <<line, rx, journal, backlog, epoch, linking, replay, got, output, baud>>

-------------------------------------------------------------------------------
(* uart_ws_output_task.  It reads one byte a step: the batch is what it has *)
(* collected when it sends.                                                 *)

TakeFirst ==
  /\ task.pc = "waiting" /\ outbuf # <<>>
  /\ task' = [task EXCEPT !.pc = "dating", !.data = <<Head(outbuf)>>,
                          !.first = epoch, !.last = epoch]
  /\ outbuf' = Tail(outbuf)
  /\ UNCHANGED <<line, rx, journal, backlog, bridge, job, lost, slip, baud>>

Date ==
  /\ task.pc = "dating"
  /\ task' = [task EXCEPT !.pc = "gathering", !.epoch = epoch]
  /\ UNCHANGED <<line, rx, journal, backlog, bridge, outbuf, job, lost, slip, baud>>

\* It goes on while the client is the same, and takes what is there ...
Gather ==
  /\ task.pc = "gathering"
  /\ task' = [task EXCEPT !.pc = IF epoch = task.epoch THEN "more" ELSE "sending"]
  /\ UNCHANGED <<line, rx, journal, backlog, bridge, outbuf, job, lost, slip, baud>>

\* ... which may by now be another client's.
More ==
  /\ task.pc = "more"
  /\ IF outbuf # <<>>
       THEN /\ task' = [task EXCEPT !.pc = "gathering", !.last = epoch,
                                    !.data = Append(@, Head(outbuf))]
            /\ outbuf' = Tail(outbuf)
       ELSE /\ task' = [task EXCEPT !.pc = "sending"]
            /\ UNCHANGED outbuf
  /\ UNCHANGED <<line, rx, journal, backlog, bridge, job, lost, slip, baud>>

\* No replay is under way, and the client is still the one of the date.
Send ==
  /\ task.pc = "sending" /\ linking = "no"
  /\ IF epoch = task.epoch /\ ws.on
       THEN task' = [task EXCEPT !.pc = "queueing"] /\ UNCHANGED slip
       ELSE /\ task' = Resting
            /\ slip' = [slip EXCEPT !.what = @ \cup (IF task.last = epoch THEN {"dropped"} ELSE {})]
  /\ UNCHANGED <<line, rx, journal, backlog, bridge, outbuf, job, lost, baud>>

\* The lock is not had within 20 ms, there is no memory, or the server does not
\* take the frame: the batch is lost.
SendFails ==
  /\ task.pc \in {"sending", "queueing"} /\ Fails(task.last)
  /\ task' = Resting
  /\ UNCHANGED <<line, rx, journal, backlog, bridge, outbuf, job, lost, baud>>

\* uart_ws_send_async: the frame goes to the server's queue, with the epoch read
\* again.
Queue ==
  /\ task.pc = "queueing" /\ job = <<>>
  /\ job' = <<[data |-> task.data, epoch |-> epoch, late |-> task.first # epoch]>>
  /\ task' = Resting
  /\ UNCHANGED <<line, rx, journal, backlog, bridge, outbuf, lost, slip, baud>>

\* uart_ws_send_work, in the server's task, which is also the handshake's.  A
\* client that comes back may have the socket number it had.
Work ==
  /\ job # <<>> /\ linking = "no"
  /\ IF ws.on /\ ~ws.revoked /\ Head(job).epoch = epoch
       THEN /\ got' = got \o Head(job).data
            /\ slip' = [slip EXCEPT !.what = @ \cup (IF Head(job).late THEN {"doubled"} ELSE {})]
       ELSE UNCHANGED <<got, slip>>
  /\ job' = Tail(job)
  /\ UNCHANGED <<line, rx, journal, backlog, ws, epoch, linking, replay, outbuf,
                 task, lost, baud>>

\* The lock is not had within 100 ms, or the frame cannot be sent: it is lost.
WorkFails ==
  /\ job # <<>> /\ linking = "no" /\ Fails(Head(job).epoch)
  /\ job' = Tail(job)
  /\ UNCHANGED <<line, rx, journal, backlog, bridge, outbuf, task, lost, baud>>

-------------------------------------------------------------------------------
Init ==
  /\ line = 0 /\ rx = Idle
  /\ ring = [p \in 0..JSize - 1 |-> 0] /\ wpos = 0 /\ count = 0 /\ next = 1
  /\ gen = 1 /\ log = <<<<>>>> /\ backlog = <<>>
  /\ ws = Away /\ epoch = 0 /\ linking = "no" /\ outbuf = <<>> /\ task = Resting
  /\ job = <<>> /\ replay = <<>> /\ got = <<>>
  /\ lost = FALSE /\ slip = [n |-> 0, what |-> {}] /\ baud = "idle"

Next ==
  \/ \E n \in 1..2 : Read(n)
  \/ Store \/ Offer \/ Called \/ CallTimesOut \/ Push
  \/ ReadCli \/ BaudDrain \/ BaudReset
  \/ Link \/ Publish \/ Replay \/ Revoke \/ Unlink
  \/ TakeFirst \/ Date \/ Gather \/ More \/ Send \/ SendFails \/ Queue
  \/ Work \/ WorkFails

Spec == Init /\ [][Next]_vars

-------------------------------------------------------------------------------
(* Every read of the journal, from every cursor, gives the bytes that came  *)
(* with those numbers, or says that the cursor's bytes are gone: the ring   *)
(* arithmetic is right however often it has wrapped.                        *)
JournalIsTheLine ==
  /\ next = Len(log[gen]) + 1
  /\ \A cursor \in 0..MaxBytes + 1, len \in 0..JSize :
       LET r == JournalReadFrom(cursor, len) IN
       /\ r.bytes = SubSeq(log[gen], r.start, r.start + Len(r.bytes) - 1)
       /\ ~r.lost => cursor \in {0, r.start}
       /\ len > 0 /\ r.start < next => r.bytes # <<>>
       /\ r.start + JSize >= next
  /\ \A len \in 0..JSize :
       LET r == JournalRead(len) IN
       /\ r.bytes = SubSeq(log[gen], next - Len(r.bytes), next - 1)
       /\ ~r.lost => r.bytes = log[gen]

(* The bytes the receive task hands on carry the generation and number they *)
(* have in the journal, although it hands them on without the lock.         *)
BatchIsNumbered ==
  rx.pc \in {"offering", "calling", "pushing"} =>
    /\ rx.first + Len(rx.buf) - 1 <= Len(log[rx.gen])
    /\ rx.buf = SubSeq(log[rx.gen], rx.first, rx.first + Len(rx.buf) - 1)

(* A client is sent the line in order: no byte of the replay comes again as *)
(* live, and none overtakes another - unless bytes taken for the client     *)
(* before it were dated, queued or pushed after it had come.                *)
OrderedReplay ==
  "doubled" \notin slip.what => \A i \in 1..Len(got) - 1 : got[i] < got[i + 1]

(* ... and without a gap, unless the output buffer overflowed, which is     *)
(* counted, or a wait for the lock or a call of the bridge failed, which is *)
(* not, or a batch of the old client took along bytes of the new.           *)
NothingIsSkipped ==
  ~lost /\ slip.what = {} => \A i \in 1..Len(got) - 1 : got[i + 1] <= got[i] + 1

-------------------------------------------------------------------------------
(* The filter that keeps a typed secret out of the journal                  *)
(* (core/echo_redact.c): a byte-at-a-time matcher with a failure table that *)
(* holds back what may yet become the secret.  The bytes come in whatever   *)
(* pieces the driver reads them, so one byte is one step.  echoed is        *)
(* everything fed since the filter was armed and out everything it let      *)
(* through; both are history, state is the matcher's.                       *)

CONSTANTS
  Bytes,      \* the bytes the target may send
  Star,       \* '*', which the filter writes over the secret
  MaxSecret,  \* length of the longest secret
  MaxEcho     \* bytes fed in one behaviour

VARIABLES secret, fail, state, armed, echoed, out

filterVars == <<secret, fail, state, armed, echoed, out>>

Secrets == SeqOf(Bytes, MaxSecret) \ {<<>>}

\* Along the table to a prefix of s that c may extend.
Fall(s, table, k, c) ==
  LET fall[i \in 0..Len(s)] == IF i > 0 /\ s[i + 1] # c THEN fall[table[i]] ELSE i
  IN fall[k]

\* The prefix held once c has come.
Advance(s, table, k, c) ==
  LET j == Fall(s, table, k, c) IN IF s[j + 1] = c THEN j + 1 ELSE j

\* The failure table, built from the front.
FailTable(s) ==
  LET table[n \in 1..Len(s)] ==
        IF n = 1 THEN <<0>>
        ELSE LET t == table[n - 1] IN Append(t, Advance(s, t, t[n - 1], s[n]))
  IN table[Len(s)]

-------------------------------------------------------------------------------
FilterInit ==
  /\ secret \in Secrets
  /\ fail = FailTable(secret)
  /\ state = 0 /\ armed = TRUE /\ echoed = <<>> /\ out = <<>>

\* si_echo_redact_feed for one byte: it lets through what can no longer be
\* part of the secret, and stars once the secret is complete.
Feed(c) ==
  LET held == Advance(secret, fail, state, c)
      whole == held = Len(secret) IN
  /\ armed /\ Len(echoed) < MaxEcho
  /\ echoed' = Append(echoed, c)
  /\ state' = IF whole THEN 0 ELSE held
  /\ out' = out \o (IF whole THEN [i \in 1..held |-> Star]
                    ELSE SubSeq(Append(SubSeq(secret, 1, state), c), 1, state + 1 - held))
  /\ UNCHANGED <<secret, fail, armed>>

\* The window is over: si_echo_redact_flush and si_echo_redact_disarm.
Flush ==
  /\ armed
  /\ out' = out \o [i \in 1..state |-> Star]
  /\ state' = 0 /\ armed' = FALSE
  /\ UNCHANGED <<secret, fail, echoed>>

FilterNext == (\E c \in Bytes : Feed(c)) \/ Flush

FilterSpec == FilterInit /\ [][FilterNext]_filterVars

-------------------------------------------------------------------------------
\* What the filter should write: every occurrence of s, from the left and
\* without overlap, in stars.
Redacted(s, in) ==
  LET from[n \in 1..Len(in) + 1] ==
        IF Len(in) - n + 1 < Len(s) THEN SubSeq(in, n, Len(in))
        ELSE IF SubSeq(in, n, n + Len(s) - 1) = s
             THEN [i \in 1..Len(s) |-> Star] \o from[n + Len(s)]
             ELSE <<in[n]>> \o from[n + 1]
  IN from[1]

(* The matcher, which sees a byte at a time and keeps only a number, writes *)
(* what a search through the whole echo would; what is not yet written is   *)
(* exactly the prefix it holds.                                             *)
OutIsRedaction ==
  armed => out \o SubSeq(secret, 1, state) = Redacted(secret, echoed)

(* No prefix of the secret that was still held when the window ended is     *)
(* written: whatever is at the end of the output was not held back.         *)
TailIsStarred ==
  ~armed => LET r == Redacted(secret, echoed)
                n == CHOOSE k \in 0..Len(secret) - 1 :
                       /\ k <= Len(r) /\ SubSeq(r, Len(r) - k + 1, Len(r)) = SubSeq(secret, 1, k)
                       /\ \A j \in k + 1..Len(secret) - 1 :
                            j > Len(r) \/ SubSeq(r, Len(r) - j + 1, Len(r)) # SubSeq(secret, 1, j)
            IN out = SubSeq(r, 1, Len(r) - n) \o [i \in 1..n |-> Star]

-------------------------------------------------------------------------------
(* Writing to the line (si_target_uart_write and wait_tx_space).  The       *)
(* driver's own write spins while its ring is full, so a writer waits, for  *)
(* a bounded time and under a mutex, until the whole message fits with room *)
(* to spare, and then hands it over in chunks.                              *)

CONSTANTS
  Writers,
  Lengths,   \* lengths of messages
  Ring,      \* TARGET_UART_DRIVER_TX_BYTES
  Chunk,     \* TARGET_UART_TX_CHUNK
  Overhead,  \* TARGET_UART_TX_ITEM_OVERHEAD
  None

VARIABLES
  pc,      \* "idle", "locking", "room", "chunk", "done"
  len,     \* the writer's message
  sent,    \* bytes of it handed over
  used,    \* bytes of the ring in use
  mutex,   \* s_tx_mutex
  wire     \* history: whose chunks went out, repetitions left out

writeVars == <<pc, len, sent, used, mutex, wire>>

Free == Ring - used
Chunks(n) == (n + Chunk - 1) \div Chunk

\* What the first wait asks for.
Room(n) == n + Chunks(n) * Overhead + 2 * (Chunk + Overhead)

\* The next chunk of w's message, and what its wait asks for.
Piece(w) == IF len[w] - sent[w] < Chunk THEN len[w] - sent[w] ELSE Chunk
RoomForPiece(w) == 2 * (Piece(w) + Overhead)

-------------------------------------------------------------------------------
Start(w, n) ==
  /\ pc[w] = "idle"
  /\ pc' = [pc EXCEPT ![w] = "locking"]
  /\ len' = [len EXCEPT ![w] = n]
  /\ UNCHANGED <<sent, used, mutex, wire>>

Lock(w) ==
  /\ pc[w] = "locking" /\ mutex = None
  /\ mutex' = w /\ pc' = [pc EXCEPT ![w] = "room"]
  /\ UNCHANGED <<len, sent, used, wire>>

\* The mutex does not come free within the time.
LockTimeout(w) ==
  /\ pc[w] = "locking" /\ mutex # None
  /\ pc' = [pc EXCEPT ![w] = "done"]
  /\ UNCHANGED <<len, sent, used, mutex, wire>>

HaveRoom(w) ==
  /\ pc[w] = "room" /\ Free >= Room(len[w])
  /\ pc' = [pc EXCEPT ![w] = "chunk"]
  /\ UNCHANGED <<len, sent, used, mutex, wire>>

\* The time is up while a wait for room lasts, the first or a chunk's.
NoRoom(w) ==
  /\ pc[w] \in {"room", "chunk"} /\ sent[w] < len[w]
  /\ Free < IF pc[w] = "room" THEN Room(len[w]) ELSE RoomForPiece(w)
  /\ pc' = [pc EXCEPT ![w] = "done"]
  /\ mutex' = IF mutex = w THEN None ELSE mutex
  /\ UNCHANGED <<len, sent, used, wire>>

\* uart_write_bytes: a chunk takes its bytes and up to Overhead more.
WriteChunk(w, extra) ==
  /\ pc[w] = "chunk" /\ sent[w] < len[w] /\ Free >= RoomForPiece(w)
  /\ sent' = [sent EXCEPT ![w] = @ + Piece(w)]
  /\ used' = used + Piece(w) + extra
  /\ wire' = IF wire # <<>> /\ wire[Len(wire)] = w THEN wire ELSE Append(wire, w)
  /\ UNCHANGED <<pc, len, mutex>>

Unlock(w) ==
  /\ pc[w] = "chunk" /\ sent[w] = len[w]
  /\ pc' = [pc EXCEPT ![w] = "done"]
  /\ mutex' = IF mutex = w THEN None ELSE mutex
  /\ UNCHANGED <<len, sent, used, wire>>

\* The line takes a byte out of the ring.
Drain ==
  /\ used > 0 /\ used' = used - 1
  /\ UNCHANGED <<pc, len, sent, mutex, wire>>

WriteInit ==
  /\ pc = [w \in Writers |-> "idle"]
  /\ len = [w \in Writers |-> 0] /\ sent = len
  /\ used \in 0..Ring /\ mutex = None /\ wire = <<>>

WriteNext ==
  \/ \E w \in Writers, n \in Lengths : Start(w, n)
  \/ \E w \in Writers : Lock(w) \/ LockTimeout(w) \/ HaveRoom(w) \/ NoRoom(w) \/ Unlock(w)
  \/ \E w \in Writers, extra \in 0..Overhead : WriteChunk(w, extra)
  \/ Drain

WriteSpec == WriteInit /\ [][WriteNext]_writeVars

-------------------------------------------------------------------------------
(* A message is written as a whole or not at all: once the first wait has   *)
(* found room, no chunk of it has to wait, so the deadline cannot cut it.   *)
WholeOrNothing == \A w \in Writers : pc[w] = "done" => sent[w] \in {0, len[w]}

(* The chunks of two messages never alternate on the line.                  *)
NotInterleaved ==
  \A i, j \in 1..Len(wire) : wire[i] = wire[j] => i = j
===============================================================================
