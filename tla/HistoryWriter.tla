--------------------------- MODULE HistoryWriter ---------------------------
(***************************************************************************)
(* The conversation history writer, infrastructure/agent_history_writer.c: *)
(* callers hand a turn (a user and an assistant record) to one writer task *)
(* through a pool of slots and a queue of slot numbers and wait, bounded,  *)
(* for its answer.  The slots are guarded by s_writer_lock, the file by    *)
(* the repository's lock (module AgentRepository); the caller's waiting    *)
(* flag is atomic and may be cleared without the slots' lock.              *)
(***************************************************************************)
EXTENDS AgentRepository

CONSTANTS
    Callers, Turns,
    PoolSize,   \* SI_AGENT_HISTORY_WRITER_QUEUE_CAPACITY
    MaxGen      \* bound: uses of each slot

VARIABLES
    slots,      \* s_writer_slots and s_writer_turns
    queue,      \* s_writer_queue
    worker,     \* history_writer_task: where it is and what it knows
    caller,     \* the callers inside store_turn
    claimed,    \* history: turns whose result is "saved" since the history was cleared
    glued       \* history: records acknowledged behind another, torn record

writerRest == <<mem, ckpt, tmp, stored, newest, gap>>
ghosts == <<claimed, glued>>
vars == <<repoVars, slots, queue, worker, caller, ghosts>>

Pool == 1..PoolSize
User(turn) == <<turn, "user">>
Assistant(turn) == <<turn, "assistant">>

\* What the parameters are; no record parses as a fragment.
WriterBounds ==
    /\ PoolSize \in Nat /\ MaxGen \in [1..PoolSize -> Nat]
    /\ \A turn \in Turns : Raw \notin {User(turn), Assistant(turn)}

IdleWorker == [pc |-> "idle"]
IdleCaller == [pc |-> "idle", answer |-> "none", woke |-> FALSE, late |-> FALSE]
FreeSlot == [state |-> "free", gen |-> 0, waiting |-> FALSE, done |-> FALSE]

WriterInit ==
    /\ RepositoryInit
    /\ slots = [i \in Pool |-> FreeSlot] /\ queue = <<>> /\ worker = IdleWorker
    /\ caller = [c \in Callers |-> IdleCaller] /\ claimed = {} /\ glued = {}

----------------------------------------------------------------------------
\* si_agent_history_writer_store_turn, up to the release of the slots' lock.
\* With no free slot it answers "queue full" and nothing changes.

ClaimSlot(c, turn) ==
    \E i \in Pool :
       /\ caller[c].pc = "idle" /\ slots[i].state = "free" /\ slots[i].gen < MaxGen[i]
       /\ \A j \in Pool : slots[j].state = "free" => i <= j
       /\ slots' = [slots EXCEPT ![i] = [state |-> "queued", gen |-> @.gen + 1,
                                         waiting |-> TRUE, done |-> FALSE, turn |-> turn]]
       /\ caller' = [caller EXCEPT ![c] =
                       [pc |-> "send", slot |-> i, gen |-> slots[i].gen + 1,
                        turn |-> turn, answer |-> "none", woke |-> FALSE, late |-> FALSE]]
       /\ UNCHANGED <<repoVars, queue, worker, ghosts>>

Answer(c, answer, late) ==
    caller' = [caller EXCEPT ![c] = [IdleCaller EXCEPT !.answer = answer, !.late = late,
                                                       !.woke = caller[c].woke]]

\* The queue has a place for every slot; were it full the slot would be given
\* back without the lock.
SendSlot(c) ==
    LET i == caller[c].slot
    IN  /\ caller[c].pc = "send"
        /\ IF Len(queue) < PoolSize
           THEN /\ queue' = Append(queue, i) /\ UNCHANGED slots
                /\ caller' = [caller EXCEPT ![c].pc = "wait"]
           ELSE /\ slots' = [slots EXCEPT ![i] = [@ EXCEPT !.state = "free", !.waiting = FALSE]]
                /\ Answer(c, "full", FALSE) /\ UNCHANGED queue
        /\ UNCHANGED <<repoVars, worker, ghosts>>

Signalled(c) ==
    /\ caller[c].pc = "wait" /\ slots[caller[c].slot].done
    /\ slots' = [slots EXCEPT ![caller[c].slot].done = FALSE]
    /\ caller' = [caller EXCEPT ![c] = [@ EXCEPT !.pc = "read", !.woke = TRUE]]
    /\ UNCHANGED <<repoVars, queue, worker, ghosts>>

WaitExpires(c) ==
    /\ caller[c].pc = "wait"
    /\ caller' = [caller EXCEPT ![c].pc = "read"]
    /\ UNCHANGED <<repoVars, slots, queue, worker, ghosts>>

\* With the slots' lock: the answer is there, or the slot stays the writer's.
ReadResult(c) ==
    LET i == caller[c].slot
        own == slots[i].gen = caller[c].gen
        done == own /\ slots[i].state = "complete"
    IN  /\ caller[c].pc = "read"
        /\ slots' = IF ~own THEN slots
                    ELSE [slots EXCEPT ![i] =
                            [@ EXCEPT !.waiting = FALSE,
                                      !.state = IF done THEN "free" ELSE slots[i].state]]
        /\ Answer(c, IF ~own THEN "invalid"
                     ELSE IF ~done THEN "pending"
                     ELSE IF slots[i].saved THEN "saved" ELSE "failed", FALSE)
        /\ UNCHANGED <<repoVars, queue, worker, ghosts>>

\* The slots' lock is not free in time: the flag is cleared without it, and the
\* answer is "pending" whether or not the writer has given its signal.
AbandonResult(c) ==
    /\ caller[c].pc = "read"
    /\ slots' = [slots EXCEPT ![caller[c].slot].waiting = FALSE]
    /\ Answer(c, "pending", TRUE)
    /\ UNCHANGED <<repoVars, queue, worker, ghosts>>

----------------------------------------------------------------------------
\* history_writer_task.
TakeSlot ==
    LET i == Head(queue)
    IN  /\ worker.pc = "idle" /\ queue # <<>>
        /\ queue' = Tail(queue)
        /\ IF slots[i].state = "queued"
           THEN /\ slots' = [slots EXCEPT ![i].state = "writing"]
                /\ worker' = [pc |-> "lock", slot |-> i, gen |-> slots[i].gen, saved |-> FALSE]
           ELSE UNCHANGED <<slots, worker>>
        /\ UNCHANGED <<repoVars, caller, ghosts>>

\* Answers nobody waits for any more, looked for when the queue is idle.
ReapAbandoned ==
    /\ worker.pc = "idle" /\ queue = <<>>
    /\ \E i \in Pool : slots[i].state = "complete" /\ ~slots[i].waiting
    /\ slots' = [i \in Pool |-> IF slots[i].state = "complete" /\ ~slots[i].waiting
                                THEN [slots[i] EXCEPT !.state = "free"] ELSE slots[i]]
    /\ UNCHANGED <<repoVars, queue, worker, caller, ghosts>>

\* The turn is the slot's copy, read when it is written.
Turn == slots[worker.slot].turn

\* The repository's lock times out, or the file cannot be used.
RepositoryUnavailable ==
    /\ worker.pc = "lock"
    /\ worker' = [worker EXCEPT !.pc = "publish"]
    /\ UNCHANGED <<repoVars, slots, queue, caller, ghosts>>

\* Mutant: nothing is looked up, every turn is taken for a new one.
ScanNothing(turn) == [user |-> FALSE, assistant |-> FALSE]

ScanIds(turn) ==
    [user |-> Holds(hist, User(turn)), assistant |-> Holds(hist, Assistant(turn))]

\* An assistant record without its user record is refused.
LockAndScan ==
    LET found == ScanIds(Turn)
        pc == IF found.assistant THEN "unlock" ELSE IF found.user THEN "assistant" ELSE "user"
    IN  /\ worker.pc = "lock" /\ lock = Unlocked
        /\ lock' = [op |-> "writer"]
        /\ worker' = [worker EXCEPT !.pc = pc, !.saved = found.user /\ found.assistant]
        /\ UNCHANGED <<hist, faults, writerRest, slots, queue, caller, ghosts>>

\* After a failed append the file is read again: the record may be there.
Told(r, ok) == IF ok THEN {TRUE} ELSE IF Holds(hist', r) THEN BOOLEAN ELSE {FALSE}

\* An append that is told to have worked, behind the torn line of another record.
Glued(r, ok) == IF ok /\ ~HasNewline(hist) /\ Last(hist).rec # r THEN {r} ELSE {}

AppendUser(ok) ==
    /\ worker.pc = "user" /\ HistoryAppend(User(Turn), ok)
    /\ \E told \in Told(User(Turn), ok) :
         worker' = [worker EXCEPT !.pc = IF told THEN "assistant" ELSE "unlock"]
    /\ glued' = glued \cup Glued(User(Turn), ok)
    /\ UNCHANGED <<lock, writerRest, slots, queue, caller, claimed>>

AppendAssistant(ok) ==
    /\ worker.pc = "assistant" /\ HistoryAppend(Assistant(Turn), ok)
    /\ \E told \in Told(Assistant(Turn), ok) :
         worker' = [worker EXCEPT !.pc = "unlock", !.saved = told]
    /\ glued' = glued \cup Glued(Assistant(Turn), ok)
    /\ UNCHANGED <<lock, writerRest, slots, queue, caller, claimed>>

UnlockRepository ==
    /\ worker.pc = "unlock"
    /\ worker' = [worker EXCEPT !.pc = "publish"] /\ lock' = Unlocked
    /\ claimed' = claimed \cup (IF worker.saved THEN {Turn} ELSE {})
    /\ UNCHANGED <<hist, faults, writerRest, slots, queue, caller, glued>>

Publish ==
    LET i == worker.slot
    IN  /\ worker.pc = "publish" /\ worker' = IdleWorker
        /\ slots' = IF slots[i].state # "writing" \/ slots[i].gen # worker.gen THEN slots
                    ELSE IF slots[i].waiting
                    THEN [slots EXCEPT ![i] = [state |-> "complete", gen |-> @.gen, done |-> TRUE,
                                               waiting |-> TRUE, turn |-> @.turn,
                                               saved |-> worker.saved]]
                    ELSE [slots EXCEPT ![i].state = "free"]
        /\ UNCHANGED <<repoVars, queue, caller, ghosts>>

\* Somebody clears the history between two turns.
ClearTurns ==
    /\ lock = Unlocked /\ hist # <<>> /\ hist' = <<>> /\ claimed' = {} /\ glued' = {}
    /\ UNCHANGED <<lock, faults, writerRest, slots, queue, worker, caller>>

\* A reset, perhaps in the middle of a write: the card keeps the file.
ResetWriter ==
    /\ faults < MaxFaults /\ faults' = faults + 1
    /\ hist' \in {hist}
          \cup (IF worker.pc = "user" THEN {Written(hist, User(Turn), o) : o \in Outcomes} ELSE {})
          \cup (IF worker.pc = "assistant"
                THEN {Written(hist, Assistant(Turn), o) : o \in Outcomes} ELSE {})
    /\ lock' = Unlocked /\ queue' = <<>> /\ worker' = IdleWorker
    /\ slots' = [i \in Pool |-> [FreeSlot EXCEPT !.gen = slots[i].gen]]
    /\ caller' = [c \in Callers |-> IdleCaller]
    /\ UNCHANGED <<writerRest, ghosts>>

----------------------------------------------------------------------------
WorkerNext ==
    \/ TakeSlot \/ ReapAbandoned \/ RepositoryUnavailable \/ LockAndScan
    \/ \E ok \in BOOLEAN : AppendUser(ok) \/ AppendAssistant(ok)
    \/ UnlockRepository \/ Publish

CallerNext(c) ==
    SendSlot(c) \/ Signalled(c) \/ WaitExpires(c) \/ ReadResult(c) \/ AbandonResult(c)

Next ==
    \/ \E c \in Callers : CallerNext(c) \/ \E turn \in Turns : ClaimSlot(c, turn)
    \/ WorkerNext \/ ClearTurns \/ ResetWriter

Spec == WriterInit /\ [][Next]_vars

\* The writer is a task of its own and every wait of a caller is bounded.
FairSpec == Spec /\ WF_vars(WorkerNext) /\ \A c \in Callers : WF_vars(CallerNext(c))

----------------------------------------------------------------------------
\* The slots and the queue: a slot number is queued at most once, and only
\* while its slot waits for the writer; the queue always has room for a claimed
\* slot.
WriterTypeOK ==
    /\ \A i \in Pool : slots[i].state \in {"free", "queued", "writing", "complete"}
                       /\ slots[i].gen \in Nat
    /\ IsInjective(queue)
    /\ \A k \in 1..Len(queue) : queue[k] \in Pool /\ slots[queue[k]].state = "queued"
    /\ \A c \in Callers : caller[c].pc = "send" => Len(queue) < PoolSize

\* A record is in the history at most once, whoever retries a turn and whatever
\* failed while it was stored (history_write_turn_locked looks the ids up first),
\* unless its turn's user record went behind a torn line: then the append ended
\* that line, which may have been the very record that was not found before.
NoRecordTwice ==
    \A i, j \in 1..Len(hist) :
       (hist[i].nl /\ hist[j].nl /\ hist[i].rec = hist[j].rec /\ hist[i].rec # Raw) =>
          i = j \/ \E turn \in Turns : hist[i].rec = Assistant(turn) /\ User(turn) \in glued

\* An answer never stands before its question: every assistant record is
\* preceded by the user record of its turn ("one ordered user -> assistant
\* pair"), unless that one went behind a torn line.
PairInOrder ==
    \A j \in 1..Len(hist) : \A turn \in Turns :
       hist[j].rec = Assistant(turn) =>
          \/ \E i \in 1..j - 1 : hist[i].nl /\ hist[i].rec = User(turn)
          \/ User(turn) \in glued

\* A turn that was answered "saved" can be read until the history is cleared,
\* but for a record of it that went behind a torn line: "durably present" in
\* agent_history_writer.h does not hold of that one.
SavedTurnIsRead ==
    \A turn \in claimed : \A r \in {User(turn), Assistant(turn)} : Holds(hist, r) \/ r \in glued

\* A caller is told "pending" only when its own wait expired or it could not have
\* the slots' lock: no signal meant for an earlier user of the slot wakes it.
NoFalsePending ==
    \A c \in Callers : caller[c].answer = "pending" => ~caller[c].woke \/ caller[c].late
=============================================================================
