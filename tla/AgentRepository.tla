-------------------------- MODULE AgentRepository --------------------------
(***************************************************************************)
(* The agent's files on the TF card, infrastructure/agent_repository.c:    *)
(* HIST.LOG and MEMORY.LOG, one JSON record per line, and RUN.CHECKPOINT   *)
(* with its temporary file.  One mutex serialises every operation; a reset *)
(* or a card failure can stop an operation between any two of its writes.  *)
(*                                                                         *)
(* A file is a sequence of lines.  A line keeps the record that parsing it *)
(* yields (Raw for a fragment) and whether it ends in a newline: readers *)
(* skip a line that does not, and text appended to such a line is glued to *)
(* it (the JSON parser stops after the line's first value).                *)
(***************************************************************************)
EXTENDS Naturals, Sequences, SequencesExt

CONSTANTS
    Memories,   \* records that are put in MEMORY.LOG
    Jobs,       \* runs that have a checkpoint
    MaxLines,   \* AGENT_HISTORY_FILE_MAX_BYTES, in lines
    MaxFaults,  \* bound: resets and failed writes
    NoJob,      \* there is no checkpoint
    Raw         \* what a fragment of a record parses as

VARIABLES
    hist,       \* HIST.LOG
    mem,        \* MEMORY.LOG
    ckpt,       \* RUN.CHECKPOINT: the job and whether page context is in it
    tmp,        \* RUN.CHECKPOINT.TMP
    lock,       \* s_agent_history_lock and what its holder has still to do
    stored,     \* history: memory records whose append was acknowledged
    newest,     \* history: the checkpoint last committed and not cleared
    gap,        \* history: a write broke off between its remove and its rename
    faults

\* How much of an append that is told to have failed reaches the card.
Outcomes == {"nothing", "fragment", "unterminated", "line"}

\* What the parameters are.
FilesBounds == MaxLines \in Nat /\ MaxFaults \in Nat

repoVars == <<hist, mem, ckpt, tmp, lock, stored, newest, gap, faults>>

Unlocked == [op |-> "free"]
NoCheckpoint == [job |-> NoJob, context |-> FALSE]
Checkpoints == [job : Jobs, context : BOOLEAN]
HasNewline(file) == file = <<>> \/ Last(file).nl

\* What a reader finds: complete lines, in order.
Holds(file, r) == \E i \in 1..Len(file) : file[i].nl /\ file[i].rec = r

\* Writing a record behind whatever the file ends with.
Written(file, r, outcome) ==
    IF outcome = "nothing" THEN file
    ELSE IF HasNewline(file)
    THEN Append(file, [rec |-> IF outcome = "fragment" THEN Raw ELSE r,
                       nl |-> outcome = "line"])
    ELSE [file EXCEPT ![Len(file)].nl = outcome = "line"]

\* agent_history_file_append_locked: a failed write is rolled back, which may
\* fail too.  ok tells what the caller is told.
HistoryAppend(r, ok) ==
    \/ ok /\ Len(hist) < MaxLines /\ hist' = Written(hist, r, "line") /\ UNCHANGED faults
    \/ ~ok /\ Len(hist) >= MaxLines /\ UNCHANGED <<hist, faults>>
    \/ /\ ~ok /\ faults < MaxFaults /\ faults' = faults + 1
       /\ \E outcome \in Outcomes : hist' = Written(hist, r, outcome)

\* The memory file is closed with a newline before anything is appended.
Ended(file) == IF HasNewline(file) THEN file ELSE [file EXCEPT ![Len(file)].nl = TRUE]

MemoryAppend(r) ==
    /\ lock = Unlocked /\ Len(mem) < MaxLines
    /\ \/ /\ mem' = Written(Ended(mem), r, "line")
          /\ stored' = stored \cup {r} /\ UNCHANGED faults
       \/ /\ faults < MaxFaults /\ faults' = faults + 1
          /\ \E outcome \in Outcomes : mem' = Written(Ended(mem), r, outcome)
          /\ UNCHANGED stored
    /\ UNCHANGED <<hist, ckpt, tmp, lock, newest, gap>>

----------------------------------------------------------------------------
\* The checkpoint is written to a temporary file which then takes its place.
\* The steps below are those of run_checkpoint_write_locked: write, remove the
\* old one, rename.  next is what the file is to hold.
Begin(op, next) ==
    /\ lock = Unlocked
    /\ lock' = [op |-> op, next |-> next]
    /\ UNCHANGED <<hist, mem, ckpt, tmp, stored, newest, gap, faults>>

CheckpointWrite(c) == Begin("write", c)

WriteTmp ==
    /\ lock.op = "write"
    /\ \/ tmp' = lock.next /\ lock' = [lock EXCEPT !.op = "remove"] /\ UNCHANGED faults
       \/ faults < MaxFaults /\ faults' = faults + 1 /\ tmp' = NoCheckpoint /\ lock' = Unlocked
    /\ UNCHANGED <<hist, mem, ckpt, stored, newest, gap>>

\* The result of the remove is not looked at.
RemoveOld ==
    /\ lock.op = "remove" /\ lock' = [lock EXCEPT !.op = "rename"]
    /\ \/ ckpt' = NoCheckpoint /\ UNCHANGED faults
       \/ faults < MaxFaults /\ faults' = faults + 1 /\ UNCHANGED ckpt
    /\ UNCHANGED <<hist, mem, tmp, stored, newest, gap>>

\* The file system renames onto no file that exists.  A rename that fails
\* removes the temporary file too: when the old copy is gone, so are both.
Rename ==
    /\ lock.op = "rename" /\ tmp' = NoCheckpoint /\ lock' = Unlocked
    /\ \/ /\ ckpt = NoCheckpoint /\ ckpt' = tmp /\ newest' = tmp /\ gap' = FALSE
          /\ UNCHANGED faults
       \/ /\ ckpt = NoCheckpoint /\ faults < MaxFaults /\ faults' = faults + 1
          /\ gap' = TRUE /\ UNCHANGED <<ckpt, newest>>
       \/ ckpt # NoCheckpoint /\ UNCHANGED <<ckpt, newest, gap, faults>>
    /\ UNCHANGED <<hist, mem, stored>>

\* The two operations that read the file first keep the lock for the rest.
RevokePageContext ==
    /\ ckpt # NoCheckpoint /\ ckpt.context
    /\ Begin("write", [ckpt EXCEPT !.context = FALSE])

ClearIfJob(job) == ckpt # NoCheckpoint /\ ckpt.job = job /\ Begin("unlink", ckpt)

\* A remove that fails leaves everything.
Unlink ==
    /\ lock.op = "unlink" /\ lock' = Unlocked
    /\ \/ /\ ckpt' = NoCheckpoint /\ tmp' = NoCheckpoint /\ gap' = FALSE
          /\ newest' = IF newest.job = lock.next.job THEN NoCheckpoint ELSE newest
          /\ UNCHANGED faults
       \/ faults < MaxFaults /\ faults' = faults + 1 /\ UNCHANGED <<ckpt, tmp, newest, gap>>
    /\ UNCHANGED <<hist, mem, stored>>

\* The temporary file goes whether or not the other one could be removed.
CheckpointClear ==
    /\ lock = Unlocked /\ tmp' = NoCheckpoint
    /\ \/ /\ ckpt' = NoCheckpoint /\ newest' = NoCheckpoint /\ gap' = FALSE
          /\ UNCHANGED faults
       \/ faults < MaxFaults /\ faults' = faults + 1 /\ UNCHANGED <<ckpt, newest, gap>>
    /\ UNCHANGED <<hist, mem, lock, stored>>

\* agent_repository_clear_locked: one after the other, stopping at the first
\* that fails (whose file may be empty all the same).
Clear(history, memory, checkpoint) ==
    /\ lock = Unlocked
    /\ \/ /\ hist' = IF history THEN <<>> ELSE hist
          /\ mem' = IF memory THEN <<>> ELSE mem
          /\ stored' = IF memory THEN {} ELSE stored
          /\ IF checkpoint
             THEN ckpt' = NoCheckpoint /\ tmp' = NoCheckpoint /\ newest' = NoCheckpoint /\ gap' = FALSE
             ELSE UNCHANGED <<ckpt, tmp, newest, gap>>
          /\ UNCHANGED faults
       \/ /\ faults < MaxFaults /\ faults' = faults + 1
          /\ hist' \in {hist} \cup (IF history THEN {<<>>} ELSE {})
          /\ mem' \in {mem} \cup (IF memory /\ (history => hist' = <<>>) THEN {<<>>} ELSE {})
          /\ stored' = IF mem' = <<>> THEN {} ELSE stored
          /\ tmp' \in {tmp} \cup (IF checkpoint /\ mem' = <<>> THEN {NoCheckpoint} ELSE {})
          /\ UNCHANGED <<ckpt, newest, gap>>
    /\ UNCHANGED lock

ClearHistory == Clear(TRUE, FALSE, FALSE)
ClearMemory == Clear(FALSE, TRUE, FALSE)
ClearAll == Clear(TRUE, TRUE, TRUE)

\* A reset between two steps: the files stay and the lock is gone.  Nothing
\* looks for a temporary file that was not renamed.
Reset ==
    /\ faults < MaxFaults /\ faults' = faults + 1
    /\ lock' = Unlocked
    /\ gap' = (gap \/ (lock.op = "rename" /\ ckpt = NoCheckpoint))
    /\ UNCHANGED <<hist, mem, ckpt, tmp, stored, newest>>

RepositoryInit ==
    /\ hist = <<>> /\ mem = <<>> /\ ckpt = NoCheckpoint /\ tmp = NoCheckpoint
    /\ lock = Unlocked /\ stored = {} /\ newest = NoCheckpoint /\ gap = FALSE /\ faults = 0

RepositoryNext ==
    \/ \E r \in Memories : MemoryAppend(r)
    \/ \E c \in Checkpoints : CheckpointWrite(c)
    \/ \E job \in Jobs : ClearIfJob(job)
    \/ RevokePageContext \/ WriteTmp \/ RemoveOld \/ Rename \/ Unlink
    \/ CheckpointClear \/ ClearHistory \/ ClearMemory \/ ClearAll \/ Reset

RepositorySpec == RepositoryInit /\ [][RepositoryNext]_repoVars

----------------------------------------------------------------------------
\* Lines hold records or fragments, and the lock its holder's next step.
RepositoryTypeOK ==
    /\ mem \in Seq([rec : Memories \cup {Raw}, nl : BOOLEAN]) /\ Len(mem) <= MaxLines
    /\ ckpt \in Checkpoints \cup {NoCheckpoint} /\ tmp \in Checkpoints \cup {NoCheckpoint}
    /\ lock \in [op : {"write", "remove", "rename", "unlink"}, next : Checkpoints] \cup {Unlocked}
    /\ stored \subseteq Memories /\ gap \in BOOLEAN /\ faults \in 0..MaxFaults

\* A memory record that was acknowledged can be read until the file is cleared,
\* whatever failed before or after it: agent_memory_file_append_locked ends a
\* torn line before it writes.
StoredMemoryIsRead == \A r \in stored : Holds(mem, r)

\* Between operations the file holds the newest checkpoint that was committed:
\* a run that ended never clears a newer run's, and a revocation never writes
\* an older one back (the comment of run_checkpoint_clear_if_job_id).  The one
\* way to lose it is a write that breaks off between the remove of the old file
\* and the rename of the new one; then there is none, never another one.
NewestCheckpointIsKept ==
    lock = Unlocked => ckpt = newest \/ (gap /\ ckpt = NoCheckpoint)
=============================================================================
