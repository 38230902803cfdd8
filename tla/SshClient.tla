------------------------------ MODULE SshClient -------------------------------
(***************************************************************************)
(* The SSH client (main/services/ssh_client.c) and the record of known     *)
(* host keys (main/services/ssh_hostkey_store.c).  Commands and shells     *)
(* share one binary semaphore that the caller takes and, for a shell, the  *)
(* worker gives back.  A worker drives libssh2 without blocking: each call *)
(* is repeated while it returns EAGAIN, until a deadline or a cancel.  The *)
(* host key is looked up by a broker task that may outlive its caller.     *)
(***************************************************************************)
EXTENDS Naturals, Sequences, FiniteSets, TLC

CONSTANTS
  Execs,     \* commands, each run once
  Shells,    \* interactive shells, each opened once
  Keys,      \* host keys the peer at the one address may present
  None,
  Fresh,     \* TRUE: no session was opened since boot, s_ssh_lock is NULL
  MaxFaults  \* bound: allocations and saves that fail, waits that run out

\* What the parameters are; s_ssh_lock exists.
SshBounds == None \notin Keys /\ Execs \cap Shells = {} /\ Fresh = FALSE

Jobs == Execs \cup Shells

VARIABLES
  lock,    \* the semaphores made so far and whether each is free
  sem,     \* s_ssh_lock: 0 or the index of the current one
  pc,      \* the phase of each job's worker
  owner,   \* the caller of each job
  cancel,  \* cancel_cb says so; stop_requested
  late,    \* the deadline has passed
  held,    \* socket, session and channel of each worker
  secret,  \* the copy of the configuration in the job's context
  key,     \* the key the peer presented to each job
  known,   \* the key recorded for the peer
  active,  \* s_ssh_hostkey_broker_active
  req,     \* each job's request: references, result, what the broker does
  input,   \* the shell's stream buffer
  typed,   \* ghost: what reached the peer's shell
  faults

keyVars  == <<known, active, req>>
vars == <<lock, sem, pc, owner, cancel, late, held, secret, key, known, active,
          req, input, typed, faults>>

NoRequest == [refs |-> 0, res |-> "none", broker |-> "none"]

\* What follows when a phase of the worker has succeeded.
ExecPhases  == <<"connect", "handshake", "hostkey", "auth", "channel", "exec",
                 "stdin", "io", "close", "teardown">>
ShellPhases == <<"connect", "handshake", "hostkey", "auth", "channel", "pty",
                 "shell", "io", "teardown">>

PhasesOf(j) == IF j \in Execs THEN ExecPhases ELSE ShellPhases
PhaseSet(j) == {PhasesOf(j)[i] : i \in DOMAIN PhasesOf(j)}
After(j) ==
  PhasesOf(j)[1 + CHOOSE i \in DOMAIN PhasesOf(j) : PhasesOf(j)[i] = pc[j]]

\* The phases that repeat a call of libssh2.
Repeats == {"connect", "handshake", "auth", "channel", "exec", "stdin", "pty",
            "shell", "close"}

\* What a phase leaves in the worker's hands.
Gains(p) == CASE p = "connect" -> {"socket", "session"}
              [] p = "channel" -> {"channel"}
              [] OTHER -> {}

-------------------------------------------------------------------------------
(* Callers *)

Give(x) == lock' = [lock EXCEPT ![x] = TRUE]

\* ensure_ssh_lock looks at s_ssh_lock ...
Ensure(j) ==
  /\ owner[j] = "idle"
  /\ owner' = [owner EXCEPT ![j] = IF sem = 0 THEN "making" ELSE "taking"]
  /\ UNCHANGED <<lock, sem, pc, cancel, late, held, secret, key, keyVars, input,
                 typed, faults>>

\* ... and makes it when it was not there.
MakeLock(j) ==
  /\ owner[j] = "making"
  /\ lock' = Append(lock, TRUE)
  /\ sem' = Len(lock) + 1
  /\ owner' = [owner EXCEPT ![j] = "taking"]
  /\ UNCHANGED <<pc, cancel, late, held, secret, key, keyVars, input, typed,
                 faults>>

\* si_ssh_exec and si_ssh_shell_start: busy after 100 ms, out of memory, or a
\* worker with a copy of the configuration.
Start(j) ==
  /\ owner[j] = "taking"
  /\ \/ /\ ~lock[sem]
        /\ owner' = [owner EXCEPT ![j] = "gone"]
        /\ UNCHANGED <<lock, pc, secret, faults>>
     \/ /\ lock[sem] /\ faults < MaxFaults
        /\ faults' = faults + 1
        /\ owner' = [owner EXCEPT ![j] = "gone"]
        /\ UNCHANGED <<lock, pc, secret>>
     \/ /\ lock[sem]
        /\ lock' = [lock EXCEPT ![sem] = FALSE]
        /\ owner' = [owner EXCEPT ![j] = "open"]
        /\ secret' = [secret EXCEPT ![j] = TRUE]
        /\ pc' = [pc EXCEPT ![j] = "connect"]
        /\ UNCHANGED faults
  /\ UNCHANGED <<sem, cancel, late, held, key, keyVars, input, typed>>

\* The end of si_ssh_exec: it waits for the worker, however long that takes.
ExecReturn(j) ==
  /\ j \in Execs /\ owner[j] = "open" /\ pc[j] = "suspended"
  /\ owner' = [owner EXCEPT ![j] = "gone"]
  /\ secret' = [secret EXCEPT ![j] = FALSE]
  /\ cancel' = [cancel EXCEPT ![j] = FALSE]
  /\ late' = [late EXCEPT ![j] = FALSE]
  /\ Give(sem)
  /\ UNCHANGED <<sem, pc, held, key, keyVars, input, typed, faults>>

\* The command's cancel callback begins to say yes.
Cancel(j) ==
  /\ j \in Execs /\ owner[j] = "open" /\ ~cancel[j]
  /\ cancel' = [cancel EXCEPT ![j] = TRUE]
  /\ UNCHANGED <<lock, sem, pc, owner, late, held, secret, key, keyVars, input,
                 typed, faults>>

\* si_ssh_shell_write
ShellWrite(j) ==
  /\ j \in Shells /\ owner[j] = "open" /\ ~cancel[j] /\ Len(input[j]) < 1
  /\ input' = [input EXCEPT ![j] = Append(@, "text")]
  /\ UNCHANGED <<lock, sem, pc, owner, cancel, late, held, secret, key, keyVars,
                 typed, faults>>

\* si_ssh_shell_stop: the flag first, then an EOT byte to wake the worker.
ShellStop(j) ==
  /\ j \in Shells /\ owner[j] = "open"
  /\ owner' = [owner EXCEPT ![j] = "stopping"]
  /\ cancel' = [cancel EXCEPT ![j] = TRUE]
  /\ UNCHANGED <<lock, sem, pc, late, held, secret, key, keyVars, input, typed,
                 faults>>

ShellWake(j) ==
  /\ j \in Shells /\ owner[j] = "stopping"
  /\ owner' = [owner EXCEPT ![j] = "waiting"]
  /\ cancel' = [cancel EXCEPT ![j] = TRUE]
  /\ input' = [input EXCEPT ![j] = Append(@, "wake")]
  /\ UNCHANGED <<lock, sem, pc, late, held, secret, key, keyVars, typed, faults>>

\* ... and frees the shell once the worker has given `done'.
ShellFree(j) ==
  /\ owner[j] = "waiting" /\ pc[j] = "suspended"
  /\ owner' = [owner EXCEPT ![j] = "gone"]
  /\ secret' = [secret EXCEPT ![j] = FALSE]
  /\ cancel' = [cancel EXCEPT ![j] = FALSE]
  /\ late' = [late EXCEPT ![j] = FALSE]
  /\ input' = [input EXCEPT ![j] = <<>>]
  /\ UNCHANGED <<lock, sem, pc, held, key, keyVars, typed, faults>>

-------------------------------------------------------------------------------
(* Workers *)

Goto(j, p) == pc' = [pc EXCEPT ![j] = p]

\* A repeated call succeeds.  A shell looks at stop_requested after each loop,
\* a command only when it has to wait.  A shell forgets the secrets after auth.
Advance(j) ==
  /\ pc[j] \in Repeats
  /\ Goto(j, IF j \in Shells /\ cancel[j] /\ pc[j] # "connect"
             THEN "teardown" ELSE After(j))
  /\ held' = [held EXCEPT ![j] = @ \cup Gains(pc[j])]
  /\ secret' = IF j \in Shells /\ pc[j] = "auth"
               THEN [secret EXCEPT ![j] = FALSE] ELSE secret
  /\ IF pc[j] = "handshake"
       THEN \E k \in Keys : key' = [key EXCEPT ![j] = k] ELSE UNCHANGED key
  /\ UNCHANGED <<lock, sem, owner, cancel, late, keyVars, input, typed, faults>>

\* A call of libssh2 fails, the deadline has passed, or a wait of at most 250 ms
\* ends and finds the cancel.
GiveUp(j) ==
  /\ pc[j] \in Repeats \cup {"io"}
  /\ Goto(j, "teardown")
  /\ held' = [held EXCEPT ![j] = @ \cup (IF pc[j] = "connect" THEN {"socket"} ELSE {})]
  /\ UNCHANGED <<lock, sem, owner, cancel, late, secret, key, keyVars, input,
                 typed, faults>>

\* The two reasons to give up that do not depend on the peer.  A shell that is
\* running has no deadline.
MustGiveUp(j) ==
  /\ cancel[j] \/ (late[j] /\ (j \in Execs \/ pc[j] # "io"))
  /\ GiveUp(j)

\* The channel's end of file.
EndOfFile(j) ==
  /\ pc[j] = "io"
  /\ Goto(j, After(j))
  /\ UNCHANGED <<lock, sem, owner, cancel, late, held, secret, key, keyVars,
                 input, typed, faults>>

\* A running shell takes its input and writes it, unless it is to stop by then.
Type(j) ==
  /\ j \in Shells /\ pc[j] = "io" /\ input[j] # <<>>
  /\ input' = [input EXCEPT ![j] = <<>>]
  /\ IF cancel[j]
       THEN /\ Goto(j, "teardown")
            /\ UNCHANGED typed
       ELSE /\ typed' = typed \cup {input[j][i] : i \in DOMAIN input[j]}
            /\ UNCHANGED pc
  /\ UNCHANGED <<lock, sem, owner, cancel, late, held, secret, key, keyVars,
                 faults>>

\* ssh_teardown: two seconds for the peer to answer, then the socket is shut,
\* so that the calls that free channel and session stop returning EAGAIN.
Teardown(j) ==
  /\ pc[j] = "teardown"
  /\ Goto(j, "ended")
  /\ held' = [held EXCEPT ![j] = {}]
  /\ UNCHANGED <<lock, sem, owner, cancel, late, secret, key, keyVars, input,
                 typed, faults>>

\* ssh_task and ssh_shell_task: a shell's worker gives the semaphore.
WorkerEnd(j) ==
  /\ pc[j] = "ended"
  /\ Goto(j, "suspended")
  /\ IF j \in Shells THEN Give(sem) ELSE UNCHANGED lock
  /\ UNCHANGED <<sem, owner, cancel, late, held, secret, key, keyVars, input,
                 typed, faults>>

\* The deadline of the job passes.
Expire(j) ==
  /\ pc[j] \in PhaseSet(j) \ {"teardown"} /\ ~late[j]
  /\ late' = [late EXCEPT ![j] = TRUE]
  /\ UNCHANGED <<lock, sem, pc, owner, cancel, held, secret, key, keyVars, input,
                 typed, faults>>

-------------------------------------------------------------------------------
(* The host key *)

\* ssh_hostkey_request_release: the last of the two frees the request.
Release(r) == IF r.refs = 1 THEN NoRequest ELSE [r EXCEPT !.refs = @ - 1]

\* Mutant: a broker that is still at work does not keep the next from starting.
AskAnyway(j) ==
  /\ pc[j] = "hostkey" /\ req[j] = NoRequest
  /\ active' = TRUE
  /\ req' = [req EXCEPT ![j] = [refs |-> 2, res |-> "none", broker |-> "read"]]
  /\ UNCHANGED <<lock, sem, pc, owner, cancel, late, held, secret, key, known,
                 input, typed, faults>>

\* si_ssh_hostkey_verify_or_trust up to the wait: busy, out of memory, or asked.
Ask(j) ==
  /\ pc[j] = "hostkey" /\ req[j] = NoRequest
  /\ \/ /\ active
        /\ Goto(j, "teardown")
        /\ UNCHANGED <<active, req, faults>>
     \/ /\ ~active /\ faults < MaxFaults
        /\ faults' = faults + 1
        /\ Goto(j, "teardown")
        /\ UNCHANGED <<active, req>>
     \/ /\ ~active
        /\ active' = TRUE
        /\ req' = [req EXCEPT ![j] = [refs |-> 2, res |-> "none", broker |-> "read"]]
        /\ UNCHANGED <<pc, faults>>
  /\ UNCHANGED <<lock, sem, owner, cancel, late, held, secret, key, known, input,
                 typed>>

\* ssh_hostkey_store_transaction looks the key up ...
BrokerRead(j) ==
  /\ req[j].broker = "read"
  /\ req' = [req EXCEPT ![j] =
       [@ EXCEPT !.broker = IF known = None THEN "write" ELSE "end",
                 !.res = IF known = None THEN "none"
                         ELSE IF known = key[j] THEN "ok" ELSE "changed"]]
  /\ UNCHANGED <<lock, sem, pc, owner, cancel, late, held, secret, key, known,
                 active, input, typed, faults>>

\* The settings cannot be read, other than that nothing is there.
BrokerReadFails(j) ==
  /\ req[j].broker = "read" /\ faults < MaxFaults
  /\ faults' = faults + 1
  /\ req' = [req EXCEPT ![j] = [@ EXCEPT !.broker = "end", !.res = "error"]]
  /\ UNCHANGED <<lock, sem, pc, owner, cancel, late, held, secret, key, known,
                 active, input, typed>>

\* ... and records the first one it sees; a save that fails may have been made.
BrokerWrite(j) ==
  /\ req[j].broker = "write"
  /\ \/ /\ known' = key[j]
        /\ req' = [req EXCEPT ![j] = [@ EXCEPT !.broker = "end", !.res = "ok"]]
        /\ UNCHANGED faults
     \/ /\ faults < MaxFaults
        /\ faults' = faults + 1
        /\ known' \in {known, key[j]}
        /\ req' = [req EXCEPT ![j] = [@ EXCEPT !.broker = "end", !.res = "error"]]
  /\ UNCHANGED <<lock, sem, pc, owner, cancel, late, held, secret, key, active,
                 input, typed>>

\* The end of ssh_hostkey_broker_task.
BrokerEnd(j) ==
  /\ req[j].broker = "end"
  /\ active' = FALSE
  /\ req' = [req EXCEPT ![j] = Release([@ EXCEPT !.broker = "done"])]
  /\ UNCHANGED <<lock, sem, pc, owner, cancel, late, held, secret, key, known,
                 input, typed, faults>>

\* Mutant: the caller frees the request when its wait has run out.
HeardFrees(j) ==
  /\ pc[j] = "hostkey" /\ req[j] # NoRequest
  /\ \/ req[j].broker = "done" /\ UNCHANGED faults
     \/ req[j].broker # "done" /\ faults < MaxFaults /\ faults' = faults + 1
  /\ Goto(j, IF req[j].broker = "done" /\ req[j].res = "ok"
             THEN "auth" ELSE "teardown")
  /\ req' = [req EXCEPT ![j].refs = 0]
  /\ UNCHANGED <<lock, sem, owner, cancel, late, held, secret, key, known, active,
                 input, typed>>

\* The caller hears the result, or has waited five seconds in vain.
Heard(j) ==
  /\ pc[j] = "hostkey" /\ req[j] # NoRequest
  /\ \/ req[j].broker = "done" /\ UNCHANGED faults
     \/ req[j].broker # "done" /\ faults < MaxFaults /\ faults' = faults + 1
  /\ Goto(j, IF req[j].broker = "done" /\ req[j].res = "ok"
             THEN "auth" ELSE "teardown")
  /\ req' = [req EXCEPT ![j] = Release(@)]
  /\ UNCHANGED <<lock, sem, owner, cancel, late, held, secret, key, known, active,
                 input, typed>>

-------------------------------------------------------------------------------

Init ==
  /\ lock = IF Fresh THEN <<>> ELSE <<TRUE>>
  /\ sem = Len(lock)
  /\ pc = [j \in Jobs |-> "none"]
  /\ owner = [j \in Jobs |-> "idle"]
  /\ cancel = [j \in Jobs |-> FALSE]
  /\ late = [j \in Jobs |-> FALSE]
  /\ held = [j \in Jobs |-> {}]
  /\ secret = [j \in Jobs |-> FALSE]
  /\ key = [j \in Jobs |-> None]
  /\ known \in Keys \cup {None}
  /\ active = FALSE
  /\ req = [j \in Jobs |-> NoRequest]
  /\ input = [j \in Jobs |-> <<>>]
  /\ typed = {}
  /\ faults = 0

Broker(j) == BrokerRead(j) \/ BrokerReadFails(j) \/ BrokerWrite(j) \/ BrokerEnd(j)

Ends(j) == Teardown(j) \/ WorkerEnd(j) \/ ExecReturn(j) \/ ShellWake(j)
             \/ ShellFree(j)

Next ==
  \E j \in Jobs :
    \/ Ensure(j) \/ MakeLock(j) \/ Start(j) \/ Cancel(j)
    \/ ShellWrite(j) \/ ShellStop(j) \/ Advance(j) \/ GiveUp(j) \/ EndOfFile(j)
    \/ Type(j) \/ Expire(j) \/ Ask(j) \/ Heard(j) \/ Broker(j) \/ Ends(j)

Spec == Init /\ [][Next]_vars

\* Tasks run and the clock goes on; nothing is asked of the peer.
FairSpec ==
  /\ Spec
  /\ \A j \in Jobs : /\ WF_vars(Expire(j)) /\ WF_vars(MustGiveUp(j))
                     /\ WF_vars(Ask(j)) /\ WF_vars(Heard(j)) /\ WF_vars(Broker(j))
                     /\ WF_vars(Ends(j)) /\ WF_vars(Start(j))

-------------------------------------------------------------------------------
(* One connection at a time: whoever has a socket is the only one, from    *)
(* the semaphore that one task takes to the one another task gives.        *)
SessionsAreSerialized ==
  \A i, j \in Jobs : held[i] # {} /\ held[j] # {} => i = j

(* Passwords and commands go only to a peer whose key is the one on        *)
(* record, also when the broker answers late or its save fails.            *)
SecretsGoToTheKnownHost ==
  \A j \in Jobs :
    pc[j] \in PhaseSet(j) \ {"connect", "handshake", "hostkey", "teardown"}
      => known = key[j]

(* The first key stays: no later connection replaces the record, not even  *)
(* one whose broker read before an earlier, forgotten broker wrote.        *)
FirstKeyStays == known # None => known' = known

(* Nobody frees what another still uses: the request while its broker      *)
(* works on it, and a shell or a command while its worker runs.            *)
NobodyUsesFreed ==
  \A j \in Jobs :
    /\ req[j].broker \in {"read", "write", "end"} => req[j].refs > 0
    /\ owner[j] = "gone" => pc[j] \in {"none", "suspended"}

(* A job that is over has left no socket, session, channel or secret.      *)
NothingIsLeft ==
  \A j \in Jobs : owner[j] = "gone" => held[j] = {} /\ ~secret[j]

(* The byte that wakes a worker up to stop it is never typed into the      *)
(* remote shell, where it would log the user out.                          *)
WakeIsNotTyped == "wake" \notin typed
===============================================================================
