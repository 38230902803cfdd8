------------------------------ MODULE NetConfig -------------------------------
(***************************************************************************)
(* Changing the network configuration (main/drivers/net_manager.c over     *)
(* main/application/network_settings.c): stage into the slot that is not   *)
(* active, apply for 120 seconds, confirm or roll back.  A static address  *)
(* is first checked for conflicts by the TCP/IP thread.                    *)
(*                                                                         *)
(* s_operation_lock makes each operation one step towards the others, but  *)
(* an operation stores several keys: it may be given up after any of them, *)
(* or the device may restart there.  si_network_settings_get answers from  *)
(* a snapshot in memory, not from flash.                                   *)
(***************************************************************************)
EXTENDS Naturals, Sequences, FiniteSets, FiniteSetsExt

CONSTANTS
  Static,      \* candidate configurations with a fixed address
  Dhcp,        \* candidate configurations without one
  InUse,       \* the members of Static whose address another host holds
  Broken,      \* content of a slot that does not read as a configuration
  MaxStages,   \* bound: configurations staged
  MaxFaults    \* bound: errors and restarts

VARIABLES
  flash,    \* the keys: two slots, which is active, staged, pending (0: none)
  cache,    \* s_cached_status
  run,      \* s_runtime_config
  applied,  \* s_pending_applied
  conf,     \* s_status.pending_confirmation
  deadline, \* s_pending_deadline_us is set
  persist,  \* s_rollback_persist_pending
  acd,      \* s_static_acd_result
  probed,   \* s_static_acd: the address asked for
  link,     \* s_status.link_up
  refused,  \* ghost: the interface refused the active configuration last time
  asked,    \* ghost: configurations somebody asked to confirm while they ran
  blind,    \* ghost: configurations applied without a link to probe on
  mishap,   \* ghost: what went wrong since the last factory reset, see Mishaps
  stages, faults

vars == <<flash, cache, run, applied, conf, deadline, persist, acd, link,
          probed, refused, asked, blind, mishap, stages, faults>>

\* The failures after which the record, the snapshot and the interface may tell
\* three different stories: a stage given up over a change staged before, a
\* confirmation given up after its first write, a reset given up, and the retry
\* of an old rollback that erases the record of a newer trial.
Mishaps == {"stage", "confirm", "reset", "retry"}

Factory == [id |-> "factory", g |-> 0]

\* A slot that holds keys of two configurations and still reads as one.
Mix(g) == [id |-> "mix", g |-> g]

\* What the parameters are: the factory configuration has no address in use.
NetConfigBounds ==
  InUse \subseteq Static /\ "factory" \notin InUse /\ Factory # Broken

FactoryRecord == [s1 |-> Factory, s2 |-> Broken, act |-> 1, stg |-> 0, pnd |-> 0]

SlotKey(n) == IF n = 1 THEN "s1" ELSE "s2"
Other(n) == IF n = 1 THEN 2 ELSE 1
Readable(f, n) == n # 0 /\ f[SlotKey(n)] # Broken

\* load_status: what the keys mean, or nothing if the active slot is unreadable.
Loads(f) == f.act # 0 /\ Readable(f, f.act)

Status(f) ==
  LET have == Readable(f, f.stg) /\ f.stg # f.act
  IN  [active  |-> f[SlotKey(f.act)],
       staged  |-> IF have THEN f[SlotKey(f.stg)] ELSE Broken,
       pending |-> have /\ f.pnd = f.stg]

-------------------------------------------------------------------------------
(* Storing: lists of key writes and what is left after the first k of them *)

After(f, ws, k) ==
  [x \in DOMAIN f |->
     LET I == {i \in 1..k : ws[i].key = x}
     IN  IF I = {} THEN f[x] ELSE ws[Max(I)].val]

W(x, v) == [key |-> x, val |-> v]

\* si_network_settings_stage.  write_slot is many keys: in the middle the slot is
\* a mixture, readable or not.
StageWrites(n, c, torn) ==
  <<W(SlotKey(n), torn), W(SlotKey(n), c), W("stg", n), W("pnd", 0)>>

Torn(f, n, c) == {Broken} \cup (IF Readable(f, n) THEN {Mix(c.g)} ELSE {})

ClearWrites == <<W("stg", 0), W("pnd", 0)>>

\* Mutant: the new slot is made active when it is only marked as pending.
PendingWritesActive(n) == <<W("pnd", n), W("act", n)>>

PendingWrites(n) == <<W("pnd", n)>>

ConfirmWrites(n) == <<W("act", n), W("stg", 0), W("pnd", 0)>>

Ok == "ok"
Err == "error"
Cut == "restart"

\* The ways a list of writes may end: stored, given up, or cut by a restart.
Ends(ws) ==
  {[how |-> Ok, k |-> Len(ws)]}
    \cup (IF faults < MaxFaults
          THEN {[how |-> h, k |-> k] : h \in {Err, Cut}, k \in 0..Len(ws)} ELSE {})

\* One more thing went wrong, if it did.
Mishap(kind, it) == mishap' = IF it THEN mishap \cup {kind} ELSE mishap

Faulty(e) == faults' = IF e.how = Ok THEN faults ELSE faults + 1

\* si_network_settings_initialize: an unfinished change is dropped, unreadable
\* settings are replaced by the factory's.  A restart inside it repeats it.
Recovered(f) ==
  IF ~Loads(f) THEN FactoryRecord
  ELSE IF Status(f).pending THEN [f EXCEPT !.stg = 0, !.pnd = 0] ELSE f

\* start_static_acd of configuration c, and stop_static_acd: no probe, no result.
StartAcd(c) == acd' = "waiting" /\ probed' = c
StopAcd == acd' = "idle" /\ probed' = "none"

\* si_net_init on the keys f.  A stored configuration that the interface refuses
\* is replaced by the factory's until the next apply.
Boot(f) ==
  /\ flash' = Recovered(f)
  /\ cache' = Status(Recovered(f))
  /\ \/ run' = Status(Recovered(f)).active /\ refused' = FALSE
     \/ run' = Factory /\ refused' = TRUE
  /\ applied' = FALSE /\ conf' = FALSE /\ deadline' = FALSE
  /\ persist' = FALSE /\ StopAcd
  /\ UNCHANGED <<link, asked, blind>>

Restart ==
  /\ faults < MaxFaults
  /\ faults' = faults + 1
  /\ Boot(flash)
  /\ UNCHANGED <<mishap, stages>>

-------------------------------------------------------------------------------
(* Applying *)

\* apply_config of the active configuration: it may fail at one of its calls
\* into the network interface, and then leaves s_runtime_config as it was.
Reapply ==
  \/ run' = cache.active /\ refused' = FALSE
  \/ faults < MaxFaults /\ UNCHANGED run /\ refused' = TRUE

\* si_network_settings_rollback publishes the snapshot without what was staged.
RolledBack == [cache EXCEPT !.staged = Broken, !.pending = FALSE]

\* What both ways back do: clear the keys, forget the trial and the probe.
Undo(e) ==
  /\ flash' = After(flash, ClearWrites, e.k)
  /\ cache' = IF e.how = Ok THEN RolledBack ELSE cache
  /\ persist' = (e.how # Ok)
  /\ applied' = FALSE /\ conf' = FALSE /\ deadline' = FALSE
  /\ StopAcd
  /\ UNCHANGED <<link, asked, blind>>

\* si_net_stage_config
Stage(c) ==
  /\ stages < MaxStages
  /\ stages' = stages + 1
  /\ ~cache.pending /\ Loads(flash)
  /\ LET n    == Other(flash.act)
         cfg  == [id |-> c, g |-> Status(flash).active.g + 1]
     IN  \E t \in Torn(flash, n, cfg) :
           LET ws == StageWrites(n, cfg, t)
           IN  \E e \in Ends(ws) :
                 /\ Faulty(e)
                 /\ Mishap("stage", e.how = Err /\ e.k > 0 /\ cache.staged # Broken)
                 /\ IF e.how = Cut THEN Boot(After(flash, ws, e.k))
                    ELSE /\ flash' = After(flash, ws, e.k)
                         /\ IF e.how = Ok
                              THEN /\ cache' = Status(After(flash, ws, e.k))
                                   /\ applied' = FALSE /\ persist' = FALSE
                              ELSE UNCHANGED <<cache, applied, persist>>
                         /\ UNCHANGED <<run, conf, deadline, acd, probed, link,
                                        refused, asked, blind>>

\* si_net_apply_staged when marking, probing or applying fails: the keys f are
\* cleared as far as that succeeds, and its result is not looked at.
ApplyFailed(f, snap) ==
  /\ \E e \in Ends(ClearWrites) :
       /\ e.how # Cut
       /\ flash' = After(f, ClearWrites, e.k)
       /\ cache' = IF e.how = Ok THEN RolledBack ELSE snap
  /\ applied' = FALSE /\ conf' = FALSE /\ deadline' = FALSE
  /\ Reapply
  /\ UNCHANGED <<persist, acd, probed, link, asked, blind>>

\* si_net_apply_staged: mark, then probe a static address or apply at once.  What
\* is marked is what flash holds, what is applied is what the snapshot held.  With
\* nothing to mark, or an old probe still going on, it fails.
ApplyStaged ==
  /\ ~cache.pending
  /\ LET ws     == PendingWrites(flash.stg)
         marked == After(flash, ws, Len(ws))
         have   == cache.staged # Broken /\ Loads(flash) /\ Status(flash).staged # Broken
         probe  == cache.staged.id \in Static /\ link
     IN  \/ /\ have /\ (probe => acd = "idle")
            /\ flash' = marked
            /\ cache' = Status(marked)
            /\ conf' = TRUE /\ deadline' = TRUE
            /\ IF probe THEN StartAcd(cache.staged.id) ELSE UNCHANGED <<acd, probed>>
            /\ run' = IF probe THEN run ELSE cache.staged
            /\ refused' = (refused /\ probe)
            /\ applied' = ~probe
            /\ blind' = IF ~probe /\ cache.staged.id \in Static
                        THEN blind \cup {cache.staged.id} ELSE blind
            /\ UNCHANGED <<persist, link, asked, faults>>
         \/ /\ have /\ faults < MaxFaults /\ faults' = faults + 1
            /\ \/ ApplyFailed(flash, cache)
               \/ ApplyFailed(marked, cache)
               \/ ApplyFailed(marked, Status(marked))
               \/ Boot(marked)
         \/ have /\ probe /\ acd # "idle" /\ ApplyFailed(marked, Status(marked)) /\ UNCHANGED faults
         \/ ~have /\ ApplyFailed(flash, cache) /\ UNCHANGED faults
  /\ UNCHANGED <<mishap, stages>>

\* si_net_commit_pending
CommitPending ==
  /\ applied /\ cache.pending /\ cache.staged.g = run.g /\ acd = "idle"
  /\ Loads(flash) /\ Status(flash).pending
  /\ asked' = asked \cup {run}
  /\ LET ws   == ConfirmWrites(flash.pnd)
         kept == Status(flash).staged
     IN  \E e \in Ends(ws) :
           LET f == After(flash, ws, e.k)
           IN  /\ Faulty(e) /\ Mishap("confirm", e.how = Err /\ e.k > 0)
               /\ \/ /\ e.how = Ok
                     /\ flash' = f
                     /\ cache' = [active |-> kept, staged |-> Broken,
                                  pending |-> FALSE]
                     /\ applied' = FALSE /\ conf' = FALSE /\ deadline' = FALSE
                     /\ UNCHANGED <<run, refused, persist, acd, probed>>
                  \/ /\ e.how = Err
                     /\ flash' = f
                     /\ UNCHANGED <<cache, run, refused, applied, conf,
                                    deadline, persist, acd, probed>>
                  \/ /\ e.how = Cut
                     /\ flash' = Recovered(f)
                     /\ cache' = Status(Recovered(f))
                     /\ \/ run' = Status(Recovered(f)).active /\ refused' = FALSE
                        \/ run' = Factory /\ refused' = TRUE
                     /\ applied' = FALSE /\ conf' = FALSE /\ deadline' = FALSE
                     /\ persist' = FALSE /\ StopAcd
  /\ UNCHANGED <<link, blind, stages>>

\* rollback_pending_locked
RollbackPending ==
  \E e \in Ends(ClearWrites) :
    /\ Faulty(e)
    /\ IF e.how = Cut THEN Boot(After(flash, ClearWrites, e.k))
       ELSE Undo(e) /\ Reapply
    /\ UNCHANGED <<mishap, stages>>

\* si_net_rollback_pending, asked for by an operator, whatever there is to undo.
Rollback == RollbackPending

\* manager_task: the 120 seconds are over, seen once more under the lock.
Timeout == conf /\ deadline /\ RollbackPending

\* retry_rollback_persist, every five seconds
RetryPersist ==
  /\ persist
  /\ \E e \in Ends(ClearWrites) :
       /\ Faulty(e)
       /\ Mishap("retry", e.how # Cut /\ e.k > 0 /\ (applied \/ acd # "idle"))
       /\ IF e.how = Cut THEN Boot(After(flash, ClearWrites, e.k))
          ELSE /\ flash' = After(flash, ClearWrites, e.k)
               /\ cache' = IF e.how = Ok THEN RolledBack ELSE cache
               /\ persist' = (e.how # Ok)
               /\ conf' = (conf /\ e.how # Ok)
               /\ UNCHANGED <<run, refused, applied, deadline, acd, probed, link,
                              asked, blind>>
  /\ UNCHANGED stages

\* si_net_reset_config: everything erased, then the factory slot, then its key.
ResetConfig ==
  /\ LET erased == [s1 |-> Broken, s2 |-> Broken, act |-> 0, stg |-> 0, pnd |-> 0]
         left   == {flash, erased, [erased EXCEPT !.s1 = Factory]}
     IN  \/ /\ flash' = FactoryRecord
            /\ cache' = Status(FactoryRecord)
            /\ \/ run' = Factory /\ refused' = FALSE /\ mishap' = {}
               \/ UNCHANGED <<run, mishap>> /\ refused' = TRUE
            /\ applied' = FALSE /\ conf' = FALSE /\ deadline' = FALSE
            /\ persist' = FALSE /\ StopAcd
            /\ UNCHANGED <<link, asked, blind, faults>>
         \/ /\ faults < MaxFaults
            /\ faults' = faults + 1
            /\ \E f \in left : Boot(f)
            /\ UNCHANGED mishap
         \/ /\ faults < MaxFaults
            /\ faults' = faults + 1
            /\ flash' \in left /\ Mishap("reset", TRUE)
            /\ applied' = FALSE /\ StopAcd
            /\ UNCHANGED <<cache, run, refused, conf, deadline, persist, link,
                           asked, blind>>
  /\ UNCHANGED stages

-------------------------------------------------------------------------------
(* Probing *)

\* static_acd_callback on the TCP/IP thread: only a waiting probe is answered.
AcdCallback ==
  /\ acd = "waiting" /\ link
  /\ acd' = IF probed \in InUse THEN "conflict" ELSE "ok"
  /\ UNCHANGED <<flash, cache, run, refused, applied, conf, deadline, persist,
                 probed, link, asked, blind, mishap, stages, faults>>

\* poll_static_acd: a probe that is not answered within twelve seconds.
AcdTimeout ==
  /\ acd = "waiting"
  /\ acd' = "timeout"
  /\ UNCHANGED <<flash, cache, run, refused, applied, conf, deadline, persist,
                 probed, link, asked, blind, mishap, stages, faults>>

\* The probed address goes on the interface.
UseProbed ==
  /\ StopAcd
  /\ run' = cache.staged
  /\ refused' = FALSE
  /\ applied' = TRUE
  /\ UNCHANGED <<flash, cache, conf, deadline, persist, link, asked, blind,
                 mishap, stages, faults>>

\* The probe said no, or (tried) the interface refused the address; then the
\* active configuration is put back as well.  Nothing is stored when the snapshot
\* has nothing staged any more.
DropProbed(tried) ==
  /\ \E e \in (IF cache.staged = Broken THEN {[how |-> Ok, k |-> 0]} ELSE Ends(ClearWrites)) :
       /\ Faulty(e)
       /\ IF e.how = Cut THEN Boot(After(flash, ClearWrites, e.k))
          ELSE Undo(e) /\ (IF tried THEN Reapply ELSE UNCHANGED <<run, refused>>)
  /\ UNCHANGED <<mishap, stages>>

\* finish_static_acd: apply what was probed, or give it up.
FinishAcd ==
  \/ acd = "ok" /\ cache.pending /\ UseProbed
  \/ acd = "ok" /\ cache.pending /\ faults < MaxFaults /\ DropProbed(TRUE)
  \/ acd = "ok" /\ ~cache.pending /\ DropProbed(FALSE)
  \/ acd \in {"conflict", "timeout"} /\ DropProbed(FALSE)

\* eth_event_handler
Link ==
  /\ link' = ~link
  /\ UNCHANGED <<flash, cache, run, refused, applied, conf, deadline, persist,
                 acd, probed, asked, blind, mishap, stages, faults>>

-------------------------------------------------------------------------------
Init ==
  /\ flash = FactoryRecord
  /\ cache = Status(FactoryRecord)
  /\ run = Factory
  /\ refused = FALSE
  /\ applied = FALSE /\ conf = FALSE /\ deadline = FALSE /\ persist = FALSE
  /\ acd = "idle" /\ probed = "none"
  /\ link \in BOOLEAN
  /\ asked = {} /\ blind = {} /\ mishap = {} /\ stages = 0 /\ faults = 0

Next ==
  \/ Restart
  \/ \E c \in Static \cup Dhcp : Stage(c)
  \/ ApplyStaged \/ CommitPending \/ Rollback \/ Timeout \/ RetryPersist
  \/ ResetConfig \/ AcdCallback \/ AcdTimeout \/ FinishAcd \/ Link

Spec == Init /\ [][Next]_vars

\* The manager task runs every 250 ms and its clock goes on.
FairSpec ==
  Spec /\ WF_vars(Timeout) /\ WF_vars(RetryPersist) /\ WF_vars(FinishAcd)

-------------------------------------------------------------------------------
(* What a restart would bring up is the factory configuration or one that  *)
(* somebody confirmed while it was in effect: a change that locked its     *)
(* author out is gone after a power cycle, wherever its storing stopped.   *)
BootsConfirmed == Status(Recovered(flash)).active \in {Factory} \cup asked

(* An address that another host holds is never on the interface unless     *)
(* there was no link to probe it on: a conflict, an unanswered probe or an *)
(* answer for an earlier candidate never lets it through.                  *)
NoAddressInUse == run.id \in InUse => run.id \in blind

(* What the snapshot calls the active configuration is what runs, unless a *)
(* change is waiting for its confirmation or its probe, its rollback could *)
(* not be stored yet, or the interface itself refused the configuration.   *)
IdleRunsActive == ~cache.pending /\ ~refused => run = cache.active

(* What the snapshot shows as active is what a restart would bring up, as  *)
(* long as no change is pending: si_network_settings_get answers from      *)
(* memory, and flash was written piece by piece.                           *)
SnapshotIsTheRecord ==
  ~cache.pending /\ ~persist => cache.active = Status(Recovered(flash)).active
===============================================================================
