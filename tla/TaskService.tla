----------------------------- MODULE TaskService -----------------------------
(***************************************************************************)
(* The agent's task service (main/application/agent_task_service.c): it    *)
(* owns the task runtime, writes every change to the event journal before  *)
(* it commits it, answers a repeated request from a ring of idempotency    *)
(* keys, and after a reset closes the turns the journal left open.  Every  *)
(* operation runs under s_task_lock and is one action, except for the      *)
(* completion of a read-only run, which takes the lock six times.  Of the  *)
(* journal only the events recovery looks at are kept; the others can fail *)
(* to be written like the rest.  The journal is DurableLog.                *)
(***************************************************************************)
EXTENDS TaskRuntime, SequencesExt

CONSTANTS
  Keys,             \* scoped idempotency hashes
  Actions,          \* action_id
  DedupeCapacity,   \* SI_AGENT_TASK_DEDUPE_CAPACITY
  LedgerCapacity,   \* SI_AGENT_TASK_ACTION_LEDGER_CAPACITY
  PhasesUsed,       \* bound: the phases the run engine sets
  Wishes,           \* bound: <<deliverable, page>>, what a request asks for
  MaxFaults         \* bound: failed appends and resets

RecordCapacity == PendingCapacity + 1

VARIABLES
  records,     \* s_records: run -> what the service knows of a live turn
  ring,        \* s_dedupe
  ringNext,    \* s_dedupe_next
  ledger,      \* s_action_ledger
  lifecycle,   \* s_lifecycle
  retryable,   \* s_start_retryable
  healthy,     \* s_storage_healthy
  finishing,   \* the run task inside si_agent_task_service_complete_readonly
  opening,     \* s_recovery_context: turns that recovery still has to close
  log, limbo, serving,
  faults

ramVars == <<rt, records, ring, ringNext, ledger>>
serviceVars ==
  <<ramVars, lifecycle, retryable, healthy, finishing, opening, log, limbo,
    serving, faults>>

NoEntry == [key |-> "none", run |-> NoRun]
EmptyRing == [i \in 0..(DedupeCapacity - 1) |-> NoEntry]
NotFinishing == [at |-> 0, step |-> "none"]
EmptyLedger == {}

\* The events recovery tells apart.
Other == [type |-> "other", run |-> NoRun, arg |-> "none"]
SubmittedEvent(r, k) == [type |-> "submitted", run |-> r, arg |-> k]
ActionEvent(r, mutation) ==
  [type |-> IF mutation THEN "mutation" ELSE "action", run |-> r, arg |-> "none"]
TerminalEvent(r, status, by) == [type |-> status, run |-> r, arg |-> by]

Journal == INSTANCE DurableLog WITH
  Events <- [type: Terminal \cup {"submitted", "mutation", "action", "other"},
             run: Runs, arg: Keys \cup {"api", "reboot", "none"}]

-----------------------------------------------------------------------------
(* Appending.                                                              *)

\* A reset loses everything but the journal.
Reset ==
  /\ rt' = EmptyRuntime /\ records' = [r \in {} |-> 0] /\ ring' = EmptyRing
  /\ ringNext' = 0 /\ ledger' = EmptyLedger /\ lifecycle' = "cold"
  /\ retryable' = FALSE /\ healthy' = FALSE /\ finishing' = NotFinishing
  /\ opening' = {} /\ faults' = faults + 1

\* append_event_stored fails: the change is not committed, the run task gives
\* up what it was finishing.
Refused(e) ==
  /\ faults < MaxFaults /\ faults' = faults + 1 /\ healthy' = FALSE
  /\ IF e = Other THEN Journal!Stop \/ UNCHANGED <<log, limbo, serving>>
     ELSE Journal!Refuse(e)
  /\ UNCHANGED <<ramVars, lifecycle, retryable, opening>>

Stored(e) ==
  /\ serving
  /\ IF e = Other THEN UNCHANGED <<log, limbo, serving>> ELSE Journal!Store(e)
  /\ healthy' = TRUE
  /\ UNCHANGED <<lifecycle, retryable, faults>>

ResetDuring(e) ==
  /\ faults < MaxFaults /\ Reset
  /\ IF e = Other THEN Journal!Stop ELSE Journal!RestartDuring(e)

\* append_event, and then what the operation does when it succeeded.
Appending(e, Commit) ==
  \/ Stored(e) /\ Commit /\ UNCHANGED opening
  \/ Refused(e) /\ finishing' = NotFinishing
  \/ ResetDuring(e)

Ready == lifecycle = "ready"
Idle == finishing = NotFinishing

\* active_for_run and record_by_run.
Running(r) == Ready /\ rt.turn.run = r /\ r \in DOMAIN records

\* commit_candidate.
CommitCandidate(u) ==
  /\ rt' = [rt EXCEPT !.turn = u]
  /\ ledger' = IF IsTerminal(u) THEN {a \in ledger : a.run # u.run} ELSE ledger
  /\ UNCHANGED <<records, ring, ringNext>>

\* The event for turn u: terminal ones are what recovery reads.
EventOf(u) ==
  IF IsTerminal(u) THEN TerminalEvent(u.run, u.status, "api") ELSE Other

\* mutate_simple and the operations built like it: candidate, event, commit.
Mutate(r, can, u) ==
  /\ Running(r) /\ can
  /\ Appending(EventOf(u), CommitCandidate(u) /\ UNCHANGED finishing)

-----------------------------------------------------------------------------
(* Submitting.                                                             *)

\* dedupe_find.
Remembers(k) == \E i \in DOMAIN ring : ring[i].key = k

\* dedupe_remember: a known key keeps its slot, a new one takes the oldest.
Remember(rg, next, k, r) ==
  IF \E i \in DOMAIN rg : rg[i].key = k
  THEN [ring |-> [i \in DOMAIN rg |-> IF rg[i].key = k
                                      THEN [key |-> k, run |-> r] ELSE rg[i]],
        next |-> next]
  ELSE [ring |-> [rg EXCEPT ![next] = [key |-> k, run |-> r]],
        next |-> (next + 1) % DedupeCapacity]

NewRecord(k, deliverable, page) ==
  [key |-> k, deliverable |-> deliverable, page |-> page,
   mutation |-> FALSE, started |-> FALSE, artifact |-> "none"]

\* A run id is new: random and counted, or made by the run engine.
Fresh(r) ==
  /\ ~\E i \in DOMAIN log : log[i].run = r
  /\ ~\E i \in DOMAIN limbo : limbo[i].run = r
  /\ ~InUse(rt, r)

\* si_agent_task_service_submit.  A key that is remembered gets the receipt
\* of its first run and changes nothing.  An id chosen by the caller has to
\* start at once.
SubmitTask(r, k, correlated, deliverable, page) ==
  LET d == Remember(ring, ringNext, k, r)
  IN /\ Ready /\ Fresh(r) /\ ~Remembers(k) /\ CanSubmit(rt, r)
     /\ correlated => ~Active(rt)
     /\ Cardinality(DOMAIN records) < RecordCapacity
     /\ Appending(SubmittedEvent(r, k),
          /\ rt' = Submitted(rt, r) /\ ring' = d.ring /\ ringNext' = d.next
          /\ records' = [x \in DOMAIN records \cup {r} |->
               IF x = r THEN NewRecord(k, deliverable, page) ELSE records[x]]
          /\ UNCHANGED <<ledger, finishing>>)

\* si_agent_task_service_advance: the record of the finished turn is wiped.
AdvanceTask ==
  /\ Ready /\ Idle /\ IsTerminal(rt.turn) /\ CanAdvance(rt)
  /\ Appending(Other,
       /\ rt' = Advanced(rt)
       /\ records' = [r \in DOMAIN records \ {rt.turn.run} |-> records[r]]
       /\ UNCHANGED <<ring, ringNext, ledger, finishing>>)

\* si_agent_task_service_revoke_page_context.
RevokePageContext ==
  /\ Ready /\ \E r \in DOMAIN records : records[r].page
  /\ Appending(Other,
       /\ records' = [r \in DOMAIN records |->
                        [records[r] EXCEPT !.page = FALSE]]
       /\ UNCHANGED <<rt, ring, ringNext, ledger, finishing>>)

-----------------------------------------------------------------------------
(* The run task: plan, act, verify.  It is one task, so it does nothing    *)
(* else while it completes a run.                                          *)

\* si_agent_task_service_set_phase.
SetTaskPhase(r, p) ==
  /\ Idle /\ Running(r) /\ CanSetPhase(rt.turn, p)
  /\ Appending(Other,
       /\ rt' = [rt EXCEPT !.turn = PhaseSet(@, p)]
       /\ records' = [records EXCEPT ![r].started = @ \/ p = "executing"]
       /\ UNCHANGED <<ring, ringNext, ledger, finishing>>)

\* si_agent_task_service_begin_plan, _add_step and _set_step_status.
BeginTaskPlan(r) ==
  Idle /\ Mutate(r, CanBeginPlan(rt.turn), PlanBegun(rt.turn))
AddTaskStep(r, s) ==
  Idle /\ Mutate(r, CanAddStep(rt.turn, s), StepAdded(rt.turn, s))
SetTaskStep(r, s, v) ==
  Idle /\ Mutate(r, CanSetStep(rt.turn, s, v), StepSet(rt.turn, s, v))

\* si_agent_task_service_steer.
SteerTask(r) == Idle /\ Mutate(r, CanSteer(rt.turn), Steered(rt.turn))

\* active_step_bound.
StepBound(s) ==
  s \in DOMAIN rt.turn.plan.steps
  /\ rt.turn.plan.steps[s].status = "in_progress"

\* si_agent_task_service_record_action_started: the journal has it before
\* the tool runs.
RecordActionStarted(r, s, a, mutation) ==
  /\ Idle /\ Running(r) /\ StepBound(s) /\ ~IsTerminal(rt.turn)
  /\ ~\E x \in ledger : x.run = r /\ x.action = a
  /\ Cardinality(ledger) < LedgerCapacity
  /\ Appending(ActionEvent(r, mutation),
       /\ ledger' = ledger \cup {[run |-> r, step |-> s, action |-> a,
                                  version |-> rt.turn.version, result |-> FALSE]}
       /\ records' = [records EXCEPT ![r].mutation = @ \/ mutation]
       /\ UNCHANGED <<rt, ring, ringNext, finishing>>)

\* si_agent_task_service_record_action_result: of the plan that started it.
RecordActionResult(r, s, a) ==
  /\ Idle /\ Running(r) /\ StepBound(s) /\ ~IsTerminal(rt.turn)
  /\ \E x \in ledger :
       /\ x.run = r /\ x.action = a /\ x.step = s /\ ~x.result
       /\ x.version = rt.turn.version
       /\ Appending(Other,
            /\ ledger' = (ledger \ {x}) \cup {[x EXCEPT !.result = TRUE]}
            /\ UNCHANGED <<rt, records, ring, ringNext, finishing>>)

\* si_agent_task_service_record_readonly_completion_artifact.
RecordArtifact(r, s) ==
  /\ Idle /\ Running(r) /\ StepBound(s)
  /\ ~records[r].mutation /\ records[r].started /\ records[r].artifact = "none"
  /\ Appending(Other,
       /\ records' = [records EXCEPT ![r].artifact = "recorded"]
       /\ UNCHANGED <<rt, ring, ringNext, ledger, finishing>>)

\* si_agent_task_service_complete_readonly up to its unlock: the artifact is
\* checked against the record and marked verified.
CompleteReadonly(r, s) ==
  /\ Idle /\ Running(r) /\ StepBound(s)
  /\ ~records[r].mutation /\ records[r].started /\ records[r].deliverable
  /\ records[r].artifact # "none"
  /\ records' = [records EXCEPT ![r].artifact = "verified"]
  /\ finishing' = [at |-> 1, step |-> s]
  /\ UNCHANGED <<rt, ring, ringNext, ledger, lifecycle, retryable, healthy,
                 opening, log, limbo, serving, faults>>

\* One of the five calls that follow; the first that is refused ends it.
FinishCall(n, can, u) ==
  /\ finishing.at = n
  /\ IF Ready /\ rt.turn.run \in DOMAIN records /\ can
     THEN Appending(EventOf(u),
            /\ CommitCandidate(u)
            /\ finishing' = IF n = 5 THEN NotFinishing
                            ELSE [finishing EXCEPT !.at = n + 1])
     ELSE /\ finishing' = NotFinishing
          /\ UNCHANGED <<ramVars, lifecycle, retryable, healthy, opening, log,
                         limbo, serving, faults>>

Verdict == rt.turn.run \in DOMAIN records /\ records[rt.turn.run].artifact = "verified"

\* record_step_verification with a verifier's verdict.
FinishVerifyStep ==
  LET s == finishing.step
  IN FinishCall(1, Verdict /\ CanVerifyStep(rt.turn, s),
                StepVerified(rt.turn, s, "passed"))
FinishStep ==
  LET s == finishing.step
  IN FinishCall(2, CanSetStep(rt.turn, s, "completed"),
                StepSet(rt.turn, s, "completed"))
FinishPhase ==
  FinishCall(3, CanSetPhase(rt.turn, "verifying"), PhaseSet(rt.turn, "verifying"))
\* record_turn_verification.
FinishVerifyTurn ==
  FinishCall(4, Verdict /\ CanVerifyTurn(rt.turn, "passed"),
             TurnVerified(rt.turn, "passed"))
\* si_agent_task_service_complete.
FinishComplete == FinishCall(5, CanComplete(rt.turn), Completed(rt.turn))

\* si_agent_task_service_fail, _interrupt and _mark_outcome_unknown, called
\* by the run task.
FailTask(r) == Idle /\ Mutate(r, Open(rt.turn), Failed(rt.turn))
InterruptTask(r) == Idle /\ Mutate(r, Open(rt.turn), Interrupted(rt.turn))
MarkTaskUnknown(r) == Idle /\ Mutate(r, Open(rt.turn), MarkedUnknown(rt.turn))

-----------------------------------------------------------------------------
(* The run control handlers.                                               *)

\* si_agent_task_service_pause and _resume.
PauseTask(r) == Mutate(r, CanPause(rt.turn), Paused(rt.turn))
ResumeTask(r) == Mutate(r, CanResume(rt.turn), Resumed(rt.turn))

\* Mutant: only an action without a result makes the outcome unknown.
CancelTaskResolved(r) ==
  Mutate(r, Open(rt.turn),
         IF \E a \in ledger : a.run = r /\ ~a.result
         THEN MarkedUnknown(rt.turn) ELSE Cancelled(rt.turn))

\* si_agent_task_service_cancel: a turn that started an action cannot be
\* said to be cancelled.
CancelTask(r) ==
  Mutate(r, Open(rt.turn),
         IF \E a \in ledger : a.run = r
         THEN MarkedUnknown(rt.turn) ELSE Cancelled(rt.turn))

-----------------------------------------------------------------------------
(* Start and recovery.                                                     *)

NoContext == [open |-> {}, unknown |-> {}, ring |-> EmptyRing, next |-> 0]

\* recovery_event: one event of the replay.
RecoveryEvent(c, e) ==
  IF e.type = "submitted"
  THEN LET d == Remember(c.ring, c.next, e.arg, e.run)
       IN [c EXCEPT !.ring = d.ring, !.next = d.next,
             !.open = IF Cardinality(@) < RecordCapacity THEN @ \cup {e.run}
                      ELSE @]
  ELSE IF e.type \in Terminal
  THEN [c EXCEPT !.open = @ \ {e.run}, !.unknown = @ \ {e.run}]
  ELSE [c EXCEPT !.unknown = IF e.run \in c.open THEN @ \cup {e.run} ELSE @]

Recovered(l) == FoldLeft(RecoveryEvent, NoContext, l)

\* si_agent_task_service_reserve_recovery, and _start from an API call.
ReserveRecovery ==
  /\ lifecycle = "cold" /\ lifecycle' = "reserved"
  /\ UNCHANGED <<ramVars, retryable, healthy, finishing, opening, log, limbo,
                 serving, faults>>
StartService ==
  /\ lifecycle = "cold" /\ lifecycle' = "running"
  /\ UNCHANGED <<ramVars, retryable, healthy, finishing, opening, log, limbo,
                 serving, faults>>
\* si_agent_task_service_recover_reserved, by the recovery worker.
RecoverReserved ==
  /\ lifecycle = "reserved" /\ lifecycle' = "running"
  /\ UNCHANGED <<ramVars, retryable, healthy, finishing, opening, log, limbo,
                 serving, faults>>

\* task_service_start_internal: the RAM is built from the journal.
ReplayJournal ==
  /\ lifecycle = "running" /\ ~serving
  /\ Journal!Recover
  /\ LET c == Recovered(log')
     IN /\ rt' = EmptyRuntime /\ records' = [r \in {} |-> 0]
        /\ ledger' = EmptyLedger /\ ring' = c.ring /\ ringNext' = c.next
        /\ opening' = {[run |-> r, unknown |-> r \in c.unknown] : r \in c.open}
  /\ healthy' = TRUE /\ lifecycle' = "closing" /\ retryable' = FALSE
  /\ UNCHANGED <<finishing, faults>>

\* The store cannot be opened: no card can be retried, corruption cannot.
ReplayFails ==
  /\ lifecycle = "running" /\ ~serving
  /\ faults < MaxFaults /\ faults' = faults + 1
  /\ lifecycle' = "failed" /\ healthy' = FALSE /\ retryable' \in BOOLEAN
  /\ UNCHANGED <<ramVars, finishing, opening, log, limbo, serving>>

\* recover_open_turns: the event that closes an open turn.
CloseEvent(o) ==
  TerminalEvent(o.run, IF o.unknown THEN "outcome_unknown" ELSE "interrupted",
                "reboot")

\* recover_open_turns, one turn at a time.
CloseOpenTurn ==
  /\ lifecycle = "closing"
  /\ \E o \in opening :
       \/ /\ Stored(CloseEvent(o)) /\ opening' = opening \ {o}
          /\ UNCHANGED <<ramVars, finishing>>
       \/ /\ faults < MaxFaults /\ faults' = faults + 1
          /\ Journal!Refuse(CloseEvent(o))
          /\ healthy' = FALSE /\ lifecycle' = "failed" /\ opening' = {}
          /\ UNCHANGED <<ramVars, retryable, finishing>>
       \/ ResetDuring(CloseEvent(o))

\* si_agent_task_service_recover_reserved: READY is published last.
RecoveryDone ==
  /\ lifecycle = "closing" /\ opening = {} /\ lifecycle' = "ready"
  /\ UNCHANGED <<ramVars, retryable, healthy, finishing, opening, log, limbo,
                 serving, faults>>

\* si_agent_task_service_rearm_recovery and _cancel_rearm.
RearmRecovery ==
  /\ lifecycle = "failed" /\ retryable /\ lifecycle' = "reserved"
  /\ UNCHANGED <<ramVars, retryable, healthy, finishing, opening, log, limbo,
                 serving, faults>>
CancelRearm ==
  /\ lifecycle = "reserved" /\ retryable /\ lifecycle' = "failed"
  /\ UNCHANGED <<ramVars, retryable, healthy, finishing, opening, log, limbo,
                 serving, faults>>

CrashService ==
  faults < MaxFaults /\ Reset /\ Journal!Restart

-----------------------------------------------------------------------------
ServiceInit ==
  /\ rt = EmptyRuntime /\ records = [r \in {} |-> 0] /\ ring = EmptyRing
  /\ ringNext = 0 /\ ledger = EmptyLedger /\ lifecycle = "cold"
  /\ retryable = FALSE /\ healthy = FALSE /\ finishing = NotFinishing
  /\ opening = {} /\ faults = 0
  /\ Journal!LogInit

Finish ==
  FinishVerifyStep \/ FinishStep \/ FinishPhase \/ FinishVerifyTurn
  \/ FinishComplete

Recovery == RecoverReserved \/ ReplayJournal \/ ReplayFails \/ CloseOpenTurn
            \/ RecoveryDone

ServiceNext ==
  \/ \E r \in Runs, k \in Keys, c \in BOOLEAN, w \in Wishes : SubmitTask(r, k, c, w[1], w[2])
  \/ \E r \in Runs :
       \/ \E p \in PhasesUsed : SetTaskPhase(r, p)
       \/ BeginTaskPlan(r) \/ SteerTask(r) \/ FailTask(r) \/ InterruptTask(r)
       \/ MarkTaskUnknown(r) \/ PauseTask(r) \/ ResumeTask(r) \/ CancelTask(r)
       \/ \E s \in Steps :
            \/ AddTaskStep(r, s) \/ RecordArtifact(r, s) \/ CompleteReadonly(r, s)
            \/ SetTaskStep(r, s, "in_progress")
            \/ \E a \in Actions :
                 \/ RecordActionResult(r, s, a)
                 \/ \E m \in BOOLEAN : RecordActionStarted(r, s, a, m)
  \/ AdvanceTask \/ RevokePageContext \/ Finish
  \/ ReserveRecovery \/ StartService \/ Recovery \/ RearmRecovery \/ CancelRearm
  \/ CrashService

ServiceSpec == ServiceInit /\ [][ServiceNext]_serviceVars

\* The recovery worker and the calls of a run in progress go on.
FairService == ServiceSpec /\ WF_serviceVars(Recovery)

-----------------------------------------------------------------------------
TerminalsOf(r) == {i \in DOMAIN log : log[i].run = r /\ log[i].type \in Terminal}
StartsOf(r) == {i \in DOMAIN log : log[i].run = r
                                   /\ log[i].type \in {"action", "mutation"}}
OpenInLog ==
  {log[i].run : i \in {j \in DOMAIN log : log[j].type = "submitted"}}
    \ {log[i].run : i \in {j \in DOMAIN log : log[j].type \in Terminal}}
Live == {r \in DOMAIN records : r \in Queued(rt) \/ (r = rt.turn.run /\ Open(rt.turn))}

\* Types: the service and its runtime hold the same turns, within capacity.
ServiceTypeOK ==
  /\ lifecycle \in {"cold", "reserved", "running", "closing", "ready", "failed"}
  /\ Cardinality(DOMAIN records) <= RecordCapacity
  /\ DOMAIN records = Queued(rt) \cup (IF Active(rt) THEN {rt.turn.run} ELSE {})
  /\ Cardinality(ledger) <= LedgerCapacity
  /\ rt.turn \in TurnType

\* While the service is up, the turns the journal shows as open are exactly
\* the turns that are live: a reset at any point will close what was running
\* and nothing else, and no failed append left RAM and journal apart.
JournalMatchesLiveTurns == Ready /\ limbo = <<>> => OpenInLog = Live

\* A run ends once in the journal, and nothing is started under it after
\* that, whatever resets fall between the append and the commit.
RunEndsOnce ==
  \A r \in Runs :
    /\ Cardinality(TerminalsOf(r)) <= 1
    /\ \A i \in TerminalsOf(r), j \in StartsOf(r) : j < i

\* A run that had started an action is never reported as cancelled, nor as
\* merely interrupted by the reset: a client that reads that would retry.
StartedActionIsNotDenied ==
  \A i \in DOMAIN log :
    (log[i].type = "cancelled" \/ (log[i].type = "interrupted" /\ log[i].arg = "reboot"))
    => StartsOf(log[i].run) = {}

\* A run that completes through the read-only path never started a mutation,
\* although the path takes the lock six times.
ReadonlyCompletionIsReadonly ==
  \A i \in DOMAIN log : log[i].type = "completed" =>
    \A j \in StartsOf(log[i].run) : log[j].type # "mutation"

\* The keys in RAM are the ones a recovery would rebuild from the journal: a
\* reset does not change which retries are recognised.
RingMatchesJournal ==
  lifecycle \in {"closing", "ready"} =>
    LET c == Recovered(log) IN c.ring = ring /\ c.next = ringNext

\* A retried request is not executed again while its turn is live, nor until
\* as many other requests as the ring holds came after it, resets included.
RetryIsNotRepeated ==
  \A i, j \in DOMAIN log :
    i < j /\ log[i].type = "submitted" /\ log[j].type = "submitted"
    /\ log[i].arg = log[j].arg
    => /\ Cardinality({n \in (i + 1)..(j - 1) : log[n].type = "submitted"})
            >= DedupeCapacity
       /\ \E n \in TerminalsOf(log[i].run) : n < j
===============================================================================
