----------------------------- MODULE TaskRuntime -----------------------------
(***************************************************************************)
(* The agent's task runtime (main/core/agent_task_runtime.c): one active   *)
(* turn with its plan and steps, and a queue of turns behind it.  Every    *)
(* operation is a guard on the runtime and the runtime it returns; the     *)
(* task service applies them to a candidate copy and commits the copy only *)
(* when the journal has taken the event.  Times are left out: the service  *)
(* hands out strictly growing logical times, so none is ever refused.      *)
(* MaxCount stands for UINT32_MAX, at which the code refuses to count on.  *)
(***************************************************************************)
EXTENDS Naturals, Sequences, FiniteSets

CONSTANTS
  Runs,              \* run_attempt_id; a turn is named by its first run
  Steps,             \* step_id
  PendingCapacity,   \* SI_AGENT_TASK_PENDING_CAPACITY
  StepCapacity,      \* SI_AGENT_TASK_STEP_CAPACITY
  MaxCount

NoRun == "no run"

\* What the proofs assume of the constants: run ids are not the empty one, and
\* the capacities are numbers (a turn starts at 1, so the counter has room).
RuntimeBounds ==
  /\ NoRun \notin Runs
  /\ PendingCapacity \in Nat /\ MaxCount \in Nat \ {0}

\* si_agent_turn_status_is_terminal.
Terminal ==
  {"completed", "failed", "interrupted", "cancelled", "outcome_unknown"}

\* phase_status_valid.
Phases ==
  {"understanding", "planning", "gathering_context", "executing",
   "waiting_request", "waiting_user", "verifying", "blocked"}

TurnStatus == Phases \cup Terminal \cup {"paused"}
StepStatus ==
  {"pending", "in_progress", "completed", "skipped", "blocked", "failed",
   "outcome_unknown"}
Verdicts == {"passed", "failed", "outcome_unknown"}

\* phase_transition_allowed: nothing goes back to understanding except from
\* blocked, and a turn that waits cannot go straight to verifying.
PhaseAllowed(from, to) ==
  \/ from = to
  \/ /\ from \in Phases /\ to \in Phases
     /\ to = "understanding" => from = "blocked"
     /\ from \in {"waiting_request", "waiting_user"} => to # "verifying"

\* step_transition_allowed.
StepAllowed(from, to) ==
  \/ from = to
  \/ from = "pending" /\ to \in {"in_progress", "skipped"}
  \/ from = "in_progress" /\ to \in {"completed", "blocked", "failed",
                                     "outcome_unknown"}
  \/ from = "blocked" /\ to \in {"in_progress", "skipped", "failed",
                                 "outcome_unknown"}
  \/ from = "outcome_unknown" /\ to \in {"in_progress", "failed"}

NoPlan == [status |-> "none", version |-> 0, steps |-> [s \in {} |-> 0]]
HasPlan(t) == t.plan # NoPlan

NoTurn ==
  [run |-> NoRun, status |-> "none", resume |-> "none", intent |-> 0,
   version |-> 0, attempt |-> 0, verification |-> "unrecorded",
   plan |-> NoPlan]

\* start_turn: what is left of the last turn is wiped.
StartTurn(r) ==
  [NoTurn EXCEPT !.run = r, !.status = "understanding",
                 !.resume = "understanding", !.intent = 1, !.version = 1,
                 !.attempt = 1]

\* si_agent_task_runtime_init.
EmptyRuntime == [turn |-> NoTurn, pending |-> <<>>]

Active(rt) == rt.turn # NoTurn
IsTerminal(t) == t.status \in Terminal
\* active_for_update: a turn that may still act.
Open(t) == t # NoTurn /\ ~IsTerminal(t)
Queued(rt) == {rt.pending[i] : i \in DOMAIN rt.pending}

\* id_in_use and run_attempt_id_in_use.
InUse(rt, r) == r = rt.turn.run \/ r \in Queued(rt)

-----------------------------------------------------------------------------

\* si_agent_task_runtime_submit.
CanSubmit(rt, r) ==
  ~InUse(rt, r) /\ (Active(rt) => Len(rt.pending) < PendingCapacity)

Submitted(rt, r) ==
  IF Active(rt) THEN [rt EXCEPT !.pending = Append(@, r)]
  ELSE [rt EXCEPT !.turn = StartTurn(r)]

\* Mutant: the queue advances over a turn that is still open.
CanAdvanceOpen(rt) == TRUE

\* si_agent_task_runtime_advance_queue.
CanAdvance(rt) == ~Open(rt.turn)

Advanced(rt) ==
  IF rt.pending = <<>> THEN [rt EXCEPT !.turn = NoTurn]
  ELSE [turn |-> StartTurn(Head(rt.pending)), pending |-> Tail(rt.pending)]

\* apply_turn_status: the run attempt is running, paused or ended as the turn
\* is, so its status is a function of the turn's.
WithStatus(t, v) == [t EXCEPT !.status = v]

-----------------------------------------------------------------------------
(* Operations on the active turn t.                                        *)

\* si_agent_task_runtime_set_phase.
CanSetPhase(t, p) == t # NoTurn /\ p \in Phases /\ PhaseAllowed(t.status, p)
PhaseSet(t, p) == WithStatus(t, p)

\* si_agent_task_runtime_begin_plan.
CanBeginPlan(t) ==
  t.status = "planning" /\ (HasPlan(t) => t.version < MaxCount)
PlanBegun(t) ==
  LET v == IF HasPlan(t) THEN t.version + 1 ELSE t.version
  IN [t EXCEPT !.version = v, !.verification = "unrecorded",
               !.plan = [status |-> "active", version |-> v,
                         steps |-> [s \in {} |-> 0]]]

\* si_agent_task_runtime_add_step.
CanAddStep(t, s) ==
  /\ t.status = "planning" /\ t.plan.status = "active"
  /\ s \notin DOMAIN t.plan.steps
  /\ Cardinality(DOMAIN t.plan.steps) < StepCapacity
StepAdded(t, s) ==
  [t EXCEPT !.plan.steps = [x \in DOMAIN @ \cup {s} |->
     IF x = s THEN [status |-> "pending", verification |-> "unrecorded"]
     ELSE @[x]]]

\* refresh_plan_status: unknown before failed before finished.
Refreshed(steps) ==
  LET has(v) == \E s \in DOMAIN steps : steps[s].status = v
  IN IF has("outcome_unknown") THEN "outcome_unknown"
     ELSE IF has("failed") THEN "failed"
     ELSE IF /\ DOMAIN steps # {}
             /\ \A s \in DOMAIN steps :
                  steps[s].status \in {"completed", "skipped"}
     THEN "completed" ELSE "active"

\* set_outcome_unknown: whatever was in progress may have had its effect.
OutcomeUnknown(t) ==
  LET unknown == [status |-> "outcome_unknown",
                  verification |-> "outcome_unknown"]
      steps == [s \in DOMAIN t.plan.steps |->
                  IF t.plan.steps[s].status = "in_progress" THEN unknown
                  ELSE t.plan.steps[s]]
  IN [t EXCEPT !.status = "outcome_unknown", !.verification = "outcome_unknown",
        !.plan = IF HasPlan(t)
                 THEN [t.plan EXCEPT !.status = "outcome_unknown",
                                     !.steps = steps]
                 ELSE t.plan]

WorksOnPlan(t) ==
  Open(t) /\ t.status # "paused" /\ HasPlan(t)

\* another_step_in_progress.
AnotherInProgress(t, s) ==
  \E x \in DOMAIN t.plan.steps \ {s} :
    t.plan.steps[x].status = "in_progress"

\* Mutant: a step is completed on its own word.
CanSetStepUnverified(t, s, v) ==
  /\ WorksOnPlan(t) /\ s \in DOMAIN t.plan.steps
  /\ StepAllowed(t.plan.steps[s].status, v)
  /\ v = "in_progress" => ~AnotherInProgress(t, s)

\* si_agent_task_runtime_set_step_status.
CanSetStep(t, s, v) ==
  /\ WorksOnPlan(t) /\ s \in DOMAIN t.plan.steps
  /\ StepAllowed(t.plan.steps[s].status, v)
  /\ v = "in_progress" => ~AnotherInProgress(t, s)
  /\ v = "completed" => t.plan.steps[s].verification = "passed"
StepSet(t, s, v) ==
  LET steps == [t.plan.steps EXCEPT ![s] =
                  [status |-> v,
                   verification |-> IF v = "outcome_unknown" THEN v
                                    ELSE @.verification]]
      u == [t EXCEPT !.plan = [@ EXCEPT !.steps = steps,
                                        !.status = Refreshed(steps)]]
  IN IF v = "outcome_unknown" THEN OutcomeUnknown(u) ELSE u

\* si_agent_task_runtime_record_step_verification.
CanVerifyStep(t, s) ==
  /\ WorksOnPlan(t) /\ s \in DOMAIN t.plan.steps
  /\ t.plan.steps[s].status = "in_progress"
StepVerified(t, s, v) ==
  LET u == [t EXCEPT !.plan.steps[s].verification = v]
  IN IF v = "outcome_unknown" THEN OutcomeUnknown(u) ELSE u

\* si_agent_task_runtime_record_turn_verification.
CanVerifyTurn(t, v) ==
  /\ t.status = "verifying"
  /\ v = "passed" /\ HasPlan(t) => t.plan.status = "completed"
TurnVerified(t, v) ==
  IF v = "outcome_unknown" THEN OutcomeUnknown(t)
  ELSE [t EXCEPT !.verification = v]

\* si_agent_task_runtime_steer: a new intent voids plan and verification.
CanSteer(t) == Open(t) /\ t.intent < MaxCount /\ t.version < MaxCount
Steered(t) ==
  [t EXCEPT !.intent = @ + 1, !.version = @ + 1,
            !.verification = "unrecorded", !.plan = NoPlan,
            !.resume = "planning",
            !.status = IF @ = "paused" THEN @ ELSE "planning"]

\* si_agent_task_runtime_pause.
CanPause(t) == Open(t) /\ t.status # "paused"
Paused(t) == [WithStatus(t, "paused") EXCEPT !.resume = t.status]

\* si_agent_task_runtime_resume.
CanResume(t) == t.status = "paused" /\ t.resume \in Phases
Resumed(t) == WithStatus(t, t.resume)

\* si_agent_task_runtime_cancel, _interrupt and _mark_outcome_unknown.
Cancelled(t) == WithStatus(t, "cancelled")
Interrupted(t) == WithStatus(t, "interrupted")
MarkedUnknown(t) == OutcomeUnknown(t)

\* si_agent_task_runtime_fail.
Failed(t) ==
  [t EXCEPT !.status = "failed",
            !.plan.status = IF @ = "active" THEN "failed" ELSE @]

\* si_agent_task_runtime_complete.
CanComplete(t) ==
  /\ t.status = "verifying" /\ t.verification = "passed"
  /\ HasPlan(t) => t.plan.status = "completed"
Completed(t) == WithStatus(t, "completed")

\* si_agent_task_runtime_retry: a new attempt of the same turn.
CanRetry(rt, r) ==
  /\ rt.turn.status \in {"failed", "interrupted", "outcome_unknown"}
  /\ ~InUse(rt, r) /\ rt.turn.attempt < MaxCount /\ rt.turn.version < MaxCount
Retried(t, r) ==
  [StartTurn(r) EXCEPT !.intent = t.intent, !.version = t.version + 1,
                       !.attempt = t.attempt + 1]

-----------------------------------------------------------------------------
(* The runtime on its own, under any sequence of calls.                    *)

VARIABLE rt

TurnStep(t, u) == rt' = [rt EXCEPT !.turn = u]

RuntimeInit == rt = EmptyRuntime

Submit(r) == CanSubmit(rt, r) /\ rt' = Submitted(rt, r)
AdvanceQueue == CanAdvance(rt) /\ rt' = Advanced(rt)
SetPhase(p) == CanSetPhase(rt.turn, p) /\ TurnStep(rt.turn, PhaseSet(rt.turn, p))
BeginPlan == CanBeginPlan(rt.turn) /\ TurnStep(rt.turn, PlanBegun(rt.turn))
AddStep(s) == CanAddStep(rt.turn, s) /\ TurnStep(rt.turn, StepAdded(rt.turn, s))
SetStepStatus(s, v) ==
  CanSetStep(rt.turn, s, v) /\ TurnStep(rt.turn, StepSet(rt.turn, s, v))
RecordStepVerification(s, v) ==
  CanVerifyStep(rt.turn, s) /\ TurnStep(rt.turn, StepVerified(rt.turn, s, v))
RecordTurnVerification(v) ==
  CanVerifyTurn(rt.turn, v) /\ TurnStep(rt.turn, TurnVerified(rt.turn, v))
Steer == CanSteer(rt.turn) /\ TurnStep(rt.turn, Steered(rt.turn))
Pause == CanPause(rt.turn) /\ TurnStep(rt.turn, Paused(rt.turn))
Resume == CanResume(rt.turn) /\ TurnStep(rt.turn, Resumed(rt.turn))
Cancel == Open(rt.turn) /\ TurnStep(rt.turn, Cancelled(rt.turn))
Interrupt == Open(rt.turn) /\ TurnStep(rt.turn, Interrupted(rt.turn))
MarkOutcomeUnknown == Open(rt.turn) /\ TurnStep(rt.turn, MarkedUnknown(rt.turn))
Fail == Open(rt.turn) /\ TurnStep(rt.turn, Failed(rt.turn))
Complete == CanComplete(rt.turn) /\ TurnStep(rt.turn, Completed(rt.turn))
Retry(r) == CanRetry(rt, r) /\ TurnStep(rt.turn, Retried(rt.turn, r))

RuntimeNext ==
  \/ \E r \in Runs : Submit(r) \/ Retry(r)
  \/ AdvanceQueue \/ BeginPlan \/ Steer \/ Pause \/ Resume \/ Cancel
  \/ Interrupt \/ MarkOutcomeUnknown \/ Fail \/ Complete
  \/ \E p \in Phases : SetPhase(p)
  \/ \E s \in Steps : AddStep(s) \/ \E v \in StepStatus : SetStepStatus(s, v)
  \/ \E s \in Steps, v \in Verdicts : RecordStepVerification(s, v)
  \/ \E v \in Verdicts : RecordTurnVerification(v)

RuntimeSpec == RuntimeInit /\ [][RuntimeNext]_rt

-----------------------------------------------------------------------------
PlanType ==
  [status: {"none", "active", "completed", "failed", "outcome_unknown"},
   version: 0..MaxCount,
   steps: UNION {[S -> [status: StepStatus,
                        verification: Verdicts \cup {"unrecorded"}]] :
                 S \in SUBSET Steps}]

TurnType ==
  [run: Runs \cup {NoRun}, status: TurnStatus \cup {"none"},
   resume: Phases \cup {"none"}, intent: 0..MaxCount, version: 0..MaxCount,
   attempt: 0..MaxCount, verification: Verdicts \cup {"unrecorded"},
   plan: PlanType]

\* Types of the runtime; a paused turn remembers a phase to go back to.
RuntimeTypeOK ==
  /\ rt.turn \in TurnType
  /\ rt.pending \in Seq(Runs) /\ Len(rt.pending) <= PendingCapacity

\* A turn is completed only with a passed verdict of its own, and if it has a
\* plan then every step of the plan was verified or skipped: no sequence of
\* re-planning, pausing or re-verifying leaves a stale verdict behind.
CompletedIsVerified ==
  rt.turn.status = "completed" =>
    /\ rt.turn.verification = "passed"
    /\ \A s \in DOMAIN rt.turn.plan.steps :
         LET x == rt.turn.plan.steps[s]
         IN \/ x.status = "skipped"
            \/ x.status = "completed" /\ x.verification = "passed"

\* An unknown outcome is never carried on: a turn with an unknown step or
\* plan is over, and only one step is in progress at a time.
UnknownEndsTurn ==
  Open(rt.turn) =>
    /\ rt.turn.plan.status # "outcome_unknown"
    /\ \A s \in DOMAIN rt.turn.plan.steps :
         rt.turn.plan.steps[s].status # "outcome_unknown"
    /\ \A s, x \in DOMAIN rt.turn.plan.steps :
         /\ rt.turn.plan.steps[s].status = "in_progress"
         /\ rt.turn.plan.steps[x].status = "in_progress"
         => s = x

\* No run is in the runtime twice: a result addressed by its run id reaches
\* one turn.
RunsAreDistinct ==
  /\ rt.turn.run \notin Queued(rt)
  /\ \A i, j \in DOMAIN rt.pending : rt.pending[i] = rt.pending[j] => i = j

\* What the runtime promises of a turn in every state: completed only with
\* verdicts of its own, never carried on after an unknown outcome, each run in
\* it once.
TurnsAreSound ==
  RuntimeTypeOK /\ CompletedIsVerified /\ UnknownEndsTurn /\ RunsAreDistinct

\* A turn that is over stays as it is until the queue advances; only a
\* failed, interrupted or unknown one is given a new attempt, under a new
\* run id and a higher plan version.  Queued turns start in the order of
\* their submission and none is dropped.
OverIsOver ==
     /\ IsTerminal(rt.turn) /\ rt'.turn # rt.turn =>
          \/ rt' = Advanced(rt)
          \/ /\ rt.turn.status \notin {"completed", "cancelled"}
             /\ rt'.turn.run # rt.turn.run
             /\ rt'.turn.version > rt.turn.version
     /\ rt'.pending # rt.pending =>
          \/ \E r \in Runs : rt'.pending = Append(rt.pending, r)
          \/ /\ rt'.pending = Tail(rt.pending)
             /\ rt'.turn = StartTurn(Head(rt.pending))
             /\ ~Open(rt.turn)

\* The plan version tells plans apart: within a turn it never goes back, and
\* a plan that lost or replaced a step has another version, so a late result
\* of a replaced plan can be recognised.
PlanVersionTellsPlans ==
     rt.turn.attempt > 0 /\ rt'.turn.attempt > 0 /\ rt' # Advanced(rt) =>
       /\ rt'.turn.version >= rt.turn.version
       /\ \A s \in DOMAIN rt.turn.plan.steps :
            \/ /\ s \in DOMAIN rt'.turn.plan.steps
               /\ StepAllowed(rt.turn.plan.steps[s].status,
                              rt'.turn.plan.steps[s].status)
            \/ rt'.turn.version > rt.turn.version

\* What no step of the runtime may do: revive a turn that is over, lose or
\* reorder queued ones, or change a plan under its version.
TurnsStayOver == [][OverIsOver /\ PlanVersionTellsPlans]_rt
===============================================================================
