-------------------------- MODULE TaskRuntimeProofs -------------------------
(***************************************************************************)
(* The agent's task runtime keeps its promises of turns, plans and queued  *)
(* runs for any runs, steps and capacities.  Each operation is a function  *)
(* of the turn, so the inductive invariant is a predicate of one turn      *)
(* (TurnInv) and what an operation may do to a plan a relation of two      *)
(* turns (Follows); every operation has one lemma for both.                *)
(***************************************************************************)
EXTENDS TaskRuntime, SequenceTheorems, TLAPS

StepRec == [status: StepStatus, verification: Verdicts \cup {"unrecorded"}]
AllSteps == UNION {[S -> StepRec] : S \in SUBSET Steps}

\* A completed step was verified.
StepsSound(f) ==
  \A s \in DOMAIN f : f[s].status = "completed" => f[s].verification = "passed"

\* A completed plan has no open step.
PlanSound(p) ==
  /\ StepsSound(p.steps)
  /\ p.status = "completed" =>
       \A s \in DOMAIN p.steps : p.steps[s].status \in {"completed", "skipped"}

\* Nothing of the steps is unknown, and one step is in progress at a time.
StepsKnown(f) ==
  /\ \A s \in DOMAIN f : f[s].status # "outcome_unknown"
  /\ \A s, x \in DOMAIN f :
       f[s].status = "in_progress" /\ f[x].status = "in_progress" => s = x

\* The inductive invariant, of one turn.
TurnInv(t) ==
  /\ t \in TurnType
  /\ t.status = "none" => t = NoTurn
  /\ PlanSound(t.plan)
  /\ Open(t) => t.plan.status # "outcome_unknown" /\ StepsKnown(t.plan.steps)
  /\ t.status = "completed" =>
       t.verification = "passed" /\ (HasPlan(t) => t.plan.status = "completed")

\* What a step of the runtime may do to the plan of a turn.
Follows(t, u) ==
  /\ u.version >= t.version
  /\ \A s \in DOMAIN t.plan.steps :
       \/ /\ s \in DOMAIN u.plan.steps
          /\ StepAllowed(t.plan.steps[s].status, u.plan.steps[s].status)
       \/ u.version > t.version

\* The inductive invariant of the runtime.
Inv ==
  /\ rt \in [turn: TurnType, pending: Seq(Runs)]
  /\ TurnInv(rt.turn) /\ Len(rt.pending) <= PendingCapacity
  /\ RunsAreDistinct

-----------------------------------------------------------------------------
\* The steps of a plan, as a function on some of the step ids.
LEMMA StepsTyped ==
  /\ \A f \in AllSteps :
       DOMAIN f \in SUBSET Steps /\ f \in [DOMAIN f -> StepRec]
  /\ \A S \in SUBSET Steps : \A f \in [S -> StepRec] : f \in AllSteps
BY DEF AllSteps

\* What the fields of a turn are.
LEMMA TurnFields ==
  ASSUME RuntimeBounds, NEW t \in TurnType
  PROVE  /\ t.plan \in [status: {"none", "active", "completed", "failed",
                                 "outcome_unknown"},
                        version: 0..MaxCount, steps: AllSteps]
         /\ DOMAIN t.plan.steps \in SUBSET Steps
         /\ t.plan.steps \in [DOMAIN t.plan.steps -> StepRec]
         /\ t.version \in Nat /\ t.version <= MaxCount
<1>1. t.plan \in [status: {"none", "active", "completed", "failed",
                                 "outcome_unknown"},
                        version: 0..MaxCount, steps: AllSteps]
  BY DEF TurnType, PlanType, AllSteps, StepRec
<1>2. t.plan.steps \in AllSteps
  BY <1>1
<1>3. t.version \in Nat /\ t.version <= MaxCount
  BY DEF TurnType, RuntimeBounds
<1> QED BY <1>1, <1>2, <1>3, StepsTyped

\* The empty plan.
LEMMA NoPlanFields ==
  ASSUME RuntimeBounds
  PROVE  /\ NoPlan \in PlanType /\ NoPlan.status = "none"
         /\ DOMAIN NoPlan.steps = {}
<1>1. [s \in {} |-> 0] \in AllSteps
  <2>1. [s \in {} |-> 0] \in [{} -> StepRec]
    OBVIOUS
  <2> QED BY <2>1, StepsTyped
<1>2. 0 \in 0..MaxCount
  BY DEF RuntimeBounds
<1>3. NoPlan.steps = [s \in {} |-> 0]
  BY DEF NoPlan
<1>4. NoPlan \in PlanType
  BY <1>1, <1>2 DEF NoPlan, PlanType, AllSteps, StepRec
<1> QED BY <1>3, <1>4 DEF NoPlan

\* The absence of a turn is sound.
LEMMA EmptyIsSound ==
  ASSUME RuntimeBounds
  PROVE  /\ TurnInv(NoTurn) /\ NoTurn.status = "none" /\ NoTurn.plan = NoPlan
         /\ NoTurn.run = NoRun /\ NoTurn.attempt = 0
<1>1. 0 \in 0..MaxCount
  BY DEF RuntimeBounds
<1>2. NoTurn \in TurnType
  BY <1>1, NoPlanFields DEF NoTurn, TurnType
<1>3. NoTurn.status = "none" /\ NoTurn.plan = NoPlan /\ NoTurn.run = NoRun
      /\ NoTurn.attempt = 0
  BY DEF NoTurn
<1> QED BY <1>2, <1>3, NoPlanFields
        DEF TurnInv, PlanSound, StepsSound, StepsKnown

\* A turn that starts is sound.
LEMMA StartIsSound ==
  ASSUME RuntimeBounds, NEW r \in Runs
  PROVE  /\ TurnInv(StartTurn(r)) /\ StartTurn(r).run = r
         /\ StartTurn(r).status = "understanding" /\ StartTurn(r).plan = NoPlan
<1>1. 1 \in 0..MaxCount
  BY DEF RuntimeBounds
<1>2. NoTurn \in TurnType /\ NoTurn.plan = NoPlan
  BY EmptyIsSound DEF TurnInv
<1>3. StartTurn(r) \in TurnType
  BY <1>1, <1>2 DEF StartTurn, TurnType, TurnStatus, Phases
<1>4. StartTurn(r).status = "understanding" /\ StartTurn(r).plan = NoPlan
      /\ StartTurn(r).run = r
  BY <1>2 DEF StartTurn, TurnType
<1>5. TurnInv(StartTurn(r))
  BY <1>3, <1>4, NoPlanFields DEF TurnInv, PlanSound, StepsSound, StepsKnown
<1> QED BY <1>4, <1>5

\* An operation that leaves the plan of an open turn alone.
LEMMA PlanKept ==
  ASSUME RuntimeBounds, NEW t, TurnInv(t), Open(t), NEW u \in TurnType,
         u.plan = t.plan, u.version = t.version, u.status # "none",
         u.status = "completed" =>
           u.verification = "passed" /\ (HasPlan(t) => t.plan.status = "completed")
  PROVE  TurnInv(u) /\ Follows(t, u)
<1>1. TurnInv(u)
  BY DEF TurnInv, HasPlan
<1>2. u.version >= t.version
  BY TurnFields DEF TurnInv
<1> QED BY <1>1, <1>2 DEF Follows, StepAllowed

\* A turn that is open has a phase or is paused.
LEMMA OpenStatus ==
  ASSUME NEW t, TurnInv(t)
  PROVE  /\ Open(t) => t.status \in Phases \cup {"paused"}
         /\ t.status \in Phases \cup {"paused"} => Open(t)
<1>1. t.status \in Phases \cup {"paused"} => t.status \notin Terminal \cup {"none"}
  BY DEF Phases, Terminal
<1>2. t.status \in Phases \cup Terminal \cup {"paused", "none"}
  BY DEF TurnInv, TurnType, TurnStatus
<1>3. NoTurn.status = "none"
  BY DEF NoTurn
<1> QED BY <1>1, <1>2, <1>3 DEF Open, IsTerminal, TurnInv

\* si_agent_task_runtime_set_phase, _pause, _resume, _cancel and _interrupt.
LEMMA StatusIsSafe ==
  ASSUME RuntimeBounds, NEW t, TurnInv(t), Open(t),
         NEW v \in TurnStatus \ {"completed"}
  PROVE  /\ TurnInv(WithStatus(t, v)) /\ Follows(t, WithStatus(t, v))
         /\ WithStatus(t, v).run = t.run
<1> DEFINE u == WithStatus(t, v)
<1>1. t \in TurnType
  BY DEF TurnInv
<1>2. /\ u \in TurnType /\ u.plan = t.plan /\ u.version = t.version
      /\ u.status = v /\ u.run = t.run
  BY <1>1 DEF WithStatus, TurnType
<1>3. v # "none"
  BY DEF TurnStatus, Phases, Terminal
<1> QED BY <1>2, <1>3, PlanKept

\* si_agent_task_runtime_pause.
LEMMA PausedIsSafe ==
  ASSUME RuntimeBounds, NEW t, TurnInv(t), CanPause(t)
  PROVE  TurnInv(Paused(t)) /\ Follows(t, Paused(t)) /\ Paused(t).run = t.run
<1> DEFINE u == Paused(t)
<1>1. t \in TurnType /\ Open(t)
  BY DEF TurnInv, CanPause
<1>2. t.status \in Phases
  BY <1>1, OpenStatus DEF CanPause
<1>3. u = [t EXCEPT !.status = "paused", !.resume = t.status]
  BY <1>1 DEF Paused, WithStatus, TurnType
<1>4. /\ u \in TurnType /\ u.plan = t.plan /\ u.version = t.version
      /\ u.status = "paused" /\ u.run = t.run
  BY <1>1, <1>2, <1>3 DEF TurnType, TurnStatus
<1> QED BY <1>1, <1>4, PlanKept

\* si_agent_task_runtime_complete.
LEMMA CompletedIsSafe ==
  ASSUME RuntimeBounds, NEW t, TurnInv(t), CanComplete(t)
  PROVE  /\ TurnInv(Completed(t)) /\ Follows(t, Completed(t))
         /\ Completed(t).run = t.run
<1> DEFINE u == Completed(t)
<1>1. t \in TurnType /\ Open(t)
  BY OpenStatus DEF TurnInv, CanComplete, Phases
<1>2. /\ u \in TurnType /\ u.plan = t.plan /\ u.version = t.version
      /\ u.status = "completed" /\ u.run = t.run
      /\ u.verification = t.verification
  BY <1>1 DEF Completed, WithStatus, TurnType, TurnStatus, Terminal
<1> QED BY <1>1, <1>2, PlanKept DEF CanComplete

\* si_agent_task_runtime_begin_plan: the new plan is empty and has a version of
\* its own.
LEMMA PlanBegunIsSafe ==
  ASSUME RuntimeBounds, NEW t, TurnInv(t), CanBeginPlan(t)
  PROVE  /\ TurnInv(PlanBegun(t)) /\ Follows(t, PlanBegun(t))
         /\ PlanBegun(t).run = t.run
<1> DEFINE v == IF HasPlan(t) THEN t.version + 1 ELSE t.version
           p == [status |-> "active", version |-> v, steps |-> [s \in {} |-> 0]]
           u == PlanBegun(t)
<1>1. t \in TurnType /\ t.status = "planning"
  BY DEF TurnInv, CanBeginPlan
<1>2. v \in 0..MaxCount /\ v >= t.version /\ (HasPlan(t) => v > t.version)
  BY <1>1, TurnFields DEF CanBeginPlan, RuntimeBounds
<1> HIDE DEF v
<1>3. p \in PlanType /\ DOMAIN p.steps = {} /\ p.status = "active"
  <2>1. [s \in {} |-> 0] \in [{} -> StepRec]
    OBVIOUS
  <2>2. [s \in {} |-> 0] \in AllSteps
    BY <2>1, StepsTyped
  <2> QED BY <1>2, <2>2 DEF PlanType, AllSteps, StepRec
<1>4. u = [t EXCEPT !.version = v, !.verification = "unrecorded", !.plan = p]
  BY DEF PlanBegun, v
<1> HIDE DEF p
<1>5. /\ u \in TurnType /\ u.plan = p /\ u.version = v
      /\ u.status = "planning" /\ u.run = t.run
  BY <1>1, <1>2, <1>3, <1>4 DEF TurnType
<1> HIDE DEF u
<1>6. TurnInv(u)
  BY <1>3, <1>5 DEF TurnInv, PlanSound, StepsSound, StepsKnown
<1>7. Follows(t, u)
  <2>1. ~HasPlan(t) => DOMAIN t.plan.steps = {}
    BY NoPlanFields DEF HasPlan
  <2> QED BY <1>2, <1>5, <2>1 DEF Follows
<1> QED BY <1>5, <1>6, <1>7 DEF u

\* si_agent_task_runtime_add_step.
LEMMA StepAddedIsSafe ==
  ASSUME RuntimeBounds, NEW t, TurnInv(t), NEW s \in Steps, CanAddStep(t, s)
  PROVE  /\ TurnInv(StepAdded(t, s)) /\ Follows(t, StepAdded(t, s))
         /\ StepAdded(t, s).run = t.run
<1> DEFINE f == t.plan.steps
           g == [x \in DOMAIN f \cup {s} |->
                  IF x = s THEN [status |-> "pending", verification |-> "unrecorded"]
                  ELSE f[x]]
           u == StepAdded(t, s)
<1>1. t \in TurnType /\ t.status = "planning" /\ Open(t) /\ s \notin DOMAIN f
      /\ t.plan.status = "active"
  BY OpenStatus DEF TurnInv, CanAddStep, Phases
<1>2. /\ t.plan \in PlanType /\ DOMAIN f \in SUBSET Steps
      /\ f \in [DOMAIN f -> StepRec] /\ t.version \in Nat
  BY <1>1, TurnFields DEF TurnType
<1>3. g \in AllSteps
  <2>1. [status |-> "pending", verification |-> "unrecorded"] \in StepRec
    BY DEF StepRec, StepStatus
  <2>2. g \in [DOMAIN f \cup {s} -> StepRec]
    BY <1>2, <2>1
  <2> QED BY <1>2, <2>2, StepsTyped
<1>4. /\ DOMAIN g = DOMAIN f \cup {s} /\ g[s].status = "pending"
      /\ \A x \in DOMAIN f : g[x] = f[x]
  BY <1>1
<1>5. u = [t EXCEPT !.plan = [t.plan EXCEPT !.steps = g]]
  BY DEF StepAdded
<1> HIDE DEF f, g, u
<1>6. /\ [t.plan EXCEPT !.steps = g] \in PlanType
      /\ [t.plan EXCEPT !.steps = g].steps = g
      /\ [t.plan EXCEPT !.steps = g].status = "active"
  BY <1>1, <1>2, <1>3 DEF PlanType, AllSteps, StepRec
<1>7. /\ u \in TurnType /\ u.plan = [t.plan EXCEPT !.steps = g]
      /\ u.version = t.version /\ u.status = "planning" /\ u.run = t.run
  BY <1>1, <1>5, <1>6 DEF TurnType
<1>8. StepsSound(f) /\ StepsKnown(f)
  BY <1>1 DEF TurnInv, PlanSound, f
<1>9. StepsSound(g)
  BY <1>4, <1>8 DEF StepsSound
<1>10. StepsKnown(g)
  BY <1>4, <1>8 DEF StepsKnown
<1>11. TurnInv(u)
  BY <1>6, <1>7, <1>9, <1>10 DEF TurnInv, PlanSound
<1>12. Follows(t, u)
  BY <1>2, <1>4, <1>6, <1>7 DEF Follows, StepAllowed, f
<1> QED BY <1>7, <1>11, <1>12 DEF u

\* set_outcome_unknown ends the turn, and what was in progress is unknown.
LEMMA UnknownIsSafe ==
  ASSUME RuntimeBounds, NEW t \in TurnType, PlanSound(t.plan)
  PROVE  LET u == OutcomeUnknown(t)
         IN /\ TurnInv(u) /\ u.run = t.run /\ u.version = t.version
            /\ DOMAIN u.plan.steps = DOMAIN t.plan.steps
            /\ \A s \in DOMAIN t.plan.steps :
                 \/ u.plan.steps[s].status = t.plan.steps[s].status
                 \/ /\ t.plan.steps[s].status = "in_progress"
                    /\ u.plan.steps[s].status = "outcome_unknown"
<1> DEFINE u == OutcomeUnknown(t)
           f == t.plan.steps
           g == [s \in DOMAIN f |->
                  IF f[s].status = "in_progress"
                  THEN [status |-> "outcome_unknown",
                        verification |-> "outcome_unknown"]
                  ELSE f[s]]
           p == IF HasPlan(t)
                THEN [t.plan EXCEPT !.status = "outcome_unknown", !.steps = g]
                ELSE t.plan
<1>1. /\ t.plan \in PlanType /\ DOMAIN f \in SUBSET Steps
      /\ f \in [DOMAIN f -> StepRec]
  BY TurnFields DEF TurnType
<1>2. /\ g \in AllSteps /\ DOMAIN g = DOMAIN f
      /\ \A s \in DOMAIN f :
           \/ g[s] = f[s]
           \/ f[s].status = "in_progress" /\ g[s].status = "outcome_unknown"
  <2>1. [status |-> "outcome_unknown", verification |-> "outcome_unknown"]
          \in StepRec
    BY DEF StepRec, StepStatus, Verdicts
  <2>2. g \in [DOMAIN f -> StepRec]
    BY <1>1, <2>1
  <2> QED BY <1>1, <2>2, StepsTyped
<1>3. u = [t EXCEPT !.status = "outcome_unknown",
                    !.verification = "outcome_unknown", !.plan = p]
  BY DEF OutcomeUnknown
<1> HIDE DEF f, g, u
<1>4. /\ p \in PlanType /\ (p.steps = f \/ p.steps = g)
      /\ p.status # "completed" \/ p = t.plan
  <2>1. CASE HasPlan(t)
    <3>1. p = [t.plan EXCEPT !.status = "outcome_unknown", !.steps = g]
      BY <2>1
    <3> QED BY <1>1, <1>2, <3>1 DEF PlanType, AllSteps, StepRec
  <2>2. CASE ~HasPlan(t)
    BY <1>1, <2>2 DEF f
  <2> QED BY <2>1, <2>2
<1> HIDE DEF p
<1>5. /\ u \in TurnType /\ u.plan = p /\ u.version = t.version
      /\ u.run = t.run /\ u.status = "outcome_unknown"
  BY <1>3, <1>4 DEF TurnType, TurnStatus, Terminal, Verdicts
<1>6. StepsSound(f) /\ StepsSound(g)
  BY <1>2 DEF StepsSound, PlanSound, f
<1>7. PlanSound(p)
  BY <1>4, <1>6 DEF PlanSound
<1>8. TurnInv(u)
  BY <1>5, <1>7 DEF TurnInv, Open, IsTerminal, Terminal
<1>9. /\ DOMAIN p.steps = DOMAIN f
      /\ \A s \in DOMAIN f :
                 \/ p.steps[s].status = f[s].status
                 \/ /\ f[s].status = "in_progress"
                    /\ p.steps[s].status = "outcome_unknown"
  BY <1>2, <1>4
<1> QED BY <1>5, <1>8, <1>9 DEF u, f

\* si_agent_task_runtime_mark_outcome_unknown.
LEMMA MarkedUnknownIsSafe ==
  ASSUME RuntimeBounds, NEW t, TurnInv(t)
  PROVE  /\ TurnInv(OutcomeUnknown(t)) /\ Follows(t, OutcomeUnknown(t))
         /\ OutcomeUnknown(t).run = t.run
<1>1. t \in TurnType /\ PlanSound(t.plan)
  BY DEF TurnInv
<1>2. t.version \in Nat
  BY <1>1, TurnFields
<1>3. \A s \in DOMAIN t.plan.steps :
        StepAllowed(t.plan.steps[s].status,
                    OutcomeUnknown(t).plan.steps[s].status)
  BY <1>1, UnknownIsSafe DEF StepAllowed
<1> QED BY <1>1, <1>2, <1>3, UnknownIsSafe DEF Follows

\* A change of the status or the verdict of one step, in a turn that works on
\* its plan.
LEMMA StepChanged ==
  ASSUME RuntimeBounds, NEW t, TurnInv(t), WorksOnPlan(t),
         NEW s \in DOMAIN t.plan.steps, NEW x \in StepRec,
         StepAllowed(t.plan.steps[s].status, x.status),
         x.status = "completed" => x.verification = "passed",
         x.status = "in_progress" => ~AnotherInProgress(t, s),
         NEW g, g = [t.plan.steps EXCEPT ![s] = x]
  PROVE  /\ g \in AllSteps /\ DOMAIN g = DOMAIN t.plan.steps
         /\ g[s] = x /\ \A y \in DOMAIN g \ {s} : g[y] = t.plan.steps[y]
         /\ StepsSound(g)
         /\ x.status # "outcome_unknown" => StepsKnown(g)
         /\ \A y \in DOMAIN g : StepAllowed(t.plan.steps[y].status, g[y].status)
<1> DEFINE f == t.plan.steps
<1>1. t \in TurnType /\ Open(t)
  BY DEF TurnInv, WorksOnPlan
<1>2. DOMAIN f \in SUBSET Steps /\ f \in [DOMAIN f -> StepRec]
  BY <1>1, TurnFields
<1>3. StepsSound(f) /\ StepsKnown(f)
  BY <1>1 DEF TurnInv, PlanSound
<1>4. ~AnotherInProgress(t, s) =>
        \A y \in DOMAIN f \ {s} : f[y].status # "in_progress"
  BY DEF AnotherInProgress
<1> HIDE DEF f
<1>5. g \in [DOMAIN f -> StepRec] /\ g[s] = x
      /\ \A y \in DOMAIN f \ {s} : g[y] = f[y]
  BY <1>2 DEF f
<1>6. g \in AllSteps /\ DOMAIN g = DOMAIN f
  BY <1>2, <1>5, StepsTyped
<1>7. StepsSound(g)
  BY <1>3, <1>5, <1>6 DEF StepsSound
<1>8. x.status # "outcome_unknown" => StepsKnown(g)
  BY <1>3, <1>4, <1>5, <1>6 DEF StepsKnown
<1>9. \A y \in DOMAIN g : StepAllowed(f[y].status, g[y].status)
  BY <1>5, <1>6 DEF StepAllowed, f
<1> QED BY <1>5, <1>6, <1>7, <1>8, <1>9 DEF f

\* si_agent_task_runtime_set_step_status.
LEMMA StepSetIsSafe ==
  ASSUME RuntimeBounds, NEW t, TurnInv(t), NEW s, NEW v \in StepStatus,
         CanSetStep(t, s, v)
  PROVE  /\ TurnInv(StepSet(t, s, v)) /\ Follows(t, StepSet(t, s, v))
         /\ StepSet(t, s, v).run = t.run
<1> DEFINE f == t.plan.steps
           x == [status |-> v,
                 verification |-> IF v = "outcome_unknown" THEN v
                                  ELSE f[s].verification]
           g == [f EXCEPT ![s] = x]
           p == [t.plan EXCEPT !.steps = g, !.status = Refreshed(g)]
           w == [t EXCEPT !.plan = p]
<1>1. /\ t \in TurnType /\ Open(t) /\ WorksOnPlan(t) /\ s \in DOMAIN f
      /\ StepAllowed(f[s].status, v)
      /\ v = "in_progress" => ~AnotherInProgress(t, s)
      /\ v = "completed" => f[s].verification = "passed"
  BY DEF TurnInv, CanSetStep, WorksOnPlan
<1>2. /\ t.plan \in PlanType /\ f[s] \in StepRec /\ t.version \in Nat
  BY <1>1, TurnFields DEF TurnType
<1>3. /\ x \in StepRec /\ x.status = v
      /\ v = "completed" => x.verification = "passed"
  BY <1>1, <1>2 DEF StepRec, Verdicts
<1>4. StepSet(t, s, v) = IF v = "outcome_unknown" THEN OutcomeUnknown(w) ELSE w
  BY DEF StepSet
<1> HIDE DEF x, g
<1>5. /\ g \in AllSteps /\ DOMAIN g = DOMAIN f /\ g[s] = x
      /\ \A y \in DOMAIN g \ {s} : g[y] = f[y]
      /\ StepsSound(g)
      /\ v # "outcome_unknown" => StepsKnown(g)
      /\ \A y \in DOMAIN g : StepAllowed(f[y].status, g[y].status)
  BY <1>1, <1>3, StepChanged DEF g
<1>6. /\ Refreshed(g) \in {"active", "completed", "failed", "outcome_unknown"}
      /\ Refreshed(g) = "completed" =>
           \A y \in DOMAIN g : g[y].status \in {"completed", "skipped"}
      /\ StepsKnown(g) => Refreshed(g) # "outcome_unknown"
  BY DEF Refreshed, StepsKnown
<1>7. p \in PlanType /\ p.steps = g /\ p.status = Refreshed(g)
  BY <1>2, <1>5, <1>6 DEF PlanType, AllSteps, StepRec
<1> HIDE DEF p
<1>8. /\ w \in TurnType /\ w.plan = p /\ w.version = t.version
      /\ w.status = t.status /\ w.run = t.run
  BY <1>1, <1>7 DEF TurnType
<1>9. PlanSound(p)
  BY <1>5, <1>6, <1>7 DEF PlanSound
<1> HIDE DEF w, f
<1>10. CASE v # "outcome_unknown"
  <2>1. StepsKnown(p.steps) /\ p.status # "outcome_unknown"
    BY <1>5, <1>6, <1>7, <1>10
  <2>2. t.status \in Phases \cup {"paused"}
    BY <1>1, OpenStatus
  <2>3. TurnInv(w)
    BY <1>8, <1>9, <2>1, <2>2 DEF TurnInv, Phases
  <2>4. Follows(t, w)
    BY <1>2, <1>5, <1>7, <1>8 DEF Follows, f
  <2> QED BY <1>4, <1>8, <1>10, <2>3, <2>4
<1>11. CASE v = "outcome_unknown"
  <2> DEFINE u == OutcomeUnknown(w)
  <2>1. /\ TurnInv(u) /\ u.run = t.run /\ u.version = t.version
        /\ DOMAIN u.plan.steps = DOMAIN g
        /\ \A y \in DOMAIN g :
             \/ u.plan.steps[y].status = g[y].status
             \/ /\ g[y].status = "in_progress"
                /\ u.plan.steps[y].status = "outcome_unknown"
    BY <1>7, <1>8, <1>9, UnknownIsSafe
  <2> HIDE DEF u
  <2>2. ASSUME NEW y \in DOMAIN f
        PROVE  StepAllowed(f[y].status, u.plan.steps[y].status)
    <3>1. CASE y = s
      BY <1>1, <1>3, <1>5, <1>11, <2>1, <3>1
    <3>2. CASE y # s
      BY <1>5, <2>1, <3>2 DEF StepAllowed
    <3> QED BY <3>1, <3>2
  <2>3. Follows(t, u)
    BY <1>2, <1>5, <2>1, <2>2 DEF Follows, f
  <2> QED BY <1>4, <1>11, <2>1, <2>3 DEF u
<1> QED BY <1>10, <1>11

\* si_agent_task_runtime_record_step_verification.
LEMMA StepVerifiedIsSafe ==
  ASSUME RuntimeBounds, NEW t, TurnInv(t), NEW s, NEW v \in Verdicts,
         CanVerifyStep(t, s)
  PROVE  /\ TurnInv(StepVerified(t, s, v)) /\ Follows(t, StepVerified(t, s, v))
         /\ StepVerified(t, s, v).run = t.run
<1> DEFINE f == t.plan.steps
           x == [f[s] EXCEPT !.verification = v]
           g == [f EXCEPT ![s] = x]
           p == [t.plan EXCEPT !.steps = g]
           w == [t EXCEPT !.plan = p]
<1>1. /\ t \in TurnType /\ Open(t) /\ WorksOnPlan(t) /\ s \in DOMAIN f
      /\ f[s].status = "in_progress"
  BY DEF TurnInv, CanVerifyStep, WorksOnPlan
<1>2. t.plan \in PlanType /\ f[s] \in StepRec /\ t.version \in Nat
  BY <1>1, TurnFields DEF TurnType
<1>3. x \in StepRec /\ x.status = "in_progress"
  BY <1>1, <1>2 DEF StepRec
<1>4. StepVerified(t, s, v) =
        IF v = "outcome_unknown" THEN OutcomeUnknown(w) ELSE w
  BY DEF StepVerified
<1>5. ~AnotherInProgress(t, s) /\ StepAllowed(f[s].status, x.status)
  <2>1. StepsKnown(f)
    BY <1>1 DEF TurnInv
  <2> QED BY <1>1, <1>3, <2>1 DEF StepsKnown, AnotherInProgress, StepAllowed
<1> HIDE DEF x, g
<1>6. /\ g \in AllSteps /\ DOMAIN g = DOMAIN f /\ g[s] = x
      /\ \A y \in DOMAIN g \ {s} : g[y] = f[y]
      /\ StepsSound(g) /\ StepsKnown(g)
      /\ \A y \in DOMAIN g : StepAllowed(f[y].status, g[y].status)
  BY <1>1, <1>3, <1>5, StepChanged DEF g
<1>7. p \in PlanType /\ p.steps = g /\ p.status = t.plan.status
  BY <1>2, <1>6 DEF PlanType, AllSteps, StepRec
<1> HIDE DEF p
<1>8. /\ w \in TurnType /\ w.plan = p /\ w.version = t.version
      /\ w.status = t.status /\ w.run = t.run
  BY <1>1, <1>7 DEF TurnType
<1>9. t.plan.status \notin {"completed", "outcome_unknown"}
  BY <1>1 DEF TurnInv, PlanSound
<1>10. PlanSound(p)
  BY <1>6, <1>7, <1>9 DEF PlanSound
<1> HIDE DEF w, f
<1>11. CASE v # "outcome_unknown"
  <2>1. t.status \in Phases \cup {"paused"}
    BY <1>1, OpenStatus
  <2>2. TurnInv(w)
    BY <1>6, <1>7, <1>8, <1>9, <1>10, <2>1 DEF TurnInv, Phases
  <2>3. Follows(t, w)
    BY <1>2, <1>6, <1>7, <1>8 DEF Follows, f
  <2> QED BY <1>4, <1>8, <1>11, <2>2, <2>3
<1>12. CASE v = "outcome_unknown"
  <2> DEFINE u == OutcomeUnknown(w)
  <2>1. /\ TurnInv(u) /\ u.run = t.run /\ u.version = t.version
        /\ DOMAIN u.plan.steps = DOMAIN g
        /\ \A y \in DOMAIN g :
             \/ u.plan.steps[y].status = g[y].status
             \/ /\ g[y].status = "in_progress"
                /\ u.plan.steps[y].status = "outcome_unknown"
    BY <1>7, <1>8, <1>10, UnknownIsSafe
  <2> HIDE DEF u
  <2>2. ASSUME NEW y \in DOMAIN f
        PROVE  StepAllowed(f[y].status, u.plan.steps[y].status)
    <3>1. g[y].status = f[y].status
      BY <1>1, <1>3, <1>6
    <3> QED BY <1>6, <2>1, <3>1 DEF StepAllowed
  <2>3. Follows(t, u)
    BY <1>2, <1>6, <2>1, <2>2 DEF Follows, f
  <2> QED BY <1>4, <1>12, <2>1, <2>3 DEF u
<1> QED BY <1>11, <1>12

\* si_agent_task_runtime_record_turn_verification.
LEMMA TurnVerifiedIsSafe ==
  ASSUME RuntimeBounds, NEW t, TurnInv(t), NEW v \in Verdicts,
         CanVerifyTurn(t, v)
  PROVE  /\ TurnInv(TurnVerified(t, v)) /\ Follows(t, TurnVerified(t, v))
         /\ TurnVerified(t, v).run = t.run
<1>1. t \in TurnType /\ Open(t) /\ t.status = "verifying"
  BY OpenStatus DEF TurnInv, CanVerifyTurn, Phases
<1>2. CASE v = "outcome_unknown"
  BY <1>2, MarkedUnknownIsSafe DEF TurnVerified
<1>3. CASE v # "outcome_unknown"
  <2> DEFINE u == [t EXCEPT !.verification = v]
  <2>1. /\ u \in TurnType /\ u.plan = t.plan /\ u.version = t.version
        /\ u.status = "verifying" /\ u.run = t.run
    BY <1>1 DEF TurnType
  <2>2. TurnVerified(t, v) = u
    BY <1>3 DEF TurnVerified
  <2> HIDE DEF u
  <2> QED BY <1>1, <2>1, <2>2, PlanKept
<1> QED BY <1>2, <1>3

\* si_agent_task_runtime_steer: the plan goes, under a higher version.
LEMMA SteeredIsSafe ==
  ASSUME RuntimeBounds, NEW t, TurnInv(t), CanSteer(t)
  PROVE  /\ TurnInv(Steered(t)) /\ Follows(t, Steered(t))
         /\ Steered(t).run = t.run
<1> DEFINE u == Steered(t)
<1>1. t \in TurnType /\ Open(t)
  BY DEF TurnInv, CanSteer
<1>2. t.version + 1 \in 0..MaxCount /\ t.intent + 1 \in 0..MaxCount
      /\ t.version + 1 > t.version
  BY <1>1 DEF CanSteer, TurnType, RuntimeBounds
<1>3. NoPlan \in PlanType
  BY NoPlanFields
<1>4. /\ u \in TurnType /\ u.plan = NoPlan /\ u.version = t.version + 1
      /\ u.status \in {"paused", "planning"} /\ u.run = t.run
  BY <1>1, <1>2, <1>3 DEF Steered, TurnType, TurnStatus, Phases
<1> HIDE DEF u
<1>5. TurnInv(u)
  BY <1>4, NoPlanFields DEF TurnInv, PlanSound, StepsSound, StepsKnown
<1>6. Follows(t, u)
  BY <1>1, <1>2, <1>4, TurnFields DEF Follows
<1> QED BY <1>4, <1>5, <1>6 DEF u

\* si_agent_task_runtime_fail.
LEMMA FailedIsSafe ==
  ASSUME RuntimeBounds, NEW t, TurnInv(t), Open(t)
  PROVE  TurnInv(Failed(t)) /\ Follows(t, Failed(t)) /\ Failed(t).run = t.run
<1> DEFINE u == Failed(t)
           v == IF t.plan.status = "active" THEN "failed" ELSE t.plan.status
           p == [t.plan EXCEPT !.status = v]
<1>1. t \in TurnType
  BY DEF TurnInv
<1>2. t.plan \in PlanType /\ t.version \in Nat
  BY <1>1, TurnFields DEF TurnType
<1>3. /\ p \in PlanType /\ p.steps = t.plan.steps
      /\ p.status = "completed" => t.plan.status = "completed"
  BY <1>2 DEF PlanType
<1>4. u = [t EXCEPT !.status = "failed", !.plan = p]
  BY <1>1 DEF Failed, TurnType
<1> HIDE DEF p
<1>5. /\ u \in TurnType /\ u.plan = p /\ u.version = t.version
      /\ u.status = "failed" /\ u.run = t.run
  BY <1>1, <1>3, <1>4 DEF TurnType, TurnStatus, Terminal
<1> HIDE DEF u
<1>6. PlanSound(p)
  BY <1>3 DEF TurnInv, PlanSound
<1>7. TurnInv(u)
  BY <1>5, <1>6 DEF TurnInv, Open, IsTerminal, Terminal
<1>8. Follows(t, u)
  BY <1>2, <1>3, <1>5 DEF Follows, StepAllowed
<1> QED BY <1>5, <1>7, <1>8 DEF u

\* si_agent_task_runtime_retry: a new run and a higher version.
LEMMA RetriedIsSafe ==
  ASSUME RuntimeBounds, NEW t, TurnInv(t), NEW r \in Runs,
         t.attempt < MaxCount, t.version < MaxCount
  PROVE  /\ TurnInv(Retried(t, r)) /\ Follows(t, Retried(t, r))
         /\ Retried(t, r).run = r /\ Retried(t, r).version > t.version
<1> DEFINE u == Retried(t, r)
           w == StartTurn(r)
<1>1. t \in TurnType /\ w \in TurnType
  BY StartIsSound DEF TurnInv
<1>2. /\ t.version + 1 \in 0..MaxCount /\ t.attempt + 1 \in 0..MaxCount
      /\ t.version + 1 > t.version /\ t.intent \in 0..MaxCount
      /\ t.version + 1 >= t.version
  BY <1>1 DEF TurnType, RuntimeBounds
<1>3. u = [w EXCEPT !.intent = t.intent, !.version = t.version + 1,
                    !.attempt = t.attempt + 1]
  BY DEF Retried
<1>4. w.run = r /\ w.status = "understanding" /\ w.plan = NoPlan
  BY StartIsSound
<1> HIDE DEF w
<1>5. /\ u \in TurnType /\ u.plan = NoPlan /\ u.version = t.version + 1
      /\ u.status = "understanding" /\ u.run = r
  BY <1>1, <1>2, <1>3, <1>4 DEF TurnType
<1> HIDE DEF u
<1>6. TurnInv(u)
  BY <1>5, NoPlanFields DEF TurnInv, PlanSound, StepsSound, StepsKnown
<1>7. Follows(t, u)
  BY <1>2, <1>5 DEF Follows
<1> QED BY <1>2, <1>5, <1>6, <1>7 DEF u

\* An operation on the active turn keeps the invariant of the runtime.
LEMMA TurnStepIsSafe ==
  ASSUME Inv, NEW u, TurnInv(u), u.run = rt.turn.run \/ ~InUse(rt, u.run),
         TurnStep(rt.turn, u)
  PROVE  Inv' /\ rt'.turn = u /\ rt'.pending = rt.pending
<1>1. rt'.turn = u /\ rt'.pending = rt.pending
  BY DEF TurnStep, Inv
<1>2. rt' \in [turn: TurnType, pending: Seq(Runs)]
  BY DEF TurnStep, Inv, TurnInv
<1>3. RunsAreDistinct'
  BY <1>1 DEF Inv, RunsAreDistinct, Queued, InUse
<1> QED BY <1>1, <1>2, <1>3 DEF Inv

\* si_agent_task_runtime_submit.
LEMMA SubmitIsSafe ==
  ASSUME RuntimeBounds, Inv, NEW r \in Runs, Submit(r)
  PROVE  /\ Inv'
         /\ rt'.turn = rt.turn \/ rt.turn = NoTurn
         /\ rt'.pending # rt.pending => rt'.pending = Append(rt.pending, r)
<1> USE DEF Inv
<1>1. rt.pending \in Seq(Runs) /\ ~InUse(rt, r) /\ Len(rt.pending) \in Nat
  BY DEF Submit, CanSubmit
<1>2. CASE Active(rt)
  <2> DEFINE q == Append(rt.pending, r)
  <2>1. rt' = [rt EXCEPT !.pending = q] /\ Len(rt.pending) < PendingCapacity
    BY <1>2 DEF Submit, CanSubmit, Submitted
  <2>2. q \in Seq(Runs) /\ Len(q) = Len(rt.pending) + 1
    BY <1>1
  <2>3. rt'.turn = rt.turn /\ rt'.pending = q
        /\ rt' \in [turn: TurnType, pending: Seq(Runs)]
    BY <2>1, <2>2
  <2>4. /\ DOMAIN q = 1..Len(q) /\ q[Len(q)] = r
        /\ \A i \in 1..Len(rt.pending) : q[i] = rt.pending[i]
        /\ DOMAIN rt.pending = 1..Len(rt.pending)
    BY <1>1
  <2> HIDE DEF q
  <2>5. rt.turn.run # r /\ \A i \in 1..Len(rt.pending) : rt.pending[i] # r
    BY <1>1, <2>4 DEF InUse, Queued
  <2>6. \A i \in 1..Len(q) : i = Len(q) \/ i \in 1..Len(rt.pending)
    BY <1>1, <2>2
  <2>7. \A i \in DOMAIN q : q[i] # rt.turn.run
    BY <2>4, <2>5, <2>6 DEF RunsAreDistinct, Queued
  <2>8. \A i, j \in DOMAIN q : q[i] = q[j] => i = j
    BY <2>4, <2>5, <2>6 DEF RunsAreDistinct
  <2>9. RunsAreDistinct'
    BY <2>3, <2>7, <2>8 DEF RunsAreDistinct, Queued
  <2>10. Len(q) <= PendingCapacity
    BY <1>1, <2>1, <2>2 DEF RuntimeBounds
  <2> QED BY <2>3, <2>9, <2>10 DEF q
<1>3. CASE ~Active(rt)
  <2>1. TurnStep(rt.turn, StartTurn(r)) /\ rt.turn = NoTurn
    BY <1>3 DEF Submit, Submitted, TurnStep, Active
  <2>2. TurnInv(StartTurn(r)) /\ StartTurn(r).run = r
    BY StartIsSound
  <2> QED BY <1>1, <2>1, <2>2, TurnStepIsSafe
<1> QED BY <1>2, <1>3

\* si_agent_task_runtime_advance_queue.
LEMMA AdvanceIsSafe ==
  ASSUME RuntimeBounds, Inv, AdvanceQueue
  PROVE  /\ Inv' /\ rt' = Advanced(rt)
         /\ rt'.pending # rt.pending =>
              /\ rt'.pending = Tail(rt.pending)
              /\ rt'.turn = StartTurn(Head(rt.pending))
<1> USE DEF Inv
<1>1. rt.pending \in Seq(Runs) /\ rt' = Advanced(rt)
  BY DEF AdvanceQueue
<1>2. CASE rt.pending = <<>>
  <2>1. TurnStep(rt.turn, NoTurn)
    BY <1>1, <1>2 DEF Advanced, TurnStep
  <2>2. TurnInv(NoTurn) /\ NoTurn.run = NoRun
    BY EmptyIsSound
  <2>3. ~InUse(rt, NoRun) \/ rt.turn.run = NoRun
    BY <1>2 DEF InUse, Queued
  <2> QED BY <1>1, <2>1, <2>2, <2>3, TurnStepIsSafe
<1>3. CASE rt.pending # <<>>
  <2> DEFINE q == Tail(rt.pending)
             h == Head(rt.pending)
  <2>1. rt' = [turn |-> StartTurn(h), pending |-> q]
    BY <1>1, <1>3 DEF Advanced
  <2>2. /\ q \in Seq(Runs) /\ h \in Runs /\ h = rt.pending[1]
        /\ Len(q) = Len(rt.pending) - 1 /\ Len(rt.pending) \in Nat \ {0}
        /\ \A i \in 1..Len(q) : q[i] = rt.pending[i + 1]
        /\ DOMAIN q = 1..Len(q) /\ DOMAIN rt.pending = 1..Len(rt.pending)
    BY <1>1, <1>3
  <2> HIDE DEF q, h
  <2>3. TurnInv(StartTurn(h)) /\ StartTurn(h).run = h
    BY <2>2, StartIsSound
  <2>4. \A i \in 1..Len(q) : i + 1 \in 1..Len(rt.pending) /\ i + 1 # 1
    BY <2>2
  <2>5. ASSUME NEW i \in DOMAIN q PROVE q[i] # h
    <3>1. i \in 1..Len(q) /\ 1 \in 1..Len(rt.pending)
      BY <2>2
    <3>2. i + 1 \in DOMAIN rt.pending /\ 1 \in DOMAIN rt.pending /\ i + 1 # 1
      BY <2>2, <2>4, <3>1
    <3>3. rt.pending[i + 1] # rt.pending[1]
      BY <3>2 DEF RunsAreDistinct
    <3> QED BY <2>2, <3>1, <3>3
  <2>6. \A i, j \in DOMAIN q : q[i] = q[j] => i + 1 = j + 1
    BY <2>2, <2>4 DEF RunsAreDistinct
  <2>7. rt'.turn = StartTurn(h) /\ rt'.pending = q
    BY <2>1
  <2>8. RunsAreDistinct'
    <3>1. \A i, j \in DOMAIN q : q[i] = q[j] => i = j
      BY <2>2, <2>6
    <3> QED BY <2>3, <2>5, <2>7, <3>1 DEF RunsAreDistinct, Queued
  <2>9. Len(q) <= PendingCapacity
    BY <2>2 DEF RuntimeBounds
  <2>10. rt' \in [turn: TurnType, pending: Seq(Runs)]
    BY <2>1, <2>2, <2>3 DEF TurnInv
  <2> QED BY <1>1, <2>3, <2>7, <2>8, <2>9, <2>10 DEF q, h
<1> QED BY <1>2, <1>3

\* What a step may do to the runtime, beside keeping the invariant: advance or
\* extend the queue, work on an open turn, or give a turn that is over another
\* attempt.
Moves ==
  \/ rt'.turn = rt.turn /\ rt'.pending = rt.pending
  \/ /\ rt'.turn = rt.turn \/ rt.turn = NoTurn
     /\ rt'.pending # rt.pending => \E r \in Runs : rt'.pending = Append(rt.pending, r)
  \/ /\ rt' = Advanced(rt) /\ ~Open(rt.turn)
     /\ rt'.pending # rt.pending =>
          /\ rt'.pending = Tail(rt.pending)
          /\ rt'.turn = StartTurn(Head(rt.pending))
  \/ Open(rt.turn) /\ Follows(rt.turn, rt'.turn) /\ rt'.pending = rt.pending
  \/ /\ rt.turn.status \in {"failed", "interrupted", "outcome_unknown"}
     /\ rt'.turn.run # rt.turn.run /\ rt'.turn.version > rt.turn.version
     /\ Follows(rt.turn, rt'.turn) /\ rt'.pending = rt.pending

\* Every operation of the runtime keeps the invariant.
LEMMA StepIsSafe ==
  ASSUME RuntimeBounds, Inv, RuntimeNext PROVE Inv' /\ Moves
<1> DEFINE t == rt.turn
<1>0. TurnInv(t)
  BY DEF Inv
<1>1. ASSUME NEW u, TurnStep(t, u), TurnInv(u), Follows(t, u), u.run = t.run,
             Open(t)
      PROVE  Inv' /\ Moves
  BY <1>1, TurnStepIsSafe DEF Moves
<1> HIDE DEF t
<1>2. ASSUME NEW r \in Runs, Submit(r) PROVE Inv' /\ Moves
  BY <1>2, SubmitIsSafe DEF Moves
<1>3. ASSUME NEW r \in Runs, Retry(r) PROVE Inv' /\ Moves
  <2>1. /\ t.status \in {"failed", "interrupted", "outcome_unknown"}
        /\ ~InUse(rt, r) /\ t.attempt < MaxCount /\ t.version < MaxCount
        /\ TurnStep(t, Retried(t, r))
    BY <1>3 DEF Retry, CanRetry, t
  <2>2. /\ TurnInv(Retried(t, r)) /\ Follows(t, Retried(t, r))
        /\ Retried(t, r).run = r /\ Retried(t, r).version > t.version
    BY <1>0, <2>1, RetriedIsSafe
  <2>3. Inv' /\ rt'.turn = Retried(t, r) /\ rt'.pending = rt.pending
    BY <2>1, <2>2, TurnStepIsSafe DEF t
  <2>4. r # t.run
    BY <2>1 DEF InUse, t
  <2> QED BY <2>1, <2>2, <2>3, <2>4 DEF Moves, t
<1>4. CASE AdvanceQueue
  BY <1>4, AdvanceIsSafe DEF Moves, AdvanceQueue, CanAdvance
<1>5. CASE BeginPlan
  <2>1. CanBeginPlan(t) /\ TurnStep(t, PlanBegun(t))
    BY <1>5 DEF BeginPlan, t
  <2>2. Open(t)
    BY <1>0, <2>1, OpenStatus DEF CanBeginPlan, Phases
  <2> QED BY <1>0, <1>1, <2>1, <2>2, PlanBegunIsSafe
<1>6. CASE Steer
  BY <1>0, <1>1, <1>6, SteeredIsSafe DEF Steer, CanSteer, t
<1>7. CASE Pause
  BY <1>0, <1>1, <1>7, PausedIsSafe DEF Pause, CanPause, t
<1>8. CASE Resume
  <2>1. CanResume(t) /\ TurnStep(t, WithStatus(t, t.resume))
    BY <1>8 DEF Resume, Resumed, t
  <2>2. Open(t)
    BY <1>0, <2>1, OpenStatus DEF CanResume
  <2>3. t.resume \in TurnStatus \ {"completed"}
    BY <2>1 DEF CanResume, TurnStatus, Phases
  <2> QED BY <1>0, <1>1, <2>1, <2>2, <2>3, StatusIsSafe
<1>9. CASE Cancel
  <2>1. Open(t) /\ TurnStep(t, WithStatus(t, "cancelled"))
    BY <1>9 DEF Cancel, Cancelled, t
  <2>2. "cancelled" \in TurnStatus \ {"completed"}
    BY DEF TurnStatus, Terminal
  <2> QED BY <1>0, <1>1, <2>1, <2>2, StatusIsSafe
<1>10. CASE Interrupt
  <2>1. Open(t) /\ TurnStep(t, WithStatus(t, "interrupted"))
    BY <1>10 DEF Interrupt, Interrupted, t
  <2>2. "interrupted" \in TurnStatus \ {"completed"}
    BY DEF TurnStatus, Terminal
  <2> QED BY <1>0, <1>1, <2>1, <2>2, StatusIsSafe
<1>11. CASE MarkOutcomeUnknown
  BY <1>0, <1>1, <1>11, MarkedUnknownIsSafe
     DEF MarkOutcomeUnknown, MarkedUnknown, t
<1>12. CASE Fail
  BY <1>0, <1>1, <1>12, FailedIsSafe DEF Fail, t
<1>13. CASE Complete
  <2>1. CanComplete(t) /\ TurnStep(t, Completed(t))
    BY <1>13 DEF Complete, t
  <2>2. Open(t)
    BY <1>0, <2>1, OpenStatus DEF CanComplete, Phases
  <2> QED BY <1>0, <1>1, <2>1, <2>2, CompletedIsSafe
<1>14. ASSUME NEW p \in Phases, SetPhase(p) PROVE Inv' /\ Moves
  <2>1. CanSetPhase(t, p) /\ TurnStep(t, WithStatus(t, p))
    BY <1>14 DEF SetPhase, PhaseSet, t
  <2>2. t.status \in Phases
    BY <1>14, <2>1 DEF CanSetPhase, PhaseAllowed
  <2>3. Open(t)
    BY <1>0, <2>2, OpenStatus
  <2>4. p \in TurnStatus \ {"completed"}
    BY <1>14 DEF TurnStatus, Phases
  <2> QED BY <1>0, <1>1, <2>1, <2>3, <2>4, StatusIsSafe
<1>15. ASSUME NEW s \in Steps, AddStep(s) PROVE Inv' /\ Moves
  <2>1. CanAddStep(t, s) /\ TurnStep(t, StepAdded(t, s))
    BY <1>15 DEF AddStep, t
  <2>2. Open(t)
    BY <1>0, <2>1, OpenStatus DEF CanAddStep, Phases
  <2> QED BY <1>0, <1>1, <2>1, <2>2, StepAddedIsSafe
<1>16. ASSUME NEW s \in Steps, NEW v \in StepStatus, SetStepStatus(s, v)
       PROVE  Inv' /\ Moves
  <2>1. CanSetStep(t, s, v) /\ TurnStep(t, StepSet(t, s, v)) /\ Open(t)
    BY <1>16 DEF SetStepStatus, CanSetStep, WorksOnPlan, t
  <2> QED BY <1>0, <1>1, <2>1, StepSetIsSafe
<1>17. ASSUME NEW s \in Steps, NEW v \in Verdicts, RecordStepVerification(s, v)
       PROVE  Inv' /\ Moves
  <2>1. CanVerifyStep(t, s) /\ TurnStep(t, StepVerified(t, s, v)) /\ Open(t)
    BY <1>17 DEF RecordStepVerification, CanVerifyStep, WorksOnPlan, t
  <2> QED BY <1>0, <1>1, <2>1, StepVerifiedIsSafe
<1>18. ASSUME NEW v \in Verdicts, RecordTurnVerification(v) PROVE Inv' /\ Moves
  <2>1. CanVerifyTurn(t, v) /\ TurnStep(t, TurnVerified(t, v))
    BY <1>18 DEF RecordTurnVerification, t
  <2>2. Open(t)
    BY <1>0, <2>1, OpenStatus DEF CanVerifyTurn, Phases
  <2> QED BY <1>0, <1>1, <2>1, <2>2, TurnVerifiedIsSafe
<1> QED BY <1>2, <1>3, <1>4, <1>5, <1>6, <1>7, <1>8, <1>9, <1>10, <1>11, <1>12,
           <1>13, <1>14, <1>15, <1>16, <1>17, <1>18 DEF RuntimeNext

\* The invariant holds initially (si_agent_task_runtime_init).
LEMMA InitIsSafe == ASSUME RuntimeBounds, RuntimeInit PROVE Inv
<1>3. TurnInv(NoTurn) /\ NoTurn \in TurnType
  BY EmptyIsSound DEF TurnInv
<1>4. rt.turn = NoTurn /\ rt.pending = <<>>
      /\ rt \in [turn: TurnType, pending: Seq(Runs)]
  BY <1>3 DEF RuntimeInit, EmptyRuntime
<1>5. Len(rt.pending) = 0 /\ DOMAIN rt.pending = {}
  BY <1>4
<1>6. RunsAreDistinct
  BY <1>5 DEF RunsAreDistinct, Queued
<1> QED BY <1>3, <1>4, <1>5, <1>6 DEF Inv, RuntimeBounds

\* A turn is completed only with verdicts of its own, never carried on after an
\* unknown outcome, and no run is in the runtime twice, whatever calls come in
\* whatever order (agent_task_runtime.c).
THEOREM TurnsAreAlwaysSound ==
  ASSUME RuntimeBounds PROVE RuntimeSpec => []TurnsAreSound
<1>1. RuntimeInit => Inv
  BY InitIsSafe
<1>2. ASSUME Inv, [RuntimeNext]_rt PROVE Inv'
  <2>1. CASE rt' = rt
    BY <1>2, <2>1 DEF Inv, RunsAreDistinct, Queued
  <2> QED BY <1>2, <2>1, StepIsSafe
<1>3. Inv => TurnsAreSound
  <2> SUFFICES ASSUME Inv PROVE TurnsAreSound
    OBVIOUS
  <2>1. TurnInv(rt.turn) /\ RunsAreDistinct
    BY DEF Inv
  <2>2. RuntimeTypeOK
    BY <2>1 DEF Inv, TurnInv, RuntimeTypeOK
  <2>3. CompletedIsVerified
    <3>1. ~HasPlan(rt.turn) => DOMAIN rt.turn.plan.steps = {}
      BY NoPlanFields DEF HasPlan
    <3> QED BY <2>1, <3>1
            DEF TurnInv, PlanSound, StepsSound, CompletedIsVerified
  <2>4. UnknownEndsTurn
    BY <2>1 DEF TurnInv, StepsKnown, UnknownEndsTurn
  <2> QED BY <2>1, <2>2, <2>3, <2>4 DEF TurnsAreSound
<1> QED BY <1>1, <1>2, <1>3, PTL DEF RuntimeSpec

\* A turn that is over stays over or gets a new attempt under a new run and a
\* higher version, queued turns start in their order, and a plan changes its
\* steps only as they may change, or its version.
THEOREM OverTurnsStayOver ==
  ASSUME RuntimeBounds PROVE RuntimeSpec => TurnsStayOver
<1>1. RuntimeInit => Inv
  BY InitIsSafe
<1>2. ASSUME Inv, [RuntimeNext]_rt PROVE Inv'
  <2>1. CASE rt' = rt
    BY <1>2, <2>1 DEF Inv, RunsAreDistinct, Queued
  <2> QED BY <1>2, <2>1, StepIsSafe
<1>3. ASSUME Inv, [RuntimeNext]_rt PROVE [OverIsOver /\ PlanVersionTellsPlans]_rt
  <2> SUFFICES ASSUME RuntimeNext PROVE OverIsOver /\ PlanVersionTellsPlans
    BY <1>3
  <2>0. NoTurn.status = "none" /\ NoTurn.attempt = 0
    BY EmptyIsSound
  <2>1. Inv' /\ Moves
    BY <1>3, StepIsSafe
  <2>2. /\ IsTerminal(rt.turn) => ~Open(rt.turn) /\ rt.turn # NoTurn
        /\ rt.turn.version \in Nat
    <3>1. rt.turn \in TurnType
      BY <1>3 DEF Inv, TurnInv
    <3> QED BY <2>0, <3>1, TurnFields DEF Open, IsTerminal, Terminal
  <2>3. OverIsOver
    <3>1. rt.turn.status \in {"failed", "interrupted", "outcome_unknown"}
            => rt.turn.status \notin {"completed", "cancelled"}
      OBVIOUS
    <3> QED BY <2>1, <2>2, <3>1 DEF Moves, OverIsOver
  <2>4. PlanVersionTellsPlans
    <3>1. rt'.turn = rt.turn => Follows(rt.turn, rt'.turn)
      BY <2>2 DEF Follows, StepAllowed
    <3>2. ~(0 > 0)
      OBVIOUS
    <3> SUFFICES ASSUME rt.turn.attempt > 0, rt' # Advanced(rt)
                 PROVE  Follows(rt.turn, rt'.turn)
      BY DEF PlanVersionTellsPlans, Follows
    <3> QED BY <2>0, <2>1, <3>1, <3>2 DEF Moves
  <2> QED BY <2>3, <2>4
<1> QED BY <1>1, <1>2, <1>3, PTL DEF RuntimeSpec, TurnsStayOver
===============================================================================
