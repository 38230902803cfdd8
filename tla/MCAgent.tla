------------------------------- MODULE MCAgent -------------------------------
(***************************************************************************)
(* The agent for TLC.                                                      *)
(*                                                                         *)
(* TaskSpec: its tasks.  The runtime alone, once for its turns and once    *)
(* for their plans (TaskRuntime), and the service around it with its       *)
(* journal, once for one run in depth and once for a queue of runs with    *)
(* retries (TaskService).                                                  *)
(*                                                                         *)
(* ApprovalSpec: what allows and stops its actions.  The broker of         *)
(* approvals, for actions, for context that is shared and across resets    *)
(* (RequestBroker), and the gate that keeps operations, operators and      *)
(* maintenance apart, with its counter wide and narrow, and once with the  *)
(* leases the page can stop (AutomationGate).                              *)
(*                                                                         *)
(* The parts share no state, so a behaviour is one of one part, chosen in  *)
(* the initial state.  The variables of the other parts are Unused, except *)
(* those of the runtime, the gate and the broker, which rest in their      *)
(* initial states: their properties are checked in every state, as         *)
(* TaskRuntime, AutomationGate and RequestBroker state them and their      *)
(* proof modules prove them.  The constants of these three modules are the *)
(* largest any part uses; the service has a runtime of its own.            *)
(***************************************************************************)
EXTENDS TaskRuntime, AutomationGate, RequestBroker

CONSTANTS Unused, r1, r2, r3, s1, s2, k1, k2, k3, a1, a2

VARIABLES
  part,
  serviceRt, records, ring, ringNext, ledger, lifecycle, retryable, healthy, finishing,
  opening, log, limbo, serving, faults

Turns == INSTANCE TaskRuntime WITH
  Runs <- {r1, r2}, Steps <- {s1}, PendingCapacity <- 1, StepCapacity <- 1,
  MaxCount <- 3
Plans == INSTANCE TaskRuntime WITH
  Runs <- {r1}, Steps <- {s1, s2}, PendingCapacity <- 1, StepCapacity <- 2,
  MaxCount <- 2
OneRun == INSTANCE TaskService WITH
  Runs <- {r1}, Steps <- {s1}, PendingCapacity <- 1, StepCapacity <- 1,
  MaxCount <- 2, Keys <- {k1}, Actions <- {a1, a2}, DedupeCapacity <- 2,
  LedgerCapacity <- 2, rt <- serviceRt, PhasesUsed <- {"planning", "executing"},
  Wishes <- {<<FALSE, FALSE>>, <<TRUE, TRUE>>}, MaxFaults <- 2
Queue == INSTANCE TaskService WITH
  Runs <- {r1, r2, r3}, Steps <- {}, PendingCapacity <- 1, StepCapacity <- 1,
  MaxCount <- 1, Keys <- {k1, k2, k3}, Actions <- {}, DedupeCapacity <- 2,
  LedgerCapacity <- 1, rt <- serviceRt, PhasesUsed <- {},
  Wishes <- {<<FALSE, TRUE>>}, MaxFaults <- 2

-----------------------------------------------------------------------------
(* Inputs of the broker *)
In(key, runId, step, kind, risk, reviewer, scope, ttl) ==
  [key |-> key, thread |-> "t", run |-> runId, step |-> step, plan |-> 1,
   args |-> "a", kind |-> kind, risk |-> risk, lease |-> FALSE,
   reviewer |-> reviewer, auto |-> FALSE, through |-> -1, scope |-> scope, ttl |-> ttl]

\* Actions of one run: a step-wide grant, its repetition under another key, a
\* retry of the first key for another step that the policy approves; one that
\* asks for more than an action may.
ActionInputs ==
  {In("k1", "r1", "s1", "action", Medium, TRUE, Step, 1),
   In("k2", "r1", "s1", "action", Medium, FALSE, Run, 2),
   In("k3", "r1", "s2", "action", Low, FALSE, Thread, 1),
   [In("k1", "r1", "s2", "action", Low, FALSE, Once, 9) EXCEPT !.through = Low]}
\* Context of one thread, asked for by two runs.
ContextInputs ==
  {In("k1", "r1", "s1", "context", Low, FALSE, Thread, 2),
   In("k2", "r2", "s1", "context", Low, FALSE, Run, 2)}
\* What resets have to keep apart: one key that waits and one of the old callers.
WaitingInput == {In("k1", "r1", "s1", "action", Medium, TRUE, Step, 1)}
LegacyInput == {In("k2", "r1", "s1", "context", Low, FALSE, Once, 2)}
AllInputs == ActionInputs \cup ContextInputs \cup WaitingInput

Grants == INSTANCE RequestBroker WITH
  Capacity <- 2, Inputs <- ActionInputs, Legacy <- {}, Agent <- "agent", MinTtl <- 1,
  MaxTtl <- 2, DefaultTtl <- 2, MaxTime <- 3, MaxSeq <- 3, MaxResets <- 0
Contexts == INSTANCE RequestBroker WITH
  Capacity <- 2, Inputs <- ContextInputs, Legacy <- {}, Agent <- "agent", MinTtl <- 1,
  MaxTtl <- 2, DefaultTtl <- 2, MaxTime <- 2, MaxSeq <- 3, MaxResets <- 0
Resets == INSTANCE RequestBroker WITH
  Capacity <- 2, Inputs <- WaitingInput, Legacy <- LegacyInput, Agent <- "agent",
  MinTtl <- 1, MaxTtl <- 2, DefaultTtl <- 2, MaxTime <- 2, MaxSeq <- 2, MaxResets <- 1

\* The hypotheses of the theorems on the three modules hold of the constants here.
ASSUME ProofsApply == RuntimeBounds /\ GateBounds /\ BrokerBounds

Operations == INSTANCE AutomationGate WITH MaxGrants <- 0
Wrap == INSTANCE AutomationGate WITH GenMod <- 2, MaxRuns <- 0, MaxMaint <- 2,
  MaxGrants <- 0
Takeover == INSTANCE AutomationGate WITH MaxOps <- 0, MaxMaint <- 0
Service == INSTANCE AutomationGate WITH MaxOps <- 0, MaxRuns <- 1, MaxGrants <- 1

-----------------------------------------------------------------------------
serviceVars == <<serviceRt, records, ring, ringNext, ledger, lifecycle, retryable, healthy,
                 finishing, opening, log, limbo, serving, faults>>
vars == <<part, rt, serviceVars, brokerVars, gateVars>>

NoService ==
  /\ serviceRt = Unused /\ records = Unused /\ ring = Unused /\ ringNext = Unused /\ ledger = Unused
  /\ lifecycle = Unused /\ retryable = Unused /\ healthy = Unused
  /\ finishing = Unused /\ opening = Unused /\ log = Unused /\ limbo = Unused
  /\ serving = Unused /\ faults = Unused
TaskInit ==
  /\ BrokerInit /\ GateInit /\ RuntimeInit
  /\ \/ part \in {"turns", "plans"} /\ NoService
     \/ part = "one run" /\ OneRun!ServiceInit
     \/ part = "queue" /\ Queue!ServiceInit

TaskNext ==
  /\ UNCHANGED <<part, brokerVars, gateVars>>
  /\ \/ part = "turns" /\ Turns!RuntimeNext /\ UNCHANGED serviceVars
     \/ part = "plans" /\ Plans!RuntimeNext /\ UNCHANGED serviceVars
     \/ part = "one run" /\ OneRun!ServiceNext /\ UNCHANGED rt
     \/ part = "queue" /\ Queue!ServiceNext /\ UNCHANGED rt

TaskSpec == TaskInit /\ [][TaskNext]_vars

ApprovalInit ==
  /\ RuntimeInit /\ NoService /\ GateInit /\ BrokerInit
  /\ part \in {"grants", "contexts", "resets", "gate", "takeover", "service", "wrap"}

ApprovalNext ==
  /\ UNCHANGED <<part, rt, serviceVars>>
  /\ \/ part = "grants" /\ Grants!BrokerNext /\ UNCHANGED gateVars
     \/ part = "contexts" /\ Contexts!BrokerNext /\ UNCHANGED gateVars
     \/ part = "resets" /\ Resets!BrokerNext /\ UNCHANGED gateVars
     \/ part = "gate" /\ Operations!GateNext /\ UNCHANGED brokerVars
     \/ part = "takeover" /\ Takeover!GateNext /\ UNCHANGED brokerVars
     \/ part = "service" /\ Service!GateNext /\ UNCHANGED brokerVars
     \/ part = "wrap" /\ Wrap!GateNext /\ UNCHANGED brokerVars

ApprovalSpec == ApprovalInit /\ [][ApprovalNext]_vars

-----------------------------------------------------------------------------
\* The task service and its journal agree on which turns are open and which
\* retries are known, across failed appends and resets; a run ends once, and
\* its end does not deny what was started (agent_task_service.c).
JournalTellsTheTruth ==
  /\ part = "one run" => /\ OneRun!ServiceTypeOK
                         /\ OneRun!RunEndsOnce /\ OneRun!StartedActionIsNotDenied
                         /\ OneRun!ReadonlyCompletionIsReadonly
  /\ part = "queue" => /\ Queue!ServiceTypeOK
                       /\ Queue!JournalMatchesLiveTurns /\ Queue!RingMatchesJournal
                       /\ Queue!RetryIsNotRepeated
=============================================================================
