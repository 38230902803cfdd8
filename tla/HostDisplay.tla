----------------------------- MODULE HostDisplay ------------------------------
(***************************************************************************)
(* Plans to change the host's display mode                                 *)
(* (application/host_display_manager.c, its browser side in                *)
(* services/host_display_http.c and the agent's tool in                    *)
(* services/web/agent_host_display_tool_module.inc).  There is one plan at *)
(* a time.  The operator approves or cancels it by its name; the agent's   *)
(* tool reads the plan, builds a command from what it read, announces the  *)
(* operation by the plan's name, runs the command on the host and reports. *)
(*                                                                         *)
(* A plan's name is its number.  approved and tried are history: the       *)
(* requests the operator approved under a name, and the plans whose change *)
(* has been begun.                                                         *)
(***************************************************************************)
EXTENDS Naturals

CONSTANTS
  Requests,   \* display modes
  MaxPlans,   \* plans made in one behaviour
  MaxCalls,   \* calls of the tool in one behaviour
  None

VARIABLES
  status,     \* s_status
  seq,        \* s_plan_seq
  tool,       \* the tool's call
  calls,
  approved, tried

vars == <<status, seq, tool, calls, approved, tried>>

\* What the parameters are.
DisplayBounds == None \notin Requests /\ MaxPlans \in Nat

Operations == {"apply", "verify", "rollback"}
Idle == [pc |-> "idle", op |-> None, plan |-> 0, request |-> None]

\* While it runs, and when it went well.
Running == [apply |-> "applying", verify |-> "verifying", rollback |-> "rolling back"]
Success == [apply |-> "applied", verify |-> "verified", rollback |-> "rolled back"]

\* From which states si_host_display_plan_begin_... takes it up.
From == [apply |-> {"approved"}, verify |-> {"applied", "failed"},
         rollback |-> {"applied", "verified", "failed"}]

\* state_accepts_new_plan
Replaceable == {"empty", "cancelled", "verified", "rolled back", "failed"}

\* Mutant: any name will do.
MatchesAny(plan) == plan # 0

\* plan_matches_locked
Matches(plan) == plan # 0 /\ plan = status.plan

-------------------------------------------------------------------------------
(* The plan *)

\* si_host_display_plan_create, for the browser and for the tool
Create(r) ==
  /\ seq < MaxPlans /\ status.state \in Replaceable
  /\ seq' = seq + 1
  /\ status' = [state |-> "planned", plan |-> seq + 1, request |-> r]
  /\ UNCHANGED <<tool, calls, approved, tried>>

\* si_host_display_plan_approve with a name the page showed at some time
Approve(plan) ==
  /\ Matches(plan) /\ status.state = "planned"
  /\ status' = [status EXCEPT !.state = "approved"]
  /\ approved' = [approved EXCEPT ![status.plan] = status.request]
  /\ UNCHANGED <<seq, tool, calls, tried>>

\* si_host_display_plan_cancel
Cancel(plan) ==
  /\ Matches(plan) /\ status.state \in {"planned", "approved"}
  /\ status' = [status EXCEPT !.state = "cancelled"]
  /\ approved' = [approved EXCEPT ![status.plan] = None]
  /\ UNCHANGED <<seq, tool, calls, tried>>

-------------------------------------------------------------------------------
(* The tool *)

\* The agent names a plan it knows of, or none; the status is read ...
Read(op, plan) ==
  /\ tool.pc = "idle" /\ calls < MaxCalls
  /\ calls' = calls + 1
  /\ tool' = [pc |-> "built", op |-> op, request |-> status.request,
              plan |-> IF plan = 0 THEN status.plan ELSE plan]
  /\ UNCHANGED <<status, seq, approved, tried>>

\* transition_begin
Begun(plan, op) == Matches(plan) /\ status.state \in From[op]

\* ... the command built from it, and the manager asked to take the operation up.
Begin ==
  /\ tool.pc = "built"
  /\ IF Begun(tool.plan, tool.op)
       THEN /\ status' = [status EXCEPT !.state = Running[tool.op]]
            /\ tool' = [tool EXCEPT !.pc = "running"]
            /\ tried' = IF tool.op = "apply" THEN tried \cup {tool.plan} ELSE tried
       ELSE tool' = Idle /\ UNCHANGED <<status, tried>>
  /\ UNCHANGED <<seq, calls, approved>>

\* transition_finish
Finished(plan, op, ok) ==
  IF Matches(plan) /\ status.state = Running[op]
  THEN [status EXCEPT !.state = IF ok THEN Success[op] ELSE "failed"]
  ELSE status

\* The command has run over SSH, or has not reached the host; its outcome is
\* reported, and what the report returns is not looked at.
Finish(ok) ==
  /\ tool.pc = "running"
  /\ status' = Finished(tool.plan, tool.op, ok)
  /\ tool' = Idle
  /\ UNCHANGED <<seq, calls, approved, tried>>

\* The report does not get the lock within 250 ms: the plan stays as it is, and
\* nothing is ever reported of it again.
FinishTimesOut ==
  /\ tool.pc = "running" /\ tool' = Idle
  /\ UNCHANGED <<status, seq, calls, approved, tried>>

-------------------------------------------------------------------------------
Init ==
  /\ status = [state |-> "empty", plan |-> 0, request |-> None]
  /\ seq = 0 /\ tool = Idle /\ calls = 0
  /\ approved = [p \in 1..MaxPlans |-> None] /\ tried = {}

Next ==
  \/ \E r \in Requests : Create(r)
  \/ \E p \in 1..seq : Approve(p) \/ Cancel(p)
  \/ \E op \in Operations, p \in 0..seq : Read(op, p)
  \/ Begin \/ (\E ok \in BOOLEAN : Finish(ok)) \/ FinishTimesOut

Spec == Init /\ [][Next]_vars

-------------------------------------------------------------------------------
(* The command that runs carries the mode the operator approved under that  *)
(* plan's name, although the tool built it from an earlier reading; and a   *)
(* rollback is of a plan that was approved and not cancelled since.         *)
ExecutesTheApproved ==
  tool.pc = "running" =>
    /\ approved[tool.plan] # None
    /\ tool.op # "rollback" => approved[tool.plan] = tool.request

(* A rollback, or a check of the result, is for a plan whose change has     *)
(* been begun.                                                              *)
RollbackHasSomethingToUndo ==
  tool.pc = "running" /\ tool.op # "apply" => tool.plan \in tried

(* While a command runs its plan stays, in its state: the report whose      *)
(* result nobody checks is taken whenever it gets the lock.                 *)
ReportIsTaken ==
  tool.pc = "running" => Matches(tool.plan) /\ status.state = Running[tool.op]
===============================================================================
