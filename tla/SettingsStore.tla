----------------------------- MODULE SettingsStore -----------------------------
(***************************************************************************)
(* Settings in flash (main/infrastructure/settings_store.c, secret_store.c *)
(* and flash_access.c).  Touching flash switches the cache off, so a task  *)
(* whose stack lies in PSRAM hands each operation to one proxy task and    *)
(* waits; the others run it themselves.  One key of one namespace is       *)
(* enough to tell a result that belongs to somebody else from one's own.   *)
(***************************************************************************)
EXTENDS Naturals, FiniteSets

CONSTANTS
  Internal,  \* tasks whose stack is in internal memory
  External,  \* tasks whose stack is in PSRAM
  Values,    \* strings a key may hold
  Empty,     \* the string of length zero, one of Values
  None,
  MaxCalls   \* bound: operations begun

Tasks == Internal \cup External

\* What the parameters are: None is nobody.
SettingsBounds == None \notin Tasks

VARIABLES
  nvs,      \* the key's value, or None
  handle,   \* each task's store: closed, read or write
  pc,       \* where each task is in si_flash_access_call
  op,       \* the operation each task asked for
  lock,     \* s_proxy_lock: its holder or None
  pending,  \* s_pending_fn and s_pending_ctx: whose operation, or None
  notified, \* the proxy's task notification
  result,   \* s_pending_result
  done,     \* s_proxy_done
  ran,      \* ghost: the result of the operation each task has in flight
  mine,     \* ghost: every result handed out so far was the caller's own
  calls

vars == <<nvs, handle, pc, op, lock, pending, notified, result, done, ran, mine,
          calls>>

NotFound == [res |-> "not_found", val |-> None]
NoOp == [kind |-> "commit"]

Ops == [kind : {"open"}, mode : {"read", "write"}]
         \cup [kind : {"set"}, val : Values]
         \cup [kind : {"get", "secret_get", "configured", "erase", "commit"}]

TimedOut == [res |-> "timeout", val |-> None]
Invalid == [res |-> "invalid_state", val |-> None]
Good(v) == [res |-> "ok", val |-> v]

-------------------------------------------------------------------------------
(* The operations *)

\* si_secret_store_is_configured: the stored size counts the terminator.
Configured(v) == v # None /\ v # Empty

\* si_secret_store_get_string
SecretGet(v) == IF v = None \/ v = Empty THEN NotFound ELSE Good(v)

\* validate_store
Valid(t, o) ==
  /\ handle[t] # "closed"
  /\ o.kind \in {"set", "erase", "commit"} => handle[t] = "write"

\* open_store: a store that is open already is not opened again.
Opens(t, o) == o.kind = "open" /\ handle[t] = "closed"

\* store_op_run for task t: what it returns ...
Returns(t, o) ==
  CASE o.kind = "open" -> IF Opens(t, o) THEN Good(None) ELSE Invalid
    [] o.kind # "open" /\ ~Valid(t, o) -> Invalid
    [] o.kind = "get" /\ Valid(t, o) -> IF nvs = None THEN NotFound ELSE Good(nvs)
    [] o.kind = "secret_get" /\ Valid(t, o) -> SecretGet(nvs)
    [] o.kind = "configured" /\ Valid(t, o) ->
         [res |-> IF Configured(nvs) THEN "yes" ELSE "no", val |-> nvs]
    [] o.kind = "erase" /\ Valid(t, o) -> IF nvs = None THEN NotFound ELSE Good(None)
    [] OTHER -> Good(None)

\* ... and what it does.
Effect(t, o) ==
  /\ handle' = IF Opens(t, o) THEN [handle EXCEPT ![t] = o.mode] ELSE handle
  /\ nvs' = CASE o.kind = "set" /\ Valid(t, o) -> o.val
              [] o.kind = "erase" /\ Valid(t, o) -> None
              [] OTHER -> nvs
  /\ ran' = [ran EXCEPT ![t] = Returns(t, o)]

-------------------------------------------------------------------------------
(* Running them where flash may be touched *)

\* si_flash_access_call asks where the caller's stack is.
Call(t, o) ==
  /\ pc[t] = "idle" /\ calls < MaxCalls
  /\ calls' = calls + 1
  /\ op' = [op EXCEPT ![t] = o]
  /\ pc' = [pc EXCEPT ![t] = IF t \in Internal THEN "direct" ELSE "locking"]
  /\ ran' = [ran EXCEPT ![t] = NotFound]
  /\ UNCHANGED <<nvs, handle, lock, pending, notified, result, done, mine>>

\* The caller is back with the result r.
Return(t, r) ==
  /\ pc' = [pc EXCEPT ![t] = "idle"]
  /\ op' = [op EXCEPT ![t] = NoOp]
  /\ mine' = (mine /\ r = ran'[t])

Direct(t) ==
  /\ pc[t] = "direct"
  /\ Effect(t, op[t])
  /\ Return(t, Returns(t, op[t]))
  /\ UNCHANGED <<lock, pending, notified, result, done, calls>>

\* The wait for the lock runs out after ten seconds.
Refused(t) ==
  /\ pc[t] = "locking" /\ lock # None
  /\ ran' = [ran EXCEPT ![t] = TimedOut]
  /\ Return(t, TimedOut)
  /\ UNCHANGED <<nvs, handle, lock, pending, notified, result, done, calls>>

HandOver(t) ==
  /\ pc[t] = "locking" /\ lock = None
  /\ lock' = t
  /\ pending' = t
  /\ notified' = TRUE
  /\ pc' = [pc EXCEPT ![t] = "waiting"]
  /\ UNCHANGED <<nvs, handle, op, result, done, ran, mine, calls>>

\* flash_proxy_task
Proxy ==
  /\ notified
  /\ notified' = FALSE
  /\ IF pending = None
       THEN result' = Invalid /\ UNCHANGED <<nvs, handle, ran>>
       ELSE result' = Returns(pending, op[pending]) /\ Effect(pending, op[pending])
  /\ done' = TRUE
  /\ UNCHANGED <<pc, op, lock, pending, mine, calls>>

\* Mutant: the caller waits for the proxy no longer than for the lock.
TakeBackTimed(t) ==
  /\ pc[t] = "waiting"
  /\ done' = FALSE /\ lock' = None /\ pending' = None
  /\ pc' = [pc EXCEPT ![t] = "idle"]
  /\ op' = [op EXCEPT ![t] = NoOp]
  /\ UNCHANGED <<nvs, handle, notified, result, ran, mine, calls>>

\* The caller wakes, takes the result and lets the next one in.
TakeBack(t) ==
  /\ pc[t] = "waiting" /\ done
  /\ done' = FALSE
  /\ pending' = None
  /\ lock' = None
  /\ UNCHANGED ran
  /\ Return(t, result)
  /\ UNCHANGED <<nvs, handle, notified, result, calls>>

\* si_settings_store_close goes to no proxy: it only drops the handle.
Close(t) ==
  /\ pc[t] = "idle" /\ handle[t] # "closed"
  /\ handle' = [handle EXCEPT ![t] = "closed"]
  /\ UNCHANGED <<nvs, pc, op, lock, pending, notified, result, done, ran, mine,
                 calls>>

-------------------------------------------------------------------------------
Init ==
  /\ nvs \in Values \cup {None}
  /\ handle = [t \in Tasks |-> "closed"]
  /\ pc = [t \in Tasks |-> "idle"]
  /\ op = [t \in Tasks |-> NoOp]
  /\ ran = [t \in Tasks |-> NotFound]
  /\ lock = None /\ pending = None /\ notified = FALSE
  /\ result = Invalid /\ done = FALSE /\ mine = TRUE /\ calls = 0

Next ==
  \/ \E t \in Tasks, o \in Ops : Call(t, o)
  \/ \E t \in Tasks : Direct(t) \/ Refused(t) \/ HandOver(t) \/ TakeBack(t) \/ Close(t)
  \/ Proxy

Spec == Init /\ [][Next]_vars

FairSpec ==
  /\ Spec /\ WF_vars(Proxy)
  /\ \A t \in Tasks : /\ WF_vars(Direct(t)) /\ WF_vars(TakeBack(t))
                      /\ WF_vars(HandOver(t) \/ Refused(t))

-------------------------------------------------------------------------------
(* Every task gets the result of its own operation, although there is one  *)
(* result and one place for the operation.                                 *)
ResultIsMine == mine

(* The proxy works only for a task that waits: the operation borrows the   *)
(* buffers on that task's stack.                                           *)
ProxyHasACaller ==
  notified => /\ pending # None /\ pc[pending] = "waiting" /\ lock = pending
              /\ ~done

(* What says it is configured can be read, and what can be read says so.   *)
ConfiguredIsReadable ==
  Configured(nvs) <=> SecretGet(nvs).res = "ok"
===============================================================================
