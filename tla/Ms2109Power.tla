---------------------------- MODULE Ms2109Power -----------------------------
(***************************************************************************)
(* The rails of the capture chip (drivers/ms2109_power.c): 3.3 V and 1.2 V *)
(* switched in order under s_lock by the web server, the serial console    *)
(* and the UVC supervisor, and the cold start whose second half runs in a  *)
(* timer callback that may already be waiting for the lock when somebody   *)
(* else changes his mind.                                                  *)
(***************************************************************************)
EXTENDS Integers

CONSTANTS
  MaxOps,     \* bound: requests
  MaxCold     \* bound: cold starts among them

Tasks == {"web", "cli", "sup"}

VARIABLES
  rail,    \* the two outputs: v33, v12
  holder,  \* s_lock
  call,    \* of each task: where it is and its operation
  cold,    \* cold_start_active, whether its time is over
  timer,   \* s_cold_start_timer: armed, and the callback: idle, fired
           \* (waiting for the lock), run1, run2
  want,    \* what the last operation that got the lock asked for
  count    \* requests and cold starts so far

vars == <<rail, holder, call, cold, timer, want, count>>

NoCall == [pc |-> "idle", op |-> "none"]

(* si_ms2109_power_init leaves the card on.                                *)
RailInit ==
  /\ rail = [v33 |-> TRUE, v12 |-> TRUE] /\ holder = "none"
  /\ call = [t \in Tasks |-> NoCall]
  /\ cold = [active |-> FALSE, over |-> FALSE] /\ timer = [armed |-> FALSE, cb |-> "idle"]
  /\ want = "on" /\ count = [ops |-> 0, cold |-> 0]

(* The handlers of the browser and of the console, and the supervisor's    *)
(* status check before it replugs the card.                                *)
Request(t, op) ==
  /\ call[t] = NoCall /\ count.ops < MaxOps
  /\ op = "cold" => t = "web" /\ count.cold < MaxCold
  /\ t = "sup" => op = "cycle" /\ holder = "none"
                    /\ rail.v33 /\ rail.v12 /\ ~cold.active
  /\ call' = [call EXCEPT ![t] = [pc |-> "wait", op |-> op]]
  /\ count' = [ops |-> count.ops + 1,
               cold |-> count.cold + (IF op = "cold" THEN 1 ELSE 0)]
  /\ UNCHANGED <<rail, holder, cold, timer, want>>

(* cancel_cold_start_locked: a callback that has fired is not stopped.     *)
CancelCold == cold' = [active |-> FALSE, over |-> FALSE]

(* The lock, the cancel; a cold start also needs its timer object.         *)
Take(t) ==
  /\ call[t].pc = "wait" /\ holder = "none" /\ holder' = t
  /\ \/ /\ CancelCold
        /\ timer' = [timer EXCEPT !.armed = FALSE]
        /\ call' = [call EXCEPT ![t].pc = IF call[t].op = "on" THEN "on1"
                                          ELSE "off1"]
        /\ want' = IF call[t].op = "off" THEN "off" ELSE "on"
     \/ /\ call[t].op = "cold"             \* esp_timer_create failed
        /\ call' = [call EXCEPT ![t] = [pc |-> "on1", op |-> "on"]]
        /\ cold' = [cold EXCEPT !.active = FALSE] /\ want' = "on"
        /\ UNCHANGED timer
  /\ UNCHANGED <<rail, count>>

(* The wait for the lock times out and the call fails.                     *)
Busy(t) ==
  /\ call[t].pc = "wait" /\ holder # "none"
  /\ call' = [call EXCEPT ![t] = NoCall]
  /\ UNCHANGED <<rail, holder, cold, timer, want, count>>

(* set_power_locked.                                                       *)
Off(t) ==
  /\ call[t].pc \in {"off1", "off2"}
  /\ IF call[t].pc = "off1"
     THEN rail' = [rail EXCEPT !.v12 = FALSE] /\ call' = [call EXCEPT ![t].pc = "off2"]
     ELSE rail' = [rail EXCEPT !.v33 = FALSE] /\ call' = [call EXCEPT ![t].pc = "dark"]
  /\ UNCHANGED <<holder, cold, timer, want, count>>
On(t) ==
  /\ call[t].pc \in {"on1", "on2"}
  /\ IF call[t].pc = "on1"
     THEN rail' = [rail EXCEPT !.v33 = TRUE] /\ call' = [call EXCEPT ![t].pc = "on2"]
     ELSE rail' = [rail EXCEPT !.v12 = TRUE] /\ call' = [call EXCEPT ![t].pc = "done"]
  /\ UNCHANGED <<holder, cold, timer, want, count>>

(* Both rails are off: a cycle goes on after its time, a cold start arms   *)
(* the timer or, if it cannot, goes back on.                               *)
Dark(t) ==
  /\ call[t].pc = "dark"
  /\ \/ /\ call[t].op = "off" /\ call' = [call EXCEPT ![t].pc = "done"]
        /\ UNCHANGED <<timer, cold>>
     \/ /\ call[t].op \in {"cycle", "cold"} /\ call' = [call EXCEPT ![t].pc = "on1"]
        /\ UNCHANGED <<timer, cold>>
     \/ /\ call[t].op = "cold" /\ call' = [call EXCEPT ![t].pc = "done"]
        /\ timer' = [timer EXCEPT !.armed = TRUE] /\ cold' = [active |-> TRUE, over |-> FALSE]
  /\ UNCHANGED <<rail, holder, want, count>>

Done(t) ==
  /\ call[t].pc = "done" /\ holder' = "none"
  /\ call' = [call EXCEPT ![t] = NoCall]
  /\ UNCHANGED <<rail, cold, timer, want, count>>

(***************************************************************************)
(* cold_start_timer_cb, in the timer task                                  *)
(***************************************************************************)
Expire ==
  /\ timer.armed /\ timer.cb = "idle"
  /\ timer' = [armed |-> FALSE, cb |-> "fired"]
  /\ cold' = [cold EXCEPT !.over = TRUE]
  /\ UNCHANGED <<rail, holder, call, want, count>>

(* Mutant: the callback does not ask whether it is still wanted.           *)
FireAnyway ==
  /\ timer.cb = "fired" /\ holder = "none"
  /\ holder' = "timer" /\ timer' = [timer EXCEPT !.cb = "run1"]
  /\ cold' = [cold EXCEPT !.active = FALSE]
  /\ UNCHANGED <<rail, call, want, count>>

Fire ==
  /\ timer.cb = "fired" /\ holder = "none"
  /\ IF cold.active
     THEN /\ holder' = "timer" /\ timer' = [timer EXCEPT !.cb = "run1"]
          /\ cold' = [cold EXCEPT !.active = FALSE]
     ELSE timer' = [timer EXCEPT !.cb = "idle"] /\ UNCHANGED <<holder, cold>>
  /\ UNCHANGED <<rail, call, want, count>>

(* Two seconds without the lock: only a cycle keeps it so long.            *)
FireGivesUp ==
  /\ timer.cb = "fired" /\ \E t \in Tasks : holder = t /\ call[t].op = "cycle"
  /\ timer' = [timer EXCEPT !.cb = "idle"] /\ UNCHANGED <<rail, holder, call, cold, want, count>>

FireOn ==
  /\ \/ /\ timer.cb = "run1" /\ timer' = [timer EXCEPT !.cb = "run2"]
        /\ rail' = [rail EXCEPT !.v33 = TRUE] /\ UNCHANGED holder
     \/ /\ timer.cb = "run2" /\ timer' = [timer EXCEPT !.cb = "idle"]
        /\ rail' = [rail EXCEPT !.v12 = TRUE] /\ holder' = "none"
  /\ UNCHANGED <<call, cold, want, count>>

CallNext(t) == Take(t) \/ Off(t) \/ On(t) \/ Dark(t) \/ Done(t)
RailNext ==
  \/ \E t \in Tasks :
       \/ \E op \in {"on", "off", "cycle", "cold"} : Request(t, op)
       \/ Busy(t) \/ CallNext(t)
  \/ Expire \/ Fire \/ FireGivesUp \/ FireOn

RailSpec == RailInit /\ [][RailNext]_vars

(***************************************************************************)
(* Properties                                                              *)
(***************************************************************************)

(* 1.2 V is never on without 3.3 V (set_power_locked: on is 3.3 then 1.2,  *)
(* off is 1.2 then 3.3), whoever switches.                                 *)
RailOrder == rail.v12 => rail.v33

(* After si_ms2109_power_set(false) the card stays dark: the cold start it *)
(* cancelled does not come back, not even a callback already waiting.      *)
OffStaysOff == want = "off" /\ holder = "none" => ~rail.v33 /\ ~rail.v12
=============================================================================
