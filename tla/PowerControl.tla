---------------------------- MODULE PowerControl ----------------------------
(***************************************************************************)
(* Front-panel wires of the target (drivers/power_control.c): the map from *)
(* roles to GPIOs, its validation, the pins it configures, presses of the  *)
(* power and reset buttons that hold a pin while the lock is free, the     *)
(* locator LED with its optional return pin, and the saved map.            *)
(*                                                                         *)
(* Calls run under s_lock from end to end except a press, which leaves the *)
(* lock while the button is down and keeps everybody out with busy.  GPIO  *)
(* calls on validated pins succeed; the settings store may fail after any  *)
(* number of keys.                                                         *)
(***************************************************************************)
EXTENDS Integers, Sequences, FiniteSets

CONSTANTS
  Pins,        \* GPIO numbers 0 .. GPIO_NUM_MAX - 1
  Reserved,    \* gpio_reserved_by_non_power_subsystem
  ReturnPin,   \* SI_CFG_POWER_LOCATOR_RETURN_GPIO or NoPin
  NoPin,       \* -1
  Default,     \* role -> default GPIO
  Pressers,    \* tasks that press buttons
  MaxOps, MaxFaults   \* bounds: calls; failed saves and power losses

Roles == <<"power", "reset", "detect", "locator">>
RoleSet == {"power", "reset", "detect", "locator"}
Buttons == {"power", "reset"}
Outputs == Buttons \cup {"locator"}

VARIABLES
  map,       \* s_gpio_cfg: role -> GPIO and polarity
  led,       \* locator: logical_on, s_locator_reversed, a reset half done
  pins,      \* the hardware: pin -> mode and level
  busy,      \* s_status.busy
  press,     \* the presses under way: role, pin and polarity they read
  saved,     \* the keys in flash
  count      \* bounds used

vars == <<map, led, pins, busy, press, saved, count>>

NoPress == [role |-> "none", gpio |-> NoPin, high |-> TRUE]
Defaults == [r \in RoleSet |-> [gpio |-> Default[r], high |-> TRUE]]
Free == [mode |-> "free", level |-> FALSE]

(* validate_gpio_cfg: buttons are wired, nothing reserved, no pin twice.   *)
ValidMap(m) ==
  /\ ReturnPin \notin Reserved
  /\ \A b \in Buttons : m[b].gpio \in Pins
  /\ \A r \in RoleSet : m[r].gpio \notin Reserved
                          /\ (m[r].gpio = NoPin \/ m[r].gpio # ReturnPin)
  /\ \A r, s \in RoleSet : r # s /\ m[r].gpio = m[s].gpio => m[r].gpio = NoPin

(* What the pins and the default map of a board are.                       *)
PowerBounds ==
  /\ NoPin \notin Pins /\ ReturnPin \in Pins \cup {NoPin}
  /\ Default \in [RoleSet -> Pins \cup {NoPin}] /\ ValidMap(Defaults)

Bidirectional(m) == m["locator"].gpio \in Pins /\ ReturnPin \in Pins

(* logical_level, role_output_level, set_locator_output_levels: the level  *)
(* an output has while no button is held.                                  *)
LocatorLevel(m, on, reversed) ==
  IF Bidirectional(m) THEN on /\ ~reversed ELSE m["locator"].high = on
IdleLevel(m, on, reversed, r) ==
  IF r = "locator" THEN LocatorLevel(m, on, reversed) ELSE ~m[r].high

(* apply_gpio_cfg: configure_output_role and configure_input_role.         *)
Applied(ps, m, on, reversed) ==
  [p \in Pins |->
     IF \E r \in Outputs : m[r].gpio = p
     THEN LET r == CHOOSE x \in Outputs : m[x].gpio = p IN
          [mode |-> "out", level |-> IdleLevel(m, on, reversed, r)]
     ELSE IF m["detect"].gpio = p THEN [mode |-> "in", level |-> FALSE]
     ELSE IF p = ReturnPin /\ Bidirectional(m)
     THEN [mode |-> "out", level |-> on /\ reversed]
     ELSE ps[p]]

(* release_unused_gpios.                                                   *)
Released(ps, old, new) ==
  [p \in Pins |->
     IF \/ /\ \E r \in RoleSet : old[r].gpio = p
           /\ \A r \in RoleSet : new[r].gpio # p
        \/ p = ReturnPin /\ old["locator"].gpio \in Pins
             /\ new["locator"].gpio \notin Pins
     THEN Free ELSE ps[p]]

(* load_gpio_map_from_store: key by key, the defaults if they do not make  *)
(* a map.  A key that was never saved counts as its default.               *)
LoadMap(s) == IF ValidMap(s.map) THEN s.map ELSE Defaults

(* si_power_init.                                                          *)
Boot(s) ==
  [map |-> LoadMap(s), led |-> [on |-> FALSE, reversed |-> s.reversed,
                                resetting |-> FALSE],
   pins |-> Applied([p \in Pins |-> Free], LoadMap(s), FALSE, s.reversed)]

PowerInit ==
  LET s == [map |-> Defaults, reversed |-> FALSE] IN
  /\ saved = s /\ map = Boot(s).map /\ led = Boot(s).led /\ pins = Boot(s).pins
  /\ busy = FALSE /\ press = [t \in Pressers |-> NoPress]
  /\ count = [ops |-> 0, faults |-> 0]

Spend(what, max) == count[what] < max /\ count' = [count EXCEPT ![what] = @ + 1]
Op == Spend("ops", MaxOps)

(* save_gpio_map_to_store, of which n keys were written: the pin and then  *)
(* the polarity of each role, and the locator's direction.                 *)
Place(r) == CHOOSE i \in 1 .. 4 : Roles[i] = r
Written(s, m, reversed, n) ==
  [map |-> [r \in RoleSet |->
              [gpio |-> IF n >= 2 * Place(r) - 1 THEN m[r].gpio ELSE s.map[r].gpio,
               high |-> IF n >= 2 * Place(r) THEN m[r].high ELSE s.map[r].high]],
   reversed |-> IF n > 8 THEN reversed ELSE s.reversed]
AllKeys == 9

(***************************************************************************)
(* Button presses: pulse_role                                              *)
(***************************************************************************)

Press(t, r) ==
  /\ press[t] = NoPress /\ ~busy /\ Op
  /\ busy' = TRUE
  /\ press' = [press EXCEPT ![t] = [role |-> r, gpio |-> map[r].gpio,
                                    high |-> map[r].high]]
  /\ pins' = [pins EXCEPT ![map[r].gpio].level = map[r].high]
  /\ UNCHANGED <<map, led, saved>>

(* The duration is over or the caller cancelled.                           *)
Unpress(t) ==
  /\ press[t] # NoPress
  /\ pins' = [pins EXCEPT ![press[t].gpio].level = ~press[t].high]
  /\ press' = [press EXCEPT ![t] = NoPress] /\ busy' = FALSE
  /\ UNCHANGED <<map, led, saved, count>>

(***************************************************************************)
(* The map                                                                 *)
(***************************************************************************)

(* A save that fails: the old map is applied again.                        *)
MapFails(next, n) ==
  /\ ~busy /\ Spend("faults", MaxFaults) /\ ValidMap(next)
  /\ saved' = Written(saved, next, led.reversed, n)
  /\ pins' = Applied(Applied(pins, next, led.on, led.reversed),
                     map, led.on, led.reversed)
  /\ UNCHANGED <<map, led, busy, press>>

(* The common part of si_power_set_gpio_map and si_power_swap_button_gpios. *)
TakeMap(next, persist, release) ==
  /\ ~busy /\ Op /\ ValidMap(next) /\ map' = next
  /\ saved' = IF persist THEN Written(saved, next, led.reversed, AllKeys) ELSE saved
  /\ LET applied == Applied(pins, next, led.on, led.reversed) IN
     pins' = IF release THEN Released(applied, map, next) ELSE applied
  /\ UNCHANGED <<busy, press>>

Updated(r, gpio, high) == [map EXCEPT ![r] = [gpio |-> gpio, high |-> high]]
Swapped ==
  [map EXCEPT !["power"] = [gpio |-> map["reset"].gpio, high |-> @.high],
              !["reset"] = [gpio |-> map["power"].gpio, high |-> @.high]]

SetMap(r, gpio, high, persist) ==
  TakeMap(Updated(r, gpio, high), persist, TRUE) /\ UNCHANGED led
SwapButtons(persist) == TakeMap(Swapped, persist, FALSE) /\ UNCHANGED led

(* si_power_reset_gpio_map: the map, and then the locator's direction in a *)
(* call of its own.                                                        *)
ResetMap(persist) ==
  /\ ~led.resetting /\ TakeMap(Defaults, persist, TRUE)
  /\ led' = [led EXCEPT !.resetting = led.reversed]

(***************************************************************************)
(* The locator                                                             *)
(***************************************************************************)
WithLocator(on, reversed) ==
  [p \in Pins |->
     IF p = map["locator"].gpio
     THEN [pins[p] EXCEPT !.level = LocatorLevel(map, on, reversed)]
     ELSE IF p = ReturnPin /\ Bidirectional(map)
     THEN [pins[p] EXCEPT !.level = on /\ reversed] ELSE pins[p]]

SetLocator(on) ==
  /\ ~busy /\ map["locator"].gpio \in Pins /\ Op
  /\ pins' = WithLocator(on, led.reversed)
  /\ led' = [led EXCEPT !.on = on]
  /\ UNCHANGED <<map, busy, press, saved>>

Reverse(reversed, persist) ==
  /\ ~busy /\ Bidirectional(map)
  /\ pins' = WithLocator(led.on, reversed)
  /\ led' = [led EXCEPT !.reversed = reversed, !.resetting = FALSE]
  /\ saved' = IF persist THEN [saved EXCEPT !.reversed = reversed] ELSE saved
  /\ UNCHANGED <<map, busy, press>>
SetLocatorReversed(reversed, persist) ==
  ~led.resetting /\ Reverse(reversed, persist) /\ Op

(* A save that fails turns the LED back.                                   *)
ReverseFails ==
  /\ ~busy /\ Bidirectional(map) /\ Spend("faults", MaxFaults)
  /\ pins' = WithLocator(led.on, led.reversed)
  /\ UNCHANGED <<map, led, busy, press, saved>>

ResetDirection(persist) ==
  /\ led.resetting
  /\ \/ Reverse(FALSE, persist)
     \/ /\ busy \/ ~Bidirectional(map)
        /\ led' = [led EXCEPT !.resetting = FALSE]
        /\ UNCHANGED <<map, pins, busy, press, saved>>
  /\ UNCHANGED count

(* Power is lost, also while a map is being saved.                         *)
Crash(next, n) ==
  /\ (n > 0 => ~busy) /\ Spend("faults", MaxFaults) /\ ValidMap(next)
  /\ LET s == Written(saved, next, led.reversed, n) IN
     /\ saved' = s /\ map' = Boot(s).map /\ led' = Boot(s).led
     /\ pins' = Boot(s).pins
  /\ busy' = FALSE /\ press' = [t \in Pressers |-> NoPress]

(* Maps whose saving may be cut short.                                     *)
Requests == {Updated("reset", g, FALSE) : g \in Pins}
              \cup {Swapped, Defaults}

PowerNext ==
  \/ \E t \in Pressers : (\E b \in Buttons : Press(t, b)) \/ Unpress(t)
  \/ \E persist \in BOOLEAN :
       \/ \E r \in RoleSet, g \in Pins \cup {NoPin}, h \in BOOLEAN :
            SetMap(r, g, h, persist)
       \/ SwapButtons(persist) \/ ResetMap(persist) \/ ResetDirection(persist)
       \/ \E reversed \in BOOLEAN : SetLocatorReversed(reversed, persist)
  \/ \E on \in BOOLEAN : SetLocator(on)
  \/ ReverseFails
  \/ \E next \in Requests, n \in 0 .. AllKeys - 1 :
       MapFails(next, n) \/ Crash(next, n)

PowerSpec == PowerInit /\ [][PowerNext]_vars

(***************************************************************************)
(* Properties                                                              *)
(***************************************************************************)

(* The map in use is always a valid one, whatever part of a map a power    *)
(* loss or a failed save left in flash (load_gpio_map_from_store).         *)
MapIsValid == ValidMap(map)

(* A button that nobody presses is up: the level on its pin is the idle    *)
(* level for the polarity the map has now.                                 *)
ButtonsAreUp ==
  \A b \in Buttons :
    (\A t \in Pressers : press[t].role # b)
      => pins[map[b].gpio] = [mode |-> "out", level |-> ~map[b].high]

(* A press holds the button the map names, and one button only: reset is   *)
(* never held together with power.                                         *)
OneButtonDown ==
  /\ Cardinality({t \in Pressers : press[t] # NoPress}) <= 1
  /\ \A t \in Pressers : press[t] # NoPress
       => map[press[t].role].gpio = press[t].gpio /\ busy

(* The LED shows what the status says: of the two pins exactly the one of  *)
(* the direction is driven while it is on, none while it is off.           *)
LocatorShowsState ==
  map["locator"].gpio \in Pins =>
    /\ pins[map["locator"].gpio].level = LocatorLevel(map, led.on, led.reversed)
    /\ Bidirectional(map) => pins[ReturnPin].level = (led.on /\ led.reversed)
=============================================================================
