------------------------------ MODULE HostProofs ------------------------------
(***************************************************************************)
(* The host's lines, for every value of the constants: the power and reset *)
(* buttons and the card's rails, the boot keys and the display plans, and  *)
(* the SSH client do what MCHost says of them.  The parts share no state;  *)
(* each has an inductive invariant of its own, named ...Inv, that ties the *)
(* calls under way to what they have read, hold and may still do.          *)
(***************************************************************************)
EXTENDS MCHost, FiniteSetTheorems, TLAPS

-----------------------------------------------------------------------------
(* The buttons and the locator *)

\* Maps, pins and presses of the right shape.
PinMaps == [Power!RoleSet -> [gpio: Gpios \cup {NoPin}, high: BOOLEAN]]
PinLevels == [Gpios -> [mode: {"free", "in", "out"}, level: BOOLEAN]]
Presses == {Power!NoPress} \cup [role: Power!Buttons, gpio: Gpios, high: BOOLEAN]

\* The types of the variables.
PowerTypes ==
  /\ map \in PinMaps /\ pins \in PinLevels /\ press \in [Pressers -> Presses]
  /\ led \in [on: BOOLEAN, reversed: BOOLEAN, resetting: BOOLEAN]
  /\ busy \in BOOLEAN /\ saved \in [map: PinMaps, reversed: BOOLEAN]

\* Button x of map m is up on the pins ps.
IsUp(ps, m, x) == ps[m[x].gpio] = [mode |-> "out", level |-> ~m[x].high]

\* The locator's pins show that it is on or off, in its direction.
Shows(ps, m, on, reversed) ==
  m["locator"].gpio \in Gpios =>
    /\ ps[m["locator"].gpio].level = Power!LocatorLevel(m, on, reversed)
    /\ Power!Bidirectional(m) => ps[ReturnPin].level = (on /\ reversed)

\* A press keeps everybody out, and knows the pin and the level of its button.
PressIsKnown ==
  /\ \A t \in Pressers : press[t] # Power!NoPress =>
       /\ busy = TRUE /\ press[t].gpio = map[press[t].role].gpio
       /\ press[t].high = map[press[t].role].high
  /\ \A t, u \in Pressers :
       press[t] # Power!NoPress /\ press[u] # Power!NoPress => t = u

\* A button's pin is an output, at rest unless somebody presses.
ButtonsRest ==
  \A x \in Power!Buttons :
    /\ pins[map[x].gpio].mode = "out"
    /\ (\A t \in Pressers : press[t].role # x) => IsUp(pins, map, x)

PowerInv ==
  /\ PowerTypes /\ Power!ValidMap(map) /\ PressIsKnown /\ ButtonsRest
  /\ Shows(pins, map, led.on, led.reversed)

-----------------------------------------------------------------------------
\* What a valid map says of its pins.
LEMMA ValidMeans ==
  ASSUME Power!PowerBounds, NEW m \in PinMaps, Power!ValidMap(m)
  PROVE  /\ \A x \in Power!Buttons : m[x].gpio \in Gpios
         /\ \A x \in Power!RoleSet, y \in Power!RoleSet :
              m[x].gpio = m[y].gpio /\ m[x].gpio \in Gpios => x = y
         /\ ReturnPin \in Gpios => \A x \in Power!RoleSet : m[x].gpio # ReturnPin
BY DEF Power!ValidMap, Power!PowerBounds

\* The level of an output at rest.
LEMMA LevelsAre ==
  ASSUME NEW m \in PinMaps, NEW on \in BOOLEAN, NEW reversed \in BOOLEAN,
         NEW x \in Power!Outputs
  PROVE  /\ Power!LocatorLevel(m, on, reversed) \in BOOLEAN
         /\ Power!IdleLevel(m, on, reversed, x) \in BOOLEAN
         /\ x \in Power!Buttons => Power!IdleLevel(m, on, reversed, x) = ~m[x].high
         /\ x = "locator" =>
              Power!IdleLevel(m, on, reversed, x) = Power!LocatorLevel(m, on, reversed)
<1>1. /\ m[x].high \in BOOLEAN /\ m["locator"].high \in BOOLEAN
  BY DEF PinMaps, Power!Outputs, Power!Buttons, Power!RoleSet
<1>2. Power!LocatorLevel(m, on, reversed) \in BOOLEAN
  BY DEF Power!LocatorLevel
<1>3. CASE x = "locator"
  BY <1>2, <1>3 DEF Power!IdleLevel, Power!Buttons
<1>4. CASE x # "locator"
  BY <1>1, <1>2, <1>4 DEF Power!IdleLevel
<1> QED  BY <1>3, <1>4

\* apply_gpio_cfg: the buttons of the map are up and the locator shows its state.
LEMMA AppliedMeans ==
  ASSUME Power!PowerBounds, NEW m \in PinMaps, Power!ValidMap(m), NEW ps \in PinLevels,
         NEW on \in BOOLEAN, NEW reversed \in BOOLEAN
  PROVE  LET a1 == Power!Applied(ps, m, on, reversed)
         IN  /\ a1 \in PinLevels /\ Shows(a1, m, on, reversed)
             /\ \A x \in Power!Buttons : IsUp(a1, m, x)
<1> DEFINE A == Power!Applied(ps, m, on, reversed)
<1>0. /\ Power!Outputs \subseteq Power!RoleSet /\ "locator" \in Power!Outputs
      /\ Power!Buttons \subseteq Power!Outputs
  BY DEF Power!Outputs, Power!Buttons, Power!RoleSet
<1>1. ASSUME NEW p \in Gpios, NEW x \in Power!Outputs, m[x].gpio = p
      PROVE  A[p] = [mode |-> "out", level |-> Power!IdleLevel(m, on, reversed, x)]
  <2>1. \A y \in Power!Outputs : m[y].gpio = p => y = x
    BY <1>0, <1>1, ValidMeans
  <2>2. (CHOOSE y \in Power!Outputs : m[y].gpio = p) = x
    BY <1>1, <2>1
  <2> QED  BY <1>1, <2>2 DEF Power!Applied
<1>2. ASSUME NEW p \in Gpios, \A x \in Power!Outputs : m[x].gpio # p
      PROVE  A[p] = IF m["detect"].gpio = p THEN [mode |-> "in", level |-> FALSE]
                    ELSE IF p = ReturnPin /\ Power!Bidirectional(m)
                    THEN [mode |-> "out", level |-> on /\ reversed]
                    ELSE ps[p]
  BY <1>2 DEF Power!Applied
<1>3. A \in PinLevels
  <2>1. ASSUME NEW p \in Gpios
        PROVE  A[p] \in [mode: {"free", "in", "out"}, level: BOOLEAN]
    <3>1. CASE \E x \in Power!Outputs : m[x].gpio = p
      <4>1. PICK x \in Power!Outputs : m[x].gpio = p
        BY <3>1
      <4>2. Power!IdleLevel(m, on, reversed, x) \in BOOLEAN
        BY LevelsAre
      <4>3. A[p] = [mode |-> "out", level |-> Power!IdleLevel(m, on, reversed, x)]
        BY <1>1, <4>1
      <4> HIDE DEF A
      <4> QED  BY <4>2, <4>3
    <3>2. CASE \A x \in Power!Outputs : m[x].gpio # p
      <4>1. ps[p] \in [mode: {"free", "in", "out"}, level: BOOLEAN]
        BY DEF PinLevels
      <4>2. (on /\ reversed) \in BOOLEAN
        OBVIOUS
      <4>3. \A l \in BOOLEAN : [mode |-> "out", level |-> l]
                                  \in [mode: {"free", "in", "out"}, level: BOOLEAN]
        OBVIOUS
      <4>4. [mode |-> "in", level |-> FALSE] \in [mode: {"free", "in", "out"}, level: BOOLEAN]
        OBVIOUS
      <4> QED  BY <1>2, <3>2, <4>1, <4>2, <4>3, <4>4, Zenon
    <3> QED  BY <3>1, <3>2
  <2>2. A = [p \in Gpios |-> A[p]]
    BY DEF Power!Applied
  <2> HIDE DEF A
  <2> QED  BY <2>1, <2>2 DEF PinLevels
<1>4. ASSUME NEW x \in Power!Buttons PROVE IsUp(A, m, x)
  <2>1. m[x].gpio \in Gpios
    BY ValidMeans
  <2>2. A[m[x].gpio] = [mode |-> "out", level |-> Power!IdleLevel(m, on, reversed, x)]
    BY <1>0, <1>1, <2>1
  <2>3. Power!IdleLevel(m, on, reversed, x) = ~m[x].high
    BY <1>0, LevelsAre
  <2> HIDE DEF A
  <2> QED  BY <2>2, <2>3 DEF IsUp
<1>5. Shows(A, m, on, reversed)
  <2> SUFFICES ASSUME m["locator"].gpio \in Gpios
               PROVE  /\ A[m["locator"].gpio].level = Power!LocatorLevel(m, on, reversed)
                      /\ Power!Bidirectional(m) => A[ReturnPin].level = (on /\ reversed)
    BY DEF Shows
  <2>1. A[m["locator"].gpio].level = Power!LocatorLevel(m, on, reversed)
    <3>1. A[m["locator"].gpio] =
            [mode |-> "out", level |-> Power!IdleLevel(m, on, reversed, "locator")]
      BY <1>0, <1>1
    <3>2. Power!IdleLevel(m, on, reversed, "locator") = Power!LocatorLevel(m, on, reversed)
      BY <1>0, LevelsAre
    <3> HIDE DEF A
    <3> QED  BY <3>1, <3>2
  <2>2. ASSUME Power!Bidirectional(m) PROVE A[ReturnPin].level = (on /\ reversed)
    <3>1. ReturnPin \in Gpios
      BY <2>2 DEF Power!Bidirectional
    <3>2. \A x \in Power!RoleSet : m[x].gpio # ReturnPin
      BY <3>1, ValidMeans
    <3>3. A[ReturnPin] = [mode |-> "out", level |-> on /\ reversed]
      BY <1>0, <1>2, <2>2, <3>1, <3>2 DEF Power!RoleSet
    <3> HIDE DEF A
    <3> QED  BY <3>3
  <2> QED  BY <2>1, <2>2
<1> QED  BY <1>3, <1>4, <1>5

\* release_unused_gpios touches nothing the new map uses.
LEMMA ReleasedMeans ==
  ASSUME Power!PowerBounds, NEW old \in PinMaps, NEW m \in PinMaps, Power!ValidMap(m),
         Power!ValidMap(old),
         NEW ps \in PinLevels, NEW on \in BOOLEAN, NEW reversed \in BOOLEAN,
         Shows(ps, m, on, reversed), \A x \in Power!Buttons : IsUp(ps, m, x)
  PROVE  LET q == Power!Released(ps, old, m)
         IN  /\ q \in PinLevels /\ Shows(q, m, on, reversed)
             /\ \A x \in Power!Buttons : IsUp(q, m, x)
<1> DEFINE q == Power!Released(ps, old, m)
<1>0. Power!Buttons \subseteq Power!RoleSet /\ "locator" \in Power!RoleSet
  BY DEF Power!Buttons, Power!RoleSet
<1>1. \A p \in Gpios : q[p] \in {Power!Free, ps[p]}
  BY DEF Power!Released
<1>2. Power!Free \in [mode: {"free", "in", "out"}, level: BOOLEAN]
  BY DEF Power!Free
<1>3. q \in PinLevels
  <2>1. q = [p \in Gpios |-> q[p]]
    BY DEF Power!Released
  <2> HIDE DEF q
  <2> QED  BY <1>1, <1>2, <2>1 DEF PinLevels
<1>4. ASSUME NEW x \in Power!RoleSet, m[x].gpio \in Gpios PROVE q[m[x].gpio] = ps[m[x].gpio]
  <2>1. ~(\A r \in Power!RoleSet : m[r].gpio # m[x].gpio)
    OBVIOUS
  <2>2. m[x].gpio # ReturnPin
    BY <1>4, ValidMeans
  <2> QED  BY <1>4, <2>1, <2>2 DEF Power!Released
<1>5. ASSUME Power!Bidirectional(m) PROVE q[ReturnPin] = ps[ReturnPin]
  <2>1. ReturnPin \in Gpios /\ m["locator"].gpio \in Gpios
    BY <1>5 DEF Power!Bidirectional
  <2>2. \A r \in Power!RoleSet : old[r].gpio # ReturnPin
    BY <2>1, ValidMeans
  <2> QED  BY <2>1, <2>2 DEF Power!Released
<1> HIDE DEF q
<1>6. \A x \in Power!Buttons : IsUp(q, m, x)
  BY <1>0, <1>4, ValidMeans DEF IsUp
<1>7. Shows(q, m, on, reversed)
  BY <1>0, <1>4, <1>5 DEF Shows
<1> QED  BY <1>3, <1>6, <1>7 DEF q


-----------------------------------------------------------------------------
\* With nobody pressing, every button is up and the locator shows its state.
LEMMA RestMeans ==
  ASSUME PowerInv, busy = FALSE
  PROVE  /\ \A t \in Pressers : press[t] = Power!NoPress
         /\ \A x \in Power!Buttons : IsUp(pins, map, x)
<1>1. \A t \in Pressers : press[t] = Power!NoPress
  BY DEF PowerInv, PressIsKnown
<1>2. \A t \in Pressers, x \in Power!Buttons : press[t].role # x
  BY <1>1 DEF Power!NoPress, Power!Buttons
<1> QED  BY <1>1, <1>2 DEF PowerInv, ButtonsRest

\* What a step that leaves nobody pressing has to keep.
LEMMA RestIsSafe ==
  ASSUME PowerTypes', Power!ValidMap(map'), \A t \in Pressers : press'[t] = Power!NoPress,
         \A x \in Power!Buttons : IsUp(pins', map', x),
         Shows(pins', map', led'.on, led'.reversed)
  PROVE  PowerInv'
<1>1. PressIsKnown'
  BY DEF PressIsKnown
<1>2. ButtonsRest'
  <2>1. ASSUME NEW x \in Power!Buttons
        PROVE  /\ pins'[map'[x].gpio].mode = "out" /\ IsUp(pins', map', x)
    <3>1. IsUp(pins', map', x)
      OBVIOUS
    <3>2. pins'[map'[x].gpio] = [mode |-> "out", level |-> ~map'[x].high]
      BY <3>1 DEF IsUp
    <3>3. pins'[map'[x].gpio].mode = "out"
      BY <3>2
    <3> QED  BY <3>1, <3>3
  <2> QED  BY <2>1 DEF ButtonsRest
<1> QED  BY <1>1, <1>2 DEF PowerInv

\* The maps a request asks for are maps.
LEMMA RequestsAreMaps ==
  ASSUME Power!PowerBounds, map \in PinMaps
  PROVE  /\ Power!Defaults \in PinMaps /\ Power!Swapped \in PinMaps
         /\ \A r \in Power!RoleSet, g \in Gpios \cup {NoPin}, h \in BOOLEAN :
              Power!Updated(r, g, h) \in PinMaps
         /\ Power!Requests \subseteq PinMaps
<1>1. Power!Defaults \in PinMaps
  BY DEF Power!PowerBounds, Power!Defaults, PinMaps
<1>2. Power!Swapped \in PinMaps
  BY DEF Power!Swapped, PinMaps, Power!RoleSet
<1>3. ASSUME NEW r \in Power!RoleSet, NEW g \in Gpios \cup {NoPin}, NEW h \in BOOLEAN
      PROVE  Power!Updated(r, g, h) \in PinMaps
  BY DEF Power!Updated, PinMaps
<1>4. Power!Requests \subseteq PinMaps
  <2>1. "reset" \in Power!RoleSet
    BY DEF Power!RoleSet
  <2> QED  BY <1>1, <1>2, <1>3, <2>1 DEF Power!Requests
<1> QED  BY <1>1, <1>2, <1>3, <1>4

\* What is in flash after n keys of a map were written is a map, valid or not.
LEMMA WrittenIsSaved ==
  ASSUME NEW s \in [map: PinMaps, reversed: BOOLEAN], NEW m \in PinMaps,
         NEW reversed \in BOOLEAN, NEW n
  PROVE  Power!Written(s, m, reversed, n) \in [map: PinMaps, reversed: BOOLEAN]
<1> DEFINE pin(r) == IF n >= 2 * Power!Place(r) - 1 THEN m[r].gpio ELSE s.map[r].gpio
           high(r) == IF n >= 2 * Power!Place(r) THEN m[r].high ELSE s.map[r].high
           keys1 == [r \in Power!RoleSet |-> [gpio |-> pin(r), high |-> high(r)]]
           dir == IF n > 8 THEN reversed ELSE s.reversed
<1>1. \A r \in Power!RoleSet : /\ pin(r) \in {m[r].gpio, s.map[r].gpio}
                               /\ high(r) \in {m[r].high, s.map[r].high}
  OBVIOUS
<1>2. \A r \in Power!RoleSet : /\ m[r].gpio \in Gpios \cup {NoPin} /\ m[r].high \in BOOLEAN
                               /\ s.map[r].gpio \in Gpios \cup {NoPin}
                               /\ s.map[r].high \in BOOLEAN
  BY DEF PinMaps
<1>3. dir \in BOOLEAN
  OBVIOUS
<1>4. Power!Written(s, m, reversed, n) = [map |-> keys1, reversed |-> dir]
  BY DEF Power!Written
<1> HIDE DEF pin, high, dir
<1>5. \A r \in Power!RoleSet : pin(r) \in Gpios \cup {NoPin} /\ high(r) \in BOOLEAN
  BY <1>1, <1>2
<1>6. keys1 \in PinMaps
  BY <1>5 DEF PinMaps
<1> HIDE DEF keys1
<1> QED  BY <1>3, <1>4, <1>6

\* si_power_init: whatever is in flash, the board comes up with a valid map and
\* its lines at rest.
LEMMA PowerOnIsSafe ==
  ASSUME Power!PowerBounds, NEW s \in [map: PinMaps, reversed: BOOLEAN],
         map \in PinMaps
  PROVE  LET x == Power!Boot(s)
         IN  /\ x.map \in PinMaps /\ Power!ValidMap(x.map) /\ x.pins \in PinLevels
             /\ x.led \in [on: BOOLEAN, reversed: BOOLEAN, resetting: BOOLEAN]
             /\ \A y \in Power!Buttons : IsUp(x.pins, x.map, y)
             /\ Shows(x.pins, x.map, x.led.on, x.led.reversed)
<1> DEFINE m == Power!LoadMap(s)
           f == [p \in Gpios |-> Power!Free]
           q == Power!Applied(f, m, FALSE, s.reversed)
           l == [on |-> FALSE, reversed |-> s.reversed, resetting |-> FALSE]
<1>1. m \in PinMaps /\ Power!ValidMap(m)
  BY RequestsAreMaps DEF Power!LoadMap, Power!PowerBounds
<1>2. f \in PinLevels
  BY DEF PinLevels, Power!Free
<1>3. Power!Boot(s) = [map |-> m, led |-> l, pins |-> q]
  BY DEF Power!Boot
<1> HIDE DEF m, f
<1>4. s.reversed \in BOOLEAN
  OBVIOUS
<1>5. /\ q \in PinLevels /\ Shows(q, m, FALSE, s.reversed)
      /\ \A x \in Power!Buttons : IsUp(q, m, x)
  BY <1>1, <1>2, <1>4, AppliedMeans
<1> HIDE DEF q
<1>6. /\ Power!Boot(s).map = m /\ Power!Boot(s).pins = q
      /\ Power!Boot(s).led = l /\ l.on = FALSE /\ l.reversed = s.reversed
  BY <1>3
<1>7. l \in [on: BOOLEAN, reversed: BOOLEAN, resetting: BOOLEAN]
  BY <1>4
<1> HIDE DEF l
<1> QED  BY <1>1, <1>5, <1>6, <1>7

-----------------------------------------------------------------------------
\* power_control.c starts at rest.
LEMMA PowerInitially ==
  ASSUME Power!PowerBounds, Power!PowerInit
  PROVE  PowerInv
<1> DEFINE s == [map |-> Power!Defaults, reversed |-> FALSE]
<1>0. Power!Defaults \in PinMaps
  BY DEF Power!PowerBounds, Power!Defaults, PinMaps
<1>1. s \in [map: PinMaps, reversed: BOOLEAN]
  BY <1>0
<1>2. /\ saved = s /\ map = Power!Boot(s).map /\ led = Power!Boot(s).led
      /\ pins = Power!Boot(s).pins
      /\ busy = FALSE /\ press = [t \in Pressers |-> Power!NoPress]
  BY DEF Power!PowerInit
<1>3. map \in PinMaps
  BY <1>0, <1>2 DEF Power!Boot, Power!LoadMap
<1> HIDE DEF s
<1>4. /\ Power!ValidMap(map) /\ pins \in PinLevels
      /\ led \in [on: BOOLEAN, reversed: BOOLEAN, resetting: BOOLEAN]
      /\ \A y \in Power!Buttons : IsUp(pins, map, y)
      /\ Shows(pins, map, led.on, led.reversed)
  BY <1>1, <1>2, <1>3, PowerOnIsSafe
<1>5. PowerTypes
  BY <1>1, <1>2, <1>3, <1>4 DEF PowerTypes, Presses
<1>6. PressIsKnown
  BY <1>2 DEF PressIsKnown
<1>7. ButtonsRest
  BY <1>4 DEF ButtonsRest, IsUp
<1> QED  BY <1>4, <1>5, <1>6, <1>7 DEF PowerInv

-----------------------------------------------------------------------------
\* pulse_role: a press moves the pin of its button and no other.
LEMMA PressKeeps ==
  ASSUME Power!PowerBounds, PowerInv, NEW t \in Pressers, NEW x \in Power!Buttons,
         Power!Press(t, x)
  PROVE  PowerInv'
<1> DEFINE g == map[x].gpio
           new == [role |-> x, gpio |-> g, high |-> map[x].high]
           drop == [pins[g] EXCEPT !.level = map[x].high]
<1>0. x \in Power!RoleSet /\ x \in Power!Outputs /\ "locator" \in Power!RoleSet /\ x # "locator"
  BY DEF Power!Buttons, Power!Outputs, Power!RoleSet
<1>1. /\ busy = FALSE /\ busy' = TRUE /\ press' = [press EXCEPT ![t] = new]
      /\ pins' = [pins EXCEPT ![g] = drop]
      /\ map' = map /\ led' = led /\ saved' = saved
  BY DEF Power!Press, PowerInv, PowerTypes
<1>2. map \in PinMaps /\ pins \in PinLevels /\ press \in [Pressers -> Presses]
  BY DEF PowerInv, PowerTypes
<1>3. /\ g \in Gpios /\ \A y \in Power!RoleSet : y # x => map[y].gpio # g
      /\ g # ReturnPin
  BY <1>0, <1>2, ValidMeans DEF PowerInv
<1>4. map[x].high \in BOOLEAN
  BY <1>0, <1>2 DEF PinMaps
<1>5. drop \in [mode: {"free", "in", "out"}, level: BOOLEAN] /\ drop.mode = pins[g].mode
  BY <1>2, <1>3, <1>4 DEF PinLevels
<1>6. new \in Presses /\ new # Power!NoPress /\ new.role = x
  BY <1>0, <1>3, <1>4 DEF Presses, Power!NoPress, Power!Buttons
<1> HIDE DEF drop
<1>7. /\ pins' \in PinLevels /\ pins'[g].mode = pins[g].mode
      /\ \A p \in Gpios : p # g => pins'[p] = pins[p]
  BY <1>1, <1>2, <1>3, <1>5 DEF PinLevels
<1>8. PowerTypes'
  <2>1. press' \in [Pressers -> Presses]
    BY <1>1, <1>2, <1>6
  <2> QED  BY <1>1, <1>7, <2>1 DEF PowerInv, PowerTypes
<1>9. PressIsKnown'
  <2>1. \A u \in Pressers : press[u] = Power!NoPress
    BY <1>1, RestMeans
  <2>2. press'[t] = new /\ \A u \in Pressers : u # t => press'[u] = Power!NoPress
    BY <1>1, <1>2, <2>1
  <2> QED  BY <1>1, <2>2 DEF PressIsKnown
<1>10. ButtonsRest'
  <2>1. ASSUME NEW y \in Power!Buttons
        PROVE  /\ pins'[map'[y].gpio].mode = "out"
               /\ (\A u \in Pressers : press'[u].role # y) => IsUp(pins', map', y)
    <3>1. /\ pins[map[y].gpio].mode = "out" /\ IsUp(pins, map, y)
          /\ y \in Power!RoleSet /\ map[y].gpio \in Gpios
      BY <1>1, <1>2, RestMeans, ValidMeans
         DEF PowerInv, ButtonsRest, Power!Buttons, Power!RoleSet
    <3>2. CASE y = x
      <4>1. press'[t].role = x
        BY <1>1, <1>2, <1>6
      <4> QED  BY <1>1, <1>7, <3>1, <3>2, <4>1
    <3>3. CASE y # x
      <4>1. map[y].gpio # g
        BY <1>3, <3>1, <3>3
      <4> QED  BY <1>1, <1>7, <3>1, <4>1 DEF IsUp
    <3> QED  BY <3>2, <3>3
  <2> QED  BY <2>1 DEF ButtonsRest
<1>11. Shows(pins', map', led'.on, led'.reversed)
  BY <1>0, <1>1, <1>3, <1>7 DEF PowerInv, Shows, Power!Bidirectional
<1> QED  BY <1>1, <1>8, <1>9, <1>10, <1>11 DEF PowerInv

\* The end of a press: the pin it knew is the button's still, and is let go.
LEMMA UnpressKeeps ==
  ASSUME Power!PowerBounds, PowerInv, NEW t \in Pressers, Power!Unpress(t)
  PROVE  PowerInv'
<1> DEFINE x == press[t].role
           g == press[t].gpio
           drop == [pins[g] EXCEPT !.level = ~press[t].high]
<1>1. /\ press[t] # Power!NoPress /\ busy' = FALSE
      /\ press' = [press EXCEPT ![t] = Power!NoPress]
      /\ pins' = [pins EXCEPT ![g] = drop] /\ map' = map /\ led' = led /\ saved' = saved
  BY DEF Power!Unpress
<1>2. map \in PinMaps /\ pins \in PinLevels /\ press \in [Pressers -> Presses]
  BY DEF PowerInv, PowerTypes
<1>3. x \in Power!Buttons /\ press[t].high \in BOOLEAN
  BY <1>1, <1>2 DEF Presses
<1>4. x \in Power!RoleSet /\ "locator" \in Power!RoleSet /\ x # "locator"
  BY <1>3 DEF Power!Buttons, Power!RoleSet
<1>5. /\ g = map[x].gpio /\ press[t].high = map[x].high
      /\ \A u \in Pressers : u # t => press[u] = Power!NoPress
  BY <1>1 DEF PowerInv, PressIsKnown
<1>6. /\ g \in Gpios /\ \A y \in Power!RoleSet : y # x => map[y].gpio # g
      /\ g # ReturnPin
  BY <1>2, <1>3, <1>4, <1>5, ValidMeans DEF PowerInv
<1>7. pins[g].mode = "out"
  BY <1>3, <1>5 DEF PowerInv, ButtonsRest
<1>8. drop = [mode |-> "out", level |-> ~map[x].high]
  BY <1>2, <1>5, <1>6, <1>7 DEF PinLevels
<1>8a. drop \in [mode: {"free", "in", "out"}, level: BOOLEAN]
  BY <1>3, <1>5, <1>8
<1> HIDE DEF drop
<1>9. /\ pins' \in PinLevels /\ pins'[g] = drop
      /\ \A p \in Gpios : p # g => pins'[p] = pins[p]
  BY <1>1, <1>2, <1>6, <1>8a DEF PinLevels
<1>10. \A u \in Pressers : press'[u] = Power!NoPress
  BY <1>1, <1>2, <1>5
<1>11. PowerTypes'
  <2>1. press' \in [Pressers -> Presses]
    BY <1>1, <1>2 DEF Presses
  <2> QED  BY <1>1, <1>9, <2>1 DEF PowerInv, PowerTypes
<1>12. ASSUME NEW y \in Power!Buttons PROVE IsUp(pins', map', y)
  <2>1. y \in Power!RoleSet /\ map[y].gpio \in Gpios
    BY <1>2, ValidMeans DEF PowerInv, Power!Buttons, Power!RoleSet
  <2>2. CASE y = x
    BY <1>1, <1>5, <1>8, <1>9, <2>2 DEF IsUp
  <2>3. CASE y # x
    <3>1. \A u \in Pressers : press[u].role # y
      BY <1>5, <2>3 DEF Power!NoPress, Power!Buttons
    <3>2. IsUp(pins, map, y)
      BY <3>1 DEF PowerInv, ButtonsRest
    <3>3. map[y].gpio # g
      BY <1>6, <2>1, <2>3
    <3> QED  BY <1>1, <1>9, <2>1, <3>2, <3>3 DEF IsUp
  <2> QED  BY <2>2, <2>3
<1>13. Shows(pins', map', led'.on, led'.reversed)
  BY <1>1, <1>4, <1>6, <1>9 DEF PowerInv, Shows, Power!Bidirectional
<1>14. Power!ValidMap(map')
  BY <1>1 DEF PowerInv
<1> QED  BY <1>10, <1>11, <1>12, <1>13, <1>14, RestIsSafe

-----------------------------------------------------------------------------
\* A save that fails: the old map is applied again, over what the new one did.
LEMMA MapFailsKeeps ==
  ASSUME Power!PowerBounds, PowerInv, NEW m \in PinMaps, NEW n, Power!MapFails(m, n)
  PROVE  PowerInv'
<1> DEFINE p1 == Power!Applied(pins, m, led.on, led.reversed)
           p2 == Power!Applied(p1, map, led.on, led.reversed)
           s1 == Power!Written(saved, m, led.reversed, n)
<1>1. /\ busy = FALSE /\ Power!ValidMap(m) /\ saved' = s1 /\ pins' = p2
      /\ map' = map /\ led' = led /\ busy' = busy /\ press' = press
  BY DEF Power!MapFails, PowerInv, PowerTypes
<1>2. /\ map \in PinMaps /\ pins \in PinLevels /\ led.on \in BOOLEAN
      /\ led.reversed \in BOOLEAN /\ saved \in [map: PinMaps, reversed: BOOLEAN]
      /\ Power!ValidMap(map)
  BY DEF PowerInv, PowerTypes
<1>3. p1 \in PinLevels
  BY <1>1, <1>2, AppliedMeans
<1> HIDE DEF p1
<1>4. /\ p2 \in PinLevels /\ Shows(p2, map, led.on, led.reversed)
      /\ \A x \in Power!Buttons : IsUp(p2, map, x)
  BY <1>2, <1>3, AppliedMeans
<1>5. s1 \in [map: PinMaps, reversed: BOOLEAN]
  BY <1>2, WrittenIsSaved
<1>6. \A t \in Pressers : press[t] = Power!NoPress
  BY <1>1, RestMeans
<1> HIDE DEF p2, s1
<1>7. PowerTypes'
  BY <1>1, <1>4, <1>5 DEF PowerInv, PowerTypes
<1>8. /\ Power!ValidMap(map') /\ \A t \in Pressers : press'[t] = Power!NoPress
      /\ \A x \in Power!Buttons : IsUp(pins', map', x)
      /\ Shows(pins', map', led'.on, led'.reversed)
  BY <1>1, <1>2, <1>4, <1>6
<1> QED  BY <1>7, <1>8, RestIsSafe

\* si_power_set_gpio_map and its kin: the new map's lines are at rest.
LEMMA TakeMapKeeps ==
  ASSUME Power!PowerBounds, PowerInv, NEW m \in PinMaps, NEW persist \in BOOLEAN,
         NEW release \in BOOLEAN, Power!TakeMap(m, persist, release),
         led' \in [on: BOOLEAN, reversed: BOOLEAN, resetting: BOOLEAN],
         led'.on = led.on, led'.reversed = led.reversed
  PROVE  PowerInv'
<1> DEFINE p1 == Power!Applied(pins, m, led.on, led.reversed)
           p2 == Power!Released(p1, map, m)
           s1 == Power!Written(saved, m, led.reversed, Power!AllKeys)
<1>1. /\ busy = FALSE /\ Power!ValidMap(m) /\ map' = m
      /\ saved' \in {s1, saved} /\ pins' \in {p1, p2}
      /\ busy' = busy /\ press' = press
  BY DEF Power!TakeMap, PowerInv, PowerTypes
<1>2. /\ map \in PinMaps /\ pins \in PinLevels /\ led.on \in BOOLEAN
      /\ led.reversed \in BOOLEAN /\ saved \in [map: PinMaps, reversed: BOOLEAN]
      /\ Power!ValidMap(map)
  BY DEF PowerInv, PowerTypes
<1>3. /\ p1 \in PinLevels /\ Shows(p1, m, led.on, led.reversed)
      /\ \A x \in Power!Buttons : IsUp(p1, m, x)
  BY <1>1, <1>2, AppliedMeans
<1> HIDE DEF p1
<1>4. /\ p2 \in PinLevels /\ Shows(p2, m, led.on, led.reversed)
      /\ \A x \in Power!Buttons : IsUp(p2, m, x)
  BY <1>1, <1>2, <1>3, ReleasedMeans
<1>5. s1 \in [map: PinMaps, reversed: BOOLEAN]
  BY <1>2, WrittenIsSaved
<1>6. \A t \in Pressers : press[t] = Power!NoPress
  BY <1>1, RestMeans
<1> HIDE DEF p2, s1
<1>7. PowerTypes'
  <2>1. pins' \in PinLevels /\ saved' \in [map: PinMaps, reversed: BOOLEAN]
    BY <1>1, <1>2, <1>3, <1>4, <1>5
  <2> QED  BY <1>1, <2>1 DEF PowerInv, PowerTypes
<1>8. /\ Power!ValidMap(map') /\ \A t \in Pressers : press'[t] = Power!NoPress
      /\ \A x \in Power!Buttons : IsUp(pins', map', x)
      /\ Shows(pins', map', led'.on, led'.reversed)
  <2>1. CASE pins' = p1
    BY <1>1, <1>3, <1>6, <2>1
  <2>2. CASE pins' = p2
    BY <1>1, <1>4, <1>6, <2>2
  <2> QED  BY <1>1, <2>1, <2>2
<1> QED  BY <1>7, <1>8, RestIsSafe

\* set_locator_output_levels: the locator's pins and no others.
LEMMA LocatorMeans ==
  ASSUME Power!PowerBounds, PowerInv, NEW on \in BOOLEAN, NEW reversed \in BOOLEAN
  PROVE  LET q == Power!WithLocator(on, reversed)
         IN  /\ q \in PinLevels /\ Shows(q, map, on, reversed)
             /\ \A x \in Power!Buttons : q[map[x].gpio] = pins[map[x].gpio]
<1> DEFINE q == Power!WithLocator(on, reversed)
           l == Power!LocatorLevel(map, on, reversed)
           at == map["locator"].gpio
<1>0. /\ map \in PinMaps /\ pins \in PinLevels /\ Power!ValidMap(map)
      /\ "locator" \in Power!RoleSet /\ "locator" \in Power!Outputs
      /\ "locator" \notin Power!Buttons /\ Power!Buttons \subseteq Power!RoleSet
  BY DEF PowerInv, PowerTypes, Power!RoleSet, Power!Outputs, Power!Buttons
<1>1. l \in BOOLEAN
  BY <1>0, LevelsAre
<1> HIDE DEF l
<1>2. /\ \A p \in Gpios : p = at => q[p] = [pins[p] EXCEPT !.level = l]
      /\ \A p \in Gpios : p # at => q[p] = IF p = ReturnPin /\ Power!Bidirectional(map)
                                          THEN [pins[p] EXCEPT !.level = on /\ reversed]
                                          ELSE pins[p]
      /\ q = [p \in Gpios |-> q[p]]
  BY DEF Power!WithLocator, l
<1> HIDE DEF q
<1>3. \A p \in Gpios, v \in BOOLEAN :
        /\ [pins[p] EXCEPT !.level = v] \in [mode: {"free", "in", "out"}, level: BOOLEAN]
        /\ [pins[p] EXCEPT !.level = v].level = v
  BY <1>0 DEF PinLevels
<1>4. q \in PinLevels
  <2>1. ASSUME NEW p \in Gpios
        PROVE  q[p] \in [mode: {"free", "in", "out"}, level: BOOLEAN]
    <3>1. CASE p = at
      BY <1>1, <1>2, <1>3, <3>1
    <3>2. CASE p # at /\ p = ReturnPin /\ Power!Bidirectional(map)
      <4>1. q[p] = [pins[p] EXCEPT !.level = on /\ reversed]
        BY <1>2, <3>2
      <4>2. (on /\ reversed) \in BOOLEAN
        OBVIOUS
      <4> QED  BY <1>3, <4>1, <4>2
    <3>3. CASE p # at /\ ~(p = ReturnPin /\ Power!Bidirectional(map))
      <4>1. q[p] = pins[p]
        BY <1>2, <3>3
      <4> QED  BY <1>0, <4>1 DEF PinLevels
    <3> QED  BY <3>1, <3>2, <3>3
  <2> QED  BY <1>2, <2>1 DEF PinLevels
<1>5. ASSUME at \in Gpios
      PROVE  /\ q[at].level = l
             /\ Power!Bidirectional(map) => q[ReturnPin].level = (on /\ reversed)
  <2>1. q[at].level = l
    BY <1>1, <1>2, <1>3, <1>5
  <2>2. ASSUME Power!Bidirectional(map) PROVE q[ReturnPin].level = (on /\ reversed)
    <3>1. ReturnPin \in Gpios
      BY <2>2 DEF Power!Bidirectional
    <3>2. at # ReturnPin
      BY <1>0, <3>1, ValidMeans
    <3>3. q[ReturnPin] = [pins[ReturnPin] EXCEPT !.level = on /\ reversed]
      BY <1>2, <2>2, <3>1, <3>2
    <3>4. (on /\ reversed) \in BOOLEAN
      OBVIOUS
    <3> QED  BY <1>3, <3>1, <3>3, <3>4
  <2> QED  BY <2>1, <2>2
<1>6. Shows(q, map, on, reversed)
  BY <1>5 DEF Shows, l
<1>7. ASSUME NEW x \in Power!Buttons PROVE q[map[x].gpio] = pins[map[x].gpio]
  <2>1. map[x].gpio \in Gpios /\ map[x].gpio # at
    BY <1>0, ValidMeans
  <2>2. map[x].gpio # ReturnPin
    <3>1. ReturnPin \in Gpios => map[x].gpio # ReturnPin
      BY <1>0, ValidMeans
    <3> QED  BY <2>1, <3>1
  <2> QED  BY <1>2, <2>1, <2>2
<1> QED  BY <1>4, <1>6, <1>7 DEF q

\* A step that only moves the locator.
LEMMA LocatorKeeps ==
  ASSUME Power!PowerBounds, PowerInv, busy = FALSE, NEW on \in BOOLEAN,
         NEW reversed \in BOOLEAN, pins' = Power!WithLocator(on, reversed),
         led' \in [on: BOOLEAN, reversed: BOOLEAN, resetting: BOOLEAN],
         led'.on = on, led'.reversed = reversed,
         saved' \in [map: PinMaps, reversed: BOOLEAN],
         map' = map, busy' = busy, press' = press
  PROVE  PowerInv'
<1>1. /\ pins' \in PinLevels /\ Shows(pins', map, on, reversed)
      /\ \A x \in Power!Buttons : pins'[map[x].gpio] = pins[map[x].gpio]
  BY LocatorMeans
<1>2. /\ \A t \in Pressers : press[t] = Power!NoPress
      /\ \A x \in Power!Buttons : IsUp(pins, map, x)
  BY RestMeans
<1>3. PowerTypes'
  BY <1>1 DEF PowerInv, PowerTypes
<1>4. \A x \in Power!Buttons : IsUp(pins', map', x)
  BY <1>1, <1>2 DEF IsUp
<1>5. Power!ValidMap(map') /\ Shows(pins', map', led'.on, led'.reversed)
  BY <1>1 DEF PowerInv
<1> QED  BY <1>2, <1>3, <1>4, <1>5, RestIsSafe

\* A power loss, whatever part of a map it leaves in flash.
LEMMA CrashKeeps ==
  ASSUME Power!PowerBounds, PowerInv, NEW m \in PinMaps, NEW n, Power!Crash(m, n)
  PROVE  PowerInv'
<1> DEFINE s == Power!Written(saved, m, led.reversed, n)
<1>1. /\ saved' = s /\ map' = Power!Boot(s).map /\ led' = Power!Boot(s).led
      /\ pins' = Power!Boot(s).pins /\ busy' = FALSE
      /\ press' = [t \in Pressers |-> Power!NoPress]
  BY DEF Power!Crash
<1>2. s \in [map: PinMaps, reversed: BOOLEAN] /\ map \in PinMaps
  BY WrittenIsSaved DEF PowerInv, PowerTypes
<1> HIDE DEF s
<1>3. /\ map' \in PinMaps /\ Power!ValidMap(map') /\ pins' \in PinLevels
      /\ led' \in [on: BOOLEAN, reversed: BOOLEAN, resetting: BOOLEAN]
      /\ \A y \in Power!Buttons : IsUp(pins', map', y)
      /\ Shows(pins', map', led'.on, led'.reversed)
  BY <1>1, <1>2, PowerOnIsSafe
<1>4. PowerTypes'
  BY <1>1, <1>2, <1>3 DEF PowerTypes, Presses
<1>5. \A t \in Pressers : press'[t] = Power!NoPress
  BY <1>1
<1> QED  BY <1>3, <1>4, <1>5, RestIsSafe

\* A step of the locator.
LEMMA LocatorStepKeeps ==
  ASSUME Power!PowerBounds, PowerInv,
         \/ \E on \in BOOLEAN : Power!SetLocator(on)
         \/ \E reversed \in BOOLEAN, persist \in BOOLEAN :
              Power!Reverse(reversed, persist)
         \/ Power!ReverseFails
  PROVE  PowerInv'
<1>0. /\ led \in [on: BOOLEAN, reversed: BOOLEAN, resetting: BOOLEAN]
      /\ saved \in [map: PinMaps, reversed: BOOLEAN] /\ busy \in BOOLEAN
      /\ led.on \in BOOLEAN /\ led.reversed \in BOOLEAN
  BY DEF PowerInv, PowerTypes
<1>1. ASSUME NEW on \in BOOLEAN, Power!SetLocator(on) PROVE PowerInv'
  <2>1. /\ busy = FALSE /\ pins' = Power!WithLocator(on, led.reversed)
        /\ led' = [led EXCEPT !.on = on]
        /\ map' = map /\ busy' = busy /\ press' = press /\ saved' = saved
    BY <1>0, <1>1 DEF Power!SetLocator
  <2>2. /\ led' \in [on: BOOLEAN, reversed: BOOLEAN, resetting: BOOLEAN]
        /\ led'.on = on /\ led'.reversed = led.reversed
    BY <1>0, <2>1
  <2> QED  BY <1>0, <2>1, <2>2, LocatorKeeps
<1>2. ASSUME NEW reversed \in BOOLEAN, NEW persist \in BOOLEAN,
             Power!Reverse(reversed, persist)
      PROVE  PowerInv'
  <2>1. /\ busy = FALSE /\ pins' = Power!WithLocator(led.on, reversed)
        /\ led' = [led EXCEPT !.reversed = reversed, !.resetting = FALSE]
        /\ saved' \in {[saved EXCEPT !.reversed = reversed], saved}
        /\ map' = map /\ busy' = busy /\ press' = press
    BY <1>0, <1>2 DEF Power!Reverse
  <2>2. /\ led' \in [on: BOOLEAN, reversed: BOOLEAN, resetting: BOOLEAN]
        /\ led'.on = led.on /\ led'.reversed = reversed
    BY <1>0, <2>1
  <2>3. saved' \in [map: PinMaps, reversed: BOOLEAN]
    BY <1>0, <2>1
  <2> QED  BY <1>0, <2>1, <2>2, <2>3, LocatorKeeps
<1>3. CASE Power!ReverseFails
  <2>1. /\ busy = FALSE /\ pins' = Power!WithLocator(led.on, led.reversed)
        /\ led' = led /\ map' = map /\ busy' = busy /\ press' = press /\ saved' = saved
    BY <1>0, <1>3 DEF Power!ReverseFails
  <2> QED  BY <1>0, <2>1, LocatorKeeps
<1> QED  BY <1>1, <1>2, <1>3

\* Every step of power_control.c keeps the invariant.
LEMMA PowerStep ==
  ASSUME Power!PowerBounds, PowerInv, Power!PowerNext
  PROVE  PowerInv'
<1>0. /\ map \in PinMaps
      /\ led \in [on: BOOLEAN, reversed: BOOLEAN, resetting: BOOLEAN]
  BY DEF PowerInv, PowerTypes
<1>1. ASSUME NEW t \in Pressers, NEW x \in Power!Buttons, Power!Press(t, x)
      PROVE  PowerInv'
  BY <1>1, PressKeeps
<1>2. ASSUME NEW t \in Pressers, Power!Unpress(t) PROVE PowerInv'
  BY <1>2, UnpressKeeps
<1>3. ASSUME NEW persist \in BOOLEAN, NEW r \in Power!RoleSet,
             NEW g \in Gpios \cup {NoPin}, NEW h \in BOOLEAN,
             Power!SetMap(r, g, h, persist)
      PROVE  PowerInv'
  <2>1. Power!TakeMap(Power!Updated(r, g, h), persist, TRUE) /\ led' = led
    BY <1>3 DEF Power!SetMap
  <2>2. Power!Updated(r, g, h) \in PinMaps
    BY <1>0, RequestsAreMaps
  <2> QED  BY <1>0, <2>1, <2>2, TakeMapKeeps
<1>4. ASSUME NEW persist \in BOOLEAN, Power!SwapButtons(persist) PROVE PowerInv'
  <2>1. Power!TakeMap(Power!Swapped, persist, FALSE) /\ led' = led
    BY <1>4 DEF Power!SwapButtons
  <2>2. Power!Swapped \in PinMaps
    BY <1>0, RequestsAreMaps
  <2> QED  BY <1>0, <2>1, <2>2, TakeMapKeeps
<1>5. ASSUME NEW persist \in BOOLEAN, Power!ResetMap(persist) PROVE PowerInv'
  <2>1. /\ Power!TakeMap(Power!Defaults, persist, TRUE)
        /\ led' = [led EXCEPT !.resetting = led.reversed]
    BY <1>5 DEF Power!ResetMap
  <2>2. Power!Defaults \in PinMaps
    BY <1>0, RequestsAreMaps
  <2>3. /\ led' \in [on: BOOLEAN, reversed: BOOLEAN, resetting: BOOLEAN]
        /\ led'.on = led.on /\ led'.reversed = led.reversed
    BY <1>0, <2>1
  <2> QED  BY <2>1, <2>2, <2>3, TakeMapKeeps
<1>6. ASSUME NEW persist \in BOOLEAN, Power!ResetDirection(persist) PROVE PowerInv'
  <2>1. CASE Power!Reverse(FALSE, persist)
    BY <2>1, LocatorStepKeeps
  <2>2. CASE /\ led' = [led EXCEPT !.resetting = FALSE]
             /\ map' = map /\ pins' = pins /\ busy' = busy /\ press' = press
             /\ saved' = saved
    <3>1. /\ led' \in [on: BOOLEAN, reversed: BOOLEAN, resetting: BOOLEAN]
          /\ led'.on = led.on /\ led'.reversed = led.reversed
      BY <1>0, <2>2
    <3>2. PowerTypes'
      BY <2>2, <3>1 DEF PowerInv, PowerTypes
    <3>3. PressIsKnown' /\ ButtonsRest'
      BY <2>2 DEF PowerInv, PressIsKnown, ButtonsRest
    <3>4. Power!ValidMap(map') /\ Shows(pins', map', led'.on, led'.reversed)
      BY <2>2, <3>1 DEF PowerInv
    <3> QED  BY <3>2, <3>3, <3>4 DEF PowerInv
  <2> QED  BY <1>6, <2>1, <2>2 DEF Power!ResetDirection
<1>7. ASSUME NEW persist \in BOOLEAN, NEW reversed \in BOOLEAN,
             Power!SetLocatorReversed(reversed, persist)
      PROVE  PowerInv'
  <2>1. Power!Reverse(reversed, persist)
    BY <1>7 DEF Power!SetLocatorReversed
  <2> QED  BY <2>1, LocatorStepKeeps
<1>8. ASSUME NEW on \in BOOLEAN, Power!SetLocator(on) PROVE PowerInv'
  BY <1>8, LocatorStepKeeps
<1>9. CASE Power!ReverseFails
  BY <1>9, LocatorStepKeeps
<1>10. ASSUME NEW m \in Power!Requests, NEW n, Power!MapFails(m, n) PROVE PowerInv'
  <2>1. m \in PinMaps
    BY <1>0, <1>10, RequestsAreMaps
  <2> QED  BY <1>10, <2>1, MapFailsKeeps
<1>11. ASSUME NEW m \in Power!Requests, NEW n, Power!Crash(m, n) PROVE PowerInv'
  <2>1. m \in PinMaps
    BY <1>0, <1>11, RequestsAreMaps
  <2> QED  BY <1>11, <2>1, CrashKeeps
<1> QED  BY <1>1, <1>2, <1>3, <1>4, <1>5, <1>6, <1>7, <1>8, <1>9, <1>10, <1>11
         DEF Power!PowerNext

\* What the invariant says of the lines of power_control.c.
LEMMA PowerMeaning ==
  ASSUME PowerInv
  PROVE  /\ Power!MapIsValid /\ Power!ButtonsAreUp /\ Power!OneButtonDown
         /\ Power!LocatorShowsState
<1>1. Power!MapIsValid
  BY DEF PowerInv, Power!MapIsValid
<1>2. Power!ButtonsAreUp
  BY DEF PowerInv, ButtonsRest, IsUp, Power!ButtonsAreUp
<1>3. Power!LocatorShowsState
  BY DEF PowerInv, Shows, Power!LocatorShowsState
<1>4. Power!OneButtonDown
  <2> DEFINE P == {t \in Pressers : press[t] # Power!NoPress}
  <2>1. Cardinality(P) <= 1
    <3>1. CASE P = {}
      BY <3>1, FS_EmptySet
    <3>2. ASSUME NEW t \in P PROVE Cardinality(P) <= 1
      <4>1. P = {t}
        BY <3>2 DEF PowerInv, PressIsKnown
      <4> QED  BY <4>1, FS_Singleton
    <3> QED  BY <3>1, <3>2
  <2>2. Power!Cardinality(P) = Cardinality(P)
    BY DEF Power!Cardinality, Cardinality
  <2>3. \A t \in Pressers : press[t] # Power!NoPress
          => map[press[t].role].gpio = press[t].gpio /\ busy
    BY DEF PowerInv, PressIsKnown
  <2> QED  BY <2>1, <2>2, <2>3 DEF Power!OneButtonDown
<1> QED  BY <1>1, <1>2, <1>3, <1>4

-----------------------------------------------------------------------------
(* The rails of the capture card *)

Calls == [pc: {"idle", "wait", "off1", "off2", "dark", "on1", "on2", "done"},
          op: {"none", "on", "off", "cycle", "cold"}]

\* The types of the variables.
RailTypes ==
  /\ rail \in [v33: BOOLEAN, v12: BOOLEAN]
  /\ holder \in Rails!Tasks \cup {"none", "timer"}
  /\ call \in [Rails!Tasks -> Calls]
  /\ cold \in [active: BOOLEAN, over: BOOLEAN]
  /\ timer \in [armed: BOOLEAN, cb: {"idle", "fired", "run1", "run2"}]
  /\ want \in {"on", "off"}

\* The lock is held by the one who switches: a task between its Take and its
\* Done, or the callback.
HolderSwitches ==
  /\ \A t \in Rails!Tasks : holder = t <=> call[t].pc \notin {"idle", "wait"}
  /\ holder = "timer" <=> timer.cb \in {"run1", "run2"}

\* Where a switching stands, and what the rails are there.
RailsOnTheWay ==
  /\ rail.v12 = TRUE => rail.v33 = TRUE
  /\ timer.cb = "run2" => rail.v33 = TRUE
  /\ \A t \in Rails!Tasks :
       /\ call[t].pc = "off2" => rail.v12 = FALSE
       /\ call[t].pc = "dark" => rail.v12 = FALSE /\ rail.v33 = FALSE
       /\ call[t].pc = "on2" => rail.v33 = TRUE
       /\ call[t].pc = "done" /\ call[t].op = "off" =>
            rail.v12 = FALSE /\ rail.v33 = FALSE
       /\ call[t].pc \in {"on1", "on2"} => call[t].op # "off"

\* After an "off" no cold start is due, who switches switches off, and when
\* nobody does the card is dark.
OffIsHeeded ==
  want = "off" =>
    /\ cold.active = FALSE /\ holder # "timer"
    /\ \A t \in Rails!Tasks : holder = t => call[t].op = "off"
    /\ holder = "none" => rail.v12 = FALSE /\ rail.v33 = FALSE

\* Nobody switches off against what was asked for.
OffIsWanted ==
  \A t \in Rails!Tasks : holder = t /\ call[t].op = "off" => want = "off"

RailInv == RailTypes /\ HolderSwitches /\ RailsOnTheWay /\ OffIsHeeded /\ OffIsWanted

\* The card is on when the device has started.
LEMMA RailsInitially == ASSUME Rails!RailInit PROVE RailInv
BY DEF Rails!RailInit, Rails!NoCall, Rails!Tasks, RailInv, RailTypes, Calls,
       HolderSwitches, RailsOnTheWay, OffIsHeeded, OffIsWanted

\* Requests, and calls that do not get the lock.
LEMMA RequestKeepsRails ==
  ASSUME RailInv, NEW t \in Rails!Tasks,
         \/ \E op \in {"on", "off", "cycle", "cold"} : Rails!Request(t, op)
         \/ Rails!Busy(t)
  PROVE  RailInv'
<1>1. PICK c \in Calls : c.pc \in {"idle", "wait"} /\ call' = [call EXCEPT ![t] = c]
  BY DEF Rails!Request, Rails!Busy, Calls, Rails!NoCall
<1>2. call[t].pc \in {"idle", "wait"} /\ UNCHANGED <<rail, holder, cold, timer, want>>
  BY DEF Rails!Request, Rails!Busy, Rails!NoCall
<1>3. /\ call' \in [Rails!Tasks -> Calls]
      /\ call'[t].pc \in {"idle", "wait"}
      /\ \A u \in Rails!Tasks : u # t => call'[u] = call[u]
  BY <1>1 DEF RailInv, RailTypes
<1>4. holder # t
  BY <1>2 DEF RailInv, HolderSwitches
<1>5. RailTypes' /\ HolderSwitches' /\ RailsOnTheWay'
  BY <1>2, <1>3 DEF RailInv, RailTypes, HolderSwitches, RailsOnTheWay
<1>6. OffIsHeeded' /\ OffIsWanted'
  BY <1>2, <1>3, <1>4 DEF RailInv, OffIsHeeded, OffIsWanted
<1> QED  BY <1>5, <1>6 DEF RailInv

\* A task takes the lock.
LEMMA TakeKeepsRails ==
  ASSUME RailInv, NEW t \in Rails!Tasks, Rails!Take(t)
  PROVE  RailInv'
<1> USE DEF Rails!Tasks
<1>1. /\ call[t] \in Calls /\ call[t].pc = "wait" /\ holder = "none" /\ holder' = t
      /\ UNCHANGED rail
  BY DEF Rails!Take, RailInv, RailTypes
<1>2. /\ timer' \in [armed: BOOLEAN, cb: {"idle", "fired", "run1", "run2"}]
      /\ timer'.cb = timer.cb
  BY DEF Rails!Take, RailInv, RailTypes
<1>3. cold' \in [active: BOOLEAN, over: BOOLEAN] /\ cold'.active = FALSE
  <2>1. CASE Rails!CancelCold
    BY <2>1 DEF Rails!CancelCold
  <2>2. CASE cold' = [cold EXCEPT !.active = FALSE]
    BY <2>2 DEF RailInv, RailTypes
  <2> QED  BY <2>1, <2>2 DEF Rails!Take
<1>4. /\ call' \in [Rails!Tasks -> Calls]
      /\ \A u \in Rails!Tasks : u # t => call'[u] = call[u]
      /\ call'[t].pc \in {"on1", "off1"} /\ (call'[t].pc = "on1" => call'[t].op # "off")
      /\ want' = IF call'[t].op = "off" THEN "off" ELSE "on"
  <2>0. call \in [Rails!Tasks -> Calls]
    BY DEF RailInv, RailTypes
  <2>1. CASE /\ call' = [call EXCEPT ![t].pc = IF call[t].op = "on" THEN "on1" ELSE "off1"]
             /\ want' = IF call[t].op = "off" THEN "off" ELSE "on"
    <3>1. /\ call'[t].pc = (IF call[t].op = "on" THEN "on1" ELSE "off1")
          /\ call'[t].op = call[t].op /\ call'[t] \in Calls
          /\ call' \in [Rails!Tasks -> Calls]
          /\ \A u \in Rails!Tasks : u # t => call'[u] = call[u]
      BY <1>1, <2>0, <2>1 DEF Calls
    <3> QED  BY <3>1, <2>1
  <2>2. CASE call' = [call EXCEPT ![t] = [pc |-> "on1", op |-> "on"]] /\ want' = "on"
    <3>1. [pc |-> "on1", op |-> "on"] \in Calls
      BY DEF Calls
    <3>2. /\ call'[t] = [pc |-> "on1", op |-> "on"]
          /\ call' \in [Rails!Tasks -> Calls]
          /\ \A u \in Rails!Tasks : u # t => call'[u] = call[u]
      BY <2>0, <2>2, <3>1
    <3> QED  BY <3>2, <2>2
  <2> QED  BY <2>1, <2>2 DEF Rails!Take
<1>5. want' \in {"on", "off"}
  BY <1>4
<1>6. \A u \in Rails!Tasks : call[u].pc \in {"idle", "wait"}
  BY <1>1 DEF RailInv, HolderSwitches, RailTypes, Calls
<1>7. RailTypes'
  BY <1>1, <1>2, <1>3, <1>4, <1>5 DEF RailInv, RailTypes
<1>8. HolderSwitches'
  BY <1>1, <1>2, <1>4, <1>6 DEF RailInv, HolderSwitches
<1>9. RailsOnTheWay'
  BY <1>1, <1>2, <1>4, <1>6 DEF RailInv, RailsOnTheWay
<1>10. OffIsHeeded' /\ OffIsWanted'
  BY <1>1, <1>3, <1>4 DEF OffIsHeeded, OffIsWanted
<1> QED  BY <1>7, <1>8, <1>9, <1>10 DEF RailInv

\* The task that has the lock switches, waits or gives the lock back.
LEMMA SwitchKeepsRails ==
  ASSUME RailInv, NEW t \in Rails!Tasks,
         Rails!Off(t) \/ Rails!On(t) \/ Rails!Dark(t) \/ Rails!Done(t)
  PROVE  RailInv'
<1> USE DEF Rails!Tasks
<1>0. call \in [Rails!Tasks -> Calls] /\ call[t] \in Calls
  BY DEF RailInv, RailTypes
<1>1. call[t].pc \notin {"idle", "wait"} /\ holder = t
  BY DEF Rails!Off, Rails!On, Rails!Dark, Rails!Done, RailInv, HolderSwitches
<1>2. \A u \in Rails!Tasks : u # t => call[u].pc \in {"idle", "wait"}
  BY <1>1 DEF RailInv, HolderSwitches
<1>3. timer.cb \in {"idle", "fired"}
  BY <1>1 DEF RailInv, HolderSwitches, RailTypes
<1>4. CASE Rails!Off(t) \/ Rails!On(t)
  <2>1. UNCHANGED <<holder, cold, timer, want>>
    BY <1>4 DEF Rails!Off, Rails!On
  <2>2. PICK p \in {"off2", "dark", "on2", "done"} :
          /\ call' = [call EXCEPT ![t].pc = p]
          /\ p = "off2" => /\ call[t].pc = "off1"
                           /\ rail' = [rail EXCEPT !.v12 = FALSE]
          /\ p = "dark" => /\ call[t].pc = "off2"
                           /\ rail' = [rail EXCEPT !.v33 = FALSE]
          /\ p = "on2" => /\ call[t].pc = "on1"
                          /\ rail' = [rail EXCEPT !.v33 = TRUE]
          /\ p = "done" => /\ call[t].pc = "on2"
                           /\ rail' = [rail EXCEPT !.v12 = TRUE]
    BY <1>4 DEF Rails!Off, Rails!On
  <2>3. /\ call' \in [Rails!Tasks -> Calls] /\ call'[t].pc = p /\ call'[t].op = call[t].op
        /\ \A u \in Rails!Tasks : u # t => call'[u] = call[u]
    BY <1>0, <2>2 DEF Calls
  <2>4. rail' \in [v33: BOOLEAN, v12: BOOLEAN]
    BY <2>2 DEF RailInv, RailTypes
  <2>5. RailTypes' /\ HolderSwitches'
    BY <1>1, <2>1, <2>3, <2>4, <2>2 DEF RailInv, RailTypes, HolderSwitches
  <2>6. /\ rail'.v12 = TRUE => rail'.v33 = TRUE
        /\ p = "off2" => rail'.v12 = FALSE
        /\ p = "dark" => rail'.v12 = FALSE /\ rail'.v33 = FALSE
        /\ p = "on2" => rail'.v33 = TRUE
        /\ p \in {"on2", "done"} => call[t].op # "off"
    BY <2>2 DEF RailInv, RailsOnTheWay, RailTypes
  <2>7. RailsOnTheWay'
    BY <1>2, <1>3, <2>1, <2>2, <2>3, <2>6 DEF RailsOnTheWay
  <2>8. OffIsHeeded' /\ OffIsWanted'
    BY <1>1, <2>1, <2>3 DEF RailInv, OffIsHeeded, OffIsWanted
  <2> QED  BY <2>5, <2>7, <2>8 DEF RailInv
<1>5. CASE Rails!Dark(t)
  <2>1. call[t].pc = "dark" /\ UNCHANGED <<rail, holder, want>>
    BY <1>5 DEF Rails!Dark
  <2>2. PICK p \in {"done", "on1"} :
          call' = [call EXCEPT ![t].pc = p] /\ (p = "on1" => call[t].op # "off")
    BY <1>5 DEF Rails!Dark
  <2>3. /\ call' \in [Rails!Tasks -> Calls] /\ call'[t].pc = p /\ call'[t].op = call[t].op
        /\ \A u \in Rails!Tasks : u # t => call'[u] = call[u]
    BY <1>0, <2>2 DEF Calls
  <2>4. /\ timer' \in [armed: BOOLEAN, cb: {"idle", "fired", "run1", "run2"}]
        /\ timer'.cb = timer.cb
    BY <1>5 DEF Rails!Dark, RailInv, RailTypes
  <2>5. /\ cold' \in [active: BOOLEAN, over: BOOLEAN]
        /\ call[t].op = "off" => cold' = cold
    <3>1. CASE UNCHANGED <<timer, cold>>
      BY <3>1 DEF RailInv, RailTypes
    <3>2. CASE call[t].op = "cold" /\ cold' = [active |-> TRUE, over |-> FALSE]
      BY <3>2
    <3> QED  BY <1>5, <3>1, <3>2 DEF Rails!Dark
  <2>6. RailTypes' /\ HolderSwitches'
    BY <1>1, <2>1, <2>2, <2>3, <2>4, <2>5 DEF RailInv, RailTypes, HolderSwitches
  <2>7. RailsOnTheWay'
    BY <1>2, <1>3, <2>1, <2>2, <2>3, <2>4 DEF RailInv, RailsOnTheWay
  <2>8. OffIsHeeded' /\ OffIsWanted'
    BY <1>1, <2>1, <2>3, <2>5 DEF RailInv, OffIsHeeded, OffIsWanted
  <2> QED  BY <2>6, <2>7, <2>8 DEF RailInv
<1>6. CASE Rails!Done(t)
  <2>1. /\ call[t].pc = "done" /\ holder' = "none" /\ UNCHANGED <<rail, cold, timer, want>>
        /\ call' = [call EXCEPT ![t] = Rails!NoCall]
    BY <1>6 DEF Rails!Done
  <2>2. /\ call' \in [Rails!Tasks -> Calls] /\ call'[t].pc = "idle"
        /\ \A u \in Rails!Tasks : u # t => call'[u] = call[u]
    BY <1>0, <2>1 DEF Calls, Rails!NoCall
  <2>3. RailTypes' /\ HolderSwitches'
    BY <1>1, <1>2, <1>3, <2>1, <2>2 DEF RailInv, RailTypes, HolderSwitches
  <2>4. RailsOnTheWay'
    BY <1>2, <1>3, <2>1, <2>2 DEF RailInv, RailsOnTheWay
  <2>5. OffIsHeeded' /\ OffIsWanted'
    BY <1>1, <2>1, <2>2 DEF RailInv, OffIsHeeded, OffIsWanted, RailsOnTheWay
  <2> QED  BY <2>3, <2>4, <2>5 DEF RailInv
<1> QED  BY <1>4, <1>5, <1>6

\* The timer and its callback.
LEMMA TimerKeepsRails ==
  ASSUME RailInv, Rails!Expire \/ Rails!Fire \/ Rails!FireGivesUp \/ Rails!FireOn
  PROVE  RailInv'
<1> USE DEF Rails!Tasks
<1>1. CASE Rails!Expire \/ Rails!FireGivesUp
  <2>1. UNCHANGED <<rail, holder, call, want>>
    BY <1>1 DEF Rails!Expire, Rails!FireGivesUp
  <2>2. /\ timer' \in [armed: BOOLEAN, cb: {"idle", "fired", "run1", "run2"}]
        /\ timer.cb \in {"idle", "fired"} /\ timer'.cb \in {"idle", "fired"}
    <3>1. CASE Rails!Expire
      BY <3>1 DEF Rails!Expire
    <3>2. CASE Rails!FireGivesUp
      BY <3>2 DEF Rails!FireGivesUp, RailInv, RailTypes
    <3> QED  BY <1>1, <3>1, <3>2
  <2>3. cold' \in [active: BOOLEAN, over: BOOLEAN] /\ cold'.active = cold.active
    BY <1>1 DEF Rails!Expire, Rails!FireGivesUp, RailInv, RailTypes
  <2>4. RailTypes' /\ HolderSwitches' /\ RailsOnTheWay'
    BY <2>1, <2>2, <2>3 DEF RailInv, RailTypes, HolderSwitches, RailsOnTheWay
  <2>5. OffIsHeeded' /\ OffIsWanted'
    BY <2>1, <2>3 DEF RailInv, OffIsHeeded, OffIsWanted
  <2> QED  BY <2>4, <2>5 DEF RailInv
<1>2. CASE Rails!Fire
  <2>1. UNCHANGED <<rail, call, want>> /\ timer.cb = "fired" /\ holder = "none"
    BY <1>2 DEF Rails!Fire
  <2>2. timer' \in [armed: BOOLEAN, cb: {"idle", "fired", "run1", "run2"}]
    BY <1>2 DEF Rails!Fire, RailInv, RailTypes
  <2>3. \/ holder' = "timer" /\ timer'.cb = "run1" /\ cold.active = TRUE
        \/ holder' = "none" /\ timer'.cb = "idle"
    BY <1>2, <2>1 DEF Rails!Fire, RailInv, RailTypes
  <2>4. /\ cold' \in [active: BOOLEAN, over: BOOLEAN]
        /\ cold.active = FALSE => cold'.active = FALSE
    BY <1>2 DEF Rails!Fire, RailInv, RailTypes
  <2>5. RailTypes' /\ HolderSwitches' /\ RailsOnTheWay'
    BY <2>1, <2>2, <2>3, <2>4 DEF RailInv, RailTypes, HolderSwitches, RailsOnTheWay
  <2>6. OffIsHeeded' /\ OffIsWanted'
    BY <2>1, <2>3, <2>4 DEF RailInv, OffIsHeeded, OffIsWanted
  <2> QED  BY <2>5, <2>6 DEF RailInv
<1>3. CASE Rails!FireOn
  <2>1. /\ UNCHANGED <<call, cold, want>> /\ timer.cb \in {"run1", "run2"}
        /\ holder = "timer" /\ want # "off"
    BY <1>3 DEF Rails!FireOn, RailInv, HolderSwitches, OffIsHeeded
  <2>2. /\ timer' \in [armed: BOOLEAN, cb: {"idle", "fired", "run1", "run2"}]
        /\ rail' \in [v33: BOOLEAN, v12: BOOLEAN]
    BY <1>3 DEF Rails!FireOn, RailInv, RailTypes
  <2>3. \/ holder' = holder /\ timer'.cb = "run2" /\ rail'.v33 = TRUE
        \/ holder' = "none" /\ timer'.cb = "idle" /\ rail'.v33 = TRUE
    BY <1>3 DEF Rails!FireOn, RailInv, RailTypes, RailsOnTheWay
  <2>4. \A t \in Rails!Tasks : call[t].pc \in {"idle", "wait"}
    BY <2>1 DEF RailInv, HolderSwitches
  <2>5. RailTypes' /\ HolderSwitches' /\ RailsOnTheWay'
    BY <2>1, <2>2, <2>3, <2>4 DEF RailInv, RailTypes, HolderSwitches, RailsOnTheWay
  <2>6. OffIsHeeded' /\ OffIsWanted'
    BY <2>1, <2>3 DEF OffIsHeeded, OffIsWanted
  <2> QED  BY <2>5, <2>6 DEF RailInv
<1> QED  BY <1>1, <1>2, <1>3

\* Every step of the rails keeps their invariant.
LEMMA RailsStep == ASSUME RailInv, Rails!RailNext PROVE RailInv'
BY RequestKeepsRails, TakeKeepsRails, SwitchKeepsRails, TimerKeepsRails
   DEF Rails!RailNext, Rails!CallNext

\* 1.2 V is on only with 3.3 V, and "off" holds.
LEMMA RailsMeaning == ASSUME RailInv PROVE Rails!RailOrder /\ Rails!OffStaysOff
BY DEF RailInv, RailTypes, RailsOnTheWay, OffIsHeeded, Rails!RailOrder, Rails!OffStaysOff

-----------------------------------------------------------------------------
(* The boot keys *)

\* Where a worker that has not yet finished its plan is, and where it knows it.
Serving == {"touch", "reset", "begin", "snap", "decide", "send", "record"}
Active == Serving \cup {"first", "finish"}
Results == {"cancelled", "preempted", "timed_out", "failed", "awaiting_verification"}

BootPlan ==
  [state: BootKeys!WorkerStates \cup BootKeys!OpenStates \cup BootKeys!FinalStates
            \cup {"empty"},
   id: Nat, approved: BOOLEAN, cancel: BOOLEAN, sent: Nat, cfg: BootKeys!Configs]
BootWork ==
  [pc: Active \cup {"none", "release"}, id: Nat, cfg: BootKeys!Configs, sent: Nat,
   cancel: BOOLEAN, result: Results]

\* The types of the variables.
BootTypes ==
  /\ plan \in BootPlan /\ task \in BOOLEAN /\ work \in [BootTasks -> BootWork]
  /\ lease \in BootTasks \cup {"human", "free"} /\ clock \in 0..MaxTimeout
  /\ locks \in Nat /\ keys \in [sent: Nat, late: Nat, lost: Nat]

\* How a worker's copy r stands to the plan p and to the keys k sent for it: it
\* is of this plan, it decides by the count the plan has, and a worker that may
\* still send was asked by nobody to stop, or has sent nothing since.
CopyIsGood(r, p, k) ==
  /\ r.pc \in Serving => r.id = p.id /\ r.cfg = p.cfg
  /\ r.pc \in {"decide", "send"} => r.sent = p.sent
  /\ r.pc = "decide" /\ k.late > 0 => r.cancel = TRUE
  /\ r.pc = "send" => p.sent < p.cfg.max /\ k.late = 0
  /\ r.pc = "record" => r.sent = p.sent + 1 /\ p.sent < p.cfg.max
  /\ r.pc = "finish" /\ r.result = "awaiting_verification" => p.sent >= p.cfg.max

\* One worker at most serves a plan, the one that is under way.
WorkerServesPlan ==
  /\ \A v \in BootTasks : work[v].pc \in Active =>
       /\ plan.state \in BootKeys!WorkerStates /\ plan.approved = TRUE
       /\ CopyIsGood(work[v], plan, keys)
  /\ \A u, v \in BootTasks : work[u].pc \in Active /\ work[v].pc \in Active => u = v
  /\ plan.state \in BootKeys!WorkerStates => task = TRUE

\* The plan's count, and the one key that may come after a cancel.
PlanIsGood(p, k) ==
  /\ p.sent <= p.cfg.max /\ k.late <= 1 /\ (k.late > 0 => p.cancel = TRUE)
  /\ p.state \in {"awaiting_verification", "verified"} => p.sent >= p.cfg.max

\* A key that went out is in the plan's count, is about to be, or was lost.
KeysAreCounted ==
  /\ (\E v \in BootTasks : work[v].pc = "record") =>
        keys.sent = plan.sent + keys.lost + 1
  /\ (\A v \in BootTasks : work[v].pc # "record") => keys.sent = plan.sent + keys.lost

BootInv ==
  /\ BootTypes /\ WorkerServesPlan /\ PlanIsGood(plan, keys) /\ KeysAreCounted
  /\ BootKeys!LeaseHasWorker

-----------------------------------------------------------------------------
\* There is a configuration that passes the validation.
LEMMA NoCfgIsAConfig ==
  ASSUME BootKeys!BootBounds
  PROVE  BootKeys!NoCfg \in BootKeys!Configs
<1> DEFINE c == [delay |-> 0, interval |-> 1, max |-> 1, timeout |-> 1, reset |-> FALSE]
<1>1. c \in BootKeys!Configs
  BY DEF BootKeys!Configs, BootKeys!BootBounds
<1>2. BootKeys!Valid(c)
  BY DEF BootKeys!Valid
<1>3. \E x \in BootKeys!Configs : BootKeys!Valid(x)
  BY <1>1, <1>2
<1> QED  BY <1>3 DEF BootKeys!NoCfg

\* What a configuration is.
LEMMA ConfigsAre ==
  ASSUME BootKeys!BootBounds, NEW c \in BootKeys!Configs
  PROVE  c.max \in Nat /\ c.max >= 1 /\ c.max <= MaxKeys
BY DEF BootKeys!Configs, BootKeys!BootBounds

\* The worker's blank record, and the one of a worker that ends.
LEMMA BlankIsWork ==
  ASSUME BootKeys!BootBounds
  PROVE  /\ BootKeys!NoWork \in BootWork /\ BootKeys!NoWork.pc = "none"
         /\ [BootKeys!NoWork EXCEPT !.pc = "first"] \in BootWork
         /\ [BootKeys!NoWork EXCEPT !.pc = "first"].pc = "first"
         /\ [BootKeys!NoWork EXCEPT !.pc = "release"] \in BootWork
         /\ [BootKeys!NoWork EXCEPT !.pc = "release"].pc = "release"
         /\ \A i \in Nat, r \in Results :
              LET e == [BootKeys!NoWork EXCEPT !.pc = "finish", !.id = i, !.result = r]
              IN  e \in BootWork /\ e.pc = "finish" /\ e.result = r
BY NoCfgIsAConfig DEF BootKeys!NoWork, BootWork, Active, Serving, Results

\* The manager starts without a plan.
LEMMA BootInitially ==
  ASSUME BootKeys!BootBounds, BootKeys!BootInit
  PROVE  BootInv
<1>1. work = [v \in BootTasks |-> BootKeys!NoWork]
  BY DEF BootKeys!BootInit
<1>2. \A v \in BootTasks : work[v] \in BootWork /\ work[v].pc = "none"
  BY <1>1, BlankIsWork
<1>3. /\ plan = [state |-> "empty", id |-> 0, approved |-> FALSE, cancel |-> FALSE,
                 sent |-> 0, cfg |-> BootKeys!NoCfg]
      /\ keys = [sent |-> 0, late |-> 0, lost |-> 0] /\ lease = "free" /\ clock = 0
      /\ locks = 0 /\ task = FALSE
  BY DEF BootKeys!BootInit, BootKeys!NoKeys
<1>4. BootTypes
  <2>1. work \in [BootTasks -> BootWork]
    BY <1>1, <1>2
  <2>2. plan \in BootPlan
    BY <1>3, NoCfgIsAConfig DEF BootPlan
  <2>3. keys \in [sent: Nat, late: Nat, lost: Nat]
    BY <1>3
  <2>4. clock \in 0..MaxTimeout
    BY <1>3 DEF BootKeys!BootBounds
  <2> QED  BY <1>3, <2>1, <2>2, <2>3, <2>4 DEF BootTypes
<1>5. WorkerServesPlan
  BY <1>2, <1>3 DEF WorkerServesPlan, Active, Serving, BootKeys!WorkerStates
<1>6. PlanIsGood(plan, keys)
  BY <1>3, NoCfgIsAConfig, ConfigsAre DEF PlanIsGood
<1>7. KeysAreCounted
  BY <1>2, <1>3 DEF KeysAreCounted
<1>8. BootKeys!LeaseHasWorker
  BY <1>3 DEF BootKeys!LeaseHasWorker, BootKeys!BootBounds
<1> QED  BY <1>4, <1>5, <1>6, <1>7, <1>8 DEF BootInv

-----------------------------------------------------------------------------
(* Steps of the worker. *)

\* Who the worker at work is, and what it knows.
LEMMA TheWorker ==
  ASSUME BootKeys!BootBounds, BootInv, NEW w \in BootTasks, work[w].pc \in Active
  PROVE  /\ work[w] \in BootWork /\ plan \in BootPlan
         /\ plan.state \in BootKeys!WorkerStates /\ plan.approved = TRUE /\ task = TRUE
         /\ CopyIsGood(work[w], plan, keys) /\ PlanIsGood(plan, keys)
         /\ \A v \in BootTasks : v # w => work[v].pc \notin Active
         /\ work[w].pc = "record" => keys.sent = plan.sent + keys.lost + 1
         /\ work[w].pc # "record" => keys.sent = plan.sent + keys.lost
<1>1. \A v \in BootTasks : v # w => work[v].pc \notin Active
  BY DEF BootInv, WorkerServesPlan
<1>2. work[w].pc # "record" => \A v \in BootTasks : work[v].pc # "record"
  BY <1>1 DEF Active, Serving
<1> QED  BY <1>1, <1>2 DEF BootInv, BootTypes, WorkerServesPlan, KeysAreCounted

\* A step of the worker that leaves the plan its own.
LEMMA WorkerKeeps ==
  ASSUME BootKeys!BootBounds, BootInv, NEW w \in BootTasks, work[w].pc \in Active,
         NEW n \in BootWork, work' = [work EXCEPT ![w] = n], n.pc \in Active,
         plan' \in BootPlan, plan'.state \in BootKeys!WorkerStates,
         plan'.approved = TRUE, task' = task, locks' \in Nat,
         keys' \in [sent: Nat, late: Nat, lost: Nat], clock' \in 0..MaxTimeout,
         lease' \in {lease, w},
         CopyIsGood(n, plan', keys'), PlanIsGood(plan', keys'),
         keys'.sent = plan'.sent + keys'.lost + (IF n.pc = "record" THEN 1 ELSE 0)
  PROVE  BootInv'
<1>1. /\ work' \in [BootTasks -> BootWork] /\ work'[w] = n
      /\ \A v \in BootTasks : v # w => work'[v] = work[v]
  BY DEF BootInv, BootTypes
<1>2. task = TRUE /\ \A v \in BootTasks : v # w => work[v].pc \notin Active
  BY TheWorker
<1>3. BootTypes'
  BY <1>1 DEF BootInv, BootTypes
<1>4. WorkerServesPlan'
  BY <1>1, <1>2 DEF WorkerServesPlan
<1>5. KeysAreCounted'
  <2>1. CASE n.pc = "record"
    BY <1>1, <2>1 DEF KeysAreCounted
  <2>2. CASE n.pc # "record"
    <3>1. \A v \in BootTasks : work'[v].pc # "record"
      BY <1>1, <1>2, <2>2 DEF Active, Serving
    <3>2. keys'.sent = plan'.sent + keys'.lost
      BY <2>2 DEF BootPlan
    <3> QED  BY <3>1, <3>2 DEF KeysAreCounted
  <2> QED  BY <2>1, <2>2
<1>6. BootKeys!LeaseHasWorker'
  BY <1>1 DEF BootInv, BootKeys!LeaseHasWorker, Active, Serving
<1> QED  BY <1>3, <1>4, <1>5, <1>6 DEF BootInv

\* The same when only the worker and its looks at the lock change.
LEMMA WorkerMoves ==
  ASSUME BootKeys!BootBounds, BootInv, NEW w \in BootTasks, work[w].pc \in Active,
         work[w].pc # "record",
         NEW n \in BootWork, work' = [work EXCEPT ![w] = n], n.pc \in Active,
         n.pc # "record", CopyIsGood(n, plan, keys), lease' \in {lease, w},
         locks' \in Nat, clock' \in 0..MaxTimeout, UNCHANGED <<plan, task, keys>>
  PROVE  BootInv'
<1>1. /\ plan \in BootPlan /\ plan.state \in BootKeys!WorkerStates /\ plan.approved = TRUE
      /\ PlanIsGood(plan, keys) /\ keys.sent = plan.sent + keys.lost
      /\ keys \in [sent: Nat, late: Nat, lost: Nat]
  BY TheWorker DEF BootInv, BootTypes
<1>2. keys'.sent = plan'.sent + keys'.lost + (IF n.pc = "record" THEN 1 ELSE 0)
  BY <1>1 DEF BootPlan
<1> HIDE DEF CopyIsGood, PlanIsGood
<1> QED  BY <1>1, <1>2, WorkerKeeps

\* A wait for the lock leaves a count of the waits that failed.
LEMMA LocksAreCounted ==
  ASSUME BootInv, BootKeys!LockTaken \/ BootKeys!LockFails
  PROVE  locks' \in Nat
BY DEF BootInv, BootTypes, BootKeys!LockTaken, BootKeys!LockFails

\* The worker ends with a result, which says that all was sent only if it was.
LEMMA EndingIsGood ==
  ASSUME BootKeys!BootBounds, BootInv, NEW w \in BootTasks, work[w].pc \in Active,
         NEW i \in Nat, NEW r \in Results,
         r = "awaiting_verification" => plan.sent >= plan.cfg.max
  PROVE  LET e == [BootKeys!NoWork EXCEPT !.pc = "finish", !.id = i, !.result = r]
         IN  /\ e \in BootWork /\ e.pc \in Active /\ e.pc # "record"
             /\ CopyIsGood(e, plan, keys)
<1> DEFINE e == [BootKeys!NoWork EXCEPT !.pc = "finish", !.id = i, !.result = r]
<1>1. e \in BootWork /\ e.pc = "finish" /\ e.result = r
  BY BlankIsWork
<1> HIDE DEF e
<1>2. e.pc \in Active /\ CopyIsGood(e, plan, keys)
  BY <1>1 DEF Active, Serving, CopyIsGood
<1>3. e \in BootWork /\ e.pc \in Active /\ e.pc # "record" /\ CopyIsGood(e, plan, keys)
  BY <1>1, <1>2
<1> QED  BY <1>3 DEF e

\* A worker that copied the plan knows it.
LEMMA CopyingIsGood ==
  ASSUME BootKeys!BootBounds, BootInv, NEW w \in BootTasks, work[w].pc \in Active,
         NEW p \in {"touch", "begin", "decide"}
  PROVE  LET c == BootKeys!Copied(w, p)
         IN  /\ c \in BootWork /\ c.pc \in Active /\ c.pc # "record"
             /\ CopyIsGood(c, plan, keys)
<1> DEFINE c == BootKeys!Copied(w, p)
<1>1. work[w] \in BootWork /\ plan \in BootPlan /\ PlanIsGood(plan, keys)
  BY TheWorker
<1>2. c = [work[w] EXCEPT !.pc = p, !.id = plan.id, !.cfg = plan.cfg, !.sent = plan.sent,
                          !.cancel = plan.cancel]
  BY DEF BootKeys!Copied
<1>3. p \in Active
  BY DEF Active, Serving
<1>4. /\ c \in BootWork /\ c.pc = p /\ c.id = plan.id /\ c.cfg = plan.cfg
      /\ c.sent = plan.sent /\ c.cancel = plan.cancel
  BY <1>1, <1>2, <1>3 DEF BootWork, BootPlan
<1> HIDE DEF c
<1>5. CopyIsGood(c, plan, keys)
  BY <1>1, <1>4 DEF CopyIsGood, PlanIsGood
<1>6. c \in BootWork /\ c.pc \in Active /\ c.pc # "record" /\ CopyIsGood(c, plan, keys)
  BY <1>3, <1>4, <1>5
<1> QED  BY <1>6 DEF c

\* The head of the task, and the look before the reset pulse.
LEMMA FirstKeepsBoot ==
  ASSUME BootKeys!BootBounds, BootInv, NEW w \in BootTasks,
         BootKeys!First(w) \/ BootKeys!Reset(w)
  PROVE  BootInv'
<1>1. /\ work[w].pc \in {"first", "reset"} /\ locks' \in Nat
      /\ UNCHANGED <<plan, task, lease, clock, keys>>
  BY LocksAreCounted DEF BootKeys!First, BootKeys!Reset
<1>2. work[w].pc \in Active /\ work[w].pc # "record"
  BY <1>1 DEF Active, Serving
<1>3. /\ "failed" \in Results /\ "cancelled" \in Results
      /\ work[w].id \in Nat /\ plan.id \in Nat /\ clock \in 0..MaxTimeout
  BY <1>2, TheWorker DEF Results, BootWork, BootPlan, BootInv, BootTypes
<1>4. PICK n : /\ work' = [work EXCEPT ![w] = n]
               /\ \/ \E i \in Nat, r \in {"failed", "cancelled"} :
                       n = [BootKeys!NoWork EXCEPT !.pc = "finish", !.id = i, !.result = r]
                  \/ \E p \in {"touch", "begin"} : n = BootKeys!Copied(w, p)
  <2>1. \/ BootKeys!End(w, "failed")
        \/ \E p \in {"touch", "begin"} : BootKeys!Set(w, BootKeys!CopiedOrCancelled(w, p))
    BY DEF BootKeys!First, BootKeys!Reset
  <2>2. CASE BootKeys!End(w, "failed")
    BY <2>2, <1>3, Zenon DEF BootKeys!End, BootKeys!Set
  <2>3. ASSUME NEW p \in {"touch", "begin"},
               BootKeys!Set(w, BootKeys!CopiedOrCancelled(w, p))
        PROVE  \E n : /\ work' = [work EXCEPT ![w] = n]
               /\ \/ \E i \in Nat, r \in {"failed", "cancelled"} :
                       n = [BootKeys!NoWork EXCEPT !.pc = "finish", !.id = i, !.result = r]
                  \/ \E q \in {"touch", "begin"} : n = BootKeys!Copied(w, q)
    BY <2>3, <1>3, Zenon DEF BootKeys!Set, BootKeys!CopiedOrCancelled
  <2> QED  BY <2>1, <2>2, <2>3, Zenon
<1>5. n \in BootWork /\ n.pc \in Active /\ n.pc # "record" /\ CopyIsGood(n, plan, keys)
  <2>1. ASSUME NEW i \in Nat, NEW r \in {"failed", "cancelled"},
               n = [BootKeys!NoWork EXCEPT !.pc = "finish", !.id = i, !.result = r]
        PROVE  n \in BootWork /\ n.pc \in Active /\ n.pc # "record" /\ CopyIsGood(n, plan, keys)
    <3>1. r \in Results /\ r # "awaiting_verification"
      BY <1>3
    <3> QED  BY <1>2, <2>1, <3>1, EndingIsGood
  <2>2. ASSUME NEW p \in {"touch", "begin"}, n = BootKeys!Copied(w, p)
        PROVE  n \in BootWork /\ n.pc \in Active /\ n.pc # "record" /\ CopyIsGood(n, plan, keys)
    BY <1>2, <2>2, CopyingIsGood
  <2> QED  BY <1>4, <2>1, <2>2
<1> QED  BY <1>1, <1>2, <1>3, <1>4, <1>5, WorkerMoves

\* The worker gets the lease, or ends.
LEMMA TakeLeaseKeepsBoot ==
  ASSUME BootKeys!BootBounds, BootInv, NEW w \in BootTasks, BootKeys!TakeLease(w)
  PROVE  BootInv'
<1>1. work[w].pc = "touch" /\ UNCHANGED <<plan, task, clock, locks, keys>>
  BY DEF BootKeys!TakeLease
<1>2. work[w].pc \in Active /\ work[w].pc # "record"
  BY <1>1 DEF Active, Serving
<1>3. /\ work[w] \in BootWork /\ CopyIsGood(work[w], plan, keys)
      /\ locks \in Nat /\ clock \in 0..MaxTimeout /\ work[w].id \in Nat
  BY <1>2, TheWorker DEF BootInv, BootTypes, BootWork
<1>4. CASE lease = "free"
  <2>1. lease' = w /\ BootKeys!Goto(w, IF work[w].cfg.reset THEN "reset" ELSE "begin")
    BY <1>4 DEF BootKeys!TakeLease
  <2>2. PICK p \in {"reset", "begin"} : work' = [work EXCEPT ![w] = [work[w] EXCEPT !.pc = p]]
    BY <2>1 DEF BootKeys!Goto, BootKeys!Set
  <2> DEFINE n == [work[w] EXCEPT !.pc = p]
  <2>3. /\ n \in BootWork /\ n.pc = p /\ n.id = work[w].id /\ n.cfg = work[w].cfg
    BY <1>3 DEF BootWork, Active, Serving
  <2>4. n.pc \in Active /\ n.pc # "record" /\ CopyIsGood(n, plan, keys)
    <3> HIDE DEF n
    <3> QED  BY <1>1, <1>3, <2>3 DEF Active, Serving, CopyIsGood
  <2>5. work' = [work EXCEPT ![w] = n]
    BY <2>2
  <2> HIDE DEF n
  <2> QED  BY <1>1, <1>2, <1>3, <2>1, <2>3, <2>4, <2>5, WorkerMoves
<1>5. CASE lease # "free"
  <2> DEFINE n == [BootKeys!NoWork EXCEPT !.pc = "finish", !.id = work[w].id,
                                          !.result = "preempted"]
  <2>1. lease' = lease /\ work' = [work EXCEPT ![w] = n]
    BY <1>5 DEF BootKeys!TakeLease, BootKeys!End, BootKeys!Set
  <2>2. "preempted" \in Results /\ "preempted" # "awaiting_verification"
    BY DEF Results
  <2>3. n \in BootWork /\ n.pc \in Active /\ n.pc # "record" /\ CopyIsGood(n, plan, keys)
    BY <1>2, <1>3, <2>2, EndingIsGood
  <2> HIDE DEF n
  <2> QED  BY <1>1, <1>2, <1>3, <2>1, <2>3, WorkerMoves
<1> QED  BY <1>4, <1>5

\* What the worker stores of its state leaves the rest of the plan.
LEMMA StoreKeepsPlan ==
  ASSUME BootKeys!BootBounds, BootInv, NEW w \in BootTasks, work[w].pc \in Active,
         NEW q \in BootKeys!WorkerStates, BootKeys!Store(w, [plan EXCEPT !.state = q])
  PROVE  /\ plan' \in BootPlan /\ plan'.state \in BootKeys!WorkerStates
         /\ plan'.approved = TRUE /\ plan'.id = plan.id /\ plan'.cfg = plan.cfg
         /\ plan'.sent = plan.sent /\ plan'.cancel = plan.cancel /\ locks' \in Nat
<1>1. plan \in BootPlan /\ plan.state \in BootKeys!WorkerStates /\ plan.approved = TRUE
  BY TheWorker
<1>2. locks' \in Nat
  BY LocksAreCounted DEF BootKeys!Store
<1>3. CASE plan' = plan
  BY <1>1, <1>2, <1>3
<1>4. CASE plan' = [plan EXCEPT !.state = q]
  BY <1>1, <1>2, <1>4 DEF BootPlan
<1> QED  BY <1>3, <1>4 DEF BootKeys!Store

\* The worker goes on to the next round of its loop.
LEMMA RoundIsGood ==
  ASSUME NEW r \in BootWork, NEW p \in BootPlan, NEW k, CopyIsGood(r, p, k),
         r.pc \in Serving
  PROVE  /\ [r EXCEPT !.pc = "snap"] \in BootWork /\ [r EXCEPT !.pc = "snap"].pc = "snap"
         /\ CopyIsGood([r EXCEPT !.pc = "snap"], p, k)
<1> DEFINE n == [r EXCEPT !.pc = "snap"]
<1>1. n \in BootWork /\ n.pc = "snap" /\ n.id = r.id /\ n.cfg = r.cfg
  BY DEF BootWork, Active, Serving
<1>2. CopyIsGood(n, p, k)
  <2> HIDE DEF n
  <2> QED  BY <1>1 DEF CopyIsGood, Serving
<1> QED  BY <1>1, <1>2

\* A worker that stores its state and goes on.
LEMMA StoringKeepsBoot ==
  ASSUME BootKeys!BootBounds, BootInv, NEW w \in BootTasks, work[w].pc \in {"begin", "decide"},
         NEW q \in BootKeys!WorkerStates, BootKeys!Store(w, [plan EXCEPT !.state = q]),
         BootKeys!Goto(w, "snap"), clock' \in 0..MaxTimeout, UNCHANGED <<task, lease, keys>>
  PROVE  BootInv'
<1>1. work[w].pc \in Active /\ work[w].pc \in Serving /\ work[w].pc # "record"
  BY DEF Active, Serving
<1>2. /\ work[w] \in BootWork /\ plan \in BootPlan /\ CopyIsGood(work[w], plan, keys)
      /\ PlanIsGood(plan, keys) /\ keys.sent = plan.sent + keys.lost
      /\ keys \in [sent: Nat, late: Nat, lost: Nat]
  BY <1>1, TheWorker DEF BootInv, BootTypes
<1>3. /\ plan' \in BootPlan /\ plan'.state \in BootKeys!WorkerStates
      /\ plan'.approved = TRUE /\ plan'.id = plan.id /\ plan'.cfg = plan.cfg
      /\ plan'.sent = plan.sent /\ plan'.cancel = plan.cancel /\ locks' \in Nat
  BY <1>1, StoreKeepsPlan
<1> DEFINE n == [work[w] EXCEPT !.pc = "snap"]
<1>4. CopyIsGood(work[w], plan', keys')
  BY <1>2, <1>3 DEF CopyIsGood
<1>5. n \in BootWork /\ n.pc = "snap" /\ CopyIsGood(n, plan', keys')
  BY <1>1, <1>2, <1>3, <1>4, RoundIsGood
<1>6. work' = [work EXCEPT ![w] = n]
  BY DEF BootKeys!Goto, BootKeys!Set
<1> HIDE DEF n
<1>7. plan'.state \notin {"awaiting_verification", "verified"}
  BY <1>3 DEF BootKeys!WorkerStates
<1>8. PlanIsGood(plan', keys')
  BY <1>2, <1>3, <1>7 DEF PlanIsGood
<1>9. keys'.sent = plan'.sent + keys'.lost + (IF n.pc = "record" THEN 1 ELSE 0)
  BY <1>2, <1>3, <1>5 DEF BootPlan
<1>10. n.pc \in Active
  BY <1>5 DEF Active, Serving
<1> QED  BY <1>1, <1>2, <1>3, <1>5, <1>6, <1>8, <1>9, <1>10, WorkerKeeps

\* The start of the sequence and the look at the plan.
LEMMA BeginKeepsBoot ==
  ASSUME BootKeys!BootBounds, BootInv, NEW w \in BootTasks,
         BootKeys!Begin(w) \/ BootKeys!Snap(w)
  PROVE  BootInv'
<1>1. CASE BootKeys!Begin(w)
  <2>1. clock' \in 0..MaxTimeout
    BY <1>1 DEF BootKeys!Begin, BootKeys!BootBounds
  <2>2. "waiting_start" \in BootKeys!WorkerStates
    BY DEF BootKeys!WorkerStates
  <2> QED  BY <1>1, <2>1, <2>2, StoringKeepsBoot DEF BootKeys!Begin
<1>2. CASE BootKeys!Snap(w)
  <2>1. /\ work[w].pc = "snap" /\ locks' \in Nat
        /\ UNCHANGED <<plan, task, lease, clock, keys>>
    BY <1>2, LocksAreCounted DEF BootKeys!Snap
  <2>2. work[w].pc \in Active /\ work[w].pc # "record"
    BY <2>1 DEF Active, Serving
  <2>3. work[w].id \in Nat /\ clock \in 0..MaxTimeout
    BY <2>2, TheWorker DEF BootWork, BootInv, BootTypes
  <2>4. CASE BootKeys!Set(w, BootKeys!Copied(w, "decide"))
    <3> DEFINE n == BootKeys!Copied(w, "decide")
    <3>1. n \in BootWork /\ n.pc \in Active /\ n.pc # "record" /\ CopyIsGood(n, plan, keys)
      BY <2>2, CopyingIsGood
    <3>2. work' = [work EXCEPT ![w] = n]
      BY <2>4 DEF BootKeys!Set
    <3> HIDE DEF n
    <3> QED  BY <2>1, <2>2, <2>3, <3>1, <3>2, WorkerMoves
  <2>5. CASE BootKeys!End(w, "failed")
    <3> DEFINE n == [BootKeys!NoWork EXCEPT !.pc = "finish", !.id = work[w].id,
                                            !.result = "failed"]
    <3>1. "failed" \in Results /\ "failed" # "awaiting_verification"
      BY DEF Results
    <3>2. n \in BootWork /\ n.pc \in Active /\ n.pc # "record" /\ CopyIsGood(n, plan, keys)
      BY <2>2, <2>3, <3>1, EndingIsGood
    <3>3. work' = [work EXCEPT ![w] = n]
      BY <2>5 DEF BootKeys!End, BootKeys!Set
    <3> HIDE DEF n
    <3> QED  BY <2>1, <2>2, <2>3, <3>2, <3>3, WorkerMoves
  <2> QED  BY <1>2, <2>4, <2>5 DEF BootKeys!Snap
<1> QED  BY <1>1, <1>2

\* The loop decides.
LEMMA LoopKeepsBoot ==
  ASSUME BootKeys!BootBounds, BootInv, NEW w \in BootTasks, BootKeys!Loop(w)
  PROVE  BootInv'
<1> DEFINE d == BootKeys!Decide(work[w].cfg, clock, work[w].sent, work[w].cancel,
                                lease = w, mounted)
<1>1. work[w].pc = "decide" /\ UNCHANGED <<task, lease, clock, keys>>
  BY DEF BootKeys!Loop
<1>2. work[w].pc \in Active /\ work[w].pc # "record"
  BY <1>1 DEF Active, Serving
<1>3. /\ work[w] \in BootWork /\ plan \in BootPlan /\ CopyIsGood(work[w], plan, keys)
      /\ clock \in 0..MaxTimeout /\ work[w].id \in Nat /\ work[w].cancel \in BOOLEAN
      /\ plan.cfg.max \in Nat /\ plan.sent \in Nat
      /\ work[w].sent = plan.sent /\ work[w].cfg = plan.cfg
  <2>1. work[w] \in BootWork /\ plan \in BootPlan /\ CopyIsGood(work[w], plan, keys)
    BY <1>2, TheWorker
  <2>2. plan.cfg \in BootKeys!Configs
    BY <2>1 DEF BootPlan
  <2> QED  BY <1>1, <2>1, <2>2, ConfigsAre
           DEF CopyIsGood, Serving, BootInv, BootTypes, BootWork, BootPlan
<1>4. /\ d = "send" => work[w].cancel = FALSE /\ plan.sent < plan.cfg.max
      /\ d = "complete" => plan.sent >= plan.cfg.max
  <2>1. /\ d = "send" => work[w].cancel = FALSE /\ ~(work[w].sent >= work[w].cfg.max)
        /\ d = "complete" => work[w].sent >= work[w].cfg.max
    BY <1>3 DEF BootKeys!Decide
  <2> HIDE DEF d
  <2> QED  BY <1>3, <2>1
<1>5. \/ /\ \E q \in BootKeys!WorkerStates : BootKeys!Store(w, [plan EXCEPT !.state = q])
         /\ BootKeys!Goto(w, "snap")
      \/ d = "send" /\ BootKeys!Goto(w, "send") /\ UNCHANGED <<plan, locks>>
      \/ /\ \E r \in Results : BootKeys!End(w, r) /\ (r = "awaiting_verification" => d = "complete")
         /\ UNCHANGED <<plan, locks>>
  <2>1. {"waiting_start", "waiting_hid"} \subseteq BootKeys!WorkerStates
    BY DEF BootKeys!WorkerStates
  <2>2. {"awaiting_verification", "cancelled", "preempted", "timed_out"} \subseteq Results
    BY DEF Results
  <2>3. \/ /\ BootKeys!Store(w, [plan EXCEPT !.state =
                IF d = "wait" THEN "waiting_start" ELSE "waiting_hid"])
           /\ BootKeys!Goto(w, "snap")
        \/ d = "send" /\ BootKeys!Goto(w, "send") /\ BootKeys!LockTaken /\ UNCHANGED plan
        \/ /\ d \in {"complete", "cancel", "preempt", "timeout"}
           /\ BootKeys!End(w, CASE d = "complete" -> "awaiting_verification"
                       [] d = "cancel" -> "cancelled"
                       [] d = "preempt" -> "preempted"
                       [] d = "timeout" -> "timed_out")
           /\ BootKeys!LockTaken /\ UNCHANGED plan
    BY DEF BootKeys!Loop
  <2> HIDE DEF d
  <2>4. CASE /\ BootKeys!Store(w, [plan EXCEPT !.state =
                IF d = "wait" THEN "waiting_start" ELSE "waiting_hid"])
             /\ BootKeys!Goto(w, "snap")
    <3>1. (IF d = "wait" THEN "waiting_start" ELSE "waiting_hid") \in BootKeys!WorkerStates
      BY <2>1
    <3> QED  BY <2>4, <3>1, Zenon
  <2>5. CASE /\ d \in {"complete", "cancel", "preempt", "timeout"}
             /\ BootKeys!End(w, CASE d = "complete" -> "awaiting_verification"
                       [] d = "cancel" -> "cancelled"
                       [] d = "preempt" -> "preempted"
                       [] d = "timeout" -> "timed_out")
             /\ BootKeys!LockTaken /\ UNCHANGED plan
    <3> DEFINE r == CASE d = "complete" -> "awaiting_verification"
                       [] d = "cancel" -> "cancelled"
                       [] d = "preempt" -> "preempted"
                       [] d = "timeout" -> "timed_out"
    <3>1. r \in Results /\ (r = "awaiting_verification" => d = "complete")
      BY <2>2, <2>5
    <3>2. BootKeys!End(w, r) /\ UNCHANGED <<plan, locks>>
      BY <2>5, Zenon DEF BootKeys!LockTaken
    <3> HIDE DEF r
    <3> QED  BY <3>1, <3>2, Zenon
  <2> QED  BY <2>3, <2>4, <2>5, Zenon DEF BootKeys!LockTaken
<1>6. CASE /\ \E q \in BootKeys!WorkerStates : BootKeys!Store(w, [plan EXCEPT !.state = q])
           /\ BootKeys!Goto(w, "snap")
  BY <1>1, <1>3, <1>6, StoringKeepsBoot
<1>7. CASE d = "send" /\ BootKeys!Goto(w, "send") /\ UNCHANGED <<plan, locks>>
  <2> DEFINE n == [work[w] EXCEPT !.pc = "send"]
  <2>1. /\ n \in BootWork /\ n.pc = "send" /\ n.id = work[w].id /\ n.cfg = work[w].cfg
        /\ n.sent = work[w].sent
    BY <1>3 DEF BootWork, Active, Serving
  <2>2. work' = [work EXCEPT ![w] = n]
    BY <1>7 DEF BootKeys!Goto, BootKeys!Set
  <2>3. keys.late = 0 /\ locks \in Nat
    <3>1. keys.late \in Nat /\ locks \in Nat
      BY DEF BootInv, BootTypes
    <3>2. ~(keys.late > 0)
      BY <1>1, <1>3, <1>4, <1>7 DEF CopyIsGood
    <3> QED  BY <3>1, <3>2
  <2> HIDE DEF n, d
  <2>4. n.pc \in Active /\ n.pc # "record" /\ CopyIsGood(n, plan, keys)
    BY <1>1, <1>3, <1>4, <1>7, <2>1, <2>3 DEF Active, Serving, CopyIsGood
  <2> QED  BY <1>1, <1>2, <1>3, <1>7, <2>1, <2>2, <2>3, <2>4, WorkerMoves
<1>8. CASE /\ \E r \in Results : BootKeys!End(w, r) /\ (r = "awaiting_verification" => d = "complete")
           /\ UNCHANGED <<plan, locks>>
  <2>1. PICK r \in Results : BootKeys!End(w, r) /\ (r = "awaiting_verification" => d = "complete")
    BY <1>8
  <2> HIDE DEF d
  <2> DEFINE n == [BootKeys!NoWork EXCEPT !.pc = "finish", !.id = work[w].id, !.result = r]
  <2>2. n \in BootWork /\ n.pc \in Active /\ n.pc # "record" /\ CopyIsGood(n, plan, keys)
    BY <1>2, <1>3, <1>4, <2>1, EndingIsGood
  <2>3. work' = [work EXCEPT ![w] = n]
    BY <2>1 DEF BootKeys!End, BootKeys!Set
  <2>4. locks \in Nat
    BY DEF BootInv, BootTypes
  <2> HIDE DEF n
  <2> QED  BY <1>1, <1>2, <1>3, <1>8, <2>2, <2>3, <2>4, WorkerMoves
<1> QED  BY <1>5, <1>6, <1>7, <1>8

\* Two fields of a record at once.
LEMMA PlanPut ==
  ASSUME NEW p \in BootPlan, NEW m \in Nat
  PROVE  LET n == [p EXCEPT !.state = "running", !.sent = m]
         IN  /\ n \in BootPlan /\ n.state = "running" /\ n.sent = m /\ n.id = p.id
             /\ n.cfg = p.cfg /\ n.approved = p.approved /\ n.cancel = p.cancel
BY DEF BootPlan, BootKeys!WorkerStates

\* The counts of keys, two at once.
LEMMA KeysPut ==
  ASSUME NEW k \in [sent: Nat, late: Nat, lost: Nat], NEW m \in Nat, NEW l \in Nat
  PROVE  LET n == [k EXCEPT !.sent = m, !.late = l]
         IN  /\ n \in [sent: Nat, late: Nat, lost: Nat]
             /\ n.sent = m /\ n.late = l /\ n.lost = k.lost
OBVIOUS

\* A key goes out and its count goes back to the plan, or is lost.
LEMMA SendKeepsBoot ==
  ASSUME BootKeys!BootBounds, BootInv, NEW w \in BootTasks, BootKeys!Send(w)
  PROVE  BootInv'
<1>1. work[w].pc = "send" /\ UNCHANGED <<plan, task, lease, clock, locks>>
  BY DEF BootKeys!Send
<1>2. work[w].pc \in Active /\ work[w].pc \in Serving /\ work[w].pc # "record"
  BY <1>1 DEF Active, Serving
<1>3. /\ work[w] \in BootWork /\ plan \in BootPlan /\ CopyIsGood(work[w], plan, keys)
      /\ PlanIsGood(plan, keys) /\ keys.sent = plan.sent + keys.lost
      /\ plan.state \in BootKeys!WorkerStates /\ plan.approved = TRUE
      /\ clock \in 0..MaxTimeout /\ locks \in Nat /\ work[w].id \in Nat
      /\ keys \in [sent: Nat, late: Nat, lost: Nat]
  BY <1>2, TheWorker DEF BootInv, BootTypes, BootWork
<1>4. CASE lease = w /\ mounted
  <2> DEFINE n == [work[w] EXCEPT !.pc = "record", !.sent = work[w].sent + 1]
  <2>1. work' = [work EXCEPT ![w] = n]
    BY <1>4 DEF BootKeys!Send, BootKeys!Set
  <2>2. /\ work[w].sent \in Nat /\ plan.sent \in Nat
        /\ work[w].sent = plan.sent /\ plan.sent < plan.cfg.max
        /\ keys.late = 0 /\ work[w].id = plan.id /\ work[w].cfg = plan.cfg
    BY <1>1, <1>2, <1>3 DEF BootWork, BootPlan, CopyIsGood
  <2>3. /\ n \in BootWork /\ n.pc = "record" /\ n.id = work[w].id /\ n.cfg = work[w].cfg
        /\ n.sent = work[w].sent + 1
    <3>1. PICK m \in Nat : m = work[w].sent + 1
      BY <2>2
    <3>2. "record" \in Active
      BY DEF Active, Serving
    <3>3. n = [work[w] EXCEPT !.pc = "record", !.sent = m]
      BY <3>1
    <3> HIDE DEF n
    <3>4. n \in BootWork /\ n.pc = "record" /\ n.id = work[w].id /\ n.cfg = work[w].cfg /\ n.sent = m
      BY <1>3, <3>2, <3>3 DEF BootWork
    <3> QED  BY <3>1, <3>4
  <2>4. /\ keys' \in [sent: Nat, late: Nat, lost: Nat] /\ keys'.sent = keys.sent + 1
        /\ keys'.lost = keys.lost
        /\ keys'.late \in 0..1 /\ (keys'.late > 0 => plan.cancel = TRUE)
    <3>1. keys' = [keys EXCEPT !.sent = keys.sent + 1,
                               !.late = IF plan.cancel THEN keys.late + 1 ELSE keys.late]
      BY <1>4 DEF BootKeys!Send
    <3> DEFINE l == IF plan.cancel THEN keys.late + 1 ELSE keys.late
    <3>2. l \in 0..1 /\ (l > 0 => plan.cancel = TRUE)
      BY <1>3, <2>2 DEF BootPlan
    <3>3. keys.sent + 1 \in Nat /\ l \in Nat
      BY <1>3, <3>2
    <3>4. keys' = [keys EXCEPT !.sent = keys.sent + 1, !.late = l]
      BY <3>1
    <3> HIDE DEF l
    <3>5. /\ keys' \in [sent: Nat, late: Nat, lost: Nat]
          /\ keys'.sent = keys.sent + 1 /\ keys'.late = l /\ keys'.lost = keys.lost
      BY <1>3, <3>3, <3>4, KeysPut
    <3> QED  BY <3>2, <3>5
  <2> HIDE DEF n
  <2>5. n.pc \in Active /\ CopyIsGood(n, plan', keys')
    BY <1>1, <2>2, <2>3 DEF Active, Serving, CopyIsGood
  <2>6. PlanIsGood(plan', keys')
    BY <1>1, <1>3, <2>4 DEF PlanIsGood
  <2>7. keys'.sent = plan'.sent + keys'.lost + (IF n.pc = "record" THEN 1 ELSE 0)
    BY <1>1, <1>3, <2>2, <2>3, <2>4
  <2> QED  BY <1>1, <1>2, <1>3, <2>1, <2>3, <2>4, <2>5, <2>6, <2>7, WorkerKeeps
<1>5. CASE ~(lease = w /\ mounted)
  <2> DEFINE n == [BootKeys!NoWork EXCEPT !.pc = "finish", !.id = work[w].id,
                                          !.result = "failed"]
  <2>1. "failed" \in Results /\ "failed" # "awaiting_verification"
    BY DEF Results
  <2>2. n \in BootWork /\ n.pc \in Active /\ n.pc # "record" /\ CopyIsGood(n, plan, keys)
    BY <1>2, <1>3, <2>1, EndingIsGood
  <2>3. work' = [work EXCEPT ![w] = n] /\ UNCHANGED keys
    BY <1>5 DEF BootKeys!Send, BootKeys!End, BootKeys!Set
  <2> HIDE DEF n
  <2> QED  BY <1>1, <1>2, <1>3, <2>2, <2>3, WorkerMoves
<1> QED  BY <1>4, <1>5

\* The worker counts the key it sent, unless the plan is no longer its own.
LEMMA RecordKeepsBoot ==
  ASSUME BootKeys!BootBounds, BootInv, NEW w \in BootTasks, BootKeys!Record(w)
  PROVE  BootInv'
<1>1. work[w].pc = "record" /\ UNCHANGED <<task, lease, clock>>
  BY DEF BootKeys!Record
<1>2. work[w].pc \in Active /\ work[w].pc \in Serving
  BY <1>1 DEF Active, Serving
<1>3. /\ work[w] \in BootWork /\ plan \in BootPlan /\ CopyIsGood(work[w], plan, keys)
      /\ PlanIsGood(plan, keys) /\ keys.sent = plan.sent + keys.lost + 1
      /\ plan.state \in BootKeys!WorkerStates /\ plan.approved = TRUE
      /\ clock \in 0..MaxTimeout /\ locks \in Nat
      /\ keys \in [sent: Nat, late: Nat, lost: Nat]
  BY <1>1, <1>2, TheWorker DEF BootInv, BootTypes
<1>4. /\ plan.sent \in Nat /\ plan.cfg.max \in Nat /\ plan.sent < plan.cfg.max
      /\ work[w].sent = plan.sent + 1 /\ work[w].id = plan.id /\ work[w].cfg = plan.cfg
  <2>1. plan.cfg \in BootKeys!Configs /\ plan.sent \in Nat
    BY <1>3 DEF BootPlan
  <2> QED  BY <1>1, <1>2, <1>3, <2>1, ConfigsAre DEF CopyIsGood
<1> DEFINE n == [work[w] EXCEPT !.pc = "snap"]
<1>5. work' = [work EXCEPT ![w] = n]
  BY DEF BootKeys!Record, BootKeys!Goto, BootKeys!Set
<1>6. n \in BootWork /\ n.pc = "snap" /\ n.id = plan.id /\ n.cfg = plan.cfg
  BY <1>3, <1>4 DEF BootWork, Active, Serving
<1> HIDE DEF n
<1>7. \/ /\ plan' = [plan EXCEPT !.state = "running", !.sent = work[w].sent]
         /\ locks' = locks /\ keys' = keys
      \/ /\ plan' = plan /\ locks' = locks + 1
         /\ keys' = [keys EXCEPT !.lost = keys.lost + 1]
  <2>1. keys' = [keys EXCEPT !.lost = IF locks' > locks THEN keys.lost + 1 ELSE keys.lost]
    BY DEF BootKeys!Record
  <2>2. CASE BootKeys!LockTaken /\ plan' = [plan EXCEPT !.state = "running", !.sent = work[w].sent]
    <3>1. locks' = locks /\ ~(locks' > locks)
      BY <1>3, <2>2 DEF BootKeys!LockTaken
    <3> QED  BY <1>3, <2>1, <2>2, <3>1
  <2>3. CASE BootKeys!LockFails /\ UNCHANGED plan
    <3>1. locks' = locks + 1 /\ locks' > locks
      BY <1>3, <2>3 DEF BootKeys!LockFails
    <3> QED  BY <2>1, <2>3, <3>1
  <2> QED  BY <1>4, <2>2, <2>3 DEF BootKeys!Record, BootKeys!Store
<1>8. /\ plan' \in BootPlan /\ plan'.state \in BootKeys!WorkerStates /\ plan'.approved = TRUE
      /\ plan'.id = plan.id /\ plan'.cfg = plan.cfg /\ plan'.cancel = plan.cancel
      /\ plan'.sent <= plan.cfg.max /\ locks' \in Nat
      /\ keys' \in [sent: Nat, late: Nat, lost: Nat] /\ keys'.late = keys.late
      /\ keys'.sent = plan'.sent + keys'.lost
  <2>1. CASE /\ plan' = [plan EXCEPT !.state = "running", !.sent = work[w].sent]
             /\ locks' = locks /\ keys' = keys
    <3>1. /\ plan' \in BootPlan /\ plan'.state \in BootKeys!WorkerStates /\ plan'.approved = TRUE
          /\ plan'.id = plan.id /\ plan'.cfg = plan.cfg /\ plan'.cancel = plan.cancel
          /\ plan'.sent = plan.sent + 1
      <4>1. work[w].sent \in Nat /\ "running" \in BootKeys!WorkerStates
        BY <1>4 DEF BootKeys!WorkerStates
      <4> QED  BY <1>3, <1>4, <2>1, <4>1, PlanPut
    <3> QED  BY <1>3, <1>4, <2>1, <3>1
  <2>2. CASE /\ plan' = plan /\ locks' = locks + 1
             /\ keys' = [keys EXCEPT !.lost = keys.lost + 1]
    BY <1>3, <1>4, <2>2
  <2> QED  BY <1>7, <2>1, <2>2
<1>9. n.pc \in Active /\ CopyIsGood(n, plan', keys')
  BY <1>6, <1>8 DEF Active, Serving, CopyIsGood
<1>10. PlanIsGood(plan', keys')
  <2>1. plan'.state \notin {"awaiting_verification", "verified"}
    BY <1>8 DEF BootKeys!WorkerStates
  <2> QED  BY <1>3, <1>8, <2>1 DEF PlanIsGood
<1>11. keys'.sent = plan'.sent + keys'.lost + (IF n.pc = "record" THEN 1 ELSE 0)
  BY <1>6, <1>8 DEF BootPlan
<1> QED  BY <1>1, <1>2, <1>3, <1>5, <1>6, <1>8, <1>9, <1>10, <1>11, WorkerKeeps

\* The worker gives its plan back, and then the lease.
LEMMA FinishKeepsBoot ==
  ASSUME BootKeys!BootBounds, BootInv, NEW w \in BootTasks,
         BootKeys!Finish(w) \/ BootKeys!Release(w)
  PROVE  BootInv'
<1>1. CASE BootKeys!Finish(w)
  <2>1. /\ work[w].pc = "finish" /\ UNCHANGED <<lease, clock, keys>> /\ locks' \in Nat
        /\ work' = [work EXCEPT ![w] = [BootKeys!NoWork EXCEPT !.pc = "release"]]
    BY <1>1, LocksAreCounted DEF BootKeys!Finish, BootKeys!Set
  <2>2. work[w].pc \in Active /\ work[w].pc # "record"
    BY <2>1 DEF Active
  <2>3. /\ work[w] \in BootWork /\ plan \in BootPlan /\ CopyIsGood(work[w], plan, keys)
        /\ PlanIsGood(plan, keys) /\ keys.sent = plan.sent + keys.lost
        /\ plan.state \in BootKeys!WorkerStates /\ task = TRUE
        /\ \A v \in BootTasks : v # w => work[v].pc \notin Active
    BY <2>2, TheWorker
  <2>4. /\ work' \in [BootTasks -> BootWork] /\ work'[w].pc = "release"
        /\ \A v \in BootTasks : v # w => work'[v] = work[v]
    BY <2>1, BlankIsWork DEF BootInv, BootTypes
  <2>5. \A v \in BootTasks : work'[v].pc \notin Active
    BY <2>3, <2>4 DEF Active, Serving
  <2>6. \/ /\ plan' = [plan EXCEPT !.state = work[w].result] /\ task' = FALSE
        \/ UNCHANGED <<plan, task>>
    BY <1>1 DEF BootKeys!Finish
  <2>7. work[w].result \in Results
    BY <2>3 DEF BootWork
  <2>8. /\ plan' \in BootPlan /\ plan'.sent = plan.sent /\ plan'.cfg = plan.cfg
        /\ plan'.cancel = plan.cancel /\ task' \in BOOLEAN
        /\ plan'.state \in {work[w].result, plan.state}
        /\ plan'.state \in BootKeys!WorkerStates => task' = TRUE
    <3>1. CASE plan' = [plan EXCEPT !.state = work[w].result] /\ task' = FALSE
      <4>1. work[w].result \notin BootKeys!WorkerStates
        BY <2>7 DEF Results, BootKeys!WorkerStates
      <4>2. /\ plan' \in BootPlan /\ plan'.sent = plan.sent /\ plan'.cfg = plan.cfg
            /\ plan'.cancel = plan.cancel /\ plan'.state = work[w].result
        BY <2>3, <2>7, <3>1 DEF BootPlan, Results, BootKeys!OpenStates, BootKeys!FinalStates
      <4> QED  BY <3>1, <4>1, <4>2
    <3>2. CASE UNCHANGED <<plan, task>>
      BY <2>3, <3>2
    <3> QED  BY <2>6, <3>1, <3>2
  <2>9. BootTypes'
    BY <2>1, <2>4, <2>8 DEF BootInv, BootTypes
  <2>10. WorkerServesPlan'
    BY <2>5, <2>8 DEF WorkerServesPlan
  <2>11. PlanIsGood(plan', keys')
    <3>1. plan.state \notin {"awaiting_verification", "verified"}
      BY <2>3 DEF BootKeys!WorkerStates
    <3>2. work[w].result = "awaiting_verification" => plan.sent >= plan.cfg.max
      BY <2>1, <2>3 DEF CopyIsGood
    <3>3. work[w].result # "verified"
      BY <2>7 DEF Results
    <3> QED  BY <2>1, <2>3, <2>8, <3>1, <3>2, <3>3 DEF PlanIsGood
  <2>12. KeysAreCounted'
    BY <2>1, <2>3, <2>5, <2>8 DEF KeysAreCounted, Active, Serving
  <2>13. BootKeys!LeaseHasWorker'
    BY <2>1, <2>4 DEF BootInv, BootKeys!LeaseHasWorker
  <2> QED  BY <2>9, <2>10, <2>11, <2>12, <2>13 DEF BootInv
<1>2. CASE BootKeys!Release(w)
  <2>1. /\ work[w].pc = "release" /\ UNCHANGED <<plan, task, clock, locks, keys>>
        /\ work' = [work EXCEPT ![w] = BootKeys!NoWork]
        /\ lease' = IF lease = w THEN "free" ELSE lease
    BY <1>2 DEF BootKeys!Release, BootKeys!Set
  <2>2. /\ work' \in [BootTasks -> BootWork] /\ work'[w].pc = "none"
        /\ \A v \in BootTasks : v # w => work'[v] = work[v]
    BY <2>1, BlankIsWork DEF BootInv, BootTypes
  <2>3. "none" \notin Active /\ "release" \notin Active
    BY DEF Active, Serving
  <2>4. BootTypes'
    BY <2>1, <2>2 DEF BootInv, BootTypes
  <2>5. WorkerServesPlan'
    BY <2>1, <2>2, <2>3 DEF BootInv, WorkerServesPlan
  <2>6. PlanIsGood(plan', keys') /\ KeysAreCounted'
    BY <2>1, <2>2 DEF BootInv, KeysAreCounted
  <2>7. BootKeys!LeaseHasWorker'
    BY <2>1, <2>2 DEF BootInv, BootKeys!LeaseHasWorker, BootKeys!BootBounds
  <2> QED  BY <2>4, <2>5, <2>6, <2>7 DEF BootInv
<1> QED  BY <1>1, <1>2

-----------------------------------------------------------------------------
(* Requests, and the host. *)

\* A step that changes nothing of the plan keeps the invariant.
LEMMA BootStutters ==
  ASSUME BootInv, UNCHANGED <<plan, task, work, lease, clock, locks, keys>>
  PROVE  BootInv'
<1>1. BootTypes' /\ BootKeys!LeaseHasWorker' /\ KeysAreCounted'
  BY DEF BootInv, BootTypes, BootKeys!LeaseHasWorker, KeysAreCounted
<1>2. WorkerServesPlan' /\ PlanIsGood(plan', keys')
  BY DEF BootInv, WorkerServesPlan
<1> QED  BY <1>1, <1>2 DEF BootInv

\* While no worker is at its plan: a new plan, or a decision on it.
LEMMA IdleKeepsBoot ==
  ASSUME BootKeys!BootBounds, BootInv, plan.state \notin BootKeys!WorkerStates,
         plan' \in BootPlan, plan'.state \notin BootKeys!WorkerStates, task' \in BOOLEAN,
         keys' \in [sent: Nat, late: Nat, lost: Nat], PlanIsGood(plan', keys'),
         keys'.sent = plan'.sent + keys'.lost, UNCHANGED <<work, lease, clock, locks>>
  PROVE  BootInv'
<1>1. \A v \in BootTasks : work[v].pc \notin Active
  BY DEF BootInv, WorkerServesPlan
<1>2. BootTypes' /\ BootKeys!LeaseHasWorker'
  BY DEF BootInv, BootTypes, BootKeys!LeaseHasWorker
<1>3. WorkerServesPlan'
  BY <1>1 DEF WorkerServesPlan
<1>4. KeysAreCounted'
  BY <1>1 DEF KeysAreCounted, Active, Serving
<1> QED  BY <1>2, <1>3, <1>4 DEF BootInv

\* What there is to know of a plan nobody is at.
LEMMA IdlePlan ==
  ASSUME BootInv, plan.state \notin BootKeys!WorkerStates
  PROVE  /\ plan \in BootPlan /\ keys \in [sent: Nat, late: Nat, lost: Nat]
         /\ PlanIsGood(plan, keys) /\ keys.sent = plan.sent + keys.lost /\ task \in BOOLEAN
<1>1. \A v \in BootTasks : work[v].pc # "record"
  BY DEF BootInv, WorkerServesPlan, Active, Serving
<1> QED  BY <1>1 DEF BootInv, BootTypes, KeysAreCounted

\* A new plan takes the place of one that no worker is at.
LEMMA CreateKeepsBoot ==
  ASSUME BootKeys!BootBounds, BootInv, NEW c \in BootKeys!Configs, BootKeys!Create(c)
  PROVE  BootInv'
<1>1. /\ plan.state \notin BootKeys!WorkerStates /\ keys' = [sent |-> 0, late |-> 0, lost |-> 0]
      /\ plan' = [state |-> "planned", id |-> plan.id + 1, approved |-> FALSE,
                  cancel |-> FALSE, sent |-> 0, cfg |-> c]
      /\ UNCHANGED <<task, work, lease, clock, locks>>
  BY DEF BootKeys!Create, BootKeys!AcceptsNewPlan, BootKeys!FinalStates, BootKeys!WorkerStates,
         BootKeys!NoKeys
<1>2. plan.id \in Nat /\ task \in BOOLEAN
  BY <1>1, IdlePlan DEF BootPlan
<1>3. plan' \in BootPlan /\ plan'.state \notin BootKeys!WorkerStates
  BY <1>1, <1>2 DEF BootPlan, BootKeys!WorkerStates, BootKeys!OpenStates
<1>4. keys' \in [sent: Nat, late: Nat, lost: Nat] /\ keys'.sent = plan'.sent + keys'.lost
  BY <1>1
<1>5. PlanIsGood(plan', keys')
  BY <1>1, ConfigsAre DEF PlanIsGood
<1> QED  BY <1>1, <1>2, <1>3, <1>4, <1>5, IdleKeepsBoot

\* The plan is approved, confirmed, or called off before it has started.
LEMMA DecideKeepsBoot ==
  ASSUME BootKeys!BootBounds, BootInv, plan.state \notin BootKeys!WorkerStates,
         NEW q \in BootKeys!OpenStates \cup BootKeys!FinalStates,
         plan' \in BootPlan, plan'.state = q, plan'.sent = plan.sent,
         plan'.cfg = plan.cfg, plan.cancel = TRUE => plan'.cancel = TRUE,
         q = "awaiting_verification" => plan.state = "awaiting_verification",
         q = "verified" => plan.state = "awaiting_verification",
         task' \in BOOLEAN, UNCHANGED <<work, lease, clock, locks, keys>>
  PROVE  BootInv'
<1>1. /\ keys \in [sent: Nat, late: Nat, lost: Nat] /\ PlanIsGood(plan, keys)
      /\ keys.sent = plan.sent + keys.lost
  BY IdlePlan
<1>2. PlanIsGood(plan', keys')
  BY <1>1 DEF PlanIsGood
<1>3. plan'.state \notin BootKeys!WorkerStates
  BY DEF BootKeys!OpenStates, BootKeys!FinalStates, BootKeys!WorkerStates
<1> QED  BY <1>1, <1>2, <1>3, IdleKeepsBoot

\* The approval.
LEMMA ApproveKeepsBoot ==
  ASSUME BootKeys!BootBounds, BootInv, BootKeys!Approve
  PROVE  BootInv'
<1>1. /\ plan.state = "planned" /\ UNCHANGED <<task, work, lease, clock, locks, keys>>
      /\ plan' = [plan EXCEPT !.state = "approved", !.approved = TRUE]
  BY DEF BootKeys!Approve
<1>2. plan.state \notin BootKeys!WorkerStates
  BY <1>1 DEF BootKeys!WorkerStates
<1>3. plan \in BootPlan /\ task \in BOOLEAN
  BY <1>2, IdlePlan
<1>4. "approved" \in BootKeys!OpenStates
  BY DEF BootKeys!OpenStates
<1>5. /\ plan' \in BootPlan /\ plan'.state = "approved" /\ plan'.sent = plan.sent
      /\ plan'.cfg = plan.cfg /\ plan'.cancel = plan.cancel
  BY <1>1, <1>3, <1>4 DEF BootPlan
<1> QED  BY <1>1, <1>2, <1>3, <1>4, <1>5, DecideKeepsBoot

\* A worker is made for the plan, or the plan fails.
LEMMA StartKeepsBoot ==
  ASSUME BootKeys!BootBounds, BootInv, BootKeys!Start
  PROVE  BootInv'
<1>1. /\ plan.state = "approved" /\ plan.approved /\ UNCHANGED <<lease, clock, locks, keys>>
  BY DEF BootKeys!Start
<1>2. plan.state \notin BootKeys!WorkerStates
  BY <1>1 DEF BootKeys!WorkerStates
<1>3. /\ plan \in BootPlan /\ task \in BOOLEAN /\ keys \in [sent: Nat, late: Nat, lost: Nat]
      /\ PlanIsGood(plan, keys) /\ keys.sent = plan.sent + keys.lost
  BY <1>2, IdlePlan
<1>4. \A v \in BootTasks : work[v].pc \notin Active
  BY <1>2 DEF BootInv, WorkerServesPlan
<1>5. ASSUME NEW w \in BootTasks, work[w].pc = "none",
             work' = [work EXCEPT ![w] = [BootKeys!NoWork EXCEPT !.pc = "first"]],
             task' = TRUE, plan' = [plan EXCEPT !.state = "starting"]
      PROVE  BootInv'
  <2>1. /\ plan' \in BootPlan /\ plan'.state = "starting" /\ plan'.approved = TRUE
        /\ plan'.sent = plan.sent /\ plan'.cfg = plan.cfg /\ plan'.cancel = plan.cancel
    BY <1>1, <1>3, <1>5 DEF BootPlan, BootKeys!WorkerStates
  <2>2. /\ work' \in [BootTasks -> BootWork] /\ work'[w].pc = "first"
        /\ \A v \in BootTasks : v # w => work'[v] = work[v]
    BY <1>5, BlankIsWork DEF BootInv, BootTypes
  <2>3. BootTypes'
    BY <1>1, <1>5, <2>1, <2>2 DEF BootInv, BootTypes
  <2>4. "starting" \in BootKeys!WorkerStates /\ "first" \notin Serving
    BY DEF BootKeys!WorkerStates, Serving
  <2>5. CopyIsGood(work'[w], plan', keys')
    BY <2>2, <2>4 DEF CopyIsGood
  <2>6. WorkerServesPlan'
    BY <1>4, <1>5, <2>1, <2>2, <2>4, <2>5 DEF WorkerServesPlan
  <2>7. PlanIsGood(plan', keys')
    BY <1>1, <1>3, <2>1 DEF PlanIsGood
  <2>8. KeysAreCounted'
    <3>1. \A v \in BootTasks : work'[v].pc # "record"
      BY <1>4, <2>2 DEF Active, Serving
    <3> QED  BY <1>1, <1>3, <2>1, <3>1 DEF KeysAreCounted
  <2>9. BootKeys!LeaseHasWorker'
    BY <1>1, <2>2 DEF BootInv, BootKeys!LeaseHasWorker
  <2> QED  BY <2>3, <2>6, <2>7, <2>8, <2>9 DEF BootInv
<1>6. CASE plan' = [plan EXCEPT !.state = "failed"] /\ UNCHANGED <<task, work>>
  <2>1. "failed" \in BootKeys!FinalStates
    BY DEF BootKeys!FinalStates
  <2>2. /\ plan' \in BootPlan /\ plan'.state = "failed" /\ plan'.sent = plan.sent
        /\ plan'.cfg = plan.cfg /\ plan'.cancel = plan.cancel
    BY <1>3, <1>6, <2>1 DEF BootPlan
  <2> QED  BY <1>1, <1>2, <1>3, <1>6, <2>1, <2>2, DecideKeepsBoot
<1> QED  BY <1>5, <1>6 DEF BootKeys!Start

\* A worker is asked to stop.
LEMMA AskingKeepsBoot ==
  ASSUME BootKeys!BootBounds, BootInv, plan.state \in BootKeys!WorkerStates,
         plan' = [plan EXCEPT !.cancel = TRUE], task' = task,
         UNCHANGED <<work, lease, clock, locks, keys>>
  PROVE  BootInv'
<1>1. plan \in BootPlan
  BY DEF BootInv, BootTypes
<1>2. /\ plan' \in BootPlan /\ plan'.state = plan.state /\ plan'.sent = plan.sent
      /\ plan'.cfg = plan.cfg /\ plan'.cancel = TRUE /\ plan'.id = plan.id
      /\ plan'.approved = plan.approved
  BY <1>1 DEF BootPlan
<1>3. BootTypes' /\ BootKeys!LeaseHasWorker' /\ KeysAreCounted'
  BY <1>2 DEF BootInv, BootTypes, BootKeys!LeaseHasWorker, KeysAreCounted
<1>4. \A v \in BootTasks :
        CopyIsGood(work[v], plan, keys) => CopyIsGood(work[v], plan', keys)
  BY <1>2 DEF CopyIsGood
<1>5. WorkerServesPlan'
  BY <1>2, <1>4 DEF BootInv, WorkerServesPlan
<1>6. PlanIsGood(plan', keys')
  BY <1>2 DEF BootInv, PlanIsGood
<1> QED  BY <1>3, <1>5, <1>6 DEF BootInv

\* A cancel, by request or because a human took the keyboard.
LEMMA CancelKeepsBoot ==
  ASSUME BootKeys!BootBounds, BootInv, BootKeys!Cancel \/ BootKeys!CancelForManualHid
  PROVE  BootInv'
<1>0. UNCHANGED <<work, lease, clock, locks, keys>> /\ plan \in BootPlan /\ task \in BOOLEAN
  BY DEF BootKeys!Cancel, BootKeys!CancelForManualHid, BootInv, BootTypes
<1>1. CASE plan.state \in BootKeys!WorkerStates
  <2>1. plan' = [plan EXCEPT !.cancel = TRUE] /\ task' = task
    <3>1. CASE BootKeys!Cancel
      BY <1>1, <3>1 DEF BootKeys!Cancel
    <3>2. CASE BootKeys!CancelForManualHid
      <4>1. task' = task
        BY <1>0, <1>1, <3>2 DEF BootKeys!CancelForManualHid
      <4>2. plan' = [plan EXCEPT !.cancel = TRUE, !.state = plan.state]
        BY <1>1, <3>2 DEF BootKeys!CancelForManualHid
      <4>3. [plan EXCEPT !.cancel = TRUE, !.state = plan.state] = [plan EXCEPT !.cancel = TRUE]
        BY <1>0 DEF BootPlan
      <4> QED  BY <4>1, <4>2, <4>3
    <3> QED  BY <3>1, <3>2
  <2> QED  BY <1>0, <1>1, <2>1, AskingKeepsBoot
<1>2. CASE plan.state \notin BootKeys!WorkerStates
  <2>1. "cancelled" \in BootKeys!FinalStates
    BY DEF BootKeys!FinalStates
  <2>2. /\ plan' \in BootPlan /\ plan'.state = "cancelled" /\ plan'.sent = plan.sent
        /\ plan'.cfg = plan.cfg /\ (plan.cancel = TRUE => plan'.cancel = TRUE)
    <3>1. CASE BootKeys!Cancel
      <4>1. plan' = [plan EXCEPT !.state = "cancelled", !.approved = FALSE]
        BY <1>2, <3>1 DEF BootKeys!Cancel
      <4> QED  BY <1>0, <2>1, <4>1 DEF BootPlan
    <3>2. CASE BootKeys!CancelForManualHid
      <4>1. plan' = [plan EXCEPT !.cancel = TRUE, !.state = "cancelled"]
        BY <1>2, <3>2 DEF BootKeys!CancelForManualHid
      <4> QED  BY <1>0, <2>1, <4>1 DEF BootPlan
    <3> QED  BY <3>1, <3>2
  <2>3. task' \in BOOLEAN
    BY <1>2 DEF BootKeys!Cancel, BootKeys!CancelForManualHid
  <2> QED  BY <1>0, <1>2, <2>1, <2>2, <2>3, DecideKeepsBoot
<1> QED  BY <1>1, <1>2

\* A confirmation, which counts only for the plan that waits for it.
LEMMA ConfirmKeepsBoot ==
  ASSUME BootKeys!BootBounds, BootInv, NEW id, BootKeys!Confirm(id)
  PROVE  BootInv'
<1>1. UNCHANGED <<task, work, lease, clock, locks, keys>>
  BY DEF BootKeys!Confirm
<1>2. CASE plan.id = id /\ plan.state = "awaiting_verification"
  <2>1. plan.state \notin BootKeys!WorkerStates /\ "verified" \in BootKeys!FinalStates
    BY <1>2 DEF BootKeys!WorkerStates, BootKeys!FinalStates
  <2>2. plan \in BootPlan /\ task \in BOOLEAN
    BY <2>1, IdlePlan
  <2>3. /\ plan' \in BootPlan /\ plan'.state = "verified" /\ plan'.sent = plan.sent
        /\ plan'.cfg = plan.cfg /\ plan'.cancel = plan.cancel
    BY <1>2, <2>1, <2>2 DEF BootKeys!Confirm, BootPlan
  <2> QED  BY <1>1, <1>2, <2>1, <2>2, <2>3, DecideKeepsBoot
<1>3. CASE ~(plan.id = id /\ plan.state = "awaiting_verification")
  <2>1. plan' = plan
    BY <1>3 DEF BootKeys!Confirm
  <2> QED  BY <1>1, <2>1, BootStutters
<1> QED  BY <1>2, <1>3

\* The lease, the USB port, the clock and the browser's question.
LEMMA HostKeepsBoot ==
  ASSUME BootKeys!BootBounds, BootInv, BootKeys!HostNext \/ BootKeys!ConfirmRequest
  PROVE  BootInv'
<1>1. UNCHANGED <<plan, task, work, locks, keys>>
  BY DEF BootKeys!HostNext, BootKeys!HumanTakes, BootKeys!HumanLeaves, BootKeys!Mount,
         BootKeys!Tick, BootKeys!ConfirmRequest
<1>2. lease' \in {lease, "human", "free"}
  BY DEF BootKeys!HostNext, BootKeys!HumanTakes, BootKeys!HumanLeaves, BootKeys!Mount,
         BootKeys!Tick, BootKeys!ConfirmRequest
<1>3. clock' \in 0..MaxTimeout
  <2>1. clock \in 0..MaxTimeout
    BY DEF BootInv, BootTypes
  <2>2. CASE BootKeys!Tick
    BY <2>1, <2>2 DEF BootKeys!Tick, BootKeys!BootBounds
  <2>3. CASE UNCHANGED clock
    BY <2>1, <2>3
  <2> QED  BY <2>2, <2>3 DEF BootKeys!HostNext, BootKeys!HumanTakes, BootKeys!HumanLeaves,
                             BootKeys!Mount, BootKeys!ConfirmRequest
<1>4. BootTypes' /\ KeysAreCounted'
  BY <1>1, <1>2, <1>3 DEF BootInv, BootTypes, KeysAreCounted
<1>5. BootKeys!LeaseHasWorker'
  BY <1>1, <1>2 DEF BootInv, BootKeys!LeaseHasWorker, BootKeys!BootBounds
<1>6. WorkerServesPlan' /\ PlanIsGood(plan', keys')
  BY <1>1 DEF BootInv, WorkerServesPlan
<1> QED  BY <1>4, <1>5, <1>6 DEF BootInv

\* Every step of the boot keys keeps their invariant.
LEMMA BootStep ==
  ASSUME BootKeys!BootBounds, BootInv, BootKeys!BootNext
  PROVE  BootInv'
<1>1. CASE BootKeys!Request
  BY <1>1, CreateKeepsBoot, ApproveKeepsBoot, StartKeepsBoot, CancelKeepsBoot,
     HostKeepsBoot, ConfirmKeepsBoot DEF BootKeys!Request
<1>2. ASSUME NEW w \in BootTasks, BootKeys!Worker(w) PROVE BootInv'
  BY <1>2, FirstKeepsBoot, TakeLeaseKeepsBoot, BeginKeepsBoot, LoopKeepsBoot, SendKeepsBoot,
     RecordKeepsBoot, FinishKeepsBoot DEF BootKeys!Worker
<1> QED  BY <1>1, <1>2, HostKeepsBoot DEF BootKeys!BootNext

\* What the invariant says of the plan, its keys and the lease.
LEMMA BootMeaning ==
  ASSUME BootKeys!BootBounds, BootInv
  PROVE  /\ BootKeys!BootTypeOK /\ BootKeys!CancelStopsKeys /\ BootKeys!KeysAreBounded
         /\ BootKeys!VerifiedSentAll /\ BootKeys!LeaseHasWorker
<1>1. /\ plan \in BootPlan /\ keys \in [sent: Nat, late: Nat, lost: Nat]
      /\ PlanIsGood(plan, keys)
  BY DEF BootInv, BootTypes
<1>2. plan.cfg \in BootKeys!Configs /\ plan.sent \in Nat
  BY <1>1 DEF BootPlan
<1>3. plan.cfg.max \in Nat /\ plan.cfg.max <= MaxKeys
  BY <1>2, ConfigsAre
<1>4. BootKeys!BootTypeOK
  <2>1. plan.sent \in 0..MaxKeys
    BY <1>1, <1>2, <1>3 DEF PlanIsGood, BootKeys!BootBounds
  <2>2. plan.state = "starting" => task
    BY DEF BootInv, WorkerServesPlan, BootKeys!WorkerStates
  <2> QED  BY <1>1, <2>1, <2>2 DEF BootKeys!BootTypeOK, BootPlan, BootInv, BootTypes
<1>5. /\ keys.sent >= plan.sent
      /\ keys.sent <= plan.cfg.max + keys.lost
  <2>1. CASE \E v \in BootTasks : work[v].pc = "record"
    <3>1. PICK v \in BootTasks : work[v].pc = "record"
      BY <2>1
    <3>2. CopyIsGood(work[v], plan, keys)
      BY <3>1 DEF BootInv, WorkerServesPlan, Active, Serving
    <3>3. plan.sent < plan.cfg.max
      BY <3>1, <3>2 DEF CopyIsGood
    <3>4. keys.sent = plan.sent + keys.lost + 1
      BY <2>1 DEF BootInv, KeysAreCounted
    <3> QED  BY <1>1, <1>2, <1>3, <3>3, <3>4
  <2>2. CASE \A v \in BootTasks : work[v].pc # "record"
    <3>1. keys.sent = plan.sent + keys.lost
      BY <2>2 DEF BootInv, KeysAreCounted
    <3> QED  BY <1>1, <1>2, <1>3, <3>1 DEF PlanIsGood
  <2> QED  BY <2>1, <2>2
<1>6. BootKeys!CancelStopsKeys
  BY <1>1 DEF PlanIsGood, BootKeys!CancelStopsKeys
<1>7. BootKeys!KeysAreBounded
  BY <1>5 DEF BootKeys!KeysAreBounded
<1>8. BootKeys!VerifiedSentAll
  BY <1>1, <1>2, <1>3, <1>5 DEF PlanIsGood, BootKeys!VerifiedSentAll
<1> QED  BY <1>4, <1>6, <1>7, <1>8 DEF BootInv

\* The instance counts as everybody does.
LEMMA BootCounts == ASSUME NEW S PROVE BootKeys!Cardinality(S) = Cardinality(S)
BY DEF BootKeys!Cardinality, Cardinality

\* A key goes out only under an approval in force, and by one worker.
LEMMA KeysAreApproved ==
  ASSUME BootKeys!BootBounds, BootInv, BootKeys!BootNext
  PROVE  BootKeys!KeysNeedApproval
<1> SUFFICES ASSUME keys'.sent > keys.sent
             PROVE  /\ plan.approved /\ plan.state \in BootKeys!WorkerStates
                    /\ Cardinality({w \in BootTasks : work[w].pc = "send"}) = 1
  BY BootCounts DEF BootKeys!KeysNeedApproval
<1>1. keys \in [sent: Nat, late: Nat, lost: Nat]
  BY DEF BootInv, BootTypes
<1>2. keys' # keys
  BY <1>1
<1>3. ~BootKeys!Request /\ ~BootKeys!HostNext
  <2>1. ~BootKeys!HostNext
    BY <1>2 DEF BootKeys!HostNext, BootKeys!HumanTakes, BootKeys!HumanLeaves, BootKeys!Mount,
                BootKeys!Tick
  <2>2. ASSUME NEW c \in BootKeys!Configs, BootKeys!Create(c) PROVE FALSE
    BY <1>1, <2>2 DEF BootKeys!Create, BootKeys!NoKeys
  <2> QED  BY <1>2, <2>1, <2>2 DEF BootKeys!Request, BootKeys!Approve, BootKeys!Start,
             BootKeys!Cancel, BootKeys!CancelForManualHid, BootKeys!ConfirmRequest,
             BootKeys!Confirm
<1>4. PICK w \in BootTasks : BootKeys!Worker(w)
  BY <1>3 DEF BootKeys!BootNext
<1>5. BootKeys!Send(w)
  <2>1. ~BootKeys!Record(w)
    <3> SUFFICES ASSUME BootKeys!Record(w) PROVE FALSE  OBVIOUS
    <3>1. keys' = [keys EXCEPT !.lost = IF locks' > locks THEN keys.lost + 1 ELSE keys.lost]
      BY DEF BootKeys!Record
    <3>2. keys'.sent = keys.sent
      BY <1>1, <3>1
    <3> QED  BY <1>1, <3>2
  <2> QED  BY <1>2, <1>4, <2>1 DEF BootKeys!Worker, BootKeys!First, BootKeys!TakeLease,
             BootKeys!Reset, BootKeys!Begin, BootKeys!Snap, BootKeys!Loop, BootKeys!Finish,
             BootKeys!Release
<1>6. work[w].pc = "send"
  BY <1>5 DEF BootKeys!Send
<1>7. work[w].pc \in Active
  BY <1>6 DEF Active, Serving
<1>8. {v \in BootTasks : work[v].pc = "send"} = {w}
  <2>1. \A v \in BootTasks : v # w => work[v].pc \notin Active
    BY <1>7, TheWorker
  <2> QED  BY <1>6, <2>1 DEF Active, Serving
<1>9. Cardinality({v \in BootTasks : work[v].pc = "send"}) = 1
  BY <1>8, FS_Singleton
<1> QED  BY <1>7, <1>9, TheWorker

-----------------------------------------------------------------------------
(* The display plans *)

\* The states of a plan whose change has been begun.
BegunStates == {"applying", "applied", "verifying", "verified", "rolling back",
                "rolled back", "failed"}
PlanStates == {"empty", "planned", "approved", "cancelled"} \cup BegunStates

\* The types of the variables.
DisplayTypes ==
  /\ seq \in 0..DisplayPlans /\ tried \subseteq 1..DisplayPlans
  /\ status \in [state: PlanStates, plan: {seq}, request: Modes \cup {None}]
  /\ approved \in [1..DisplayPlans -> Modes \cup {None}]
  /\ tool \in [pc: {"idle", "built", "running"}, op: Display!Operations \cup {None},
               plan: 0..seq, request: Modes \cup {None}]

\* A plan that is there has a mode; one that was approved, and not cancelled,
\* has it on record, and one that was begun is on record too.
PlanIsOnRecord ==
  /\ seq > 0 => status.request \in Modes
  /\ status.state \in BegunStates \cup {"approved"} =>
       seq > 0 /\ approved[seq] = status.request
  /\ status.state \in BegunStates => seq \in tried

\* What the tool read of a plan that is still there is what that plan says.
ReadingHolds ==
  /\ tool.pc # "idle" => tool.op \in Display!Operations
  /\ tool.pc # "idle" /\ tool.plan = seq => tool.request = status.request
  /\ tool.pc = "running" =>
       tool.plan = seq /\ seq > 0 /\ status.state = Display!Running[tool.op]

DisplayInv == DisplayTypes /\ PlanIsOnRecord /\ ReadingHolds

\* There is no plan at first.
LEMMA DisplayInitially ==
  ASSUME Display!DisplayBounds, Display!Init
  PROVE  DisplayInv
<1> USE DEF Display!DisplayBounds, Display!Init
<1>1. DisplayTypes
  BY DEF DisplayTypes, PlanStates, BegunStates, Display!Idle
<1>2. PlanIsOnRecord /\ ReadingHolds
  BY DEF PlanIsOnRecord, ReadingHolds, BegunStates, Display!Idle
<1> QED  BY <1>1, <1>2 DEF DisplayInv

\* The states in which an operation runs and to which it leads are begun ones.
LEMMA RunningStates ==
  ASSUME NEW op \in Display!Operations
  PROVE  /\ Display!Running[op] \in BegunStates \ Display!Replaceable
         /\ Display!Running[op] \notin {"planned", "approved", "cancelled"}
         /\ Display!Success[op] \in BegunStates
         /\ Display!From[op] \subseteq BegunStates \cup {"approved"}
         /\ op # "apply" => Display!From[op] \subseteq BegunStates
<1> USE DEF BegunStates, Display!Replaceable
<1>1. CASE op = "apply"
  <2>1. /\ Display!Running["apply"] = "applying" /\ Display!Success["apply"] = "applied"
        /\ Display!From["apply"] = {"approved"}
    BY DEF Display!Running, Display!Success, Display!From
  <2> QED  BY <1>1, <2>1
<1>2. CASE op = "verify"
  <2>1. /\ Display!Running["verify"] = "verifying" /\ Display!Success["verify"] = "verified"
        /\ Display!From["verify"] = {"applied", "failed"}
    BY DEF Display!Running, Display!Success, Display!From
  <2> QED  BY <1>2, <2>1
<1>3. CASE op = "rollback"
  <2>1. /\ Display!Running["rollback"] = "rolling back"
        /\ Display!Success["rollback"] = "rolled back"
        /\ Display!From["rollback"] = {"applied", "verified", "failed"}
    BY DEF Display!Running, Display!Success, Display!From
  <2> QED  BY <1>3, <2>1
<1> QED  BY <1>1, <1>2, <1>3 DEF Display!Operations

\* A new plan: the tool's reading is of an older one.
LEMMA CreateKeepsPlans ==
  ASSUME Display!DisplayBounds, DisplayInv, NEW r \in Modes, Display!Create(r)
  PROVE  DisplayInv'
<1>1. /\ seq \in Nat /\ seq < DisplayPlans /\ seq' = seq + 1
      /\ status.state \in Display!Replaceable
      /\ status' = [state |-> "planned", plan |-> seq + 1, request |-> r]
      /\ UNCHANGED <<tool, calls, approved, tried>>
  BY DEF Display!Create, DisplayInv, DisplayTypes, Display!DisplayBounds
<1>2. seq' \in 0..DisplayPlans /\ 0..seq \subseteq 0..seq'
  BY <1>1 DEF Display!DisplayBounds
<1>3. DisplayTypes'
  <2>1. status' \in [state: PlanStates, plan: {seq'}, request: Modes \cup {None}]
    BY <1>1 DEF PlanStates
  <2>2. tool' \in [pc: {"idle", "built", "running"}, op: Display!Operations \cup {None},
                   plan: 0..seq', request: Modes \cup {None}]
    BY <1>1, <1>2 DEF DisplayInv, DisplayTypes
  <2> QED  BY <1>1, <1>2, <2>1, <2>2 DEF DisplayInv, DisplayTypes
<1>4. PlanIsOnRecord'
  BY <1>1 DEF PlanIsOnRecord, BegunStates
<1>5. tool.pc # "running"
  <2> SUFFICES ASSUME tool.pc = "running" PROVE FALSE  OBVIOUS
  <2>1. tool.op \in Display!Operations /\ status.state = Display!Running[tool.op]
    BY DEF DisplayInv, ReadingHolds
  <2> QED  BY <2>1, <1>1, RunningStates
<1>6. tool.plan # seq'
  BY <1>1 DEF DisplayInv, DisplayTypes
<1>7. ReadingHolds'
  BY <1>1, <1>5, <1>6 DEF DisplayInv, ReadingHolds
<1> QED  BY <1>3, <1>4, <1>7 DEF DisplayInv

\* The operator approves or cancels the plan.
LEMMA DecisionKeepsPlans ==
  ASSUME Display!DisplayBounds, DisplayInv, NEW p \in 1..seq,
         Display!Approve(p) \/ Display!Cancel(p)
  PROVE  DisplayInv'
<1>1. /\ status.plan = seq /\ seq \in 1..DisplayPlans
      /\ status.state \in {"planned", "approved"} /\ UNCHANGED <<seq, tool, calls, tried>>
  BY DEF Display!Approve, Display!Cancel, Display!Matches, DisplayInv, DisplayTypes,
         Display!DisplayBounds
<1>2. /\ status' \in [state: PlanStates, plan: {seq}, request: Modes \cup {None}]
      /\ status'.request = status.request
      /\ status'.state \in {"approved", "cancelled"}
  BY DEF Display!Approve, Display!Cancel, DisplayInv, DisplayTypes, PlanStates
<1>3. /\ approved' \in [1..DisplayPlans -> Modes \cup {None}]
      /\ status'.state = "approved" => approved'[seq] = status.request
  <2>1. status.request \in Modes \cup {None}
    BY DEF DisplayInv, DisplayTypes
  <2>2. CASE Display!Approve(p)
    BY <1>1, <2>1, <2>2 DEF Display!Approve, DisplayInv, DisplayTypes
  <2>3. CASE Display!Cancel(p)
    BY <1>1, <2>3 DEF Display!Cancel, DisplayInv, DisplayTypes
  <2> QED  BY <2>2, <2>3
<1>4. DisplayTypes'
  BY <1>1, <1>2, <1>3 DEF DisplayInv, DisplayTypes
<1>5. PlanIsOnRecord'
  <2>1. seq > 0
    BY <1>1 DEF Display!DisplayBounds
  <2>2. status'.state \notin BegunStates
    BY <1>2 DEF BegunStates
  <2> QED  BY <1>1, <1>2, <1>3, <2>1, <2>2 DEF DisplayInv, PlanIsOnRecord
<1>6. tool.pc # "running"
  <2> SUFFICES ASSUME tool.pc = "running" PROVE FALSE  OBVIOUS
  <2>1. tool.op \in Display!Operations /\ status.state = Display!Running[tool.op]
    BY DEF DisplayInv, ReadingHolds
  <2> QED  BY <2>1, <1>1, RunningStates
<1>7. ReadingHolds'
  BY <1>1, <1>2, <1>6 DEF DisplayInv, ReadingHolds
<1> QED  BY <1>4, <1>5, <1>7 DEF DisplayInv

\* The tool reads the plan.
LEMMA ReadKeepsPlans ==
  ASSUME Display!DisplayBounds, DisplayInv, NEW op \in Display!Operations,
         NEW p \in 0..seq, Display!Read(op, p)
  PROVE  DisplayInv'
<1>1. /\ UNCHANGED <<status, seq, approved, tried>>
      /\ tool' = [pc |-> "built", op |-> op, request |-> status.request,
                  plan |-> IF p = 0 THEN status.plan ELSE p]
      /\ status.plan = seq /\ status.request \in Modes \cup {None} /\ seq \in Nat
  BY DEF Display!Read, DisplayInv, DisplayTypes
<1>2. tool' \in [pc: {"idle", "built", "running"}, op: Display!Operations \cup {None},
                 plan: 0..seq, request: Modes \cup {None}]
  BY <1>1
<1>3. DisplayTypes' /\ PlanIsOnRecord'
  BY <1>1, <1>2 DEF DisplayInv, DisplayTypes, PlanIsOnRecord
<1>4. ReadingHolds'
  BY <1>1 DEF ReadingHolds
<1> QED  BY <1>3, <1>4 DEF DisplayInv

\* The manager takes the operation up, or refuses it.
LEMMA BeginKeepsPlans ==
  ASSUME Display!DisplayBounds, DisplayInv, Display!Begin
  PROVE  DisplayInv'
<1>0. tool.pc = "built" /\ UNCHANGED <<seq, calls, approved>>
  BY DEF Display!Begin
<1>1. CASE Display!Begun(tool.plan, tool.op)
  <2>1. /\ status' = [status EXCEPT !.state = Display!Running[tool.op]]
        /\ tool' = [tool EXCEPT !.pc = "running"]
        /\ tried' = IF tool.op = "apply" THEN tried \cup {tool.plan} ELSE tried
    BY <1>1 DEF Display!Begin
  <2>2. /\ tool.plan = seq /\ seq \in 1..DisplayPlans /\ tool.op \in Display!Operations
        /\ status.state \in Display!From[tool.op]
    BY <1>0, <1>1 DEF Display!Begun, Display!Matches, DisplayInv, DisplayTypes, ReadingHolds,
                      Display!DisplayBounds
  <2>3. /\ Display!Running[tool.op] \in BegunStates
        /\ status.state \in BegunStates \cup {"approved"}
        /\ tool.op # "apply" => status.state \in BegunStates
    BY <2>2, RunningStates
  <2>4. /\ status' \in [state: PlanStates, plan: {seq}, request: Modes \cup {None}]
        /\ status'.state = Display!Running[tool.op] /\ status'.request = status.request
    BY <2>1, <2>3 DEF DisplayInv, DisplayTypes, PlanStates
  <2>5. /\ tool' \in [pc: {"idle", "built", "running"}, op: Display!Operations \cup {None},
                      plan: 0..seq, request: Modes \cup {None}]
        /\ tool'.op = tool.op /\ tool'.plan = tool.plan /\ tool'.request = tool.request
    BY <2>1 DEF DisplayInv, DisplayTypes
  <2>6. tried' \subseteq 1..DisplayPlans /\ seq \in tried'
    BY <2>1, <2>2, <2>3 DEF DisplayInv, DisplayTypes, PlanIsOnRecord
  <2>7. DisplayTypes'
    BY <1>0, <2>4, <2>5, <2>6 DEF DisplayInv, DisplayTypes
  <2>8. PlanIsOnRecord'
    BY <1>0, <2>2, <2>3, <2>4, <2>6 DEF DisplayInv, PlanIsOnRecord
  <2>9. ReadingHolds'
    BY <1>0, <2>2, <2>4, <2>5 DEF DisplayInv, ReadingHolds
  <2> QED  BY <2>7, <2>8, <2>9 DEF DisplayInv
<1>2. CASE ~Display!Begun(tool.plan, tool.op)
  <2>1. tool' = Display!Idle /\ UNCHANGED <<status, tried>>
    BY <1>2 DEF Display!Begin
  <2>2. tool' \in [pc: {"idle", "built", "running"}, op: Display!Operations \cup {None},
                   plan: 0..seq, request: Modes \cup {None}]
    BY <2>1 DEF Display!Idle, DisplayInv, DisplayTypes, Display!DisplayBounds
  <2>3. DisplayTypes' /\ PlanIsOnRecord'
    BY <1>0, <2>1, <2>2 DEF DisplayInv, DisplayTypes, PlanIsOnRecord
  <2>4. ReadingHolds'
    BY <2>1 DEF ReadingHolds, Display!Idle
  <2> QED  BY <2>3, <2>4 DEF DisplayInv
<1> QED  BY <1>1, <1>2

\* The command has run: its report is taken.
LEMMA FinishKeepsPlans ==
  ASSUME Display!DisplayBounds, DisplayInv, NEW ok \in BOOLEAN, Display!Finish(ok)
  PROVE  DisplayInv'
<1>1. /\ tool.pc = "running" /\ tool' = Display!Idle /\ UNCHANGED <<seq, calls, approved, tried>>
      /\ status' = Display!Finished(tool.plan, tool.op, ok)
  BY DEF Display!Finish
<1>2. /\ tool.plan = seq /\ seq > 0 /\ status.plan = seq /\ tool.op \in Display!Operations
      /\ status.state = Display!Running[tool.op]
  BY <1>1 DEF DisplayInv, ReadingHolds, DisplayTypes
<1>3. /\ status.state \in BegunStates
      /\ (IF ok THEN Display!Success[tool.op] ELSE "failed") \in BegunStates
  BY <1>2, RunningStates DEF BegunStates
<1>4. status' = [status EXCEPT !.state = IF ok THEN Display!Success[tool.op] ELSE "failed"]
  BY <1>1, <1>2 DEF Display!Finished, Display!Matches, DisplayInv, DisplayTypes
<1>5. /\ status' \in [state: PlanStates, plan: {seq}, request: Modes \cup {None}]
      /\ status'.state \in BegunStates /\ status'.request = status.request
  BY <1>3, <1>4 DEF DisplayInv, DisplayTypes, PlanStates
<1>6. tool' \in [pc: {"idle", "built", "running"}, op: Display!Operations \cup {None},
                 plan: 0..seq, request: Modes \cup {None}]
  BY <1>1 DEF Display!Idle, DisplayInv, DisplayTypes, Display!DisplayBounds
<1>7. DisplayTypes'
  BY <1>1, <1>5, <1>6 DEF DisplayInv, DisplayTypes
<1>8. PlanIsOnRecord'
  BY <1>1, <1>3, <1>5 DEF DisplayInv, PlanIsOnRecord
<1>9. ReadingHolds'
  BY <1>1 DEF ReadingHolds, Display!Idle
<1> QED  BY <1>7, <1>8, <1>9 DEF DisplayInv

\* The report does not get the lock: the plan stays in its state.
LEMMA UnheardKeepsPlans ==
  ASSUME Display!DisplayBounds, DisplayInv, Display!FinishTimesOut
  PROVE  DisplayInv'
<1>1. tool' = Display!Idle /\ UNCHANGED <<status, seq, calls, approved, tried>>
  BY DEF Display!FinishTimesOut
<1>2. tool' \in [pc: {"idle", "built", "running"}, op: Display!Operations \cup {None},
                 plan: 0..seq, request: Modes \cup {None}]
  BY <1>1 DEF Display!Idle, DisplayInv, DisplayTypes, Display!DisplayBounds
<1>3. DisplayTypes'
  BY <1>1, <1>2 DEF DisplayInv, DisplayTypes
<1>4. PlanIsOnRecord'
  BY <1>1 DEF DisplayInv, PlanIsOnRecord
<1>5. ReadingHolds'
  BY <1>1 DEF ReadingHolds, Display!Idle
<1> QED  BY <1>3, <1>4, <1>5 DEF DisplayInv

\* Every step of the display plans keeps their invariant.
LEMMA DisplayStep ==
  ASSUME Display!DisplayBounds, DisplayInv, Display!Next
  PROVE  DisplayInv'
BY CreateKeepsPlans, DecisionKeepsPlans, ReadKeepsPlans, BeginKeepsPlans, FinishKeepsPlans,
   UnheardKeepsPlans DEF Display!Next

\* The command is for the mode that was approved, undoes what was begun, and
\* its report is taken.
LEMMA DisplayMeaning ==
  ASSUME Display!DisplayBounds, DisplayInv
  PROVE  /\ Display!ExecutesTheApproved /\ Display!RollbackHasSomethingToUndo
         /\ Display!ReportIsTaken
<1> SUFFICES ASSUME tool.pc = "running"
             PROVE  /\ approved[tool.plan] # None
                    /\ tool.op # "rollback" => approved[tool.plan] = tool.request
                    /\ tool.op # "apply" => tool.plan \in tried
                    /\ Display!Matches(tool.plan) /\ status.state = Display!Running[tool.op]
  BY DEF Display!ExecutesTheApproved, Display!RollbackHasSomethingToUndo,
         Display!ReportIsTaken
<1>1. /\ tool.plan = seq /\ seq > 0 /\ status.plan = seq /\ tool.op \in Display!Operations
      /\ status.state = Display!Running[tool.op] /\ tool.request = status.request
  BY DEF DisplayInv, ReadingHolds, DisplayTypes
<1>2. status.state \in BegunStates
  BY <1>1, RunningStates
<1>3. approved[seq] = status.request /\ status.request \in Modes /\ seq \in tried
  BY <1>1, <1>2 DEF DisplayInv, PlanIsOnRecord
<1>4. Display!Matches(tool.plan)
  BY <1>1 DEF Display!Matches, DisplayInv, DisplayTypes
<1> QED  BY <1>1, <1>3, <1>4 DEF Display!DisplayBounds

-----------------------------------------------------------------------------
(* SSH: the semaphore, the host key and the shell's input *)

SshThings == {"socket", "session", "channel"}
SshOwners == {"idle", "taking", "open", "stopping", "waiting", "gone"}
Working == {"read", "write", "end"}
Requested == [refs: {0, 1, 2}, res: {"none", "ok", "changed", "error"},
              broker: {"none", "read", "write", "end", "done"}]

\* The phases in which the peer gets passwords or commands.
Trusted == {"auth", "channel", "exec", "stdin", "pty", "shell", "io", "close"}

\* Job j keeps the semaphore: a command until its caller has seen it end, a
\* shell until its worker gives it.
Keeps(j) ==
  IF j \in Shells THEN pc[j] \notin {"none", "suspended"} ELSE owner[j] = "open"

SessionTypes ==
  /\ sem = 1 /\ lock \in [1 .. 1 -> BOOLEAN]
  /\ DOMAIN pc = Ssh!Jobs /\ owner \in [Ssh!Jobs -> SshOwners]
  /\ held \in [Ssh!Jobs -> SUBSET SshThings] /\ secret \in [Ssh!Jobs -> BOOLEAN]
  /\ \A j \in Ssh!Jobs : pc[j] \in Ssh!PhaseSet(j) \cup {"none", "ended", "suspended"}

\* Where the caller and the worker of a job are together, and what they have.
CallerAndWorker(j) ==
  /\ owner[j] \in {"idle", "taking"} => pc[j] = "none"
  /\ owner[j] = "gone" => pc[j] \in {"none", "suspended"}
  /\ owner[j] \in {"open", "stopping", "waiting"} => pc[j] # "none"
  /\ owner[j] \in {"stopping", "waiting"} => j \in Shells
  /\ held[j] # {} => pc[j] \in Ssh!PhaseSet(j)
  /\ owner[j] \in {"idle", "taking", "gone"} => secret[j] = FALSE

SessionInv ==
  /\ SessionTypes /\ \A j \in Ssh!Jobs : CallerAndWorker(j)
  /\ \A i \in Ssh!Jobs, j \in Ssh!Jobs : Keeps(i) /\ Keeps(j) => i = j
  /\ lock[1] = TRUE => \A j \in Ssh!Jobs : ~Keeps(j)

\* The request of job j, its broker and the key it is about.
RequestIs(j) ==
  /\ pc[j] \in {"hostkey"} \cup Trusted => key[j] \in HostKeys
  /\ pc[j] \in Trusted => known = key[j]
  /\ pc[j] \in {"none", "connect", "handshake"} => req[j] = Ssh!NoRequest
  /\ req[j] # Ssh!NoRequest =>
       /\ key[j] \in HostKeys /\ req[j].broker \in Working \cup {"done"}
       /\ req[j].broker \in Working =>
            /\ active = TRUE /\ req[j].refs = IF pc[j] = "hostkey" THEN 2 ELSE 1
       /\ req[j].broker = "done" => pc[j] = "hostkey" /\ req[j].refs = 1
       /\ req[j].broker = "write" => known = None
       /\ req[j].res = "ok" => known = key[j]

HostKeyInv ==
  /\ req \in [Ssh!Jobs -> Requested] /\ active \in BOOLEAN
  /\ DOMAIN key = Ssh!Jobs /\ known \in HostKeys \cup {None}
  /\ \A j \in Ssh!Jobs : RequestIs(j)
  /\ \A i \in Ssh!Jobs, j \in Ssh!Jobs :
       req[i].broker \in Working /\ req[j].broker \in Working => i = j

\* A wake-up is in the buffer of a shell that is to stop, and nowhere else.
InputInv ==
  /\ input \in [Ssh!Jobs -> Seq({"text", "wake"})] /\ cancel \in [Ssh!Jobs -> BOOLEAN]
  /\ "wake" \notin typed
  /\ \A j \in Ssh!Jobs : /\ j \notin Shells => input[j] = <<>>
                         /\ ~cancel[j] => \A n \in 1 .. Len(input[j]) : input[j][n] # "wake"

SshInv == SessionInv /\ HostKeyInv /\ InputInv

-----------------------------------------------------------------------------
\* The phases of a command and of a shell.
LEMMA PhasesAre ==
  ASSUME NEW j \in Ssh!Jobs
  PROVE  Ssh!PhaseSet(j) =
           IF j \in Commands
           THEN {"connect", "handshake", "hostkey", "auth", "channel", "exec", "stdin",
                 "io", "close", "teardown"}
           ELSE {"connect", "handshake", "hostkey", "auth", "channel", "pty", "shell",
                 "io", "teardown"}
<1>1. CASE j \in Commands
  <2>1. Ssh!PhaseSet(j) = {Ssh!ExecPhases[i] : i \in DOMAIN Ssh!ExecPhases}
    BY <1>1 DEF Ssh!PhaseSet, Ssh!PhasesOf
  <2>2. DOMAIN Ssh!ExecPhases = 1 .. 10
    BY DEF Ssh!ExecPhases
  <2>3. 1 .. 10 = {1, 2, 3, 4, 5, 6, 7, 8, 9, 10}
    OBVIOUS
  <2>4. /\ Ssh!ExecPhases[1] = "connect" /\ Ssh!ExecPhases[2] = "handshake"
        /\ Ssh!ExecPhases[3] = "hostkey" /\ Ssh!ExecPhases[4] = "auth"
        /\ Ssh!ExecPhases[5] = "channel" /\ Ssh!ExecPhases[6] = "exec"
        /\ Ssh!ExecPhases[7] = "stdin" /\ Ssh!ExecPhases[8] = "io"
        /\ Ssh!ExecPhases[9] = "close" /\ Ssh!ExecPhases[10] = "teardown"
    BY DEF Ssh!ExecPhases
  <2> QED  BY <1>1, <2>1, <2>2, <2>3, <2>4
<1>2. CASE j \notin Commands
  <2>1. Ssh!PhaseSet(j) = {Ssh!ShellPhases[i] : i \in DOMAIN Ssh!ShellPhases}
    BY <1>2 DEF Ssh!PhaseSet, Ssh!PhasesOf
  <2>2. DOMAIN Ssh!ShellPhases = 1 .. 9
    BY DEF Ssh!ShellPhases
  <2>3. 1 .. 9 = {1, 2, 3, 4, 5, 6, 7, 8, 9}
    OBVIOUS
  <2>4. /\ Ssh!ShellPhases[1] = "connect" /\ Ssh!ShellPhases[2] = "handshake"
        /\ Ssh!ShellPhases[3] = "hostkey" /\ Ssh!ShellPhases[4] = "auth"
        /\ Ssh!ShellPhases[5] = "channel" /\ Ssh!ShellPhases[6] = "pty"
        /\ Ssh!ShellPhases[7] = "shell" /\ Ssh!ShellPhases[8] = "io"
        /\ Ssh!ShellPhases[9] = "teardown"
    BY DEF Ssh!ShellPhases
  <2> QED  BY <1>2, <2>1, <2>2, <2>3, <2>4
<1> QED  BY <1>1, <1>2

\* A phase that succeeds is followed by a phase of the same job, and the key is
\* verified between the handshake and the first phase that trusts the peer.
LEMMA AfterIs ==
  ASSUME NEW j \in Ssh!Jobs, pc[j] \in Ssh!PhaseSet(j) \ {"teardown"}
  PROVE  /\ Ssh!After(j) \in Ssh!PhaseSet(j)
         /\ pc[j] = "connect" => Ssh!After(j) = "handshake"
         /\ pc[j] = "handshake" => Ssh!After(j) = "hostkey"
         /\ pc[j] \in Trusted => Ssh!After(j) \in Trusted \cup {"teardown"}
<1> DEFINE s == Ssh!PhasesOf(j)
<1>0. \A n \in DOMAIN s : s[n] = pc[j] => Ssh!After(j) = s[1 + n]
  <2>1. \A n, m \in DOMAIN s : s[m] = s[n] => m = n
    <3>1. CASE j \in Commands
      BY <3>1, SMTT(60) DEF Ssh!PhasesOf, Ssh!ExecPhases
    <3>2. CASE j \notin Commands
      BY <3>2, SMTT(60) DEF Ssh!PhasesOf, Ssh!ShellPhases
    <3> QED  BY <3>1, <3>2
  <2>2. ASSUME NEW n \in DOMAIN s, s[n] = pc[j] PROVE Ssh!After(j) = s[1 + n]
    <3>1. (CHOOSE i \in DOMAIN s : s[i] = pc[j]) = n
      BY <2>1, <2>2
    <3> QED  BY <3>1 DEF Ssh!After
  <2> QED  BY <2>2
<1>1. CASE j \in Commands
  <2>1. /\ DOMAIN s = 1 .. 10
        /\ s[1] = "connect" /\ s[2] = "handshake" /\ s[3] = "hostkey" /\ s[4] = "auth"
        /\ s[5] = "channel" /\ s[6] = "exec" /\ s[7] = "stdin" /\ s[8] = "io"
        /\ s[9] = "close" /\ s[10] = "teardown"
    BY <1>1 DEF Ssh!PhasesOf, Ssh!ExecPhases
  <2> HIDE DEF s
  <2>2. \A n \in {1, 2, 3, 4, 5, 6, 7, 8, 9} : n \in DOMAIN s
    BY <2>1
  <2>3. /\ s[1] = pc[j] => Ssh!After(j) = s[2]
        /\ s[2] = pc[j] => Ssh!After(j) = s[3]
        /\ s[3] = pc[j] => Ssh!After(j) = s[4]
        /\ s[4] = pc[j] => Ssh!After(j) = s[5]
        /\ s[5] = pc[j] => Ssh!After(j) = s[6]
        /\ s[6] = pc[j] => Ssh!After(j) = s[7]
        /\ s[7] = pc[j] => Ssh!After(j) = s[8]
        /\ s[8] = pc[j] => Ssh!After(j) = s[9]
        /\ s[9] = pc[j] => Ssh!After(j) = s[10]
    BY <1>0, <2>2
  <2> QED  BY <1>1, <2>1, <2>3, PhasesAre DEF Trusted
<1>2. CASE j \notin Commands
  <2>1. /\ DOMAIN s = 1 .. 9
        /\ s[1] = "connect" /\ s[2] = "handshake" /\ s[3] = "hostkey" /\ s[4] = "auth"
        /\ s[5] = "channel" /\ s[6] = "pty" /\ s[7] = "shell" /\ s[8] = "io"
        /\ s[9] = "teardown"
    BY <1>2 DEF Ssh!PhasesOf, Ssh!ShellPhases
  <2> HIDE DEF s
  <2>2. \A n \in {1, 2, 3, 4, 5, 6, 7, 8} : n \in DOMAIN s
    BY <2>1
  <2>3. /\ s[1] = pc[j] => Ssh!After(j) = s[2]
        /\ s[2] = pc[j] => Ssh!After(j) = s[3]
        /\ s[3] = pc[j] => Ssh!After(j) = s[4]
        /\ s[4] = pc[j] => Ssh!After(j) = s[5]
        /\ s[5] = pc[j] => Ssh!After(j) = s[6]
        /\ s[6] = pc[j] => Ssh!After(j) = s[7]
        /\ s[7] = pc[j] => Ssh!After(j) = s[8]
        /\ s[8] = pc[j] => Ssh!After(j) = s[9]
    BY <1>0, <2>2
  <2> QED  BY <1>2, <2>1, <2>3, PhasesAre DEF Trusted
<1> QED  BY <1>1, <1>2

\* No session at first, whatever the record of host keys holds.
LEMMA SshInitially ==
  ASSUME Ssh!SshBounds, Ssh!Init
  PROVE  SshInv
<1>1. SessionInv
  <2>1. lock = <<TRUE>> /\ sem = Len(lock)
    BY DEF Ssh!Init
  <2>2. sem = 1 /\ lock \in [1 .. 1 -> BOOLEAN]
    <3>1. <<TRUE>> \in [1 .. 1 -> BOOLEAN]
      <4>1. <<TRUE>> \in Seq(BOOLEAN)
        OBVIOUS
      <4>2. \A s \in Seq(BOOLEAN) : Len(s) = 1 => s \in [1 .. 1 -> BOOLEAN]
        OBVIOUS
      <4>3. Len(<<TRUE>>) = 1
        OBVIOUS
      <4> QED  BY <4>1, <4>2, <4>3
    <3>2. Len(<<TRUE>>) = 1
      OBVIOUS
    <3> QED  BY <2>1, <3>1, <3>2
  <2>3. /\ pc = [j \in Ssh!Jobs |-> "none"] /\ owner = [j \in Ssh!Jobs |-> "idle"]
        /\ held = [j \in Ssh!Jobs |-> {}] /\ secret = [j \in Ssh!Jobs |-> FALSE]
    BY DEF Ssh!Init
  <2>4. SessionTypes
    BY <2>2, <2>3 DEF SessionTypes, SshOwners
  <2>5. \A j \in Ssh!Jobs : CallerAndWorker(j)
    BY <2>3 DEF CallerAndWorker
  <2>6. \A j \in Ssh!Jobs : ~Keeps(j)
    BY <2>3 DEF Keeps
  <2> QED  BY <2>4, <2>5, <2>6 DEF SessionInv
<1>2. HostKeyInv
  <2>1. /\ req = [j \in Ssh!Jobs |-> Ssh!NoRequest] /\ active = FALSE
        /\ key = [j \in Ssh!Jobs |-> None] /\ known \in HostKeys \cup {None}
        /\ pc = [j \in Ssh!Jobs |-> "none"]
    BY DEF Ssh!Init
  <2>2. req \in [Ssh!Jobs -> Requested]
    BY <2>1 DEF Requested, Ssh!NoRequest
  <2>3. \A j \in Ssh!Jobs : RequestIs(j)
    BY <2>1 DEF RequestIs, Trusted
  <2>4. \A j \in Ssh!Jobs : req[j].broker \notin Working
    BY <2>1 DEF Ssh!NoRequest, Working
  <2> QED  BY <2>1, <2>2, <2>3, <2>4 DEF HostKeyInv
<1>3. InputInv
  <2>1. /\ input = [j \in Ssh!Jobs |-> <<>>] /\ cancel = [j \in Ssh!Jobs |-> FALSE]
        /\ typed = {}
    BY DEF Ssh!Init
  <2>2. <<>> \in Seq({"text", "wake"}) /\ Len(<<>>) = 0
    OBVIOUS
  <2> QED  BY <2>1, <2>2 DEF InputInv
<1> QED  BY <1>1, <1>2, <1>3 DEF SshInv

-----------------------------------------------------------------------------
(* The semaphore *)

\* What a step of job j alone has to keep.
LEMMA SessionOf ==
  ASSUME SessionInv, NEW j \in Ssh!Jobs, SessionTypes',
         \A i \in Ssh!Jobs : i # j => /\ pc'[i] = pc[i] /\ owner'[i] = owner[i]
                                      /\ held'[i] = held[i] /\ secret'[i] = secret[i],
         CallerAndWorker(j)',
         Keeps(j)' => Keeps(j) \/ lock[1] = TRUE,
         lock'[1] = TRUE => ~Keeps(j)' /\ (lock[1] = TRUE \/ Keeps(j))
  PROVE  SessionInv'
<1>1. \A i \in Ssh!Jobs : i # j => (Keeps(i)' <=> Keeps(i)) /\ CallerAndWorker(i)'
  BY DEF SessionInv, CallerAndWorker, Keeps
<1>2. \A i \in Ssh!Jobs : CallerAndWorker(i)'
  BY <1>1
<1>3. \A i \in Ssh!Jobs, n \in Ssh!Jobs : Keeps(i)' /\ Keeps(n)' => i = n
  BY <1>1 DEF SessionInv
<1>4. lock'[1] = TRUE => \A i \in Ssh!Jobs : ~Keeps(i)'
  BY <1>1 DEF SessionInv
<1> QED  BY <1>2, <1>3, <1>4 DEF SessionInv

\* A step that changes nothing of the sessions.
LEMMA SessionsStutter ==
  ASSUME SessionInv, lock' = lock, sem' = sem, pc' = pc, owner' = owner, held' = held,
         secret' = secret
  PROVE  SessionInv'
BY DEF SessionInv, SessionTypes, CallerAndWorker, Keeps

\* A worker that goes from one of its phases to another.
LEMMA PhaseMoves ==
  ASSUME SessionInv, NEW j \in Ssh!Jobs, pc[j] \in Ssh!PhaseSet(j),
         NEW p \in Ssh!PhaseSet(j) \cup {"ended"}, NEW h \in SUBSET SshThings,
         p = "ended" => h = {},
         pc' = [pc EXCEPT ![j] = p], held' = [held EXCEPT ![j] = h],
         secret' \in {secret, [secret EXCEPT ![j] = FALSE]},
         owner' = owner, lock' = lock, sem' = sem
  PROVE  SessionInv'
<1>0. pc[j] \notin {"none", "suspended", "ended"} /\ p \notin {"none", "suspended"}
  BY PhasesAre
<1>1. /\ DOMAIN pc = Ssh!Jobs /\ owner \in [Ssh!Jobs -> SshOwners]
      /\ held \in [Ssh!Jobs -> SUBSET SshThings] /\ secret \in [Ssh!Jobs -> BOOLEAN]
  BY DEF SessionInv, SessionTypes
<1>2. /\ pc'[j] = p /\ held'[j] = h /\ \A i \in Ssh!Jobs : i # j =>
             pc'[i] = pc[i] /\ held'[i] = held[i] /\ secret'[i] = secret[i]
  BY <1>1
<1>3. SessionTypes'
  <2>1. DOMAIN pc' = Ssh!Jobs /\ held' \in [Ssh!Jobs -> SUBSET SshThings]
    BY <1>1
  <2>2. secret' \in [Ssh!Jobs -> BOOLEAN]
    BY <1>1
  <2>3. \A i \in Ssh!Jobs : pc'[i] \in Ssh!PhaseSet(i) \cup {"none", "ended", "suspended"}
    BY <1>2 DEF SessionInv, SessionTypes
  <2> QED  BY <2>1, <2>2, <2>3 DEF SessionInv, SessionTypes
<1>4. CallerAndWorker(j)
  BY DEF SessionInv
<1>5. owner[j] \in {"open", "stopping", "waiting"}
  BY <1>0, <1>1, <1>4 DEF CallerAndWorker, SshOwners
<1>6. CallerAndWorker(j)'
  <2>1. pc'[j] # "none" /\ (held'[j] # {} => pc'[j] \in Ssh!PhaseSet(j))
    BY <1>0, <1>2
  <2> QED  BY <1>4, <1>5, <2>1 DEF CallerAndWorker
<1>7. Keeps(j) <=> Keeps(j)'
  BY <1>0, <1>2 DEF Keeps
<1>8. lock'[1] = TRUE => ~Keeps(j)
  BY DEF SessionInv
<1> QED  BY <1>2, <1>3, <1>6, <1>7, <1>8, SessionOf

\* Steps of a caller before it has a worker.
LEMMA CallersKeepSessions ==
  ASSUME Ssh!SshBounds, SessionInv, NEW j \in Ssh!Jobs,
         \/ Ssh!Ensure(j) \/ Ssh!MakeLock(j) \/ Ssh!Start(j)
  PROVE  SessionInv'
<1>1. /\ DOMAIN pc = Ssh!Jobs /\ owner \in [Ssh!Jobs -> SshOwners] /\ sem = 1
      /\ held \in [Ssh!Jobs -> SUBSET SshThings] /\ secret \in [Ssh!Jobs -> BOOLEAN]
      /\ lock \in [1 .. 1 -> BOOLEAN] /\ 1 \in 1 .. 1 /\ CallerAndWorker(j)
  BY DEF SessionInv, SessionTypes
<1>2. ASSUME NEW o \in SshOwners, owner' = [owner EXCEPT ![j] = o], pc' = pc,
             o \in {"taking", "gone"}, owner[j] \in {"idle", "taking"},
             held' = held, secret' = secret, lock' = lock, sem' = sem
      PROVE  SessionInv'
  <2>1. owner'[j] = o /\ \A i \in Ssh!Jobs : i # j => owner'[i] = owner[i]
    BY <1>1, <1>2
  <2>2. SessionTypes'
    <3>1. owner' \in [Ssh!Jobs -> SshOwners]
      BY <1>1, <1>2
    <3> QED  BY <1>2, <3>1 DEF SessionInv, SessionTypes
  <2>3. CallerAndWorker(j)'
    BY <1>1, <1>2, <2>1 DEF CallerAndWorker
  <2>4. ~Keeps(j)' /\ (lock'[1] = TRUE => lock[1] = TRUE)
    BY <1>1, <1>2, <2>1 DEF Keeps, CallerAndWorker
  <2> QED  BY <1>2, <2>1, <2>2, <2>3, <2>4, SessionOf
<1>3. CASE Ssh!Ensure(j)
  <2>1. /\ owner[j] = "idle" /\ owner' = [owner EXCEPT ![j] = "taking"] /\ pc' = pc
        /\ held' = held /\ secret' = secret /\ lock' = lock /\ sem' = sem
    BY <1>1, <1>3 DEF Ssh!Ensure
  <2> QED  BY <1>2, <2>1 DEF SshOwners
<1>4. ~Ssh!MakeLock(j)
  BY <1>1 DEF Ssh!MakeLock, SshOwners
<1>5. CASE Ssh!Start(j)
  <2>1. owner[j] = "taking" /\ held' = held /\ sem' = sem
    BY <1>5 DEF Ssh!Start
  <2>2. CASE /\ owner' = [owner EXCEPT ![j] = "gone"]
             /\ lock' = lock /\ pc' = pc /\ secret' = secret
    BY <1>2, <2>1, <2>2 DEF SshOwners
  <2>3. CASE /\ lock[sem] /\ lock' = [lock EXCEPT ![sem] = FALSE]
             /\ owner' = [owner EXCEPT ![j] = "open"]
             /\ secret' = [secret EXCEPT ![j] = TRUE]
             /\ pc' = [pc EXCEPT ![j] = "connect"]
    <3>0. "connect" \in Ssh!PhaseSet(j)
      BY PhasesAre
    <3>1. /\ owner'[j] = "open" /\ pc'[j] = "connect" /\ lock[1] = TRUE
          /\ lock'[1] = FALSE
      BY <1>1, <2>3
    <3>1a. \A i \in Ssh!Jobs : i # j => /\ pc'[i] = pc[i] /\ owner'[i] = owner[i]
                                       /\ held'[i] = held[i] /\ secret'[i] = secret[i]
      BY <1>1, <2>1, <2>3
    <3>2. SessionTypes'
      <4>1. /\ owner' \in [Ssh!Jobs -> SshOwners] /\ DOMAIN pc' = Ssh!Jobs
        BY <1>1, <2>3 DEF SshOwners
      <4>2. secret' \in [Ssh!Jobs -> BOOLEAN]
        BY <1>1, <2>3
      <4>3. lock' \in [1 .. 1 -> BOOLEAN]
        BY <1>1, <2>3
      <4>4. \A i \in Ssh!Jobs :
              pc'[i] \in Ssh!PhaseSet(i) \cup {"none", "ended", "suspended"}
        BY <3>0, <3>1, <3>1a DEF SessionInv, SessionTypes
      <4> QED  BY <1>1, <2>1, <4>1, <4>2, <4>3, <4>4 DEF SessionTypes
    <3>3. CallerAndWorker(j)'
      BY <3>0, <3>1 DEF CallerAndWorker
    <3> QED  BY <3>1, <3>1a, <3>2, <3>3, SessionOf
  <2> QED  BY <1>5, <2>2, <2>3 DEF Ssh!Start
<1> QED  BY <1>3, <1>4, <1>5

\* Steps of a caller that has a worker.
LEMMA OwnersKeepSessions ==
  ASSUME Ssh!SshBounds, SessionInv, NEW j \in Ssh!Jobs,
         \/ Ssh!ExecReturn(j) \/ Ssh!ShellStop(j) \/ Ssh!ShellWake(j) \/ Ssh!ShellFree(j)
  PROVE  SessionInv'
<1>1. /\ DOMAIN pc = Ssh!Jobs /\ owner \in [Ssh!Jobs -> SshOwners] /\ sem = 1
      /\ held \in [Ssh!Jobs -> SUBSET SshThings] /\ secret \in [Ssh!Jobs -> BOOLEAN]
      /\ lock \in [1 .. 1 -> BOOLEAN] /\ 1 \in 1 .. 1 /\ CallerAndWorker(j)
  BY DEF SessionInv, SessionTypes
<1>2. CASE Ssh!ExecReturn(j)
  <2>1. /\ j \in Commands /\ owner[j] = "open" /\ pc[j] = "suspended"
        /\ owner' = [owner EXCEPT ![j] = "gone"]
        /\ secret' = [secret EXCEPT ![j] = FALSE]
        /\ lock' = [lock EXCEPT ![1] = TRUE] /\ sem' = sem /\ pc' = pc /\ held' = held
    BY <1>1, <1>2 DEF Ssh!ExecReturn, Ssh!Give
  <2>2. j \notin Shells
    BY <2>1 DEF Ssh!SshBounds
  <2>3. /\ owner'[j] = "gone" /\ secret'[j] = FALSE /\ lock'[1] = TRUE
        /\ \A i \in Ssh!Jobs : i # j => owner'[i] = owner[i] /\ secret'[i] = secret[i]
    BY <1>1, <2>1
  <2>4. SessionTypes'
    <3>1. owner' \in [Ssh!Jobs -> SshOwners]
      BY <1>1, <2>1 DEF SshOwners
    <3>2. secret' \in [Ssh!Jobs -> BOOLEAN]
      BY <1>1, <2>1
    <3>3. lock' \in [1 .. 1 -> BOOLEAN]
      BY <1>1, <2>1
    <3> QED  BY <2>1, <3>1, <3>2, <3>3 DEF SessionInv, SessionTypes
  <2>5. CallerAndWorker(j)'
    BY <1>1, <2>1, <2>3 DEF CallerAndWorker
  <2>6. Keeps(j) /\ ~Keeps(j)'
    BY <2>1, <2>2, <2>3 DEF Keeps
  <2> QED  BY <2>1, <2>3, <2>4, <2>5, <2>6, SessionOf
<1>3. ASSUME NEW o \in SshOwners, NEW p \in SshOwners, owner[j] = p,
             owner' = [owner EXCEPT ![j] = o], j \in Shells,
             \/ p = "open" /\ o = "stopping"
             \/ p = "stopping" /\ o = "waiting"
             \/ p = "waiting" /\ o = "gone" /\ pc[j] = "suspended" /\ secret'[j] = FALSE,
             secret' \in {secret, [secret EXCEPT ![j] = FALSE]},
             pc' = pc, held' = held, lock' = lock, sem' = sem
      PROVE  SessionInv'
  <2>1. owner'[j] = o /\ \A i \in Ssh!Jobs : i # j => owner'[i] = owner[i]
                                                   /\ secret'[i] = secret[i]
    BY <1>1, <1>3
  <2>2. SessionTypes'
    <3>1. owner' \in [Ssh!Jobs -> SshOwners]
      BY <1>1, <1>3
    <3>2. secret' \in [Ssh!Jobs -> BOOLEAN]
      BY <1>1, <1>3
    <3> QED  BY <1>3, <3>1, <3>2 DEF SessionInv, SessionTypes
  <2>3. CallerAndWorker(j)'
    BY <1>1, <1>3, <2>1 DEF CallerAndWorker
  <2>4. Keeps(j)' <=> Keeps(j)
    BY <1>3 DEF Keeps
  <2>5. lock[1] = TRUE => ~Keeps(j)
    BY DEF SessionInv
  <2> QED  BY <1>3, <2>1, <2>2, <2>3, <2>4, <2>5, SessionOf
<1>4. CASE Ssh!ShellStop(j)
  <2>1. /\ j \in Shells /\ owner[j] = "open" /\ owner' = [owner EXCEPT ![j] = "stopping"]
        /\ pc' = pc /\ held' = held /\ secret' = secret /\ lock' = lock /\ sem' = sem
    BY <1>4 DEF Ssh!ShellStop
  <2>2. "open" \in SshOwners /\ "stopping" \in SshOwners
    BY DEF SshOwners
  <2> QED  BY <1>3, <2>1, <2>2
<1>5. CASE Ssh!ShellWake(j)
  <2>1. /\ j \in Shells /\ owner[j] = "stopping"
        /\ owner' = [owner EXCEPT ![j] = "waiting"]
        /\ pc' = pc /\ held' = held /\ secret' = secret /\ lock' = lock /\ sem' = sem
    BY <1>5 DEF Ssh!ShellWake
  <2>2. "waiting" \in SshOwners /\ "stopping" \in SshOwners
    BY DEF SshOwners
  <2> QED  BY <1>3, <2>1, <2>2
<1>6. CASE Ssh!ShellFree(j)
  <2>1. /\ owner[j] = "waiting" /\ pc[j] = "suspended"
        /\ owner' = [owner EXCEPT ![j] = "gone"]
        /\ secret' = [secret EXCEPT ![j] = FALSE]
        /\ pc' = pc /\ held' = held /\ lock' = lock /\ sem' = sem
    BY <1>6 DEF Ssh!ShellFree
  <2>2. "waiting" \in SshOwners /\ "gone" \in SshOwners
    BY DEF SshOwners
  <2>3. j \in Shells /\ secret'[j] = FALSE
    BY <1>1, <2>1 DEF CallerAndWorker
  <2> QED  BY <1>3, <2>1, <2>2, <2>3
<1> QED  BY <1>2, <1>4, <1>5, <1>6

\* Steps of a worker.
LEMMA WorkersKeepSessions ==
  ASSUME Ssh!SshBounds, SessionInv, NEW j \in Ssh!Jobs,
         \/ Ssh!Advance(j) \/ Ssh!GiveUp(j) \/ Ssh!EndOfFile(j) \/ Ssh!Type(j)
         \/ Ssh!Ask(j) \/ Ssh!Heard(j) \/ Ssh!Teardown(j) \/ Ssh!WorkerEnd(j)
  PROVE  SessionInv'
<1>1. /\ DOMAIN pc = Ssh!Jobs /\ owner \in [Ssh!Jobs -> SshOwners] /\ sem = 1
      /\ held \in [Ssh!Jobs -> SUBSET SshThings] /\ secret \in [Ssh!Jobs -> BOOLEAN]
      /\ lock \in [1 .. 1 -> BOOLEAN] /\ 1 \in 1 .. 1 /\ CallerAndWorker(j)
      /\ pc[j] \in Ssh!PhaseSet(j) \cup {"none", "ended", "suspended"}
  BY DEF SessionInv, SessionTypes
<1>2. /\ {"teardown", "io", "hostkey", "auth"} \subseteq Ssh!PhaseSet(j)
      /\ pc[j] \in Ssh!Repeats \cup {"io", "hostkey"} =>
           pc[j] \in Ssh!PhaseSet(j) \ {"teardown"}
  BY <1>1, PhasesAre DEF Ssh!Repeats
<1>3. held[j] \in SUBSET SshThings /\ held = [held EXCEPT ![j] = held[j]]
  BY <1>1
<1>4. CASE Ssh!Advance(j)
  <2> DEFINE p == IF j \in Shells /\ cancel[j] /\ pc[j] # "connect"
                  THEN "teardown" ELSE Ssh!After(j)
             h == held[j] \cup Ssh!Gains(pc[j])
  <2>1. /\ pc[j] \in Ssh!Repeats /\ pc' = [pc EXCEPT ![j] = p]
        /\ held' = [held EXCEPT ![j] = h]
        /\ secret' \in {secret, [secret EXCEPT ![j] = FALSE]}
        /\ owner' = owner /\ lock' = lock /\ sem' = sem
    BY <1>4 DEF Ssh!Advance, Ssh!Goto
  <2>2. p \in Ssh!PhaseSet(j)
    BY <1>2, <2>1, AfterIs
  <2>3. p # "ended"
    BY <2>2, PhasesAre
  <2>4. h \in SUBSET SshThings
    <3>1. Ssh!Gains(pc[j]) \in SUBSET SshThings
      BY DEF Ssh!Gains, SshThings
    <3> QED  BY <1>3, <3>1
  <2> HIDE DEF p, h
  <2> QED  BY <1>2, <2>1, <2>2, <2>3, <2>4, PhaseMoves
<1>5. CASE Ssh!GiveUp(j)
  <2> DEFINE h == held[j] \cup (IF pc[j] = "connect" THEN {"socket"} ELSE {})
  <2>1. /\ pc[j] \in Ssh!Repeats \cup {"io"} /\ pc' = [pc EXCEPT ![j] = "teardown"]
        /\ held' = [held EXCEPT ![j] = h]
        /\ secret' = secret /\ owner' = owner /\ lock' = lock /\ sem' = sem
    BY <1>5 DEF Ssh!GiveUp, Ssh!Goto
  <2>2. h \in SUBSET SshThings
    BY <1>3 DEF SshThings
  <2> HIDE DEF h
  <2> QED  BY <1>2, <2>1, <2>2, PhaseMoves
<1>6. CASE Ssh!EndOfFile(j)
  <2>1. /\ pc[j] = "io" /\ pc' = [pc EXCEPT ![j] = Ssh!After(j)] /\ held' = held
        /\ secret' = secret /\ owner' = owner /\ lock' = lock /\ sem' = sem
    BY <1>6 DEF Ssh!EndOfFile, Ssh!Goto
  <2>2. Ssh!After(j) \in Ssh!PhaseSet(j)
    BY <1>2, <2>1, AfterIs
  <2>3. Ssh!After(j) # "ended"
    BY <2>2, PhasesAre
  <2> QED  BY <1>2, <1>3, <2>1, <2>2, <2>3, PhaseMoves
<1>7. CASE Ssh!Type(j)
  <2>1. /\ pc[j] = "io" /\ (pc' = [pc EXCEPT ![j] = "teardown"] \/ pc' = pc)
        /\ held' = held /\ secret' = secret /\ owner' = owner /\ lock' = lock /\ sem' = sem
    BY <1>7 DEF Ssh!Type, Ssh!Goto
  <2> QED  BY <1>2, <1>3, <2>1, PhaseMoves, SessionsStutter
<1>8. CASE Ssh!Ask(j)
  <2>1. /\ pc[j] = "hostkey"
        /\ \/ pc' = [pc EXCEPT ![j] = "teardown"]
           \/ pc' = pc
        /\ held' = held /\ secret' = secret /\ owner' = owner /\ lock' = lock /\ sem' = sem
    BY <1>8 DEF Ssh!Ask, Ssh!Goto
  <2> QED  BY <1>2, <1>3, <2>1, PhaseMoves, SessionsStutter
<1>9. CASE Ssh!Heard(j)
  <2>1. /\ pc[j] = "hostkey"
        /\ \E p \in {"auth", "teardown"} : pc' = [pc EXCEPT ![j] = p]
        /\ held' = held /\ secret' = secret /\ owner' = owner /\ lock' = lock /\ sem' = sem
    BY <1>9 DEF Ssh!Heard, Ssh!Goto
  <2>2. PICK p \in {"auth", "teardown"} : pc' = [pc EXCEPT ![j] = p]
    BY <2>1
  <2> QED  BY <1>2, <1>3, <2>1, <2>2, PhaseMoves
<1>10. CASE Ssh!Teardown(j)
  <2>1. /\ pc[j] = "teardown" /\ pc' = [pc EXCEPT ![j] = "ended"]
        /\ held' = [held EXCEPT ![j] = {}]
        /\ secret' = secret /\ owner' = owner /\ lock' = lock /\ sem' = sem
    BY <1>10 DEF Ssh!Teardown, Ssh!Goto
  <2> QED  BY <1>2, <2>1, PhaseMoves
<1>11. CASE Ssh!WorkerEnd(j)
  <2>1. /\ pc[j] = "ended" /\ pc' = [pc EXCEPT ![j] = "suspended"]
        /\ lock' = IF j \in Shells THEN [lock EXCEPT ![1] = TRUE] ELSE lock
        /\ sem' = sem /\ owner' = owner /\ held' = held /\ secret' = secret
    BY <1>1, <1>11 DEF Ssh!WorkerEnd, Ssh!Goto, Ssh!Give
  <2>2. pc'[j] = "suspended" /\ \A i \in Ssh!Jobs : i # j => pc'[i] = pc[i]
    BY <1>1, <2>1
  <2>3. SessionTypes'
    <3>1. lock' \in [1 .. 1 -> BOOLEAN]
      BY <1>1, <2>1
    <3> QED  BY <2>1, <2>2, <3>1 DEF SessionInv, SessionTypes
  <2>4. owner[j] \in {"open", "stopping", "waiting"} /\ "ended" \notin Ssh!PhaseSet(j)
    BY <1>1, <2>1, PhasesAre DEF CallerAndWorker, SshOwners
  <2>5. CallerAndWorker(j)'
    BY <1>1, <2>1, <2>2, <2>4 DEF CallerAndWorker
  <2>6. CASE j \in Shells
    <3>1. Keeps(j) /\ ~Keeps(j)'
      BY <2>1, <2>2, <2>6 DEF Keeps
    <3> QED  BY <2>1, <2>2, <2>3, <2>5, <3>1, SessionOf
  <2>7. CASE j \notin Shells
    <3>1. (Keeps(j)' <=> Keeps(j)) /\ lock' = lock
      BY <2>1, <2>2, <2>7 DEF Keeps
    <3>2. lock[1] = TRUE => ~Keeps(j)
      BY DEF SessionInv
    <3> QED  BY <2>1, <2>2, <2>3, <2>5, <3>1, <3>2, SessionOf
  <2> QED  BY <2>6, <2>7
<1> QED  BY <1>4, <1>5, <1>6, <1>7, <1>8, <1>9, <1>10, <1>11

\* Every step of the SSH client keeps the semaphore's owner.
LEMMA SessionsKept ==
  ASSUME Ssh!SshBounds, SessionInv, Ssh!Next
  PROVE  SessionInv'
<1> PICK j \in Ssh!Jobs :
       \/ Ssh!Ensure(j) \/ Ssh!MakeLock(j) \/ Ssh!Start(j) \/ Ssh!Cancel(j)
       \/ Ssh!ShellWrite(j) \/ Ssh!ShellStop(j) \/ Ssh!Advance(j) \/ Ssh!GiveUp(j)
       \/ Ssh!EndOfFile(j) \/ Ssh!Type(j) \/ Ssh!Expire(j) \/ Ssh!Ask(j) \/ Ssh!Heard(j)
       \/ Ssh!Broker(j) \/ Ssh!Ends(j)
  BY DEF Ssh!Next
<1>1. CASE Ssh!Ensure(j) \/ Ssh!MakeLock(j) \/ Ssh!Start(j)
  BY <1>1, CallersKeepSessions
<1>2. CASE Ssh!ShellStop(j)
  BY <1>2, OwnersKeepSessions
<1>3. CASE \/ Ssh!Advance(j) \/ Ssh!GiveUp(j) \/ Ssh!EndOfFile(j) \/ Ssh!Type(j)
           \/ Ssh!Ask(j) \/ Ssh!Heard(j)
  BY <1>3, WorkersKeepSessions
<1>4. CASE Ssh!Ends(j)
  BY <1>4, OwnersKeepSessions, WorkersKeepSessions DEF Ssh!Ends
<1>5. CASE Ssh!Cancel(j) \/ Ssh!ShellWrite(j) \/ Ssh!Expire(j) \/ Ssh!Broker(j)
  <2>1. /\ lock' = lock /\ sem' = sem /\ pc' = pc /\ owner' = owner /\ held' = held
        /\ secret' = secret
    BY <1>5 DEF Ssh!Cancel, Ssh!ShellWrite, Ssh!Expire, Ssh!Broker, Ssh!BrokerRead,
                Ssh!BrokerReadFails, Ssh!BrokerWrite, Ssh!BrokerEnd
  <2> QED  BY <2>1, SessionsStutter
<1> QED  BY <1>1, <1>2, <1>3, <1>4, <1>5

-----------------------------------------------------------------------------
(* The host key *)

\* A step that changes nothing of the host keys.
LEMMA HostKeysStutter ==
  ASSUME HostKeyInv, pc' = pc, key' = key, known' = known, active' = active, req' = req
  PROVE  HostKeyInv'
BY DEF HostKeyInv, RequestIs

\* A worker that moves on while the request, the record and the key stay.
LEMMA PhaseKeepsKeys ==
  ASSUME HostKeyInv, NEW j \in Ssh!Jobs, DOMAIN pc = Ssh!Jobs, NEW p,
         pc' = [pc EXCEPT ![j] = p],
         key' = key, known' = known, active' = active, req' = req,
         p \in {"hostkey"} \cup Trusted => key[j] \in HostKeys,
         p \in Trusted => known = key[j],
         p \in {"none", "connect", "handshake"} => req[j] = Ssh!NoRequest,
         req[j] = Ssh!NoRequest \/ (pc[j] # "hostkey" /\ p # "hostkey")
  PROVE  HostKeyInv'
<1>1. pc'[j] = p /\ \A i \in Ssh!Jobs : i # j => pc'[i] = pc[i]
  OBVIOUS
<1>2. RequestIs(j)'
  BY <1>1 DEF HostKeyInv, RequestIs
<1>3. \A i \in Ssh!Jobs : i # j => RequestIs(i)'
  BY <1>1 DEF HostKeyInv, RequestIs
<1> QED  BY <1>2, <1>3 DEF HostKeyInv

\* The request of job j changes and no other.
LEMMA RequestKeepsKeys ==
  ASSUME HostKeyInv, NEW j \in Ssh!Jobs, NEW r \in Requested, DOMAIN pc = Ssh!Jobs,
         req' = [req EXCEPT ![j] = r],
         \A i \in Ssh!Jobs : i # j => pc'[i] = pc[i],
         key' = key, active' \in BOOLEAN, known' \in HostKeys \cup {None},
         \A i \in Ssh!Jobs : i # j /\ req[i].broker \in Working =>
           active' = TRUE /\ r.broker \notin Working,
         known' # known => /\ known = None
                           /\ \A i \in Ssh!Jobs : i # j => req[i].broker # "write",
         None \notin HostKeys,
         RequestIs(j)'
  PROVE  HostKeyInv'
<1>1. /\ req' \in [Ssh!Jobs -> Requested] /\ req'[j] = r
      /\ \A i \in Ssh!Jobs : i # j => req'[i] = req[i]
  BY DEF HostKeyInv
<1>2. ASSUME NEW i \in Ssh!Jobs, i # j PROVE RequestIs(i)'
  <2>1. RequestIs(i)
    BY DEF HostKeyInv
  <2>2. pc'[i] = pc[i] /\ req'[i] = req[i] /\ key'[i] = key[i]
    BY <1>1, <1>2
  <2>3. CASE known' = known
    BY <1>2, <2>1, <2>2, <2>3 DEF RequestIs
  <2>4. CASE known' # known
    <3>1. known = None /\ req[i].broker # "write"
      BY <1>2, <2>4
    <3>2. pc[i] \notin Trusted
      BY <2>1, <3>1 DEF RequestIs
    <3>3. req[i] # Ssh!NoRequest => req[i].res # "ok"
      BY <2>1, <3>1 DEF RequestIs
    <3> QED  BY <1>2, <2>1, <2>2, <3>1, <3>2, <3>3 DEF RequestIs
  <2> QED  BY <2>3, <2>4
<1>3. ASSUME NEW i \in Ssh!Jobs, NEW n \in Ssh!Jobs, req'[i].broker \in Working,
             req'[n].broker \in Working
      PROVE  i = n
  BY <1>1, <1>3 DEF HostKeyInv
<1> QED  BY <1>1, <1>2, <1>3 DEF HostKeyInv

\* ssh_hostkey_broker_task: one at a time, and it writes only where nothing was.
LEMMA BrokerKeepsKeys ==
  ASSUME Ssh!SshBounds, HostKeyInv, DOMAIN pc = Ssh!Jobs, NEW j \in Ssh!Jobs,
         Ssh!Broker(j)
  PROVE  HostKeyInv' /\ Ssh!FirstKeyStays
<1>0. /\ req[j] \in Requested /\ active \in BOOLEAN /\ None \notin HostKeys
      /\ known \in HostKeys \cup {None} /\ DOMAIN key = Ssh!Jobs /\ RequestIs(j)
      /\ req \in [Ssh!Jobs -> Requested]
  BY DEF HostKeyInv, Ssh!SshBounds
<1>1. req[j].broker \in Working /\ pc' = pc /\ key' = key
  BY DEF Ssh!Broker, Ssh!BrokerRead, Ssh!BrokerReadFails, Ssh!BrokerWrite,
         Ssh!BrokerEnd, Working
<1>2. /\ req[j] # Ssh!NoRequest /\ key[j] \in HostKeys /\ active = TRUE
      /\ req[j].refs = IF pc[j] = "hostkey" THEN 2 ELSE 1
      /\ pc[j] \notin {"none", "connect", "handshake"}
      /\ req[j].broker = "write" => known = None
  BY <1>0, <1>1 DEF RequestIs, Ssh!NoRequest, Working
<1>3. \A i \in Ssh!Jobs : i # j => req[i].broker \notin Working
  BY <1>1 DEF HostKeyInv
<1>4. /\ pc[j] \in {"hostkey"} \cup Trusted => key[j] \in HostKeys
      /\ pc[j] \in Trusted => known = key[j]
  BY <1>0 DEF RequestIs
<1>5. CASE Ssh!BrokerRead(j)
  <2> DEFINE to == IF known = None THEN "write" ELSE "end"
             res == IF known = None THEN "none" ELSE IF known = key[j] THEN "ok" ELSE "changed"
             r == [req[j] EXCEPT !.broker = to, !.res = res]
  <2>1. req' = [req EXCEPT ![j] = r] /\ known' = known /\ active' = active
    BY <1>5 DEF Ssh!BrokerRead
  <2>2. /\ to \in {"write", "end"} /\ res \in {"none", "ok", "changed", "error"}
        /\ to = "write" => known = None
        /\ res = "ok" => known = key[j]
    OBVIOUS
  <2> HIDE DEF to, res
  <2>3. /\ r \in Requested /\ r.broker = to /\ r.res = res /\ r.refs = req[j].refs
    BY <1>0, <2>2 DEF Requested
  <2> HIDE DEF r
  <2>4. req'[j] = r /\ r # Ssh!NoRequest
    BY <1>0, <2>1, <2>2, <2>3 DEF Ssh!NoRequest
  <2>5. RequestIs(j)'
    BY <1>1, <1>2, <1>4, <2>1, <2>2, <2>3, <2>4 DEF RequestIs, Working
  <2>6. HostKeyInv'
    BY <1>0, <1>1, <1>3, <2>1, <2>3, <2>5, RequestKeepsKeys
  <2> QED  BY <2>1, <2>6 DEF Ssh!FirstKeyStays
<1>6. CASE Ssh!BrokerWrite(j)
  <2>1. PICK res \in {"ok", "error"} :
          /\ req' = [req EXCEPT ![j] = [req[j] EXCEPT !.broker = "end", !.res = res]]
          /\ known' \in {known, key[j]} /\ (res = "ok" => known' = key[j])
          /\ active' = active /\ req[j].broker = "write"
    BY <1>6 DEF Ssh!BrokerWrite
  <2> DEFINE r == [req[j] EXCEPT !.broker = "end", !.res = res]
  <2>2. /\ r \in Requested /\ r.broker = "end" /\ r.res = res /\ r.refs = req[j].refs
    BY <1>0 DEF Requested
  <2>3. req' = [req EXCEPT ![j] = r]
    BY <2>1
  <2> HIDE DEF r
  <2>4. req'[j] = r /\ r # Ssh!NoRequest
    BY <1>0, <2>2, <2>3 DEF Ssh!NoRequest
  <2>5. known = None /\ known' \in HostKeys \cup {None} /\ pc[j] \notin Trusted
    BY <1>0, <1>2, <1>4, <2>1
  <2>6. RequestIs(j)'
    BY <1>1, <1>2, <2>1, <2>2, <2>4, <2>5 DEF RequestIs, Working
  <2>7. \A i \in Ssh!Jobs : i # j => req[i].broker # "write"
    BY <1>3 DEF Working
  <2>8. HostKeyInv'
    BY <1>0, <1>1, <1>3, <2>1, <2>2, <2>3, <2>5, <2>6, <2>7, RequestKeepsKeys
  <2> QED  BY <2>5, <2>8 DEF Ssh!FirstKeyStays
<1>7. CASE Ssh!BrokerEnd(j)
  <2> DEFINE d == [req[j] EXCEPT !.broker = "done"]
             r == Ssh!Release(d)
  <2>1. /\ req' = [req EXCEPT ![j] = r] /\ known' = known /\ active' = FALSE
        /\ req[j].broker = "end"
    BY <1>7 DEF Ssh!BrokerEnd
  <2>2. /\ d \in Requested /\ d.broker = "done" /\ d.res = req[j].res
        /\ d.refs = req[j].refs
    BY <1>0 DEF Requested
  <2>3. r = IF d.refs = 1 THEN Ssh!NoRequest ELSE [d EXCEPT !.refs = d.refs - 1]
    BY DEF Ssh!Release
  <2> HIDE DEF d, r
  <2>4. CASE pc[j] = "hostkey"
    <3>1. d.refs = 2 /\ d.refs - 1 = 1
      BY <1>2, <2>2, <2>4
    <3>2. r = [d EXCEPT !.refs = 1]
      BY <2>3, <3>1
    <3>3. r \in Requested /\ r.refs = 1 /\ r.broker = "done" /\ r.res = req[j].res
      BY <2>2, <3>2 DEF Requested
    <3>4. req'[j] = r /\ r # Ssh!NoRequest
      BY <1>0, <2>1, <3>3 DEF Ssh!NoRequest
    <3>5. RequestIs(j)'
      <4>1. req[j].res = "ok" => known = key[j]
        BY <1>0, <1>2 DEF RequestIs
      <4> QED  BY <1>1, <1>2, <2>1, <2>4, <3>3, <3>4, <4>1 DEF RequestIs, Working, Trusted
    <3>6. HostKeyInv'
      BY <1>0, <1>1, <1>3, <2>1, <3>3, <3>5, RequestKeepsKeys
    <3> QED  BY <2>1, <3>6 DEF Ssh!FirstKeyStays
  <2>5. CASE pc[j] # "hostkey"
    <3>1. r = Ssh!NoRequest
      BY <1>2, <2>2, <2>3, <2>5
    <3>2. Ssh!NoRequest \in Requested /\ Ssh!NoRequest.broker \notin Working
      BY DEF Ssh!NoRequest, Requested, Working
    <3>3. req'[j] = Ssh!NoRequest
      BY <1>0, <2>1, <3>1
    <3>4. RequestIs(j)'
      BY <1>1, <1>4, <2>1, <3>3 DEF RequestIs
    <3>5. HostKeyInv'
      BY <1>0, <1>1, <1>3, <2>1, <3>1, <3>2, <3>4, RequestKeepsKeys
    <3> QED  BY <2>1, <3>5 DEF Ssh!FirstKeyStays
  <2> QED  BY <2>4, <2>5
<1>8. CASE Ssh!BrokerReadFails(j)
  <2> DEFINE r == [req[j] EXCEPT !.broker = "end", !.res = "error"]
  <2>1. req' = [req EXCEPT ![j] = r] /\ known' = known /\ active' = active
    BY <1>8 DEF Ssh!BrokerReadFails
  <2>2. r \in Requested /\ r.broker = "end" /\ r.res = "error" /\ r.refs = req[j].refs
    BY <1>0 DEF Requested
  <2> HIDE DEF r
  <2>3. req'[j] = r /\ r # Ssh!NoRequest
    BY <1>0, <2>1, <2>2 DEF Ssh!NoRequest
  <2>4. RequestIs(j)'
    BY <1>1, <1>2, <1>4, <2>1, <2>2, <2>3 DEF RequestIs, Working
  <2>5. HostKeyInv'
    BY <1>0, <1>1, <1>3, <2>1, <2>2, <2>4, RequestKeepsKeys
  <2> QED  BY <2>1, <2>5 DEF Ssh!FirstKeyStays
<1> QED  BY <1>5, <1>6, <1>7, <1>8 DEF Ssh!Broker

\* si_ssh_hostkey_verify_or_trust, up to its wait.
LEMMA AskKeepsKeys ==
  ASSUME Ssh!SshBounds, HostKeyInv, DOMAIN pc = Ssh!Jobs, NEW j \in Ssh!Jobs, Ssh!Ask(j)
  PROVE  HostKeyInv'
<1>0. /\ active \in BOOLEAN /\ None \notin HostKeys /\ RequestIs(j)
      /\ known \in HostKeys \cup {None} /\ req \in [Ssh!Jobs -> Requested]
  BY DEF HostKeyInv, Ssh!SshBounds
<1>1. pc[j] = "hostkey" /\ req[j] = Ssh!NoRequest /\ key' = key /\ known' = known
  BY DEF Ssh!Ask
<1>2. CASE pc' = [pc EXCEPT ![j] = "teardown"] /\ active' = active /\ req' = req
  BY <1>1, <1>2, PhaseKeepsKeys DEF Trusted
<1>3. CASE /\ active = FALSE /\ active' = TRUE /\ pc' = pc
           /\ req' = [req EXCEPT ![j] = [refs |-> 2, res |-> "none", broker |-> "read"]]
  <2> DEFINE r == [refs |-> 2, res |-> "none", broker |-> "read"]
  <2>1. r \in Requested /\ r.refs = 2 /\ r.res = "none" /\ r.broker = "read"
    BY DEF Requested
  <2>2. req' = [req EXCEPT ![j] = r]
    BY <1>3
  <2> HIDE DEF r
  <2>3. req'[j] = r
    BY <1>0, <2>2
  <2>4. \A i \in Ssh!Jobs : req[i].broker \notin Working
    <3>1. ASSUME NEW i \in Ssh!Jobs, req[i].broker \in Working PROVE FALSE
      <4>1. req[i] # Ssh!NoRequest
        BY <3>1 DEF Ssh!NoRequest, Working
      <4> QED  BY <1>3, <3>1, <4>1 DEF HostKeyInv, RequestIs
    <3> QED  BY <3>1
  <2>5. key[j] \in HostKeys
    BY <1>0, <1>1 DEF RequestIs
  <2>6. RequestIs(j)'
    BY <1>1, <1>3, <2>1, <2>3, <2>5 DEF RequestIs, Working, Trusted
  <2> QED  BY <1>0, <1>1, <1>3, <2>1, <2>2, <2>4, <2>6, RequestKeepsKeys
<1> QED  BY <1>0, <1>2, <1>3 DEF Ssh!Ask, Ssh!Goto

\* The caller hears the result, or has waited in vain; the broker keeps its own
\* reference.
LEMMA HeardKeepsKeys ==
  ASSUME Ssh!SshBounds, HostKeyInv, DOMAIN pc = Ssh!Jobs, NEW j \in Ssh!Jobs, Ssh!Heard(j)
  PROVE  HostKeyInv'
<1> DEFINE p == IF req[j].broker = "done" /\ req[j].res = "ok" THEN "auth" ELSE "teardown"
           r == Ssh!Release(req[j])
<1>0. /\ active \in BOOLEAN /\ None \notin HostKeys /\ RequestIs(j)
      /\ known \in HostKeys \cup {None} /\ req \in [Ssh!Jobs -> Requested]
      /\ req[j] \in Requested
  BY DEF HostKeyInv, Ssh!SshBounds
<1>1. /\ pc[j] = "hostkey" /\ req[j] # Ssh!NoRequest /\ key' = key /\ known' = known
      /\ active' = active /\ pc' = [pc EXCEPT ![j] = p] /\ req' = [req EXCEPT ![j] = r]
  BY DEF Ssh!Heard, Ssh!Goto
<1>2. /\ key[j] \in HostKeys /\ req[j].broker \in Working \cup {"done"}
      /\ req[j].broker \in Working => active = TRUE /\ req[j].refs = 2
      /\ req[j].broker = "done" => req[j].refs = 1
      /\ req[j].broker = "write" => known = None
      /\ req[j].res = "ok" => known = key[j]
  BY <1>0, <1>1 DEF RequestIs
<1>3. p \in {"auth", "teardown"} /\ (p = "auth" => known = key[j])
  BY <1>2
<1>4. r = IF req[j].refs = 1 THEN Ssh!NoRequest ELSE [req[j] EXCEPT !.refs = req[j].refs - 1]
  BY DEF Ssh!Release
<1> HIDE DEF p, r
<1>5. pc'[j] = p /\ \A i \in Ssh!Jobs : i # j => pc'[i] = pc[i]
  BY <1>1
<1>6. req'[j] = r
  BY <1>0, <1>1
<1>7. CASE req[j].broker \in Working
  <2>1. req[j].refs - 1 = 1 /\ req[j].refs # 1
    BY <1>2, <1>7
  <2>2. r = [req[j] EXCEPT !.refs = 1]
    BY <1>4, <2>1
  <2>3. r \in Requested /\ r.refs = 1 /\ r.broker = req[j].broker /\ r.res = req[j].res
    BY <1>0, <2>2 DEF Requested
  <2>4. RequestIs(j)'
    BY <1>1, <1>2, <1>3, <1>5, <1>6, <1>7, <2>3 DEF RequestIs, Working, Trusted
  <2>5. \A i \in Ssh!Jobs : i # j => req[i].broker \notin Working
    BY <1>7 DEF HostKeyInv
  <2> QED  BY <1>0, <1>1, <1>5, <2>3, <2>4, <2>5, RequestKeepsKeys
<1>8. CASE req[j].broker = "done"
  <2>1. r = Ssh!NoRequest
    BY <1>2, <1>4, <1>8
  <2>2. Ssh!NoRequest \in Requested /\ Ssh!NoRequest.broker \notin Working
    BY DEF Ssh!NoRequest, Requested, Working
  <2>3. RequestIs(j)'
    BY <1>1, <1>2, <1>3, <1>5, <1>6, <2>1 DEF RequestIs, Trusted
  <2>4. \A i \in Ssh!Jobs : req[i].broker \in Working => active = TRUE
    <3>1. ASSUME NEW i \in Ssh!Jobs, req[i].broker \in Working PROVE active = TRUE
      <4>1. req[i] # Ssh!NoRequest
        BY <3>1 DEF Ssh!NoRequest, Working
      <4> QED  BY <3>1, <4>1 DEF HostKeyInv, RequestIs
    <3> QED  BY <3>1
  <2> QED  BY <1>0, <1>1, <1>5, <2>1, <2>2, <2>3, <2>4, RequestKeepsKeys
<1> QED  BY <1>2, <1>7, <1>8

\* A worker's way through its phases: the handshake brings the key, and only
\* the host-key phase leads to the phases that trust it.
LEMMA WorkersKeepKeys ==
  ASSUME Ssh!SshBounds, SessionInv, HostKeyInv, NEW j \in Ssh!Jobs,
         \/ Ssh!Advance(j) \/ Ssh!GiveUp(j) \/ Ssh!EndOfFile(j) \/ Ssh!Type(j)
         \/ Ssh!Teardown(j) \/ Ssh!WorkerEnd(j) \/ Ssh!Start(j)
  PROVE  HostKeyInv'
<1>0. /\ DOMAIN pc = Ssh!Jobs /\ RequestIs(j) /\ DOMAIN key = Ssh!Jobs
      /\ pc[j] \in Ssh!PhaseSet(j) \cup {"none", "ended", "suspended"}
      /\ CallerAndWorker(j)
  BY DEF SessionInv, SessionTypes, HostKeyInv
<1>1. /\ known' = known /\ active' = active /\ req' = req
  BY DEF Ssh!Advance, Ssh!GiveUp, Ssh!EndOfFile, Ssh!Type, Ssh!Teardown, Ssh!WorkerEnd,
         Ssh!Start, Ssh!keyVars
<1>2. ASSUME NEW p \in {"teardown", "ended", "suspended"}, pc[j] # "hostkey",
             pc' = [pc EXCEPT ![j] = p], key' = key
      PROVE  HostKeyInv'
  BY <1>0, <1>1, <1>2, PhaseKeepsKeys DEF Trusted
<1>3. ASSUME pc[j] \in Trusted, pc' = [pc EXCEPT ![j] = Ssh!After(j)], key' = key
      PROVE  HostKeyInv'
  <2>1. pc[j] \in Ssh!PhaseSet(j) \ {"teardown"}
    BY <1>0, <1>3 DEF Trusted
  <2>2. Ssh!After(j) \in Trusted \cup {"teardown"}
    BY <1>3, <2>1, AfterIs
  <2>3. key[j] \in HostKeys /\ known = key[j]
    BY <1>0, <1>3 DEF RequestIs
  <2>4. Ssh!After(j) \notin {"none", "connect", "handshake", "hostkey"} /\ pc[j] # "hostkey"
    BY <1>3, <2>2 DEF Trusted
  <2> HIDE DEF Ssh!After
  <2> QED  BY <1>0, <1>1, <1>3, <2>3, <2>4, PhaseKeepsKeys
<1>4. CASE Ssh!Start(j)
  <2>1. owner[j] = "taking" /\ key' = key
    BY <1>4 DEF Ssh!Start
  <2>2. pc[j] = "none" /\ req[j] = Ssh!NoRequest
    BY <1>0, <2>1 DEF CallerAndWorker, RequestIs
  <2>3. CASE pc' = pc
    BY <1>1, <2>1, <2>3, HostKeysStutter
  <2>4. CASE pc' = [pc EXCEPT ![j] = "connect"]
    BY <1>0, <1>1, <2>1, <2>2, <2>4, PhaseKeepsKeys DEF Trusted
  <2> QED  BY <1>4, <2>3, <2>4 DEF Ssh!Start
<1>5. CASE Ssh!Advance(j)
  <2>1. /\ pc[j] \in Ssh!Repeats
        /\ \/ pc' = [pc EXCEPT ![j] = Ssh!After(j)]
           \/ pc' = [pc EXCEPT ![j] = "teardown"]
        /\ pc[j] # "handshake" => key' = key
        /\ pc[j] = "handshake" => \E k \in HostKeys : key' = [key EXCEPT ![j] = k]
    BY <1>5 DEF Ssh!Advance, Ssh!Goto
  <2>2. pc[j] # "hostkey" /\ pc[j] \in Ssh!PhaseSet(j) \ {"teardown"}
    BY <1>0, <2>1 DEF Ssh!Repeats
  <2>3. CASE pc[j] = "connect"
    <3>1. Ssh!After(j) = "handshake" /\ req[j] = Ssh!NoRequest
      BY <1>0, <2>2, <2>3, AfterIs DEF RequestIs
    <3> QED  BY <1>0, <1>1, <1>2, <2>1, <2>2, <2>3, <3>1, PhaseKeepsKeys DEF Trusted
  <2>4. CASE pc[j] = "handshake"
    <3>1. Ssh!After(j) = "hostkey" /\ req[j] = Ssh!NoRequest
      BY <1>0, <2>2, <2>4, AfterIs DEF RequestIs
    <3>2. PICK k \in HostKeys : key' = [key EXCEPT ![j] = k]
      BY <2>1, <2>4
    <3>3. /\ key'[j] = k /\ pc'[j] \in {"hostkey", "teardown"} /\ DOMAIN key' = Ssh!Jobs
          /\ \A i \in Ssh!Jobs : i # j => key'[i] = key[i] /\ pc'[i] = pc[i]
      BY <1>0, <2>1, <3>1, <3>2
    <3>4. RequestIs(j)'
      BY <1>1, <3>1, <3>3 DEF RequestIs, Trusted
    <3>5. \A i \in Ssh!Jobs : i # j => RequestIs(i)'
      BY <1>1, <3>3 DEF HostKeyInv, RequestIs
    <3> QED  BY <1>1, <3>3, <3>4, <3>5 DEF HostKeyInv
  <2>5. CASE pc[j] \notin {"connect", "handshake"}
    <3>1. pc[j] \in Trusted
      BY <2>1, <2>5 DEF Ssh!Repeats, Trusted
    <3> QED  BY <1>2, <1>3, <2>1, <2>2, <2>5, <3>1
  <2> QED  BY <2>3, <2>4, <2>5
<1>6. CASE Ssh!EndOfFile(j)
  <2>1. pc[j] = "io" /\ pc' = [pc EXCEPT ![j] = Ssh!After(j)] /\ key' = key
    BY <1>6 DEF Ssh!EndOfFile, Ssh!Goto
  <2> QED  BY <1>3, <2>1 DEF Trusted
<1>7. CASE Ssh!GiveUp(j) \/ Ssh!Type(j)
  <2>1. /\ pc[j] # "hostkey" /\ key' = key
        /\ pc' = [pc EXCEPT ![j] = "teardown"] \/ pc' = pc
    BY <1>7 DEF Ssh!GiveUp, Ssh!Type, Ssh!Goto, Ssh!Repeats
  <2> QED  BY <1>1, <1>2, <2>1, HostKeysStutter
<1>8. CASE Ssh!Teardown(j) \/ Ssh!WorkerEnd(j)
  <2>1. /\ pc[j] # "hostkey" /\ key' = key
        /\ pc' = [pc EXCEPT ![j] = "ended"] \/ pc' = [pc EXCEPT ![j] = "suspended"]
    BY <1>8 DEF Ssh!Teardown, Ssh!WorkerEnd, Ssh!Goto
  <2> QED  BY <1>2, <2>1
<1> QED  BY <1>4, <1>5, <1>6, <1>7, <1>8

\* Every step of the SSH client keeps the record, and the first key in it.
LEMMA HostKeysKept ==
  ASSUME Ssh!SshBounds, SessionInv, HostKeyInv, Ssh!Next
  PROVE  HostKeyInv' /\ Ssh!FirstKeyStays
<1> PICK j \in Ssh!Jobs :
       \/ Ssh!Ensure(j) \/ Ssh!MakeLock(j) \/ Ssh!Start(j) \/ Ssh!Cancel(j)
       \/ Ssh!ShellWrite(j) \/ Ssh!ShellStop(j) \/ Ssh!Advance(j) \/ Ssh!GiveUp(j)
       \/ Ssh!EndOfFile(j) \/ Ssh!Type(j) \/ Ssh!Expire(j) \/ Ssh!Ask(j) \/ Ssh!Heard(j)
       \/ Ssh!Broker(j) \/ Ssh!Ends(j)
  BY DEF Ssh!Next
<1>0. DOMAIN pc = Ssh!Jobs
  BY DEF SessionInv, SessionTypes
<1>1. CASE Ssh!Broker(j)
  BY <1>0, <1>1, BrokerKeepsKeys
<1>2. CASE Ssh!Ask(j)
  <2>1. known' = known
    BY <1>2 DEF Ssh!Ask
  <2> QED  BY <1>0, <1>2, <2>1, AskKeepsKeys DEF Ssh!FirstKeyStays
<1>3. CASE Ssh!Heard(j)
  <2>1. known' = known
    BY <1>3 DEF Ssh!Heard
  <2> QED  BY <1>0, <1>3, <2>1, HeardKeepsKeys DEF Ssh!FirstKeyStays
<1>4. CASE \/ Ssh!Advance(j) \/ Ssh!GiveUp(j) \/ Ssh!EndOfFile(j) \/ Ssh!Type(j)
           \/ Ssh!Teardown(j) \/ Ssh!WorkerEnd(j) \/ Ssh!Start(j)
  <2>1. known' = known
    BY <1>4 DEF Ssh!Advance, Ssh!GiveUp, Ssh!EndOfFile, Ssh!Type, Ssh!Teardown,
                Ssh!WorkerEnd, Ssh!Start, Ssh!keyVars
  <2> QED  BY <1>4, <2>1, WorkersKeepKeys DEF Ssh!FirstKeyStays
<1>5. CASE \/ Ssh!Ensure(j) \/ Ssh!MakeLock(j) \/ Ssh!Cancel(j) \/ Ssh!ShellWrite(j)
           \/ Ssh!ShellStop(j) \/ Ssh!Expire(j) \/ Ssh!ExecReturn(j) \/ Ssh!ShellWake(j)
           \/ Ssh!ShellFree(j)
  <2>1. pc' = pc /\ key' = key /\ known' = known /\ active' = active /\ req' = req
    BY <1>5 DEF Ssh!Ensure, Ssh!MakeLock, Ssh!Cancel, Ssh!ShellWrite, Ssh!ShellStop,
                Ssh!Expire, Ssh!ExecReturn, Ssh!ShellWake, Ssh!ShellFree, Ssh!keyVars
  <2> QED  BY <2>1, HostKeysStutter DEF Ssh!FirstKeyStays
<1> QED  BY <1>1, <1>2, <1>3, <1>4, <1>5 DEF Ssh!Ends

-----------------------------------------------------------------------------
(* The shell's input *)

\* A step that changes nothing of the shells' input.
LEMMA InputStutters ==
  ASSUME InputInv, input' = input, cancel' = cancel, typed' = typed
  PROVE  InputInv'
BY DEF InputInv

\* What a step that touches the buffer of job j alone has to keep.
LEMMA InputOf ==
  ASSUME InputInv, NEW j \in Ssh!Jobs, NEW s \in Seq({"text", "wake"}),
         NEW c \in BOOLEAN, input' = [input EXCEPT ![j] = s],
         cancel' = [cancel EXCEPT ![j] = c], "wake" \notin typed',
         j \notin Shells => s = <<>>,
         c = FALSE => \A n \in 1 .. Len(s) : s[n] # "wake"
  PROVE  InputInv'
<1>1. /\ input'[j] = s /\ cancel'[j] = c
      /\ \A i \in Ssh!Jobs : i # j => input'[i] = input[i] /\ cancel'[i] = cancel[i]
  BY DEF InputInv
<1>2. input' \in [Ssh!Jobs -> Seq({"text", "wake"})]
  BY DEF InputInv
<1>3. cancel' \in [Ssh!Jobs -> BOOLEAN]
  BY DEF InputInv
<1>4. \A i \in Ssh!Jobs :
        /\ i \notin Shells => input'[i] = <<>>
        /\ ~cancel'[i] => \A n \in 1 .. Len(input'[i]) : input'[i][n] # "wake"
  BY <1>1 DEF InputInv
<1> QED  BY <1>2, <1>3, <1>4 DEF InputInv

\* Every step of the SSH client keeps the wake-up from the remote shell.
LEMMA InputKept ==
  ASSUME Ssh!SshBounds, SessionInv, InputInv, Ssh!Next
  PROVE  InputInv'
<1> PICK j \in Ssh!Jobs :
       \/ Ssh!Ensure(j) \/ Ssh!MakeLock(j) \/ Ssh!Start(j) \/ Ssh!Cancel(j)
       \/ Ssh!ShellWrite(j) \/ Ssh!ShellStop(j) \/ Ssh!Advance(j) \/ Ssh!GiveUp(j)
       \/ Ssh!EndOfFile(j) \/ Ssh!Type(j) \/ Ssh!Expire(j) \/ Ssh!Ask(j) \/ Ssh!Heard(j)
       \/ Ssh!Broker(j) \/ Ssh!Ends(j)
  BY DEF Ssh!Next
<1>0. /\ input \in [Ssh!Jobs -> Seq({"text", "wake"})] /\ "wake" \notin typed
      /\ input[j] \in Seq({"text", "wake"}) /\ cancel[j] \in BOOLEAN
      /\ cancel \in [Ssh!Jobs -> BOOLEAN] /\ CallerAndWorker(j)
      /\ j \notin Shells => input[j] = <<>>
      /\ ~cancel[j] => \A n \in 1 .. Len(input[j]) : input[j][n] # "wake"
      /\ input = [input EXCEPT ![j] = input[j]]
      /\ cancel = [cancel EXCEPT ![j] = cancel[j]]
  BY DEF InputInv, SessionInv
<1>1. <<>> \in Seq({"text", "wake"}) /\ \A n \in 1 .. Len(<<>>) : <<>>[n] # "wake"
  OBVIOUS
<1>2. CASE Ssh!ExecReturn(j)
  <2>1. /\ j \in Commands /\ cancel' = [cancel EXCEPT ![j] = FALSE] /\ input' = input
        /\ typed' = typed
    BY <1>2 DEF Ssh!ExecReturn
  <2>2. input[j] = <<>>
    BY <1>0, <2>1 DEF Ssh!SshBounds
  <2>3. input' = [input EXCEPT ![j] = <<>>]
    BY <1>0, <2>1, <2>2
  <2> QED  BY <1>0, <1>1, <2>1, <2>3, InputOf
<1>3. CASE Ssh!Cancel(j) \/ Ssh!ShellStop(j)
  <2>1. cancel' = [cancel EXCEPT ![j] = TRUE] /\ input' = input /\ typed' = typed
    BY <1>3 DEF Ssh!Cancel, Ssh!ShellStop
  <2> QED  BY <1>0, <2>1, InputOf
<1>4. CASE Ssh!ShellWrite(j)
  <2>1. /\ j \in Shells /\ cancel[j] = FALSE /\ input' = [input EXCEPT ![j] = Append(@, "text")]
        /\ cancel' = cancel /\ typed' = typed
    BY <1>0, <1>4 DEF Ssh!ShellWrite
  <2>2. PICK s : s = Append(input[j], "text")
    OBVIOUS
  <2>3. s \in Seq({"text", "wake"})
    BY <1>0, <2>2
  <2>4. \A n \in 1 .. Len(s) : s[n] # "wake"
    BY <1>0, <2>1, <2>2
  <2>5. input' = [input EXCEPT ![j] = s]
    BY <2>1, <2>2
  <2> QED  BY <1>0, <2>1, <2>3, <2>4, <2>5, InputOf
<1>5. CASE Ssh!ShellWake(j)
  <2>1. /\ j \in Shells /\ cancel' = [cancel EXCEPT ![j] = TRUE]
        /\ input' = [input EXCEPT ![j] = Append(@, "wake")] /\ typed' = typed
    BY <1>5 DEF Ssh!ShellWake
  <2>2. PICK s : s = Append(input[j], "wake")
    OBVIOUS
  <2>3. s \in Seq({"text", "wake"})
    BY <1>0, <2>2
  <2>4. input' = [input EXCEPT ![j] = s]
    BY <2>1, <2>2
  <2> QED  BY <1>0, <2>1, <2>3, <2>4, InputOf
<1>6. CASE Ssh!ShellFree(j)
  <2>1. /\ cancel' = [cancel EXCEPT ![j] = FALSE] /\ input' = [input EXCEPT ![j] = <<>>]
        /\ typed' = typed
    BY <1>6 DEF Ssh!ShellFree
  <2> QED  BY <1>0, <1>1, <2>1, InputOf
<1>7. CASE Ssh!Type(j)
  <2>1. /\ input' = [input EXCEPT ![j] = <<>>] /\ cancel' = cancel
        /\ IF cancel[j] THEN typed' = typed
           ELSE typed' = typed \cup {input[j][i] : i \in DOMAIN input[j]}
    BY <1>7 DEF Ssh!Type
  <2>2. DOMAIN input[j] = 1 .. Len(input[j])
    BY <1>0
  <2>3. "wake" \notin typed'
    BY <1>0, <2>1, <2>2
  <2> QED  BY <1>0, <1>1, <2>1, <2>3, InputOf
<1>8. CASE \/ Ssh!Ensure(j) \/ Ssh!MakeLock(j) \/ Ssh!Start(j) \/ Ssh!Advance(j)
           \/ Ssh!GiveUp(j) \/ Ssh!EndOfFile(j) \/ Ssh!Expire(j) \/ Ssh!Ask(j)
           \/ Ssh!Heard(j) \/ Ssh!Broker(j) \/ Ssh!Teardown(j) \/ Ssh!WorkerEnd(j)
  <2>1. input' = input /\ cancel' = cancel /\ typed' = typed
    BY <1>8 DEF Ssh!Ensure, Ssh!MakeLock, Ssh!Start, Ssh!Advance, Ssh!GiveUp,
       Ssh!EndOfFile, Ssh!Expire, Ssh!Ask, Ssh!Heard, Ssh!Broker, Ssh!BrokerRead,
       Ssh!BrokerReadFails, Ssh!BrokerWrite, Ssh!BrokerEnd, Ssh!Teardown, Ssh!WorkerEnd
  <2> QED  BY <2>1, InputStutters
<1> QED  BY <1>2, <1>3, <1>4, <1>5, <1>6, <1>7, <1>8 DEF Ssh!Ends

\* Every step of the SSH client keeps its invariant, and the first key.
LEMMA SshStep ==
  ASSUME Ssh!SshBounds, SshInv, Ssh!Next
  PROVE  SshInv' /\ Ssh!FirstKeyStays
BY SessionsKept, HostKeysKept, InputKept DEF SshInv

\* What the invariant says of ssh_client.c.
LEMMA SshMeaning ==
  ASSUME Ssh!SshBounds, SshInv
  PROVE  /\ Ssh!SessionsAreSerialized /\ Ssh!SecretsGoToTheKnownHost
         /\ Ssh!NobodyUsesFreed /\ Ssh!NothingIsLeft /\ Ssh!WakeIsNotTyped
<1>0. /\ \A j \in Ssh!Jobs : CallerAndWorker(j) /\ RequestIs(j)
      /\ owner \in [Ssh!Jobs -> SshOwners]
  BY DEF SshInv, SessionInv, SessionTypes, HostKeyInv
<1>1. ASSUME NEW j \in Ssh!Jobs, held[j] # {} PROVE Keeps(j)
  <2>1. pc[j] \in Ssh!PhaseSet(j)
    BY <1>0, <1>1 DEF CallerAndWorker
  <2>2. pc[j] \notin {"none", "suspended"}
    BY <2>1, PhasesAre
  <2> QED  BY <1>0, <2>2 DEF CallerAndWorker, Keeps, SshOwners
<1>2. Ssh!SessionsAreSerialized
  BY <1>1 DEF SshInv, SessionInv, Ssh!SessionsAreSerialized
<1>3. Ssh!SecretsGoToTheKnownHost
  <2>1. ASSUME NEW j \in Ssh!Jobs,
               pc[j] \in Ssh!PhaseSet(j) \ {"connect", "handshake", "hostkey", "teardown"}
        PROVE  pc[j] \in Trusted
    BY <2>1, PhasesAre DEF Trusted
  <2> QED  BY <1>0, <2>1 DEF RequestIs, Ssh!SecretsGoToTheKnownHost
<1>4. Ssh!NobodyUsesFreed
  <2>1. ASSUME NEW j \in Ssh!Jobs, req[j].broker \in {"read", "write", "end"}
        PROVE  req[j].refs > 0
    <3>1. req[j] # Ssh!NoRequest /\ req[j].broker \in Working
      BY <2>1 DEF Ssh!NoRequest, Working
    <3> QED  BY <1>0, <3>1 DEF RequestIs
  <2> QED  BY <1>0, <2>1 DEF CallerAndWorker, Ssh!NobodyUsesFreed
<1>5. Ssh!NothingIsLeft
  <2>1. ASSUME NEW j \in Ssh!Jobs, owner[j] = "gone" PROVE held[j] = {} /\ ~secret[j]
    <3>1. pc[j] \notin Ssh!PhaseSet(j)
      BY <1>0, <2>1, PhasesAre DEF CallerAndWorker
    <3> QED  BY <1>0, <2>1, <3>1 DEF CallerAndWorker
  <2> QED  BY <2>1 DEF Ssh!NothingIsLeft
<1>6. Ssh!WakeIsNotTyped
  BY DEF SshInv, InputInv, Ssh!WakeIsNotTyped
<1> QED  BY <1>2, <1>3, <1>4, <1>5, <1>6

-----------------------------------------------------------------------------
(* The parts together *)

\* A behaviour begins in one part.
LEMMA InitOfPart ==
  ASSUME Init
  PROVE  /\ part = "power" => Power!PowerInit
         /\ part = "rails" => Rails!RailInit
         /\ part = "boot keys" => BootKeys!BootInit
         /\ part = "display" => Display!Init
         /\ part = "ssh" => Ssh!Init
BY Zenon DEF Init

\* It stays there, and takes that part's steps.
LEMMA StepOfPart ==
  ASSUME Next
  PROVE  /\ part' = part
         /\ part = "power" => Power!PowerNext
         /\ part = "rails" => Rails!RailNext
         /\ part = "boot keys" => BootKeys!BootNext
         /\ part = "display" => Display!Next
         /\ part = "ssh" => Ssh!Next
BY Zenon DEF Next

\* The power lines (power_control.c, ms2109_power.c): the map in use is valid, a
\* button nobody presses is up, at most one is down, the locator shows its state,
\* the rails rise and fall in order and an "off" stays, for all pins, default
\* maps, callers and numbers of calls, failed saves and power losses.
THEOREM PowerLinesStaySafe ==
  ASSUME Power!PowerBounds
  PROVE  Spec => []PowerLinesAreSafe
<1> DEFINE IInv == (part = "power" => PowerInv) /\ (part = "rails" => RailInv)
<1>1. Init => IInv
  BY InitOfPart, PowerInitially, RailsInitially
<1>2. IInv /\ [Next]_vars => IInv'
  <2> SUFFICES ASSUME IInv, [Next]_vars PROVE IInv'  OBVIOUS
  <2>1. CASE Next
    BY <2>1, StepOfPart, PowerStep, RailsStep
  <2>2. CASE UNCHANGED vars
    <3>1. part' = part /\ UNCHANGED powerVars /\ UNCHANGED railVars /\ count' = count
      BY <2>2 DEF vars
    <3>2. PowerInv => PowerInv'
      BY <3>1 DEF powerVars, PowerInv, PowerTypes, PressIsKnown, ButtonsRest
    <3>3. RailInv => RailInv'
      BY <3>1 DEF railVars, RailInv, RailTypes, HolderSwitches, RailsOnTheWay, OffIsHeeded,
                  OffIsWanted
    <3> QED  BY <3>1, <3>2, <3>3
  <2> QED  BY <2>1, <2>2
<1>3. IInv => PowerLinesAreSafe
  BY PowerMeaning, RailsMeaning DEF PowerLinesAreSafe
<1> QED  BY <1>1, <1>2, <1>3, PTL DEF Spec

\* The plans (boot_key_manager.c, host_display_manager.c): a canceled boot plan
\* sends at most the key already decided, a verified one sent all it promised,
\* and the display tool executes the plan that was approved, for all numbers of
\* workers, plans, keys and calls.
THEOREM PlansAreAlwaysCarriedOut ==
  ASSUME BootKeys!BootBounds, Display!DisplayBounds
  PROVE  Spec => []PlansAreCarriedOut
<1> DEFINE IInv == (part = "boot keys" => BootInv) /\ (part = "display" => DisplayInv)
<1>1. Init => IInv
  BY InitOfPart, BootInitially, DisplayInitially
<1>2. IInv /\ [Next]_vars => IInv'
  <2> SUFFICES ASSUME IInv, [Next]_vars PROVE IInv'  OBVIOUS
  <2>1. CASE Next
    BY <2>1, StepOfPart, BootStep, DisplayStep
  <2>2. CASE UNCHANGED vars
    <3>1. part' = part /\ UNCHANGED bootVars /\ UNCHANGED displayVars /\ task' = task
      BY <2>2 DEF vars
    <3>2. BootInv => BootInv'
      BY <3>1, BootStutters DEF bootVars
    <3>3. DisplayInv => DisplayInv'
      BY <3>1 DEF displayVars, DisplayInv, DisplayTypes, PlanIsOnRecord, ReadingHolds
    <3> QED  BY <3>1, <3>2, <3>3
  <2> QED  BY <2>1, <2>2
<1>3. IInv => PlansAreCarriedOut
  BY BootMeaning, DisplayMeaning DEF PlansAreCarriedOut
<1> QED  BY <1>1, <1>2, <1>3, PTL DEF Spec

\* A step that changes nothing of the SSH client.
LEMMA SshStutters ==
  ASSUME SshInv, UNCHANGED <<sshVars, pc, secret>>
  PROVE  SshInv'
BY SessionsStutter, HostKeysStutter, InputStutters DEF sshVars, SshInv

\* The SSH client (ssh_client.c, ssh_hostkey_store.c), once s_ssh_lock exists:
\* one session at a time, secrets only for the host on record, nothing freed that
\* is in use, nothing left behind and no wake-up typed, for all commands, shells,
\* host keys and numbers of faults.
THEOREM SshStaysOneAtATime ==
  ASSUME Ssh!SshBounds
  PROVE  Spec => []SshIsOneAtATime
<1> DEFINE IInv == part = "ssh" => SshInv
<1>1. Init => IInv
  BY InitOfPart, SshInitially
<1>2. IInv /\ [Next]_vars => IInv'
  <2> SUFFICES ASSUME IInv, [Next]_vars PROVE IInv'  OBVIOUS
  <2>1. CASE Next
    BY <2>1, StepOfPart, SshStep
  <2>2. CASE UNCHANGED vars
    BY <2>2, SshStutters DEF vars
  <2> QED  BY <2>1, <2>2
<1>3. IInv => SshIsOneAtATime
  BY SshMeaning DEF SshIsOneAtATime
<1> QED  BY <1>1, <1>2, <1>3, PTL DEF Spec

\* The first host key on record is never replaced (ssh_hostkey_store.c), not even
\* by a broker whose caller has given up, and a boot key goes out only under an
\* approval in force and from one worker (boot_key_manager.c).
THEOREM NothingGoesUnasked ==
  ASSUME Ssh!SshBounds, BootKeys!BootBounds
  PROVE  Spec => NothingIsReplacedUnasked
<1> DEFINE IInv == (part = "ssh" => SshInv) /\ (part = "boot keys" => BootInv)
           A == /\ part = "ssh" => Ssh!FirstKeyStays
                /\ part = "boot keys" => BootKeys!KeysNeedApproval
<1>1. Init => IInv
  BY InitOfPart, SshInitially, BootInitially
<1>2. IInv /\ [Next]_vars => IInv'
  <2> SUFFICES ASSUME IInv, [Next]_vars PROVE IInv'  OBVIOUS
  <2>1. CASE Next
    BY <2>1, StepOfPart, SshStep, BootStep
  <2>2. CASE UNCHANGED vars
    <3>1. /\ part' = part /\ UNCHANGED bootVars /\ task' = task
          /\ UNCHANGED <<sshVars, pc, secret>>
      BY <2>2 DEF vars
    <3>2. BootInv => BootInv'
      BY <3>1, BootStutters DEF bootVars
    <3> QED  BY <3>1, <3>2, SshStutters
  <2> QED  BY <2>1, <2>2
<1>3. IInv /\ [Next]_vars => [A]_vars
  BY StepOfPart, SshStep, KeysAreApproved
<1> QED  BY <1>1, <1>2, <1>3, PTL DEF Spec, NothingIsReplacedUnasked
=============================================================================
