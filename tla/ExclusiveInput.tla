---------------------------- MODULE ExclusiveInput ----------------------------
(***************************************************************************)
(* What the HID manager promises the target host: its input comes from one *)
(* holder at a time.  A holder is named by the generation of its token.    *)
(* Control never passes from one holder to another directly, and nobody is *)
(* given control while the host still holds a key or a button.             *)
(***************************************************************************)
EXTENDS Naturals

CONSTANTS Endpoints, Keys

VARIABLES
  holder,  \* the generation in control, 0 if none
  last,    \* the last generation minted
  held     \* by endpoint, the keys and buttons the host holds down

vars == <<holder, last, held>>

Init ==
  /\ holder = 0 /\ last = 0
  /\ held = [e \in Endpoints |-> {}]

NothingPressed == \A e \in Endpoints : held'[e] \subseteq held[e]

\* Control is given, under a new generation, to a host that holds nothing.
Grant ==
  /\ holder = 0 /\ \A e \in Endpoints : held[e] = {}
  /\ holder' > last /\ last' = holder'
  /\ UNCHANGED held

\* The holder changes what the host holds.
Report ==
  /\ holder # 0
  /\ held' \in [Endpoints -> SUBSET Keys]
  /\ UNCHANGED <<holder, last>>

\* Control ends, or a revocation is announced; keys may only come up.
Withdraw ==
  /\ holder' \in {0, holder} /\ last' \in {last, last + 1}
  /\ held' \in [Endpoints -> SUBSET Keys] /\ NothingPressed

Next == Grant \/ Report \/ Withdraw

Spec == Init /\ [][Next]_vars
===============================================================================
