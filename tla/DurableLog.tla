------------------------------ MODULE DurableLog ------------------------------
(***************************************************************************)
(* What the agent's event journal promises to its users: an append that is *)
(* acknowledged is never lost or reordered, an append that is refused      *)
(* leaves no trace while the log keeps serving, and one that is cut off by *)
(* a crash or a failed undo is in limbo until the next recovery decides    *)
(* for it or against it, once.                                             *)
(***************************************************************************)
EXTENDS Sequences

CONSTANT Events

VARIABLES
  log,       \* what was acknowledged or recovered, in order
  limbo,     \* at most one event nobody was told about
  serving    \* appends are accepted

LogInit == log = <<>> /\ limbo = <<>> /\ serving = FALSE

\* An append that returns ESP_OK.
Store(e) ==
  serving /\ log' = Append(log, e) /\ UNCHANGED <<limbo, serving>>

\* An append that fails: undone, or the log stops and the event is in limbo.
Refuse(e) ==
  /\ serving /\ UNCHANGED log
  /\ \/ UNCHANGED <<limbo, serving>>
     \/ serving' = FALSE /\ limbo' \in {<<>>, <<e>>}

\* The log stops by itself: the card is gone, or a scan met a fault.
Stop == serving' = FALSE /\ UNCHANGED <<log, limbo>>

\* A restart, perhaps in the middle of the append of e.
Restart == Stop
RestartDuring(e) ==
  serving /\ serving' = FALSE /\ UNCHANGED log /\ limbo' \in {<<>>, <<e>>}

Recover ==
  /\ log' \in {log, log \o limbo} /\ limbo' = <<>> /\ serving' = TRUE

LogNext ==
  \/ \E e \in Events : Store(e) \/ Refuse(e) \/ RestartDuring(e)
  \/ Stop \/ Restart \/ Recover

LogSpec == LogInit /\ [][LogNext]_<<log, limbo, serving>>
===============================================================================
