---------------------------- MODULE MCControlPlane ----------------------------
(***************************************************************************)
(* Three instances of ControlPlane for TLC, each rich in one thing: a      *)
(* lease that the embedded producers, a browser and an MCP session compete *)
(* for; a KVM whose streams alternate while the automation takes over; and *)
(* pages that are reloaded, with two sockets and sessions that replace     *)
(* each other (the constants of this module itself).  A behaviour is one   *)
(* of one part, chosen in the initial state.                               *)
(***************************************************************************)
EXTENDS ControlPlane, TLC

CONSTANTS agentRun, bootPlan, robot

VARIABLE part

Browser == [session |-> "browser", auth |-> 1]
SecondBrowser == [session |-> "second", auth |-> 2]
Mcp == [session |-> "mcp", auth |-> 3]

NoSet == {}
TwoBrowsers == {Browser, SecondBrowser}
OneStream == {1}

Leases == INSTANCE ControlPlane WITH
  Browsers <- {Browser}, Mcps <- {Mcp}, Producers <- {agentRun, bootPlan},
  Modes <- {"supervised", "observe"}, PendingSlots <- 1, Actors <- {},
  Streams <- {}, Sockets <- {}, MaxGen <- 8, MaxEpoch <- 4
Streaming == INSTANCE ControlPlane WITH
  Browsers <- {Browser}, Mcps <- {}, Producers <- {}, PendingSlots <- 0,
  Actors <- {robot}, Streams <- {1, 2}, Sockets <- {}, MaxGen <- 7, MaxEpoch <- 4

\* Sockets differ in nothing but their state.
SocketSymmetry == Permutations(Sockets)

partVars == <<part, vars>>

PartInit ==
  \/ part = "leases" /\ Leases!Init
  \/ part = "kvm" /\ Streaming!Init
  \/ part = "pages" /\ Init

PartNext ==
  \/ part = "leases" /\ Leases!Next /\ UNCHANGED part
  \/ part = "kvm" /\ Streaming!Next /\ UNCHANGED part
  \/ part = "pages" /\ Next /\ UNCHANGED part

PartSpec == PartInit /\ [][PartNext]_partVars

-----------------------------------------------------------------------------
\* status_ws.c on the handshake of a socket: "Do not let its eager HID WebSocket
\* replace a live Agent/MCP input lease".
SocketLeavesLease == [][part = "pages" => LeaseKeepsToken]_partVars
===============================================================================
