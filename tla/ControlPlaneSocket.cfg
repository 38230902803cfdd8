SPECIFICATION PartSpec
CONSTANTS
  agentRun = agentRun
  bootPlan = bootPlan
  robot = robot
  Browsers <- TwoBrowsers
  Mcps <- NoSet
  SessionSlots = 1
  Producers = {}
  Modes = {"supervised"}
  PendingSlots = 1
  Actors = {}
  Streams <- OneStream
  CanceledSlots = 1
  Sockets = {oldPage, newPage}
  MaxGen = 6
  MaxEpoch = 3
PROPERTY SocketLeavesLease
SYMMETRY SocketSymmetry
CHECK_DEADLOCK FALSE
