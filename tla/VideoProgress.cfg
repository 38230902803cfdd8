SPECIFICATION FairSpec
CONSTANTS
  Unused = Unused
  Readers = {r1, r2}
  Capacity = 3
  MaxFrames = 3
  MaxClears = 2
  s1 = s1
  p1 = p1
  KvmSizes = {"hd", "sd"}
  KvmRates = {"r25", "r30"}
  KvmCards <- SomeCards
  CaptureOps = 3
  LockBudget = 1
  SaveBudget = 1
  Crashes = 1
  Cards = 2
  CodecModes = {"hd", "sd"}
  CfgMode = "hd"
  Epochs = 2
  Workers = {a1}
  Sockets = {5, 6}
  KvmStreams = {1, 2}
  FirstStream = 1
  Overlap = TRUE
  StreamLimits <- SomeLimits
PROPERTIES VideoWaitsEnd ViewersAreServed CaptureComesToRest
CHECK_DEADLOCK FALSE
