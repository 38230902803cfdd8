SPECIFICATION Spec
CONSTANTS
  Unused = Unused
  None = None
  Commands = {e1, e2}
  Shells = {s1}
  HostKeys = {k1, k2}
  SshFaults = 2
  e0 = e0
  k0 = k0
  a = a
  b = b
  star = star
  w1 = w1
  w2 = w2
  w3 = w3
  Gpios = {1, 2, 3, 4, 5}
  Taken = {}
  ReturnPin = 4
  NoPin = 0
  PowerPin = 1
  ResetPin = 2
  DetectPin = 0
  LocatorPin = 3
  Pressers = {agent, web}
  PowerCalls = 2
  PowerFaults = 1
  RailCalls = 4
  ColdStarts = 2
  BootTasks = {w1, w2}
  MaxDelay = 1
  MaxKeys = 2
  MaxTimeout = 2
  BootPlans = 2
  MaxLockFails = 1
  Modes = {m1, m2}
  DisplayPlans = 3
  MaxCalls = 4
INVARIANTS SshIsOneAtATime SerialBytesAreKept PowerLinesAreSafe PlansAreCarriedOut
PROPERTIES NothingIsReplacedUnasked
SYMMETRY Symmetry
CHECK_DEADLOCK FALSE
