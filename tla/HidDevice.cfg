CONSTANTS
  None = None
  k1 = k1
  t1 = t1
  t2 = t2
  Tasks <- TwoTasks
  Claims <- TwoClaims
  Endpoints <- KeyAndMouse
  Keyboard = "kb"
  Keys <- OneKey
  KeySlots = 6
  Commands <- CompositeCommands
  ProducerSlots = 1
  FenceMod = 3
  MaxGen = 3
  RacyUsb = FALSE
SYMMETRY TaskSymmetry
SPECIFICATION Spec
INVARIANTS TypeOK RunningCommandIsAuthorized DirtyReportsAreOwned BoundIsCurrent
PROPERTIES HandoffNeutral NoReportAfterRevoke ImplementsExclusiveInput
