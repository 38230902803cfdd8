SPECIFICATION ApprovalSpec
CONSTANTS
  Unused = Unused
  r1 = r1
  r2 = r2
  r3 = r3
  s1 = s1
  s2 = s2
  k1 = k1
  k2 = k2
  k3 = k3
  a1 = a1
  a2 = a2
  Runs = {r1, r2, r3}
  Steps = {s1, s2}
  PendingCapacity = 1
  StepCapacity = 2
  MaxCount = 3
  Resources = {power}
  Channels = {uart}
  Maint = maint
  Uart = uart
  GenMod = 99
  MaxOps = 2
  MaxMaint = 1
  MaxRuns = 2
  MaxGrants = 2
  None = none
  Capacity = 2
  Inputs <- AllInputs
  Legacy <- LegacyInput
  Agent = "agent"
  MinTtl = 1
  MaxTtl = 2
  DefaultTtl = 2
  MaxTime = 3
  MaxSeq = 3
  MaxResets = 1
INVARIANTS ApprovalStaysInside OperationsAreApart
PROPERTIES ApprovalIsUsedOnce
CHECK_DEADLOCK FALSE
