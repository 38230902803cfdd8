SPECIFICATION Spec
CONSTANTS
  Unused = Unused
  Raw = Raw
  Memories = {m1, m2}
  Jobs = {j1, j2}
  FileLines = 3
  FileFaults = 2
  Callers = {agent, web}
  Turns = {t1, t2}
  PoolSize = 2
  SlotUses <- FewUses
  HistoryLines = 4
  HistoryFaults = 2
  Events = {e1, e2}
  JournalMax = 6
  MaxDamage = 1
  Internal = {i1}
  External = {x1, x2}
  Empty = Empty
  Values = {Empty, v1}
  None = None
  MaxCalls = 4
  Images = {1, 2, 3}
  First = 1
  Missing = Missing
  SchemaFaults = 5
  Passwords = {p1, p2}
  Random = Random
  MaxEpochs = 2
  MaxWrites = 3
  AccountFaults = 2
  MaxSecrets = 2
  MaxStep = 3
  Recovery = {1}
  MaxFailures = 2
  CodeGens = 3
  CodeFaults = 2
  KeyIds = {k1, k2}
  Holders = {h1, h2}
  KeyLimit = 2
  SpentSlots = 1
  MaxChallenges = 3
  MaxCounter = 1
  KeyGens = 2
  KeyFaults = 1
  Static = {static, used}
  Dhcp = {dhcp}
  InUse = {used}
  Broken = Broken
  MaxStages = 2
  NetworkFaults = 2
INVARIANTS RecordsAreKept HistoryIsKept SettingsAreSound PasswordIsWhatWasAcknowledged FactorIsGoodOnce NetworkIsConfirmed
PROPERTIES ImplementsDurableLog
SYMMETRY Symmetry
CHECK_DEADLOCK FALSE
