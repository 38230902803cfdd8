SPECIFICATION FairSpec
CONSTANTS
  Unused = Unused
  None = None
  Missing = Missing
  Raw = Raw
  Empty = Empty
  Broken = Broken
  k1 = k1
  t1 = t1
  t2 = t2
  agentRun = agentRun
  w1 = w1
  w2 = w2
  power = power
  uart = uart
  maint = maint
  r1 = r1
  r2 = r2
  i1 = i1
  x1 = x1
  v1 = v1
  e1 = e1
  s1 = s1
  static = static
  used = used
  dhcp = dhcp
PROPERTIES  EndedSessionLosesControl
CHECK_DEADLOCK FALSE
