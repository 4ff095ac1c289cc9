SPECIFICATION IntakeSpec
CHECK_DEADLOCK FALSE
CONSTANTS
  a = a
  b = b
  k1 = k1
  k2 = k2
  f1 = f1
  f2 = f2
  Call = {1, 2}
  Name = {k1, k2}
  Resource = {a, b}
  Fact = {f1, f2}
  Request <- AllRequests
  None = None
  MaxFaults = 0
PROPERTIES NeverOverwritten
