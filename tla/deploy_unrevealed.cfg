SPECIFICATION Spec
CONSTANTS
  a = a
  b = b
  c = c
  d = d
  Invs = {a}
  Kind <- OneDeploy
  InitCode = FALSE
  CounterOption = None
  NoCounter = None
  Faulty = FALSE
  TTL = 1
  MaxLevel = 1
  MaxOthers = 0
CHECK_DEADLOCK FALSE
INVARIANTS DeployReturnsAddress
