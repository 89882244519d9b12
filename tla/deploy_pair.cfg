SPECIFICATION Spec
CONSTANTS
  a = a
  b = b
  c = c
  d = d
  Invs = {a, b}
  Kind <- CallDeploy
  InitCode = TRUE
  CounterOption = None
  NoCounter = None
  Faulty = TRUE
  TTL = 0
  MaxLevel = 1
  MaxOthers = 1
CHECK_DEADLOCK FALSE
INVARIANTS TypeOK ReportFaithful RaisedMeansNotInjected
PROPERTIES ServiceSpec Termination
