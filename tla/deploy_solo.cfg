SPECIFICATION Spec
CONSTANTS
  a = a
  b = b
  c = c
  d = d
  Invs = {a, b, c, d}
  Kind <- OneOfEach
  InitCode = TRUE
  CounterOption = None
  NoCounter = None
  Faulty = FALSE
  TTL = 1
  MaxLevel = 1
  MaxOthers = 0
CHECK_DEADLOCK FALSE
INVARIANTS SoloSucceeds
