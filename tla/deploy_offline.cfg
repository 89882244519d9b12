SPECIFICATION Spec
CONSTANTS
  a = a
  b = b
  c = c
  d = d
  Invs = {a, b, c}
  Kind <- Offline
  InitCode = TRUE
  CounterOption = 1
  NoCounter = None
  Faulty = TRUE
  TTL = 1
  MaxLevel = 2
  MaxOthers = 1
CHECK_DEADLOCK FALSE
INVARIANTS DeliveryInv
PROPERTIES ServiceSpec
