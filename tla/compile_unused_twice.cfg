SPECIFICATION Spec
CONSTANTS
  Families = {"unused twice"}
  Programs <- SomePrograms
  Inputs <- SomeInputs
  Peepholes = {TRUE}
  Gas = 4
CHECK_DEADLOCK FALSE
INVARIANTS ValueKept
