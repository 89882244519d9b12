SPECIFICATION Spec
CONSTANTS
  Families = {"checked first"}
  Programs <- SomePrograms
  Inputs <- SomeInputs
  Peepholes = {TRUE}
  Gas = 4
CHECK_DEADLOCK FALSE
INVARIANTS FailureKept
