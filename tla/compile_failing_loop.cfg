SPECIFICATION Spec
CONSTANTS
  Families = {"failing loop"}
  Programs <- SomePrograms
  Inputs <- SomeInputs
  Peepholes = {TRUE}
  Gas = 4
CHECK_DEADLOCK FALSE
INVARIANTS FailwithInTail
