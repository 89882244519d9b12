SPECIFICATION Spec
CONSTANTS
  Families = {"inlined in function"}
  Programs <- SomePrograms
  Inputs <- SomeInputs
  Peepholes = {TRUE}
  Gas = 4
CHECK_DEADLOCK FALSE
INVARIANTS FunctionsArePure
