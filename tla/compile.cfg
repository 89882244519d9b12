SPECIFICATION Spec
CONSTANTS
  Families = {"bindings", "matchings", "uses", "loops", "data", "functions", "contracts"}
  Programs <- SomePrograms
  Inputs <- SomeInputs
  Peepholes = {TRUE, FALSE}
  Gas = 4
CHECK_DEADLOCK FALSE
INVARIANTS MeaningKept ValueKept PinnedFailureKept EmittedIsPlain FailwithInTail
