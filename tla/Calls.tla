-------------------------------- MODULE Calls --------------------------------
(***************************************************************************)
(* One call of a function that keeps nothing: an initial state is which    *)
(* function it is with its arguments, the only step returns.               *)
(***************************************************************************)
VARIABLES
  test,       \* the function that is called, and its arguments
  result      \* what it returned

nvars == <<test, result>>

NotCalled == [of |-> "nothing yet"]

CallOneOf(calls) == test \in calls /\ result = NotCalled

Call(of, value) ==
  /\ test.of = of
  /\ result = NotCalled
  /\ result' = [of |-> of, is |-> value]
  /\ UNCHANGED test

Returned(of) == test.of = of /\ result # NotCalled
==============================================================================
