----------------------------- MODULE Submission -----------------------------
(***************************************************************************)
(* What a caller of LiquidDeploy may rely on, whatever the node, the       *)
(* network and the other invocations do: an operation lands on the node at *)
(* most once; a verdict is given at most once; a verdict that carries an   *)
(* operation hash is given only for an operation that has landed; and only *)
(* an invocation that is still running, or that has raised, may see its    *)
(* operation land from then on.                                            *)
(***************************************************************************)
CONSTANT Invs       \* the invocations of the client

Verdicts == {"none", "ok", "error", "unit", "forged", "raised"}
WithHash == {"ok", "error"}

VARIABLES
  landed,           \* the invocations whose operation the node has taken
  verdict           \* what each invocation has returned, "none" while it runs

vars == <<landed, verdict>>

Init ==
  /\ landed = {}
  /\ verdict = [i \in Invs |-> "none"]

Land(i) ==
  /\ i \notin landed
  /\ verdict[i] \in {"none", "raised"}
  /\ landed' = landed \cup {i}
  /\ UNCHANGED verdict

(* Several invocations may be given their verdicts by one event: all the   *)
(* promises that wait for one answer are rejected together.                *)
Report(S) ==
  \E v \in [S -> Verdicts \ {"none"}] :
    /\ \A i \in S : verdict[i] = "none" /\ (v[i] \in WithHash => i \in landed)
    /\ verdict' = [i \in Invs |-> IF i \in S THEN v[i] ELSE verdict[i]]
    /\ UNCHANGED landed

Next ==
  \/ \E i \in Invs : Land(i)
  \/ \E S \in SUBSET Invs : Report(S)

Spec == Init /\ [][Next]_vars
=============================================================================
