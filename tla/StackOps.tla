------------------------------ MODULE StackOps ------------------------------
(***************************************************************************)
(* The stack instructions the back end moves around, as operators on       *)
(* stacks: a stack is a sequence, its top comes first.  DUP n copies the   *)
(* n-th element (Liquidity's n-ary DUP), DIP_DROP(n, m) keeps the n first  *)
(* elements and drops the m that follow them.                              *)
(***************************************************************************)
EXTENDS Integers, Sequences

DupTop(s, n) == [k \in 1..(Len(s) + 1) |-> IF k = 1 THEN s[n] ELSE s[k - 1]]
PushTop(s, v) == [k \in 1..(Len(s) + 1) |-> IF k = 1 THEN v ELSE s[k - 1]]
SwapTop(s) == [k \in 1..Len(s) |-> IF k = 1 THEN s[2] ELSE IF k = 2 THEN s[1] ELSE s[k]]
DropUnder(s, n, m) == [k \in 1..(Len(s) - m) |-> IF k <= n THEN s[k] ELSE s[k + m]]
DropTop(s) == DropUnder(s, 0, 1)

(* An instruction that replaces its first `taken' elements by the value    *)
(* res computes from them.                                                 *)
Replace(s, taken, v) ==
  [k \in 1..(Len(s) - taken + 1) |-> IF k = 1 THEN v ELSE s[k + taken - 1]]
=============================================================================
