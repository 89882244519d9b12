----------------------------- MODULE Michelson ------------------------------
(***************************************************************************)
(* The stack machine the compiler generates code for: what each Michelson  *)
(* instruction the back end emits does to the stack.  DIP_DROP and n-ary   *)
(* DUP, DIP are the compiler's own pseudo-instructions, given their meaning*)
(* by LiquidEmit.  A code block is a sequence of instructions, an          *)
(* instruction a tuple whose first element is its name; a value is a tuple *)
(* whose first element is its constructor; the top of a stack comes first. *)
(* The gas of the machine bounds how many loop iterations it runs.         *)
(***************************************************************************)
EXTENDS StackOps

IntV(n) == <<"int", n>>
BoolV(b) == <<"bool", b>>
PairV(x, y) == <<"pair", x, y>>
ListV(l) == <<"list", l>>
SetV(S) == <<"set", S>>
SomeV(v) == <<"some", v>>
LeftV(v) == <<"left", v>>
RightV(v) == <<"right", v>>
LambdaV(code) == <<"lambda", code>>
NoneV == <<"none">>
UnitV == <<"unit">>

Drop == <<"DROP">>
Swap == <<"SWAP">>
Dup(n) == <<"DUP", n>>
DipDrop(n, m) == <<"DIP_DROP", n, m>>

(* A run ends with a stack, or fails with a value, or is out of gas.       *)
Ok(s) == [status |-> "ok", stack |-> s]
Failed(v) == [status |-> "failed", stack |-> <<v>>]
OutOfGas == [status |-> "gas", stack |-> << >>]

From(s, n) == SubSeq(s, n, Len(s))
Keep(s, n) == SubSeq(s, 1, n)

Abs(n) == IF n < 0 THEN -n ELSE n

(* Instructions that replace their arguments by one result: their arity    *)
(* and their result, the top of the stack being the first argument.        *)
Arity == [PAIR |-> 2, SUB |-> 2, COMPARE |-> 2, CONS |-> 2, MEM |-> 2,
          CAR |-> 1, CDR |-> 1, SOME |-> 1, LEFT |-> 1, RIGHT |-> 1,
          EQ |-> 1, GE |-> 1, ABS |-> 1, INT |-> 1, NEG |-> 1, RENAME |-> 1,
          TRANSFER_TOKENS |-> 3, UPDATE |-> 3]

Result(op, s) ==
  CASE op = "PAIR" -> PairV(s[1], s[2])
    [] op = "SUB" -> IntV(s[1][2] - s[2][2])
    [] op = "COMPARE" -> IntV(IF s[1] = s[2] THEN 0
                              ELSE IF s[1][2] < s[2][2] THEN -1 ELSE 1)
    [] op = "CONS" -> ListV(<<s[1]>> \o s[2][2])
    [] op = "MEM" -> BoolV(s[1] \in s[2][2])
    [] op = "UPDATE" -> SetV(IF s[2][2] THEN s[3][2] \cup {s[1]} ELSE s[3][2] \ {s[1]})
    [] op = "CAR" -> s[1][2]
    [] op = "CDR" -> s[1][3]
    [] op = "SOME" -> SomeV(s[1])
    [] op = "LEFT" -> LeftV(s[1])
    [] op = "RIGHT" -> RightV(s[1])
    [] op = "EQ" -> BoolV(s[1][2] = 0)
    [] op = "GE" -> BoolV(s[1][2] >= 0)
    [] op = "ABS" -> IntV(Abs(s[1][2]))
    [] op = "NEG" -> IntV(-s[1][2])
    [] op \in {"INT", "RENAME"} -> s[1]
    [] op = "TRANSFER_TOKENS" -> <<"operation", s[1], s[2], s[3]>>

RECURSIVE Exec(_, _, _), Run(_, _, _), Loop(_, _, _), LoopLeft(_, _, _)
RECURSIVE Iter(_, _, _, _), MapAll(_, _, _, _, _)

(* Runs a block: the first instruction that fails ends it.                 *)
Run(code, s, gas) ==
  IF code = << >> THEN Ok(s)
  ELSE LET r == Exec(Head(code), s, gas)
       IN  IF r.status = "ok" THEN Run(Tail(code), r.stack, gas) ELSE r

(* Runs a block below the first n elements of the stack.                   *)
Under(top, r) == IF r.status = "ok" THEN Ok(top \o r.stack) ELSE r

Exec(i, s, gas) ==
  LET op == i[1] IN
  CASE op = "SEQ" -> Run(i[2], s, gas)
    [] op = "PUSH" -> Ok(PushTop(s, i[2]))
    [] op = "LAMBDA" -> Ok(PushTop(s, LambdaV(i[2])))
    [] op = "DROP" -> Ok(DropTop(s))
    [] op = "DUP" -> Ok(DupTop(s, i[2]))
    [] op = "SWAP" -> Ok(SwapTop(s))
    [] op = "DIP" -> Under(Keep(s, i[2]), Run(i[3], From(s, i[2] + 1), gas))
    [] op = "DIP_DROP" -> Ok(DropUnder(s, i[2], i[3]))
    [] op = "CDAR" -> Run([k \in 1..i[2] |-> <<"CDR">>] \o <<<<"CAR">>>>, s, gas)
    [] op = "CDDR" -> Run([k \in 1..i[2] |-> <<"CDR">>] \o <<<<"CDR">>>>, s, gas)
    [] op = "FAILWITH" -> Failed(s[1])
    [] op = "ASSERT" -> Failed(<<"error">>)
    [] op = "IF" -> Run(IF s[1][2] THEN i[2] ELSE i[3], Tail(s), gas)
    [] op = "IF_NONE" -> IF s[1] = NoneV THEN Run(i[2], Tail(s), gas)
                         ELSE Run(i[3], <<s[1][2]>> \o Tail(s), gas)
    [] op = "IF_LEFT" -> Run(IF s[1][1] = "left" THEN i[2] ELSE i[3],
                             <<s[1][2]>> \o Tail(s), gas)
    [] op = "IF_CONS" -> IF s[1][2] = << >> THEN Run(i[3], Tail(s), gas)
                         ELSE Run(i[2], <<Head(s[1][2]), ListV(Tail(s[1][2]))>>
                                          \o Tail(s), gas)
    [] op = "EXEC" -> LET r == Run(s[2][2], <<s[1]>>, gas)
                      IN  IF r.status = "ok" THEN Ok(r.stack \o From(s, 3)) ELSE r
    [] op = "LOOP" -> Loop(i[2], s, gas)
    [] op = "LOOP_LEFT" -> LoopLeft(i[2], s, gas)
    [] op = "ITER" -> Iter(i[2], s[1][2], Tail(s), gas)
    [] op = "MAP" -> MapAll(i[2], s[1][2], << >>, Tail(s), gas)
    [] OTHER -> Ok(Replace(s, Arity[op], Result(op, s)))

Loop(body, s, gas) ==
  IF gas = 0 THEN OutOfGas
  ELSE IF ~s[1][2] THEN Ok(Tail(s))
  ELSE LET r == Run(body, Tail(s), gas)
       IN  IF r.status = "ok" THEN Loop(body, r.stack, gas - 1) ELSE r

LoopLeft(body, s, gas) ==
  LET s1 == <<s[1][2]>> \o Tail(s) IN
  IF gas = 0 THEN OutOfGas
  ELSE IF s[1][1] = "right" THEN Ok(s1)
  ELSE LET r == Run(body, s1, gas)
       IN  IF r.status = "ok" THEN LoopLeft(body, r.stack, gas - 1) ELSE r

Iter(body, l, s, gas) ==
  IF l = << >> THEN Ok(s)
  ELSE LET r == Run(body, <<Head(l)>> \o s, gas)
       IN  IF r.status = "ok" THEN Iter(body, Tail(l), r.stack, gas) ELSE r

MapAll(body, l, done, s, gas) ==
  IF l = << >> THEN Ok(<<ListV(done)>> \o s)
  ELSE LET r == Run(body, <<Head(l)>> \o s, gas)
       IN  IF r.status = "ok"
           THEN MapAll(body, Tail(l), Append(done, r.stack[1]), Tail(r.stack), gas)
           ELSE r
=============================================================================
