--------------------------- MODULE LiquidPeephole ---------------------------
(***************************************************************************)
(* The peephole optimizer, src/tools/liquidity/liquidPeephole.ml: rewrites *)
(* of adjacent instructions that move DIP_DROPs backwards.  A block is     *)
(* simplified from its end: Step(e, exprs) puts e in front of exprs, which *)
(* are simplified already.  Locations and annotations are left out.        *)
(***************************************************************************)
EXTENDS Michelson

(* Instructions that take no argument and give one result, take one, two   *)
(* or three and give one: what a DIP_DROP that follows them may cross.     *)
(* The source names some sixty; each class keeps those that LiquidMichelson*)
(* emits here, the others of its class behave alike.                       *)
Takes0 == {"PUSH", "LAMBDA"}
Takes1 == {"CAR", "CDR", "CDAR", "CDDR", "GE", "EQ", "SOME", "ABS", "INT",
           "NEG", "LEFT", "RIGHT", "RENAME"}
Takes2 == {"PAIR", "SUB", "COMPARE", "CONS", "EXEC", "MEM"}
Takes3 == {"TRANSFER_TOKENS", "UPDATE"}

Drops(n) == [k \in 1..n |-> Drop]
DipDropCode(n, m) == IF n = 0 THEN Drops(m) ELSE <<DipDrop(n, m)>>

(* Does a block start with these instructions?                             *)
Starts(exprs, names) ==
  /\ Len(exprs) >= Len(names)
  /\ \A k \in DOMAIN names : exprs[k][1] = names[k]

Smallest(a, b) == IF a < b THEN a ELSE b

RECURSIVE Simplify(_), SimplifyPre(_), Step(_, _), Steps(_, _)

SimplifyPre(e) ==
  CASE e[1] = "SEQ" -> <<"SEQ", Simplify(e[2])>>
    [] e[1] \in {"IF", "IF_NONE", "IF_LEFT", "IF_CONS"} ->
         <<e[1], Simplify(e[2]), Simplify(e[3])>>
    [] e[1] = "DIP" -> <<"DIP", e[2], Simplify(e[3])>>
    [] e[1] \in {"LOOP", "ITER", "MAP", "LAMBDA"} -> <<e[1], Simplify(e[2])>>
    [] OTHER -> e

(* simplify_seq: what follows a FAILWITH is dropped.                       *)
Simplify(exprs) ==
  IF exprs = << >> THEN << >>
  ELSE LET e == SimplifyPre(Head(exprs))
       IN  IF e[1] = "FAILWITH" THEN <<e>> ELSE Step(e, Simplify(Tail(exprs)))

Steps(list, tail) ==
  IF list = << >> THEN tail
  ELSE Steps(SubSeq(list, 1, Len(list) - 1), Step(list[Len(list)], tail))

(* Mutant of StepDup: a copy made after the drop keeps its index.         *)
StepDupSameIndex(n, m, p, exprs) ==
  IF n < m THEN Step(DipDrop(m - 1, p), Step(Dup(n), exprs))
  ELSE IF m = 1 THEN Drops(p) \o Step(Dup(n), exprs)
  ELSE Step(DipDrop(m - 1, p), Step(Dup(n), exprs))

(* Mutant of Cross: a rewritten instruction is not looked at again.        *)
CrossOnce(e, taken, exprs) ==
  <<DipDrop(exprs[1][2] + taken - 1, exprs[1][3]), e>> \o Tail(exprs)

(* Both branches of a conditional start by dropping.                       *)
StepIf(e, exprs) ==
  LET a == e[2]
      b == e[3]
      dropping(c, op) == c # << >> /\ c[1][1] = op
  IN
  CASE dropping(a, "DROP") /\ dropping(b, "DROP") ->
         Step(DipDrop(1, 1), Step(<<"IF", Tail(a), Tail(b)>>, exprs))
    [] dropping(a, "DIP_DROP") /\ dropping(b, "DIP_DROP") /\ a[1][2] = b[1][2] ->
         LET n == a[1][2]
             least == Smallest(a[1][3], b[1][3])
             rest(c) == Step(DipDrop(n, c[1][3] - least), Tail(c))
         IN  Step(DipDrop(n + 1, least), Step(<<"IF", rest(a), rest(b)>>, exprs))
    [] OTHER -> <<e>> \o exprs

(* DUP n; DIP_DROP (m, p): the general case.                               *)
StepDup(n, m, p, exprs) ==
  CASE n < m -> IF m = 1 THEN Drops(p) \o Step(Dup(n), exprs)
                ELSE Step(DipDrop(m - 1, p), Step(Dup(n), exprs))
    [] n >= m + p -> IF m = 1 THEN Drops(p) \o Step(Dup(n - p), exprs)
                     ELSE Step(DipDrop(m - 1, p), Step(Dup(n - p), exprs))
    [] n >= m /\ n < m + p /\ p = 1 -> <<Dup(n), DipDrop(m, p)>> \o exprs
    [] OTHER ->
         LET x == n - m
             y == p - x - 1
             c1 == Step(Dup(n - x), Step(DipDrop(m, 1), exprs))
             c2 == IF y > 0 THEN Step(DipDrop(m, y), c1) ELSE c1
         IN  IF x > 0 THEN DipDropCode(m - 1, x) \o c2 ELSE c2

StepDupDipDrop(n, m, p, exprs) ==
  CASE n = 1 /\ m = 1 /\ p = 1 -> exprs
    [] n = 1 /\ m = 1 /\ p > 1 -> Step(DipDrop(1, p - 1), exprs)
    [] n = 2 /\ m = 1 /\ p = 1 -> Step(Drop, Step(Dup(1), exprs))
    [] n = 2 /\ m = 1 /\ p = 2 -> Step(Drop, exprs)
    [] n = 3 /\ m = 2 /\ p = 2 -> Step(Swap, Step(Drop, Step(Swap, exprs)))
    [] n = 2 /\ m = 2 /\ p = 1 -> Step(Swap, exprs)
    [] OTHER -> StepDup(n, m, p, exprs)

(* An instruction that takes `taken' elements and gives one, followed by a *)
(* DIP_DROP below its result.                                              *)
Cross(e, taken, exprs) ==
  LET d == Head(exprs)
  IN  Step(DipDrop(d[2] + taken - 1, d[3]), Step(e, Tail(exprs)))

Step(e, exprs) ==
  LET op == e[1]
      dipdrop == Starts(exprs, <<"DIP_DROP">>)
      n == exprs[1][2]
      m == exprs[1][3]
      rest == Tail(exprs)
      below == dipdrop /\ n > 0
  IN
  CASE op = "SEQ" -> Steps(e[2], exprs)
    [] op = "DIP_DROP" /\ e[3] = 0 -> exprs
    [] op = "DIP" /\ e[2] = 0 -> Steps(e[3], exprs)
    [] op = "DUP" /\ Starts(exprs, <<"DROP">>) -> rest
    [] e = Dup(1) /\ Starts(exprs, <<"SWAP", "DROP">>) -> From(exprs, 3)
    [] op = "FAILWITH" -> <<e>>
    [] op = "IF" -> StepIf(e, exprs)
    [] op \in Takes0 /\ dipdrop ->
         IF n > 0 THEN DipDropCode(n - 1, m) \o Step(e, rest)
         ELSE IF m = 1 THEN rest
         ELSE <<DipDrop(n, m - 1)>> \o rest
    [] op \in Takes0 /\ Starts(exprs, <<"DROP">>) -> rest
    [] op \in Takes1 /\ below -> Cross(e, 1, exprs)
    [] op \in Takes1 /\ Starts(exprs, <<"DROP">>) -> exprs
    [] op \in Takes2 /\ below -> Cross(e, 2, exprs)
    [] op \in Takes3 /\ below -> Cross(e, 3, exprs)
    [] op = "SWAP" /\ below /\ n > 1 -> Step(DipDrop(n, m), Step(e, rest))
    [] op = "DIP" /\ e[2] > 0 /\ Starts(exprs, <<"DROP">>) ->
         <<Drop>> \o Step(<<"DIP", e[2] - 1, e[3]>>, rest)
    [] op = "DIP_DROP" /\ dipdrop /\ n = e[2] -> <<DipDrop(n, e[3] + m)>> \o rest
    [] op = "PUSH" /\ e[2][1] = "list" /\ Starts(exprs, <<"PUSH", "CONS">>) ->
         Step(<<"PUSH", ListV(<<exprs[1][2]>> \o e[2][2])>>, From(exprs, 3))
    [] op = "DUP" /\ dipdrop -> StepDupDipDrop(e[2], n, m, rest)
    [] e = Dup(2) /\ Starts(exprs, <<"SWAP", "DROP">>) ->
         Step(Drop, Step(Dup(1), From(exprs, 3)))
    [] OTHER -> <<e>> \o exprs
=============================================================================
