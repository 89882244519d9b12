-------------------------- MODULE MCLiquidPeephole --------------------------
(***************************************************************************)
(* The peephole optimizer, on every well-typed block of up to MaxLength    *)
(* instructions of one vocabulary: its shuffles, operators and blocks.     *)
(* The block runs on a stack of distinct values with one boolean, for both *)
(* its values.                                                             *)
(***************************************************************************)
EXTENDS LiquidPeephole
CONSTANTS MaxLength, Vocabularies

VARIABLES vocabulary, code, result
vars == <<vocabulary, code, result>>

Initial(b) == <<IntV(1), BoolV(b), IntV(3), IntV(4), IntV(5), IntV(6)>>
Runs(block) == [b \in BOOLEAN |-> Run(block, Initial(b), 0)]

(* How many elements an instruction needs, and of which kind.              *)
Needs(i) == CASE i[1] \in {"PUSH", "LAMBDA"} -> 0
              [] i[1] = "DUP" -> i[2]
              [] i[1] = "DIP_DROP" -> i[2] + i[3]
              [] i[1] = "SWAP" -> 2
              [] i[1] = "IF" -> 4
              [] i[1] = "DIP" -> i[2] + 2
              [] i[1] \in DOMAIN Arity -> Arity[i[1]]
              [] i[1] \in {"EXEC", "SEQ"} -> 2
              [] OTHER -> 1

Fits(i, s) == /\ Len(s) >= Needs(i)
              /\ i[1] = "IF" => s[1][1] = "bool"
              /\ i[1] = "EXEC" => s[2][1] = "lambda"
              /\ i[1] = "CONS" => s[2][1] = "list"

Append1(i) ==
  /\ Len(code) < MaxLength
  /\ \A b \in BOOLEAN : result[b].status = "ok" => Fits(i, result[b].stack)
  /\ code' = Append(code, i)
  /\ result' = Runs(code')
  /\ UNCHANGED vocabulary

Shuffle == \E i \in vocabulary.shuffles : Append1(i)
Operate == \E i \in vocabulary.operators : Append1(i)
Branch == \E i \in vocabulary.blocks : Append1(i)
Fail == Append1(<<"FAILWITH">>)

Init == vocabulary \in Vocabularies /\ code = << >> /\ result = Runs(<< >>)
Next == Shuffle \/ Operate \/ Branch \/ Fail
Spec == Init /\ [][Next]_vars

(* Two vocabularies: every shuffle with a few operators, and every rule's  *)
(* operators and blocks with a few shuffles.                               *)
One == <<"PUSH", IntV(7)>>
DropsUnder(N, M) == {DipDrop(n, m) : n \in N, m \in M}
ManyShuffles == {Dup(n) : n \in 1..4} \cup DropsUnder(1..3, 1..3) \cup {Drop, Swap}
FewShuffles == {Dup(2), Drop, Swap, DipDrop(1, 1), DipDrop(2, 2)}
SimpleOperators == {One, <<"SOME">>, <<"PAIR">>}
AllOperators ==
  SimpleOperators \cup {<<"PUSH", ListV(<< >>)>>, <<"CONS">>, <<"EXEC">>,
                        <<"TRANSFER_TOKENS">>, <<"LAMBDA", <<<<"FAILWITH">>>>>>}
NoBlocks == {<<"SEQ", <<Dup(1), Drop, <<"SOME">>>>>>}
Bodies == {<< <<Drop>>, <<Drop>> >>,
           << <<DipDrop(1, 1), Dup(1)>>, <<DipDrop(1, 2), One, One>> >>,
           << <<DipDrop(1, 2)>>, <<DipDrop(1, 1), <<"PAIR">>>> >>,
           << <<Dup(1), <<"FAILWITH">>, Drop>>, <<Drop, Dup(1)>> >>}
AllBlocks == {<<"IF", p[1], p[2]>> : p \in Bodies}
             \cup {<<"DIP", n, <<Dup(1), <<"PAIR">>>>>> : n \in 0..2}
             \cup {<<"DIP", 1, << <<"FAILWITH">> >>>>, <<"SEQ", <<Swap, <<"SOME">>>>>>}
TwoVocabularies ==
  {[shuffles |-> ManyShuffles, operators |-> SimpleOperators, blocks |-> NoBlocks],
   [shuffles |-> FewShuffles, operators |-> AllOperators, blocks |-> AllBlocks]}

-----------------------------------------------------------------------------
(* Optimized code does what the code did: it leaves the same stack, or     *)
(* fails with the same value, whichever branch is taken and whatever drops *)
(* were moved across failing calls (simplify_step's rewriting rules).      *)
SameMeaning == Runs(Simplify(code)) = result

(* No drop is left where a rule could move it: the rules are applied       *)
(* again to what each of them produces ("move DIP_DROPs backwards").  Two  *)
(* drops may stay side by side: dip_drop's result is not simplified again. *)
Movable(e, d) ==
  LET under == d[1] = "DIP_DROP" IN
  \/ e[1] \in Takes0 \cup Takes1 \cup {"DUP"} /\ d = Drop
  \/ e[1] \in Takes0 /\ under
  \/ e[1] \in Takes1 \cup Takes2 \cup Takes3 /\ under /\ d[2] > 0
  \/ e[1] = "SWAP" /\ under /\ d[2] > 1
  \/ e[1] = "DUP" /\ under /\ ~(e[2] = d[2] /\ d[3] = 1)
DropsMovedBack ==
  LET c == Simplify(code) IN \A k \in 1..(Len(c) - 1) : ~Movable(c[k], c[k + 1])
=============================================================================
