----------------------------- MODULE LiquidEmit -----------------------------
(***************************************************************************)
(* The emitter, src/tools/liquidity/liquidEmit.ml, with ~expand:true: the  *)
(* compiler's own instructions (n-ary DUP and DIP, CDAR, CDDR, DIP_DROP)   *)
(* become plain Michelson.  An OCaml assertion that fails is the           *)
(* instruction ASSERT.  Annotations are left out.                          *)
(***************************************************************************)
EXTENDS Michelson

AssertFalse == <<"ASSERT">>
Times(n, i) == [k \in 1..n |-> i]

RECURSIVE EmitCode(_)
EmitSeq(code) == [k \in DOMAIN code |-> EmitCode(code[k])]

(* Mutant of EmitDup: the DUP inside is not emitted in its turn.           *)
EmitDupOnce(n) == <<"SEQ", <<<<"DIP", 1, <<<<"DUP", n - 1>>>>>>, <<"SWAP">>>>>>

EmitDup(n) ==
  EmitCode(<<"SEQ", <<<<"DIP", 1, <<<<"DUP", n - 1>>>>>>, <<"SWAP">>>>>>)

EmitCode(i) ==
  LET op == i[1] IN
  CASE op \in {"SEQ", "LOOP", "LOOP_LEFT", "ITER", "MAP", "LAMBDA"} ->
         <<op, EmitSeq(i[2])>>
    [] op \in {"IF", "IF_NONE", "IF_CONS", "IF_LEFT"} ->
         <<op, EmitSeq(i[2]), EmitSeq(i[3])>>
    [] op = "DIP" ->
         IF i[2] = 0 THEN AssertFalse
         ELSE IF i[2] = 1 THEN <<"DIP", 1, EmitSeq(i[3])>>
         ELSE <<"DIP", 1, <<EmitCode(<<"DIP", i[2] - 1, i[3]>>)>>>>
    [] op = "DUP" ->
         IF i[2] = 0 THEN AssertFalse ELSE IF i[2] = 1 THEN i ELSE EmitDup(i[2])
    [] op = "CDAR" -> <<"SEQ", Times(i[2], <<"CDR">>) \o <<<<"CAR">>>>>>
    [] op = "CDDR" -> <<"SEQ", Times(i[2], <<"CDR">>) \o <<<<"CDR">>>>>>
    [] op = "DIP_DROP" -> EmitCode(<<"DIP", i[2], Times(i[3], <<"DROP">>)>>)
    [] OTHER -> i
=============================================================================
