--------------------------- MODULE LiquidMichelson --------------------------
(***************************************************************************)
(* The code generator, src/tools/liquidity/liquidMichelson.ml.  Compile(d, *)
(* env, e) is the code that puts the value of e on top of a stack of depth *)
(* d, where env says at which depth each variable was pushed.  After it,   *)
(* finalize_fail_pre removes what follows a FAILWITH.                      *)
(***************************************************************************)
EXTENDS LiquidSyntax

Pair == <<"PAIR">>
Car == <<"CAR">>
Cdr == <<"CDR">>
Rename == <<"RENAME">>
Dip(code) == <<"DIP", 1, code>>
Push(v) == <<"PUSH", v>>

(* A variable that is not found ends the compilation with an error.        *)
NotFound == <<"ASSERT">>

Reversed(s) == [k \in DOMAIN s |-> s[Len(s) + 1 - k]]

(* Opens a pair, its first component on top.                               *)
Unpair == <<Dup(1), Dip(<<Cdr>>), Car>>
(* The argument of a folding body: the element paired with the accumulator.*)
PairWithAcc == <<Dip(<<Dup(1)>>), Pair>>

Access(n, size) == IF n = size - 1 THEN <<"CDDR", n - 1>> ELSE <<"CDAR", n>>

PrimCode(prim) ==
  CASE prim = "sub" -> <<<<"SUB">>>>
    [] prim = "eq" -> <<<<"COMPARE">>, <<"EQ">>>>
    [] prim = "ge" -> <<<<"COMPARE">>, <<"GE">>>>
    [] prim = "abs" -> <<<<"ABS">>, <<"INT">>>>
    [] prim = "neg" -> <<<<"NEG">>>>
    [] prim = "Cons" -> <<<<"CONS">>>>
    [] prim = "Some" -> <<<<"SOME">>>>
    [] prim = "Left" -> <<<<"LEFT">>>>
    [] prim = "Right" -> <<<<"RIGHT">>>>
    [] prim = "set_add" -> <<Dip(<<Push(BoolV(TRUE))>>), <<"UPDATE">>>>
    [] prim = "set_remove" -> <<Dip(<<Push(BoolV(FALSE))>>), <<"UPDATE">>>>
    [] prim = "set_mem" -> <<<<"MEM">>>>

RECURSIVE Compile(_, _, _), CompileArgs(_, _, _), CompileTuple(_, _, _)
RECURSIVE CompileTuple1(_, _, _), CompileTupleSet(_, _, _, _, _)
RECURSIVE CompileRecordSet(_, _, _, _, _), CompileCases(_, _, _)

(* The last argument first, so that the first is on top.                   *)
CompileArgs(d, env, es) ==
  IF es = << >> THEN << >>
  ELSE CompileArgs(d, env, Tail(es)) \o Compile(d + Len(es) - 1, env, Head(es))

(* es comes last component first.                                          *)
CompileTuple(d, env, es) == Compile(d, env, Head(es)) \o CompileTuple1(d, env, Tail(es))
CompileTuple1(d, env, es) ==
  IF es = << >> THEN << >>
  ELSE Compile(d + 1, env, Head(es)) \o <<Pair>> \o CompileTuple1(d, env, Tail(es))

(* x.(n) <- y, x being on top of the stack.                                *)
CompileTupleSet(last, d, env, n, y) ==
  IF n = 0
  THEN IF last THEN <<Drop>> \o Compile(d - 1, env, y)
       ELSE <<Cdr>> \o Compile(d, env, y) \o <<Pair>>
  ELSE <<Dup(1), Car, Swap, Cdr>> \o CompileTupleSet(last, d + 1, env, n - 1, y)
       \o <<Swap, Pair>>

(* x.f <- y, f being the n-th of the size fields that are left.            *)
CompileRecordSet(d, env, size, n, y) ==
  IF size = 2
  THEN IF n = 1 THEN <<Car>> \o Compile(d, env, y) \o <<Swap, Pair>>
       ELSE <<Cdr>> \o Compile(d, env, y) \o <<Pair>>
  ELSE IF n = 0 THEN <<Cdr>> \o Compile(d, env, y) \o <<Pair>>
  ELSE <<Dup(1), Car, Swap, Cdr>> \o CompileRecordSet(d + 1, env, size - 1, n - 1, y)
       \o <<Swap, Pair>>

CompileCases(d, env, cases) ==
  LET x == cases[1][1]
      e == cases[1][2]
      left == IF x = NoArg THEN <<Drop>> \o Compile(d, env, e)
              ELSE <<Rename>> \o Compile(d + 1, Bind(env, x, d), e) \o <<DipDrop(1, 1)>>
  IN  IF x = Wildcard THEN <<Drop>> \o Compile(d, env, e)
      ELSE IF Len(cases) = 1 THEN left
      ELSE <<<<"IF_LEFT", left, CompileCases(d, env, Tail(cases))>>>>

CompileLet(d, env, x, e1, e2) ==
  Compile(d, env, e1) \o Compile(d + 1, Bind(env, x, d), e2) \o <<DipDrop(1, 1)>>

(* The accumulator, the argument, and what runs the body on them.          *)
CompileFolding(d, env, e, instruction, prologue, epilogue) ==
  Compile(d, env, e.acc) \o Compile(d + 1, env, e.arg)
  \o (IF e.desc = "LoopLeftAcc" THEN <<<<"LEFT">>>> ELSE << >>)
  \o <<<<instruction, <<Rename>> \o prologue
           \o Compile(d + 2, Bind(env, e.arg_name, d + 1), e.body)
           \o <<DipDrop(1, 2)>> \o epilogue>>>>

Compile(d, env, e) ==
  LET Under1(x, body) == Compile(d + 1, Bind(env, x, d), body) \o <<DipDrop(1, 1)>> IN
  CASE e.desc = "Error" -> <<NotFound>>
    [] e.desc = "Var" /\ e.name \notin DOMAIN env -> <<NotFound>>
    [] e.desc = "Var" /\ e.name \in DOMAIN env -> <<Dup(d - env[e.name])>>
    [] e.desc = "Const" -> <<Push(e.const)>>
    [] e.desc \in {"Project", "TupleGet"} ->
         Compile(d, env, e.record) \o <<Access(e.n, e.size)>>
    [] e.desc = "SetField" ->
         Compile(d, env, e.record) \o CompileRecordSet(d + 1, env, e.size, e.n, e.set_val)
    [] e.desc = "TupleSet" ->
         Compile(d, env, e.record)
         \o CompileTupleSet(e.size = e.n + 1, d + 1, env, e.n, e.set_val)
    [] e.desc = "Seq" -> Compile(d, env, e.e1) \o <<Drop>> \o Compile(d, env, e.e2)
    [] e.desc = "Let" -> CompileLet(d, env, e.bnd_var, e.bnd_val, e.body)
    [] e.desc = "Lambda" ->
         <<<<"LAMBDA", <<Rename>> \o Compile(1, e.arg_name :> 0, e.body)
                       \o <<DipDrop(1, 1)>>>>>>
    [] e.desc = "Closure" ->
         (IF Len(e.call_env) = 1 THEN Compile(d, env, e.call_env[1])
          ELSE CompileTuple(d, env, Reversed(e.call_env)))
         \o Compile(d, env, Lambda(e.arg_name, e.body)) \o <<Pair>>
    [] e.desc = "If" ->
         Compile(d, env, e.cond)
         \o <<<<"IF", Compile(d, env, e.ifthen), Compile(d, env, e.ifelse)>>>>
    [] e.desc = "Transfer" ->
         Compile(d, env, e.contract) \o Compile(d + 1, env, e.amount)
         \o Compile(d + 2, env, e.arg) \o <<<<"TRANSFER_TOKENS">>>>
    [] e.desc = "Failwith" -> Compile(d, env, e.arg) \o <<<<"FAILWITH">>>>
    [] e.desc = "Exec" /\ e.fun.ty[1] = "closure" ->
         Compile(d, env, e.fun) \o Compile(d + 1, env, e.arg)
         \o <<Dip(<<Dup(1), Car, Swap, Cdr>>), Pair, <<"EXEC">>>>
    [] e.desc = "Exec" -> CompileArgs(d, env, <<e.arg, e.fun>>) \o <<<<"EXEC">>>>
    [] e.desc = "Apply" -> CompileArgs(d, env, e.args) \o PrimCode(e.prim)
    [] e.desc \in {"Tuple", "Record"} -> CompileTuple(d, env, Reversed(e.args))
    [] e.desc = "MatchOption" ->
         Compile(d, env, e.arg)
         \o <<<<"IF_NONE", Compile(d, env, e.ifnone), Under1(e.some_name, e.ifsome)>>>>
    [] e.desc = "MatchNat" ->
         Compile(d, env, e.arg)
         \o <<Dup(1), <<"ABS">>, Swap, <<"GE">>,
              <<"IF", Under1(e.plus_name, e.ifplus), Under1(e.minus_name, e.ifminus)>>>>
    [] e.desc = "MatchList" ->
         Compile(d, env, e.arg)
         \o <<<<"IF_CONS",
                Compile(d + 2, Bind(Bind(env, e.tail_name, d), e.head_name, d + 1), e.ifcons)
                \o <<DipDrop(1, 2)>>,
                Compile(d, env, e.ifnil)>>>>
    [] e.desc = "MatchVariant" -> Compile(d, env, e.arg) \o CompileCases(d, env, e.cases)
    [] e.desc = "Loop" ->
         Compile(d, env, e.arg) \o <<Push(BoolV(TRUE))>>
         \o <<<<"LOOP", <<Rename>> \o Under1(e.arg_name, e.body)
                        \o <<Dup(1), Car, Dip(<<Cdr>>)>>>>>>
    [] e.desc = "LoopLeft" ->
         Compile(d, env, e.arg)
         \o <<<<"LEFT">>, <<"LOOP_LEFT", <<Rename>> \o Under1(e.arg_name, e.body)>>>>
    [] e.desc = "LoopLeftAcc" ->
         CompileFolding(d, env, e, "LOOP_LEFT", PairWithAcc, Unpair) \o <<Pair>>
    [] e.desc = "Iter" -> CompileFolding(d, env, e, "ITER", << >>, << >>)
    [] e.desc = "Fold" -> CompileFolding(d, env, e, "ITER", PairWithAcc, << >>)
    [] e.desc = "Map" ->
         Compile(d, env, e.arg)
         \o <<<<"MAP", <<Rename>> \o Under1(e.arg_name, e.body)>>>>
    [] e.desc = "MapFold" ->
         CompileFolding(d, env, e, "MAP", PairWithAcc, Unpair) \o <<Pair>>

(* The code of a contract: it opens (parameter, storage), and drops both   *)
(* below the result.                                                       *)
TranslateCode(parameter_name, storage_name, e) ==
  Unpair \o Compile(2, (storage_name :> 0) @@ (parameter_name :> 1), e)
  \o <<DipDrop(1, 2)>>

-----------------------------------------------------------------------------
RECURSIVE EndFails(_), FinalizeFailPre(_), FinalizeFail(_)

EndFails(i) ==
  LET ends(code) == code # << >> /\ EndFails(code[Len(code)]) IN
  \/ i[1] = "FAILWITH"
  \/ i[1] = "SEQ" /\ ends(i[2])
  \/ i[1] \in {"IF", "IF_NONE", "IF_LEFT", "IF_CONS"} /\ ends(i[2]) /\ ends(i[3])
  \/ i[1] = "DIP" /\ ends(i[3])

FinalizeFailPre(i) ==
  CASE i[1] \in {"SEQ", "LOOP", "ITER", "MAP", "LAMBDA"} -> <<i[1], FinalizeFail(i[2])>>
    [] i[1] \in {"IF", "IF_NONE", "IF_LEFT", "IF_CONS"} ->
         <<i[1], FinalizeFail(i[2]), FinalizeFail(i[3])>>
    [] i[1] = "DIP" -> <<"DIP", i[2], FinalizeFail(i[3])>>
    [] OTHER -> i

FinalizeKeepsAll(code) == [k \in DOMAIN code |-> FinalizeFailPre(code[k])]

(* finalize_fail_seq                                                       *)
FinalizeFail(code) ==
  IF code = << >> THEN << >>
  ELSE LET i == FinalizeFailPre(Head(code))
       IN  IF EndFails(i) THEN <<i>> ELSE <<i>> \o FinalizeFail(Tail(code))
=============================================================================
