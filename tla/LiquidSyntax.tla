---------------------------- MODULE LiquidSyntax ----------------------------
(***************************************************************************)
(* The expressions of the passes from the type checker on (liquidTypes.ml, *)
(* exp_desc), one constructor each, and what they mean.  Records and       *)
(* tuples are nested pairs, a variant of n cases nested LEFTs and RIGHTs.  *)
(* Locations and names for annotations are left out; the encoder adds the  *)
(* flags and the types that later passes read.                             *)
(***************************************************************************)
EXTENDS Michelson, TLC

(* The name of a pattern without a variable, of a constructor without an   *)
(* argument, and of a function that is not recursive.                      *)
Wildcard == "_"
NoArg == "_noarg"
NotRecursive == "_none"

Var(x) == [desc |-> "Var", name |-> x]
Const(v) == [desc |-> "Const", const |-> v]
LetIn(x, inline, e1, e2) ==
  [desc |-> "Let", bnd_var |-> x, inline |-> inline, bnd_val |-> e1, body |-> e2]
Let(x, e1, e2) == LetIn(x, FALSE, e1, e2)
Sequence(e1, e2) == [desc |-> "Seq", e1 |-> e1, e2 |-> e2]
If(c, e1, e2) == [desc |-> "If", cond |-> c, ifthen |-> e1, ifelse |-> e2]
Failwith(e) == [desc |-> "Failwith", arg |-> e]
Apply(prim, args) == [desc |-> "Apply", prim |-> prim, args |-> args]
Tuple(args) == [desc |-> "Tuple", args |-> args]
TupleGet(e, n, size) == [desc |-> "TupleGet", record |-> e, n |-> n, size |-> size]
(* The fields of a record in the order of its type, a field as its place.  *)
Record(args) == [desc |-> "Record", args |-> args]
Project(e, n, size) == [desc |-> "Project", record |-> e, n |-> n, size |-> size]
SetField(e, n, size, v) ==
  [desc |-> "SetField", record |-> e, n |-> n, size |-> size, set_val |-> v]
TupleSet(e, n, size, v) ==
  [desc |-> "TupleSet", record |-> e, n |-> n, size |-> size, set_val |-> v]
RecLambda(f, x, e) ==
  [desc |-> "Lambda", arg_name |-> x, body |-> e, recursive |-> f]
Lambda(x, e) == RecLambda(NotRecursive, x, e)
Closure(x, es, e) == [desc |-> "Closure", arg_name |-> x, call_env |-> es, body |-> e]
Execute(e, f) == [desc |-> "Exec", arg |-> e, fun |-> f]
Transfer(c, a, e) == [desc |-> "Transfer", contract |-> c, amount |-> a, arg |-> e]
MatchOption(e, e1, x, e2) ==
  [desc |-> "MatchOption", arg |-> e, ifnone |-> e1, some_name |-> x, ifsome |-> e2]
MatchNat(e, x, e1, y, e2) ==
  [desc |-> "MatchNat", arg |-> e, plus_name |-> x, ifplus |-> e1,
   minus_name |-> y, ifminus |-> e2]
MatchList(e, x, y, e1, e2) ==
  [desc |-> "MatchList", arg |-> e, head_name |-> x, tail_name |-> y,
   ifcons |-> e1, ifnil |-> e2]
(* The n-th constructor of size, counted from 0.                           *)
Constructor(n, size, e) ==
  [desc |-> "Constructor", n |-> n, size |-> size, arg |-> e]
(* A case is <<x, e>>: x is the name of the constructor's argument, or     *)
(* NoArg, or Wildcard, which comes last.                                   *)
MatchVariant(e, cases) == [desc |-> "MatchVariant", arg |-> e, cases |-> cases]
Loop1(x, e, init) == [desc |-> "Loop", arg_name |-> x, body |-> e, arg |-> init]
LoopLeft1(x, e, init) == [desc |-> "LoopLeft", arg_name |-> x, body |-> e, arg |-> init]
LoopLeftAcc(x, e, init, acc) ==
  [desc |-> "LoopLeftAcc", arg_name |-> x, body |-> e, arg |-> init, acc |-> acc]
Fold(x, e, l, acc) ==
  [desc |-> "Fold", arg_name |-> x, body |-> e, arg |-> l, acc |-> acc]
IterAll(x, e, l, acc) ==
  [desc |-> "Iter", arg_name |-> x, body |-> e, arg |-> l, acc |-> acc]
Map(x, e, l) == [desc |-> "Map", arg_name |-> x, body |-> e, arg |-> l]
MapFold(x, e, l, acc) ==
  [desc |-> "MapFold", arg_name |-> x, body |-> e, arg |-> l, acc |-> acc]
(* A pass that raised an exception.                                        *)
Error == [desc |-> "Error"]

Bind(env, x, v) == (x :> v) @@ env

-----------------------------------------------------------------------------
(* The meaning of an expression: a value, or a failure with a value.       *)
Then(r, F(_)) == IF r.status = "ok" THEN F(r.stack[1]) ELSE r
Value(v) == Ok(<<v>>)

(* Nested pairs: the components after the n-th, the n-th of `size', and    *)
(* the nest with the n-th replaced.                                        *)
RECURSIVE NestPairs(_), Nth(_, _, _), WithNth(_, _, _, _), Inject(_, _, _)
(* The value of constructor n of size: Right n times, then Left but for    *)
(* the last.                                                               *)
Inject(n, size, v) ==
  IF size = 1 THEN v ELSE IF n = 0 THEN LeftV(v)
  ELSE RightV(Inject(n - 1, size - 1, v))
NestPairs(vs) ==
  IF Len(vs) = 1 THEN vs[1] ELSE PairV(vs[1], NestPairs(Tail(vs)))
Nth(v, n, size) ==
  IF size = 1 THEN v ELSE IF n = 0 THEN v[2] ELSE Nth(v[3], n - 1, size - 1)
WithNth(v, n, size, x) ==
  IF size = 1 THEN x ELSE IF n = 0 THEN PairV(x, v[3])
  ELSE PairV(v[2], WithNth(v[3], n - 1, size - 1, x))

Primitive(prim, vs) ==
  CASE prim = "sub" -> IntV(vs[1][2] - vs[2][2])
    [] prim = "eq" -> BoolV(vs[1] = vs[2])
    [] prim = "ge" -> BoolV(vs[1][2] >= vs[2][2])
    [] prim = "abs" -> IntV(Abs(vs[1][2]))
    [] prim = "neg" -> IntV(-vs[1][2])
    [] prim = "Cons" -> ListV(<<vs[1]>> \o vs[2][2])
    [] prim = "Some" -> SomeV(vs[1])
    [] prim = "Left" -> LeftV(vs[1])
    [] prim = "Right" -> RightV(vs[1])
    [] prim = "set_add" -> SetV(vs[2][2] \cup {vs[1]})
    [] prim = "set_remove" -> SetV(vs[2][2] \ {vs[1]})
    [] prim = "set_mem" -> BoolV(vs[1] \in vs[2][2])

RECURSIVE Eval(_, _, _), EvalArgs(_, _, _), EvalVariant(_, _, _, _), Call(_, _, _)
RECURSIVE EvalLoop(_, _, _, _), EvalLoopLeft(_, _, _, _), EvalLoopLeftAcc(_, _, _, _, _)
RECURSIVE EvalFold(_, _, _, _, _), EvalMap(_, _, _, _, _), EvalMapFold(_, _, _, _, _, _)

(* Arguments are evaluated from the last to the first.                     *)
EvalArgs(es, env, gas) ==
  IF es = << >> THEN Ok(<< >>)
  ELSE LET r == EvalArgs(Tail(es), env, gas) IN
       IF r.status # "ok" THEN r
       ELSE Then(Eval(Head(es), env, gas), LAMBDA v : Ok(<<v>> \o r.stack))

Eval(e, env, gas) ==
  LET In(x, v, body) == Eval(body, Bind(env, x, v), gas) IN
  CASE e.desc = "Var" -> Value(env[e.name])
    [] e.desc = "Const" -> Value(e.const)
    [] e.desc = "Error" -> Failed(<<"error">>)
    [] e.desc = "Let" -> Then(Eval(e.bnd_val, env, gas), LAMBDA v : In(e.bnd_var, v, e.body))
    [] e.desc = "Seq" -> Then(Eval(e.e1, env, gas), LAMBDA v : Eval(e.e2, env, gas))
    [] e.desc = "If" ->
         Then(Eval(e.cond, env, gas),
              LAMBDA c : Eval(IF c[2] THEN e.ifthen ELSE e.ifelse, env, gas))
    [] e.desc = "Failwith" -> Then(Eval(e.arg, env, gas), Failed)
    [] e.desc \in {"Apply", "Tuple", "Record"} ->
         LET r == EvalArgs(e.args, env, gas) IN
         IF r.status # "ok" THEN r
         ELSE Value(IF e.desc = "Apply" THEN Primitive(e.prim, r.stack)
                    ELSE NestPairs(r.stack))
    [] e.desc \in {"Project", "TupleGet"} ->
         Then(Eval(e.record, env, gas), LAMBDA v : Value(Nth(v, e.n, e.size)))
    [] e.desc \in {"SetField", "TupleSet"} ->
         Then(Eval(e.record, env, gas), LAMBDA v :
           Then(Eval(e.set_val, env, gas), LAMBDA x :
             Value(WithNth(v, e.n, e.size, x))))
    [] e.desc = "Constructor" ->
         Then(Eval(e.arg, env, gas), LAMBDA v : Value(Inject(e.n, e.size, v)))
    [] e.desc = "Lambda" -> Value(<<"fun", e, env>>)
    [] e.desc = "Closure" ->
         LET r == EvalArgs(e.call_env, env, gas) IN
         IF r.status # "ok" THEN r
         ELSE Value(PairV(<<"fun", e, env>>, NestPairs(r.stack)))
    [] e.desc = "Exec" ->
         Then(Eval(e.fun, env, gas), LAMBDA f :
           Then(Eval(e.arg, env, gas), LAMBDA v :
             IF f[1] = "pair" THEN Call(f[2], PairV(v, f[3]), gas) ELSE Call(f, v, gas)))
    [] e.desc = "Transfer" ->
         Then(Eval(e.contract, env, gas), LAMBDA c :
           Then(Eval(e.amount, env, gas), LAMBDA a :
             Then(Eval(e.arg, env, gas), LAMBDA v : Value(<<"operation", v, a, c>>))))
    [] e.desc = "MatchOption" ->
         Then(Eval(e.arg, env, gas), LAMBDA v :
           IF v = NoneV THEN Eval(e.ifnone, env, gas) ELSE In(e.some_name, v[2], e.ifsome))
    [] e.desc = "MatchNat" ->
         Then(Eval(e.arg, env, gas), LAMBDA v :
           IF v[2] >= 0 THEN In(e.plus_name, v, e.ifplus)
           ELSE In(e.minus_name, IntV(-v[2]), e.ifminus))
    [] e.desc = "MatchList" ->
         Then(Eval(e.arg, env, gas), LAMBDA v :
           IF v[2] = << >> THEN Eval(e.ifnil, env, gas)
           ELSE Eval(e.ifcons, Bind(Bind(env, e.tail_name, ListV(Tail(v[2]))),
                                    e.head_name, Head(v[2])), gas))
    [] e.desc = "MatchVariant" ->
         Then(Eval(e.arg, env, gas), LAMBDA v : EvalVariant(v, e.cases, env, gas))
    [] e.desc = "Loop" ->
         Then(Eval(e.arg, env, gas), LAMBDA v : EvalLoop(e, v, env, gas))
    [] e.desc = "LoopLeft" ->
         Then(Eval(e.arg, env, gas), LAMBDA v : EvalLoopLeft(e, LeftV(v), env, gas))
    [] e.desc = "LoopLeftAcc" ->
         Then(Eval(e.acc, env, gas), LAMBDA a :
           Then(Eval(e.arg, env, gas), LAMBDA v :
             EvalLoopLeftAcc(e, LeftV(v), a, env, gas)))
    [] e.desc \in {"Fold", "Iter"} ->
         Then(Eval(e.acc, env, gas), LAMBDA a :
           Then(Eval(e.arg, env, gas), LAMBDA l : EvalFold(e, l[2], a, env, gas)))
    [] e.desc = "Map" ->
         Then(Eval(e.arg, env, gas), LAMBDA l : EvalMap(e, l[2], << >>, env, gas))
    [] e.desc = "MapFold" ->
         Then(Eval(e.acc, env, gas), LAMBDA a :
           Then(Eval(e.arg, env, gas), LAMBDA l :
             EvalMapFold(e, l[2], << >>, a, env, gas)))

(* f is <<"fun", a lambda, its environment>>; a lambda given as code, in   *)
(* the parameter or the storage, is run.                                   *)
Call(f, v, gas) ==
  IF gas = 0 THEN OutOfGas
  ELSE IF f[1] = "lambda" THEN Run(f[2], <<v>>, gas)
  ELSE LET e == f[2]
           env == Bind(f[3], e.arg_name, v)
       IN  IF e.desc = "Closure" \/ e.recursive = NotRecursive THEN Eval(e.body, env, gas)
           ELSE Eval(e.body, Bind(Bind(f[3], e.recursive, f), e.arg_name, v), gas - 1)

EvalVariant(v, cases, env, gas) ==
  LET x == cases[1][1]
      e == cases[1][2]
      In(w) == Eval(e, IF x = NoArg THEN env ELSE Bind(env, x, w), gas)
  IN  IF x = Wildcard THEN Eval(e, env, gas)
      ELSE IF Len(cases) = 1 THEN In(v)
      ELSE IF v[1] = "left" THEN In(v[2])
      ELSE EvalVariant(v[2], Tail(cases), env, gas)

EvalLoop(e, v, env, gas) ==
  IF gas = 0 THEN OutOfGas
  ELSE Then(Eval(e.body, Bind(env, e.arg_name, v), gas), LAMBDA r :
         IF r[2][2] THEN EvalLoop(e, r[3], env, gas - 1) ELSE Value(r[3]))

EvalLoopLeft(e, v, env, gas) ==
  IF gas = 0 THEN OutOfGas
  ELSE IF v[1] = "right" THEN Value(v[2])
  ELSE Then(Eval(e.body, Bind(env, e.arg_name, v[2]), gas), LAMBDA r :
         EvalLoopLeft(e, r, env, gas - 1))

EvalLoopLeftAcc(e, v, acc, env, gas) ==
  IF gas = 0 THEN OutOfGas
  ELSE IF v[1] = "right" THEN Value(PairV(v[2], acc))
  ELSE Then(Eval(e.body, Bind(env, e.arg_name, PairV(v[2], acc)), gas), LAMBDA r :
         EvalLoopLeftAcc(e, r[2], r[3], env, gas - 1))

EvalFold(e, l, acc, env, gas) ==
  IF l = << >> THEN Value(acc)
  ELSE Then(Eval(e.body, Bind(env, e.arg_name,
                              IF e.desc = "Iter" THEN Head(l) ELSE PairV(Head(l), acc)),
                 gas),
            LAMBDA r : EvalFold(e, Tail(l), r, env, gas))

EvalMap(e, l, done, env, gas) ==
  IF l = << >> THEN Value(ListV(done))
  ELSE Then(Eval(e.body, Bind(env, e.arg_name, Head(l)), gas),
            LAMBDA r : EvalMap(e, Tail(l), Append(done, r), env, gas))

EvalMapFold(e, l, done, acc, env, gas) ==
  IF l = << >> THEN Value(PairV(ListV(done), acc))
  ELSE Then(Eval(e.body, Bind(env, e.arg_name, PairV(Head(l), acc)), gas),
            LAMBDA r : EvalMapFold(e, Tail(l), Append(done, r[2]), r[3], env, gas))
=============================================================================
