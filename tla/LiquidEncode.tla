---------------------------- MODULE LiquidEncode ----------------------------
(***************************************************************************)
(* The encoder, src/tools/liquidity/liquidEncode.ml: it gives every bound  *)
(* variable a fresh name, counts the uses of each, decides from the counts *)
(* which bindings the simplifier shall inline, turns functions with free   *)
(* variables into closures, recursive functions into loops, constructors   *)
(* into Left and Right, and the entry points of a contract into one.       *)
(*                                                                         *)
(* The mutable fields of the environment are threaded as a record st:      *)
(* counter, vars_counts, to_inline and force_inline.  An environment maps  *)
(* a name of the source to the expression that stands for it (a variable,  *)
(* or a component of a closure's environment), and to the variable whose   *)
(* uses it counts (Uncounted for the argument of a closure).               *)
(***************************************************************************)
EXTENDS LiquidBoundVariables
LOCAL INSTANCE SequencesExt

Uncounted == ""

(* Types, as far as the passes tell them apart.                            *)
FailT == <<"fail">>
UnitT == <<"unit">>
OtherT == <<"other">>
LambdaT(ret) == <<"lambda", ret>>
ClosureT(ret) == <<"closure", ret>>
IsFun(ty) == ty[1] \in {"lambda", "closure"}

(* The type of an expression from those of its subexpressions; the type of *)
(* branches is that of one that does not always fail.                      *)
Joined(ty1, ty2) == IF ty1 = FailT THEN ty2 ELSE ty1
TypeOf(e) ==
  CASE e.desc = "Const" -> IF e.const = UnitV THEN UnitT ELSE OtherT
    [] e.desc = "Let" -> e.body.ty
    [] e.desc = "Seq" -> e.e2.ty
    [] e.desc = "If" -> Joined(e.ifthen.ty, e.ifelse.ty)
    [] e.desc = "MatchOption" -> Joined(e.ifnone.ty, e.ifsome.ty)
    [] e.desc = "MatchNat" -> Joined(e.ifplus.ty, e.ifminus.ty)
    [] e.desc = "MatchList" -> Joined(e.ifnil.ty, e.ifcons.ty)
    [] e.desc = "MatchVariant" ->
         FoldLeft(LAMBDA ty, c : Joined(ty, c[2].ty), FailT, e.cases)
    [] e.desc = "Failwith" -> FailT
    [] e.desc = "Iter" -> UnitT
    [] e.desc = "Exec" -> IF IsFun(e.fun.ty) THEN e.fun.ty[2] ELSE OtherT
    [] e.desc = "Lambda" -> LambdaT(e.body.ty)
    [] e.desc = "Closure" -> ClosureT(e.body.ty)
    [] OTHER -> OtherT

(* LiquidTypes.mk: the flags of an expression.                             *)
MkOf(e, ty, fail) ==
  e @@ [ty |-> ty, fail |-> fail, transfer |-> e.desc = "Transfer"]
Mk(e) ==
  MkOf(e, TypeOf(e), e.desc = "Failwith" \/ \E k \in KidSet(e) : k.fail)

ConstUnit == Mk(Const(UnitV))

(* eq_syntax_exp: equality up to the flags and types; but of two sequences *)
(* only the first halves are compared, and not what a let binds.           *)
RECURSIVE EqSyntax(_, _)
Shell(e) ==
  LET hollow == OverKids(LAMBDA c, k : Put(c, k.at, Wildcard), e, e)
  IN  [f \in DOMAIN e \ {"ty", "fail", "transfer"} |-> hollow[f]]
EqSyntax(e1, e2) ==
  /\ e1.desc = e2.desc
  /\ CASE e1.desc = "Seq" -> EqSyntax(e1.e1, e2.e1)
       [] e1.desc = "Let" -> /\ e1.bnd_var = e2.bnd_var /\ e1.inline = e2.inline
                             /\ EqSyntax(e1.body, e2.body)
       [] OTHER -> /\ Shell(e1) = Shell(e2)
                   /\ \A k \in ToSet(Kids(e1)) :
                        EqSyntax(Get(e1, k.at), Get(e2, k.at))
-----------------------------------------------------------------------------
NewState == [counter |-> 0, uses |-> << >>, to_inline |-> << >>, force_inline |-> {}]

UniqIdent(st, x) == x \o "/" \o ToString(st.counter + 1)

(* new_binding, of the name that is found at path b of e.                  *)
NewBinding(c, b, ty, fail) ==
  LET x == Get(c.e, b)
      new == UniqIdent(c.st, x)
  IN  [e |-> Put(c.e, b, new),
       st |-> [c.st EXCEPT !.counter = @ + 1, !.uses = (new :> 0) @@ @],
       env |-> Bind(c.env, x, [exp |-> MkOf(Var(new), ty, fail), of |-> new])]

(* find_var; a variable that is not found ends the compilation.            *)
FindVar(env, st, x) ==
  IF x \notin DOMAIN env THEN [e |-> Mk(Error), st |-> st]
  ELSE [e |-> env[x].exp,
        st |-> IF env[x].of = Uncounted THEN st
               ELSE [st EXCEPT !.uses[env[x].of] = @ + 1]]

(* decr_counts_vars: the uses in an expression that is dropped.            *)
RECURSIVE DecrCountsVars(_, _)
DecrCountsVars(uses, e) ==
  IF e.fail THEN uses
  ELSE IF e.desc = "Var"
  THEN IF e.name \in DOMAIN uses THEN [uses EXCEPT ![e.name] = @ - 1] ELSE uses
  ELSE OverKids(LAMBDA u, k : DecrCountsVars(u, Get(e, k.at)), uses, e)

(* What becomes of the binding x of e1, once its body is encoded.          *)
ToInline(st, x, inline, e1) ==
  LET count == st.uses[x] IN
  IF e1.transfer \/ (count <= 0 /\ e1.fail) THEN st
  ELSE IF count <= 0
  THEN [st EXCEPT !.uses = DecrCountsVars(@, e1),
                  !.to_inline = (x :> ConstUnit) @@ @]
  ELSE IF count = 1 \/ inline THEN [st EXCEPT !.to_inline = (x :> e1) @@ @]
  ELSE st

(* Mutant of EnvForClos: the values of a closure come in another order     *)
(* than the components of its argument.                                    *)
EnvForClosReversed(env, st, free, x) ==
  LET vars == SetToSeq(free)
      arg == UniqIdent(st, "closure_env")
      at(k) == MkOf(TupleGet(MkOf(Var(arg), OtherT, FALSE), k, Len(vars) + 1),
                    IF k = 0 THEN OtherT ELSE env[vars[k]].exp.ty, FALSE)
  IN  [arg |-> arg,
       st |-> [st EXCEPT !.counter = @ + 2],
       call_env |-> Reverse([k \in DOMAIN vars |-> env[vars[k]].exp]),
       env |-> (x :> [exp |-> at(0), of |-> Uncounted])
               @@ [v \in free |-> [exp |-> at(CHOOSE k \in DOMAIN vars : vars[k] = v),
                                   of |-> env[v].of]]]

(* env_for_clos: the free variables of a function become components of its *)
(* argument, after the argument itself.                                    *)
EnvForClos(env, st, free, x) ==
  LET vars == SetToSeq(free)
      size == Len(vars) + 1
      arg == UniqIdent(st, "closure_env")
      at(k) == MkOf(TupleGet(MkOf(Var(arg), OtherT, FALSE), k, size),
                    IF k = 0 THEN OtherT ELSE env[vars[k]].exp.ty, FALSE)
  IN  [arg |-> arg,
       st |-> [st EXCEPT !.counter = @ + 2],
       call_env |-> [k \in DOMAIN vars |-> env[vars[k]].exp],
       env |-> (x :> [exp |-> at(0), of |-> Uncounted])
               @@ [v \in free |-> [exp |-> at(CHOOSE k \in DOMAIN vars : vars[k] = v),
                                   of |-> env[v].of]]]
-----------------------------------------------------------------------------
(* encode_rec_fun: a function whose calls to itself are tail calls is a    *)
(* loop, a call being Left of its argument and a result Right.             *)
RECURSIVE AlwaysFails(_), ReplaceTailCalls(_, _)
AlwaysFails(e) ==
  CASE e.desc = "Failwith" -> TRUE
    [] e.desc = "Let" -> AlwaysFails(e.body)
    [] e.desc = "Seq" -> AlwaysFails(e.e2)
    [] e.desc = "If" -> AlwaysFails(e.ifthen) /\ AlwaysFails(e.ifelse)
    [] e.desc = "MatchOption" -> AlwaysFails(e.ifnone) /\ AlwaysFails(e.ifsome)
    [] e.desc = "MatchNat" -> AlwaysFails(e.ifplus) /\ AlwaysFails(e.ifminus)
    [] e.desc = "MatchList" -> AlwaysFails(e.ifcons) /\ AlwaysFails(e.ifnil)
    [] e.desc = "MatchVariant" -> \A k \in DOMAIN e.cases : AlwaysFails(e.cases[k][2])
    [] OTHER -> FALSE

(* A call elsewhere than at the tail ends the compilation.                 *)
Branching == {"Let", "Seq", "If", "MatchOption", "MatchList", "MatchNat", "MatchVariant"}
ReplaceTailCalls(f, e) ==
  LET AtTail(k) == k.at \notin {<<"bnd_val">>, <<"e1">>, <<"cond">>, <<"arg">>}
      calledBefore == \E k \in ToSet(Kids(e)) : ~AtTail(k) /\ f \in Bv(Get(e, k.at))
  IN  IF f \notin Bv(e) THEN IF AlwaysFails(e) THEN e ELSE Constructor(1, 2, e)
      ELSE IF e.desc = "Exec" /\ e.fun = Var(f) THEN Constructor(0, 2, e.arg)
      ELSE IF e.desc \notin Branching \/ calledBefore THEN Error
      ELSE OverKids(LAMBDA c, k : IF AtTail(k)
                                  THEN Put(c, k.at, ReplaceTailCalls(f, Get(e, k.at)))
                                  ELSE c, e, e)

EncodeRecFun(e) ==
  Lambda(e.arg_name,
         LoopLeft1(e.arg_name, ReplaceTailCalls(e.recursive, e.body), Var(e.arg_name)))
-----------------------------------------------------------------------------
RECURSIVE Encode(_, _, _), EncodeKids(_, _, _), Injected(_, _, _)

Injected(n, size, e) ==
  IF size = 1 THEN e
  ELSE IF n = 0 THEN Mk(Apply("Left", <<e>>))
  ELSE Mk(Apply("Right", <<Injected(n - 1, size - 1, e)>>))

(* The subexpressions of c.e along ks, each in the scope of its names.     *)
EncodeKids(c, env, ks) ==
  IF ks = << >> THEN c
  ELSE LET k == Head(ks)
           bound == FoldLeft(LAMBDA d, b : NewBinding(d, b, OtherT, FALSE),
                             [e |-> c.e, st |-> c.st, env |-> env], k.binds)
           r == Encode(bound.env, bound.st, Get(bound.e, k.at))
       IN  EncodeKids([e |-> Put(bound.e, k.at, r.e), st |-> r.st], env, Tail(ks))

EncodeLet(env, st, e) ==
  LET v == Encode(env, st, e.bnd_val)
      b == NewBinding([e |-> [e EXCEPT !.bnd_val = v.e], st |-> v.st, env |-> env],
                      <<"bnd_var">>, v.e.ty, v.e.fail)
      st1 == IF e.inline THEN [b.st EXCEPT !.force_inline = @ \cup {e.bnd_var}] ELSE b.st
      r == Encode(b.env, st1, e.body)
  IN  [e |-> Mk([b.e EXCEPT !.body = r.e]),
       st |-> ToInline(r.st, b.e.bnd_var, e.inline, v.e)]

(* A function whose free variables will all be inlined stays a function;   *)
(* those of an enclosing closure are not looked for.                       *)
EncodeLambda(env, st, e) ==
  LET bvs == Bv(e)
      free == bvs \cap DOMAIN env
      clos == EnvForClos(env, st, free, e.arg_name)
      r == Encode(clos.env, clos.st, e.body)
      vars == {v \in free : env[v].exp.desc = "Var"}
      pure == EncodeKids([e |-> e, st |-> st], [v \in vars |-> env[v]], Kids(e))
  IN  IF bvs \subseteq st.force_inline
      THEN [e |-> Mk(pure.e), st |-> pure.st]
      ELSE [e |-> Mk(Closure(clos.arg, clos.call_env, r.e)), st |-> r.st]

Encode(env, st, e) ==
  CASE e.desc = "Var" -> FindVar(env, st, e.name)
    [] e.desc = "Let" -> EncodeLet(env, st, e)
    [] e.desc = "Lambda" ->
         IF e.recursive = NotRecursive THEN EncodeLambda(env, st, e)
         ELSE EncodeLambda(env, st, EncodeRecFun(e))
    [] e.desc = "Constructor" ->
         LET r == Encode(env, st, e.arg)
         IN  [e |-> Injected(e.n, e.size, r.e), st |-> r.st]
    [] OTHER -> LET r == EncodeKids([e |-> e, st |-> st], env, Kids(e))
                IN  [e |-> Mk(r.e), st |-> r.st]
-----------------------------------------------------------------------------
(* encode_contract.  A contract is its global values <<name, inline, e>>   *)
(* and its entry points <<parameter_name, storage_name, code>>.            *)
RECURSIVE ValuesOnTop(_, _)
ValuesOnTop(values, e) ==
  IF values = << >> THEN e
  ELSE LetIn(values[1][1], values[1][2], values[1][3], ValuesOnTop(Tail(values), e))

Dispatch(entries) ==
  MatchVariant(Var("parameter"),
    [k \in DOMAIN entries |->
       <<entries[k][1], Let(entries[k][2], Var("storage"), entries[k][3])>>])

(* The single entry point: its names, its code, and what to inline.        *)
EncodeContract(contract) ==
  LET es == contract.entries
      single == Len(es) = 1
      start == [e |-> [parameter |-> IF single THEN es[1][1] ELSE "parameter",
                       storage |-> IF single THEN es[1][2] ELSE "storage"],
                st |-> NewState, env |-> << >>]
      sto == NewBinding(start, <<"storage">>, OtherT, FALSE)
      par == NewBinding(sto, <<"parameter">>, OtherT, FALSE)
      r == Encode(par.env, par.st,
                  ValuesOnTop(contract.values,
                              IF single THEN es[1][3] ELSE Dispatch(es)))
  IN  [parameter_name |-> par.e.parameter, storage_name |-> par.e.storage,
       code |-> r.e, to_inline |-> r.st.to_inline]
=============================================================================
