------------------------ MODULE LiquidBoundVariables ------------------------
(***************************************************************************)
(* The variables an expression depends on (liquidBoundVariables.ml), by a  *)
(* traversal that is shared by the passes: the subexpressions of e, in the *)
(* order in which the encoder visits them.  A path of field names and      *)
(* indices leads to a subexpression, and to each name bound in it.         *)
(***************************************************************************)
EXTENDS LiquidSyntax
LOCAL INSTANCE SequencesExt

Kid(path, binders) == [at |-> path, binds |-> binders]
Fields(fields) == [k \in DOMAIN fields |-> Kid(<<fields[k]>>, << >>)]
Scope(field, binder) == <<Kid(<<field>>, <<<<binder>>>>)>>
Each(field, es) == [k \in DOMAIN es |-> Kid(<<field, k>>, << >>)]

Kids(e) ==
  CASE e.desc \in {"Var", "Const", "Error"} -> << >>
    [] e.desc = "Let" -> Fields(<<"bnd_val">>) \o Scope("body", "bnd_var")
    [] e.desc = "Seq" -> Fields(<<"e1", "e2">>)
    [] e.desc = "If" -> Fields(<<"cond", "ifthen", "ifelse">>)
    [] e.desc \in {"Failwith", "Constructor"} -> Fields(<<"arg">>)
    [] e.desc \in {"Apply", "Tuple", "Record"} -> Each("args", e.args)
    [] e.desc \in {"Project", "TupleGet"} -> Fields(<<"record">>)
    [] e.desc \in {"SetField", "TupleSet"} -> Fields(<<"record", "set_val">>)
    [] e.desc = "Exec" -> Fields(<<"arg", "fun">>)
    [] e.desc = "Transfer" -> Fields(<<"amount", "contract", "arg">>)
    [] e.desc = "Lambda" -> Scope("body", "arg_name")
    [] e.desc = "Closure" -> Each("call_env", e.call_env) \o Scope("body", "arg_name")
    [] e.desc = "MatchOption" -> Fields(<<"arg", "ifnone">>) \o Scope("ifsome", "some_name")
    [] e.desc = "MatchNat" ->
         Fields(<<"arg">>) \o Scope("ifplus", "plus_name") \o Scope("ifminus", "minus_name")
    [] e.desc = "MatchList" ->
         Fields(<<"arg", "ifnil">>)
         \o <<Kid(<<"ifcons">>, <<<<"head_name">>, <<"tail_name">>>>)>>
    [] e.desc = "MatchVariant" ->
         Fields(<<"arg">>)
         \o [k \in DOMAIN e.cases |->
               Kid(<<"cases", k, 2>>,
                   IF e.cases[k][1] \in {Wildcard, NoArg} THEN << >>
                   ELSE <<<<"cases", k, 1>>>>)]
    [] e.desc \in {"Loop", "LoopLeft", "Map"} -> Fields(<<"arg">>) \o Scope("body", "arg_name")
    [] e.desc \in {"LoopLeftAcc", "Fold", "Iter", "MapFold"} ->
         Fields(<<"arg", "acc">>) \o Scope("body", "arg_name")

Get(e, path) ==
  CASE Len(path) = 1 -> e[path[1]]
    [] Len(path) = 2 -> e[path[1]][path[2]]
    [] Len(path) = 3 -> e[path[1]][path[2]][path[3]]
Put(e, path, x) ==
  CASE Len(path) = 1 -> [e EXCEPT ![path[1]] = x]
    [] Len(path) = 2 -> [e EXCEPT ![path[1]][path[2]] = x]
    [] Len(path) = 3 -> [e EXCEPT ![path[1]][path[2]][path[3]] = x]
KidSet(e) == {Get(e, k.at) : k \in ToSet(Kids(e))}

(* F(a, k) folded over the subexpressions of e, in order.                  *)
OverKids(F(_, _), a, e) == FoldLeft(F, a, Kids(e))

RECURSIVE Bv(_)
(* bv: a name bound around a subexpression is not counted there.           *)
Bv(e) ==
  LET free(k) == Bv(Get(e, k.at)) \ {Get(e, b) : b \in ToSet(k.binds)}
      names == UNION {free(k) : k \in ToSet(Kids(e))}
  IN  CASE e.desc = "Var" -> {e.name}
        [] e.desc = "Lambda" -> names \ {e.recursive}
        [] OTHER -> names
=============================================================================
