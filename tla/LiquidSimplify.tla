--------------------------- MODULE LiquidSimplify ---------------------------
(***************************************************************************)
(* The simplifier of compilations, src/tools/liquidity/liquidSimplify.ml   *)
(* (decompilation chooses itself what to inline): it replaces the          *)
(* variables that the encoder marked by their values, drops bindings and   *)
(* statements that it takes to have no effect, and inlines the bodies of   *)
(* functions that are called where they stand, until nothing changes.      *)
(* Expressions keep the flags and the types they were encoded with.        *)
(***************************************************************************)
EXTENDS LiquidEncode

CONSTANT Same(_, _)    \* are two expressions the same?  (eq_syntax_exp)

RECURSIVE Iter1(_, _)

(* Mutant of Rebuilds: a tuple is taken for the one it permutes.           *)
RebuildsAnyOrder(e) ==
  /\ e.body.desc = "Tuple"
  /\ \A k \in DOMAIN e.body.args :
       LET a == e.body.args[k] IN
       /\ a.desc = "TupleGet"
       /\ a.record.desc = "Var"
       /\ a.record.name = e.bnd_var
       /\ a.size = Len(e.body.args)

(* Mutant of IterLet: an unused binding is dropped although it may fail.   *)
IterLetDropsUnused(inl, e) ==
  LET body == Iter1(inl, e.body)
      v == Iter1(inl, e.bnd_val)
  IN  IF e.bnd_var \in DOMAIN inl \/ e.bnd_var \notin Bv(body) THEN body
      ELSE [e EXCEPT !.bnd_val = v, !.body = body]

(* let x = v in (x.(0), ..., x.(n - 1))                                    *)
Rebuilds(e) ==
  /\ e.body.desc = "Tuple"
  /\ \A k \in DOMAIN e.body.args :
       LET a == e.body.args[k] IN
       /\ a.desc = "TupleGet"
       /\ a.record.desc = "Var"
       /\ a.record.name = e.bnd_var
       /\ a.n = k - 1
       /\ a.size = Len(e.body.args)

IterKids(inl, e) == OverKids(LAMBDA c, k : Put(c, k.at, Iter1(inl, Get(e, k.at))), e, e)

(* The binding is dropped when it is marked, and, if its variable is not   *)
(* used, when its value cannot fail; a statement replaces it when it can.  *)
IterLet(inl, e) ==
  LET body == Iter1(inl, e.body)
      v == Iter1(inl, e.bnd_val)
  IN  IF e.bnd_val.ty = FailT THEN v
      ELSE IF e.body.desc = "Var" /\ e.body.name = e.bnd_var THEN v
      ELSE IF Rebuilds(e) THEN v
      ELSE IF e.bnd_var \in DOMAIN inl THEN body
      ELSE IF e.bnd_var \in Bv(body) \/ (v.fail /\ v.ty # UnitT)
      THEN [e EXCEPT !.bnd_val = v, !.body = body]
      ELSE IF ~v.fail THEN body
      ELSE Sequence(v, body) @@ [ty |-> e.ty, fail |-> e.fail, transfer |-> e.transfer]

IterSeq(inl, e) ==
  LET e1 == Iter1(inl, e.e1)
      e2 == Iter1(inl, e.e2)
  IN  IF e1.ty = FailT THEN e1
      ELSE IF ~e1.fail /\ ~e1.transfer THEN e2
      ELSE [e EXCEPT !.e1 = e1, !.e2 = e2]

(* s.f <- s.f is s, and (s.f1 <- v1).f2 <- s.f2 is s.f1 <- v1.             *)
IterSetField(inl, e) ==
  LET record == Iter1(inl, e.record)
      v == Iter1(inl, e.set_val)
      isField(r) == v.desc = "Project" /\ v.n = e.n /\ Same(v.record, r)
  IN  IF \/ record.desc = "SetField" /\ record.n # e.n /\ isField(record.record)
         \/ isField(record)
      THEN record
      ELSE [e EXCEPT !.record = record, !.set_val = v]

IterExec(inl, e) ==
  LET x == Iter1(inl, e.arg)
      f == Iter1(inl, e.fun)
  IN  IF f.desc = "Lambda"
      THEN Iter1(inl, Let(f.arg_name, x, f.body)
                      @@ [ty |-> e.ty, fail |-> e.fail, transfer |-> e.transfer])
      ELSE [e EXCEPT !.arg = x, !.fun = f]

(* iter *)
Iter1(inl, e) ==
  CASE e.desc = "Var" -> IF e.name \in DOMAIN inl THEN Iter1(inl, inl[e.name]) ELSE e
    [] e.desc = "Let" -> IterLet(inl, e)
    [] e.desc = "Seq" -> IterSeq(inl, e)
    [] e.desc = "SetField" -> IterSetField(inl, e)
    [] e.desc = "Exec" -> IterExec(inl, e)
    [] OTHER -> IterKids(inl, e)

RECURSIVE Fixpoint(_, _)
Fixpoint(inl, e) == LET c == Iter1(inl, e) IN IF c # e THEN Fixpoint(inl, c) ELSE c

(* simplify_contract, of an encoded contract                               *)
SimplifyContract(c) == Fixpoint(c.to_inline, c.code)
=============================================================================
