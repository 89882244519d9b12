--------------------------- MODULE MCLiquidCompile --------------------------
(***************************************************************************)
(* The expressions LiquidCompile is checked on: one set per family of      *)
(* constructs, every well-typed expression of that family over small       *)
(* subexpressions.  They are of type int unless said otherwise; sc is the  *)
(* set of int variables in scope.                                          *)
(***************************************************************************)
EXTENDS LiquidCompile

Num(n) == Const(IntV(n))
Ge(a, b) == Apply("ge", <<a, b>>)
Sub(a, b) == Apply("sub", <<a, b>>)
Top == {"parameter", "storage"}
CONSTANT Families

Atoms(sc) == {Var(x) : x \in sc} \cup {Num(1)}
Fail == Failwith(Var("storage"))
MayFail == If(Ge(Var("parameter"), Num(1)), Failwith(Var("parameter")), Num(2))
Simple(sc) == Atoms(sc) \cup {MayFail}
Units == {Const(UnitV), If(Ge(Var("storage"), Num(1)), Fail, Const(UnitV))}

(* Pairs of one element of A and one of Simple, either way; as branches,   *)
(* either may always fail.                                                 *)
Mixed(A(_), sc) == (A(sc) \X Simple(sc)) \cup (Simple(sc) \X A(sc))
Branches(A(_), sc) == Mixed(A, sc) \cup (A(sc) \X {Fail}) \cup ({Fail} \X A(sc))

(* let, sequence, conditional and a primitive; x may be bound again.       *)
Binding(A(_), sc) ==
  {Let("x", a, b) : a \in A(sc), b \in A(sc \cup {"x"})}
  \cup {Sequence(a, b) : a \in Units, b \in A(sc)}
  \cup {Sub(p[1], p[2]) : p \in Mixed(A, sc)}
  \cup {If(Ge(a, Num(1)), p[1], p[2]) : a \in {Var("storage"), MayFail}, p \in Branches(A, sc)}

(* The four kinds of pattern matching.                                     *)
Ends == {Num(1), MayFail, Fail}
Matching(A(_), sc) ==
  LET x == sc \cup {"x"}
  IN
  {MatchOption(o, p[1], "x", p[2]) :
     o \in {Const(NoneV), Apply("Some", <<Var("storage")>>)},
     p \in (A(sc) \X Simple(x)) \cup (Simple(sc) \X A(x)) \cup (A(sc) \X {Fail})}
  \cup {MatchNat(a, "x", Sub(b, Num(1)), "y", Sub(Var("y"), Num(1))) :
          a \in Simple(sc), b \in A(x)}
  \cup {MatchList(l, "x", "l", a, b) :
          l \in {Const(ListV(<< >>)),
                 Apply("Cons", <<Var("storage"), Const(ListV(<<IntV(5)>>))>>)},
          a \in A(x), b \in Ends}
  \cup {MatchVariant(v, <<<<"x", a>>, <<NoArg, b>>, <<"x", Var("x")>>>>) :
          v \in {Apply("Left", <<Var("storage")>>),
                 Apply("Right", <<Apply("Left", <<Const(UnitV)>>)>>),
                 Apply("Right", <<Apply("Right", <<Var("parameter")>>)>>)},
          a \in A(x), b \in Ends}
  \cup {MatchVariant(Apply("Right", <<Var("storage")>>), <<<<"x", a>>, <<Wildcard, b>>>>) :
          a \in Simple(x), b \in A(sc)}

Bindings1(sc) == Simple(sc) \cup Binding(Simple, sc)
Matchings1(sc) == Simple(sc) \cup Matching(Atoms, sc)
Bindings(sc) == Binding(Bindings1, sc)
Matchings(sc) == Matching(Bindings1, sc) \cup Binding(Matchings1, sc)

(* Loops(sc) and folds.  The body of a loop on x counts x down to 0.           *)
Count(e) == <<Ge(Var("x"), Num(1)), Sub(Var("x"), e)>>
Element == TupleGet(Var("x"), 0, 2)
Acc == TupleGet(Var("x"), 1, 2)
OneTwo == Const(ListV(<<IntV(1), IntV(2)>>))
Stepping(a) == If(Ge(Element, Num(1)), Apply("Left", <<Sub(Element, Num(1))>>),
                  Apply("Right", <<a>>))
InBody == Simple({"x", "storage"})
Loops(sc) ==
  {Loop1("x", Let("y", a, Tuple(Count(Num(1)))), b) : a \in InBody, b \in Simple(sc)}
  \cup {LoopLeft1("x", If(Ge(Var("x"), Num(1)), Apply("Left", <<Sub(Var("x"), Num(1))>>),
                          Apply("Right", <<a>>)), b) :
          a \in InBody, b \in Simple(sc)}
  \cup {LoopLeftAcc("x", Tuple(<<Stepping(Acc), Sub(a, Acc)>>), b, c) :
          a \in {Element, Var("storage")}, b \in Simple(sc), c \in Simple(sc)}
  \cup {Fold("x", Let("y", Sub(a, Acc), b), OneTwo, c) :
          a \in {Element, Var("storage")}, b \in Simple({"y", "storage"}),
          c \in Simple(sc)}
  \cup {IterAll("x", Let("y", a, u), OneTwo, Const(UnitV)) : a \in InBody, u \in Units}
  \cup {Map("x", Let("y", a, b), OneTwo) :
          a \in InBody, b \in Simple({"x", "y", "parameter"})}
  \cup {MapFold("x", Tuple(<<a, Sub(b, Acc)>>), OneTwo, c) :
          a \in {Acc, Var("storage")}, b \in {Element, Var("parameter")},
          c \in Simple(sc)}
LoopsAround(sc) ==
  Loops(sc) \cup {Let("z", Num(7), Let("y", e, Tuple(<<Var("z"), Var("y")>>))) :
                  e \in Loops(sc)}
        \cup {Tuple(<<a, e>>) : a \in Simple(sc), e \in Loops(sc)}

Call1(f, a) == Execute(a, Var(f))
(* Tuples, records, sets, functions, closures and transfers.               *)
Triples(sc) == {Tuple(<<a, b, c>>) : a \in Simple(sc), b \in Simple(sc), c \in Simple(sc)}
Pairs(sc) == {Tuple(<<a, b>>) : a \in Simple(sc), b \in Simple(sc)}
Four == <<Num(1), Num(2), Var("storage"), Num(4)>>
Quad == Tuple(Four)
Sets == {Const(SetV({})), Const(SetV({IntV(1), IntV(2)}))}
Accesses(sc) ==
  Triples(sc) \cup Pairs(sc)
  \cup {TupleGet(t, n, 3) : t \in Triples(sc), n \in 0..2}
  \cup {TupleGet(t, n, 2) : t \in Pairs(sc), n \in 0..1}
  \cup {TupleGet(Quad, n, 4) : n \in 0..3}
  \cup {Project(Record(<<a, b>>), n, 2) : a \in Simple(sc), b \in Simple(sc), n \in 0..1}
  \cup {Project(Record(Four), n, 4) : n \in 0..3}
Updates(sc) ==
  LET values == Simple(sc) \cup {Let("x", Var("storage"), Sub(Var("x"), Var("parameter")))}
  IN  {SetField(Record(<<Num(1), Num(2)>>), n, 2, v) : n \in 0..1, v \in values}
      \cup {SetField(Record(Four), n, 4, v) : n \in 0..3, v \in values}
      \cup {TupleSet(Quad, n, 4, v) : n \in 0..3, v \in values}
      \cup {Let("x", Record(<<Num(1), a>>), SetField(SetField(Var("x"), m, 2, b), n, 2,
                                                     Project(Var("x"), k, 2))) :
               a \in Simple(sc), b \in Simple(sc), m \in 0..1, n \in 0..1, k \in 0..1}
      \cup {Let("x", Record(<<Num(1), a>>), SetField(Var("x"), n, 2, Project(Var("x"), k, 2))) :
               a \in Simple(sc), n \in 0..1, k \in 0..1}
      \cup {TupleSet(Tuple(<<Num(1), Num(2)>>), n, 2, v) : n \in 0..1, v \in values}
(* r.m <- q.n, of records r and q that the simplifier takes for the same,  *)
(* rightly or not: sequences, and calls of one function that is inlined.   *)
Confusable(sc) ==
  LET records == {Record(<<Num(1), Var("storage")>>), Record(<<Num(2), Num(3)>>)}
  IN  {SetField(Sequence(u, r), m, 2, Project(Sequence(w, q), n, 2)) :
         u \in Units, w \in Units, r \in records, q \in records, m \in 0..1, n \in 0..1}
      \cup {LetIn("f", inline, Lambda("x", Record(<<Var("x"), Sub(Var("x"), Num(1))>>)),
                  SetField(Call1("f", a), m, 2, Project(Call1("f", b), n, 2))) :
              inline \in BOOLEAN, a \in Atoms(sc), b \in Simple(sc), m \in 0..1, n \in 0..1}
Others(sc) ==
  {Transfer(a, b, c) : a \in Simple(sc), b \in Simple(sc), c \in Simple(sc)}
  \cup {Apply(op, <<a, s>>) : op \in {"set_add", "set_remove", "set_mem"},
                              a \in Simple(sc), s \in Sets}
  \cup {Apply(op, <<a>>) : op \in {"abs", "neg"}, a \in Simple(sc)}
  \cup {Apply("eq", <<a, b>>) : a \in Simple(sc), b \in Simple(sc)}
Data(sc) == {Let("z", Num(7), Tuple(<<Var("z"), e>>)) :
           e \in Accesses(sc) \cup Updates(sc) \cup Confusable(sc) \cup Others(sc)}

(* Functions: called where they stand or through a variable, once or       *)
(* twice, with free variables, nested, inlined, recursive.                 *)
Bodies == {Var("x"), Num(1), Failwith(Var("x")), Sub(Var("x"), Num(1)),
           Sub(Var("x"), Var("storage")), Sub(Var("storage"), Var("parameter")),
           Let("y", Sub(Var("x"), Num(1)), Sub(Var("y"), Var("y"))),
           Let("storage", Var("x"), Sub(Var("storage"), Var("parameter"))),
           Execute(Num(3), Lambda("y", Sub(Sub(Var("x"), Var("storage")), Var("y")))),
           Let("g", Lambda("y", Sub(Sub(Var("x"), Var("storage")), Var("y"))),
               Sub(Call1("g", Num(1)), Call1("g", Num(2))))}
Countdown(a, b) ==
  RecLambda("f", "x", If(Ge(Var("x"), Num(1)), Call1("f", Sub(Var("x"), a)), b))
UseK == Let("f", Lambda("x", Sub(Var("x"), Var("k"))),
            Sub(Call1("f", Var("storage")), Call1("f", Num(1))))
(* Functions that are called where they were captured by a closure, or     *)
(* received as argument, and whose result is not used.                     *)
Check == If(Ge(Var("x"), Num(1)), Failwith(Var("x")), Const(UnitV))
Captured(sc) ==
  {Let("f", Lambda("x", b), Let("g", Lambda("y", c), Sub(Call1("g", a), d))) :
     b \in {Var("x"), Failwith(Var("x")), If(Ge(Var("x"), Num(1)), Failwith(Var("x")), Num(2))},
     c \in {Let("z", Call1("f", Var("y")), Var("y")), Call1("f", Var("y"))},
     a \in Simple(sc),
     d \in {Call1("g", Num(-2)), Sub(Call1("g", Num(-2)), Call1("f", Num(-2)))}}
  \cup {Let("f", Lambda("x", Check),
            Let("g", Lambda("y", Sequence(Call1("f", Var("y")), Var("y"))),
                Sequence(Call1("f", Num(-2)), Sub(Call1("g", a), Call1("g", b))))) :
          a \in Simple(sc), b \in Atoms({})}
Received(sc) ==
  {Let("h", Lambda("k", Let("z", Execute(a, Var("k")), c)),
       Execute(Lambda("x", b), Var("h"))) :
     a \in Atoms({}), b \in {Var("x"), Failwith(Var("x"))}, c \in {Num(0), Var("z")}}
Functions(sc) ==
  Captured(sc) \cup Received(sc) \cup
  {Execute(a, Lambda("x", b)) : a \in Simple(sc), b \in Bodies}
  \cup {LetIn("f", inline, Lambda("x", b), e) :
          inline \in BOOLEAN, b \in Bodies,
          e \in {Call1("f", Var("storage")), Num(0),
                 Sub(Call1("f", Var("storage")), Call1("f", Num(2))),
                 Call1("f", Call1("f", Var("parameter")))}}
  \cup {LetIn("k", inline, Num(1), UseK) : inline \in BOOLEAN}
  \cup {LetIn("k", inline, Num(1), Let("f", Countdown(a, b), e)) :
          inline \in BOOLEAN, a \in {Num(1), Var("k")},
          b \in {Var("x"), Var("storage"), Failwith(Var("x"))},
          e \in {Call1("f", Num(2)), Sub(Call1("f", Var("storage")), Call1("f", Num(1)))}}

(* Bindings that are used never, once or twice, of values that may fail or *)
(* not, in statements, branches, loops and other bindings.                 *)
Uses(x) ==
  {Num(0), Var(x), Sub(Var(x), Var(x)),
   If(Ge(Var("storage"), Num(1)), Var(x), Num(3)),
   Sequence(If(Ge(Var(x), Num(1)), Failwith(Num(9)), Const(UnitV)), Var("storage")),
   Let("y", Var(x), Sub(Var("y"), Var("y"))),
   Fold("y", Sub(TupleGet(Var("y"), 0, 2), Var(x)), OneTwo, Var(x))}
Dropping(x) == {Let("y", Var(x), Num(4)), Let("y", Sub(Var(x), Var(x)), Var("storage"))}
Used(sc) ==
  {LetIn("x", inline, a, LetIn("z", inline, b, c)) :
     inline \in BOOLEAN, a \in Simple(sc), b \in Uses("x"),
     c \in Uses("x") \cup Uses("z") \cup Dropping("z")}
  \cup {Let("x", a, b) : a \in Simple(sc), b \in Uses("x") \cup Dropping("x")}
  \cup {Let("x", Tuple(<<a, b>>), Tuple(<<TupleGet(Var("x"), m, 2), TupleGet(Var("x"), n, 2)>>)) :
          a \in Simple(sc), b \in Simple(sc), m \in 0..1, n \in 0..1}
  \cup {Let("x", Record(<<a, b>>), Record(<<Project(Var("x"), m, 2), Project(Var("x"), n, 2)>>)) :
          a \in Simple(sc), b \in Simple(sc), m \in 0..1, n \in 0..1}
  \cup {LetIn("x", inline, Transfer(Num(1), a, Num(2)), b) :
          inline \in BOOLEAN, a \in Simple(sc),
          b \in {Num(0), Tuple(<<Num(1), Var("x")>>), Tuple(<<Var("x"), Var("x")>>)}}

(* Contracts of two or three entry points, with global values, some of     *)
(* them functions; and the n-th constructor of three, matched.             *)
Values ==
  {<< >>}
  \cup {<<<<"k", inline, a>>>> : inline \in BOOLEAN, a \in {Num(3), If(Ge(Num(3), Num(1)), Num(3), Failwith(Num(1)))}}
  \cup {<<<<"k", inline, Num(3)>>, <<"f", inline2, Lambda("x", b)>>>> :
          inline \in BOOLEAN, inline2 \in BOOLEAN,
          b \in {Sub(Var("x"), Num(1)), Sub(Var("x"), Var("k"))}}
EntryBodies(values, p) ==
  {Var(p), Sub(Var(p), Var("s")), If(Ge(Var("s"), Var(p)), Failwith(Var(p)), Num(1)),
   Sequence(If(Ge(Var("s"), Var(p)), Failwith(Var(p)), Const(UnitV)), Var("s"))}
  \cup (IF Len(values) = 0 THEN {} ELSE {Var("k"), Sub(Var("k"), Var("k"))})
  \cup (IF Len(values) < 2 THEN {} ELSE {Call1("f", Var(p)),
                                         Sub(Call1("f", Var(p)), Call1("f", Var("s")))})
Contracts ==
  UNION {{[values |-> v, entries |-> <<<<"p", "s", a>>, <<"q", "s", b>>>>] :
            a \in EntryBodies(v, "p"), b \in EntryBodies(v, "q")}
         \cup {[values |-> v, entries |-> <<<<"p", "s", a>>, <<"q", "t", Var("t")>>,
                                            <<"parameter", "s", b>>>>] :
                 a \in EntryBodies(v, "p"), b \in EntryBodies(v, "parameter")}
         : v \in Values}
Injections(sc) ==
  {MatchVariant(Constructor(n, 3, a), <<<<"x", Var("x")>>, <<"x", Sub(Var("x"), Num(1))>>,
                                        <<"x", b>>>>) :
     n \in 0..2, a \in Simple(sc), b \in Simple(sc \cup {"x"}) \cup {Fail}}

Main(e) == [values |-> << >>, entries |-> <<<<"parameter", "storage", e>>>>]
Mains(es) == {Main(e) : e \in es}

(* What is compiled wrongly.                                               *)
(* A loop whose body fails in one branch of a pattern matching.            *)
FailingLoop ==
  LoopLeft1("x", MatchOption(Apply("Some", <<Var("x")>>), Apply("Right", <<Var("x")>>),
                             "y", Failwith(Var("y"))),
            Var("parameter"))
(* let x = .. failwith .. in if storage >= 1 then 3 else x                 *)
CheckedFirst ==
  Let("x", MayFail, If(Ge(Var("storage"), Num(1)), Num(3), Var("x")))
(* let x = parameter - 1 in let a = (let b = x in 0) in x                  *)
UnusedTwice ==
  Let("x", Sub(Var("parameter"), Num(1)), Let("a", Let("b", Var("x"), Num(0)), Var("x")))
(* let%inline k = parameter in let f = fun x -> x - k in f storage - f 1   *)
InlinedInFunction == LetIn("k", TRUE, Var("parameter"), UseK)

ProgramsOf(family) ==
  CASE family = "bindings" -> Mains(Bindings(Top))
    [] family = "matchings" -> Mains(Matchings(Top))
    [] family = "uses" -> Mains(Used(Top))
    [] family = "loops" -> Mains(LoopsAround(Top))
    [] family = "data" -> Mains(Data(Top))
    [] family = "functions" -> Mains(Functions(Top))
    [] family = "contracts" -> Contracts \cup Mains(Injections(Top))
    [] family = "failing loop" -> {Main(FailingLoop)} \cup Mains(Loops(Top))
    [] family = "checked first" -> {Main(CheckedFirst)} \cup Mains(Used(Top))
    [] family = "unused twice" -> {Main(UnusedTwice)} \cup Mains(Binding(Atoms, Top))
    [] family = "inlined in function" -> {Main(InlinedInFunction)} \cup Mains(Functions(Top))
SomePrograms == [family \in Families |-> ProgramsOf(family)]
SomeInputs == {<<k, IntV(-2), IntV(0)>> : k \in 1..3} \cup {<<k, IntV(2), IntV(1)>> : k \in 1..3}
=============================================================================
