---------------------------- MODULE LiquidCompile ---------------------------
(***************************************************************************)
(* compile_liquid_files (liquidMain.ml) from the typed contract on: it     *)
(* goes through the passes Encode, Simplify, Translate (code generation,   *)
(* then finalize_fail_pre), Peephole (unless --no-peephole) and Emit,      *)
(* which hands plain Michelson to the node.                                *)
(***************************************************************************)
EXTENDS LiquidEncode, LiquidMichelson, LiquidEmit
S == INSTANCE LiquidSimplify WITH Same <- EqSyntax
P == INSTANCE LiquidPeephole

CONSTANTS Programs,    \* the contracts that are compiled, by family
          Inputs,      \* the triples (entry point, argument, storage) they run on
          Peepholes,   \* the values of the option peephole: {TRUE}, {FALSE}, both
          Gas          \* bound on the iterations of one loop

VARIABLES source, stage, ast, code, peephole,
          encoded      \* history: the expression that the simplifier was given
vars == <<source, stage, ast, code, peephole, encoded>>

NoAst == << >>

Init ==
  /\ \E family \in DOMAIN Programs : source \in Programs[family]
  /\ peephole \in Peepholes
  /\ stage = "typed"
  /\ ast = NoAst
  /\ code = << >>
  /\ encoded = << >>

EncodePass ==
  /\ stage = "typed"
  /\ stage' = "encoded"
  /\ ast' = EncodeContract(source)
  /\ UNCHANGED <<source, code, peephole, encoded>>

Simplify ==
  /\ stage = "encoded"
  /\ stage' = "simple"
  /\ ast' = [ast EXCEPT !.code = S!SimplifyContract(ast)]
  /\ encoded' = ast.code
  /\ UNCHANGED <<source, code, peephole>>

Translate ==
  /\ stage = "simple"
  /\ stage' = "pre_michelson"
  /\ code' = FinalizeFail(TranslateCode(ast.parameter_name, ast.storage_name, ast.code))
  /\ UNCHANGED <<source, ast, peephole, encoded>>

Peephole ==
  /\ stage = "pre_michelson"
  /\ peephole
  /\ stage' = "optimized"
  /\ code' = P!Simplify(code)
  /\ UNCHANGED <<source, ast, peephole, encoded>>

Emit ==
  /\ \/ stage = "optimized"
     \/ stage = "pre_michelson" /\ ~peephole
  /\ stage' = "emitted"
  /\ code' = EmitSeq(code)
  /\ UNCHANGED <<source, ast, peephole, encoded>>

Next == EncodePass \/ Simplify \/ Translate \/ Peephole \/ Emit
Spec == Init /\ [][Next]_vars

-----------------------------------------------------------------------------
(* What the contract, its expression after a pass and its code do on an    *)
(* input <<entry point, argument, storage>>.                               *)
Called == {input \in Inputs : input[1] \in DOMAIN source.entries}
Parameter(input) ==
  Inject(input[1] - 1, Len(source.entries), input[2])

Meaning(input) ==
  LET entry == source.entries[input[1]]
  IN  Eval(ValuesOnTop(source.values,
             Let(entry[2], Const(input[3]), Let(entry[1], Const(input[2]), entry[3]))),
           << >>, Gas)
AstMeaning(input) ==
  Eval(ast.code, (ast.parameter_name :> Parameter(input))
                 @@ (ast.storage_name :> input[3]), Gas)
CodeMeaning(input) == Run(code, <<PairV(Parameter(input), input[3])>>, Gas)

HasCode == stage \in {"pre_michelson", "optimized", "emitted"}

(* Encoding keeps the value of the contract or its failure, and so does    *)
(* every pass after the simplifier: variables, accumulators and arguments  *)
(* are found where they are at every depth, in every branch, closure and   *)
(* iteration.  (No loop of the instances needs more than Gas iterations.)  *)
MeaningKept ==
  \A input \in Called :
    /\ stage = "encoded" => /\ AstMeaning(input) = Meaning(input)
                            /\ Meaning(input).status # "gas"
    /\ HasCode => CodeMeaning(input) = AstMeaning(input)

(* eq_syntax_exp takes two expressions that differ for the same, and an    *)
(* update that must be made is removed: by an equality it would not be.    *)
Equal(e1, e2) == e1 = e2
Exact == INSTANCE LiquidSimplify WITH Same <- Equal
Confused == ast.code # Exact!SimplifyContract([ast EXCEPT !.code = encoded])

(* Whatever the encoder marked for inlining and the simplifier inlined,    *)
(* moved or dropped, a contract that returns a value still returns it: but *)
(* for the updates that are removed because eq_syntax_exp confuses them.   *)
ValueKept ==
  stage = "simple" =>
    \A input \in Called :
      Meaning(input).status = "ok" =>
        AstMeaning(input) = Meaning(input) \/ Confused

(* A contract that fails still fails, with the same value.                 *)
FailureKept ==
  stage = "simple" =>
    \A input \in Called :
      Meaning(input).status = "failed" => AstMeaning(input) = Meaning(input)

(* So it does when no value that may fail is inlined, every function that  *)
(* is called stands at the call or is called by the name it is bound to (a *)
(* call of one that a closure captured, or that was received as argument,  *)
(* has no flag for the failures of its body and may be dropped), and no    *)
(* update is confused: the simplifier itself drops and reorders nothing    *)
(* else that may fail.                                                     *)
RECURSIVE Parts(_)
Parts(e) == {e} \cup UNION {Parts(k) : k \in KidSet(e)}
IsFunction(e) == e.desc \in {"Lambda", "Closure"}
FailuresSeen ==
  LET parts == Parts(encoded)
      named == {e.bnd_var : e \in {p \in parts : p.desc = "Let" /\ IsFunction(p.bnd_val)}}
  IN  \A e \in parts :
        e.desc = "Exec" =>
          IsFunction(e.fun) \/ (e.fun.desc = "Var" /\ e.fun.name \in named)
PinnedFailureKept ==
  stage = "simple" /\ (\A x \in DOMAIN ast.to_inline : ~ast.to_inline[x].fail)
    => FailureKept \/ ~FailuresSeen \/ Confused

(* "not a closure (or will be pure after inlining), create a real lambda": *)
(* a function that was not made a closure uses only its argument, once all *)
(* that the encoder marked is inlined.                                     *)
FunctionsArePure ==
  stage = "simple" => \A e \in Parts(ast.code) : e.desc = "Lambda" => Bv(e) = {}

(* Every block inside an instruction, and every block of a block.          *)
RECURSIVE Blocks(_)
Inner(i) ==
  IF i[1] \in {"SEQ", "LOOP", "LOOP_LEFT", "ITER", "MAP", "LAMBDA"} THEN {i[2]}
  ELSE IF i[1] \in {"IF", "IF_NONE", "IF_CONS", "IF_LEFT"} THEN {i[2], i[3]}
  ELSE IF i[1] = "DIP" THEN {i[3]}
  ELSE {}
Blocks(c) == {c} \cup UNION {UNION {Blocks(b) : b \in Inner(c[k])} : k \in DOMAIN c}

(* What is emitted is plain Michelson: no n-ary DUP or DIP, no instruction *)
(* of the compiler's own; no assertion of emit_code failed and no variable *)
(* was missing, in a function in particular.                               *)
Plain(i) == /\ i[1] \notin {"DIP_DROP", "CDAR", "CDDR", "ASSERT"}
            /\ i[1] \in {"DUP", "DIP"} => i[2] = 1
EmittedIsPlain ==
  stage = "emitted" =>
    \A b \in Blocks(code) : \A k \in DOMAIN b : Plain(b[k])

(* "FAILWITH must appear in tail position in Michelson, this function      *)
(* removes instructions that appear after FAILWITH in a code block": no    *)
(* instruction follows one that ends in FAILWITH, in any block.            *)
FailwithInTail ==
  HasCode => \A b \in Blocks(code) : \A k \in 1..(Len(b) - 1) : ~EndFails(b[k])
=============================================================================
