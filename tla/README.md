# Verification of the Liquidity compiler and its Tezos client

Liquidity is a language for Tezos smart contracts. This repository holds its
compiler to Michelson (`src/tools/liquidity`), a decompiler, a client that
forges, signs and injects operations through the RPCs of a Tezos node, and the C
libraries of hashes and signatures behind it (`src/libs/deps-michelson`). This
directory holds TLA+ models of the parts where mistakes are expensive and hard to
test, the TLC instances they are checked on, and TLAPS proofs.

File names below are relative to `src/tools/liquidity/`, those of C files, their
stubs and `blake2.ml`, `secp256k1.ml`, `nocrypto_bak.ml` to
`src/libs/deps-michelson/`.

## 1. Inventory

### Components, their state and operations

| Component | Files | State it keeps | Operations |
|---|---|---|---|
| Client of the node | `liquidDeploy.ml` | per invocation: a chain of Lwt promises (head, counter, revealed or not, forged operation); per process: the lazily loaded error schema; on the node: account, mempool, head | `deploy`, `call`, `reveal`, `activate`, `forge_deploy`, `forge_call`, `inject`, `run`, `get_storage` |
| Encoder | `liquidEncode.ml`, `liquidBoundVariables.ml` | counter of fresh names, use counts, `to_inline`, `force_inline`, the environments of variables and of the enclosing closure | `encode_contract` and one case of `encode` per construct |
| Simplifier | `liquidSimplify.ml` | none across contracts | `simplify_contract`: inlining and removal to a fixpoint |
| Code generator | `liquidMichelson.ml` | the depth of the stack, the depth of each variable | `translate` (`compile_desc`, then `finalize_fail_pre`) |
| Peephole optimizer | `liquidPeephole.ml` | the code after the instruction in hand | `simplify` |
| Emitter | `liquidEmit.ml` | table of locations | `emit_contract ~expand` |
| Type checker | `liquidCheck.ml` | types of variables, unused-variable counts | `typecheck_contract` |
| Front end | `liquidFromOCaml.ml`, `ocaml/` | types and constructors declared so far | `translate` |
| Initial storage, data | `liquidInit.ml`, `liquidData.ml` | none | constants or an initializer contract |
| Decompiler | `liquidFromTezos.ml`, `liquidClean.ml`, `liquidInterp.ml`, `liquidDecomp.ml`, `liquidDecode.ml`, `liquidUntype.ml` | a symbolic stack and a graph of nodes | read, clean, interpret, rebuild, decode, untype |
| Hash functions | `blake2b-ref.c`, `blake2b-stubs.c`, `blake2.ml`; `sha256.c`, `sha3-ref.c`, `nocrypto_bak.ml` | per context: chaining value, counter, a partial block, flags | open, update, close; compress |
| NaCl | `tweetnacl.c` | none | X25519, Ed25519, Salsa20, Poly1305, SHA-512, boxes |
| Secp256k1 binding | `secp256k1-stubs.c`, `secp256k1.ml` | a context with its flags | keys, signatures and their encodings |
| Driver | `liquidMain.ml`, `liquidOptions.ml` | global option references | order of the passes, files |
| Printers | `liquidPrinter.ml`, `liquidToOCaml.ml`, `liquidDot.ml` | buffers | formatting |

### Interactions

* The driver runs the passes of the compiler one after the other on one contract:
  parse, typecheck, encode, simplify, translate, peephole, emit. The encoder hands the
  simplifier a map from variables to what replaces them (`to_inline`), and flags on every
  expression (`fail`, `transfer`); the code generator trusts that every variable it meets
  was bound.
* The client compiles the contract, then talks to the node in RPCs. Between two RPCs
  everything may change: other promises of the process run, the node bakes, another
  wallet uses the account. A timeout (30 s) raises and abandons the chain; the request
  may still arrive.
* The client hashes what it injects, and the address of what it originates, with BLAKE2b
  (`liquidDeploy.ml:999`, `:1086`): one context per hash, opened, fed and closed through
  the stubs. The build links no other of the C libraries into the compiler: SHA-256 and
  Keccak have their stubs and `nocrypto_bak.ml`, `tweetnacl.c` has neither, and no build
  file names the binding of libsecp256k1. They are modelled as the vendored code they are.

### What is hard, and what correct means

* **Client.** Concurrency and unreliable answers. Correct: a hash is returned only for an
  operation the node took, with the verdict of its simulation; an exception means that
  nothing was injected, but where the answer to the injection is lost or nonsense, or the
  simulation succeeded in a way the function has no case for; alone on its account, the
  client succeeds; every invocation returns.
* **Encoder and simplifier.** Mutable counters and flags, computed in one pass and trusted
  in another. Correct: the contract computes the same value, or fails with the same one.
* **Code generator.** The stack is tracked by hand. Correct: the code leaves the value of
  the expression, and nothing else, on the stack it started from, at every depth.
* **Peephole.** Some forty rewriting rules that trigger one another. Correct: same
  stack or same failure, and no movable drop left.
* **Hash functions.** A message comes in strings of any length, which end anywhere in a
  block; the last block must wait, the counter carries, the padding may need a block more.
  Correct: the digest is that of the concatenation.
* **NaCl and Secp256k1 binding.** Numbers that have several representations until they are
  reduced, and checks that must come before a result is written. Correct: the functions
  agree with the arithmetic, what is signed or boxed opens, what was changed does not.
* **Emitter.** Recursive expansion. Correct: only plain Michelson comes out.
* **Decompiler, its cleaning pass included, and type checker** (not modelled). Correct: compiling the decompiled
  contract gives code with the same meaning; what passes the checker does not meet an
  assertion later.

The complete list of hazards, each at its line, is in `PROJECT.json`.

## 2. Modules

| Module | Models | Content |
|---|---|---|
| `Submission` | what the client promises | abstract: an operation lands at most once, a verdict is final and says what landed |
| `LiquidDeploy` | `liquidDeploy.ml` | one action per RPC answer, plus node, other wallets, timeouts, bad answers |
| `LiquidProofs` | | theorems about it, and the stack facts behind the rules of `LiquidPeephole`, for stacks of any depth |
| `StackOps` | Michelson stack operations | as sequence operators, for proofs |
| `Michelson` | semantics of the instructions the compiler emits | external, recursive: `Run(code, stack, gas)` |
| `LiquidSyntax` | `exp_desc` of `liquidTypes.ml` | the expressions and their meaning, `Eval` |
| `LiquidBoundVariables` | `liquidBoundVariables.ml` | `bv`, and a traversal shared by the passes |
| `LiquidEncode` | `liquidEncode.ml`, `LiquidTypes.mk` | `Encode(env, state, e)` with the mutable fields threaded as a record |
| `LiquidSimplify` | `liquidSimplify.ml` | `iter` and its fixpoint |
| `LiquidMichelson` | `liquidMichelson.ml` | `Compile(depth, env, e)`, `FinalizeFail` |
| `LiquidPeephole` | `liquidPeephole.ml` | `Step`, one case per rule |
| `LiquidEmit` | `liquidEmit.ml` | `EmitCode` |
| `LiquidCompile` | `compile_liquid_files` of `liquidMain.ml` | composes the passes: one action each |
| `HashStream` | what a hash library promises | abstract: a context is opened, fed strings, and closed with the digest of their concatenation |
| `Blake2b`, `Sha256`, `Sha3` | `blake2b-ref.c`, `sha256.c`, `sha3-ref.c` and their callers | one action per block or word of an update; each implements `HashStream` |
| `Blake2bProofs`, `Sha256Proofs`, `Sha3Proofs` | | theorems about each |
| `Compressions`, `Words` | `blake2b_compress`, `mbedtls_sha256_process`, `keccakf`, the cores of `tweetnacl.c` | on words of their full size, as sets of bits |
| `HashVectors` | the self tests of the sources | the known answers |
| `Buffers` | | arrays of bytes |
| `BufferProofs` | | lemmas on arrays, numbers in digits and recursion, for those proofs |
| `Field25519`, `Curve25519`, `Ed25519` | `tweetnacl.c` | limbs and carries; the ladder; points, `modL`, signatures |
| `SecretBox`, `Sha512` | `tweetnacl.c` | streams, authenticators, boxes; the padding of `crypto_hash`; their calls |
| `Ed25519Calls`, `Calls` | calls of `tweetnacl.c` | calls of the functions on numbers, scalars and signatures, and what they return |
| `Field25519Proofs` | | theorems about the field, powers, and the ladder |
| `Ed25519Proofs` | | theorems about `modL`, points and signatures, and about `Ed25519Calls` |
| `NaClProofs` | | theorems about `SecretBox` and `Sha512` |
| `Secp256k1` | `secp256k1-stubs.c`, `secp256k1.ml` | every stub and its caller |
| `Ecdsa` | libsecp256k1, external | ECDSA on a small curve, as the stubs use it |
| `MC...` | | instances for TLC; `MCLibraries` joins those of the C libraries |

### The client (`LiquidDeploy`)

An invocation `i` of `Kind[i]` is at the RPC `pc[i]`: the action named after the function
that sends it (`GetHead`, `GetNextCounter`, `IsRevealed`, `Forge`, `GetProtocol`,
`Preapply`, `SendInjection`, `Injected`) is the continuation after the `>>=`, with what it
read kept in `head`, `counter`, `revealed`, `op`, `sim`. The order of the RPCs is the
code's, and differs by function: `deploy` with an initializer runs it after it has read the
head, `forge_deploy` before. `Timeout` and `BadAnswer` may take the place of any answer, that
to the injection included (its hash is then not the expected one, or not a string): `lost`
remembers for whom. `sim` has what the client reads of each content of the simulation:
`applied`, `originated` (applied, with originated contracts), one of the three words for a
failure, or nothing it understands. A transaction may be either success, since a contract that
is called may create others. `FirstResult` is what `inject_operation` keeps of it, and
`Verdict` what the callers make of that: `deploy` has a case for one originated contract only,
`call` and `activate` for none only, and each raises on another success.
`RaiseResponseError` is `raise_response_error`: it forces the lazy `error_schema`, so that
an error raised before the schema is loaded waits in stage `errors` for the one promise
everybody shares (`ErrorSchema`), and one raised later is raised at once; inside
`inject_operation` the difference decides whether the handler catches it. The node
(`NodeInject`, `Bake`, `Simulations`) and the account's other wallets (`OtherWallet`) are
external, modelled as far as the client can tell: counters must follow, an unrevealed
account must reveal first, batches are atomic, branches expire after `TTL` blocks, the
mempool counts for injections and not for simulations.

### The compiler (`LiquidEncode` to `LiquidCompile`)

The passes are pure functions of trees in the code (the encoder's references apart), so
they are recursive operators; `LiquidCompile` is the state machine whose actions are the
passes, and its properties compare what the contract, the encoded expression, the
simplified expression and the code *do* on inputs: `Eval` gives the meaning of an
expression, `Run` that of Michelson code, both a value or the value of a failure.
`LiquidSyntax` has one constructor per case of `exp_desc`, and one for each of `Prim_tuple` and
`Prim_tuple_get` (`Tuple`, `TupleGet`), which the simplifier tells from records (`Record`,
`Project`, `SetField`); a field is its place in the record. The other primitives are
reduced to those whose code has a different shape or effect. Types are kept where a pass
reads them: unit, always-failing, function, closure, other. A failed OCaml `assert` or
internal error is the expression `Error` or the instruction `ASSERT`, so that a pass that
stops is seen. The arguments of operators are evaluated from last to first, as the
generated code does.

In `LiquidEncode` the environment maps a name of the source to the expression that stands
for it (a renamed variable, or a component of a closure's argument) and to the variable
whose counter it increments. `Kids` lists the subexpressions of an expression with the
names bound in each, in the order in which the encoder visits them, because fresh
names and counts depend on it; `EncodeKids` is then the case of every construct that
only binds names.

`EqSyntax` is `eq_syntax_exp`, flaws included: of two sequences only the first halves are
compared, and not at all what a `let` binds. `LiquidSimplify` has the comparison as its parameter
`Same`, so that `LiquidCompile` can say what the simplifier would do with an equality
(`Exact`), and so which programs the difference concerns (`Confused`). The history variable
`encoded` keeps what the simplifier was given for that.

### The C libraries

A context is a machine whose caller may open, feed and close it in any order `blake2.ml` and
`nocrypto_bak.ml` allow: reopen it, feed it after its end, ask for an illegal size. The loop
of an update is one action per block (`FillBuffer`, `CompressInput`, `CopyRest`), with the
input that is left in `call.in`. The three modules are extended together by `MCHashes`, so
the names of `Sha256` begin with an `s` or `Sha` (`sctx`, `ShaNext`) where those of
`Blake2b` would be the same, and the names of `Sha3` with a `k` or `Keccak`. The compression
is uninterpreted there: a chaining value is the sequence of the calls made, each with the
block, the counter and the flags it read, so that a digest tells what it was computed from.
`given` is a history variable: what the open context was opened for and fed. `Compressions`
gives the compressions their meaning, on words of 64 or 32 bits, and `HashVectors` puts the
two together on blocks of their full size.

`tweetnacl.c` is pure but for the random bytes of its keys. `Field25519` takes the number of
limbs and the size of a byte as parameters, so that the same carries, conditional
subtractions and ladders run on a field TLC can compute in; the curve, the order and the
base point are constants of `Curve25519` and `Ed25519`. A call is a behaviour of two states:
which function is called and with what (`test`), then what it returned (`result`). The calls are
constants too (`CurveCalls`, `BoxCalls`, `HashedMessages`), so that the theorems are about
`CurveSpec`, `BoxSpec` and `Sha512Spec`, for every set of calls, and `MCNaCl` joins the actions of
all three to those of the calls that no theorem is about (the ladder, boxes, a field of three
limbs). It extends the three modules at once, so each has names of its own for its bytes and
blocks (`BYTE` of limbs, `BOXBYTE`, `HASHBYTE`). A boolean returned beside a buffer
is a record of both, so that what is left in the buffer after a refusal is seen.

`Secp256k1` keeps the strings the stubs write into and the integers they return, as
`secp256k1.ml` reads them: as a boolean, as a length, or not at all. Of the forms of a
signature, `Ecdsa` takes every DER form with the number zero for an integer that is negative, too
long or not below the order, and refuses the compact form of such a number, as
`secp256k1.mli:37-45` says.

## 3. Runs

| Run | Question | Bound |
|---|---|---|
| `deploy_pair` | a call and a deployment at once, with an initializer, against timeouts, bad answers, blocks, another wallet: `TypeOK`, `ReportFaithful`, `RaisedMeansNotInjected`, `Termination` of both, also when they wait for the same promise, implements `Submission` | 2 invocations, 1 block (branches expire with it, `TTL = 0`), 1 foreign operation |
| `deploy_solo` | one function at a time on a healthy node: `SoloSucceeds` | call, reveal, activate, deploy with an initializer; 1 block within `TTL` |
| `deploy_offline` | forge with `--counter`, inject later: `DeliveryInv`, implements `Submission` | 3 invocations, branch expires |
| `peephole` | `SameMeaning`, `DropsMovedBack` on every block | 4 instructions of two vocabularies, 230 000 blocks |
| `compile` | all passes, with and without the peephole optimizer, on bindings, matchings and uses, loops, data, functions, contracts with entry points: `MeaningKept`, `ValueKept`, `PinnedFailureKept`, `EmittedIsPlain`, `FailwithInTail` | every expression two constructs deep, over 50 000 contracts |
| `libraries` | the hashes implement `HashStream` (`Blake2bIsHash`, `Sha256IsHash`, `Sha3IsHash`) by their inductive invariants (`NothingLost`, `StreamInv`, `SpongeInv`); `KnownAnswers`; the functions of `tweetnacl.c` against arithmetic (`FieldIsExact` to `HashIsPadded`); sessions of libsecp256k1 (`SignaturesVerify`, `EncodingsParse`, `PubkeysParse`) | see below |
| `deploy_unrevealed` | violated: `DeployReturnsAddress` | 1 invocation |
| `compile_failing_loop` | violated: `FailwithInTail` | |
| `compile_checked_first` | violated: `FailureKept` | |
| `compile_unused_twice` | violated: `ValueKept` | |
| `compile_inlined_in_function` | violated: `FunctionsArePure` | |
| `hash_keyed` | violated: `KeyedContextIsUsable` | |

**Why the bounds are enough.** The client's invocations interact through the account's
counter and the error schema only, so two of them show each interference; a block is enough
for a branch to expire (`TTL = 0`) and for a counter to be used before and after it, and
`deploy_offline` has a branch that lives for one block and dies with the second. A peephole rule looks at two or three adjacent instructions and produces at most
four, so blocks of four start every rule and rules on their results. The
compiler is compositional in depth and environment: two nested constructs put each of
them at a non-zero depth, under a binding, in a branch and before code that reads a
variable below it; the inputs take both branches of every condition and every entry point.
Programs of the families `data` and `functions` have updates between records that
`eq_syntax_exp` confuses, and unused calls of functions that a closure captured or that were
received as argument. `Gas = 4` bounds the iterations of one loop, and `MeaningKept` checks
that no program of the instances needs more.

The hash libraries have blocks of a few bytes (3 for BLAKE2b, 8 for SHA-256, words of 2 for
Keccak), and are fed up to `MaxFed` bytes in strings of every length up to past two blocks,
so that a string ends before, at and after the end of a block, starts in a partial block or
at none, and spans none, one or several; the counters of BLAKE2b are words modulo 4, that of
SHA-256 modulo 16, so that both words of a counter wrap round. A byte is named by its place
in the message, so that one lost, repeated or moved shows. Keys have no byte, one, the most
allowed and one more; sizes are illegal, least and most. `MaxBlocks` stops the calls on a
context that is never closed.

The fields of `MCNaCl` have two limbs of two bytes of four bits, with the prime 2^15 - 19, or
three such limbs for carries in the middle; limbs are negative, at the edge of
one carry and of two, and around the prime. The curves over them are a Montgomery curve of
order 8 times a prime and an Edwards curve whose base point has the order 4111, above a
power of two by little as the real one; multiples, encodings above the prime and small-order
points are all among the arguments. The curve of `MCSecp256k1`, y² = x³ + 7 over 43 elements,
has 31 points, fewer than its field has elements, so that a recovery id above 1 happens, and
its nonces fail at the first attempt now and then. The DER forms that are parsed have integers
in range, above the order, negative, too long, and not DER, in every pair.

`CHECK_DEADLOCK FALSE`: a contract is compiled once, a function is called once, and a client
that has finished all its invocations, with `MaxLevel` blocks baked, has nothing left to do.

**Fairness.** `deploy_pair` assumes weak fairness of `ErrorSchema` and of every step of an
invocation. Lwt runs the continuation of every resolved promise, and curl ends each request
within its timeout (`Curl.set_timeout c 30`), by an answer, an error or the timeout, which
are all disjuncts of `Step`. Nothing makes the node bake or take a request, so those
actions are not fair, and neither is `Start`.

**Sensitivity.** Every property of a passing run comes with a mutant of the code, written
beside the definition it replaces (for example `StepDupSameIndex`, `OptimisticTimeout`,
`FillBufferEarly`), for which TLC finds the property violated.

## 4. What is proved

`LiquidProofs`, for every set of invocations, choice of functions, options and
bounds (assumption `DeployAssumption`: the constants have their types):

* `TypeCorrect`: `Spec => []TypeOK`. The type of the forged batch and of its simulation
  are lemmas (`BatchType`, `SimulationType`).
* `RaiseIsSafe`: `Spec => []RaisedMeansNotInjected`. The property is not inductive: that
  a raised invocation is not on the wire needs to know where each injection is.
  `DeliveryInv` says so for each stage: not sent before `wait`, on the wire only without
  an answer, landed exactly if the answer is a hash, lost only by an invocation that raises.
  After the hash has come back only a verdict can raise, and then the simulation is one of
  those that `Unexpected` lists (`RaisingVerdicts`): with `lost`, these are all the exceptions
  that leave the user in doubt.
* `ReportsAreFaithful`: `Spec => []ReportFaithful`. This one needs `SimulatedInv` too:
  until the verdict the batch is not empty, and if its first result is a success no other
  is a failure (batches are atomic: `FirstStatus`), which is why one result is enough.
* `DeliveryIsTracked`: `Spec => []DeliveryInv`, which with the type invariant is inductive.
* `AloneSucceeds`: `Spec => []SoloSucceeds`: alone on its account, with a node that answers
  and a branch that is still live, an operation whose simulation does not fail is taken,
  deployments included, and reported as taken but for the successes its function has no case
  for, whether or not the account was revealed before. Its invariant
  (`SoloInv`) ties what the client knows to what the node has: the counter it read is the
  account's until the injection, its reveal is in the batch exactly if the account lacks
  one, and the first counter of the batch is the one the node waits for.
* `Refinement`: `Spec => ServiceSpec`: the client implements `Submission`, the landed
  operations and the verdicts being the same; every step is a step of `Submission` or
  stutters.

Each invariant is proved by one step per action of `Next`.

`LiquidProofs`, for stacks and depths of any size, from the definitions in `StackOps`:
a drop crosses an operator of any arity (`OperatorCrossed`), a push (`PushCrossed`), the
test of a conditional (`BranchDropsCrossed`), and a `DUP n` when it is nearer, farther or
among the dropped elements (`DupAbove`, `DupBelow`, `DupAmong`, `DupMoves`): the index
arithmetic of `simplify_step`. TLC's run `peephole` ties it to the rules themselves.

`Blake2bProofs`, for every size of a block and of the counter's words, every key, every
message and way of cutting it into strings, illegal sizes and calls on closed contexts
included (assumptions `BlockAssumption`: a key fits in a block, and the length of a
block in a word of the counter; `CallerAssumption`: what callers give has its type):

* `TypeCorrect`: `Spec => []TypeInv`.
* `CounterAdds`: `increment_counter`, which finds the carry from the wrapped sum alone, adds.
  It rests on facts on quotients (`DivisionUnique`, `SuccessorModulo`), which the SMT solver
  does not find for a divisor that is a variable.
* `NothingIsLost`: `Spec => []NothingLost`. The invariant says what is still to do: the bytes
  in the buffer, in the running call and in what follows it are the data without the blocks
  compressed (`Pending = Drop(data, n * BLOCKBYTES)`), fewer than all the data are compressed
  (so that the last block waits), and call `k` had block `k`, its counter and no flag.
  `NextBlock` says that a full block cut from what is pending is the next one of the data,
  and `CompressKeeps` that compressing it keeps the invariant; the actions are uses of both.
* `Refinement`: `Spec => Blake2bIsHash`: closing a context writes the digest of the reference
  definition, block by block, of all that was fed. `LastCall` is the step that matters: the
  buffer padded with zeros is the last block, and its counter the length of the data.

`Sha256Proofs`, for every block, word and length field that fit together, every message and
way of cutting it into strings, SHA-224 and contexts that are started again included
(assumption `Sha256Assumption`: a word is whole bytes, and whole blocks; a block has room for
the length; a string's length fits in a word, 4 GB in the code, as the test `total[0] < ilen`
takes it to):

* `TypeCorrect`: `ShaSpec => []TypeInv`: no byte is written outside the buffer.
* `StreamKeepsAll`: `ShaSpec => []StreamInv`. That the digest is right only shows at the end, so
  it is not inductive; `StreamInv` says how far the running call is. The blocks processed and
  the bytes in the buffer, up to the place `total` gives, are the data, and then, while
  `sha256_finish` feeds them, the padding and the length. What the buffer holds beyond that
  place, left there by an earlier block or an earlier message, is of no account.
* `PaddingFacts`: `padn` is the one padding that fills a block up to the length field;
  `BitLength` and `TwoWords`: the bytes of the two words, shifted, are those of the length in
  bits.
* `Sha256Hashes`: `ShaSpec => Sha256IsHash`.

`Sha3Proofs`, for every sponge and rate (assumption `KeccakAssumption`: the
sponge has more words than the capacity takes, and the bit that ends the padding is not the
one that begins it):

* `TypeCorrect`: `KeccakSpec => []TypeInv`: no word is added outside the sponge.
* `SpongeKeepsAll`: `KeccakSpec => []SpongeInv`: the words absorbed are the first words of the data,
  each at its place, and the bytes of the word that was begun, of the running call and of
  nothing else are the rest.
* `KeccakIsHash`: `KeccakSpec => Sha3IsHash`.

`NaClProofs`, of `Sha512`, for every block, byte and word (assumption `Sha512Assumption`: a
byte has room for the three bits that a length in bits has more than one in bytes, a block for both
words of the length):

* `HashesPadded`: `crypto_hash` is `crypto_hashblocks` of the padded message of the standard,
  for every message whose length fits in a word, as it does in the code. The one or two blocks
  that are built have the right size (`ZerosFit`, `ZerosUnique`: the zeros of the standard,
  chosen there, are what is left), the two copies lay down the parts in order (`Layout`), and
  the byte and the word of the length, one shifted down by 61 and the other up by 3 with what
  leaves it lost, are the two words of the length in bits (`HighWord`, `LowWord`). Of
  `crypto_hashblocks` it takes that it reads whole blocks one after the other
  (`HashesInOrder`), which is its loop.
* `HashCallsReturn`: `Sha512Spec => []HashIsPadded`.

The same module, of `SecretBox`, for every size of a byte, a nonce, a block and an authenticator, and
whatever the cores of Salsa20 and the curve (assumption `BoxAssumption`: bytes and blocks are
not empty):

* `Incremented`: the bytes of the counter with the carries of the code are the next number's.
* `StreamIsXor`: `crypto_stream_salsa20_xor` is the message with the keystream of the counter,
  byte by byte, whole blocks and a last short one. `TurnAdvances` is a turn of the loop;
  `LoopTurns` of `BufferProofs` makes of it what the loop does.
* `MacIsAuthenticator`: `crypto_onetimeauth` is Poly1305, that is `Authenticator`, the
  polynomial of the blocks at the clamped half of the key modulo the prime, plus the other
  half. The code never reduces in between: its digits are carried late, what is above 2^130
  comes back five times, and the prime is subtracted once at the end if that does not go below
  zero. The invariant of its loop is `Kept`: the digits are bytes, worth less than 5 * 2^128,
  and congruent to the partial sum of the polynomial; `TurnKeeps` is a turn of it, from
  `SumFits` (nothing is lost by `add1305`), `TimesFacts` (a product is congruent, and its
  digits are at most `LARGEST`, so that the 32 bits of the code do not overflow) and
  `SqueezeFacts` (two rounds of carries leave bytes); `LeastFacts` is the subtraction. Assumed
  beside `BoxAssumption`: `MacAssumption`, that a byte has a multiple of 4 and at least 16
  values, and that a product carries no further than into the digit above 2^128, which holds
  with the code's 256 and 16 and on the small instance of `libraries`.
* `StreamCallsReturn`, `MacCallsReturn`: `BoxSpec => []StreamIsKeystream` and
  `BoxSpec => []MacIsPolynomial`, for calls with bytes, and keys of the right size
  (`BoxCallsAssumption`).
* `SecretBoxOpens`, `BoxOpensAtOtherEnd`: what was put into a box the other end verifies and
  gets back whole, for messages with the zeros that the interface asks for in front
  (`SixteenBits`: their bytes may be any numbers below 65536, the width of `Words!Bits`). Both
  ends take the key of the authenticator from the same stream; what is xored twice is what it
  was (`TakenOff`). For `crypto_box` the hypothesis is that the curve gives both ends the same
  point, which the run `libraries` checks of the ladder, on a small field. That a box that was
  tampered with does not open is a matter of the authenticator, and is not claimed.

`Field25519Proofs`, for any number of limbs of two bytes (assumption `FieldAssumption`: a byte
has at least four bits, there are at least two limbs, and the sum of as many products of limbs
as there are is small beside what all the limbs can stand for, `CAP`, which is 2^256 in the
code). The prime is `P = CAP \div 2 - 19`, and a number is what `Element` says its limbs stand
for:

* `PackIsCanonical`: `pack25519` writes the bytes of the number, from whatever limbs. A round
  of `car25519` takes multiples of `CAP = 2P + 38` from the worth of the limbs and gives 38 back
  for each (`CarriedFacts`); after two of them all limbs but the first are digits, the first is
  off by 38 at most, and the worth is in `0..CAP - 1` (`TwoCarries`); the third leaves digits
  (`ThirdCarry`), from which the prime is subtracted, with a borrow from limb to limb, unless
  that goes below zero, twice because the worth is less than `2P + 38` (`SubtractFacts`).
* `SumIsExact`, `ProductIsExact`: the operations are those of the numbers. The sizes of limbs
  tell when: `Tight` ones are left by two carries; those `Within` a bound add their bounds, and
  are `Loose`, which may be multiplied, up to three times the bound of a tight one, the most
  that `add` and `unpackneg` make; `Modest` ones are products and may be carried. A product is
  summed by columns in the code and by rows in the proof (`RowsWorth`, `ProductIsSummed`).
* `NeqIsExact`, `ParityIsExact`, `UnpackIsExact`: comparison, parity and reading of bytes, which
  drops the highest bit and takes numbers from the prime on as well.
* `InverseIsPower`, `RootIsPower`: `inv25519` and `pow2523` are the powers `P - 2` and
  `(P - 5) / 8`. The exponent is followed bit by bit: with ones only, `c` squarings and
  multiplications give the power `2^(c + 1) - 1` (`PowerOnes`); the skipped multiplications are
  the last ones. `InverseInverts` is that the power `P - 2` is the inverse of every number whose
  power `P - 1` is one: Fermat's theorem, and that 2^255 - 19 is a prime, are hypotheses here.
* `LadderStepIsExact`: a turn of the ladder of `crypto_scalarmult` maps to the turn on numbers,
  and leaves tight limbs. What makes it hold is the order of the operations: no sum of sums is
  ever multiplied. `ScalarMultIsExact` is `crypto_scalarmult` as a whole: by induction over the
  turns (`LadderIsExact`) its loop is that of `NumberLadder` on numbers, and what it returns the
  bytes of a quotient, as the power `P - 2`. What TLC is left with is the group law.

`Ed25519Proofs`, on top of that:

* `ModLIsExact`: `modL` writes the bytes of the remainder modulo the order of the base point, for
  bytes as large as a product of scalars makes them (`MOST`). A high byte is taken away by
  subtracting multiples of the order's low bytes further down (`TakeAwayIs`: a multiple of the
  order in all), and what makes that work is that the carry out of those bytes stays small. Its
  invariant is `Size`, a bound for each byte after each turn, kept by `TurnKeeps`: a byte below
  is as it was, those touched last are within half a byte, and each of the others has been
  given one carry since. What is left is within one order of the multiple that the last byte
  tells (`RestIsLittle`), so that adding the order back once is enough (`AddBack`).
  `ScalarIsExact` applies it to what `crypto_sign` computes: `r + h d`. Its assumption,
  `OrderAssumption`, is about the order alone: all its bytes but the last and `SPAN` low ones are
  zero, the last divides the number of values of a byte, and the low ones are small enough. It
  holds with the code's order (`MOST` is 2081055, and `LEFT`, what may be left in a byte, 130)
  and with that of the small instance of `libraries`.
* `AddIsSum`: `add` returns the sum of two points. A point is here a pair of numbers, and
  `IsPoint(p, u)` says that the four coordinates of `p` stand for `x z`, `y z`, `z` and `x y z`
  with a `z` that is not zero; `IsSum(u, v, w)` is the law of addition of the curve, multiplied
  out, with neither denominator zero. The proof has two halves: the limbs (`SumsOfPoints`: what
  is added before it is multiplied stays loose) and the numbers (`SumFormulas`: the products of
  the code are `2 z1 z2` times the numerators and denominators of the law). That the new `z` is
  not zero again is the one place where the prime is needed (`NoDivisors`).
* `PackIsEncoding`: `pack` writes the encoding of the pair, whatever `z` is.
* `ScalarMultIsMultiple`, `ScalarBaseIsMultiple`: `scalarmult` is the multiple by the number
  that the bytes are. Its invariant is that before each turn the two points are the multiples
  by the bits taken so far and by one more (`StepDoubles`, `BitFacts`); the swaps, on a bit
  that is one, are in `ScalarStepIs`.
* `UnpackDecodes`, `UnpackNegates`: bytes are refused if and only if no point has their number
  as its second coordinate; of the others the point with the other parity is returned, and so
  of an encoding the negative. `RootIsFound` is the arithmetic: if `num / den` is a square,
  what `Candidate` makes of the power `(P - 5) / 8` has that square or its negative, and a
  square root of -1 mends the second. `DenIsNotZero` uses that d is not -1.
* `OpenChecksEquation`: `crypto_sign_open` accepts exactly the strings whose first half is the
  only encoding of `h (-A) + s B`.
* `SignedMessageOpens`: what is signed with the keys of `crypto_sign_keypair` opens, with the
  message in front of what is left in the buffer, for every seed and message. It puts all of
  the above together: `ClampStays`, `ReducedFacts` and `SignedParts` give each function what
  its theorem asks for, and `NumbersCancel` is that `h (-a) + (r + h a)` is `r` modulo the order.

* `InverseCallsReturn`, `PointCallsReturn`, `MultipleCallsReturn`, `ModLCallsReturn`,
  `SignCallsReturn`, `OpenCallsReturn`: `CurveSpec => []` of `InverseIsInverse`, `PointsDecode`,
  `ScalarIsMultiplication`, `ModLIsRemainder`, `SignatureOpens` and `OpensIffEquation`. These
  properties speak of numbers only, of reciprocals that are powers and of multiples by doubling,
  as TLC computes them; the theorems above speak of limbs and of families of multiples. In between
  are `AffineIs` (the two coordinates of a point of the code are those of its pair),
  `MultiplesFacts` (multiples by doubling are multiples by adding) and `BaseIsCycle` (those of the
  base point have the period `Order`). `HalvingInduction` of `BufferProofs` is the induction on
  the halves of a number that powers and multiples need.

The theorems about points have these hypotheses, all of them on constants and all of them true
of those of the code. `CurveAssumption`: the limbs of the constants are digits, `D2` is `2 D`,
`I` a square root of -1, and d is not -1. `PrimeAssumption`: Fermat's theorem for `P`, all that
is used of its being a prime. `HashAssumption`: the hash is 64 bytes. `CurveCallsAssumption`: the
arguments of the calls have their sizes. The theorems on multiples are about any family of pairs
in which the law of addition gives for the `i`-th and the `j`-th the `i + j`-th (`IsMultiples`),
and for signatures one with the period `Order` and negatives on both sides of zero (`IsCycle`).
For the theorems on calls such a family is built from `GroupAssumption`: the points of the curve
are a group with its law of addition (`IsGroup`: defined everywhere, commutative, associative,
with a zero and negatives), in which the order of the base point is `Order`. That is mathematics
about the curve and not about the code, and is taken from there.

TLC evaluates the assumptions on constants on those of the run `libraries` (`MCNaCl`), `IsGroup`
on a sample of points, some of order two and four among them. `FieldAssumption` needs three limbs
when a byte has four bits: it is evaluated on those of `F`. The curves of the run have two, for
TLC to search their squares, and the run shows that the properties hold there nevertheless.

`BufferProofs` has what these proofs share. The induction theorems of the library have an
operator as a parameter, which none of the provers can instantiate; `LeastElement` and
`SetInduction` say the same of sets of numbers, `Iteration` and `Recursion` that a function
defined by recursion on numbers satisfies its definition, and `LoopExists` and `LoopTurns`
the same of the loops of `Buffers!Loop`. A loop of the code becomes a use of them: the set
is that of the turns after which what is claimed holds. For numbers in digits it has what
they are worth (`Worth`: of sums, shifts, zeros, single digits, and below which power;
`WorthOfDigits`, that the digits of a number are worth the number), powers (`PowerOfSum`,
`PowerOfPower`), what carrying leaves (`CarryWorth`, `CarryBound`), congruence, and that
Horner's rule with a remainder at every step is what the digits are worth (`HornerIsWorth`).

**Only model-checked.** `Termination` (liveness under fairness is beyond TLAPS, as is
`ENABLED`); the compiler's passes and the whole optimizer, which are `RECURSIVE` operators
over trees, for which the SMT backend is lost; the compressions; that the Montgomery ladder
is multiplication in the group of its curve (`LadderIsMultiplication`; proved is that the
limbs compute the ladder on numbers), and that the Edwards law is a group's; that a forged
signature or box is refused (`ForgeriesRefused`, `BoxOpens`), which no theorem could say of
every hash; `FieldIsExact` as one statement, of which `SumIsExact`, `ProductIsExact`,
`PackIsCanonical` and `NeqIsExact` are parts; that the two ends of a box get the same point
of the ladder, which `BoxOpensAtOtherEnd` has as a hypothesis; the binding of libsecp256k1,
on the small numbers of its instance.

## 5. Findings

1. `deploy` from an unrevealed account injects the operation and then raises
   (`deploy_unrevealed`).
2. `finalize_fail_pre` does not enter `LOOP_LEFT`: instructions stay behind a `FAILWITH`
   (`compile_failing_loop`).
3. A value that may fail and is used once is inlined into the branch that uses it, so the
   contract does not fail when the other is taken (`compile_checked_first`).
4. A use inside a dropped binding inside another dropped binding is subtracted twice, and a
   variable still in use is compiled to unit (`compile_unused_twice`).
5. A function that uses a variable marked inline is not made a closure although what is
   inlined has free variables; compilation stops with an internal error
   (`compile_inlined_in_function`).

6. `blake2b_init_key_ml` returns `Val_unit` for the context that `blake2.ml` declares, so a
   keyed hash goes on with something that is not a context (`hash_keyed`). Nothing in the
   repository opens one.

The passing runs leave the programs of 2 to 5 out, and `PinnedFailureKept` is `FailureKept`
where no value that may fail is inlined.

Two more flaws of the compiler are among the programs of `compile`, whose properties name them and
leave exactly them out:

* `eq_syntax_exp` compares the first halves of two sequences twice (`liquidTypes.ml:904`) and what
  a `let` binds with itself (`:907`), so `(u; r).f <- (w; q).f` is simplified to `(u; r)` although
  `r` and `q` differ. `ValueKept` leaves out the programs whose simplification is another with a
  true equality (`Confused`); without that TLC finds it violated.
* A call is flagged as failing by its arguments alone (`liquidTypes.ml:860-861`), and the variable
  of a function bound by a `let` by its value; for a function that a closure captured
  (`liquidEncode.ml:156`) or that is a parameter there is no such value, and a call of it whose
  result is not used is dropped (`liquidSimplify.ml:139`, `:207`), with the failure it stood for.
  `PinnedFailureKept` leaves out the programs with such calls (not `FailuresSeen`); without that
  TLC finds it violated by both kinds.

And so are exceptions after the injection in the runs of the client, which
`RaisedMeansNotInjected` and `SoloSucceeds` name (`Unexpected`, `lost`): `call` raises for a
contract that originates others (`liquidDeploy.ml:1206`), although `liquidDeploy.mli:102-103` says
that it "returns the operation hash"; `activate` for a status it cannot read (`:1277`); and
all of them when the node answers the injection with another hash than was computed (the
assertion at `:1086`) or with no string (`:1080-1084`).

Seen by reading, and stated by no line the code could be held against: `Sync.forge_deploy`
takes `~delegatable` and `~spendable` and does not hand them on (`liquidDeploy.ml:1360`);
`clean_contract` has no effect on a contract, since `clean_code` returns the code it was given
for every instruction but a `DIP` or a `LOOP` of a `FAILWITH` alone (`liquidClean.ml:32`).

## 6. Not modelled, and the plan

Not modelled: the front end and the readers and printers (conversions of trees and text
without state); `run`, `get_storage` and `get_big_map_value`, which only read; types,
annotations and locations; `CreateContract`, `Contract.at`, `unpack` and big maps; the
cleaning pass before decompilation, which changes nothing; the symbolic execution of the decompiler and what follows it; the vendored OCaml libraries. An
exhausted stack or memory is left out everywhere.

Of the C libraries: BLAKE2's tree modes and BLAKE2s, which `blake2.h` only declares; the
prototypes behind the `#if 0` of `secp256k1-stubs.c`; the FIPS 202 half of `sha3-tests.c`,
which `sha3-ref.c:34` keeps from being compiled by defining `SHA3_USE_KECCAK` (the comment at
`sha3-tests.c:5-6` says it "is undefined in the production version"); the vectors of a
million letters and of 2^30 bytes, too long for TLC; X25519 and Ed25519 at their full size,
since TLC's integers have 32 bits. The one-shot `blake2b` is modelled (`Direct`), although
`blake2.ml` shadows it. A Keccak or SHA-256 context is closed only while it is open, as
`nocrypto_bak.ml` does. Timing, alignment and the clearing of secrets are not modelled.

Plan, in order:

1. `LiquidInterp`: the symbolic stack of the decompiler against `Michelson!Run` on the blocks
   of `MCLiquidPeephole` and on compiled contracts; then `LiquidDecomp` and the round trip
   through `LiquidCompile`.
2. `LiquidCheck`: `Tfail`, and unused variables, in front of the pipeline, so that ill-typed
   and always-failing bindings can be among the programs.
3. Functions in the parameter and the storage, operations with an identity (that an
   operation is not duplicated by inlining), names that clash with `parameter` and
   `storage`, big maps.
4. `run_pre` and the reading RPCs.
5. Proofs: the differential addition of the Montgomery curve under the ladder; more of the
   rules of the peephole optimizer as theorems over `StackOps`.
