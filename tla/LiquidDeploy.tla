---------------------------- MODULE LiquidDeploy ----------------------------
(***************************************************************************)
(* The asynchronous client of a Tezos node, src/tools/liquidity/           *)
(* liquidDeploy.ml: the invocations of deploy, call, reveal, activate,     *)
(* forge_deploy, forge_call and inject that one process runs concurrently  *)
(* for one source account, as chains of Lwt promises with one RPC per      *)
(* step, against a node that bakes blocks and that other wallets of the    *)
(* account use too.  An operation is abstracted to its branch and, for     *)
(* each content, its kind and its counter.                                 *)
(***************************************************************************)
EXTENDS Integers, Sequences

CONSTANTS
  Invs,             \* the invocations
  Kind,             \* Kind[i]: the function of the API that i calls
  InitCode,         \* does the contract compute its initial storage by code?
  CounterOption,    \* the value of option --counter
  NoCounter,        \* ... when it is not given
  Faulty,           \* may an RPC time out or answer nonsense?
  TTL,              \* blocks during which an operation's branch is accepted
  MaxLevel,         \* bound: blocks baked
  MaxOthers         \* bound: operations of the account's other wallets

Kinds == {"deploy", "call", "reveal", "activate",
          "forge_deploy", "forge_call", "inject"}

ASSUME DeployAssumption ==
  /\ Kind \in [Invs -> Kinds]
  /\ InitCode \in BOOLEAN
  /\ NoCounter \notin Nat /\ CounterOption \in Nat \cup {NoCounter}
  /\ Faulty \in BOOLEAN
  /\ TTL \in Nat /\ MaxLevel \in Nat /\ MaxOthers \in Nat

VARIABLES
  pc,               \* the RPC each invocation is about to make or waits for
  head,             \* the branch each invocation has read
  counter,          \* the counter its first operation will carry
  revealed,         \* is_revealed, as read
  op,               \* the forged operation
  sim,              \* the statuses preapply gave for its contents
  out,              \* what the invocation returned
  schema,           \* the promise error_schema, lazily forced
  wire,             \* injections sent that the node has not processed
  answer,           \* the node's answer to the injection
  landed,           \* history: injections the node accepted
  lost,             \* history: injections whose answer was lost or nonsense
  node,             \* the account and the head, as the node sees them
  others            \* operations of the other wallets so far

client == <<pc, head, counter, revealed, op, sim, out>>
vars == <<pc, head, counter, revealed, op, sim, out, schema, wire, answer,
          landed, lost, node, others>>

Reading == {"head", "run", "run_head", "counter", "manager_key", "forge",
            "protocol", "preapply"}
Stages == Reading \cup {"idle", "errors", "inject", "wait", "done"}
Outcomes == {"none", "ok", "error", "unit", "forged", "raised"}

(* What the client reads in the simulation of a content: success without   *)
(* or with contracts it originated, the node's three words for failure, or *)
(* nothing it understands.                                                 *)
Success == {"applied", "originated"}
Failure == {"failed", "backtracked", "skipped"}
Statuses == Success \cup Failure \cup {"unreadable"}

Content == [kind : {"reveal", "origination", "transaction",
                    "activate_account"},
            counter : Nat]
NoOp == [branch |-> 0, contents |-> << >>]

TypeOK ==
  /\ pc \in [Invs -> Stages]
  /\ head \in [Invs -> Nat]
  /\ counter \in [Invs -> Nat]
  /\ revealed \in [Invs -> BOOLEAN]
  /\ op \in [Invs -> [branch : Nat, contents : Seq(Content)]]
  /\ sim \in [Invs -> Seq(Statuses)]
  /\ out \in [Invs -> Outcomes]
  /\ schema \in {"lazy", "pending", "ready", "broken"}
  /\ wire \subseteq Invs /\ landed \subseteq Invs /\ lost \subseteq Invs
  /\ answer \in [Invs -> {"none", "hash", "refused"}]
  /\ node \in [level : Nat, counter : Nat, revealed : BOOLEAN,
               pending : Nat, reveal : BOOLEAN]
  /\ others \in Nat

Init ==
  /\ pc = [i \in Invs |-> "idle"]
  /\ head = [i \in Invs |-> 0]
  /\ counter = [i \in Invs |-> 0]
  /\ revealed = [i \in Invs |-> FALSE]
  /\ op = [i \in Invs |-> NoOp]
  /\ sim = [i \in Invs |-> << >>]
  /\ out = [i \in Invs |-> "none"]
  /\ schema = "lazy"
  /\ wire = {} /\ landed = {} /\ lost = {}
  /\ answer = [i \in Invs |-> "none"]
  /\ \E r \in BOOLEAN :
       node = [level |-> 0, counter |-> 0, revealed |-> r,
               pending |-> 0, reveal |-> FALSE]
  /\ others = 0
-----------------------------------------------------------------------------
(* The operations a command forges.                                        *)

(* deploy and call derive the public key from the private key; the forge   *)
(* commands have no key, and so never prepend a reveal.                    *)
HasKey(i) == Kind[i] \in {"deploy", "call"}

RevealContent(n) == [kind |-> "reveal", counter |-> n]

MainContent(i, n) ==
  IF Kind[i] \in {"deploy", "forge_deploy"}
  THEN [kind |-> "origination", counter |-> n]
  ELSE [kind |-> "transaction", counter |-> n]

(* Mutant of Batch: the reveal and the operation share one counter.        *)
SameCounterBatch(i) ==
  CASE Kind[i] = "activate" ->
         <<[kind |-> "activate_account", counter |-> 0]>>
    [] Kind[i] = "reveal" -> <<RevealContent(counter[i])>>
    [] OTHER -> IF revealed[i] \/ ~HasKey(i)
                THEN <<MainContent(i, counter[i])>>
                ELSE <<RevealContent(counter[i]), MainContent(i, counter[i])>>

Batch(i) ==
  CASE Kind[i] = "activate" ->
         <<[kind |-> "activate_account", counter |-> 0]>>
    [] Kind[i] = "reveal" -> <<RevealContent(counter[i])>>
    [] OTHER -> IF revealed[i] \/ ~HasKey(i)
                THEN <<MainContent(i, counter[i])>>
                ELSE <<RevealContent(counter[i]),
                       MainContent(i, counter[i] + 1)>>
-----------------------------------------------------------------------------
(* The node.                                                               *)

Live(o) == node.level - o.branch <= TTL
Managed(o) == o.contents[1].kind # "activate_account"
StartsWithReveal(o) == o.contents[1].kind = "reveal"

(* The node checks a batch before it runs it: counters follow the          *)
(* account's, and an unrevealed manager must reveal its key first.         *)
Valid(o, base, known) ==
  /\ Live(o)
  /\ Managed(o) =>
       /\ \A k \in DOMAIN o.contents : o.contents[k].counter = base + k
       /\ known \/ StartsWithReveal(o)

(* Batches are atomic: what precedes a failure is backtracked, what        *)
(* follows it is skipped.  Revealing a revealed key fails.  An origination *)
(* gives its one contract; a contract that is called may originate others. *)
FailsAt(o, k) ==
  [j \in DOMAIN o.contents |-> CASE j < k -> "backtracked"
                                 [] j = k -> "failed"
                                 [] OTHER -> "skipped"]
Grants(kind) ==
  CASE kind = "origination" -> {"originated"}
    [] kind = "transaction" -> Success
    [] OTHER -> {"applied"}
Granted(o) ==
  {s \in [DOMAIN o.contents -> Success] :
     \A k \in DOMAIN s : s[k] \in Grants(o.contents[k].kind)}
Simulations(o) ==
  LET refused == {FailsAt(o, k) : k \in DOMAIN o.contents}
      told == IF ~Managed(o) THEN Granted(o)
              ELSE IF StartsWithReveal(o) /\ node.revealed THEN {FailsAt(o, 1)}
              ELSE Granted(o) \cup refused
  IN  told \cup {[s EXCEPT ![k] = "unreadable"] :
                   s \in told, k \in IF Faulty THEN DOMAIN o.contents ELSE {}}

(* The mempool grows by n manager operations; is one of them a reveal?     *)
Enqueue(n, reveals) ==
  node' = [node EXCEPT !.pending = @ + n, !.reveal = @ \/ reveals]

Bake ==
  /\ node.level < MaxLevel
  /\ \E full \in BOOLEAN, applied \in BOOLEAN :
       node' = IF full
               THEN [level |-> node.level + 1,
                     counter |-> node.counter + node.pending,
                     revealed |-> node.revealed \/ (applied /\ node.reveal),
                     pending |-> 0, reveal |-> FALSE]
               ELSE [node EXCEPT !.level = @ + 1]
  /\ UNCHANGED <<client, schema, wire, answer, landed, lost, others>>

(* Another wallet of the same account, or another process of this client.  *)
OtherWallet ==
  /\ others < MaxOthers
  /\ others' = others + 1
  /\ \E r \in BOOLEAN :
       /\ r => ~node.revealed /\ ~node.reveal
       /\ ~r => node.revealed \/ node.reveal
       /\ Enqueue(1, r)
  /\ UNCHANGED <<client, schema, wire, answer, landed, lost>>

(* An injection reaches the node: it takes the operation into its mempool, *)
(* or refuses it; a wrong activation secret is refused here.               *)
NodeInject(i) ==
  /\ i \in wire
  /\ wire' = wire \ {i}
  /\ LET o == op[i]
         n == IF Managed(o) THEN Len(o.contents) ELSE 0
     IN  IF Valid(o, node.counter + node.pending, node.revealed \/ node.reveal)
         THEN /\ landed' = landed \cup {i}
              /\ answer' = [answer EXCEPT ![i] = "hash"]
              /\ Enqueue(n, StartsWithReveal(o))
         ELSE /\ answer' = [answer EXCEPT ![i] = "refused"]
              /\ UNCHANGED <<landed, node>>
  /\ UNCHANGED <<client, schema, lost, others>>
-----------------------------------------------------------------------------
(* The client: one action per RPC, at the time the node answers it.        *)

Goto(i, stage) == pc' = [pc EXCEPT ![i] = stage]
Finish(i, o) == Goto(i, "done") /\ out' = [out EXCEPT ![i] = o]

(* raise_response_error forces the lazy promise of GET /errors, once per   *)
(* process, and raises when it is resolved.                                *)
RaiseResponseError(i) ==
  IF schema \in {"ready", "broken"}
  THEN Finish(i, "raised") /\ UNCHANGED schema
  ELSE Goto(i, "errors") /\ schema' = "pending" /\ UNCHANGED out

Start(i) ==
  /\ pc[i] = "idle"
  /\ IF Kind[i] = "inject"
     THEN \E j \in Invs : /\ out[j] = "forged"
                          /\ op' = [op EXCEPT ![i] = op[j]]
                          /\ Goto(i, "inject")
     ELSE /\ Goto(i, IF Kind[i] = "forge_deploy" /\ InitCode
                     THEN "run" ELSE "head")
          /\ UNCHANGED op
  /\ UNCHANGED <<head, counter, revealed, sim, out, schema, wire, answer,
                 landed, lost, node, others>>

GetHead(i) ==
  /\ pc[i] = "head"
  /\ head' = [head EXCEPT ![i] = node.level]
  /\ Goto(i, CASE Kind[i] = "activate" -> "forge"
               [] Kind[i] = "deploy" /\ InitCode -> "run"
               [] OTHER -> "counter")
  /\ UNCHANGED <<counter, revealed, op, sim, out, schema, wire, answer,
                 landed, lost, node, others>>

(* init_storage runs the initializer on the node; it may fail there.  A    *)
(* second get_head, inside run_pre, is only used to read the operations.   *)
RunInit(i) ==
  /\ pc[i] = "run"
  /\ \/ Goto(i, "run_head") /\ UNCHANGED <<out, schema>>
     \/ RaiseResponseError(i)
  /\ UNCHANGED <<head, counter, revealed, op, sim, wire, answer,
                 landed, lost, node, others>>

RunHead(i) ==
  /\ pc[i] = "run_head"
  /\ Goto(i, IF Kind[i] = "deploy" THEN "counter" ELSE "head")
  /\ UNCHANGED <<head, counter, revealed, op, sim, out, schema, wire, answer,
                 landed, lost, node, others>>

(* Mutant of NextCounter: counts down.                                     *)
PreviousCounter ==
  IF CounterOption = NoCounter THEN node.counter - 1 ELSE CounterOption

NextCounter ==
  IF CounterOption = NoCounter THEN node.counter + 1 ELSE CounterOption

GetNextCounter(i) ==
  /\ pc[i] = "counter"
  /\ counter' = [counter EXCEPT ![i] = NextCounter]
  /\ Goto(i, IF Kind[i] = "reveal" THEN "forge" ELSE "manager_key")
  /\ UNCHANGED <<head, revealed, op, sim, out, schema, wire, answer,
                 landed, lost, node, others>>

IsRevealed(i) ==
  /\ pc[i] = "manager_key"
  /\ revealed' = [revealed EXCEPT ![i] = node.revealed]
  /\ Goto(i, "forge")
  /\ UNCHANGED <<head, counter, op, sim, out, schema, wire, answer,
                 landed, lost, node, others>>

(* deploy and call pass the head they read to forge_deploy and forge_call. *)
Forge(i) ==
  /\ pc[i] = "forge"
  /\ op' = [op EXCEPT ![i] = [branch |-> head[i], contents |-> Batch(i)]]
  /\ IF Kind[i] \in {"forge_deploy", "forge_call"}
     THEN Finish(i, "forged")
     ELSE Goto(i, "protocol") /\ UNCHANGED out
  /\ UNCHANGED <<head, counter, revealed, sim, schema, wire, answer,
                 landed, lost, node, others>>

GetProtocol(i) ==
  /\ pc[i] = "protocol"
  /\ Goto(i, "preapply")
  /\ UNCHANGED <<head, counter, revealed, op, sim, out, schema, wire, answer,
                 landed, lost, node, others>>

(* A content that failed raises the node's error.  When error_schema is    *)
(* resolved the exception is caught and becomes a result; when it is not,  *)
(* the promise is rejected later, out of reach of the handler.             *)
Preapply(i) ==
  /\ pc[i] = "preapply"
  /\ IF Valid(op[i], node.counter, node.revealed)
     THEN \E s \in Simulations(op[i]) :
            /\ sim' = [sim EXCEPT ![i] = s]
            /\ IF \E k \in DOMAIN s : s[k] = "failed"
               THEN CASE schema = "ready" -> /\ Goto(i, "inject")
                                             /\ UNCHANGED <<out, schema>>
                      [] OTHER -> RaiseResponseError(i)
               ELSE Goto(i, "inject") /\ UNCHANGED <<out, schema>>
     ELSE RaiseResponseError(i) /\ UNCHANGED sim
  /\ UNCHANGED <<head, counter, revealed, op, wire, answer,
                 landed, lost, node, others>>

SendInjection(i) ==
  /\ pc[i] = "inject"
  /\ Goto(i, "wait")
  /\ wire' = wire \cup {i}
  /\ UNCHANGED <<head, counter, revealed, op, sim, out, schema, answer,
                 landed, lost, node, others>>

(* Mutant of FirstResult: a backtracked operation counts as applied.       *)
LenientFirstResult(i) ==
  CASE sim[i][1] \in Success -> sim[i][1]
    [] sim[i][1] = "backtracked" -> "applied"
    [] OTHER -> "error"

(* Only the first content's result is kept.                                *)
FirstResult(i) ==
  IF sim[i][1] \in Success THEN sim[i][1] ELSE "error"

(* The only success a caller has a case for: deploy wants one originated   *)
(* contract, call and activate want none.                                  *)
Wanted(i) == IF Kind[i] = "deploy" THEN "originated" ELSE "applied"

(* Mutant of Verdict: call raises the simulation's error after injecting.  *)
RaisingVerdict(i) ==
  IF Kind[i] = "inject" THEN "ok"
  ELSE IF Kind[i] = "reveal" THEN "unit"
  ELSE IF FirstResult(i) = Wanted(i) THEN "ok"
  ELSE "raised"

(* deploy and call return the error of the simulation, activate raises; so *)
(* does each of the three when the simulation succeeded otherwise than it  *)
(* expects.                                                                *)
Verdict(i) ==
  IF Kind[i] = "inject" THEN "ok"
  ELSE IF Kind[i] = "reveal" THEN "unit"
  ELSE IF FirstResult(i) = Wanted(i) THEN "ok"
  ELSE IF FirstResult(i) = "error" /\ Kind[i] # "activate" THEN "error"
  ELSE "raised"

Injected(i) ==
  /\ pc[i] = "wait"
  /\ CASE answer[i] = "hash" -> Finish(i, Verdict(i)) /\ UNCHANGED schema
       [] answer[i] = "refused" -> RaiseResponseError(i)
       [] OTHER -> FALSE
  /\ UNCHANGED <<head, counter, revealed, op, sim, wire, answer,
                 landed, lost, node, others>>

(* Mutant of ErrorSchema: only one of the waiting invocations is woken.    *)
WakeOne ==
  /\ schema = "pending"
  /\ schema' = "ready"
  /\ \E i \in Invs : pc[i] = "errors" /\ Finish(i, "raised")
  /\ UNCHANGED <<head, counter, revealed, op, sim, wire, answer,
                 landed, lost, node, others>>

(* The memoised promise resolves: every invocation that waits for it       *)
(* raises.  An unanswered GET /errors counts as an empty schema.           *)
ErrorSchema ==
  /\ schema = "pending"
  /\ schema' \in (IF Faulty THEN {"ready", "broken"} ELSE {"ready"})
  /\ pc' = [i \in Invs |-> IF pc[i] = "errors" THEN "done" ELSE pc[i]]
  /\ out' = [i \in Invs |-> IF pc[i] = "errors" THEN "raised" ELSE out[i]]
  /\ UNCHANGED <<head, counter, revealed, op, sim, wire, answer,
                 landed, lost, node, others>>

(* From here on the invocation cannot know where its injection is.         *)
Lose(i) == lost' = IF pc[i] = "wait" THEN lost \cup {i} ELSE lost

(* Mutant of Timeout: an injection without an answer counts as done.       *)
OptimisticTimeout(i) ==
  /\ Faulty
  /\ pc[i] \in Reading \cup {"wait"}
  /\ Finish(i, IF pc[i] = "wait" THEN Verdict(i) ELSE "raised")
  /\ Lose(i)
  /\ UNCHANGED <<head, counter, revealed, op, sim, schema, wire, answer,
                 landed, node, others>>

(* curl gives up after 30 seconds: status 0 and an empty body, which is    *)
(* not JSON, so the RequestError itself is raised.                         *)
Timeout(i) ==
  /\ Faulty
  /\ pc[i] \in Reading \cup {"wait"}
  /\ ~(pc[i] = "counter" /\ CounterOption # NoCounter)
  /\ Finish(i, "raised")
  /\ Lose(i)
  /\ UNCHANGED <<head, counter, revealed, op, sim, schema, wire, answer,
                 landed, node, others>>

(* An HTTP error, or an answer without the expected field.  is_revealed    *)
(* takes an answer without a key for an account that is not revealed;      *)
(* reveal ignores a forge answer that is not a string; and a string that is*)
(* not the hash the client has computed fails the assertion of             *)
(* inject_operation, while inject would return it unread: only a node that *)
(* took the operation is supposed to answer inject with a string.          *)
BadAnswer(i) ==
  /\ Faulty
  /\ pc[i] \in Reading \cup {"wait"}
  /\ ~(pc[i] = "counter" /\ CounterOption # NoCounter)
  /\ \/ RaiseResponseError(i) /\ UNCHANGED revealed
     \/ /\ pc[i] = "manager_key"
        /\ revealed' = [revealed EXCEPT ![i] = FALSE]
        /\ Goto(i, "forge") /\ UNCHANGED <<out, schema>>
     \/ /\ pc[i] = "forge" /\ Kind[i] = "reveal"
        /\ Finish(i, "unit") /\ UNCHANGED <<revealed, schema>>
     \/ /\ pc[i] = "wait" /\ Kind[i] # "inject"
        /\ Finish(i, "raised") /\ UNCHANGED <<revealed, schema>>
  /\ Lose(i)
  /\ UNCHANGED <<head, counter, op, sim, wire, answer, landed, node, others>>
-----------------------------------------------------------------------------
Step(i) ==
  \/ GetHead(i) \/ RunInit(i) \/ RunHead(i) \/ GetNextCounter(i)
  \/ IsRevealed(i) \/ Forge(i) \/ GetProtocol(i) \/ Preapply(i)
  \/ SendInjection(i) \/ Injected(i) \/ Timeout(i) \/ BadAnswer(i)

Next ==
  \/ Bake \/ OtherWallet \/ ErrorSchema
  \/ \E i \in Invs : Start(i) \/ Step(i) \/ NodeInject(i)

(* Lwt runs every ready promise, and curl ends every request within its    *)
(* timeout; nothing makes the user start, the node bake or the node take a *)
(* request.                                                                *)
Fairness == WF_vars(ErrorSchema) /\ \A i \in Invs : WF_vars(Step(i))

Spec == Init /\ [][Next]_vars /\ Fairness
-----------------------------------------------------------------------------
AllApplied(i) == \A k \in DOMAIN sim[i] : sim[i][k] \in Success
NoneFailed(i) == \A k \in DOMAIN sim[i] : sim[i][k] \notin Failure

(* What deploy and call report is the truth: they return a hash only for   *)
(* an operation the node took; as a success only when no part of the batch *)
(* had failed in its simulation, be it an operation that stands after the  *)
(* only one whose result is kept; as a failure only when the simulation    *)
(* did not show the success of every part (inject_operation, call, deploy).*)
ReportFaithful ==
  \A i \in Invs :
    Kind[i] \in {"call", "deploy"} /\ out[i] \in {"ok", "error"} =>
      /\ i \in landed
      /\ out[i] = "ok" => NoneFailed(i)
      /\ out[i] = "error" => ~AllApplied(i)

(* The simulations after which the caller raises instead of returning the  *)
(* hash: a deployment behind a reveal, a call that originates contracts,   *)
(* an activation the client cannot read.                                   *)
Unexpected(i) ==
  /\ sim[i] # << >>
  /\ CASE Kind[i] = "deploy" -> sim[i][1] = "applied"
       [] Kind[i] = "call" -> sim[i][1] = "originated"
       [] Kind[i] = "activate" -> sim[i][1] # "applied"
       [] OTHER -> FALSE

(* An exception means that nothing was injected, nor will be, so that the  *)
(* user may try again: of whatever function and whenever it is raised, but *)
(* for an injection whose answer was lost or nonsense, and for the results *)
(* of the simulation that the functions have no case for                   *)
(* (inject_operation, deploy, call, reveal, activate, inject).             *)
RaisedMeansNotInjected ==
  \A i \in Invs :
    out[i] = "raised" /\ i \notin lost /\ ~Unexpected(i) =>
      i \notin landed \cup wire

(* Nobody but i uses the account: no other wallet, no other invocation     *)
(* started; the node answers, every branch is live, and the counter is the *)
(* one that i reads.                                                       *)
Alone(i) ==
  /\ others = 0 /\ ~Faulty /\ MaxLevel <= TTL /\ CounterOption = NoCounter
  /\ \A j \in Invs \ {i} : pc[j] = "idle"

(* Alone on its account, with a node that answers and a branch that is     *)
(* still live, an operation whose simulation does not fail is always taken:*)
(* the counters, the reveal that is prepended and the branch are right,    *)
(* whether or not the account was revealed before; and it is reported as   *)
(* taken, but for the successes its function has no case for.  An          *)
(* initializer that fails on the node is the end of a deployment, and      *)
(* option --counter is the user's own word: neither is part of it.         *)
SoloSucceeds ==
  \A i \in Invs :
    /\ Kind[i] \in {"call", "deploy", "reveal", "activate"} /\ Alone(i)
    /\ Kind[i] = "deploy" /\ InitCode => op[i] # NoOp
    /\ pc[i] = "done" /\ AllApplied(i)
    => i \in landed /\ (out[i] \in {"ok", "unit"} \/ Unexpected(i))

(* liquidDeploy.mli of deploy: "returns the operation hash and the contract*)
(* address".  So it should for every deployment that was simulated with    *)
(* success and whose hash the node sent back.                              *)
DeployReturnsAddress ==
  \A i \in Invs :
    Kind[i] = "deploy" /\ pc[i] = "done" /\ answer[i] = "hash"
      /\ i \notin lost /\ AllApplied(i) => out[i] = "ok"

(* Every invocation that was started returns, whatever the node and the    *)
(* network do: no promise is left waiting, the shared one of GET /errors   *)
(* (raise_response_error) included.                                        *)
Termination ==
  \A i \in Invs : pc[i] # "idle" ~> pc[i] = "done"

(* The inductive invariants behind the properties above.  Where the        *)
(* injection of each invocation is: not sent before stage "wait", on the   *)
(* wire, taken by the node or refused.                                     *)
Delivery(i) ==
  /\ pc[i] = "done" <=> out[i] # "none"
  /\ i \in landed <=> answer[i] = "hash"
  /\ i \in lost => pc[i] = "errors" \/ out[i] = "raised"
  /\ i \in wire => answer[i] = "none" /\ (pc[i] = "wait" \/ i \in lost)
  /\ pc[i] \in Reading \cup {"idle", "inject"} => answer[i] = "none"
  /\ pc[i] = "errors" /\ i \notin lost => answer[i] # "hash"
  /\ out[i] \in {"ok", "error"} => answer[i] = "hash"
  /\ out[i] = "forged" => answer[i] = "none"

(* What the forged batch and its simulation look like until the verdict;   *)
(* what is only forged goes no further.                                    *)
Simulated(i) ==
  /\ Kind[i] \in {"forge_deploy", "forge_call"} =>
       pc[i] \notin {"protocol", "preapply", "inject", "wait"}
  /\ Kind[i] \in {"call", "deploy", "activate"} =>
       /\ pc[i] \in {"protocol", "preapply", "inject", "wait"} =>
            1 \in DOMAIN op[i].contents
       /\ pc[i] \in {"inject", "wait"} =>
            1 \in DOMAIN sim[i] /\ (sim[i][1] \in Success => NoneFailed(i))

DeliveryInv == \A i \in Invs : Delivery(i)
SimulatedInv == \A i \in Invs : Simulated(i)

(* The client keeps the contract of module Submission, with the verdicts   *)
(* its invocations return.                                                 *)
Service == INSTANCE Submission WITH landed <- landed, verdict <- out
ServiceSpec == Service!Spec
=============================================================================
