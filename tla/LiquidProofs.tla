---------------------------- MODULE LiquidProofs ----------------------------
(***************************************************************************)
(* Theorems about the OCaml program: about LiquidDeploy, for every set of  *)
(* invocations, every choice of the functions they call, every option and  *)
(* every bound; and about the rewriting rules of LiquidPeephole.tla, which *)
(* are sound for every number of elements and every stack, not only for    *)
(* the small ones TLC runs.                                                *)
(***************************************************************************)
EXTENDS LiquidDeploy, StackOps, TLAPS
CONSTANT Value    \* what the elements of a stack are

(* What the forging step builds is a well-formed operation.                *)
LEMMA BatchType ==
  ASSUME TypeOK, NEW i \in Invs
  PROVE  Batch(i) \in Seq(Content) /\ Len(Batch(i)) \in {1, 2}
<1>1. Kind[i] \in Kinds
  BY DeployAssumption
<1>2. \A n \in Nat : RevealContent(n) \in Content /\ MainContent(i, n) \in Content
  BY <1>1 DEF RevealContent, MainContent, Content
<1>3. counter[i] \in Nat /\ counter[i] + 1 \in Nat
  BY DEF TypeOK
<1>4. [kind |-> "activate_account", counter |-> 0] \in Content
  BY DEF Content
<1> QED BY <1>2, <1>3, <1>4 DEF Batch

(* Every status is one of the three groups, and only one.                  *)
LEMMA StatusGroups ==
  /\ Statuses = {"applied", "originated", "failed", "backtracked", "skipped",
                 "unreadable"}
  /\ \A s \in Success : s \notin Failure
BY DEF Statuses, Success, Failure

(* A simulation is a success of every part, a refusal of the whole, or one *)
(* of the two with a part that cannot be read.                             *)
LEMMA SimulationCases ==
  ASSUME NEW o, NEW s \in Simulations(o)
  PROVE  \E t : /\ \/ t \in Granted(o)
                   \/ \E k \in DOMAIN o.contents : t = FailsAt(o, k)
                   \/ t = FailsAt(o, 1)
                /\ \/ s = t
                   \/ \E k \in DOMAIN o.contents :
                        s = [t EXCEPT ![k] = "unreadable"]
<1> DEFINE refused == {FailsAt(o, k) : k \in DOMAIN o.contents}
           told == IF ~Managed(o) THEN Granted(o)
                   ELSE IF StartsWithReveal(o) /\ node.revealed
                        THEN {FailsAt(o, 1)}
                   ELSE Granted(o) \cup refused
           parts == IF Faulty THEN DOMAIN o.contents ELSE {}
<1>1. s \in told \cup {[t EXCEPT ![k] = "unreadable"] : t \in told, k \in parts}
  BY DEF Simulations
<1>2. told \subseteq Granted(o) \cup refused \cup {FailsAt(o, 1)}
  <2>1. CASE ~Managed(o)
    BY <2>1
  <2>2. CASE Managed(o)
    BY <2>2
  <2> QED BY <2>1, <2>2
<1>3. parts \subseteq DOMAIN o.contents
  OBVIOUS
<1> HIDE DEF told, parts
<1>4. \/ s \in told
      \/ \E t \in told, k \in parts : s = [t EXCEPT ![k] = "unreadable"]
  BY <1>1
<1> DEFINE Told(t) == \/ s = t
                      \/ \E k \in DOMAIN o.contents :
                           s = [t EXCEPT ![k] = "unreadable"]
<1>5. PICK t \in Granted(o) \cup refused \cup {FailsAt(o, 1)} : Told(t)
  BY <1>2, <1>3, <1>4
<1>6. \/ t \in Granted(o)
      \/ \E k \in DOMAIN o.contents : t = FailsAt(o, k)
      \/ t = FailsAt(o, 1)
  BY <1>5
<1>7. Told(t)
  BY <1>5
<1> QED BY <1>6, <1>7, Zenon

(* Simulating an operation gives one status per content.                   *)
LEMMA SimulationType ==
  ASSUME NEW o \in [branch : Nat, contents : Seq(Content)],
         NEW s \in Simulations(o)
  PROVE  s \in Seq(Statuses) /\ DOMAIN s = DOMAIN o.contents
<1>1. PICK n \in Nat : DOMAIN o.contents = 1..n
  BY DEF Content
<1>2. ASSUME NEW k \in Nat
      PROVE  FailsAt(o, k) \in [1..n -> Statuses]
  BY <1>1, StatusGroups DEF FailsAt
<1>3. Granted(o) \subseteq [1..n -> Statuses]
  BY <1>1 DEF Granted, Statuses
<1>a. \A k \in DOMAIN o.contents : FailsAt(o, k) \in [1..n -> Statuses]
  BY <1>1, <1>2
<1>b. FailsAt(o, 1) \in [1..n -> Statuses]
  BY <1>2
<1>4. PICK t : /\ \/ t \in Granted(o)
                  \/ \E k \in DOMAIN o.contents : t = FailsAt(o, k)
                  \/ t = FailsAt(o, 1)
               /\ \/ s = t
                  \/ \E k \in DOMAIN o.contents :
                       s = [t EXCEPT ![k] = "unreadable"]
  BY SimulationCases
<1>c. t \in [1..n -> Statuses]
  BY <1>3, <1>a, <1>b, <1>4
<1>5. s \in [1..n -> Statuses]
  BY <1>4, <1>c, StatusGroups
<1> QED BY <1>1, <1>5

NodeType == [level : Nat, counter : Nat, revealed : BOOLEAN,
             pending : Nat, reveal : BOOLEAN]

(* What the mempool takes in keeps the node's record well formed.          *)
LEMMA EnqueueType ==
  ASSUME node \in NodeType, NEW n \in Nat, NEW b \in BOOLEAN, Enqueue(n, b)
  PROVE  node' \in NodeType
<1> DEFINE p == node.pending + n
           r == node.reveal \/ b
<1>1. p \in Nat /\ r \in BOOLEAN
  BY DEF NodeType
<1>2. node' = [node EXCEPT !.pending = p, !.reveal = r]
  BY DEF Enqueue
<1> HIDE DEF p, r
<1> QED BY <1>1, <1>2 DEF NodeType

(* Giving up with an error leaves the client's state well typed.           *)
LEMMA RaiseType ==
  ASSUME TypeOK, NEW i \in Invs, RaiseResponseError(i)
  PROVE  /\ pc' \in [Invs -> Stages]
         /\ out' \in [Invs -> Outcomes]
         /\ schema' \in {"lazy", "pending", "ready", "broken"}
BY DEF TypeOK, RaiseResponseError, Finish, Goto, Stages, Outcomes

(* TypeOK is inductive: every action of the client and of the node leaves  *)
(* every variable in its type.                                             *)
LEMMA TypeStep == TypeOK /\ [Next]_vars => TypeOK'
<1> SUFFICES ASSUME TypeOK, [Next]_vars
             PROVE  TypeOK'
  OBVIOUS
<1> USE DeployAssumption
<1>1. CASE Bake
  <2>1. node \in [level : Nat, counter : Nat, revealed : BOOLEAN,
                   pending : Nat, reveal : BOOLEAN]
    BY DEF TypeOK
  <2>2. node' \in [level : Nat, counter : Nat, revealed : BOOLEAN,
                   pending : Nat, reveal : BOOLEAN]
    BY <1>1, <2>1 DEF Bake
  <2> QED BY <1>1, <2>2 DEF Bake, TypeOK, client
<1>2. CASE OtherWallet
  <2>1. node \in NodeType
    BY DEF TypeOK, NodeType
  <2>2. PICK r \in BOOLEAN : Enqueue(1, r)
    BY <1>2 DEF OtherWallet
  <2>3. node' \in NodeType
    BY <2>1, <2>2, EnqueueType
  <2>4. others' \in Nat
    BY <1>2 DEF OtherWallet, TypeOK
  <2> QED BY <1>2, <2>3, <2>4 DEF NodeType, OtherWallet, TypeOK, client
<1>3. CASE ErrorSchema
  <2>1. schema' \in {"ready", "broken"}
    BY <1>3 DEF ErrorSchema
  <2>2. pc' \in [Invs -> Stages] /\ out' \in [Invs -> Outcomes]
    BY <1>3 DEF ErrorSchema, TypeOK, Stages, Outcomes
  <2> QED BY <1>3, <2>1, <2>2 DEF ErrorSchema, TypeOK
<1>4. ASSUME NEW i \in Invs, Start(i)
      PROVE  TypeOK'
  <2>1. pc' \in [Invs -> Stages]
    <3>1. \E stage \in {"inject", "run", "head"} : Goto(i, stage)
      BY <1>4 DEF Start
    <3> QED BY <3>1 DEF Goto, TypeOK, Stages, Reading
  <2>2. op' \in [Invs -> [branch : Nat, contents : Seq(Content)]]
    <3>1. UNCHANGED op \/ \E j \in Invs : op' = [op EXCEPT ![i] = op[j]]
      BY <1>4 DEF Start
    <3>2. op \in [Invs -> [branch : Nat, contents : Seq(Content)]]
      BY DEF TypeOK
    <3> QED BY <3>1, <3>2
  <2> QED BY <1>4, <2>1, <2>2 DEF Start, TypeOK
<1>5. ASSUME NEW i \in Invs, GetHead(i)
      PROVE  TypeOK'
  BY <1>5 DEF GetHead, Goto, TypeOK, Stages, Reading
<1>6. ASSUME NEW i \in Invs, RunInit(i)
      PROVE  TypeOK'
  <2>1. CASE Goto(i, "run_head") /\ UNCHANGED <<out, schema>>
    BY <1>6, <2>1 DEF RunInit, Goto, TypeOK, Stages, Reading
  <2>2. CASE RaiseResponseError(i)
    BY <1>6, <2>2, RaiseType DEF RunInit, TypeOK
  <2> QED BY <1>6, <2>1, <2>2 DEF RunInit
<1>7. ASSUME NEW i \in Invs, RunHead(i)
      PROVE  TypeOK'
  BY <1>7 DEF RunHead, Goto, TypeOK, Stages, Reading
<1>8. ASSUME NEW i \in Invs, GetNextCounter(i)
      PROVE  TypeOK'
  BY <1>8 DEF GetNextCounter, NextCounter, Goto, TypeOK, Stages, Reading
<1>9. ASSUME NEW i \in Invs, IsRevealed(i)
      PROVE  TypeOK'
  BY <1>9 DEF IsRevealed, Goto, TypeOK, Stages, Reading
<1>10. ASSUME NEW i \in Invs, Forge(i)
       PROVE  TypeOK'
  <2>1. [branch |-> head[i], contents |-> Batch(i)]
          \in [branch : Nat, contents : Seq(Content)]
    BY BatchType DEF TypeOK
  <2>2. op' \in [Invs -> [branch : Nat, contents : Seq(Content)]]
    BY <1>10, <2>1 DEF Forge, TypeOK
  <2>3. pc' \in [Invs -> Stages] /\ out' \in [Invs -> Outcomes]
    BY <1>10 DEF Forge, Finish, Goto, TypeOK, Stages, Reading, Outcomes
  <2> QED BY <1>10, <2>2, <2>3 DEF Forge, TypeOK
<1>11. ASSUME NEW i \in Invs, GetProtocol(i)
       PROVE  TypeOK'
  BY <1>11 DEF GetProtocol, Goto, TypeOK, Stages, Reading
<1>12. ASSUME NEW i \in Invs, Preapply(i)
       PROVE  TypeOK'
  <2>1. sim' \in [Invs -> Seq(Statuses)]
    <3>1. op[i] \in [branch : Nat, contents : Seq(Content)]
      BY DEF TypeOK
    <3>2. CASE UNCHANGED sim
      BY <3>2 DEF TypeOK
    <3>3. CASE \E s \in Simulations(op[i]) : sim' = [sim EXCEPT ![i] = s]
      BY <3>1, <3>3, SimulationType DEF TypeOK
    <3> QED BY <1>12, <3>2, <3>3 DEF Preapply
  <2>2. \/ RaiseResponseError(i)
        \/ Goto(i, "inject") /\ UNCHANGED <<out, schema>>
    BY <1>12 DEF Preapply
  <2>3. CASE RaiseResponseError(i)
    BY <1>12, <2>1, <2>3, RaiseType DEF Preapply, TypeOK
  <2>4. CASE Goto(i, "inject") /\ UNCHANGED <<out, schema>>
    <3>1. pc' \in [Invs -> Stages]
      BY <2>4 DEF Goto, TypeOK, Stages
    <3> QED BY <1>12, <2>1, <2>4, <3>1 DEF Preapply, TypeOK
  <2> QED BY <2>2, <2>3, <2>4
<1>13. ASSUME NEW i \in Invs, SendInjection(i)
       PROVE  TypeOK'
  BY <1>13 DEF SendInjection, Goto, TypeOK, Stages
<1>14. ASSUME NEW i \in Invs, NodeInject(i)
       PROVE  TypeOK'
  <2>1. op[i].contents \in Seq(Content)
    BY DEF TypeOK
  <2>2. Len(op[i].contents) \in Nat
    BY <2>1
  <2>3. node' \in NodeType
    <3>1. node \in NodeType /\ StartsWithReveal(op[i]) \in BOOLEAN
      BY DEF TypeOK, NodeType, StartsWithReveal
    <3>2. \/ UNCHANGED node
          \/ Enqueue(0, StartsWithReveal(op[i]))
          \/ Enqueue(Len(op[i].contents), StartsWithReveal(op[i]))
      BY <1>14 DEF NodeInject
    <3> QED BY <2>2, <3>1, <3>2, EnqueueType
  <2>4. /\ answer' \in [Invs -> {"none", "hash", "refused"}]
        /\ wire' \subseteq Invs /\ landed' \subseteq Invs
    <3>1. \/ /\ landed' = landed \cup {i}
             /\ answer' = [answer EXCEPT ![i] = "hash"]
          \/ /\ landed' = landed
             /\ answer' = [answer EXCEPT ![i] = "refused"]
      BY <1>14 DEF NodeInject
    <3>2. wire' = wire \ {i}
      BY <1>14 DEF NodeInject
    <3> QED BY <3>1, <3>2 DEF TypeOK
  <2> QED BY <1>14, <2>3, <2>4 DEF NodeInject, TypeOK, NodeType, client
<1>15. ASSUME NEW i \in Invs, Injected(i)
       PROVE  TypeOK'
  <2>1. \/ RaiseResponseError(i)
        \/ Finish(i, Verdict(i)) /\ UNCHANGED schema
    BY <1>15 DEF Injected
  <2>2. Verdict(i) \in Outcomes
    BY DEF Verdict, Outcomes
  <2>3. CASE RaiseResponseError(i)
    BY <1>15, <2>3, RaiseType DEF Injected, TypeOK
  <2>4. CASE Finish(i, Verdict(i)) /\ UNCHANGED schema
    <3>1. pc' \in [Invs -> Stages] /\ out' \in [Invs -> Outcomes]
      BY <2>2, <2>4 DEF Finish, Goto, TypeOK, Stages
    <3> QED BY <1>15, <2>4, <3>1 DEF Injected, TypeOK
  <2> QED BY <2>1, <2>3, <2>4
<1>a. ASSUME NEW i \in Invs, Lose(i)
      PROVE  lost' \subseteq Invs
  BY <1>a DEF Lose, TypeOK
<1>16. ASSUME NEW i \in Invs, Timeout(i)
       PROVE  TypeOK'
  BY <1>16, <1>a DEF Timeout, Finish, Goto, TypeOK, Stages, Outcomes
<1>17. ASSUME NEW i \in Invs, BadAnswer(i)
       PROVE  TypeOK'
  <2>1. /\ Lose(i)
        /\ UNCHANGED <<head, counter, op, sim, wire, answer, landed, node,
                       others>>
    BY <1>17 DEF BadAnswer
  <2>2. revealed' \in [Invs -> BOOLEAN]
    BY <1>17 DEF BadAnswer, TypeOK
  <2>3. /\ pc' \in [Invs -> Stages]
        /\ out' \in [Invs -> Outcomes]
        /\ schema' \in {"lazy", "pending", "ready", "broken"}
    <3>1. CASE RaiseResponseError(i)
      BY <3>1, RaiseType
    <3>2. CASE /\ UNCHANGED schema
               /\ Finish(i, "unit") \/ Finish(i, "raised")
      BY <3>2 DEF Finish, Goto, TypeOK, Stages, Outcomes
    <3>3. CASE Goto(i, "forge") /\ UNCHANGED <<out, schema>>
      BY <3>3 DEF Goto, TypeOK, Stages, Reading
    <3> QED BY <1>17, <3>1, <3>2, <3>3 DEF BadAnswer
  <2> QED BY <2>1, <2>2, <2>3, <1>a DEF TypeOK
<1>18. CASE UNCHANGED vars
  BY <1>18 DEF vars, TypeOK
<1> QED
  BY <1>1, <1>2, <1>3, <1>4, <1>5, <1>6, <1>7, <1>8, <1>9, <1>10, <1>11,
     <1>12, <1>13, <1>14, <1>15, <1>16, <1>17, <1>18 DEF Next, Step

(* Every state the client and the node reach is well typed.                *)
THEOREM TypeCorrect == Spec => []TypeOK
<1>1. Init => TypeOK
  BY DEF Init, TypeOK, Stages, Outcomes, NoOp
<1> QED BY <1>1, TypeStep, PTL DEF Spec

(* Raising keeps the invariant when no injection is under way, or when its *)
(* fate is marked as unknown.                                              *)
LEMMA RaiseDelivery ==
  ASSUME TypeOK, DeliveryInv, NEW i \in Invs, RaiseResponseError(i),
         pc[i] # "done", UNCHANGED <<wire, answer, landed>>,
         \/ UNCHANGED lost /\ i \notin wire /\ answer[i] # "hash"
         \/ lost' = lost \cup {i}
  PROVE  DeliveryInv'
BY DEF TypeOK, DeliveryInv, Delivery, RaiseResponseError, Finish, Goto, Reading

(* Moving to a later stage before the injection keeps it too.              *)
LEMMA GotoDelivery ==
  ASSUME TypeOK, DeliveryInv, NEW i \in Invs,
         NEW s \in Reading \cup {"inject"}, Goto(i, s),
         pc[i] \in Reading \cup {"idle"},
         UNCHANGED <<out, wire, answer, landed, lost>>
  PROVE  DeliveryInv'
BY DEF TypeOK, DeliveryInv, Delivery, Goto, Reading

(* DeliveryInv is preserved by every step: the place of each injection is  *)
(* what the stage and the verdict of its invocation say it is.             *)
LEMMA DeliveryStep == TypeOK /\ DeliveryInv /\ [Next]_vars => DeliveryInv'
<1> SUFFICES ASSUME TypeOK, DeliveryInv, [Next]_vars
             PROVE  DeliveryInv'
  OBVIOUS
<1>1. CASE Bake \/ OtherWallet \/ UNCHANGED vars
  BY <1>1 DEF Bake, OtherWallet, vars, client, DeliveryInv, Delivery
<1>2. CASE ErrorSchema
  BY <1>2 DEF ErrorSchema, TypeOK, DeliveryInv, Delivery, Reading
<1>3. ASSUME NEW i \in Invs, Start(i)
      PROVE  DeliveryInv'
  <2>1. \E s \in {"inject", "run", "head"} : Goto(i, s)
    BY <1>3 DEF Start
  <2> QED BY <1>3, <2>1, GotoDelivery DEF Start, Reading
<1>4. ASSUME NEW i \in Invs,
             GetHead(i) \/ RunHead(i) \/ GetNextCounter(i) \/ IsRevealed(i)
               \/ GetProtocol(i)
      PROVE  DeliveryInv'
  <2>1. \E s \in Reading : Goto(i, s)
    BY <1>4 DEF GetHead, RunHead, GetNextCounter, IsRevealed, GetProtocol,
               Reading
  <2>2. pc[i] \in Reading /\ UNCHANGED <<out, wire, answer, landed, lost>>
    BY <1>4 DEF GetHead, RunHead, GetNextCounter, IsRevealed, GetProtocol,
               Reading
  <2> QED BY <2>1, <2>2, GotoDelivery
<1>5. ASSUME NEW i \in Invs, pc[i] \in Reading, RaiseResponseError(i),
             UNCHANGED <<wire, answer, landed, lost>>
      PROVE  DeliveryInv'
  <2>1. pc[i] # "done" /\ i \notin wire /\ answer[i] # "hash"
    BY <1>5 DEF DeliveryInv, Delivery, Reading
  <2> QED BY <1>5, <2>1, RaiseDelivery
<1>6. ASSUME NEW i \in Invs, RunInit(i)
      PROVE  DeliveryInv'
  <2>1. CASE Goto(i, "run_head") /\ UNCHANGED <<out, schema>>
    BY <1>6, <2>1, GotoDelivery DEF RunInit, Reading
  <2>2. CASE RaiseResponseError(i)
    BY <1>5, <1>6, <2>2 DEF RunInit, Reading
  <2> QED BY <1>6, <2>1, <2>2 DEF RunInit
<1>7. ASSUME NEW i \in Invs, Forge(i)
      PROVE  DeliveryInv'
  <2>1. CASE Finish(i, "forged")
    BY <1>7, <2>1 DEF Forge, Finish, Goto, TypeOK, DeliveryInv, Delivery,
                      Reading
  <2>2. CASE Goto(i, "protocol") /\ UNCHANGED out
    BY <1>7, <2>2, GotoDelivery DEF Forge, Reading
  <2> QED BY <1>7, <2>1, <2>2 DEF Forge
<1>8. ASSUME NEW i \in Invs, Preapply(i)
      PROVE  DeliveryInv'
  <2>1. /\ pc[i] = "preapply"
        /\ UNCHANGED <<wire, answer, landed, lost>>
        /\ \/ RaiseResponseError(i)
           \/ Goto(i, "inject") /\ UNCHANGED <<out, schema>>
    BY <1>8 DEF Preapply
  <2>2. CASE RaiseResponseError(i)
    BY <1>5, <2>1, <2>2 DEF Reading
  <2>3. CASE Goto(i, "inject") /\ UNCHANGED <<out, schema>>
    BY <2>1, <2>3, GotoDelivery DEF Reading
  <2> QED BY <2>1, <2>2, <2>3
<1>9. ASSUME NEW i \in Invs, SendInjection(i)
      PROVE  DeliveryInv'
  BY <1>9 DEF SendInjection, Goto, TypeOK, DeliveryInv, Delivery, Reading
<1>10. ASSUME NEW i \in Invs, NodeInject(i)
       PROVE  DeliveryInv'
  <2>1. \/ /\ landed' = landed \cup {i}
           /\ answer' = [answer EXCEPT ![i] = "hash"]
        \/ /\ landed' = landed
           /\ answer' = [answer EXCEPT ![i] = "refused"]
    BY <1>10 DEF NodeInject
  <2>2. /\ i \in wire /\ wire' = wire \ {i}
        /\ UNCHANGED <<pc, out, lost>>
    BY <1>10 DEF NodeInject, client
  <2>3. ASSUME NEW j \in Invs
        PROVE  Delivery(j)'
    <3>1. Delivery(i) /\ Delivery(j) /\ answer \in [Invs -> {"none", "hash", "refused"}]
      BY DEF DeliveryInv, TypeOK
    <3>2. \/ pc[i] = "wait"
          \/ /\ i \in lost
             /\ \/ pc[i] = "errors"
                \/ pc[i] = "done" /\ out[i] = "raised"
      BY <2>2, <3>1 DEF Delivery
    <3>3. CASE i = j
      <4>1. /\ answer'[i] \in {"hash", "refused"} /\ i \notin wire'
            /\ i \in landed' <=> answer'[i] = "hash"
        BY <2>1, <2>2, <3>1 DEF Delivery
      <4> QED BY <2>2, <3>1, <3>2, <3>3, <4>1 DEF Delivery, Reading
    <3>4. CASE i # j
      <4>1. /\ answer'[j] = answer[j]
            /\ j \in landed' <=> j \in landed
            /\ j \in wire' <=> j \in wire
        BY <2>1, <2>2, <3>1, <3>4
      <4> QED BY <2>2, <3>1, <4>1 DEF Delivery
    <3> QED BY <3>3, <3>4
  <2> QED BY <2>3 DEF DeliveryInv
<1>11. ASSUME NEW i \in Invs, Injected(i)
       PROVE  DeliveryInv'
  <2>1. /\ pc[i] = "wait" /\ UNCHANGED <<wire, answer, landed, lost>>
        /\ \/ answer[i] = "hash" /\ Finish(i, Verdict(i))
           \/ answer[i] = "refused" /\ RaiseResponseError(i)
    BY <1>11 DEF Injected
  <2>2. i \notin wire
    BY <2>1 DEF DeliveryInv, Delivery
  <2>3. CASE answer[i] = "refused" /\ RaiseResponseError(i)
    BY <2>1, <2>2, <2>3, RaiseDelivery
  <2>4. CASE answer[i] = "hash" /\ Finish(i, Verdict(i))
    <3>1. Verdict(i) \in {"ok", "error", "unit", "raised"}
      BY DEF Verdict
    <3> QED BY <2>1, <2>2, <2>4, <3>1
            DEF Finish, Goto, TypeOK, DeliveryInv, Delivery, Reading
  <2> QED BY <2>1, <2>3, <2>4
<1>12. ASSUME NEW i \in Invs, Timeout(i)
       PROVE  DeliveryInv'
  BY <1>12 DEF Timeout, Lose, Finish, Goto, TypeOK, DeliveryInv, Delivery,
               Reading
<1>13. ASSUME NEW i \in Invs, BadAnswer(i)
       PROVE  DeliveryInv'
  <2>1. /\ pc[i] \in Reading \cup {"wait"} /\ Lose(i)
        /\ UNCHANGED <<wire, answer, landed>>
    BY <1>13 DEF BadAnswer
  <2>2. CASE RaiseResponseError(i)
    <3>1. pc[i] # "done"
      BY <2>1 DEF Reading
    <3>2. CASE pc[i] = "wait"
      BY <2>1, <2>2, <3>1, <3>2, RaiseDelivery DEF Lose
    <3>3. CASE pc[i] \in Reading
      BY <1>5, <2>1, <2>2, <3>3 DEF Lose, Reading
    <3> QED BY <2>1, <3>2, <3>3
  <2>3. CASE Goto(i, "forge") /\ UNCHANGED out /\ pc[i] = "manager_key"
    BY <2>1, <2>3, GotoDelivery DEF Lose, Reading
  <2>4. CASE Finish(i, "unit") /\ pc[i] = "forge"
    BY <2>1, <2>4 DEF Lose, Finish, Goto, TypeOK, DeliveryInv, Delivery,
                      Reading
  <2>5. CASE Finish(i, "raised") /\ pc[i] = "wait"
    BY <2>1, <2>5 DEF Lose, Finish, Goto, TypeOK, DeliveryInv, Delivery,
                      Reading
  <2> QED BY <1>13, <2>2, <2>3, <2>4, <2>5 DEF BadAnswer
<1> QED
  BY <1>1, <1>2, <1>3, <1>4, <1>6, <1>7, <1>8, <1>9, <1>10, <1>11, <1>12,
     <1>13 DEF Next, Step

(* One invocation that returns is one report of the abstract service.      *)
LEMMA OneReport ==
  ASSUME TypeOK, NEW i \in Invs, NEW o \in Outcomes \ {"none"},
         out[i] = "none", o \in {"ok", "error"} => i \in landed,
         Finish(i, o), UNCHANGED landed
  PROVE  Service!Next
<1> DEFINE v == [j \in {i} |-> o]
<1>1. v \in [{i} -> Service!Verdicts \ {"none"}] /\ v[i] = o
  BY DEF Service!Verdicts, Outcomes
<1>2. \A j \in {i} : out[j] = "none" /\ (v[j] \in Service!WithHash => j \in landed)
  BY <1>1 DEF Service!WithHash
<1>3. out' = [j \in Invs |-> IF j \in {i} THEN v[j] ELSE out[j]]
  BY <1>1 DEF Finish, TypeOK
<1> HIDE DEF v
<1>4. Service!Report({i})
  BY <1>1, <1>2, <1>3 DEF Service!Report
<1> QED BY <1>4 DEF Service!Next

(* ... so is giving up, at once or by waiting for the shared promise.      *)
LEMMA RaiseReport ==
  ASSUME TypeOK, NEW i \in Invs, out[i] = "none", RaiseResponseError(i),
         UNCHANGED landed
  PROVE  Service!Next \/ UNCHANGED Service!vars
<1>1. CASE Finish(i, "raised")
  BY <1>1, OneReport DEF Outcomes
<1>2. CASE UNCHANGED out
  BY <1>2 DEF Service!vars
<1> QED BY <1>1, <1>2 DEF RaiseResponseError

(* Every step of the client is a step of the abstract service or leaves it *)
(* unchanged.                                                              *)
LEMMA ServiceStep ==
  TypeOK /\ DeliveryInv /\ [Next]_vars => [Service!Next]_(Service!vars)
<1> SUFFICES ASSUME TypeOK, DeliveryInv, [Next]_vars
             PROVE  Service!Next \/ UNCHANGED Service!vars
  OBVIOUS
<1>1. CASE Bake \/ OtherWallet \/ UNCHANGED vars
  BY <1>1 DEF Bake, OtherWallet, vars, client, Service!vars
<1>2. CASE ErrorSchema
  <2> DEFINE S == {i \in Invs : pc[i] = "errors"}
             v == [i \in S |-> "raised"]
  <2>1. v \in [S -> Service!Verdicts \ {"none"}]
    BY DEF Service!Verdicts
  <2>2. \A i \in S : out[i] = "none" /\ v[i] \notin Service!WithHash
    BY DEF DeliveryInv, Delivery, Service!WithHash
  <2>3. out' = [i \in Invs |-> IF i \in S THEN v[i] ELSE out[i]]
    BY <1>2 DEF ErrorSchema
  <2>4. S \in SUBSET Invs /\ UNCHANGED landed
    BY <1>2 DEF ErrorSchema
  <2> HIDE DEF S, v
  <2>5. Service!Report(S)
    BY <2>1, <2>2, <2>3, <2>4 DEF Service!Report
  <2> QED BY <2>4, <2>5 DEF Service!Next
<1>3. ASSUME NEW i \in Invs, Start(i) \/ GetHead(i) \/ RunHead(i)
               \/ GetNextCounter(i) \/ IsRevealed(i) \/ GetProtocol(i)
               \/ SendInjection(i)
      PROVE  UNCHANGED Service!vars
  BY <1>3 DEF Start, GetHead, RunHead, GetNextCounter, IsRevealed,
              GetProtocol, SendInjection, Service!vars
<1>4. ASSUME NEW i \in Invs, pc[i] # "done" PROVE out[i] = "none"
  BY <1>4 DEF DeliveryInv, Delivery
<1>5. ASSUME NEW i \in Invs, RunInit(i)
      PROVE  Service!Next \/ UNCHANGED Service!vars
  BY <1>4, <1>5, RaiseReport DEF RunInit, Service!vars
<1>6. ASSUME NEW i \in Invs, Forge(i)
      PROVE  Service!Next \/ UNCHANGED Service!vars
  BY <1>4, <1>6, OneReport DEF Forge, Service!vars, Outcomes
<1>7. ASSUME NEW i \in Invs, Preapply(i)
      PROVE  Service!Next \/ UNCHANGED Service!vars
  <2>1. /\ pc[i] = "preapply" /\ UNCHANGED landed
        /\ RaiseResponseError(i) \/ UNCHANGED out
    BY <1>7 DEF Preapply
  <2> QED BY <1>4, <2>1, RaiseReport DEF Service!vars
<1>8. ASSUME NEW i \in Invs, NodeInject(i)
      PROVE  Service!Next \/ UNCHANGED Service!vars
  <2>1. UNCHANGED out /\ i \in wire
    BY <1>8 DEF NodeInject, client
  <2>2. CASE UNCHANGED landed
    BY <2>1, <2>2 DEF Service!vars
  <2>3. CASE landed' = landed \cup {i}
    <3>1. i \notin landed /\ out[i] \in {"none", "raised"}
      BY <2>1 DEF DeliveryInv, Delivery
    <3>2. Service!Land(i)
      BY <2>1, <2>3, <3>1 DEF Service!Land
    <3> QED BY <3>2 DEF Service!Next
  <2> QED BY <1>8, <2>2, <2>3 DEF NodeInject
<1>9. ASSUME NEW i \in Invs, Injected(i)
      PROVE  Service!Next \/ UNCHANGED Service!vars
  <2>1. /\ pc[i] = "wait" /\ UNCHANGED landed
        /\ \/ answer[i] = "hash" /\ Finish(i, Verdict(i))
           \/ RaiseResponseError(i)
    BY <1>9 DEF Injected
  <2>2. CASE RaiseResponseError(i)
    BY <1>4, <2>1, <2>2, RaiseReport
  <2>3. CASE answer[i] = "hash" /\ Finish(i, Verdict(i))
    <3>1. Verdict(i) \in Outcomes \ {"none"}
      BY DEF Verdict, Outcomes
    <3>2. i \in landed
      BY <2>3 DEF DeliveryInv, Delivery
    <3> QED BY <1>4, <2>1, <2>3, <3>1, <3>2, OneReport
  <2> QED BY <2>1, <2>2, <2>3
<1>10. ASSUME NEW i \in Invs, Timeout(i)
       PROVE  Service!Next
  <2>1. pc[i] # "done" /\ Finish(i, "raised") /\ UNCHANGED landed
    BY <1>10 DEF Timeout, Reading
  <2> QED BY <1>4, <2>1, OneReport DEF Outcomes
<1>11. ASSUME NEW i \in Invs, BadAnswer(i)
       PROVE  Service!Next \/ UNCHANGED Service!vars
  <2>1. /\ pc[i] # "done" /\ UNCHANGED landed
        /\ \/ RaiseResponseError(i) \/ UNCHANGED out
           \/ Finish(i, "unit") \/ Finish(i, "raised")
    BY <1>11 DEF BadAnswer, Reading
  <2> QED BY <1>4, <2>1, OneReport, RaiseReport DEF Outcomes, Service!vars
<1> QED
  BY <1>1, <1>2, <1>3, <1>5, <1>6, <1>7, <1>8, <1>9, <1>10, <1>11
     DEF Next, Step

(* LiquidDeploy implements Submission: an operation lands at most once, no *)
(* later than the report of its hash, and never behind the back of an      *)
(* invocation that has returned normally.                                  *)
THEOREM Refinement == Spec => ServiceSpec
<1>1. Init => TypeOK /\ DeliveryInv /\ Service!Init
  BY DEF Init, TypeOK, Stages, Outcomes, NoOp, DeliveryInv, Delivery, Reading,
         Service!Init
<1>2. TypeOK /\ DeliveryInv /\ [Next]_vars => (TypeOK /\ DeliveryInv)'
  BY TypeStep, DeliveryStep
<1> QED BY <1>1, <1>2, ServiceStep, PTL DEF Spec, ServiceSpec, Service!Spec

(* The verdict raises only after a simulation that the caller has no case  *)
(* for.                                                                    *)
LEMMA RaisingVerdicts ==
  ASSUME TypeOK, SimulatedInv, NEW i \in Invs, pc[i] = "wait",
         Verdict(i) = "raised"
  PROVE  Unexpected(i)
<1>1. Kind[i] \in {"call", "deploy", "activate"}
  BY DeployAssumption DEF Verdict, Kinds, SimulatedInv, Simulated
<1>2. 1 \in DOMAIN sim[i]
  BY <1>1 DEF SimulatedInv, Simulated
<1>3. sim[i] # << >>
  BY <1>2
<1>4. /\ FirstResult(i) # Wanted(i)
      /\ FirstResult(i) = "error" => Kind[i] = "activate"
  BY <1>1 DEF Verdict
<1>5. CASE Kind[i] = "activate"
  BY <1>3, <1>4, <1>5 DEF Unexpected, FirstResult, Wanted, Success
<1>6. CASE Kind[i] \in {"call", "deploy"}
  BY <1>3, <1>4, <1>6 DEF Unexpected, FirstResult, Wanted, Success
<1> QED BY <1>1, <1>5, <1>6

(* A step that leaves the verdicts, the landed and the lost as they were,  *)
(* or only changes them for one invocation that raises without having      *)
(* landed, keeps RaisedMeansNotInjected.                                   *)
LEMMA RaisedStep ==
  TypeOK /\ DeliveryInv /\ DeliveryInv' /\ SimulatedInv
    /\ RaisedMeansNotInjected /\ [Next]_vars => RaisedMeansNotInjected'
<1> SUFFICES ASSUME TypeOK, DeliveryInv, DeliveryInv', SimulatedInv,
                    RaisedMeansNotInjected, [Next]_vars,
                    NEW i \in Invs, out'[i] = "raised", i \notin lost',
                    ~Unexpected(i)'
             PROVE  i \notin landed'
  BY DEF RaisedMeansNotInjected, DeliveryInv, Delivery
<1>1. ASSUME out'[i] = out[i], sim'[i] = sim[i], i \in landed' => i \in landed,
             i \in lost => i \in lost'
      PROVE  i \notin landed'
  BY <1>1 DEF RaisedMeansNotInjected, Unexpected
<1>2. CASE UNCHANGED <<out, sim, landed, lost>>
  BY <1>1, <1>2
<1>3. ASSUME NEW j \in Invs, RaiseResponseError(j), UNCHANGED landed,
             pc[j] \in Reading \/ answer[j] # "hash",
             i # j => sim'[i] = sim[i], lost \subseteq lost'
      PROVE  i \notin landed'
  <2>1. CASE i = j
    BY <1>3, <2>1 DEF DeliveryInv, Delivery, Reading
  <2>2. CASE i # j
    BY <1>1, <1>3, <2>2 DEF RaiseResponseError, Finish, TypeOK
  <2> QED BY <2>1, <2>2
<1>4. CASE ErrorSchema
  <2>1. UNCHANGED <<sim, landed, lost>>
    BY <1>4 DEF ErrorSchema
  <2>2. CASE pc[i] = "errors"
    BY <2>1, <2>2 DEF DeliveryInv, Delivery
  <2>3. CASE pc[i] # "errors"
    BY <1>1, <1>4, <2>1, <2>3 DEF ErrorSchema
  <2> QED BY <2>2, <2>3
<1>5. ASSUME NEW j \in Invs, RunInit(j) \/ Preapply(j)
      PROVE  i \notin landed'
  <2>1. CASE RunInit(j)
    BY <1>2, <1>3, <2>1 DEF RunInit, Reading
  <2>2. CASE Preapply(j)
    <3>1. /\ pc[j] = "preapply" /\ UNCHANGED <<landed, lost>>
          /\ RaiseResponseError(j) \/ UNCHANGED out
          /\ UNCHANGED sim \/ \E s : sim' = [sim EXCEPT ![j] = s]
      BY <2>2 DEF Preapply
    <3>2. i # j => sim'[i] = sim[i]
      BY <3>1 DEF TypeOK
    <3>3. CASE RaiseResponseError(j)
      BY <1>3, <3>1, <3>2, <3>3 DEF Reading
    <3>4. CASE UNCHANGED out
      <4>1. i # j
        BY <3>1, <3>4 DEF DeliveryInv, Delivery
      <4> QED BY <1>1, <3>1, <3>2, <3>4, <4>1
    <3> QED BY <3>1, <3>3, <3>4
  <2> QED BY <1>5, <2>1, <2>2
<1>6. ASSUME NEW j \in Invs, Forge(j)
      PROVE  i \notin landed'
  <2>1. UNCHANGED <<sim, landed, lost>>
        /\ (UNCHANGED out \/ out' = [out EXCEPT ![j] = "forged"])
    BY <1>6 DEF Forge, Finish
  <2>2. out'[i] = out[i]
    BY <2>1 DEF TypeOK
  <2> QED BY <1>1, <2>1, <2>2
<1>7. ASSUME NEW j \in Invs, NodeInject(j)
      PROVE  i \notin landed'
  <2>1. /\ j \in wire /\ UNCHANGED <<pc, out, sim, lost>>
        /\ landed' \in {landed, landed \cup {j}}
    BY <1>7 DEF NodeInject, client
  <2>2. i # j
    BY <2>1 DEF DeliveryInv, Delivery
  <2> QED BY <1>1, <2>1, <2>2
<1>8. ASSUME NEW j \in Invs, Injected(j)
      PROVE  i \notin landed'
  <2>1. /\ pc[j] = "wait" /\ UNCHANGED <<sim, wire, answer, landed, lost>>
        /\ \/ answer[j] = "hash" /\ Finish(j, Verdict(j))
           \/ answer[j] = "refused" /\ RaiseResponseError(j)
    BY <1>8 DEF Injected
  <2>2. CASE answer[j] = "refused" /\ RaiseResponseError(j)
    BY <1>3, <2>1, <2>2
  <2>3. CASE answer[j] = "hash" /\ Finish(j, Verdict(j))
    <3>1. CASE i = j
      <4>1. Verdict(i) = "raised"
        BY <2>3, <3>1 DEF Finish, TypeOK
      <4>2. Unexpected(i)
        BY <2>1, <3>1, <4>1, RaisingVerdicts
      <4> QED BY <2>1, <4>2 DEF Unexpected
    <3>2. CASE i # j
      BY <1>1, <2>1, <2>3, <3>2 DEF Finish, TypeOK
    <3> QED BY <3>1, <3>2
  <2> QED BY <2>1, <2>2, <2>3
<1>9. ASSUME NEW j \in Invs, Timeout(j) \/ BadAnswer(j)
      PROVE  i \notin landed'
  <2>1. /\ pc[j] \in Reading \cup {"wait"} /\ Lose(j)
        /\ UNCHANGED <<sim, landed>>
        /\ \/ RaiseResponseError(j) \/ UNCHANGED out
           \/ Finish(j, "unit") \/ Finish(j, "raised")
    BY <1>9 DEF Timeout, BadAnswer
  <2>2. i # j => out'[i] = out[i]
    BY <2>1 DEF RaiseResponseError, Finish, TypeOK
  <2>3. CASE i # j
    BY <1>1, <2>1, <2>2, <2>3 DEF Lose
  <2>4. CASE i = j
    <3>1. pc[i] # "wait"
      BY <2>1, <2>4 DEF Lose
    <3> QED BY <2>1, <2>4, <3>1 DEF DeliveryInv, Delivery, Reading
  <2> QED BY <2>3, <2>4
<1>10. CASE Bake \/ OtherWallet \/ UNCHANGED vars
  BY <1>2, <1>10 DEF Bake, OtherWallet, vars, client
<1>11. ASSUME NEW j \in Invs, Start(j) \/ GetHead(j) \/ RunHead(j)
               \/ GetNextCounter(j) \/ IsRevealed(j) \/ GetProtocol(j)
               \/ SendInjection(j)
       PROVE  i \notin landed'
  BY <1>2, <1>11 DEF Start, GetHead, RunHead, GetNextCounter, IsRevealed,
                     GetProtocol, SendInjection
<1> QED
  BY <1>4, <1>5, <1>6, <1>7, <1>8, <1>9, <1>10, <1>11 DEF Next, Step

(* Batches are atomic: a simulation that shows a failure anywhere does not *)
(* show a success in its first status.                                     *)
LEMMA FirstStatus ==
  ASSUME NEW o \in [branch : Nat, contents : Seq(Content)],
         1 \in DOMAIN o.contents, NEW s \in Simulations(o)
  PROVE  /\ 1 \in DOMAIN s
         /\ s[1] \in Success => \A k \in DOMAIN s : s[k] \notin Failure
<1>1. PICK n \in Nat : DOMAIN o.contents = 1..n
  BY DEF Content
<1>2. PICK t : /\ t \in Granted(o)
                  \/ \E k \in DOMAIN o.contents : t = FailsAt(o, k)
               /\ \/ s = t
                  \/ \E k \in DOMAIN o.contents :
                       s = [t EXCEPT ![k] = "unreadable"]
  BY SimulationCases
<1>3. DOMAIN s = DOMAIN o.contents /\ DOMAIN t = DOMAIN o.contents
  BY <1>2, SimulationType DEF Granted, FailsAt
<1>4. \A k \in DOMAIN s : s[k] = t[k] \/ s[k] = "unreadable"
  BY <1>2, <1>3
<1>5. CASE t \in Granted(o)
  BY <1>3, <1>4, <1>5, StatusGroups DEF Granted, Failure
<1>6. ASSUME NEW k \in DOMAIN o.contents, t = FailsAt(o, k)
      PROVE  s[1] \notin Success
  <2>1. k \in Int /\ (1 = k \/ 1 < k)
    BY <1>1
  <2>2. t[1] = CASE 1 < k -> "backtracked" [] 1 = k -> "failed"
                 [] OTHER -> "skipped"
    BY <1>6 DEF FailsAt
  <2>3. 1 < k => t[1] = "backtracked"
    BY <2>1, <2>2
  <2>4. 1 = k => t[1] = "failed"
    BY <2>1, <2>2
  <2> QED BY <1>3, <1>4, <2>1, <2>3, <2>4 DEF Success
<1> QED BY <1>2, <1>3, <1>5, <1>6

(* What forging and simulating establish about a batch holds until the     *)
(* verdict is given.                                                       *)
LEMMA SimulatedStep ==
  TypeOK /\ SimulatedInv /\ [Next]_vars => SimulatedInv'
<1> SUFFICES ASSUME TypeOK, SimulatedInv, [Next]_vars,
                    NEW i \in Invs
             PROVE  Simulated(i)'
  BY DEF SimulatedInv
<1> DEFINE Late == {"protocol", "preapply", "inject", "wait"}
<1>1. Simulated(i)
  BY DEF SimulatedInv
<1>2. ASSUME UNCHANGED <<op, sim>>, pc'[i] \in Late => pc'[i] = pc[i]
      PROVE  Simulated(i)'
  BY <1>1, <1>2 DEF Simulated, NoneFailed
<1>3. ASSUME NEW j \in Invs, RaiseResponseError(j)
      PROVE  pc'[i] \in Late => pc'[i] = pc[i]
  BY <1>3 DEF RaiseResponseError, Finish, Goto, TypeOK
<1>4. CASE Bake \/ OtherWallet \/ ErrorSchema \/ UNCHANGED vars
  BY <1>2, <1>4 DEF Bake, OtherWallet, ErrorSchema, vars, client
<1>5. ASSUME NEW j \in Invs, Start(j)
      PROVE  Simulated(i)'
  <2>1. CASE i = j
    BY <1>5, <2>1 DEF Start, Goto, TypeOK, Simulated
  <2>2. CASE i # j
    BY <1>1, <1>5, <2>2 DEF Start, Goto, TypeOK, Simulated, NoneFailed
  <2> QED BY <2>1, <2>2
<1>6. ASSUME NEW j \in Invs, GetHead(j) \/ RunHead(j) \/ GetNextCounter(j)
               \/ IsRevealed(j)
      PROVE  Simulated(i)'
  BY <1>2, <1>6 DEF GetHead, RunHead, GetNextCounter, IsRevealed, Goto, TypeOK
<1>7. ASSUME NEW j \in Invs, GetProtocol(j) \/ SendInjection(j)
      PROVE  Simulated(i)'
  BY <1>1, <1>7 DEF GetProtocol, SendInjection, Goto, TypeOK, Simulated,
                    NoneFailed
<1>8. ASSUME NEW j \in Invs, RunInit(j)
      PROVE  Simulated(i)'
  BY <1>2, <1>3, <1>8 DEF RunInit, Goto, TypeOK
<1>9. ASSUME NEW j \in Invs, Forge(j)
      PROVE  Simulated(i)'
  <2>1. CASE i = j
    <3>1. /\ op'[i].contents = Batch(i)
          /\ pc'[i] = IF Kind[i] \in {"forge_deploy", "forge_call"}
                      THEN "done" ELSE "protocol"
      BY <1>9, <2>1 DEF Forge, Finish, Goto, TypeOK
    <3>2. 1 \in DOMAIN op'[i].contents
      BY <3>1, BatchType
    <3> QED BY <3>1, <3>2 DEF Simulated
  <2>2. CASE i # j
    BY <1>1, <1>9, <2>2 DEF Forge, Finish, Goto, TypeOK, Simulated, NoneFailed
  <2> QED BY <2>1, <2>2
<1>10. ASSUME NEW j \in Invs, Preapply(j)
       PROVE  Simulated(i)'
  <2>1. CASE i # j
    <3>1. sim'[i] = sim[i] /\ op'[i] = op[i] /\ pc'[i] = pc[i]
      BY <1>10, <2>1 DEF Preapply, RaiseResponseError, Finish, Goto, TypeOK
    <3> QED BY <1>1, <3>1 DEF Simulated, NoneFailed
  <2>2. CASE i = j
    <3>1. pc[i] = "preapply" /\ op' = op
      BY <1>10, <2>2 DEF Preapply
    <3>2. CASE RaiseResponseError(i)
      BY <3>2 DEF RaiseResponseError, Finish, Goto, TypeOK, Simulated
    <3>3. ASSUME NEW s \in Simulations(op[i]), sim' = [sim EXCEPT ![i] = s],
                 Goto(i, "inject")
          PROVE  Simulated(i)'
      <4>1. /\ Kind[i] \in {"call", "deploy", "activate"} =>
                 1 \in DOMAIN op[i].contents
            /\ Kind[i] \notin {"forge_deploy", "forge_call"}
        BY <1>1, <3>1 DEF Simulated
      <4>2. Kind[i] \in {"call", "deploy", "activate"} =>
              /\ 1 \in DOMAIN s
              /\ s[1] \in Success => \A k \in DOMAIN s : s[k] \notin Failure
        BY <4>1, FirstStatus DEF TypeOK
      <4>3. sim'[i] = s
        BY <3>3 DEF TypeOK
      <4> QED BY <3>1, <4>1, <4>2, <4>3 DEF Simulated, NoneFailed
    <3> QED BY <1>10, <2>2, <3>2, <3>3 DEF Preapply
  <2> QED BY <2>1, <2>2
<1>11. ASSUME NEW j \in Invs, NodeInject(j)
       PROVE  Simulated(i)'
  BY <1>2, <1>11 DEF NodeInject, client
<1>12. ASSUME NEW j \in Invs, Injected(j)
       PROVE  Simulated(i)'
  BY <1>2, <1>3, <1>12 DEF Injected, Finish, Goto, TypeOK
<1>13. ASSUME NEW j \in Invs, Timeout(j)
       PROVE  Simulated(i)'
  BY <1>2, <1>13 DEF Timeout, Finish, Goto, TypeOK
<1>14. ASSUME NEW j \in Invs, BadAnswer(j)
       PROVE  Simulated(i)'
  BY <1>2, <1>3, <1>14 DEF BadAnswer, Finish, Goto, TypeOK
<1> QED
  BY <1>4, <1>5, <1>6, <1>7, <1>8, <1>9, <1>10, <1>11, <1>12, <1>13, <1>14
     DEF Next, Step

(* Only the step that reads the node's answer makes a report, and it makes *)
(* a faithful one: the first result stands for the whole batch.            *)
LEMMA FaithfulStep ==
  TypeOK /\ DeliveryInv /\ SimulatedInv /\ ReportFaithful /\ [Next]_vars
    => ReportFaithful'
<1> SUFFICES ASSUME TypeOK, DeliveryInv, SimulatedInv, ReportFaithful,
                    [Next]_vars, NEW i \in Invs,
                    Kind[i] \in {"call", "deploy"}, out'[i] \in {"ok", "error"}
             PROVE  /\ i \in landed'
                    /\ out'[i] = "ok" => NoneFailed(i)'
                    /\ out'[i] = "error" => ~AllApplied(i)'
  BY DEF ReportFaithful
<1> DEFINE Goal == /\ i \in landed'
                   /\ out'[i] = "ok" => NoneFailed(i)'
                   /\ out'[i] = "error" => ~AllApplied(i)'
<1>1. ASSUME out'[i] = out[i], sim'[i] = sim[i], landed \subseteq landed'
      PROVE  Goal
  BY <1>1 DEF ReportFaithful, AllApplied, NoneFailed
<1>2. ASSUME NEW j \in Invs, RaiseResponseError(j)
      PROVE  out'[i] = out[i]
  BY <1>2 DEF RaiseResponseError, Finish, TypeOK
<1>3. CASE Bake \/ OtherWallet \/ UNCHANGED vars
  BY <1>1, <1>3 DEF Bake, OtherWallet, vars, client
<1>4. CASE ErrorSchema
  BY <1>1, <1>4 DEF ErrorSchema
<1>5. ASSUME NEW j \in Invs, Start(j) \/ GetHead(j) \/ RunHead(j)
               \/ GetNextCounter(j) \/ IsRevealed(j) \/ GetProtocol(j)
               \/ SendInjection(j)
      PROVE  Goal
  BY <1>1, <1>5 DEF Start, GetHead, RunHead, GetNextCounter, IsRevealed,
                    GetProtocol, SendInjection
<1>6. ASSUME NEW j \in Invs, RunInit(j)
      PROVE  Goal
  BY <1>1, <1>2, <1>6 DEF RunInit
<1>7. ASSUME NEW j \in Invs, Forge(j)
      PROVE  Goal
  BY <1>1, <1>7 DEF Forge, Finish, TypeOK
<1>8. ASSUME NEW j \in Invs, Preapply(j)
      PROVE  Goal
  <2>1. /\ pc[j] = "preapply" /\ landed' = landed
        /\ RaiseResponseError(j) \/ UNCHANGED out
        /\ UNCHANGED sim \/ \E s \in Simulations(op[j]) :
                               sim' = [sim EXCEPT ![j] = s]
    BY <1>8 DEF Preapply
  <2>2. out'[i] = out[i]
    BY <1>2, <2>1
  <2>3. i # j
    BY <2>1, <2>2 DEF DeliveryInv, Delivery
  <2>4. sim'[i] = sim[i]
    BY <2>1, <2>3 DEF TypeOK
  <2> QED BY <1>1, <2>1, <2>2, <2>4
<1>9. ASSUME NEW j \in Invs, NodeInject(j)
      PROVE  Goal
  BY <1>1, <1>9 DEF NodeInject, client
<1>10. ASSUME NEW j \in Invs, Injected(j)
       PROVE  Goal
  <2>1. /\ pc[j] = "wait" /\ UNCHANGED <<sim, landed>>
        /\ \/ answer[j] = "hash" /\ Finish(j, Verdict(j))
           \/ RaiseResponseError(j)
    BY <1>10 DEF Injected
  <2>2. CASE i # j \/ RaiseResponseError(j)
    BY <1>1, <1>2, <2>1, <2>2 DEF Finish, TypeOK
  <2>3. CASE i = j /\ answer[i] = "hash" /\ Finish(i, Verdict(i))
    <3>1. i \in landed /\ out'[i] = Verdict(i)
      BY <2>3 DEF Finish, TypeOK, DeliveryInv, Delivery
    <3>2. /\ Verdict(i) = "ok" => FirstResult(i) = Wanted(i)
          /\ Verdict(i) = "error" => FirstResult(i) = "error"
      BY DEF Verdict
    <3>3. /\ 1 \in DOMAIN sim[i]
          /\ sim[i][1] \in Success => NoneFailed(i)
      BY <2>1, <2>3 DEF SimulatedInv, Simulated
    <3>4. /\ FirstResult(i) = Wanted(i) => NoneFailed(i)
          /\ FirstResult(i) = "error" => ~AllApplied(i)
      BY <3>3 DEF FirstResult, AllApplied, Wanted, Success
    <3>5. (AllApplied(i)' <=> AllApplied(i)) /\ (NoneFailed(i)' <=> NoneFailed(i))
      BY <2>1 DEF AllApplied, NoneFailed
    <3> QED BY <2>1, <3>1, <3>2, <3>4, <3>5
  <2> QED BY <2>1, <2>2, <2>3
<1>11. ASSUME NEW j \in Invs, Timeout(j)
       PROVE  Goal
  BY <1>1, <1>11 DEF Timeout, Finish, TypeOK
<1>12. ASSUME NEW j \in Invs, BadAnswer(j)
       PROVE  Goal
  <2>1. CASE RaiseResponseError(j)
    BY <1>1, <1>2, <1>12, <2>1 DEF BadAnswer
  <2>2. CASE Finish(j, "unit") \/ Finish(j, "raised") \/ UNCHANGED out
    BY <1>1, <1>12, <2>2 DEF BadAnswer, Finish, TypeOK
  <2> QED BY <1>12, <2>1, <2>2 DEF BadAnswer
<1> QED
  BY <1>3, <1>4, <1>5, <1>6, <1>7, <1>8, <1>9, <1>10, <1>11, <1>12
     DEF Next, Step

(* What deploy and call report is what happened, although they look at the *)
(* result of the first content only: a hash means that the node took the   *)
(* operation, success that no part of the batch failed in the simulation.  *)
THEOREM ReportsAreFaithful == Spec => []ReportFaithful
<1> DEFINE I == TypeOK /\ DeliveryInv /\ SimulatedInv /\ ReportFaithful
<1>1. Init => I
  BY DEF Init, TypeOK, Stages, Outcomes, NoOp, DeliveryInv, Delivery, Reading,
         SimulatedInv, Simulated, ReportFaithful
<1>2. I /\ [Next]_vars => I'
  BY TypeStep, DeliveryStep, SimulatedStep, FaithfulStep
<1> QED BY <1>1, <1>2, PTL DEF Spec

(* An exception means that nothing was injected and that the user may try  *)
(* again, whatever function raises it and however the invocations, the     *)
(* node and the network interleave, up to an injection whose answer was    *)
(* lost or nonsense and to the results without a case in their function    *)
(* (inject_operation and its callers).                                     *)
THEOREM RaiseIsSafe == Spec => []RaisedMeansNotInjected
<1> DEFINE I == TypeOK /\ DeliveryInv /\ SimulatedInv /\ RaisedMeansNotInjected
<1>1. Init => I
  BY DEF Init, TypeOK, Stages, Outcomes, NoOp, DeliveryInv, Delivery, Reading,
         SimulatedInv, Simulated, RaisedMeansNotInjected
<1>2. I /\ [Next]_vars => I'
  BY TypeStep, DeliveryStep, SimulatedStep, RaisedStep
<1> QED BY <1>1, <1>2, PTL DEF Spec

(* Where each injection is agrees with the stage and the verdict of its    *)
(* invocation, however the node, the network and the others interleave     *)
(* (inject_operation and its callers).                                     *)
THEOREM DeliveryIsTracked == Spec => []DeliveryInv
<1>1. Init => TypeOK /\ DeliveryInv
  BY DEF Init, TypeOK, Stages, Outcomes, NoOp, DeliveryInv, Delivery, Reading
<1>2. TypeOK /\ DeliveryInv /\ [Next]_vars => (TypeOK /\ DeliveryInv)'
  BY TypeStep, DeliveryStep
<1> QED BY <1>1, <1>2, PTL DEF Spec

-----------------------------------------------------------------------------
(* An invocation alone on its account.                                     *)

SoloKinds == {"call", "deploy", "reveal", "activate"}
LevelInv == node.level <= MaxLevel

(* The initializer of the deployment failed on the node.                   *)
NoStorage(i) == Kind[i] = "deploy" /\ InitCode /\ op[i] = NoOp

(* Until the node takes the operation, nothing it was built from changes;  *)
(* the node therefore has no reason to refuse it, and the only failures are*)
(* the initializer's and the one its own simulation shows.                 *)
Progress(i) ==
  /\ answer[i] # "refused" /\ i \notin lost
  /\ answer[i] = "none" =>
       /\ node.pending = 0 /\ ~node.reveal
       /\ pc[i] \in {"manager_key", "forge"} /\ Kind[i] # "activate" =>
            counter[i] = node.counter + 1
       /\ pc[i] = "forge" /\ Kind[i] \in {"call", "deploy"} =>
            revealed[i] = node.revealed
       /\ pc[i] \in {"protocol", "preapply", "inject", "wait"} =>
            Valid(op[i], node.counter, node.revealed)
  /\ pc[i] \in {"idle", "head", "run"} => op[i] = NoOp
  /\ pc[i] \in {"run", "run_head"} => Kind[i] = "deploy" /\ InitCode
  /\ pc[i] = "errors" => ~AllApplied(i) \/ NoStorage(i)
  /\ pc[i] = "done" /\ AllApplied(i) /\ ~NoStorage(i) =>
       answer[i] = "hash" /\ (out[i] \in {"ok", "unit"} \/ Unexpected(i))

SoloInv ==
  \A i \in Invs : Kind[i] \in SoloKinds /\ Alone(i) => Progress(i)

(* The chain never gets longer than the bound the model puts on it.        *)
LEMMA LevelStep == TypeOK /\ LevelInv /\ [Next]_vars => LevelInv'
<1> SUFFICES ASSUME TypeOK, LevelInv, [Next]_vars
             PROVE  LevelInv'
  OBVIOUS
<1>1. node \in NodeType
  BY DEF TypeOK, NodeType
<1>2. ASSUME NEW n, NEW b, Enqueue(n, b)
      PROVE  LevelInv'
  BY <1>1, <1>2 DEF Enqueue, LevelInv, NodeType
<1>3. CASE Bake
  BY <1>1, <1>3, DeployAssumption DEF Bake, LevelInv, NodeType
<1>4. CASE OtherWallet
  BY <1>2, <1>4 DEF OtherWallet
<1>5. CASE UNCHANGED node
  BY <1>5 DEF LevelInv
<1>6. ASSUME NEW i \in Invs, NodeInject(i)
      PROVE  LevelInv'
  BY <1>2, <1>5, <1>6 DEF NodeInject
<1> QED
  BY <1>3, <1>4, <1>5, <1>6
     DEF Next, Step, vars, ErrorSchema, Start, GetHead, RunInit, RunHead,
         GetNextCounter, IsRevealed, Forge, GetProtocol, Preapply,
         SendInjection, Injected, Timeout, BadAnswer

(* Who is alone was alone before, and the step is its own, or the node's.  *)
LEMMA AloneStep ==
  ASSUME TypeOK, DeliveryInv, [Next]_vars, NEW i \in Invs, Alone(i)'
  PROVE  /\ Alone(i)
         /\ \/ Bake \/ ErrorSchema \/ UNCHANGED vars
            \/ Start(i) \/ Step(i) \/ NodeInject(i)
<1>1. /\ others' = 0 /\ ~Faulty /\ MaxLevel <= TTL
      /\ CounterOption = NoCounter
      /\ \A j \in Invs \ {i} : pc'[j] = "idle"
  BY DEF Alone
<1>2. ~OtherWallet
  BY <1>1 DEF OtherWallet, TypeOK
<1>3. ASSUME NEW j \in Invs, Start(j) \/ Step(j) \/ NodeInject(j)
      PROVE  i = j /\ others' = others
  <2>1. others' = others
    BY <1>3 DEF Step, Start, GetHead, RunInit, RunHead, GetNextCounter,
                IsRevealed, Forge, GetProtocol, Preapply, SendInjection,
                Injected, Timeout, BadAnswer, NodeInject
  <2>2. CASE Start(j)
    BY <1>1, <2>1, <2>2 DEF Start, Goto, TypeOK
  <2>3. ASSUME NodeInject(j) PROVE pc'[j] # "idle"
    BY <2>3 DEF NodeInject, client, DeliveryInv, Delivery
  <2>4. ASSUME RaiseResponseError(j) PROVE pc'[j] # "idle"
    BY <2>4 DEF RaiseResponseError, Finish, Goto, TypeOK
  <2>5. ASSUME Step(j) PROVE pc'[j] # "idle"
    BY <2>4, <2>5
       DEF Step, GetHead, RunInit, RunHead, GetNextCounter, IsRevealed, Forge,
           GetProtocol, Preapply, SendInjection, Injected, Timeout, BadAnswer,
           Finish, Goto, TypeOK
  <2> QED BY <1>1, <1>3, <2>1, <2>2, <2>3, <2>5
<1>4. ASSUME NEW j \in Invs \ {i}
      PROVE  pc[j] = "idle"
  <2>1. pc'[j] = "idle"
    BY <1>1
  <2>2. CASE Bake \/ UNCHANGED vars
    BY <2>1, <2>2 DEF Bake, vars, client
  <2>3. CASE ErrorSchema
    BY <2>1, <2>3 DEF ErrorSchema
  <2>4. ASSUME Start(i) \/ Step(i) \/ NodeInject(i)
        PROVE  pc'[j] = pc[j]
    <3>1. ASSUME RaiseResponseError(i) PROVE pc'[j] = pc[j]
      BY <3>1 DEF RaiseResponseError, Finish, Goto, TypeOK
    <3> QED BY <2>4, <3>1
       DEF Step, Start, GetHead, RunInit, RunHead, GetNextCounter, IsRevealed,
           Forge, GetProtocol, Preapply, SendInjection, Injected, Timeout,
           BadAnswer, Finish, Goto, TypeOK, NodeInject, client
  <2> QED BY <1>2, <1>3, <2>1, <2>2, <2>3, <2>4 DEF Next
<1>5. others = 0
  BY <1>1, <1>2, <1>3 DEF Next, Bake, ErrorSchema, vars
<1> QED BY <1>1, <1>2, <1>3, <1>4, <1>5 DEF Next, Alone

(* Every branch is live while the chain is shorter than its lifetime.      *)
LEMMA AlwaysLive ==
  ASSUME TypeOK, LevelInv, MaxLevel <= TTL,
         NEW o \in [branch : Nat, contents : Seq(Content)]
  PROVE  Live(o)
<1>1. node.level \in Nat /\ o.branch \in Nat
  BY DEF TypeOK
<1> QED BY <1>1, DeployAssumption DEF Live, LevelInv

(* What is forged with the account's next counter, and the reveal it lacks,*)
(* is what the node asks for.                                              *)
LEMMA ForgedIsValid ==
  ASSUME TypeOK, LevelInv, MaxLevel <= TTL,
         NEW i \in Invs, Kind[i] \in SoloKinds,
         Kind[i] # "activate" => counter[i] = node.counter + 1,
         Kind[i] \in {"call", "deploy"} => revealed[i] = node.revealed
  PROVE  Valid([branch |-> head[i], contents |-> Batch(i)],
               node.counter, node.revealed)
<1> DEFINE o == [branch |-> head[i], contents |-> Batch(i)]
<1>1. o \in [branch : Nat, contents : Seq(Content)]
  BY BatchType DEF TypeOK
<1>2. Live(o)
  BY <1>1, AlwaysLive
<1>3. node.counter \in Nat /\ node.revealed \in BOOLEAN /\ revealed[i] \in BOOLEAN
  BY DEF TypeOK
<1>4. CASE Kind[i] = "activate"
  BY <1>2, <1>4 DEF Valid, Managed, Batch
<1>5. CASE Kind[i] = "reveal"
  <2>1. Batch(i) = <<RevealContent(node.counter + 1)>>
    BY <1>5 DEF Batch
  <2> QED BY <1>2, <1>3, <2>1
          DEF Valid, Managed, StartsWithReveal, RevealContent
<1>6. CASE Kind[i] \in {"call", "deploy"} /\ node.revealed
  <2>1. Batch(i) = <<MainContent(i, node.counter + 1)>>
    BY <1>6 DEF Batch
  <2> QED BY <1>2, <1>3, <1>6, <2>1
          DEF Valid, Managed, StartsWithReveal, MainContent
<1>7. CASE Kind[i] \in {"call", "deploy"} /\ ~node.revealed
  <2>1. Batch(i) = <<RevealContent(node.counter + 1),
                     MainContent(i, node.counter + 2)>>
    BY <1>3, <1>7 DEF Batch, HasKey
  <2>2. \A k \in DOMAIN Batch(i) : Batch(i)[k].counter = node.counter + k
    BY <1>3, <2>1 DEF RevealContent, MainContent
  <2>3. StartsWithReveal(o)
    BY <2>1 DEF StartsWithReveal, RevealContent
  <2> QED BY <1>2, <2>2, <2>3 DEF Valid
<1> QED BY <1>3, <1>4, <1>5, <1>6, <1>7 DEF SoloKinds

(* Progress is kept by the only steps there are: the node's blocks and i's *)
(* own.                                                                    *)
LEMMA SoloStep ==
  TypeOK /\ DeliveryInv /\ SimulatedInv /\ LevelInv /\ SoloInv /\ [Next]_vars
    => SoloInv'
<1> SUFFICES ASSUME TypeOK, DeliveryInv, SimulatedInv, LevelInv, SoloInv,
                    [Next]_vars, NEW i \in Invs, Kind[i] \in SoloKinds,
                    Alone(i)'
             PROVE  Progress(i)'
  BY DEF SoloInv
<1>1. /\ Alone(i) /\ Progress(i)
      /\ \/ Bake \/ ErrorSchema \/ UNCHANGED vars
         \/ Start(i) \/ Step(i) \/ NodeInject(i)
  BY AloneStep DEF SoloInv
<1>2. /\ TypeOK' /\ DeliveryInv' /\ LevelInv'
      /\ Delivery(i) /\ Delivery(i)'
  BY TypeStep, DeliveryStep, LevelStep DEF DeliveryInv
<1>3. ~Faulty /\ MaxLevel <= TTL /\ CounterOption = NoCounter
  BY <1>1 DEF Alone
<1>4. CASE UNCHANGED vars
  BY <1>1, <1>4 DEF vars, Progress, AllApplied, Unexpected, NoStorage, Valid,
                    Live, Managed, StartsWithReveal
<1>5. CASE ErrorSchema
  <2>1. /\ pc[i] = "errors" => pc'[i] = "done" /\ out'[i] = "raised"
        /\ pc[i] # "errors" => pc'[i] = pc[i] /\ out'[i] = out[i]
        /\ UNCHANGED <<counter, revealed, op, sim, answer, lost, node>>
    BY <1>5 DEF ErrorSchema, TypeOK
  <2> QED BY <1>1, <2>1 DEF Progress, AllApplied, Unexpected, NoStorage,
                            Valid, Live, Managed, StartsWithReveal
<1>6. CASE Bake
  <2>1. UNCHANGED <<pc, counter, revealed, op, sim, out, answer, lost>>
    BY <1>6 DEF Bake, client
  <2>2. answer[i] = "none" =>
          /\ node'.pending = 0 /\ ~node'.reveal
          /\ node'.counter = node.counter /\ node'.revealed = node.revealed
    BY <1>1, <1>6 DEF Bake, Progress, TypeOK
  <2>3. Live(op[i])'
    <3>1. node'.level \in Nat /\ op'[i].branch \in Nat
      BY <1>2 DEF TypeOK
    <3> QED BY <1>2, <1>3, <3>1, DeployAssumption DEF Live, LevelInv
  <2> QED BY <1>1, <2>1, <2>2, <2>3
          DEF Progress, AllApplied, Unexpected, NoStorage, Valid, Managed,
              StartsWithReveal
<1>7. CASE Start(i)
  <2>1. /\ pc'[i] = "head" /\ pc[i] = "idle"
        /\ UNCHANGED <<counter, revealed, op, sim, out, answer, lost, node>>
    BY <1>7 DEF Start, Goto, TypeOK, SoloKinds
  <2> QED BY <1>1, <2>1 DEF Progress
<1>8. CASE GetHead(i)
  <2>1. /\ pc[i] = "head" /\ UNCHANGED <<op, answer, lost, node>>
        /\ pc'[i] = CASE Kind[i] = "activate" -> "forge"
                      [] Kind[i] = "deploy" /\ InitCode -> "run"
                      [] OTHER -> "counter"
    BY <1>8 DEF GetHead, Goto, TypeOK
  <2> QED BY <1>1, <2>1 DEF Progress, SoloKinds
<1>a. CASE RunInit(i)
  <2>1. /\ pc[i] = "run" /\ UNCHANGED <<op, sim, answer, lost, node>>
        /\ pc'[i] \in {"run_head", "errors", "done"}
    BY <1>a DEF RunInit, RaiseResponseError, Finish, Goto, TypeOK
  <2> QED BY <1>1, <2>1 DEF Progress, NoStorage
<1>b. CASE RunHead(i)
  <2>1. /\ pc[i] = "run_head" /\ UNCHANGED <<op, answer, lost, node>>
        /\ pc'[i] = IF Kind[i] = "deploy" THEN "counter" ELSE "head"
    BY <1>b DEF RunHead, Goto, TypeOK
  <2> QED BY <1>1, <2>1 DEF Progress
<1>9. CASE GetNextCounter(i)
  <2>1. /\ pc'[i] = IF Kind[i] = "reveal" THEN "forge" ELSE "manager_key"
        /\ counter'[i] = node.counter + 1
        /\ UNCHANGED <<answer, lost, node>>
    BY <1>3, <1>9 DEF GetNextCounter, NextCounter, Goto, TypeOK
  <2> QED BY <1>1, <2>1 DEF Progress
<1>10. CASE IsRevealed(i)
  <2>1. /\ pc[i] = "manager_key" /\ pc'[i] = "forge"
        /\ revealed'[i] = node.revealed
        /\ UNCHANGED <<counter, answer, lost, node>>
    BY <1>10 DEF IsRevealed, Goto, TypeOK
  <2> QED BY <1>1, <2>1 DEF Progress
<1>11. CASE Forge(i)
  <2>1. /\ pc[i] = "forge" /\ pc'[i] = "protocol"
        /\ op'[i] = [branch |-> head[i], contents |-> Batch(i)]
        /\ UNCHANGED <<answer, lost, node>>
    BY <1>11 DEF Forge, Goto, TypeOK, SoloKinds
  <2>2. answer[i] = "none"
    BY <1>2, <2>1 DEF Delivery, Reading
  <2>3. Valid(op'[i], node.counter, node.revealed)
    BY <1>1, <1>3, <2>1, <2>2, ForgedIsValid DEF Progress
  <2>4. Valid(op[i], node.counter, node.revealed)'
    BY <2>1, <2>3 DEF Valid, Live, Managed, StartsWithReveal
  <2> QED BY <1>1, <2>1, <2>2, <2>4 DEF Progress
<1>12. ASSUME UNCHANGED <<op, node>>,
              Valid(op[i], node.counter, node.revealed)
       PROVE  Valid(op[i], node.counter, node.revealed)'
  BY <1>12 DEF Valid, Live, Managed, StartsWithReveal
<1>13. CASE GetProtocol(i) \/ SendInjection(i)
  <2>1. /\ pc[i] \in {"protocol", "inject"} /\ pc'[i] \in {"preapply", "wait"}
        /\ UNCHANGED <<op, answer, lost, node>>
    BY <1>13 DEF GetProtocol, SendInjection, Goto, TypeOK
  <2> QED BY <1>1, <1>12, <2>1 DEF Progress
<1>14. CASE Preapply(i)
  <2>1. pc[i] = "preapply" /\ UNCHANGED <<op, answer, lost, node>>
    BY <1>14 DEF Preapply
  <2>2. answer[i] = "none" /\ Valid(op[i], node.counter, node.revealed)
    BY <1>1, <1>2, <2>1 DEF Delivery, Reading, Progress
  <2>3. PICK s \in Simulations(op[i]) :
          /\ sim' = [sim EXCEPT ![i] = s]
          /\ \/ (\E k \in DOMAIN s : s[k] = "failed") /\ RaiseResponseError(i)
             \/ Goto(i, "inject")
    BY <1>14, <2>2 DEF Preapply
  <2>4. sim'[i] = s
    BY <2>3 DEF TypeOK
  <2>5. CASE Goto(i, "inject")
    <3>1. pc'[i] = "inject"
      BY <2>5 DEF Goto, TypeOK
    <3> QED BY <1>1, <1>12, <2>1, <2>2, <3>1 DEF Progress
  <2>6. CASE (\E k \in DOMAIN s : s[k] = "failed") /\ RaiseResponseError(i)
    <3>1. pc'[i] \in {"done", "errors"}
      BY <2>6 DEF RaiseResponseError, Finish, Goto, TypeOK
    <3>2. ~AllApplied(i)'
      BY <2>4, <2>6 DEF AllApplied, Success
    <3> QED BY <1>1, <2>1, <3>1, <3>2 DEF Progress
  <2> QED BY <2>3, <2>5, <2>6
<1>15. CASE Injected(i)
  <2>1. /\ pc[i] = "wait" /\ answer[i] = "hash"
        /\ pc'[i] = "done" /\ out'[i] = Verdict(i)
        /\ UNCHANGED <<op, sim, answer, lost, node>>
    BY <1>1, <1>15 DEF Injected, Finish, Goto, TypeOK, Progress
  <2>2. CASE Kind[i] = "reveal"
    <3>1. Verdict(i) = "unit"
      BY <2>2 DEF Verdict
    <3> QED BY <1>1, <2>1, <3>1 DEF Progress
  <2>3. CASE Kind[i] # "reveal"
    <3>1. 1 \in DOMAIN sim[i] /\ sim[i] # << >>
      BY <2>1, <2>3 DEF SimulatedInv, Simulated, SoloKinds
    <3>2. AllApplied(i) => FirstResult(i) \in Success
      BY <3>1 DEF AllApplied, FirstResult
    <3>3. AllApplied(i) => Verdict(i) \in {"ok", "raised"}
      BY <2>3, <3>2 DEF Verdict, SoloKinds, Success
    <3>4. Verdict(i) = "raised" => Unexpected(i)
      BY <2>1, RaisingVerdicts
    <3>5. /\ AllApplied(i)' <=> AllApplied(i)
          /\ Unexpected(i)' <=> Unexpected(i)
      BY <2>1 DEF AllApplied, Unexpected
    <3> QED BY <1>1, <2>1, <3>3, <3>4, <3>5 DEF Progress
  <2> QED BY <2>2, <2>3
<1>16. CASE NodeInject(i)
  <2>1. /\ i \in wire /\ pc[i] = "wait" /\ answer[i] = "none"
        /\ UNCHANGED <<pc, op, sim, out, lost>>
    BY <1>1, <1>2, <1>16 DEF NodeInject, client, Delivery, Progress
  <2>2. /\ Valid(op[i], node.counter, node.revealed)
        /\ node.pending = 0 /\ ~node.reveal /\ node.counter \in Nat
    BY <1>1, <2>1 DEF Progress, TypeOK
  <2>3. /\ node.counter + node.pending = node.counter
        /\ (node.revealed \/ node.reveal) = node.revealed
    BY <2>2 DEF TypeOK
  <2>4. answer'[i] = "hash"
    BY <1>16, <2>2, <2>3 DEF NodeInject, TypeOK
  <2> QED BY <1>1, <2>1, <2>4 DEF Progress, Managed
<1> QED BY <1>1, <1>3, <1>4, <1>5, <1>6, <1>7, <1>8, <1>a, <1>b, <1>9, <1>10,
     <1>11, <1>13, <1>14, <1>15, <1>16
     DEF Step, Timeout, BadAnswer

(* Alone on its account, with a node that answers and a branch that is     *)
(* still live, an operation whose simulation does not fail is always taken *)
(* and, unless its function has no case for the result, reported as such:  *)
(* the counters read, the reveal prepended and the branch are the ones the *)
(* node wants, whether or not the account was revealed before              *)
(* (get_next_counter, is_revealed, forge_deploy, forge_call, reveal,       *)
(* activate and inject_operation).                                         *)
THEOREM AloneSucceeds == Spec => []SoloSucceeds
<1> DEFINE I == TypeOK /\ DeliveryInv /\ SimulatedInv /\ LevelInv /\ SoloInv
<1>1. Init => TypeOK /\ DeliveryInv /\ SimulatedInv
  BY DEF Init, TypeOK, Stages, Outcomes, NoOp, DeliveryInv, Delivery, Reading,
         SimulatedInv, Simulated
<1>2. Init => LevelInv /\ SoloInv
  BY DeployAssumption DEF Init, LevelInv, SoloInv, Progress
<1>3. I /\ [Next]_vars => I'
  BY TypeStep, DeliveryStep, SimulatedStep, LevelStep, SoloStep
<1>4. I => SoloSucceeds
  BY DEF DeliveryInv, Delivery, SoloInv, SoloKinds, Progress, NoStorage,
         SoloSucceeds
<1> QED BY <1>1, <1>2, <1>3, <1>4, PTL DEF Spec

-----------------------------------------------------------------------------
(* Each theorem below says that the instructions a rule of simplify_step   *)
(* matches and those it puts in their place leave the same stack.          *)

(* The length of what each operation leaves, and that it is a stack.       *)
LEMMA DupType ==
  ASSUME NEW s \in Seq(Value), NEW n \in 1..Len(s)
  PROVE  /\ DupTop(s, n) \in Seq(Value)
         /\ Len(DupTop(s, n)) = Len(s) + 1
BY DEF DupTop

LEMMA DropType ==
  ASSUME NEW s \in Seq(Value), NEW n \in Nat, NEW m \in Nat, n + m <= Len(s)
  PROVE  /\ DropUnder(s, n, m) \in Seq(Value)
         /\ Len(DropUnder(s, n, m)) = Len(s) - m
BY DEF DropUnder

-----------------------------------------------------------------------------
(* Two drops at the same depth are one (DIP_DROP n; DIP_DROP n).           *)
THEOREM MergeDrops ==
  ASSUME NEW s \in Seq(Value), NEW n \in Nat, NEW m \in Nat, NEW p \in Nat,
         n + m + p <= Len(s)
  PROVE  DropUnder(DropUnder(s, n, m), n, p) = DropUnder(s, n, m + p)
BY DEF DropUnder

(* A drop below what was just pushed is done before it (0 -> 1); a drop    *)
(* that starts with it cancels the push.                                   *)
THEOREM PushCrossed ==
  ASSUME NEW s \in Seq(Value), NEW v \in Value, NEW n \in Nat, NEW m \in Nat,
         n + m <= Len(s) + 1
  PROVE  /\ n > 0 => DropUnder(PushTop(s, v), n, m)
                       = PushTop(DropUnder(s, n - 1, m), v)
         /\ n = 0 /\ m > 0 => DropUnder(PushTop(s, v), 0, m) = DropUnder(s, 0, m - 1)
<1>1. CASE n > 0
  BY <1>1 DEF DropUnder, PushTop
<1>2. CASE n = 0 /\ m > 0
  BY <1>2 DEF DropUnder, PushTop
<1> QED
  BY <1>1, <1>2

(* An instruction that takes any number of elements and gives one lets a   *)
(* drop below its result be done before it, deeper (1 -> 1, 2 -> 1, 3 -> 1:*)
(* Cross).  The value is the same: the elements it is computed from are    *)
(* not dropped.                                                            *)
THEOREM OperatorCrossed ==
  ASSUME NEW s \in Seq(Value), NEW v \in Value, NEW taken \in Nat \ {0},
         NEW n \in Nat \ {0}, NEW m \in Nat, n + m + taken <= Len(s) + 1
  PROVE  /\ DropUnder(Replace(s, taken, v), n, m)
              = Replace(DropUnder(s, n + taken - 1, m), taken, v)
         /\ \A k \in 1..taken : DropUnder(s, n + taken - 1, m)[k] = s[k]
BY DEF DropUnder, Replace

(* SWAP and a drop below both elements commute.                            *)
THEOREM SwapCrossed ==
  ASSUME NEW s \in Seq(Value), NEW n \in Nat, NEW m \in Nat,
         n > 1, n + m <= Len(s)
  PROVE  DropUnder(SwapTop(s), n, m) = SwapTop(DropUnder(s, n, m))
BY DEF DropUnder, SwapTop

(* What both branches of a conditional drop can be dropped before it,      *)
(* below the condition (StepIf).                                           *)
THEOREM BranchDropsCrossed ==
  ASSUME NEW s \in Seq(Value), NEW c \in Value, NEW n \in Nat, NEW m \in Nat,
         NEW least \in 0..m, n + m <= Len(s)
  PROVE  /\ DropTop(PushTop(s, c)) = s
         /\ DropTop(DropUnder(PushTop(s, c), n + 1, least)) = DropUnder(s, n, least)
         /\ DropUnder(DropUnder(s, n, least), n, m - least) = DropUnder(s, n, m)
<1>1. DropTop(PushTop(s, c)) = s
  BY DEF DropTop, DropUnder, PushTop
<1>2. DropTop(DropUnder(PushTop(s, c), n + 1, least)) = DropUnder(s, n, least)
  BY DEF DropTop, DropUnder, PushTop
<1>3. DropUnder(DropUnder(s, n, least), n, m - least) = DropUnder(s, n, m)
  BY MergeDrops
<1> QED
  BY <1>1, <1>2, <1>3

-----------------------------------------------------------------------------
(* StepDup: DUP n; DIP_DROP (m, p), by where the copied element is: above  *)
(* the dropped ones, below them, or among them.                            *)
THEOREM DupAbove ==
  ASSUME NEW s \in Seq(Value), NEW n \in 1..Len(s), NEW m \in Nat, NEW p \in Nat,
         n < m, m + p <= Len(s) + 1
  PROVE  DropUnder(DupTop(s, n), m, p) = DupTop(DropUnder(s, m - 1, p), n)
BY DEF DropUnder, DupTop

THEOREM DupBelow ==
  ASSUME NEW s \in Seq(Value), NEW n \in 1..Len(s), NEW m \in Nat \ {0},
         NEW p \in Nat, n >= m + p
  PROVE  DropUnder(DupTop(s, n), m, p) = DupTop(DropUnder(s, m - 1, p), n - p)
BY DEF DropUnder, DupTop

THEOREM DupAmong ==
  ASSUME NEW s \in Seq(Value), NEW m \in Nat \ {0}, NEW x \in Nat, NEW y \in Nat,
         m + x + y <= Len(s)
  PROVE  DropUnder(DupTop(s, m + x), m, x + y + 1)
           = DropUnder(DupTop(DropUnder(DropUnder(s, m - 1, x), m, y), m), m, 1)
<1>1. DropUnder(DropUnder(s, m - 1, x), m, y)
        = [k \in 1..(Len(s) - x - y) |-> IF k < m THEN s[k]
             ELSE IF k = m THEN s[m + x] ELSE s[k + x + y]]
  BY DEF DropUnder
<1>2. DropUnder(DupTop(s, m + x), m, x + y + 1)
        = [k \in 1..(Len(s) - x - y) |-> IF k = 1 THEN s[m + x]
             ELSE IF k <= m THEN s[k - 1] ELSE s[k + x + y]]
  BY DEF DropUnder, DupTop
<1>3. DupTop([k \in 1..(Len(s) - x - y) |-> IF k < m THEN s[k]
                ELSE IF k = m THEN s[m + x] ELSE s[k + x + y]], m)
        = [k \in 1..(Len(s) - x - y + 1) |-> IF k = 1 THEN s[m + x]
             ELSE IF k - 1 < m THEN s[k - 1]
             ELSE IF k - 1 = m THEN s[m + x] ELSE s[k - 1 + x + y]]
  BY DEF DupTop
<1> DEFINE copied == [k \in 1..(Len(s) - x - y + 1) |-> IF k = 1 THEN s[m + x]
                        ELSE IF k - 1 < m THEN s[k - 1]
                        ELSE IF k - 1 = m THEN s[m + x] ELSE s[k - 1 + x + y]]
           dropped == [k \in 1..(Len(s) - x - y) |-> IF k = 1 THEN s[m + x]
                         ELSE IF k <= m THEN s[k - 1] ELSE s[k + x + y]]
<1>4. DropUnder(copied, m, 1) = dropped
  <2>1. /\ Len(s) - x - y \in Nat
        /\ Len(copied) = Len(s) - x - y + 1
    OBVIOUS
  <2>2. DropUnder(copied, m, 1)
          = [k \in 1..(Len(s) - x - y) |-> IF k <= m THEN copied[k] ELSE copied[k + 1]]
    BY <2>1 DEF DropUnder
  <2>3. ASSUME NEW k \in 1..(Len(s) - x - y)
        PROVE  (IF k <= m THEN copied[k] ELSE copied[k + 1]) = dropped[k]
    <3>1. CASE k <= m
      BY <2>1, <3>1
    <3>2. CASE k > m
      BY <2>1, <3>2
    <3> QED
      BY <3>1, <3>2
  <2> HIDE DEF copied
  <2> QED
    BY <2>2, <2>3
<1> QED
  BY <1>1, <1>2, <1>3, <1>4

(* The special cases of StepDupDipDrop and the rules of DUP before SWAP    *)
(* and DROP, where the copy turns out to be a move or to be useless.       *)
THEOREM DupMoves ==
  ASSUME NEW s \in Seq(Value), Len(s) >= 3
  PROVE  /\ DropUnder(DupTop(s, 1), 1, 1) = s
         /\ DropUnder(DupTop(s, 2), 1, 1) = DupTop(DropTop(s), 1)
         /\ DropUnder(DupTop(s, 2), 1, 2) = DropTop(s)
         /\ DropUnder(DupTop(s, 2), 2, 1) = SwapTop(s)
         /\ DropUnder(DupTop(s, 3), 2, 2) = SwapTop(DropTop(SwapTop(s)))
         /\ DropTop(SwapTop(DupTop(s, 1))) = s
         /\ DropTop(SwapTop(DupTop(s, 2))) = DupTop(DropTop(s), 1)
         /\ \A n \in 1..Len(s) : DropTop(DupTop(s, n)) = s
<1>1. DropUnder(DupTop(s, 1), 1, 1) = s
  BY DEF DropUnder, DupTop
<1>2. DropUnder(DupTop(s, 2), 1, 1) = DupTop(DropTop(s), 1)
  BY DEF DropTop, DropUnder, DupTop
<1>3. DropUnder(DupTop(s, 2), 1, 2) = DropTop(s)
  BY DEF DropTop, DropUnder, DupTop
<1>4. DropUnder(DupTop(s, 2), 2, 1) = SwapTop(s)
  BY DEF DropUnder, DupTop, SwapTop
<1>5. DropUnder(DupTop(s, 3), 2, 2) = SwapTop(DropTop(SwapTop(s)))
  BY DEF DropTop, DropUnder, DupTop, SwapTop
<1>6. DropTop(SwapTop(DupTop(s, 1))) = s
  BY DEF DropTop, DropUnder, DupTop, SwapTop
<1>7. DropTop(SwapTop(DupTop(s, 2))) = DupTop(DropTop(s), 1)
  BY DEF DropTop, DropUnder, DupTop, SwapTop
<1>8. \A n \in 1..Len(s) : DropTop(DupTop(s, n)) = s
  BY DEF DropTop, DropUnder, DupTop
<1> QED
  BY <1>1, <1>2, <1>3, <1>4, <1>5, <1>6, <1>7, <1>8
=============================================================================
