------------------------------- MODULE MCNaCl -------------------------------
(***************************************************************************)
(* tweetnacl.c on small numbers: fields of two limbs of a byte of four     *)
(* bits, in which the prime is 2^15 - 19, a Montgomery curve and an        *)
(* Edwards curve over it, and digits below 16.  An initial state is one    *)
(* set of arguments of one function, the only step calls it.               *)
(***************************************************************************)
EXTENDS Ed25519Calls, SecretBox, Sha512

Lb(n) == <<n % 256, n \div 256>>
Nibbles(n) == [j \in 1..4 |-> (n \div 16^(j - 1)) % 16]
Constant(x, n) == [j \in 1..n |-> x]
Counting(n) == [j \in 1..n |-> (7 * j + j \div 16) % 16]

(* A hash that tells apart what the tests compare. *)
Mix(seed, bytes) ==
  LET s[i \in 0..Len(bytes)] ==
        IF i = 0 THEN seed
        ELSE (s[i - 1] * 171 + bytes[i] * 7919 + 13849) % 65521
  IN  s[Len(bytes)]
MCHash(bytes) ==
  LET a == Mix(1, bytes) IN Nibbles(a) \o Nibbles(Mix(a, bytes))
MCCore(in, k) ==
  LET a == Mix(7, in \o k)
  IN  MCHash(<<a % 16>> \o in) \o Nibbles(Mix(a, k))

(* The constants of the curves, as limbs; the orders of the base points    *)
(* are 4111 and 8 times a prime.                                           *)
MCA24 == Lb(313)
MCD == Lb(40)
MCD2 == Lb(80)
MCX == Lb(24949)
MCY == Lb(3950)
MCI == Lb(15645)
MCL == <<15, 0, 0, 1>>
NinePoint == <<9, 4521>>       \* of the Montgomery curve

(* Three limbs of two bytes: a limb that is neither the first nor the      *)
(* last.  No prime is needed for sums and products.                        *)
F == INSTANCE Field25519 WITH LIMBS <- 3

(* The state is the blocks that were hashed. *)
MCiv == <<>>
Concatenated(z, bytes) == z \o SubSeq(bytes, 1, 8 * (Len(bytes) \div 8))

(* What the proofs rest on. *)
ASSUME F!FieldAssumption
ASSUME CurveAssumption /\ OrderAssumption
ASSUME PrimeAssumption
ASSUME CurveCallsAssumption
ASSUME BoxAssumption /\ MacAssumption /\ BoxCallsAssumption
ASSUME Sha512Assumption /\ MessagesAssumption

(* The law of addition on a sample: multiples of the base point, and       *)
(* points of order two, four and others.                                   *)
SampledPoints ==
  {EdwardsMultiple(n, BasePoint) : n \in {0, 1, 2, 5, 2056, 4110}}
    \cup {<<0, P - 1>>, <<15645, 0>>, <<P - 15645, 0>>}
ASSUME IsGroup(SampledPoints)
ASSUME OnCurve(BasePoint) /\ EdwardsMultiple(Order, BasePoint) = <<0, 1>>

-----------------------------------------------------------------------------
(* The arguments. *)

(* Limbs that are negative, need one carry or two, or meet the prime. *)
BoundaryLimbs == {-588, -256, -1, 0, 1, 127, 128, 237, 255, 256, 588}
BoundaryElements == {<<a, b, c>> : a, b, c \in BoundaryLimbs}
OtherElements == {<<a, 255, c>> : a, c \in {-588, 0, 1, 237, 588}}

(* Strings for numbers up to two bits beyond the prime. *)
Edges == 0..4 \cup 32738..32772 \cup 65530..65535
Numbers == Edges \cup {4369 * i + 8 : i \in 0..14}

MessagesOf(lengths) == {Counting(l) : l \in lengths}
OpenedParts == {Nibbles(n) : n \in {0, 1, 2, 32748, 32749, 32750, 32768, 3950,
                                    36718}}
Seeds == {<<1, 2, 3, 4>>, <<0, 0, 0, 0>>, <<15, 15, 15, 15>>}

(* Blocks whose sum comes close to the prime, on both sides of it. *)
NearPrime(t) == <<15 - t, 15, 15, 15, 15>>
MacMessages ==
  MessagesOf(0..12)
    \cup {NearPrime(t) \o Constant(15, 10) : t \in 0..6}
    \cup {NearPrime(t) \o Constant(15, 15) : t \in 0..6}
MacKeys == {<<1, 0, 0, 0, 0>> \o Constant(x, 5) : x \in {0, 9, 15}}
             \cup {Constant(15, 10), Counting(10)}

Nonce == <<1, 2, 3, 4, 5, 6>>
MCBoxCalls ==
  {[of |-> "stream", m |-> Counting(l), n |-> Nonce, k |-> Counting(5)] :
     l \in 0..40 \cup {191, 192, 193, 203, 204, 205, 217}}
    \cup {[of |-> "mac", m |-> m, k |-> k] : m \in MacMessages, k \in MacKeys}

MCMessages == MessagesOf(0..70)

MCCurveCalls ==
  {[of |-> f, n |-> Nibbles(n)] : f \in {"inverse", "multiple"},
                                  n \in Numbers}
    \cup {[of |-> "point", n |-> Nibbles(n)] : n \in Edges \cup 0..100}
    \cup {[of |-> "modL",
           x |-> Constant(high, 2) \o Nibbles(n) \o <<high, 3>>] :
            high \in {0, 1, 240, 255, 900}, n \in Numbers}
    \cup {[of |-> "sign", seed |-> seed, m |-> m, left |-> Constant(7, 11)] :
            seed \in Seeds, m \in MessagesOf({0, 1, 3})}
    \cup {[of |-> "open", sm |-> R \o Nibbles(s) \o <<5>>, pk |-> pk,
           left |-> Constant(7, 9)] :
            R, pk \in OpenedParts, s \in {0, 1, Order, 40000}}
    \cup {[of |-> "open", sm |-> Counting(7), pk |-> pk,
           left |-> Constant(7, 9)] : pk \in OpenedParts}

TestInit ==
  \/ CurveInit
  \/ BoxInit
  \/ Sha512Init
  \/ /\ result = NotCalled
     /\ \/ \E a \in BoundaryElements, b \in OtherElements :
             test = [of |-> "field", a |-> a, b |-> b]
        \/ \E n \in Numbers, m \in 0..5 :
             test = [of |-> "ladder", secret |-> Nibbles(n), multiple |-> m]
        \/ \E a, b \in {8, 9, 5000, 65535}, l \in {0, 1, 7, 15} :
             test = [of |-> "box", a |-> Nibbles(a), b |-> Nibbles(b),
                     m |-> Constant(0, 10) \o Counting(l)]

-----------------------------------------------------------------------------
(* The calls that no theorem is about. *)

Field ==
  LET limbs == [sum |-> F!A(test.a, test.b), difference |-> F!Z(test.a, test.b),
                product |-> F!M(test.a, test.b)]
  IN  Call("field", [bytes |-> [of \in DOMAIN limbs |-> F!pack25519(limbs[of])],
                     distinct |-> F!neq25519(test.a, test.b)])

(* The points are small multiples of the base point, with the highest bit  *)
(* set for odd ones.                                                       *)
PointBytes(m) ==
  LET x == FirstCoordinate(Multiple(m, NinePoint))
  IN  Nibbles(x + (IF m % 2 = 1 THEN 32768 ELSE 0))
Ladder ==
  Call("ladder", crypto_scalarmult(test.secret, PointBytes(test.multiple)))

Left(n) == Constant(7, n)

(* Both ends make a pair of keys; what one boxes the other opens. *)
OpenBoxes(c, a, b) ==
  [i \in {0} \cup 6..Len(c) |->
     crypto_box_open(Left(Len(c)), Forged(c, i), Nonce, a.public, b.secret)]
BoxAndOpen(a, b) ==
  OpenBoxes(crypto_box(test.m, Nonce, b.public, a.secret), a, b)
Boxes ==
  Call("box", BoxAndOpen(crypto_box_keypair(test.a),
                         crypto_box_keypair(test.b)))

TestNext ==
  CurveNext \/ BoxNext \/ Sha512Next \/ Field \/ Ladder \/ Boxes

-----------------------------------------------------------------------------
(* car25519 carries twice after a product and three times in pack25519,    *)
(* which subtracts the prime twice: whatever the limbs, negative ones and  *)
(* those above their size included, the bytes are those of the number      *)
(* below the prime, so that neq25519 may compare bytes.                    *)
FieldIsExact ==
  Returned("field") =>
    LET a == F!Element(test.a)
        b == F!Element(test.b)
        product == F!NumberMod([j \in 1..6 |-> a * F!Digits(b)[j]], F!P)
        exact == [sum |-> (a + b) % F!P, difference |-> (a - b) % F!P,
                  product |-> product]
    IN  result.is = [bytes |-> [of \in DOMAIN exact |-> F!Digits(exact[of])],
                     distinct |-> a # b]

(* The ladder, with its swaps and its clamped secret, is multiplication in *)
(* the group of the curve, also of the points of small order.              *)
LadderIsMultiplication ==
  Returned("ladder") =>
    LET n == 16384 + 8 * ((NumberMod(test.secret, 65536) % 16384) \div 8)
        product == Multiple(n, Multiple(test.multiple, NinePoint))
    IN  result.is = Digits(FirstCoordinate(product))

(* The two ends of crypto_box come to the same key: what one boxed, the    *)
(* other opens.  A box with a byte changed is refused before anything is   *)
(* written to the output.                                                  *)
BoxOpens ==
  Returned("box") =>
    \A i \in DOMAIN result.is :
      result.is[i] = IF i = 0 THEN [valid |-> TRUE, m |-> test.m]
                     ELSE [valid |-> FALSE, m |-> Left(Len(test.m))]
=============================================================================
