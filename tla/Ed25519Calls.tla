---------------------------- MODULE Ed25519Calls ----------------------------
(***************************************************************************)
(* The calls of the arithmetic of tweetnacl.c and of its signatures, what  *)
(* they are to return, and what the proofs of that rest on.                *)
(***************************************************************************)
EXTENDS Ed25519, Calls

CONSTANT CurveCalls     \* the calls, with their arguments

(* The number of some bytes, and the one that unpack25519 makes of them.   *)
NumberOf(bytes) == NumberMod(bytes, PowersOf(BYTE)[Len(bytes)])
FieldNumber(bytes) == NumberMod(bytes, P + 19) % P

-----------------------------------------------------------------------------
(* The calls. *)

Inverted(x) ==
  [inverse |-> pack25519(inv25519(x)), root |-> pack25519(pow2523(x))]
Invert == Call("inverse", Inverted(unpack25519(test.n)))

Point == Call("point", unpackneg(test.n))
MultipleOfBase == Call("multiple", pack(scalarbase(test.n)))
ModL == Call("modL", modL(test.x))

(* A message is signed, opened, and opened with each byte changed: the     *)
(* result is a function of that byte, 0 for none.                          *)
Forged(bytes, i) ==
  [j \in DOMAIN bytes |-> IF j = i THEN (bytes[j] + 1) % BYTE ELSE bytes[j]]
OpenEach(m, sm, pk) ==
  [i \in 0..Len(sm) |-> crypto_sign_open(m, Forged(sm, i), pk)]
SignAndOpen(m, keys) ==
  OpenEach(test.left, crypto_sign(m, keys.secret), keys.public)
Sign == Call("sign", SignAndOpen(test.m, crypto_sign_keypair(test.seed)))

Open == Call("open", crypto_sign_open(test.left, test.sm, test.pk))

CurveInit == CallOneOf(CurveCalls)
CurveNext == Invert \/ Point \/ MultipleOfBase \/ ModL \/ Sign \/ Open
CurveSpec == CurveInit /\ [][CurveNext]_nvars

-----------------------------------------------------------------------------
(* What they return. *)

(* inv25519 and pow2523 skip the right bits of their exponents: an inverse *)
(* for every number but zero, and the power unpackneg takes roots with.    *)
InverseIsInverse ==
  Returned("inverse") =>
    LET x == FieldNumber(test.n)
        y == NumberOf(result.is.inverse)
    IN  /\ y < P
        /\ IF x = 0 THEN y = 0 ELSE (x * y) % P = 1
        /\ result.is.root = Digits(Exp(x, (P - 5) \div 8))

(* unpackneg refuses the bytes that belong to no point of the curve, and   *)
(* only those; of the others it returns the negative of the point, though  *)
(* the bytes may stand for a number above the prime.                       *)
PointsDecode ==
  Returned("point") =>
    LET y == FieldNumber(test.n)
        p == result.is
        q == Affine(p)
    IN  IF p = NoPoint THEN \A x \in 0..(P - 1) : ~OnCurve(<<x, y>>)
        ELSE /\ q[2] = y
             /\ OnCurve(q)
             /\ q[1] = 0 \/ q[1] % 2 # test.n[BYTES] \div (BYTE \div 2)
             /\ (Element(p[3]) * Element(p[4])) % P
                  = (Element(p[1]) * Element(p[2])) % P

(* The points of the steps of scalarmult may be equal, neutral or opposite *)
(* ones: the one addition formula does for all of them.                    *)
ScalarIsMultiplication ==
  Returned("multiple") =>
    result.is = EncodingOf(EdwardsMultiple(NumberOf(test.n), BasePoint))

(* modL borrows between digits that are too large or negative on the way,  *)
(* and ends with the remainder.                                            *)
ModLIsRemainder ==
  Returned("modL") => result.is = Digits(ValueMod(test.x, BYTE, Order))

(* What was signed opens, to the same message. *)
SignatureOpens ==
  Returned("sign") =>
    LET opened == result.is[0]
    IN  opened.valid /\ SubSeq(opened.m, 1, Len(test.m)) = test.m

(* With any byte changed, of the signature or of the message, it does not, *)
(* and zeros are left where the message would have been.                   *)
ForgeriesRefused ==
  Returned("sign") =>
    \A i \in DOMAIN result.is \ {0} :
      /\ ~result.is[i].valid
      /\ SubSeq(result.is[i].m, 1, Len(test.m)) = Repeat(0, Len(test.m))

(* crypto_sign_open accepts exactly the strings that satisfy the equation  *)
(* of the signature, s B = R + h A, with R in its only encoding; it clears *)
(* the message of the others, and leaves alone what it was given for a     *)
(* string that is too short and for a key that is no point.                *)
IsOpening(opened, left, sm, pk) ==
  LET R == Prefix(sm)
      message == Drop(sm, 2 * BYTES)
      negA == unpackneg(pk)
      h == ValueMod(Hash(R \o pk \o message), BYTE, Order)
      s == NumberOf(Prefix(Suffix(sm)))
      t == EdwardsSum(EdwardsMultiple(h, Affine(negA)),
                      EdwardsMultiple(s, BasePoint))
  IN  IF Len(sm) < 2 * BYTES \/ negA = NoPoint
      THEN opened = [valid |-> FALSE, m |-> left]
      ELSE /\ opened.valid <=> R = EncodingOf(t)
           /\ SubSeq(opened.m, 1, Len(message))
                = IF opened.valid THEN message ELSE Repeat(0, Len(message))

OpensIffEquation ==
  Returned("open") => IsOpening(result.is, test.left, test.sm, test.pk)

-----------------------------------------------------------------------------
(* What the proofs rest on. *)

(* The arguments: numbers of BYTES bytes, the larger bytes that modL is    *)
(* given, and strings of any length.                                       *)
Scalar == [1..BYTES -> 0..(BYTE - 1)]
Strings == Seq(0..(BYTE - 1))
CurveCallsAssumption ==
  \A c \in CurveCalls :
    \/ c.of \in {"inverse", "point", "multiple"} /\ c.n \in Scalar
    \/ c.of = "modL" /\ c.x \in [1..(2 * BYTES) -> 0..MOST]
    \/ /\ c.of = "sign"
       /\ c.seed \in Scalar /\ {c.m, c.left} \subseteq Strings
    \/ /\ c.of = "open"
       /\ c.pk \in Scalar /\ {c.sm, c.left} \subseteq Strings

(* Fermat's theorem, which is all that is used of P being a prime.         *)
PrimeAssumption == \A x \in 1..(P - 1) : Exp(x, P - 1) = 1

(* The law of addition is defined for all of the points, and they are a    *)
(* group with it.                                                          *)
Negated(u) == <<(P - u[1]) % P, u[2]>>
IsGroup(points) ==
  \A p, q, r \in points :
    /\ IsSum(p, q, EdwardsSum(p, q)) /\ OnCurve(EdwardsSum(p, q))
    /\ EdwardsSum(p, q) = EdwardsSum(q, p)
    /\ EdwardsSum(EdwardsSum(p, q), r) = EdwardsSum(p, EdwardsSum(q, r))
    /\ EdwardsSum(<<0, 1>>, p) = p
    /\ EdwardsSum(p, Negated(p)) = <<0, 1>>
=============================================================================
