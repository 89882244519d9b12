------------------------------ MODULE Ed25519 ------------------------------
(***************************************************************************)
(* crypto_sign and crypto_sign_open of tweetnacl.c: signatures over the    *)
(* twisted Edwards curve -x^2 + y^2 = 1 + d x^2 y^2, with crypto_hash      *)
(* uninterpreted.  A string of 32 bytes has BYTES bytes here, and a point  *)
(* is its four coordinates as limbs.                                       *)
(***************************************************************************)
EXTENDS Curve25519

CONSTANTS
  D, D2,        \* d and 2 d, as limbs
  X, Y,         \* the base point
  I,            \* a square root of -1
  L,            \* the order of the base point, as bytes
  SPAN,         \* the bytes modL touches for each one it takes away: 20
  Hash(_)       \* crypto_hash: 2 * BYTES bytes

Prefix(bytes) == Take(bytes, BYTES)
Suffix(bytes) == Drop(bytes, BYTES)

-----------------------------------------------------------------------------
(* Points. *)

Neutral == <<gf0, gf1, gf1, gf0>>
Base == <<X, Y, gf1, M(X, Y)>>

(* a, b, c, d and then e, f, g, h of the code. *)
Completed(e, f, g, h) == <<M(e, f), M(h, g), M(g, f), M(e, h)>>
SumOfProducts(a, b, c, d) == Completed(Z(b, a), Z(d, c), A(d, c), A(b, a))
Doubled(d) == A(d, d)
add(p, q) ==
  SumOfProducts(M(Z(p[2], p[1]), Z(q[2], q[1])),
                M(A(p[1], p[2]), A(q[1], q[2])),
                M(M(p[4], q[4]), D2), Doubled(M(p[3], q[3])))

cswap(p, q, b) == sel25519(p, q, b)

(* Mutant of ScalarStep: the points are not swapped back.                  *)
ScalarStepUnswapped(pair, b) ==
  LET in == cswap(pair[1], pair[2], b)
  IN  <<add(in[1], in[1]), add(in[2], in[1])>>

(* The two points are swapped round the step on a bit that is one. *)
ScalarStep(pair, b) ==
  LET in == cswap(pair[1], pair[2], b)
  IN  cswap(add(in[1], in[1]), add(in[2], in[1]), b)

scalarmult(q, s) ==
  LET Turn(pair, k) == ScalarStep(pair, Bit(s, BITS - k))
  IN  Loop([1..2 -> [1..4 -> gf]], Turn, <<Neutral, q>>, BITS)[1]

scalarbase(s) == scalarmult(Base, s)

(* Mutant of pack: without the parity.                                     *)
pack_y(p) == pack25519(M(p[2], inv25519(p[3])))

(* The second coordinate, and the parity of the first in its highest bit. *)
Packed(p, zi) ==
  [pack25519(M(p[2], zi)) EXCEPT
     ![BYTES] = (@ + par25519(M(p[1], zi)) * (BYTE \div 2)) % BYTE]
pack(p) == Packed(p, inv25519(p[3]))

NoPoint == <<>>

(* The negative of a packed point, or NoPoint if no point has these bytes. *)
Times3(x, den) == M(M(M(x, den), den), den)
Sixth(den2) == M(S(den2), den2)
Candidate(num, den) ==
  Times3(M(pow2523(M(M(Sixth(S(den)), num), den)), num), den)
Wrong(x, num, den) == neq25519(M(S(x), den), num)
OrOther(x, num, den) == IF Wrong(x, num, den) THEN M(x, I) ELSE x
AtParity(x, parity) == IF par25519(x) = parity THEN Z(gf0, x) ELSE x
PointOf(x, y) == <<x, y, gf1, M(x, y)>>

FromRoot(x, y, num, den, parity) ==
  IF Wrong(x, num, den) THEN NoPoint ELSE PointOf(AtParity(x, parity), y)
FromRatio(y, num, den, parity) ==
  FromRoot(OrOther(Candidate(num, den), num, den), y, num, den, parity)
FromSquare(y, yy, parity) ==
  FromRatio(y, Z(yy, gf1), A(gf1, M(yy, D)), parity)
FromSecond(y, parity) == FromSquare(y, S(y), parity)
unpackneg(bytes) ==
  FromSecond(unpack25519(bytes), bytes[BYTES] \div (BYTE \div 2))

-----------------------------------------------------------------------------
(* Numbers modulo the order L, the bytes of x being numbers of any size.   *)

Long == [1..(2 * BYTES) -> Int]
Times == BYTE \div L[BYTES]        \* 16

(* The byte x[i] is taken away by subtracting a multiple of L below it:    *)
(* one byte of L, and the carry from the one before.                       *)
Borrow(s, j, low, top) ==
  LET v == s.x[low + j] + s.carry - Times * top * L[j]
      carry == (v + BYTE \div 2) \div BYTE
  IN  [x |-> [s.x EXCEPT ![low + j] = v - carry * BYTE], carry |-> carry]

TakeAway(x, i) ==
  LET low == i - BYTES - 1
      Turn(s, j) == Borrow(s, j, low, x[i])
      last == Loop([x : Long, carry : Int], Turn, [x |-> x, carry |-> 0], SPAN)
  IN  [last.x EXCEPT ![low + SPAN + 1] = @ + last.carry, ![i] = 0]

Low(x) == SubSeq(x, 1, BYTES)
Taken(x0) ==
  LET Turn(x, k) == TakeAway(x, 2 * BYTES + 1 - k)
  IN  Low(Loop(Long, Turn, x0, BYTES))

(* A multiple of L is subtracted, the carries are added to the next byte.  *)
Less(x, times) ==
  LET v[j \in 1..BYTES] ==
        x[j] - times * L[j] + (IF j = 1 THEN 0 ELSE v[j - 1] \div BYTE)
  IN  Array(BYTES, LAMBDA j : v[j])
InBytes(v) == Array(BYTES, LAMBDA j : v[j] % BYTE)

LessTop(x) == Less(x, x[BYTES] \div L[BYTES])
AddedBack(v) == Less(InBytes(v), v[BYTES] \div BYTE)

(* Mutant of modL: a remainder that became negative stays so.              *)
modL_without_adding_back(x0) == InBytes(LessTop(Taken(x0)))

(* What is left above L is subtracted, and added back if that was too much. *)
modL(x0) == InBytes(AddedBack(LessTop(Taken(x0))))

reduce(r) == modL(r)

(* A byte of h d, which may be too large. *)
ProductByte(h, d, k) ==
  SumTo([i \in 1..BYTES |-> IF k - i + 1 \in 1..BYTES
                            THEN h[i] * d[k - i + 1] ELSE 0], BYTES)

(* Mutant of MultiplyAdd: forgets r.                                       *)
MultiplyOnly(r, h, d) == Array(2 * BYTES, LAMBDA k : ProductByte(h, d, k))

(* r + h d, as bytes that may be too large. *)
MultiplyAdd(r, h, d) ==
  Array(2 * BYTES,
        LAMBDA k : (IF k <= BYTES THEN r[k] ELSE 0) + ProductByte(h, d, k))

-----------------------------------------------------------------------------
(* The order as a number: a large byte far above the others. *)

LowOrder == SumTo([k \in 1..SPAN |-> L[k] * PowersOf(BYTE)[k - 1]], SPAN)
Order == LowOrder + L[BYTES] * PowersOf(BYTE)[BYTES - 1]

(* The largest byte that modL is given, by MultiplyAdd; a byte is taken    *)
(* away when it is twice that at most; and the largest that is left where  *)
(* only the last carry came to a byte that had been carried before.        *)
MOST == BYTES * (BYTE - 1) * (BYTE - 1) + BYTE - 1
TAKEN == MOST + Times * LowOrder * 2 * MOST
LEFT == BYTE \div 2 + 2 + TAKEN \div PowersOf(BYTE)[SPAN]

(* What the proofs rest on: that what is subtracted below a byte leaves    *)
(* little in the carry that comes out of the SPAN bytes.                   *)
OrderAssumption ==
  LET p == PowersOf(BYTE)[BYTES - 1]
      q == PowersOf(BYTE)[SPAN]
  IN  /\ BYTE \in Nat /\ BYTE > 1 /\ BYTE % 2 = 0 /\ LIMBS \in Nat
      /\ SPAN \in 1..(BYTES - 1)
      /\ L \in [1..BYTES -> 0..(BYTE - 1)]
      /\ L[BYTES] > 0 /\ BYTE % L[BYTES] = 0
      /\ \A k \in (SPAN + 1)..(BYTES - 1) : L[k] = 0
      /\ (BYTES * (BYTE - 1) + 2) * q + Times * LowOrder * MOST <= MOST * q
      /\ LEFT <= 2 * MOST
      /\ (BYTE \div 2) * q + LEFT * (p - q) + (BYTE - 1) * LEFT * LowOrder
           <= (BYTE - 1) * p

-----------------------------------------------------------------------------
(* Keys and signatures. *)

(* The hash of the seed: the secret number, and the secret prefix. *)
Expanded(seed) ==
  LET d == Hash(seed) IN Clamp(Prefix(d)) \o Suffix(d)

KeyPair(seed, pk) == [public |-> pk, secret |-> seed \o pk]
crypto_sign_keypair(seed) ==
  KeyPair(seed, pack(scalarbase(Prefix(Expanded(seed)))))

SignedMessage(m, sk, d, r, R) ==
  R \o modL(MultiplyAdd(r, reduce(Hash(R \o Suffix(sk) \o m)), Prefix(d))) \o m
SignedAt(m, sk, d, r) == SignedMessage(m, sk, d, r, pack(scalarbase(r)))
SignedBy(m, sk, d) == SignedAt(m, sk, d, reduce(Hash(Suffix(d) \o m)))
crypto_sign(m, sk) == SignedBy(m, sk, Expanded(Prefix(sk)))

(* What crypto_sign_open leaves in its output: nothing, as m was, if it    *)
(* returns before it copies the message there; else the message, or zeros  *)
(* for as many bytes, with the rest of what it hashed behind them.         *)
OpenResult(valid, m) == [valid |-> valid, m |-> m]

(* Mutant of Verified: the message is there before it is known to be it.   *)
Verified_early(valid, m, sm, hashed) ==
  LET message == Drop(sm, 2 * BYTES)
  IN  OpenResult(valid, message \o Drop(hashed, Len(message))
                          \o Drop(m, Len(sm)))
Verified(valid, m, sm, hashed) ==
  LET message == Drop(sm, 2 * BYTES)
  IN  OpenResult(valid,
                 (IF valid THEN message ELSE Repeat(0, Len(message)))
                   \o Drop(hashed, Len(message)) \o Drop(m, Len(sm)))
HasPoint(sm, q, hashed) ==
  Prefix(sm) = pack(add(scalarmult(q, reduce(Hash(hashed))),
                        scalarbase(Prefix(Suffix(sm)))))
OpenedAt(m, sm, q, hashed) ==
  IF Len(sm) < 2 * BYTES \/ q = NoPoint THEN OpenResult(FALSE, m)
  ELSE Verified(HasPoint(sm, q, hashed), m, sm, hashed)
crypto_sign_open(m, sm, pk) ==
  OpenedAt(m, sm, unpackneg(pk), Prefix(sm) \o pk \o Drop(sm, 2 * BYTES))

-----------------------------------------------------------------------------
(* The group, on numbers modulo P: a point is its two coordinates. *)

Affine(p) ==
  LET zi == Reciprocal(Element(p[3]))
  IN  <<(Element(p[1]) * zi) % P, (Element(p[2]) * zi) % P>>

OnCurve(point) ==
  LET xx == (point[1] * point[1]) % P
      yy == (point[2] * point[2]) % P
  IN  (yy - xx) % P = (1 + ((Element(D) * xx) % P) * yy) % P

(* x1 y2 + x2 y1, y1 y2 + x1 x2 and d x1 x2 y1 y2 of the addition law.     *)
Cross(p, q) == (((p[1] * q[2]) % P) + ((q[1] * p[2]) % P)) % P
DirectSum(p, q) == (((p[2] * q[2]) % P) + ((p[1] * q[1]) % P)) % P
Mixed(p, q) ==
  LET k == (((Element(D) * p[1]) % P) * q[1]) % P
  IN  (((k * p[2]) % P) * q[2]) % P

EdwardsSum(p, q) ==
  <<(Cross(p, q) * Reciprocal((1 + Mixed(p, q)) % P)) % P,
    (DirectSum(p, q) * Reciprocal((1 - Mixed(p, q)) % P)) % P>>

(* The same without dividing: neither denominator of the sum r is zero.    *)
IsSum(p, q, r) ==
  LET plus == (1 + Mixed(p, q)) % P
      minus == (1 - Mixed(p, q)) % P
  IN  /\ plus # 0 /\ (r[1] * plus) % P = Cross(p, q)
      /\ minus # 0 /\ (r[2] * minus) % P = DirectSum(p, q)

EdwardsTwice(p) == EdwardsSum(p, p)
EdwardsMultiple(n, point) ==
  LET m[k \in 0..n] ==
        IF k = 0 THEN <<0, 1>>
        ELSE IF k % 2 = 1 THEN EdwardsSum(EdwardsTwice(m[k \div 2]), point)
        ELSE EdwardsTwice(m[k \div 2])
  IN  m[n]

(* What the proofs rest on, of the constants of the curve: limbs that are  *)
(* carried, 2 d, a square root of -1, and that d is not -1.                *)
CurveAssumption ==
  /\ {D, D2, X, Y, I} \subseteq [1..LIMBS -> 0..(RADIX - 1)]
  /\ Element(D2) = (2 * Element(D)) % P
  /\ (Element(I) * Element(I) + 1) % P = 0
  /\ (Element(D) + 1) % P # 0

(* The base point as a number, and the bytes of a point. *)
BasePoint == <<Element(X), Element(Y)>>
EncodingOf(point) ==
  LET r == Digits(point[2])
  IN  [r EXCEPT ![BYTES] = @ + (point[1] % 2) * (BYTE \div 2)]
=============================================================================
