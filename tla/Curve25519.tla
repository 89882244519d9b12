----------------------------- MODULE Curve25519 -----------------------------
(***************************************************************************)
(* crypto_scalarmult of tweetnacl.c: the Montgomery ladder on the first    *)
(* coordinate of the points of y^2 = x^3 + (4 a24 + 2) x^2 + x.            *)
(***************************************************************************)
EXTENDS Field25519

CONSTANT A24      \* _121665 in the code, as limbs

Nine == <<9>> \o Repeat(0, BYTES - 1)

Bit(bytes, i) ==
  (bytes[(i \div BYTEBITS) + 1] \div PowersOf(2)[i % BYTEBITS]) % 2

(* Mutant of Clamp: the highest bit is not set. *)
ClampLow(n) ==
  LET Byte(j) == IF j = BYTES THEN n[j] % (BYTE \div 4)
                 ELSE IF j = 1 THEN 8 * (n[j] \div 8)
                 ELSE n[j]
  IN  Array(BYTES, Byte)

(* n[31] & 127 | 64 and n[0] & 248, also of the secret keys of Ed25519. *)
Clamp(n) ==
  LET Byte(j) == IF j = BYTES THEN (n[j] % (BYTE \div 4)) + BYTE \div 4
                 ELSE IF j = 1 THEN 8 * (n[j] \div 8)
                 ELSE n[j]
  IN  Array(BYTES, Byte)

(* One turn of the loop: the registers a, b, c, d are swapped round it.    *)
Swapped(regs, r) ==
  sel25519(regs[1], regs[2], r) \o sel25519(regs[3], regs[4], r)

Products(ee, aa, da, cb, x) ==
  <<M(ee, aa), S(A(da, cb)),
    M(Z(ee, aa), A(M(Z(ee, aa), A24), ee)), M(S(Z(da, cb)), x)>>
SumsAndProducts(e, a, f, b, x) == Products(S(e), S(a), M(f, a), M(b, e), x)
Doubling(regs, x) ==
  SumsAndProducts(A(regs[1], regs[3]), Z(regs[1], regs[3]),
                  A(regs[2], regs[4]), Z(regs[2], regs[4]), x)

LadderStep(regs, x, r) == Swapped(Doubling(Swapped(regs, r), x), r)

Quotient(regs) == pack25519(M(regs[1], inv25519(regs[3])))

crypto_scalarmult(n, p) ==
  LET z == Clamp(n)
      x == unpack25519(p)
      Turn(regs, k) == LadderStep(regs, x, Bit(z, BITS - 1 - k))
  IN  Quotient(Loop([1..4 -> gf], Turn, <<gf1, x, gf0, gf1>>, BITS - 1))

crypto_scalarmult_base(n) == crypto_scalarmult(n, Nine)

(* crypto_box_keypair, of the random bytes it drew. *)
crypto_box_keypair(random) ==
  [public |-> crypto_scalarmult_base(random), secret |-> random]

-----------------------------------------------------------------------------
(* Multiplication in the group of the curve, by the chord and the tangent. *)

Infinity == <<>>

CurveA == 4 * Element(A24) + 2
OnLine(p, l, x) == <<x, (l * ((p[1] - x) % P) - p[2]) % P>>
Third(p, q, l) == OnLine(p, l, (l * l - CurveA - p[1] - q[1]) % P)

SumOn(p, q) ==
  IF p = Infinity THEN q
  ELSE IF q = Infinity THEN p
  ELSE IF p[1] = q[1] /\ (p[2] + q[2]) % P = 0 THEN Infinity
  ELSE LET slope == IF p = q
                    THEN (((3 * p[1]) % P) * p[1] + ((2 * CurveA) % P) * p[1] + 1) % P
                    ELSE (q[2] - p[2]) % P
           under == IF p = q THEN (2 * p[2]) % P ELSE (q[1] - p[1]) % P
       IN  Third(p, q, (slope * Reciprocal(under)) % P)

Twice(p) == SumOn(p, p)
Multiple(n, point) ==
  LET m[k \in 0..n] ==
        IF k = 0 THEN Infinity
        ELSE IF k % 2 = 1 THEN SumOn(Twice(m[k \div 2]), point)
        ELSE Twice(m[k \div 2])
  IN  m[n]

FirstCoordinate(point) == IF point = Infinity THEN 0 ELSE point[1]
=============================================================================
