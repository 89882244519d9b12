----------------------------- MODULE Field25519 -----------------------------
(***************************************************************************)
(* Arithmetic modulo 2^255 - 19 as tweetnacl.c does it: on LIMBS limbs     *)
(* that may be negative or too large until car25519 carries them.  With    *)
(* fewer and shorter limbs the prime is another one, which ends in the     *)
(* same bits.  The limb a[i] of the code is a[i + 1] here.                 *)
(***************************************************************************)
EXTENDS Buffers

CONSTANTS
  LIMBS,        \* 16 in the code
  BYTEBITS      \* the bits of a byte, 8 in the code: a limb has two bytes

BYTE  == 2^BYTEBITS
RADIX == BYTE * BYTE
TOP   == RADIX \div 2           \* the highest limb has a bit less
BYTES == 2 * LIMBS
BITS  == BYTES * BYTEBITS       \* 256

gf  == [1..LIMBS -> Int]
gf0 == Repeat(0, LIMBS)
gf1 == <<1>> \o Repeat(0, LIMBS - 1)

(* One limb is carried; the highest carries to the lowest, 38 times.       *)
Carry(o, i) ==
  LET c == o[i] \div RADIX
  IN  IF i < LIMBS
      THEN [o EXCEPT ![i] = @ % RADIX, ![i + 1] = @ + c]
      ELSE [o EXCEPT ![i] = @ % RADIX, ![1] = @ + 38 * c]

car25519(o) == Loop(gf, Carry, o, LIMBS)

(* The two are swapped when the bit is one. *)
sel25519(p, q, b) == IF b = 1 THEN <<q, p>> ELSE <<p, q>>

(* One turn of pack25519: the prime is subtracted unless that borrows. *)
SubtractPrime(t) ==
  LET least(i) == IF i = 1 THEN RADIX - 19
                  ELSE IF i = LIMBS THEN TOP - 1 ELSE RADIX - 1
      borrow(limb) == (limb \div RADIX) % 2
      m[i \in 1..LIMBS] ==
        t[i] - least(i) - (IF i = 1 THEN 0 ELSE borrow(m[i - 1]))
      reduced == Array(LIMBS, LAMBDA i : IF i = LIMBS THEN m[i]
                                         ELSE m[i] % RADIX)
  IN  sel25519(t, reduced, 1 - borrow(m[LIMBS]))[1]

BytesOf(t) ==
  Array(BYTES, LAMBDA j : IF j % 2 = 1 THEN t[(j + 1) \div 2] % BYTE
                          ELSE (t[j \div 2] \div BYTE) % BYTE)

(* Mutant of pack25519: carries once instead of three times.               *)
pack25519_carried_once(n) ==
  BytesOf(SubtractPrime(SubtractPrime(car25519(n))))

pack25519(n) ==
  BytesOf(SubtractPrime(SubtractPrime(car25519(car25519(car25519(n))))))

neq25519(a, b) == pack25519(a) # pack25519(b)

(* Mutant of par25519: the parity of the number before it is reduced.      *)
par25519_of_limb(a) == a[1] % 2

par25519(a) == pack25519(a)[1] % 2

(* The highest bit is no part of the number. *)
unpack25519(n) ==
  LET Limb(i) == n[2 * i - 1] + n[2 * i] * BYTE
  IN  Array(LIMBS, LAMBDA i : IF i = LIMBS THEN Limb(i) % TOP ELSE Limb(i))

A(a, b) == Array(LIMBS, LAMBDA i : a[i] + b[i])
Z(a, b) == Array(LIMBS, LAMBDA i : a[i] - b[i])

(* The product of the limbs, of which those too high come back 38 times. *)
Product(a, b) ==
  LET t(i) == SumTo([j \in 1..LIMBS |-> IF i - j + 1 \in 1..LIMBS
                                        THEN a[j] * b[i - j + 1] ELSE 0], LIMBS)
      Folded(i) == IF i < LIMBS THEN t(i) + 38 * t(i + LIMBS) ELSE t(i)
  IN  Array(LIMBS, Folded)

M(a, b) == car25519(car25519(Product(a, b)))
S(a) == M(a, a)

(* i to the power of a number whose bits are one but at skipped places. *)
Power(i, top, skipped) ==
  LET Turn(c, k) == IF top + 1 - k \in skipped THEN S(c) ELSE M(S(c), i)
  IN  Loop(gf, Turn, i, top + 1)

(* Mutant of inv25519: another bit is skipped.                             *)
inv25519_neighbour(i) == Power(i, BITS - 3, {3, 4})

inv25519(i) == Power(i, BITS - 3, {2, 4})
pow2523(i)  == Power(i, BITS - 6, {1})

-----------------------------------------------------------------------------
(* The numbers that the limbs stand for. *)

P == PowersOf(RADIX)[LIMBS] \div 2 - 19

(* The limbs of a product, and those of three that are added: M may be     *)
(* given them, and adding their products leaves limbs that are no larger   *)
(* than those that pack25519 may be given.                                 *)
SINGLE == RADIX + 38
LOOSE == 3 * SINGLE
LIMIT == (RADIX - 1) * (PowersOf(RADIX)[LIMBS] \div 38 - 1)

(* What the proofs rest on. *)
FieldAssumption ==
  /\ BYTEBITS \in Nat /\ BYTEBITS >= 4 /\ BYTE = PowersOf(2)[BYTEBITS]
  /\ LIMBS \in Nat /\ LIMBS > 1
  /\ 38 * LIMBS * LOOSE * LOOSE <= LIMIT

(* The value of digits modulo n, the lowest digit first. *)
ValueMod(digits, base, n) ==
  LET v[i \in 1..(Len(digits) + 1)] ==
        IF i > Len(digits) THEN 0 ELSE (digits[i] + base * v[i + 1]) % n
  IN  v[1]

Element(a) == ValueMod(a, RADIX, P)
NumberMod(bytes, n) == ValueMod(bytes, BYTE, n)

Digits(n) == Array(BYTES, LAMBDA j : (n \div PowersOf(BYTE)[j - 1]) % BYTE)

(* x to the n-th power modulo P, by squaring. *)
Exp(x, n) ==
  LET e[k \in 0..n] ==
        IF k = 0 THEN 1
        ELSE LET half == e[k \div 2]
                 square == (half * half) % P
             IN  IF k % 2 = 1 THEN (square * x) % P ELSE square
  IN  e[n]

Reciprocal(x) == Exp(x, P - 2)
=============================================================================
