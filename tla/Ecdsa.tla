-------------------------------- MODULE Ecdsa --------------------------------
(***************************************************************************)
(* libsecp256k1, which is not in the repository, as secp256k1-stubs.c and  *)
(* its comments use it: ECDSA on the curve y^2 = x^3 + 7, of a prime order *)
(* that is below the prime of its field.  Where a C caller gives a string  *)
(* of 32 bytes, it is one of DIGITS bytes here, the highest first.         *)
(***************************************************************************)
EXTENDS Buffers

CONSTANTS
  PRIME, ORDER,     \* the prime of the field and the order of the curve
  BASE,             \* the base point
  BYTE, DIGITS,     \* the size of a byte, the bytes of a number
  Nonce(_, _, _)    \* the number a signature is made with, at each attempt

Bytes(n) ==
  [j \in 1..DIGITS |-> (n \div BYTE^(DIGITS - j)) % BYTE]

NumberOf(bytes) ==
  LET n[j \in 0..Len(bytes)] ==
        IF j = 0 THEN 0 ELSE n[j - 1] * BYTE + bytes[j]
  IN  n[Len(bytes)]

-----------------------------------------------------------------------------
(* The group. *)

Infinity == <<>>
Inverse(a, m) == CHOOSE b \in 1..(m - 1) : (a * b) % m = 1

Sum(a, b) ==
  IF a = Infinity THEN b
  ELSE IF b = Infinity THEN a
  ELSE IF a[1] = b[1] /\ (a[2] + b[2]) % PRIME = 0 THEN Infinity
  ELSE LET slope ==
             (IF a = b THEN 3 * a[1] * a[1] * Inverse((2 * a[2]) % PRIME, PRIME)
              ELSE (b[2] - a[2]) * Inverse((b[1] - a[1]) % PRIME, PRIME)) % PRIME
           x == (slope * slope - a[1] - b[1]) % PRIME
       IN  <<x, (slope * (a[1] - x) - a[2]) % PRIME>>

Double(a) == Sum(a, a)
Times(k, point) ==
  LET times[n \in 0..k] ==
        IF n = 0 THEN Infinity
        ELSE IF n % 2 = 0 THEN Double(times[n \div 2])
        ELSE Sum(Double(times[n \div 2]), point)
  IN  times[k]

Points == {<<x, y>> \in (0..(PRIME - 1)) \X (0..(PRIME - 1)) :
             (y * y) % PRIME = (x * x * x + 7) % PRIME}
PointAt(x, parity) == {point \in Points : point[1] = x /\ point[2] % 2 = parity}

-----------------------------------------------------------------------------
(* What the functions return, and what they leave in their output.  The    *)
(* callback of an illegal argument ends the process.                       *)
Result(res, out) == [is |-> "returned", res |-> res, out |-> out]
Aborted == [is |-> "aborted"]
Checked(legal, result) == IF legal THEN result ELSE Aborted

Signature(r, s) == [r |-> r, s |-> s]
NoSignature == Signature(0, 0)
Recoverable(r, s, id) == [r |-> r, s |-> s, id |-> id]
NoRecoverable == Recoverable(0, 0, 0)

context_create(flags) == flags
LegalKey(d) == d \in 1..(ORDER - 1)

ec_pubkey_create(ctx, seckey) ==
  LET d == NumberOf(seckey)
  IN  Checked("SIGN" \in ctx,
              IF LegalKey(d) THEN Result(1, Times(d, BASE))
              ELSE Result(0, Infinity))

(* Compressed, uncompressed and hybrid forms. *)
ec_pubkey_parse(ctx, input) ==
  LET x == NumberOf(SubSeq(input, 2, 1 + DIGITS))
      y == NumberOf(SubSeq(input, 2 + DIGITS, Len(input)))
      found ==
        IF input = <<>> THEN {}
        ELSE IF Len(input) = 1 + DIGITS /\ input[1] \in {2, 3}
        THEN PointAt(x, input[1] - 2)
        ELSE IF Len(input) = 1 + 2 * DIGITS
                  /\ (input[1] = 4 \/ input[1] = 6 + (y % 2))
        THEN {<<x, y>>} \cap Points
        ELSE {}
  IN  IF found = {} THEN Result(0, Infinity)
      ELSE Result(1, CHOOSE point \in found : TRUE)

(* The flags say in which form; no flag at all is illegal. *)
ec_pubkey_serialize(ctx, pubkey, flags) ==
  Checked(flags # {},
    Result(1, IF "COMPRESSED" \in flags
              THEN <<2 + (pubkey[2] % 2)>> \o Bytes(pubkey[1])
              ELSE <<4>> \o Bytes(pubkey[1]) \o Bytes(pubkey[2])))

(* The first attempt that gives neither zero is taken; a signature has the *)
(* lower of its two possible s, and the parity goes with it.               *)
LowForm(R, s) ==
  LET high == s > ORDER \div 2
      odd == (R[2] % 2 = 1) # high
  IN  Recoverable(R[1] % ORDER, IF high THEN ORDER - s ELSE s,
                  (IF R[1] >= ORDER THEN 2 ELSE 0) + (IF odd THEN 1 ELSE 0))
WithPoint(z, d, k, R) ==
  LowForm(R, (Inverse(k, ORDER) * (z + (R[1] % ORDER) * d)) % ORDER)
WithNonce(z, d, k) ==
  IF k = 0 THEN NoRecoverable ELSE WithPoint(z, d, k, Times(k, BASE))
Usable(a) == a.r # 0 /\ a.s # 0

RECURSIVE Attempt(_, _, _)
Attempt(z, d, n) ==
  LET a == WithNonce(z, d, Nonce(z, d, n) % ORDER)
  IN  IF Usable(a) THEN a ELSE Attempt(z, d, n + 1)

ecdsa_sign_recoverable(ctx, msg32, seckey) ==
  LET d == NumberOf(seckey)
  IN  Checked("SIGN" \in ctx,
              IF LegalKey(d) THEN Result(1, Attempt(NumberOf(msg32) % ORDER, d, 0))
              ELSE Result(0, NoRecoverable))

ecdsa_recoverable_signature_convert(ctx, sig) ==
  Result(1, Signature(sig.r, sig.s))

WithoutId(made) ==
  IF made = Aborted THEN Aborted
  ELSE Result(made.res, Signature(made.out.r, made.out.s))
ecdsa_sign(ctx, msg32, seckey) ==
  WithoutId(ecdsa_sign_recoverable(ctx, msg32, seckey))

(* The higher s is refused. *)
Matches(R, r) == R # Infinity /\ R[1] % ORDER = r
ecdsa_verify(ctx, sig, msg32, pubkey) ==
  LET w == Inverse(sig.s, ORDER)
      valid == /\ sig.r # 0 /\ sig.s # 0 /\ sig.s <= ORDER \div 2
               /\ Matches(Sum(Times((NumberOf(msg32) * w) % ORDER, BASE),
                              Times((sig.r * w) % ORDER, pubkey)),
                          sig.r)
  IN  Checked("VERIFY" \in ctx, Result(IF valid THEN 1 ELSE 0, pubkey))

OrNone(Q) == Result(IF Q = Infinity THEN 0 ELSE 1, Q)
KeyWith(sig, z, w, R) ==
  Sum(Times((sig.s * w) % ORDER, R), Times(((ORDER - z) * w) % ORDER, BASE))
ecdsa_recover(ctx, sig, msg32) ==
  LET found == PointAt(sig.r + (IF sig.id >= 2 THEN ORDER ELSE 0), sig.id % 2)
  IN  Checked("VERIFY" \in ctx,
              IF sig.r # 0 /\ sig.s # 0 /\ found # {}
              THEN OrNone(KeyWith(sig, NumberOf(msg32) % ORDER,
                                  Inverse(sig.r, ORDER), CHOOSE R \in found : TRUE))
              ELSE Result(0, Infinity))

-----------------------------------------------------------------------------
(* The forms of a signature. *)

(* The bytes of an integer that is not negative, as few as its sign allows.*)
Negative(byte) == byte >= BYTE \div 2
DerBytes(n) ==
  LET digits == Bytes(n)
      from == CHOOSE j \in 1..DIGITS :
                /\ \A i \in 1..(j - 1) : digits[i] = 0
                /\ digits[j] # 0 \/ j = DIGITS
      minimal == SubSeq(digits, from, DIGITS)
  IN  (IF Negative(minimal[1]) THEN <<0>> ELSE <<>>) \o minimal

(* The form of two integers, given by their bytes; lengths are short.      *)
DerForm(r, s) ==
  <<48, 4 + Len(r) + Len(s), 2, Len(r)>> \o r \o <<2, Len(s)>> \o s
Der(r, s) == DerForm(DerBytes(r), DerBytes(s))

DerLegal(bytes) ==
  /\ bytes # <<>>
  /\ Len(bytes) > 1 => /\ bytes[1] = 0 => Negative(bytes[2])
                       /\ bytes[1] = BYTE - 1 => ~Negative(bytes[2])
(* An integer that is negative, too long or not below the order is taken,  *)
(* for zero.                                                               *)
DerNumber(bytes) ==
  IF Negative(bytes[1]) \/ NumberOf(bytes) >= ORDER THEN 0 ELSE NumberOf(bytes)

ecdsa_signature_parse_der(ctx, input) ==
  LET rlen == input[4]
      slen == input[6 + rlen]
      r == SubSeq(input, 5, 4 + rlen)
      s == SubSeq(input, 7 + rlen, 6 + rlen + slen)
      formed == /\ Len(input) >= 6 /\ Len(input) >= 6 + rlen
                /\ Len(input) = 6 + rlen + slen
                /\ input = DerForm(r, s)
                /\ DerLegal(r) /\ DerLegal(s)
  IN  IF formed THEN Result(1, Signature(DerNumber(r), DerNumber(s)))
      ELSE Result(0, NoSignature)

ecdsa_signature_parse_compact(ctx, input64) ==
  LET r == NumberOf(Take(input64, DIGITS))
      s == NumberOf(Drop(input64, DIGITS))
  IN  IF r < ORDER /\ s < ORDER THEN Result(1, Signature(r, s))
      ELSE Result(0, NoSignature)

ecdsa_recoverable_signature_parse_compact(ctx, input64, recid) ==
  LET parsed == ecdsa_signature_parse_compact(ctx, input64)
      id == IF parsed.res = 1 THEN recid ELSE 0
  IN  Checked(recid \in 0..3,
              Result(parsed.res, Recoverable(parsed.out.r, parsed.out.s, id)))

ecdsa_signature_serialize_compact(ctx, sig) ==
  Result(1, Bytes(sig.r) \o Bytes(sig.s))

ecdsa_signature_serialize_der(ctx, sig) == Result(1, Der(sig.r, sig.s))
=============================================================================
