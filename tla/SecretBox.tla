----------------------------- MODULE SecretBox -----------------------------
(***************************************************************************)
(* The boxes of tweetnacl.c: the stream of Salsa20, the authenticator      *)
(* Poly1305, crypto_secretbox over both and crypto_box over that, with the *)
(* cores of Salsa20 and the product on the curve uninterpreted.  The digit *)
(* h[j] of the code is h[j + 1] here.                                      *)
(***************************************************************************)
EXTENDS Words, Calls

CONSTANTS
  BOXBYTE,          \* the number of values of a byte, 256 in the code
  MACBYTES,         \* the bytes of an authenticator, 16
  NONCEBYTES,       \* the bytes of the nonce of Salsa20, 8, and its counter
  STREAMBLOCK,      \* the bytes of a block of the stream, 64: at least
                    \* those of two authenticators
  Core(_, _),       \* crypto_core_salsa20 of an input and a key
  HCore(_, _),      \* crypto_core_hsalsa20
  ScalarMult(_, _), \* crypto_scalarmult of a secret and a public key
  BoxCalls          \* the calls of crypto_stream_xor and crypto_onetimeauth

XorBytes(a, b) ==
  Array(Len(a), LAMBDA i : Number(Xor(Bits(a[i]), Bits(b[i]))))

-----------------------------------------------------------------------------
(* The stream. *)

(* Mutant of Increment: nothing is carried. *)
IncrementLowest(counter) == [counter EXCEPT ![1] = (@ + 1) % BOXBYTE]

Counters == [1..NONCEBYTES -> 0..(BOXBYTE - 1)]
BoxPower == PowersOf(BOXBYTE)

(* The counter, its lowest byte first: z[8] to z[15]. *)
Increment(counter) ==
  LET u[i \in 0..NONCEBYTES] ==
        IF i = 0 THEN BOXBYTE ELSE counter[i] + u[i - 1] \div BOXBYTE
  IN  Array(NONCEBYTES, LAMBDA i : u[i] % BOXBYTE)

(* m is zeros for a call that gives none.  The last turn may be a short    *)
(* one, and there is none for no bytes.                                    *)
crypto_stream_salsa20_xor(m, n, k) ==
  LET b == Len(m)
      Turn(s, i) ==
        <<Increment(s[1]),
          s[2] \o XorBytes(Take(Drop(m, (i - 1) * STREAMBLOCK), STREAMBLOCK),
                           Core(n \o s[1], k))>>
      s == Loop(Counters \X Seq(Nat), Turn, <<Repeat(0, NONCEBYTES), <<>>>>,
                b \div STREAMBLOCK)
      tail == Drop(m, b - (b % STREAMBLOCK))
  IN  IF tail = <<>> THEN s[2]
      ELSE s[2] \o XorBytes(tail, Core(n \o s[1], k))

(* The first part of the nonce makes a key, the second is the nonce. *)
crypto_stream_xor(m, n, k) ==
  crypto_stream_salsa20_xor(m, Drop(n, 2 * NONCEBYTES),
                            HCore(Take(n, 2 * NONCEBYTES), k))

crypto_stream(d, n, k) == crypto_stream_xor(Repeat(0, d), n, k)

-----------------------------------------------------------------------------
(* The authenticator, on numbers of MACBYTES + 1 digits modulo             *)
(* 2^130 - 5, which is BOXBYTE^MACBYTES * 4 - 5.                           *)

LAST == MACBYTES + 1

MacDigits == [1..LAST -> Nat]

(* What comes to each digit when c comes to the first.                     *)
Carries(v, c) ==
  LET u[j \in DOMAIN v] == v[j] + (IF j = 1 THEN c ELSE u[j - 1] \div BOXBYTE)
  IN  u

(* Digits that may be too large are carried; what leaves the last is lost. *)
Carried(v) ==
  LET u == Carries(v, 0) IN Array(Len(v), LAMBDA j : u[j] % BOXBYTE)

add1305(h, c) == Carried(Array(LAST, LAMBDA j : h[j] + c[j]))

minusp == <<5>> \o Repeat(0, MACBYTES - 1) \o <<BOXBYTE - 4>>

(* The first half of the key with some bits cleared. *)
ClampKey(k) ==
  LET Digit(j) == IF j = LAST THEN 0
                  ELSE IF (j - 1) % 4 = 3 THEN k[j] % (BOXBYTE \div 16)
                  ELSE IF j > 1 /\ (j - 1) % 4 = 0 THEN 4 * (k[j] \div 4)
                  ELSE k[j]
  IN  Array(LAST, Digit)

(* A digit of the product: those too high come back 320 = 5 * 64 times. *)
MacTimes(h, r) ==
  LET Factor(i, j) == IF j <= i THEN r[i - j + 1]
                      ELSE 5 * (BOXBYTE \div 4) * r[i + LAST - j + 1]
  IN  Array(LAST, LAMBDA i :
                    SumTo([j \in 1..LAST |-> h[j] * Factor(i, j)], LAST))

(* Two rounds of carrying; what is above 2^130 comes back five times. *)
Squeeze(x) ==
  LET low == Carries(Take(x, MACBYTES), 0)
      top == x[LAST] + low[MACBYTES] \div BOXBYTE
      again == Carries(Array(MACBYTES, LAMBDA j : low[j] % BOXBYTE),
                       5 * (top \div 4))
  IN  Array(MACBYTES, LAMBDA j : again[j] % BOXBYTE)
        \o <<(top % 4) + again[MACBYTES] \div BOXBYTE>>

(* Mutant of BlockDigits: the one comes where a whole block has it.        *)
BlockDigitsFull(bytes) == bytes \o Repeat(0, MACBYTES - Len(bytes)) \o <<1>>

(* A block of the message, a one behind it. *)
BlockDigits(bytes) == bytes \o <<1>> \o Repeat(0, MACBYTES - Len(bytes))

crypto_onetimeauth(m, k) ==
  LET r == ClampKey(k)
      Turn(h, i) ==
        LET rest == Drop(m, (i - 1) * MACBYTES)
            j == IF Len(rest) < MACBYTES THEN Len(rest) ELSE MACBYTES
        IN  Squeeze(MacTimes(add1305(h, BlockDigits(Take(rest, j))), r))
      h == Loop(MacDigits, Turn, Repeat(0, LAST),
                (Len(m) + MACBYTES - 1) \div MACBYTES)
      reduced == add1305(h, minusp)
      least == IF reduced[LAST] >= BOXBYTE \div 2 THEN h ELSE reduced
  IN  Take(add1305(least, Drop(k, MACBYTES) \o <<0>>), MACBYTES)

crypto_onetimeauth_verify(h, m, k) == h = crypto_onetimeauth(m, k)

-----------------------------------------------------------------------------
(* Boxes: the first 2 * MACBYTES bytes of a message are zeros, and the     *)
(* first MACBYTES of a box.                                                *)

ZEROBYTES == 2 * MACBYTES
NoBox == <<>>       \* the call returned -1

crypto_secretbox(m, n, k) ==
  LET c == crypto_stream_xor(m, n, k)
      rest == Drop(c, ZEROBYTES)
  IN  IF Len(m) < ZEROBYTES THEN NoBox
      ELSE Repeat(0, MACBYTES)
             \o crypto_onetimeauth(rest, Take(c, ZEROBYTES)) \o rest

(* Mutant of crypto_secretbox_open: decrypts first. *)
crypto_secretbox_open_early(m, c, n, k) ==
  LET verified == crypto_onetimeauth_verify(
                    Drop(Take(c, ZEROBYTES), MACBYTES), Drop(c, ZEROBYTES),
                    crypto_stream(ZEROBYTES, n, k))
  IN  [valid |-> Len(c) >= ZEROBYTES /\ verified,
       m |-> Repeat(0, ZEROBYTES)
               \o Drop(crypto_stream_xor(c, n, k), ZEROBYTES)]

(* The authenticator is verified before anything is written to m. *)
crypto_secretbox_open(m, c, n, k) ==
  LET x == crypto_stream(ZEROBYTES, n, k)
      verified == crypto_onetimeauth_verify(
                    Drop(Take(c, ZEROBYTES), MACBYTES), Drop(c, ZEROBYTES), x)
  IN  IF Len(c) >= ZEROBYTES /\ verified
      THEN [valid |-> TRUE,
            m |-> Repeat(0, ZEROBYTES)
                    \o Drop(crypto_stream_xor(c, n, k), ZEROBYTES)]
      ELSE [valid |-> FALSE, m |-> m]

(* The key that the two ends share. *)
crypto_box_beforenm(y, x) ==
  HCore(Repeat(0, 2 * NONCEBYTES), ScalarMult(x, y))

crypto_box(m, n, y, x) == crypto_secretbox(m, n, crypto_box_beforenm(y, x))
crypto_box_open(m, c, n, y, x) ==
  crypto_secretbox_open(m, c, n, crypto_box_beforenm(y, x))

-----------------------------------------------------------------------------
(* What the stream and the authenticator are, without blocks or carries.   *)

CounterBytes(i) ==
  Array(NONCEBYTES, LAMBDA j : (i \div BoxPower[j - 1]) % BOXBYTE)
Keystream(d, n, k) ==
  Array(d, LAMBDA j : Core(n \o CounterBytes((j - 1) \div STREAMBLOCK), k)
                        [((j - 1) % STREAMBLOCK) + 1])

PRIME == 4 * BoxPower[MACBYTES] - 5

(* Modulo the prime: the product with the value of digits.                 *)
MacProduct(a, digits) ==
  LET v[j \in 1..(Len(digits) + 1)] ==
        IF j > Len(digits) THEN 0
        ELSE (a * digits[j] + BOXBYTE * v[j + 1]) % PRIME
  IN  v[1]

Value(digits) == MacProduct(1, digits)

(* The blocks are the coefficients of a polynomial in r. *)
Polynomial(m, r) ==
  LET count == (Len(m) + MACBYTES - 1) \div MACBYTES
      Coefficient(i) ==
        Value(SubSeq(m, (i - 1) * MACBYTES + 1,
                     IF i = count THEN Len(m) ELSE i * MACBYTES) \o <<1>>)
      h[i \in 0..count] ==
        IF i = 0 THEN 0 ELSE MacProduct((h[i - 1] + Coefficient(i)) % PRIME, r)
  IN  h[count]

Authenticator(m, k) ==
  LET sum == Polynomial(m, ClampKey(k))
             + Value(Drop(k, MACBYTES))
  IN  Array(MACBYTES, LAMBDA j : (sum \div BoxPower[j - 1]) % BOXBYTE)

-----------------------------------------------------------------------------
(* What the proofs rest on. *)
BoxAssumption ==
  /\ BOXBYTE \in Nat /\ BOXBYTE > 0
  /\ NONCEBYTES \in Nat /\ MACBYTES \in Nat
  /\ STREAMBLOCK \in Nat /\ STREAMBLOCK > 0

(* The largest digit of a product of numbers whose digits are bytes.       *)
LARGEST == LAST * ((BOXBYTE - 1) * (5 * (BOXBYTE \div 4) * (BOXBYTE - 1)))

(* Three of it carry no further than one digit beyond 2^128; in the code   *)
(* they are below 2^31.                                                    *)
MacAssumption ==
  /\ BOXBYTE >= 16 /\ BOXBYTE % 4 = 0
  /\ MACBYTES > 0
  /\ 3 * LARGEST <= BoxPower[MACBYTES]

(* What the calls are given: numbers below BOXBYTE, and a key of two       *)
(* authenticators.                                                         *)
BoxCallsAssumption ==
  \A c \in BoxCalls :
    /\ c.of \in {"stream", "mac"}
    /\ c.m \in Seq(0..(BOXBYTE - 1))
    /\ c.of = "mac" => /\ c.k \in Seq(0..(BOXBYTE - 1))
                       /\ Len(c.k) = 2 * MACBYTES

-----------------------------------------------------------------------------
(* The calls. *)

Stream == Call("stream", crypto_stream_xor(test.m, test.n, test.k))
Mac == Call("mac", crypto_onetimeauth(test.m, test.k))

BoxInit == CallOneOf(BoxCalls)
BoxNext == Stream \/ Mac
BoxSpec == BoxInit /\ [][BoxNext]_nvars

(* The stream is the keystream of the nonce, its counter carried past a    *)
(* byte and its last block cut short.                                      *)
StreamIsKeystream ==
  Returned("stream") =>
    LET key == HCore(Take(test.n, 2 * NONCEBYTES), test.k)
        nonce == Drop(test.n, 2 * NONCEBYTES)
    IN  result.is = XorBytes(test.m, Keystream(Len(test.m), nonce, key))

(* Poly1305 with digits carried late and reduced by one subtraction is the *)
(* polynomial of the blocks modulo the prime.                              *)
MacIsPolynomial ==
  Returned("mac") => result.is = Authenticator(test.m, test.k)
=============================================================================
