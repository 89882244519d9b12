---------------------------- MODULE NaClProofs ----------------------------
(***************************************************************************)
(* Theorems about what tweetnacl.c makes of strings, for bytes, nonces,    *)
(* blocks and authenticators of any size and for any cores: the stream is  *)
(* the message and the keystream of a counter that carries, a box opens to *)
(* what was put into it, the authenticator, with its digits carried late   *)
(* and reduced little, is the polynomial of the blocks modulo the prime,   *)
(* and what crypto_hash hashes is the padded message of the standard.      *)
(***************************************************************************)
EXTENDS SecretBox, Sha512, BufferProofs, TLAPS

-----------------------------------------------------------------------------
(* Arrays. *)

-----------------------------------------------------------------------------
(* The bits of a number and the number that bits make. *)

LEMMA WidthFacts == WIDTH \in Nat /\ WIDTH > 0 /\ WIDTH - 1 \in Nat
BY DEF WIDTH

(* The numbers that have no more bits than that.                           *)
Numbers == 0..(PowersOf(2)[WIDTH] - 1)

(* The halves of a number, and the numbers that the highest bits make.     *)
Halves(half, n) ==
  /\ half \in [0..WIDTH -> Nat] /\ half[0] = n
  /\ \A i \in 0..(WIDTH - 1) : half[i + 1] = half[i] \div 2

BitOf(bits, i) == IF i \in bits THEN 1 ELSE 0

Aboves(above, bits) ==
  /\ above \in [0..WIDTH -> Nat] /\ above[0] = 0
  /\ \A i \in 0..(WIDTH - 1) : above[i + 1] = 2 * above[i] + BitOf(bits, WIDTH - (i + 1))

(* A function that stays in the numbers.                                   *)
LEMMA StaysNumber ==
  ASSUME NEW f, f = [k \in 0..WIDTH |-> f[k]], f[0] \in Nat,
         \A i \in 0..(WIDTH - 1) : f[i] \in Nat => f[i + 1] \in Nat
  PROVE  f \in [0..WIDTH -> Nat]
<1> DEFINE A == {k \in Nat : k <= WIDTH => f[k] \in Nat}
<1>1. Nat \subseteq A
  <2>1. 0 \in A
    OBVIOUS
  <2>2. ASSUME NEW k \in Nat, k \in A PROVE k + 1 \in A
    <3>1. CASE k + 1 <= WIDTH
      <4>1. k \in 0..(WIDTH - 1) /\ f[k] \in Nat
        BY WidthFacts, <2>2, <3>1
      <4>2. f[k + 1] \in Nat
        BY <4>1, Zenon
      <4> QED BY <4>2
    <3>2. CASE ~(k + 1 <= WIDTH)
      BY <3>2
    <3> QED BY <3>1, <3>2
  <2> HIDE DEF A
  <2> QED BY <2>1, <2>2, SetInduction
<1>2. \A k \in 0..WIDTH : f[k] \in Nat
  BY <1>1
<1> QED BY <1>2

(* Turns are one less than the positions they come to.                     *)
LEMMA NextPosition ==
  ASSUME NEW i \in 0..(WIDTH - 1)
  PROVE  /\ i \in Nat /\ i \in 0..WIDTH /\ i + 1 \in 0..WIDTH /\ i + 1 # 0
         /\ (i + 1) - 1 = i /\ 0 \in 0..WIDTH
         /\ WIDTH - (i + 1) \in 0..(WIDTH - 1) /\ WIDTH - (i + 1) + 1 = WIDTH - i
         /\ WIDTH - (WIDTH - (i + 1) + 1) = i
BY WidthFacts

LEMMA HalfExists ==
  ASSUME NEW n \in Nat
  PROVE  \E half : Halves(half, n) /\ Bits(n) = {i \in 0..(WIDTH - 1) : half[i] % 2 = 1}
<1> DEFINE step == [p \in Nat \X Nat |-> p[1] \div 2]
           Is(half) == half = [i \in 0..WIDTH |-> IF i = 0 THEN n ELSE half[i - 1] \div 2]
           chosen == CHOOSE half : Is(half)
<1>1. step \in [Nat \X Nat -> Nat] /\ \A a, b \in Nat : step[<<a, b>>] = a \div 2
  OBVIOUS
<1> HIDE DEF step
<1>2. PICK f : UnrollsTo(f, WIDTH, Nat, n, step)
  BY <1>1, WidthFacts, RecursionTo
<1>3. f \in [0..WIDTH -> Nat]
      /\ f = [i \in 0..WIDTH |-> IF i = 0 THEN n ELSE step[<<f[i - 1], i - 1>>]]
  BY <1>2 DEF UnrollsTo
<1>4. ASSUME NEW k \in 0..WIDTH, k # 0 PROVE step[<<f[k - 1], k - 1>>] = f[k - 1] \div 2
  <2>1. k - 1 \in Nat /\ k - 1 \in 0..WIDTH
    BY <1>4, WidthFacts
  <2>2. f[k - 1] \in Nat
    BY <1>3, <2>1
  <2> QED BY <1>1, <2>1, <2>2
<1>5. Is(f)
  BY <1>3, <1>4
<1>6. Is(chosen)
  <2> HIDE DEF Is
  <2> QED BY <1>5, Zenon
<1>7. Bits(n) = {i \in 0..(WIDTH - 1) : chosen[i] % 2 = 1}
  BY Zenon DEF Bits
<1> HIDE DEF chosen
<1>8. chosen[0] = n
  BY <1>6, WidthFacts
<1>9. ASSUME NEW i \in 0..(WIDTH - 1) PROVE chosen[i + 1] = chosen[i] \div 2
  BY <1>6, NextPosition
<1>10. chosen \in [0..WIDTH -> Nat]
  <2>1. chosen = [k \in 0..WIDTH |-> chosen[k]]
    BY <1>6
  <2>2. ASSUME NEW i \in 0..(WIDTH - 1), chosen[i] \in Nat PROVE chosen[i + 1] \in Nat
    BY <1>9, <2>2
  <2> HIDE DEF Is
  <2> QED BY <1>8, <2>1, <2>2, StaysNumber
<1>11. Halves(chosen, n)
  BY <1>8, <1>9, <1>10 DEF Halves
<1> QED BY <1>7, <1>11

LEMMA AboveExists ==
  ASSUME NEW bits
  PROVE  \E above : Aboves(above, bits) /\ Number(bits) = above[WIDTH]
<1> DEFINE At(b) == BitOf(bits, WIDTH - (b + 1))
           step == [p \in Nat \X Nat |-> 2 * p[1] + At(p[2])]
           Is(above) == above = [i \in 0..WIDTH |->
                          IF i = 0 THEN 0
                          ELSE 2 * above[i - 1] + (IF WIDTH - i \in bits THEN 1 ELSE 0)]
           chosen == CHOOSE above : Is(above)
<1>0. \A b : At(b) \in Nat
  BY DEF BitOf
<1>1. /\ step \in [Nat \X Nat -> Nat] /\ \A a, b \in Nat : step[<<a, b>>] = 2 * a + At(b)
  <2> HIDE DEF At
  <2> QED BY <1>0
<1> HIDE DEF step
<1>2. PICK f : UnrollsTo(f, WIDTH, Nat, 0, step)
  <2>1. 0 \in Nat
    OBVIOUS
  <2> QED BY <1>1, <2>1, WidthFacts, RecursionTo
<1>3. f \in [0..WIDTH -> Nat]
      /\ f = [i \in 0..WIDTH |-> IF i = 0 THEN 0 ELSE step[<<f[i - 1], i - 1>>]]
  BY <1>2 DEF UnrollsTo
<1>4. ASSUME NEW k \in 0..WIDTH, k # 0
      PROVE  step[<<f[k - 1], k - 1>>] = 2 * f[k - 1] + (IF WIDTH - k \in bits THEN 1 ELSE 0)
  <2>0. k - 1 \in Nat /\ k - 1 \in 0..WIDTH /\ WIDTH - ((k - 1) + 1) = WIDTH - k
    BY <1>4, WidthFacts
  <2>1. f[k - 1] \in Nat
    BY <1>3, <2>0
  <2>2. step[<<f[k - 1], k - 1>>] = 2 * f[k - 1] + At(k - 1)
    <3> HIDE DEF At
    <3> QED BY <1>1, <2>0, <2>1
  <2>3. At(k - 1) = IF WIDTH - k \in bits THEN 1 ELSE 0
    BY <2>0 DEF BitOf
  <2> QED BY <2>2, <2>3
<1>5. Is(f)
  BY <1>3, <1>4
<1>6. Is(chosen)
  <2> HIDE DEF Is
  <2> QED BY <1>5, Zenon
<1>7. Number(bits) = chosen[WIDTH]
  BY Zenon DEF Number
<1> HIDE DEF chosen
<1>8. chosen[0] = 0
  BY <1>6, WidthFacts
<1>9. ASSUME NEW i \in 0..(WIDTH - 1)
      PROVE  chosen[i + 1] = 2 * chosen[i] + BitOf(bits, WIDTH - (i + 1))
  BY <1>6, NextPosition DEF BitOf
<1>10. chosen \in [0..WIDTH -> Nat]
  <2>1. chosen = [k \in 0..WIDTH |-> chosen[k]]
    BY <1>6
  <2>2. ASSUME NEW i \in 0..(WIDTH - 1), chosen[i] \in Nat PROVE chosen[i + 1] \in Nat
    <3>1. BitOf(bits, WIDTH - (i + 1)) \in Nat
      BY DEF BitOf
    <3> QED BY <1>9, <2>2, <3>1
  <2>3. chosen[0] \in Nat
    BY <1>8
  <2> HIDE DEF Is
  <2> QED BY <2>1, <2>2, <2>3, StaysNumber
<1>11. Aboves(chosen, bits)
  BY <1>8, <1>9, <1>10 DEF Aboves
<1> QED BY <1>7, <1>11

(* A number is its bits, and bits are those of their number.               *)
LEMMA NumberOfBits ==
  ASSUME NEW n \in Numbers
  PROVE  n \in Nat /\ Number(Bits(n)) = n
<1> DEFINE W == WIDTH
           bits == Bits(n)
           P == PowersOf(2)
<1>0. /\ W \in Nat /\ P[0] = 1
      /\ \A k \in Nat : P[k] \in Nat /\ P[k] > 0 /\ P[k + 1] = 2 * P[k]
  BY WidthFacts, PowersFacts
<1>1. n \in Nat /\ n < P[W]
  BY <1>0 DEF Numbers
<1> HIDE DEF P
<1>2. PICK half : Halves(half, n) /\ bits = {i \in 0..(W - 1) : half[i] % 2 = 1}
  BY <1>1, HalfExists
<1> HIDE DEF bits
<1>3. PICK above : Aboves(above, bits) /\ Number(bits) = above[W]
  BY AboveExists
<1>4. /\ half \in [0..W -> Nat] /\ half[0] = n
      /\ \A i \in 0..(W - 1) : half[i + 1] = half[i] \div 2
  BY <1>2 DEF Halves
<1>5. /\ above \in [0..W -> Nat] /\ above[0] = 0
      /\ \A i \in 0..(W - 1) : above[i + 1] = 2 * above[i] + BitOf(bits, W - (i + 1))
  BY <1>3 DEF Aboves
<1>6. half[W] = 0
  <2> DEFINE A == {k \in Nat : k <= W => half[k] * P[k] <= n}
  <2>1. 0 \in A
    <3>1. n * 1 = n /\ half[0] * P[0] = n * 1
      BY <1>0, <1>1, <1>4
    <3> QED BY <1>1, <3>1
  <2>2. ASSUME NEW k \in Nat, k \in A PROVE k + 1 \in A
    <3>1. CASE k + 1 <= W
      <4> DEFINE a == half[k]
                 b == half[k + 1]
                 p == P[k]
      <4>1. k \in 0..(W - 1) /\ k \in 0..W /\ k + 1 \in 0..W
        BY <1>0, <3>1
      <4>2. a \in Nat /\ b \in Nat /\ b = a \div 2 /\ p \in Nat /\ P[k + 1] = 2 * p
        BY <1>0, <1>4, <4>1
      <4>3. a * p <= n
        BY <2>2, <4>1
      <4> HIDE DEF a, b, p
      <4>4. 2 * b <= a
        BY <4>2
      <4>5. (2 * b) * p <= a * p
        BY <4>2, <4>4
      <4>6. b * (2 * p) = (2 * b) * p
        BY <4>2
      <4>7. b * P[k + 1] <= n
        BY <1>1, <4>2, <4>3, <4>5, <4>6
      <4> QED BY <4>7 DEF b
    <3>2. CASE ~(k + 1 <= W)
      BY <3>2
    <3> QED BY <3>1, <3>2
  <2> HIDE DEF A
  <2>3. W \in A
    BY <1>0, <2>1, <2>2, SetInduction
  <2> DEFINE h == half[W]
             p == P[W]
  <2>4. h * p <= n /\ h \in Nat /\ p \in Nat /\ n < p
    <3>1. W <= W /\ W \in 0..W
      BY <1>0
    <3>2. h * p <= n
      BY <2>3, <3>1 DEF A
    <3>3. h \in Nat /\ p \in Nat
      BY <1>0, <1>4, <3>1
    <3> QED BY <1>1, <3>2, <3>3
  <2> HIDE DEF h, p
  <2>5. ASSUME h >= 1 PROVE h * p >= p
    BY <2>4, <2>5
  <2>6. h = 0
    BY <1>1, <2>4, <2>5
  <2> QED BY <2>6 DEF h
<1> DEFINE A == {k \in Nat : k <= W => above[k] = half[W - k]}
<1>7. 0 \in A
  BY <1>0, <1>5, <1>6, SMTT(30)
<1>8. ASSUME NEW k \in Nat, k \in A PROVE k + 1 \in A
  <2>1. CASE k + 1 <= W
    <3> DEFINE j == W - (k + 1)
               h == half[j]
    <3>1. k \in 0..(W - 1) /\ j \in 0..(W - 1) /\ j \in 0..W /\ j + 1 = W - k
      BY <1>0, <2>1
    <3>9. above[k] = half[W - k]
      BY <1>0, <1>8, <2>1
    <3>2. above[k] = half[j + 1] /\ h \in Nat /\ half[j + 1] = h \div 2
      <4> HIDE DEF A, j
      <4>1. half[j + 1] = half[j] \div 2 /\ half[j] \in Nat
        BY <1>4, <3>1
      <4> QED BY <3>9, <3>1, <4>1
    <3>3. above[k + 1] = 2 * above[k] + BitOf(bits, j)
      BY <1>5, <3>1
    <3>4. j \in bits <=> h % 2 = 1
      BY <1>2, <3>1
    <3> HIDE DEF j, h
    <3>8. h \in Nat
      BY <3>2
    <3>5. h = 2 * (h \div 2) + (h % 2) /\ (h % 2 = 0 \/ h % 2 = 1)
      <4> HIDE DEF A
      <4> QED BY <3>8
    <3>6. BitOf(bits, j) = h % 2
      BY <3>4, <3>5 DEF BitOf
    <3>7. above[k + 1] = h
      BY <3>2, <3>3, <3>5, <3>6
    <3> QED BY <3>7 DEF h, j
  <2>2. CASE ~(k + 1 <= W)
    BY <2>2
  <2> QED BY <2>1, <2>2
<1> HIDE DEF A
<1>9. W \in A
  BY <1>0, <1>7, <1>8, SetInduction
<1>10. above[W] = half[0]
  BY <1>0, <1>9 DEF A
<1> QED BY <1>1, <1>3, <1>4, <1>10 DEF bits

LEMMA BitsOfNumber ==
  ASSUME NEW bits \in SUBSET (0..(WIDTH - 1))
  PROVE  Number(bits) \in Nat /\ Bits(Number(bits)) = bits
<1> DEFINE W == WIDTH
           n == Number(bits)
<1>0. W \in Nat
  BY WidthFacts
<1>1. PICK above : Aboves(above, bits) /\ n = above[W]
  BY AboveExists
<1>2. /\ above \in [0..W -> Nat] /\ above[0] = 0
      /\ \A i \in 0..(W - 1) : above[i + 1] = 2 * above[i] + BitOf(bits, W - (i + 1))
  BY <1>1 DEF Aboves
<1>3. n \in Nat
  BY <1>0, <1>1, <1>2
<1> HIDE DEF n
<1>4. PICK half : Halves(half, n) /\ Bits(n) = {i \in 0..(W - 1) : half[i] % 2 = 1}
  BY <1>3, HalfExists
<1>5. /\ half \in [0..W -> Nat] /\ half[0] = n
      /\ \A i \in 0..(W - 1) : half[i + 1] = half[i] \div 2
  BY <1>4 DEF Halves
<1>6. ASSUME NEW k \in 0..(W - 1), half[k] = above[W - k]
      PROVE  half[k + 1] = above[W - (k + 1)] /\ (half[k] % 2 = 1 <=> k \in bits)
  <2> DEFINE j == W - (k + 1)
             a == above[j]
             h == half[k]
  <2>1. j \in 0..(W - 1) /\ j \in 0..W /\ j + 1 = W - k /\ W - (j + 1) = k
    BY <1>0
  <2>2. above[j + 1] = 2 * a + BitOf(bits, k) /\ a \in Nat
    BY <1>2, <2>1
  <2>3. h = 2 * a + BitOf(bits, k)
    BY <1>6, <2>1, <2>2
  <2>4. half[k + 1] = h \div 2
    BY <1>5
  <2> HIDE DEF a, j, h
  <2>5. CASE k \in bits
    <3>1. h = 2 * a + 1
      BY <2>3, <2>5 DEF BitOf
    <3>2. h \div 2 = a /\ h % 2 = 1
      BY <2>2, <3>1
    <3> QED BY <2>4, <2>5, <3>2 DEF h, a, j
  <2>6. CASE ~(k \in bits)
    <3>1. h = 2 * a
      BY <2>2, <2>3, <2>6 DEF BitOf
    <3>2. h \div 2 = a /\ h % 2 = 0
      BY <2>2, <3>1
    <3> QED BY <2>4, <2>6, <3>2 DEF h, a, j
  <2> QED BY <2>5, <2>6
<1> DEFINE A == {k \in Nat : k <= W => half[k] = above[W - k]}
<1>7. 0 \in A
  BY <1>0, <1>1, <1>5
<1>8. ASSUME NEW k \in Nat, k \in A PROVE k + 1 \in A
  <2>1. CASE k + 1 <= W
    <3>1. k \in 0..(W - 1) /\ half[k] = above[W - k]
      BY <1>0, <1>8, <2>1
    <3> QED BY <1>6, <3>1
  <2>2. CASE ~(k + 1 <= W)
    BY <2>2
  <2> QED BY <2>1, <2>2
<1> HIDE DEF A
<1>9. Nat \subseteq A
  BY <1>7, <1>8, SetInduction
<1>10. ASSUME NEW k \in 0..(W - 1) PROVE half[k] % 2 = 1 <=> k \in bits
  <2>1. half[k] = above[W - k]
    BY <1>0, <1>9 DEF A
  <2> QED BY <1>6, <2>1
<1>11. Bits(n) = bits
  BY <1>4, <1>10
<1> QED BY <1>3, <1>11 DEF n

(* A byte of a message with a byte of the keystream.                       *)
With(x, y) == Number(Xor(Bits(x), Bits(y)))

(* The same byte of the keystream takes it off again, whatever it is.      *)
LEMMA TakenOff ==
  ASSUME NEW x \in Numbers, NEW y
  PROVE  With(With(x, y), y) = x
<1> DEFINE a == Bits(x)
           b == Bits(y)
<1>1. a \in SUBSET (0..(WIDTH - 1)) /\ b \in SUBSET (0..(WIDTH - 1))
  BY Zenon DEF Bits
<1>2. Number(a) = x
  BY NumberOfBits
<1> HIDE DEF a, b
<1> DEFINE c == Xor(a, b)
<1>3. c \in SUBSET (0..(WIDTH - 1)) /\ Xor(c, b) = a
  BY <1>1 DEF Xor
<1> HIDE DEF c
<1>4. Bits(Number(c)) = c
  BY <1>3, BitsOfNumber
<1> QED BY <1>2, <1>3, <1>4, Zenon DEF With, a, b, c

LEMMA WithIsNumber ==
  ASSUME NEW x, NEW y
  PROVE  With(x, y) \in Nat
<1> DEFINE bits == Xor(Bits(x), Bits(y))
<1>1. Number(bits) \in Nat
  <2> HIDE DEF bits
  <2>1. PICK above : Aboves(above, bits) /\ Number(bits) = above[WIDTH]
    BY AboveExists
  <2> QED BY <2>1, WidthFacts DEF Aboves
<1> QED BY <1>1 DEF With

-----------------------------------------------------------------------------
(* The counter. *)

(* A remainder is carried on.                                              *)
LEMMA QuotientOfSum ==
  ASSUME NEW w \in Nat, w > 0, NEW q \in Nat, NEW e \in Nat
  PROVE  /\ (q + e) \div w = (q \div w) + (((q % w) + e) \div w)
         /\ (q + e) % w = ((q % w) + e) % w
<1>1. PICK a \in Nat, r \in 0..(w - 1) : q = a * w + r /\ q \div w = a /\ q % w = r
  BY Division
<1>2. r + e \in Nat
  OBVIOUS
<1> DEFINE x == r + e
<1> HIDE DEF x
<1>3. PICK b \in Nat, s \in 0..(w - 1) : x = b * w + s /\ x \div w = b /\ x % w = s
  BY <1>2, Division DEF x
<1>4. q + e = (a + b) * w + s /\ a + b \in Nat
  BY <1>1, <1>3 DEF x
<1>5. ((a + b) * w + s) \div w = a + b /\ ((a + b) * w + s) % w = s
  BY <1>4, DivisionUnique
<1> QED BY <1>1, <1>3, <1>4, <1>5 DEF x

(* The digits of a number.                                                 *)
LEMMA CounterFacts ==
  ASSUME BoxAssumption, NEW i \in Nat
  PROVE  /\ CounterBytes(i) \in Counters
         /\ \A j \in 1..NONCEBYTES : CounterBytes(i)[j] = (i \div BoxPower[j - 1]) % BOXBYTE
<1> DEFINE At(j) == (i \div BoxPower[j - 1]) % BOXBYTE
           f == [j \in 1..NONCEBYTES |-> At(j)]
<1>1. BOXBYTE \in Nat /\ BOXBYTE > 0 /\ NONCEBYTES \in Nat
  BY DEF BoxAssumption
<1>2. ASSUME NEW j \in 1..NONCEBYTES PROVE At(j) \in 0..(BOXBYTE - 1)
  <2> DEFINE w == BoxPower[j - 1]
             d == i \div w
  <2>1. w \in Nat /\ w > 0
    <3>1. j - 1 \in Nat
      BY <1>1
    <3> QED BY <1>1, <3>1, PowersFacts DEF BoxPower
  <2> HIDE DEF w
  <2>2. d \in Nat
    BY <2>1, Division
  <2> HIDE DEF d
  <2>3. d % BOXBYTE \in 0..(BOXBYTE - 1)
    BY <1>1, <2>2, Division
  <2> QED BY <2>3 DEF d, w
<1> HIDE DEF At
<1>3. f \in [1..NONCEBYTES -> 0..(BOXBYTE - 1)]
  BY <1>2
<1>4. \A j \in 1..NONCEBYTES : f[j] = At(j)
  OBVIOUS
<1> HIDE DEF f
<1>5. SubSeq(f, 1, NONCEBYTES) = f
  BY <1>1, <1>3, WholeArray
<1>6. CounterBytes(i) = f
  BY <1>5 DEF CounterBytes, Array, f, At
<1> QED BY <1>3, <1>4, <1>6 DEF Counters, At

(* The sums of the turns of Increment.                                     *)
Sums(u, c) ==
  /\ u[0] = BOXBYTE
  /\ \A j \in 1..NONCEBYTES : u[j] = c[j] + (u[j - 1] \div BOXBYTE)

Remainders(u) == Array(NONCEBYTES, LAMBDA j : u[j] % BOXBYTE)

LEMMA SumsExist ==
  ASSUME BoxAssumption, NEW c \in Counters
  PROVE  \E u : Sums(u, c) /\ Increment(c) = Remainders(u)
<1> DEFINE At(b) == IF b < NONCEBYTES THEN c[b + 1] ELSE 0
           step == [p \in Nat \X Nat |-> At(p[2]) + (p[1] \div BOXBYTE)]
           Is(u) == u = [j \in 0..NONCEBYTES |->
                           IF j = 0 THEN BOXBYTE ELSE c[j] + u[j - 1] \div BOXBYTE]
           chosen == CHOOSE u : Is(u)
<1>1. BOXBYTE \in Nat /\ BOXBYTE > 0 /\ NONCEBYTES \in Nat
  BY DEF BoxAssumption
<1>2. \A b \in Nat : At(b) \in Nat
  <2>1. ASSUME NEW b \in Nat, b < NONCEBYTES PROVE c[b + 1] \in Nat
    <3>1. b + 1 \in 1..NONCEBYTES
      BY <1>1, <2>1
    <3>2. c[b + 1] \in 0..(BOXBYTE - 1)
      BY <3>1 DEF Counters
    <3> QED BY <1>1, <3>2
  <2> QED BY <2>1
<1>3. \A a \in Nat : a \div BOXBYTE \in Nat
  BY <1>1, Division
<1> HIDE DEF At
<1>4. /\ step \in [Nat \X Nat -> Nat]
      /\ \A a, b \in Nat : step[<<a, b>>] = At(b) + (a \div BOXBYTE)
  BY <1>2, <1>3
<1> HIDE DEF step
<1>5. PICK f : UnrollsTo(f, NONCEBYTES, Nat, BOXBYTE, step)
  BY <1>1, <1>4, RecursionTo
<1>6. /\ f \in [0..NONCEBYTES -> Nat]
      /\ f = [j \in 0..NONCEBYTES |-> IF j = 0 THEN BOXBYTE ELSE step[<<f[j - 1], j - 1>>]]
  BY <1>5 DEF UnrollsTo
<1>7. ASSUME NEW j \in 0..NONCEBYTES, j # 0
      PROVE  step[<<f[j - 1], j - 1>>] = c[j] + (f[j - 1] \div BOXBYTE)
  <2>1. j - 1 \in Nat /\ j - 1 \in 0..NONCEBYTES /\ j - 1 < NONCEBYTES /\ (j - 1) + 1 = j
    BY <1>1, <1>7
  <2>2. f[j - 1] \in Nat
    BY <1>6, <2>1
  <2>3. At(j - 1) = c[j]
    BY <2>1 DEF At
  <2> QED BY <1>4, <2>1, <2>2, <2>3
<1>8. Is(f)
  BY <1>6, <1>7
<1>9. Is(chosen)
  <2> HIDE DEF Is
  <2> QED BY <1>8, Zenon
<1>10. Increment(c) = Remainders(chosen)
  BY Zenon DEF Increment, Remainders
<1> HIDE DEF chosen
<1>11. chosen[0] = BOXBYTE
  BY <1>1, <1>9
<1>12. ASSUME NEW j \in 1..NONCEBYTES PROVE chosen[j] = c[j] + (chosen[j - 1] \div BOXBYTE)
  <2>1. j \in 0..NONCEBYTES /\ j # 0
    BY <1>1
  <2> QED BY <1>9, <2>1
<1>13. Sums(chosen, c)
  BY <1>11, <1>12 DEF Sums
<1> QED BY <1>10, <1>13

(* The counter carries: one more in digits is the digits of one more.      *)
LEMMA Incremented ==
  ASSUME BoxAssumption, NEW i \in Nat
  PROVE  Increment(CounterBytes(i)) = CounterBytes(i + 1)
<1> DEFINE B == BOXBYTE
           N == NONCEBYTES
           P == BoxPower
           c == CounterBytes(i)
           d == CounterBytes(i + 1)
<1>1. /\ B \in Nat /\ B > 0 /\ N \in Nat /\ P[0] = 1
      /\ \A k \in Nat : P[k] \in Nat /\ P[k] > 0 /\ P[k + 1] = B * P[k]
  BY PowersFacts DEF BoxAssumption, BoxPower
<1>2. /\ c \in Counters /\ \A j \in 1..N : c[j] = (i \div P[j - 1]) % B
      /\ d \in Counters /\ \A j \in 1..N : d[j] = ((i + 1) \div P[j - 1]) % B
  <2>1. i + 1 \in Nat
    OBVIOUS
  <2> QED BY <2>1, CounterFacts
<1> HIDE DEF c, d, P
<1>3. PICK u : Sums(u, c) /\ Increment(c) = Remainders(u)
  BY <1>2, SumsExist
<1>4. u[0] = B /\ \A j \in 1..N : u[j] = c[j] + (u[j - 1] \div B)
  BY <1>3 DEF Sums
<1> DEFINE CarriesAt(j) == /\ u[j] \in Nat
                           /\ (i + 1) \div P[j] = (i \div P[j]) + (u[j] \div B)
           A == {k \in Nat : k <= N => CarriesAt(k)}
<1>5. CarriesAt(0)
  <2>1. B \div B = 1
    <3>1. 0 \in 0..(B - 1) /\ B = 1 * B + 0
      BY <1>1
    <3> QED BY <1>1, <3>1, DivisionUnique
  <2>2. (i + 1) \div 1 = i + 1 /\ i \div 1 = i
    OBVIOUS
  <2> QED BY <1>1, <1>4, <2>1, <2>2
<1>6. ASSUME NEW k \in Nat, k + 1 <= N, CarriesAt(k)
      PROVE  CarriesAt(k + 1) /\ u[k + 1] % B = d[k + 1]
  <2> DEFINE p == P[k]
             q == i \div p
             e == u[k] \div B
             v == u[k + 1]
  <2>1. k + 1 \in 1..N /\ (k + 1) - 1 = k
    BY <1>1, <1>6
  <2>2. p \in Nat /\ p > 0 /\ P[k + 1] = B * p
    BY <1>1
  <2>3. v = (q % B) + e
    BY <1>2, <1>4, <2>1
  <2>4. (i + 1) \div p = q + e /\ u[k] \in Nat
    BY <1>6
  <2>5. d[k + 1] = ((i + 1) \div p) % B
    BY <1>2, <2>1
  <2>6. q \in Nat
    <3> HIDE DEF p
    <3> QED BY <2>2, Division
  <2>7. e \in Nat
    <3> DEFINE x == u[k]
    <3>1. x \in Nat
      BY <2>4
    <3> HIDE DEF x
    <3>2. x \div B \in Nat
      BY <1>1, <3>1, Division
    <3> QED BY <3>2 DEF x
  <2>8. i + 1 \in Nat
    OBVIOUS
  <2>9. (i + 1) \div (B * p) = ((i + 1) \div p) \div B /\ i \div (B * p) = q \div B
    <3> HIDE DEF p
    <3> QED BY <1>1, <2>2, <2>8, NestedDivision
  <2> HIDE DEF p, q, e, v
  <2>10. q % B \in Nat
    BY <1>1, <2>6, Division
  <2>11. v \in Nat
    BY <2>3, <2>7, <2>10
  <2>12. (q + e) \div B = (q \div B) + (v \div B) /\ (q + e) % B = v % B
    BY <1>1, <2>3, <2>6, <2>7, QuotientOfSum
  <2>13. (i + 1) \div P[k + 1] = (i \div P[k + 1]) + (v \div B)
    BY <2>2, <2>4, <2>9, <2>12
  <2>14. v % B = d[k + 1]
    BY <2>4, <2>5, <2>12
  <2> QED BY <2>11, <2>13, <2>14 DEF v
<1>7. Nat \subseteq A
  <2>1. 0 \in A
    BY <1>5
  <2>2. ASSUME NEW k \in Nat, k \in A PROVE k + 1 \in A
    <3>1. CASE k + 1 <= N
      <4>1. k <= N
        BY <1>1, <3>1
      <4>2. CarriesAt(k)
        BY <2>2, <4>1
      <4> HIDE DEF CarriesAt
      <4>3. CarriesAt(k + 1)
        BY <1>6, <3>1, <4>2
      <4> QED BY <4>3
    <3>2. CASE ~(k + 1 <= N)
      BY <3>2
    <3> QED BY <3>1, <3>2
  <2> HIDE DEF A
  <2> QED BY <2>1, <2>2, SetInduction
<1>8. ASSUME NEW j \in 1..N PROVE u[j] % B = d[j]
  <2> DEFINE k == j - 1
  <2>1. k \in Nat /\ k + 1 = j /\ k + 1 <= N /\ k <= N
    BY <1>1
  <2> HIDE DEF k
  <2>2. CarriesAt(k)
    BY <1>7, <2>1
  <2> HIDE DEF CarriesAt
  <2>3. u[k + 1] % B = d[k + 1]
    BY <1>6, <2>1, <2>2
  <2> QED BY <2>1, <2>3
<1> DEFINE f == [j \in 1..N |-> u[j] % B]
<1>9. f = d
  <2>1. d = [j \in 1..N |-> d[j]]
    BY <1>2 DEF Counters
  <2> QED BY <1>8, <2>1
<1>10. SubSeq(f, 1, N) = f
  <2>1. f \in [1..N -> 0..(B - 1)]
    BY <1>2, <1>9 DEF Counters
  <2> HIDE DEF f
  <2> QED BY <1>1, <2>1, WholeArray
<1>11. Increment(c) = SubSeq(f, 1, N)
  BY <1>3, Zenon DEF Array, Remainders
<1> QED BY <1>9, <1>10, <1>11 DEF c, d

(* A counter of bytes stays one.                                           *)
LEMMA IncrementStays ==
  ASSUME BoxAssumption, NEW c \in Counters
  PROVE  Increment(c) \in Counters
<1> DEFINE B == BOXBYTE
           N == NONCEBYTES
<1>1. B \in Nat /\ B > 0 /\ N \in Nat
  BY DEF BoxAssumption
<1>2. PICK u : Sums(u, c) /\ Increment(c) = Remainders(u)
  BY SumsExist
<1>3. u[0] = B /\ \A j \in 1..N : u[j] = c[j] + (u[j - 1] \div B)
  BY <1>2 DEF Sums
<1> DEFINE A == {k \in Nat : k <= N => u[k] \in Nat}
<1>4. 0 \in A
  BY <1>1, <1>3
<1>5. ASSUME NEW k \in Nat, k \in A PROVE k + 1 \in A
  <2>1. CASE k + 1 <= N
    <3> DEFINE x == u[k]
               y == c[k + 1]
    <3>1. k + 1 \in 1..N /\ (k + 1) - 1 = k /\ x \in Nat
      BY <1>1, <1>5, <2>1
    <3>2. u[k + 1] = y + (x \div B)
      BY <1>3, <3>1
    <3>3. y \in 0..(B - 1)
      BY <3>1 DEF Counters
    <3> HIDE DEF x, y
    <3>4. x \div B \in Nat
      BY <1>1, <3>1, Division
    <3>5. y + (x \div B) \in Nat
      BY <1>1, <3>3, <3>4
    <3> QED BY <3>2, <3>5
  <2>2. CASE ~(k + 1 <= N)
    BY <2>2
  <2> QED BY <2>1, <2>2
<1> HIDE DEF A
<1>6. Nat \subseteq A
  BY <1>4, <1>5, SetInduction
<1>7. ASSUME NEW j \in 1..N PROVE u[j] % B \in 0..(B - 1)
  <2> DEFINE x == u[j]
  <2>1. j \in Nat /\ j <= N
    BY <1>1
  <2>2. x \in Nat
    BY <1>6, <2>1 DEF A
  <2> HIDE DEF x
  <2>3. x % B \in 0..(B - 1)
    BY <1>1, <2>2, Division
  <2> QED BY <2>3 DEF x
<1> DEFINE f == [j \in 1..N |-> u[j] % B]
<1>8. f \in [1..N -> 0..(B - 1)]
  BY <1>7
<1>9. Increment(c) = SubSeq(f, 1, N)
  BY <1>2, Zenon DEF Array, Remainders
<1> HIDE DEF f
<1>10. SubSeq(f, 1, N) = f
  BY <1>1, <1>8, WholeArray
<1> QED BY <1>8, <1>9, <1>10 DEF Counters

(* It begins at zero.                                                      *)
LEMMA CounterOfZero ==
  ASSUME BoxAssumption
  PROVE  Repeat(0, NONCEBYTES) = CounterBytes(0)
<1> DEFINE c == CounterBytes(0)
<1>1. BOXBYTE \in Nat /\ BOXBYTE > 0 /\ NONCEBYTES \in Nat /\ 0 \in Nat
  BY DEF BoxAssumption
<1>2. c \in Counters /\ \A j \in 1..NONCEBYTES : c[j] = (0 \div BoxPower[j - 1]) % BOXBYTE
  BY <1>1, CounterFacts
<1> HIDE DEF c
<1>3. ASSUME NEW j \in 1..NONCEBYTES PROVE c[j] = 0
  <2> DEFINE w == BoxPower[j - 1]
  <2>1. w \in Nat /\ w > 0
    <3>1. j - 1 \in Nat
      BY <1>1
    <3> QED BY <1>1, <3>1, PowersFacts DEF BoxPower
  <2>2. c[j] = (0 \div w) % BOXBYTE
    BY <1>2
  <2> HIDE DEF w
  <2>3. 0 = 0 * w + 0 /\ 0 \in 0..(w - 1) /\ 0 = 0 * BOXBYTE + 0 /\ 0 \in 0..(BOXBYTE - 1)
    BY <1>1, <2>1
  <2>4. 0 \div w = 0
    BY <2>1, <2>3, DivisionUnique
  <2>5. 0 % BOXBYTE = 0
    BY <1>1, <2>3, DivisionUnique
  <2> QED BY <2>2, <2>4, <2>5
<1>4. c = [j \in 1..NONCEBYTES |-> c[j]]
  BY <1>2 DEF Counters
<1>5. c = [j \in 1..NONCEBYTES |-> 0]
  BY <1>3, <1>4
<1> QED BY <1>5 DEF Repeat, c

-----------------------------------------------------------------------------
(* The stream. *)

(* Bytes are taken one by one.                                             *)
IsXor(x, a, b) ==
  /\ x \in Seq(Nat) /\ Len(x) = Len(a)
  /\ \A j \in 1..Len(a) : x[j] = With(a[j], b[j])

LEMMA XorBytesFacts ==
  ASSUME NEW S, NEW a \in Seq(S), NEW b
  PROVE  IsXor(XorBytes(a, b), a, b)
<1> DEFINE f == [j \in 1..Len(a) |-> With(a[j], b[j])]
<1>1. Len(a) \in Nat
  OBVIOUS
<1>2. f \in [1..Len(a) -> Nat] /\ \A j \in 1..Len(a) : f[j] = With(a[j], b[j])
  BY WithIsNumber
<1>3. XorBytes(a, b) = SubSeq(f, 1, Len(a))
  BY Zenon DEF XorBytes, Array, With
<1> HIDE DEF f
<1>4. SubSeq(f, 1, Len(a)) = f /\ f \in Seq(Nat) /\ Len(f) = Len(a)
  BY <1>1, <1>2, WholeArray
<1> QED BY <1>2, <1>3, <1>4 DEF IsXor

(* A byte of the keystream, and one of the stream of m.                    *)
KeyByte(n, k, j) ==
  Core(n \o CounterBytes((j - 1) \div STREAMBLOCK), k)[((j - 1) % STREAMBLOCK) + 1]

LEMMA KeystreamFacts ==
  ASSUME NEW d \in Nat, NEW n, NEW k
  PROVE  \A j \in 1..d : Keystream(d, n, k)[j] = KeyByte(n, k, j)
<1> DEFINE f == [j \in 1..d |-> KeyByte(n, k, j)]
           T == {KeyByte(n, k, j) : j \in 1..d}
<1>1. f \in [1..d -> T] /\ \A j \in 1..d : f[j] = KeyByte(n, k, j)
  OBVIOUS
<1>2. Keystream(d, n, k) = SubSeq(f, 1, d)
  BY Zenon DEF Keystream, Array, KeyByte
<1> HIDE DEF f, T
<1>3. SubSeq(f, 1, d) = f
  BY <1>1, WholeArray
<1> QED BY <1>1, <1>2, <1>3

StreamByte(m, n, k, j) == With(m[j], KeyByte(n, k, j))
Prefix(m, n, k, l) == [j \in 1..l |-> StreamByte(m, n, k, j)]

LEMMA PrefixFacts ==
  ASSUME NEW m, NEW n, NEW k, NEW l \in Nat
  PROVE  /\ Prefix(m, n, k, l) \in Seq(Nat) /\ Len(Prefix(m, n, k, l)) = l
         /\ \A j \in 1..l : Prefix(m, n, k, l)[j] = StreamByte(m, n, k, j)
<1>1. \A j \in 1..l : StreamByte(m, n, k, j) \in Nat
  BY WithIsNumber DEF StreamByte
<1> QED BY <1>1 DEF Prefix

(* All of it is the message with the keystream.                            *)
LEMMA PrefixIsXor ==
  ASSUME NEW S, NEW m \in Seq(S), NEW n, NEW k
  PROVE  Prefix(m, n, k, Len(m)) = XorBytes(m, Keystream(Len(m), n, k))
<1> DEFINE d == Len(m)
           ks == Keystream(d, n, k)
           x == XorBytes(m, ks)
           f == Prefix(m, n, k, d)
<1>1. d \in Nat
  OBVIOUS
<1>2. f \in Seq(Nat) /\ Len(f) = d /\ \A j \in 1..d : f[j] = With(m[j], KeyByte(n, k, j))
  BY <1>1, PrefixFacts DEF StreamByte
<1>3. \A j \in 1..d : ks[j] = KeyByte(n, k, j)
  BY <1>1, KeystreamFacts
<1> HIDE DEF ks
<1>4. x \in Seq(Nat) /\ Len(x) = d /\ \A j \in 1..d : x[j] = With(m[j], ks[j])
  BY XorBytesFacts DEF IsXor
<1> HIDE DEF x, f, d
<1>5. \A j \in 1..d : f[j] = x[j]
  BY <1>2, <1>3, <1>4
<1>6. f = x
  BY <1>2, <1>4, <1>5, SameSeq
<1> QED BY <1>6 DEF x, f, d, ks

(* A block, or what is left of one, with the block of its counter.         *)
IsPart(t, m, at, l) == Len(t) = l /\ \A j \in 1..l : t[j] = m[j + at]
Follows(t, m, n, k, i, at, l) ==
  Prefix(m, n, k, at) \o XorBytes(t, Core(n \o CounterBytes(i), k))
    = Prefix(m, n, k, at + l)

LEMMA BlockAdded ==
  ASSUME BoxAssumption, NEW S, NEW m \in Seq(S), NEW n, NEW k,
         NEW i \in Nat, NEW at, at = i * STREAMBLOCK, NEW l \in 0..STREAMBLOCK,
         NEW t \in Seq(S), IsPart(t, m, at, l)
  PROVE  Follows(t, m, n, k, i, at, l)
<1> DEFINE B == STREAMBLOCK
           key == Core(n \o CounterBytes(i), k)
           a == Prefix(m, n, k, at)
           b == XorBytes(t, key)
           c == Prefix(m, n, k, at + l)
<1>1. B \in Nat /\ B > 0 /\ at \in Nat /\ l \in Nat /\ at + l \in Nat
  BY DEF BoxAssumption
<1>2. a \in Seq(Nat) /\ Len(a) = at /\ \A j \in 1..at : a[j] = StreamByte(m, n, k, j)
  BY <1>1, PrefixFacts
<1>3. c \in Seq(Nat) /\ Len(c) = at + l
      /\ \A j \in 1..(at + l) : c[j] = StreamByte(m, n, k, j)
  BY <1>1, PrefixFacts
<1>4. IsXor(b, t, key)
  <2> HIDE DEF key
  <2> QED BY XorBytesFacts
<1>5. b \in Seq(Nat) /\ Len(b) = l /\ \A j \in 1..l : b[j] = With(m[j + at], key[j])
  BY <1>4 DEF IsXor, IsPart
<1>6. ASSUME NEW j \in 1..l PROVE key[j] = KeyByte(n, k, j + at)
  <2> DEFINE e == j - 1
  <2>1. e \in 0..(B - 1) /\ (j + at) - 1 = i * B + e
    BY <1>1
  <2>2. (i * B + e) \div B = i /\ (i * B + e) % B = e
    <3> HIDE DEF e
    <3> QED BY <1>1, <2>1, DivisionUnique
  <2>3. e + 1 = j
    BY <1>1
  <2> QED BY <2>1, <2>2, <2>3 DEF KeyByte
<1> HIDE DEF a, b, c, key
<1>7. a \o b \in Seq(Nat) /\ Len(a \o b) = at + l
      /\ \A j \in 1..(at + l) : (a \o b)[j] = IF j <= at THEN a[j] ELSE b[j - at]
  <2>1. IsJoined(a \o b, a, b, at, l)
    BY <1>2, <1>5, Joined
  <2> QED BY <2>1 DEF IsJoined
<1>8. ASSUME NEW j \in 1..(at + l) PROVE (a \o b)[j] = c[j]
  <2>1. CASE j <= at
    <3>1. j \in 1..at
      BY <1>1, <2>1
    <3> QED BY <1>2, <1>3, <1>7, <2>1, <3>1
  <2>2. CASE ~(j <= at)
    <3> DEFINE e == j - at
    <3>1. e \in 1..l /\ e + at = j
      BY <1>1, <2>2
    <3>2. (a \o b)[j] = b[e]
      BY <1>7, <2>2
    <3> HIDE DEF e
    <3>3. b[e] = With(m[j], key[e]) /\ key[e] = KeyByte(n, k, j)
      BY <1>5, <1>6, <3>1
    <3> QED BY <1>3, <3>2, <3>3 DEF StreamByte
  <2> QED BY <2>1, <2>2
<1>9. a \o b = c
  BY <1>3, <1>7, <1>8, SameSeq
<1> QED BY <1>9, Zenon DEF Follows, a, b, c, key

(* One turn of the loop. *)
States == Counters \X Seq(Nat)
TurnOf(m, n, k, s, i) ==
  <<Increment(s[1]),
    s[2] \o XorBytes(Take(Drop(m, (i - 1) * STREAMBLOCK), STREAMBLOCK),
                     Core(n \o s[1], k))>>

(* The block that a turn takes is a part of the message.                   *)
LEMMA BlockOf ==
  ASSUME BoxAssumption, NEW S, NEW m \in Seq(S), NEW i \in Nat, NEW at,
         at = i * STREAMBLOCK, at + STREAMBLOCK <= Len(m)
  PROVE  /\ Take(Drop(m, at), STREAMBLOCK) \in Seq(S)
         /\ Len(Take(Drop(m, at), STREAMBLOCK)) = STREAMBLOCK
         /\ \A j \in 1..STREAMBLOCK : Take(Drop(m, at), STREAMBLOCK)[j] = m[j + at]
<1> DEFINE B == STREAMBLOCK
           d == Drop(m, at)
           t == Take(d, B)
<1>1. B \in Nat /\ at \in 0..Len(m) /\ B <= Len(m) - at
  BY DEF BoxAssumption
<1>2. /\ d \in Seq(S) /\ Len(d) = Len(m) - at
      /\ \A j \in 1..(Len(m) - at) : d[j] = m[j + at]
  BY <1>1, TakeDrop
<1> HIDE DEF d
<1>3. B \in 0..Len(d)
  BY <1>1, <1>2
<1>4. t \in Seq(S) /\ Len(t) = B /\ \A j \in 1..B : t[j] = d[j]
  BY <1>2, <1>3, TakeDrop
<1>5. \A j \in 1..B : j \in 1..(Len(m) - at)
  BY <1>1
<1> HIDE DEF t
<1>6. \A j \in 1..B : t[j] = m[j + at]
  BY <1>2, <1>4, <1>5
<1> QED BY <1>4, <1>6 DEF t, d

(* The turns stay in the states of the loop.                               *)
LEMMA TurnStays ==
  ASSUME BoxAssumption, NEW S, NEW m \in Seq(S), NEW n, NEW k,
         NEW s \in States, NEW i \in Nat, i > 0, i * STREAMBLOCK <= Len(m)
  PROVE  TurnOf(m, n, k, s, i) \in States
<1> DEFINE B == STREAMBLOCK
           at == (i - 1) * B
           t == Take(Drop(m, at), B)
           key == Core(n \o s[1], k)
           x == XorBytes(t, key)
<1>1. B \in Nat /\ i - 1 \in Nat /\ at + B = i * B
  BY DEF BoxAssumption
<1>2. t \in Seq(S)
  BY <1>1, BlockOf
<1> HIDE DEF t, key
<1>3. x \in Seq(Nat)
  BY <1>2, XorBytesFacts DEF IsXor
<1> HIDE DEF x
<1>4. s[1] \in Counters /\ s[2] \in Seq(Nat)
  BY DEF States
<1>5. Increment(s[1]) \in Counters
  BY <1>4, IncrementStays
<1>6. s[2] \o x \in Seq(Nat)
  BY <1>3, <1>4
<1> DEFINE c == Increment(s[1])
           y == s[2] \o x
<1>7. TurnOf(m, n, k, s, i) = <<c, y>>
  BY Zenon DEF TurnOf, x, t, key
<1>8. c \in Counters /\ y \in Seq(Nat)
  BY <1>5, <1>6
<1> HIDE DEF c, y
<1>9. <<c, y>> \in States
  BY <1>8 DEF States
<1> QED BY <1>7, <1>9, Zenon

(* After i turns the counter is i and the first i blocks are done.         *)
Done(m, n, k, i) == <<CounterBytes(i), Prefix(m, n, k, i * STREAMBLOCK)>>

LEMMA TurnAdvances ==
  ASSUME BoxAssumption, NEW S, NEW m \in Seq(S), NEW n, NEW k,
         NEW i \in Nat, (i + 1) * STREAMBLOCK <= Len(m)
  PROVE  TurnOf(m, n, k, Done(m, n, k, i), i + 1) = Done(m, n, k, i + 1)
<1> DEFINE B == STREAMBLOCK
           at == i * B
           t == Take(Drop(m, at), B)
           key == Core(n \o CounterBytes(i), k)
<1>1. B \in Nat /\ (i + 1) - 1 = i /\ at + B = (i + 1) * B /\ B \in 0..B
  BY DEF BoxAssumption
<1>2. t \in Seq(S) /\ IsPart(t, m, at, B)
  BY <1>1, BlockOf DEF IsPart
<1> HIDE DEF t
<1>3. Prefix(m, n, k, at) \o XorBytes(t, key) = Prefix(m, n, k, at + B)
  <2>1. at = i * STREAMBLOCK /\ STREAMBLOCK \in 0..STREAMBLOCK
    BY <1>1
  <2> HIDE DEF at
  <2>2. Follows(t, m, n, k, i, at, STREAMBLOCK)
    BY <1>2, <2>1, BlockAdded, Zenon
  <2> QED BY <2>2 DEF Follows
<1>4. Increment(CounterBytes(i)) = CounterBytes(i + 1)
  BY Incremented
<1>5. TurnOf(m, n, k, Done(m, n, k, i), i + 1)
        = <<Increment(CounterBytes(i)), Prefix(m, n, k, at) \o XorBytes(t, key)>>
  BY <1>1 DEF TurnOf, Done, t
<1>6. TurnOf(m, n, k, Done(m, n, k, i), i + 1) = <<CounterBytes(i + 1), Prefix(m, n, k, at + B)>>
  BY <1>3, <1>4, <1>5, Zenon
<1>7. at + B = (i + 1) * B
  BY <1>1
<1> QED BY <1>6, <1>7, Zenon DEF Done

(* The loop of the code does all whole blocks.                             *)
StreamLoop(m, n, k, N) ==
  LET Turn(s, i) == TurnOf(m, n, k, s, i)
  IN  Loop(States, Turn, <<Repeat(0, NONCEBYTES), <<>>>>, N)

LEMMA LoopIsDone ==
  ASSUME BoxAssumption, NEW S, NEW m \in Seq(S), NEW n, NEW k,
         NEW N \in Nat, N * STREAMBLOCK <= Len(m)
  PROVE  StreamLoop(m, n, k, N) = Done(m, n, k, N)
<1> DEFINE B == STREAMBLOCK
           Turn(s, i) == TurnOf(m, n, k, s, i)
           step == [p \in States \X Nat |->
                      IF p[2] > 0 /\ p[2] <= N THEN Turn(p[1], p[2]) ELSE p[1]]
           first == Done(m, n, k, 0)
           K == 1..(N + 1)
           Is(run) == run = [p \in States \X K |->
                               IF p[2] > N THEN p[1]
                               ELSE run[<<Turn(p[1], p[2]), p[2] + 1>>]]
           chosen == CHOOSE run : Is(run)
<1>1. B \in Nat /\ B > 0
  BY DEF BoxAssumption
<1>2. ASSUME NEW i \in Nat, i <= N PROVE i * B <= Len(m) /\ i * B \in Nat
  <2>1. i * B <= N * B
    BY <1>1, <1>2
  <2>2. i * B \in Nat /\ N * B \in Nat
    BY <1>1
  <2> QED BY <2>1, <2>2
<1>3. ASSUME NEW s \in States, NEW i \in Nat, i > 0, i <= N PROVE Turn(s, i) \in States
  BY <1>2, <1>3, TurnStays
<1>4. first \in States /\ first = <<Repeat(0, NONCEBYTES), <<>>>>
  <2> DEFINE e == Prefix(m, n, k, 0)
  <2>1. e \in Seq(Nat) /\ Len(e) = 0
    BY PrefixFacts
  <2> HIDE DEF e
  <2>2. e = <<>>
    BY <2>1
  <2>3. CounterBytes(0) \in Counters
    BY CounterFacts
  <2>4. first = <<CounterBytes(0), e>>
    BY <1>1 DEF Done, e
  <2>5. <<CounterBytes(0), e>> \in States
    BY <2>1, <2>3 DEF States
  <2> QED BY <2>2, <2>4, <2>5, CounterOfZero
<1> HIDE DEF Turn
<1>5. /\ step \in [States \X Nat -> States]
      /\ \A s \in States : \A i \in Nat :
           i > 0 /\ i <= N => step[<<s, i>>] = Turn(s, i)
  <2> HIDE DEF States
  <2> QED BY <1>3
<1> HIDE DEF step, first
<1>6. ASSUME NEW run, IsLoop(run, States, N, step) PROVE Is(run)
  <2>1. ASSUME NEW p \in States \X K, ~(p[2] > N)
        PROVE  step[<<p[1], p[2]>>] = Turn(p[1], p[2])
    <3>1. p[1] \in States /\ p[2] \in Nat /\ p[2] > 0 /\ p[2] <= N
      <4> HIDE DEF States
      <4> QED BY <2>1
    <3> QED BY <1>5, <3>1
  <2>2. run = [p \in States \X K |->
                 IF p[2] > N THEN p[1] ELSE run[<<step[<<p[1], p[2]>>], p[2] + 1>>]]
    BY <1>6 DEF IsLoop
  <2> HIDE DEF K, States
  <2> QED BY <2>1, <2>2
<1>7. ASSUME NEW run, Is(run) PROVE IsLoop(run, States, N, step)
  <2>1. ASSUME NEW p \in States \X K, ~(p[2] > N)
        PROVE  step[<<p[1], p[2]>>] = Turn(p[1], p[2])
    <3>1. p[1] \in States /\ p[2] \in Nat /\ p[2] > 0 /\ p[2] <= N
      <4> HIDE DEF States
      <4> QED BY <2>1
    <3> QED BY <1>5, <3>1
  <2>2. run = [p \in States \X K |->
                 IF p[2] > N THEN p[1] ELSE run[<<step[<<p[1], p[2]>>], p[2] + 1>>]]
    <3>1. run = [p \in States \X K |->
                   IF p[2] > N THEN p[1] ELSE run[<<Turn(p[1], p[2]), p[2] + 1>>]]
      BY <1>7
    <3> HIDE DEF K, States
    <3> QED BY <2>1, <3>1
  <2> QED BY <2>2 DEF IsLoop
<1>8. Is(chosen)
  <2>1. \E run : IsLoop(run, States, N, step)
    <3> HIDE DEF States
    <3> QED BY <1>5, LoopExists
  <2>2. PICK run : IsLoop(run, States, N, step)
    BY <2>1
  <2>3. Is(run)
    BY <1>6, <2>2
  <2> HIDE DEF Is
  <2> QED BY <2>3, Zenon
<1>9. StreamLoop(m, n, k, N) = chosen[<<first, 1>>]
  BY <1>4, Zenon DEF StreamLoop, Loop, Turn
<1> HIDE DEF chosen
<1>10. IsLoop(chosen, States, N, step)
  <2> HIDE DEF Is
  <2> QED BY <1>7, <1>8
<1> HIDE DEF States
<1> DEFINE last == chosen[<<first, 1>>]
<1>20. EndsIn(last, States, first, N, step)
  <2>1. first \in States /\ step \in [States \X Nat -> States]
    BY <1>4, <1>5
  <2> HIDE DEF Is, K
  <2> QED BY <1>10, <2>1, LoopTurns
<1>11. PICK g : Advances(g, States, first, step) /\ last = g[N]
  BY <1>20, Zenon DEF EndsIn
<1>12. /\ g \in [Nat -> States] /\ g[0] = first
       /\ \A i \in Nat : g[i + 1] = step[<<g[i], i + 1>>]
  BY <1>11 DEF Advances
<1> DEFINE A == {i \in Nat : i <= N => g[i] = Done(m, n, k, i)}
<1>13. 0 \in A
  BY <1>12 DEF first
<1>14. ASSUME NEW i \in Nat, i \in A PROVE i + 1 \in A
  <2>1. CASE i + 1 <= N
    <3>1. i + 1 \in Nat /\ i + 1 > 0 /\ g[i] \in States /\ g[i] = Done(m, n, k, i)
      BY <1>12, <1>14, <2>1
    <3>2. g[i + 1] = Turn(g[i], i + 1)
      BY <1>5, <1>12, <2>1, <3>1
    <3>3. (i + 1) * B <= Len(m)
      BY <1>2, <2>1, <3>1
    <3>4. Turn(Done(m, n, k, i), i + 1) = Done(m, n, k, i + 1)
      BY <3>3, TurnAdvances DEF Turn
    <3> QED BY <3>1, <3>2, <3>4
  <2>2. CASE ~(i + 1 <= N)
    BY <2>2
  <2> QED BY <2>1, <2>2
<1> HIDE DEF A
<1>15. N \in A
  BY <1>13, <1>14, SetInduction
<1>16. g[N] = Done(m, n, k, N)
  BY <1>15 DEF A
<1> QED BY <1>9, <1>11, <1>16, Zenon

(* crypto_stream_salsa20_xor is the message with the keystream of the      *)
(* nonce, of a counter that carries, the last block cut short: whatever    *)
(* the cores, and for messages of any length.                              *)
THEOREM StreamIsXor ==
  ASSUME BoxAssumption, NEW S, NEW m \in Seq(S), NEW n, NEW k
  PROVE  crypto_stream_salsa20_xor(m, n, k) = XorBytes(m, Keystream(Len(m), n, k))
<1> DEFINE B == STREAMBLOCK
           b == Len(m)
           N == b \div B
           e == b % B
           at == N * B
           tail == Drop(m, b - e)
           key == Core(n \o CounterBytes(N), k)
           s == StreamLoop(m, n, k, N)
<1>1. B \in Nat /\ B > 0 /\ b \in Nat
  BY DEF BoxAssumption
<1>2. N \in Nat /\ e \in 0..(B - 1) /\ b = at + e
  <2> HIDE DEF b
  <2> QED BY <1>1, Division
<1> HIDE DEF N, e
<1>3. at \in Nat /\ at <= b /\ b - e = at /\ at \in 0..b /\ b - at = e /\ e \in 0..B
  BY <1>1, <1>2
<1>4. s = Done(m, n, k, N)
  BY <1>2, <1>3, LoopIsDone
<1>5. crypto_stream_salsa20_xor(m, n, k)
        = IF tail = <<>> THEN s[2] ELSE s[2] \o XorBytes(tail, Core(n \o s[1], k))
  BY Zenon DEF crypto_stream_salsa20_xor, StreamLoop, Loop, States, TurnOf, N, e
<1>6. s[1] = CounterBytes(N) /\ s[2] = Prefix(m, n, k, at)
  BY <1>4 DEF Done
<1> HIDE DEF s
<1>7. tail \in Seq(S) /\ IsPart(tail, m, at, e) /\ Len(tail) = e
  <2>1. tail = Drop(m, at)
    BY <1>3
  <2>2. at \in 0..Len(m) /\ Len(m) - at = e
    BY <1>3
  <2> HIDE DEF at, tail, key, B, b
  <2>3. /\ tail \in Seq(S) /\ Len(tail) = Len(m) - at
        /\ \A j \in 1..(Len(m) - at) : tail[j] = m[j + at]
    BY <2>1, <2>2, TakeDrop
  <2> QED BY <2>2, <2>3 DEF IsPart
<1>8. Prefix(m, n, k, at) \o XorBytes(tail, key) = Prefix(m, n, k, b)
  <2>1. at = N * STREAMBLOCK /\ e \in 0..STREAMBLOCK /\ N \in Nat
    BY <1>2, <1>3
  <2> HIDE DEF tail, at
  <2>2. Follows(tail, m, n, k, N, at, e)
    BY <1>7, <2>1, BlockAdded, Zenon
  <2> QED BY <1>2, <2>2 DEF Follows
<1>9. CASE tail = <<>>
  <2>1. e = 0 /\ at = b
    <3> HIDE DEF tail
    <3> QED BY <1>2, <1>3, <1>7, <1>9
  <2>2. crypto_stream_salsa20_xor(m, n, k) = Prefix(m, n, k, b)
    <3> HIDE DEF tail
    <3> QED BY <1>5, <1>6, <1>9, <2>1
  <2> QED BY <2>2, PrefixIsXor
<1>10. CASE tail # <<>>
  <2>1. crypto_stream_salsa20_xor(m, n, k) = Prefix(m, n, k, b)
    <3> HIDE DEF tail
    <3> QED BY <1>5, <1>6, <1>8, <1>10, Zenon DEF key
  <2> QED BY <2>1, PrefixIsXor
<1> QED BY <1>9, <1>10

-----------------------------------------------------------------------------
(* Boxes. *)

(* A byte of the keystream of a box.                                       *)
SecretByte(n, k, j) ==
  KeyByte(Drop(n, 2 * NONCEBYTES), HCore(Take(n, 2 * NONCEBYTES), k), j)
IsStream(x, m, n, k) ==
  /\ x \in Seq(Nat) /\ Len(x) = Len(m)
  /\ \A j \in 1..Len(m) : x[j] = With(m[j], SecretByte(n, k, j))

LEMMA StreamBytes ==
  ASSUME BoxAssumption, NEW S, NEW m \in Seq(S), NEW n, NEW k
  PROVE  IsStream(crypto_stream_xor(m, n, k), m, n, k)
<1> DEFINE nn == Drop(n, 2 * NONCEBYTES)
           kk == HCore(Take(n, 2 * NONCEBYTES), k)
           d == Len(m)
           ks == Keystream(d, nn, kk)
           x == XorBytes(m, ks)
<1>1. crypto_stream_xor(m, n, k) = crypto_stream_salsa20_xor(m, nn, kk)
  BY Zenon DEF crypto_stream_xor
<1>2. \A j \in 1..d : SecretByte(n, k, j) = KeyByte(nn, kk, j)
  BY Zenon DEF SecretByte
<1> HIDE DEF nn, kk
<1>3. crypto_stream_xor(m, n, k) = x
  BY <1>1, StreamIsXor, Zenon
<1>4. d \in Nat
  OBVIOUS
<1>5. \A j \in 1..d : ks[j] = KeyByte(nn, kk, j)
  BY <1>4, KeystreamFacts
<1> HIDE DEF ks
<1>6. IsXor(x, m, ks)
  BY XorBytesFacts
<1> HIDE DEF x
<1>7. x \in Seq(Nat) /\ Len(x) = d /\ \A j \in 1..d : x[j] = With(m[j], ks[j])
  BY <1>6 DEF IsXor
<1>8. \A j \in 1..d : x[j] = With(m[j], SecretByte(n, k, j))
  BY <1>2, <1>5, <1>7
<1> QED BY <1>3, <1>7, <1>8 DEF IsStream

(* An authenticator has the bytes of one.                                  *)
IsArray(a, n) == \E T : a \in Seq(T) /\ Len(a) = n

LEMMA CarriedFacts ==
  ASSUME NEW v, Len(v) \in Nat
  PROVE  IsArray(Carried(v), Len(v))
<1> DEFINE u == Carries(v, 0)
           At(j) == u[j] % BOXBYTE
           d == Len(v)
           f == [j \in 1..d |-> At(j)]
           T == {At(j) : j \in 1..d}
<1>1. Carried(v) = SubSeq(f, 1, d)
  BY Zenon DEF Carried, Array
<1> HIDE DEF At
<1>2. f \in [1..d -> T] /\ d \in Nat
  OBVIOUS
<1> HIDE DEF f, T, d
<1>3. SubSeq(f, 1, d) \in Seq(T) /\ Len(SubSeq(f, 1, d)) = d
  BY <1>2, WholeArray
<1>4. Carried(v) \in Seq(T) /\ Len(Carried(v)) = d
  BY <1>1, <1>3
<1> QED BY <1>4, Zenon DEF IsArray, d

LEMMA MacFacts ==
  ASSUME BoxAssumption, NEW m, NEW k
  PROVE  IsArray(crypto_onetimeauth(m, k), MACBYTES)
<1>1. LAST \in Nat /\ MACBYTES \in 0..LAST /\ LAST # 0
  BY DEF BoxAssumption, LAST
<1>2. ASSUME NEW h, NEW c PROVE IsArray(add1305(h, c), LAST)
  <2> DEFINE f == [j \in 1..LAST |-> h[j] + c[j]]
             T == {h[j] + c[j] : j \in 1..LAST}
             v == SubSeq(f, 1, LAST)
  <2>1. add1305(h, c) = Carried(v)
    BY Zenon DEF add1305, Array
  <2>2. f \in [1..LAST -> T]
    OBVIOUS
  <2> HIDE DEF f, T
  <2>3. Len(v) = LAST
    BY <1>1, <2>2, WholeArray
  <2> HIDE DEF v
  <2>4. IsArray(Carried(v), Len(v))
    BY <1>1, <2>3, CarriedFacts
  <2> QED BY <2>1, <2>3, <2>4, Zenon
<1>3. \E h, c : crypto_onetimeauth(m, k) = Take(add1305(h, c), MACBYTES)
  BY Zenon DEF crypto_onetimeauth
<1>4. PICK h, c : crypto_onetimeauth(m, k) = Take(add1305(h, c), MACBYTES)
  BY <1>3
<1> DEFINE a == add1305(h, c)
<1>5. PICK T : a \in Seq(T) /\ Len(a) = LAST
  BY <1>2 DEF IsArray
<1> HIDE DEF a
<1>6. Take(a, MACBYTES) \in Seq(T) /\ Len(Take(a, MACBYTES)) = MACBYTES
  BY <1>1, <1>5, TakeDrop
<1>7. IsArray(Take(a, MACBYTES), MACBYTES)
  BY <1>6, Zenon DEF IsArray
<1> QED BY <1>4, <1>7, Zenon DEF a

(* The parts of a box.                                                     *)
IsBox(box, a, r, T, K) ==
  /\ box \in Seq(T) /\ Len(box) = 2 * K + Len(r)
  /\ Drop(Take(box, 2 * K), K) = a /\ Drop(box, 2 * K) = r

LEMMA BoxLayout ==
  ASSUME NEW T, NEW K \in Nat, NEW z \in Seq(T), NEW a \in Seq(T), NEW r \in Seq(T),
         Len(z) = K, Len(a) = K
  PROVE  IsBox((z \o a) \o r, a, r, T, K)
<1> DEFINE p == z \o a
           box == p \o r
<1>1. p \in Seq(T) /\ Len(p) = 2 * K
  <2>1. p \in Seq(T) /\ Len(p) = Len(z) + Len(a)
    BY Concatenation
  <2> HIDE DEF p
  <2>2. K + K = 2 * K
    OBVIOUS
  <2> QED BY <2>1, <2>2
<1>2. Drop(p, Len(z)) = a
  BY DropOfCat
<1> HIDE DEF p
<1>3. box \in Seq(T) /\ Len(box) = 2 * K + Len(r)
  BY <1>1, Concatenation
<1>4. Drop(box, Len(p)) = r
  BY <1>1, DropOfCat
<1>5. SubSeq(box, 1, Len(p)) = p
  BY <1>1, PrefixOfCat
<1> HIDE DEF box
<1>6. Take(box, 2 * K) = p
  BY <1>1, <1>5 DEF Take
<1>7. Drop(Take(box, 2 * K), K) = a /\ Drop(box, 2 * K) = r
  BY <1>1, <1>2, <1>4, <1>6
<1> QED BY <1>3, <1>7 DEF IsBox, box, p

(* What was put into a box, behind its zeros, comes out of it: the key of  *)
(* the authenticator is the stream over zeros at both ends, the one taken  *)
(* off is what was put on, and the message, which is what BoxOpens checks  *)
(* of two ends.                                                            *)
THEOREM SecretBoxOpens ==
  ASSUME BoxAssumption, NEW m \in Seq(Numbers), Len(m) >= ZEROBYTES,
         \A j \in 1..ZEROBYTES : m[j] = 0, NEW n, NEW k, NEW out
  PROVE  crypto_secretbox_open(out, crypto_secretbox(m, n, k), n, k)
           = [valid |-> TRUE, m |-> m]
<1> DEFINE K == MACBYTES
           Z == ZEROBYTES
           d == Len(m)
           c == crypto_stream_xor(m, n, k)
           x == crypto_stream(Z, n, k)
           zeros == Repeat(0, Z)
           rest == Drop(c, Z)
           auth == crypto_onetimeauth(rest, x)
           box == crypto_secretbox(m, n, k)
           y == crypto_stream_xor(box, n, k)
           opened == zeros \o Drop(y, Z)
<1>1. K \in Nat /\ Z = 2 * K /\ Z \in Nat /\ d \in Nat /\ Z \in 0..d /\ d - Z \in Nat
  BY DEF BoxAssumption, ZEROBYTES
<1>2. /\ c \in Seq(Nat) /\ Len(c) = d
      /\ \A j \in 1..d : c[j] = With(m[j], SecretByte(n, k, j))
  BY StreamBytes DEF IsStream
<1>3. zeros \in Seq(Nat) /\ Len(zeros) = Z /\ \A j \in 1..Z : zeros[j] = 0
  <2> HIDE DEF Z
  <2> QED BY <1>1 DEF Repeat
<1>4. /\ x \in Seq(Nat) /\ Len(x) = Z
      /\ \A j \in 1..Z : x[j] = With(0, SecretByte(n, k, j))
  <2>1. x = crypto_stream_xor(zeros, n, k)
    BY Zenon DEF crypto_stream
  <2> HIDE DEF x, zeros
  <2>2. IsStream(x, zeros, n, k)
    BY <1>3, <2>1, StreamBytes
  <2> HIDE DEF Z
  <2> QED BY <1>3, <2>2 DEF IsStream
<1> HIDE DEF c, x
<1>5. x = Take(c, Z)
  <2> DEFINE t == Take(c, Z)
  <2>1. t \in Seq(Nat) /\ Len(t) = Z /\ \A j \in 1..Z : t[j] = c[j]
    BY <1>1, <1>2, TakeDrop
  <2> HIDE DEF t
  <2>2. \A j \in 1..Z : j \in 1..d /\ m[j] = 0
    BY <1>1
  <2>3. \A j \in 1..Z : t[j] = x[j]
    BY <1>2, <1>4, <2>1, <2>2
  <2>4. t = x
    <3> HIDE DEF Z
    <3> QED BY <1>4, <2>1, <2>3, SameSeq
  <2> QED BY <2>4 DEF t
<1>6. rest \in Seq(Nat) /\ Len(rest) = d - Z /\ \A j \in 1..(d - Z) : rest[j] = c[j + Z]
  BY <1>1, <1>2, TakeDrop
<1> DEFINE z == Repeat(0, K)
<1>7. box = (z \o auth) \o rest
  <2>1. ~(Len(m) < ZEROBYTES)
    BY <1>1
  <2>2. box = (z \o crypto_onetimeauth(Drop(c, Z), Take(c, Z))) \o Drop(c, Z)
    BY <2>1, Zenon DEF crypto_secretbox, c
  <2> QED BY <1>5, <2>2, Zenon
<1>8. z \in Seq(Nat) /\ Len(z) = K
  BY <1>1 DEF Repeat
<1>9. PICK T : auth \in Seq(T) /\ Len(auth) = K
  BY MacFacts DEF IsArray
<1> HIDE DEF auth, rest, z, box
<1> DEFINE U == T \cup Nat
<1>10. IsBox(box, auth, rest, U, K)
  <2>1. T \in SUBSET U /\ Nat \in SUBSET U
    OBVIOUS
  <2> HIDE DEF U
  <2>2. z \in Seq(U) /\ auth \in Seq(U) /\ rest \in Seq(U)
    BY <1>6, <1>8, <1>9, <2>1, WiderSeq
  <2>3. IsBox((z \o auth) \o rest, auth, rest, U, K)
    BY <1>1, <1>8, <1>9, <2>2, BoxLayout
  <2> QED BY <1>7, <2>3
<1> HIDE DEF U
<1>11. /\ box \in Seq(U) /\ Len(box) = d /\ Drop(Take(box, Z), K) = auth
       /\ Drop(box, Z) = rest
  BY <1>1, <1>6, <1>10 DEF IsBox
<1>12. crypto_secretbox_open(out, box, n, k) = [valid |-> TRUE, m |-> opened]
  <2>1. crypto_onetimeauth_verify(Drop(Take(box, Z), K), Drop(box, Z), x)
    BY <1>11, Zenon DEF crypto_onetimeauth_verify, auth
  <2>2. Len(box) >= Z
    BY <1>1, <1>11
  <2> QED BY <2>1, <2>2, Zenon DEF crypto_secretbox_open, x
<1>13. \A j \in 1..(d - Z) : box[j + Z] = rest[j]
  <2>1. Z \in 0..Len(box)
    BY <1>1, <1>11
  <2>2. \A j \in 1..(Len(box) - Z) : Drop(box, Z)[j] = box[j + Z]
    <3> HIDE DEF Z
    <3> QED BY <1>11, <2>1, TakeDrop
  <2> QED BY <1>11, <2>2
<1>14. y \in Seq(Nat) /\ Len(y) = d /\ \A j \in 1..d : y[j] = With(box[j], SecretByte(n, k, j))
  <2>1. IsStream(y, box, n, k)
    BY <1>11, StreamBytes
  <2> HIDE DEF y, d
  <2> QED BY <1>11, <2>1 DEF IsStream
<1> HIDE DEF y
<1>15. ASSUME NEW j \in 1..(d - Z) PROVE y[j + Z] = m[j + Z]
  <2> DEFINE i == j + Z
             b == SecretByte(n, k, i)
  <2>1. i \in 1..d
    BY <1>1
  <2>2. m[i] \in Numbers
    BY <2>1
  <2>3. box[i] = c[i]
    BY <1>6, <1>13
  <2> HIDE DEF i, d
  <2>4. c[i] = With(m[i], b) /\ y[i] = With(box[i], b)
    BY <1>2, <1>14, <2>1
  <2> HIDE DEF b
  <2>5. y[i] = m[i]
    BY <2>2, <2>3, <2>4, TakenOff, Zenon
  <2> QED BY <2>5 DEF i
<1> DEFINE tail == Drop(y, Z)
<1>16. tail \in Seq(Nat) /\ Len(tail) = d - Z /\ \A j \in 1..(d - Z) : tail[j] = y[j + Z]
  BY <1>1, <1>14, TakeDrop
<1> HIDE DEF tail, zeros
<1>17. opened \in Seq(Nat) /\ Len(opened) = d
       /\ \A j \in 1..d : opened[j] = IF j <= Z THEN zeros[j] ELSE tail[j - Z]
  <2>1. IsJoined(zeros \o tail, zeros, tail, Z, d - Z)
    BY <1>3, <1>16, Joined
  <2>2. Z + (d - Z) = d
    BY <1>1
  <2>3. opened = zeros \o tail
    BY DEF tail
  <2> HIDE DEF opened, Z, d
  <2> QED BY <2>1, <2>2, <2>3 DEF IsJoined
<1> HIDE DEF opened
<1>18. ASSUME NEW j \in 1..d PROVE opened[j] = m[j]
  <2>1. CASE j <= Z
    <3>1. j \in 1..Z
      BY <1>1, <2>1
    <3> QED BY <1>3, <1>17, <2>1, <3>1
  <2>2. CASE ~(j <= Z)
    <3> DEFINE e == j - Z
    <3>1. e \in 1..(d - Z) /\ e + Z = j
      BY <1>1, <2>2
    <3>2. opened[j] = tail[e]
      BY <1>17, <2>2
    <3> HIDE DEF e, Z, d
    <3> QED BY <1>15, <1>16, <3>1, <3>2
  <2> QED BY <2>1, <2>2
<1>19. m \in Seq(Nat)
  <2>1. Numbers \in SUBSET Nat
    BY NumberOfBits
  <2> QED BY <2>1, WiderSeq
<1>20. opened = m
  BY <1>17, <1>18, <1>19, SameSeq
<1> QED BY <1>12, <1>20, Zenon DEF box

(* A box that one end made the other opens, when each makes the same point *)
(* of its own secret and the public key of the other.                      *)
THEOREM BoxOpensAtOtherEnd ==
  ASSUME BoxAssumption, NEW m \in Seq(Numbers), Len(m) >= ZEROBYTES,
         \A j \in 1..ZEROBYTES : m[j] = 0, NEW n, NEW out,
         NEW x, NEW y, NEW xx, NEW yy, ScalarMult(x, yy) = ScalarMult(xx, y)
  PROVE  crypto_box_open(out, crypto_box(m, n, yy, x), n, y, xx)
           = [valid |-> TRUE, m |-> m]
<1> DEFINE k == crypto_box_beforenm(yy, x)
<1>1. crypto_box_beforenm(y, xx) = k
  BY Zenon DEF crypto_box_beforenm
<1>2. crypto_box_open(out, crypto_box(m, n, yy, x), n, y, xx)
        = crypto_secretbox_open(out, crypto_secretbox(m, n, k), n, k)
  BY <1>1, Zenon DEF crypto_box, crypto_box_open
<1> HIDE DEF k
<1> QED BY <1>2, SecretBoxOpens

(* The numbers are those below 65536, which are more than the bytes.       *)
LEMMA SixteenBits == PowersOf(2)[WIDTH] = 256 * 256
<1> DEFINE P == PowersOf(2)
<1>1. P[0] = 1 /\ \A i \in Nat : P[i + 1] = 2 * P[i]
  BY PowersFacts
<1> HIDE DEF P
<1>2. P[0 + 1] = 2 * P[0] /\ P[1 + 1] = 2 * P[1] /\ P[2 + 1] = 2 * P[2] /\ P[3 + 1] = 2 * P[3]
  BY <1>1
<1>3. P[4 + 1] = 2 * P[4] /\ P[5 + 1] = 2 * P[5] /\ P[6 + 1] = 2 * P[6] /\ P[7 + 1] = 2 * P[7]
  BY <1>1
<1>4. P[8] = 256
  BY <1>1, <1>2, <1>3
<1>5. P[8 + 1] = 2 * P[8] /\ P[9 + 1] = 2 * P[9] /\ P[10 + 1] = 2 * P[10] /\ P[11 + 1] = 2 * P[11]
  BY <1>1
<1>6. P[12 + 1] = 2 * P[12] /\ P[13 + 1] = 2 * P[13] /\ P[14 + 1] = 2 * P[14] /\ P[15 + 1] = 2 * P[15]
  BY <1>1
<1>7. P[16] = 256 * 256
  BY <1>4, <1>5, <1>6
<1> QED BY <1>7 DEF P, WIDTH

-----------------------------------------------------------------------------
(* The authenticator.  What digits stand for: *)

WorthOf(d) == Worth(d, BOXBYTE, LAST)
SameModulo(a, b) == Congruent(a, b, PRIME)

LEMMA MacSizes ==
  ASSUME BoxAssumption, MacAssumption
  PROVE  /\ BOXBYTE \in Nat /\ BOXBYTE >= 16 /\ BOXBYTE = 4 * (BOXBYTE \div 4) /\ BOXBYTE \div 4 \in Nat
         /\ MACBYTES \in Nat /\ MACBYTES > 0 /\ LAST \in Nat /\ LAST = MACBYTES + 1
         /\ BoxPower[MACBYTES] \in Nat /\ BoxPower[MACBYTES] >= 16
         /\ BoxPower[LAST] = BOXBYTE * BoxPower[MACBYTES]
         /\ LARGEST \in Nat /\ 3 * LARGEST <= BoxPower[MACBYTES]
         /\ PRIME \in Nat /\ PRIME = 4 * BoxPower[MACBYTES] - 5 /\ PRIME > 0
<1> DEFINE W == BOXBYTE
           K == MACBYTES
           P == BoxPower
<1>1. /\ W \in Nat /\ W >= 16 /\ W % 4 = 0 /\ W > 0 /\ K \in Nat /\ K > 0
      /\ 3 * LARGEST <= P[K]
  BY DEF BoxAssumption, MacAssumption
<1>2. P[0] = 1 /\ \A k \in Nat : P[k] \in Nat /\ P[k + 1] = W * P[k]
  BY <1>1, PowersFacts DEF BoxPower
<1>3. P[1] <= P[K]
  BY <1>1, PowersGrow DEF BoxPower
<1>4. PICK q \in Nat, r \in 0..(4 - 1) : W = q * 4 + r /\ W \div 4 = q /\ W % 4 = r
  BY <1>1, Division
<1>5. LAST = K + 1
  BY DEF LAST
<1>6. LARGEST \in Nat
  <2>1. W - 1 \in Nat /\ LAST \in Nat
    BY <1>1, <1>5
  <2>2. 5 * (W \div 4) * (W - 1) \in Nat
    BY <1>4, <2>1
  <2> DEFINE a == 5 * (W \div 4) * (W - 1)
             b == W - 1
  <2>3. LARGEST = LAST * (b * a)
    BY DEF LARGEST
  <2>4. a \in Nat /\ b \in Nat
    BY <2>1, <2>2
  <2> HIDE DEF a, b
  <2>5. b * a \in Nat
    BY <2>4
  <2> QED BY <2>1, <2>3, <2>5
<1>7. P[1] = W
  <2>1. P[0 + 1] = W * P[0]
    BY <1>2
  <2> QED BY <1>1, <1>2, <2>1
<1> HIDE DEF P
<1>8. PRIME = 4 * P[K] - 5
  BY DEF PRIME, P
<1>9. P[K] \in Nat /\ P[K] >= 16 /\ P[K + 1] = W * P[K]
  BY <1>1, <1>2, <1>3, <1>7
<1>10. PRIME \in Nat /\ PRIME > 0
  BY <1>8, <1>9
<1> QED BY <1>1, <1>4, <1>5, <1>6, <1>8, <1>9, <1>10 DEF P

(* Digits that are bytes. *)
Bytes(d) == d \in MacDigits /\ d \in Seq(Nat) /\ Len(d) = LAST /\ AreDigits(d, BOXBYTE, LAST)

LEMMA ArrayOfBytes ==
  ASSUME BoxAssumption, NEW f \in [1..LAST -> Nat], AreDigits(f, BOXBYTE, LAST)
  PROVE  SubSeq(f, 1, LAST) = f /\ Bytes(f)
<1>1. LAST \in Nat
  BY DEF BoxAssumption, LAST
<1>2. SubSeq(f, 1, LAST) = f /\ f \in Seq(Nat) /\ Len(f) = LAST
  BY <1>1, WholeArray
<1> QED BY <1>2 DEF Bytes, MacDigits

(* Carrying is defined, and does what the lemmas on it say.                *)
LEMMA CarriesFacts ==
  ASSUME BOXBYTE \in Nat, BOXBYTE > 0, NEW n \in Nat, NEW v, DOMAIN v = 1..n,
         \A j \in 1..n : v[j] \in Nat, NEW c \in Nat
  PROVE  /\ IsCarry(Carries(v, c), v, c, BOXBYTE, n)
         /\ \A j \in 1..n : Carries(v, c)[j] \in Nat
<1> DEFINE Is(u) == u = [j \in 1..n |-> v[j] + (IF j = 1 THEN c ELSE u[j - 1] \div BOXBYTE)]
           chosen == CHOOSE u : Is(u)
<1>1. \E u : Is(u)
  <2>1. \E u : IsCarryTo(u, v, c, BOXBYTE, n)
    <3>1. IsInts(v, n) /\ c \in Int
      BY DEF IsInts
    <3> QED BY <3>1, CarryExists
  <2> QED BY <2>1, Zenon DEF IsCarryTo
<1>2. Is(chosen)
  <2> HIDE DEF Is
  <2> QED BY <1>1, Zenon
<1>3. Carries(v, c) = chosen
  BY Zenon DEF Carries
<1> HIDE DEF chosen
<1>4. IsCarry(chosen, v, c, BOXBYTE, n)
  BY <1>2, Zenon DEF IsCarry
<1>5. \A j \in 1..n : chosen[j] \in Nat
  BY <1>4, CarryFacts
<1> QED BY <1>3, <1>4, <1>5

(* Only what leaves the last digit is lost in a sum.                       *)
Lost(a, n) == \E z \in Nat : WorthOf(a) + z * BoxPower[LAST] = n

LEMMA SumFacts ==
  ASSUME BoxAssumption, NEW h \in MacDigits, NEW c \in MacDigits
  PROVE  /\ Bytes(add1305(h, c))
         /\ Lost(add1305(h, c), WorthOf(h) + WorthOf(c))
<1> DEFINE n == LAST
           W == BOXBYTE
           v == [j \in 1..n |-> h[j] + c[j]]
           u == Carries(v, 0)
           e == [j \in 1..n |-> u[j] % W]
<1>1. n \in Nat /\ n > 0 /\ W \in Nat /\ W > 0 /\ 0 \in Nat
  BY DEF BoxAssumption, LAST
<1>2. \A j \in 1..n : h[j] \in Nat /\ c[j] \in Nat
  BY DEF MacDigits
<1>3. v \in [1..n -> Nat] /\ DOMAIN v = 1..n /\ \A j \in 1..n : v[j] = h[j] + c[j]
  BY <1>2
<1>4. SubSeq(v, 1, n) = v /\ Len(v) = n
  <2> HIDE DEF v
  <2> QED BY <1>1, <1>3, WholeArray
<1>5. add1305(h, c) = Carried(v)
  <2>1. add1305(h, c) = Carried(SubSeq(v, 1, n))
    BY Zenon DEF add1305, Array
  <2> QED BY <1>4, <2>1, Zenon
<1> HIDE DEF v
<1>6. Carried(v) = SubSeq(e, 1, n)
  <2>1. Carried(v) = SubSeq([j \in 1..Len(v) |-> u[j] % W], 1, Len(v))
    BY Zenon DEF Carried, Array
  <2> QED BY <1>4, <2>1, Zenon
<1>7. IsCarry(u, v, 0, W, n) /\ \A j \in 1..n : u[j] \in Nat
  <2> HIDE DEF n
  <2> QED BY <1>1, <1>3, CarriesFacts
<1> HIDE DEF u
<1>8. e \in [1..n -> Nat] /\ \A j \in 1..n : e[j] = u[j] % W
  <2>1. ASSUME NEW j \in 1..n PROVE u[j] % W \in Nat
    <3>1. u[j] \in Nat
      BY <1>7
    <3> QED BY <1>1, <3>1, CongruentRemainder
  <2> QED BY <2>1
<1> HIDE DEF e
<1>9. /\ AreDigits(e, W, n) /\ u[n] \div W \in Nat
      /\ Worth(e, W, n) + (u[n] \div W) * PowersOf(W)[n] = Worth(v, W, n) + 0
  <2>1. AreNats(v, n) /\ AreRemainders(e, u, W, n)
    BY <1>3, <1>8 DEF AreNats, AreRemainders
  <2> HIDE DEF n
  <2> QED BY <1>1, <1>7, <2>1, CarryWorth
<1>10. SubSeq(e, 1, n) = e /\ Bytes(e)
  BY <1>8, <1>9, ArrayOfBytes
<1>11. Worth(v, W, n) = Worth(h, W, n) + 1 * Worth(c, W, n)
  <2>1. IsInts(h, n) /\ IsInts(c, n) /\ 1 \in Int
    BY <1>2 DEF IsInts
  <2>2. IsAdded(v, h, 1, c, n)
    BY <1>2, <1>3 DEF IsAdded
  <2> HIDE DEF n
  <2> QED BY <1>1, <2>1, <2>2, WorthPlus
<1>12. Worth(h, W, n) \in Int /\ Worth(c, W, n) \in Int
  <2>1. IsInts(h, n) /\ IsInts(c, n)
    BY <1>2 DEF IsInts
  <2> QED BY <1>1, <2>1, WorthIsInt
<1>13. Worth(e, W, n) + (u[n] \div W) * PowersOf(W)[n] = Worth(h, W, n) + Worth(c, W, n)
  BY <1>9, <1>11, <1>12
<1>14. Lost(e, WorthOf(h) + WorthOf(c))
  BY <1>9, <1>13, Zenon DEF Lost, WorthOf, BoxPower
<1> QED BY <1>5, <1>6, <1>10, <1>14, Zenon

(* When the sum fits into the digits, nothing is.                          *)
LEMMA SumFits ==
  ASSUME BoxAssumption, NEW h \in MacDigits, NEW c \in MacDigits,
         WorthOf(h) + WorthOf(c) < BoxPower[LAST]
  PROVE  Bytes(add1305(h, c)) /\ WorthOf(add1305(h, c)) = WorthOf(h) + WorthOf(c)
<1> DEFINE a == add1305(h, c)
           p == BoxPower[LAST]
           x == WorthOf(a)
<1>1. Bytes(a) /\ Lost(a, WorthOf(h) + WorthOf(c))
  BY SumFacts
<1>2. LAST \in Nat /\ BOXBYTE \in Nat /\ BOXBYTE > 0
  BY DEF BoxAssumption, LAST
<1>3. x \in Nat /\ p \in Nat
  <2>1. AreDigits(a, BOXBYTE, LAST)
    BY <1>1 DEF Bytes
  <2> QED BY <1>2, <2>1, WorthBound, PowersFacts DEF WorthOf, BoxPower
<1>4. PICK z \in Nat : x + z * p = WorthOf(h) + WorthOf(c)
  BY <1>1 DEF Lost
<1> HIDE DEF a, p, x
<1>5. x + z * p < p
  BY <1>4 DEF p
<1>6. z = 0
  <2>1. ASSUME z >= 1 PROVE z * p >= p
    BY <1>3, <2>1
  <2>2. z * p \in Nat
    BY <1>3
  <2> QED BY <1>3, <1>5, <2>1, <2>2
<1>7. x = WorthOf(h) + WorthOf(c)
  BY <1>3, <1>4, <1>6
<1> QED BY <1>1, <1>7 DEF a, x

-----------------------------------------------------------------------------
(* The product.  A turn of the loop on the digits of h adds one of these   *)
(* rows: the digits of r from a place on, those too high at the bottom.    *)

Factors(r, j) ==
  [i \in 1..LAST |-> IF j <= i THEN r[i - j + 1]
                     ELSE 5 * (BOXBYTE \div 4) * r[i + LAST - j + 1]]

(* The next row is BYTE times the last, modulo the prime.                  *)
LEMMA NextFactors ==
  ASSUME BoxAssumption, MacAssumption, NEW r \in MacDigits, NEW j \in 1..(LAST - 1)
  PROVE  SameModulo(WorthOf(Factors(r, j + 1)), BOXBYTE * WorthOf(Factors(r, j)))
<1> DEFINE W == BOXBYTE
           K == MACBYTES
           n == LAST
           f == Factors(r, j)
           g == Factors(r, j + 1)
           q == W \div 4
           x == f[n]
           c == (5 * q) * x
           p == BoxPower[K]
<1>1. /\ W \in Nat /\ W > 0 /\ W = 4 * q /\ q \in Nat /\ K \in Nat /\ n = K + 1
      /\ p \in Nat /\ PRIME \in Nat /\ PRIME = 4 * p - 5 /\ n \in Nat
  BY MacSizes
<1>2. \A i \in 1..n : r[i] \in Nat
  BY DEF MacDigits
<1>3. ASSUME NEW i \in 1..n PROVE f[i] \in Nat
  <2>1. CASE j <= i
    <3>1. i - j + 1 \in 1..n /\ f[i] = r[i - j + 1]
      BY <1>1, <2>1 DEF Factors
    <3> QED BY <1>2, <3>1
  <2>2. CASE ~(j <= i)
    <3> DEFINE y == r[i + n - j + 1]
    <3>1. i + n - j + 1 \in 1..n /\ f[i] = 5 * q * y
      BY <1>1, <2>2 DEF Factors
    <3>2. y \in Nat
      BY <1>2, <3>1
    <3> HIDE DEF y, q, f
    <3>3. 5 * q * y \in Nat
      BY <1>1, <3>2
    <3> QED BY <3>1, <3>3
  <2> QED BY <2>1, <2>2
<1>4. ASSUME NEW i \in 1..K PROVE g[i + 1] = f[i]
  <2>1. i + 1 \in 1..n /\ i \in 1..n /\ (i + 1) - (j + 1) + 1 = i - j + 1
        /\ (i + 1) + n - (j + 1) + 1 = i + n - j + 1 /\ (j + 1 <= i + 1 <=> j <= i)
    BY <1>1
  <2>2. g[i + 1] = IF j + 1 <= i + 1 THEN r[(i + 1) - (j + 1) + 1]
                   ELSE 5 * q * r[(i + 1) + n - (j + 1) + 1]
    BY <2>1, Zenon DEF Factors
  <2>3. f[i] = IF j <= i THEN r[i - j + 1] ELSE 5 * q * r[i + n - j + 1]
    BY <2>1, Zenon DEF Factors
  <2>4. r[(i + 1) - (j + 1) + 1] = r[i - j + 1]
        /\ 5 * q * r[(i + 1) + n - (j + 1) + 1] = 5 * q * r[i + n - j + 1]
    BY <2>1, Zenon
  <2> HIDE DEF f, g, q, n
  <2>5. CASE j <= i
    BY <2>1, <2>2, <2>3, <2>4, <2>5, Zenon
  <2>6. CASE ~(j <= i)
    BY <2>1, <2>2, <2>3, <2>4, <2>6, Zenon
  <2> QED BY <2>5, <2>6
<1>5. g[1] = c
  <2>1. 1 \in 1..n /\ n \in 1..n /\ ~(j + 1 <= 1) /\ j <= n
        /\ 1 + n - (j + 1) + 1 = n - j + 1
    BY <1>1
  <2>2. g[1] = IF j + 1 <= 1 THEN r[1 - (j + 1) + 1] ELSE 5 * q * r[1 + n - (j + 1) + 1]
    BY <2>1, Zenon DEF Factors
  <2>3. x = r[n - j + 1]
    BY <2>1 DEF Factors
  <2> QED BY <2>1, <2>2, <2>3, Zenon
<1>6. x \in Nat /\ IsInts(f, n) /\ IsInts(f, K)
  BY <1>1, <1>3 DEF IsInts
<1> HIDE DEF f, g, x, q
<1>7. c \in Int
  BY <1>1, <1>6
<1>8. Worth(g, W, K + 1) = c + W * Worth(f, W, K)
  <2> HIDE DEF c
  <2>1. IsShifted(g, f, c, K)
    BY <1>4, <1>5 DEF IsShifted
  <2> QED BY <1>1, <1>6, <1>7, <2>1, WorthShift
<1>9. Worth(f, W, K) \in Int /\ Worth(f, W, K + 1) = Worth(f, W, K) + x * p
  <2>1. K < n
    BY <1>1
  <2>2. f[K + 1] = x
    BY <1>1 DEF x
  <2> HIDE DEF n
  <2> QED BY <1>1, <1>6, <2>1, <2>2, WorthStep DEF BoxPower
<1> DEFINE a == Worth(f, W, K)
           b == a + x * p
           d == c + W * a
<1>10. WorthOf(g) = d /\ WorthOf(f) = b
  <2>1. WorthOf(g) = Worth(g, W, K + 1) /\ WorthOf(f) = Worth(f, W, K + 1)
    BY <1>1, Zenon DEF WorthOf
  <2> QED BY <1>8, <1>9, <2>1, Zenon
<1>11. a \in Int
  BY <1>9
<1> HIDE DEF a, p
<1>12. W * b = W * a + (4 * q) * (x * p)
  <2>1. x * p \in Int
    BY <1>1, <1>6
  <2> QED BY <1>1, <1>11, <2>1
<1>13. d = W * b + (-(q * x)) * PRIME
  <2> DEFINE y == q * x
             z == y * p
  <2>1. y \in Int /\ z \in Int
    BY <1>1, <1>6
  <2>2. (4 * q) * (x * p) = 4 * z
    BY <1>1, <1>6
  <2>3. c = 5 * y
    BY <1>1, <1>6
  <2>4. W * a \in Int
    BY <1>1, <1>11
  <2> HIDE DEF y, z
  <2>5. (-y) * (4 * p - 5) = 5 * y - 4 * (y * p)
    BY <1>1, <2>1
  <2>6. y * p = z
    BY DEF z
  <2>7. d = 5 * y + W * a /\ W * b = W * a + 4 * z
    BY <1>12, <2>2, <2>3
  <2> HIDE DEF d, b, c
  <2>8. d = W * b + (-y) * PRIME
    BY <1>1, <2>1, <2>4, <2>5, <2>6, <2>7
  <2> QED BY <2>8 DEF y
<1>14. -(q * x) \in Int
  BY <1>1, <1>6
<1>15. SameModulo(d, W * b)
  <2> HIDE DEF d, b
  <2> QED BY <1>13, <1>14, Zenon DEF SameModulo, Congruent
<1> QED BY <1>10, <1>15, Zenon DEF f, g

(* What is in a row.                                                       *)
HIGHEST == 5 * (BOXBYTE \div 4) * (BOXBYTE - 1)

LEMMA FactorsFacts ==
  ASSUME BoxAssumption, MacAssumption, NEW r, Bytes(r), NEW j \in 1..LAST
  PROVE  /\ \A i \in 1..LAST : Factors(r, j)[i] \in 0..HIGHEST
         /\ HIGHEST \in Nat /\ IsInts(Factors(r, j), LAST)
<1> DEFINE W == BOXBYTE
           n == LAST
           q == W \div 4
           b == W - 1
           H == HIGHEST
<1>1. q \in Nat /\ b \in Nat /\ n \in Nat /\ W = 4 * q /\ W >= 16
  BY MacSizes
<1>2. ASSUME NEW i \in 1..n PROVE r[i] \in Nat /\ r[i] <= b
  BY DEF Bytes, AreDigits
<1>3. H = 5 * q * b
  BY DEF HIGHEST
<1>4. ASSUME NEW y \in Nat, y <= b
      PROVE  5 * q * y \in Nat /\ 5 * q * y <= H /\ y <= H /\ H \in Nat
  <2>1. q >= 1
    BY <1>1
  <2> HIDE DEF q, b, H
  <2>2. 5 * q * y \in Nat /\ 5 * q * b \in Nat
    BY <1>1
  <2>3. 5 * q * y <= 5 * q * b
    BY <1>1, <1>4
  <2>4. b <= 5 * q * b
    BY <1>1, <2>1
  <2> QED BY <1>1, <1>3, <1>4, <2>2, <2>3, <2>4
<1> HIDE DEF H
<1>5. ASSUME NEW i \in 1..n PROVE Factors(r, j)[i] \in 0..H
  <2>1. CASE j <= i
    <3>1. i - j + 1 \in 1..n
      BY <1>1, <2>1
    <3>2. Factors(r, j)[i] = r[i - j + 1]
      BY <2>1, Zenon DEF Factors
    <3> DEFINE y == r[i - j + 1]
    <3>3. y \in Nat /\ y <= b
      BY <1>2, <3>1
    <3> HIDE DEF y, b
    <3>4. y \in 0..H
      BY <1>4, <3>3
    <3> QED BY <3>2, <3>4 DEF y
  <2>2. CASE ~(j <= i)
    <3>1. i + n - j + 1 \in 1..n
      BY <1>1, <2>2
    <3> DEFINE y == r[i + n - j + 1]
    <3>2. Factors(r, j)[i] = 5 * q * y
      BY <2>2, Zenon DEF Factors
    <3>3. y \in Nat /\ y <= b
      BY <1>2, <3>1
    <3> HIDE DEF y, b, q
    <3>4. 5 * q * y \in 0..H
      BY <1>4, <3>3
    <3> QED BY <3>2, <3>4
  <2> QED BY <2>1, <2>2
<1>6. H \in Nat
  BY <1>1, <1>4
<1>7. IsInts(Factors(r, j), n)
  BY <1>5, <1>6 DEF IsInts
<1> QED BY <1>5, <1>6, <1>7 DEF H

(* Every row is a power of BYTE times r. *)
LEMMA FactorsWorth ==
  ASSUME BoxAssumption, MacAssumption, NEW r, Bytes(r)
  PROVE  /\ WorthOf(r) \in Nat
         /\ \A j \in 1..LAST : SameModulo(WorthOf(Factors(r, j)), BoxPower[j - 1] * WorthOf(r))
<1> DEFINE W == BOXBYTE
           n == LAST
           v == WorthOf(r)
           Row(j) == WorthOf(Factors(r, j))
<1>1. W \in Nat /\ W > 0 /\ n \in Nat /\ PRIME \in Nat
  BY MacSizes
<1>2. AreDigits(r, W, n) /\ r \in MacDigits
  BY DEF Bytes
<1>3. v \in Nat
  BY <1>1, <1>2, WorthBound DEF WorthOf
<1>4. ASSUME NEW j \in 1..n PROVE Row(j) \in Int
  <2>1. IsInts(Factors(r, j), n)
    BY FactorsFacts
  <2> QED BY <1>1, <2>1, WorthIsInt DEF WorthOf
<1>5. \A k \in Nat : BoxPower[k] \in Nat /\ BoxPower[k + 1] = W * BoxPower[k]
  BY <1>1, PowersFacts DEF BoxPower
<1>6. BoxPower[0] = 1
  BY <1>1, PowersFacts DEF BoxPower
<1>7. n >= 1 => Row(1) = v
  <2>1. \A i \in 1..n : Factors(r, 1)[i] = r[i]
    BY <1>1 DEF Factors
  <2>2. IsInts(r, n)
    BY <1>1, <1>2, DigitsAreInts
  <2> QED BY <1>1, <2>1, <2>2, WorthSame DEF WorthOf
<1> HIDE DEF v
<1> DEFINE Good(j) == SameModulo(Row(j), BoxPower[j - 1] * v)
           A == {k \in Nat : k + 1 <= n => Good(k + 1)}
<1> HIDE DEF Row
<1>8. 0 \in A
  <2>1. 1 - 1 = 0 /\ 0 + 1 = 1 /\ 1 * v = v /\ v \in Int
    BY <1>3
  <2>2. SameModulo(v, v)
    BY <1>1, <2>1, CongruentSame DEF SameModulo
  <2>3. n >= 1 => Good(1)
    BY <1>6, <1>7, <2>1, <2>2, Zenon
  <2> HIDE DEF Good
  <2> QED BY <2>1, <2>3
<1>9. ASSUME NEW k \in Nat, k \in A PROVE k + 1 \in A
  <2>1. CASE k + 2 <= n
    <3> DEFINE j == k + 1
               p == BoxPower[k]
               a == Row(j)
               b == Row(j + 1)
    <3>1. j \in 1..n /\ j + 1 \in 1..n /\ j \in 1..(n - 1) /\ j - 1 = k /\ (j + 1) - 1 = j
      BY <1>1, <2>1
    <3>2. SameModulo(a, p * v)
      <4>1. Good(j)
        <5>1. k + 1 <= n
          BY <1>1, <2>1
        <5> HIDE DEF Good
        <5> QED BY <1>9, <5>1
      <4> QED BY <3>1, <4>1, Zenon
    <3>3. SameModulo(b, W * a)
      BY <1>2, <3>1, NextFactors DEF Row
    <3>4. a \in Int /\ b \in Int /\ p \in Nat /\ BoxPower[j] = W * p
      BY <1>4, <1>5, <3>1 DEF Row
    <3> HIDE DEF a, b, p, j
    <3>5. p * v \in Int /\ W * a \in Int /\ W * (p * v) \in Int /\ (W * p) * v = W * (p * v) /\ W \in Int
      BY <1>1, <1>3, <3>4
    <3>6. SameModulo(W * a, W * (p * v))
      BY <1>1, <3>2, <3>4, <3>5, CongruentTimes DEF SameModulo
    <3>7. SameModulo(b, W * (p * v))
      BY <1>1, <3>3, <3>4, <3>5, <3>6, CongruentTrans DEF SameModulo
    <3>8. Good(j + 1)
      BY <3>1, <3>4, <3>5, <3>7, Zenon DEF b
    <3> HIDE DEF Good
    <3> QED BY <3>8 DEF j
  <2>2. CASE ~(k + 2 <= n)
    BY <2>2
  <2> QED BY <2>1, <2>2
<1> HIDE DEF A
<1>10. Nat \subseteq A
  BY <1>8, <1>9, SetInduction
<1>11. ASSUME NEW j \in 1..n PROVE Good(j)
  <2>1. j - 1 \in A /\ (j - 1) + 1 = j /\ j <= n
    BY <1>1, <1>10
  <2> HIDE DEF Good
  <2> QED BY <2>1 DEF A
<1> QED BY <1>3, <1>11 DEF Row, v

(* The digits of the product after l turns of its inner loop.              *)
Term(h, r, i) == [j \in 1..LAST |-> h[j] * Factors(r, j)[i]]
Summed(h, r, l) == [i \in 1..LAST |-> SumTo(Term(h, r, i), l)]

LEMMA TermFacts ==
  ASSUME BoxAssumption, MacAssumption, NEW h, Bytes(h), NEW r, Bytes(r), NEW i \in 1..LAST
  PROVE  /\ \A j \in 1..LAST : Term(h, r, i)[j] \in 0..((BOXBYTE - 1) * HIGHEST)
         /\ IsInts(Term(h, r, i), LAST) /\ (BOXBYTE - 1) * HIGHEST \in Nat
<1> DEFINE b == BOXBYTE - 1
           M == b * HIGHEST
           f == Term(h, r, i)
<1>1. b \in Nat /\ LAST \in Nat
  BY MacSizes
<1>2. ASSUME NEW j \in 1..LAST PROVE f[j] \in 0..M /\ M \in Nat
  <2> DEFINE x == h[j]
             y == Factors(r, j)[i]
             H == HIGHEST
  <2>1. y \in 0..H /\ H \in Nat
    BY FactorsFacts
  <2>2. x \in 0..b
    BY DEF Bytes, AreDigits
  <2>3. f[j] = x * y
    BY Zenon DEF Term
  <2> HIDE DEF x, y, H, b
  <2>4. x * y \in Nat /\ x * y <= b * y /\ b * y <= b * H /\ b * y \in Nat /\ b * H \in Nat
    BY <1>1, <2>1, <2>2
  <2>5. x * y \in 0..(b * H) /\ b * H \in Nat
    BY <2>4
  <2> QED BY <2>3, <2>5 DEF H
<1>3. M \in Nat
  <2>1. LAST \in 1..LAST
    BY MacSizes
  <2> QED BY <1>2, <2>1
<1> HIDE DEF M, f
<1>4. IsInts(f, LAST)
  BY <1>2, <1>3 DEF IsInts
<1> QED BY <1>2, <1>3, <1>4 DEF M, f, b

LEMMA SummedStep ==
  ASSUME BoxAssumption, MacAssumption, NEW h, Bytes(h), NEW r, Bytes(r),
         NEW l \in Nat, l < LAST
  PROVE  /\ IsInts(Summed(h, r, l), LAST)
         /\ WorthOf(Summed(h, r, l + 1))
              = WorthOf(Summed(h, r, l)) + h[l + 1] * WorthOf(Factors(r, l + 1))
<1> DEFINE n == LAST
           s == Summed(h, r, l)
           t == Summed(h, r, l + 1)
           g == Factors(r, l + 1)
           c == h[l + 1]
<1>1. n \in Nat /\ BOXBYTE \in Nat /\ BOXBYTE > 0 /\ l + 1 \in 1..n
  BY MacSizes
<1>2. c \in Int
  BY <1>1 DEF Bytes, AreDigits
<1>3. IsInts(g, n)
  BY <1>1, FactorsFacts
<1>4. ASSUME NEW i \in 1..n PROVE s[i] \in Int /\ t[i] = s[i] + c * g[i]
  <2> DEFINE f == Term(h, r, i)
  <2>1. IsInts(f, n)
    BY TermFacts
  <2>2. f[l + 1] = c * g[i]
    BY <1>1, Zenon DEF Term
  <2>3. s[i] = SumTo(f, l) /\ t[i] = SumTo(f, l + 1)
    BY Zenon DEF Summed
  <2> HIDE DEF f, s, t, c, g
  <2>4. SumTo(f, l) \in Int /\ SumTo(f, l + 1) = SumTo(f, l) + f[l + 1]
    BY <1>1, <2>1, SumStep
  <2> QED BY <2>2, <2>3, <2>4
<1> HIDE DEF s, t, c, g
<1>5. IsInts(s, n)
  BY <1>4 DEF IsInts
<1>6. Worth(t, BOXBYTE, n) = Worth(s, BOXBYTE, n) + c * Worth(g, BOXBYTE, n)
  <2>1. IsAdded(t, s, c, g, n)
    BY <1>4, Zenon DEF IsAdded
  <2> HIDE DEF n
  <2> QED BY <1>1, <1>2, <1>3, <1>5, <2>1, WorthPlus
<1> QED BY <1>5, <1>6 DEF s, t, c, g, WorthOf

LEMMA SummedWorth ==
  ASSUME BoxAssumption, MacAssumption, NEW h, Bytes(h), NEW r, Bytes(r), NEW l \in 0..LAST
  PROVE  SameModulo(WorthOf(Summed(h, r, l)), Worth(h, BOXBYTE, l) * WorthOf(r))
<1> DEFINE W == BOXBYTE
           n == LAST
           v == WorthOf(r)
           S(k) == WorthOf(Summed(h, r, k))
           A == {k \in Nat : k <= n => S(k) \in Int /\ SameModulo(S(k), Worth(h, W, k) * v)}
<1>1. W \in Nat /\ W > 0 /\ n \in Nat /\ PRIME \in Nat
  BY MacSizes
<1>2. v \in Nat /\ \A j \in 1..n : SameModulo(WorthOf(Factors(r, j)), BoxPower[j - 1] * v)
  BY FactorsWorth
<1>3. IsInts(h, n)
  BY <1>1, DigitsAreInts DEF Bytes
<1> HIDE DEF v
<1>4. 0 \in A
  <2> DEFINE z == Summed(h, r, 0)
  <2>1. \A i \in 1..n : z[i] = 0
    BY SumZero DEF Summed
  <2> HIDE DEF z
  <2>2. IsInts(z, n)
    BY <2>1 DEF IsInts
  <2>3. Worth(z, W, n) = Worth(z, W, 0)
    <3>1. 0 \in 0..n /\ \A k \in (0 + 1)..n : z[k] = 0
      BY <1>1, <2>1
    <3> HIDE DEF n
    <3> QED BY <1>1, <2>2, <3>1, WorthZeros
  <2>4. S(0) = 0
    BY <2>3, WorthZero DEF WorthOf, z
  <2>5. Worth(h, W, 0) * v = 0
    BY <1>2, WorthZero
  <2>6. SameModulo(0, 0)
    BY <1>1, CongruentSame DEF SameModulo
  <2>7. S(0) \in Int /\ SameModulo(S(0), Worth(h, W, 0) * v)
    BY <2>4, <2>5, <2>6
  <2> HIDE DEF S
  <2> QED BY <2>7
<1>5. ASSUME NEW k \in Nat, k \in A PROVE k + 1 \in A
  <2>1. CASE k + 1 <= n
    <3> DEFINE i == k + 1
               x == h[i]
               a == S(k)
               b == Worth(h, W, k)
               f == WorthOf(Factors(r, i))
               p == BoxPower[k]
    <3>1. k < n /\ i \in 1..n /\ i - 1 = k /\ a \in Int /\ SameModulo(a, b * v)
      <4>1. k < n /\ i \in 1..n /\ i - 1 = k /\ k <= n
        BY <1>1, <2>1
      <4>2. a \in Int /\ SameModulo(a, b * v)
        <5> HIDE DEF S
        <5> QED BY <1>5, <4>1
      <4> QED BY <4>1, <4>2
    <3>2. S(i) = a + x * f
      BY <3>1, SummedStep
    <3>3. b \in Int /\ Worth(h, W, i) = b + x * p
      BY <1>1, <1>3, <3>1, WorthStep DEF BoxPower
    <3>4. SameModulo(f, p * v)
      BY <1>2, <3>1
    <3>5. f \in Int
      <4>1. IsInts(Factors(r, i), n)
        BY <3>1, FactorsFacts
      <4> QED BY <1>1, <4>1, WorthIsInt DEF WorthOf
    <3>6. x \in Int /\ p \in Nat
      BY <1>1, <1>3, <3>1, PowersFacts DEF IsInts, BoxPower
    <3> HIDE DEF x, a, b, f, p, i, S
    <3>7. b * v \in Int /\ p * v \in Int
      BY <1>2, <3>3, <3>6
    <3>8. SameModulo(a + x * f, b * v + x * (p * v))
      BY <1>1, <3>1, <3>4, <3>5, <3>6, <3>7, CongruentPlus DEF SameModulo
    <3>9. b * v + x * (p * v) = (b + x * p) * v
      BY <1>2, <3>3, <3>6
    <3>10. a + x * f \in Int
      BY <3>1, <3>5, <3>6
    <3>11. S(i) \in Int /\ SameModulo(S(i), Worth(h, W, i) * v)
      BY <3>2, <3>3, <3>8, <3>9, <3>10
    <3> QED BY <3>11 DEF i
  <2>2. CASE ~(k + 1 <= n)
    BY <2>2
  <2> QED BY <2>1, <2>2
<1> HIDE DEF A
<1>6. l \in A
  BY <1>1, <1>4, <1>5, SetInduction
<1> QED BY <1>1, <1>6 DEF A, v

(* The product is one, modulo the prime, and its digits are not too large. *)
LEMMA TimesFacts ==
  ASSUME BoxAssumption, MacAssumption, NEW h, Bytes(h), NEW r, Bytes(r)
  PROVE  /\ MacTimes(h, r) \in MacDigits
         /\ \A i \in 1..LAST : MacTimes(h, r)[i] \in 0..LARGEST
         /\ SameModulo(WorthOf(MacTimes(h, r)), WorthOf(h) * WorthOf(r))
<1> DEFINE n == LAST
           s == Summed(h, r, n)
           M == (BOXBYTE - 1) * HIGHEST
<1>1. n \in Nat /\ n \in 0..n /\ n \in 1..n
  BY MacSizes
<1>2. LARGEST = n * M
  BY Zenon DEF LARGEST, HIGHEST
<1>3. ASSUME NEW i \in 1..n PROVE s[i] \in Nat /\ s[i] <= LARGEST
  <2> DEFINE f == Term(h, r, i)
  <2>1. M \in Nat /\ \A j \in 1..n : f[j] \in 0..M
    BY TermFacts
  <2>2. s[i] = SumTo(f, n)
    BY Zenon DEF Summed
  <2> HIDE DEF f, M, n
  <2>3. SumTo(f, n) \in Nat /\ SumTo(f, n) <= n * M
    BY <1>1, <2>1, SumBound
  <2> QED BY <1>2, <2>2, <2>3
<1>4. s \in [1..n -> Nat]
  BY <1>3 DEF Summed
<1>5. MacTimes(h, r) = SubSeq(s, 1, n)
  BY Zenon DEF MacTimes, Array, Summed, Term, Factors
<1>6. SameModulo(WorthOf(s), WorthOf(h) * WorthOf(r))
  <2>1. SameModulo(WorthOf(s), Worth(h, BOXBYTE, n) * WorthOf(r))
    BY <1>1, SummedWorth
  <2> QED BY <2>1, Zenon DEF WorthOf
<1> HIDE DEF s
<1>7. MacTimes(h, r) = s
  BY <1>1, <1>4, <1>5, WholeArray
<1>8. \A i \in 1..n : s[i] \in 0..LARGEST
  <2>1. LARGEST \in Nat
    BY MacSizes
  <2> QED BY <1>3, <2>1
<1> QED BY <1>4, <1>6, <1>7, <1>8 DEF MacDigits

-----------------------------------------------------------------------------
(* Two rounds of carrying leave bytes, and take a multiple of the prime    *)
(* away.                                                                   *)

(* The remainders of what comes to the digits.                             *)
Rests(u, n) == Array(n, LAMBDA j : u[j] % BOXBYTE)

LEMMA RestsFacts ==
  ASSUME BOXBYTE \in Nat, BOXBYTE > 0, NEW n \in Nat, NEW u, AreNats(u, n)
  PROVE  /\ Rests(u, n) \in Seq(Nat) /\ Len(Rests(u, n)) = n
         /\ DOMAIN Rests(u, n) = 1..n
         /\ AreRemainders(Rests(u, n), u, BOXBYTE, n) /\ AreNats(Rests(u, n), n)
<1> DEFINE f == [j \in 1..n |-> u[j] % BOXBYTE]
<1>1. ASSUME NEW j \in 1..n PROVE u[j] % BOXBYTE \in Nat
  <2>1. u[j] \in Nat
    BY DEF AreNats
  <2> QED BY <2>1, CongruentRemainder
<1>2. f \in [1..n -> Nat] /\ \A j \in 1..n : f[j] = u[j] % BOXBYTE
  BY <1>1
<1>3. Rests(u, n) = SubSeq(f, 1, n)
  BY Zenon DEF Rests, Array
<1> HIDE DEF f
<1>4. Rests(u, n) = f /\ f \in Seq(Nat) /\ Len(f) = n
  BY <1>2, <1>3, WholeArray
<1>5. AreRemainders(f, u, BOXBYTE, n) /\ AreNats(f, n) /\ DOMAIN f = 1..n
  BY <1>2 DEF AreRemainders, AreNats
<1> QED BY <1>4, <1>5

(* One round: the rests and what is carried out.                           *)
Round(v, c, n) ==
  /\ Rests(Carries(v, c), n) \in Seq(Nat) /\ Len(Rests(Carries(v, c), n)) = n
  /\ DOMAIN Rests(Carries(v, c), n) = 1..n /\ AreNats(Rests(Carries(v, c), n), n)
  /\ AreDigits(Rests(Carries(v, c), n), BOXBYTE, n)
  /\ Carries(v, c)[n] \div BOXBYTE \in Nat
  /\ Worth(Rests(Carries(v, c), n), BOXBYTE, n)
       + (Carries(v, c)[n] \div BOXBYTE) * BoxPower[n] = Worth(v, BOXBYTE, n) + c

LEMMA RoundFacts ==
  ASSUME BOXBYTE \in Nat, BOXBYTE > 0, NEW n \in Nat, n > 0, NEW v, DOMAIN v = 1..n,
         AreNats(v, n), NEW c \in Nat
  PROVE  IsCarry(Carries(v, c), v, c, BOXBYTE, n) /\ Round(v, c, n)
<1> DEFINE u == Carries(v, c)
           e == Rests(u, n)
<1>1. IsCarry(u, v, c, BOXBYTE, n) /\ AreNats(u, n)
  <2>1. \A j \in 1..n : v[j] \in Nat
    BY DEF AreNats
  <2>2. IsCarry(u, v, c, BOXBYTE, n) /\ \A j \in 1..n : u[j] \in Nat
    BY <2>1, CarriesFacts
  <2> QED BY <2>2 DEF AreNats
<1>2. /\ e \in Seq(Nat) /\ Len(e) = n /\ DOMAIN e = 1..n
      /\ AreRemainders(e, u, BOXBYTE, n) /\ AreNats(e, n)
  <2> HIDE DEF u
  <2> QED BY <1>1, RestsFacts
<1> HIDE DEF e
<1>3. /\ AreDigits(e, BOXBYTE, n) /\ u[n] \div BOXBYTE \in Nat
      /\ Worth(e, BOXBYTE, n) + (u[n] \div BOXBYTE) * PowersOf(BOXBYTE)[n] = Worth(v, BOXBYTE, n) + c
  <2> HIDE DEF u
  <2> QED BY <1>1, <1>2, CarryWorth
<1> QED BY <1>1, <1>2, <1>3, Zenon DEF Round, e, u, BoxPower

(* Small enough for the next turn, and the same modulo the prime.          *)
Squeezed(out, n) ==
  /\ Bytes(out) /\ WorthOf(out) \in Nat /\ WorthOf(out) < 5 * BoxPower[MACBYTES]
  /\ SameModulo(WorthOf(out), n)

LEMMA SqueezeFacts ==
  ASSUME BoxAssumption, MacAssumption, NEW x \in MacDigits,
         \A i \in 1..LAST : x[i] \in 0..LARGEST
  PROVE  WorthOf(x) \in Int /\ Squeezed(Squeeze(x), WorthOf(x))
<1> DEFINE W == BOXBYTE
           K == MACBYTES
           n == LAST
           M == LARGEST
           p == BoxPower[K]
           t == Take(x, K)
           low == Carries(t, 0)
           e == Rests(low, K)
           lo == low[K] \div W
           top == x[n] + lo
           c == 5 * (top \div 4)
           again == Carries(e, c)
           g == Rests(again, K)
           o == again[K] \div W
           out == g \o <<(top % 4) + o>>
<1>1. /\ W \in Nat /\ W >= 16 /\ W > 0 /\ K \in Nat /\ K > 0 /\ n \in Nat /\ n = K + 1
      /\ p \in Nat /\ p >= 16 /\ M \in Nat /\ 3 * M <= p
      /\ PRIME \in Nat /\ PRIME = 4 * p - 5
  BY MacSizes
<1>2. x \in [1..n -> Nat] /\ x \in Seq(Nat) /\ Len(x) = n /\ \A j \in 1..n : x[j] \in 0..M
  <2>1. x \in [1..n -> Nat]
    BY DEF MacDigits
  <2> HIDE DEF n
  <2>2. SubSeq(x, 1, n) = x /\ x \in Seq(Nat) /\ Len(x) = n
    BY <1>1, <2>1, WholeArray
  <2> QED BY <2>1, <2>2 DEF n
<1>3. Squeeze(x) = out
  BY Zenon DEF Squeeze, Rests
<1>4. t \in Seq(Nat) /\ Len(t) = K /\ DOMAIN t = 1..K /\ AreNats(t, K)
      /\ \A j \in 1..K : t[j] = x[j] /\ t[j] \in 0..M
  <2>1. K \in 0..Len(x) /\ \A j \in 1..K : j \in 1..n
    BY <1>1, <1>2
  <2>2. t \in Seq(Nat) /\ Len(t) = K /\ \A j \in 1..K : t[j] = x[j]
    BY <1>2, <2>1, TakeDrop
  <2> HIDE DEF t, K, n, M
  <2>3. \A j \in 1..K : t[j] \in 0..M
    BY <1>2, <2>1, <2>2
  <2>4. AreNats(t, K) /\ DOMAIN t = 1..K
    BY <1>1, <2>2, <2>3 DEF AreNats
  <2> QED BY <2>2, <2>3, <2>4
<1> HIDE DEF t
<1>5. IsCarry(low, t, 0, W, K) /\ Round(t, 0, K)
  BY <1>1, <1>4, RoundFacts
<1>6. lo \in 0..M
  <2>1. 0 \in 0..M /\ K \in 1..K /\ W > 1 /\ \A j \in 1..K : t[j] \in 0..M
    BY <1>1, <1>4
  <2> HIDE DEF low, M, K
  <2>2. \A j \in 1..K : low[j] \in 0..(2 * M) /\ low[j] \div W \in 0..M
    BY <1>1, <1>5, <2>1, CarryBound
  <2> QED BY <2>1, <2>2
<1>7. /\ e \in Seq(Nat) /\ Len(e) = K /\ DOMAIN e = 1..K /\ AreNats(e, K) /\ AreDigits(e, W, K)
      /\ Worth(e, W, K) + lo * p = Worth(t, W, K) + 0
  BY <1>5, Zenon DEF Round
<1> HIDE DEF lo, e
<1> DEFINE y == top \div 4
           z == top % 4
<1>8. x[n] \in 0..M
  BY <1>1, <1>2
<1>9. y \in Nat /\ z \in 0..3 /\ top = 4 * y + z /\ top <= 2 * M
  <2>1. top \in Nat /\ top <= 2 * M
    BY <1>1, <1>6, <1>8
  <2> HIDE DEF top
  <2>2. PICK a \in Nat, b \in 0..(4 - 1) : top = a * 4 + b /\ top \div 4 = a /\ top % 4 = b
    BY <2>1, Division
  <2> QED BY <2>1, <2>2
<1> HIDE DEF y, z
<1>10. c = 5 * y /\ c \in Nat /\ c <= p
  <2>1. c = 5 * y
    BY DEF y
  <2> HIDE DEF c, top
  <2> QED BY <1>1, <1>9, <2>1
<1> HIDE DEF c
<1>11. Round(e, c, K)
  BY <1>1, <1>7, <1>10, RoundFacts
<1>12. /\ g \in Seq(Nat) /\ Len(g) = K /\ AreDigits(g, W, K) /\ o \in Nat
       /\ Worth(g, W, K) + o * p = Worth(e, W, K) + c
  BY <1>11, Zenon DEF Round
<1> HIDE DEF again, g, o
<1> DEFINE a == Worth(e, W, K)
           b == Worth(g, W, K)
<1>13. a \in Nat /\ a < p /\ b \in Nat /\ b < p
  BY <1>1, <1>7, <1>12, WorthBound DEF BoxPower
<1>14. WorthOf(x) = a + top * p /\ WorthOf(x) \in Int
  <2>1. IsInts(x, n)
    BY <1>2 DEF IsInts
  <2>2. IsInts(x, K)
    BY <1>1, <2>1 DEF IsInts
  <2>3. Worth(t, W, K) = Worth(x, W, K)
    <3>1. \A j \in 1..K : t[j] = x[j]
      BY <1>4
    <3> QED BY <1>1, <2>2, <3>1, WorthSame
  <2>4. WorthOf(x) = Worth(x, W, K) + x[n] * p
    <3>1. K < n
      BY <1>1
    <3>2. Worth(x, W, K + 1) = Worth(x, W, K) + x[K + 1] * PowersOf(W)[K]
      <4> HIDE DEF n
      <4> QED BY <1>1, <2>1, <3>1, WorthStep
    <3> QED BY <1>1, <3>2, Zenon DEF WorthOf, BoxPower
  <2> DEFINE s == Worth(x, W, K)
             q == x[n]
  <2>5. WorthOf(x) = s + q * p /\ a + lo * p = s /\ q \in Nat /\ lo \in Nat /\ top = q + lo
    <3>1. a + lo * p = Worth(t, W, K)
      <4>1. Worth(t, W, K) \in Int
        <5>1. IsInts(t, K)
          BY <1>4 DEF IsInts
        <5> QED BY <1>1, <5>1, WorthIsInt
      <4> QED BY <1>7, <4>1
    <3>2. q \in Nat /\ lo \in Nat
      BY <1>1, <1>6, <1>8
    <3> QED BY <2>3, <2>4, <3>1, <3>2, Zenon
  <2> HIDE DEF s, q, a, p, top
  <2>6. (q + lo) * p = q * p + lo * p /\ q * p \in Int /\ lo * p \in Int
    BY <1>1, <2>5
  <2>7. WorthOf(x) = a + top * p
    BY <1>13, <2>5, <2>6
  <2> QED BY <1>13, <2>5, <2>6, <2>7
<1> HIDE DEF a, b, top
<1>15. o <= 1
  <2>1. o * p < 2 * p
    <3>1. o * p \in Int
      BY <1>1, <1>12
    <3>2. b + o * p = a + c
      BY <1>12 DEF a, b
    <3>3. p \in Nat
      BY <1>1
    <3> DEFINE i == o * p
    <3>4. i \in Int /\ b + i = a + c
      BY <3>1, <3>2
    <3> HIDE DEF i, p
    <3> QED BY <1>10, <1>13, <3>3, <3>4 DEF i
  <2>2. p \in Nat /\ p > 0 /\ o \in Nat
    BY <1>1, <1>12
  <2> HIDE DEF p
  <2>3. ASSUME o >= 2 PROVE o * p >= 2 * p
    BY <2>2, <2>3
  <2>4. o * p \in Int
    BY <2>2
  <2> QED BY <2>1, <2>2, <2>3, <2>4
<1> DEFINE last == z + o
<1>16. last \in Nat /\ last <= 4 /\ last \in 0..(W - 1)
  BY <1>1, <1>9, <1>12, <1>15
<1> HIDE DEF last
<1>17. out = g \o <<last>>
  BY Zenon DEF last, z
<1>18. /\ out \in Seq(Nat) /\ Len(out) = n /\ out[n] = last
       /\ \A j \in 1..K : out[j] = g[j]
  <2>1. <<last>> \in Seq(Nat) /\ Len(<<last>>) = 1 /\ <<last>>[1] = last
    BY <1>16
  <2> HIDE DEF out
  <2> DEFINE w == <<last>>
  <2> HIDE DEF w
  <2>2. out = g \o w /\ w \in Seq(Nat) /\ Len(w) = 1 /\ w[1] = last
    BY <1>17, <2>1 DEF w
  <2>3. IsJoined(g \o w, g, w, K, 1)
    BY <1>12, <2>2, Joined
  <2>4. /\ out \in Seq(Nat) /\ Len(out) = K + 1
        /\ \A i \in 1..(K + 1) : out[i] = IF i <= K THEN g[i] ELSE w[i - K]
    BY <2>2, <2>3 DEF IsJoined
  <2>5. out[K + 1] = w[1]
    <3>1. K + 1 \in 1..(K + 1) /\ ~(K + 1 <= K) /\ (K + 1) - K = 1
      BY <1>1
    <3>2. out[K + 1] = w[(K + 1) - K]
      BY <2>4, <3>1, Zenon
    <3> QED BY <3>1, <3>2, Zenon
  <2>6. \A j \in 1..K : out[j] = g[j]
    BY <1>1, <2>4
  <2> HIDE DEF K, n
  <2> QED BY <1>1, <2>2, <2>4, <2>5, <2>6
<1> HIDE DEF out
<1>19. AreDigits(out, W, n)
  <2>1. ASSUME NEW j \in 1..n PROVE out[j] \in 0..(W - 1)
    <3>1. CASE j = n
      BY <1>16, <1>18, <3>1
    <3>2. CASE j # n
      <4>1. j \in 1..K
        BY <1>1, <3>2
      <4> QED BY <1>12, <1>18, <4>1 DEF AreDigits
    <3> QED BY <3>1, <3>2
  <2> QED BY <2>1 DEF AreDigits
<1>20. Bytes(out)
  <2>1. out \in [1..n -> Nat]
    BY <1>18
  <2> QED BY <1>18, <1>19, <2>1 DEF Bytes, MacDigits
<1>21. WorthOf(out) = b + last * p
  <2>1. IsInts(out, n) /\ IsInts(g, K)
    BY <1>1, <1>12, <1>19, DigitsAreInts
  <2>2. Worth(out, W, K) = b
    <3>1. \A j \in 1..K : out[j] = g[j]
      BY <1>18
    <3> QED BY <1>1, <2>1, <3>1, WorthSame DEF b
  <2>3. Worth(out, W, K + 1) = Worth(out, W, K) + out[K + 1] * PowersOf(W)[K]
    <3>1. K < n
      BY <1>1
    <3> HIDE DEF n
    <3> QED BY <1>1, <2>1, <3>1, WorthStep
  <2>4. WorthOf(out) = Worth(out, W, K + 1) /\ out[K + 1] = last
    BY <1>1, <1>18, Zenon DEF WorthOf
  <2> QED BY <2>2, <2>3, <2>4, Zenon DEF BoxPower
<1>22. WorthOf(out) = a + c + z * p
  <2>0. p \in Nat
    BY <1>1
  <2> HIDE DEF p
  <2>1. (z + o) * p = z * p + o * p /\ z * p \in Int /\ o * p \in Int
    BY <1>9, <1>12, <2>0
  <2>2. b + o * p = a + c
    BY <1>12 DEF a, b
  <2>3. last = z + o
    BY DEF last
  <2> QED BY <1>10, <1>13, <1>21, <2>1, <2>2, <2>3
<1>23. WorthOf(out) \in Nat /\ WorthOf(out) < 5 * p
  <2>0. p \in Nat
    BY <1>1
  <2> HIDE DEF p
  <2>1. z * p \in Nat /\ z * p <= 3 * p
    BY <1>9, <2>0
  <2> QED BY <1>10, <1>13, <1>22, <2>0, <2>1
<1>24. WorthOf(out) = WorthOf(x) + (-y) * PRIME
  <2>0. p \in Nat /\ PRIME = 4 * p - 5
    BY <1>1
  <2> HIDE DEF p
  <2>1. (4 * y + z) * p = 4 * (y * p) + z * p /\ y * p \in Int /\ z * p \in Int
    BY <1>9, <2>0
  <2>2. (-y) * (4 * p - 5) = 5 * y - 4 * (y * p)
    BY <1>9, <2>0
  <2> DEFINE f == y * p
             d == z * p
             i == top * p
             h == (-y) * PRIME
  <2>3. i = 4 * f + d /\ h = 5 * y - 4 * f /\ f \in Int /\ d \in Int
    BY <1>9, <2>0, <2>1, <2>2
  <2>4. WorthOf(out) = a + c + d /\ WorthOf(x) = a + i
    BY <1>14, <1>22
  <2> HIDE DEF f, d, i, h
  <2>5. WorthOf(out) = WorthOf(x) + h
    BY <1>9, <1>10, <1>13, <2>3, <2>4
  <2> QED BY <2>5 DEF h
<1>25. SameModulo(WorthOf(out), WorthOf(x))
  <2>1. -y \in Int
    BY <1>9
  <2> QED BY <1>24, <2>1, Zenon DEF SameModulo, Congruent
<1> QED BY <1>3, <1>14, <1>20, <1>23, <1>25 DEF Squeezed

-----------------------------------------------------------------------------
(* The polynomial: what the reference definition computes from digits.     *)

LEMMA ProductFacts ==
  ASSUME BoxAssumption, MacAssumption, NEW n \in Nat, NEW d, Len(d) = n, AreNats(d, n),
         NEW a \in Nat
  PROVE  /\ MacProduct(a, d) \in 0..(PRIME - 1) /\ Worth(d, BOXBYTE, n) \in Int
         /\ SameModulo(MacProduct(a, d), a * Worth(d, BOXBYTE, n))
<1> DEFINE W == BOXBYTE
           q == PRIME
           e == [j \in Nat |-> a * d[j]]
           Is(v) == v = [j \in 1..(n + 1) |->
                           IF j > n THEN 0 ELSE (a * d[j] + W * v[j + 1]) % q]
           chosen == CHOOSE v : Is(v)
<1>1. W \in Nat /\ W > 0 /\ q \in Nat /\ q > 0
  BY MacSizes
<1>2. ASSUME NEW j \in 1..n PROVE d[j] \in Nat /\ e[j] = a * d[j] /\ e[j] \in Nat
  <2>1. d[j] \in Nat /\ e[j] = a * d[j]
    BY DEF AreNats
  <2> DEFINE x == d[j]
  <2> HIDE DEF x, e
  <2>2. a * x \in Nat
    BY <2>1 DEF x
  <2> QED BY <2>1, <2>2 DEF x
<1>3. \A j \in Nat : e[j] = a * d[j]
  OBVIOUS
<1> HIDE DEF e
<1>4. ASSUME NEW v PROVE Is(v) <=> IsHorner(v, e, W, q, n)
  <2>1. \A j \in 1..(n + 1) : e[j] = a * d[j]
    BY <1>3
  <2>2. [j \in 1..(n + 1) |-> IF j > n THEN 0 ELSE (a * d[j] + W * v[j + 1]) % q]
          = [j \in 1..(n + 1) |-> IF j > n THEN 0 ELSE (e[j] + W * v[j + 1]) % q]
    BY <2>1
  <2> QED BY <2>2, Zenon DEF IsHorner
<1>5. \E v : IsHorner(v, e, W, q, n)
  <2>1. IsInts(e, n)
    BY <1>2 DEF IsInts
  <2> QED BY <1>1, <2>1, HornerExists
<1>6. Is(chosen)
  <2>1. \E v : Is(v)
    <3> HIDE DEF Is
    <3> QED BY <1>4, <1>5, Zenon
  <2> HIDE DEF Is
  <2> QED BY <2>1, Zenon
<1>7. MacProduct(a, d) = chosen[1]
  BY Zenon DEF MacProduct
<1> HIDE DEF chosen
<1>8. IsHorner(chosen, e, W, q, n)
  <2> HIDE DEF Is
  <2> QED BY <1>4, <1>6, Zenon
<1>9. /\ chosen[1] \in 0..(q - 1) /\ Worth(e, W, n) \in Int
      /\ Congruent(chosen[1], Worth(e, W, n), q)
  <2>1. IsInts(e, n)
    BY <1>2 DEF IsInts
  <2> QED BY <1>1, <1>8, <2>1, HornerIsWorth
<1>10. IsInts(d, n)
  BY <1>2 DEF IsInts
<1> DEFINE s == Worth(d, W, n)
<1>11. s \in Int
  BY <1>1, <1>10, WorthIsInt
<1>12. Worth(e, W, n) = a * s
  <2> DEFINE c == a - 1
  <2>1. c \in Int /\ a = c + 1
    OBVIOUS
  <2>2. ASSUME NEW j \in 1..n PROVE e[j] = d[j] + c * d[j]
    <3> DEFINE x == d[j]
    <3>1. x \in Nat /\ e[j] = a * x
      BY <1>2
    <3> HIDE DEF x, c
    <3>2. a * x = x + c * x
      BY <2>1, <3>1
    <3> QED BY <3>1, <3>2 DEF x
  <2> HIDE DEF c
  <2>3. Worth(e, W, n) = Worth(d, W, n) + c * Worth(d, W, n)
    <3>1. IsAdded(e, d, c, d, n)
      BY <2>2, Zenon DEF IsAdded
    <3> QED BY <1>1, <1>10, <2>1, <3>1, WorthPlus
  <2> HIDE DEF s
  <2>4. s + c * s = a * s
    BY <1>11, <2>1
  <2> QED BY <2>3, <2>4 DEF s
<1> QED BY <1>7, <1>9, <1>11, <1>12 DEF SameModulo

(* The bytes of a block, as the loop takes them and as the polynomial does. *)
Blocks(m) == (Len(m) + MACBYTES - 1) \div MACBYTES

BlockAt(m, i) ==
  LET rest == Drop(m, (i - 1) * MACBYTES)
      j == IF Len(rest) < MACBYTES THEN Len(rest) ELSE MACBYTES
  IN  Take(rest, j)

PartAt(m, i) ==
  SubSeq(m, (i - 1) * MACBYTES + 1, IF i = Blocks(m) THEN Len(m) ELSE i * MACBYTES)

LEMMA BlockIsPart ==
  ASSUME BoxAssumption, MacAssumption, NEW S, NEW m \in Seq(S), NEW i \in 1..Blocks(m)
  PROVE  /\ BlockAt(m, i) \in Seq(S) /\ Len(BlockAt(m, i)) <= MACBYTES
         /\ PartAt(m, i) = BlockAt(m, i)
<1> DEFINE K == MACBYTES
           l == Len(m)
           N == Blocks(m)
           at == (i - 1) * K
           rest == Drop(m, at)
           j == IF Len(rest) < K THEN Len(rest) ELSE K
           b == BlockAt(m, i)
           c == PartAt(m, i)
           end == IF i = N THEN l ELSE i * K
<1>1. K \in Nat /\ K > 0 /\ l \in Nat
  BY MacSizes
<1>2. l + K - 1 \in Nat
  BY <1>1
<1>3. PICK e \in 0..(K - 1) : l + K - 1 = N * K + e /\ N \in Nat
  <2> DEFINE x == l + K - 1
  <2>1. x \in Nat /\ N = x \div K
    BY <1>2 DEF Blocks
  <2> HIDE DEF x, N, K
  <2>2. PICK q \in Nat, f \in 0..(K - 1) : x = q * K + f /\ x \div K = q
    BY <1>1, <2>1, Division
  <2>3. x = N * K + f /\ N \in Nat
    BY <2>1, <2>2
  <2> QED BY <2>3 DEF x
<1> HIDE DEF N
<1>4. i \in Nat /\ i >= 1 /\ i <= N
  BY <1>3 DEF N
<1>5. at \in Nat /\ i * K = at + K
  <2> HIDE DEF K
  <2>1. i - 1 \in Nat
    BY <1>4
  <2>2. (i - 1) * K \in Nat /\ i * K = (i - 1) * K + K
    BY <1>1, <1>4, <2>1
  <2> QED BY <2>2
<1>6. at + K <= N * K /\ (i # N => at + K + K <= N * K) /\ N * K \in Nat
  <2> HIDE DEF K, at
  <2>1. i * K <= N * K /\ N * K \in Nat
    BY <1>1, <1>3, <1>4
  <2>2. ASSUME i # N PROVE i * K + K <= N * K
    <3>1. (i + 1) * K <= N * K /\ (i + 1) * K = i * K + K
      <4>1. i + 1 <= N
        BY <1>3, <1>4, <2>2
      <4> QED BY <1>1, <1>3, <1>4, <4>1
    <3> QED BY <3>1
  <2> QED BY <1>5, <2>1, <2>2
<1> HIDE DEF at
<1>7. /\ at <= l /\ (i # N => at + K <= l) /\ (i = N => l - at <= K)
  <2> DEFINE z == N * K
  <2>1. z \in Nat /\ at + K <= z /\ (i # N => at + K + K <= z) /\ l + K - 1 = z + e
    BY <1>3, <1>6
  <2>2. i = N => z = at + K
    BY <1>5
  <2> HIDE DEF z, K, l
  <2> QED BY <1>1, <1>5, <2>1, <2>2
<1>8. /\ rest \in Seq(S) /\ Len(rest) = l - at /\ \A k \in 1..(l - at) : rest[k] = m[k + at]
  <2>1. at \in 0..Len(m)
    BY <1>5, <1>7
  <2> QED BY <2>1, TakeDrop
<1> HIDE DEF rest
<1>9. j \in 0..Len(rest) /\ j <= K /\ end = at + j
  <2>1. CASE i = N
    <3>1. Len(rest) <= K
      BY <1>7, <1>8, <2>1
    <3>2. j = Len(rest)
      BY <1>1, <1>8, <3>1
    <3> QED BY <1>1, <1>5, <1>7, <1>8, <2>1, <3>1, <3>2
  <2>2. CASE i # N
    <3>1. ~(Len(rest) < K)
      BY <1>1, <1>5, <1>7, <1>8, <2>2
    <3> QED BY <1>1, <1>5, <1>7, <1>8, <2>2, <3>1
  <2> QED BY <2>1, <2>2
<1>10. b = Take(rest, j)
  BY Zenon DEF BlockAt, rest, at
<1>11. c = SubSeq(m, at + 1, end)
  BY Zenon DEF PartAt, at, N
<1> HIDE DEF j, end, b, c
<1>12. b \in Seq(S) /\ Len(b) = j /\ \A k \in 1..j : b[k] = rest[k]
  BY <1>8, <1>9, <1>10, TakeDrop
<1>13. c \in Seq(S) /\ Len(c) = j /\ \A k \in 1..j : c[k] = m[k + at]
  <2>1. at + 1 \in Nat /\ end \in Nat /\ end <= l /\ at <= end
    BY <1>1, <1>5, <1>7, <1>8, <1>9
  <2>2. c = SubSeq(m, at + 1, at + j) /\ at + j <= l /\ j \in Nat
    BY <1>9, <1>11, <2>1
  <2> HIDE DEF l
  <2>3. at \in Nat /\ at + j <= Len(m) /\ j \in Nat
    BY <1>5, <2>2 DEF l
  <2> QED BY <2>2, <2>3
<1>14. b = c
  <2>1. \A k \in 1..j : k \in 1..(l - at)
    BY <1>8, <1>9
  <2>2. \A k \in 1..j : b[k] = c[k]
    BY <1>8, <1>12, <1>13, <2>1
  <2> QED BY <1>12, <1>13, <2>2, SameSeq
<1> QED BY <1>9, <1>12, <1>14 DEF b, c

(* The digits of a block, and what they stand for.                         *)
LEMMA BlockDigitsFacts ==
  ASSUME BoxAssumption, MacAssumption, NEW b \in Seq(Nat), AreDigits(b, BOXBYTE, Len(b)),
         Len(b) <= MACBYTES
  PROVE  /\ Bytes(BlockDigits(b)) /\ WorthOf(BlockDigits(b)) \in Nat
         /\ WorthOf(BlockDigits(b)) < 2 * BoxPower[MACBYTES]
         /\ Value(b \o << 1 >>) \in 0..(PRIME - 1)
         /\ SameModulo(Value(b \o << 1 >>), WorthOf(BlockDigits(b)))
<1> DEFINE W == BOXBYTE
           K == MACBYTES
           n == LAST
           l == Len(b)
           one == << 1 >>
           f == b \o one
           z == Repeat(0, K - l)
           d == BlockDigits(b)
<1>1. /\ W \in Nat /\ W > 0 /\ W >= 16 /\ K \in Nat /\ n \in Nat /\ n = K + 1
      /\ l \in Nat /\ K - l \in Nat /\ PRIME \in Nat
  <2>1. l \in Nat
    OBVIOUS
  <2>2. l <= K
    OBVIOUS
  <2>3. W \in Nat /\ W > 0 /\ W >= 16 /\ K \in Nat /\ n \in Nat /\ n = K + 1 /\ PRIME \in Nat
    BY MacSizes
  <2> HIDE DEF l
  <2> QED BY <2>1, <2>2, <2>3
<1>2. b \in Seq(Nat) /\ \A k \in 1..l : b[k] \in 0..(W - 1)
  BY DEF AreDigits
<1>3. one \in Seq(Nat) /\ Len(one) = 1 /\ one[1] = 1
  OBVIOUS
<1>4. z \in Seq(Nat) /\ Len(z) = K - l /\ \A k \in 1..(K - l) : z[k] = 0
  BY <1>1 DEF Repeat
<1>5. d = f \o z
  BY Zenon DEF BlockDigits
<1> HIDE DEF one, z
<1>6. /\ f \in Seq(Nat) /\ Len(f) = l + 1
      /\ \A i \in 1..(l + 1) : f[i] = IF i <= l THEN b[i] ELSE one[i - l]
  <2>1. IsJoined(b \o one, b, one, l, 1)
    BY <1>2, <1>3, Joined
  <2> QED BY <2>1 DEF IsJoined
<1> HIDE DEF f, d
<1>7. /\ d \in Seq(Nat) /\ Len(d) = (l + 1) + (K - l)
      /\ \A i \in 1..((l + 1) + (K - l)) : d[i] = IF i <= l + 1 THEN f[i] ELSE z[i - (l + 1)]
  <2>1. IsJoined(f \o z, f, z, l + 1, K - l)
    BY <1>4, <1>6, Joined
  <2> QED BY <1>5, <2>1 DEF IsJoined
<1>8. (l + 1) + (K - l) = n /\ l + 1 \in 0..n /\ l + 1 <= n
  BY <1>1
<1>9. f[l + 1] = 1 /\ \A i \in 1..l : f[i] = b[i]
  <2>1. f[l + 1] = one[(l + 1) - l]
    <3>1. l + 1 \in 1..(l + 1) /\ ~(l + 1 <= l)
      BY <1>1
    <3> QED BY <1>6, <3>1
  <2>2. (l + 1) - l = 1
    BY <1>1
  <2>3. \A i \in 1..l : i \in 1..(l + 1) /\ i <= l
    BY <1>1
  <2> HIDE DEF l
  <2> QED BY <1>3, <1>6, <2>1, <2>2, <2>3
<1>10. \A i \in 1..(l + 1) : f[i] \in 0..(W - 1)
  <2>1. ASSUME NEW i \in 1..(l + 1) PROVE f[i] \in 0..(W - 1)
    <3>1. CASE i = l + 1
      BY <1>1, <1>9, <3>1
    <3>2. CASE i # l + 1
      <4>1. i \in 1..l
        BY <1>1, <3>2
      <4> QED BY <1>2, <1>9, <4>1
    <3> QED BY <3>1, <3>2
  <2> QED BY <2>1
<1>11. /\ Len(d) = n /\ \A i \in 1..(l + 1) : d[i] = f[i]
       /\ \A i \in ((l + 1) + 1)..n : d[i] = 0
  <2>1. ASSUME NEW i \in ((l + 1) + 1)..n PROVE d[i] = 0
    <3>1. i \in 1..n /\ ~(i <= l + 1) /\ i - (l + 1) \in 1..(K - l)
      BY <1>1
    <3>2. d[i] = z[i - (l + 1)]
      BY <1>7, <1>8, <3>1, Zenon
    <3> QED BY <1>4, <3>1, <3>2
  <2>2. ASSUME NEW i \in 1..(l + 1) PROVE d[i] = f[i]
    <3>1. i \in 1..n /\ i <= l + 1
      BY <1>1, <1>8
    <3> QED BY <1>7, <1>8, <3>1, Zenon
  <2> QED BY <1>7, <1>8, <2>1, <2>2
<1>12. AreDigits(d, W, n)
  <2>1. ASSUME NEW i \in 1..n PROVE d[i] \in 0..(W - 1)
    <3>1. CASE i <= l + 1
      <4>1. i \in 1..(l + 1)
        BY <1>1, <3>1
      <4> QED BY <1>10, <1>11, <4>1
    <3>2. CASE ~(i <= l + 1)
      <4>1. i \in ((l + 1) + 1)..n
        BY <1>1, <3>2
      <4> QED BY <1>1, <1>11, <4>1
    <3> QED BY <3>1, <3>2
  <2> QED BY <2>1 DEF AreDigits
<1>13. Bytes(d)
  <2>1. d \in [1..n -> Nat]
    BY <1>7, <1>11
  <2> QED BY <1>7, <1>11, <1>12, <2>1 DEF Bytes, MacDigits
<1>14. WorthOf(d) = Worth(d, W, l + 1)
  <2>1. IsInts(d, n)
    BY <1>1, <1>12, DigitsAreInts
  <2> HIDE DEF n, l
  <2> QED BY <1>1, <1>8, <1>11, <2>1, WorthZeros DEF WorthOf, n
<1>15. IsInts(f, l + 1) /\ AreNats(f, l + 1)
  BY <1>10 DEF IsInts, AreNats
<1>16. Worth(d, W, l + 1) = Worth(f, W, l + 1)
  <2>1. \A k \in 1..(l + 1) : d[k] = f[k]
    BY <1>11
  <2>2. l + 1 \in Nat
    BY <1>1
  <2> HIDE DEF l
  <2> QED BY <1>1, <1>15, <2>1, <2>2, WorthSame
<1> DEFINE p == BoxPower[l]
<1>17. Worth(f, W, l + 1) = Worth(f, W, l) + p /\ Worth(f, W, l) \in Nat
       /\ Worth(f, W, l) < p /\ p \in Nat
  <2>1. AreDigits(f, W, l)
    BY <1>2, <1>9 DEF AreDigits
  <2>2. Worth(f, W, l) \in Nat /\ Worth(f, W, l) < p
    BY <1>1, <2>1, WorthBound DEF BoxPower
  <2>3. Worth(f, W, l + 1) = Worth(f, W, l) + f[l + 1] * p
    <3>1. l + 1 \in Nat /\ l < l + 1
      BY <1>1
    <3> QED BY <1>1, <1>15, <3>1, WorthStep DEF BoxPower
  <2>4. p \in Nat
    BY <1>1, PowersFacts DEF BoxPower
  <2> QED BY <1>9, <2>2, <2>3, <2>4
<1>18. p <= BoxPower[K]
  <2>1. l \in 0..K
    BY <1>1
  <2> QED BY <1>1, <2>1, PowersGrow DEF BoxPower
<1>19. BoxPower[K] \in Nat
  BY MacSizes
<1> HIDE DEF p
<1>20. WorthOf(d) \in Nat /\ WorthOf(d) < 2 * BoxPower[K]
  BY <1>14, <1>16, <1>17, <1>18, <1>19
<1> DEFINE v == MacProduct(1, f)
<1>21. v \in 0..(PRIME - 1) /\ SameModulo(v, 1 * Worth(f, W, l + 1))
  <2>1. l + 1 \in Nat /\ 1 \in Nat
    BY <1>1
  <2> HIDE DEF l
  <2> QED BY <1>6, <1>15, <2>1, ProductFacts
<1>22. 1 * Worth(f, W, l + 1) = WorthOf(d)
  BY <1>14, <1>16, <1>20
<1>23. Value(b \o << 1 >>) = v
  BY Zenon DEF Value, f, one
<1> HIDE DEF v
<1> QED BY <1>13, <1>20, <1>21, <1>22, <1>23 DEF d

-----------------------------------------------------------------------------
(* The loop over the blocks. *)

(* Clearing bits leaves bytes. *)
LEMMA ClampKeyFacts ==
  ASSUME BoxAssumption, MacAssumption, NEW k, \A j \in 1..MACBYTES : k[j] \in 0..(BOXBYTE - 1)
  PROVE  Bytes(ClampKey(k))
<1> DEFINE W == BOXBYTE
           n == LAST
           q == W \div 16
           At(j) == IF j = n THEN 0
                    ELSE IF (j - 1) % 4 = 3 THEN k[j] % q
                    ELSE IF j > 1 /\ (j - 1) % 4 = 0 THEN 4 * (k[j] \div 4)
                    ELSE k[j]
           f == [j \in 1..n |-> At(j)]
<1>1. W \in Nat /\ W >= 16 /\ n \in Nat /\ n = MACBYTES + 1
  BY MacSizes
<1>2. q \in Nat /\ q > 0 /\ q <= W
  <2>1. PICK a \in Nat, b \in 0..(16 - 1) : W = a * 16 + b /\ W \div 16 = a
    BY <1>1, Division
  <2> QED BY <1>1, <2>1
<1> HIDE DEF q
<1>3. ASSUME NEW x \in 0..(W - 1)
      PROVE  x % q \in 0..(W - 1) /\ 4 * (x \div 4) \in 0..(W - 1)
  <2> HIDE DEF W
  <2>x. x \in Nat /\ x <= W - 1
    BY <1>1
  <2>1. PICK a \in Nat, b \in 0..(q - 1) : x = a * q + b /\ x % q = b
    BY <1>2, <2>x, Division
  <2>2. PICK c \in Nat, d \in 0..(4 - 1) : x = c * 4 + d /\ x \div 4 = c
    BY <2>x, Division
  <2>3. x % q \in 0..(W - 1)
    BY <1>1, <1>2, <2>1
  <2> QED BY <1>1, <2>x, <2>2, <2>3
<1>4. ASSUME NEW j \in 1..n PROVE f[j] \in 0..(W - 1)
  <2>1. CASE j = n
    <3>1. f[j] = 0
      BY <2>1
    <3> HIDE DEF f, W
    <3> QED BY <1>1, <3>1
  <2>2. CASE j # n
    <3>1. j \in 1..MACBYTES
      <4>1. MACBYTES = n - 1
        BY <1>1, MacSizes
      <4> HIDE DEF n
      <4> QED BY <1>1, <2>2, <4>1
    <3> DEFINE x == k[j]
    <3>2. x \in 0..(W - 1)
      BY <3>1
    <3>3. x % q \in 0..(W - 1) /\ 4 * (x \div 4) \in 0..(W - 1)
      <4> HIDE DEF x, W
      <4> QED BY <1>3, <3>2
    <3>4. f[j] = x % q \/ f[j] = 4 * (x \div 4) \/ f[j] = x
      BY <2>2
    <3> HIDE DEF f, x, W
    <3> QED BY <3>2, <3>3, <3>4
  <2> QED BY <2>1, <2>2
<1>5. f \in [1..n -> Nat] /\ AreDigits(f, W, n)
  <2>1. f = [j \in 1..n |-> f[j]]
    OBVIOUS
  <2> HIDE DEF f
  <2> QED BY <1>1, <1>4, <2>1 DEF AreDigits
<1>6. ClampKey(k) = SubSeq(f, 1, n)
  BY Zenon DEF ClampKey, Array, q
<1> HIDE DEF f
<1> QED BY <1>5, <1>6, ArrayOfBytes

(* A turn. *)
MacTurn(m, r, h, i) == Squeeze(MacTimes(add1305(h, BlockDigits(BlockAt(m, i))), r))

(* A message of bytes, and its blocks.                                     *)
IsMessage(m) == m \in Seq(Nat) /\ AreDigits(m, BOXBYTE, Len(m))

LEMMA BlockIsMessage ==
  ASSUME BoxAssumption, MacAssumption, NEW m, IsMessage(m), NEW i \in 1..Blocks(m)
  PROVE  IsMessage(BlockAt(m, i)) /\ Len(BlockAt(m, i)) <= MACBYTES
<1> DEFINE S == 0..(BOXBYTE - 1)
           b == BlockAt(m, i)
<1>1. m \in Seq(S)
  <2>1. m \in [1..Len(m) -> S] /\ Len(m) \in Nat
    BY DEF IsMessage, AreDigits
  <2>2. \A n \in Nat : \A t \in [1..n -> S] : t \in Seq(S)
    <3> HIDE DEF S
    <3> QED OBVIOUS
  <2> QED BY <2>1, <2>2
<1>2. BOXBYTE \in Nat
  BY MacSizes
<1>3. S \in SUBSET Nat
  BY <1>2
<1> HIDE DEF S
<1>4. b \in Seq(S) /\ Len(b) <= MACBYTES
  BY <1>1, BlockIsPart, Zenon
<1> HIDE DEF b
<1>5. b \in Seq(Nat) /\ \A j \in 1..Len(b) : b[j] \in S
  <2>1. b \in Seq(Nat)
    BY <1>3, <1>4, WiderSeq, Zenon
  <2> QED BY <1>4, <2>1
<1>6. AreDigits(b, BOXBYTE, Len(b))
  BY <1>5 DEF S, AreDigits
<1> QED BY <1>4, <1>5, <1>6 DEF b, IsMessage

LEMMA BytesWorth ==
  ASSUME BoxAssumption, MacAssumption, NEW d, Bytes(d)
  PROVE  d \in MacDigits /\ WorthOf(d) \in Nat /\ WorthOf(d) < BoxPower[LAST]
<1>1. BOXBYTE \in Nat /\ BOXBYTE > 0 /\ LAST \in Nat
  BY MacSizes
<1> QED BY <1>1, WorthBound DEF Bytes, WorthOf, BoxPower

(* What a loop keeps: bytes that are the polynomial modulo the prime.      *)
Kept(h, s) ==
  /\ Bytes(h) /\ WorthOf(h) < 5 * BoxPower[MACBYTES]
  /\ s \in 0..(PRIME - 1) /\ SameModulo(WorthOf(h), s)

Coefficient(m, i) == Value(PartAt(m, i) \o << 1 >>)

LEMMA TurnStaysDigits ==
  ASSUME BoxAssumption, MacAssumption, NEW m, IsMessage(m), NEW r, Bytes(r),
         NEW h \in MacDigits, NEW i \in 1..Blocks(m)
  PROVE  MacTurn(m, r, h, i) \in MacDigits
<1> DEFINE b == BlockDigits(BlockAt(m, i))
           a == add1305(h, b)
           x == MacTimes(a, r)
<1>1. IsMessage(BlockAt(m, i)) /\ Len(BlockAt(m, i)) <= MACBYTES
  BY BlockIsMessage
<1>2. Bytes(b)
  BY <1>1, BlockDigitsFacts DEF IsMessage
<1> HIDE DEF b
<1>3. Bytes(a)
  <2>1. b \in MacDigits
    BY <1>2 DEF Bytes
  <2> QED BY <2>1, SumFacts
<1> HIDE DEF a
<1>4. x \in MacDigits /\ \A j \in 1..LAST : x[j] \in 0..LARGEST
  BY <1>3, TimesFacts
<1> HIDE DEF x
<1>5. Squeezed(Squeeze(x), WorthOf(x))
  BY <1>4, SqueezeFacts
<1>6. Squeeze(x) \in MacDigits
  BY <1>5 DEF Squeezed, Bytes
<1> QED BY <1>6, Zenon DEF MacTurn, x, a, b

LEMMA TurnKeeps ==
  ASSUME BoxAssumption, MacAssumption, NEW m, IsMessage(m), NEW r, Bytes(r),
         NEW h, NEW s, Kept(h, s), NEW i \in 1..Blocks(m)
  PROVE  Kept(MacTurn(m, r, h, i), MacProduct((s + Coefficient(m, i)) % PRIME, r))
<1> DEFINE part == BlockAt(m, i)
           b == BlockDigits(part)
           c == Value(part \o << 1 >>)
           a == add1305(h, b)
           x == MacTimes(a, r)
           out == Squeeze(x)
           y == (s + c) % PRIME
           t == MacProduct(y, r)
           p == BoxPower[MACBYTES]
           q == PRIME
           v == WorthOf(r)
<1>1. /\ BOXBYTE \in Nat /\ BOXBYTE >= 16 /\ p \in Nat /\ BoxPower[LAST] = BOXBYTE * p
      /\ q \in Nat /\ q > 0 /\ LAST \in Nat
  BY MacSizes
<1>2. IsMessage(part) /\ Len(part) <= MACBYTES
  BY BlockIsMessage
<1>3. Coefficient(m, i) = c
  <2>1. m \in Seq(Nat)
    BY DEF IsMessage
  <2>2. PartAt(m, i) = part
    BY <2>1, BlockIsPart
  <2> QED BY <2>2, Zenon DEF Coefficient
<1>4. /\ Bytes(b) /\ WorthOf(b) \in Nat /\ WorthOf(b) < 2 * p
      /\ c \in 0..(q - 1) /\ SameModulo(c, WorthOf(b))
  <2> HIDE DEF part
  <2> QED BY <1>2, BlockDigitsFacts DEF IsMessage
<1> HIDE DEF part, b, c
<1>5. /\ h \in MacDigits /\ WorthOf(h) \in Nat /\ WorthOf(h) < 5 * p
      /\ s \in 0..(q - 1) /\ SameModulo(WorthOf(h), s)
  BY BytesWorth DEF Kept
<1>6. Bytes(a) /\ WorthOf(a) = WorthOf(h) + WorthOf(b)
  <2>1. WorthOf(h) + WorthOf(b) < BoxPower[LAST]
    <3> HIDE DEF p
    <3>1. BOXBYTE * p >= 16 * p
      BY <1>1
    <3> QED BY <1>1, <1>4, <1>5, <3>1
  <2>2. b \in MacDigits
    BY <1>4 DEF Bytes
  <2> QED BY <1>5, <2>1, <2>2, SumFits
<1> HIDE DEF a
<1>7. /\ x \in MacDigits /\ \A j \in 1..LAST : x[j] \in 0..LARGEST
      /\ SameModulo(WorthOf(x), WorthOf(a) * v)
  BY <1>6, TimesFacts
<1> HIDE DEF x
<1>8. WorthOf(x) \in Int /\ Squeezed(out, WorthOf(x))
  BY <1>7, SqueezeFacts
<1> HIDE DEF out
<1>9. Bytes(out) /\ WorthOf(out) \in Nat /\ WorthOf(out) < 5 * p
      /\ SameModulo(WorthOf(out), WorthOf(x))
  BY <1>8 DEF Squeezed
<1>10. v \in Nat
  BY BytesWorth
<1>11. y \in 0..(q - 1) /\ SameModulo(y, s + c)
  <2>1. s + c \in Nat
    BY <1>4, <1>5
  <2> QED BY <1>1, <2>1, CongruentRemainder DEF SameModulo
<1> HIDE DEF y
<1>12. t \in 0..(q - 1) /\ SameModulo(t, y * v)
  <2>1. LAST \in Nat /\ y \in Nat /\ Len(r) = LAST /\ AreNats(r, LAST)
    BY <1>1, <1>11 DEF Bytes, AreNats
  <2>2. t \in 0..(q - 1) /\ SameModulo(t, y * Worth(r, BOXBYTE, LAST))
    BY <2>1, ProductFacts
  <2> QED BY <2>2, Zenon DEF WorthOf
<1> HIDE DEF t, v, q
<1> DEFINE vh == WorthOf(h)
           vb == WorthOf(b)
           va == WorthOf(a)
           vx == WorthOf(x)
           vo == WorthOf(out)
<1>13. /\ vh \in Nat /\ vb \in Nat /\ vo \in Nat /\ vx \in Int /\ va = vh + vb
       /\ SameModulo(vh, s) /\ SameModulo(c, vb) /\ SameModulo(vx, va * v)
       /\ SameModulo(vo, vx)
  BY <1>4, <1>5, <1>6, <1>7, <1>8, <1>9
<1> HIDE DEF vh, vb, va, vx, vo
<1>14. s \in Nat /\ c \in Nat /\ y \in Nat /\ t \in Nat /\ q \in Nat /\ va \in Nat
  <2>1. q \in Nat /\ \A z \in 0..(q - 1) : z \in Nat
    BY <1>1
  <2>2. s \in Nat /\ c \in Nat /\ y \in Nat /\ t \in Nat
    BY <1>4, <1>5, <1>11, <1>12, <2>1, Zenon
  <2>3. va \in Nat
    BY <1>13
  <2> QED BY <2>1, <2>2, <2>3
<1>15. SameModulo(s + c, va)
  <2>1. Congruent(s, vh, q)
    <3>1. s \in Int /\ vh \in Int /\ q \in Nat /\ Congruent(vh, s, q)
      BY <1>13, <1>14 DEF SameModulo, q
    <3> QED BY <3>1, CongruentBack
  <2>2. Congruent(c, vb, q)
    BY <1>13 DEF SameModulo, q
  <2>3. Congruent(s + 1 * c, vh + 1 * vb, q)
    <3>1. /\ s \in Int /\ vh \in Int /\ c \in Int /\ vb \in Int /\ 1 \in Int
          /\ q \in Nat
      BY <1>13, <1>14
    <3> QED BY <2>1, <2>2, <3>1, CongruentPlus, Zenon
  <2>4. s + 1 * c = s + c /\ vh + 1 * vb = va
    BY <1>13, <1>14
  <2> QED BY <2>3, <2>4 DEF SameModulo, q
<1>16. SameModulo(y, va)
  <2>1. s + c \in Int /\ va \in Int /\ y \in Int
    BY <1>14
  <2>2. Congruent(y, s + c, q) /\ Congruent(s + c, va, q)
    BY <1>11, <1>15 DEF SameModulo, q
  <2>3. Congruent(y, va, q)
    BY <1>14, <2>1, <2>2, CongruentTrans
  <2> QED BY <2>3 DEF SameModulo, q
<1>17. SameModulo(va * v, y * v)
  <2>1. Congruent(va, y, q)
    BY <1>14, <1>16, CongruentBack DEF SameModulo, q
  <2>2. Congruent(v * va, v * y, q)
    <3>1. v \in Int /\ va \in Int /\ y \in Int /\ q \in Nat
      BY <1>10, <1>14
    <3> QED BY <2>1, <3>1, CongruentTimes, Zenon
  <2>3. v * va = va * v /\ v * y = y * v
    BY <1>10, <1>14
  <2> QED BY <2>2, <2>3 DEF SameModulo, q
<1>18. SameModulo(vo, t)
  <2>1. va * v \in Int /\ y * v \in Int /\ vo \in Int /\ t \in Int
    BY <1>10, <1>13, <1>14
  <2> DEFINE e == va * v
             f == y * v
  <2>2. /\ Congruent(vo, vx, q) /\ Congruent(vx, e, q) /\ Congruent(e, f, q)
        /\ Congruent(t, f, q)
    BY <1>12, <1>13, <1>17 DEF SameModulo, q
  <2>3. e \in Int /\ f \in Int
    BY <2>1
  <2> HIDE DEF e, f
  <2>4. Congruent(vo, e, q)
    BY <1>13, <1>14, <2>1, <2>2, <2>3, CongruentTrans
  <2>5. Congruent(vo, f, q)
    BY <1>14, <2>1, <2>2, <2>3, <2>4, CongruentTrans
  <2>6. Congruent(f, t, q)
    BY <1>14, <2>1, <2>2, <2>3, CongruentBack
  <2>7. Congruent(vo, t, q)
    BY <1>14, <2>1, <2>3, <2>5, <2>6, CongruentTrans
  <2> QED BY <2>7 DEF SameModulo, q
<1>19. Kept(out, t)
  BY <1>9, <1>12, <1>18 DEF Kept, vo, q
<1>20. MacTurn(m, r, h, i) = out
  BY Zenon DEF MacTurn, out, x, a, b, part
<1>21. MacProduct((s + Coefficient(m, i)) % PRIME, r) = t
  BY <1>3, Zenon DEF t, y
<1> QED BY <1>19, <1>20, <1>21

MacLoop(m, r, N) ==
  LET Turn(h, i) == MacTurn(m, r, h, i)
  IN  Loop(MacDigits, Turn, Repeat(0, LAST), N)

(* The states of the loop.                                                 *)
MacRuns(g, m, r, N) ==
  /\ g \in [Nat -> MacDigits] /\ g[0] = Repeat(0, LAST)
  /\ \A i \in Nat : i < N => g[i + 1] = MacTurn(m, r, g[i], i + 1)

MacRunsTo(out, m, r, N) == \E g : MacRuns(g, m, r, N) /\ out = g[N]

LEMMA BlocksIsNat ==
  ASSUME BoxAssumption, MacAssumption, NEW m \in Seq(Nat)
  PROVE  Blocks(m) \in Nat
<1> DEFINE K == MACBYTES
           x == Len(m) + K - 1
<1>1. K \in Nat /\ K > 0 /\ x \in Nat
  <2>1. K \in Nat /\ K > 0 /\ Len(m) \in Nat
    BY MacSizes
  <2> HIDE DEF K
  <2> QED BY <2>1
<1>2. \E a \in Nat, b \in 0..(K - 1) : x = a * K + b /\ x \div K = a
  <2> HIDE DEF x, K
  <2> QED BY <1>1, Division
<1> QED BY <1>2 DEF Blocks

LEMMA ZerosAreDigits ==
  ASSUME BoxAssumption
  PROVE  Bytes(Repeat(0, LAST)) /\ WorthOf(Repeat(0, LAST)) = 0
<1> DEFINE n == LAST
           W == BOXBYTE
           f == [j \in 1..n |-> 0]
           d == Repeat(0, n)
<1>1. n \in Nat /\ W \in Nat /\ W > 0
  BY DEF BoxAssumption, LAST
<1>2. d = f
  BY Zenon DEF Repeat
<1>3. f \in [1..n -> Nat] /\ AreDigits(f, W, n) /\ IsInts(f, n) /\ \A j \in 1..n : f[j] = 0
  <2> HIDE DEF n, W
  <2> QED BY <1>1 DEF AreDigits, IsInts
<1> HIDE DEF f
<1>4. d = f /\ Bytes(d)
  BY <1>2, <1>3, ArrayOfBytes
<1>5. Worth(f, W, n) = 0
  <2>1. 0 \in 0..n /\ \A j \in (0 + 1)..n : f[j] = 0
    <3> HIDE DEF n
    <3> QED BY <1>1, <1>3
  <2>2. Worth(f, W, 0) = 0
    BY WorthZero
  <2> HIDE DEF n, W
  <2> QED BY <1>1, <1>3, <2>1, <2>2, WorthZeros
<1> QED BY <1>4, <1>5 DEF WorthOf

LEMMA MacLoopRuns ==
  ASSUME BoxAssumption, MacAssumption, NEW m, IsMessage(m), NEW r, Bytes(r),
         NEW N \in Nat, N = Blocks(m)
  PROVE  MacRunsTo(MacLoop(m, r, N), m, r, N)
<1> DEFINE Turn(h, i) == MacTurn(m, r, h, i)
           S == MacDigits
           step == [p \in S \X Nat |->
                      IF p[2] > 0 /\ p[2] <= N THEN Turn(p[1], p[2]) ELSE p[1]]
           first == Repeat(0, LAST)
           K == 1..(N + 1)
           Is(run) == run = [p \in S \X K |->
                               IF p[2] > N THEN p[1]
                               ELSE run[<<Turn(p[1], p[2]), p[2] + 1>>]]
           chosen == CHOOSE run : Is(run)
<1>3. ASSUME NEW s \in S, NEW i \in Nat, i > 0, i <= N PROVE Turn(s, i) \in S
  BY <1>3, TurnStaysDigits
<1>4. first \in S
  BY ZerosAreDigits DEF Bytes
<1> HIDE DEF Turn, S
<1>5. /\ step \in [S \X Nat -> S]
      /\ \A s \in S : \A i \in Nat : i > 0 /\ i <= N => step[<<s, i>>] = Turn(s, i)
  BY <1>3
<1> HIDE DEF step, first
<1>6. ASSUME NEW p \in S \X K, ~(p[2] > N)
      PROVE  step[<<p[1], p[2]>>] = Turn(p[1], p[2])
  <2>1. p[1] \in S /\ p[2] \in Nat /\ p[2] > 0 /\ p[2] <= N
    BY <1>6
  <2> QED BY <1>5, <2>1
<1>7. ASSUME NEW run, IsLoop(run, S, N, step) PROVE Is(run)
  <2>2. run = [p \in S \X K |->
                 IF p[2] > N THEN p[1] ELSE run[<<step[<<p[1], p[2]>>], p[2] + 1>>]]
    BY <1>7 DEF IsLoop
  <2> HIDE DEF K
  <2> QED BY <1>6, <2>2
<1>8. ASSUME NEW run, Is(run) PROVE IsLoop(run, S, N, step)
  <2>2. run = [p \in S \X K |->
                 IF p[2] > N THEN p[1] ELSE run[<<step[<<p[1], p[2]>>], p[2] + 1>>]]
    <3>1. run = [p \in S \X K |->
                   IF p[2] > N THEN p[1] ELSE run[<<Turn(p[1], p[2]), p[2] + 1>>]]
      BY <1>8
    <3> HIDE DEF K
    <3> QED BY <1>6, <3>1
  <2> QED BY <2>2 DEF IsLoop
<1>9. Is(chosen)
  <2>1. \E run : IsLoop(run, S, N, step)
    BY <1>5, LoopExists
  <2>2. PICK run : IsLoop(run, S, N, step)
    BY <2>1
  <2>3. Is(run)
    BY <1>7, <2>2
  <2> HIDE DEF Is
  <2> QED BY <2>3, Zenon
<1>10. MacLoop(m, r, N) = chosen[<<first, 1>>]
  BY Zenon DEF MacLoop, Loop, Turn, S, first
<1> HIDE DEF chosen
<1>11. IsLoop(chosen, S, N, step)
  <2> HIDE DEF Is
  <2> QED BY <1>8, <1>9
<1> DEFINE last == chosen[<<first, 1>>]
<1>12. EndsIn(last, S, first, N, step)
  <2>1. first \in S /\ step \in [S \X Nat -> S]
    BY <1>4, <1>5
  <2> HIDE DEF Is, K
  <2> QED BY <1>11, <2>1, LoopTurns
<1>13. PICK g : Advances(g, S, first, step) /\ last = g[N]
  BY <1>12, Zenon DEF EndsIn
<1>14. /\ g \in [Nat -> S] /\ g[0] = first
       /\ \A i \in Nat : g[i + 1] = step[<<g[i], i + 1>>]
  BY <1>13 DEF Advances
<1>15. ASSUME NEW i \in Nat, i < N PROVE g[i + 1] = MacTurn(m, r, g[i], i + 1)
  <2>1. i + 1 \in Nat /\ i + 1 > 0 /\ i + 1 <= N /\ g[i] \in S
    BY <1>14, <1>15
  <2>2. g[i + 1] = Turn(g[i], i + 1)
    BY <1>5, <1>14, <2>1
  <2> QED BY <2>2 DEF Turn
<1>16. MacRuns(g, m, r, N)
  BY <1>14, <1>15 DEF MacRuns, S, first
<1>17. MacLoop(m, r, N) = g[N]
  BY <1>10, <1>13, Zenon
<1> QED BY <1>16, <1>17, Zenon DEF MacRunsTo

(* The polynomial, by its partial sums.                                    *)
PolyRuns(h, m, r, N) ==
  /\ h[0] = 0
  /\ \A i \in Nat : i < N => h[i + 1] = MacProduct((h[i] + Coefficient(m, i + 1)) % PRIME, r)

PolyRunsTo(s, m, r, N) == \E h : PolyRuns(h, m, r, N) /\ s = h[N]

LEMMA PolynomialRuns ==
  ASSUME BoxAssumption, MacAssumption, NEW m, IsMessage(m), NEW r, Bytes(r),
         NEW N \in Nat, N = Blocks(m)
  PROVE  PolyRunsTo(Polynomial(m, r), m, r, N)
<1> DEFINE q == PRIME
           Next(s, i) == MacProduct((s + Coefficient(m, i)) % q, r)
           step == [p \in Nat \X Nat |-> IF p[2] < N THEN Next(p[1], p[2] + 1) ELSE 0]
           Is(h) == h = [i \in 0..N |-> IF i = 0 THEN 0 ELSE Next(h[i - 1], i)]
           chosen == CHOOSE h : Is(h)
<1>1. q \in Nat /\ q > 0 /\ LAST \in Nat
  BY MacSizes
<1>2. ASSUME NEW s \in Nat, NEW i \in 1..N PROVE Next(s, i) \in Nat
  <2> DEFINE c == Coefficient(m, i)
             x == s + c
             y == x % q
  <2>1. c \in Nat
    <3> DEFINE b == BlockAt(m, i)
               d == << 1 >>
    <3>1. m \in Seq(Nat) /\ IsMessage(b) /\ Len(b) <= MACBYTES
      BY BlockIsMessage DEF IsMessage
    <3>2. PartAt(m, i) = b
      BY <3>1, BlockIsPart
    <3>3. c = Value(b \o d)
      BY <3>2, Zenon DEF Coefficient
    <3> HIDE DEF b
    <3>4. Value(b \o d) \in 0..(q - 1)
      BY <3>1, BlockDigitsFacts DEF IsMessage
    <3> HIDE DEF c, d, q
    <3> QED BY <1>1, <3>3, <3>4
  <2> HIDE DEF c, q
  <2>2. x \in Nat
    BY <2>1
  <2> HIDE DEF x
  <2>3. y \in Nat
    BY <1>1, <2>2, CongruentRemainder
  <2> HIDE DEF y
  <2>4. Len(r) = LAST /\ AreNats(r, LAST)
    BY <1>1 DEF Bytes, AreNats
  <2>5. MacProduct(y, r) \in 0..(q - 1)
    BY <1>1, <2>3, <2>4, ProductFacts DEF q
  <2>6. MacProduct(y, r) \in Nat
    BY <1>1, <2>5
  <2> QED BY <2>6 DEF y, x, c
<1> HIDE DEF Next
<1>3. /\ step \in [Nat \X Nat -> Nat]
      /\ \A s \in Nat : \A i \in Nat : i < N => step[<<s, i>>] = Next(s, i + 1)
  <2>1. \A s \in Nat : \A i \in Nat : i < N => Next(s, i + 1) \in Nat
    BY <1>2
  <2> QED BY <2>1
<1> HIDE DEF step
<1>4. PICK f : UnrollsTo(f, N, Nat, 0, step)
  <2>1. 0 \in Nat
    OBVIOUS
  <2> QED BY <1>3, <2>1, RecursionTo
<1>5. f \in [0..N -> Nat]
      /\ f = [k \in 0..N |-> IF k = 0 THEN 0 ELSE step[<<f[k - 1], k - 1>>]]
  BY <1>4 DEF UnrollsTo
<1>6. ASSUME NEW k \in 0..N, k # 0 PROVE step[<<f[k - 1], k - 1>>] = Next(f[k - 1], k)
  <2>1. k - 1 \in Nat /\ k - 1 \in 0..N /\ k - 1 < N /\ (k - 1) + 1 = k
    BY <1>6
  <2>2. f[k - 1] \in Nat
    BY <1>5, <2>1
  <2> QED BY <1>3, <2>1, <2>2
<1>7. Is(f)
  BY <1>5, <1>6
<1>8. Is(chosen)
  <2> HIDE DEF Is
  <2> QED BY <1>7, Zenon
<1>9. Polynomial(m, r) = chosen[N]
  BY Zenon DEF Polynomial, Next, q, Coefficient, PartAt, Blocks
<1> HIDE DEF chosen
<1>10. \A k \in 0..N : chosen[k] = IF k = 0 THEN 0 ELSE Next(chosen[k - 1], k)
  BY <1>8, Zenon
<1>11. chosen[0] = 0
  BY <1>10
<1>12. ASSUME NEW i \in Nat, i < N
       PROVE  chosen[i + 1] = MacProduct((chosen[i] + Coefficient(m, i + 1)) % PRIME, r)
  <2>1. i + 1 \in 0..N /\ i + 1 # 0 /\ (i + 1) - 1 = i
    BY <1>12
  <2>2. chosen[i + 1] = Next(chosen[(i + 1) - 1], i + 1)
    BY <1>10, <2>1, Zenon
  <2>3. chosen[i + 1] = Next(chosen[i], i + 1)
    BY <2>1, <2>2, Zenon
  <2> QED BY <2>3, Zenon DEF Next, q
<1>13. PolyRuns(chosen, m, r, N)
  BY <1>11, <1>12 DEF PolyRuns
<1> QED BY <1>9, <1>13, Zenon DEF PolyRunsTo

(* The loop of the code computes the polynomial, modulo the prime.         *)
LEMMA LoopIsPolynomial ==
  ASSUME BoxAssumption, MacAssumption, NEW m, IsMessage(m), NEW r, Bytes(r)
  PROVE  Kept(MacLoop(m, r, Blocks(m)), Polynomial(m, r))
<1> DEFINE N == Blocks(m)
<1>1. N \in Nat
  BY BlocksIsNat DEF IsMessage
<1>2. PICK g : MacRuns(g, m, r, N) /\ MacLoop(m, r, N) = g[N]
  <2>1. MacRunsTo(MacLoop(m, r, N), m, r, N)
    BY <1>1, MacLoopRuns
  <2> QED BY <2>1, Zenon DEF MacRunsTo
<1>3. PICK h : PolyRuns(h, m, r, N) /\ Polynomial(m, r) = h[N]
  <2>1. PolyRunsTo(Polynomial(m, r), m, r, N)
    BY <1>1, PolynomialRuns
  <2> QED BY <2>1, Zenon DEF PolyRunsTo
<1> HIDE DEF N
<1> DEFINE A == {i \in Nat : i <= N => Kept(g[i], h[i])}
<1>4. 0 \in A
  <2>1. g[0] = Repeat(0, LAST) /\ h[0] = 0
    BY <1>2, <1>3 DEF MacRuns, PolyRuns
  <2>2. Bytes(g[0]) /\ WorthOf(g[0]) = 0
    BY <2>1, ZerosAreDigits
  <2> DEFINE p == BoxPower[MACBYTES]
             q == PRIME
  <2>3. p \in Nat /\ p >= 16 /\ q \in Nat /\ q > 0
    BY MacSizes
  <2>4. SameModulo(0, 0)
    <3>1. 0 \in Int
      OBVIOUS
    <3> QED BY <2>3, <3>1, CongruentSame DEF SameModulo
  <2> HIDE DEF p, q
  <2>5. 0 < 5 * p /\ 0 \in 0..(q - 1)
    BY <2>3
  <2>6. Kept(g[0], 0)
    BY <2>2, <2>4, <2>5 DEF Kept, p, q
  <2> QED BY <2>1, <2>6
<1>5. ASSUME NEW i \in Nat, i \in A PROVE i + 1 \in A
  <2>1. CASE i + 1 <= N
    <3>1. Kept(g[i], h[i]) /\ i < N /\ i + 1 \in 1..N
      BY <1>1, <1>5, <2>1
    <3>2. g[i + 1] = MacTurn(m, r, g[i], i + 1)
      BY <1>2, <3>1 DEF MacRuns
    <3>3. h[i + 1] = MacProduct((h[i] + Coefficient(m, i + 1)) % PRIME, r)
      BY <1>3, <3>1 DEF PolyRuns
    <3>4. Kept(MacTurn(m, r, g[i], i + 1), MacProduct((h[i] + Coefficient(m, i + 1)) % PRIME, r))
      BY <3>1, TurnKeeps DEF N
    <3>5. Kept(g[i + 1], h[i + 1])
      BY <3>2, <3>3, <3>4, Zenon
    <3> QED BY <3>5
  <2>2. CASE ~(i + 1 <= N)
    BY <2>2
  <2> QED BY <2>1, <2>2
<1> HIDE DEF A
<1>6. N \in A
  BY <1>1, <1>4, <1>5, SetInduction
<1>7. Kept(g[N], h[N])
  BY <1>1, <1>6 DEF A
<1> QED BY <1>2, <1>3, <1>7, Zenon DEF N

-----------------------------------------------------------------------------
(* The end: the sum is made less than the prime, and the second half of    *)
(* the key is added.                                                       *)

(* The digits of 2^136 - PRIME.                                            *)
LEMMA MinuspFacts ==
  ASSUME BoxAssumption, MacAssumption
  PROVE  Bytes(minusp) /\ WorthOf(minusp) = BoxPower[LAST] - PRIME
<1> DEFINE W == BOXBYTE
           K == MACBYTES
           n == LAST
           p == BoxPower[K]
           five == <<5>>
           z == Repeat(0, K - 1)
           top == <<W - 4>>
           f == five \o z
           d == minusp
<1>1. /\ W \in Nat /\ W >= 16 /\ K \in Nat /\ K > 0 /\ n \in Nat /\ n = K + 1
      /\ p \in Nat /\ BoxPower[n] = W * p /\ PRIME = 4 * p - 5
  BY MacSizes
<1>2. five \in Seq(Nat) /\ Len(five) = 1 /\ five[1] = 5
  OBVIOUS
<1>3. z \in Seq(Nat) /\ Len(z) = K - 1 /\ \A k \in 1..(K - 1) : z[k] = 0
  <2> HIDE DEF K
  <2> QED BY <1>1 DEF Repeat
<1>4. top \in Seq(Nat) /\ Len(top) = 1 /\ top[1] = W - 4
  <2> HIDE DEF W
  <2> QED BY <1>1
<1>5. d = f \o top
  BY Zenon DEF minusp
<1> HIDE DEF five, z, top
<1>6. f \in Seq(Nat) /\ Len(f) = K /\ f[1] = 5 /\ \A k \in 2..K : f[k] = 0
  <2>1. IsJoined(five \o z, five, z, 1, K - 1)
    BY <1>2, <1>3, Joined
  <2>2. 1 + (K - 1) = K
    BY <1>1
  <2>3. /\ f \in Seq(Nat) /\ Len(f) = K
        /\ \A i \in 1..K : f[i] = IF i <= 1 THEN five[i] ELSE z[i - 1]
    BY <2>1, <2>2 DEF IsJoined
  <2> HIDE DEF f, K
  <2>4. f[1] = 5
    BY <1>1, <1>2, <2>3
  <2>5. ASSUME NEW k \in 2..K PROVE f[k] = 0
    <3>1. k \in 1..K /\ ~(k <= 1) /\ k - 1 \in 1..(K - 1)
      BY <1>1
    <3>2. f[k] = z[k - 1]
      BY <2>3, <3>1, Zenon
    <3> QED BY <1>3, <3>1, <3>2
  <2> QED BY <2>3, <2>4, <2>5
<1> HIDE DEF f, d
<1>7. /\ d \in Seq(Nat) /\ Len(d) = n /\ d[1] = 5 /\ d[n] = W - 4
      /\ \A k \in 2..K : d[k] = 0
  <2>1. IsJoined(f \o top, f, top, K, 1)
    BY <1>4, <1>6, Joined
  <2>3. /\ d \in Seq(Nat) /\ Len(d) = n
        /\ \A i \in 1..n : d[i] = IF i <= K THEN f[i] ELSE top[i - K]
    BY <1>1, <1>5, <2>1 DEF IsJoined
  <2> HIDE DEF K, n
  <2>4. d[1] = 5
    BY <1>1, <1>6, <2>3
  <2>5. d[n] = W - 4
    <3>1. n \in 1..n /\ ~(n <= K) /\ n - K = 1
      BY <1>1
    <3>2. d[n] = top[n - K]
      BY <2>3, <3>1, Zenon
    <3> QED BY <1>4, <3>1, <3>2
  <2>6. ASSUME NEW k \in 2..K PROVE d[k] = 0
    <3>1. k \in 1..n /\ k <= K
      BY <1>1
    <3>2. d[k] = f[k]
      BY <2>3, <3>1, Zenon
    <3> QED BY <1>6, <3>2
  <2> QED BY <2>3, <2>4, <2>5, <2>6
<1>8. AreDigits(d, W, n)
  <2>1. ASSUME NEW k \in 1..n PROVE d[k] \in 0..(W - 1)
    <3>1. k = 1 \/ k = n \/ k \in 2..K
      <4> HIDE DEF K, n
      <4> QED BY <1>1
    <3> HIDE DEF W, K, n
    <3> QED BY <1>1, <1>7, <3>1
  <2> QED BY <2>1 DEF AreDigits
<1>9. Bytes(d)
  <2>1. d \in [1..n -> Nat]
    BY <1>7
  <2> QED BY <1>7, <1>8, <2>1 DEF Bytes, MacDigits
<1>10. IsInts(d, n) /\ IsInts(d, K)
  <2>1. IsInts(d, n)
    BY <1>1, <1>8, DigitsAreInts
  <2>2. \A k \in 1..K : k \in 1..n
    <3> HIDE DEF K, n
    <3> QED BY <1>1
  <2> QED BY <2>1, <2>2 DEF IsInts
<1>11. Worth(d, W, K) = 5
  <2> DEFINE v == Worth(d, W, 1)
  <2>1. v = 5
    <3>1. 0 \in Nat /\ 0 < n /\ 0 + 1 = 1
      <4> HIDE DEF n
      <4> QED BY <1>1
    <3>2. Worth(d, W, 0 + 1) = Worth(d, W, 0) + d[0 + 1] * PowersOf(W)[0]
      BY <1>1, <1>10, <3>1, WorthStep
    <3>3. Worth(d, W, 0) = 0
      BY WorthZero
    <3>4. PowersOf(W)[0] = 1
      BY <1>1, PowersFacts
    <3> HIDE DEF W
    <3> QED BY <1>7, <3>1, <3>2, <3>3, <3>4
  <2>2. 1 \in 0..K /\ \A k \in (1 + 1)..K : d[k] = 0
    <3> HIDE DEF K
    <3> QED BY <1>1, <1>7
  <2>3. Worth(d, W, K) = v
    <3> HIDE DEF W, K
    <3> QED BY <1>1, <1>10, <2>2, WorthZeros
  <2> QED BY <2>1, <2>3
<1>12. Worth(d, W, n) = 5 + (W - 4) * p
  <2>1. K < n /\ K + 1 = n
    <3> HIDE DEF K, n
    <3> QED BY <1>1
  <2>2. Worth(d, W, K + 1) = Worth(d, W, K) + d[K + 1] * p
    BY <1>1, <1>10, <2>1, WorthStep DEF BoxPower
  <2> HIDE DEF W, K, p, n
  <2> QED BY <1>7, <1>11, <2>1, <2>2
<1>13. Worth(d, W, n) = BoxPower[n] - PRIME
  <2> DEFINE P == BoxPower[n]
             q == PRIME
  <2>1. P = W * p /\ q = 4 * p - 5
    BY <1>1
  <2> HIDE DEF W, p, P, q, n
  <2>2. (W - 4) * p = W * p - 4 * p
    BY <1>1
  <2>3. W * p \in Nat
    BY <1>1
  <2>4. Worth(d, W, n) = P - q
    BY <1>1, <1>12, <2>1, <2>2, <2>3
  <2> QED BY <2>4 DEF P, q
<1> QED BY <1>9, <1>13 DEF WorthOf, d

(* One subtraction of the prime, undone where it went below zero.          *)
Least(h) ==
  LET reduced == add1305(h, minusp)
  IN  IF reduced[LAST] >= BOXBYTE \div 2 THEN h ELSE reduced

LEMMA LeastFacts ==
  ASSUME BoxAssumption, MacAssumption, NEW h, Bytes(h), WorthOf(h) < 5 * BoxPower[MACBYTES]
  PROVE  /\ Bytes(Least(h)) /\ WorthOf(Least(h)) \in 0..(PRIME - 1)
         /\ WorthOf(Least(h)) = WorthOf(h) % PRIME
<1> DEFINE W == BOXBYTE
           K == MACBYTES
           n == LAST
           p == BoxPower[K]
           P == BoxPower[n]
           q == PRIME
           half == W \div 2
           v == WorthOf(h)
           a == add1305(h, minusp)
           x == WorthOf(a)
           lo == Worth(a, W, K)
           top == a[n]
<1>1. /\ W \in Nat /\ W >= 16 /\ K \in Nat /\ n \in Nat /\ n = K + 1 /\ p \in Nat /\ p >= 16
      /\ P = W * p /\ q = 4 * p - 5 /\ q \in Nat /\ q > 0
  BY MacSizes
<1>2. half \in Nat /\ half >= 8 /\ half <= W - 4
  <2>1. PICK c \in Nat, r \in 0..(2 - 1) : W = c * 2 + r /\ W \div 2 = c
    BY <1>1, Division
  <2> HIDE DEF W
  <2> QED BY <1>1, <2>1
<1>3. v \in Nat /\ v < 5 * p /\ h \in MacDigits
  BY BytesWorth
<1>4. Bytes(a) /\ Lost(a, v + (P - q))
  <2>1. Bytes(minusp) /\ WorthOf(minusp) = P - q
    BY MinuspFacts
  <2>2. minusp \in MacDigits
    BY <2>1 DEF Bytes
  <2>3. Bytes(a) /\ Lost(a, v + WorthOf(minusp))
    BY <1>3, <2>2, SumFacts
  <2> QED BY <2>1, <2>3
<1>5. PICK z \in Nat : x + z * P = v + (P - q)
  BY <1>4 DEF Lost
<1>6. x \in Nat /\ x < P
  BY <1>4, BytesWorth
<1>7. lo \in Nat /\ lo < p /\ top \in Nat /\ x = lo + top * p
  <2>1. AreDigits(a, W, n) /\ n \in 1..n
    <3> HIDE DEF n
    <3> QED BY <1>1, <1>4 DEF Bytes, n
  <2>2. AreDigits(a, W, K)
    <3>1. \A k \in 1..K : k \in 1..n
      <4> HIDE DEF K, n
      <4> QED BY <1>1
    <3> QED BY <2>1, <3>1 DEF AreDigits
  <2>3. lo \in Nat /\ lo < p
    BY <1>1, <2>2, WorthBound DEF BoxPower
  <2>4. top \in Nat
    <3>1. top \in 0..(W - 1)
      BY <2>1 DEF AreDigits
    <3> HIDE DEF W, top
    <3> QED BY <1>1, <3>1
  <2>5. Worth(a, W, K + 1) = lo + a[K + 1] * p
    <3>1. IsInts(a, n) /\ K < n
      <4>1. IsInts(a, n)
        BY <1>1, <2>1, DigitsAreInts
      <4> HIDE DEF K, n
      <4> QED BY <1>1, <4>1
    <3> QED BY <1>1, <3>1, WorthStep DEF BoxPower
  <2>6. K + 1 = n
    BY <1>1
  <2>7. x = lo + top * p
    BY <2>5, <2>6, Zenon DEF WorthOf
  <2> QED BY <2>3, <2>4, <2>7
<1> HIDE DEF W, K, n, p, P, q, half, v, a, x, lo, top
<1>8. P \in Nat /\ P >= 16 * p
  <2>1. W * p \in Nat /\ W * p >= 16 * p
    BY <1>1
  <2> QED BY <1>1, <2>1
<1>9. /\ v % q \in 0..(q - 1)
      /\ \A b \in 0..(q - 1) : Congruent(v, b, q) => v % q = b
  BY <1>1, <1>3, CongruentRemainder
<1> DEFINE t == top * p
<1>10. t \in Nat /\ (top >= 2 => t >= 2 * p) /\ (top <= W - 5 => t <= P - 5 * p)
  <2>1. t \in Nat
    BY <1>1, <1>7
  <2>2. ASSUME top >= 2 PROVE t >= 2 * p
    <3>1. t = 2 * p + (top - 2) * p /\ (top - 2) * p \in Nat
      BY <1>1, <1>7, <2>2
    <3> HIDE DEF t
    <3> QED BY <1>1, <2>1, <3>1
  <2>3. ASSUME top <= W - 5 PROVE t <= P - 5 * p
    <3>1. W * p = t + ((W - top) * p)
      BY <1>1, <1>7
    <3>2. (W - top) * p = 5 * p + ((W - top) - 5) * p /\ ((W - top) - 5) * p \in Nat
      BY <1>1, <1>7, <2>3
    <3> DEFINE e == ((W - top) - 5) * p
               f == (W - top) * p
    <3> HIDE DEF t, e, f
    <3>3. P = t + f /\ f = 5 * p + e /\ e \in Nat
      BY <1>1, <3>1, <3>2 DEF e, f
    <3> QED BY <1>1, <2>1, <3>3
  <2> QED BY <2>1, <2>2, <2>3
<1> DEFINE zp == z * P
<1>11. zp \in Nat /\ (z = 0 => zp = 0) /\ (z = 1 => zp = P) /\ (z >= 2 => zp >= 2 * P)
  <2>1. zp \in Nat
    BY <1>8
  <2>2. ASSUME z >= 2 PROVE zp >= 2 * P
    <3>1. zp = 2 * P + (z - 2) * P /\ (z - 2) * P \in Nat
      BY <1>8, <2>2
    <3> HIDE DEF zp
    <3> QED BY <1>8, <2>1, <3>1
  <2>3. (z = 0 => zp = 0) /\ (z = 1 => zp = P)
    BY <1>8
  <2> QED BY <2>1, <2>2, <2>3
<1>12. x + zp = v + (P - q) /\ x = lo + t
  BY <1>5, <1>7
<1> HIDE DEF t, zp
<1>13. CASE v >= q
  <2>1. x = v - q
    BY <1>1, <1>3, <1>6, <1>8, <1>11, <1>12, <1>13
  <2>2. ~(top >= half)
    BY <1>1, <1>2, <1>3, <1>7, <1>10, <1>12, <2>1
  <2>3. Least(h) = a
    BY <2>2, Zenon DEF Least, a, top, half, W, n
  <2>4. x \in 0..(q - 1)
    BY <1>1, <1>3, <1>6, <2>1
  <2>5. Congruent(v, x, q)
    <3>1. v = x + 1 * q /\ 1 \in Int
      BY <1>1, <1>3, <2>1
    <3> QED BY <3>1 DEF Congruent
  <2>6. v % q = x
    BY <1>9, <2>4, <2>5
  <2> QED BY <1>4, <2>3, <2>4, <2>6, Zenon DEF x, q, v
<1>14. CASE v < q
  <2>1. x = v + (P - q)
    BY <1>1, <1>3, <1>6, <1>8, <1>11, <1>12, <1>14
  <2>2. top >= half
    BY <1>1, <1>2, <1>3, <1>7, <1>8, <1>10, <1>12, <2>1
  <2>3. Least(h) = h
    BY <2>2, Zenon DEF Least, a, top, half, W, n
  <2>4. v \in 0..(q - 1)
    BY <1>1, <1>3, <1>14
  <2>5. Congruent(v, v, q)
    <3>1. v \in Int
      BY <1>3
    <3> QED BY <1>1, <3>1, CongruentSame
  <2>6. v % q = v
    BY <1>9, <2>4, <2>5
  <2> QED BY <2>3, <2>4, <2>6, Zenon DEF q, v
<1>15. v >= q \/ v < q
  BY <1>1, <1>3
<1> QED BY <1>13, <1>14, <1>15

(* Bytes are a message, whichever way they are given.                      *)
LEMMA BytesAreMessage ==
  ASSUME BOXBYTE \in Nat, NEW m \in Seq(0..(BOXBYTE - 1))
  PROVE  IsMessage(m)
<1> DEFINE S == 0..(BOXBYTE - 1)
<1>1. S \in SUBSET Nat
  OBVIOUS
<1>2. m \in Seq(S)
  OBVIOUS
<1>3. \A j \in 1..Len(m) : m[j] \in S
  <2> HIDE DEF S
  <2> QED BY <1>2
<1> HIDE DEF S
<1>4. m \in Seq(Nat)
  BY <1>1, <1>2, WiderSeq, Zenon
<1> QED BY <1>3, <1>4 DEF IsMessage, AreDigits, S

(* The second half of the key, as the digits that are added.               *)
LEMMA PadFacts ==
  ASSUME BoxAssumption, MacAssumption, NEW k, IsMessage(k), Len(k) = 2 * MACBYTES
  PROVE  /\ Bytes(Drop(k, MACBYTES) \o << 0 >>)
         /\ WorthOf(Drop(k, MACBYTES) \o << 0 >>) = Value(Drop(k, MACBYTES))
         /\ Value(Drop(k, MACBYTES)) \in Nat
         /\ Value(Drop(k, MACBYTES)) < BoxPower[MACBYTES]
<1> DEFINE W == BOXBYTE
           K == MACBYTES
           n == LAST
           p == BoxPower[K]
           q == PRIME
           c == Drop(k, K)
           zero == << 0 >>
           d == c \o zero
           x == Worth(c, W, K)
           v == Value(c)
<1>1. /\ W \in Nat /\ W >= 16 /\ W > 0 /\ K \in Nat /\ n \in Nat /\ n = K + 1
      /\ p \in Nat /\ p >= 16 /\ q = 4 * p - 5 /\ q \in Nat /\ q > 0
  BY MacSizes
<1>2. c \in Seq(Nat) /\ Len(c) = K /\ \A j \in 1..K : c[j] \in 0..(W - 1)
  <2>1. k \in Seq(Nat) /\ Len(k) = 2 * K /\ \A j \in 1..(2 * K) : k[j] \in 0..(W - 1)
    BY DEF IsMessage, AreDigits
  <2>2. K \in 0..Len(k) /\ Len(k) - K = K
    <3> HIDE DEF K
    <3> QED BY <1>1, <2>1
  <2>3. /\ c \in Seq(Nat) /\ Len(c) = Len(k) - K
        /\ \A j \in 1..(Len(k) - K) : c[j] = k[j + K]
    BY <2>1, <2>2, TakeDrop
  <2> HIDE DEF c, W, K
  <2>4. ASSUME NEW j \in 1..K PROVE c[j] \in 0..(W - 1)
    <3>1. j + K \in 1..(2 * K)
      BY <1>1
    <3>2. c[j] = k[j + K]
      BY <2>2, <2>3
    <3> QED BY <2>1, <3>1, <3>2
  <2> QED BY <2>2, <2>3, <2>4
<1>3. zero \in Seq(Nat) /\ Len(zero) = 1 /\ zero[1] = 0
  OBVIOUS
<1> HIDE DEF c, zero
<1>4. /\ d \in Seq(Nat) /\ Len(d) = n /\ d[n] = 0 /\ \A j \in 1..K : d[j] = c[j]
  <2>1. IsJoined(c \o zero, c, zero, K, 1)
    BY <1>2, <1>3, Joined
  <2>2. /\ d \in Seq(Nat) /\ Len(d) = n
        /\ \A i \in 1..n : d[i] = IF i <= K THEN c[i] ELSE zero[i - K]
    BY <1>1, <2>1 DEF IsJoined
  <2> HIDE DEF d, K, n
  <2>3. d[n] = 0
    <3>1. n \in 1..n /\ ~(n <= K) /\ n - K = 1
      BY <1>1
    <3>2. d[n] = zero[n - K]
      BY <2>2, <3>1, Zenon
    <3> QED BY <1>3, <3>1, <3>2
  <2>4. ASSUME NEW j \in 1..K PROVE d[j] = c[j]
    <3>1. j \in 1..n /\ j <= K
      BY <1>1
    <3> QED BY <2>2, <3>1, Zenon
  <2> QED BY <2>2, <2>3, <2>4
<1> HIDE DEF d
<1>5. AreDigits(d, W, n) /\ AreDigits(c, W, K)
  <2>1. ASSUME NEW j \in 1..n PROVE d[j] \in 0..(W - 1)
    <3>1. j = n \/ j \in 1..K
      <4> HIDE DEF K, n
      <4> QED BY <1>1
    <3> HIDE DEF W, K, n
    <3> QED BY <1>1, <1>2, <1>4, <3>1
  <2> QED BY <1>2, <2>1 DEF AreDigits
<1>6. Bytes(d)
  <2>1. d \in [1..n -> Nat]
    BY <1>4
  <2> QED BY <1>4, <1>5, <2>1 DEF Bytes, MacDigits
<1>7. x \in Nat /\ x < p
  BY <1>1, <1>5, WorthBound DEF BoxPower
<1>8. Worth(d, W, n) = x
  <2>1. IsInts(d, n) /\ IsInts(c, K)
    BY <1>1, <1>5, DigitsAreInts
  <2>2. K < n /\ K + 1 = n
    <3> HIDE DEF K, n
    <3> QED BY <1>1
  <2>3. Worth(d, W, K + 1) = Worth(d, W, K) + d[K + 1] * p
    BY <1>1, <2>1, <2>2, WorthStep DEF BoxPower
  <2>4. Worth(d, W, K) = x
    <3> HIDE DEF W, K
    <3> QED BY <1>1, <1>4, <2>1, WorthSame DEF x
  <2> HIDE DEF W, K, p, n, x
  <2> QED BY <1>1, <1>4, <1>7, <2>2, <2>3, <2>4
<1>9. v \in 0..(q - 1) /\ SameModulo(v, 1 * x)
  <2>1. AreNats(c, K) /\ 1 \in Nat
    <3> HIDE DEF W
    <3> QED BY <1>1, <1>2 DEF AreNats
  <2>2. MacProduct(1, c) \in 0..(q - 1) /\ SameModulo(MacProduct(1, c), 1 * x)
    BY <1>1, <1>2, <2>1, ProductFacts
  <2> QED BY <2>2, Zenon DEF Value
<1>10. v = x
  <2> HIDE DEF v, x, q
  <2>1. 1 * x = x /\ x \in Int /\ v \in Int /\ x \in 0..(q - 1)
    BY <1>1, <1>7, <1>9
  <2>2. Congruent(v, x, q)
    BY <1>9, <2>1 DEF SameModulo, q
  <2>3. Congruent(x, v, q) /\ Congruent(x, x, q)
    BY <1>1, <2>1, <2>2, CongruentBack, CongruentSame
  <2>4. x % q = v /\ x % q = x
    BY <1>1, <1>7, <1>9, <2>1, <2>3, CongruentRemainder
  <2> QED BY <2>4
<1>11. WorthOf(d) = v
  BY <1>8, <1>10, Zenon DEF WorthOf
<1>12. v \in Nat /\ v < p
  BY <1>7, <1>10
<1> QED BY <1>6, <1>11, <1>12, Zenon DEF d, c, zero, v, p, K

(* crypto_onetimeauth is Poly1305: its digits, whose carries are put off   *)
(* and whose sum is reduced once more at the end, are the polynomial of    *)
(* the blocks of the message at the clamped first half of the key, modulo  *)
(* the prime, plus the second half, modulo 2^128.  It holds for messages   *)
(* of any length, and for every size of a byte and of an authenticator for *)
(* which the digits of a product carry no further than the code's do.      *)
THEOREM MacIsAuthenticator ==
  ASSUME BoxAssumption, MacAssumption, NEW m \in Seq(0..(BOXBYTE - 1)),
         NEW k \in Seq(0..(BOXBYTE - 1)), Len(k) = 2 * MACBYTES
  PROVE  crypto_onetimeauth(m, k) = Authenticator(m, k)
<1> DEFINE W == BOXBYTE
           K == MACBYTES
           n == LAST
           p == BoxPower[K]
           q == PRIME
           r == ClampKey(k)
           h == MacLoop(m, r, Blocks(m))
           least == Least(h)
           pad == Drop(k, K) \o << 0 >>
           s == add1305(least, pad)
           poly == Polynomial(m, r)
           second == Value(Drop(k, K))
           sum == poly + second
           f == [j \in 1..K |-> (sum \div BoxPower[j - 1]) % W]
<1>1. /\ W \in Nat /\ W >= 16 /\ W > 0 /\ K \in Nat /\ n \in Nat /\ n = K + 1
      /\ p \in Nat /\ p >= 16 /\ q = 4 * p - 5 /\ q \in Nat /\ q > 0 /\ BoxPower[n] = W * p
  <2>1. /\ W \in Nat /\ W >= 16 /\ K \in Nat /\ n \in Nat /\ n = K + 1 /\ p \in Nat
        /\ p >= 16 /\ q = 4 * p - 5 /\ q \in Nat /\ q > 0 /\ BoxPower[n] = W * p
    BY MacSizes, Zenon
  <2> HIDE DEF W
  <2>2. W > 0
    BY <2>1
  <2> QED BY <2>1, <2>2, Zenon
<1>2. IsMessage(m) /\ IsMessage(k)
  BY <1>1, BytesAreMessage
<1>3. Bytes(r)
  <2>1. \A j \in 1..K : k[j] \in 0..(W - 1)
    <3>1. \A j \in 1..(2 * K) : k[j] \in 0..(W - 1)
      BY <1>2 DEF IsMessage, AreDigits
    <3>2. \A j \in 1..K : j \in 1..(2 * K)
      <4> HIDE DEF K
      <4> QED BY <1>1
    <3> QED BY <3>1, <3>2
  <2> QED BY <2>1, ClampKeyFacts
<1> HIDE DEF r
<1>4. Kept(h, poly)
  BY <1>2, <1>3, LoopIsPolynomial
<1> HIDE DEF h
<1>5. /\ Bytes(h) /\ WorthOf(h) < 5 * p /\ WorthOf(h) \in Nat
      /\ poly \in 0..(q - 1) /\ SameModulo(WorthOf(h), poly)
  <2>1. Bytes(h)
    BY <1>4 DEF Kept
  <2> QED BY <1>4, <2>1, BytesWorth DEF Kept
<1>6. /\ Bytes(least) /\ WorthOf(least) \in 0..(q - 1)
      /\ WorthOf(least) = WorthOf(h) % PRIME
  BY <1>5, LeastFacts
<1> HIDE DEF least, poly
<1>7. WorthOf(least) = poly
  <2> DEFINE v == WorthOf(h)
  <2>1. v \in Nat /\ Congruent(v, poly, q)
    BY <1>5 DEF SameModulo
  <2> HIDE DEF v, q
  <2>2. v % q = poly
    BY <1>1, <1>5, <2>1, CongruentRemainder
  <2> QED BY <1>6, <2>2, Zenon DEF v, q
<1>8. /\ Bytes(pad) /\ WorthOf(pad) = second /\ second \in Nat /\ second < p
  BY <1>2, PadFacts
<1> HIDE DEF pad, second
<1>9. Bytes(s) /\ WorthOf(s) = sum
  <2>1. WorthOf(least) + WorthOf(pad) < BoxPower[n]
    <3> DEFINE P == BoxPower[n]
               a == WorthOf(least)
               b == WorthOf(pad)
    <3>1. P = W * p /\ a \in 0..(q - 1) /\ b \in Nat /\ b < p
      BY <1>1, <1>6, <1>8
    <3> HIDE DEF P, a, b, W, p, q
    <3>2. W * p \in Nat /\ W * p >= 16 * p
      BY <1>1
    <3>3. a + b < P
      BY <1>1, <3>1, <3>2
    <3> QED BY <3>3 DEF P, a, b
  <2>2. least \in MacDigits /\ pad \in MacDigits
    BY <1>6, <1>8 DEF Bytes
  <2>3. Bytes(s) /\ WorthOf(s) = WorthOf(least) + WorthOf(pad)
    BY <2>1, <2>2, SumFits
  <2> QED BY <1>7, <1>8, <2>3, Zenon
<1> HIDE DEF s, sum
<1>10. /\ s \in Seq(Nat) /\ Len(s) = n /\ AreDigits(s, W, n) /\ Worth(s, W, n) = sum
  BY <1>9 DEF Bytes, WorthOf
<1>11. ASSUME NEW j \in 1..K PROVE f[j] = s[j]
  <2>1. j \in 1..n
    <3> HIDE DEF K, n
    <3> QED BY <1>1
  <2>2. (Worth(s, W, n) \div BoxPower[j - 1]) % W = s[j]
    <3> HIDE DEF W, K, n
    <3> QED BY <1>1, <1>10, <2>1, WorthDigit DEF BoxPower, W
  <2>3. f[j] = (sum \div BoxPower[j - 1]) % W
    OBVIOUS
  <2> QED BY <1>10, <2>2, <2>3, Zenon
<1>12. /\ Take(s, K) \in Seq(Nat) /\ Len(Take(s, K)) = K
       /\ \A j \in 1..K : Take(s, K)[j] = s[j]
  <2>1. K \in 0..Len(s)
    <3> HIDE DEF K, n
    <3> QED BY <1>1, <1>10
  <2> QED BY <1>10, <2>1, TakeDrop
<1>13. SubSeq(f, 1, K) = f /\ f \in Seq(Nat) /\ Len(f) = K
  <2>1. \A j \in 1..K : f[j] \in Nat
    <3>1. \A j \in 1..K : j \in 1..Len(s)
      <4> HIDE DEF K, n
      <4> QED BY <1>1, <1>10
    <3>2. \A j \in 1..K : s[j] \in Nat
      BY <1>10, <3>1
    <3> QED BY <1>11, <3>2, Zenon
  <2>2. f \in [1..K -> Nat]
    <3>1. f = [j \in 1..K |-> f[j]]
      OBVIOUS
    <3> HIDE DEF f
    <3> QED BY <2>1, <3>1
  <2> HIDE DEF f
  <2> QED BY <1>1, <2>2, WholeArray
<1>14. Authenticator(m, k) = SubSeq(f, 1, K)
  BY Zenon DEF Authenticator, Array, sum, poly, second, r
<1> HIDE DEF f
<1>15. Take(s, K) = f
  <2> DEFINE t == Take(s, K)
  <2>1. /\ t \in Seq(Nat) /\ f \in Seq(Nat) /\ Len(t) = Len(f)
        /\ \A j \in 1..Len(t) : t[j] = f[j]
    BY <1>11, <1>12, <1>13
  <2> HIDE DEF t
  <2>2. t = f
    BY <2>1, SameSeq
  <2> QED BY <2>2 DEF t
<1>16. crypto_onetimeauth(m, k) = Take(s, K)
  BY Zenon DEF crypto_onetimeauth, s, least, Least, h, MacLoop, MacTurn, BlockAt, Blocks,
     Loop, pad, r
<1> QED BY <1>13, <1>14, <1>15, <1>16

-----------------------------------------------------------------------------
(* The calls. *)

LEMMA StreamReturns ==
  ASSUME BoxAssumption, BoxCallsAssumption, test \in BoxCalls
  PROVE  LET key == HCore(Take(test.n, 2 * NONCEBYTES), test.k)
             nonce == Drop(test.n, 2 * NONCEBYTES)
         IN  crypto_stream_xor(test.m, test.n, test.k)
               = XorBytes(test.m, Keystream(Len(test.m), nonce, key))
<1>1. test.m \in Seq(0..(BOXBYTE - 1))
  BY DEF BoxCallsAssumption
<1> QED BY <1>1, StreamIsXor DEF crypto_stream_xor

LEMMA MacReturns ==
  ASSUME BoxAssumption, MacAssumption, BoxCallsAssumption, test \in BoxCalls, test.of = "mac"
  PROVE  crypto_onetimeauth(test.m, test.k) = Authenticator(test.m, test.k)
<1>1. /\ test.m \in Seq(0..(BOXBYTE - 1)) /\ test.k \in Seq(0..(BOXBYTE - 1))
      /\ Len(test.k) = 2 * MACBYTES
  BY DEF BoxCallsAssumption
<1> QED BY <1>1, MacIsAuthenticator

(* Every call of crypto_stream_xor returns the message with the keystream  *)
(* of the nonce, however many bytes there are.                             *)
THEOREM StreamCallsReturn ==
  ASSUME BoxAssumption, BoxCallsAssumption
  PROVE  BoxSpec => []StreamIsKeystream
<1> DEFINE IInv == test \in BoxCalls /\ StreamIsKeystream
<1>1. BoxInit => IInv
  BY DEF BoxInit, CallOneOf, StreamIsKeystream, Returned
<1>2. ASSUME IInv, [BoxNext]_nvars PROVE IInv'
  <2>1. test' = test
    BY <1>2 DEF BoxNext, Stream, Mac, Call, nvars
  <2>2. CASE result' = result
    BY <1>2, <2>1, <2>2 DEF StreamIsKeystream, Returned
  <2>3. CASE test.of # "stream"
    BY <1>2, <2>1, <2>3 DEF StreamIsKeystream, Returned
  <2>4. CASE Stream
    <3>1. /\ test.of = "stream"
          /\ result'.is = crypto_stream_xor(test.m, test.n, test.k)
      BY <2>4 DEF Stream, Call
    <3>2. StreamIsKeystream'
      BY <1>2, <2>1, <3>1, StreamReturns DEF StreamIsKeystream
    <3> QED BY <1>2, <2>1, <3>2
  <2> QED BY <1>2, <2>2, <2>3, <2>4 DEF BoxNext, nvars, Stream, Mac, Call
<1> QED BY <1>1, <1>2, PTL DEF BoxSpec

(* Every call of crypto_onetimeauth returns the authenticator of Poly1305, *)
(* for every message and every key.                                        *)
THEOREM MacCallsReturn ==
  ASSUME BoxAssumption, MacAssumption, BoxCallsAssumption
  PROVE  BoxSpec => []MacIsPolynomial
<1> DEFINE IInv == test \in BoxCalls /\ MacIsPolynomial
<1>1. BoxInit => IInv
  BY DEF BoxInit, CallOneOf, MacIsPolynomial, Returned
<1>2. ASSUME IInv, [BoxNext]_nvars PROVE IInv'
  <2>1. test' = test
    BY <1>2 DEF BoxNext, Stream, Mac, Call, nvars
  <2>2. CASE result' = result
    BY <1>2, <2>1, <2>2 DEF MacIsPolynomial, Returned
  <2>3. CASE test.of # "mac"
    BY <1>2, <2>1, <2>3 DEF MacIsPolynomial, Returned
  <2>4. CASE Mac
    <3>1. /\ test.of = "mac"
          /\ result'.is = crypto_onetimeauth(test.m, test.k)
      BY <2>4 DEF Mac, Call
    <3>2. MacIsPolynomial'
      BY <1>2, <2>1, <3>1, MacReturns DEF MacIsPolynomial
    <3> QED BY <1>2, <2>1, <3>2
  <2> QED BY <1>2, <2>2, <2>3, <2>4 DEF BoxNext, nvars, Stream, Mac, Call
<1> QED BY <1>1, <1>2, PTL DEF BoxSpec

-----------------------------------------------------------------------------
(* The two words of the length. *)

LEMMA PowerFacts ==
  ASSUME HASHBYTE \in Nat, HASHBYTE > 0
  PROVE  /\ HashPower[0] = 1
         /\ \A k \in Nat : /\ HashPower[k] \in Nat /\ HashPower[k] > 0
                           /\ HashPower[k + 1] = HASHBYTE * HashPower[k]
BY PowersFacts DEF HashPower

(* The bytes of a word.                                                    *)
LEMMA Number64Facts ==
  ASSUME Sha512Assumption, NEW n \in Nat
  PROVE  /\ Number64(n) \in Seq(Nat) /\ Len(Number64(n)) = COUNTBYTES
         /\ \A j \in 1..COUNTBYTES :
              Number64(n)[j] = (n \div HashPower[COUNTBYTES - j]) % HASHBYTE
<1> DEFINE At(j) == (n \div HashPower[COUNTBYTES - j]) % HASHBYTE
           f == [j \in 1..COUNTBYTES |-> At(j)]
<1>1. HASHBYTE \in Nat /\ HASHBYTE > 0 /\ COUNTBYTES \in Nat
  BY DEF Sha512Assumption
<1>2. ASSUME NEW j \in 1..COUNTBYTES PROVE At(j) \in Nat
  <2>1. COUNTBYTES - j \in Nat
    BY <1>1
  <2>2. HashPower[COUNTBYTES - j] \in Nat /\ HashPower[COUNTBYTES - j] > 0
    BY <1>1, <2>1, PowerFacts
  <2> DEFINE w == HashPower[COUNTBYTES - j]
             d == n \div w
  <2>3. w \in Nat /\ w > 0
    BY <2>2
  <2> HIDE DEF w
  <2>4. d \in Nat
    BY <2>3, Division
  <2> HIDE DEF d
  <2>5. d % HASHBYTE \in Nat
    BY <1>1, <2>4, Division
  <2> QED BY <2>5 DEF d, w
<1> HIDE DEF At
<1>3. f \in [1..COUNTBYTES -> Nat]
  BY <1>2
<1> HIDE DEF f
<1>4. f \in Seq(Nat) /\ Len(f) = COUNTBYTES
  BY <1>1, <1>3
<1>5. SubSeq(f, 1, COUNTBYTES) = f
  <2>1. Take(f, Len(f)) = f
    BY <1>4, TakeAll
  <2> QED BY <1>4, <2>1 DEF Take
<1>6. Number64(n) = f
  BY <1>5 DEF Number64, Array, f, At
<1>7. \A j \in 1..COUNTBYTES : f[j] = At(j)
  BY DEF f
<1> QED BY <1>4, <1>6, <1>7 DEF At

(* Two numbers that differ by words have the same lowest word.             *)
LEMMA LowWord ==
  ASSUME Sha512Assumption, NEW n \in Nat
  PROVE  /\ n % HashPower[COUNTBYTES] \in Nat
         /\ Number64(n % HashPower[COUNTBYTES]) = Number64(n)
<1> DEFINE W == COUNTBYTES
           l == n % HashPower[W]
           s == Number64(l)
           t == Number64(n)
<1>1. HASHBYTE \in Nat /\ HASHBYTE > 0 /\ W \in Nat
  BY DEF Sha512Assumption
<1>2. l \in Nat
  <2>1. HashPower[W] \in Nat /\ HashPower[W] > 0
    BY <1>1, PowerFacts
  <2> DEFINE w == HashPower[W]
  <2>2. w \in Nat /\ w > 0
    BY <2>1
  <2> HIDE DEF w
  <2>3. n % w \in Nat
    BY <2>2, Division
  <2> QED BY <2>3 DEF w
<1>3. /\ s \in Seq(Nat) /\ Len(s) = W /\ t \in Seq(Nat) /\ Len(t) = W
      /\ \A j \in 1..W : /\ s[j] = (l \div HashPower[W - j]) % HASHBYTE
                         /\ t[j] = (n \div HashPower[W - j]) % HASHBYTE
  <2> HIDE DEF l
  <2> QED BY <1>2, Number64Facts
<1>4. ASSUME NEW j \in 1..W PROVE s[j] = t[j]
  <2> DEFINE a == HashPower[W - j]
             c == HashPower[j - 1]
             b == HASHBYTE * c
  <2>1. W - j \in Nat /\ j - 1 \in Nat /\ (j - 1) + 1 = j /\ j + (W - j) = W /\ j \in Nat
    BY <1>1
  <2>2. a \in Nat /\ a > 0 /\ c \in Nat /\ c > 0 /\ HashPower[j] = b /\ HashPower[W] = HashPower[j] * a
    <3>1. HashPower[j + (W - j)] = HashPower[j] * HashPower[W - j]
      BY <1>1, <2>1, PowerOfSum DEF HashPower
    <3>2. a \in Nat /\ a > 0 /\ c \in Nat /\ c > 0 /\ HashPower[(j - 1) + 1] = b
      BY <1>1, <2>1, PowerFacts
    <3> QED BY <2>1, <3>1, <3>2
  <2>3. HashPower[W] = b * a
    BY <2>2
  <2> HIDE DEF a, c
  <2>4. b \in Nat /\ b > 0
    BY <1>1, <2>2
  <2> HIDE DEF b
  <2>5. l \div a = (n \div a) % b
    BY <2>2, <2>3, <2>4, NestedDivision
  <2>6. n \div a \in Nat
    BY <2>2, Division
  <2> DEFINE d == n \div a
  <2> HIDE DEF l
  <2>7. d \in Nat
    BY <2>6
  <2> HIDE DEF d
  <2>8. (d % (c * HASHBYTE)) % HASHBYTE = d % HASHBYTE
    BY <1>1, <2>2, <2>7, NestedRemainder
  <2>9. b = c * HASHBYTE
    BY <1>1, <2>2 DEF b
  <2>10. s[j] = (l \div a) % HASHBYTE /\ t[j] = (n \div a) % HASHBYTE
    BY <1>3 DEF a
  <2>11. l \div a = d % (c * HASHBYTE)
    BY <2>5, <2>9, Zenon DEF d
  <2>12. t[j] = d % HASHBYTE
    BY <2>10, Zenon DEF d
  <2> QED BY <2>8, <2>10, <2>11, <2>12, Zenon
<1> HIDE DEF s, t
<1>5. s = t
  BY <1>3, <1>4, SameSeq
<1> QED BY <1>2, <1>5 DEF s, t, l

(* A word of one byte.                                                     *)
LEMMA HighWord ==
  ASSUME Sha512Assumption, NEW n \in 0..(HASHBYTE - 1)
  PROVE  Number64(n) = Repeat(0, COUNTBYTES - 1) \o <<n>>
<1> DEFINE W == COUNTBYTES
           z == Repeat(0, W - 1)
           s == Number64(n)
           t == z \o <<n>>
<1>1. HASHBYTE \in Nat /\ HASHBYTE > 0 /\ W \in Nat /\ W - 1 \in Nat /\ n \in Nat
  BY DEF Sha512Assumption
<1>2. /\ s \in Seq(Nat) /\ Len(s) = W
      /\ \A j \in 1..W : s[j] = (n \div HashPower[W - j]) % HASHBYTE
  BY <1>1, Number64Facts
<1>3. z \in Seq(Nat) /\ Len(z) = W - 1 /\ \A j \in 1..(W - 1) : z[j] = 0
  BY <1>1 DEF Repeat
<1> HIDE DEF z
<1>4. /\ t \in Seq(Nat) /\ Len(t) = W
      /\ \A j \in 1..W : t[j] = IF j <= W - 1 THEN 0 ELSE n
  <2>1. <<n>> \in Seq(Nat) /\ Len(<<n>>) = 1 /\ <<n>>[1] = n
    BY <1>1
  <2> DEFINE o == <<n>>
  <2>2. o \in Seq(Nat) /\ Len(o) = 1 /\ o[1] = n
    BY <2>1
  <2> HIDE DEF o
  <2>3. /\ z \o o \in Seq(Nat) /\ Len(z \o o) = Len(z) + Len(o)
        /\ \A i \in 1..(Len(z) + Len(o)) :
              (z \o o)[i] = IF i <= Len(z) THEN z[i] ELSE o[i - Len(z)]
    BY <1>3, <2>2, Concatenation
  <2>4. ASSUME NEW j \in 1..W PROVE (z \o o)[j] = IF j <= W - 1 THEN 0 ELSE n
    <3>1. CASE j <= W - 1
      BY <1>1, <1>3, <2>2, <2>3, <3>1
    <3>2. CASE ~(j <= W - 1)
      <4>1. j - Len(z) = 1 /\ j \in 1..(Len(z) + Len(o)) /\ ~(j <= Len(z))
        BY <1>1, <1>3, <2>2, <3>2
      <4> QED BY <2>2, <2>3, <3>2, <4>1
    <3> QED BY <3>1, <3>2
  <2>5. Len(z) + Len(o) = W
    BY <1>1, <1>3, <2>2
  <2> QED BY <2>3, <2>4, <2>5 DEF o
<1> HIDE DEF s, t
<1>5. ASSUME NEW j \in 1..W PROVE s[j] = t[j]
  <2>1. CASE j <= W - 1
    <3> DEFINE c == HashPower[W - j - 1]
               a == HashPower[W - j]
    <3>1. W - j - 1 \in Nat /\ (W - j - 1) + 1 = W - j
      BY <1>1, <2>1
    <3>2. c \in Nat /\ c > 0 /\ a = HASHBYTE * c
      BY <1>1, <3>1, PowerFacts
    <3> HIDE DEF c
    <3>3. HASHBYTE * c >= HASHBYTE /\ HASHBYTE * c \in Nat
      BY <1>1, <3>2
    <3> HIDE DEF a
    <3>4. n \in 0..(a - 1) /\ n = 0 * a + n /\ a \in Nat /\ a > 0
      BY <1>1, <3>2, <3>3
    <3>5. n \div a = 0
      BY <3>4, DivisionUnique
    <3>6. 0 % HASHBYTE = 0
      BY <1>1
    <3> QED BY <1>2, <1>4, <2>1, <3>5, <3>6 DEF a
  <2>2. CASE ~(j <= W - 1)
    <3>1. W - j = 0
      BY <1>1, <2>2
    <3>2. HashPower[W - j] = 1
      BY <1>1, <3>1, PowerFacts
    <3>3. n \div 1 = n /\ n = 0 * HASHBYTE + n
      BY <1>1
    <3>4. n % HASHBYTE = n
      BY <1>1, <3>3, DivisionUnique
    <3> QED BY <1>2, <1>4, <2>2, <3>2, <3>3, <3>4
  <2> QED BY <2>1, <2>2
<1>6. s = t
  BY <1>2, <1>4, <1>5, SameSeq
<1> QED BY <1>6 DEF s, t, z

-----------------------------------------------------------------------------
(* The padding. *)

(* The zeros that the code leaves between the bit and the length.          *)
Zeros(r) == PaddedSize(r) - r - 1 - 2 * COUNTBYTES

(* Two blocks are taken exactly when the bit and the length do not fit     *)
(* behind the rest of the message in one.                                  *)
LEMMA ZerosFit ==
  ASSUME Sha512Assumption, NEW r \in 0..(HASHBLOCK - 1)
  PROVE  /\ Zeros(r) \in 0..(HASHBLOCK - 1)
         /\ PaddedSize(r) = r + 1 + Zeros(r) + 2 * COUNTBYTES
         /\ PaddedSize(r) = HASHBLOCK \/ PaddedSize(r) = 2 * HASHBLOCK
BY DEF Zeros, PaddedSize, Sha512Assumption

(* They are the only ones that fill a block.                               *)
LEMMA ZerosUnique ==
  ASSUME Sha512Assumption, NEW n \in Nat, NEW r, r = n % HASHBLOCK
  PROVE  /\ r \in 0..(HASHBLOCK - 1)
         /\ Zeros(r) = CHOOSE z \in 0..(HASHBLOCK - 1) :
                         (n + 1 + z + 2 * COUNTBYTES) % HASHBLOCK = 0
<1> DEFINE B == HASHBLOCK
           L == 2 * COUNTBYTES
           zero == Zeros(r)
           Fits(z) == (n + 1 + z + L) % B = 0
<1>1. B \in Nat /\ B > 0 /\ L \in Nat
  BY DEF Sha512Assumption
<1>2. PICK q \in Nat, s \in 0..(B - 1) : n = q * B + s /\ n % B = s
  BY <1>1, Division
<1>3. r = s
  BY <1>2
<1>4. zero \in 0..(B - 1) /\ \E k \in Nat : n + 1 + zero + L = k * B
  <2>1. /\ zero \in 0..(B - 1)
        /\ PaddedSize(r) = r + 1 + zero + L
        /\ PaddedSize(r) = B \/ PaddedSize(r) = 2 * B
    <3>1. r \in 0..(B - 1)
      BY <1>2, <1>3
    <3> QED BY <3>1, ZerosFit
  <2> HIDE DEF zero
  <2>2. n + 1 + zero + L = (q + 1) * B \/ n + 1 + zero + L = (q + 2) * B
    BY <1>1, <1>2, <1>3, <2>1
  <2>3. q + 1 \in Nat /\ q + 2 \in Nat
    OBVIOUS
  <2> QED BY <2>1, <2>2, <2>3
<1> HIDE DEF zero
<1>5. PICK k \in Nat : n + 1 + zero + L = k * B
  BY <1>4
<1>6. Fits(zero)
  <2>1. (k * B + 0) % B = 0 /\ k * B + 0 = k * B
    <3>1. 0 \in 0..(B - 1)
      BY <1>1
    <3>2. (k * B + 0) % B = 0
      BY <1>1, <3>1, DivisionUnique
    <3> DEFINE w == k * B
    <3>3. w \in Nat
      BY <1>1
    <3> HIDE DEF w
    <3>4. w + 0 = w
      BY <3>3
    <3> QED BY <3>2, <3>4 DEF w
  <2> QED BY <1>5, <2>1
<1>7. ASSUME NEW z \in 0..(B - 1), Fits(z) PROVE z = zero
  <2> DEFINE x == n + 1 + z + L
  <2>1. x \in Nat /\ x % B = 0
    BY <1>1, <1>7
  <2>2. PICK a \in Nat, c \in 0..(B - 1) : x = a * B + c /\ x % B = c
    <3> HIDE DEF x
    <3> QED BY <1>1, <2>1, Division
  <2>3. x = a * B + 0 /\ k * B + 0 \in Nat
    BY <1>1, <2>1, <2>2
  <2>4. z - zero = (a - k) * B
    BY <1>1, <1>4, <1>5, <2>3
  <2>5. ~(a >= k + 1)
    <3>1. ASSUME a >= k + 1 PROVE (a - k) * B >= B
      BY <1>1, <3>1
    <3> QED BY <1>1, <1>4, <2>4, <3>1
  <2>6. ~(k >= a + 1)
    <3>1. ASSUME k >= a + 1 PROVE (k - a) * B >= B
      BY <1>1, <3>1
    <3>2. zero - z = (k - a) * B
      BY <1>1, <1>4, <2>4
    <3> QED BY <1>1, <1>4, <3>1, <3>2
  <2>7. a = k
    BY <2>5, <2>6
  <2> QED BY <1>1, <1>4, <2>4, <2>7
<1> DEFINE chosen == CHOOSE z \in 0..(B - 1) : Fits(z)
<1> HIDE DEF Fits
<1>8. chosen = zero
  BY <1>4, <1>6, <1>7
<1>9. r \in 0..(B - 1)
  BY <1>2, <1>3
<1> QED BY <1>8, <1>9 DEF Fits, zero

(* The bits of the length that its lower word has no room for.             *)
LEMMA HighBits ==
  ASSUME Sha512Assumption, NEW n \in Nat, n < HashPower[COUNTBYTES],
         NEW top, top = (n \div (HashPower[COUNTBYTES] \div 8)) % HASHBYTE
  PROVE  top \in 0..(HASHBYTE - 1) /\ (8 * n) \div HashPower[COUNTBYTES] = top
<1> DEFINE P == HashPower[COUNTBYTES]
           Q == P \div 8
           t == n \div Q
<1>1. HASHBYTE \in Nat /\ HASHBYTE > 8 /\ HASHBYTE % 8 = 0 /\ COUNTBYTES \in Nat /\ COUNTBYTES - 1 \in Nat
  BY DEF Sha512Assumption
<1>2. P \in Nat /\ P > 0 /\ P = 8 * Q /\ Q \in Nat /\ Q > 0
  <2> DEFINE c == HashPower[COUNTBYTES - 1]
             b == HASHBYTE \div 8
  <2>1. c \in Nat /\ c > 0 /\ P = HASHBYTE * c
    <3>1. (COUNTBYTES - 1) + 1 = COUNTBYTES
      BY <1>1
    <3> QED BY <1>1, <3>1, PowerFacts
  <2>2. b \in Nat /\ b > 0 /\ HASHBYTE = 8 * b
    BY <1>1
  <2> HIDE DEF c, b
  <2>3. b * c \in Nat /\ b * c > 0
    BY <2>1, <2>2
  <2>4. P = 8 * (b * c)
    BY <2>1, <2>2
  <2> DEFINE x == b * c
  <2>5. x \in Nat /\ x > 0 /\ P = 8 * x
    BY <2>3, <2>4
  <2> HIDE DEF x, P
  <2> QED BY <2>5
<1> HIDE DEF Q
<1>3. PICK q \in Nat, r \in 0..(Q - 1) : n = q * Q + r /\ n \div Q = q
  BY <1>2, Division
<1>4. q < 8
  <2>1. ASSUME q >= 8 PROVE q * Q >= 8 * Q
    BY <1>2, <2>1
  <2>2. n < 8 * Q
    BY <1>2
  <2> QED BY <1>2, <1>3, <2>1, <2>2
<1>5. q % HASHBYTE = q
  <2>1. q \in 0..(HASHBYTE - 1) /\ q = 0 * HASHBYTE + q
    BY <1>1, <1>4
  <2> QED BY <1>1, <2>1, DivisionUnique
<1>6. top = q
  BY <1>3, <1>5 DEF Q
<1>7. (8 * n) \div P = q
  <2>1. 8 * n = q * P + 8 * r /\ 8 * r \in 0..(P - 1)
    <3>1. 8 * (q * Q) = q * P
      BY <1>2
    <3>2. 8 * r < 8 * Q
      BY <1>2
    <3> QED BY <1>2, <1>3, <3>1, <3>2
  <2> DEFINE e == 8 * r
  <2>2. 8 * n = q * P + e /\ e \in 0..(P - 1)
    BY <2>1
  <2> HIDE DEF e, P
  <2> QED BY <1>2, <2>2, DivisionUnique
<1> QED BY <1>1, <1>4, <1>6, <1>7

-----------------------------------------------------------------------------
(* What crypto_hash hashes. *)

(* What a copy into a buffer of n numbers writes, and what it keeps.       *)
IsWritten(c, n, b, at, s, l) ==
  /\ c \in [1..n -> Nat] /\ c \in Seq(Nat) /\ Len(c) = n
  /\ \A i \in 1..n : c[i] = IF at < i /\ i <= at + l THEN s[i - at] ELSE b[i]

LEMMA Written ==
  ASSUME NEW n \in Nat, NEW b \in [1..n -> Nat], NEW at \in 0..n,
         NEW s \in Seq(Nat), NEW l, Len(s) = l, at + l <= n
  PROVE  IsWritten(Overwrite(b, at, s), n, b, at, s, l)
<1>1. /\ Overwrite(b, at, s) \in [1..n -> Nat]
      /\ Overwrite(b, at, s) \in Seq(Nat) /\ Len(Overwrite(b, at, s)) = n
  BY OverwriteFacts
<1>2. \A i \in 1..n : Overwrite(b, at, s)[i]
                       = IF at < i /\ i <= at + l THEN s[i - at] ELSE b[i]
  BY DEF Overwrite
<1> QED BY <1>1, <1>2 DEF IsWritten

(* A string in front of four others put together.                          *)
Cat(s, t) == s \o t

LEMMA Regrouped ==
  ASSUME NEW a \in Seq(Nat), NEW b \in Seq(Nat), NEW c \in Seq(Nat)
  PROVE  Cat(a, Cat(b, c)) = Cat(Cat(a, b), c)
BY Associative, SMTT(30) DEF Cat

IsInFront(h, a, b, c, d, e) ==
  /\ (((a \o b) \o c) \o d) \o e \in Seq(Nat)
  /\ h \o ((((a \o b) \o c) \o d) \o e) = ((((h \o a) \o b) \o c) \o d) \o e

LEMMA InFront ==
  ASSUME NEW h \in Seq(Nat), NEW a \in Seq(Nat), NEW b \in Seq(Nat), NEW c \in Seq(Nat),
         NEW d \in Seq(Nat), NEW e \in Seq(Nat)
  PROVE  IsInFront(h, a, b, c, d, e)
<1> DEFINE ab == Cat(a, b)
           abc == Cat(ab, c)
           abcd == Cat(abc, d)
           abcde == Cat(abcd, e)
<1>1. \A s, t \in Seq(Nat) : Cat(s, t) \in Seq(Nat)
  BY DEF Cat
<1>2. /\ ab \in Seq(Nat) /\ abc \in Seq(Nat) /\ abcd \in Seq(Nat) /\ abcde \in Seq(Nat)
  BY <1>1
<1> HIDE DEF ab, abc, abcd, abcde
<1>3. Cat(h, abcde) = Cat(Cat(h, abcd), e)
  BY <1>2, Regrouped DEF abcde
<1>4. Cat(h, abcd) = Cat(Cat(h, abc), d)
  BY <1>2, Regrouped DEF abcd
<1>5. Cat(h, abc) = Cat(Cat(h, ab), c)
  BY <1>2, Regrouped DEF abc
<1>6. Cat(h, ab) = Cat(Cat(h, a), b)
  BY Regrouped DEF ab
<1>7. Cat(h, abcde) = Cat(Cat(Cat(Cat(Cat(h, a), b), c), d), e)
  BY <1>3, <1>4, <1>5, <1>6, Zenon
<1> QED BY <1>2, <1>7, Zenon DEF IsInFront, abcde, abcd, abc, ab, Cat

(* The two copies into the blank blocks lay down the rest of the message,  *)
(* the bit, zeros and the length, in this order.                           *)
Laid(u, zero, W, t, low, size) ==
  Overwrite(Overwrite(Repeat(0, size), 0, u), size - W - 1, t \o low)
    = ((u \o Repeat(0, zero)) \o (Repeat(0, W - 1) \o t)) \o low

LEMMA Layout ==
  ASSUME NEW u \in Seq(Nat), NEW zero \in Nat, NEW W \in Nat, W > 0,
         NEW t \in Seq(Nat), Len(t) = 1, NEW low \in Seq(Nat), Len(low) = W,
         NEW size, size = Len(u) + zero + 2 * W
  PROVE  Laid(u, zero, W, t, low, size)
<1> DEFINE blank == Repeat(0, size)
           first == Overwrite(blank, 0, u)
           words == t \o low
           at == size - W - 1
           x == Overwrite(first, at, words)
           z == Repeat(0, zero)
           y == Repeat(0, W - 1)
           high == y \o t
           uz == u \o z
           uzh == uz \o high
           p == uzh \o low
<1>1. /\ size \in Nat /\ Len(u) \in Nat /\ at \in 0..size /\ at + 1 + W = size
      /\ W - 1 \in Nat /\ at = Len(u) + zero + (W - 1)
  OBVIOUS
<1>2. /\ blank \in [1..size -> Nat] /\ \A i \in 1..size : blank[i] = 0
  BY <1>1 DEF Repeat
<1>3. /\ z \in Seq(Nat) /\ Len(z) = zero /\ \A i \in 1..zero : z[i] = 0
  BY DEF Repeat
<1>4. /\ y \in Seq(Nat) /\ Len(y) = W - 1 /\ \A i \in 1..(W - 1) : y[i] = 0
  BY <1>1 DEF Repeat
<1> HIDE DEF blank, z, y, at
<1>5. /\ words \in Seq(Nat) /\ Len(words) = 1 + W
      /\ \A i \in 1..(1 + W) : words[i] = IF i <= 1 THEN t[i] ELSE low[i - 1]
  <2>1. IsJoined(words, t, low, 1, W)
    BY Joined, Zenon
  <2> QED BY <2>1 DEF IsJoined
<1> HIDE DEF words
<1>6. /\ first \in [1..size -> Nat]
      /\ \A i \in 1..size : first[i] = IF i <= Len(u) THEN u[i] ELSE 0
  <2>1. 0 \in 0..size /\ 0 + Len(u) <= size
    BY <1>1
  <2>2. IsWritten(first, size, blank, 0, u, Len(u))
    BY <1>1, <1>2, <2>1, Written, Zenon
  <2>3. \A i \in 1..size : i - 0 = i /\ 0 < i
    BY <1>1
  <2>4. 0 + Len(u) = Len(u)
    BY <1>1
  <2> QED BY <1>2, <2>2, <2>3, <2>4 DEF IsWritten
<1> HIDE DEF first
<1>7. /\ x \in Seq(Nat) /\ Len(x) = size
      /\ \A i \in 1..size : x[i] = IF at < i THEN words[i - at] ELSE first[i]
  <2>1. at + (1 + W) = size
    BY <1>1
  <2>2. at + (1 + W) <= size
    BY <1>1
  <2>3. IsWritten(x, size, first, at, words, 1 + W)
    BY <1>1, <1>5, <1>6, <2>2, Written, Zenon
  <2> QED BY <2>1, <2>3 DEF IsWritten
<1> HIDE DEF x
<1>8. /\ high \in Seq(Nat) /\ Len(high) = W
      /\ \A i \in 1..W : high[i] = IF i <= W - 1 THEN y[i] ELSE t[i - (W - 1)]
  <2>1. /\ high \in Seq(Nat) /\ Len(high) = (W - 1) + 1
        /\ \A i \in 1..((W - 1) + 1) : high[i] = IF i <= W - 1 THEN y[i] ELSE t[i - (W - 1)]
    <3>1. IsJoined(high, y, t, W - 1, 1)
      BY <1>4, Joined, Zenon
    <3> QED BY <3>1 DEF IsJoined
  <2>2. (W - 1) + 1 = W
    OBVIOUS
  <2> QED BY <2>1, <2>2
<1> HIDE DEF high
<1>9. /\ uz \in Seq(Nat) /\ Len(uz) = Len(u) + zero
      /\ \A i \in 1..(Len(u) + zero) : uz[i] = IF i <= Len(u) THEN u[i] ELSE z[i - Len(u)]
  <2>1. IsJoined(uz, u, z, Len(u), zero)
    BY <1>3, Joined, Zenon
  <2> QED BY <2>1 DEF IsJoined
<1> HIDE DEF uz
<1>10. /\ uzh \in Seq(Nat) /\ Len(uzh) = at + 1
       /\ \A i \in 1..(at + 1) : uzh[i] = IF i <= Len(u) + zero THEN uz[i]
                                          ELSE high[i - (Len(u) + zero)]
  <2>1. /\ uzh \in Seq(Nat) /\ Len(uzh) = (Len(u) + zero) + W
        /\ \A i \in 1..((Len(u) + zero) + W) :
             uzh[i] = IF i <= Len(u) + zero THEN uz[i] ELSE high[i - (Len(u) + zero)]
    <3>1. IsJoined(uzh, uz, high, Len(u) + zero, W)
      BY <1>8, <1>9, Joined, Zenon
    <3> QED BY <3>1 DEF IsJoined
  <2>2. (Len(u) + zero) + W = at + 1
    BY <1>1
  <2> QED BY <2>1, <2>2
<1> HIDE DEF uzh
<1>11. /\ p \in Seq(Nat) /\ Len(p) = size
       /\ \A i \in 1..size : p[i] = IF i <= at + 1 THEN uzh[i] ELSE low[i - (at + 1)]
  <2>1. /\ p \in Seq(Nat) /\ Len(p) = (at + 1) + W
        /\ \A i \in 1..((at + 1) + W) : p[i] = IF i <= at + 1 THEN uzh[i] ELSE low[i - (at + 1)]
    <3>1. IsJoined(p, uzh, low, at + 1, W)
      BY <1>10, Joined, Zenon
    <3> QED BY <3>1 DEF IsJoined
  <2>2. (at + 1) + W = size
    BY <1>1
  <2> QED BY <2>1, <2>2
<1> HIDE DEF p
<1>12. ASSUME NEW i \in 1..size PROVE x[i] = p[i]
  <2>1. CASE i <= Len(u)
    <3>1. i <= Len(u) + zero /\ i <= at + 1 /\ ~(at < i) /\ i \in 1..(Len(u) + zero) /\ i \in 1..(at + 1)
      BY <1>1, <2>1
    <3> QED BY <1>6, <1>7, <1>9, <1>10, <1>11, <2>1, <3>1
  <2>2. CASE Len(u) < i /\ i <= Len(u) + zero
    <3>1. /\ i <= at + 1 /\ ~(at < i) /\ i \in 1..(Len(u) + zero) /\ i \in 1..(at + 1)
          /\ ~(i <= Len(u)) /\ i - Len(u) \in 1..zero
      BY <1>1, <2>2
    <3> QED BY <1>3, <1>6, <1>7, <1>9, <1>10, <1>11, <2>2, <3>1
  <2>3. CASE Len(u) + zero < i /\ i <= at
    <3> DEFINE j == i - (Len(u) + zero)
    <3>1. /\ i <= at + 1 /\ ~(at < i) /\ i \in 1..(at + 1) /\ ~(i <= Len(u) + zero)
          /\ ~(i <= Len(u)) /\ j \in 1..(W - 1) /\ j \in 1..W /\ j <= W - 1
      BY <1>1, <2>3
    <3>2. x[i] = 0
      BY <1>6, <1>7, <3>1
    <3>3. p[i] = high[j]
      BY <1>10, <1>11, <3>1
    <3> HIDE DEF j
    <3>4. high[j] = 0
      BY <1>4, <1>8, <3>1
    <3> QED BY <3>2, <3>3, <3>4
  <2>4. CASE i = at + 1
    <3> DEFINE j == i - (Len(u) + zero)
    <3>1. /\ i <= at + 1 /\ at < i /\ i \in 1..(at + 1) /\ ~(i <= Len(u) + zero)
          /\ j = W /\ j \in 1..W /\ ~(j <= W - 1) /\ j - (W - 1) = 1 /\ i - at = 1
      BY <1>1, <2>4
    <3>2. x[i] = words[1]
      BY <1>7, <3>1
    <3>3. words[1] = t[1]
      BY <1>5
    <3>4. p[i] = high[j]
      BY <1>10, <1>11, <3>1
    <3> HIDE DEF j
    <3>5. high[j] = t[1]
      BY <1>8, <3>1
    <3> QED BY <3>2, <3>3, <3>4, <3>5
  <2>5. CASE at + 1 < i
    <3> DEFINE j == i - (at + 1)
    <3>1. /\ ~(i <= at + 1) /\ at < i /\ j \in 1..W /\ i - at = j + 1
          /\ j + 1 \in 1..(1 + W) /\ ~(j + 1 <= 1) /\ (j + 1) - 1 = j
      BY <1>1, <2>5
    <3>2. x[i] = words[j + 1]
      BY <1>7, <3>1
    <3>3. p[i] = low[j]
      BY <1>11, <3>1
    <3> HIDE DEF j
    <3>4. words[j + 1] = low[j]
      BY <1>5, <3>1
    <3> QED BY <3>2, <3>3, <3>4
  <2> QED BY <1>1, <2>1, <2>2, <2>3, <2>4, <2>5
<1>13. x = p
  BY <1>7, <1>11, <1>12, SameSeq
<1> QED BY <1>13 DEF Laid, x, p, uzh, uz, high, first, words, at, blank, z, y

(* crypto_hash hashes the padded message: whatever the sizes and the       *)
(* message, the blocks it builds end it as the standard says.              *)
THEOREM HashesPadded ==
  ASSUME Sha512Assumption, NEW m \in Seq(Nat), Len(m) < HashPower[COUNTBYTES],
         HashesInOrder(m)
  PROVE  crypto_hash(m) = Hashblocks(hashiv, Padded(m))
<1> DEFINE b == Len(m)
           W == COUNTBYTES
           r == b % HASHBLOCK
           k == b - r
           head == Take(m, k)
           rest == Drop(m, k)
           bit == << 128 >>
           u == rest \o bit
           size == PaddedSize(r)
           zero == Zeros(r)
           top == (b \div (HashPower[W] \div 8)) % HASHBYTE
           low == Number64((8 * b) % HashPower[W])
           t == << top >>
           z == Repeat(0, zero)
           high == Repeat(0, W - 1) \o t
           x == Overwrite(Overwrite(Repeat(0, size), 0, u), size - W - 1, t \o low)
           tail == ((u \o z) \o high) \o low
<1>1. /\ b \in Nat /\ HASHBYTE \in Nat /\ HASHBYTE > 0 /\ W \in Nat /\ W > 0
      /\ HASHBLOCK \in Nat /\ HASHBLOCK > 0 /\ 8 * b \in Nat
  BY DEF Sha512Assumption
<1>2. /\ r \in 0..(HASHBLOCK - 1)
      /\ zero = CHOOSE s \in 0..(HASHBLOCK - 1) :
                  (b + 1 + s + 2 * COUNTBYTES) % HASHBLOCK = 0
  BY <1>1, ZerosUnique
<1>3. zero \in Nat /\ size = (r + 1) + zero + 2 * W
  BY <1>1, <1>2, ZerosFit
<1>4. r <= b /\ k \in 0..b /\ b - k = r
  <2>1. PICK q \in Nat, s \in 0..(HASHBLOCK - 1) : b = q * HASHBLOCK + s /\ b % HASHBLOCK = s
    BY <1>1, Division
  <2> DEFINE w == q * HASHBLOCK
  <2>2. w \in Nat
    BY <1>1
  <2>3. b = w + r /\ r \in Nat
    BY <1>2, <2>1
  <2> HIDE DEF w, b, r
  <2> QED BY <1>1, <2>2, <2>3
<1>5. /\ head \in Seq(Nat) /\ rest \in Seq(Nat) /\ Len(rest) = r /\ m = head \o rest
  <2> HIDE DEF r
  <2>1. k \in 0..Len(m)
    BY <1>4
  <2> HIDE DEF k
  <2>2. head \in Seq(Nat) /\ rest \in Seq(Nat) /\ Len(rest) = Len(m) - k
    BY <2>1, TakeDrop
  <2>3. m = head \o rest
    BY <2>1, Cut
  <2> QED BY <1>4, <2>2, <2>3
<1>6. bit \in Seq(Nat) /\ Len(bit) = 1
  OBVIOUS
<1>7. top \in 0..(HASHBYTE - 1) /\ (8 * b) \div HashPower[W] = top
  BY <1>1, HighBits
<1>8. t \in Seq(Nat) /\ Len(t) = 1
  BY <1>1, <1>7
<1>9. low = Number64(8 * b) /\ low \in Seq(Nat) /\ Len(low) = W
  BY <1>1, LowWord, Number64Facts
<1>10. high = Number64((8 * b) \div HashPower[W]) /\ high \in Seq(Nat)
  <2>1. high = Number64(top)
    BY <1>7, HighWord
  <2>2. Number64(top) \in Seq(Nat)
    BY <1>1, <1>7, Number64Facts
  <2> QED BY <1>7, <2>1, <2>2
<1>11. z \in Seq(Nat)
  BY <1>3 DEF Repeat
<1>12. u \in Seq(Nat) /\ Len(u) = r + 1
  <2> HIDE DEF rest, bit, r
  <2>1. IsJoined(u, rest, bit, r, 1)
    BY <1>5, <1>6, Joined, Zenon
  <2> QED BY <2>1 DEF IsJoined
<1> HIDE DEF head, rest, bit, r, k, size, zero, top, low, z, t
<1>13. x = tail
  <2> HIDE DEF u, x
  <2>1. size = Len(u) + zero + 2 * W
    BY <1>3, <1>12
  <2>2. Laid(u, zero, W, t, low, size)
    <3> HIDE DEF high, W
    <3> QED BY <1>1, <1>3, <1>8, <1>9, <1>12, <2>1, Layout
  <2> QED BY <2>2, Zenon DEF Laid, x, z
<1>14. crypto_hash(m) = Hashblocks(Hashblocks(hashiv, m), x)
  BY <1>5, Zenon DEF crypto_hash, rest, bit, size, t, top, low, k, r
<1>15. tail \in Seq(Nat) /\ head \o tail = ((((head \o rest) \o bit) \o z) \o high) \o low
  <2> HIDE DEF high
  <2>1. /\ head \in Seq(Nat) /\ rest \in Seq(Nat) /\ bit \in Seq(Nat)
        /\ z \in Seq(Nat) /\ high \in Seq(Nat) /\ low \in Seq(Nat)
    BY <1>5, <1>6, <1>9, <1>10, <1>11
  <2>2. IsInFront(head, rest, bit, z, high, low)
    <3> HIDE DEF high
    <3> QED BY <2>1, InFront
  <2> QED BY <2>2, Zenon DEF IsInFront, tail, u
<1>16. Hashblocks(Hashblocks(hashiv, m), tail) = Hashblocks(hashiv, head \o tail)
  BY <1>15, Zenon DEF HashesInOrder, head, k, r
<1>17. head \o tail = (((m \o bit) \o z) \o high) \o low
  BY <1>5, <1>15, Zenon
<1>18. Padded(m) = (((m \o bit) \o z) \o high) \o low
  <2>1. Padded(m) = (((m \o << 128 >>) \o Repeat(0, zero)) \o Number64((8 * b) \div HashPower[W]))
                      \o Number64(8 * b)
    BY <1>2, Zenon DEF Padded
  <2> QED BY <1>9, <1>10, <2>1, Zenon DEF bit, z
<1> QED BY <1>13, <1>14, <1>16, <1>17, <1>18, Zenon

(* Every call of crypto_hash returns the hash of the padded message        *)
(* (HashIsPadded), if crypto_hashblocks takes the blocks of its messages   *)
(* one after the other.                                                    *)
THEOREM HashCallsReturn ==
  ASSUME Sha512Assumption, MessagesAssumption,
         \A m \in HashedMessages : HashesInOrder(m)
  PROVE  Sha512Spec => []HashIsPadded
<1> DEFINE IInv == test.m \in HashedMessages /\ HashIsPadded
<1>1. Sha512Init => IInv
  BY DEF Sha512Init, CallOneOf, HashIsPadded, Returned
<1>2. ASSUME IInv, [Sha512Next]_nvars PROVE IInv'
  <2>1. CASE Sha512Next
    <3>1. test' = test /\ result' = [of |-> "hash", is |-> crypto_hash(test.m)]
      BY <2>1 DEF Sha512Next, Call
    <3>2. crypto_hash(test.m) = Hashblocks(hashiv, Padded(test.m))
      <4>1. /\ test.m \in Seq(Nat) /\ Len(test.m) < HashPower[COUNTBYTES]
            /\ HashesInOrder(test.m)
        BY <1>2 DEF MessagesAssumption
      <4> QED BY <4>1, HashesPadded
    <3> QED BY <1>2, <3>1, <3>2 DEF HashIsPadded
  <2>2. CASE UNCHANGED nvars
    BY <1>2, <2>2 DEF nvars, HashIsPadded, Returned
  <2> QED BY <1>2, <2>1, <2>2
<1>3. IInv => HashIsPadded
  OBVIOUS
<1> QED BY <1>1, <1>2, <1>3, PTL DEF Sha512Spec
=============================================================================
