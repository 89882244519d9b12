---------------------------- MODULE Sha256Proofs ----------------------------
(***************************************************************************)
(* Theorems about SHA-256 and SHA-224 as sha256.c feeds them, for blocks,  *)
(* words and bytes of any size and every way of cutting a message.         *)
(***************************************************************************)
EXTENDS Sha256, BufferProofs, TLAPS

-----------------------------------------------------------------------------
(* The bytes of a number. *)

(* What the functions defined by recursion are, step by step.              *)
LEMMA ShiftedFacts ==
  ASSUME SHARADIX \in Nat, SHARADIX > 0, NEW n \in Nat
  PROVE  /\ Shifted(n)[0] = n
         /\ \A k \in Nat : /\ Shifted(n)[k] \in Nat
                           /\ Shifted(n)[k + 1] = Shifted(n)[k] \div SHARADIX
<1> DEFINE step == [x \in Nat |-> x \div SHARADIX]
<1>1. \A x \in Nat : x \div SHARADIX \in Nat
  BY Division
<1>2. step \in [Nat -> Nat]
  BY <1>1
<1> HIDE DEF step
<1>3. PICK f \in [Nat -> Nat] : f[0] = n /\ \A k \in Nat : f[k + 1] = step[f[k]]
  <2>1. \E f : Iterates(f, Nat, n, step)
    BY <1>2, Iteration
  <2> QED BY <2>1 DEF Iterates
<1>4. ASSUME NEW k \in Nat
      PROVE  f[k] = IF k = 0 THEN n ELSE f[k - 1] \div SHARADIX
  <2>1. CASE k = 0
    BY <1>3, <2>1
  <2>2. CASE k # 0
    <3>1. k - 1 \in Nat /\ (k - 1) + 1 = k
      BY <2>2
    <3>2. f[k] = step[f[k - 1]] /\ f[k - 1] \in Nat
      BY <1>3, <3>1
    <3> QED BY <2>2, <3>2 DEF step
  <2> QED BY <2>1, <2>2
<1>5. f = [k \in Nat |-> IF k = 0 THEN n ELSE f[k - 1] \div SHARADIX]
  BY <1>3, <1>4
<1> DEFINE s == Shifted(n)
<1>6. s = [k \in Nat |-> IF k = 0 THEN n ELSE s[k - 1] \div SHARADIX]
  BY <1>5, Zenon DEF Shifted
<1> HIDE DEF s
<1>7. s[0] = n
  BY <1>6
<1>8. ASSUME NEW k \in Nat PROVE s[k + 1] = s[k] \div SHARADIX
  <2>1. k + 1 \in Nat /\ k + 1 # 0 /\ (k + 1) - 1 = k
    OBVIOUS
  <2>2. s[k + 1] = IF k + 1 = 0 THEN n ELSE s[(k + 1) - 1] \div SHARADIX
    BY <1>6, <2>1
  <2> QED BY <2>1, <2>2
<1> DEFINE A == {k \in Nat : s[k] \in Nat}
<1>9. Nat \subseteq A
  <2>1. 0 \in A
    BY <1>7
  <2>2. ASSUME NEW k \in Nat, k \in A PROVE k + 1 \in A
    BY <1>1, <1>8, <2>2
  <2> HIDE DEF A
  <2> QED BY <2>1, <2>2, SetInduction
<1> QED BY <1>7, <1>8, <1>9 DEF s

LEMMA PowerFacts ==
  ASSUME SHARADIX \in Nat, SHARADIX > 0
  PROVE  /\ ShaPower[0] = 1
         /\ \A k \in Nat : /\ ShaPower[k] \in Nat /\ ShaPower[k] > 0
                           /\ ShaPower[k + 1] = SHARADIX * ShaPower[k]
BY PowersFacts DEF ShaPower

(* Division by one digit of a number in two parts. *)
LEMMA DigitStep ==
  ASSUME NEW R \in Nat, R > 0, NEW P \in Nat, P > 0, NEW h \in Nat,
         NEW s \in Nat, s < R * P, NEW x, x = h * (R * P) + s
  PROVE  /\ x \div R = h * P + (s \div R)
         /\ x % R = s % R
         /\ s \div R \in Nat /\ s \div R < P
<1>1. PICK q \in Nat, r \in 0..(R - 1) : s = q * R + r /\ s \div R = q /\ s % R = r
  BY Division
<1>2. h * P + q \in Nat /\ h * (R * P) + s = (h * P + q) * R + r
  BY <1>1
<1>3. (h * (R * P) + s) \div R = h * P + q /\ (h * (R * P) + s) % R = r
  <2> DEFINE a == h * P + q
  <2>1. a \in Nat
    BY <1>2
  <2> HIDE DEF a
  <2>2. (a * R + r) \div R = a /\ (a * R + r) % R = r
    BY <2>1, DivisionUnique
  <2> QED BY <1>2, <2>2 DEF a
<1>4. q < P
  <2>1. ASSUME P <= q PROVE FALSE
    <3>1. P * R <= q * R
      BY <2>1
    <3>2. R * P = P * R
      OBVIOUS
    <3> QED BY <1>1, <3>1, <3>2
  <2> QED BY <1>1, <2>1
<1> QED BY <1>1, <1>3, <1>4

(* The bytes of a number in two parts: those of the lower part, then those *)
(* of the higher one.                                                      *)
LEMMA ShiftedSum ==
  ASSUME SHARADIX \in Nat, SHARADIX > 0, NEW w \in Nat, NEW h \in Nat,
         NEW l \in Nat, l < ShaPower[w], NEW x, x = h * ShaPower[w] + l
  PROVE  /\ x \in Nat
         /\ \A k \in 0..(w - 1) : Shifted(x)[k] % SHARADIX = Shifted(l)[k] % SHARADIX
         /\ \A k \in Nat : Shifted(x)[w + k] = Shifted(h)[k]
<1> DEFINE s == Shifted(l)
           t == Shifted(x)
           u == Shifted(h)
<1>1. x \in Nat
  BY PowerFacts
<1>2. /\ s[0] = l /\ \A k \in Nat : s[k] \in Nat /\ s[k + 1] = s[k] \div SHARADIX
      /\ t[0] = x /\ \A k \in Nat : t[k] \in Nat /\ t[k + 1] = t[k] \div SHARADIX
      /\ u[0] = h /\ \A k \in Nat : u[k] \in Nat /\ u[k + 1] = u[k] \div SHARADIX
  BY <1>1, ShiftedFacts
<1> HIDE DEF s, t, u
<1>3. ASSUME NEW k \in 0..(w - 1)
      PROVE  /\ ShaPower[w - k] = SHARADIX * ShaPower[w - (k + 1)]
             /\ ShaPower[w - (k + 1)] \in Nat /\ ShaPower[w - (k + 1)] > 0
  <2>1. w - (k + 1) \in Nat /\ (w - (k + 1)) + 1 = w - k
    OBVIOUS
  <2> QED BY <2>1, PowerFacts
<1> DEFINE A == {k \in Nat : k <= w => /\ s[k] < ShaPower[w - k]
                                       /\ t[k] = h * ShaPower[w - k] + s[k]}
<1>4. Nat \subseteq A
  <2>1. 0 \in A
    <3>1. w - 0 = w
      OBVIOUS
    <3> QED BY <1>2, <3>1
  <2>2. ASSUME NEW k \in Nat, k \in A PROVE k + 1 \in A
    <3>1. CASE k + 1 <= w
      <4>1. k \in 0..(w - 1) /\ k <= w
        BY <3>1
      <4> DEFINE P == ShaPower[w - (k + 1)]
      <4>2. P \in Nat /\ P > 0 /\ ShaPower[w - k] = SHARADIX * P
        BY <1>3, <4>1
      <4>3. s[k] \in Nat /\ s[k] < SHARADIX * P /\ t[k] = h * (SHARADIX * P) + s[k]
        BY <1>2, <2>2, <4>1, <4>2
      <4> HIDE DEF P
      <4>4. t[k] \div SHARADIX = h * P + (s[k] \div SHARADIX) /\ s[k] \div SHARADIX < P
        BY <4>2, <4>3, DigitStep
      <4>5. t[k + 1] = h * P + s[k + 1] /\ s[k + 1] < P
        BY <1>2, <4>4
      <4> QED BY <4>5 DEF P
    <3>2. CASE ~(k + 1 <= w)
      BY <3>2
    <3> QED BY <3>1, <3>2
  <2> HIDE DEF A
  <2> QED BY <2>1, <2>2, SetInduction
<1>5. ASSUME NEW k \in 0..(w - 1) PROVE t[k] % SHARADIX = s[k] % SHARADIX
  <2> DEFINE P == ShaPower[w - (k + 1)]
  <2>1. k \in Nat /\ k <= w
    OBVIOUS
  <2>2. P \in Nat /\ P > 0 /\ ShaPower[w - k] = SHARADIX * P
    BY <1>3
  <2>3. s[k] \in Nat /\ s[k] < SHARADIX * P /\ t[k] = h * (SHARADIX * P) + s[k]
    BY <1>2, <1>4, <2>1, <2>2
  <2> HIDE DEF P
  <2> DEFINE y == s[k]
             z == t[k]
  <2>4. y \in Nat /\ y < SHARADIX * P /\ z = h * (SHARADIX * P) + y
    BY <2>3
  <2> HIDE DEF y, z
  <2>5. z \div SHARADIX = h * P + (y \div SHARADIX) /\ z % SHARADIX = y % SHARADIX
    BY <2>2, <2>4, DigitStep
  <2> QED BY <2>5 DEF y, z
<1>6. t[w] = h
  <2>1. w \in A /\ w - w = 0
    BY <1>4
  <2>2. s[w] < 1 /\ t[w] = h * 1 + s[w] /\ s[w] \in Nat
    BY <1>2, <2>1, PowerFacts
  <2> QED BY <2>2
<1> DEFINE B == {k \in Nat : t[w + k] = u[k]}
<1>7. Nat \subseteq B
  <2>1. 0 \in B
    <3>1. w + 0 = w
      OBVIOUS
    <3> QED BY <1>2, <1>6, <3>1
  <2>2. ASSUME NEW k \in Nat, k \in B PROVE k + 1 \in B
    <3>1. w + k \in Nat /\ w + (k + 1) = (w + k) + 1
      OBVIOUS
    <3> QED BY <1>2, <2>2, <3>1
  <2> HIDE DEF B
  <2> QED BY <2>1, <2>2, SetInduction
<1> QED BY <1>1, <1>5, <1>7 DEF s, t, u

(* The bytes of a word, which are those of the word alone. *)
LEMMA BytesFacts ==
  ASSUME SHARADIX \in Nat, SHARADIX > 0, NEW n \in Nat, NEW l \in Nat
  PROVE  /\ Bytes(n, l) \in Seq(0..(SHARADIX - 1)) /\ Len(Bytes(n, l)) = l
         /\ \A j \in 1..l : Bytes(n, l)[j] = Shifted(n)[l - j] % SHARADIX
<1> DEFINE b == Bytes(n, l)
<1>1. ASSUME NEW j \in 1..l PROVE Shifted(n)[l - j] % SHARADIX \in 0..(SHARADIX - 1)
  <2> DEFINE y == Shifted(n)[l - j]
  <2>1. l - j \in Nat
    OBVIOUS
  <2>2. y \in Nat
    BY <2>1, ShiftedFacts
  <2> HIDE DEF y
  <2>3. y % SHARADIX \in 0..(SHARADIX - 1)
    BY <2>2
  <2> QED BY <2>3 DEF y
<1>2. b = [j \in 1..l |-> Shifted(n)[l - j] % SHARADIX]
  BY DEF Bytes
<1>3. b \in [1..l -> 0..(SHARADIX - 1)]
  BY <1>1, <1>2
<1> HIDE DEF b
<1>4. b \in Seq(0..(SHARADIX - 1)) /\ Len(b) = l
  BY <1>3
<1> QED BY <1>2, <1>4 DEF b

(* The length field: the higher word of a number, then the lower one.      *)
LEMMA TwoWords ==
  ASSUME Sha256Assumption, NEW n \in Nat
  PROVE  /\ Put((n \div SHAWORD) % SHAWORD) \in Seq(0..(SHARADIX - 1))
         /\ Put(n % SHAWORD) \in Seq(0..(SHARADIX - 1))
         /\ LengthField(n) = Put((n \div SHAWORD) % SHAWORD) \o Put(n % SHAWORD)
<1> DEFINE W == WORDBYTES
<1>1. /\ SHARADIX \in Nat /\ SHARADIX > 0 /\ W \in Nat /\ LENGTHBYTES = W + W
      /\ SHAWORD = ShaPower[W] /\ SHAWORD \in Nat /\ SHAWORD > 0
  BY PowerFacts DEF Sha256Assumption, LENGTHBYTES
<1>2. PICK q \in Nat, l \in 0..(SHAWORD - 1) :
        n = q * SHAWORD + l /\ n \div SHAWORD = q /\ n % SHAWORD = l
  BY <1>1, Division
<1>3. PICK g \in Nat, h \in 0..(SHAWORD - 1) :
        q = g * SHAWORD + h /\ q \div SHAWORD = g /\ q % SHAWORD = h
  BY <1>1, Division
<1>4. l \in Nat /\ l < ShaPower[W] /\ h \in Nat /\ h < ShaPower[W]
  BY <1>1
<1>5. /\ \A k \in 0..(W - 1) : Shifted(n)[k] % SHARADIX = Shifted(l)[k] % SHARADIX
      /\ \A k \in Nat : Shifted(n)[W + k] = Shifted(q)[k]
  <2>1. /\ SHARADIX \in Nat /\ SHARADIX > 0 /\ W \in Nat /\ l \in Nat /\ l < ShaPower[W]
        /\ n = q * ShaPower[W] + l
    BY <1>1, <1>2
  <2> HIDE DEF W
  <2>2. \A k \in 0..(W - 1) : Shifted(n)[k] % SHARADIX = Shifted(l)[k] % SHARADIX
    BY <2>1, ShiftedSum
  <2>3. \A k \in Nat : Shifted(n)[W + k] = Shifted(q)[k]
    BY <2>1, ShiftedSum
  <2> QED BY <2>2, <2>3
<1>6. \A k \in 0..(W - 1) : Shifted(q)[k] % SHARADIX = Shifted(h)[k] % SHARADIX
  BY <1>1, <1>3, <1>4, ShiftedSum
<1> DEFINE a == Put(h)
           b == Put(l)
           c == LengthField(n)
           L == LENGTHBYTES
<1>7. /\ a \in Seq(0..(SHARADIX - 1)) /\ Len(a) = W
      /\ \A j \in 1..W : a[j] = Shifted(h)[W - j] % SHARADIX
      /\ b \in Seq(0..(SHARADIX - 1)) /\ Len(b) = W
      /\ \A j \in 1..W : b[j] = Shifted(l)[W - j] % SHARADIX
      /\ c \in Seq(0..(SHARADIX - 1)) /\ Len(c) = L
      /\ \A j \in 1..L : c[j] = Shifted(n)[L - j] % SHARADIX
  <2>1. a = Bytes(h, W) /\ b = Bytes(l, W) /\ c = Bytes(n, L) /\ L \in Nat
    BY <1>1 DEF Put, LengthField
  <2> HIDE DEF W, L, a, b, c
  <2>2. /\ a \in Seq(0..(SHARADIX - 1)) /\ Len(a) = W
        /\ \A j \in 1..W : a[j] = Shifted(h)[W - j] % SHARADIX
    BY <1>1, <1>4, <2>1, BytesFacts
  <2>3. /\ b \in Seq(0..(SHARADIX - 1)) /\ Len(b) = W
        /\ \A j \in 1..W : b[j] = Shifted(l)[W - j] % SHARADIX
    BY <1>1, <1>4, <2>1, BytesFacts
  <2>4. /\ c \in Seq(0..(SHARADIX - 1)) /\ Len(c) = L
        /\ \A j \in 1..L : c[j] = Shifted(n)[L - j] % SHARADIX
    BY <1>1, <2>1, BytesFacts
  <2> QED BY <2>2, <2>3, <2>4
<1> HIDE DEF a, b, c
<1>8. /\ a \o b \in Seq(0..(SHARADIX - 1)) /\ Len(a \o b) = W + W
      /\ \A j \in 1..(W + W) : (a \o b)[j] = IF j <= W THEN a[j] ELSE b[j - W]
  <2>1. a \in Seq(0..(SHARADIX - 1)) /\ b \in Seq(0..(SHARADIX - 1))
    BY <1>7
  <2>2. /\ a \o b \in Seq(0..(SHARADIX - 1)) /\ Len(a \o b) = Len(a) + Len(b)
        /\ \A j \in 1..(Len(a) + Len(b)) :
             (a \o b)[j] = IF j <= Len(a) THEN a[j] ELSE b[j - Len(a)]
    BY <2>1, Concatenation
  <2>3. Len(a) = W /\ Len(b) = W
    BY <1>7
  <2> HIDE DEF W
  <2> QED BY <2>2, <2>3
<1>9. ASSUME NEW j \in 1..L PROVE c[j] = (a \o b)[j]
  <2>1. CASE j <= W
    <3>1. j \in 1..W /\ W - j \in 0..(W - 1) /\ L - j = W + (W - j) /\ W - j \in Nat
      BY <1>1, <2>1
    <3>2. c[j] = Shifted(q)[W - j] % SHARADIX
      BY <1>5, <1>7, <3>1
    <3>3. (a \o b)[j] = a[j] /\ a[j] = Shifted(h)[W - j] % SHARADIX
      BY <1>1, <1>7, <1>8, <2>1, <3>1
    <3> QED BY <1>6, <3>1, <3>2, <3>3
  <2>2. CASE ~(j <= W)
    <3>1. j - W \in 1..W /\ W - (j - W) \in 0..(W - 1) /\ L - j = W - (j - W)
      BY <1>1, <2>2
    <3>2. (a \o b)[j] = b[j - W] /\ b[j - W] = Shifted(l)[W - (j - W)] % SHARADIX
      BY <1>1, <1>7, <1>8, <2>2, <3>1
    <3> QED BY <1>5, <1>7, <3>1, <3>2
  <2> QED BY <2>1, <2>2
<1>10. c = a \o b
  BY <1>1, <1>7, <1>8, <1>9, SameSeq
<1> QED BY <1>2, <1>3, <1>7, <1>10 DEF a, b, c

(* The two words of the length in bits, from those of the length in bytes. *)
LEMMA BitLength ==
  ASSUME NEW W \in Nat, W > 0, W % 8 = 0, NEW n \in Nat,
         NEW low, low = n % W, NEW high, high = (n \div W) % W
  PROVE  /\ (low * 8) % W = (8 * n) % W
         /\ (low \div (W \div 8)) + ((high * 8) % W) = ((8 * n) \div W) % W
<1>0. PICK E \in Nat : W = 8 * E
  OBVIOUS
<1>1. E > 0 /\ W \div 8 = E
  BY <1>0
<1>2. PICK a \in Nat, b \in 0..(W - 1) : n = a * W + b /\ n \div W = a /\ n % W = b
  BY Division
<1>3. PICK d \in Nat, c \in 0..(W - 1) : a = d * W + c /\ a \div W = d /\ a % W = c
  BY Division
<1>4. PICK e \in Nat, f \in 0..(E - 1) : b = e * E + f /\ b \div E = e /\ b % E = f
  BY <1>1, Division
<1>5. PICK g \in Nat, h \in 0..(E - 1) : c = g * E + h /\ c \div E = g /\ c % E = h
  BY <1>1, Division
<1>6. e < 8 /\ e \in Nat
  <2>1. ASSUME e >= 8 PROVE FALSE
    <3>1. e * E >= 8 * E
      BY <2>1
    <3> QED BY <1>0, <1>4, <3>1
  <2> QED BY <2>1
<1>7. 8 * b = e * W + 8 * f /\ 8 * f \in 0..(W - 1)
  <2>1. e * W = 8 * (e * E)
    BY <1>0
  <2> QED BY <1>0, <1>4, <2>1
<1>8. 8 * c = g * W + 8 * h /\ 8 * h \in 0..(W - 1) /\ 8 * h + e \in 0..(W - 1)
  <2>1. g * W = 8 * (g * E)
    BY <1>0
  <2> QED BY <1>0, <1>5, <1>6, <2>1
<1>9. (8 * b) % W = 8 * f /\ (8 * c) % W = 8 * h
  BY <1>1, <1>7, <1>8, DivisionUnique
<1>10. (8 * n) \div W = 8 * a + e /\ (8 * n) % W = 8 * f
  <2> DEFINE q == 8 * a + e
             r == 8 * f
             x == 8 * n
  <2>1. x = q * W + r
    <3>1. x = 8 * (a * W) + 8 * b /\ q * W = 8 * (a * W) + e * W
      BY <1>2
    <3> QED BY <1>7, <3>1
  <2>2. q \in Nat /\ r \in 0..(W - 1)
    BY <1>7
  <2> HIDE DEF q, r, x
  <2>3. x \div W = q /\ x % W = r
    BY <2>1, <2>2, DivisionUnique
  <2> QED BY <2>3 DEF q, r, x
<1>11. (8 * a + e) % W = 8 * h + e
  <2> DEFINE q == 8 * d + g
             r == 8 * h + e
             x == 8 * a + e
  <2>1. x = q * W + r
    <3>1. x = 8 * (d * W) + 8 * c + e /\ q * W = 8 * (d * W) + g * W
      BY <1>3
    <3> QED BY <1>8, <3>1
  <2>2. q \in Nat /\ r \in 0..(W - 1)
    BY <1>8
  <2> HIDE DEF q, r, x
  <2>3. x \div W = q /\ x % W = r
    BY <1>1, <2>1, <2>2, DivisionUnique
  <2> QED BY <2>3 DEF q, r, x
<1>12. low = b /\ high = c
  BY <1>2, <1>3
<1>13. low * 8 = 8 * b /\ high * 8 = 8 * c
  BY <1>12
<1> QED BY <1>1, <1>4, <1>9, <1>10, <1>11, <1>12, <1>13

-----------------------------------------------------------------------------
(* The sizes, and what total counts. *)

Byte == {ShaByteAt(i) : i \in Nat} \cup (0..(SHARADIX - 1)) \cup {0, 128}

LEMMA Sizes ==
  ASSUME Sha256Assumption
  PROVE  /\ SHARADIX \in Nat /\ SHARADIX > 0 /\ WORDBYTES \in Nat /\ WORDBYTES > 0
         /\ LENGTHBYTES = WORDBYTES + WORDBYTES /\ LENGTHBYTES \in Nat /\ LENGTHBYTES > 0
         /\ SHABLOCK \in Nat /\ LENGTHBYTES < SHABLOCK
         /\ SHAWORD \in Nat /\ SHABLOCK < SHAWORD
         /\ \E q \in Nat : q > 0 /\ SHAWORD = q * SHABLOCK
         /\ \E q \in Nat : q > 0 /\ SHAWORD = 8 * q
<1>1. /\ SHARADIX \in Nat /\ SHARADIX > 0 /\ WORDBYTES \in Nat /\ WORDBYTES > 0
      /\ LENGTHBYTES = WORDBYTES + WORDBYTES
      /\ SHABLOCK \in Nat /\ LENGTHBYTES < SHABLOCK
      /\ SHAWORD % SHABLOCK = 0 /\ SHABLOCK < SHAWORD /\ SHAWORD % 8 = 0
      /\ SHAWORD = ShaPower[WORDBYTES]
  BY DEF Sha256Assumption, LENGTHBYTES
<1>2. SHAWORD \in Nat
  BY <1>1, PowerFacts
<1>3. ASSUME NEW w \in Nat, w > 0, SHAWORD % w = 0
      PROVE  \E q \in Nat : q > 0 /\ SHAWORD = q * w
  <2>1. PICK q \in Nat, r \in 0..(w - 1) :
          SHAWORD = q * w + r /\ SHAWORD \div w = q /\ SHAWORD % w = r
    BY <1>2, <1>3, Division
  <2>2. r = 0 /\ SHAWORD = q * w /\ SHAWORD > 0
    BY <1>1, <1>2, <1>3, <2>1
  <2>3. q # 0
    BY <2>2
  <2> QED BY <2>2, <2>3
<1>4. \E q \in Nat : q > 0 /\ SHAWORD = 8 * q
  <2>1. PICK q \in Nat : q > 0 /\ SHAWORD = q * 8
    BY <1>1, <1>3
  <2>2. SHAWORD = 8 * q
    BY <2>1
  <2> QED BY <2>1, <2>2
<1>5. \E q \in Nat : q > 0 /\ SHAWORD = q * SHABLOCK
  <2>1. SHABLOCK \in Nat /\ SHABLOCK > 0 /\ SHAWORD % SHABLOCK = 0
    BY <1>1
  <2> QED BY <1>3, <2>1
<1> QED BY <1>1, <1>2, <1>4, <1>5

(* A remainder by the size of a block is that of the lower word of total.  *)
LEMMA RemainderOfWord ==
  ASSUME Sha256Assumption, NEW n \in Nat
  PROVE  (n % SHAWORD) % SHABLOCK = n % SHABLOCK
<1> DEFINE B == SHABLOCK
<1>1. B \in Nat /\ B > 0 /\ SHAWORD \in Nat /\ SHAWORD > 0
  BY Sizes
<1>2. PICK q \in Nat : SHAWORD = q * B
  BY Sizes
<1>3. PICK a \in Nat, b \in 0..(SHAWORD - 1) : n = a * SHAWORD + b /\ n \div SHAWORD = a /\ n % SHAWORD = b
  BY <1>1, Division
<1>4. PICK c \in Nat, r \in 0..(B - 1) : b = c * B + r /\ b \div B = c /\ b % B = r
  BY <1>1, <1>3, Division
<1>5. n % B = r
  <2> DEFINE d == a * q + c
  <2>1. d \in Nat
    OBVIOUS
  <2>2. n = d * B + r
    <3>1. a * SHAWORD = (a * q) * B
      BY <1>1, <1>2
    <3>2. d * B = (a * q) * B + c * B
      BY <1>1
    <3> DEFINE x == (a * q) * B
    <3>3. x \in Nat /\ c * B \in Nat
      BY <1>1
    <3> HIDE DEF x, d
    <3> QED BY <1>1, <1>3, <1>4, <3>1, <3>2, <3>3
  <2> HIDE DEF d
  <2>3. (d * B + r) \div B = d /\ (d * B + r) % B = r
    BY <1>1, <2>1, DivisionUnique
  <2> QED BY <2>2, <2>3
<1> QED BY <1>3, <1>4, <1>5

(* The two words of total count the bytes of each string.                  *)
LEMMA CountFacts ==
  ASSUME Sha256Assumption, NEW total, NEW n \in Nat, Totalled(total, n),
         NEW inc \in Nat, inc < SHAWORD
  PROVE  /\ Totalled(Count(total, inc), n + inc)
         /\ Count(total, inc) \in Nat \X Nat
         /\ total[1] % SHABLOCK = n % SHABLOCK
<1> DEFINE low == ((n % SHAWORD) + inc) % SHAWORD
           high == (((n \div SHAWORD) % SHAWORD) + (IF low < inc THEN 1 ELSE 0)) % SHAWORD
<1>1. SHAWORD \in Nat /\ SHAWORD > 0
  BY Sizes
<1>2. total[1] = n % SHAWORD /\ total[2] = (n \div SHAWORD) % SHAWORD
  BY DEF Totalled
<1>3. inc % SHAWORD = inc
  BY <1>1
<1>4. Count(total, inc) = <<low, high>>
  BY <1>2, <1>3 DEF Count
<1>5. low = ((n % SHAWORD) + inc) % SHAWORD
  OBVIOUS
<1>6. high = (((n \div SHAWORD) % SHAWORD) + (IF low < inc THEN 1 ELSE 0)) % SHAWORD
  OBVIOUS
<1> HIDE DEF low, high
<1>7. low = (n + inc) % SHAWORD /\ high = ((n + inc) \div SHAWORD) % SHAWORD
  <2>1. /\ low = (n + inc) % SHAWORD
        /\ (((n \div SHAWORD) % SHAWORD) + (IF low < inc THEN 1 ELSE 0)) % SHAWORD
             = ((n + inc) \div SHAWORD) % SHAWORD
    BY <1>1, <1>5, CarryAdds
  <2> QED BY <1>6, <2>1
<1>8. low \in Nat /\ high \in Nat
  <2> DEFINE x == n + inc
             y == x \div SHAWORD
  <2>1. x \in Nat
    OBVIOUS
  <2> HIDE DEF x
  <2>2. y \in Nat
    BY <1>1, <2>1, Division
  <2>3. low = x % SHAWORD /\ high = y % SHAWORD
    BY <1>7 DEF x
  <2> HIDE DEF y
  <2> QED BY <1>1, <2>1, <2>2, <2>3
<1>9. (n % SHAWORD) % SHABLOCK = n % SHABLOCK
  BY RemainderOfWord
<1> QED BY <1>2, <1>4, <1>7, <1>8, <1>9 DEF Totalled

-----------------------------------------------------------------------------
(* The padding. *)

(* padn reaches up to the length field of this block or of the next one.   *)
LEMMA PaddingLengthFacts ==
  ASSUME Sha256Assumption, NEW n \in Nat,
         NEW p, p = PaddingLength(n % SHABLOCK)
  PROVE  /\ p \in 1..SHABLOCK
         /\ \E k \in Nat : n + p + LENGTHBYTES = k * SHABLOCK
<1> DEFINE B == SHABLOCK
           L == LENGTHBYTES
<1>1. B \in Nat /\ B > 0 /\ L \in Nat /\ L < B
  BY Sizes
<1>2. PICK q \in Nat, r \in 0..(B - 1) : n = q * B + r /\ n \div B = q /\ n % B = r
  BY <1>1, Division
<1>3. p = IF r < B - L THEN B - L - r ELSE B + (B - L) - r
  BY <1>2 DEF PaddingLength
<1>4. (q + 1) * B = q * B + B /\ (q + 2) * B = q * B + B + B /\ q * B \in Nat
  BY <1>1
<1> HIDE DEF B, L
<1>5. p \in 1..B
  BY <1>1, <1>2, <1>3
<1>6. n + p + L = (q + 1) * B \/ n + p + L = (q + 2) * B
  BY <1>1, <1>2, <1>3, <1>4
<1>7. q + 1 \in Nat /\ q + 2 \in Nat
  OBVIOUS
<1> QED BY <1>5, <1>6, <1>7 DEF B, L

(* There is one way to fill a block: the zeros of the reference are those  *)
(* of sha256_padding after its first byte.                                 *)
LEMMA PaddingFacts ==
  ASSUME Sha256Assumption, NEW m \in Seq(Byte),
         NEW p, p = PaddingLength(Len(m) % SHABLOCK),
         NEW padding, padding = Overwrite(Repeat(0, p), 0, << 128 >>)
  PROVE  /\ padding \in Seq(Byte) /\ Len(padding) = p /\ p \in 1..SHABLOCK
         /\ Extended(m) = m \o padding
         /\ \E k \in Nat : Len(m) + p + LENGTHBYTES = k * SHABLOCK
<1> DEFINE B == SHABLOCK
           L == LENGTHBYTES
           n == Len(m)
           Fits(z) == (n + 1 + z + L) % B = 0
           zeros == CHOOSE z \in 0..(B - 1) : Fits(z)
<1>1. B \in Nat /\ B > 0 /\ L \in Nat /\ n \in Nat
  BY Sizes
<1>2. p \in 1..B /\ \E k \in Nat : n + p + L = k * B
  BY <1>1, PaddingLengthFacts
<1>3. PICK k \in Nat : n + p + L = k * B
  BY <1>2
<1>4. p - 1 \in 0..(B - 1) /\ Fits(p - 1)
  <2>1. n + 1 + (p - 1) + L = k * B + 0 /\ 0 \in 0..(B - 1)
    BY <1>1, <1>2, <1>3
  <2>2. (k * B + 0) % B = 0
    BY <1>1, <2>1, DivisionUnique
  <2>3. (n + 1 + (p - 1) + L) % B = 0
    BY <2>1, <2>2
  <2>4. p - 1 \in 0..(B - 1)
    BY <1>1, <1>2
  <2>5. Fits(p - 1)
    BY <2>3
  <2> QED BY <2>4, <2>5
<1>5. ASSUME NEW z \in 0..(B - 1), Fits(z) PROVE z = p - 1
  <2> DEFINE x == n + 1 + z + L
  <2>1. x \in Nat
    BY <1>1
  <2>2. PICK a \in Nat, r \in 0..(B - 1) : x = a * B + r /\ x \div B = a /\ x % B = r
    <3> HIDE DEF x
    <3> QED BY <1>1, <2>1, Division
  <2>a. x % B = 0
    BY <1>5
  <2>b. x = n + 1 + z + L
    OBVIOUS
  <2> HIDE DEF x
  <2>3. r = 0 /\ n + 1 + z + L = a * B
    <3>1. r = 0
      BY <2>2, <2>a
    <3>2. a * B \in Nat /\ x = a * B
      BY <1>1, <2>2, <3>1
    <3> QED BY <2>b, <3>1, <3>2
  <2>4. a * B + (p - 1) = k * B + z
    <3>1. a * B \in Nat /\ k * B \in Nat
      BY <1>1
    <3> DEFINE u == a * B
               v == k * B
    <3> HIDE DEF u, v
    <3>2. u + (p - 1) = v + z
      BY <1>1, <1>2, <1>3, <2>3, <3>1 DEF u, v
    <3> QED BY <3>2 DEF u, v
  <2> DEFINE y == p - 1
  <2>5. y \in 0..(B - 1) /\ a * B + y = k * B + z
    BY <1>4, <2>4
  <2> HIDE DEF y
  <2>6. y = z
    BY <1>1, <2>5, Lexicographic
  <2> QED BY <2>6 DEF y
<1>6. zeros = p - 1
  <2> HIDE DEF Fits
  <2> QED BY <1>4, <1>5
<1>7. Extended(m) = m \o <<128>> \o Repeat(0, p - 1)
  BY <1>6 DEF Extended
<1> HIDE DEF zeros
<1>8. 0 \in Byte /\ 128 \in Byte
  BY DEF Byte
<1> DEFINE one == <<128>>
           tail == Repeat(0, p - 1)
           row == Repeat(0, p)
<1>9. /\ one \in Seq(Byte) /\ Len(one) = 1 /\ one[1] = 128
  BY <1>8
<1>10. tail \in Seq(Byte) /\ Len(tail) = p - 1 /\ \A i \in 1..(p - 1) : tail[i] = 0
  <2> DEFINE l == p - 1
  <2>1. l \in Nat
    BY <1>2
  <2> HIDE DEF l
  <2>2. Repeat(0, l) \in [1..l -> Byte]
    BY <1>8 DEF Repeat
  <2>3. \A t \in [1..l -> Byte] : t \in Seq(Byte) /\ Len(t) = l
    BY <2>1
  <2> QED BY <2>2, <2>3 DEF l, Repeat
<1>11. row \in [1..p -> Byte] /\ p \in Nat /\ p >= 1 /\ \A i \in 1..p : row[i] = 0
  BY <1>2, <1>8 DEF Repeat
<1> HIDE DEF one, tail, row
<1>12. /\ padding \in Seq(Byte) /\ Len(padding) = p
       /\ padding[1] = 128 /\ \A i \in 2..p : padding[i] = 0
  <2>1. padding = [j \in 1..p |-> IF 0 < j /\ j <= 0 + 1 THEN one[j - 0] ELSE row[j]]
    BY <1>9, <1>11 DEF Overwrite, one, row
  <2>2. /\ padding[1] = 128 /\ \A i \in 2..p : padding[i] = 0
    BY <1>9, <1>11, <2>1
  <2>3. padding \in [1..p -> Byte]
    BY <1>8, <1>9, <1>11, <2>1
  <2>4. \A t \in [1..p -> Byte] : t \in Seq(Byte) /\ Len(t) = p
    BY <1>11
  <2> QED BY <2>2, <2>3, <2>4
<1>13. padding = one \o tail
  <2>1. /\ one \o tail \in Seq(Byte) /\ Len(one \o tail) = Len(one) + Len(tail)
        /\ \A i \in 1..(Len(one) + Len(tail)) :
             (one \o tail)[i] = IF i <= Len(one) THEN one[i] ELSE tail[i - Len(one)]
    <3>1. one \in Seq(Byte) /\ tail \in Seq(Byte)
      BY <1>9, <1>10
    <3> QED BY <3>1, Concatenation
  <2> DEFINE both == one \o tail
  <2>2. /\ both \in Seq(Byte) /\ Len(both) = p
        /\ \A i \in 1..p : both[i] = IF i <= 1 THEN one[i] ELSE tail[i - 1]
    BY <1>9, <1>10, <1>11, <2>1
  <2> HIDE DEF both
  <2>3. ASSUME NEW i \in 1..p PROVE padding[i] = both[i]
    <3>1. CASE i = 1
      BY <1>9, <1>12, <2>2, <3>1
    <3>2. CASE i # 1
      <4>1. i \in 2..p /\ i - 1 \in 1..(p - 1) /\ ~(i <= 1)
        BY <1>11, <3>2
      <4> QED BY <1>10, <1>12, <2>2, <4>1
    <3> QED BY <3>1, <3>2
  <2>4. padding = both
    BY <1>12, <2>2, <2>3, SameSeq
  <2> QED BY <2>4 DEF both
<1>14. m \o one \o tail = m \o (one \o tail)
  BY <1>9, <1>10, Associative
<1> QED BY <1>2, <1>7, <1>12, <1>13, <1>14 DEF one, tail

-----------------------------------------------------------------------------
(* The types of the state. *)

Block == [1..SHABLOCK -> Byte]
Contexts ==
  [total : Nat \X Nat, iv : Kinds \cup {"none"}, blocks : Seq(Seq(Byte)),
   buffer : Block, is224 : BOOLEAN]
CallType ==
  [pc : {"idle", "update", "loop", "finish", "output"}, in : Seq(Byte),
   left : Nat, next : Seq(Byte), finish : BOOLEAN, direct : BOOLEAN]
GivenType == [kind : Kinds \cup {"closed"}, message : Seq(Byte)]

TypeInv ==
  /\ sctx \in Contexts
  /\ scall \in CallType
  /\ shash \in [iv : Kinds \cup {"none"}, blocks : Seq(Seq(Byte)), words : Nat]
  /\ sgiven \in GivenType

(* The strings a caller feeds are bytes, and a word counts them.           *)
LEMMA TextType ==
  ASSUME Sha256Assumption, NEW n \in Nat, NEW l \in ShaLengths
  PROVE  ShaText(n, l) \in Seq(Byte) /\ Len(ShaText(n, l)) < SHAWORD
<1>1. l \in Nat /\ l < SHAWORD /\ SHAWORD \in Nat
  BY Sizes DEF Sha256Assumption
<1>2. ASSUME NEW j \in 1..l PROVE ShaByteAt(n + j) \in Byte
  <2>1. n + j \in Nat
    OBVIOUS
  <2> QED BY <2>1 DEF Byte
<1>3. ShaText(n, l) \in [1..l -> Byte]
  BY <1>2 DEF ShaText
<1>4. \A t \in [1..l -> Byte] : t \in Seq(Byte) /\ Len(t) = l
  BY <1>1
<1> QED BY <1>1, <1>3, <1>4

-----------------------------------------------------------------------------
(* The data that was processed. *)

(* A block of the data, inside of it.                                      *)
LEMMA BlockFacts ==
  ASSUME SHABLOCK \in Nat, NEW d \in Seq(Byte), NEW n \in Nat,
         n * SHABLOCK <= Len(d), NEW k \in 1..n
  PROVE  /\ BlockAt(d, k) = [j \in 1..SHABLOCK |-> d[(k - 1) * SHABLOCK + j]]
         /\ BlockAt(d, k) \in Seq(Byte) /\ Len(BlockAt(d, k)) = SHABLOCK
         /\ \A j \in 1..SHABLOCK : (k - 1) * SHABLOCK + j \in 1..Len(d)
<1> DEFINE B == SHABLOCK
           x == (k - 1) * B
           y == k * B
           b == SubSeq(d, x + 1, y)
<1>1. x \in Nat /\ x + B <= n * B /\ n * B \in Nat
  BY Rows
<1>2. y = x + B
  OBVIOUS
<1>3. x + B <= Len(d)
  BY <1>1
<1> HIDE DEF x, y
<1>4. b = [j \in 1..B |-> d[x + j]]
  BY <1>1, <1>2, <1>3
<1>5. ASSUME NEW j \in 1..B PROVE x + j \in 1..Len(d) /\ d[x + j] \in Byte
  BY <1>1, <1>3
<1>6. b \in Seq(Byte) /\ Len(b) = B
  <2>1. [j \in 1..B |-> d[x + j]] \in [1..B -> Byte]
    BY <1>5
  <2>2. \A t \in [1..B -> Byte] : t \in Seq(Byte) /\ Len(t) = B
    OBVIOUS
  <2> QED BY <1>4, <2>1, <2>2
<1>7. b = BlockAt(d, k)
  BY DEF BlockAt, x, y
<1> QED BY <1>4, <1>5, <1>6, <1>7 DEF x

(* What follows does not change a block.                                   *)
LEMMA SameBlock ==
  ASSUME SHABLOCK \in Nat, NEW d \in Seq(Byte), NEW e \in Seq(Byte),
         Len(d) <= Len(e), \A i \in 1..Len(d) : e[i] = d[i],
         NEW n \in Nat, n * SHABLOCK <= Len(d), NEW k \in 1..n
  PROVE  BlockAt(e, k) = BlockAt(d, k)
<1> DEFINE B == SHABLOCK
           x == (k - 1) * B
<1>1. n * B \in Nat /\ n * B <= Len(e)
  OBVIOUS
<1>2. BlockAt(d, k) = [j \in 1..B |-> d[x + j]]
      /\ \A j \in 1..B : x + j \in 1..Len(d)
  BY BlockFacts
<1>3. BlockAt(e, k) = [j \in 1..B |-> e[x + j]]
  BY <1>1, BlockFacts
<1> HIDE DEF x
<1> QED BY <1>2, <1>3

(* The data goes on: what was processed is its beginning.                  *)
LEMMA MoreData ==
  ASSUME SHABLOCK \in Nat, NEW c, Len(c.blocks) \in Nat,
         NEW d \in Seq(Byte), NEW e \in Seq(Byte),
         NEW held \in Nat, Processed(c, d, held)
  PROVE  Processed(c, d \o e, held)
<1> DEFINE a == d \o e
           B == SHABLOCK
           n == Len(c.blocks)
<1>1. /\ a \in Seq(Byte) /\ Len(d) <= Len(a) /\ \A i \in 1..Len(d) : a[i] = d[i]
  <2>1. /\ a \in Seq(Byte) /\ Len(a) = Len(d) + Len(e)
        /\ \A i \in 1..(Len(d) + Len(e)) :
             a[i] = IF i <= Len(d) THEN d[i] ELSE e[i - Len(d)]
    BY Concatenation
  <2> HIDE DEF a
  <2> QED BY <2>1
<1> HIDE DEF a
<1>2. held < B /\ Reached(c, held) <= Len(d)
  BY DEF Processed
<1>3. n * B \in Nat /\ n * B <= Len(d) /\ Reached(c, held) = n * B + held
  BY <1>2 DEF Reached
<1>4. ASSUME NEW k \in 1..n PROVE c.blocks[k] = BlockAt(a, k)
  <2>1. c.blocks[k] = BlockAt(d, k)
    BY DEF Processed
  <2>2. BlockAt(a, k) = BlockAt(d, k)
    BY <1>1, <1>3, SameBlock
  <2> QED BY <2>1, <2>2
<1>5. ASSUME NEW i \in 1..held PROVE c.buffer[i] = a[Reached(c, i)]
  <2>1. c.buffer[i] = d[Reached(c, i)]
    BY DEF Processed
  <2>2. Reached(c, i) = n * B + i
    BY DEF Reached
  <2>3. Reached(c, i) \in 1..Len(d)
    BY <1>2, <1>3, <2>2
  <2> QED BY <1>1, <2>1, <2>3
<1>6. Reached(c, held) <= Len(a)
  BY <1>1, <1>2, <1>3
<1> QED BY <1>2, <1>4, <1>5, <1>6 DEF Processed, a

(* A block that holds the next bytes of the data is processed.             *)
IsNext(c, d, block) ==
  /\ Reached(c, 0) + SHABLOCK <= Len(d)
  /\ Len(block) = SHABLOCK
  /\ \A j \in 1..SHABLOCK : block[j] = d[Reached(c, j)]

Advanced(c, d, block, e) ==
  /\ e.blocks = Append(c.blocks, block)
  /\ e.blocks \in Seq(Seq(Byte))
  /\ Processed(e, d, 0)
  /\ Reached(e, 0) = Reached(c, 0) + SHABLOCK

LEMMA NextBlock ==
  ASSUME SHABLOCK \in Nat, SHABLOCK > 0,
         NEW c, c.blocks \in Seq(Seq(Byte)), NEW d \in Seq(Byte),
         NEW held \in Nat, Processed(c, d, held),
         NEW block \in Seq(Byte), IsNext(c, d, block),
         NEW e, e.blocks = Append(c.blocks, block)
  PROVE  Advanced(c, d, block, e)
<1> DEFINE B == SHABLOCK
           n == Len(c.blocks)
           all == Append(c.blocks, block)
<1>0. /\ Reached(c, 0) + B <= Len(d) /\ Len(block) = B
      /\ \A j \in 1..B : block[j] = d[Reached(c, j)]
  BY DEF IsNext
<1>1. /\ all \in Seq(Seq(Byte)) /\ Len(all) = n + 1 /\ n \in Nat
      /\ \A k \in 1..n : all[k] = c.blocks[k]
      /\ all[n + 1] = block
  OBVIOUS
<1>2. n * B \in Nat /\ (n + 1) * B = n * B + B /\ (n + 1) * B \in Nat
  BY <1>1
<1>3. Reached(c, 0) = n * B /\ \A j \in 1..B : Reached(c, j) = n * B + j
  BY <1>2 DEF Reached
<1> HIDE DEF all
<1>4. Reached(e, 0) = (n + 1) * B /\ e.blocks = all
  <2>1. e.blocks = all /\ Len(e.blocks) = n + 1
    BY <1>1 DEF all
  <2>2. Reached(e, 0) = Len(e.blocks) * B + 0
    BY DEF Reached
  <2> DEFINE x == (n + 1) * B
  <2>3. Len(e.blocks) * B = x /\ x \in Nat
    BY <1>2, <2>1
  <2> HIDE DEF x
  <2>4. Reached(e, 0) = x
    BY <2>2, <2>3
  <2> QED BY <2>1, <2>4 DEF x
<1>5. (n + 1) * B <= Len(d)
  BY <1>0, <1>2, <1>3
<1>6. ASSUME NEW k \in 1..(n + 1) PROVE all[k] = BlockAt(d, k)
  <2>1. CASE k \in 1..n
    <3>1. c.blocks[k] = BlockAt(d, k)
      BY <2>1 DEF Processed
    <3> QED BY <1>1, <2>1, <3>1
  <2>2. CASE k = n + 1
    <3> DEFINE z == BlockAt(d, k)
    <3>1. /\ z = [j \in 1..B |-> d[(k - 1) * B + j]]
          /\ z \in Seq(Byte) /\ Len(z) = B
      <4> DEFINE q == n + 1
      <4>1. q \in Nat /\ q * B <= Len(d) /\ k \in 1..q
        BY <1>1, <1>5
      <4> HIDE DEF q
      <4> QED BY <4>1, BlockFacts
    <3>2. k - 1 = n
      BY <1>1, <2>2
    <3>3. \A j \in 1..B : z[j] = d[n * B + j]
      BY <3>1, <3>2
    <3> HIDE DEF z
    <3>4. \A j \in 1..Len(block) : block[j] = z[j]
      BY <1>0, <1>3, <3>3
    <3>5. block = z
      BY <1>0, <3>1, <3>4, SameSeq
    <3> QED BY <1>1, <2>2, <3>5 DEF z
  <2> QED BY <1>1, <2>1, <2>2
<1>7. \A i \in 1..0 : e.buffer[i] = d[Reached(e, i)]
  OBVIOUS
<1>8. Processed(e, d, 0)
  BY <1>1, <1>2, <1>3, <1>4, <1>5, <1>6, <1>7 DEF Processed
<1>9. e.blocks \in Seq(Seq(Byte)) /\ Reached(e, 0) = Reached(c, 0) + B
  BY <1>1, <1>2, <1>3, <1>4
<1> QED BY <1>8, <1>9 DEF Advanced

(* What is copied behind the bytes of the buffer comes after them in the   *)
(* data, and then all of it was processed or waits.                        *)
Whole(c, d) ==
  LET held == Len(d) % SHABLOCK
  IN  Processed(c, d, held) /\ Reached(c, held) = Len(d)

LEMMA Copied ==
  ASSUME SHABLOCK \in Nat, SHABLOCK > 0,
         NEW c, Len(c.blocks) \in Nat, c.buffer \in Block, NEW d \in Seq(Byte),
         NEW held \in Nat, Processed(c, d, held),
         NEW in \in Seq(Byte), in = Drop(d, Reached(c, held)),
         held + Len(in) < SHABLOCK,
         NEW e, e.blocks = c.blocks, e.buffer = Overwrite(c.buffer, held, in)
  PROVE  e.buffer \in Block /\ Whole(e, d)
<1> DEFINE B == SHABLOCK
           x == Len(c.blocks) * B
           l == held + Len(in)
<1>1. x \in Nat
  OBVIOUS
<1>a. ASSUME NEW i \in Nat PROVE Reached(c, i) = x + i /\ Reached(e, i) = x + i
  BY DEF Reached
<1> HIDE DEF x
<1>b. Len(in) \in Nat /\ l \in Nat
  OBVIOUS
<1>2. held \in 0..B /\ held + Len(in) <= B /\ l \in 0..(B - 1)
  BY <1>b DEF Processed
<1>3. /\ e.buffer \in Block
      /\ \A i \in 1..held : e.buffer[i] = c.buffer[i]
      /\ \A i \in (held + 1)..l : e.buffer[i] = in[i - held]
  <2> DEFINE b == c.buffer
             o == Overwrite(b, held, in)
  <2>1. b \in [1..B -> Byte]
    BY DEF Block
  <2> HIDE DEF b
  <2>2. /\ o \in [1..B -> Byte]
        /\ \A i \in 1..held : o[i] = b[i]
        /\ \A i \in (held + 1)..(held + Len(in)) : o[i] = in[i - held]
    <3>1. B \in Nat /\ held \in 0..B /\ in \in Seq(Byte) /\ held + Len(in) <= B
      BY <1>2
    <3>2. o \in [1..B -> Byte]
      BY <2>1, <3>1, OverwriteFacts
    <3>3. \A i \in 1..held : o[i] = b[i]
      BY <2>1, <3>1, OverwriteFacts
    <3>4. \A i \in (held + 1)..(held + Len(in)) : o[i] = in[i - held]
      <4>1. ASSUME NEW i \in (held + 1)..(held + Len(in)) PROVE o[i] = in[i - held]
        <5>1. i \in DOMAIN b /\ held < i /\ i <= held + Len(in)
          BY <2>1, <3>1
        <5> QED BY <5>1 DEF Overwrite
      <4> HIDE DEF o
      <4> QED BY <4>1
    <3> QED BY <3>2, <3>3, <3>4
  <2>3. e.buffer = o
    BY DEF b
  <2> HIDE DEF o
  <2> QED BY <2>2, <2>3 DEF Block, b
<1>4. x + held \in 0..Len(d) /\ in = Drop(d, x + held)
  <2>1. Reached(c, held) <= Len(d) /\ Reached(c, held) = x + held
    BY <1>a DEF Processed
  <2> QED BY <1>1, <2>1
<1>5. /\ Len(in) = Len(d) - (x + held)
      /\ \A j \in 1..Len(in) : in[j] = d[j + (x + held)]
  <2> DEFINE y == x + held
  <2>1. in = Drop(d, y) /\ y \in 0..Len(d)
    BY <1>4
  <2> HIDE DEF y
  <2>2. /\ Len(Drop(d, y)) = Len(d) - y
        /\ \A j \in 1..(Len(d) - y) : Drop(d, y)[j] = d[j + y]
    BY <2>1, TakeDrop
  <2> QED BY <2>1, <2>2 DEF y
<1>6. Len(d) = x + l
  <2>1. Len(d) \in Nat
    OBVIOUS
  <2> QED BY <1>1, <1>b, <1>5, <2>1
<1>9. ASSUME NEW i \in 1..l PROVE e.buffer[i] = d[Reached(e, i)]
  <2>1. i \in Nat /\ Reached(e, i) = x + i /\ Reached(c, i) = x + i
    BY <1>a, <1>2
  <2>2. CASE i <= held
    <3>1. c.buffer[i] = d[Reached(c, i)]
      BY <2>2 DEF Processed
    <3> QED BY <1>3, <2>1, <2>2, <3>1
  <2>3. CASE ~(i <= held)
    <3>1. /\ i - held \in 1..Len(in) /\ (i - held) + (x + held) = x + i
          /\ i \in (held + 1)..l
      BY <1>1, <1>2, <2>3
    <3>2. in[i - held] = d[x + i]
      BY <1>5, <3>1
    <3> QED BY <1>3, <2>1, <3>1, <3>2
  <2> QED BY <2>2, <2>3
<1> HIDE DEF l
<1>7. Len(d) % B = l
  <2> DEFINE q == Len(c.blocks)
  <2>1. (q * B + l) % B = l
    BY <1>2, DivisionUnique
  <2> QED BY <1>6, <2>1 DEF x
<1>8. \A k \in 1..Len(e.blocks) : e.blocks[k] = BlockAt(d, k)
  BY DEF Processed
<1>10. l < B /\ Reached(e, l) = Len(d) /\ Reached(e, l) <= Len(d)
  <2>1. l \in Nat /\ l < B
    BY <1>2
  <2>2. Reached(e, l) = Len(d) /\ Len(d) \in Nat
    BY <1>a, <1>6, <2>1
  <2> QED BY <2>1, <2>2
<1>11. Processed(e, d, l)
  BY <1>8, <1>9, <1>10 DEF Processed
<1> QED BY <1>3, <1>7, <1>10, <1>11 DEF Whole

-----------------------------------------------------------------------------
(* The invariant. *)

IInv == TypeInv /\ StreamInv

(* A context that was started has processed the empty message.             *)
LEMMA StartedFacts ==
  ASSUME Sha256Assumption, NEW c \in Contexts, NEW kind \in Kinds
  PROVE  /\ starts(c, kind) \in Contexts
         /\ starts(c, kind).iv = kind
         /\ starts(c, kind).is224 <=> kind = "sha224"
         /\ Totalled(starts(c, kind).total, 0)
         /\ starts(c, kind).total[1] % SHABLOCK = 0
         /\ Whole(starts(c, kind), <<>>)
<1> DEFINE B == SHABLOCK
           d == starts(c, kind)
<1>1. B \in Nat /\ B > 0 /\ SHAWORD \in Nat /\ SHAWORD > 0
  BY Sizes
<1>2. 0 % B = 0 /\ 0 % SHAWORD = 0 /\ 0 \div SHAWORD = 0
  BY <1>1
<1> DEFINE is224 == kind = "sha224"
           none == <<>>
           zeros == <<0, 0>>
<1>3. d = [c EXCEPT !.total = zeros, !.iv = kind, !.blocks = none, !.is224 = is224]
  BY DEF starts
<1>a. is224 \in BOOLEAN /\ none \in Seq(Seq(Byte)) /\ zeros \in Nat \X Nat
  OBVIOUS
<1> HIDE DEF is224, none, zeros, d
<1>b. d \in Contexts
  BY <1>3, <1>a DEF Contexts
<1>c. d.iv = kind /\ d.is224 = is224 /\ d.total = zeros /\ d.blocks = none
  BY <1>3 DEF Contexts
<1>4. /\ d \in Contexts /\ d.iv = kind /\ (d.is224 <=> kind = "sha224")
      /\ d.total = <<0, 0>> /\ d.blocks = <<>>
  BY <1>b, <1>c, <1>a DEF is224, none, zeros
<1> HIDE DEF d
<1>5. Totalled(d.total, 0) /\ d.total[1] % B = 0
  BY <1>2, <1>4 DEF Totalled
<1>6. Reached(d, 0) = 0 /\ Len(d.blocks) = 0 /\ Len(<<>>) = 0
  BY <1>1, <1>4 DEF Reached
<1>7. Processed(d, <<>>, 0)
  BY <1>1, <1>6 DEF Processed
<1>8. Whole(d, <<>>)
  BY <1>2, <1>6, <1>7 DEF Whole
<1> QED BY <1>4, <1>5, <1>8 DEF d

LEMMA ClearedType == Sha256Assumption => Cleared \in Contexts
<1> SUFFICES ASSUME Sha256Assumption PROVE Cleared \in Contexts
  OBVIOUS
<1>1. SHABLOCK \in Nat /\ 0 \in Byte
  BY Sizes DEF Byte
<1>2. Repeat(0, SHABLOCK) \in Block
  BY <1>1 DEF Repeat, Block
<1> QED BY <1>2 DEF Cleared, Contexts

(* What the invariant says follows from blocks and buffer alone.           *)
LEMMA SameProcessed ==
  ASSUME NEW c, NEW e, e.blocks = c.blocks, e.buffer = c.buffer
  PROVE  /\ \A n : Reached(e, n) = Reached(c, n)
         /\ \A d, n : Processed(c, d, n) => Processed(e, d, n)
         /\ \A d : Whole(c, d) => Whole(e, d)
<1>1. \A n : Reached(e, n) = Reached(c, n)
  BY DEF Reached
<1>2. \A d, n : Processed(c, d, n) => Processed(e, d, n)
  BY <1>1, Zenon DEF Processed
<1>3. \A d : Whole(c, d) => Whole(e, d)
  BY <1>1, <1>2, Zenon DEF Whole
<1> QED BY <1>1, <1>2, <1>3

(* The entry of mbedtls_sha256_update, once all that was fed is processed  *)
(* or in the buffer: left is the bytes in the buffer.                      *)
Continues(c, d, bytes) ==
  LET a == d \o bytes
      held == c.total[1] % SHABLOCK
      e == Counted(c, bytes)
  IN  /\ a \in Seq(Byte) /\ held \in Nat
      /\ e \in Contexts /\ e.iv = c.iv /\ e.is224 = c.is224
      /\ Totalled(e.total, Len(a))
      /\ Processed(e, a, held)
      /\ bytes = Drop(a, Reached(e, held))

LEMMA Fed ==
  ASSUME Sha256Assumption, NEW c \in Contexts, NEW d \in Seq(Byte),
         Totalled(c.total, Len(d)), Whole(c, d),
         NEW bytes \in Seq(Byte), Len(bytes) < SHAWORD
  PROVE  Continues(c, d, bytes)
<1> DEFINE a == d \o bytes
           held == c.total[1] % SHABLOCK
           e == Counted(c, bytes)
<1>1. SHABLOCK \in Nat /\ SHABLOCK > 0
  BY Sizes
<1>2. a \in Seq(Byte) /\ Len(a) = Len(d) + Len(bytes)
  BY Concatenation
<1>3. Len(d) \in Nat /\ Len(bytes) \in Nat
  OBVIOUS
<1> DEFINE total == Count(c.total, Len(bytes))
<1>4. Totalled(total, Len(a)) /\ total \in Nat \X Nat /\ held = Len(d) % SHABLOCK
  BY <1>2, <1>3, CountFacts
<1>5. e = [c EXCEPT !.total = total]
  BY DEF Counted, Contexts
<1> HIDE DEF total
<1> HIDE DEF a, held, e
<1>6. /\ e \in Contexts /\ e.iv = c.iv /\ e.is224 = c.is224 /\ e.total = total
      /\ e.blocks = c.blocks /\ e.buffer = c.buffer
  BY <1>4, <1>5 DEF Contexts
<1>7. held \in Nat
  BY <1>1, <1>3, <1>4
<1>8. Processed(c, d, held) /\ Reached(c, held) = Len(d)
  BY <1>4 DEF Whole
<1>9. Len(c.blocks) \in Nat
  BY DEF Contexts
<1>10. Processed(c, a, held)
  BY <1>1, <1>7, <1>8, <1>9, MoreData DEF a
<1>11. Processed(e, a, held) /\ Reached(e, held) = Len(d)
  BY <1>6, <1>8, <1>10, SameProcessed
<1>12. bytes = Drop(a, Len(d))
  BY DropOfCat DEF a
<1> QED BY <1>2, <1>4, <1>6, <1>7, <1>11, <1>12 DEF Continues, a, held, e

(* What the invariant says of an open context.                             *)
LEMMA OpenFacts ==
  ASSUME Sha256Assumption, IInv, sgiven.kind # "closed",
         NEW d, d = DataOf(scall, sgiven.message), NEW held, held = Held(sctx, scall)
  PROVE  /\ sctx \in Contexts /\ scall \in CallType /\ sgiven \in GivenType
         /\ sgiven.kind \in Kinds /\ sgiven.message \in Seq(Byte)
         /\ scall.in \in Seq(Byte) /\ scall.next \in Seq(Byte) /\ scall.left \in Nat
         /\ shash = NoDigest /\ sctx.iv = sgiven.kind
         /\ (sctx.is224 <=> sgiven.kind = "sha224")
         /\ Totalled(sctx.total, Len(d))
         /\ Processed(sctx, d, held)
         /\ scall.in = Drop(d, Reached(sctx, held))
         /\ (scall.next # <<>> =>
               scall.finish /\ scall.next = LengthField(8 * Len(sgiven.message)))
         /\ (scall.pc = "idle" => scall = NoCall)
         /\ (scall.pc = "finish" => ~scall.finish /\ scall.in = <<>>)
         /\ (scall.pc = "loop" => scall.left = 0)
         /\ (scall.pc = "output" =>
               scall.finish /\ scall.next = <<>> /\ scall.in = <<>>)
<1>1. sctx \in Contexts /\ scall \in CallType /\ sgiven \in GivenType
  BY DEF IInv, TypeInv
<1>2. /\ sgiven.kind \in Kinds /\ sgiven.message \in Seq(Byte)
      /\ scall.in \in Seq(Byte) /\ scall.next \in Seq(Byte) /\ scall.left \in Nat
  BY <1>1 DEF CallType, GivenType
<1> QED BY <1>1, <1>2 DEF IInv, StreamInv

(* The string of the running call is the rest of the data.                 *)
RestOf(c, d, held, in) ==
  /\ Reached(c, held) \in 0..Len(d)
  /\ Reached(c, 0) \in Nat /\ \A j \in Nat : Reached(c, j) = Reached(c, 0) + j
  /\ held < SHABLOCK
  /\ in \in Seq(Byte) /\ Len(in) = Len(d) - Reached(c, held)
  /\ \A j \in 1..Len(in) : in[j] = d[Reached(c, 0) + held + j]

LEMMA RestFacts ==
  ASSUME Sha256Assumption, NEW c \in Contexts, NEW d \in Seq(Byte),
         NEW held \in Nat, Processed(c, d, held),
         NEW in, in = Drop(d, Reached(c, held))
  PROVE  RestOf(c, d, held, in)
<1> DEFINE x == Len(c.blocks) * SHABLOCK
<1>1. x \in Nat
  <2>1. Len(c.blocks) \in Nat /\ SHABLOCK \in Nat
    BY Sizes DEF Contexts
  <2> QED BY <2>1
<1>2. \A j \in Nat : Reached(c, j) = x + j
  BY DEF Reached
<1> HIDE DEF x
<1>3. Reached(c, 0) = x /\ \A j \in Nat : Reached(c, j) = Reached(c, 0) + j
  BY <1>1, <1>2
<1>4. held < SHABLOCK /\ Reached(c, held) <= Len(d)
  BY DEF Processed
<1>5. Reached(c, held) \in 0..Len(d)
  BY <1>1, <1>2, <1>4
<1> DEFINE y == Reached(c, held)
<1> HIDE DEF y
<1>6. y \in 0..Len(d) /\ in = Drop(d, y)
  BY <1>5 DEF y
<1>7. /\ in \in Seq(Byte) /\ Len(in) = Len(d) - y
      /\ \A j \in 1..(Len(d) - y) : in[j] = d[j + y]
  BY <1>6, TakeDrop
<1>8. ASSUME NEW j \in 1..Len(in) PROVE in[j] = d[Reached(c, 0) + held + j]
  <2>1. y = x + held
    BY <1>2 DEF y
  <2>2. j + y = x + held + j /\ j \in 1..(Len(d) - y)
    BY <1>1, <1>7, <2>1
  <2>3. in[j] = d[j + y]
    BY <1>7, <2>2
  <2> QED BY <1>3, <2>2, <2>3
<1> QED BY <1>1, <1>3, <1>4, <1>5, <1>7, <1>8 DEF y, RestOf

(* Between two calls all of the data is processed or in the buffer.        *)
LEMMA RestIsEmpty ==
  ASSUME Sha256Assumption, IInv, sgiven.kind # "closed",
         scall.pc \in {"idle", "finish", "output"},
         NEW d \in Seq(Byte), d = DataOf(scall, sgiven.message)
  PROVE  scall.in = <<>> /\ Whole(sctx, d)
<1> DEFINE held == Held(sctx, scall)
<1>1. /\ sctx \in Contexts /\ Totalled(sctx.total, Len(d)) /\ Processed(sctx, d, held)
      /\ scall.in = Drop(d, Reached(sctx, held))
      /\ (scall.pc = "idle" => scall = NoCall)
      /\ (scall.pc = "finish" => ~scall.finish /\ scall.in = <<>>)
      /\ (scall.pc = "output" => scall.finish /\ scall.next = <<>> /\ scall.in = <<>>)
  BY OpenFacts
<1>2. scall.in = <<>>
  <2>1. CASE scall.pc = "idle"
    BY <1>1, <2>1 DEF NoCall
  <2>2. CASE scall.pc = "finish"
    BY <1>1, <2>2
  <2>3. CASE scall.pc = "output"
    BY <1>1, <2>3
  <2> QED BY <2>1, <2>2, <2>3
<1>3. held = Len(d) % SHABLOCK /\ held \in Nat
  <2>1. held = sctx.total[1] % SHABLOCK
    BY DEF Held
  <2>2. Len(d) \in Nat /\ 0 \in Nat /\ 0 < SHAWORD
    BY Sizes
  <2>3. sctx.total[1] % SHABLOCK = Len(d) % SHABLOCK
    BY <1>1, <2>2, CountFacts
  <2>4. SHABLOCK \in Nat /\ SHABLOCK > 0
    BY Sizes
  <2> QED BY <2>1, <2>2, <2>3, <2>4
<1> HIDE DEF held
<1>4. Reached(sctx, held) \in 0..Len(d) /\ Len(scall.in) = Len(d) - Reached(sctx, held)
  <2>1. RestOf(sctx, d, held, scall.in)
    BY <1>1, <1>3, RestFacts
  <2> QED BY <2>1 DEF RestOf
<1>5. Reached(sctx, held) = Len(d)
  BY <1>2, <1>4
<1> QED BY <1>1, <1>2, <1>3, <1>5 DEF Whole

(* The types of the data.                                                  *)
LEMMA PaddedFacts ==
  ASSUME Sha256Assumption, NEW m \in Seq(Byte),
         NEW field, field = LengthField(8 * Len(m))
  PROVE  /\ field \in Seq(Byte) /\ Len(field) = LENGTHBYTES /\ field # <<>>
         /\ Extended(m) \in Seq(Byte)
         /\ ShaPadded(m) = Extended(m) \o field /\ ShaPadded(m) \in Seq(Byte)
         /\ \E k \in Nat : Len(ShaPadded(m)) = k * SHABLOCK
<1> DEFINE p == PaddingLength(Len(m) % SHABLOCK)
           padding == Overwrite(Repeat(0, p), 0, <<128>>)
           e == Extended(m)
           bits == 8 * Len(m)
<1>1. /\ SHARADIX \in Nat /\ SHARADIX > 0 /\ LENGTHBYTES \in Nat /\ LENGTHBYTES > 0
      /\ Len(m) \in Nat /\ bits \in Nat
  BY Sizes
<1> HIDE DEF bits
<1>2. Bytes(bits, LENGTHBYTES) \in Seq(0..(SHARADIX - 1)) /\ Len(Bytes(bits, LENGTHBYTES)) = LENGTHBYTES
  BY <1>1, BytesFacts
<1>3. field = Bytes(bits, LENGTHBYTES)
  BY DEF LengthField, bits
<1>4. field \in Seq(Byte) /\ Len(field) = LENGTHBYTES /\ field # <<>>
  <2>1. 0..(SHARADIX - 1) \in SUBSET Byte
    BY DEF Byte
  <2>2. field \in Seq(Byte)
    BY <1>2, <1>3, <2>1, WiderSeq
  <2> QED BY <1>1, <1>2, <1>3, <2>2
<1>5. /\ padding \in Seq(Byte) /\ Len(padding) = p /\ e = m \o padding
      /\ \E k \in Nat : Len(m) + p + LENGTHBYTES = k * SHABLOCK
  <2>1. p = PaddingLength(Len(m) % SHABLOCK)
    OBVIOUS
  <2> HIDE DEF p
  <2>2. padding = Overwrite(Repeat(0, p), 0, <<128>>)
    OBVIOUS
  <2> HIDE DEF padding
  <2> QED BY <2>1, <2>2, PaddingFacts
<1> HIDE DEF p, padding, e
<1>6. e \in Seq(Byte) /\ Len(e) = Len(m) + p
  BY <1>5, Concatenation
<1>7. ShaPadded(m) = e \o field
  BY DEF ShaPadded, e
<1>8. ShaPadded(m) \in Seq(Byte) /\ Len(ShaPadded(m)) = Len(e) + LENGTHBYTES
  BY <1>4, <1>6, <1>7, Concatenation
<1>9. Len(ShaPadded(m)) = Len(m) + p + LENGTHBYTES
  BY <1>6, <1>8
<1> QED BY <1>4, <1>5, <1>6, <1>7, <1>8, <1>9 DEF e

LEMMA DataType ==
  ASSUME Sha256Assumption, NEW k, NEW m \in Seq(Byte)
  PROVE  DataOf(k, m) \in Seq(Byte)
<1>1. Extended(m) \in Seq(Byte) /\ ShaPadded(m) \in Seq(Byte)
  BY PaddedFacts
<1> QED BY <1>1 DEF DataOf

(* The words that mbedtls_sha256_finish takes from total are the length of *)
(* the message in bits.                                                    *)
LEMMA LengthFacts ==
  ASSUME Sha256Assumption, NEW n \in Nat, NEW total, Totalled(total, n),
         NEW high, high = (total[1] \div (SHAWORD \div 8)) + ((total[2] * 8) % SHAWORD),
         NEW low, low = (total[1] * 8) % SHAWORD
  PROVE  Put(high) \o Put(low) = LengthField(8 * n)
<1>1. SHAWORD > 0 /\ SHAWORD % 8 = 0
  BY Sizes DEF Sha256Assumption
<1>2. total[1] = n % SHAWORD /\ total[2] = (n \div SHAWORD) % SHAWORD
  BY DEF Totalled
<1> DEFINE one == total[1]
           two == total[2]
<1>3. SHAWORD \in Nat /\ one = n % SHAWORD /\ two = (n \div SHAWORD) % SHAWORD
  BY <1>2, Sizes
<1>4. /\ high = (one \div (SHAWORD \div 8)) + ((two * 8) % SHAWORD)
      /\ low = (one * 8) % SHAWORD
  OBVIOUS
<1> HIDE DEF one, two
<1>5. /\ (one * 8) % SHAWORD = (8 * n) % SHAWORD
      /\ (one \div (SHAWORD \div 8)) + ((two * 8) % SHAWORD) = ((8 * n) \div SHAWORD) % SHAWORD
  BY <1>1, <1>3, BitLength
<1>6. low = (8 * n) % SHAWORD /\ high = ((8 * n) \div SHAWORD) % SHAWORD
  BY <1>4, <1>5
<1> DEFINE bits == 8 * n
<1>7. bits \in Nat /\ low = bits % SHAWORD /\ high = (bits \div SHAWORD) % SHAWORD
  BY <1>6
<1> HIDE DEF bits
<1>8. LengthField(bits) = Put((bits \div SHAWORD) % SHAWORD) \o Put(bits % SHAWORD)
  BY <1>7, TwoWords
<1> QED BY <1>7, <1>8 DEF bits

(* The entry of an update keeps the invariant, whoever calls it.           *)
LEMMA EnterKeeps ==
  ASSUME Sha256Assumption, NEW c \in Contexts, NEW d \in Seq(Byte),
         Totalled(c.total, Len(d)), Whole(c, d),
         NEW bytes \in Seq(Byte), Len(bytes) < SHAWORD,
         sctx' = Counted(c, bytes), scall' \in CallType,
         scall'.pc = "update", scall'.in = bytes,
         scall'.left = c.total[1] % SHABLOCK,
         sgiven' \in GivenType, sgiven'.kind # "closed",
         DataOf(scall', sgiven'.message) = d \o bytes,
         scall'.next # <<>> =>
           scall'.finish /\ scall'.next = LengthField(8 * Len(sgiven'.message)),
         c.iv = sgiven'.kind, c.is224 <=> sgiven'.kind = "sha224",
         shash' = NoDigest
  PROVE  IInv'
<1> DEFINE a == d \o bytes
           held == c.total[1] % SHABLOCK
           e == Counted(c, bytes)
<1>1. /\ held \in Nat /\ e \in Contexts /\ e.iv = c.iv /\ e.is224 = c.is224
      /\ Totalled(e.total, Len(a)) /\ Processed(e, a, held)
      /\ bytes = Drop(a, Reached(e, held))
  <2>1. Continues(c, d, bytes)
    BY Fed
  <2> QED BY <2>1 DEF Continues
<1>2. Held(sctx', scall') = held
  BY DEF Held
<1>3. sctx' = e /\ DataOf(scall', sgiven'.message) = a
  OBVIOUS
<1>4. NoDigest \in [iv : Kinds \cup {"none"}, blocks : Seq(Seq(Byte)), words : Nat]
  BY DEF NoDigest
<1> HIDE DEF a, held, e
<1>5. TypeInv'
  BY <1>1, <1>3, <1>4 DEF TypeInv
<1>6. StreamInv'
  BY <1>1, <1>2, <1>3 DEF StreamInv
<1> QED BY <1>5, <1>6 DEF IInv

(* The loop of the update goes on with a call of the right type.           *)
LoopCall(k, in) == [k EXCEPT !.pc = "loop", !.in = in, !.left = 0]

LEMMA LoopFacts ==
  ASSUME NEW k \in CallType, NEW in \in Seq(Byte)
  PROVE  /\ LoopCall(k, in) \in CallType
         /\ LoopCall(k, in).pc = "loop" /\ LoopCall(k, in).in = in
         /\ LoopCall(k, in).left = 0 /\ LoopCall(k, in).next = k.next
         /\ LoopCall(k, in).finish = k.finish
BY DEF LoopCall, CallType

(* A block of the data that was processed keeps it.                        *)
LEMMA BlockKeeps ==
  ASSUME Sha256Assumption, IInv, sgiven.kind # "closed", UNCHANGED <<shash, sgiven>>,
         scall.pc \in {"update", "loop"},
         NEW d, d = DataOf(scall, sgiven.message),
         NEW k \in 0..Len(scall.in), scall.left + k = SHABLOCK,
         NEW block \in Seq(Byte), IsNext(sctx, d, block),
         sctx' \in [total : {sctx.total}, iv : {sctx.iv},
                   blocks : {Append(sctx.blocks, block)}, buffer : Block,
                   is224 : {sctx.is224}],
         scall' = LoopCall(scall, Drop(scall.in, k))
  PROVE  IInv'
<1> DEFINE left == scall.left
<1>1. /\ sctx \in Contexts /\ scall \in CallType /\ sgiven \in GivenType
      /\ sgiven.message \in Seq(Byte) /\ scall.in \in Seq(Byte) /\ left \in Nat
      /\ Totalled(sctx.total, Len(d)) /\ Processed(sctx, d, left)
      /\ scall.in = Drop(d, Reached(sctx, left))
  <2>1. Held(sctx, scall) = left
    BY DEF Held
  <2> QED BY <2>1, OpenFacts
<1>2. SHABLOCK \in Nat /\ SHABLOCK > 0 /\ d \in Seq(Byte)
  BY <1>1, DataType, Sizes
<1>a. left + k = SHABLOCK /\ k \in Nat
  <2>1. Len(scall.in) \in Nat
    BY <1>1
  <2> QED BY <2>1
<1> HIDE DEF left
<1>3. /\ Reached(sctx, left) \in 0..Len(d) /\ Reached(sctx, 0) \in Nat
      /\ \A j \in Nat : Reached(sctx, j) = Reached(sctx, 0) + j
      /\ Len(scall.in) = Len(d) - Reached(sctx, left)
  <2>1. RestOf(sctx, d, left, scall.in)
    BY <1>1, <1>2, RestFacts
  <2> QED BY <2>1 DEF RestOf
<1>4. /\ Reached(sctx, left) = Reached(sctx, 0) + left
      /\ k \in 0..(Len(d) - Reached(sctx, left))
      /\ Reached(sctx, left) + k = Reached(sctx, 0) + SHABLOCK
      /\ Reached(sctx, 0) + SHABLOCK <= Len(d)
  <2> DEFINE x == Reached(sctx, 0)
             y == Reached(sctx, left)
  <2>1. y = x + left /\ x \in Nat /\ Len(scall.in) = Len(d) - y /\ y \in 0..Len(d)
    BY <1>1, <1>3
  <2> HIDE DEF x, y
  <2>2. Len(d) \in Nat
    BY <1>2
  <2>3. k \in 0..(Len(d) - y) /\ y + k = x + SHABLOCK
    BY <1>1, <1>2, <1>a, <2>1, <2>2
  <2>4. x + SHABLOCK <= Len(d)
    BY <1>2, <1>a, <2>1, <2>2, <2>3
  <2> QED BY <2>1, <2>3, <2>4 DEF x, y
<1>6. sctx'.blocks = Append(sctx.blocks, block) /\ sctx.blocks \in Seq(Seq(Byte))
  BY <1>1 DEF Contexts
<1>7. /\ sctx'.blocks \in Seq(Seq(Byte)) /\ Processed(sctx', d, 0)
      /\ Reached(sctx', 0) = Reached(sctx, 0) + SHABLOCK
  <2>1. Advanced(sctx, d, block, sctx')
    BY <1>1, <1>2, <1>6, NextBlock
  <2> QED BY <2>1 DEF Advanced
<1>8. /\ sctx' \in Contexts /\ sctx'.total = sctx.total /\ sctx'.iv = sctx.iv
      /\ sctx'.is224 = sctx.is224
  BY <1>1, <1>7 DEF Contexts
<1>9. Drop(scall.in, k) = Drop(d, Reached(sctx', 0)) /\ Drop(scall.in, k) \in Seq(Byte)
  <2> DEFINE y == Reached(sctx, left)
  <2>1. y \in 0..Len(d) /\ k \in 0..(Len(d) - y) /\ scall.in = Drop(d, y)
    BY <1>1, <1>3, <1>4
  <2>2. y + k = Reached(sctx', 0)
    BY <1>4, <1>7
  <2> HIDE DEF y
  <2>3. Drop(Drop(d, y), k) = Drop(d, y + k)
    BY <1>2, <2>1, DropDrop
  <2>4. Drop(scall.in, k) \in Seq(Byte)
    BY <1>1, TakeDrop
  <2> QED BY <2>1, <2>2, <2>3, <2>4
<1> DEFINE rest == Drop(scall.in, k)
<1>10. /\ scall' \in CallType /\ scall'.pc = "loop" /\ scall'.in = rest
       /\ scall'.left = 0 /\ scall'.next = scall.next /\ scall'.finish = scall.finish
  <2>1. rest \in Seq(Byte) /\ scall' = LoopCall(scall, rest)
    BY <1>9
  <2> HIDE DEF rest
  <2> DEFINE l == LoopCall(scall, rest)
  <2>2. /\ l \in CallType /\ l.pc = "loop" /\ l.in = rest
        /\ l.left = 0 /\ l.next = scall.next /\ l.finish = scall.finish
    BY <1>1, <2>1, LoopFacts, Zenon
  <2> HIDE DEF l
  <2>3. scall' = l
    BY <2>1 DEF l
  <2> QED BY <2>2, <2>3
<1>11. Held(sctx', scall') = 0 /\ DataOf(scall', sgiven.message) = d
  BY <1>10 DEF Held, DataOf
<1>12. TypeInv'
  BY <1>8, <1>10 DEF IInv, TypeInv
<1> HIDE DEF rest
<1>13. StreamInv'
  BY <1>7, <1>8, <1>9, <1>10, <1>11 DEF IInv, StreamInv, rest
<1> QED BY <1>12, <1>13 DEF IInv

(* A context that was started is in the invariant.                         *)
Begun(c, kind) ==
  LET d == starts(c, kind)
      held == Held(d, NoCall)
  IN  /\ d \in Contexts /\ d.iv = kind /\ (d.is224 <=> kind = "sha224")
      /\ Totalled(d.total, Len(<<>>))
      /\ Processed(d, <<>>, held)
      /\ <<>> = Drop(<<>>, Reached(d, held))

LEMMA IdleFacts ==
  /\ NoCall \in CallType
  /\ \A m : DataOf(NoCall, m) = m
  /\ NoDigest \in [iv : Kinds \cup {"none"}, blocks : Seq(Seq(Byte)), words : Nat]
<1>1. NoCall \in CallType
  BY DEF NoCall, CallType
<1>2. \A m : DataOf(NoCall, m) = m
  BY DEF DataOf, NoCall
<1>3. NoDigest \in [iv : Kinds \cup {"none"}, blocks : Seq(Seq(Byte)), words : Nat]
  BY DEF NoDigest
<1> QED BY <1>1, <1>2, <1>3

LEMMA BegunFacts ==
  ASSUME Sha256Assumption, NEW c \in Contexts, NEW kind \in Kinds
  PROVE  Begun(c, kind)
<1> DEFINE d == starts(c, kind)
<1>1. /\ d \in Contexts /\ d.iv = kind /\ (d.is224 <=> kind = "sha224")
      /\ Totalled(d.total, 0) /\ d.total[1] % SHABLOCK = 0 /\ Whole(d, <<>>)
  BY StartedFacts
<1> HIDE DEF d
<1>2. Len(<<>>) = 0 /\ Held(d, NoCall) = 0
  BY <1>1 DEF Held, NoCall
<1>3. Len(<<>>) % SHABLOCK = 0
  <2>1. SHABLOCK \in Nat /\ SHABLOCK > 0
    BY Sizes
  <2> QED BY <1>2, <2>1
<1>4. Processed(d, <<>>, 0) /\ Reached(d, 0) = 0
  BY <1>1, <1>2, <1>3 DEF Whole
<1>5. <<>> = Drop(<<>>, 0)
  BY DEF Drop
<1> QED BY <1>1, <1>2, <1>4, <1>5 DEF Begun, d

LEMMA StreamInit == ASSUME Sha256Assumption, ShaInit PROVE IInv
<1>1. Begun(Cleared, "sha256")
  BY ClearedType, BegunFacts DEF Kinds
<1>2. /\ sctx = starts(Cleared, "sha256") /\ scall = NoCall /\ shash = NoDigest
      /\ sgiven = [kind |-> "sha256", message |-> <<>>]
  BY DEF ShaInit
<1>3. DataOf(scall, <<>>) = <<>> /\ sgiven.kind = "sha256" /\ sgiven.message = <<>>
  BY <1>2, IdleFacts
<1>4. TypeInv
  BY <1>1, <1>2, IdleFacts DEF TypeInv, Begun, GivenType, Kinds
<1>5. StreamInv
  BY <1>1, <1>2, <1>3 DEF StreamInv, Begun, NoCall
<1> QED BY <1>4, <1>5 DEF IInv

(* Starting a context again, whatever its buffer holds.                    *)
LEMMA BegunKeeps ==
  ASSUME Sha256Assumption, NEW c \in Contexts, NEW kind \in Kinds,
         sctx' = starts(c, kind), scall' = NoCall, shash' = NoDigest,
         sgiven' = [kind |-> kind, message |-> <<>>]
  PROVE  IInv'
<1>1. Begun(c, kind)
  BY BegunFacts
<1>2. /\ DataOf(scall', <<>>) = <<>> /\ sgiven'.kind = kind /\ sgiven'.message = <<>>
      /\ kind # "closed"
  BY IdleFacts DEF Kinds
<1>3. TypeInv'
  BY <1>1, IdleFacts DEF TypeInv, Begun, GivenType
<1>4. StreamInv'
  BY <1>1, <1>2 DEF StreamInv, Begun, NoCall
<1> QED BY <1>3, <1>4 DEF IInv

-----------------------------------------------------------------------------
(* The steps. *)

(* The call that an update begins.                                         *)
EnteredBy(c, k, bytes, held) ==
  LET l == Entered(c, k, bytes)
  IN  /\ l \in CallType /\ l.pc = "update" /\ l.in = bytes /\ l.left = held
      /\ l.next = k.next /\ l.finish = k.finish

LEMMA EnteredFacts ==
  ASSUME Sha256Assumption, NEW c, c.total \in Nat \X Nat, NEW k \in CallType,
         NEW bytes \in Seq(Byte)
  PROVE  EnteredBy(c, k, bytes, c.total[1] % SHABLOCK)
<1> DEFINE held == c.total[1] % SHABLOCK
<1>1. held \in Nat
  <2>1. SHABLOCK \in Nat /\ SHABLOCK > 0 /\ c.total[1] \in Nat
    BY Sizes
  <2> QED BY <2>1
<1>2. Entered(c, k, bytes) = [k EXCEPT !.pc = "update", !.in = bytes, !.left = held]
  BY DEF Entered
<1> HIDE DEF held
<1>3. Entered(c, k, bytes) \in CallType
  BY <1>1, <1>2 DEF CallType
<1>4. /\ Entered(c, k, bytes).pc = "update" /\ Entered(c, k, bytes).in = bytes
      /\ Entered(c, k, bytes).left = held
      /\ Entered(c, k, bytes).next = k.next
      /\ Entered(c, k, bytes).finish = k.finish
  BY <1>2 DEF CallType
<1> QED BY <1>3, <1>4 DEF EnteredBy, held

LEMMA UpdateKeeps ==
  ASSUME Sha256Assumption, IInv, NEW bytes \in Seq(Byte), Len(bytes) < SHAWORD,
         sha256_update_ml(bytes)
  PROVE  IInv'
<1> DEFINE m == sgiven.message
           all == m \o bytes
<1>0. sgiven.kind # "closed"
  BY DEF sha256_update_ml, Kinds
<1>1. /\ scall.pc = "idle" /\ sctx' = Counted(sctx, bytes)
      /\ scall' = Entered(sctx, scall, bytes) /\ shash' = shash
      /\ sgiven' = [sgiven EXCEPT !.message = all]
  BY DEF sha256_update_ml
<1>2. /\ sctx \in Contexts /\ scall \in CallType /\ sgiven \in GivenType
      /\ m \in Seq(Byte) /\ shash = NoDigest /\ sctx.iv = sgiven.kind
      /\ (sctx.is224 <=> sgiven.kind = "sha224") /\ scall = NoCall
      /\ Totalled(sctx.total, Len(DataOf(scall, m)))
  BY <1>0, <1>1, OpenFacts
<1>3. DataOf(scall, m) = m
  BY <1>2, IdleFacts
<1>4. Whole(sctx, m)
  BY <1>0, <1>1, <1>2, <1>3, RestIsEmpty
<1>5. all \in Seq(Byte)
  BY <1>2, Concatenation
<1> HIDE DEF all, m
<1>6. sgiven' \in GivenType /\ sgiven'.kind = sgiven.kind /\ sgiven'.message = all
  BY <1>1, <1>2, <1>5 DEF GivenType
<1>7. /\ scall' \in CallType /\ scall'.pc = "update" /\ scall'.in = bytes
      /\ scall'.left = sctx.total[1] % SHABLOCK
      /\ scall'.next = scall.next /\ scall'.finish = scall.finish
  <2>1. sctx.total \in Nat \X Nat
    BY <1>2 DEF Contexts
  <2>2. EnteredBy(sctx, scall, bytes, sctx.total[1] % SHABLOCK)
    BY <1>2, <2>1, EnteredFacts
  <2> QED BY <1>1, <2>2 DEF EnteredBy
<1>8. scall'.next = <<>> /\ scall'.finish = FALSE
  BY <1>2, <1>7 DEF NoCall
<1>9. DataOf(scall', all) = m \o bytes
  BY <1>8 DEF DataOf, all
<1> QED BY <1>0, <1>1, <1>2, <1>3, <1>4, <1>6, <1>7, <1>8, <1>9, EnterKeeps

LEMMA DirectKeeps ==
  ASSUME Sha256Assumption, NEW kind \in Kinds, NEW bytes \in Seq(Byte),
         Len(bytes) < SHAWORD, sha256_ml(kind, bytes)
  PROVE  IInv'
<1> DEFINE c == starts(Cleared, kind)
           k == Entered(c, NoCall, bytes)
<1>1. /\ sctx' = Counted(c, bytes) /\ scall' = [k EXCEPT !.direct = TRUE]
      /\ shash' = NoDigest /\ sgiven' = [kind |-> kind, message |-> bytes]
  BY DEF sha256_ml
<1>2. /\ c \in Contexts /\ c.iv = kind /\ (c.is224 <=> kind = "sha224")
      /\ Totalled(c.total, 0) /\ Whole(c, <<>>)
  BY ClearedType, StartedFacts
<1> HIDE DEF c
<1>3. EnteredBy(c, NoCall, bytes, c.total[1] % SHABLOCK)
  <2>1. c.total \in Nat \X Nat
    BY <1>2 DEF Contexts
  <2> QED BY <2>1, IdleFacts, EnteredFacts
<1>4. /\ k \in CallType /\ k.pc = "update" /\ k.in = bytes
      /\ k.left = c.total[1] % SHABLOCK /\ k.next = <<>> /\ k.finish = FALSE
  BY <1>3 DEF EnteredBy, NoCall
<1> HIDE DEF k
<1>5. /\ scall' \in CallType /\ scall'.pc = "update" /\ scall'.in = bytes
      /\ scall'.left = c.total[1] % SHABLOCK
      /\ scall'.next = <<>> /\ scall'.finish = FALSE
  BY <1>1, <1>4 DEF CallType
<1>6. /\ sgiven' \in GivenType /\ sgiven'.kind = kind /\ sgiven'.message = bytes
      /\ kind # "closed"
  BY <1>1 DEF GivenType, Kinds
<1>7. <<>> \in Seq(Byte) /\ Len(<<>>) = 0 /\ <<>> \o bytes = bytes
  BY EmptyIsNeutral
<1>8. DataOf(scall', bytes) = <<>> \o bytes
  BY <1>5, <1>7 DEF DataOf
<1> QED BY <1>1, <1>2, <1>5, <1>6, <1>7, <1>8, EnterKeeps

LEMMA FinishKeeps ==
  ASSUME Sha256Assumption, IInv, Finish
  PROVE  IInv'
<1> DEFINE m == sgiven.message
           high == (sctx.total[1] \div (SHAWORD \div 8)) + ((sctx.total[2] * 8) % SHAWORD)
           low  == (sctx.total[1] * 8) % SHAWORD
           p == PaddingLength(sctx.total[1] % SHABLOCK)
           padding == Overwrite(Repeat(0, p), 0, <<128>>)
           length == Put(high) \o Put(low)
           k == Entered(sctx, scall, padding)
<1>1. /\ scall.pc \in {"idle", "finish"} /\ sgiven.kind \in Kinds
      /\ sctx' = Counted(sctx, padding)
      /\ scall' = [k EXCEPT !.finish = TRUE, !.next = length]
      /\ shash' = shash /\ sgiven' = sgiven
  BY DEF Finish
<1>2. sgiven.kind # "closed"
  BY <1>1 DEF Kinds
<1>3. /\ sctx \in Contexts /\ scall \in CallType /\ sgiven \in GivenType
      /\ m \in Seq(Byte) /\ shash = NoDigest /\ sctx.iv = sgiven.kind
      /\ (sctx.is224 <=> sgiven.kind = "sha224")
      /\ Totalled(sctx.total, Len(DataOf(scall, m)))
      /\ (scall.pc = "idle" => scall = NoCall)
      /\ (scall.pc = "finish" => ~scall.finish /\ scall.in = <<>>)
  BY <1>2, OpenFacts
<1>4. scall.finish = FALSE
  <2>1. CASE scall.pc = "idle"
    BY <1>3, <2>1 DEF NoCall
  <2>2. CASE scall.pc = "finish"
    BY <1>3, <2>2 DEF CallType
  <2> QED BY <1>1, <2>1, <2>2
<1>5. DataOf(scall, m) = m /\ Len(m) \in Nat
  BY <1>3, <1>4 DEF DataOf
<1>6. Whole(sctx, m)
  BY <1>1, <1>2, <1>3, <1>5, RestIsEmpty
<1>7. length = LengthField(8 * Len(m))
  <2>1. Totalled(sctx.total, Len(m))
    BY <1>3, <1>5
  <2> DEFINE total == sctx.total
  <2>2. /\ high = (total[1] \div (SHAWORD \div 8)) + ((total[2] * 8) % SHAWORD)
        /\ low = (total[1] * 8) % SHAWORD
    OBVIOUS
  <2> HIDE DEF high, low, total
  <2>3. Put(high) \o Put(low) = LengthField(8 * Len(m))
    BY <1>5, <2>1, <2>2, LengthFacts DEF total
  <2> QED BY <2>3
<1>8. p = PaddingLength(Len(m) % SHABLOCK)
  <2>1. 0 \in Nat /\ 0 < SHAWORD
    BY Sizes
  <2>2. sctx.total[1] % SHABLOCK = Len(m) % SHABLOCK
    BY <1>3, <1>5, <2>1, CountFacts
  <2> QED BY <2>2
<1>9. /\ padding \in Seq(Byte) /\ Len(padding) = p /\ p \in 1..SHABLOCK
      /\ Extended(m) = m \o padding
  <2> HIDE DEF p
  <2>1. padding = Overwrite(Repeat(0, p), 0, <<128>>)
    OBVIOUS
  <2>2. m \in Seq(Byte)
    BY <1>3
  <2> HIDE DEF padding, m, high, low, length, k
  <2> QED BY <1>8, <2>1, <2>2, PaddingFacts
<1>10. Len(padding) < SHAWORD
  <2>1. SHABLOCK \in Nat /\ SHAWORD \in Nat /\ SHABLOCK < SHAWORD
    BY Sizes
  <2> HIDE DEF p, padding
  <2> QED BY <1>9, <2>1
<1>11. length \in Seq(Byte) /\ length # <<>>
  BY <1>3, <1>7, PaddedFacts
<1> HIDE DEF m, high, low, p, padding, length
<1>12. EnteredBy(sctx, scall, padding, sctx.total[1] % SHABLOCK)
  <2>1. sctx.total \in Nat \X Nat
    BY <1>3 DEF Contexts
  <2> QED BY <1>3, <1>9, <2>1, EnteredFacts
<1>13. /\ k \in CallType /\ k.pc = "update" /\ k.in = padding
       /\ k.left = sctx.total[1] % SHABLOCK
  BY <1>12 DEF EnteredBy
<1> HIDE DEF k
<1>14. /\ scall' \in CallType /\ scall'.pc = "update" /\ scall'.in = padding
       /\ scall'.left = sctx.total[1] % SHABLOCK
  BY <1>1, <1>11, <1>13 DEF CallType
<1>15. scall'.next = length /\ scall'.finish = TRUE
  BY <1>1, <1>13 DEF CallType
<1>16. DataOf(scall', m) = m \o padding
  BY <1>9, <1>11, <1>15 DEF DataOf
<1> QED BY <1>1, <1>2, <1>3, <1>5, <1>6, <1>7, <1>9, <1>10, <1>14, <1>15, <1>16,
           EnterKeeps DEF m

LEMMA FillKeeps ==
  ASSUME Sha256Assumption, IInv, CompleteBlock
  PROVE  IInv'
<1> DEFINE d == DataOf(scall, sgiven.message)
           left == scall.left
           in == scall.in
           fill == SHABLOCK - left
           b == sctx.buffer
           t == Take(in, fill)
           full == Overwrite(b, left, t)
<1>1. /\ scall.pc = "update" /\ left # 0 /\ Len(in) >= fill
      /\ sctx' = process([sctx EXCEPT !.buffer = full], full)
      /\ scall' = LoopCall(scall, Drop(in, fill))
      /\ UNCHANGED <<shash, sgiven>>
  BY DEF CompleteBlock, LoopCall
<1>2. sgiven.kind # "closed"
  BY <1>1 DEF IInv, StreamInv, NoCall
<1>3. /\ sctx \in Contexts /\ scall \in CallType /\ in \in Seq(Byte) /\ left \in Nat
      /\ sgiven.message \in Seq(Byte) /\ Processed(sctx, d, left)
      /\ in = Drop(d, Reached(sctx, left))
  <2>1. Held(sctx, scall) = left
    BY <1>1 DEF Held
  <2> QED BY <1>2, <2>1, OpenFacts
<1>4. d \in Seq(Byte) /\ SHABLOCK \in Nat
  BY <1>3, DataType, Sizes
<1>5. b \in [1..SHABLOCK -> Byte] /\ sctx.blocks \in Seq(Seq(Byte))
  BY <1>3 DEF Contexts, Block
<1> HIDE DEF d, left, in, b
<1>6. /\ Reached(sctx, left) \in 0..Len(d) /\ Reached(sctx, 0) \in Nat
      /\ \A j \in Nat : Reached(sctx, j) = Reached(sctx, 0) + j
      /\ left < SHABLOCK /\ Len(in) = Len(d) - Reached(sctx, left)
      /\ \A j \in 1..Len(in) : in[j] = d[Reached(sctx, 0) + left + j]
  <2>1. RestOf(sctx, d, left, in)
    BY <1>3, <1>4, RestFacts
  <2> QED BY <2>1 DEF RestOf
<1>7. fill \in 0..Len(in) /\ left + fill = SHABLOCK /\ left \in 0..SHABLOCK
  <2> DEFINE l == Len(in)
             B == SHABLOCK
  <2>1. l \in Nat /\ left \in Nat /\ left < B /\ B \in Nat /\ l >= B - left
    BY <1>1, <1>3, <1>4, <1>6
  <2> HIDE DEF l, B
  <2>2. B - left \in 0..l /\ left + (B - left) = B /\ left \in 0..B
    BY <2>1
  <2> QED BY <2>2 DEF l, B
<1> HIDE DEF fill
<1>8. t \in Seq(Byte) /\ Len(t) = fill /\ \A j \in 1..fill : t[j] = in[j]
  BY <1>3, <1>7, TakeDrop
<1> HIDE DEF t
<1>9. full \in Seq(Byte) /\ Len(full) = SHABLOCK /\ full \in [1..SHABLOCK -> Byte]
  <2>1. left + Len(t) <= SHABLOCK
    BY <1>4, <1>7, <1>8
  <2>2. full \in [1..SHABLOCK -> Byte]
    BY <1>4, <1>5, <1>7, <1>8, <2>1, OverwriteFacts
  <2> HIDE DEF full
  <2>3. \A u \in [1..SHABLOCK -> Byte] : u \in Seq(Byte) /\ Len(u) = SHABLOCK
    BY <1>4
  <2> QED BY <2>2, <2>3
<1>10. ASSUME NEW j \in 1..SHABLOCK PROVE full[j] = d[Reached(sctx, j)]
  <2>1. full[j] = IF left < j /\ j <= left + Len(t) THEN t[j - left] ELSE b[j]
    BY <1>5 DEF Overwrite
  <2>2. j \in Nat /\ Reached(sctx, j) = Reached(sctx, 0) + j
    BY <1>4, <1>6
  <2>3. CASE left < j
    <3>1. j - left \in 1..fill /\ j <= left + Len(t) /\ j - left \in 1..Len(in)
      BY <1>3, <1>4, <1>7, <1>8, <2>2, <2>3
    <3>2. t[j - left] = d[Reached(sctx, 0) + left + (j - left)]
      BY <1>6, <1>8, <3>1
    <3>3. Reached(sctx, 0) + left + (j - left) = Reached(sctx, j)
      BY <1>3, <1>6, <2>2
    <3> QED BY <2>1, <2>3, <3>1, <3>2, <3>3
  <2>4. CASE ~(left < j)
    <3>1. j \in 1..left
      BY <1>3, <2>2, <2>4
    <3>2. b[j] = d[Reached(sctx, j)]
      BY <1>3, <3>1 DEF Processed, b
    <3> QED BY <2>1, <2>4, <3>2
  <2> QED BY <2>3, <2>4
<1>11. IsNext(sctx, d, full)
  <2> DEFINE x == Reached(sctx, 0)
             y == Reached(sctx, left)
  <2>1. x \in Nat /\ y = x + left /\ Len(in) = Len(d) - y
    BY <1>3, <1>6
  <2>2. Len(d) \in Nat /\ Len(in) >= fill
    BY <1>1, <1>4
  <2> HIDE DEF x, y
  <2>3. x + SHABLOCK <= Len(d)
    BY <1>3, <1>4, <1>7, <2>1, <2>2
  <2> QED BY <1>9, <1>10, <2>3 DEF IsNext, x
<1> HIDE DEF full
<1>12. sctx' \in [total : {sctx.total}, iv : {sctx.iv}, blocks : {Append(sctx.blocks, full)},
                 buffer : Block, is224 : {sctx.is224}]
  BY <1>1, <1>3, <1>9 DEF process, Contexts, Block
<1> QED BY <1>1, <1>2, <1>7, <1>9, <1>11, <1>12, BlockKeeps DEF d, left, in

LEMMA ProcessKeeps ==
  ASSUME Sha256Assumption, IInv, ProcessInput
  PROVE  IInv'
<1> DEFINE d == DataOf(scall, sgiven.message)
           in == scall.in
           block == Take(in, SHABLOCK)
<1>1. /\ scall.pc = "loop" \/ (scall.pc = "update" /\ scall.left = 0)
      /\ Len(in) >= SHABLOCK /\ sctx' = process(sctx, block)
      /\ scall' = [scall EXCEPT !.pc = "loop", !.in = Drop(in, SHABLOCK)]
      /\ UNCHANGED <<shash, sgiven>>
  BY DEF ProcessInput
<1>2. sgiven.kind # "closed"
  BY <1>1 DEF IInv, StreamInv, NoCall
<1>3. /\ sctx \in Contexts /\ scall \in CallType /\ in \in Seq(Byte) /\ scall.left = 0
      /\ sgiven.message \in Seq(Byte) /\ Processed(sctx, d, 0)
      /\ in = Drop(d, Reached(sctx, 0))
  <2>1. scall.left = 0
    BY <1>1, <1>2, OpenFacts
  <2>2. Held(sctx, scall) = 0
    BY <1>1, <2>1 DEF Held
  <2> QED BY <1>2, <2>1, <2>2, OpenFacts
<1>4. d \in Seq(Byte) /\ SHABLOCK \in Nat
  BY <1>3, DataType, Sizes
<1> HIDE DEF d, in
<1>5. /\ Reached(sctx, 0) \in 0..Len(d)
      /\ \A j \in Nat : Reached(sctx, j) = Reached(sctx, 0) + j
      /\ Len(in) = Len(d) - Reached(sctx, 0)
      /\ \A j \in 1..Len(in) : in[j] = d[Reached(sctx, 0) + 0 + j]
  <2>1. RestOf(sctx, d, 0, in)
    BY <1>3, <1>4, RestFacts
  <2> QED BY <2>1 DEF RestOf
<1>6. SHABLOCK \in 0..Len(in)
  <2>1. Len(in) \in Nat
    BY <1>3
  <2> QED BY <1>1, <1>4, <2>1
<1>7. /\ block \in Seq(Byte) /\ Len(block) = SHABLOCK
      /\ \A j \in 1..SHABLOCK : block[j] = in[j]
  BY <1>3, <1>6, TakeDrop
<1> HIDE DEF block
<1>8. ASSUME NEW j \in 1..SHABLOCK PROVE block[j] = d[Reached(sctx, j)]
  <2>1. j \in Nat /\ j \in 1..Len(in)
    BY <1>1, <1>3, <1>4
  <2>2. Reached(sctx, 0) + 0 + j = Reached(sctx, j)
    BY <1>5, <2>1
  <2>3. in[j] = d[Reached(sctx, 0) + 0 + j]
    BY <1>5, <2>1
  <2> QED BY <1>7, <2>2, <2>3
<1>9. IsNext(sctx, d, block)
  <2> DEFINE x == Reached(sctx, 0)
  <2>1. x \in 0..Len(d) /\ Len(in) = Len(d) - x /\ Len(d) \in Nat
    BY <1>4, <1>5
  <2> HIDE DEF x
  <2>2. x + SHABLOCK <= Len(d)
    BY <1>1, <1>4, <2>1
  <2> QED BY <1>7, <1>8, <2>2 DEF IsNext, x
<1>10. sctx' \in [total : {sctx.total}, iv : {sctx.iv}, blocks : {Append(sctx.blocks, block)},
                 buffer : Block, is224 : {sctx.is224}]
  BY <1>1, <1>3 DEF process, Contexts
<1>11. scall' = LoopCall(scall, Drop(in, SHABLOCK))
  <2> DEFINE rest == Drop(in, SHABLOCK)
  <2>1. scall' = [scall EXCEPT !.pc = "loop", !.in = rest]
    BY <1>1
  <2> HIDE DEF rest
  <2>2. scall' = LoopCall(scall, rest)
    BY <1>3, <2>1 DEF LoopCall, CallType
  <2> QED BY <2>2 DEF rest
<1>12. scall.left + SHABLOCK = SHABLOCK
  BY <1>3, <1>4
<1> QED BY <1>1, <1>2, <1>6, <1>7, <1>9, <1>10, <1>11, <1>12, BlockKeeps DEF d, in

(* What is left of the call once its string is copied.                     *)
DoneCall(k) ==
  [k EXCEPT !.in = <<>>, !.left = 0,
            !.pc = IF k.finish THEN "output" ELSE IF k.direct THEN "finish" ELSE "idle"]

LEMMA DoneFacts ==
  ASSUME NEW k \in CallType, k.next = <<>>
  PROVE  /\ DoneCall(k) \in CallType
         /\ DoneCall(k).pc \in {"idle", "finish", "output"}
         /\ DoneCall(k).in = <<>> /\ DoneCall(k).next = <<>>
         /\ DoneCall(k).finish = k.finish
         /\ (DoneCall(k).pc = "idle" => DoneCall(k) = NoCall)
         /\ (DoneCall(k).pc = "finish" => ~DoneCall(k).finish)
         /\ (DoneCall(k).pc = "output" => DoneCall(k).finish)
<1> DEFINE pc == IF k.finish THEN "output" ELSE IF k.direct THEN "finish" ELSE "idle"
           d == DoneCall(k)
<1>1. d = [k EXCEPT !.in = <<>>, !.left = 0, !.pc = pc]
  BY DEF DoneCall
<1>2. /\ pc \in {"idle", "finish", "output"}
      /\ (pc = "idle" => k.finish = FALSE /\ k.direct = FALSE)
      /\ (pc = "finish" => k.finish = FALSE /\ k.direct = TRUE)
      /\ (pc = "output" => k.finish = TRUE)
  BY DEF CallType
<1> HIDE DEF pc, d
<1>3. d \in CallType
  BY <1>1, <1>2 DEF CallType
<1>4. d.in = <<>> /\ d.left = 0 /\ d.pc = pc /\ d.next = <<>>
  BY <1>1 DEF CallType
<1>5. d.finish = k.finish /\ d.direct = k.direct
  BY <1>1 DEF CallType
<1>6. d = [pc |-> pc, in |-> <<>>, left |-> 0, next |-> <<>>,
           finish |-> k.finish, direct |-> k.direct]
  BY <1>3, <1>4, <1>5 DEF CallType
<1>7. pc = "idle" => d = NoCall
  BY <1>2, <1>6 DEF NoCall
<1>8. pc = "finish" => ~d.finish
  BY <1>2, <1>5
<1>9. pc = "output" => d.finish
  BY <1>2, <1>5
<1> QED BY <1>2, <1>3, <1>4, <1>5, <1>7, <1>8, <1>9 DEF d

LEMMA CopyKeeps ==
  ASSUME Sha256Assumption, IInv, KeepRest
  PROVE  IInv'
<1> DEFINE m == sgiven.message
           d == DataOf(scall, m)
           left == scall.left
           in == scall.in
           next == scall.next
           b == sctx.buffer
           full == Overwrite(b, left, in)
           c == [sctx EXCEPT !.buffer = full]
<1>1. /\ \/ scall.pc = "update" /\ Len(in) < SHABLOCK - left
         \/ scall.pc = "loop" /\ Len(in) < SHABLOCK
      /\ UNCHANGED <<shash, sgiven>>
      /\ next # <<>> => /\ sctx' = Counted(c, next)
                        /\ scall' = [Entered(sctx, scall, next) EXCEPT !.next = <<>>]
      /\ next = <<>> => sctx' = c /\ scall' = DoneCall(scall)
  BY DEF KeepRest, DoneCall
<1>2. sgiven.kind # "closed"
  BY <1>1 DEF IInv, StreamInv, NoCall
<1>3. /\ sctx \in Contexts /\ scall \in CallType /\ in \in Seq(Byte) /\ left \in Nat
      /\ sgiven \in GivenType /\ m \in Seq(Byte) /\ next \in Seq(Byte)
      /\ shash = NoDigest /\ sctx.iv = sgiven.kind
      /\ (sctx.is224 <=> sgiven.kind = "sha224")
      /\ Totalled(sctx.total, Len(d)) /\ Processed(sctx, d, left)
      /\ in = Drop(d, Reached(sctx, left))
      /\ (next # <<>> => scall.finish /\ next = LengthField(8 * Len(m)))
      /\ (scall.pc = "loop" => left = 0)
  <2>1. Held(sctx, scall) = left
    BY <1>1 DEF Held
  <2> QED BY <1>2, <2>1, OpenFacts
<1>4. d \in Seq(Byte) /\ SHABLOCK \in Nat /\ SHABLOCK > 0
  BY <1>3, DataType, Sizes
<1>5. left + Len(in) < SHABLOCK
  <2> DEFINE l == Len(in)
  <2>1. l \in Nat /\ left \in Nat
    BY <1>3
  <2>2. CASE scall.pc = "update"
    <3>1. l < SHABLOCK - left
      BY <1>1, <2>2
    <3> HIDE DEF l, left
    <3> QED BY <1>4, <2>1, <3>1 DEF l
  <2>3. CASE scall.pc = "loop"
    <3>1. l < SHABLOCK /\ left = 0
      BY <1>1, <1>3, <2>3
    <3> HIDE DEF l, left
    <3> QED BY <1>4, <2>1, <3>1 DEF l
  <2> QED BY <1>1, <2>2, <2>3
<1>6. b \in Block /\ Len(sctx.blocks) \in Nat
  BY <1>3 DEF Contexts
<1> HIDE DEF full
<1>7. /\ c.blocks = sctx.blocks /\ c.buffer = full /\ c.total = sctx.total
      /\ c.iv = sctx.iv /\ c.is224 = sctx.is224
  BY <1>3 DEF Contexts
<1>a. full = Overwrite(b, left, in)
  BY DEF full
<1> HIDE DEF c, d, left, in, b
<1>8. c.buffer \in Block /\ Whole(c, d)
  BY <1>3, <1>4, <1>5, <1>6, <1>7, <1>a, Copied DEF b
<1>9. c \in Contexts
  <2>1. full \in Block
    BY <1>7, <1>8
  <2> QED BY <1>3, <2>1 DEF Contexts, c
<1>10. Totalled(c.total, Len(d)) /\ Len(d) \in Nat
  BY <1>3, <1>4, <1>7
<1>11. CASE next # <<>>
  <2> DEFINE k == Entered(sctx, scall, next)
             held == c.total[1] % SHABLOCK
  <2>1. EnteredBy(sctx, scall, next, held)
    <3>1. sctx.total \in Nat \X Nat
      BY <1>3 DEF Contexts
    <3>2. EnteredBy(sctx, scall, next, sctx.total[1] % SHABLOCK)
      BY <1>3, <3>1, EnteredFacts
    <3> QED BY <1>7, <3>2
  <2> HIDE DEF held
  <2>2. /\ k \in CallType /\ k.pc = "update" /\ k.in = next /\ k.left = held
        /\ k.finish = scall.finish
    BY <2>1 DEF EnteredBy
  <2>3. sctx' = Counted(c, next) /\ scall' = [k EXCEPT !.next = <<>>]
    BY <1>1, <1>11
  <2>4. scall.finish /\ next = LengthField(8 * Len(m))
    BY <1>3, <1>11
  <2>a. next \in Seq(Byte)
    BY <1>3
  <2> HIDE DEF next, k
  <2>5. /\ scall' \in CallType /\ scall'.pc = "update" /\ scall'.in = next
        /\ scall'.left = held /\ scall'.next = <<>>
    <3> DEFINE none == <<>>
    <3>1. none \in Seq(Byte) /\ scall' = [k EXCEPT !.next = none]
      BY <2>3
    <3> HIDE DEF none
    <3>2. scall' \in CallType /\ scall'.next = none
      BY <2>2, <3>1 DEF CallType
    <3>3. scall'.pc = "update" /\ scall'.in = next /\ scall'.left = held
      BY <2>2, <3>1 DEF CallType
    <3> QED BY <3>2, <3>3 DEF none
  <2>6. scall'.finish
    BY <2>2, <2>3, <2>4 DEF CallType
  <2>7. d = Extended(m)
    BY <1>11, <2>4 DEF DataOf, d, next
  <2>8. DataOf(scall', m) = d \o next
    <3>1. ShaPadded(m) = Extended(m) \o next
      BY <1>3, <2>4, PaddedFacts
    <3> QED BY <2>5, <2>6, <2>7, <3>1 DEF DataOf
  <2>9. Len(next) < SHAWORD
    <3>1. Len(next) = LENGTHBYTES
      BY <1>3, <2>4, PaddedFacts
    <3>2. LENGTHBYTES \in Nat /\ SHABLOCK \in Nat /\ SHAWORD \in Nat
          /\ LENGTHBYTES < SHABLOCK /\ SHABLOCK < SHAWORD
      BY Sizes
    <3> QED BY <3>1, <3>2
  <2>10. /\ sgiven' \in GivenType /\ sgiven'.kind # "closed" /\ sgiven'.message = m
         /\ shash' = NoDigest /\ c.iv = sgiven'.kind
         /\ (c.is224 <=> sgiven'.kind = "sha224")
    BY <1>1, <1>2, <1>3, <1>7
  <2>11. DataOf(scall', sgiven'.message) = d \o next
    BY <2>8, <2>10
  <2>12. scall'.left = c.total[1] % SHABLOCK
    BY <2>5 DEF held
  <2> HIDE DEF m
  <2> QED BY <1>4, <1>8, <1>9, <1>10, <2>3, <2>5, <2>9, <2>10, <2>11, <2>12, <2>a,
             EnterKeeps
<1>12. CASE next = <<>>
  <2>1. sctx' = c /\ scall' = DoneCall(scall)
    BY <1>1, <1>12
  <2> DEFINE k == DoneCall(scall)
  <2>2. /\ k \in CallType /\ k.pc \in {"idle", "finish", "output"}
        /\ k.in = <<>> /\ k.next = <<>> /\ k.finish = scall.finish
        /\ (k.pc = "idle" => k = NoCall)
        /\ (k.pc = "finish" => ~k.finish)
        /\ (k.pc = "output" => k.finish)
    BY <1>3, <1>12, DoneFacts
  <2> HIDE DEF k
  <2>3. DataOf(k, m) = d
    BY <1>12, <2>2 DEF DataOf, d
  <2> DEFINE held == Held(c, k)
  <2>4. held = Len(d) % SHABLOCK
    <3>1. held = c.total[1] % SHABLOCK
      BY <2>2 DEF Held
    <3>2. 0 \in Nat /\ 0 < SHAWORD
      BY Sizes
    <3>3. c.total[1] % SHABLOCK = Len(d) % SHABLOCK
      BY <1>10, <3>2, CountFacts
    <3> QED BY <3>1, <3>3
  <2>5. Processed(c, d, held) /\ Reached(c, held) = Len(d)
    BY <1>8, <2>4 DEF Whole
  <2>6. k.in = Drop(d, Reached(c, held))
    BY <1>4, <2>2, <2>5, DropAll
  <2>7. TypeInv'
    BY <1>1, <1>9, <2>1, <2>2 DEF IInv, TypeInv, k
  <2> HIDE DEF held
  <2>8. /\ shash' = NoDigest /\ sgiven' = sgiven /\ c.iv = sgiven.kind
        /\ (c.is224 <=> sgiven.kind = "sha224")
    BY <1>1, <1>3, <1>7
  <2>9. sctx' = c /\ scall' = k /\ Held(sctx', scall') = held /\ DataOf(scall', sgiven'.message) = d
    BY <2>1, <2>3, <2>8 DEF k, held
  <2>10. StreamInv'
    BY <1>2, <1>10, <2>2, <2>5, <2>6, <2>8, <2>9 DEF StreamInv
  <2> QED BY <2>7, <2>10 DEF IInv
<1> QED BY <1>11, <1>12

LEMMA OutputKeeps ==
  ASSUME Sha256Assumption, IInv, WriteDigest
  PROVE  IInv'
<1>1. /\ scall.pc = "output" /\ scall' = NoCall
      /\ sgiven' = [kind |-> "closed", message |-> <<>>]
      /\ shash' = [iv |-> sctx.iv, blocks |-> sctx.blocks,
                  words |-> IF sctx.is224 THEN 7 ELSE 8]
      /\ sctx' = Cleared \/ sctx' = sctx
  BY DEF WriteDigest
<1>2. sctx \in Contexts /\ sctx' \in Contexts
  BY <1>1, ClearedType DEF IInv, TypeInv
<1>3. shash' \in [iv : Kinds \cup {"none"}, blocks : Seq(Seq(Byte)), words : Nat]
  BY <1>1, <1>2 DEF Contexts
<1>4. sgiven' \in GivenType /\ sgiven'.kind = "closed"
  BY <1>1 DEF GivenType
<1>5. TypeInv'
  BY <1>1, <1>2, <1>3, <1>4, IdleFacts DEF TypeInv
<1>6. StreamInv'
  BY <1>1, <1>4 DEF StreamInv
<1> QED BY <1>5, <1>6 DEF IInv

(* Every step keeps the invariant. *)
LEMMA StreamStep ==
  ASSUME Sha256Assumption, IInv, [ShaNext]_svars
  PROVE  IInv'
<1>0. /\ sctx \in Contexts /\ scall \in CallType /\ sgiven.message \in Seq(Byte)
      /\ Len(sgiven.message) \in Nat
  <2>1. sgiven \in GivenType
    BY DEF IInv, TypeInv
  <2>2. sgiven.message \in Seq(Byte)
    BY <2>1 DEF GivenType
  <2> QED BY <2>2 DEF IInv, TypeInv
<1>1. CASE sha256_init_ml
  <2>1. /\ sctx' = starts(Cleared, "sha256") /\ scall.pc = "idle" /\ scall' = scall
        /\ shash' = NoDigest /\ sgiven' = [kind |-> "sha256", message |-> <<>>]
    BY <1>1 DEF sha256_init_ml
  <2>2. scall' = NoCall
    BY <2>1 DEF IInv, StreamInv
  <2>3. "sha256" \in Kinds /\ Cleared \in Contexts
    BY ClearedType DEF Kinds
  <2> QED BY <2>1, <2>2, <2>3, BegunKeeps
<1>2. ASSUME NEW kind \in Kinds, Restart(kind) PROVE IInv'
  <2>1. /\ sctx' = starts(sctx, kind) /\ scall.pc = "idle" /\ scall' = scall
        /\ shash' = NoDigest /\ sgiven' = [kind |-> kind, message |-> <<>>]
    BY <1>2 DEF Restart
  <2>2. scall' = NoCall
    BY <2>1 DEF IInv, StreamInv
  <2> QED BY <1>0, <2>1, <2>2, BegunKeeps
<1>3. ASSUME NEW l \in ShaLengths, sha256_update_ml(ShaText(Len(sgiven.message), l)) PROVE IInv'
  <2> DEFINE bytes == ShaText(Len(sgiven.message), l)
  <2>1. bytes \in Seq(Byte) /\ Len(bytes) < SHAWORD
    BY <1>0, TextType
  <2>2. sha256_update_ml(bytes)
    BY <1>3
  <2> HIDE DEF bytes
  <2> QED BY <2>1, <2>2, UpdateKeeps
<1>4. ASSUME NEW kind \in Kinds, NEW l \in ShaLengths, sha256_ml(kind, ShaText(0, l))
      PROVE  IInv'
  <2> DEFINE bytes == ShaText(0, l)
  <2>1. bytes \in Seq(Byte) /\ Len(bytes) < SHAWORD
    BY TextType
  <2>2. sha256_ml(kind, bytes)
    BY <1>4
  <2> HIDE DEF bytes
  <2> QED BY <2>1, <2>2, DirectKeeps
<1>5. CASE CompleteBlock
  BY <1>5, FillKeeps
<1>6. CASE ProcessInput
  BY <1>6, ProcessKeeps
<1>7. CASE KeepRest
  BY <1>7, CopyKeeps
<1>8. CASE Finish
  BY <1>8, FinishKeeps
<1>9. CASE WriteDigest
  BY <1>9, OutputKeeps
<1>10. CASE UNCHANGED svars
  <2>1. sctx' = sctx /\ scall' = scall /\ shash' = shash /\ sgiven' = sgiven
    BY <1>10 DEF svars
  <2>2. TypeInv'
    BY <2>1 DEF IInv, TypeInv
  <2>3. StreamInv'
    BY <2>1 DEF IInv, StreamInv, Held, Reached, Processed, Totalled, DataOf
  <2> QED BY <2>2, <2>3 DEF IInv
<1> QED BY <1>1, <1>2, <1>3, <1>4, <1>5, <1>6, <1>7, <1>8, <1>9, <1>10 DEF ShaNext

-----------------------------------------------------------------------------
(* The promise. *)

(* What is written out is the digest of the message.                       *)
LEMMA DigestIsReference ==
  ASSUME Sha256Assumption, IInv, WriteDigest
  PROVE  sgiven.kind # "closed" /\ shash' = ShaReference(sgiven.kind, sgiven.message)
<1> DEFINE m == sgiven.message
           q == ShaPadded(m)
           B == SHABLOCK
           blocks == sctx.blocks
           n == Len(blocks)
           words == IF sctx.is224 THEN 7 ELSE 8
<1>1. /\ scall.pc = "output"
      /\ shash' = [iv |-> sctx.iv, blocks |-> blocks, words |-> words]
  BY DEF WriteDigest
<1>2. sgiven.kind # "closed"
  BY <1>1 DEF IInv, StreamInv, NoCall
<1>3. /\ sctx \in Contexts /\ m \in Seq(Byte) /\ sctx.iv = sgiven.kind
      /\ (sctx.is224 <=> sgiven.kind = "sha224")
      /\ scall.finish /\ scall.next = <<>>
  BY <1>1, <1>2, OpenFacts
<1>4. q \in Seq(Byte) /\ \E k \in Nat : Len(q) = k * B
  BY <1>3, PaddedFacts
<1>5. q = DataOf(scall, m)
  BY <1>3 DEF DataOf
<1>6. Whole(sctx, q)
  BY <1>1, <1>2, <1>4, <1>5, RestIsEmpty
<1>7. B \in Nat /\ B > 0
  BY Sizes
<1>8. blocks \in Seq(Seq(Byte)) /\ n \in Nat
  BY <1>3 DEF Contexts
<1>9. PICK k \in Nat : Len(q) = k * B
  BY <1>4
<1> HIDE DEF q, m, blocks, words
<1>10. Len(q) % B = 0 /\ Len(q) \div B = k
  <2>1. 0 \in 0..(B - 1)
    BY <1>7
  <2>2. (k * B + 0) \div B = k /\ (k * B + 0) % B = 0
    BY <1>7, <2>1, DivisionUnique
  <2>3. k * B + 0 = Len(q)
    BY <1>4, <1>9
  <2> QED BY <2>2, <2>3
<1>11. n = k /\ \A j \in 1..n : blocks[j] = BlockAt(q, j)
  <2>1. Processed(sctx, q, 0) /\ Reached(sctx, 0) = k * B
    BY <1>6, <1>9, <1>10 DEF Whole
  <2>2. n * B + 0 = k * B + 0
    <3>1. Reached(sctx, 0) = n * B + 0
      BY DEF Reached, blocks
    <3> DEFINE x == n * B
               y == k * B
    <3>2. x \in Nat /\ y \in Nat /\ x + 0 = y
      BY <1>7, <1>8, <2>1, <3>1
    <3> HIDE DEF x, y
    <3>3. x + 0 = y + 0
      BY <3>2
    <3> QED BY <3>3 DEF x, y
  <2>3. 0 \in 0..(B - 1)
    BY <1>7
  <2> HIDE DEF n
  <2>4. n = k
    BY <1>7, <1>8, <2>2, <2>3, Lexicographic
  <2> QED BY <2>1, <2>4 DEF Processed, n, blocks
<1>12. blocks = [j \in 1..(Len(q) \div B) |-> BlockAt(q, j)]
  <2>1. \A s \in Seq(Seq(Byte)) : s = [j \in 1..Len(s) |-> s[j]]
    OBVIOUS
  <2>2. blocks = [j \in 1..n |-> blocks[j]]
    BY <1>8, <2>1
  <2> QED BY <1>10, <1>11, <2>2
<1>13. words = IF sgiven.kind = "sha224" THEN 7 ELSE 8
  BY <1>3 DEF words
<1>14. ShaReference(sgiven.kind, m)
         = [iv |-> sgiven.kind,
            blocks |-> [j \in 1..(Len(q) \div B) |-> BlockAt(q, j)],
            words |-> IF sgiven.kind = "sha224" THEN 7 ELSE 8]
  BY DEF ShaReference, q
<1>15. shash' = ShaReference(sgiven.kind, m)
  <2> DEFINE all == [j \in 1..(Len(q) \div B) |-> BlockAt(q, j)]
             eight == IF sgiven.kind = "sha224" THEN 7 ELSE 8
  <2>1. /\ blocks = all /\ words = eight /\ sctx.iv = sgiven.kind
        /\ ShaReference(sgiven.kind, m) = [iv |-> sgiven.kind, blocks |-> all, words |-> eight]
    BY <1>3, <1>12, <1>13, <1>14
  <2> HIDE DEF all, eight
  <2> QED BY <1>1, <2>1
<1> QED BY <1>2, <1>15 DEF m

LEMMA PromiseInit == ShaInit => ShaPromise!Init
BY DEF ShaInit, ShaPromise!Init, Kinds

(* Every step of the code opens, feeds or closes, or leaves both be.       *)
LEMMA PromiseStep ==
  ASSUME Sha256Assumption, IInv, [ShaNext]_svars
  PROVE  [ShaPromise!Next]_(ShaPromise!vars)
<1>a. ASSUME sgiven' = sgiven, shash' = shash PROVE [ShaPromise!Next]_(ShaPromise!vars)
  BY <1>a DEF ShaPromise!vars
<1>1. CASE sha256_init_ml
  BY <1>1 DEF sha256_init_ml, ShaPromise!Next, ShaPromise!Open, Kinds
<1>2. ASSUME NEW kind \in Kinds, Restart(kind) PROVE [ShaPromise!Next]_(ShaPromise!vars)
  BY <1>2 DEF Restart, ShaPromise!Next, ShaPromise!Open
<1>3. ASSUME NEW l \in ShaLengths, sha256_update_ml(ShaText(Len(sgiven.message), l))
      PROVE  [ShaPromise!Next]_(ShaPromise!vars)
  <2> DEFINE m == sgiven.message
             bytes == ShaText(Len(m), l)
             all == m \o bytes
  <2>1. m \in Seq(Byte) /\ sgiven \in GivenType
    BY DEF IInv, TypeInv, GivenType
  <2>2. bytes \in Seq(Byte)
    <3>1. Len(m) \in Nat
      BY <2>1
    <3> QED BY <3>1, TextType
  <2>3. sgiven.kind # "closed" /\ shash' = shash /\ sgiven' = [sgiven EXCEPT !.message = all]
    BY <1>3 DEF sha256_update_ml, Kinds
  <2> HIDE DEF bytes
  <2>4. Len(all) >= Len(m) /\ SubSeq(all, 1, Len(m)) = m
    BY <2>1, <2>2, PrefixOfCat
  <2> HIDE DEF all
  <2>5. sgiven'.kind = sgiven.kind /\ sgiven'.message = all
    BY <2>1, <2>3 DEF GivenType
  <2>6. ShaPromise!Feed
    BY <2>3, <2>4, <2>5 DEF ShaPromise!Feed
  <2> QED BY <2>6 DEF ShaPromise!Next
<1>4. ASSUME NEW kind \in Kinds, NEW l \in ShaLengths, sha256_ml(kind, ShaText(0, l))
      PROVE  [ShaPromise!Next]_(ShaPromise!vars)
  BY <1>4 DEF sha256_ml, ShaPromise!Next, ShaPromise!Open
<1>5. CASE CompleteBlock \/ ProcessInput \/ KeepRest \/ Finish
  BY <1>5, <1>a DEF CompleteBlock, ProcessInput, KeepRest, Finish
<1>6. CASE WriteDigest
  <2>1. sgiven.kind # "closed" /\ shash' = ShaReference(sgiven.kind, sgiven.message)
    BY <1>6, DigestIsReference
  <2>2. sgiven' = [kind |-> "closed", message |-> <<>>]
    BY <1>6 DEF WriteDigest
  <2> QED BY <2>1, <2>2 DEF ShaPromise!Next, ShaPromise!Close
<1>7. CASE UNCHANGED svars
  BY <1>7, <1>a DEF svars
<1> QED BY <1>1, <1>2, <1>3, <1>4, <1>5, <1>6, <1>7 DEF ShaNext

-----------------------------------------------------------------------------
(* The theorems. *)

(* The fields of a context, the call that runs on it and the digest always *)
(* have their types: nothing is written outside the buffer.                *)
THEOREM TypeCorrect == ASSUME Sha256Assumption PROVE ShaSpec => []TypeInv
<1>1. ShaInit => IInv
  BY StreamInit
<1>2. IInv /\ [ShaNext]_svars => IInv'
  BY StreamStep
<1>3. IInv => TypeInv
  BY DEF IInv
<1> QED BY <1>1, <1>2, <1>3, PTL DEF ShaSpec

(* Whatever the strings a message comes in, the blocks that were processed *)
(* and the bytes in the buffer are the message, then the padding and then  *)
(* the length, each byte once, up to where the running call is; total      *)
(* counts them in two words.                                               *)
THEOREM StreamKeepsAll == ASSUME Sha256Assumption PROVE ShaSpec => []StreamInv
<1>1. ShaInit => IInv
  BY StreamInit
<1>2. IInv /\ [ShaNext]_svars => IInv'
  BY StreamStep
<1>3. IInv => StreamInv
  BY DEF IInv
<1> QED BY <1>1, <1>2, <1>3, PTL DEF ShaSpec

(* A digest is that of the concatenation of what its context was fed,      *)
(* whatever the calls were and whatever an earlier message left in the     *)
(* buffer: sha256.c keeps the promise of the other two libraries.          *)
THEOREM Sha256Hashes == ASSUME Sha256Assumption PROVE ShaSpec => Sha256IsHash
<1>1. ShaInit => IInv
  BY StreamInit
<1>2. IInv /\ [ShaNext]_svars => IInv'
  BY StreamStep
<1>3. IInv /\ [ShaNext]_svars => [ShaPromise!Next]_(ShaPromise!vars)
  BY PromiseStep
<1> QED BY <1>1, <1>2, <1>3, PromiseInit, PTL DEF ShaSpec, Sha256IsHash, ShaPromise!Spec
==============================================================================
