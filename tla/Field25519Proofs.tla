------------------------- MODULE Field25519Proofs -------------------------
(***************************************************************************)
(* Theorems about the arithmetic of tweetnacl.c modulo 2^255 - 19, for any *)
(* number of limbs of two bytes of any size: what car25519 leaves when it  *)
(* carries once, twice and three times, that pack25519 returns the bytes   *)
(* of the number below the prime and unpack25519 the number of the bytes,  *)
(* that sums, differences and products are those of the numbers, which     *)
(* powers inv25519 and pow2523 are, and that the Montgomery ladder does on *)
(* limbs what it would do on numbers.                                      *)
(***************************************************************************)
EXTENDS Curve25519, BufferProofs, TLAPS

-----------------------------------------------------------------------------
(* Sizes. *)

CAP == PowersOf(RADIX)[LIMBS]     \* what all the limbs can stand for
SLACK == CAP \div 38 - 1

LEMMA ByteFacts ==
  ASSUME FieldAssumption
  PROVE  /\ BYTE \in Nat /\ BYTE >= 16 /\ BYTE % 2 = 0
         /\ LIMBS \in Nat /\ LIMBS > 1 /\ BYTEBITS \in Nat /\ BYTEBITS >= 4
         /\ BYTE = PowersOf(2)[BYTEBITS]
<1> DEFINE q == PowersOf(2)
           m == BYTEBITS
           p == q[m - 4]
<1>1. /\ m \in Nat /\ m >= 4 /\ BYTE = q[m] /\ LIMBS \in Nat /\ LIMBS > 1
  BY DEF FieldAssumption
<1>2. q[0] = 1 /\ \A k \in Nat : q[k] \in Nat /\ q[k] > 0 /\ q[k + 1] = 2 * q[k]
  <2>1. 2 \in Nat /\ 2 > 0
    OBVIOUS
  <2> QED BY <2>1, PowersFacts
<1>3. q[4] = 16
  <2> HIDE DEF q
  <2>1. q[0 + 1] = 2 /\ q[1 + 1] = 2 * q[1] /\ q[2 + 1] = 2 * q[2] /\ q[3 + 1] = 2 * q[3]
    BY <1>2
  <2> QED BY <2>1
<1>4. m - 4 \in Nat /\ (m - 4) + 4 = m
  BY <1>1
<1>5. q[(m - 4) + 4] = q[m - 4] * q[4]
  <2>1. 2 \in Int /\ m - 4 \in Nat /\ 4 \in Nat
    BY <1>4
  <2> QED BY <2>1, PowerOfSum, Zenon
<1> HIDE DEF q
<1>6. BYTE = p * 16 /\ p \in Nat /\ p > 0
  BY <1>1, <1>2, <1>3, <1>4, <1>5
<1> HIDE DEF p, m
<1>7. BYTE \in Nat /\ BYTE >= 16 /\ BYTE % 2 = 0
  BY <1>6
<1> QED BY <1>1, <1>7 DEF m, q

LEMMA FieldSizes ==
  ASSUME FieldAssumption
  PROVE  /\ RADIX \in Nat /\ RADIX >= 256 /\ RADIX = 2 * TOP /\ TOP \in Nat
         /\ LIMBS \in Nat /\ LIMBS > 1
         /\ CAP \in Nat /\ CAP >= 65536 /\ CAP = RADIX * PowersOf(RADIX)[LIMBS - 1]
         /\ P \in Nat /\ CAP = 2 * P + 38 /\ P >= 32749
         /\ SLACK \in Nat /\ 38 * SLACK + 38 <= CAP /\ LIMIT = (RADIX - 1) * SLACK
         /\ LIMIT \in Nat /\ LOOSE \in Nat
<1>1. BYTE \in Nat /\ BYTE >= 16 /\ BYTE % 2 = 0 /\ LIMBS \in Nat /\ LIMBS > 1
  BY ByteFacts
<1> DEFINE b == BYTE
<1> HIDE DEF b
<1>2. b \in Nat /\ b >= 16 /\ b % 2 = 0
  BY <1>1 DEF b
<1>3. PICK c \in Nat : b = 2 * c
  <2>1. b = 2 * (b \div 2) /\ b \div 2 \in Nat
    BY <1>2
  <2> QED BY <2>1
<1>4. RADIX = b * b
  BY DEF RADIX, b
<1>5. b * b \in Nat /\ b * b >= 256 /\ b * b = 2 * (c * b) /\ c * b \in Nat
  <2>1. b * b >= 16 * b
    BY <1>2
  <2> QED BY <1>2, <1>3, <2>1
<1> DEFINE w == RADIX
           t == c * b
<1>6. w \in Nat /\ w >= 256 /\ w = 2 * t /\ t \in Nat
  BY <1>4, <1>5
<1> HIDE DEF w, t
<1>7. w \div 2 = t
  BY <1>6
<1>8. TOP = t
  BY <1>7 DEF TOP, w
<1> DEFINE n == LIMBS
           p == PowersOf(w)[n - 1]
           q == PowersOf(w)[n]
           r == PowersOf(w)[n - 2]
<1>9. n - 2 \in Nat /\ n - 1 \in Nat /\ (n - 2) + 1 = n - 1 /\ (n - 1) + 1 = n /\ n \in Nat
  BY <1>1
<1>10. r \in Nat /\ r > 0 /\ p = w * r /\ q = w * p
  <2>1. w > 0
    BY <1>6
  <2> HIDE DEF n
  <2> QED BY <1>6, <1>9, <2>1, PowersFacts
<1>11. CAP = q
  BY DEF CAP, w
<1> HIDE DEF p, q, r, n
<1>12. p \in Nat /\ p >= 256
  BY <1>6, <1>10
<1>13. q \in Nat /\ q >= 65536 /\ q = 2 * (t * p) /\ t * p \in Nat
  <2>1. w * p >= 256 * p
    BY <1>6, <1>12
  <2> QED BY <1>6, <1>10, <1>12, <2>1
<1>14. P = q \div 2 - 19
  BY DEF P, q, w, n
<1>15. q \div 2 = t * p
  <2> DEFINE h == t * p
  <2> HIDE DEF h
  <2>1. q = 2 * h /\ h \in Nat
    BY <1>13 DEF h
  <2> QED BY <2>1 DEF h
<1>16. P \in Nat /\ q = 2 * P + 38 /\ P >= 32749
  BY <1>13, <1>14, <1>15
<1> DEFINE s == q \div 38 - 1
<1>17. s \in Nat /\ 38 * s + 38 <= q
  BY <1>13
<1>18. SLACK = s /\ LIMIT = (w - 1) * s
  BY <1>11 DEF SLACK, LIMIT, w, q, n
<1> HIDE DEF s
<1>19. (w - 1) * s \in Nat
  BY <1>6, <1>17
<1>20. LOOSE \in Nat
  BY <1>6 DEF LOOSE, SINGLE, w
<1> QED BY <1>1, <1>6, <1>8, <1>10, <1>11, <1>13, <1>16, <1>17, <1>18, <1>19, <1>20 DEF w, q, p, n

-----------------------------------------------------------------------------
(* The limbs after each turn of car25519.                                  *)
CarRuns(g, o) ==
  /\ g \in [Nat -> gf] /\ g[0] = o
  /\ \A i \in Nat : i < LIMBS => g[i + 1] = Carry(g[i], i + 1)

CarRunsTo(out, o) == \E g : CarRuns(g, o) /\ out = g[LIMBS]

LEMMA CarLoopRuns ==
  ASSUME FieldAssumption, NEW o \in gf
  PROVE  CarRunsTo(car25519(o), o)
<1> DEFINE Turned(s, i) == Carry(s, i)
           T == gf
           N == LIMBS
           step == [p \in T \X Nat |->
                      IF p[2] > 0 /\ p[2] <= N THEN Turned(p[1], p[2]) ELSE p[1]]
           first == o
           K == 1..(N + 1)
           Is(run) == run = [p \in T \X K |->
                               IF p[2] > N THEN p[1]
                               ELSE run[<<Turned(p[1], p[2]), p[2] + 1>>]]
           chosen == CHOOSE run : Is(run)
<1>1. N \in Nat
  BY FieldSizes
<1>2. first \in T
  OBVIOUS
<1>3. ASSUME NEW s \in T, NEW i \in Nat, i > 0, i <= N PROVE Turned(s, i) \in T
  <2>1. /\ i \in 1..LIMBS /\ RADIX \in Nat /\ RADIX > 0 /\ LIMBS \in Nat /\ LIMBS > 1
    BY <1>3, FieldSizes
  <2>2. s \in [1..LIMBS -> Int]
    BY DEF gf
  <2> DEFINE c == s[i] \div RADIX
             r == s[i] % RADIX
  <2>3. s[i] \in Int /\ c \in Int /\ r \in Int
    <3>1. s[i] \in Int
      BY <2>1, <2>2
    <3> QED BY <2>1, <3>1
  <2>4. \A j \in 1..LIMBS : s[j] \in Int
    BY <2>2
  <2> HIDE DEF c, r
  <2>5. CASE i < LIMBS
    <3>1. Carry(s, i) = [s EXCEPT ![i] = r, ![i + 1] = @ + c]
      BY <2>5, Zenon DEF Carry, c, r
    <3>2. i + 1 \in 1..LIMBS
      BY <2>1, <2>5
    <3> QED BY <2>2, <2>3, <2>4, <3>1, <3>2 DEF gf
  <2>6. CASE ~(i < LIMBS)
    <3>1. Carry(s, i) = [s EXCEPT ![i] = r, ![1] = @ + 38 * c]
      BY <2>6, Zenon DEF Carry, c, r
    <3>2. 1 \in 1..LIMBS /\ 38 * c \in Int
      BY <2>1, <2>3
    <3> QED BY <2>2, <2>3, <2>4, <3>1, <3>2 DEF gf
  <2> QED BY <2>5, <2>6
<1>4. car25519(o) = chosen[<<first, 1>>]
  BY Zenon DEF car25519, Loop, Turned, T, N, first, K
<1> HIDE DEF Turned, T, N
<1>5. /\ step \in [T \X Nat -> T]
      /\ \A s \in T : \A i \in Nat : i > 0 /\ i <= N => step[<<s, i>>] = Turned(s, i)
  BY <1>3
<1> HIDE DEF step, first
<1>6. ASSUME NEW p \in T \X K, ~(p[2] > N)
      PROVE  step[<<p[1], p[2]>>] = Turned(p[1], p[2])
  <2>1. p[1] \in T /\ p[2] \in Nat /\ p[2] > 0 /\ p[2] <= N
    BY <1>1, <1>6
  <2> QED BY <1>5, <2>1
<1>7. ASSUME NEW run, IsLoop(run, T, N, step) PROVE Is(run)
  <2>1. run = [p \in T \X K |->
                 IF p[2] > N THEN p[1] ELSE run[<<step[<<p[1], p[2]>>], p[2] + 1>>]]
    BY <1>7 DEF IsLoop
  <2> HIDE DEF K
  <2> QED BY <1>6, <2>1
<1>8. ASSUME NEW run, Is(run) PROVE IsLoop(run, T, N, step)
  <2>1. run = [p \in T \X K |->
                 IF p[2] > N THEN p[1] ELSE run[<<step[<<p[1], p[2]>>], p[2] + 1>>]]
    <3>1. run = [p \in T \X K |->
                   IF p[2] > N THEN p[1] ELSE run[<<Turned(p[1], p[2]), p[2] + 1>>]]
      BY <1>8
    <3> HIDE DEF K
    <3> QED BY <1>6, <3>1
  <2> QED BY <2>1 DEF IsLoop
<1>9. Is(chosen)
  <2>1. \E run : IsLoop(run, T, N, step)
    BY <1>1, <1>5, LoopExists
  <2>2. PICK run : IsLoop(run, T, N, step)
    BY <2>1
  <2>3. Is(run)
    BY <1>7, <2>2
  <2> HIDE DEF Is
  <2> QED BY <2>3, Zenon
<1> HIDE DEF chosen
<1>10. IsLoop(chosen, T, N, step)
  <2> HIDE DEF Is
  <2> QED BY <1>8, <1>9
<1>11. EndsIn(chosen[<<first, 1>>], T, first, N, step)
  <2> HIDE DEF Is, K
  <2> QED BY <1>1, <1>2, <1>5, <1>10, LoopTurns
<1>12. PICK g : Advances(g, T, first, step) /\ chosen[<<first, 1>>] = g[N]
  BY <1>11, Zenon DEF EndsIn
<1>13. /\ g \in [Nat -> T] /\ g[0] = first
       /\ \A i \in Nat : g[i + 1] = step[<<g[i], i + 1>>]
  BY <1>12 DEF Advances
<1>14. ASSUME NEW i \in Nat, i < N PROVE g[i + 1] = Turned(g[i], i + 1)
  <2>1. i + 1 \in Nat /\ i + 1 > 0 /\ i + 1 <= N /\ g[i] \in T
    BY <1>1, <1>13, <1>14
  <2> QED BY <1>5, <1>13, <2>1
<1>15. CarRuns(g, o)
  BY <1>13, <1>14, Zenon DEF CarRuns, Turned, T, N, first
<1>16. car25519(o) = g[N]
  BY <1>4, <1>12, Zenon
<1> QED BY <1>15, <1>16, Zenon DEF CarRunsTo, N

(* Carrying once takes a multiple of CAP away, and adds it to the lowest   *)
(* limb 38 times.                                                          *)
WorthOf(a) == Worth(a, RADIX, LIMBS)

IsCarried(out, o, e, c) ==
  /\ AreDigits(e, RADIX, LIMBS) /\ c \in Int
  /\ WorthOf(o) = WorthOf(e) + c * CAP
  /\ \A i \in 1..LIMBS : out[i] = IF i = 1 THEN e[i] + 38 * c ELSE e[i]

LEMMA CarFacts ==
  ASSUME FieldAssumption, NEW o \in gf
  PROVE  car25519(o) \in gf /\ \E e, c : IsCarried(car25519(o), o, e, c)
<1> DEFINE n == LIMBS
           w == RADIX
<1>1. n \in Nat /\ n > 1 /\ w \in Nat /\ w > 0 /\ CAP = PowersOf(w)[n]
  BY FieldSizes DEF CAP
<1>2. PICK g : CarRuns(g, o) /\ car25519(o) = g[n]
  BY CarLoopRuns, Zenon DEF CarRunsTo
<1>3. /\ g \in [Nat -> gf] /\ g[0] = o
      /\ \A i \in Nat : i < n => g[i + 1] = Carry(g[i], i + 1)
  BY <1>2 DEF CarRuns
<1>4. \A k \in Nat : g[k] \in [1..n -> Int]
  BY <1>3 DEF gf
<1> DEFINE u == [j \in 1..n |-> g[j - 1][j]]
           Is(k) == \A i \in 1..n :
                      g[k][i] = IF i <= k THEN u[i] % w
                                ELSE IF i = k + 1 THEN u[i] ELSE o[i]
           B == {k \in Nat : k < n => Is(k)}
<1>5. ASSUME NEW k \in Nat, k + 1 < n, NEW i \in 1..n
      PROVE  g[k + 1][i] = IF i = k + 1 THEN g[k][i] % w
                           ELSE IF i = k + 2 THEN g[k][i] + (g[k][k + 1] \div w)
                           ELSE g[k][i]
  <2> DEFINE j == k + 1
             h == g[k]
             c == h[j] \div w
  <2>1. g[k + 1] = Carry(h, j) /\ h \in [1..n -> Int] /\ j < n /\ j \in 1..n /\ j + 1 \in 1..n
        /\ j + 1 = k + 2 /\ j # j + 1
    BY <1>1, <1>3, <1>4, <1>5
  <2>2. Carry(h, j) = [h EXCEPT ![j] = h[j] % w, ![j + 1] = h[j + 1] + c]
    BY <2>1 DEF Carry
  <2> HIDE DEF h, c, j, n
  <2>3. Carry(h, j)[i] = IF i = j THEN h[i] % w ELSE IF i = j + 1 THEN h[i] + c ELSE h[i]
    BY <2>1, <2>2
  <2>4. g[k + 1][i] = IF i = j THEN h[i] % w ELSE IF i = k + 2 THEN h[i] + c ELSE h[i]
    BY <2>1, <2>3, Zenon
  <2> QED BY <2>4, Zenon DEF h, c, j
<1>6. \A j \in 1..n : u[j] = g[j - 1][j]
  OBVIOUS
<1>7. 0 \in B
  <2>1. u[1] = g[0][1]
    <3>1. 1 \in 1..n /\ 1 - 1 = 0
      BY <1>1
    <3> HIDE DEF u
    <3> QED BY <1>6, <3>1
  <2> HIDE DEF u
  <2>2. Is(0)
    BY <1>1, <1>3, <2>1
  <2> HIDE DEF Is
  <2> QED BY <2>2
<1> HIDE DEF u
<1>8. ASSUME NEW k \in Nat, k + 1 < n, Is(k) PROVE Is(k + 1)
  <2>1. ASSUME NEW i \in 1..n
        PROVE  g[k + 1][i] = IF i <= k + 1 THEN u[i] % w
                             ELSE IF i = (k + 1) + 1 THEN u[i] ELSE o[i]
    <3>1. g[k][i] = IF i <= k THEN u[i] % w ELSE IF i = k + 1 THEN u[i] ELSE o[i]
      BY <1>8
    <3>2. g[k + 1][i] = IF i = k + 1 THEN g[k][i] % w
                        ELSE IF i = k + 2 THEN g[k][i] + (g[k][k + 1] \div w)
                        ELSE g[k][i]
      BY <1>5, <1>8, Zenon
    <3>3. i = k + 2 => u[i] = g[k + 1][i]
      <4>1. i = k + 2 => i - 1 = k + 1
        OBVIOUS
      <4> QED BY <1>6, <4>1
    <3> HIDE DEF Is, n, w
    <3>4. CASE i <= k
      <4>1. i # k + 1 /\ i # k + 2 /\ i <= k + 1
        BY <1>1, <3>4
      <4> QED BY <3>1, <3>2, <3>4, <4>1
    <3>5. CASE i = k + 1
      <4>1. ~(i <= k) /\ i <= k + 1
        BY <3>5
      <4> QED BY <3>1, <3>2, <3>5, <4>1
    <3>6. CASE i = k + 2
      <4>1. ~(i <= k + 1) /\ i = (k + 1) + 1
        BY <3>6
      <4> QED BY <3>3, <3>6, <4>1
    <3>7. CASE i > k + 2
      <4>1. ~(i <= k) /\ i # k + 1 /\ i # k + 2 /\ ~(i <= k + 1) /\ i # (k + 1) + 1
        BY <1>1, <3>7
      <4> QED BY <3>1, <3>2, <4>1
    <3>8. i <= k \/ i = k + 1 \/ i = k + 2 \/ i > k + 2
      BY <1>1 DEF n
    <3> QED BY <3>4, <3>5, <3>6, <3>7, <3>8
  <2> QED BY <2>1
<1>9. Nat \subseteq B
  <2>1. ASSUME NEW k \in Nat, k \in B PROVE k + 1 \in B
    <3> HIDE DEF Is, n
    <3> QED BY <1>1, <1>8, <2>1
  <2> HIDE DEF B
  <2> QED BY <1>7, <2>1, SetInduction
<1>10. \A k \in Nat : k < n => Is(k)
  <2> HIDE DEF Is
  <2> QED BY <1>9
<1>11. IsCarry(u, o, 0, w, n)
  <2>1. ASSUME NEW j \in 1..n PROVE u[j] = o[j] + (IF j = 1 THEN 0 ELSE u[j - 1] \div w)
    <3>0. o[j] \in Int
      BY DEF gf
    <3>1. CASE j = 1
      <4>1. j - 1 = 0
        BY <3>1
      <4>2. u[j] = o[j]
        BY <1>3, <1>6, <4>1
      <4> QED BY <3>0, <3>1, <4>2
    <3>2. CASE j # 1
      <4> DEFINE k == j - 2
      <4>1. /\ k \in Nat /\ k + 1 < n /\ k < n /\ k + 1 = j - 1 /\ j = k + 2 /\ j # k + 1
            /\ j - 1 \in 1..n /\ ~(j <= k) /\ ~(k + 1 <= k)
        BY <1>1, <3>2
      <4>2. Is(k)
        <5> HIDE DEF Is, k
        <5> QED BY <1>10, <4>1
      <4>3. g[k][j] = o[j]
        BY <4>1, <4>2
      <4>4. g[k][j - 1] = u[j - 1]
        BY <4>1, <4>2
      <4>5. u[j] = g[k + 1][j]
        BY <1>6, <4>1
      <4> HIDE DEF k, n, w, Is
      <4>6. g[k + 1][j] = g[k][j] + (g[k][k + 1] \div w)
        BY <1>5, <4>1
      <4> QED BY <3>2, <4>1, <4>3, <4>4, <4>5, <4>6
    <3> QED BY <3>1, <3>2
  <2> QED BY <2>1, Zenon DEF IsCarry
<1> DEFINE e == [i \in 1..n |-> u[i] % w]
           c == u[n] \div w
           out == g[n]
<1>12. AreRemainders(e, u, w, n)
  BY DEF AreRemainders
<1>13. IsInts(o, n)
  BY DEF gf, IsInts
<1>14. \A i \in 1..n : e[i] = u[i] % w
  OBVIOUS
<1> HIDE DEF e
<1>15. AreDigits(e, w, n) /\ c \in Int /\ Worth(e, w, n) + c * PowersOf(w)[n] = Worth(o, w, n) + 0
  <2> HIDE DEF w, n
  <2>1. n > 0 /\ 0 \in Int
    BY <1>1
  <2> QED BY <1>1, <1>11, <1>12, <1>13, <2>1, CarriedWorth
<1>16. WorthOf(o) = WorthOf(e) + c * CAP
  <2>1. Worth(o, w, n) \in Int
    <3> HIDE DEF w, n
    <3> QED BY <1>1, <1>13, WorthIsInt
  <2> QED BY <1>1, <1>15, <2>1 DEF WorthOf
<1>17. ASSUME NEW i \in 1..n PROVE out[i] = IF i = 1 THEN e[i] + 38 * c ELSE e[i]
  <2> DEFINE k == n - 1
             h == g[k]
  <2>1. k \in Nat /\ k < n /\ k + 1 = n /\ n # 1 /\ 1 \in 1..n /\ n \in 1..n
    BY <1>1
  <2>2. out = Carry(h, n) /\ h \in [1..n -> Int]
    BY <1>3, <1>4, <2>1
  <2>3. Is(k)
    <3> HIDE DEF Is, k
    <3> QED BY <1>10, <2>1
  <2>4. h[n] = u[n]
    <3>1. ~(n <= k)
      BY <2>1
    <3> QED BY <2>1, <2>3, <3>1
  <2>5. Carry(h, n) = [h EXCEPT ![n] = h[n] % w, ![1] = h[1] + 38 * c]
    <3>1. Carry(h, n) = [h EXCEPT ![n] = h[n] % w, ![1] = h[1] + 38 * (h[n] \div w)]
      BY <1>1, <2>1, <2>2 DEF Carry
    <3> QED BY <2>4, <3>1
  <2>6. i # n => h[i] = e[i]
    <3>1. i # n => i <= k
      BY <1>1
    <3> QED BY <1>14, <2>3, <3>1
  <2>7. h[n] % w = e[n]
    BY <1>14, <2>1, <2>4
  <2> HIDE DEF h, k, n, Is
  <2>8. CASE i = n
    <3>1. Carry(h, n)[i] = e[i]
      BY <2>1, <2>2, <2>5, <2>7, <2>8
    <3> QED BY <2>1, <2>2, <2>8, <3>1
  <2>9. CASE i = 1
    <3>1. Carry(h, n)[i] = h[i] + 38 * c
      BY <2>1, <2>2, <2>5, <2>9
    <3> QED BY <2>1, <2>2, <2>6, <2>9, <3>1
  <2>10. CASE i # n /\ i # 1
    <3>1. Carry(h, n)[i] = h[i]
      BY <2>1, <2>2, <2>5, <2>10
    <3> QED BY <2>2, <2>6, <2>10, <3>1
  <2> QED BY <2>8, <2>9, <2>10
<1>18. IsCarried(out, o, e, c)
  BY <1>15, <1>16, <1>17, Zenon DEF IsCarried
<1>19. out \in gf
  BY <1>1, <1>3
<1> QED BY <1>2, <1>18, <1>19, Zenon

(* One limb.                                                               *)
LEMMA UnitWorth ==
  ASSUME FieldAssumption
  PROVE  LET one == [i \in 1..LIMBS |-> IF i = 1 THEN 1 ELSE 0]
         IN  IsInts(one, LIMBS) /\ WorthOf(one) = 1
<1> DEFINE n == LIMBS
           w == RADIX
           one == [i \in 1..n |-> IF i = 1 THEN 1 ELSE 0]
<1>1. n \in Nat /\ n > 1 /\ w \in Nat /\ w > 0
  BY FieldSizes
<1>2. \A i \in 1..n : one[i] = IF i = 1 THEN 1 ELSE 0
  OBVIOUS
<1> HIDE DEF one, n, w
<1>3. IsInts(one, n)
  BY <1>2 DEF IsInts
<1>4. Worth(one, w, n) = Worth(one, w, 1)
  <2>1. 1 \in 0..n /\ \A k \in (1 + 1)..n : one[k] = 0
    BY <1>1, <1>2
  <2> QED BY <1>1, <1>3, <2>1, WorthZeros
<1>5. Worth(one, w, 0 + 1) = Worth(one, w, 0) + one[0 + 1] * PowersOf(w)[0]
  <2>1. 0 \in Nat /\ 0 < n
    BY <1>1
  <2> QED BY <1>1, <1>3, <2>1, WorthStep
<1>6. Worth(one, w, 0) = 0 /\ PowersOf(w)[0] = 1 /\ one[1] = 1
  BY <1>1, <1>2, WorthZero, PowersFacts
<1>7. Worth(one, w, n) = 1
  BY <1>4, <1>5, <1>6
<1> QED BY <1>3, <1>7 DEF WorthOf, one, n, w

(* What is carried is the same number modulo the prime.                    *)
LEMMA CarriedFacts ==
  ASSUME FieldAssumption, NEW o \in gf, NEW out \in gf, NEW e, NEW c, IsCarried(out, o, e, c)
  PROVE  /\ c \in Int /\ WorthOf(e) \in 0..(CAP - 1) /\ WorthOf(o) = WorthOf(e) + c * CAP
         /\ WorthOf(o) \in Int /\ WorthOf(out) \in Int /\ WorthOf(out) = WorthOf(e) + 38 * c
         /\ Congruent(WorthOf(out), WorthOf(o), P)
<1> DEFINE n == LIMBS
           w == RADIX
           one == [i \in 1..n |-> IF i = 1 THEN 1 ELSE 0]
           d == 38 * c
<1>1. n \in Nat /\ n > 1 /\ w \in Nat /\ w > 0 /\ CAP = PowersOf(w)[n] /\ CAP = 2 * P + 38
      /\ P \in Nat /\ CAP \in Nat
  BY FieldSizes DEF CAP
<1>2. /\ AreDigits(e, w, n) /\ c \in Int
      /\ WorthOf(o) = WorthOf(e) + c * CAP
      /\ \A i \in 1..n : out[i] = IF i = 1 THEN e[i] + d ELSE e[i]
  BY DEF IsCarried
<1>3. WorthOf(e) \in 0..(CAP - 1)
  <2>1. Worth(e, w, n) \in Nat /\ Worth(e, w, n) < PowersOf(w)[n]
    <3> HIDE DEF n, w
    <3> QED BY <1>1, <1>2, WorthBound
  <2> QED BY <1>1, <2>1 DEF WorthOf
<1>4. IsInts(one, n) /\ Worth(one, w, n) = 1
  BY UnitWorth DEF WorthOf
<1>5. d \in Int
  BY <1>2
<1>6. IsAdded(out, e, d, one, n)
  <2>1. ASSUME NEW i \in 1..n PROVE out[i] = e[i] + d * one[i]
    <3>1. out[i] = IF i = 1 THEN e[i] + d ELSE e[i]
      BY <1>2
    <3>2. e[i] \in Int
      BY <1>1, <1>2 DEF AreDigits
    <3>3. one[i] = IF i = 1 THEN 1 ELSE 0
      OBVIOUS
    <3> HIDE DEF d, one
    <3>4. d * 1 = d /\ d * 0 = 0 /\ e[i] + 0 = e[i]
      BY <1>5, <3>2
    <3> QED BY <3>1, <3>3, <3>4
  <2> HIDE DEF d, one, n
  <2> QED BY <2>1 DEF IsAdded
<1>7. Worth(out, w, n) = Worth(e, w, n) + d * 1
  <2>1. IsInts(e, n)
    <3> HIDE DEF n, w
    <3> QED BY <1>1, <1>2, DigitsAreInts
  <2> HIDE DEF d, one, n, w
  <2> QED BY <1>1, <1>4, <1>5, <1>6, <2>1, WorthPlus
<1> DEFINE x == WorthOf(e)
           y == WorthOf(o)
           z == WorthOf(out)
<1>8. z = x + d * 1
  BY <1>7 DEF WorthOf
<1>9. x \in Int /\ y = x + c * CAP
  BY <1>2, <1>3
<1> HIDE DEF x, y, z, n, w
<1>10. y \in Int /\ z \in Int /\ z = x + 38 * c
  BY <1>1, <1>2, <1>8, <1>9
<1>11. z = y + (-2 * c) * P
  <2>1. c * CAP = (2 * c) * P + 38 * c /\ (2 * c) * P \in Int
    BY <1>1, <1>2
  <2> QED BY <1>1, <1>2, <1>9, <1>10, <2>1
<1>12. Congruent(z, y, P)
  <2>1. -2 * c \in Int
    BY <1>2
  <2> QED BY <1>11, <2>1, Zenon DEF Congruent
<1> QED BY <1>2, <1>3, <1>10, <1>12 DEF x, y, z

(* How much is carried. *)
LEMMA QuotientBetween ==
  ASSUME NEW q \in Nat, q > 0, NEW r \in 0..(q - 1), NEW c \in Int, NEW K \in Nat,
         NEW x, x = r + c * q, -(K * (q - 1)) <= x, x <= K * (q - 1)
  PROVE  -K <= c /\ c <= K
<1>0. K * (q - 1) = K * q - K /\ K * q \in Nat /\ c * q \in Int
  OBVIOUS
<1>1. ASSUME c >= K + 1 PROVE FALSE
  <2>1. (c - K - 1) * q \in Nat /\ (c - K - 1) * q = c * q - K * q - q
    BY <1>1
  <2> QED BY <1>0, <2>1
<1>2. ASSUME c <= -K - 1 PROVE FALSE
  <2>1. (-K - 1 - c) * q \in Nat /\ (-K - 1 - c) * q = -(K * q) - q - c * q
    BY <1>2
  <2> QED BY <1>0, <2>1
<1> QED BY <1>1, <1>2

-----------------------------------------------------------------------------
(* Carrying twice and three times. *)

Modest(a) == a \in gf /\ AreWithin(a, LIMIT, LIMBS)
Tight(a) ==
  /\ a \in gf /\ -38 <= a[1] /\ a[1] <= RADIX + 37
  /\ \A i \in 2..LIMBS : a[i] \in 0..(RADIX - 1)

(* Carrying twice leaves limbs that are digits but for the first, which is *)
(* hardly more, and a number that is not negative and that CAP is above.   *)
LEMMA TwoCarries ==
  ASSUME FieldAssumption, NEW a, Modest(a)
  PROVE  LET o == car25519(car25519(a))
         IN  /\ Tight(o) /\ WorthOf(o) \in 0..(CAP - 1) /\ WorthOf(a) \in Int
             /\ Congruent(WorthOf(o), WorthOf(a), P)
<1> DEFINE o == car25519(car25519(a))
           b == car25519(a)
           n == LIMBS
           w == RADIX
           K == SLACK
<1>1. /\ n \in Nat /\ n > 1 /\ w \in Nat /\ w >= 256 /\ CAP \in Nat /\ CAP >= 65536
      /\ CAP = PowersOf(w)[n] /\ K \in Nat /\ 38 * K + 38 <= CAP /\ LIMIT = (w - 1) * K /\ P \in Nat
  BY FieldSizes DEF CAP
<1>2. a \in gf /\ AreWithin(a, LIMIT, n)
  BY DEF Modest
<1>3. b \in gf /\ \E e, c : IsCarried(b, a, e, c)
  BY <1>2, CarFacts
<1>4. PICK e, c : IsCarried(b, a, e, c)
  BY <1>3
<1>5. o = car25519(b)
  OBVIOUS
<1>6. o \in gf /\ \E f, d : IsCarried(o, b, f, d)
  <2> HIDE DEF b, o
  <2> QED BY <1>3, <1>5, CarFacts
<1>7. PICK f, d : IsCarried(o, b, f, d)
  BY <1>6
<1> HIDE DEF o, b
<1> DEFINE x == WorthOf(a)
           y == WorthOf(b)
           z == WorthOf(o)
           r == WorthOf(e)
           s == WorthOf(f)
<1>8. /\ c \in Int /\ r \in 0..(CAP - 1) /\ x = r + c * CAP /\ x \in Int /\ y \in Int
      /\ y = r + 38 * c /\ Congruent(y, x, P)
  BY <1>2, <1>3, <1>4, CarriedFacts
<1>9. /\ d \in Int /\ s \in 0..(CAP - 1) /\ y = s + d * CAP /\ z \in Int
      /\ z = s + 38 * d /\ Congruent(z, y, P)
  BY <1>3, <1>6, <1>7, CarriedFacts
<1>10. -(K * (CAP - 1)) <= x /\ x <= K * (CAP - 1)
  <2>1. AreWithin(a, (w - 1) * K, n)
    BY <1>1, <1>2
  <2> HIDE DEF w, n, K
  <2>2. /\ -(K * (PowersOf(w)[n] - 1)) <= Worth(a, w, n)
        /\ Worth(a, w, n) <= K * (PowersOf(w)[n] - 1)
    <3>1. w \in Nat /\ w > 0 /\ n \in Nat /\ K \in Nat
      BY <1>1
    <3> QED BY <2>1, <3>1, WorthLimits, Zenon
  <2> QED BY <1>1, <2>2 DEF WorthOf, n, w
<1> HIDE DEF x, y, z, r, s, w, n, K
<1>11. -K <= c /\ c <= K
  <2>1. CAP > 0
    BY <1>1
  <2> QED BY <1>1, <1>8, <1>10, <2>1, QuotientBetween
<1>12. -(38 * K) <= y /\ y <= CAP - 1 + 38 * K
  BY <1>1, <1>8, <1>11
<1>13. d = -1 \/ d = 0 \/ d = 1
  <2>1. ASSUME d >= 2 PROVE FALSE
    <3>1. (d - 2) * CAP \in Nat /\ (d - 2) * CAP = d * CAP - 2 * CAP
      BY <1>1, <1>9, <2>1
    <3> QED BY <1>1, <1>9, <1>12, <3>1
  <2>2. ASSUME d <= -2 PROVE FALSE
    <3>1. (-2 - d) * CAP \in Nat /\ (-2 - d) * CAP = -2 * CAP - d * CAP
      BY <1>1, <1>9, <2>2
    <3> QED BY <1>1, <1>9, <1>12, <3>1
  <2> QED BY <1>9, <2>1, <2>2
<1>14. z \in 0..(CAP - 1)
  <2>1. CASE d = 0
    BY <1>9, <2>1
  <2>2. CASE d = 1
    <3>1. s = y - CAP /\ z = s + 38
      BY <1>1, <1>8, <1>9, <2>2
    <3> QED BY <1>1, <1>8, <1>9, <1>12, <3>1
  <2>3. CASE d = -1
    <3>1. s = y + CAP /\ z = s - 38
      BY <1>1, <1>8, <1>9, <2>3
    <3> QED BY <1>1, <1>8, <1>9, <1>12, <3>1
  <2> QED BY <1>13, <2>1, <2>2, <2>3
<1>15. Congruent(z, x, P)
  BY <1>1, <1>8, <1>9, CongruentTrans
<1>16. Tight(o)
  <2>1. /\ AreDigits(f, w, n)
        /\ \A i \in 1..n : o[i] = IF i = 1 THEN f[i] + 38 * d ELSE f[i]
    BY <1>7 DEF IsCarried, w, n
  <2>2. \A i \in 1..n : f[i] \in 0..(w - 1)
    BY <2>1 DEF AreDigits
  <2>3. 1 \in 1..n /\ 2..n \subseteq 1..n
    BY <1>1
  <2>4. -38 <= o[1] /\ o[1] <= w + 37
    <3>1. o[1] = f[1] + 38 * d /\ f[1] \in 0..(w - 1)
      BY <2>1, <2>2, <2>3
    <3> QED BY <1>1, <1>13, <3>1
  <2>5. \A i \in 2..n : o[i] \in 0..(w - 1)
    <3>1. ASSUME NEW i \in 2..n PROVE o[i] \in 0..(w - 1)
      <4>1. i \in 1..n /\ i # 1
        BY <1>1, <2>3
      <4> QED BY <2>1, <2>2, <4>1
    <3> QED BY <3>1
  <2> QED BY <1>6, <2>4, <2>5 DEF Tight, w, n
<1> QED BY <1>8, <1>14, <1>15, <1>16 DEF o, b, z, x

(* Carrying such a number once more leaves its digits.                     *)
LEMMA ThirdCarry ==
  ASSUME FieldAssumption, NEW o \in gf, WorthOf(o) \in 0..(CAP - 1)
  PROVE  /\ car25519(o) \in gf /\ AreDigits(car25519(o), RADIX, LIMBS)
         /\ WorthOf(car25519(o)) = WorthOf(o)
<1> DEFINE t == car25519(o)
           n == LIMBS
           w == RADIX
<1>1. n \in Nat /\ w \in Nat /\ CAP \in Nat
  BY FieldSizes
<1>2. t \in gf /\ \E e, c : IsCarried(t, o, e, c)
  BY CarFacts
<1>3. PICK e, c : IsCarried(t, o, e, c)
  BY <1>2
<1> HIDE DEF t
<1> DEFINE x == WorthOf(o)
           r == WorthOf(e)
<1>4. /\ c \in Int /\ r \in 0..(CAP - 1) /\ x = r + c * CAP /\ WorthOf(t) = r + 38 * c
  BY <1>2, <1>3, CarriedFacts
<1> HIDE DEF x, r
<1>5. c = 0
  <2>0. x \in 0..(CAP - 1)
    BY DEF x
  <2>1. ASSUME c >= 1 PROVE FALSE
    <3>1. (c - 1) * CAP \in Nat /\ (c - 1) * CAP = c * CAP - CAP
      BY <1>1, <1>4, <2>1
    <3> QED BY <1>1, <1>4, <2>0, <3>1
  <2>2. ASSUME c <= -1 PROVE FALSE
    <3>1. (-1 - c) * CAP \in Nat /\ (-1 - c) * CAP = -CAP - c * CAP
      BY <1>1, <1>4, <2>2
    <3> QED BY <1>1, <1>4, <2>0, <3>1
  <2> QED BY <1>4, <2>1, <2>2
<1>6. WorthOf(t) = x
  BY <1>1, <1>4, <1>5
<1>7. AreDigits(t, w, n)
  <2>1. /\ AreDigits(e, w, n)
        /\ \A i \in 1..n : t[i] = IF i = 1 THEN e[i] + 38 * c ELSE e[i]
    BY <1>3 DEF IsCarried
  <2>2. ASSUME NEW i \in 1..n PROVE t[i] \in 0..(w - 1)
    <3>1. e[i] \in 0..(w - 1)
      BY <2>1 DEF AreDigits
    <3>2. t[i] = IF i = 1 THEN e[i] + 38 * c ELSE e[i]
      BY <2>1
    <3> HIDE DEF w, n
    <3> QED BY <1>1, <1>5, <3>1, <3>2
  <2> QED BY <2>2 DEF AreDigits
<1> QED BY <1>2, <1>6, <1>7 DEF t, x

-----------------------------------------------------------------------------
(* Subtracting the prime. *)

(* The limbs of the prime.                                                 *)
Least == [i \in 1..LIMBS |-> IF i = 1 THEN RADIX - 19
                             ELSE IF i = LIMBS THEN TOP - 1 ELSE RADIX - 1]

LEMMA LeastFacts ==
  ASSUME FieldAssumption
  PROVE  /\ \A i \in 1..LIMBS : Least[i] \in 0..(RADIX - 1)
         /\ IsInts(Least, LIMBS) /\ WorthOf(Least) = P
<1> DEFINE n == LIMBS
           w == RADIX
           p == PowersOf(w)
           B == {k \in Nat : k >= 1 /\ k < n => Worth(Least, w, k) = p[k] - 19}
<1>1. /\ n \in Nat /\ n > 1 /\ w \in Nat /\ w >= 256 /\ w = 2 * TOP /\ TOP \in Nat
      /\ CAP = p[n] /\ CAP = w * p[n - 1] /\ CAP = 2 * P + 38 /\ P \in Nat
  BY FieldSizes DEF CAP
<1>2. \A i \in 1..n : Least[i] = IF i = 1 THEN w - 19
                                 ELSE IF i = n THEN TOP - 1 ELSE w - 1
  BY DEF Least
<1> HIDE DEF n, w
<1>3. \A i \in 1..n : Least[i] \in 0..(w - 1)
  BY <1>1, <1>2
<1>4. IsInts(Least, n)
  BY <1>1, <1>3 DEF IsInts
<1>0. w \in Nat /\ w > 0
  BY <1>1
<1>5. \A k \in Nat : p[k] \in Nat /\ p[k + 1] = w * p[k]
  BY <1>0, PowersFacts
<1>6. p[0] = 1
  BY <1>0, PowersFacts
<1>7. ASSUME NEW k \in Nat, k < n
      PROVE  Worth(Least, w, k) \in Int
             /\ Worth(Least, w, k + 1) = Worth(Least, w, k) + Least[k + 1] * p[k]
  BY <1>1, <1>4, <1>7, WorthStep
<1> HIDE DEF p
<1>8. 0 \in B
  BY <1>1
<1>9. ASSUME NEW k \in Nat, k \in B PROVE k + 1 \in B
  <2>1. CASE k = 0
    <3>1. Worth(Least, w, 0) = 0
      BY WorthZero
    <3>2. Worth(Least, w, 0 + 1) = 0 + Least[0 + 1] * p[0]
      BY <1>1, <1>7, <3>1
    <3>3. Least[1] = w - 19
      BY <1>1, <1>2
    <3>4. p[0 + 1] = w * 1
      BY <1>5, <1>6
    <3>5. Worth(Least, w, k + 1) = p[k + 1] - 19
      BY <1>1, <1>6, <2>1, <3>2, <3>3, <3>4
    <3> QED BY <3>5
  <2>2. CASE k >= 1 /\ k + 1 < n
    <3> DEFINE x == p[k]
               y == p[k + 1]
    <3>1. Worth(Least, w, k) = x - 19 /\ k < n
      BY <1>1, <1>9, <2>2
    <3>2. Least[k + 1] = w - 1
      BY <1>1, <1>2, <2>2
    <3>3. Worth(Least, w, k + 1) = (x - 19) + (w - 1) * x
      BY <1>7, <3>1, <3>2
    <3>4. x \in Nat /\ y = w * x
      BY <1>5
    <3> HIDE DEF x, y
    <3>5. (w - 1) * x = y - x /\ y \in Int
      BY <1>1, <3>4
    <3>6. Worth(Least, w, k + 1) = y - 19
      BY <3>3, <3>4, <3>5
    <3> QED BY <3>6 DEF y
  <2>3. CASE ~(k + 1 < n)
    BY <2>3
  <2> QED BY <1>1, <2>1, <2>2, <2>3
<1> HIDE DEF B
<1>10. Nat \subseteq B
  BY <1>8, <1>9, SetInduction
<1>11. WorthOf(Least) = P
  <2> DEFINE k == n - 1
             x == p[k]
             h == TOP
  <2>1. k \in Nat /\ k >= 1 /\ k < n /\ k + 1 = n /\ n \in 1..n /\ n # 1
    BY <1>1
  <2>2. Worth(Least, w, k) = x - 19
    <3> HIDE DEF k
    <3> QED BY <1>10, <2>1 DEF B
  <2>3. Least[n] = h - 1
    BY <1>2, <2>1
  <2>4. Worth(Least, w, n) = Worth(Least, w, k) + Least[n] * x
    <3> HIDE DEF k
    <3> QED BY <1>7, <2>1
  <2>5. x \in Nat /\ CAP = w * x
    <3> HIDE DEF k
    <3>1. x \in Nat
      BY <1>5, <2>1
    <3> QED BY <1>1, <3>1 DEF k
  <2> HIDE DEF x, k, h
  <2>6. w = 2 * h /\ h \in Nat
    BY <1>1 DEF h
  <2>7. (h - 1) * x = h * x - x /\ w * x = 2 * (h * x) /\ h * x \in Nat
    BY <2>5, <2>6
  <2>8. Worth(Least, w, n) = P
    BY <1>1, <2>2, <2>3, <2>4, <2>5, <2>7
  <2> QED BY <2>8 DEF WorthOf, n, w
<1> QED BY <1>3, <1>4, <1>11 DEF n, w

(* What a borrow is.                                                       *)
BorrowOf(limb) == (limb \div RADIX) % 2

LEMMA BorrowFacts ==
  ASSUME FieldAssumption
  PROVE  /\ \A x \in Int : BorrowOf(x) \in {0, 1}
         /\ \A x \in Int : -RADIX <= x /\ x < 0 =>
              x \div RADIX = -1 /\ BorrowOf(x) = 1
         /\ \A x \in Int : 0 <= x /\ x < RADIX =>
              x \div RADIX = 0 /\ BorrowOf(x) = 0 /\ x % RADIX = x
<1> DEFINE w == RADIX
<1>1. w \in Nat /\ w > 0
  BY FieldSizes
<1> HIDE DEF w
<1>2. \A y \in Int : y % 2 \in {0, 1}
  OBVIOUS
<1>3. (-1) % 2 = 1 /\ 0 % 2 = 0
  <2>1. 1 \in 0..(2 - 1) /\ (-1) * 2 + 1 = -1 /\ -1 \in Int /\ 2 \in Nat /\ 2 > 0
    OBVIOUS
  <2>2. ((-1) * 2 + 1) % 2 = 1
    BY <2>1, IntDivisionUnique
  <2> QED BY <2>1, <2>2
<1>4. \A x \in Int : BorrowOf(x) = (x \div w) % 2
  BY DEF BorrowOf, w
<1>5. \A x \in Int : x \div w \in Int
  BY <1>1
<1>6. ASSUME NEW x \in Int, -w <= x, x < 0 PROVE x \div w = -1 /\ BorrowOf(x) = 1
  <2> DEFINE r == x + w
  <2>1. r \in 0..(w - 1) /\ x = (-1) * w + r /\ -1 \in Int
    BY <1>1, <1>6
  <2> HIDE DEF r
  <2>2. x \div w = -1
    BY <1>1, <2>1, IntDivisionUnique
  <2> QED BY <1>3, <1>4, <2>2
<1>7. ASSUME NEW x \in Int, 0 <= x, x < w PROVE x \div w = 0 /\ BorrowOf(x) = 0 /\ x % w = x
  <2>1. x \in 0..(w - 1) /\ x = 0 * w + x
    BY <1>1, <1>7
  <2>2. x \div w = 0 /\ x % w = x
    BY <1>1, <2>1, IntDivisionUnique
  <2> QED BY <1>3, <1>4, <2>2
<1>8. \A x \in Int : BorrowOf(x) \in {0, 1}
  BY <1>2, <1>4, <1>5
<1> QED BY <1>6, <1>7, <1>8 DEF w

(* The differences, from the lowest limb up, exist.                        *)
IsBorrowed(m, t) ==
  m = [i \in 1..LIMBS |->
         t[i] - Least[i] - (IF i = 1 THEN 0 ELSE BorrowOf(m[i - 1]))]

LEMMA BorrowedExists ==
  ASSUME FieldAssumption, NEW t \in gf
  PROVE  \E m : IsBorrowed(m, t)
<1> DEFINE n == LIMBS
           At(k) == IF k < n THEN t[k + 1] - Least[k + 1] ELSE 0
           step == [p \in Int \X Nat |-> At(p[2]) - BorrowOf(p[1])]
<1>1. n \in Nat
  BY FieldSizes
<1>2. \A i \in 1..n : t[i] \in Int /\ Least[i] \in Int
  BY LeastFacts DEF gf, IsInts
<1>3. \A k \in Nat : At(k) \in Int
  <2> HIDE DEF n
  <2> QED BY <1>1, <1>2
<1>4. /\ step \in [Int \X Nat -> Int]
      /\ \A x \in Int : \A k \in Nat : step[<<x, k>>] = At(k) - BorrowOf(x)
  <2> HIDE DEF At
  <2> QED BY <1>3, BorrowFacts
<1> HIDE DEF step
<1>5. PICK f : UnrollsTo(f, n, Int, 0, step)
  <2>1. 0 \in Int
    OBVIOUS
  <2> HIDE DEF n
  <2> QED BY <1>1, <1>4, <2>1, RecursionTo
<1>6. f \in [0..n -> Int]
      /\ f = [k \in 0..n |-> IF k = 0 THEN 0 ELSE step[<<f[k - 1], k - 1>>]]
  BY <1>5 DEF UnrollsTo
<1>7. \A k \in 0..n : f[k] = IF k = 0 THEN 0 ELSE step[<<f[k - 1], k - 1>>]
  BY <1>6, Zenon
<1> DEFINE m == [i \in 1..n |-> f[i]]
<1>8. ASSUME NEW i \in 1..n
      PROVE  m[i] = t[i] - Least[i] - (IF i = 1 THEN 0 ELSE BorrowOf(m[i - 1]))
  <2> HIDE DEF n
  <2>1. i \in 0..n /\ i # 0 /\ i - 1 \in 0..n /\ i - 1 \in Nat /\ i - 1 < n /\ (i - 1) + 1 = i
    BY <1>1
  <2>2. f[i] = step[<<f[i - 1], i - 1>>]
    BY <1>7, <2>1, Zenon
  <2>3. f[i - 1] \in Int
    BY <1>6, <2>1
  <2>4. f[i] = At(i - 1) - BorrowOf(f[i - 1])
    <3> HIDE DEF At
    <3> QED BY <1>4, <2>1, <2>2, <2>3
  <2>5. At(i - 1) = t[i] - Least[i]
    BY <2>1
  <2>6. m[i] = f[i]
    OBVIOUS
  <2>7. CASE i = 1
    <3>1. i - 1 = 0 /\ 0 \in 0..n
      BY <1>1, <2>7
    <3>2. f[0] = 0
      BY <1>7, <3>1, Zenon
    <3>3. BorrowOf(0) = 0
      <4>1. 0 \in Int /\ 0 <= 0 /\ 0 < RADIX
        BY FieldSizes
      <4> QED BY <4>1, BorrowFacts
    <3>4. t[i] - Least[i] - 0 = t[i] - Least[i]
      BY <1>2
    <3> HIDE DEF m, At
    <3> QED BY <2>4, <2>5, <2>6, <2>7, <3>1, <3>2, <3>3, <3>4
  <2>8. CASE i # 1
    <3>1. i - 1 \in 1..n
      BY <1>1, <2>1, <2>8
    <3>2. m[i - 1] = f[i - 1]
      BY <3>1
    <3> HIDE DEF m, At
    <3> QED BY <2>4, <2>5, <2>6, <2>8, <3>2
  <2> QED BY <2>7, <2>8
<1>9. m = [i \in 1..n |-> m[i]]
  OBVIOUS
<1> HIDE DEF m
<1>10. IsBorrowed(m, t)
  BY <1>8, <1>9 DEF IsBorrowed
<1> QED BY <1>10, Zenon

(* The differences and what they reduce to.                                *)
Reduced(m) == Array(LIMBS, LAMBDA i : IF i = LIMBS THEN m[i] ELSE m[i] % RADIX)

LEMMA SubtractIs ==
  ASSUME FieldAssumption, NEW t \in gf
  PROVE  \E m : /\ IsBorrowed(m, t)
                /\ SubtractPrime(t) = sel25519(t, Reduced(m), 1 - BorrowOf(m[LIMBS]))[1]
<1> DEFINE n == LIMBS
           Is(m) == m = [i \in 1..LIMBS |->
                           t[i] - (IF i = 1 THEN RADIX - 19
                                   ELSE IF i = LIMBS THEN TOP - 1 ELSE RADIX - 1)
                             - (IF i = 1 THEN 0 ELSE (m[i - 1] \div RADIX) % 2)]
           chosen == CHOOSE m : Is(m)
<1>1. ASSUME NEW m PROVE Is(m) <=> IsBorrowed(m, t)
  <2>1. \A i \in 1..LIMBS :
          Least[i] = IF i = 1 THEN RADIX - 19
                     ELSE IF i = LIMBS THEN TOP - 1 ELSE RADIX - 1
    BY DEF Least
  <2>2. [i \in 1..LIMBS |->
           t[i] - (IF i = 1 THEN RADIX - 19
                   ELSE IF i = LIMBS THEN TOP - 1 ELSE RADIX - 1)
             - (IF i = 1 THEN 0 ELSE (m[i - 1] \div RADIX) % 2)]
          = [i \in 1..LIMBS |->
               t[i] - Least[i] - (IF i = 1 THEN 0 ELSE (m[i - 1] \div RADIX) % 2)]
    BY <2>1
  <2> QED BY <2>2, Zenon DEF IsBorrowed, BorrowOf
<1>2. Is(chosen)
  <2>1. \E m : Is(m)
    <3> HIDE DEF Is
    <3> QED BY <1>1, BorrowedExists, Zenon
  <2> HIDE DEF Is
  <2> QED BY <2>1, Zenon
<1>3. SubtractPrime(t) = sel25519(t, Reduced(chosen), 1 - BorrowOf(chosen[LIMBS]))[1]
  BY Zenon DEF SubtractPrime, Reduced, BorrowOf
<1> HIDE DEF chosen
<1>4. IsBorrowed(chosen, t)
  <2> HIDE DEF Is
  <2> QED BY <1>1, <1>2, Zenon
<1> QED BY <1>3, <1>4, Zenon

(* The prime is subtracted from a number that has it.                      *)
Canonical(t) == t \in gf /\ AreDigits(t, RADIX, LIMBS)

LEMMA SubtractFacts ==
  ASSUME FieldAssumption, NEW t, Canonical(t)
  PROVE  /\ Canonical(SubtractPrime(t)) /\ WorthOf(t) \in 0..(CAP - 1)
         /\ WorthOf(SubtractPrime(t))
              = IF WorthOf(t) >= P THEN WorthOf(t) - P ELSE WorthOf(t)
<1> DEFINE n == LIMBS
           w == RADIX
           x == WorthOf(t)
           out == SubtractPrime(t)
<1>1. /\ n \in Nat /\ n > 1 /\ n > 0 /\ w \in Nat /\ w >= 256 /\ w > 0 /\ CAP = PowersOf(w)[n]
      /\ CAP \in Nat /\ P \in Nat
  BY FieldSizes DEF CAP
<1>2. t \in gf /\ AreDigits(t, w, n)
  BY DEF Canonical
<1>3. PICK m : /\ IsBorrowed(m, t)
               /\ out = sel25519(t, Reduced(m), 1 - BorrowOf(m[n]))[1]
  BY <1>2, SubtractIs
<1>4. \A i \in 1..n : Least[i] \in 0..(w - 1) /\ t[i] \in 0..(w - 1)
  BY <1>2, LeastFacts DEF AreDigits
<1>5. ASSUME NEW i \in 1..n
      PROVE  m[i] = t[i] - Least[i] - (IF i = 1 THEN 0 ELSE BorrowOf(m[i - 1]))
  BY <1>3, Zenon DEF IsBorrowed
<1> HIDE DEF n, w
<1> DEFINE B == {k \in Nat : k \in 1..n => m[k] \in Int /\ -w <= m[k] /\ m[k] < w}
<1>6. 0 \in B
  OBVIOUS
<1>7. ASSUME NEW k \in Nat, k \in B PROVE k + 1 \in B
  <2>1. CASE k + 1 <= n
    <3> DEFINE i == k + 1
               c == IF i = 1 THEN 0 ELSE BorrowOf(m[i - 1])
    <3>1. i \in 1..n
      BY <1>1, <2>1
    <3>2. c \in {0, 1}
      <4>1. CASE k = 0
        BY <4>1
      <4>2. CASE k # 0
        <5>1. k \in 1..n /\ i - 1 = k /\ i # 1
          BY <1>1, <2>1, <4>2
        <5>2. m[k] \in Int
          BY <1>7, <5>1
        <5>3. BorrowOf(m[k]) \in {0, 1}
          BY <5>2, BorrowFacts
        <5> QED BY <5>1, <5>3
      <4> QED BY <4>1, <4>2
    <3>3. m[i] = t[i] - Least[i] - c
      BY <1>5, <3>1
    <3>4. Least[i] \in 0..(w - 1) /\ t[i] \in 0..(w - 1)
      BY <1>4, <3>1
    <3> HIDE DEF c, i
    <3>5. m[i] \in Int /\ -w <= m[i] /\ m[i] < w
      BY <1>1, <3>2, <3>3, <3>4
    <3> QED BY <3>5 DEF i
  <2>2. CASE ~(k + 1 <= n)
    BY <1>1, <2>2
  <2> QED BY <2>1, <2>2
<1> HIDE DEF B
<1>8. Nat \subseteq B
  BY <1>6, <1>7, SetInduction
<1>9. \A i \in 1..n : m[i] \in Int /\ -w <= m[i] /\ m[i] < w
  BY <1>1, <1>8 DEF B
<1>10. ASSUME NEW i \in 1..n
       PROVE  BorrowOf(m[i]) = -(m[i] \div w)
              /\ (m[i] \div w = 0 \/ m[i] \div w = -1)
              /\ (m[i] \div w = 0 => m[i] % w = m[i])
  <2> DEFINE y == m[i]
  <2>1. y \in Int /\ -w <= y /\ y < w
    BY <1>9
  <2> HIDE DEF y
  <2>2. CASE y < 0
    <3>1. y \div w = -1 /\ BorrowOf(y) = 1
      BY <2>1, <2>2, BorrowFacts DEF w
    <3> QED BY <3>1 DEF y
  <2>3. CASE ~(y < 0)
    <3>1. y \div w = 0 /\ BorrowOf(y) = 0 /\ y % w = y
      <4>1. 0 <= y
        BY <2>1, <2>3
      <4> QED BY <2>1, <4>1, BorrowFacts DEF w
    <3> QED BY <3>1 DEF y
  <2> QED BY <2>2, <2>3
<1> DEFINE d == [i \in 1..n |-> t[i] - Least[i]]
           e == [i \in 1..n |-> m[i] % w]
           c == m[n] \div w
<1>11. \A i \in 1..n : d[i] = t[i] - Least[i] /\ e[i] = m[i] % w
  OBVIOUS
<1> HIDE DEF d, e
<1>12. IsInts(d, n) /\ IsInts(t, n) /\ IsInts(Least, n)
  BY <1>1, <1>4, <1>11 DEF IsInts
<1>13. Worth(d, w, n) = Worth(t, w, n) + (-1) * Worth(Least, w, n)
  <2>1. IsAdded(d, t, -1, Least, n)
    <3>1. \A i \in 1..n : d[i] = t[i] + (-1) * Least[i]
      BY <1>1, <1>4, <1>11
    <3> QED BY <3>1 DEF IsAdded
  <2>2. -1 \in Int
    OBVIOUS
  <2> QED BY <1>1, <1>12, <2>1, <2>2, WorthPlus
<1>14. IsCarry(m, d, 0, w, n)
  <2>1. ASSUME NEW i \in 1..n PROVE m[i] = d[i] + (IF i = 1 THEN 0 ELSE m[i - 1] \div w)
    <3>1. m[i] = d[i] - (IF i = 1 THEN 0 ELSE BorrowOf(m[i - 1]))
      BY <1>5, <1>11
    <3>2. d[i] \in Int
      BY <1>12 DEF IsInts
    <3>3. CASE i = 1
      BY <3>1, <3>2, <3>3
    <3>4. CASE i # 1
      <4>1. i - 1 \in 1..n
        BY <1>1, <3>4
      <4> DEFINE y == m[i - 1]
      <4>2. BorrowOf(y) = -(y \div w) /\ (y \div w = 0 \/ y \div w = -1)
        BY <1>10, <4>1
      <4>3. m[i] = d[i] - BorrowOf(y)
        BY <3>1, <3>4
      <4> HIDE DEF y
      <4>4. m[i] = d[i] + (y \div w)
        BY <3>2, <4>2, <4>3
      <4> QED BY <3>4, <4>4 DEF y
    <3> QED BY <3>3, <3>4
  <2> QED BY <2>1, Zenon DEF IsCarry
<1>15. /\ AreDigits(e, w, n) /\ c \in Int
       /\ Worth(e, w, n) + c * PowersOf(w)[n] = Worth(d, w, n) + 0
  <2>1. AreRemainders(e, m, w, n)
    BY <1>11 DEF AreRemainders
  <2>2. 0 \in Int
    OBVIOUS
  <2> QED BY <1>1, <1>12, <1>14, <2>1, <2>2, CarriedWorth
<1> DEFINE v == Worth(e, w, n)
<1>16. v \in Nat /\ v < CAP
  BY <1>1, <1>15, WorthBound
<1>17. x \in Nat /\ x < CAP
  <2>1. Worth(t, w, n) \in Nat /\ Worth(t, w, n) < PowersOf(w)[n]
    <3>1. AreDigits(t, w, n)
      BY <1>2
    <3> QED BY <1>1, <3>1, WorthBound
  <2> QED BY <1>1, <2>1 DEF WorthOf, w, n
<1>18. v + c * CAP = x - P
  <2>1. Worth(Least, w, n) = P /\ Worth(t, w, n) = x
    BY LeastFacts DEF WorthOf, n, w
  <2> HIDE DEF x, v, c
  <2>2. Worth(d, w, n) = x - P
    BY <1>1, <1>13, <1>17, <2>1
  <2> QED BY <1>1, <1>15, <1>17, <2>2 DEF v
<1>19. n \in 1..n
  BY <1>1
<1>20. BorrowOf(m[n]) = -c /\ (c = 0 \/ c = -1) /\ (c = 0 => m[n] % w = m[n])
  BY <1>10, <1>19
<1>21. c = 0 <=> x >= P
  <2> HIDE DEF c, x, v
  <2>1. c = 0 => x >= P
    BY <1>1, <1>16, <1>17, <1>18
  <2>2. c = -1 => ~(x >= P)
    BY <1>1, <1>16, <1>17, <1>18
  <2> QED BY <1>20, <2>1, <2>2
<1>22. CASE c = 0
  <2>1. out = Reduced(m)
    <3>1. 1 - BorrowOf(m[n]) = 1
      <4> HIDE DEF c
      <4> QED BY <1>20, <1>22
    <3>2. sel25519(t, Reduced(m), 1) = <<Reduced(m), t>>
      BY DEF sel25519
    <3> QED BY <1>3, <3>1, <3>2
  <2> DEFINE f == [i \in 1..n |-> IF i = n THEN m[i] ELSE m[i] % w]
  <2>2. Reduced(m) = SubSeq(f, 1, n)
    BY Zenon DEF Reduced, Array, w, n
  <2>3. ASSUME NEW i \in 1..n PROVE f[i] = e[i]
    <3> HIDE DEF c
    <3>1. i = n => m[i] % w = m[i]
      BY <1>20, <1>22
    <3> QED BY <1>11, <3>1
  <2>4. \A i \in 1..n : e[i] \in 0..(w - 1)
    BY <1>15 DEF AreDigits
  <2>5. f \in [1..n -> Int]
    <3>1. \A i \in 1..n : f[i] \in Int
      BY <1>1, <2>3, <2>4
    <3> HIDE DEF n, w
    <3> QED BY <3>1
  <2>6. f = SubSeq(f, 1, n)
    <3> HIDE DEF f
    <3>1. f \in Seq(Int) /\ Len(f) = n
      BY <1>1, <2>5
    <3> QED BY <1>1, <3>1, TakeAll DEF Take
  <2> HIDE DEF f
  <2>7. out = f
    BY <2>1, <2>2, <2>6, Zenon
  <2>8. AreDigits(out, w, n)
    BY <2>3, <2>4, <2>7 DEF AreDigits
  <2>9. Canonical(out)
    BY <2>5, <2>7, <2>8 DEF Canonical, gf, n, w
  <2>10. Worth(out, w, n) = v
    <3>1. IsInts(e, n)
      BY <1>1, <1>15, DigitsAreInts
    <3> QED BY <1>1, <2>3, <2>7, <3>1, WorthSame
  <2>11. v = x - P
    <3> HIDE DEF v, x, c
    <3> QED BY <1>1, <1>16, <1>17, <1>18, <1>22
  <2>12. WorthOf(out) = x - P
    BY <2>10, <2>11, Zenon DEF WorthOf, w, n
  <2> QED BY <1>1, <1>17, <1>21, <1>22, <2>9, <2>12
<1>23. CASE c = -1
  <2>1. out = t
    <3>1. 1 - BorrowOf(m[n]) = 0
      <4> HIDE DEF c
      <4> QED BY <1>20, <1>23
    <3>2. sel25519(t, Reduced(m), 0) = <<t, Reduced(m)>>
      BY DEF sel25519
    <3> QED BY <1>3, <3>1, <3>2
  <2>2. ~(x >= P)
    <3> HIDE DEF c, x
    <3> QED BY <1>21, <1>23
  <2> QED BY <1>1, <1>17, <2>1, <2>2
<1> QED BY <1>20, <1>22, <1>23

-----------------------------------------------------------------------------
(* The number of an element, and its bytes. *)

(* ValueMod, from the highest digit down, is the remainder of the number.  *)
LEMMA ValueModIs ==
  ASSUME NEW w \in Nat, w > 0, NEW q \in Nat, q > 0, NEW n \in Nat, NEW a,
         Len(a) = n, IsInts(a, n)
  PROVE  ValueMod(a, w, q) = Worth(a, w, n) % q /\ Worth(a, w, n) \in Int
<1> DEFINE Is(v) == v = [i \in 1..(Len(a) + 1) |->
                           IF i > Len(a) THEN 0 ELSE (a[i] + w * v[i + 1]) % q]
           chosen == CHOOSE v : Is(v)
<1>1. ASSUME NEW v PROVE Is(v) <=> IsHorner(v, a, w, q, n)
  BY Zenon DEF IsHorner
<1>2. Is(chosen)
  <2>1. \E v : IsHorner(v, a, w, q, n)
    BY HornerExists
  <2>2. \E v : Is(v)
    <3> HIDE DEF Is
    <3> QED BY <1>1, <2>1, Zenon
  <2> HIDE DEF Is
  <2> QED BY <2>2, Zenon
<1>3. ValueMod(a, w, q) = chosen[1]
  BY Zenon DEF ValueMod
<1> HIDE DEF chosen
<1>4. IsHorner(chosen, a, w, q, n)
  <2> HIDE DEF Is
  <2> QED BY <1>1, <1>2, Zenon
<1>5. /\ chosen[1] \in 0..(q - 1) /\ Worth(a, w, n) \in Int
      /\ Congruent(chosen[1], Worth(a, w, n), q)
  BY <1>4, HornerIsWorth
<1> DEFINE x == Worth(a, w, n)
           y == chosen[1]
<1> HIDE DEF x, y
<1>6. y \in 0..(q - 1) /\ x \in Int /\ Congruent(y, x, q)
  BY <1>5 DEF x, y
<1>7. Congruent(x, y, q)
  <2>1. y \in Int
    BY <1>6
  <2> QED BY <1>6, <2>1, CongruentBack
<1>8. x % q = y
  BY <1>6, <1>7, IntCongruentRemainder
<1> QED BY <1>3, <1>6, <1>8 DEF x, y

LEMMA ElementFacts ==
  ASSUME FieldAssumption, NEW a \in gf
  PROVE  /\ WorthOf(a) \in Int /\ Element(a) \in 0..(P - 1)
         /\ Congruent(Element(a), WorthOf(a), P) /\ Element(a) = WorthOf(a) % P
<1> DEFINE n == LIMBS
           w == RADIX
           q == P
<1>1. n \in Nat /\ w \in Nat /\ w > 0 /\ q \in Nat /\ q > 0
  BY FieldSizes
<1>2. Len(a) = n /\ IsInts(a, n)
  <2>1. a \in [1..n -> Int]
    BY DEF gf
  <2> HIDE DEF n
  <2> QED BY <1>1, <2>1 DEF IsInts
<1> HIDE DEF n, w, q
<1>3. ValueMod(a, w, q) = Worth(a, w, n) % q /\ Worth(a, w, n) \in Int
  BY <1>1, <1>2, ValueModIs
<1> DEFINE x == Worth(a, w, n)
           y == ValueMod(a, w, q)
<1> HIDE DEF x, y
<1>4. y = x % q /\ x \in Int
  BY <1>3 DEF x, y
<1>5. y \in 0..(q - 1) /\ Congruent(y, x, q)
  BY <1>1, <1>4, IntCongruentRemainder
<1>6. WorthOf(a) = x /\ Element(a) = y
  BY Zenon DEF WorthOf, Element, x, y, w, n, q
<1> QED BY <1>4, <1>5, <1>6 DEF q

(* A limb has two bytes.                                                   *)
LEMMA TwoBytes ==
  ASSUME FieldAssumption, NEW i \in Nat
  PROVE  /\ PowersOf(BYTE)[2 * i] = PowersOf(RADIX)[i]
         /\ PowersOf(BYTE)[2 * i + 1] = BYTE * PowersOf(RADIX)[i]
         /\ PowersOf(RADIX)[i] \in Nat /\ PowersOf(RADIX)[i] > 0
<1> DEFINE b == BYTE
           w == RADIX
           p == PowersOf(b)
           q == PowersOf(w)
           B == {k \in Nat : p[2 * k] = q[k]}
<1>1. b \in Nat /\ b > 0 /\ w = b * b /\ w \in Nat /\ w > 0
  BY FieldSizes, ByteFacts DEF RADIX
<1> HIDE DEF b, w
<1>2. p[0] = 1 /\ \A k \in Nat : p[k] \in Nat /\ p[k + 1] = b * p[k]
  BY <1>1, PowersFacts
<1>3. q[0] = 1 /\ \A k \in Nat : q[k] \in Nat /\ q[k] > 0 /\ q[k + 1] = w * q[k]
  BY <1>1, PowersFacts
<1> HIDE DEF p, q
<1>4. 0 \in B
  BY <1>2, <1>3
<1>5. ASSUME NEW k \in Nat, k \in B PROVE k + 1 \in B
  <2>1. 2 * k \in Nat /\ 2 * k + 1 \in Nat /\ 2 * (k + 1) = (2 * k + 1) + 1
    OBVIOUS
  <2>2. p[2 * (k + 1)] = b * (b * p[2 * k])
    BY <1>2, <2>1
  <2>3. p[2 * k] = q[k] /\ q[k] \in Nat
    BY <1>3, <1>5
  <2>4. b * (b * q[k]) = w * q[k]
    <3> DEFINE z == q[k]
    <3> HIDE DEF z
    <3>1. b * (b * z) = (b * b) * z
      BY <1>1, <2>3 DEF z
    <3> QED BY <1>1, <3>1 DEF z
  <2>5. p[2 * (k + 1)] = q[k + 1]
    BY <1>3, <2>2, <2>3, <2>4
  <2> QED BY <2>5
<1> HIDE DEF B
<1>6. i \in B
  BY <1>4, <1>5, SetInduction
<1>7. p[2 * i] = q[i]
  BY <1>6 DEF B
<1>8. p[2 * i + 1] = b * p[2 * i]
  <2>1. 2 * i \in Nat
    OBVIOUS
  <2> QED BY <1>2, <2>1
<1> QED BY <1>3, <1>7, <1>8 DEF p, q, b, w

LEMMA BytesFacts ==
  ASSUME FieldAssumption, NEW t, Canonical(t)
  PROVE  BytesOf(t) = Digits(WorthOf(t))
<1> DEFINE n == LIMBS
           w == RADIX
           b == BYTE
           x == WorthOf(t)
           Lower(j) == IF j % 2 = 1 THEN t[(j + 1) \div 2] % b ELSE (t[j \div 2] \div b) % b
           Of(j) == (x \div PowersOf(b)[j - 1]) % b
<1>1. n \in Nat /\ w \in Nat /\ w > 0 /\ w = b * b /\ b \in Nat /\ b > 0 /\ BYTES = 2 * n
  BY FieldSizes, ByteFacts DEF RADIX, BYTES
<1>2. AreDigits(t, w, n) /\ x \in Nat
  <2>1. AreDigits(t, w, n)
    BY DEF Canonical
  <2> HIDE DEF n, w
  <2>2. Worth(t, w, n) \in Nat
    BY <1>1, <2>1, WorthBound
  <2> QED BY <2>1, <2>2 DEF WorthOf, n, w
<1>3. ASSUME NEW i \in 1..n
      PROVE  t[i] = (x \div PowersOf(w)[i - 1]) % w
  <2> HIDE DEF n, w
  <2> QED BY <1>1, <1>2, <1>3, WorthDigit DEF WorthOf, n, w
<1>4. ASSUME NEW j \in 1..BYTES PROVE Lower(j) = Of(j)
  <2>1. PICK k \in Nat, r \in 0..(2 - 1) : j - 1 = k * 2 + r
    <3>1. j - 1 \in Nat /\ 2 \in Nat /\ 2 > 0
      BY <1>1
    <3> QED BY <3>1, Division
  <2> DEFINE i == k + 1
             p == PowersOf(w)[k]
             y == x \div p
  <2>2. i \in 1..n /\ i - 1 = k
    <3> HIDE DEF n
    <3> QED BY <1>1, <2>1
  <2>3. /\ p \in Nat /\ p > 0 /\ PowersOf(b)[2 * k] = p /\ PowersOf(b)[2 * k + 1] = b * p
    BY TwoBytes
  <2>4. t[i] = y % w
    BY <1>3, <2>2
  <2>5. y \in Nat
    <3> HIDE DEF p, x
    <3> QED BY <1>2, <2>3, Division
  <2> HIDE DEF y, p, x, n, w, i
  <2>6. CASE r = 0
    <3>1. j = k * 2 + 1 /\ j - 1 = 2 * k /\ j + 1 = (k + 1) * 2 + 0
      BY <1>1, <2>1, <2>6
    <3>2. j % 2 = 1
      <4>1. (k * 2 + 1) % 2 = 1
        <5>1. 1 \in 0..(2 - 1) /\ 2 \in Nat /\ 2 > 0
          OBVIOUS
        <5> QED BY <5>1, DivisionUnique
      <4> QED BY <3>1, <4>1
    <3>3. (j + 1) \div 2 = i
      <4>1. ((k + 1) * 2 + 0) \div 2 = k + 1
        <5>1. 0 \in 0..(2 - 1) /\ 2 \in Nat /\ 2 > 0 /\ k + 1 \in Nat
          OBVIOUS
        <5> QED BY <5>1, DivisionUnique
      <4> QED BY <3>1, <4>1 DEF i
    <3>4. Lower(j) = t[i] % b
      BY <3>2, <3>3
    <3>5. Of(j) = y % b
      BY <2>3, <3>1, Zenon DEF y
    <3>6. (y % w) % b = y % b
      BY <1>1, <2>5, NestedRemainder
    <3> HIDE DEF Of
    <3> QED BY <2>4, <3>4, <3>5, <3>6
  <2>7. CASE r = 1
    <3>1. j = (k + 1) * 2 + 0 /\ j - 1 = 2 * k + 1
      BY <1>1, <2>1, <2>7
    <3>2. j % 2 = 0 /\ j \div 2 = i
      <4>1. ((k + 1) * 2 + 0) % 2 = 0 /\ ((k + 1) * 2 + 0) \div 2 = k + 1
        <5>1. 0 \in 0..(2 - 1) /\ 2 \in Nat /\ 2 > 0 /\ k + 1 \in Nat
          OBVIOUS
        <5> QED BY <5>1, DivisionUnique
      <4> QED BY <3>1, <4>1 DEF i
    <3>3. Lower(j) = (t[i] \div b) % b
      BY <3>2
    <3>4. Of(j) = (x \div (b * p)) % b
      BY <2>3, <3>1, Zenon
    <3> HIDE DEF Of
    <3>5. x \div (b * p) = y \div b
      BY <1>1, <1>2, <2>3, NestedDivision DEF y
    <3>6. (y % w) \div b = (y \div b) % b
      BY <1>1, <2>5, NestedDivision
    <3> DEFINE z == y \div b
    <3>7. z \in Nat
      BY <1>1, <2>5, Division
    <3> HIDE DEF z
    <3>8. (z % b) % b = z % b
      <4>1. (z % (1 * b)) % b = z % b
        <5>1. 1 \in Nat /\ 1 > 0
          OBVIOUS
        <5> QED BY <1>1, <3>7, <5>1, NestedRemainder
      <4>2. 1 * b = b
        BY <1>1
      <4> QED BY <4>1, <4>2
    <3> QED BY <2>4, <3>3, <3>4, <3>5, <3>6, <3>8 DEF z
  <2>8. r = 0 \/ r = 1
    OBVIOUS
  <2> QED BY <2>6, <2>7, <2>8
<1>5. BytesOf(t) = SubSeq([j \in 1..BYTES |-> Lower(j)], 1, BYTES)
  BY Zenon DEF BytesOf, Array
<1>6. Digits(x) = SubSeq([j \in 1..BYTES |-> Of(j)], 1, BYTES)
  BY Zenon DEF Digits, Array
<1>7. [j \in 1..BYTES |-> Lower(j)] = [j \in 1..BYTES |-> Of(j)]
  <2> HIDE DEF Of
  <2> QED BY <1>4
<1> QED BY <1>5, <1>6, <1>7, Zenon

(* pack25519 returns the bytes of the number below the prime, whatever the *)
(* limbs: three carries leave digits, and of what they stand for the prime *)
(* is subtracted at most twice.                                            *)
THEOREM PackIsCanonical ==
  ASSUME FieldAssumption, NEW n, Modest(n)
  PROVE  pack25519(n) = Digits(Element(n))
<1> DEFINE o == car25519(car25519(n))
           t == car25519(o)
           s == SubtractPrime(t)
           r == SubtractPrime(s)
<1>1. n \in gf
  BY DEF Modest
<1>2. /\ o \in gf /\ WorthOf(o) \in 0..(CAP - 1) /\ WorthOf(n) \in Int
      /\ Congruent(WorthOf(o), WorthOf(n), P)
  BY TwoCarries DEF Tight
<1>3. pack25519(n) = BytesOf(r)
  BY DEF pack25519
<1> HIDE DEF o
<1>4. Canonical(t) /\ WorthOf(t) = WorthOf(o)
  BY <1>2, ThirdCarry DEF Canonical
<1> HIDE DEF t
<1>5. /\ Canonical(s) /\ WorthOf(t) \in 0..(CAP - 1)
      /\ WorthOf(s) = IF WorthOf(t) >= P THEN WorthOf(t) - P ELSE WorthOf(t)
  BY <1>4, SubtractFacts
<1> HIDE DEF s
<1>6. /\ Canonical(r)
      /\ WorthOf(r) = IF WorthOf(s) >= P THEN WorthOf(s) - P ELSE WorthOf(s)
  BY <1>5, SubtractFacts
<1> HIDE DEF r
<1> DEFINE x == WorthOf(n)
           y == WorthOf(o)
           z == WorthOf(r)
<1>7. P \in Nat /\ P >= 32749 /\ CAP = 2 * P + 38 /\ P > 0
  BY FieldSizes
<1>8. z \in 0..(P - 1) /\ (z = y \/ z = y - P \/ z = y - 2 * P)
  BY <1>2, <1>4, <1>5, <1>6, <1>7
<1> HIDE DEF x, y, z
<1>9. x \in Int /\ y \in Int /\ z \in Int /\ Congruent(y, x, P)
  BY <1>2, <1>7, <1>8 DEF x, y
<1>10. Congruent(z, y, P)
  <2>1. PICK k \in Int : z = y + k * P
    <3>1. z = y + 0 * P \/ z = y + (-1) * P \/ z = y + (-2) * P
      BY <1>7, <1>8, <1>9
    <3>2. 0 \in Int /\ -1 \in Int /\ -2 \in Int
      OBVIOUS
    <3> QED BY <3>1, <3>2
  <2> QED BY <2>1 DEF Congruent
<1>11. Congruent(x, z, P)
  BY <1>7, <1>9, <1>10, CongruentTrans, CongruentBack
<1>12. x % P = z
  BY <1>7, <1>8, <1>9, <1>11, IntCongruentRemainder
<1>13. Element(n) = z
  BY <1>1, <1>12, ElementFacts DEF x
<1>14. BytesOf(r) = Digits(z)
  BY <1>6, BytesFacts DEF z
<1> QED BY <1>3, <1>13, <1>14

-----------------------------------------------------------------------------
(* The product.  A row is what a limb of a is multiplied with: the limbs   *)
(* of b from a place on, those too high 38 times at the bottom.            *)

RowOf(b, j) ==
  [i \in 1..LIMBS |-> IF j <= i THEN b[i - j + 1] ELSE 38 * b[i + LIMBS - j + 1]]

LEMMA RowFacts ==
  ASSUME FieldAssumption, NEW b \in gf, NEW j \in 1..LIMBS
  PROVE  IsInts(RowOf(b, j), LIMBS) /\ WorthOf(RowOf(b, j)) \in Int
<1> DEFINE n == LIMBS
           f == RowOf(b, j)
<1>1. n \in Nat /\ RADIX \in Nat /\ RADIX > 0
  BY FieldSizes
<1>2. \A i \in 1..n : b[i] \in Int
  BY DEF gf
<1>3. ASSUME NEW i \in 1..n PROVE f[i] \in Int
  <2>1. f[i] = IF j <= i THEN b[i - j + 1] ELSE 38 * b[i + n - j + 1]
    BY Zenon DEF RowOf
  <2> HIDE DEF f, n
  <2>2. CASE j <= i
    <3>1. i - j + 1 \in 1..n
      BY <1>1, <2>2 DEF n
    <3> QED BY <1>2, <2>1, <2>2, <3>1
  <2>3. CASE ~(j <= i)
    <3>1. i + n - j + 1 \in 1..n
      BY <1>1, <2>3 DEF n
    <3>2. b[i + n - j + 1] \in Int
      BY <1>2, <3>1
    <3> QED BY <2>1, <2>3, <3>2
  <2> QED BY <2>2, <2>3
<1>4. IsInts(f, n)
  <2> HIDE DEF f, n
  <2> QED BY <1>3 DEF IsInts
<1>5. Worth(f, RADIX, n) \in Int
  <2> HIDE DEF f, n
  <2> QED BY <1>1, <1>4, WorthIsInt
<1> QED BY <1>4, <1>5 DEF WorthOf

(* The next row is RADIX times the last, modulo the prime.                 *)
LEMMA NextRow ==
  ASSUME FieldAssumption, NEW b \in gf, NEW j \in 1..(LIMBS - 1)
  PROVE  Congruent(WorthOf(RowOf(b, j + 1)), RADIX * WorthOf(RowOf(b, j)), P)
<1> DEFINE w == RADIX
           n == LIMBS
           K == n - 1
           f == RowOf(b, j)
           g == RowOf(b, j + 1)
           x == f[n]
           c == 38 * x
           p == PowersOf(w)[K]
<1>1. /\ w \in Nat /\ w > 0 /\ n \in Nat /\ n > 1 /\ K \in Nat /\ n = K + 1 /\ K < n
      /\ P \in Nat /\ CAP = w * p /\ CAP = 2 * P + 38 /\ j \in 1..n /\ n \in 1..n
  <2>1. /\ RADIX \in Nat /\ RADIX >= 256 /\ LIMBS \in Nat /\ LIMBS > 1 /\ P \in Nat
        /\ CAP = RADIX * PowersOf(RADIX)[LIMBS - 1] /\ CAP = 2 * P + 38
    BY FieldSizes
  <2>2. CAP = w * p
    BY <2>1, Zenon
  <2> HIDE DEF w, p
  <2> QED BY <2>1, <2>2 DEF w
<1>2. p \in Nat
  <2> HIDE DEF w, K
  <2> QED BY <1>1, PowersFacts
<1>3. IsInts(f, n)
  BY <1>1, RowFacts
<1>4. ASSUME NEW i \in 1..K PROVE g[i + 1] = f[i]
  <2>1. i + 1 \in 1..n /\ i \in 1..n /\ (i + 1) - (j + 1) + 1 = i - j + 1
        /\ (i + 1) + n - (j + 1) + 1 = i + n - j + 1 /\ (j + 1 <= i + 1 <=> j <= i)
    BY <1>1
  <2>2. g[i + 1] = IF j + 1 <= i + 1 THEN b[(i + 1) - (j + 1) + 1]
                   ELSE 38 * b[(i + 1) + n - (j + 1) + 1]
    BY <2>1, Zenon DEF RowOf
  <2>3. f[i] = IF j <= i THEN b[i - j + 1] ELSE 38 * b[i + n - j + 1]
    BY <2>1, Zenon DEF RowOf
  <2>4. b[(i + 1) - (j + 1) + 1] = b[i - j + 1]
        /\ 38 * b[(i + 1) + n - (j + 1) + 1] = 38 * b[i + n - j + 1]
    BY <2>1, Zenon
  <2> HIDE DEF f, g, n
  <2>5. CASE j <= i
    BY <2>1, <2>2, <2>3, <2>4, <2>5, Zenon
  <2>6. CASE ~(j <= i)
    BY <2>1, <2>2, <2>3, <2>4, <2>6, Zenon
  <2> QED BY <2>5, <2>6
<1>5. g[1] = c
  <2>1. 1 \in 1..n /\ ~(j + 1 <= 1) /\ j <= n /\ 1 + n - (j + 1) + 1 = n - j + 1
    BY <1>1
  <2>2. g[1] = IF j + 1 <= 1 THEN b[1 - (j + 1) + 1] ELSE 38 * b[1 + n - (j + 1) + 1]
    BY <2>1, Zenon DEF RowOf
  <2>3. x = IF j <= n THEN b[n - j + 1] ELSE 38 * b[n + n - j + 1]
    BY <1>1, Zenon DEF RowOf
  <2> QED BY <2>1, <2>2, <2>3, Zenon
<1>6. x \in Int
  BY <1>1, <1>3 DEF IsInts
<1> HIDE DEF f, g, x, w, n, K
<1>7. IsInts(f, K)
  <2>1. 1..K \subseteq 1..n
    BY <1>1
  <2> QED BY <1>3, <2>1 DEF IsInts
<1>8. c \in Int
  BY <1>6
<1>9. Worth(g, w, K + 1) = c + w * Worth(f, w, K)
  <2> HIDE DEF c
  <2>1. IsShifted(g, f, c, K)
    BY <1>4, <1>5 DEF IsShifted
  <2>2. w \in Nat /\ w > 0 /\ K \in Nat
    BY <1>1
  <2> QED BY <1>7, <1>8, <2>1, <2>2, WorthShift
<1>10. Worth(f, w, K) \in Int /\ Worth(f, w, K + 1) = Worth(f, w, K) + x * p
  <2>1. f[K + 1] = x
    BY <1>1 DEF x
  <2>2. w \in Nat /\ w > 0 /\ K \in Nat /\ n \in Nat /\ K < n
    BY <1>1
  <2> QED BY <1>3, <2>1, <2>2, WorthStep
<1> DEFINE y == Worth(f, w, K)
           r == y + x * p
           d == c + w * y
<1>11. WorthOf(g) = d /\ WorthOf(f) = r
  <2>1. WorthOf(g) = Worth(g, w, K + 1) /\ WorthOf(f) = Worth(f, w, K + 1)
    BY <1>1, Zenon DEF WorthOf, w, n
  <2> QED BY <1>9, <1>10, <2>1, Zenon
<1>12. y \in Int
  BY <1>10
<1> HIDE DEF y, p
<1>13. w * r = w * y + x * CAP
  <2>1. x * p \in Int /\ x * (w * p) = w * (x * p)
    BY <1>1, <1>2, <1>6
  <2> QED BY <1>1, <1>12, <2>1
<1>14. d = w * r + (-2 * x) * P
  <2>1. x * CAP = (2 * x) * P + 38 * x /\ (2 * x) * P \in Int /\ w * y \in Int
    BY <1>1, <1>6, <1>12
  <2> QED BY <1>1, <1>6, <1>13, <2>1
<1>15. -2 * x \in Int
  BY <1>6
<1>16. Congruent(d, w * r, P)
  <2> HIDE DEF d, r
  <2> QED BY <1>14, <1>15, Zenon DEF Congruent
<1> QED BY <1>11, <1>16, Zenon DEF f, g, w

(* Every row is a power of RADIX times b.                                  *)
LEMMA RowsWorth ==
  ASSUME FieldAssumption, NEW b \in gf
  PROVE  /\ WorthOf(b) \in Int
         /\ \A j \in 1..LIMBS :
              Congruent(WorthOf(RowOf(b, j)), PowersOf(RADIX)[j - 1] * WorthOf(b), P)
<1> DEFINE w == RADIX
           n == LIMBS
           v == WorthOf(b)
           Row(j) == WorthOf(RowOf(b, j))
           p == PowersOf(w)
<1>1. w \in Nat /\ w > 0 /\ n \in Nat /\ n > 1 /\ P \in Nat
  BY FieldSizes
<1>2. IsInts(b, n)
  BY DEF gf, IsInts
<1>3. v \in Int
  <2>1. Worth(b, w, n) \in Int
    <3> HIDE DEF w, n
    <3> QED BY <1>1, <1>2, WorthIsInt
  <2> QED BY <2>1 DEF WorthOf
<1>4. \A j \in 1..n : Row(j) \in Int
  BY RowFacts
<1>5. p[0] = 1 /\ \A k \in Nat : p[k] \in Nat /\ p[k + 1] = w * p[k]
  <2> HIDE DEF w
  <2> QED BY <1>1, PowersFacts
<1>6. Row(1) = v
  <2>1. \A i \in 1..n : RowOf(b, 1)[i] = b[i]
    <3>1. ASSUME NEW i \in 1..n PROVE RowOf(b, 1)[i] = b[i]
      <4>1. 1 <= i /\ i - 1 + 1 = i
        OBVIOUS
      <4>2. RowOf(b, 1)[i] = IF 1 <= i THEN b[i - 1 + 1] ELSE 38 * b[i + n - 1 + 1]
        BY Zenon DEF RowOf
      <4> QED BY <4>1, <4>2, Zenon
    <3> QED BY <3>1
  <2>2. Worth(RowOf(b, 1), w, n) = Worth(b, w, n)
    <3> HIDE DEF w, n
    <3> QED BY <1>1, <1>2, <2>1, WorthSame
  <2> QED BY <2>2 DEF WorthOf
<1> HIDE DEF v, p
<1> DEFINE Good(j) == Congruent(Row(j), p[j - 1] * v, P)
           B == {k \in Nat : k + 1 <= n => Good(k + 1)}
<1>7. ASSUME NEW j \in 1..n, j + 1 <= n PROVE Congruent(Row(j + 1), w * Row(j), P)
  <2>1. j \in 1..(n - 1)
    BY <1>1, <1>7
  <2> QED BY <2>1, NextRow
<1> HIDE DEF Row, w, n
<1>8. 0 \in B
  <2>1. 1 - 1 = 0 /\ 0 + 1 = 1 /\ 1 * v = v
    BY <1>3
  <2>2. Congruent(v, v, P)
    BY <1>1, <1>3, CongruentSame
  <2>3. Good(1)
    BY <1>5, <1>6, <2>1, <2>2, Zenon
  <2> HIDE DEF Good
  <2> QED BY <2>1, <2>3
<1>9. ASSUME NEW k \in Nat, k \in B PROVE k + 1 \in B
  <2>1. CASE k + 2 <= n
    <3> DEFINE j == k + 1
               q == p[k]
               x == Row(j)
               y == Row(j + 1)
    <3>1. j \in 1..n /\ j + 1 \in 1..n /\ j + 1 <= n /\ j - 1 = k /\ (j + 1) - 1 = j
      BY <1>1, <2>1
    <3>2. Congruent(x, q * v, P)
      <4>1. Good(j)
        <5>1. k + 1 <= n
          BY <1>1, <2>1
        <5> HIDE DEF Good
        <5> QED BY <1>9, <5>1
      <4> QED BY <3>1, <4>1, Zenon
    <3>3. Congruent(y, w * x, P)
      BY <1>7, <3>1
    <3>4. x \in Int /\ y \in Int /\ q \in Nat /\ p[j] = w * q
      BY <1>4, <1>5, <3>1
    <3> HIDE DEF x, y, q, j
    <3>5. q * v \in Int /\ w * x \in Int /\ w * (q * v) \in Int /\ (w * q) * v = w * (q * v)
          /\ w \in Int
      BY <1>1, <1>3, <3>4
    <3>6. Congruent(w * x, w * (q * v), P)
      BY <1>1, <3>2, <3>4, <3>5, CongruentTimes
    <3>7. Congruent(y, w * (q * v), P)
      BY <1>1, <3>3, <3>4, <3>5, <3>6, CongruentTrans
    <3>8. Good(j + 1)
      BY <3>1, <3>4, <3>5, <3>7, Zenon DEF y
    <3> HIDE DEF Good
    <3> QED BY <3>8 DEF j
  <2>2. CASE ~(k + 2 <= n)
    BY <1>1, <2>2
  <2> QED BY <2>1, <2>2
<1> HIDE DEF B
<1>10. Nat \subseteq B
  BY <1>8, <1>9, SetInduction
<1>11. ASSUME NEW j \in 1..n PROVE Good(j)
  <2>1. j - 1 \in B /\ (j - 1) + 1 = j /\ j <= n
    BY <1>1, <1>10
  <2> HIDE DEF Good
  <2> QED BY <2>1 DEF B
<1> QED BY <1>3, <1>11 DEF Row, v, p, n, w


(* The limbs of the product after the first l limbs of a.                  *)
Term(a, b, i) == [j \in 1..LIMBS |-> a[j] * RowOf(b, j)[i]]
Summed(a, b, l) == [i \in 1..LIMBS |-> SumTo(Term(a, b, i), l)]

LEMMA TermFacts ==
  ASSUME FieldAssumption, NEW a \in gf, NEW b \in gf, NEW i \in 1..LIMBS
  PROVE  IsInts(Term(a, b, i), LIMBS)
<1> DEFINE f == Term(a, b, i)
           n == LIMBS
<1>1. ASSUME NEW j \in 1..n PROVE f[j] \in Int
  <2> DEFINE x == a[j]
             y == RowOf(b, j)[i]
  <2>1. x \in Int
    BY DEF gf
  <2>2. y \in Int
    BY RowFacts DEF IsInts
  <2>3. f[j] = x * y
    BY Zenon DEF Term
  <2> HIDE DEF x, y, f
  <2> QED BY <2>1, <2>2, <2>3
<1> HIDE DEF f
<1> QED BY <1>1 DEF IsInts, f

LEMMA SummedStep ==
  ASSUME FieldAssumption, NEW a \in gf, NEW b \in gf, NEW l \in Nat, l < LIMBS
  PROVE  /\ IsInts(Summed(a, b, l), LIMBS)
         /\ WorthOf(Summed(a, b, l + 1))
              = WorthOf(Summed(a, b, l)) + a[l + 1] * WorthOf(RowOf(b, l + 1))
<1> DEFINE n == LIMBS
           s == Summed(a, b, l)
           t == Summed(a, b, l + 1)
           g == RowOf(b, l + 1)
           c == a[l + 1]
<1>1. n \in Nat /\ RADIX \in Nat /\ RADIX > 0 /\ l + 1 \in 1..n
  BY FieldSizes
<1>2. c \in Int
  BY <1>1 DEF gf
<1>3. IsInts(g, n)
  BY <1>1, RowFacts
<1>4. ASSUME NEW i \in 1..n PROVE s[i] \in Int /\ t[i] = s[i] + c * g[i]
  <2> DEFINE f == Term(a, b, i)
  <2>1. IsInts(f, n)
    BY TermFacts
  <2>2. f[l + 1] = c * g[i]
    BY <1>1, Zenon DEF Term
  <2>3. s[i] = SumTo(f, l) /\ t[i] = SumTo(f, l + 1)
    BY Zenon DEF Summed
  <2> HIDE DEF f, s, t, c, g
  <2>4. SumTo(f, l) \in Int /\ SumTo(f, l + 1) = SumTo(f, l) + f[l + 1]
    BY <1>1, <2>1, SumStep
  <2> QED BY <2>2, <2>3, <2>4
<1> HIDE DEF s, t, c, g
<1>5. IsInts(s, n)
  BY <1>4 DEF IsInts
<1>6. Worth(t, RADIX, n) = Worth(s, RADIX, n) + c * Worth(g, RADIX, n)
  <2>1. IsAdded(t, s, c, g, n)
    BY <1>4, Zenon DEF IsAdded
  <2> HIDE DEF n
  <2> QED BY <1>1, <1>2, <1>3, <1>5, <2>1, WorthPlus
<1> QED BY <1>5, <1>6 DEF s, t, c, g, WorthOf

LEMMA SummedWorth ==
  ASSUME FieldAssumption, NEW a \in gf, NEW b \in gf, NEW l \in 0..LIMBS
  PROVE  Congruent(WorthOf(Summed(a, b, l)), Worth(a, RADIX, l) * WorthOf(b), P)
<1> DEFINE w == RADIX
           n == LIMBS
           v == WorthOf(b)
           Of(k) == WorthOf(Summed(a, b, k))
           C == {k \in Nat : k <= n => /\ Of(k) \in Int
                                       /\ Congruent(Of(k), Worth(a, w, k) * v, P)}
<1>1. w \in Nat /\ w > 0 /\ n \in Nat /\ P \in Nat
  BY FieldSizes
<1>2. v \in Int /\ \A j \in 1..n : Congruent(WorthOf(RowOf(b, j)), PowersOf(w)[j - 1] * v, P)
  BY RowsWorth
<1>3. IsInts(a, n)
  BY DEF gf, IsInts
<1> HIDE DEF v
<1>4. 0 \in C
  <2> DEFINE z == Summed(a, b, 0)
  <2>1. \A i \in 1..n : z[i] = 0
    BY SumZero DEF Summed
  <2> HIDE DEF z
  <2>2. IsInts(z, n)
    BY <2>1 DEF IsInts
  <2>3. Worth(z, w, n) = Worth(z, w, 0)
    <3>1. 0 \in 0..n /\ \A k \in (0 + 1)..n : z[k] = 0
      BY <1>1, <2>1
    <3> HIDE DEF n, w
    <3> QED BY <1>1, <2>2, <3>1, WorthZeros
  <2>4. Of(0) = 0
    BY <2>3, WorthZero DEF WorthOf, z
  <2>5. Worth(a, w, 0) * v = 0
    BY <1>2, WorthZero
  <2>6. Congruent(0, 0, P)
    BY <1>1, CongruentSame
  <2>7. Of(0) \in Int /\ Congruent(Of(0), Worth(a, w, 0) * v, P)
    BY <2>4, <2>5, <2>6
  <2> HIDE DEF Of
  <2> QED BY <2>7
<1>5. ASSUME NEW k \in Nat, k \in C PROVE k + 1 \in C
  <2>1. CASE k + 1 <= n
    <3> DEFINE i == k + 1
               x == a[i]
               s == Of(k)
               y == Worth(a, w, k)
               f == WorthOf(RowOf(b, i))
               p == PowersOf(w)[k]
    <3>1. k < n /\ i \in 1..n /\ i - 1 = k /\ k <= n
      BY <1>1, <2>1
    <3>2. s \in Int /\ Congruent(s, y * v, P)
      <4> HIDE DEF Of
      <4> QED BY <1>5, <3>1
    <3>3. Of(i) = s + x * f
      BY <3>1, SummedStep
    <3>4. y \in Int /\ Worth(a, w, i) = y + x * p
      <4> HIDE DEF w, n
      <4> QED BY <1>1, <1>3, <3>1, WorthStep
    <3>5. Congruent(f, p * v, P)
      BY <1>2, <3>1
    <3>6. f \in Int
      BY <3>1, RowFacts
    <3>7. x \in Int
      BY <1>3, <3>1 DEF IsInts
    <3>8. p \in Nat
      <4> HIDE DEF w
      <4> QED BY <1>1, PowersFacts
    <3> HIDE DEF x, s, y, f, p, i, Of
    <3>9. y * v \in Int /\ p * v \in Int
      BY <1>2, <3>4, <3>8
    <3>10. Congruent(s + x * f, y * v + x * (p * v), P)
      BY <1>1, <3>2, <3>5, <3>6, <3>7, <3>9, CongruentPlus
    <3>11. y * v + x * (p * v) = (y + x * p) * v
      BY <1>2, <3>4, <3>7, <3>8
    <3>12. s + x * f \in Int
      BY <3>2, <3>6, <3>7
    <3>13. Of(i) \in Int /\ Congruent(Of(i), Worth(a, w, i) * v, P)
      BY <3>3, <3>4, <3>10, <3>11, <3>12
    <3> QED BY <3>13 DEF i
  <2>2. CASE ~(k + 1 <= n)
    BY <2>2
  <2> QED BY <2>1, <2>2
<1> HIDE DEF C
<1>6. l \in C
  BY <1>1, <1>4, <1>5, SetInduction
<1> QED BY <1>1, <1>6 DEF C, v


(* A limb of the product is what the rows come to.                         *)
Part(a, b, i) ==
  [j \in 1..LIMBS |-> IF i - j + 1 \in 1..LIMBS THEN a[j] * b[i - j + 1] ELSE 0]

LEMMA PartFacts ==
  ASSUME FieldAssumption, NEW a \in gf, NEW b \in gf, NEW i \in Int
  PROVE  IsInts(Part(a, b, i), LIMBS)
<1> DEFINE f == Part(a, b, i)
           n == LIMBS
<1>1. \A k \in 1..n : a[k] \in Int /\ b[k] \in Int
  BY DEF gf
<1>2. ASSUME NEW j \in 1..n PROVE f[j] \in Int
  <2>1. f[j] = IF i - j + 1 \in 1..n THEN a[j] * b[i - j + 1] ELSE 0
    BY Zenon DEF Part
  <2> HIDE DEF f, n
  <2>2. CASE i - j + 1 \in 1..n
    <3> DEFINE x == a[j]
               y == b[i - j + 1]
    <3>1. x \in Int /\ y \in Int
      BY <1>1, <2>2
    <3>2. f[j] = x * y
      BY <2>1, <2>2, Zenon
    <3> HIDE DEF x, y
    <3> QED BY <3>1, <3>2
  <2>3. CASE ~(i - j + 1 \in 1..n)
    BY <2>1, <2>3
  <2> QED BY <2>2, <2>3
<1> HIDE DEF f
<1> QED BY <1>2 DEF IsInts, f

LEMMA LimbOfProduct ==
  ASSUME FieldAssumption, NEW a \in gf, NEW b \in gf, NEW i \in 1..LIMBS
  PROVE  SumTo(Term(a, b, i), LIMBS)
           = IF i < LIMBS
             THEN SumTo(Part(a, b, i), LIMBS) + 38 * SumTo(Part(a, b, i + LIMBS), LIMBS)
             ELSE SumTo(Part(a, b, i), LIMBS)
<1> DEFINE n == LIMBS
           h == Term(a, b, i)
           f == Part(a, b, i)
           g == Part(a, b, i + n)
<1>1. n \in Nat /\ n > 1
  BY FieldSizes
<1>2. i \in Int /\ i + n \in Int
  BY <1>1
<1>3. IsInts(f, n) /\ IsInts(g, n)
  BY <1>2, PartFacts
<1>4. ASSUME NEW j \in 1..n
      PROVE  /\ j <= i => h[j] = f[j] /\ g[j] = 0
             /\ ~(j <= i) => h[j] = 38 * g[j] /\ f[j] = 0 /\ g[j] \in Int
             /\ f[j] \in Int
  <2> DEFINE x == a[j]
             y == b[i - j + 1]
             z == b[i + n - j + 1]
  <2>1. f[j] = (IF i - j + 1 \in 1..n THEN x * y ELSE 0)
        /\ g[j] = (IF i + n - j + 1 \in 1..n THEN x * z ELSE 0)
    <3>1. f[j] = IF i - j + 1 \in 1..n THEN x * y ELSE 0
      BY Zenon DEF Part
    <3>2. g[j] = IF (i + n) - j + 1 \in 1..n THEN x * b[(i + n) - j + 1] ELSE 0
      BY Zenon DEF Part
    <3>3. (i + n) - j + 1 = i + n - j + 1
      BY <1>1
    <3> QED BY <3>1, <3>2, <3>3, Zenon
  <2>2. h[j] = x * (IF j <= i THEN y ELSE 38 * z)
    BY Zenon DEF Term, RowOf
  <2>3. x \in Int /\ \A k \in 1..n : b[k] \in Int
    BY DEF gf
  <2>4. f[j] \in Int /\ g[j] \in Int
    BY <1>3 DEF IsInts
  <2>5. ASSUME j <= i PROVE h[j] = f[j] /\ g[j] = 0
    <3>1. i - j + 1 \in 1..n /\ ~(i + n - j + 1 \in 1..n)
      BY <1>1, <2>5
    <3>2. f[j] = x * y /\ g[j] = 0
      BY <2>1, <3>1, Zenon
    <3>3. h[j] = x * y
      <4> HIDE DEF x, y, z, h
      <4> QED BY <2>2, <2>5
    <3> QED BY <3>2, <3>3, Zenon
  <2>6. ASSUME ~(j <= i) PROVE h[j] = 38 * g[j] /\ f[j] = 0
    <3>1. i + n - j + 1 \in 1..n /\ ~(i - j + 1 \in 1..n)
      BY <1>1, <2>6
    <3>2. h[j] = x * (38 * z) /\ g[j] = x * z /\ f[j] = 0
      <4>1. g[j] = x * z /\ f[j] = 0
        BY <2>1, <3>1, Zenon
      <4> HIDE DEF x, y, z, h
      <4>2. h[j] = x * (38 * z)
        BY <2>2, <2>6
      <4> QED BY <4>1, <4>2, Zenon
    <3>3. z \in Int
      BY <2>3, <3>1
    <3> HIDE DEF f, g, h, x, z
    <3>4. x * (38 * z) = 38 * (x * z)
      BY <2>3, <3>3
    <3> QED BY <3>2, <3>4
  <2> HIDE DEF f, g, h
  <2> QED BY <2>4, <2>5, <2>6
<1> HIDE DEF f, g, h
<1>5. CASE i < n
  <2>1. \A j \in 1..n : h[j] = f[j] + 38 * g[j]
    <3>1. ASSUME NEW j \in 1..n PROVE h[j] = f[j] + 38 * g[j]
      <4>1. CASE j <= i
        BY <1>4, <4>1
      <4>2. CASE ~(j <= i)
        BY <1>4, <4>2
      <4> QED BY <4>1, <4>2
    <3> QED BY <3>1
  <2>2. SumTo(h, n) = SumTo(f, n) + 38 * SumTo(g, n)
    <3> HIDE DEF n
    <3> QED BY <1>1, <1>3, <2>1, SumPlus
  <2> QED BY <1>5, <2>2, Zenon DEF f, g, h
<1>6. CASE ~(i < n)
  <2>1. \A j \in 1..n : h[j] = f[j]
    BY <1>1, <1>4, <1>6
  <2>2. SumTo(h, n) = SumTo(f, n)
    <3> HIDE DEF n
    <3> QED BY <1>1, <1>3, <2>1, SumSame
  <2> QED BY <1>6, <2>2, Zenon DEF f, h
<1> QED BY <1>5, <1>6

LEMMA ProductIsSummed ==
  ASSUME FieldAssumption, NEW a \in gf, NEW b \in gf
  PROVE  Product(a, b) = Summed(a, b, LIMBS) /\ Product(a, b) \in gf
<1> DEFINE n == LIMBS
           s == Summed(a, b, n)
           f == [i \in 1..n |->
                   IF i < n THEN SumTo(Part(a, b, i), n) + 38 * SumTo(Part(a, b, i + n), n)
                   ELSE SumTo(Part(a, b, i), n)]
<1>1. n \in Nat
  BY FieldSizes
<1>2. Product(a, b) = SubSeq(f, 1, n)
  BY Zenon DEF Product, Array, Part
<1>3. f = s
  <2>1. \A i \in 1..n : f[i] = SumTo(Term(a, b, i), n)
    BY LimbOfProduct
  <2>2. f = [i \in 1..n |-> SumTo(Term(a, b, i), n)]
    BY <2>1, Zenon
  <2> QED BY <2>2, Zenon DEF Summed
<1>4. s \in [1..n -> Int]
  <2>1. ASSUME NEW i \in 1..n PROVE SumTo(Term(a, b, i), n) \in Int
    <3> DEFINE t == Term(a, b, i)
    <3>1. IsInts(t, n)
      BY TermFacts
    <3> HIDE DEF t, n
    <3>2. SumTo(t, n) \in Int
      BY <1>1, <3>1, SumIsInt
    <3> QED BY <3>2 DEF t
  <2> QED BY <2>1 DEF Summed
<1> HIDE DEF f, s
<1>5. SubSeq(s, 1, n) = s
  BY <1>1, <1>4, WholeArray
<1> QED BY <1>2, <1>3, <1>4, <1>5 DEF s, n, gf

(* The limbs of the product, by the largest limbs of its factors.          *)
LEMMA ProductWithin ==
  ASSUME FieldAssumption, NEW a \in gf, NEW b \in gf, NEW x \in Nat, NEW y \in Nat,
         AreWithin(a, x, LIMBS), AreWithin(b, y, LIMBS)
  PROVE  AreWithin(Product(a, b), LIMBS * (x * (38 * y)), LIMBS)
<1> DEFINE n == LIMBS
           M38 == x * (38 * y)
<1>1. n \in Nat
  BY FieldSizes
<1>2. M38 \in Nat
  OBVIOUS
<1>3. \A j \in 1..n : a[j] \in Int /\ -x <= a[j] /\ a[j] <= x
  BY DEF AreWithin
<1>4. \A j \in 1..n : b[j] \in Int /\ -y <= b[j] /\ b[j] <= y
  BY DEF AreWithin
<1>5. ASSUME NEW i \in 1..n, NEW j \in 1..n
      PROVE  /\ RowOf(b, j)[i] \in Int /\ -(38 * y) <= RowOf(b, j)[i]
             /\ RowOf(b, j)[i] <= 38 * y
  <2> DEFINE r == RowOf(b, j)[i]
  <2>1. r = IF j <= i THEN b[i - j + 1] ELSE 38 * b[i + n - j + 1]
    BY Zenon DEF RowOf
  <2> HIDE DEF r, n
  <2>2. CASE j <= i
    <3>1. i - j + 1 \in 1..n
      BY <1>1, <2>2
    <3> DEFINE z == b[i - j + 1]
    <3>2. z \in Int /\ -y <= z /\ z <= y /\ r = z
      BY <1>4, <2>1, <2>2, <3>1
    <3> HIDE DEF z
    <3>3. r \in Int /\ -(38 * y) <= r /\ r <= 38 * y
      BY <3>2
    <3> QED BY <3>3 DEF r
  <2>3. CASE ~(j <= i)
    <3>1. i + n - j + 1 \in 1..n
      BY <1>1, <2>3
    <3> DEFINE z == b[i + n - j + 1]
    <3>2. z \in Int /\ -y <= z /\ z <= y /\ r = 38 * z
      BY <1>4, <2>1, <2>3, <3>1
    <3> HIDE DEF z
    <3>3. r \in Int /\ -(38 * y) <= r /\ r <= 38 * y
      BY <3>2
    <3> QED BY <3>3 DEF r
  <2> QED BY <2>2, <2>3
<1>6. ASSUME NEW i \in 1..n, NEW j \in 1..n
      PROVE  /\ Term(a, b, i)[j] \in Int /\ -M38 <= Term(a, b, i)[j]
             /\ Term(a, b, i)[j] <= M38
  <2> DEFINE u == a[j]
             r == RowOf(b, j)[i]
             c == 38 * y
             t == Term(a, b, i)[j]
  <2>1. t = u * r
    BY Zenon DEF Term
  <2>2. u \in Int /\ -x <= u /\ u <= x
    BY <1>3
  <2>3. r \in Int /\ -c <= r /\ r <= c
    BY <1>5
  <2>4. c \in Nat
    OBVIOUS
  <2> HIDE DEF u, r, c, t
  <2>5. u * r \in Int /\ -(x * c) <= u * r /\ u * r <= x * c
    BY <2>2, <2>3, <2>4, ProductBetween
  <2> QED BY <2>1, <2>5 DEF c, t
<1>7. ASSUME NEW i \in 1..n
      PROVE  /\ Summed(a, b, n)[i] \in Int /\ -(n * M38) <= Summed(a, b, n)[i]
             /\ Summed(a, b, n)[i] <= n * M38
  <2> DEFINE f == Term(a, b, i)
  <2>1. Summed(a, b, n)[i] = SumTo(f, n)
    BY Zenon DEF Summed
  <2>2. AreWithin(f, M38, n)
    BY <1>6 DEF AreWithin
  <2> HIDE DEF f, M38, n
  <2>3. SumTo(f, n) \in Int /\ -(n * M38) <= SumTo(f, n) /\ SumTo(f, n) <= n * M38
    BY <1>1, <1>2, <2>2, SumLimits
  <2> QED BY <2>1, <2>3
<1> QED BY <1>7, ProductIsSummed DEF AreWithin


-----------------------------------------------------------------------------
(* Sums, differences and products of numbers.                              *)

Loose(a) == a \in gf /\ AreWithin(a, LOOSE, LIMBS)

LEMMA LooseFacts ==
  ASSUME FieldAssumption
  PROVE  /\ LIMBS * (LOOSE * (38 * LOOSE)) <= LIMIT /\ LOOSE <= LIMIT
         /\ \A a : Tight(a) => Loose(a)
         /\ \A a : Loose(a) => Modest(a)
<1> DEFINE n == LIMBS
           l == LOOSE
           w == RADIX
<1>1. /\ n \in Nat /\ n > 1 /\ w \in Nat /\ w >= 256 /\ LIMIT \in Nat /\ l = 3 * (w + 38)
  BY FieldSizes DEF LOOSE, SINGLE
<1>2. l \in Nat /\ l > 0
  <2> HIDE DEF l
  <2> QED BY <1>1
<1>3. 38 * n * l * l <= LIMIT
  BY DEF FieldAssumption
<1> HIDE DEF l
<1>4. 38 * n * l * l = n * (l * (38 * l)) /\ n * (l * (38 * l)) \in Nat
  BY <1>1, <1>2
<1>5. n * (l * (38 * l)) >= l
  <2> DEFINE q == l * (38 * l)
  <2>1. q \in Nat /\ q >= l
    <3>1. 38 * l \in Nat /\ 38 * l >= 1
      BY <1>2
    <3> DEFINE r == 38 * l
    <3> HIDE DEF r
    <3>2. l * r >= l * 1 /\ l * r \in Nat
      BY <1>2, <3>1 DEF r
    <3> QED BY <1>2, <3>2 DEF r
  <2> HIDE DEF q
  <2>2. n * q >= 1 * q
    BY <1>1, <2>1
  <2> QED BY <1>1, <1>2, <2>1, <2>2 DEF q
<1>6. n * (l * (38 * l)) <= LIMIT /\ l <= LIMIT
  <2> DEFINE q == n * (l * (38 * l))
  <2> HIDE DEF q
  <2>1. q <= LIMIT /\ q \in Nat /\ q >= l
    BY <1>3, <1>4, <1>5, Zenon DEF q
  <2> QED BY <1>1, <1>2, <2>1 DEF q
<1>7. ASSUME NEW a, Tight(a) PROVE Loose(a)
  <2>1. /\ a \in gf /\ -38 <= a[1] /\ a[1] <= w + 37
        /\ \A i \in 2..n : a[i] \in 0..(w - 1)
    BY <1>7 DEF Tight
  <2>2. \A k \in 1..n : a[k] \in Int
    BY <2>1 DEF gf
  <2> HIDE DEF w, n
  <2>3. ASSUME NEW k \in 1..n PROVE a[k] \in Int /\ -l <= a[k] /\ a[k] <= l
    <3>1. CASE k = 1
      BY <1>1, <2>1, <2>2, <3>1
    <3>2. CASE k # 1
      <4>1. k \in 2..n
        BY <1>1, <3>2
      <4>2. a[k] \in 0..(w - 1)
        BY <2>1, <4>1
      <4> QED BY <1>1, <4>2
    <3> QED BY <3>1, <3>2
  <2> QED BY <2>1, <2>3 DEF Loose, AreWithin, l, n
<1>8. ASSUME NEW a, Loose(a) PROVE Modest(a)
  <2>1. a \in gf /\ \A k \in 1..n : a[k] \in Int /\ -l <= a[k] /\ a[k] <= l
    BY <1>8 DEF Loose, AreWithin, l
  <2>2. ASSUME NEW k \in 1..n PROVE a[k] \in Int /\ -LIMIT <= a[k] /\ a[k] <= LIMIT
    BY <1>1, <1>2, <1>6, <2>1
  <2> QED BY <2>1, <2>2 DEF Modest, AreWithin
<1> QED BY <1>6, <1>7, <1>8 DEF n, l

(* What limbs stand for, told from another number that is the same.        *)
LEMMA ElementOf ==
  ASSUME FieldAssumption, NEW a \in gf, NEW u \in Int, Congruent(WorthOf(a), u, P)
  PROVE  Element(a) = u % P
<1> DEFINE x == WorthOf(a)
           y == Element(a)
<1>1. x \in Int /\ y \in 0..(P - 1) /\ Congruent(y, x, P)
  BY ElementFacts
<1>2. Congruent(x, u, P)
  OBVIOUS
<1>3. P \in Nat /\ P > 0
  BY FieldSizes
<1> HIDE DEF x, y
<1>4. y \in Int
  BY <1>1, <1>3
<1>5. Congruent(y, u, P)
  BY <1>1, <1>2, <1>3, <1>4, CongruentTrans
<1>6. Congruent(u, y, P)
  BY <1>3, <1>4, <1>5, CongruentBack
<1>7. u % P = y
  BY <1>1, <1>3, <1>6, IntCongruentRemainder
<1> QED BY <1>7 DEF y

(* The remainder of a sum, of a difference and of a product is that of the *)
(* remainders.                                                             *)
LEMMA RemaindersPlus ==
  ASSUME NEW q \in Nat, q > 0, NEW a \in Int, NEW b \in Int, NEW k \in Int
  PROVE  /\ (a % q) + k * (b % q) \in Int /\ a + k * b \in Int
         /\ Congruent(a + k * b, (a % q) + k * (b % q), q)
<1> DEFINE x == a % q
           y == b % q
<1>1. x \in 0..(q - 1) /\ Congruent(x, a, q) /\ y \in 0..(q - 1) /\ Congruent(y, b, q)
  BY IntCongruentRemainder
<1> HIDE DEF x, y
<1>2. x \in Int /\ y \in Int
  BY <1>1
<1>3. Congruent(a, x, q) /\ Congruent(b, y, q)
  BY <1>1, <1>2, CongruentBack
<1>4. Congruent(a + k * b, x + k * y, q)
  BY <1>2, <1>3, CongruentPlus
<1>5. x + k * y \in Int /\ a + k * b \in Int
  BY <1>2
<1> QED BY <1>4, <1>5 DEF x, y

LEMMA RemaindersTimes ==
  ASSUME NEW q \in Nat, q > 0, NEW a \in Int, NEW b \in Int
  PROVE  /\ (a % q) * (b % q) \in Int /\ a * b \in Int
         /\ Congruent(a * b, (a % q) * (b % q), q)
<1> DEFINE x == a % q
           y == b % q
<1>1. x \in 0..(q - 1) /\ Congruent(x, a, q) /\ y \in 0..(q - 1) /\ Congruent(y, b, q)
  BY IntCongruentRemainder
<1> HIDE DEF x, y
<1>2. x \in Int /\ y \in Int
  BY <1>1
<1>3. Congruent(a, x, q) /\ Congruent(b, y, q)
  BY <1>1, <1>2, CongruentBack
<1>4. Congruent(a * b, a * y, q)
  BY <1>2, <1>3, CongruentTimes
<1>5. Congruent(y * a, y * x, q)
  BY <1>2, <1>3, CongruentTimes
<1>6. y * a = a * y /\ y * x = x * y /\ a * b \in Int /\ a * y \in Int /\ x * y \in Int
  BY <1>2
<1>7. Congruent(a * y, x * y, q)
  BY <1>5, <1>6
<1>8. Congruent(a * b, x * y, q)
  BY <1>4, <1>6, <1>7, CongruentTrans
<1> QED BY <1>6, <1>8 DEF x, y

LEMMA CongruentElements ==
  ASSUME FieldAssumption, NEW u \in Int, NEW v \in Int, Congruent(u, v, P)
  PROVE  u % P = v % P
<1>1. P \in Nat /\ P > 0
  BY FieldSizes
<1> DEFINE y == v % P
<1>2. y \in 0..(P - 1) /\ Congruent(y, v, P)
  BY <1>1, IntCongruentRemainder
<1> HIDE DEF y
<1>3. y \in Int
  BY <1>1, <1>2
<1>4. Congruent(v, y, P)
  BY <1>1, <1>2, <1>3, CongruentBack
<1>5. Congruent(u, y, P)
  BY <1>1, <1>3, <1>4, CongruentTrans
<1>6. u % P = y
  BY <1>1, <1>2, <1>5, IntCongruentRemainder
<1> QED BY <1>6 DEF y

(* The sum of so many numbers that carrying left: such a number itself, or *)
(* its negative, is one.                                                   *)
Within(a, j) == a \in gf /\ AreWithin(a, j * SINGLE, LIMBS)

LEMMA WithinFacts ==
  ASSUME FieldAssumption
  PROVE  /\ \A a : Tight(a) => Within(a, 1)
         /\ \A a : Loose(a) <=> Within(a, 3)
         /\ \A a : \A i, j \in Nat : Within(a, i) /\ i <= j => Within(a, j)
<1> DEFINE n == LIMBS
           w == RADIX
           l == SINGLE
<1>1. n \in Nat /\ n > 1 /\ w \in Nat /\ w >= 256 /\ l = w + 38
  BY FieldSizes DEF SINGLE
<1>2. l \in Nat /\ 1 * l = l
  <2> HIDE DEF l
  <2> QED BY <1>1
<1>3. ASSUME NEW a, Tight(a) PROVE Within(a, 1)
  <2>1. /\ a \in gf /\ -38 <= a[1] /\ a[1] <= w + 37
        /\ \A i \in 2..n : a[i] \in 0..(w - 1)
    BY <1>3 DEF Tight
  <2>2. \A k \in 1..n : a[k] \in Int
    BY <2>1 DEF gf
  <2> HIDE DEF w, n, l
  <2>3. ASSUME NEW k \in 1..n PROVE a[k] \in Int /\ -l <= a[k] /\ a[k] <= l
    <3>1. CASE k = 1
      BY <1>1, <2>1, <2>2, <3>1
    <3>2. CASE k # 1
      <4>1. k \in 2..n
        BY <1>1, <3>2
      <4>2. a[k] \in 0..(w - 1)
        BY <2>1, <4>1
      <4> QED BY <1>1, <4>2
    <3> QED BY <3>1, <3>2
  <2>4. AreWithin(a, l, n)
    BY <2>3 DEF AreWithin
  <2>5. AreWithin(a, 1 * l, n)
    BY <1>2, <2>4, Zenon
  <2> QED BY <2>1, <2>5 DEF Within, l, n
<1>4. \A a : Loose(a) <=> Within(a, 3)
  BY DEF Loose, Within, LOOSE
<1>5. ASSUME NEW a, NEW i \in Nat, NEW j \in Nat, Within(a, i), i <= j PROVE Within(a, j)
  <2> DEFINE x == i * l
             y == j * l
  <2>1. x \in Nat /\ y \in Nat /\ x <= y
    <3>1. (j - i) * l \in Nat /\ y = x + (j - i) * l
      <4> HIDE DEF l
      <4> QED BY <1>2, <1>5
    <3> HIDE DEF l
    <3> QED BY <1>2, <3>1
  <2>2. a \in gf /\ AreWithin(a, x, n)
    BY <1>5 DEF Within
  <2> HIDE DEF x, y, n
  <2>3. AreWithin(a, y, n)
    BY <2>1, <2>2 DEF AreWithin
  <2> QED BY <2>2, <2>3 DEF Within, y, n
<1> QED BY <1>3, <1>4, <1>5

(* A and Z: the limbs of the result, and the number, which is the sum, or  *)
(* the difference.                                                         *)
LEMMA SumLimbs ==
  ASSUME FieldAssumption, NEW i \in Nat, NEW j \in Nat, NEW a, Within(a, i),
         NEW b, Within(b, j), NEW k \in {1, -1}, NEW s,
         s = [t \in 1..LIMBS |-> a[t] + k * b[t]]
  PROVE  Within(s, i + j) /\ Element(s) = (Element(a) + k * Element(b)) % P
<1> DEFINE n == LIMBS
           w == RADIX
           l == SINGLE
           c == i * l
           d == j * l
<1>1. /\ n \in Nat /\ n > 1 /\ w \in Nat /\ w >= 256 /\ l = w + 38 /\ P \in Nat /\ P > 0
      /\ k \in Int
  BY FieldSizes DEF SINGLE
<1>2. a \in gf /\ b \in gf /\ AreWithin(a, c, n) /\ AreWithin(b, d, n)
  BY DEF Within
<1>3. IsInts(a, n) /\ IsInts(b, n)
  BY <1>2 DEF IsInts, gf
<1>4. \A t \in 1..n : s[t] = a[t] + k * b[t]
  BY Zenon
<1>5. c \in Nat /\ d \in Nat /\ (i + j) * l = c + d
  <2>1. l \in Nat
    <3> HIDE DEF l
    <3> QED BY <1>1
  <2> HIDE DEF l
  <2> QED BY <2>1
<1> HIDE DEF c, d, l
<1>6. ASSUME NEW t \in 1..n PROVE s[t] \in Int /\ -(c + d) <= s[t] /\ s[t] <= c + d
  <2> DEFINE x == a[t]
             y == b[t]
  <2>1. x \in Int /\ y \in Int
    BY <1>3 DEF IsInts
  <2>2. -c <= x /\ x <= c /\ -d <= y /\ y <= d
    BY <1>2 DEF AreWithin
  <2>3. s[t] = x + y \/ s[t] = x - y
    <3>1. s[t] = x + k * y
      BY <1>4
    <3> HIDE DEF x, y
    <3> QED BY <2>1, <3>1
  <2> HIDE DEF x, y
  <2> QED BY <1>5, <2>1, <2>2, <2>3
<1>7. s \in gf
  <2>1. ASSUME NEW t \in 1..n PROVE a[t] + k * b[t] \in Int
    BY <1>4, <1>6
  <2> QED BY <2>1 DEF gf
<1>8. Within(s, i + j)
  <2>1. AreWithin(s, c + d, n)
    BY <1>6 DEF AreWithin
  <2> QED BY <1>5, <1>7, <2>1 DEF Within, l
<1>9. Worth(s, w, n) = Worth(a, w, n) + k * Worth(b, w, n)
  <2>1. IsAdded(s, a, k, b, n)
    BY <1>4, Zenon DEF IsAdded
  <2>2. w \in Nat /\ w > 0
    BY <1>1
  <2> HIDE DEF w, n
  <2> QED BY <1>1, <1>3, <2>1, <2>2, WorthPlus
<1> DEFINE x == WorthOf(a)
           y == WorthOf(b)
<1>10. WorthOf(s) = x + k * y
  BY <1>9, Zenon DEF WorthOf
<1>11. x \in Int /\ y \in Int /\ Element(a) = x % P /\ Element(b) = y % P
  BY <1>2, ElementFacts
<1> HIDE DEF x, y
<1>12. /\ (x % P) + k * (y % P) \in Int /\ x + k * y \in Int
       /\ Congruent(x + k * y, (x % P) + k * (y % P), P)
  BY <1>1, <1>11, RemaindersPlus
<1>13. Element(s) = (Element(a) + k * Element(b)) % P
  BY <1>7, <1>10, <1>11, <1>12, ElementOf
<1> QED BY <1>8, <1>13

(* The sum of two numbers, and their difference, where each may be a sum   *)
(* already: how large the limbs are that A and Z return, and that they     *)
(* stand for the sum or the difference modulo P.                           *)
THEOREM SumIsExact ==
  ASSUME FieldAssumption, NEW i \in Nat, NEW j \in Nat, NEW a, Within(a, i), NEW b, Within(b, j)
  PROVE  /\ Within(A(a, b), i + j) /\ Element(A(a, b)) = (Element(a) + Element(b)) % P
         /\ Within(Z(a, b), i + j) /\ Element(Z(a, b)) = (Element(a) - Element(b)) % P
<1> DEFINE n == LIMBS
           s == [t \in 1..n |-> a[t] + b[t]]
           d == [t \in 1..n |-> a[t] - b[t]]
<1>1. n \in Nat
  BY FieldSizes
<1>2. \A t \in 1..n : a[t] \in Int /\ b[t] \in Int
  BY DEF Within, gf
<1>3. A(a, b) = SubSeq(s, 1, n) /\ Z(a, b) = SubSeq(d, 1, n)
  BY Zenon DEF A, Z, Array
<1>4. s \in [1..n -> Int] /\ d \in [1..n -> Int]
  BY <1>2
<1>5. A(a, b) = s /\ Z(a, b) = d
  <2> HIDE DEF s, d
  <2> QED BY <1>1, <1>3, <1>4, WholeArray
<1>6. s = [t \in 1..n |-> a[t] + 1 * b[t]]
  <2>1. \A t \in 1..n : s[t] = a[t] + 1 * b[t]
    BY <1>2
  <2> QED BY <2>1
<1>7. d = [t \in 1..n |-> a[t] + (-1) * b[t]]
  <2>1. \A t \in 1..n : d[t] = a[t] + (-1) * b[t]
    BY <1>2
  <2> QED BY <2>1
<1>8. Element(a) \in Int /\ Element(b) \in Int
  <2>1. a \in gf /\ b \in gf
    BY DEF Within
  <2> QED BY <2>1, ElementFacts
<1> HIDE DEF s, d
<1>9. Within(s, i + j) /\ Element(s) = (Element(a) + 1 * Element(b)) % P
  <2>1. 1 \in {1, -1}
    OBVIOUS
  <2> QED BY <1>6, <2>1, SumLimbs
<1>10. Within(d, i + j) /\ Element(d) = (Element(a) + (-1) * Element(b)) % P
  <2>1. -1 \in {1, -1}
    OBVIOUS
  <2> QED BY <1>7, <2>1, SumLimbs
<1>11. Element(a) + 1 * Element(b) = Element(a) + Element(b)
       /\ Element(a) + (-1) * Element(b) = Element(a) - Element(b)
  BY <1>8
<1> QED BY <1>5, <1>9, <1>10, <1>11

LEMMA ProductFacts ==
  ASSUME FieldAssumption, NEW a, Loose(a), NEW b, Loose(b)
  PROVE  /\ Modest(Product(a, b))
         /\ WorthOf(a) * WorthOf(b) \in Int
         /\ Congruent(WorthOf(Product(a, b)), WorthOf(a) * WorthOf(b), P)
<1> DEFINE n == LIMBS
           l == LOOSE
           B == n * (l * (38 * l))
           s == Product(a, b)
<1>1. n \in Nat /\ l \in Nat /\ P \in Nat /\ RADIX \in Nat /\ RADIX > 0 /\ LIMIT \in Nat
  BY FieldSizes
<1>2. a \in gf /\ b \in gf /\ AreWithin(a, l, n) /\ AreWithin(b, l, n)
  BY DEF Loose
<1>3. B <= LIMIT
  BY LooseFacts
<1>4. AreWithin(s, B, n) /\ s \in gf
  BY <1>1, <1>2, ProductWithin, ProductIsSummed
<1>5. B \in Nat
  <2> HIDE DEF n, l
  <2> QED BY <1>1
<1>6. Modest(s)
  <2> HIDE DEF B, s
  <2>1. \A k \in 1..n : s[k] \in Int /\ -B <= s[k] /\ s[k] <= B
    BY <1>4 DEF AreWithin
  <2>2. \A k \in 1..n : s[k] \in Int /\ -LIMIT <= s[k] /\ s[k] <= LIMIT
    BY <1>1, <1>3, <1>5, <2>1
  <2> QED BY <1>4, <2>2 DEF Modest, AreWithin
<1>7. Congruent(WorthOf(Summed(a, b, n)), Worth(a, RADIX, n) * WorthOf(b), P)
  <2>1. n \in 0..n
    BY <1>1
  <2> QED BY <1>2, <2>1, SummedWorth
<1>8. Congruent(WorthOf(s), WorthOf(a) * WorthOf(b), P)
  BY <1>2, <1>7, ProductIsSummed, Zenon DEF WorthOf
<1>9. WorthOf(a) \in Int /\ WorthOf(b) \in Int
  BY <1>2, ElementFacts
<1>10. WorthOf(a) * WorthOf(b) \in Int
  BY <1>9
<1> QED BY <1>6, <1>8, <1>10

(* The product of two numbers, which may be sums or differences: M leaves  *)
(* limbs that can be added again, and stands for the product modulo P.     *)
THEOREM ProductIsExact ==
  ASSUME FieldAssumption, NEW a, Loose(a), NEW b, Loose(b)
  PROVE  Tight(M(a, b)) /\ Element(M(a, b)) = (Element(a) * Element(b)) % P
<1> DEFINE s == Product(a, b)
           o == M(a, b)
           x == WorthOf(a)
           y == WorthOf(b)
<1>1. Modest(s) /\ x * y \in Int /\ Congruent(WorthOf(s), x * y, P)
  BY ProductFacts
<1>2. o = car25519(car25519(s))
  BY Zenon DEF M
<1>3. Tight(o) /\ WorthOf(o) \in 0..(CAP - 1) /\ WorthOf(s) \in Int
      /\ Congruent(WorthOf(o), WorthOf(s), P)
  BY <1>1, <1>2, TwoCarries
<1>4. P \in Nat /\ P > 0 /\ CAP \in Nat
  BY FieldSizes
<1>5. a \in gf /\ b \in gf /\ o \in gf
  BY <1>3 DEF Loose, Tight
<1>6. x \in Int /\ y \in Int /\ Element(a) = x % P /\ Element(b) = y % P
  BY <1>5, ElementFacts
<1> HIDE DEF s, o, x, y
<1> DEFINE z == WorthOf(o)
           u == x * y
           v == (x % P) * (y % P)
<1>7. v \in Int /\ Congruent(u, v, P)
  BY <1>4, <1>6, RemaindersTimes
<1>8. z \in Int /\ u \in Int
  BY <1>1, <1>3, <1>4
<1>9. Congruent(z, u, P)
  <2> HIDE DEF u, z
  <2>1. Congruent(WorthOf(s), u, P) /\ Congruent(z, WorthOf(s), P) /\ WorthOf(s) \in Int
    BY <1>1, <1>3 DEF u, z
  <2> QED BY <1>4, <1>8, <2>1, CongruentTrans
<1> HIDE DEF u, v
<1>10. Congruent(z, v, P)
  BY <1>4, <1>7, <1>8, <1>9, CongruentTrans
<1>11. Element(o) = v % P
  BY <1>5, <1>7, <1>10, ElementOf
<1> QED BY <1>3, <1>6, <1>11 DEF o, v


-----------------------------------------------------------------------------
(* Numbers and their bytes.                                                *)

LEMMA DigitsFacts ==
  ASSUME FieldAssumption, NEW x \in 0..(CAP - 1)
  PROVE  /\ AreDigits(Digits(x), BYTE, BYTES) /\ Worth(Digits(x), BYTE, BYTES) = x
         /\ Digits(x)[1] = x % BYTE
         /\ \A j \in 1..BYTES : Digits(x)[j] = (x \div PowersOf(BYTE)[j - 1]) % BYTE
<1> DEFINE b == BYTE
           m == BYTES
           f == [j \in 1..m |-> (x \div PowersOf(b)[j - 1]) % b]
<1>1. b \in Nat /\ b > 0 /\ LIMBS \in Nat /\ LIMBS > 1 /\ m = 2 * LIMBS
  BY ByteFacts DEF BYTES
<1>2. m \in Nat /\ 1 \in 1..m
  BY <1>1
<1>3. Digits(x) = SubSeq(f, 1, m)
  BY Zenon DEF Digits, Array
<1>4. CAP \in Nat /\ CAP = PowersOf(b)[m] /\ x \in Nat
  <2>1. PowersOf(b)[2 * LIMBS] = PowersOf(RADIX)[LIMBS]
    BY <1>1, TwoBytes
  <2> QED BY <1>1, <2>1, FieldSizes DEF CAP
<1>5. \A j \in 1..m : f[j] = (x \div PowersOf(b)[j - 1]) % b
  BY Zenon
<1> HIDE DEF f, b, m
<1>6. AreDigits(f, b, m) /\ Worth(f, b, m) = x % PowersOf(b)[m]
  BY <1>1, <1>2, <1>4, <1>5, WorthOfDigits
<1>7. f \in [1..m -> Int]
  <2>1. \A j \in 1..m : f[j] \in Int
    BY <1>1, <1>6 DEF AreDigits
  <2> QED BY <2>1 DEF f
<1>8. Digits(x) = f
  BY <1>2, <1>3, <1>7, WholeArray
<1>9. x % CAP = x
  <2>1. x = 0 * CAP + x /\ CAP > 0 /\ 0 \in Nat
    BY <1>4
  <2> QED BY <1>4, <2>1, DivisionUnique
<1>10. f[1] = x % b
  <2>1. PowersOf(b)[1 - 1] = 1
    BY <1>1, PowersFacts
  <2>2. x \div 1 = x
    BY <1>4
  <2> QED BY <1>2, <1>5, <2>1, <2>2
<1>11. \A j \in 1..m : f[j] = (x \div PowersOf(b)[j - 1]) % b
  BY <1>5
<1> QED BY <1>4, <1>6, <1>8, <1>9, <1>10, <1>11 DEF b, m

(* neq25519 compares bytes, and so the numbers.                            *)
THEOREM NeqIsExact ==
  ASSUME FieldAssumption, NEW a, Modest(a), NEW b, Modest(b)
  PROVE  neq25519(a, b) <=> Element(a) # Element(b)
<1> DEFINE x == Element(a)
           y == Element(b)
<1>1. pack25519(a) = Digits(x) /\ pack25519(b) = Digits(y)
  BY PackIsCanonical
<1>2. P \in Nat /\ CAP \in Nat /\ CAP = 2 * P + 38
  BY FieldSizes
<1>3. x \in 0..(P - 1) /\ y \in 0..(P - 1)
  BY ElementFacts DEF Modest
<1> HIDE DEF x, y
<1>4. x \in 0..(CAP - 1) /\ y \in 0..(CAP - 1)
  BY <1>2, <1>3
<1>5. Worth(Digits(x), BYTE, BYTES) = x /\ Worth(Digits(y), BYTE, BYTES) = y
  BY <1>4, DigitsFacts
<1>6. Digits(x) = Digits(y) <=> x = y
  BY <1>5
<1>7. neq25519(a, b) <=> pack25519(a) # pack25519(b)
  BY DEF neq25519
<1> QED BY <1>1, <1>6, <1>7 DEF x, y

(* par25519 is the parity of the number below the prime. *)
THEOREM ParityIsExact ==
  ASSUME FieldAssumption, NEW a, Modest(a)
  PROVE  par25519(a) = Element(a) % 2
<1> DEFINE x == Element(a)
<1>1. P \in Nat /\ CAP \in Nat /\ CAP = 2 * P + 38
  BY FieldSizes
<1>2. x \in 0..(P - 1)
  BY ElementFacts DEF Modest
<1> HIDE DEF x
<1>3. x \in 0..(CAP - 1) /\ x \in Nat
  BY <1>1, <1>2
<1>4. par25519(a) = Digits(x)[1] % 2
  BY PackIsCanonical DEF par25519, x
<1>5. Digits(x)[1] = x % BYTE
  BY <1>3, DigitsFacts
<1>6. BYTE \in Nat /\ BYTE >= 16 /\ BYTE % 2 = 0
  BY ByteFacts
<1> DEFINE b == BYTE
           c == b \div 2
<1> HIDE DEF b
<1>7. b = c * 2 /\ c \in Nat /\ c > 0
  BY <1>6 DEF b
<1> HIDE DEF c
<1>8. (x % (c * 2)) % 2 = x % 2
  <2>1. 2 \in Nat /\ 2 > 0
    OBVIOUS
  <2> QED BY <1>3, <1>7, <2>1, NestedRemainder
<1>9. (x % b) % 2 = x % 2
  BY <1>7, <1>8
<1> QED BY <1>4, <1>5, <1>9 DEF x, b

(* The limbs of bytes, whatever the highest bit.                           *)
LEMMA UnpackFacts ==
  ASSUME FieldAssumption, NEW n, AreDigits(n, BYTE, BYTES)
  PROVE  /\ Tight(unpack25519(n)) /\ AreDigits(unpack25519(n), RADIX, LIMBS)
         /\ \A i \in 1..LIMBS :
              unpack25519(n)[i]
                = IF i = LIMBS THEN (n[2 * i - 1] + n[2 * i] * BYTE) % TOP
                  ELSE n[2 * i - 1] + n[2 * i] * BYTE
<1> DEFINE b == BYTE
           w == RADIX
           m == LIMBS
           t == TOP
           Limb(i) == n[2 * i - 1] + n[2 * i] * b
           f == [i \in 1..m |-> IF i = m THEN Limb(i) % t ELSE Limb(i)]
<1>1. /\ m \in Nat /\ m > 1 /\ b \in Nat /\ b > 0 /\ w \in Nat /\ w >= 256 /\ w = b * b
      /\ w = 2 * t /\ t \in Nat /\ BYTES = 2 * m
  BY FieldSizes, ByteFacts DEF RADIX, BYTES
<1>2. unpack25519(n) = SubSeq(f, 1, m)
  BY Zenon DEF unpack25519, Array
<1>3. \A j \in 1..BYTES : n[j] \in 0..(b - 1)
  BY DEF AreDigits
<1>4. ASSUME NEW i \in 1..m PROVE Limb(i) \in 0..(w - 1)
  <2>1. 2 * i - 1 \in 1..BYTES /\ 2 * i \in 1..BYTES
    BY <1>1
  <2> DEFINE x == n[2 * i - 1]
             y == n[2 * i]
  <2>2. x \in 0..(b - 1) /\ y \in 0..(b - 1)
    BY <1>3, <2>1
  <2> HIDE DEF x, y, b, w, m, t
  <2>3. x + y * b \in 0..(b * b - 1)
    <3>1. (y + 1) * b <= b * b /\ (y + 1) * b = y * b + b /\ y * b \in Nat
      <4>1. y + 1 \in Nat /\ y + 1 <= b
        BY <1>1, <2>2
      <4> QED BY <1>1, <2>2, <4>1
    <3> QED BY <1>1, <2>2, <3>1
  <2> QED BY <1>1, <2>3 DEF x, y
<1> HIDE DEF Limb
<1>5. ASSUME NEW i \in 1..m PROVE f[i] \in 0..(w - 1)
  <2>1. f[i] = IF i = m THEN Limb(i) % t ELSE Limb(i)
    OBVIOUS
  <2>2. Limb(i) \in 0..(w - 1)
    BY <1>4
  <2> DEFINE x == Limb(i)
  <2> HIDE DEF x, f, w, t, m
  <2>3. x % t \in 0..(w - 1)
    <3>1. x \in Nat /\ t > 0
      BY <1>1, <2>2 DEF x
    <3>2. x % t \in 0..(t - 1)
      BY <1>1, <3>1
    <3> QED BY <1>1, <3>2
  <2> QED BY <2>1, <2>2, <2>3 DEF x
<1>6. f \in [1..m -> Int]
  <2>1. \A i \in 1..m : f[i] \in Int
    <3> HIDE DEF f, w, m
    <3> QED BY <1>1, <1>5
  <2> QED BY <2>1
<1>7. unpack25519(n) = f
  <2> HIDE DEF f, m
  <2> QED BY <1>1, <1>2, <1>6, WholeArray
<1>8. Tight(f) /\ AreDigits(f, w, m)
  <2>1. f \in gf
    BY <1>6 DEF gf
  <2> HIDE DEF f
  <2>2. AreDigits(f, w, m)
    BY <1>5 DEF AreDigits
  <2>3. 1 \in 1..m /\ 2..m \subseteq 1..m
    BY <1>1
  <2>4. f[1] \in 0..(w - 1)
    BY <1>5, <2>3
  <2>5. -38 <= f[1] /\ f[1] <= w + 37
    <3> HIDE DEF w
    <3> QED BY <1>1, <2>4
  <2>6. \A i \in 2..m : f[i] \in 0..(w - 1)
    BY <1>5, <2>3
  <2> QED BY <2>1, <2>2, <2>5, <2>6 DEF Tight
<1>9. \A i \in 1..m : f[i] = IF i = m THEN Limb(i) % t ELSE Limb(i)
  OBVIOUS
<1> QED BY <1>7, <1>8, <1>9, Zenon DEF Limb


(* The number that unpack25519 reads is that of the bytes, but for the     *)
(* highest bit.                                                            *)
THEOREM UnpackIsExact ==
  ASSUME FieldAssumption, NEW n, AreDigits(n, BYTE, BYTES)
  PROVE  /\ Tight(unpack25519(n))
         /\ Element(unpack25519(n)) = (Worth(n, BYTE, BYTES) % (P + 19)) % P
<1> DEFINE b == BYTE
           w == RADIX
           m == LIMBS
           t == TOP
           u == unpack25519(n)
           x == Worth(n, b, BYTES)
           K == m - 1
           p == PowersOf(w)[K]
           Limb(i) == n[2 * i - 1] + n[2 * i] * b
           g == [i \in 1..m |-> (x \div PowersOf(w)[i - 1]) % w]
<1>1. /\ m \in Nat /\ m > 1 /\ b \in Nat /\ b > 0 /\ w \in Nat /\ w >= 256 /\ w = b * b
      /\ w = 2 * t /\ t \in Nat /\ BYTES = 2 * m /\ CAP \in Nat /\ CAP = w * p
      /\ CAP = 2 * P + 38 /\ P \in Nat
  <2>1. /\ RADIX \in Nat /\ RADIX >= 256 /\ LIMBS \in Nat /\ LIMBS > 1 /\ P \in Nat
        /\ CAP = RADIX * PowersOf(RADIX)[LIMBS - 1] /\ CAP = 2 * P + 38 /\ CAP \in Nat
        /\ RADIX = 2 * TOP /\ TOP \in Nat
    BY FieldSizes
  <2>2. BYTE \in Nat /\ BYTE > 0 /\ RADIX = BYTE * BYTE /\ BYTES = 2 * LIMBS
    BY ByteFacts DEF RADIX, BYTES
  <2>3. CAP = w * p
    BY <2>1, Zenon
  <2> HIDE DEF p
  <2> QED BY <2>1, <2>2, <2>3
<1>2. /\ Tight(u) /\ AreDigits(u, w, m)
      /\ \A i \in 1..m : u[i] = IF i = m THEN Limb(i) % t ELSE Limb(i)
  BY UnpackFacts
<1>3. x \in Nat /\ x < CAP
  <2>1. PowersOf(b)[2 * m] = PowersOf(w)[m]
    BY <1>1, TwoBytes
  <2>2. BYTES \in Nat /\ CAP = PowersOf(b)[BYTES]
    BY <1>1, <2>1 DEF CAP
  <2> HIDE DEF b
  <2> QED BY <1>1, <2>2, WorthBound DEF b
<1>4. ASSUME NEW i \in 1..m PROVE Limb(i) = (x \div PowersOf(w)[i - 1]) % w
  <2> DEFINE k == i - 1
             q == PowersOf(w)[k]
             y == x \div q
  <2>1. /\ k \in Nat /\ 2 * i - 1 \in 1..BYTES /\ 2 * i \in 1..BYTES
        /\ (2 * i - 1) - 1 = 2 * k /\ 2 * i - 1 = 2 * k + 1 /\ BYTES \in Nat
    BY <1>1
  <2>2. q \in Nat /\ q > 0 /\ PowersOf(b)[2 * k] = q /\ PowersOf(b)[2 * k + 1] = b * q
    BY <2>1, TwoBytes
  <2>3. /\ n[2 * i - 1] = (x \div PowersOf(b)[(2 * i - 1) - 1]) % b
        /\ n[2 * i] = (x \div PowersOf(b)[2 * i - 1]) % b
    <3> HIDE DEF b
    <3>1. \A j \in 1..BYTES : (Worth(n, b, BYTES) \div PowersOf(b)[j - 1]) % b = n[j]
      BY <1>1, <2>1, WorthDigit DEF b
    <3> QED BY <2>1, <3>1, Zenon
  <2>4. n[2 * i - 1] = (x \div q) % b /\ n[2 * i] = (x \div (b * q)) % b
    BY <2>1, <2>2, <2>3, Zenon
  <2> HIDE DEF x, q, b, w, m, k
  <2>5. x \div (b * q) = (x \div q) \div b
    BY <1>1, <1>3, <2>2, NestedDivision
  <2>6. y \in Nat
    BY <1>3, <2>2, Division
  <2> HIDE DEF y
  <2>7. y % (b * b) = (y % b) + ((y \div b) % b) * b
    BY <1>1, <2>6, RemainderGrows
  <2>8. Limb(i) = y % w
    BY <1>1, <2>4, <2>5, <2>7 DEF y
  <2> QED BY <2>8 DEF y, q, k
<1> HIDE DEF Limb
<1>5. AreDigits(g, w, m) /\ Worth(g, w, m) = x
  <2>1. \A i \in 1..m : g[i] = (x \div PowersOf(w)[i - 1]) % w
    BY Zenon
  <2>2. CAP = PowersOf(w)[m]
    BY DEF CAP
  <2> HIDE DEF g, x, w, m
  <2>3. AreDigits(g, w, m) /\ Worth(g, w, m) = x % CAP
    <3>1. w \in Nat /\ w > 0 /\ m \in Nat /\ x \in Nat
      BY <1>1, <1>3
    <3>2. AreDigits(g, w, m) /\ Worth(g, w, m) = x % PowersOf(w)[m]
      BY <2>1, <3>1, WorthOfDigits, Zenon
    <3> QED BY <2>2, <3>2, Zenon
  <2>4. x % CAP = x
    <3>1. x = 0 * CAP + x /\ CAP > 0 /\ 0 \in Nat /\ x \in 0..(CAP - 1)
      BY <1>1, <1>3
    <3> QED BY <1>1, <3>1, DivisionUnique
  <2> QED BY <2>3, <2>4
<1>6. \A i \in 1..m : g[i] = Limb(i)
  BY <1>4
<1>7. K \in Nat /\ K < m /\ m = K + 1 /\ m \in 1..m
  BY <1>1
<1> HIDE DEF g, x, w, b, t, u, K, m
<1>8. p \in Nat /\ p > 0
  <2>1. w > 0
    BY <1>1
  <2> QED BY <1>1, <1>7, <2>1, PowersFacts
<1>9. IsInts(g, m) /\ IsInts(u, m) /\ AreDigits(u, w, K)
  <2>1. 1..K \subseteq 1..m
    BY <1>7
  <2>2. AreDigits(u, w, K)
    BY <1>2, <2>1 DEF AreDigits
  <2> QED BY <1>1, <1>2, <1>5, <2>2, DigitsAreInts
<1>10. Worth(u, w, K) = Worth(g, w, K)
  <2>1. IsInts(g, K) /\ \A k \in 1..K : u[k] = g[k]
    <3>1. ASSUME NEW k \in 1..K PROVE g[k] \in Int /\ u[k] = g[k]
      <4>1. k \in 1..m /\ k # m
        BY <1>7
      <4> QED BY <1>2, <1>6, <1>9, <4>1 DEF IsInts
    <3> QED BY <3>1 DEF IsInts
  <2>2. w \in Nat /\ w > 0
    BY <1>1
  <2> QED BY <1>7, <2>1, <2>2, WorthSame
<1> DEFINE y == Worth(u, w, K)
           r == u[m]
           h == g[m]
           c == h \div t
           half == t * p
           z == y + r * p
<1>11. y \in Nat /\ y < p
  <2>1. w > 0
    BY <1>1
  <2> QED BY <1>1, <1>7, <1>9, <2>1, WorthBound
<1>12. Worth(u, w, m) = z /\ x = y + h * p
  <2>1. w \in Nat /\ w > 0
    BY <1>1
  <2>2. Worth(u, w, K + 1) = Worth(u, w, K) + u[K + 1] * PowersOf(w)[K]
    BY <1>1, <1>7, <1>9, <2>1, WorthStep
  <2>3. Worth(g, w, K + 1) = Worth(g, w, K) + g[K + 1] * PowersOf(w)[K]
    BY <1>1, <1>7, <1>9, <2>1, WorthStep
  <2> QED BY <1>5, <1>7, <1>10, <2>2, <2>3, Zenon
<1>13. h \in 0..(w - 1) /\ r = h % t
  BY <1>2, <1>5, <1>6, <1>7 DEF AreDigits
<1> HIDE DEF y, r, h, p, z
<1>14. t > 0 /\ h \in Nat
  BY <1>1, <1>13
<1>15. c \in Nat /\ r \in 0..(t - 1) /\ h = c * t + r
  BY <1>1, <1>13, <1>14, Division
<1> HIDE DEF c, half
<1>16. x = c * half + z
  <2>1. h * p = (c * t) * p + r * p /\ (c * t) * p = c * (t * p)
    BY <1>1, <1>8, <1>15
  <2>2. c * (t * p) \in Nat /\ r * p \in Nat
    BY <1>1, <1>8, <1>15
  <2> QED BY <1>11, <1>12, <2>1, <2>2 DEF half, z
<1>17. half \in Nat /\ half > 0 /\ half = P + 19 /\ z \in 0..(half - 1)
  <2>1. half \in Nat /\ 2 * half = CAP
    <3>1. t * p \in Nat /\ (2 * t) * p = 2 * (t * p)
      BY <1>1, <1>8
    <3> QED BY <1>1, <3>1 DEF half
  <2>2. (r + 1) * p <= half /\ (r + 1) * p = r * p + p /\ r * p \in Nat
    <3>1. r + 1 \in Nat /\ r + 1 <= t
      BY <1>1, <1>15
    <3> QED BY <1>1, <1>8, <1>15, <3>1 DEF half
  <2> DEFINE rp == r * p
  <2> HIDE DEF rp
  <2>3. rp + p <= half /\ rp \in Nat
    BY <2>2 DEF rp
  <2>4. z = y + rp
    BY DEF z, rp
  <2> QED BY <1>1, <1>8, <1>11, <2>1, <2>3, <2>4
<1>18. x % half = z
  BY <1>15, <1>16, <1>17, DivisionUnique
<1>19. Element(u) = z % P
  <2>1. u \in gf /\ WorthOf(u) = z
    BY <1>2, <1>12 DEF Tight, WorthOf, w, m
  <2>2. WorthOf(u) % P = Element(u)
    BY <2>1, ElementFacts
  <2> QED BY <2>1, <2>2
<1> QED BY <1>2, <1>17, <1>18, <1>19 DEF u, x, b

-----------------------------------------------------------------------------
(* Powers. *)

LEMMA ProductStays ==
  ASSUME FieldAssumption, NEW a \in gf, NEW b \in gf
  PROVE  M(a, b) \in gf
<1>1. Product(a, b) \in gf
  BY ProductIsSummed
<1>2. M(a, b) = car25519(car25519(Product(a, b)))
  BY Zenon DEF M
<1> DEFINE s == Product(a, b)
<1> HIDE DEF s
<1>3. car25519(s) \in gf
  BY <1>1, CarFacts DEF s
<1>4. car25519(car25519(s)) \in gf
  BY <1>3, CarFacts
<1> QED BY <1>2, <1>4 DEF s

(* The numbers after each turn of Power.                                   *)
PowerTurn(c, i, skip) == IF skip THEN S(c) ELSE M(S(c), i)

PowerRuns(g, x, top, skipped) ==
  /\ g \in [Nat -> gf] /\ g[0] = x
  /\ \A k \in Nat : k < top + 1 =>
       g[k + 1] = PowerTurn(g[k], x, top + 1 - (k + 1) \in skipped)

PowerRunsTo(out, x, top, skipped) ==
  \E g : PowerRuns(g, x, top, skipped) /\ out = g[top + 1]

LEMMA PowerLoopRuns ==
  ASSUME FieldAssumption, NEW x \in gf, NEW top \in Nat, NEW skipped
  PROVE  PowerRunsTo(Power(x, top, skipped), x, top, skipped)
<1> DEFINE Turned(s, i) == PowerTurn(s, x, top + 1 - i \in skipped)
           T == gf
           N == top + 1
           step == [p \in T \X Nat |->
                      IF p[2] > 0 /\ p[2] <= N THEN Turned(p[1], p[2]) ELSE p[1]]
           first == x
           K == 1..(N + 1)
           Is(run) == run = [p \in T \X K |->
                               IF p[2] > N THEN p[1]
                               ELSE run[<<Turned(p[1], p[2]), p[2] + 1>>]]
           chosen == CHOOSE run : Is(run)
<1>1. N \in Nat
  OBVIOUS
<1>2. first \in T
  OBVIOUS
<1>3. ASSUME NEW s \in T, NEW i \in Nat, i > 0, i <= N PROVE Turned(s, i) \in T
  <2>1. S(s) \in gf
    BY ProductStays DEF S
  <2>2. M(S(s), x) \in gf
    BY <2>1, ProductStays
  <2> QED BY <2>1, <2>2 DEF PowerTurn
<1>4. Power(x, top, skipped) = chosen[<<first, 1>>]
  BY Zenon DEF Power, Loop, Turned, T, N, first, K, PowerTurn
<1> HIDE DEF Turned, T, N
<1>5. /\ step \in [T \X Nat -> T]
      /\ \A s \in T : \A i \in Nat : i > 0 /\ i <= N => step[<<s, i>>] = Turned(s, i)
  BY <1>3
<1> HIDE DEF step, first
<1>6. ASSUME NEW p \in T \X K, ~(p[2] > N)
      PROVE  step[<<p[1], p[2]>>] = Turned(p[1], p[2])
  <2>1. p[1] \in T /\ p[2] \in Nat /\ p[2] > 0 /\ p[2] <= N
    BY <1>1, <1>6
  <2> QED BY <1>5, <2>1
<1>7. ASSUME NEW run, IsLoop(run, T, N, step) PROVE Is(run)
  <2>1. run = [p \in T \X K |->
                 IF p[2] > N THEN p[1] ELSE run[<<step[<<p[1], p[2]>>], p[2] + 1>>]]
    BY <1>7 DEF IsLoop
  <2> HIDE DEF K
  <2> QED BY <1>6, <2>1
<1>8. ASSUME NEW run, Is(run) PROVE IsLoop(run, T, N, step)
  <2>1. run = [p \in T \X K |->
                 IF p[2] > N THEN p[1] ELSE run[<<step[<<p[1], p[2]>>], p[2] + 1>>]]
    <3>1. run = [p \in T \X K |->
                   IF p[2] > N THEN p[1] ELSE run[<<Turned(p[1], p[2]), p[2] + 1>>]]
      BY <1>8
    <3> HIDE DEF K
    <3> QED BY <1>6, <3>1
  <2> QED BY <2>1 DEF IsLoop
<1>9. Is(chosen)
  <2>1. \E run : IsLoop(run, T, N, step)
    BY <1>1, <1>5, LoopExists
  <2>2. PICK run : IsLoop(run, T, N, step)
    BY <2>1
  <2>3. Is(run)
    BY <1>7, <2>2
  <2> HIDE DEF Is
  <2> QED BY <2>3, Zenon
<1> HIDE DEF chosen
<1>10. IsLoop(chosen, T, N, step)
  <2> HIDE DEF Is
  <2> QED BY <1>8, <1>9
<1>11. EndsIn(chosen[<<first, 1>>], T, first, N, step)
  <2> HIDE DEF Is, K
  <2> QED BY <1>1, <1>2, <1>5, <1>10, LoopTurns
<1>12. PICK g : Advances(g, T, first, step) /\ chosen[<<first, 1>>] = g[N]
  BY <1>11, Zenon DEF EndsIn
<1>13. /\ g \in [Nat -> T] /\ g[0] = first
       /\ \A i \in Nat : g[i + 1] = step[<<g[i], i + 1>>]
  BY <1>12 DEF Advances
<1>14. ASSUME NEW i \in Nat, i < N PROVE g[i + 1] = Turned(g[i], i + 1)
  <2>1. i + 1 \in Nat /\ i + 1 > 0 /\ i + 1 <= N /\ g[i] \in T
    BY <1>1, <1>13, <1>14
  <2> QED BY <1>5, <1>13, <2>1
<1>15. PowerRuns(g, x, top, skipped)
  BY <1>13, <1>14, Zenon DEF PowerRuns, Turned, T, N, first
<1>16. Power(x, top, skipped) = g[N]
  BY <1>4, <1>12, Zenon
<1> QED BY <1>15, <1>16, Zenon DEF PowerRunsTo, N


(* A number that is a power of x. *)
IsPower(c, x, e) == Tight(c) /\ Element(c) = PowersOf(Element(x))[e] % P

LEMMA PowerTimes ==
  ASSUME FieldAssumption, NEW x, NEW a, NEW b, NEW d \in Nat, NEW e \in Nat,
         Tight(x), IsPower(a, x, d), IsPower(b, x, e)
  PROVE  IsPower(M(a, b), x, d + e)
<1> DEFINE v == Element(x)
           p == PowersOf(v)
<1>1. P \in Nat /\ P > 0
  BY FieldSizes
<1>2. v \in Int
  BY <1>1, ElementFacts DEF Tight
<1> HIDE DEF v
<1>3. p[d] \in Int /\ p[e] \in Int /\ p[d + e] = p[d] * p[e]
  BY <1>2, PowersAreInts, PowerOfSum
<1>4. /\ Tight(a) /\ Element(a) = p[d] % P
      /\ Tight(b) /\ Element(b) = p[e] % P
  BY DEF IsPower, v
<1>5. Loose(a) /\ Loose(b)
  BY <1>4, LooseFacts
<1>6. Tight(M(a, b)) /\ Element(M(a, b)) = (Element(a) * Element(b)) % P
  BY <1>5, ProductIsExact
<1> DEFINE y == p[d]
           z == p[e]
           r == (y % P) * (z % P)
<1>7. y \in Int /\ z \in Int
  BY <1>3
<1> HIDE DEF y, z
<1>8. r \in Int /\ y * z \in Int /\ Congruent(y * z, r, P)
  BY <1>1, <1>7, RemaindersTimes
<1>9. (y * z) % P = r % P
  BY <1>8, CongruentElements
<1>10. Element(M(a, b)) = r % P
  BY <1>4, <1>6 DEF y, z
<1>11. p[d + e] = y * z
  BY <1>3 DEF y, z
<1>12. Element(M(a, b)) = p[d + e] % P
  BY <1>9, <1>10, <1>11, Zenon
<1> QED BY <1>6, <1>12, Zenon DEF IsPower, v

LEMMA FirstPower ==
  ASSUME FieldAssumption, NEW x, Tight(x)
  PROVE  IsPower(x, x, 1)
<1> DEFINE v == Element(x)
<1>1. P \in Nat /\ P > 0
  BY FieldSizes
<1>2. v \in 0..(P - 1)
  BY ElementFacts DEF Tight
<1> HIDE DEF v
<1>3. PowersOf(v)[1] = v
  <2>1. v \in Int
    BY <1>1, <1>2
  <2>2. PowersOf(v)[0] = 1 /\ PowersOf(v)[0 + 1] = v * PowersOf(v)[0]
    BY <2>1, PowersAreInts
  <2>3. 0 + 1 = 1 /\ v * 1 = v
    BY <2>1
  <2> QED BY <2>2, <2>3, Zenon
<1>4. v % P = v
  <2>1. v = 0 * P + v /\ 0 \in Nat
    BY <1>1, <1>2
  <2> QED BY <1>1, <1>2, <2>1, DivisionUnique
<1> QED BY <1>3, <1>4 DEF IsPower, v

LEMMA PowerOfTurn ==
  ASSUME FieldAssumption, NEW x, Tight(x), NEW c, NEW e \in Nat, IsPower(c, x, e)
  PROVE  /\ IsPower(PowerTurn(c, x, TRUE), x, 2 * e)
         /\ IsPower(PowerTurn(c, x, FALSE), x, 2 * e + 1)
<1>1. IsPower(S(c), x, 2 * e)
  <2>1. IsPower(M(c, c), x, e + e)
    BY PowerTimes
  <2>2. e + e = 2 * e
    OBVIOUS
  <2> QED BY <2>1, <2>2, Zenon DEF S
<1>2. IsPower(M(S(c), x), x, 2 * e + 1)
  <2>1. 2 * e \in Nat /\ 1 \in Nat
    OBVIOUS
  <2> QED BY <1>1, <2>1, FirstPower, PowerTimes, Zenon
<1> QED BY <1>1, <1>2, Zenon DEF PowerTurn

(* As long as no bit is skipped the exponent has only ones.                *)
LEMMA PowerOnes ==
  ASSUME FieldAssumption, NEW x, Tight(x), NEW top \in Nat, NEW skipped, NEW g,
         PowerRuns(g, x, top, skipped), NEW K \in Nat, K <= top + 1,
         \A k \in Nat : k < K => top - k \notin skipped
  PROVE  IsPower(g[K], x, PowersOf(2)[K + 1] - 1) /\ PowersOf(2)[K + 1] - 1 \in Nat
<1> DEFINE q == PowersOf(2)
           Good(k) == IsPower(g[k], x, q[k + 1] - 1)
           B == {k \in Nat : k <= K => Good(k)}
<1>1. /\ g[0] = x
      /\ \A k \in Nat : k < top + 1 =>
           g[k + 1] = PowerTurn(g[k], x, top + 1 - (k + 1) \in skipped)
  BY DEF PowerRuns
<1>2. q[0] = 1 /\ \A k \in Nat : q[k] \in Nat /\ q[k] > 0 /\ q[k + 1] = 2 * q[k]
  <2>1. 2 \in Nat /\ 2 > 0
    OBVIOUS
  <2> QED BY <2>1, PowersFacts
<1> HIDE DEF q
<1>3. \A k \in Nat : q[k] - 1 \in Nat /\ k + 1 \in Nat
  BY <1>2
<1>4. 0 \in B
  <2>1. q[0 + 1] - 1 = 1
    BY <1>2
  <2>2. Good(0)
    BY <1>1, <2>1, FirstPower
  <2> HIDE DEF Good
  <2> QED BY <2>2
<1>5. ASSUME NEW k \in Nat, k \in B PROVE k + 1 \in B
  <2>1. CASE k + 1 <= K
    <3> DEFINE e == q[k + 1] - 1
    <3>1. e \in Nat /\ k < top + 1 /\ k < K /\ top + 1 - (k + 1) = top - k
      BY <1>3, <2>1
    <3>2. IsPower(g[k], x, e)
      <4>1. Good(k)
        <5> HIDE DEF Good
        <5> QED BY <1>5, <3>1
      <4> QED BY <4>1
    <3>3. (top + 1 - (k + 1) \in skipped) = FALSE
      BY <3>1
    <3>4. g[k + 1] = PowerTurn(g[k], x, FALSE)
      BY <1>1, <3>1, <3>3, Zenon
    <3>5. q[(k + 1) + 1] - 1 = 2 * e + 1
      <4>1. q[(k + 1) + 1] = 2 * q[k + 1] /\ q[k + 1] \in Nat
        BY <1>2, <1>3
      <4> QED BY <4>1
    <3>6. IsPower(PowerTurn(g[k], x, FALSE), x, 2 * e + 1)
      <4> HIDE DEF e
      <4> QED BY <3>1, <3>2, PowerOfTurn
    <3>7. Good(k + 1)
      BY <3>4, <3>5, <3>6, Zenon
    <3> HIDE DEF Good
    <3> QED BY <3>7
  <2>2. CASE ~(k + 1 <= K)
    BY <2>2
  <2> QED BY <2>1, <2>2
<1> HIDE DEF B, Good
<1>6. K \in B
  BY <1>4, <1>5, SetInduction
<1>7. Good(K)
  BY <1>6 DEF B
<1> QED BY <1>3, <1>7 DEF Good, q

LEMMA BitsFacts ==
  ASSUME FieldAssumption
  PROVE  /\ BITS \in Nat /\ BITS >= 16 /\ P = PowersOf(2)[BITS - 1] - 19
         /\ P \in Nat /\ P >= 32749
<1> DEFINE q == PowersOf(2)
           n == LIMBS
           m == BYTEBITS
           b == BYTE
           k == BYTES
<1>1. n \in Nat /\ n > 1 /\ m \in Nat /\ m >= 4 /\ b = q[m] /\ k = 2 * n /\ BITS = k * m
  BY ByteFacts DEF BYTES, BITS
<1>2. CAP = PowersOf(b)[k]
  <2>1. PowersOf(b)[2 * n] = PowersOf(RADIX)[n]
    BY <1>1, TwoBytes
  <2> QED BY <1>1, <2>1 DEF CAP
<1> HIDE DEF b, m, n, k
<1>3. k \in Nat /\ k >= 4
  BY <1>1
<1>4. BITS \in Nat /\ BITS >= 16
  <2>1. k * m \in Nat /\ k * m >= 4 * m
    BY <1>1, <1>3
  <2> QED BY <1>1, <2>1
<1>5. CAP = q[BITS]
  <2>1. 2 \in Int
    OBVIOUS
  <2>2. PowersOf(q[m])[k] = q[k * m]
    BY <1>1, <1>3, <2>1, PowerOfPower, Zenon
  <2> QED BY <1>1, <1>2, <2>2, Zenon
<1>6. q[BITS] = 2 * q[BITS - 1] /\ q[BITS - 1] \in Nat
  <2>1. BITS - 1 \in Nat /\ (BITS - 1) + 1 = BITS
    BY <1>4
  <2>2. 2 \in Nat /\ 2 > 0
    OBVIOUS
  <2>3. \A i \in Nat : q[i] \in Nat /\ q[i + 1] = 2 * q[i]
    BY <2>2, PowersFacts
  <2> HIDE DEF q
  <2> QED BY <2>1, <2>3
<1>7. CAP = 2 * P + 38 /\ P \in Nat /\ P >= 32749
  BY FieldSizes
<1> HIDE DEF q
<1>8. P = q[BITS - 1] - 19
  BY <1>5, <1>6, <1>7
<1> QED BY <1>4, <1>7, <1>8 DEF q

(* inv25519 raises a number to the power of P - 2: the inverse, where P is *)
(* a prime.  The two bits of P - 2 that are zero are the two it skips.     *)
THEOREM InverseIsPower ==
  ASSUME FieldAssumption, NEW x, Tight(x)
  PROVE  IsPower(inv25519(x), x, P - 2) /\ P - 2 \in Nat
<1> DEFINE top == BITS - 3
           skipped == {2, 4}
           K == top - 4
           q == PowersOf(2)
           e == q[K + 1] - 1
<1>1. /\ BITS \in Nat /\ BITS >= 16 /\ P = q[BITS - 1] - 19 /\ P \in Nat /\ P >= 32749
  BY BitsFacts
<1>2. top \in Nat /\ K \in Nat /\ K <= top + 1 /\ K + 5 = top + 1 /\ K + 6 = BITS - 1
  BY <1>1
<1>3. x \in gf
  BY DEF Tight
<1>4. PICK g : PowerRuns(g, x, top, skipped) /\ inv25519(x) = g[top + 1]
  <2>1. PowerRunsTo(Power(x, top, skipped), x, top, skipped)
    <3> HIDE DEF top, skipped
    <3> QED BY <1>2, <1>3, PowerLoopRuns
  <2> QED BY <2>1, Zenon DEF PowerRunsTo, inv25519
<1> HIDE DEF K, q
<1>5. IsPower(g[K], x, e) /\ e \in Nat
  <2>1. \A k \in Nat : k < K => top - k \notin skipped
    BY <1>2 DEF K
  <2> HIDE DEF top, skipped
  <2> QED BY <1>2, <1>4, <2>1, PowerOnes DEF q
<1>6. \A k \in Nat : k < top + 1 =>
        g[k + 1] = PowerTurn(g[k], x, top + 1 - (k + 1) \in skipped)
  BY <1>4 DEF PowerRuns
<1>7. /\ g[K + 1] = PowerTurn(g[K], x, TRUE)
      /\ g[K + 2] = PowerTurn(g[K + 1], x, FALSE)
      /\ g[K + 3] = PowerTurn(g[K + 2], x, TRUE)
      /\ g[K + 4] = PowerTurn(g[K + 3], x, FALSE)
      /\ g[K + 5] = PowerTurn(g[K + 4], x, FALSE)
  <2>1. /\ K \in Nat /\ K < top + 1 /\ (top + 1 - (K + 1) \in skipped) = TRUE
        /\ K + 1 \in Nat /\ K + 1 < top + 1 /\ (top + 1 - ((K + 1) + 1) \in skipped) = FALSE
        /\ K + 2 \in Nat /\ K + 2 < top + 1 /\ (top + 1 - ((K + 2) + 1) \in skipped) = TRUE
        /\ K + 3 \in Nat /\ K + 3 < top + 1 /\ (top + 1 - ((K + 3) + 1) \in skipped) = FALSE
        /\ K + 4 \in Nat /\ K + 4 < top + 1 /\ (top + 1 - ((K + 4) + 1) \in skipped) = FALSE
    BY <1>1, <1>2
  <2>2. (K + 1) + 1 = K + 2 /\ (K + 2) + 1 = K + 3 /\ (K + 3) + 1 = K + 4 /\ (K + 4) + 1 = K + 5
    BY <1>2
  <2> HIDE DEF top, skipped
  <2>3. g[K + 1] = PowerTurn(g[K], x, TRUE)
    BY <1>6, <2>1, Zenon
  <2>4. g[(K + 1) + 1] = PowerTurn(g[K + 1], x, FALSE)
    BY <1>6, <2>1, Zenon
  <2>5. g[(K + 2) + 1] = PowerTurn(g[K + 2], x, TRUE)
    BY <1>6, <2>1, Zenon
  <2>6. g[(K + 3) + 1] = PowerTurn(g[K + 3], x, FALSE)
    BY <1>6, <2>1, Zenon
  <2>7. g[(K + 4) + 1] = PowerTurn(g[K + 4], x, FALSE)
    BY <1>6, <2>1, Zenon
  <2> QED BY <2>2, <2>3, <2>4, <2>5, <2>6, <2>7, Zenon
<1> HIDE DEF e, top, skipped
<1>8. IsPower(g[K + 1], x, 2 * e)
  BY <1>5, <1>7, PowerOfTurn
<1>9. 2 * e \in Nat /\ 4 * e + 1 \in Nat /\ 8 * e + 2 \in Nat /\ 16 * e + 5 \in Nat
  BY <1>5
<1>10. IsPower(g[K + 2], x, 4 * e + 1)
  <2>1. IsPower(g[K + 2], x, 2 * (2 * e) + 1)
    BY <1>7, <1>8, <1>9, PowerOfTurn
  <2>2. 2 * (2 * e) + 1 = 4 * e + 1
    BY <1>5
  <2> QED BY <2>1, <2>2
<1>11. IsPower(g[K + 3], x, 8 * e + 2)
  <2>1. IsPower(g[K + 3], x, 2 * (4 * e + 1))
    BY <1>7, <1>9, <1>10, PowerOfTurn
  <2>2. 2 * (4 * e + 1) = 8 * e + 2
    BY <1>5
  <2> QED BY <2>1, <2>2
<1>12. IsPower(g[K + 4], x, 16 * e + 5)
  <2>1. IsPower(g[K + 4], x, 2 * (8 * e + 2) + 1)
    BY <1>7, <1>9, <1>11, PowerOfTurn
  <2>2. 2 * (8 * e + 2) + 1 = 16 * e + 5
    BY <1>5
  <2> QED BY <2>1, <2>2
<1>13. IsPower(g[K + 5], x, 32 * e + 11)
  <2>1. IsPower(g[K + 5], x, 2 * (16 * e + 5) + 1)
    BY <1>7, <1>9, <1>12, PowerOfTurn
  <2>2. 2 * (16 * e + 5) + 1 = 32 * e + 11
    BY <1>5
  <2> QED BY <2>1, <2>2
<1>14. 32 * e + 11 = P - 2
  <2>1. 2 \in Nat /\ 2 > 0
    OBVIOUS
  <2>2. \A k \in Nat : q[k] \in Nat /\ q[k + 1] = 2 * q[k]
    BY <2>1, PowersFacts DEF q
  <2>3. /\ K + 1 \in Nat /\ (K + 1) + 1 = K + 2 /\ K + 2 \in Nat /\ (K + 2) + 1 = K + 3
        /\ K + 3 \in Nat /\ (K + 3) + 1 = K + 4 /\ K + 4 \in Nat /\ (K + 4) + 1 = K + 5
        /\ K + 5 \in Nat /\ (K + 5) + 1 = K + 6
    BY <1>2
  <2>4. /\ q[K + 2] = 2 * q[K + 1] /\ q[K + 3] = 2 * q[K + 2] /\ q[K + 4] = 2 * q[K + 3]
        /\ q[K + 5] = 2 * q[K + 4] /\ q[K + 6] = 2 * q[K + 5]
    BY <2>2, <2>3, Zenon
  <2>5. q[K + 1] \in Nat /\ q[K + 6] = 32 * q[K + 1]
    <3>1. q[K + 1] \in Nat
      BY <2>2, <2>3
    <3> QED BY <2>4, <3>1
  <2>6. P = q[K + 6] - 19
    BY <1>1, <1>2
  <2> QED BY <2>5, <2>6 DEF e
<1>15. inv25519(x) = g[K + 5]
  BY <1>2, <1>4
<1>16. P - 2 \in Nat
  BY <1>1
<1> QED BY <1>13, <1>14, <1>15, <1>16

(* pow2523 raises a number to the power of (P - 5) / 8: of that exponent   *)
(* only the bit it skips is zero.                                          *)
THEOREM RootIsPower ==
  ASSUME FieldAssumption, NEW x, Tight(x)
  PROVE  IsPower(pow2523(x), x, (P - 5) \div 8) /\ P = 8 * ((P - 5) \div 8) + 5
<1> DEFINE top == BITS - 6
           skipped == {1}
           K == top - 1
           q == PowersOf(2)
           e == q[K + 1] - 1
<1>1. /\ BITS \in Nat /\ BITS >= 16 /\ P = q[BITS - 1] - 19 /\ P \in Nat /\ P >= 32749
  BY BitsFacts
<1>2. top \in Nat /\ K \in Nat /\ K <= top + 1 /\ K + 2 = top + 1 /\ K + 6 = BITS - 1
  BY <1>1
<1>3. x \in gf
  BY DEF Tight
<1>4. PICK g : PowerRuns(g, x, top, skipped) /\ pow2523(x) = g[top + 1]
  <2>1. PowerRunsTo(Power(x, top, skipped), x, top, skipped)
    <3> HIDE DEF top, skipped
    <3> QED BY <1>2, <1>3, PowerLoopRuns
  <2> QED BY <2>1, Zenon DEF PowerRunsTo, pow2523
<1> HIDE DEF K, q
<1>5. IsPower(g[K], x, e) /\ e \in Nat
  <2>1. \A k \in Nat : k < K => top - k \notin skipped
    BY <1>2 DEF K
  <2> HIDE DEF top, skipped
  <2> QED BY <1>2, <1>4, <2>1, PowerOnes DEF q
<1>6. \A k \in Nat : k < top + 1 =>
        g[k + 1] = PowerTurn(g[k], x, top + 1 - (k + 1) \in skipped)
  BY <1>4 DEF PowerRuns
<1>7. /\ g[K + 1] = PowerTurn(g[K], x, TRUE)
      /\ g[K + 2] = PowerTurn(g[K + 1], x, FALSE)
  <2>1. /\ K \in Nat /\ K < top + 1 /\ (top + 1 - (K + 1) \in skipped) = TRUE
        /\ K + 1 \in Nat /\ K + 1 < top + 1 /\ (top + 1 - ((K + 1) + 1) \in skipped) = FALSE
    BY <1>1, <1>2
  <2>2. (K + 1) + 1 = K + 2
    BY <1>2
  <2> HIDE DEF top, skipped
  <2>3. g[K + 1] = PowerTurn(g[K], x, TRUE)
    BY <1>6, <2>1, Zenon
  <2>4. g[(K + 1) + 1] = PowerTurn(g[K + 1], x, FALSE)
    BY <1>6, <2>1, Zenon
  <2> QED BY <2>2, <2>3, <2>4, Zenon
<1> HIDE DEF e, top, skipped
<1>8. IsPower(g[K + 1], x, 2 * e)
  BY <1>5, <1>7, PowerOfTurn
<1>9. 2 * e \in Nat
  BY <1>5
<1>10. IsPower(g[K + 2], x, 4 * e + 1)
  <2>1. IsPower(g[K + 2], x, 2 * (2 * e) + 1)
    BY <1>7, <1>8, <1>9, PowerOfTurn
  <2>2. 2 * (2 * e) + 1 = 4 * e + 1
    BY <1>5
  <2> QED BY <2>1, <2>2
<1>11. P = 8 * (4 * e + 1) + 5
  <2>1. 2 \in Nat /\ 2 > 0
    OBVIOUS
  <2>2. \A k \in Nat : q[k] \in Nat /\ q[k + 1] = 2 * q[k]
    BY <2>1, PowersFacts DEF q
  <2>3. /\ K + 1 \in Nat /\ (K + 1) + 1 = K + 2 /\ K + 2 \in Nat /\ (K + 2) + 1 = K + 3
        /\ K + 3 \in Nat /\ (K + 3) + 1 = K + 4 /\ K + 4 \in Nat /\ (K + 4) + 1 = K + 5
        /\ K + 5 \in Nat /\ (K + 5) + 1 = K + 6
    BY <1>2
  <2>4. /\ q[K + 2] = 2 * q[K + 1] /\ q[K + 3] = 2 * q[K + 2] /\ q[K + 4] = 2 * q[K + 3]
        /\ q[K + 5] = 2 * q[K + 4] /\ q[K + 6] = 2 * q[K + 5]
    BY <2>2, <2>3, Zenon
  <2>5. q[K + 1] \in Nat /\ q[K + 6] = 32 * q[K + 1]
    <3>1. q[K + 1] \in Nat
      BY <2>2, <2>3
    <3> QED BY <2>4, <3>1
  <2>6. P = q[K + 6] - 19
    BY <1>1, <1>2
  <2> QED BY <2>5, <2>6 DEF e
<1>12. pow2523(x) = g[K + 2]
  BY <1>2, <1>4
<1>13. (P - 5) \div 8 = 4 * e + 1
  <2>1. P - 5 = (4 * e + 1) * 8 + 0 /\ 4 * e + 1 \in Nat /\ 0 \in 0..(8 - 1) /\ 8 \in Nat /\ 8 > 0
    BY <1>5, <1>11
  <2>2. P - 5 \in Nat
    BY <1>1
  <2> QED BY <2>1, <2>2, DivisionUnique
<1> QED BY <1>10, <1>11, <1>12, <1>13


(* Where the numbers below P but zero have the order that Fermat's theorem *)
(* says, as they have where P is a prime, inv25519 returns the inverse.    *)
THEOREM InverseInverts ==
  ASSUME FieldAssumption, NEW x, Tight(x), PowersOf(Element(x))[P - 1] % P = 1
  PROVE  (Element(x) * Element(inv25519(x))) % P = 1
<1>1. IsPower(inv25519(x), x, P - 2) /\ P - 2 \in Nat
  BY InverseIsPower
<1>2. IsPower(x, x, 1)
  BY FirstPower
<1>3. IsPower(M(x, inv25519(x)), x, 1 + (P - 2))
  <2>1. 1 \in Nat
    OBVIOUS
  <2> QED BY <1>1, <1>2, <2>1, PowerTimes, Zenon
<1>4. 1 + (P - 2) = P - 1
  <2>1. P \in Nat
    BY FieldSizes
  <2> QED BY <2>1
<1>5. Element(M(x, inv25519(x))) = 1
  BY <1>3, <1>4 DEF IsPower
<1>6. Loose(x) /\ Loose(inv25519(x))
  BY <1>1, LooseFacts DEF IsPower
<1> QED BY <1>5, <1>6, ProductIsExact

-----------------------------------------------------------------------------
(* The ladder, on numbers instead of limbs: one of the limbs of a stands   *)
(* for the number u.                                                       *)

Stands(a, u) == u \in Int /\ a \in gf /\ Congruent(WorthOf(a), u, P)

LEMMA StandsFor ==
  ASSUME FieldAssumption, NEW a, a \in gf
  PROVE  /\ Stands(a, Element(a))
         /\ \A u : Stands(a, u) => Element(a) = u % P
<1>1. /\ WorthOf(a) \in Int /\ Element(a) \in 0..(P - 1)
      /\ Congruent(Element(a), WorthOf(a), P)
  BY ElementFacts
<1>2. P \in Nat /\ P > 0
  BY FieldSizes
<1> DEFINE x == Element(a)
           y == WorthOf(a)
<1> HIDE DEF x, y
<1>3. x \in Int /\ y \in Int /\ Congruent(x, y, P)
  BY <1>1, <1>2 DEF x, y
<1>4. Congruent(y, x, P)
  BY <1>2, <1>3, CongruentBack
<1>5. Stands(a, Element(a))
  BY <1>3, <1>4 DEF Stands, x, y
<1>6. ASSUME NEW u, Stands(a, u) PROVE Element(a) = u % P
  <2>1. u \in Int /\ Congruent(WorthOf(a), u, P)
    BY <1>6 DEF Stands
  <2> QED BY <2>1, ElementOf
<1> QED BY <1>5, <1>6

LEMMA StandsIf ==
  ASSUME FieldAssumption, NEW s, s \in gf, NEW m \in Int, NEW k \in Int,
         Element(s) = k % P, Congruent(m, k, P)
  PROVE  Stands(s, m)
<1>1. P \in Nat /\ P > 0
  BY FieldSizes
<1>2. Stands(s, Element(s))
  BY StandsFor
<1>3. m % P = k % P
  BY CongruentElements
<1> DEFINE r == m % P
<1>4. r \in 0..(P - 1) /\ Congruent(r, m, P)
  BY <1>1, IntCongruentRemainder
<1> HIDE DEF r
<1>5. Element(s) = r
  BY <1>3 DEF r
<1>6. r \in Int /\ WorthOf(s) \in Int /\ Congruent(WorthOf(s), r, P)
  BY <1>1, <1>2, <1>4, <1>5, ElementFacts DEF Stands
<1>7. Congruent(WorthOf(s), m, P)
  BY <1>1, <1>4, <1>6, CongruentTrans
<1> QED BY <1>7 DEF Stands

LEMMA SumsStand ==
  ASSUME FieldAssumption, NEW i \in Nat, NEW j \in Nat, NEW a, NEW b,
         Within(a, i), Within(b, j), NEW u, NEW v, Stands(a, u), Stands(b, v)
  PROVE  /\ Within(A(a, b), i + j) /\ Stands(A(a, b), u + v)
         /\ Within(Z(a, b), i + j) /\ Stands(Z(a, b), u - v)
<1>1. P \in Nat /\ P > 0
  BY FieldSizes
<1>2. a \in gf /\ b \in gf /\ u \in Int /\ v \in Int
  BY DEF Stands
<1>3. Element(a) = u % P /\ Element(b) = v % P
  BY <1>2, StandsFor
<1>4. /\ Within(A(a, b), i + j) /\ Element(A(a, b)) = (Element(a) + Element(b)) % P
      /\ Within(Z(a, b), i + j) /\ Element(Z(a, b)) = (Element(a) - Element(b)) % P
  BY SumIsExact
<1> DEFINE x == u % P
           y == v % P
<1>5. x \in Int /\ y \in Int
  <2>1. x \in 0..(P - 1) /\ y \in 0..(P - 1)
    BY <1>1, <1>2, IntCongruentRemainder
  <2> HIDE DEF x, y
  <2> QED BY <1>1, <2>1
<1>6. Congruent(u + 1 * v, x + 1 * y, P) /\ Congruent(u + (-1) * v, x + (-1) * y, P)
  <2>1. 1 \in Int /\ -1 \in Int
    OBVIOUS
  <2>2. Congruent(u + 1 * v, x + 1 * y, P)
    BY <1>1, <1>2, <2>1, RemaindersPlus, Zenon
  <2>3. Congruent(u + (-1) * v, x + (-1) * y, P)
    BY <1>1, <1>2, <2>1, RemaindersPlus, Zenon
  <2> QED BY <2>2, <2>3
<1> HIDE DEF x, y
<1>7. Congruent(u + v, x + y, P) /\ Congruent(u - v, x - y, P)
  <2>1. u + 1 * v = u + v /\ x + 1 * y = x + y /\ u + (-1) * v = u - v /\ x + (-1) * y = x - y
    BY <1>2, <1>5
  <2> QED BY <1>6, <2>1
<1>8. ASSUME NEW s, s \in gf, NEW m \in Int, NEW k \in Int,
             Element(s) = k % P, Congruent(m, k, P)
      PROVE  Stands(s, m)
  BY <1>8, StandsIf
<1>9. A(a, b) \in gf /\ Z(a, b) \in gf
  BY <1>4 DEF Within
<1>10. Element(A(a, b)) = (x + y) % P /\ Element(Z(a, b)) = (x - y) % P
  BY <1>3, <1>4 DEF x, y
<1>11. u + v \in Int /\ x + y \in Int /\ u - v \in Int /\ x - y \in Int
  BY <1>2, <1>5
<1>12. Stands(A(a, b), u + v)
  BY <1>7, <1>8, <1>9, <1>10, <1>11, Zenon
<1>13. Stands(Z(a, b), u - v)
  BY <1>7, <1>8, <1>9, <1>10, <1>11, Zenon
<1> QED BY <1>4, <1>12, <1>13

LEMMA SumStands ==
  ASSUME FieldAssumption, NEW a, NEW b, Tight(a), Tight(b), NEW u, NEW v,
         Stands(a, u), Stands(b, v)
  PROVE  /\ Loose(A(a, b)) /\ Stands(A(a, b), u + v)
         /\ Loose(Z(a, b)) /\ Stands(Z(a, b), u - v)
<1>1. 1 \in Nat /\ 2 \in Nat /\ 3 \in Nat /\ 1 + 1 = 2 /\ 2 <= 3
  OBVIOUS
<1>2. Within(a, 1) /\ Within(b, 1)
  BY WithinFacts
<1>3. /\ Within(A(a, b), 1 + 1) /\ Stands(A(a, b), u + v)
      /\ Within(Z(a, b), 1 + 1) /\ Stands(Z(a, b), u - v)
  BY <1>1, <1>2, SumsStand, Zenon
<1>4. Within(A(a, b), 3) /\ Within(Z(a, b), 3)
  BY <1>1, <1>3, WithinFacts
<1> QED BY <1>3, <1>4, WithinFacts

LEMMA ProductStands ==
  ASSUME FieldAssumption, NEW a, NEW b, Loose(a), Loose(b), NEW u, NEW v,
         Stands(a, u), Stands(b, v)
  PROVE  Tight(M(a, b)) /\ Stands(M(a, b), u * v)
<1> DEFINE s == Product(a, b)
           o == M(a, b)
           x == WorthOf(a)
           y == WorthOf(b)
<1>1. Modest(s) /\ x * y \in Int /\ Congruent(WorthOf(s), x * y, P)
  BY ProductFacts
<1>2. o = car25519(car25519(s))
  BY Zenon DEF M
<1>3. Tight(o) /\ WorthOf(o) \in 0..(CAP - 1) /\ WorthOf(s) \in Int
      /\ Congruent(WorthOf(o), WorthOf(s), P)
  BY <1>1, <1>2, TwoCarries
<1>4. P \in Nat /\ P > 0 /\ CAP \in Nat
  BY FieldSizes
<1>5. a \in gf /\ b \in gf /\ o \in gf
  BY <1>3 DEF Loose, Tight
<1>6. x \in Int /\ y \in Int
  BY <1>5, ElementFacts
<1>7. u \in Int /\ v \in Int /\ Congruent(x, u, P) /\ Congruent(y, v, P)
  BY DEF Stands
<1> HIDE DEF s, o, x, y
<1> DEFINE z == WorthOf(o)
           m == x * y
           r == u * v
<1>8. r \in Int /\ Congruent(m, r, P)
  <2>1. Congruent(x * y, x * v, P)
    BY <1>4, <1>6, <1>7, CongruentTimes
  <2>2. Congruent(v * x, v * u, P)
    BY <1>4, <1>6, <1>7, CongruentTimes
  <2>3. v * x = x * v /\ v * u = u * v /\ x * y \in Int /\ x * v \in Int /\ u * v \in Int
    BY <1>6, <1>7
  <2>4. Congruent(x * v, u * v, P)
    BY <2>2, <2>3
  <2> QED BY <1>4, <2>1, <2>3, <2>4, CongruentTrans
<1>9. z \in Int /\ m \in Int
  BY <1>1, <1>3, <1>4
<1>10. Congruent(z, m, P)
  <2> HIDE DEF m, z
  <2>1. Congruent(WorthOf(s), m, P) /\ Congruent(z, WorthOf(s), P) /\ WorthOf(s) \in Int
    BY <1>1, <1>3 DEF m, z
  <2> QED BY <1>4, <1>9, <2>1, CongruentTrans
<1> HIDE DEF m, r
<1>11. Congruent(z, r, P)
  BY <1>4, <1>8, <1>9, <1>10, CongruentTrans
<1> QED BY <1>3, <1>5, <1>8, <1>11 DEF Stands, o, r


(* One turn of the ladder on four numbers: the sum of a point with itself  *)
(* and with another, by the first coordinates of both and of what they     *)
(* differ by.                                                              *)
NumberDoubling(n, x) ==
  LET e == n[1] + n[3]
      a == n[1] - n[3]
      f == n[2] + n[4]
      b == n[2] - n[4]
      ee == e * e
      aa == a * a
      sum == f * a + b * e
      difference == f * a - b * e
      rest == ee - aa
  IN  <<(ee * aa) % P, (sum * sum) % P,
        (rest * (rest * Element(A24) + ee)) % P, ((difference * difference) * x) % P>>

NumberStep(n, x, r) == Swapped(NumberDoubling(Swapped(n, r), x), r)

AreTight(regs) == /\ DOMAIN regs = 1..4 /\ Len(regs) = 4 /\ regs \in [1..4 -> gf]
                  /\ \A i \in 1..4 : Tight(regs[i])
Elements(regs) == <<Element(regs[1]), Element(regs[2]), Element(regs[3]), Element(regs[4])>>

LEMMA FourFacts ==
  ASSUME NEW T, NEW a \in T, NEW b \in T, NEW c \in T, NEW d \in T
  PROVE  /\ <<a, b, c, d>> \in [1..4 -> T] /\ Len(<<a, b, c, d>>) = 4
         /\ DOMAIN <<a, b, c, d>> = 1..4
         /\ <<a, b, c, d>>[1] = a /\ <<a, b, c, d>>[2] = b
         /\ <<a, b, c, d>>[3] = c /\ <<a, b, c, d>>[4] = d
OBVIOUS

LEMMA FourTight ==
  ASSUME NEW s, NEW t, NEW u, NEW v, Tight(s), Tight(t), Tight(u), Tight(v)
  PROVE  /\ AreTight(<<s, t, u, v>>)
         /\ Elements(<<s, t, u, v>>) = <<Element(s), Element(t), Element(u), Element(v)>>
<1> DEFINE out == <<s, t, u, v>>
<1>1. out \in [1..4 -> gf] /\ Len(out) = 4 /\ DOMAIN out = 1..4
      /\ out[1] = s /\ out[2] = t /\ out[3] = u /\ out[4] = v
  <2>1. s \in gf /\ t \in gf /\ u \in gf /\ v \in gf
    BY DEF Tight
  <2> QED BY <2>1, FourFacts
<1> HIDE DEF out
<1>2. \A i \in 1..4 : i = 1 \/ i = 2 \/ i = 3 \/ i = 4
  OBVIOUS
<1>3. AreTight(out)
  BY <1>1, <1>2, Zenon DEF AreTight
<1>4. Elements(out) = <<Element(s), Element(t), Element(u), Element(v)>>
  BY <1>1, Zenon DEF Elements
<1> QED BY <1>3, <1>4 DEF out

LEMMA SwappedIs ==
  ASSUME NEW n, NEW r
  PROVE  Swapped(n, r) = IF r = 1 THEN <<n[2], n[1], n[4], n[3]>>
                         ELSE <<n[1], n[2], n[3], n[4]>>
<1>1. ASSUME NEW a, NEW b, NEW c, NEW d
      PROVE  <<a, b>> \o <<c, d>> = <<a, b, c, d>>
  <2> DEFINE T == {a, b, c, d}
             s == <<a, b>>
             t == <<c, d>>
             u == <<a, b, c, d>>
             v == s \o t
  <2>1. s \in Seq(T) /\ t \in Seq(T) /\ u \in Seq(T) /\ Len(s) = 2 /\ Len(t) = 2 /\ Len(u) = 4
        /\ s[1] = a /\ s[2] = b /\ t[1] = c /\ t[2] = d
        /\ u[1] = a /\ u[2] = b /\ u[3] = c /\ u[4] = d
    OBVIOUS
  <2> HIDE DEF s, t, u, T
  <2>2. /\ v \in Seq(T) /\ Len(v) = 4
        /\ \A i \in 1..4 : v[i] = IF i <= 2 THEN s[i] ELSE t[i - 2]
    <3>1. /\ v \in Seq(T) /\ Len(v) = Len(s) + Len(t)
          /\ \A i \in 1..(Len(s) + Len(t)) : v[i] = IF i <= Len(s) THEN s[i] ELSE t[i - Len(s)]
      BY <2>1, Concatenation, Zenon
    <3> HIDE DEF v
    <3>2. 2 + 2 = 4
      OBVIOUS
    <3> QED BY <2>1, <3>1, <3>2
  <2> HIDE DEF v
  <2>3. v[1] = s[1] /\ v[2] = s[2] /\ v[3] = t[1] /\ v[4] = t[2]
    BY <2>2
  <2>4. \A i \in 1..4 : v[i] = u[i]
    <3>1. \A i \in 1..4 : i = 1 \/ i = 2 \/ i = 3 \/ i = 4
      OBVIOUS
    <3> QED BY <2>1, <2>3, <3>1, Zenon
  <2>5. v = u
    BY <2>1, <2>2, <2>4, SameSeq
  <2> QED BY <2>5 DEF u, v, s, t
<1> QED BY <1>1 DEF Swapped, sel25519

LEMMA DoublingIsExact ==
  ASSUME FieldAssumption, Tight(A24), NEW x, Tight(x), NEW regs, AreTight(regs)
  PROVE  /\ AreTight(Doubling(regs, x))
         /\ Elements(Doubling(regs, x)) = NumberDoubling(Elements(regs), Element(x))
<1> DEFINE n1 == Element(regs[1])
           n2 == Element(regs[2])
           n3 == Element(regs[3])
           n4 == Element(regs[4])
           nx == Element(x)
           na == Element(A24)
           e == A(regs[1], regs[3])
           a == Z(regs[1], regs[3])
           f == A(regs[2], regs[4])
           b == Z(regs[2], regs[4])
           ee == S(e)
           aa == S(a)
           da == M(f, a)
           cb == M(b, e)
           rest == Z(ee, aa)
           ne == n1 + n3
           ma == n1 - n3
           nf == n2 + n4
           nb == n2 - n4
           nee == ne * ne
           naa == ma * ma
           nda == nf * ma
           ncb == nb * ne
           nrest == nee - naa
           r1 == M(ee, aa)
           r2 == S(A(da, cb))
           r3 == M(rest, A(M(rest, A24), ee))
           r4 == M(S(Z(da, cb)), x)
<1>1. Tight(regs[1]) /\ Tight(regs[2]) /\ Tight(regs[3]) /\ Tight(regs[4])
  BY DEF AreTight
<1>2. /\ Stands(regs[1], n1) /\ Stands(regs[2], n2) /\ Stands(regs[3], n3)
      /\ Stands(regs[4], n4) /\ Stands(x, nx) /\ Stands(A24, na)
  BY <1>1, StandsFor DEF Tight
<1> HIDE DEF n1, n2, n3, n4, nx, na
<1>3. Loose(e) /\ Stands(e, ne) /\ Loose(a) /\ Stands(a, ma)
  BY <1>1, <1>2, SumStands, Zenon
<1>4. Loose(f) /\ Stands(f, nf) /\ Loose(b) /\ Stands(b, nb)
  BY <1>1, <1>2, SumStands, Zenon
<1> HIDE DEF e, a, f, b, ne, ma, nf, nb
<1>5. Tight(ee) /\ Stands(ee, nee)
  BY <1>3, ProductStands, Zenon DEF S
<1>6. Tight(aa) /\ Stands(aa, naa)
  BY <1>3, ProductStands, Zenon DEF S
<1>7. Tight(da) /\ Stands(da, nda)
  BY <1>3, <1>4, ProductStands, Zenon
<1>8. Tight(cb) /\ Stands(cb, ncb)
  BY <1>3, <1>4, ProductStands, Zenon
<1> HIDE DEF ee, aa, da, cb, nee, naa, nda, ncb
<1>9. \A c : Tight(c) => Loose(c)
  BY LooseFacts
<1>10. Tight(r1) /\ Stands(r1, nee * naa)
  BY <1>5, <1>6, <1>9, ProductStands, Zenon
<1>11. Loose(A(da, cb)) /\ Stands(A(da, cb), nda + ncb)
       /\ Loose(Z(da, cb)) /\ Stands(Z(da, cb), nda - ncb)
  BY <1>7, <1>8, SumStands, Zenon
<1>12. Tight(r2) /\ Stands(r2, (nda + ncb) * (nda + ncb))
  BY <1>11, ProductStands, Zenon DEF S
<1>13. Loose(rest) /\ Stands(rest, nrest)
  BY <1>5, <1>6, SumStands, Zenon
<1> HIDE DEF rest, nrest
<1>14. Tight(M(rest, A24)) /\ Stands(M(rest, A24), nrest * na)
  BY <1>2, <1>9, <1>13, ProductStands, Zenon
<1>15. Loose(A(M(rest, A24), ee)) /\ Stands(A(M(rest, A24), ee), nrest * na + nee)
  BY <1>5, <1>14, SumStands, Zenon
<1>16. Tight(r3) /\ Stands(r3, nrest * (nrest * na + nee))
  BY <1>13, <1>15, ProductStands, Zenon
<1>17. Tight(S(Z(da, cb))) /\ Stands(S(Z(da, cb)), (nda - ncb) * (nda - ncb))
  BY <1>11, ProductStands, Zenon DEF S
<1>18. Tight(r4) /\ Stands(r4, ((nda - ncb) * (nda - ncb)) * nx)
  BY <1>2, <1>9, <1>17, ProductStands, Zenon
<1>19. Doubling(regs, x) = <<r1, r2, r3, r4>>
  BY Zenon DEF Doubling, SumsAndProducts, Products, e, a, f, b, ee, aa, da, cb, rest
<1>20. NumberDoubling(Elements(regs), nx)
         = <<(nee * naa) % P, ((nda + ncb) * (nda + ncb)) % P,
             (nrest * (nrest * na + nee)) % P, (((nda - ncb) * (nda - ncb)) * nx) % P>>
  <2>1. /\ Elements(regs)[1] = n1 /\ Elements(regs)[2] = n2
        /\ Elements(regs)[3] = n3 /\ Elements(regs)[4] = n4
    BY DEF Elements, n1, n2, n3, n4
  <2> QED BY <2>1, Zenon DEF NumberDoubling, ne, ma, nf, nb, nee, naa, nda, ncb, nrest, na
<1> HIDE DEF r1, r2, r3, r4
<1>21. /\ Element(r1) = (nee * naa) % P /\ Element(r2) = ((nda + ncb) * (nda + ncb)) % P
       /\ Element(r3) = (nrest * (nrest * na + nee)) % P
       /\ Element(r4) = (((nda - ncb) * (nda - ncb)) * nx) % P
  BY <1>10, <1>12, <1>16, <1>18, StandsFor, Zenon DEF Tight
<1> DEFINE out == <<r1, r2, r3, r4>>
<1>22. AreTight(out) /\ Elements(out) = <<Element(r1), Element(r2), Element(r3), Element(r4)>>
  BY <1>10, <1>12, <1>16, <1>18, FourTight
<1> HIDE DEF out
<1> QED BY <1>19, <1>20, <1>21, <1>22, Zenon DEF out, nx

LEMMA SwappedFacts ==
  ASSUME FieldAssumption, NEW regs, AreTight(regs), NEW r
  PROVE  AreTight(Swapped(regs, r)) /\ Elements(Swapped(regs, r)) = Swapped(Elements(regs), r)
<1> DEFINE a == regs[1]
           b == regs[2]
           c == regs[3]
           d == regs[4]
           m == Elements(regs)
<1>1. /\ Tight(a) /\ Tight(b) /\ Tight(c) /\ Tight(d)
      /\ a \in gf /\ b \in gf /\ c \in gf /\ d \in gf
  BY DEF AreTight, Tight
<1>2. m[1] = Element(a) /\ m[2] = Element(b) /\ m[3] = Element(c) /\ m[4] = Element(d)
  BY DEF Elements
<1>3. Swapped(regs, r) = IF r = 1 THEN <<b, a, d, c>> ELSE <<a, b, c, d>>
  BY SwappedIs, Zenon
<1>4. Swapped(m, r) = IF r = 1 THEN <<m[2], m[1], m[4], m[3]>> ELSE <<m[1], m[2], m[3], m[4]>>
  BY SwappedIs, Zenon
<1> HIDE DEF a, b, c, d, m
<1>5. CASE r = 1
  <2>1. AreTight(<<b, a, d, c>>)
        /\ Elements(<<b, a, d, c>>) = <<Element(b), Element(a), Element(d), Element(c)>>
    BY <1>1, FourTight, Zenon
  <2> QED BY <1>2, <1>3, <1>4, <1>5, <2>1, Zenon DEF m
<1>6. CASE r # 1
  <2>1. AreTight(<<a, b, c, d>>)
        /\ Elements(<<a, b, c, d>>) = <<Element(a), Element(b), Element(c), Element(d)>>
    BY <1>1, FourTight, Zenon
  <2> QED BY <1>2, <1>3, <1>4, <1>6, <2>1, Zenon DEF m
<1> QED BY <1>5, <1>6

(* A turn of the ladder: the limbs of the registers stay those that M and  *)
(* pack25519 may be given, and the turn is that on the numbers.            *)
THEOREM LadderStepIsExact ==
  ASSUME FieldAssumption, Tight(A24), NEW x, Tight(x), NEW regs, AreTight(regs), NEW r
  PROVE  /\ AreTight(LadderStep(regs, x, r))
         /\ Elements(LadderStep(regs, x, r)) = NumberStep(Elements(regs), Element(x), r)
<1> DEFINE s == Swapped(regs, r)
           t == Doubling(s, x)
<1>1. AreTight(s) /\ Elements(s) = Swapped(Elements(regs), r)
  BY SwappedFacts
<1> HIDE DEF s
<1>2. AreTight(t) /\ Elements(t) = NumberDoubling(Elements(s), Element(x))
  BY <1>1, DoublingIsExact
<1> HIDE DEF t
<1>3. AreTight(Swapped(t, r)) /\ Elements(Swapped(t, r)) = Swapped(Elements(t), r)
  BY <1>2, SwappedFacts
<1> QED BY <1>1, <1>2, <1>3, Zenon DEF LadderStep, NumberStep, s, t


-----------------------------------------------------------------------------
(* The whole ladder.                                                       *)

(* Zero and one in limbs.                                                  *)
LEMMA ConstantFacts ==
  ASSUME FieldAssumption
  PROVE  /\ Tight(gf0) /\ Element(gf0) = 0
         /\ Tight(gf1) /\ Element(gf1) = 1
<1> DEFINE n == LIMBS
           w == RADIX
           zero == [i \in 1..n |-> 0]
           one == [i \in 1..n |-> IF i = 1 THEN 1 ELSE 0]
<1>1. /\ n \in Nat /\ n > 1 /\ w \in Nat /\ w >= 256 /\ P \in Nat /\ P > 0
      /\ CAP \in Nat /\ CAP = 2 * P + 38
  BY FieldSizes
<1>2. P >= 32749
  BY BitsFacts
<1>3. gf0 = zero
  BY DEF gf0, Repeat
<1>4. gf1 = one
  <2> DEFINE s == <<1>>
             t == [j \in 1..(n - 1) |-> 0]
             v == s \o t
  <2>1. s \in Seq(Int) /\ Len(s) = 1 /\ s[1] = 1
    OBVIOUS
  <2>2. n - 1 \in Nat /\ t \in [1..(n - 1) -> Int] /\ \A j \in 1..(n - 1) : t[j] = 0
    BY <1>1
  <2>3. one \in [1..n -> Int] /\ \A i \in 1..n : one[i] = IF i = 1 THEN 1 ELSE 0
    OBVIOUS
  <2> HIDE DEF s, t, one, n
  <2>4. t \in Seq(Int) /\ Len(t) = n - 1
    BY <2>2, WholeArray
  <2>5. one \in Seq(Int) /\ Len(one) = n
    BY <1>1, <2>3, WholeArray
  <2>6. /\ v \in Seq(Int) /\ Len(v) = Len(s) + Len(t)
        /\ \A i \in 1..(Len(s) + Len(t)) : v[i] = IF i <= Len(s) THEN s[i] ELSE t[i - Len(s)]
    BY <2>1, <2>4, Concatenation, Zenon
  <2> HIDE DEF v
  <2>7. Len(v) = n /\ \A i \in 1..n : v[i] = one[i]
    <3>1. 1 + (n - 1) = n
      BY <1>1
    <3>2. ASSUME NEW i \in 1..n PROVE v[i] = one[i]
      <4>1. CASE i = 1
        BY <1>1, <2>1, <2>3, <2>4, <2>6, <3>1, <4>1
      <4>2. CASE i # 1
        <5>1. i - 1 \in 1..(n - 1) /\ ~(i <= 1)
          BY <1>1, <4>2
        <5> QED BY <2>1, <2>2, <2>3, <2>4, <2>6, <3>1, <4>2, <5>1
      <4> QED BY <4>1, <4>2
    <3> QED BY <2>1, <2>4, <2>6, <3>1, <3>2
  <2>8. v = one
    BY <2>5, <2>6, <2>7, SameSeq
  <2>9. gf1 = v
    BY Zenon DEF gf1, Repeat, v, s, t, n
  <2> QED BY <2>8, <2>9
<1>5. Tight(zero) /\ Tight(one)
  <2>1. zero \in gf /\ one \in gf
    BY DEF gf
  <2>2. zero[1] = 0 /\ one[1] = 1
    BY <1>1
  <2>3. \A i \in 2..n : i \in 1..n /\ i # 1
    BY <1>1
  <2>4. \A i \in 2..n : zero[i] = 0 /\ one[i] = 0
    BY <2>3
  <2>5. \A i \in 2..n : zero[i] \in 0..(w - 1) /\ one[i] \in 0..(w - 1)
    <3> HIDE DEF zero, one
    <3>1. 0 \in 0..(w - 1)
      BY <1>1
    <3> QED BY <2>4, <3>1
  <2> HIDE DEF zero, one
  <2> QED BY <1>1, <2>1, <2>2, <2>5 DEF Tight
<1>6. WorthOf(zero) = 0
  <2>1. IsInts(zero, n) /\ \A k \in (0 + 1)..n : zero[k] = 0
    BY DEF IsInts
  <2> HIDE DEF zero
  <2>2. 0 \in 0..n /\ w > 0
    BY <1>1
  <2>3. Worth(zero, w, n) = Worth(zero, w, 0)
    BY <1>1, <2>1, <2>2, WorthZeros
  <2> QED BY <2>3, WorthZero DEF WorthOf
<1>7. WorthOf(one) = 1
  BY UnitWorth
<1> HIDE DEF zero, one
<1>8. Element(zero) = 0 % P /\ Element(one) = 1 % P
  BY <1>5, <1>6, <1>7, ElementFacts DEF Tight
<1>9. 0 % P = 0 /\ 1 % P = 1
  <2>1. 0 \in Nat /\ 0 \in 0..(P - 1) /\ 0 = 0 * P + 0
    BY <1>1
  <2>2. 1 \in 0..(P - 1) /\ 1 = 0 * P + 1
    BY <1>1, <1>2
  <2>3. 0 % P = 0
    BY <1>1, <2>1, DivisionUnique
  <2>4. 1 % P = 1
    BY <1>1, <2>1, <2>2, DivisionUnique
  <2> QED BY <2>3, <2>4
<1> QED BY <1>3, <1>4, <1>5, <1>8, <1>9

LEMMA SumsStay ==
  ASSUME FieldAssumption, NEW a \in gf, NEW b \in gf
  PROVE  A(a, b) \in gf /\ Z(a, b) \in gf
<1> DEFINE n == LIMBS
           s == [i \in 1..n |-> a[i] + b[i]]
           d == [i \in 1..n |-> a[i] - b[i]]
<1>1. n \in Nat
  BY FieldSizes
<1>2. \A i \in 1..n : a[i] \in Int /\ b[i] \in Int
  BY DEF gf
<1>3. A(a, b) = SubSeq(s, 1, n) /\ Z(a, b) = SubSeq(d, 1, n)
  BY Zenon DEF A, Z, Array
<1>4. s \in [1..n -> Int] /\ d \in [1..n -> Int]
  BY <1>2
<1> HIDE DEF s, d, n
<1>5. SubSeq(s, 1, n) = s /\ SubSeq(d, 1, n) = d
  BY <1>1, <1>4, WholeArray
<1> QED BY <1>3, <1>4, <1>5 DEF gf, n

LEMMA StepStays ==
  ASSUME FieldAssumption, A24 \in gf, NEW x \in gf, NEW regs \in [1..4 -> gf], NEW r
  PROVE  LadderStep(regs, x, r) \in [1..4 -> gf]
<1>1. ASSUME NEW m \in [1..4 -> gf] PROVE Swapped(m, r) \in [1..4 -> gf]
  <2>1. m[1] \in gf /\ m[2] \in gf /\ m[3] \in gf /\ m[4] \in gf
    OBVIOUS
  <2>2. Swapped(m, r) = IF r = 1 THEN <<m[2], m[1], m[4], m[3]>>
                        ELSE <<m[1], m[2], m[3], m[4]>>
    BY SwappedIs, Zenon
  <2>3. <<m[2], m[1], m[4], m[3]>> \in [1..4 -> gf] /\ <<m[1], m[2], m[3], m[4]>> \in [1..4 -> gf]
    BY <2>1, FourFacts, Zenon
  <2> QED BY <2>2, <2>3
<1>2. ASSUME NEW m \in [1..4 -> gf] PROVE Doubling(m, x) \in [1..4 -> gf]
  <2> DEFINE e == A(m[1], m[3])
             a == Z(m[1], m[3])
             f == A(m[2], m[4])
             b == Z(m[2], m[4])
             ee == S(e)
             aa == S(a)
             da == M(f, a)
             cb == M(b, e)
  <2>1. m[1] \in gf /\ m[2] \in gf /\ m[3] \in gf /\ m[4] \in gf
    OBVIOUS
  <2>2. e \in gf /\ a \in gf /\ f \in gf /\ b \in gf
    BY <2>1, SumsStay, Zenon
  <2>3. Doubling(m, x) = <<M(ee, aa), S(A(da, cb)), M(Z(ee, aa), A(M(Z(ee, aa), A24), ee)),
                           M(S(Z(da, cb)), x)>>
    BY Zenon DEF Doubling, SumsAndProducts, Products
  <2> HIDE DEF e, a, f, b
  <2>4. ee \in gf /\ aa \in gf /\ da \in gf /\ cb \in gf
    BY <2>2, ProductStays, Zenon DEF S
  <2> HIDE DEF ee, aa, da, cb
  <2>5. M(ee, aa) \in gf
    BY <2>4, ProductStays, Zenon
  <2>6. A(da, cb) \in gf /\ Z(da, cb) \in gf /\ Z(ee, aa) \in gf
    BY <2>4, SumsStay, Zenon
  <2>7. S(A(da, cb)) \in gf /\ S(Z(da, cb)) \in gf
    BY <2>6, ProductStays, Zenon DEF S
  <2>8. M(Z(ee, aa), A24) \in gf
    BY <2>6, ProductStays, Zenon
  <2>9. A(M(Z(ee, aa), A24), ee) \in gf
    BY <2>4, <2>8, SumsStay, Zenon
  <2>10. M(Z(ee, aa), A(M(Z(ee, aa), A24), ee)) \in gf /\ M(S(Z(da, cb)), x) \in gf
    BY <2>6, <2>7, <2>9, ProductStays, Zenon
  <2> DEFINE r1 == M(ee, aa)
             r2 == S(A(da, cb))
             r3 == M(Z(ee, aa), A(M(Z(ee, aa), A24), ee))
             r4 == M(S(Z(da, cb)), x)
  <2>11. r1 \in gf /\ r2 \in gf /\ r3 \in gf /\ r4 \in gf
    BY <2>5, <2>7, <2>10
  <2>12. Doubling(m, x) = <<r1, r2, r3, r4>>
    BY <2>3
  <2> HIDE DEF r1, r2, r3, r4
  <2>13. <<r1, r2, r3, r4>> \in [1..4 -> gf]
    BY <2>11, FourFacts, Zenon
  <2> QED BY <2>12, <2>13, Zenon
<1>3. Swapped(regs, r) \in [1..4 -> gf]
  BY <1>1
<1>4. Doubling(Swapped(regs, r), x) \in [1..4 -> gf]
  BY <1>2, <1>3, Zenon
<1>5. Swapped(Doubling(Swapped(regs, r), x), r) \in [1..4 -> gf]
  BY <1>1, <1>4, Zenon
<1> QED BY <1>5, Zenon DEF LadderStep

(* The registers after each turn.                                          *)
LadderRuns(g, x, z) ==
  /\ g \in [Nat -> [1..4 -> gf]] /\ g[0] = <<gf1, x, gf0, gf1>>
  /\ \A k \in Nat : k < BITS - 1 =>
       g[k + 1] = LadderStep(g[k], x, Bit(z, BITS - 1 - (k + 1)))

LadderRunsTo(out, x, z) == \E g : LadderRuns(g, x, z) /\ out = g[BITS - 1]

Ladder(x, z) ==
  LET Turn(regs, k) == LadderStep(regs, x, Bit(z, BITS - 1 - k))
  IN  Loop([1..4 -> gf], Turn, <<gf1, x, gf0, gf1>>, BITS - 1)

LEMMA LadderLoopRuns ==
  ASSUME FieldAssumption, A24 \in gf, NEW x \in gf, NEW z
  PROVE  LadderRunsTo(Ladder(x, z), x, z)
<1> DEFINE Turned(s, i) == LadderStep(s, x, Bit(z, BITS - 1 - i))
           T == [1..4 -> gf]
           N == BITS - 1
           step == [p \in T \X Nat |->
                      IF p[2] > 0 /\ p[2] <= N THEN Turned(p[1], p[2]) ELSE p[1]]
           first == <<gf1, x, gf0, gf1>>
           K == 1..(N + 1)
           Is(run) == run = [p \in T \X K |->
                               IF p[2] > N THEN p[1]
                               ELSE run[<<Turned(p[1], p[2]), p[2] + 1>>]]
           chosen == CHOOSE run : Is(run)
<1>1. N \in Nat
  BY BitsFacts
<1>2. first \in T
  <2>1. gf0 \in gf /\ gf1 \in gf
    BY ConstantFacts DEF Tight
  <2> QED BY <2>1, FourFacts, Zenon
<1>3. ASSUME NEW s \in T, NEW i \in Nat, i > 0, i <= N PROVE Turned(s, i) \in T
  <2> HIDE DEF T, N
  <2>1. s \in [1..4 -> gf]
    BY DEF T
  <2>2. Turned(s, i) \in [1..4 -> gf]
    BY <2>1, StepStays
  <2> QED BY <2>2 DEF T
<1>4. Ladder(x, z) = chosen[<<first, 1>>]
  BY Zenon DEF Ladder, Loop, Turned, T, N, first, K
<1> HIDE DEF Turned, T, N
<1>5. /\ step \in [T \X Nat -> T]
      /\ \A s \in T : \A i \in Nat : i > 0 /\ i <= N => step[<<s, i>>] = Turned(s, i)
  BY <1>3
<1> HIDE DEF step, first
<1>6. ASSUME NEW p \in T \X K, ~(p[2] > N)
      PROVE  step[<<p[1], p[2]>>] = Turned(p[1], p[2])
  <2>1. p[1] \in T /\ p[2] \in Nat /\ p[2] > 0 /\ p[2] <= N
    BY <1>1, <1>6
  <2> QED BY <1>5, <2>1
<1>7. ASSUME NEW run, IsLoop(run, T, N, step) PROVE Is(run)
  <2>1. run = [p \in T \X K |->
                 IF p[2] > N THEN p[1] ELSE run[<<step[<<p[1], p[2]>>], p[2] + 1>>]]
    BY <1>7 DEF IsLoop
  <2> HIDE DEF K
  <2> QED BY <1>6, <2>1
<1>8. ASSUME NEW run, Is(run) PROVE IsLoop(run, T, N, step)
  <2>1. run = [p \in T \X K |->
                 IF p[2] > N THEN p[1] ELSE run[<<step[<<p[1], p[2]>>], p[2] + 1>>]]
    <3>1. run = [p \in T \X K |->
                   IF p[2] > N THEN p[1] ELSE run[<<Turned(p[1], p[2]), p[2] + 1>>]]
      BY <1>8
    <3> HIDE DEF K
    <3> QED BY <1>6, <3>1
  <2> QED BY <2>1 DEF IsLoop
<1>9. Is(chosen)
  <2>1. \E run : IsLoop(run, T, N, step)
    BY <1>1, <1>5, LoopExists
  <2>2. PICK run : IsLoop(run, T, N, step)
    BY <2>1
  <2>3. Is(run)
    BY <1>7, <2>2
  <2> HIDE DEF Is
  <2> QED BY <2>3, Zenon
<1> HIDE DEF chosen
<1>10. IsLoop(chosen, T, N, step)
  <2> HIDE DEF Is
  <2> QED BY <1>8, <1>9
<1>11. EndsIn(chosen[<<first, 1>>], T, first, N, step)
  <2> HIDE DEF Is, K
  <2> QED BY <1>1, <1>2, <1>5, <1>10, LoopTurns
<1>12. PICK g : Advances(g, T, first, step) /\ chosen[<<first, 1>>] = g[N]
  BY <1>11, Zenon DEF EndsIn
<1>13. /\ g \in [Nat -> T] /\ g[0] = first
       /\ \A i \in Nat : g[i + 1] = step[<<g[i], i + 1>>]
  BY <1>12 DEF Advances
<1>14. ASSUME NEW i \in Nat, i < N PROVE g[i + 1] = Turned(g[i], i + 1)
  <2>1. i + 1 \in Nat /\ i + 1 > 0 /\ i + 1 <= N /\ g[i] \in T
    BY <1>1, <1>13, <1>14
  <2> QED BY <1>5, <1>13, <2>1
<1>15. LadderRuns(g, x, z)
  BY <1>13, <1>14, Zenon DEF LadderRuns, Turned, T, N, first
<1>16. Ladder(x, z) = g[N]
  BY <1>4, <1>12, Zenon
<1> QED BY <1>15, <1>16, Zenon DEF LadderRunsTo, N

(* The same on numbers.                                                    *)
NumberLadder(z, x) ==
  LET n[k \in 0..(BITS - 1)] ==
        IF k = 0 THEN <<1, x, 0, 1>>
        ELSE NumberStep(n[k - 1], x, Bit(z, BITS - 1 - k))
  IN  n[BITS - 1]

LEMMA LadderIsExact ==
  ASSUME FieldAssumption, Tight(A24), NEW x, Tight(x), NEW z
  PROVE  AreTight(Ladder(x, z)) /\ Elements(Ladder(x, z)) = NumberLadder(z, Element(x))
<1> DEFINE N == BITS - 1
           nx == Element(x)
           first == <<gf1, x, gf0, gf1>>
           numbers == <<1, nx, 0, 1>>
<1>1. N \in Nat /\ 0 \in 0..N /\ N \in 0..N
  BY BitsFacts
<1>2. x \in gf /\ A24 \in gf
  BY DEF Tight
<1>3. PICK g : LadderRuns(g, x, z) /\ Ladder(x, z) = g[N]
  <2>1. LadderRunsTo(Ladder(x, z), x, z)
    BY <1>2, LadderLoopRuns
  <2> QED BY <2>1, Zenon DEF LadderRunsTo
<1>4. g[0] = first
  BY <1>3, Zenon DEF LadderRuns
<1>5. \A k \in Nat : k < N => g[k + 1] = LadderStep(g[k], x, Bit(z, BITS - 1 - (k + 1)))
  BY <1>3 DEF LadderRuns
<1>6. AreTight(first) /\ Elements(first) = numbers
  <2>1. Tight(gf0) /\ Element(gf0) = 0 /\ Tight(gf1) /\ Element(gf1) = 1
    BY ConstantFacts
  <2>2. AreTight(first) /\ Elements(first) = <<Element(gf1), nx, Element(gf0), Element(gf1)>>
    BY <2>1, FourTight
  <2> HIDE DEF first
  <2> QED BY <2>1, <2>2
<1> HIDE DEF N, nx, first, numbers
<1> DEFINE Good == {k \in Nat : k <= N => AreTight(g[k])}
<1>7. \A k \in 0..N : AreTight(g[k])
  <2>1. 0 \in Good
    BY <1>4, <1>6
  <2>2. ASSUME NEW k \in Nat, k \in Good PROVE k + 1 \in Good
    <3>1. CASE k + 1 <= N
      <4>1. k < N /\ AreTight(g[k])
        BY <1>1, <2>2, <3>1
      <4>2. g[k + 1] = LadderStep(g[k], x, Bit(z, BITS - 1 - (k + 1)))
        BY <1>5, <4>1
      <4>3. AreTight(g[k + 1])
        BY <4>1, <4>2, LadderStepIsExact
      <4> QED BY <4>3
    <3> QED BY <3>1
  <2> HIDE DEF Good
  <2>3. Nat \subseteq Good
    BY <2>1, <2>2, SetInduction
  <2> QED BY <1>1, <2>3 DEF Good
<1> DEFINE Is(f) == f = [k \in 0..N |-> IF k = 0 THEN numbers
                                        ELSE NumberStep(f[k - 1], nx, Bit(z, BITS - 1 - k))]
           h == [k \in 0..N |-> Elements(g[k])]
           chosen == CHOOSE f : Is(f)
<1>8. ASSUME NEW k \in 0..N
      PROVE  Elements(g[k]) = IF k = 0 THEN numbers
                              ELSE NumberStep(Elements(g[k - 1]), nx, Bit(z, BITS - 1 - k))
  <2>1. CASE k = 0
    BY <1>4, <1>6, <2>1
  <2>2. CASE k # 0
    <3> DEFINE l == k - 1
    <3>1. l \in Nat /\ l < N /\ l + 1 = k /\ l \in 0..N
      BY <1>1, <2>2
    <3> HIDE DEF l
    <3>2. g[k] = LadderStep(g[l], x, Bit(z, BITS - 1 - k)) /\ AreTight(g[l])
      BY <1>5, <1>7, <3>1
    <3>3. Elements(g[k]) = NumberStep(Elements(g[l]), nx, Bit(z, BITS - 1 - k))
      BY <3>2, LadderStepIsExact DEF nx
    <3> QED BY <2>2, <3>3 DEF l
  <2> QED BY <2>1, <2>2
<1>9. Is(h)
  <2>1. \A k \in 0..N : k # 0 => h[k - 1] = Elements(g[k - 1])
    BY <1>1
  <2>2. \A k \in 0..N : Elements(g[k]) = IF k = 0 THEN numbers
                                         ELSE NumberStep(h[k - 1], nx, Bit(z, BITS - 1 - k))
    BY <1>8, <2>1
  <2> QED BY <2>2
<1>10. Is(chosen)
  <2> HIDE DEF Is, h
  <2> QED BY <1>9, Zenon
<1>11. NumberLadder(z, nx) = chosen[N]
  BY Zenon DEF NumberLadder, N, numbers
<1> HIDE DEF chosen
<1>12. \A k \in 0..N : chosen[k] = IF k = 0 THEN numbers
                                   ELSE NumberStep(chosen[k - 1], nx, Bit(z, BITS - 1 - k))
  BY <1>10, Zenon
<1> HIDE DEF Is, h
<1> DEFINE Same == {k \in Nat : k <= N => chosen[k] = Elements(g[k])}
<1>13. chosen[N] = Elements(g[N])
  <2>1. 0 \in Same
    BY <1>1, <1>8, <1>12
  <2>2. ASSUME NEW k \in Nat, k \in Same PROVE k + 1 \in Same
    <3>1. CASE k + 1 <= N
      <4>1. k + 1 \in 0..N /\ (k + 1) - 1 = k /\ k + 1 # 0 /\ chosen[k] = Elements(g[k])
        BY <1>1, <2>2, <3>1
      <4>2. chosen[k + 1] = NumberStep(chosen[k], nx, Bit(z, BITS - 1 - (k + 1)))
        BY <1>12, <4>1, Zenon
      <4>3. Elements(g[k + 1]) = NumberStep(Elements(g[k]), nx, Bit(z, BITS - 1 - (k + 1)))
        BY <1>8, <4>1, Zenon
      <4>4. chosen[k + 1] = Elements(g[k + 1])
        BY <4>1, <4>2, <4>3, Zenon
      <4> QED BY <4>4
    <3> QED BY <3>1
  <2> HIDE DEF Same
  <2>3. Nat \subseteq Same
    BY <2>1, <2>2, SetInduction
  <2> QED BY <1>1, <2>3 DEF Same
<1> QED BY <1>1, <1>3, <1>7, <1>11, <1>13 DEF nx

(* crypto_scalarmult: what it returns are the bytes of the quotient of the *)
(* first and the third of the numbers that the ladder ends in.             *)
THEOREM ScalarMultIsExact ==
  ASSUME FieldAssumption, Tight(A24), NEW n, NEW p, AreDigits(p, BYTE, BYTES)
  PROVE  LET l == NumberLadder(Clamp(n), (Worth(p, BYTE, BYTES) % (P + 19)) % P)
         IN  crypto_scalarmult(n, p) = Digits((l[1] * PowersOf(l[3])[P - 2]) % P)
<1> DEFINE x == unpack25519(p)
           z == Clamp(n)
           out == Ladder(x, z)
           l == NumberLadder(z, Element(x))
           a == out[1]
           c == out[3]
           v == inv25519(c)
<1>1. Tight(x) /\ Element(x) = (Worth(p, BYTE, BYTES) % (P + 19)) % P
  BY UnpackIsExact
<1>2. crypto_scalarmult(n, p) = Quotient(out)
  BY Zenon DEF crypto_scalarmult, Ladder
<1> HIDE DEF x, z
<1>3. AreTight(out) /\ Elements(out) = l
  BY <1>1, LadderIsExact
<1> HIDE DEF out
<1>4. /\ Tight(a) /\ Tight(c) /\ l[1] = Element(a) /\ l[3] = Element(c)
      /\ Element(a) \in Int /\ Element(c) \in Int
  <2>1. Tight(a) /\ Tight(c)
    BY <1>3 DEF AreTight
  <2>2. Elements(out)[1] = Element(a) /\ Elements(out)[3] = Element(c)
    BY DEF Elements
  <2>3. Element(a) \in 0..(P - 1) /\ Element(c) \in 0..(P - 1) /\ P \in Nat
    BY <2>1, ElementFacts, FieldSizes DEF Tight
  <2>4. Element(a) \in Int /\ Element(c) \in Int
    BY <2>3
  <2> QED BY <1>3, <2>1, <2>2, <2>4
<1> HIDE DEF a, c, l
<1>5. IsPower(v, c, P - 2) /\ P - 2 \in Nat
  BY <1>4, InverseIsPower
<1> HIDE DEF v
<1> DEFINE w == PowersOf(Element(c))[P - 2]
           y == Element(a)
<1>6. Tight(v) /\ Element(v) = w % P /\ w \in Int
  BY <1>4, <1>5, PowersAreInts DEF IsPower
<1>7. Loose(a) /\ Loose(v)
  BY <1>4, <1>6, LooseFacts
<1>8. Tight(M(a, v)) /\ Element(M(a, v)) = (y * Element(v)) % P
  BY <1>7, ProductIsExact
<1>9. Modest(M(a, v))
  BY <1>8, LooseFacts
<1>10. Quotient(out) = Digits(Element(M(a, v)))
  <2>1. Quotient(out) = pack25519(M(a, v))
    BY Zenon DEF Quotient, a, v, c
  <2> QED BY <1>9, <2>1, PackIsCanonical
<1> HIDE DEF w
<1>11. (y * (w % P)) % P = (y * w) % P
  <2> HIDE DEF y
  <2>1. P \in Nat /\ P > 0 /\ y \in Int /\ w \in Int
    BY <1>4, <1>6, FieldSizes DEF y
  <2> DEFINE r == w % P
  <2>2. r \in 0..(P - 1) /\ Congruent(r, w, P)
    BY <2>1, IntCongruentRemainder
  <2> HIDE DEF r
  <2>3. r \in Int
    BY <2>1, <2>2
  <2>4. Congruent(y * r, y * w, P)
    BY <2>1, <2>2, <2>3, CongruentTimes
  <2>5. y * r \in Int /\ y * w \in Int
    BY <2>1, <2>3
  <2> DEFINE s == y * r
             t == y * w
  <2> HIDE DEF s, t
  <2>6. s \in Int /\ t \in Int /\ Congruent(s, t, P)
    BY <2>4, <2>5 DEF s, t
  <2>7. s % P = t % P
    BY <2>6, CongruentElements
  <2> QED BY <2>7 DEF s, t, r
<1>12. crypto_scalarmult(n, p) = Digits((y * w) % P)
  BY <1>2, <1>6, <1>8, <1>10, <1>11
<1> QED BY <1>1, <1>4, <1>12 DEF l, w, y, z
=============================================================================
