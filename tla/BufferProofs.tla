---------------------------- MODULE BufferProofs ----------------------------
(***************************************************************************)
(* Facts about numbers, strings and buffers that the proofs about the hash *)
(* libraries share: quotients and remainders, counters of two words, the   *)
(* parts of a string, what memcpy leaves in a buffer, and the arithmetic   *)
(* of numbers in digits: sums, what digits are worth, carries, and         *)
(* congruence.  Induction is stated of sets of numbers.                    *)
(***************************************************************************)
EXTENDS Buffers, WellFoundedInduction, TLAPS

-----------------------------------------------------------------------------
(* Induction, on sets, and the functions that it defines. *)

LEMMA LeastElement ==
  ASSUME NEW T \in SUBSET Nat, T # {}
  PROVE  \E n \in T : \A m \in T : n <= m
<1> DEFINE R == OpToRel(<, Nat)
<1>1. IsWellFoundedOn(R, Nat)
  BY NatLessThanWellFounded
<1>2. \A x, y \in Nat : x < y => <<x, y>> \in R
  BY DEF OpToRel
<1> HIDE DEF R
<1>3. \E x \in T : \A y \in T : ~ (<<y, x>> \in R)
  BY <1>1, WFMin, Zenon
<1>4. PICK n \in T : \A y \in T : ~ (<<y, n>> \in R)
  BY <1>3, Zenon
<1>5. ASSUME NEW m \in T PROVE n <= m
  <2>1. n \in Nat /\ m \in Nat
    OBVIOUS
  <2>2. ~(<<m, n>> \in R)
    BY <1>4
  <2>3. ~(m < n)
    BY <1>2, <2>1, <2>2, Zenon
  <2> QED BY <2>1, <2>3
<1> QED BY <1>5

(* A set with 0 and the successor of each of its numbers has all of them.  *)
LEMMA SetInduction ==
  ASSUME NEW S, 0 \in S, \A n \in Nat : n \in S => n + 1 \in S
  PROVE  Nat \subseteq S
<1> DEFINE T == Nat \ S
<1>1. SUFFICES ASSUME T # {} PROVE FALSE
  OBVIOUS
<1>2. PICK n \in T : \A m \in T : n <= m
  BY <1>1, LeastElement
<1>3. n # 0 /\ n - 1 \in Nat
  BY <1>2
<1>4. n - 1 \in S
  BY <1>2, <1>3
<1> QED BY <1>3, <1>4, <1>2

(* A set with 0 and every number that it has the half of has all of them.  *)
LEMMA HalvingInduction ==
  ASSUME NEW n \in Nat, NEW S, 0 \in S, \A k \in 1..n : k \div 2 \in S => k \in S
  PROVE  0..n \subseteq S
<1> DEFINE T == {k \in Nat : \A j \in 0..k : j <= n => j \in S}
<1>1. 0 \in T
  OBVIOUS
<1>2. ASSUME NEW k \in Nat, k \in T PROVE k + 1 \in T
  <2>1. ASSUME k + 1 <= n PROVE k + 1 \in S
    <3>1. k + 1 \in 1..n /\ (k + 1) \div 2 \in 0..k /\ (k + 1) \div 2 <= n
      BY <2>1
    <3>2. (k + 1) \div 2 \in S
      BY <1>2, <3>1
    <3> QED BY <3>1, <3>2
  <2>2. ASSUME NEW j \in 0..(k + 1), j <= n PROVE j \in S
    <3>1. CASE j = k + 1
      BY <2>1, <2>2, <3>1
    <3>2. CASE j # k + 1
      BY <1>2, <2>2, <3>2
    <3> QED BY <3>1, <3>2
  <2> QED BY <2>2
<1>3. Nat \subseteq T
  <2> HIDE DEF T
  <2> QED BY <1>1, <1>2, SetInduction
<1> QED BY <1>3

(* A function on the numbers is defined by its first value and by a step.  *)
Iterates(f, V, v, step) ==
  f \in [Nat -> V] /\ f[0] = v /\ \A k \in Nat : f[k + 1] = step[f[k]]

LEMMA Iteration ==
  ASSUME NEW V, NEW v \in V, NEW step \in [V -> V]
  PROVE  \E f : Iterates(f, V, v, step)
<1> DEFINE Runs(n) == {g \in [0..n -> V] :
                         g[0] = v /\ \A k \in 0..(n - 1) : g[k + 1] = step[g[k]]}
           S == {n \in Nat : Runs(n) # {}}
<1>1. 0 \in S
  <2>1. [k \in 0..0 |-> v] \in Runs(0)
    OBVIOUS
  <2> QED BY <2>1
<1>2. ASSUME NEW n \in Nat, n \in S PROVE n + 1 \in S
  <2>1. PICK g \in [0..n -> V] : g[0] = v /\ \A k \in 0..(n - 1) : g[k + 1] = step[g[k]]
    BY <1>2
  <2> DEFINE h == [k \in 0..(n + 1) |-> IF k = n + 1 THEN step[g[n]] ELSE g[k]]
  <2>2. g[n] \in V /\ step[g[n]] \in V
    BY <2>1
  <2>3. h \in [0..(n + 1) -> V] /\ h[0] = v
    BY <2>1, <2>2
  <2>4. ASSUME NEW k \in 0..n PROVE h[k + 1] = step[h[k]]
    <3>1. CASE k = n
      BY <3>1
    <3>2. CASE k # n
      <4>1. k \in 0..(n - 1) /\ k + 1 # n + 1 /\ k # n + 1 /\ k + 1 \in 0..(n + 1)
        BY <3>2
      <4> QED BY <2>1, <4>1
    <3> QED BY <3>1, <3>2
  <2>5. (n + 1) - 1 = n
    OBVIOUS
  <2> HIDE DEF h
  <2>6. h \in Runs(n + 1)
    BY <2>3, <2>4, <2>5
  <2> QED BY <2>6
<1>3. Nat \subseteq S
  <2> HIDE DEF S
  <2> QED BY <1>1, <1>2, SetInduction
<1> DEFINE run(n) == CHOOSE g : g \in Runs(n)
           f == [n \in Nat |-> run(n)[n]]
<1>4. ASSUME NEW n \in Nat PROVE run(n) \in Runs(n)
  <2>1. \E g : g \in Runs(n)
    BY <1>3
  <2> HIDE DEF Runs
  <2> QED BY <2>1
<1>5. ASSUME NEW n \in Nat, NEW m \in 0..n, NEW g \in Runs(m), NEW h \in Runs(n)
      PROVE  g[m] = h[m]
  <2> DEFINE A == {k \in Nat : k <= m => g[k] = h[k]}
  <2>1. 0 \in A
    OBVIOUS
  <2>2. ASSUME NEW k \in Nat, k \in A PROVE k + 1 \in A
    <3>1. CASE k + 1 <= m
      <4>1. k \in 0..(m - 1) /\ k \in 0..(n - 1) /\ k <= m
        BY <3>1
      <4>2. g[k + 1] = step[g[k]] /\ h[k + 1] = step[h[k]] /\ g[k] = h[k]
        BY <2>2, <4>1
      <4> QED BY <4>2
    <3>2. CASE ~(k + 1 <= m)
      BY <3>2
    <3> QED BY <3>1, <3>2
  <2> HIDE DEF A
  <2>3. m \in A
    BY <2>1, <2>2, SetInduction
  <2> QED BY <2>3 DEF A
<1>6. f \in [Nat -> V] /\ f[0] = v
  <2>1. ASSUME NEW n \in Nat PROVE run(n)[n] \in V
    BY <1>4
  <2>2. run(0)[0] = v
    BY <1>4
  <2> HIDE DEF run
  <2> QED BY <2>1, <2>2
<1>7. ASSUME NEW k \in Nat PROVE f[k + 1] = step[f[k]]
  <2>1. run(k) \in Runs(k) /\ run(k + 1) \in Runs(k + 1) /\ k \in 0..(k + 1)
    <3>1. k + 1 \in Nat /\ k \in 0..(k + 1)
      OBVIOUS
    <3> HIDE DEF Runs, run
    <3> QED BY <1>4, <3>1
  <2> HIDE DEF run
  <2>2. run(k)[k] = run(k + 1)[k]
    <3> HIDE DEF Runs
    <3> QED BY <1>5, <2>1
  <2>3. run(k + 1)[k + 1] = step[run(k + 1)[k]]
    BY <2>1
  <2> QED BY <2>2, <2>3
<1> HIDE DEF f
<1>8. Iterates(f, V, v, step)
  BY <1>6, <1>7 DEF Iterates
<1> QED BY <1>8

(* A function whose step depends on the turn.                              *)
Unrolls(f, V, v, step) ==
  f \in [Nat -> V] /\ f[0] = v /\ \A k \in Nat : f[k + 1] = step[<<f[k], k>>]

(* It exists, whatever the step. *)
LEMMA Recursion ==
  ASSUME NEW V, NEW v \in V, NEW step \in [V \X Nat -> V]
  PROVE  \E f : Unrolls(f, V, v, step)
<1> DEFINE W == V \X Nat
           next == [p \in W |-> <<step[p], p[2] + 1>>]
<1>1. next \in [W -> W] /\ <<v, 0>> \in W
  OBVIOUS
<1>2. \A p \in W : next[p] = <<step[p], p[2] + 1>>
  OBVIOUS
<1> HIDE DEF next
<1>3. PICK g : Iterates(g, W, <<v, 0>>, next)
  <2> HIDE DEF W
  <2> QED BY <1>1, Iteration
<1>4. g \in [Nat -> W] /\ g[0] = <<v, 0>> /\ \A k \in Nat : g[k + 1] = next[g[k]]
  BY <1>3 DEF Iterates
<1> DEFINE A == {k \in Nat : g[k][2] = k}
<1>5. Nat \subseteq A
  <2>1. 0 \in A
    BY <1>4
  <2>2. ASSUME NEW k \in Nat, k \in A PROVE k + 1 \in A
    <3>1. g[k] \in W /\ k + 1 \in Nat /\ g[k][2] = k
      BY <1>4, <2>2
    <3>2. g[k + 1] = <<step[g[k]], g[k][2] + 1>>
      BY <1>2, <1>4, <3>1
    <3> QED BY <3>1, <3>2
  <2> HIDE DEF A
  <2> QED BY <2>1, <2>2, SetInduction
<1> DEFINE f == [k \in Nat |-> g[k][1]]
<1>6. f \in [Nat -> V] /\ f[0] = v
  BY <1>4
<1>7. ASSUME NEW k \in Nat PROVE f[k + 1] = step[<<f[k], k>>]
  <2>1. g[k] \in W /\ k + 1 \in Nat /\ g[k][2] = k
    BY <1>4, <1>5
  <2>2. g[k + 1] = <<step[g[k]], g[k][2] + 1>>
    BY <1>2, <1>4, <2>1
  <2>3. g[k] = <<g[k][1], g[k][2]>>
    BY <2>1
  <2>4. f[k + 1] = step[g[k]] /\ g[k] = <<f[k], k>>
    BY <2>1, <2>2, <2>3
  <2> QED BY <2>4
<1> HIDE DEF f
<1> QED BY <1>6, <1>7 DEF Unrolls

(* The same of the numbers up to n.                                        *)
UnrollsTo(f, n, V, v, step) ==
  /\ f \in [0..n -> V]
  /\ f = [k \in 0..n |-> IF k = 0 THEN v ELSE step[<<f[k - 1], k - 1>>]]

(* And so does this one. *)
LEMMA RecursionTo ==
  ASSUME NEW V, NEW v \in V, NEW step \in [V \X Nat -> V], NEW n \in Nat
  PROVE  \E f : UnrollsTo(f, n, V, v, step)
<1>1. PICK g : Unrolls(g, V, v, step)
  BY Recursion
<1>2. g \in [Nat -> V] /\ g[0] = v /\ \A k \in Nat : g[k + 1] = step[<<g[k], k>>]
  BY <1>1 DEF Unrolls
<1> DEFINE f == [k \in 0..n |-> g[k]]
<1>3. f \in [0..n -> V]
  BY <1>2
<1>4. ASSUME NEW k \in 0..n
      PROVE  f[k] = IF k = 0 THEN v ELSE step[<<f[k - 1], k - 1>>]
  <2>1. CASE k = 0
    BY <1>2, <2>1
  <2>2. CASE k # 0
    <3>1. k - 1 \in Nat /\ (k - 1) + 1 = k /\ k - 1 \in 0..n
      BY <2>2
    <3>2. g[k] = step[<<g[k - 1], k - 1>>]
      BY <1>2, <3>1
    <3> QED BY <2>2, <3>1, <3>2
  <2> QED BY <2>1, <2>2
<1> HIDE DEF f
<1>5. f = [k \in 0..n |-> IF k = 0 THEN v ELSE step[<<f[k - 1], k - 1>>]]
  BY <1>3, <1>4
<1> QED BY <1>3, <1>5 DEF UnrollsTo
-----------------------------------------------------------------------------
(* The arithmetic of counters and of blocks. *)

(* A quotient and a remainder are what the product and the bound say.      *)
LEMMA IntDivisionUnique ==
  ASSUME NEW w \in Nat, w > 0, NEW q \in Int, NEW r \in 0..(w - 1)
  PROVE  (q * w + r) \div w = q /\ (q * w + r) % w = r
<1> DEFINE n == q * w + r
           d == n \div w
           e == n % w
<1>1. n \in Int
  OBVIOUS
<1>2. d \in Int /\ e \in 0..(w - 1) /\ q * w + r = w * d + e
  BY <1>1
<1> HIDE DEF d, e
<1>3. (q - d) * w = e - r
  BY <1>2
<1>4. ~(q - d >= 1)
  <2>1. ASSUME q - d >= 1 PROVE (q - d) * w >= w
    BY <2>1, <1>2
  <2> QED BY <2>1, <1>2, <1>3
<1>5. ~(d - q >= 1)
  <2>1. ASSUME d - q >= 1 PROVE (d - q) * w >= w
    BY <2>1, <1>2
  <2>2. (d - q) * w = r - e
    BY <1>2
  <2> QED BY <2>1, <2>2, <1>2
<1>6. q = d
  BY <1>2, <1>4, <1>5
<1> QED BY <1>2, <1>3, <1>6 DEF d, e

LEMMA DivisionUnique ==
  ASSUME NEW w \in Nat, w > 0, NEW q \in Nat, NEW r \in 0..(w - 1)
  PROVE  (q * w + r) \div w = q /\ (q * w + r) % w = r
BY IntDivisionUnique

(* Every number is a quotient, a product and a remainder.                  *)
LEMMA IntDivision ==
  ASSUME NEW w \in Nat, w > 0, NEW n \in Int
  PROVE  \E q \in Int, r \in 0..(w - 1) :
           n = q * w + r /\ n \div w = q /\ n % w = r
<1> DEFINE d == n \div w
           e == n % w
<1>1. d \in Int /\ e \in 0..(w - 1) /\ n = w * d + e
  OBVIOUS
<1>2. d = n \div w /\ e = n % w
  OBVIOUS
<1> HIDE DEF d, e
<1>3. n = d * w + e
  BY <1>1
<1> QED BY <1>1, <1>2, <1>3

LEMMA Division ==
  ASSUME NEW w \in Nat, w > 0, NEW n \in Nat
  PROVE  \E q \in Nat, r \in 0..(w - 1) :
           n = q * w + r /\ n \div w = q /\ n % w = r
<1>1. PICK d \in Int, e \in 0..(w - 1) : n = d * w + e /\ n \div w = d /\ n % w = e
  BY IntDivision
<1>2. d \in Nat
  <2>1. SUFFICES ASSUME d < 0 PROVE FALSE
    BY <1>1
  <2> DEFINE c == -1 - d
  <2>2. c \in Nat /\ d = -1 - c
    BY <1>1, <2>1
  <2> HIDE DEF c
  <2>3. d * w = -w - c * w /\ c * w \in Nat
    BY <2>2
  <2> QED BY <1>1, <2>3
<1> QED BY <1>1, <1>2

(* The higher word wraps round. *)
LEMMA SuccessorModulo ==
  ASSUME NEW w \in Nat, w > 0, NEW q \in Nat
  PROVE  ((q % w) + 0) % w = q % w /\ ((q % w) + 1) % w = (q + 1) % w
<1>1. PICK a \in Nat, b \in 0..(w - 1) : q = a * w + b /\ q % w = b
  BY Division
<1>2. b = 0 * w + b /\ b % w = b
  BY DivisionUnique
<1>3. CASE b + 1 < w
  <2>1. b + 1 \in 0..(w - 1) /\ b + 1 = 0 * w + (b + 1)
    BY <1>3
  <2>2. (b + 1) % w = b + 1
    BY <2>1, DivisionUnique
  <2>3. q + 1 = a * w + (b + 1)
    BY <1>1
  <2>4. (q + 1) % w = b + 1
    BY <2>1, <2>3, DivisionUnique
  <2> QED BY <1>1, <1>2, <2>2, <2>4
<1>4. CASE b + 1 = w
  <2>1. 0 \in 0..(w - 1) /\ b + 1 = 1 * w + 0
    BY <1>4
  <2>2. (b + 1) % w = 0
    BY <2>1, DivisionUnique
  <2>3. a + 1 \in Nat /\ q + 1 = (a + 1) * w + 0
    BY <1>1, <1>4
  <2>4. (q + 1) % w = 0
    BY <2>1, <2>3, DivisionUnique
  <2> QED BY <1>1, <1>2, <2>2, <2>4
<1> QED BY <1>1, <1>3, <1>4

(* Dividing twice.                                                         *)
LEMMA NestedDivision ==
  ASSUME NEW a \in Nat, a > 0, NEW b \in Nat, b > 0, NEW n \in Nat
  PROVE  /\ n \div (b * a) = (n \div a) \div b
         /\ (n % (b * a)) \div a = (n \div a) % b
<1>1. PICK q \in Nat, r \in 0..(a - 1) : n = q * a + r /\ n \div a = q /\ n % a = r
  BY Division
<1>2. PICK p \in Nat, s \in 0..(b - 1) : q = p * b + s /\ q \div b = p /\ q % b = s
  BY Division
<1> DEFINE w == b * a
           e == s * a + r
<1>3. w \in Nat /\ w > 0
  OBVIOUS
<1>4. e \in 0..(w - 1)
  <2>1. s + 1 \in Nat /\ s + 1 <= b
    OBVIOUS
  <2>2. (s + 1) * a <= b * a /\ (s + 1) * a = s * a + a /\ s * a \in Nat
    BY <2>1
  <2> QED BY <2>2
<1>5. n = p * w + e
  <2>1. q * a = (p * b) * a + s * a
    BY <1>2
  <2>2. (p * b) * a = p * (b * a)
    OBVIOUS
  <2> QED BY <1>1, <2>1, <2>2
<1> HIDE DEF w
<1>6. n \div w = p /\ n % w = e
  <2> HIDE DEF e
  <2> QED BY <1>3, <1>4, <1>5, DivisionUnique
<1>7. e \div a = s
  BY DivisionUnique
<1> HIDE DEF e
<1> QED BY <1>1, <1>2, <1>6, <1>7 DEF w

(* Places in rows of B are ordered by their row, then by their column.     *)
LEMMA Lexicographic ==
  ASSUME NEW B \in Nat, NEW v \in Nat, NEW w \in Nat,
         NEW i \in 0..(B - 1), NEW j \in 0..(B - 1)
  PROVE  /\ v * B + i < w * B + j <=> v < w \/ (v = w /\ i < j)
         /\ v * B + i = w * B + j <=> v = w /\ i = j
<1>0. v * B \in Nat /\ w * B \in Nat
  OBVIOUS
<1>1. ASSUME NEW x \in Nat, NEW y \in Nat, x < y
      PROVE  x * B + B <= y * B
  <2>1. (x + 1) * B <= y * B /\ (x + 1) * B = x * B + B
    BY <1>1
  <2> QED BY <2>1
<1>2. CASE v < w
  <2>1. v * B + B <= w * B
    BY <1>1, <1>2
  <2> QED BY <1>0, <1>2, <2>1
<1>3. CASE v = w
  BY <1>0, <1>3
<1>4. CASE w < v
  <2>1. w * B + B <= v * B
    BY <1>1, <1>4
  <2> QED BY <1>0, <1>4, <2>1
<1> QED BY <1>2, <1>3, <1>4

(* A row ends where the next one begins, and within all the rows.          *)
LEMMA Rows ==
  ASSUME NEW B \in Nat, NEW n \in Nat, NEW k \in 1..n
  PROVE  /\ (k - 1) * B \in Nat /\ n * B \in Nat
         /\ (k - 1) * B + B <= n * B
<1>1. \E j \in Nat : k = j + 1
  <2>1. k - 1 \in Nat /\ k = (k - 1) + 1
    OBVIOUS
  <2> QED BY <2>1
<1>2. PICK j \in Nat : k = j + 1
  BY <1>1
<1>3. (j + 1) * B <= n * B /\ (j + 1) * B = j * B + B
  BY <1>2
<1>4. k - 1 = j /\ j * B \in Nat /\ n * B \in Nat
  BY <1>2
<1> QED BY <1>3, <1>4

(* The powers of a number. *)
LEMMA PowersAreInts ==
  ASSUME NEW R \in Int
  PROVE  /\ PowersOf(R)[0] = 1
         /\ \A k \in Nat : /\ PowersOf(R)[k] \in Int
                           /\ PowersOf(R)[k + 1] = R * PowersOf(R)[k]
<1> DEFINE step == [x \in Int |-> R * x]
           power == PowersOf(R)
<1>2. step \in [Int -> Int]
  OBVIOUS
<1> HIDE DEF step
<1>3. PICK f \in [Nat -> Int] : f[0] = 1 /\ \A k \in Nat : f[k + 1] = step[f[k]]
  <2>1. \E f : Iterates(f, Int, 1, step)
    BY <1>2, Iteration
  <2> QED BY <2>1 DEF Iterates
<1>4. ASSUME NEW k \in Nat
      PROVE  f[k] = IF k = 0 THEN 1 ELSE R * f[k - 1]
  <2>1. CASE k = 0
    BY <1>3, <2>1
  <2>2. CASE k # 0
    <3>1. k - 1 \in Nat /\ (k - 1) + 1 = k
      BY <2>2
    <3>2. f[k] = step[f[k - 1]] /\ f[k - 1] \in Int
      BY <1>3, <3>1
    <3> QED BY <2>2, <3>2 DEF step
  <2> QED BY <2>1, <2>2
<1>5. f = [k \in Nat |-> IF k = 0 THEN 1 ELSE R * f[k - 1]]
  BY <1>3, <1>4
<1>6. power = [k \in Nat |-> IF k = 0 THEN 1 ELSE R * power[k - 1]]
  BY <1>5, Zenon DEF PowersOf
<1> HIDE DEF power
<1>7. power[0] = 1
  BY <1>6
<1>8. ASSUME NEW k \in Nat PROVE power[k + 1] = R * power[k]
  <2>1. k + 1 \in Nat /\ k + 1 # 0 /\ (k + 1) - 1 = k
    OBVIOUS
  <2>2. power[k + 1] = IF k + 1 = 0 THEN 1 ELSE R * power[(k + 1) - 1]
    BY <1>6, <2>1
  <2> QED BY <2>1, <2>2
<1> DEFINE A == {k \in Nat : power[k] \in Int}
<1>9. Nat \subseteq A
  <2>1. 0 \in A
    BY <1>7
  <2>2. ASSUME NEW k \in Nat, k \in A PROVE k + 1 \in A
    <3>1. power[k] \in Int /\ power[k + 1] = R * power[k]
      BY <1>8, <2>2
    <3> QED BY <3>1
  <2> HIDE DEF A
  <2> QED BY <2>1, <2>2, SetInduction
<1> QED BY <1>7, <1>8, <1>9 DEF power

LEMMA PowersFacts ==
  ASSUME NEW R \in Nat, R > 0
  PROVE  /\ PowersOf(R)[0] = 1
         /\ \A k \in Nat : /\ PowersOf(R)[k] \in Nat /\ PowersOf(R)[k] > 0
                           /\ PowersOf(R)[k + 1] = R * PowersOf(R)[k]
<1> DEFINE power == PowersOf(R)
<1>1. power[0] = 1 /\ \A k \in Nat : power[k + 1] = R * power[k]
  BY PowersAreInts
<1> HIDE DEF power
<1> DEFINE A == {k \in Nat : power[k] \in Nat /\ power[k] > 0}
<1>2. Nat \subseteq A
  <2>1. 0 \in A
    BY <1>1
  <2>2. ASSUME NEW k \in Nat, k \in A PROVE k + 1 \in A
    <3>1. power[k] \in Nat /\ power[k] > 0 /\ power[k + 1] = R * power[k]
      BY <1>1, <2>2
    <3> DEFINE p == power[k]
    <3>2. p \in Nat /\ p > 0
      BY <3>1
    <3> HIDE DEF p
    <3>3. R * p \in Nat /\ R * p > 0
      BY <3>2
    <3> QED BY <3>1, <3>3 DEF p
  <2> HIDE DEF A
  <2> QED BY <2>1, <2>2, SetInduction
<1> QED BY <1>1, <1>2 DEF power

(* A power of a sum, and one of a product.                                 *)
LEMMA PowerOfSum ==
  ASSUME NEW R \in Int, NEW a \in Nat, NEW b \in Nat
  PROVE  PowersOf(R)[a + b] = PowersOf(R)[a] * PowersOf(R)[b]
<1> DEFINE p == PowersOf(R)
           A == {k \in Nat : p[k + b] = p[k] * p[b]}
<1>1. p[0] = 1 /\ \A k \in Nat : p[k] \in Int /\ p[k + 1] = R * p[k]
  BY PowersAreInts
<1> HIDE DEF p
<1>2. 0 \in A
  BY <1>1
<1>3. ASSUME NEW k \in Nat, k \in A PROVE k + 1 \in A
  <2>1. k + b \in Nat /\ (k + 1) + b = (k + b) + 1
    OBVIOUS
  <2>2. p[(k + 1) + b] = R * (p[k] * p[b]) /\ p[k + 1] = R * p[k]
    BY <1>1, <1>3, <2>1
  <2>3. R * (p[k] * p[b]) = (R * p[k]) * p[b]
    BY <1>1
  <2> QED BY <2>2, <2>3
<1> HIDE DEF A
<1>4. a \in A
  BY <1>2, <1>3, SetInduction
<1> QED BY <1>4 DEF A, p

LEMMA PowerOfPower ==
  ASSUME NEW R \in Int, NEW m \in Nat, NEW n \in Nat
  PROVE  PowersOf(PowersOf(R)[m])[n] = PowersOf(R)[n * m]
<1> DEFINE p == PowersOf(R)
           b == p[m]
           q == PowersOf(b)
           A == {k \in Nat : q[k] = p[k * m]}
<1>1. p[0] = 1 /\ b \in Int
  BY PowersAreInts
<1> HIDE DEF b
<1>2. q[0] = 1 /\ \A k \in Nat : q[k + 1] = b * q[k]
  BY <1>1, PowersAreInts
<1> HIDE DEF q
<1>3. 0 \in A
  <2>1. 0 * m = 0
    OBVIOUS
  <2> HIDE DEF p
  <2> QED BY <1>1, <1>2, <2>1
<1>4. ASSUME NEW k \in Nat, k \in A PROVE k + 1 \in A
  <2>1. (k + 1) * m = m + k * m /\ k * m \in Nat
    OBVIOUS
  <2>2. p[m + k * m] = p[m] * p[k * m]
    BY <2>1, PowerOfSum
  <2> HIDE DEF p
  <2>3. q[k + 1] = b * q[k] /\ q[k] = p[k * m]
    BY <1>2, <1>4
  <2>4. q[k + 1] = p[(k + 1) * m]
    BY <2>1, <2>2, <2>3, Zenon DEF b
  <2> QED BY <2>4
<1> HIDE DEF A
<1>5. n \in A
  BY <1>3, <1>4, SetInduction
<1> QED BY <1>5 DEF A, q, b, p

(* The last digit of a remainder.                                          *)
LEMMA NestedRemainder ==
  ASSUME NEW a \in Nat, a > 0, NEW b \in Nat, b > 0, NEW n \in Nat
  PROVE  (n % (b * a)) % a = n % a
<1> DEFINE w == b * a
<1>1. w \in Nat /\ w > 0
  OBVIOUS
<1> HIDE DEF w
<1>2. PICK q \in Nat, r \in 0..(w - 1) : n = q * w + r /\ n % w = r
  BY <1>1, Division
<1>3. PICK p \in Nat, s \in 0..(a - 1) : r = p * a + s /\ r % a = s
  BY Division
<1>4. n = (q * b + p) * a + s
  <2>1. q * w = (q * b) * a
    BY DEF w
  <2> QED BY <1>2, <1>3, <2>1
<1>5. q * b + p \in Nat
  OBVIOUS
<1>6. n % a = s
  BY <1>4, <1>5, DivisionUnique
<1> QED BY <1>2, <1>3, <1>6 DEF w

(* Two words that carry count like one number, though the carry is told    *)
(* from the wrapped sum alone.                                             *)
LEMMA CarryAdds ==
  ASSUME NEW W \in Nat, W > 0, NEW n \in Nat, NEW inc \in Nat, inc < W,
         NEW low, low = ((n % W) + inc) % W
  PROVE  /\ low = (n + inc) % W
         /\ (((n \div W) % W) + (IF low < inc THEN 1 ELSE 0)) % W
              = ((n + inc) \div W) % W
<1>1. PICK q \in Nat, r \in 0..(W - 1) :
        n = q * W + r /\ n \div W = q /\ n % W = r
  BY Division
<1>2. ((q % W) + 0) % W = q % W /\ ((q % W) + 1) % W = (q + 1) % W
  BY SuccessorModulo
<1>3. CASE r + inc < W
  <2>1. r + inc \in 0..(W - 1) /\ r + inc = 0 * W + (r + inc)
    BY <1>3
  <2>2. low = r + inc
    BY <1>1, <2>1, DivisionUnique
  <2>3. n + inc = q * W + (r + inc)
    BY <1>1
  <2>4. (n + inc) \div W = q /\ (n + inc) % W = r + inc
    BY <2>1, <2>3, DivisionUnique
  <2>5. ~(low < inc)
    BY <2>2
  <2> QED BY <1>1, <1>2, <2>2, <2>4, <2>5
<1>4. CASE r + inc >= W
  <2>1. r + inc - W \in 0..(W - 1) /\ r + inc = 1 * W + (r + inc - W)
    BY <1>4
  <2>2. low = r + inc - W
    BY <1>1, <2>1, DivisionUnique
  <2>3. n + inc = (q + 1) * W + (r + inc - W)
    BY <1>1
  <2>4. (n + inc) \div W = q + 1 /\ (n + inc) % W = r + inc - W
    BY <2>1, <2>3, DivisionUnique
  <2>5. low < inc
    BY <2>2
  <2> QED BY <1>1, <1>2, <2>2, <2>4, <2>5
<1> QED BY <1>3, <1>4

-----------------------------------------------------------------------------
(* Strings and buffers. *)

(* Sequences with the same elements at the same places are equal.          *)
LEMMA SameSeq ==
  ASSUME NEW S, NEW s \in Seq(S), NEW t \in Seq(S), Len(s) = Len(t),
         \A i \in 1..Len(s) : s[i] = t[i]
  PROVE  s = t
<1>1. s \in [1..Len(s) -> S] /\ t \in [1..Len(s) -> S]
  OBVIOUS
<1> QED BY <1>1

(* A string of some bytes is one of bytes.                                 *)
LEMMA WiderSeq ==
  ASSUME NEW T, NEW S \in SUBSET T, NEW s \in Seq(S)
  PROVE  s \in Seq(T)
<1>1. s \in [1..Len(s) -> T] /\ Len(s) \in Nat
  OBVIOUS
<1>2. \A n \in Nat : \A t \in [1..n -> T] : t \in Seq(T)
  OBVIOUS
<1> QED BY <1>1, <1>2

(* The bytes of the first part of a string, and of the rest.               *)
LEMMA TakeDrop ==
  ASSUME NEW S, NEW s \in Seq(S), NEW k \in 0..Len(s)
  PROVE  /\ Take(s, k) \in Seq(S) /\ Len(Take(s, k)) = k
         /\ \A i \in 1..k : Take(s, k)[i] = s[i]
         /\ Drop(s, k) \in Seq(S) /\ Len(Drop(s, k)) = Len(s) - k
         /\ \A i \in 1..(Len(s) - k) : Drop(s, k)[i] = s[i + k]
<1>1. /\ Take(s, k) \in Seq(S) /\ Len(Take(s, k)) = k
      /\ \A i \in 1..k : Take(s, k)[i] = s[i]
  BY DEF Take
<1>2. /\ Drop(s, k) \in Seq(S) /\ Len(Drop(s, k)) = Len(s) - k
      /\ \A i \in 1..(Len(s) - k) : Drop(s, k)[i] = s[i + k]
  BY DEF Drop
<1> QED BY <1>1, <1>2

(* The bytes of a concatenation.                                           *)
LEMMA Concatenation ==
  ASSUME NEW S, NEW s \in Seq(S), NEW t \in Seq(S)
  PROVE  /\ s \o t \in Seq(S) /\ Len(s \o t) = Len(s) + Len(t)
         /\ \A i \in 1..(Len(s) + Len(t)) :
              (s \o t)[i] = IF i <= Len(s) THEN s[i] ELSE t[i - Len(s)]
OBVIOUS

(* The bytes of two strings of numbers, one behind the other.              *)
IsJoined(c, s, t, k, l) ==
  /\ c \in Seq(Nat) /\ Len(c) = k + l
  /\ \A i \in 1..(k + l) : c[i] = IF i <= k THEN s[i] ELSE t[i - k]

LEMMA Joined ==
  ASSUME NEW s \in Seq(Nat), NEW t \in Seq(Nat), NEW k, NEW l, Len(s) = k, Len(t) = l
  PROVE  IsJoined(s \o t, s, t, k, l)
BY Concatenation DEF IsJoined

(* memcpy into a buffer: what it leaves and what it writes.                *)
LEMMA OverwriteFacts ==
  ASSUME NEW S, NEW n \in Nat, NEW b \in [1..n -> S], NEW at \in 0..n,
         NEW s \in Seq(S), at + Len(s) <= n
  PROVE  /\ Overwrite(b, at, s) \in Seq(S) /\ Len(Overwrite(b, at, s)) = n
         /\ Overwrite(b, at, s) \in [1..n -> S]
         /\ \A i \in 1..at : Overwrite(b, at, s)[i] = b[i]
         /\ \A i \in (at + 1)..(at + Len(s)) : Overwrite(b, at, s)[i] = s[i - at]
<1>1. Overwrite(b, at, s)
        = [j \in 1..n |-> IF at < j /\ j <= at + Len(s) THEN s[j - at] ELSE b[j]]
  BY DEF Overwrite
<1>2. ASSUME NEW j \in 1..n
      PROVE  (IF at < j /\ j <= at + Len(s) THEN s[j - at] ELSE b[j]) \in S
  <2>1. CASE at < j /\ j <= at + Len(s)
    <3>1. j - at \in 1..Len(s)
      BY <2>1
    <3> QED BY <2>1, <3>1
  <2> QED BY <2>1
<1>3. Overwrite(b, at, s) \in [1..n -> S]
  BY <1>1, <1>2
<1>4. Overwrite(b, at, s) \in Seq(S) /\ Len(Overwrite(b, at, s)) = n
  BY <1>3
<1> QED BY <1>1, <1>3, <1>4

(* The two parts of a string make it up.                                   *)
LEMMA Cut ==
  ASSUME NEW S, NEW s \in Seq(S), NEW k \in 0..Len(s)
  PROVE  s = Take(s, k) \o Drop(s, k)
<1> DEFINE a == Take(s, k)
           b == Drop(s, k)
<1>1. /\ a \in Seq(S) /\ Len(a) = k /\ \A i \in 1..k : a[i] = s[i]
      /\ b \in Seq(S) /\ Len(b) = Len(s) - k
      /\ \A i \in 1..(Len(s) - k) : b[i] = s[i + k]
  BY TakeDrop
<1> HIDE DEF a, b
<1>2. /\ a \o b \in Seq(S) /\ Len(a \o b) = Len(s)
      /\ \A i \in 1..Len(s) : (a \o b)[i] = IF i <= k THEN a[i] ELSE b[i - k]
  BY <1>1, Concatenation
<1>3. ASSUME NEW i \in 1..Len(s) PROVE (a \o b)[i] = s[i]
  <2>0. i <= k \/ i > k
    OBVIOUS
  <2>1. CASE i <= k
    BY <1>1, <1>2, <2>1
  <2>2. CASE i > k
    <3>1. PICK j \in 1..(Len(s) - k) : i = j + k /\ j = i - k
      BY <2>2
    <3>2. (a \o b)[i] = b[j]
      BY <1>2, <2>2, <3>1
    <3>3. b[j] = s[j + k]
      BY <1>1, <3>1
    <3> QED BY <3>1, <3>2, <3>3
  <2> QED BY <2>0, <2>1, <2>2
<1>4. s = a \o b
  BY <1>2, <1>3, SameSeq
<1> QED BY <1>4 DEF a, b

(* A string longer than k is cut into k bytes and at least one more.       *)
LEMMA Split ==
  ASSUME NEW S, NEW s \in Seq(S), NEW k \in Nat, k < Len(s)
  PROVE  /\ Take(s, k) \in Seq(S) /\ Len(Take(s, k)) = k
         /\ Drop(s, k) \in Seq(S) /\ Len(Drop(s, k)) > 0
         /\ s = Take(s, k) \o Drop(s, k)
<1>1. k \in 0..Len(s) /\ Len(s) - k > 0
  OBVIOUS
<1>2. /\ Take(s, k) \in Seq(S) /\ Len(Take(s, k)) = k
      /\ Drop(s, k) \in Seq(S) /\ Len(Drop(s, k)) = Len(s) - k
  BY <1>1, TakeDrop
<1>3. s = Take(s, k) \o Drop(s, k)
  BY <1>1, Cut
<1> QED BY <1>1, <1>2, <1>3

(* Taking the whole string.                                                *)
LEMMA TakeAll ==
  ASSUME NEW S, NEW s \in Seq(S)
  PROVE  Take(s, Len(s)) = s
<1> DEFINE t == Take(s, Len(s))
<1>1. t \in Seq(S) /\ Len(t) = Len(s) /\ \A i \in 1..Len(s) : t[i] = s[i]
  <2>1. Len(s) \in 0..Len(s)
    OBVIOUS
  <2> QED BY <2>1, TakeDrop
<1> HIDE DEF t
<1>2. t = s
  BY <1>1, SameSeq
<1> QED BY <1>2 DEF t

(* An array is the function it is made of.                                 *)
LEMMA WholeArray ==
  ASSUME NEW n \in Nat, NEW S, NEW f \in [1..n -> S]
  PROVE  SubSeq(f, 1, n) = f /\ f \in Seq(S) /\ Len(f) = n
<1>1. f \in Seq(S) /\ Len(f) = n
  OBVIOUS
<1>2. Take(f, Len(f)) = f
  BY <1>1, TakeAll
<1> QED BY <1>1, <1>2 DEF Take

(* It does not matter how three strings are put together.                  *)
LEMMA Associative ==
  ASSUME NEW S, NEW a \in Seq(S), NEW b \in Seq(S), NEW c \in Seq(S)
  PROVE  (a \o b) \o c = a \o (b \o c)
<1> DEFINE l == (a \o b) \o c
           r == a \o (b \o c)
<1>1. a \o b \in Seq(S) /\ b \o c \in Seq(S)
  OBVIOUS
<1>2. /\ l \in Seq(S) /\ Len(l) = Len(a) + Len(b) + Len(c)
      /\ r \in Seq(S) /\ Len(r) = Len(a) + Len(b) + Len(c)
  BY <1>1
<1>3. ASSUME NEW i \in 1..Len(l) PROVE l[i] = r[i]
  BY <1>1, <1>2
<1> HIDE DEF l, r
<1>4. l = r
  BY <1>2, <1>3, SameSeq
<1> QED BY <1>4 DEF l, r

(* The empty string adds nothing.                                          *)
LEMMA EmptyIsNeutral ==
  ASSUME NEW S, NEW s \in Seq(S)
  PROVE  <<>> \in Seq(S) /\ <<>> \o s = s /\ s \o <<>> = s
OBVIOUS

(* A string that was fed more begins with what it was.                     *)
LEMMA PrefixOfCat ==
  ASSUME NEW S, NEW s \in Seq(S), NEW t \in Seq(S)
  PROVE  Len(s \o t) >= Len(s) /\ SubSeq(s \o t, 1, Len(s)) = s
<1> DEFINE all == s \o t
           p == Take(all, Len(s))
<1>1. /\ all \in Seq(S) /\ Len(all) = Len(s) + Len(t)
      /\ \A i \in 1..Len(s) : all[i] = s[i]
  BY Concatenation
<1>2. Len(s) \in 0..Len(all) /\ Len(all) >= Len(s)
  BY <1>1
<1> HIDE DEF all
<1>3. p \in Seq(S) /\ Len(p) = Len(s) /\ \A i \in 1..Len(s) : p[i] = all[i]
  BY <1>1, <1>2, TakeDrop
<1> HIDE DEF p
<1>4. p = s
  BY <1>1, <1>3, SameSeq
<1> QED BY <1>2, <1>4 DEF p, all, Take

(* What follows the first of two strings is the second one.                *)
LEMMA DropOfCat ==
  ASSUME NEW S, NEW a \in Seq(S), NEW b \in Seq(S)
  PROVE  b = Drop(a \o b, Len(a))
<1> DEFINE c == a \o b
           k == Len(a)
           d == Drop(c, k)
<1>1. /\ c \in Seq(S) /\ Len(c) = k + Len(b)
      /\ \A i \in 1..Len(b) : c[i + k] = b[i]
  OBVIOUS
<1>2. k \in 0..Len(c) /\ Len(c) - k = Len(b)
  BY <1>1
<1> HIDE DEF c, k
<1>3. d \in Seq(S) /\ Len(d) = Len(c) - k
      /\ \A i \in 1..(Len(c) - k) : d[i] = c[i + k]
  BY <1>1, <1>2, TakeDrop
<1> HIDE DEF d
<1>4. b = d
  BY <1>1, <1>2, <1>3, SameSeq
<1> QED BY <1>4 DEF d, c, k

(* Moving a pointer on twice.                                              *)
LEMMA DropDrop ==
  ASSUME NEW S, NEW s \in Seq(S), NEW k \in 0..Len(s), NEW l \in 0..(Len(s) - k)
  PROVE  Drop(Drop(s, k), l) = Drop(s, k + l)
<1> DEFINE a == Drop(s, k)
           b == Drop(a, l)
           c == Drop(s, k + l)
<1>1. /\ a \in Seq(S) /\ Len(a) = Len(s) - k
      /\ \A i \in 1..(Len(s) - k) : a[i] = s[i + k]
  BY TakeDrop
<1>2. k + l \in 0..Len(s) /\ l \in 0..Len(a)
  BY <1>1
<1> HIDE DEF a
<1>3. /\ b \in Seq(S) /\ Len(b) = Len(a) - l
      /\ \A i \in 1..(Len(a) - l) : b[i] = a[i + l]
  BY <1>1, <1>2, TakeDrop
<1>4. /\ c \in Seq(S) /\ Len(c) = Len(s) - (k + l)
      /\ \A i \in 1..(Len(s) - (k + l)) : c[i] = s[i + (k + l)]
  BY <1>2, TakeDrop
<1> HIDE DEF b, c
<1>5. Len(b) = Len(c)
  BY <1>1, <1>3, <1>4
<1>6. ASSUME NEW i \in 1..Len(b) PROVE b[i] = c[i]
  <2>1. /\ i \in 1..(Len(a) - l) /\ i + l \in 1..(Len(s) - k)
        /\ i \in 1..(Len(s) - (k + l)) /\ i + l + k = i + (k + l)
    BY <1>1, <1>3
  <2>2. b[i] = a[i + l] /\ a[i + l] = s[i + l + k] /\ c[i] = s[i + (k + l)]
    BY <1>1, <1>3, <1>4, <2>1
  <2> QED BY <2>1, <2>2
<1>7. b = c
  BY <1>3, <1>4, <1>5, <1>6, SameSeq
<1> QED BY <1>7 DEF a, b, c

(* Nothing is left behind the last byte.                                   *)
LEMMA DropAll ==
  ASSUME NEW S, NEW s \in Seq(S)
  PROVE  Drop(s, Len(s)) = <<>>
<1> DEFINE d == Drop(s, Len(s))
<1>1. d \in Seq(S) /\ Len(d) = 0
  <2>1. Len(s) \in 0..Len(s) /\ Len(s) - Len(s) = 0
    OBVIOUS
  <2> QED BY <2>1, TakeDrop
<1> HIDE DEF d
<1>2. d = <<>>
  BY <1>1
<1> QED BY <1>2 DEF d

(* What is copied behind the first bytes of a buffer comes after them.     *)
LEMMA Appended ==
  ASSUME NEW S, NEW n \in Nat, NEW b \in [1..n -> S], NEW at \in 0..n,
         NEW s \in Seq(S), at + Len(s) <= n
  PROVE  Take(Overwrite(b, at, s), at + Len(s)) = Take(b, at) \o s
<1> DEFINE o == Overwrite(b, at, s)
           k == at + Len(s)
           t == Take(o, k)
           f == Take(b, at)
<1>1. /\ o \in Seq(S) /\ Len(o) = n
      /\ \A i \in 1..at : o[i] = b[i]
      /\ \A i \in (at + 1)..(at + Len(s)) : o[i] = s[i - at]
  BY OverwriteFacts
<1>2. b \in Seq(S) /\ Len(b) = n
  OBVIOUS
<1> HIDE DEF o
<1>3. t \in Seq(S) /\ Len(t) = k /\ \A i \in 1..k : t[i] = o[i]
  BY <1>1, TakeDrop
<1>4. f \in Seq(S) /\ Len(f) = at /\ \A i \in 1..at : f[i] = b[i]
  BY <1>2, TakeDrop
<1> HIDE DEF t, f
<1>5. /\ f \o s \in Seq(S) /\ Len(f \o s) = k
      /\ \A i \in 1..k : (f \o s)[i] = IF i <= at THEN f[i] ELSE s[i - at]
  BY <1>4, Concatenation
<1>6. ASSUME NEW i \in 1..k PROVE t[i] = (f \o s)[i]
  <2>0. i <= at \/ i > at
    OBVIOUS
  <2>1. CASE i <= at
    BY <1>1, <1>3, <1>4, <1>5, <2>1
  <2>2. CASE i > at
    <3>1. i \in (at + 1)..(at + Len(s))
      BY <2>2
    <3>2. (f \o s)[i] = s[i - at]
      BY <1>5, <2>2
    <3>3. t[i] = o[i]
      BY <1>3
    <3>4. o[i] = s[i - at]
      BY <1>1, <3>1
    <3> QED BY <3>2, <3>3, <3>4
  <2> QED BY <2>0, <2>1, <2>2
<1>7. t = f \o s
  BY <1>3, <1>5, <1>6, SameSeq
<1> QED BY <1>7 DEF t, f, o

-----------------------------------------------------------------------------
(* A loop of Buffers, with the turns as a function.                        *)
IsLoop(run, S, n, step) ==
  run = [p \in S \X (1..(n + 1)) |->
           IF p[2] > n THEN p[1] ELSE run[<<step[<<p[1], p[2]>>], p[2] + 1>>]]

(* The states of a loop, after each turn.                                  *)
Advances(g, S, s, step) ==
  g \in [Nat -> S] /\ g[0] = s /\ \A k \in Nat : g[k + 1] = step[<<g[k], k + 1>>]

(* The state r after n turns.                                              *)
EndsIn(r, S, s, n, step) == \E g : Advances(g, S, s, step) /\ r = g[n]

(* A loop whose turns stay in a set of states has a meaning, ...           *)
LEMMA LoopExists ==
  ASSUME NEW S, NEW n \in Nat, NEW step \in [S \X Nat -> S]
  PROVE  \E run : IsLoop(run, S, n, step)
<1> DEFINE V == [S -> S]
           id == [t \in S |-> t]
           back == [p \in V \X Nat |->
                      [t \in S |-> IF p[2] < n THEN p[1][step[<<t, n - p[2]>>]] ELSE t]]
<1>1. id \in V
  OBVIOUS
<1>2. back \in [V \X Nat -> V]
  <2>1. ASSUME NEW f \in V, NEW j \in Nat, NEW t \in S, j < n
        PROVE  f[step[<<t, n - j>>]] \in S
    <3>1. <<t, n - j>> \in S \X Nat
      BY <2>1
    <3> QED BY <3>1
  <2> QED BY <2>1
<1>3. ASSUME NEW f \in V, NEW j \in Nat, j < n, NEW t \in S
      PROVE  back[<<f, j>>][t] = f[step[<<t, n - j>>]]
  <2>1. <<f, j>> \in V \X Nat
    OBVIOUS
  <2> QED BY <1>3, <2>1
<1> HIDE DEF back
<1>4. PICK h : Unrolls(h, V, id, back)
  <2> HIDE DEF V, id
  <2> QED BY <1>1, <1>2, Recursion
<1>5. h \in [Nat -> V] /\ h[0] = id /\ \A k \in Nat : h[k + 1] = back[<<h[k], k>>]
  BY <1>4 DEF Unrolls
<1> DEFINE K == 1..(n + 1)
           run == [p \in S \X K |-> h[n + 1 - p[2]][p[1]]]
           body(p) == IF p[2] > n THEN p[1]
                      ELSE run[<<step[<<p[1], p[2]>>], p[2] + 1>>]
<1>6. ASSUME NEW p \in S \X K PROVE run[p] = body(p)
  <2> DEFINE t == p[1]
             k == p[2]
  <2>0. t \in S /\ k \in K /\ p = <<t, k>> /\ run[p] = h[n + 1 - k][t]
    OBVIOUS
  <2> HIDE DEF t, k
  <2>1. CASE k > n
    <3>1. n + 1 - k = 0
      BY <2>0, <2>1
    <3> QED BY <1>5, <2>0, <2>1, <3>1 DEF t, k
  <2>2. CASE ~(k > n)
    <3> DEFINE j == n - k
               u == step[<<t, k>>]
    <3>1. j \in Nat /\ n + 1 - k = j + 1 /\ j < n /\ n - j = k /\ k + 1 \in K /\ n + 1 - (k + 1) = j
      BY <2>0, <2>2
    <3>2. u \in S
      BY <2>0
    <3> HIDE DEF j, u
    <3>3. run[p] = h[j + 1][t]
      BY <2>0, <3>1
    <3>4. h[j] \in V /\ h[j + 1] = back[<<h[j], j>>]
      BY <1>5, <3>1
    <3>5. back[<<h[j], j>>][t] = h[j][step[<<t, n - j>>]]
      <4> HIDE DEF V
      <4> QED BY <1>3, <2>0, <3>1, <3>4
    <3>6. h[j + 1][t] = h[j][u]
      BY <3>1, <3>4, <3>5 DEF u
    <3>7. run[<<u, k + 1>>] = h[j][u]
      BY <3>1, <3>2
    <3>8. body(p) = run[<<u, k + 1>>]
      <4> HIDE DEF run
      <4> QED BY <2>0, <2>2 DEF t, k, u
    <3> HIDE DEF body, run
    <3> QED BY <3>3, <3>6, <3>7, <3>8
  <2> HIDE DEF body, run
  <2> QED BY <2>1, <2>2
<1>7. run = [p \in S \X K |-> run[p]]
  OBVIOUS
<1> HIDE DEF run
<1>8. run = [p \in S \X K |-> body(p)]
  <2> HIDE DEF body
  <2> QED BY <1>6, <1>7
<1> QED BY <1>8 DEF IsLoop

(* ... which is the state after its last turn.                             *)
LEMMA LoopTurns ==
  ASSUME NEW S, NEW s \in S, NEW n \in Nat, NEW step \in [S \X Nat -> S],
         NEW run, IsLoop(run, S, n, step)
  PROVE  EndsIn(run[<<s, 1>>], S, s, n, step)
<1> DEFINE next == [p \in S \X Nat |-> step[<<p[1], p[2] + 1>>]]
<1>1. next \in [S \X Nat -> S]
  OBVIOUS
<1>2. \A t \in S : \A k \in Nat : next[<<t, k>>] = step[<<t, k + 1>>]
  OBVIOUS
<1> HIDE DEF next
<1>3. PICK g : Unrolls(g, S, s, next)
  BY <1>1, Recursion
<1>4. g \in [Nat -> S] /\ g[0] = s /\ \A k \in Nat : g[k + 1] = step[<<g[k], k + 1>>]
  BY <1>2, <1>3 DEF Unrolls
<1>5. ASSUME NEW t \in S, NEW k \in 1..(n + 1)
      PROVE  run[<<t, k>>] = IF k > n THEN t ELSE run[<<step[<<t, k>>], k + 1>>]
  <2>1. run = [p \in S \X (1..(n + 1)) |->
                 IF p[2] > n THEN p[1] ELSE run[<<step[<<p[1], p[2]>>], p[2] + 1>>]]
    BY DEF IsLoop
  <2>2. <<t, k>> \in S \X (1..(n + 1))
    OBVIOUS
  <2> QED BY <2>1, <2>2
<1> DEFINE A == {k \in Nat : k <= n => run[<<s, 1>>] = run[<<g[k], k + 1>>]}
<1>6. Nat \subseteq A
  <2>1. 0 \in A
    BY <1>4
  <2>2. ASSUME NEW k \in Nat, k \in A PROVE k + 1 \in A
    <3>1. CASE k + 1 <= n
      <4>1. k + 1 \in 1..(n + 1) /\ ~(k + 1 > n) /\ g[k] \in S /\ k <= n
        BY <1>4, <3>1
      <4>2. run[<<g[k], k + 1>>] = run[<<step[<<g[k], k + 1>>], (k + 1) + 1>>]
        BY <1>5, <4>1
      <4>3. run[<<g[k], k + 1>>] = run[<<g[k + 1], (k + 1) + 1>>]
        BY <1>4, <4>2
      <4> QED BY <2>2, <4>1, <4>3
    <3>2. CASE ~(k + 1 <= n)
      BY <3>2
    <3> QED BY <3>1, <3>2
  <2> HIDE DEF A
  <2> QED BY <2>1, <2>2, SetInduction
<1>7. run[<<s, 1>>] = run[<<g[n], n + 1>>]
  BY <1>6
<1>8. n + 1 \in 1..(n + 1) /\ n + 1 > n /\ g[n] \in S
  BY <1>4
<1>9. run[<<g[n], n + 1>>] = g[n]
  BY <1>5, <1>8
<1>10. Advances(g, S, s, step) /\ run[<<s, 1>>] = g[n]
  BY <1>4, <1>7, <1>9 DEF Advances
<1> QED BY <1>10, Zenon DEF EndsIn

-----------------------------------------------------------------------------
(* Sums. *)

IsInts(f, n) == \A k \in 1..n : f[k] \in Int
Adds(s, f, n) ==
  /\ s \in [0..n -> Int] /\ s[0] = 0
  /\ \A k \in 0..(n - 1) : s[k + 1] = s[k] + f[k + 1]

LEMMA SumExists ==
  ASSUME NEW n \in Nat, NEW f, IsInts(f, n)
  PROVE  \E s : Adds(s, f, n) /\ SumTo(f, n) = s[n]
<1> DEFINE step == [p \in Int \X Nat |->
                      IF p[2] < n THEN p[1] + f[p[2] + 1] ELSE p[1]]
           Is(s) == s = [k \in 0..n |-> IF k = 0 THEN 0 ELSE s[k - 1] + f[k]]
           chosen == CHOOSE s : Is(s)
<1>1. \A k \in 1..n : f[k] \in Int
  BY DEF IsInts
<1>2. /\ step \in [Int \X Nat -> Int]
      /\ \A a \in Int : \A k \in Nat : k < n => step[<<a, k>>] = a + f[k + 1]
  BY <1>1
<1> HIDE DEF step
<1>3. PICK s : UnrollsTo(s, n, Int, 0, step)
  <2>1. 0 \in Int
    OBVIOUS
  <2> QED BY <1>2, <2>1, RecursionTo
<1>4. s \in [0..n -> Int]
      /\ s = [k \in 0..n |-> IF k = 0 THEN 0 ELSE step[<<s[k - 1], k - 1>>]]
  BY <1>3 DEF UnrollsTo
<1>5. ASSUME NEW k \in 0..n, k # 0 PROVE step[<<s[k - 1], k - 1>>] = s[k - 1] + f[k]
  <2>1. k - 1 \in Nat /\ k - 1 \in 0..n /\ k - 1 < n /\ (k - 1) + 1 = k
    BY <1>5
  <2>2. s[k - 1] \in Int
    BY <1>4, <2>1
  <2> QED BY <1>2, <2>1, <2>2
<1>6. Is(s)
  BY <1>4, <1>5
<1>7. Is(chosen)
  <2> HIDE DEF Is
  <2> QED BY <1>6, Zenon
<1>8. SumTo(f, n) = chosen[n]
  BY Zenon DEF SumTo
<1> HIDE DEF chosen
<1>9. chosen[0] = 0
  BY <1>7
<1>10. ASSUME NEW k \in 0..(n - 1) PROVE chosen[k + 1] = chosen[k] + f[k + 1]
  <2>1. k + 1 \in 0..n /\ k + 1 # 0 /\ (k + 1) - 1 = k
    OBVIOUS
  <2>2. chosen[k + 1] = IF k + 1 = 0 THEN 0 ELSE chosen[(k + 1) - 1] + f[k + 1]
    BY <1>7, <2>1
  <2> QED BY <2>1, <2>2
<1> DEFINE A == {k \in Nat : k <= n => chosen[k] \in Int}
<1>11. Nat \subseteq A
  <2>1. 0 \in A
    BY <1>9
  <2>2. ASSUME NEW k \in Nat, k \in A PROVE k + 1 \in A
    <3>1. CASE k + 1 <= n
      <4>1. k \in 0..(n - 1) /\ chosen[k] \in Int /\ f[k + 1] \in Int
        BY <1>1, <2>2, <3>1
      <4>2. chosen[k + 1] \in Int
        BY <1>10, <4>1
      <4> QED BY <4>2
    <3>2. CASE ~(k + 1 <= n)
      BY <3>2
    <3> QED BY <3>1, <3>2
  <2> HIDE DEF A
  <2> QED BY <2>1, <2>2, SetInduction
<1>12. chosen \in [0..n -> Int]
  <2>1. \A k \in 0..n : chosen[k] \in Int
    BY <1>11
  <2> QED BY <1>7, <2>1
<1>13. Adds(chosen, f, n)
  BY <1>9, <1>10, <1>12 DEF Adds
<1> QED BY <1>8, <1>13

LEMMA SumZero ==
  ASSUME NEW f
  PROVE  SumTo(f, 0) = 0
<1>1. IsInts(f, 0)
  BY DEF IsInts
<1>2. PICK s : Adds(s, f, 0) /\ SumTo(f, 0) = s[0]
  BY <1>1, SumExists
<1> QED BY <1>2 DEF Adds

(* A sum of more terms begins with that of fewer.                          *)
LEMMA SumStep ==
  ASSUME NEW n \in Nat, NEW f, IsInts(f, n), NEW k \in Nat, k < n
  PROVE  /\ SumTo(f, k) \in Int /\ SumTo(f, k + 1) \in Int
         /\ SumTo(f, k + 1) = SumTo(f, k) + f[k + 1]
<1>1. IsInts(f, k) /\ IsInts(f, k + 1) /\ k + 1 \in Nat /\ f[k + 1] \in Int
  BY DEF IsInts
<1>2. PICK s : Adds(s, f, k) /\ SumTo(f, k) = s[k]
  BY <1>1, SumExists
<1>3. PICK t : Adds(t, f, k + 1) /\ SumTo(f, k + 1) = t[k + 1]
  BY <1>1, SumExists
<1>4. /\ s \in [0..k -> Int] /\ s[0] = 0
      /\ \A i \in 0..(k - 1) : s[i + 1] = s[i] + f[i + 1]
  BY <1>2 DEF Adds
<1>5. /\ t \in [0..(k + 1) -> Int] /\ t[0] = 0
      /\ \A i \in 0..k : t[i + 1] = t[i] + f[i + 1]
  <2>1. (k + 1) - 1 = k
    OBVIOUS
  <2> QED BY <1>3, <2>1 DEF Adds
<1> DEFINE A == {i \in Nat : i <= k => s[i] = t[i]}
<1>6. Nat \subseteq A
  <2>1. 0 \in A
    BY <1>4, <1>5
  <2>2. ASSUME NEW i \in Nat, i \in A PROVE i + 1 \in A
    <3>1. CASE i + 1 <= k
      <4>1. i \in 0..(k - 1) /\ i \in 0..k /\ s[i] = t[i]
        BY <2>2, <3>1
      <4> QED BY <1>4, <1>5, <4>1
    <3>2. CASE ~(i + 1 <= k)
      BY <3>2
    <3> QED BY <3>1, <3>2
  <2> HIDE DEF A
  <2> QED BY <2>1, <2>2, SetInduction
<1>7. s[k] = t[k] /\ s[k] \in Int /\ t[k + 1] = t[k] + f[k + 1]
  BY <1>4, <1>5, <1>6
<1> QED BY <1>1, <1>2, <1>3, <1>7

LEMMA SumIsInt ==
  ASSUME NEW n \in Nat, NEW f, IsInts(f, n)
  PROVE  SumTo(f, n) \in Int
<1>1. PICK s : Adds(s, f, n) /\ SumTo(f, n) = s[n]
  BY SumExists
<1> QED BY <1>1 DEF Adds

(* Terms that are the same have the same sum.                              *)
LEMMA SumSame ==
  ASSUME NEW n \in Nat, NEW f, NEW g, IsInts(f, n), \A k \in 1..n : g[k] = f[k]
  PROVE  SumTo(g, n) = SumTo(f, n)
<1>1. IsInts(g, n)
  BY DEF IsInts
<1> DEFINE A == {k \in Nat : k <= n => SumTo(g, k) = SumTo(f, k)}
<1>2. 0 \in A
  BY SumZero
<1>3. ASSUME NEW k \in Nat, k \in A PROVE k + 1 \in A
  <2>1. CASE k + 1 <= n
    <3>1. k < n /\ k + 1 \in 1..n /\ SumTo(g, k) = SumTo(f, k)
      BY <1>3, <2>1
    <3>2. SumTo(g, k + 1) = SumTo(g, k) + g[k + 1]
      BY <1>1, <3>1, SumStep
    <3>3. SumTo(f, k + 1) = SumTo(f, k) + f[k + 1]
      BY <3>1, SumStep
    <3> QED BY <3>1, <3>2, <3>3
  <2>2. CASE ~(k + 1 <= n)
    BY <2>2
  <2> QED BY <2>1, <2>2
<1> HIDE DEF A
<1>4. n \in A
  BY <1>2, <1>3, SetInduction
<1> QED BY <1>4 DEF A

(* Terms between two bounds.                                               *)
LEMMA SumBound ==
  ASSUME NEW n \in Nat, NEW f, NEW M \in Nat, \A k \in 1..n : f[k] \in 0..M
  PROVE  SumTo(f, n) \in Nat /\ SumTo(f, n) <= n * M
<1>1. IsInts(f, n)
  BY DEF IsInts
<1> DEFINE A == {k \in Nat : k <= n => SumTo(f, k) \in Nat /\ SumTo(f, k) <= k * M}
<1>2. 0 \in A
  BY SumZero
<1>3. ASSUME NEW k \in Nat, k \in A PROVE k + 1 \in A
  <2>1. CASE k + 1 <= n
    <3>1. k < n /\ k + 1 \in 1..n /\ SumTo(f, k) \in Nat /\ SumTo(f, k) <= k * M
      BY <1>3, <2>1
    <3>2. SumTo(f, k + 1) = SumTo(f, k) + f[k + 1] /\ f[k + 1] \in 0..M
      BY <1>1, <3>1, SumStep
    <3>3. (k + 1) * M = k * M + M /\ k * M \in Nat
      OBVIOUS
    <3> DEFINE a == SumTo(f, k)
               b == SumTo(f, k + 1)
               x == k * M
               y == (k + 1) * M
    <3>4. a \in Nat /\ a <= x /\ y = x + M /\ x \in Nat /\ b = a + f[k + 1] /\ f[k + 1] \in 0..M
      BY <3>1, <3>2, <3>3
    <3> HIDE DEF a, b, x, y
    <3>5. b \in Nat /\ b <= y
      BY <3>4
    <3> QED BY <3>5 DEF b, y
  <2>2. CASE ~(k + 1 <= n)
    BY <2>2
  <2> QED BY <2>1, <2>2
<1> HIDE DEF A
<1>4. n \in A
  BY <1>2, <1>3, SetInduction
<1> QED BY <1>4 DEF A

(* The sum of the terms of two sums, one of them some times.               *)
LEMMA SumPlus ==
  ASSUME NEW n \in Nat, NEW f, NEW g, NEW h, NEW c \in Int, IsInts(f, n), IsInts(g, n),
         \A k \in 1..n : h[k] = f[k] + c * g[k]
  PROVE  SumTo(h, n) = SumTo(f, n) + c * SumTo(g, n)
<1>1. IsInts(h, n)
  <2>1. ASSUME NEW k \in 1..n PROVE h[k] \in Int
    <3>1. f[k] \in Int /\ g[k] \in Int
      BY DEF IsInts
    <3> DEFINE x == f[k]
               y == g[k]
    <3> HIDE DEF x, y
    <3>2. x + c * y \in Int
      BY <3>1 DEF x, y
    <3> QED BY <3>2 DEF x, y
  <2> QED BY <2>1 DEF IsInts
<1> DEFINE A == {k \in Nat : k <= n => SumTo(h, k) = SumTo(f, k) + c * SumTo(g, k)}
<1>2. 0 \in A
  BY SumZero
<1>3. ASSUME NEW k \in Nat, k \in A PROVE k + 1 \in A
  <2>1. CASE k + 1 <= n
    <3> DEFINE i == k + 1
               x == f[i]
               y == g[i]
               a == SumTo(f, k)
               b == SumTo(g, k)
    <3>1. k < n /\ i \in 1..n /\ SumTo(h, k) = a + c * b
      BY <1>3, <2>1
    <3>2. SumTo(h, i) = SumTo(h, k) + h[i]
      BY <1>1, <3>1, SumStep
    <3>3. SumTo(f, i) = a + x /\ a \in Int
      BY <3>1, SumStep
    <3>4. SumTo(g, i) = b + y /\ b \in Int
      BY <3>1, SumStep
    <3>5. h[i] = x + c * y /\ x \in Int /\ y \in Int
      BY <3>1 DEF IsInts
    <3> HIDE DEF x, y, a, b, i
    <3>6. c * (b + y) = c * b + c * y /\ c * b \in Int /\ c * y \in Int
      BY <3>4, <3>5
    <3>7. SumTo(h, i) = SumTo(f, i) + c * SumTo(g, i)
      BY <3>1, <3>2, <3>3, <3>4, <3>5, <3>6
    <3> QED BY <3>7 DEF i
  <2>2. CASE ~(k + 1 <= n)
    BY <2>2
  <2> QED BY <2>1, <2>2
<1> HIDE DEF A
<1>4. n \in A
  BY <1>2, <1>3, SetInduction
<1> QED BY <1>4 DEF A

-----------------------------------------------------------------------------
(* The number that n digits stand for, the lowest first.  They may be      *)
(* negative, or w and more.                                                *)

Worth(d, w, n) == SumTo([i \in Nat |-> d[i] * PowersOf(w)[i - 1]], n)

LEMMA WorthZero ==
  ASSUME NEW d, NEW w
  PROVE  Worth(d, w, 0) = 0
BY SumZero DEF Worth

LEMMA WorthStep ==
  ASSUME NEW w \in Nat, w > 0, NEW n \in Nat, NEW d, IsInts(d, n), NEW k \in Nat, k < n
  PROVE  /\ Worth(d, w, k) \in Int /\ Worth(d, w, k + 1) \in Int
         /\ Worth(d, w, k + 1) = Worth(d, w, k) + d[k + 1] * PowersOf(w)[k]
<1> DEFINE f == [i \in Nat |-> d[i] * PowersOf(w)[i - 1]]
<1>1. IsInts(f, n)
  <2>1. ASSUME NEW i \in 1..n PROVE f[i] \in Int
    <3> DEFINE x == d[i]
               y == PowersOf(w)[i - 1]
    <3>1. x \in Int /\ y \in Int
      <4>1. i - 1 \in Nat
        OBVIOUS
      <4> QED BY <4>1, PowersFacts DEF IsInts
    <3>2. f[i] = x * y
      OBVIOUS
    <3> HIDE DEF x, y, f
    <3> QED BY <3>1, <3>2
  <2> HIDE DEF f
  <2> QED BY <2>1 DEF IsInts
<1>2. f[k + 1] = d[k + 1] * PowersOf(w)[k]
  <2>1. (k + 1) - 1 = k /\ k + 1 \in Nat
    OBVIOUS
  <2> QED BY <2>1
<1> HIDE DEF f
<1>3. /\ SumTo(f, k) \in Int /\ SumTo(f, k + 1) \in Int
      /\ SumTo(f, k + 1) = SumTo(f, k) + f[k + 1]
  BY <1>1, SumStep
<1> QED BY <1>2, <1>3 DEF Worth, f

LEMMA WorthIsInt ==
  ASSUME NEW w \in Nat, w > 0, NEW n \in Nat, NEW d, IsInts(d, n)
  PROVE  Worth(d, w, n) \in Int
<1>1. CASE n = 0
  BY <1>1, WorthZero
<1>2. CASE n # 0
  <2>1. n - 1 \in Nat /\ n - 1 < n /\ (n - 1) + 1 = n
    BY <1>2
  <2> QED BY <2>1, WorthStep
<1> QED BY <1>1, <1>2

(* Digits that are the same stand for the same number.                     *)
LEMMA WorthSame ==
  ASSUME NEW w \in Nat, w > 0, NEW n \in Nat, NEW d, IsInts(d, n), NEW e,
         \A k \in 1..n : e[k] = d[k]
  PROVE  Worth(e, w, n) = Worth(d, w, n)
<1>1. IsInts(e, n)
  BY DEF IsInts
<1> DEFINE A == {k \in Nat : k <= n => Worth(e, w, k) = Worth(d, w, k)}
<1>2. 0 \in A
  BY WorthZero
<1>3. ASSUME NEW k \in Nat, k \in A PROVE k + 1 \in A
  <2>1. CASE k + 1 <= n
    <3>1. k < n /\ k + 1 \in 1..n /\ Worth(e, w, k) = Worth(d, w, k)
      BY <1>3, <2>1
    <3>2. Worth(d, w, k + 1) = Worth(d, w, k) + d[k + 1] * PowersOf(w)[k]
      BY <3>1, WorthStep
    <3>3. Worth(e, w, k + 1) = Worth(e, w, k) + e[k + 1] * PowersOf(w)[k]
      BY <1>1, <3>1, WorthStep
    <3>4. e[k + 1] = d[k + 1]
      BY <3>1
    <3> QED BY <3>1, <3>2, <3>3, <3>4
  <2>2. CASE ~(k + 1 <= n)
    BY <2>2
  <2> QED BY <2>1, <2>2
<1> HIDE DEF A
<1>4. n \in A
  BY <1>2, <1>3, SetInduction
<1> QED BY <1>4 DEF A

(* Adding digits, some of them c times.                                    *)
IsAdded(f, d, c, e, n) == \A k \in 1..n : f[k] = d[k] + c * e[k]

LEMMA WorthPlus ==
  ASSUME NEW w \in Nat, w > 0, NEW n \in Nat, NEW c \in Int, NEW d, NEW e, NEW f,
         IsInts(d, n), IsInts(e, n), IsAdded(f, d, c, e, n)
  PROVE  /\ IsInts(f, n)
         /\ Worth(f, w, n) = Worth(d, w, n) + c * Worth(e, w, n)
<1>0. \A k \in 1..n : f[k] = d[k] + c * e[k]
  BY DEF IsAdded
<1>1. IsInts(f, n)
  <2>1. ASSUME NEW k \in 1..n PROVE f[k] \in Int
    <3> DEFINE x == d[k]
               y == e[k]
    <3>1. x \in Int /\ y \in Int
      BY DEF IsInts
    <3> HIDE DEF x, y
    <3>2. x + c * y \in Int
      BY <3>1
    <3> QED BY <1>0, <3>2 DEF x, y
  <2> QED BY <2>1 DEF IsInts
<1> DEFINE A == {k \in Nat : k <= n => Worth(f, w, k) = Worth(d, w, k) + c * Worth(e, w, k)}
<1>2. 0 \in A
  BY WorthZero
<1>3. ASSUME NEW k \in Nat, k \in A PROVE k + 1 \in A
  <2>1. CASE k + 1 <= n
    <3> DEFINE i == k + 1
               x == d[i]
               y == e[i]
               a == Worth(d, w, k)
               b == Worth(e, w, k)
               p == PowersOf(w)[k]
    <3>1. k < n /\ i \in 1..n /\ Worth(f, w, k) = a + c * b
      BY <1>3, <2>1
    <3>2. Worth(f, w, i) = Worth(f, w, k) + f[i] * p
      BY <1>1, <3>1, WorthStep
    <3>3. Worth(d, w, i) = a + x * p /\ a \in Int
      BY <3>1, WorthStep
    <3>4. Worth(e, w, i) = b + y * p /\ b \in Int
      BY <3>1, WorthStep
    <3>5. f[i] = x + c * y /\ x \in Int /\ y \in Int
      BY <1>0, <3>1 DEF IsInts
    <3>6. p \in Nat
      BY PowersFacts
    <3> HIDE DEF x, y, a, b, i, p
    <3>7. a + c * b + (x + c * y) * p = (a + x * p) + c * (b + y * p)
      BY <3>3, <3>4, <3>5, <3>6
    <3>8. Worth(f, w, i) = Worth(d, w, i) + c * Worth(e, w, i)
      BY <3>1, <3>2, <3>3, <3>4, <3>5, <3>7
    <3> QED BY <3>8 DEF i
  <2>2. CASE ~(k + 1 <= n)
    BY <2>2
  <2> QED BY <2>1, <2>2
<1> HIDE DEF A
<1>4. n \in A
  BY <1>2, <1>3, SetInduction
<1> QED BY <1>1, <1>4 DEF A

(* A digit put before the others.                                          *)
IsShifted(e, d, c, n) == e[1] = c /\ \A k \in 1..n : e[k + 1] = d[k]

LEMMA WorthShift ==
  ASSUME NEW w \in Nat, w > 0, NEW n \in Nat, NEW c \in Int, NEW d, NEW e,
         IsInts(d, n), IsShifted(e, d, c, n)
  PROVE  /\ IsInts(e, n + 1)
         /\ Worth(e, w, n + 1) = c + w * Worth(d, w, n)
<1>0. e[1] = c /\ \A k \in 1..n : e[k + 1] = d[k]
  BY DEF IsShifted
<1>1. IsInts(e, n + 1)
  <2>1. ASSUME NEW k \in 1..(n + 1) PROVE e[k] \in Int
    <3>1. CASE k = 1
      BY <1>0, <3>1
    <3>2. CASE k # 1
      <4>1. k - 1 \in 1..n /\ (k - 1) + 1 = k
        BY <3>2
      <4> QED BY <1>0, <4>1 DEF IsInts
    <3> QED BY <3>1, <3>2
  <2> QED BY <2>1 DEF IsInts
<1> DEFINE A == {k \in Nat : k <= n => Worth(e, w, k + 1) = c + w * Worth(d, w, k)}
<1>2. 0 \in A
  <2>1. Worth(e, w, 0 + 1) = Worth(e, w, 0) + e[0 + 1] * PowersOf(w)[0]
    <3>1. 0 \in Nat /\ 0 < n + 1 /\ n + 1 \in Nat
      OBVIOUS
    <3> QED BY <1>1, <3>1, WorthStep
  <2>2. Worth(e, w, 0) = 0 /\ Worth(d, w, 0) = 0 /\ PowersOf(w)[0] = 1
    BY WorthZero, PowersFacts
  <2> QED BY <1>0, <2>1, <2>2
<1>3. ASSUME NEW k \in Nat, k \in A PROVE k + 1 \in A
  <2>1. CASE k + 1 <= n
    <3> DEFINE i == k + 1
               x == d[i]
               a == Worth(d, w, k)
               p == PowersOf(w)[k]
    <3>1. k < n /\ i \in 1..n /\ i \in Nat /\ i < n + 1 /\ Worth(e, w, i) = c + w * a
      BY <1>3, <2>1
    <3>2. Worth(e, w, i + 1) = Worth(e, w, i) + e[i + 1] * PowersOf(w)[i]
      <4>1. n + 1 \in Nat
        OBVIOUS
      <4> HIDE DEF i
      <4> QED BY <1>1, <3>1, <4>1, WorthStep
    <3>3. Worth(d, w, i) = a + x * p /\ a \in Int
      BY <3>1, WorthStep
    <3>4. e[i + 1] = x /\ x \in Int
      BY <1>0, <3>1 DEF IsInts
    <3>5. p \in Nat /\ PowersOf(w)[i] = w * p
      BY PowersFacts
    <3> HIDE DEF x, a, i, p
    <3>6. c + w * a + x * (w * p) = c + w * (a + x * p)
      BY <3>3, <3>4, <3>5
    <3>7. Worth(e, w, i + 1) = c + w * Worth(d, w, i)
      BY <3>1, <3>2, <3>3, <3>4, <3>5, <3>6
    <3> QED BY <3>7 DEF i
  <2>2. CASE ~(k + 1 <= n)
    BY <2>2
  <2> QED BY <2>1, <2>2
<1> HIDE DEF A
<1>4. n \in A
  BY <1>2, <1>3, SetInduction
<1> QED BY <1>1, <1>4 DEF A

(* Zeros behind the digits.                                                *)
LEMMA WorthZeros ==
  ASSUME NEW w \in Nat, w > 0, NEW n \in Nat, NEW d, IsInts(d, n), NEW l \in 0..n,
         \A k \in (l + 1)..n : d[k] = 0
  PROVE  Worth(d, w, n) = Worth(d, w, l)
<1> DEFINE A == {k \in Nat : l <= k /\ k <= n => Worth(d, w, k) = Worth(d, w, l)}
<1>1. 0 \in A
  OBVIOUS
<1>2. ASSUME NEW k \in Nat, k \in A PROVE k + 1 \in A
  <2>1. CASE l <= k /\ k + 1 <= n
    <3>1. k < n /\ k + 1 \in (l + 1)..n /\ Worth(d, w, k) = Worth(d, w, l)
      BY <1>2, <2>1
    <3>2. Worth(d, w, k + 1) = Worth(d, w, k) + d[k + 1] * PowersOf(w)[k]
          /\ Worth(d, w, k) \in Int
      BY <3>1, WorthStep
    <3>3. d[k + 1] = 0 /\ PowersOf(w)[k] \in Nat
      BY <3>1, PowersFacts
    <3> QED BY <3>1, <3>2, <3>3
  <2>2. CASE ~(l <= k /\ k + 1 <= n)
    BY <2>2
  <2> QED BY <2>1, <2>2
<1> HIDE DEF A
<1>3. n \in A
  BY <1>1, <1>2, SetInduction
<1> QED BY <1>3 DEF A

(* Digits that are not too large.                                          *)
AreDigits(d, w, n) == \A k \in 1..n : d[k] \in 0..(w - 1)

LEMMA DigitsAreInts ==
  ASSUME NEW w \in Nat, NEW n, NEW d, AreDigits(d, w, n)
  PROVE  IsInts(d, n)
BY DEF AreDigits, IsInts

LEMMA WorthBound ==
  ASSUME NEW w \in Nat, w > 0, NEW n \in Nat, NEW d, AreDigits(d, w, n)
  PROVE  Worth(d, w, n) \in Nat /\ Worth(d, w, n) < PowersOf(w)[n]
<1>1. IsInts(d, n)
  BY DigitsAreInts
<1> DEFINE P == PowersOf(w)
           A == {k \in Nat : k <= n => Worth(d, w, k) \in Nat /\ Worth(d, w, k) < P[k]}
<1>2. 0 \in A
  <2>1. Worth(d, w, 0) = 0 /\ P[0] = 1
    BY WorthZero, PowersFacts
  <2> QED BY <2>1
<1>3. ASSUME NEW k \in Nat, k \in A PROVE k + 1 \in A
  <2>1. CASE k + 1 <= n
    <3> DEFINE i == k + 1
               x == d[i]
               a == Worth(d, w, k)
               b == Worth(d, w, i)
               p == P[k]
    <3>1. k < n /\ i \in 1..n /\ a \in Nat /\ a < p
      BY <1>3, <2>1
    <3>2. b = a + x * p
      BY <1>1, <3>1, WorthStep
    <3>3. x \in Nat /\ x <= w - 1
      BY <3>1 DEF AreDigits
    <3>4. p \in Nat /\ P[i] = w * p
      BY PowersFacts
    <3> HIDE DEF x, a, b, i, p, P
    <3>5. x * p \in Nat /\ x * p <= (w - 1) * p /\ (w - 1) * p = w * p - p
      BY <3>3, <3>4
    <3>6. b \in Nat /\ b < P[i]
      BY <3>1, <3>2, <3>4, <3>5
    <3> QED BY <3>6 DEF i, b
  <2>2. CASE ~(k + 1 <= n)
    BY <2>2
  <2> QED BY <2>1, <2>2
<1> HIDE DEF A
<1>4. n \in A
  BY <1>2, <1>3, SetInduction
<1> QED BY <1>4 DEF A

(* The number that some of the digits stand for is what is left of the     *)
(* whole by their power.                                                   *)
LEMMA WorthSplit ==
  ASSUME NEW w \in Nat, w > 0, NEW n \in Nat, NEW d, AreDigits(d, w, n), NEW j \in 0..n
  PROVE  \E high \in Nat : Worth(d, w, n) = Worth(d, w, j) + high * PowersOf(w)[j]
<1>1. IsInts(d, n)
  BY DigitsAreInts
<1> DEFINE P == PowersOf(w)
           Is(k, high) == Worth(d, w, k) = Worth(d, w, j) + high * P[j]
           A == {k \in Nat : j <= k /\ k <= n =>
                   /\ \E high \in Nat : Is(k, high)
                   /\ \E z \in Nat : P[k] = z * P[j]}
<1>0. P[j] \in Nat /\ Worth(d, w, j) \in Nat
  <2>1. AreDigits(d, w, j)
    BY DEF AreDigits
  <2> QED BY <2>1, WorthBound, PowersFacts
<1>2. 0 \in A
  <2>1. CASE j = 0
    <3>1. P[0] = 1 /\ Worth(d, w, 0) = 0
      BY PowersFacts, WorthZero
    <3>2. Is(0, 0) /\ P[0] = 1 * P[j]
      BY <2>1, <3>1
    <3> HIDE DEF Is, P
    <3> QED BY <3>2
  <2>2. CASE j # 0
    BY <2>2
  <2> QED BY <2>1, <2>2
<1>3. ASSUME NEW k \in Nat, k \in A PROVE k + 1 \in A
  <2>1. CASE j <= k /\ k + 1 <= n
    <3> DEFINE i == k + 1
               x == d[i]
               a == Worth(d, w, k)
               b == Worth(d, w, j)
               p == P[k]
               q == P[j]
    <3>1. k < n /\ i \in 1..n
      BY <2>1
    <3>2. PICK high \in Nat, z \in Nat : a = b + high * q /\ p = z * q
      BY <1>3, <2>1
    <3>3. Worth(d, w, i) = a + x * p
      BY <1>1, <3>1, WorthStep
    <3>4. x \in Nat
      BY <3>1 DEF AreDigits
    <3>5. P[i] = w * p /\ q \in Nat /\ b \in Nat
      BY <1>0, PowersFacts
    <3> HIDE DEF x, a, b, p, q, i
    <3>6. high + x * z \in Nat /\ w * z \in Nat
      BY <3>4
    <3>7. Worth(d, w, i) = b + (high + x * z) * q
      <4>1. (high + x * z) * q = high * q + x * (z * q)
        BY <3>4, <3>5
      <4> QED BY <3>2, <3>3, <4>1, <3>4, <3>5
    <3>8. P[i] = (w * z) * q
      BY <3>2, <3>5
    <3>9. Is(i, high + x * z) /\ P[i] = (w * z) * P[j]
      BY <3>7, <3>8 DEF b, q
    <3> HIDE DEF Is, P
    <3>10. (\E h \in Nat : Is(i, h)) /\ (\E h \in Nat : P[i] = h * P[j])
      BY <3>6, <3>9
    <3> QED BY <3>10 DEF i
  <2>2. CASE j = k + 1 /\ k + 1 <= n
    <3>1. Is(k + 1, 0) /\ P[k + 1] = 1 * P[j]
      BY <1>0, <2>2
    <3> HIDE DEF Is, P
    <3> QED BY <3>1
  <2>3. CASE ~(j <= k + 1 /\ k + 1 <= n)
    BY <2>3
  <2> QED BY <2>1, <2>2, <2>3
<1> HIDE DEF A
<1>4. n \in A
  BY <1>2, <1>3, SetInduction
<1> QED BY <1>4 DEF A

(* A digit of a number.                                                    *)
LEMMA WorthDigit ==
  ASSUME NEW w \in Nat, w > 0, NEW n \in Nat, NEW d, AreDigits(d, w, n), NEW j \in 1..n
  PROVE  (Worth(d, w, n) \div PowersOf(w)[j - 1]) % w = d[j]
<1> DEFINE P == PowersOf(w)
           k == j - 1
           x == d[j]
           p == P[k]
           a == Worth(d, w, k)
           b == Worth(d, w, n)
<1>1. k \in Nat /\ k + 1 = j /\ k < n /\ k \in 0..n /\ j \in 0..n
  OBVIOUS
<1>2. PICK h \in Nat : b = Worth(d, w, j) + h * P[j]
  BY <1>1, WorthSplit
<1>3. Worth(d, w, j) = a + x * p
  BY <1>1, DigitsAreInts, WorthStep
<1>4. P[j] = w * p /\ p \in Nat /\ p > 0
  BY <1>1, PowersFacts
<1>5. a \in Nat /\ a < p
  <2>1. AreDigits(d, w, k)
    BY <1>1 DEF AreDigits
  <2> QED BY <1>1, <2>1, WorthBound
<1>6. x \in 0..(w - 1)
  BY DEF AreDigits
<1> HIDE DEF x, a, b, p, k
<1>7. b = (h * w + x) * p + a
  <2>1. (h * w + x) * p = h * (w * p) + x * p
    BY <1>4, <1>6
  <2> QED BY <1>2, <1>3, <1>4, <1>5, <1>6, <2>1
<1>8. h * w + x \in Nat /\ a \in 0..(p - 1)
  BY <1>4, <1>5, <1>6
<1>9. b \div p = h * w + x
  BY <1>4, <1>7, <1>8, DivisionUnique
<1>10. (h * w + x) % w = x
  BY <1>6, DivisionUnique
<1> QED BY <1>9, <1>10 DEF x, b, p, k

(* What the lowest digits of a number stand for. *)
LEMMA RemainderGrows ==
  ASSUME NEW p \in Nat, p > 0, NEW w \in Nat, w > 0, NEW x \in Nat
  PROVE  x % (w * p) = (x % p) + ((x \div p) % w) * p
<1>1. PICK q \in Nat, r \in 0..(p - 1) : x = q * p + r /\ x \div p = q /\ x % p = r
  BY Division
<1>2. PICK s \in Nat, t \in 0..(w - 1) : q = s * w + t /\ q \div w = s /\ q % w = t
  BY Division
<1> DEFINE m == w * p
           e == r + t * p
<1>3. m \in Nat /\ m > 0
  OBVIOUS
<1>4. e \in 0..(m - 1)
  <2>1. t + 1 \in Nat /\ t + 1 <= w
    OBVIOUS
  <2>2. (t + 1) * p <= w * p /\ (t + 1) * p = t * p + p /\ t * p \in Nat
    BY <2>1
  <2> QED BY <2>2
<1>5. x = s * m + e
  <2>1. q * p = (s * w) * p + t * p
    BY <1>2
  <2>2. (s * w) * p = s * (w * p)
    OBVIOUS
  <2> QED BY <1>1, <2>1, <2>2
<1> HIDE DEF m, e
<1>6. x % m = e
  BY <1>3, <1>4, <1>5, DivisionUnique
<1> QED BY <1>1, <1>2, <1>6 DEF m, e

LEMMA WorthOfDigits ==
  ASSUME NEW w \in Nat, w > 0, NEW n \in Nat, NEW x \in Nat, NEW d,
         \A j \in 1..n : d[j] = (x \div PowersOf(w)[j - 1]) % w
  PROVE  AreDigits(d, w, n) /\ Worth(d, w, n) = x % PowersOf(w)[n]
<1> DEFINE p == PowersOf(w)
           A == {k \in Nat : k <= n => Worth(d, w, k) = x % p[k]}
<1>1. p[0] = 1 /\ \A k \in Nat : p[k] \in Nat /\ p[k] > 0 /\ p[k + 1] = w * p[k]
  BY PowersFacts
<1>2. ASSUME NEW j \in 1..n PROVE d[j] \in 0..(w - 1)
  <2> DEFINE q == p[j - 1]
             y == x \div q
  <2>1. q \in Nat /\ q > 0
    <3>1. j - 1 \in Nat
      OBVIOUS
    <3> HIDE DEF p
    <3> QED BY <1>1, <3>1
  <2> HIDE DEF q
  <2>2. y \in Nat
    BY <2>1, Division
  <2>3. d[j] = y % w
    BY DEF q
  <2> HIDE DEF y
  <2> QED BY <2>2, <2>3
<1>3. AreDigits(d, w, n)
  BY <1>2 DEF AreDigits
<1>4. IsInts(d, n)
  BY <1>3, DigitsAreInts
<1>5. 0 \in A
  <2>1. x % 1 = 0
    <3>1. x = x * 1 + 0 /\ 0 \in 0..(1 - 1) /\ 1 \in Nat /\ 1 > 0
      OBVIOUS
    <3> QED BY <3>1, DivisionUnique
  <2> QED BY <1>1, <2>1, WorthZero
<1> HIDE DEF p
<1>6. ASSUME NEW k \in Nat, k \in A PROVE k + 1 \in A
  <2>1. CASE k + 1 <= n
    <3>1. k < n /\ k + 1 \in 1..n /\ (k + 1) - 1 = k /\ k <= n
      BY <2>1
    <3>2. Worth(d, w, k + 1) = Worth(d, w, k) + d[k + 1] * p[k]
      BY <1>4, <3>1, WorthStep DEF p
    <3>3. d[k + 1] = (x \div p[k]) % w
      BY <3>1 DEF p
    <3>4. x % (w * p[k]) = (x % p[k]) + ((x \div p[k]) % w) * p[k]
      BY <1>1, RemainderGrows
    <3>5. p[k + 1] = w * p[k] /\ Worth(d, w, k) = x % p[k]
      BY <1>1, <1>6, <3>1
    <3>6. Worth(d, w, k + 1) = x % p[k + 1]
      BY <3>2, <3>3, <3>4, <3>5, Zenon
    <3> QED BY <3>6
  <2>2. CASE ~(k + 1 <= n)
    BY <2>2
  <2> QED BY <2>1, <2>2
<1> HIDE DEF A
<1>7. n \in A
  BY <1>5, <1>6, SetInduction
<1> QED BY <1>3, <1>7 DEF A, p

(* The higher a power, the larger.                                         *)
LEMMA PowersGrow ==
  ASSUME NEW w \in Nat, w > 0, NEW n \in Nat, NEW l \in 0..n
  PROVE  PowersOf(w)[l] <= PowersOf(w)[n]
<1> DEFINE P == PowersOf(w)
           A == {k \in Nat : l <= k => P[l] <= P[k]}
<1>0. \A k \in Nat : P[k] \in Nat /\ P[k + 1] = w * P[k]
  BY PowersFacts
<1> HIDE DEF P
<1>1. 0 \in A
  BY <1>0
<1>2. ASSUME NEW k \in Nat, k \in A PROVE k + 1 \in A
  <2>1. CASE l <= k
    <3> DEFINE p == P[k]
               q == P[k + 1]
    <3>1. p \in Nat /\ q = w * p /\ P[l] <= p /\ P[l] \in Nat
      BY <1>0, <1>2, <2>1
    <3> HIDE DEF p, q
    <3>2. q >= p
      BY <3>1
    <3>3. P[l] <= q
      BY <3>1, <3>2
    <3> QED BY <3>3 DEF q
  <2>2. CASE l = k + 1
    BY <1>0, <2>2
  <2>3. CASE ~(l <= k + 1)
    BY <2>3
  <2> QED BY <2>1, <2>2, <2>3
<1> HIDE DEF A
<1>3. n \in A
  BY <1>1, <1>2, SetInduction
<1> QED BY <1>3 DEF A, P

-----------------------------------------------------------------------------
(* Carrying: u[j] is what comes to the digit j, with c coming to the       *)
(* first.                                                                  *)

IsCarry(u, v, c, w, n) ==
  \A j \in 1..n : u[j] = v[j] + (IF j = 1 THEN c ELSE u[j - 1] \div w)

(* The function that carries, ...                                          *)
IsCarryTo(u, v, c, w, n) ==
  u = [j \in 1..n |-> v[j] + (IF j = 1 THEN c ELSE u[j - 1] \div w)]

(* ... which exists.                                                       *)
LEMMA CarryExists ==
  ASSUME NEW w \in Nat, w > 0, NEW n \in Nat, NEW c \in Int, NEW v, IsInts(v, n)
  PROVE  \E u : IsCarryTo(u, v, c, w, n)
<1> DEFINE At(k) == IF k < n THEN v[k + 1] ELSE 0
           step == [p \in Int \X Nat |-> At(p[2]) + (p[1] \div w)]
           first == c * w
<1>1. \A k \in Nat : At(k) \in Int
  <2>1. \A j \in 1..n : v[j] \in Int
    BY DEF IsInts
  <2> QED BY <2>1
<1>2. \A a \in Int : a \div w \in Int
  <2>1. ASSUME NEW a \in Int PROVE a \div w \in Int
    BY IntDivision
  <2> QED BY <2>1
<1>3. step \in [Int \X Nat -> Int]
      /\ \A a \in Int : \A k \in Nat : step[<<a, k>>] = At(k) + (a \div w)
  <2> HIDE DEF At
  <2> QED BY <1>1, <1>2
<1>4. first \in Int /\ first \div w = c
  <2>1. 0 \in 0..(w - 1) /\ first = c * w + 0
    OBVIOUS
  <2>2. (c * w + 0) \div w = c
    BY <2>1, IntDivisionUnique
  <2> QED BY <2>1, <2>2
<1> HIDE DEF step, first
<1>5. PICK f : UnrollsTo(f, n, Int, first, step)
  BY <1>3, <1>4, RecursionTo
<1>6. f \in [0..n -> Int]
      /\ f = [k \in 0..n |-> IF k = 0 THEN first ELSE step[<<f[k - 1], k - 1>>]]
  BY <1>5 DEF UnrollsTo
<1> DEFINE u == [j \in 1..n |-> f[j]]
<1>7. ASSUME NEW j \in 1..n
      PROVE  u[j] = v[j] + (IF j = 1 THEN c ELSE u[j - 1] \div w)
  <2>1. j - 1 \in Nat /\ j - 1 < n /\ (j - 1) + 1 = j /\ j \in 0..n /\ j - 1 \in 0..n
    OBVIOUS
  <2>2. f[j] = step[<<f[j - 1], j - 1>>] /\ f[j - 1] \in Int
    <3>1. \A k \in 0..n : f[k] = IF k = 0 THEN first ELSE step[<<f[k - 1], k - 1>>]
      BY <1>6, Zenon
    <3>2. j # 0
      OBVIOUS
    <3>3. f[j] = step[<<f[j - 1], j - 1>>]
      BY <2>1, <3>1, <3>2, Zenon
    <3> QED BY <1>6, <2>1, <3>3
  <2>3. f[j] = At(j - 1) + (f[j - 1] \div w)
    <3> HIDE DEF At
    <3> QED BY <1>3, <2>1, <2>2
  <2>4. f[j] = v[j] + (f[j - 1] \div w) /\ u[j] = f[j]
    BY <2>1, <2>3
  <2>5. CASE j = 1
    <3>1. f[j - 1] = first
      BY <1>6, <2>5
    <3> QED BY <1>4, <2>4, <2>5, <3>1
  <2>6. CASE j # 1
    <3>1. j - 1 \in 1..n
      BY <2>6
    <3>2. u[j - 1] = f[j - 1]
      BY <3>1
    <3> QED BY <2>4, <2>6, <3>2
  <2> QED BY <2>5, <2>6
<1>8. u = [j \in 1..n |-> u[j]]
  OBVIOUS
<1> HIDE DEF u
<1>9. IsCarryTo(u, v, c, w, n)
  BY <1>7, <1>8 DEF IsCarryTo
<1> QED BY <1>9, Zenon

(* What comes to the digits are numbers.                                   *)
LEMMA CarryFacts ==
  ASSUME NEW w \in Nat, w > 0, NEW n \in Nat, NEW c \in Nat, NEW v,
         \A j \in 1..n : v[j] \in Nat, NEW u, IsCarry(u, v, c, w, n)
  PROVE  \A j \in 1..n : u[j] \in Nat
<1> DEFINE A == {k \in Nat : k \in 1..n => u[k] \in Nat}
<1>1. 0 \in A
  OBVIOUS
<1>2. ASSUME NEW k \in Nat, k \in A PROVE k + 1 \in A
  <2>1. CASE k + 1 <= n
    <3> DEFINE i == k + 1
               y == u[i]
               x == v[i]
               z == IF i = 1 THEN c ELSE u[i - 1] \div w
    <3>1. i \in 1..n
      BY <2>1
    <3>2. y = x + z /\ x \in Nat
      BY <3>1 DEF IsCarry
    <3>3. z \in Nat
      <4>1. CASE i = 1
        BY <4>1
      <4>2. CASE i # 1
        <5>1. u[i - 1] \in Nat
          BY <1>2, <2>1, <4>2
        <5>2. u[i - 1] \div w \in Nat
          BY <5>1, Division
        <5> QED BY <4>2, <5>2
      <4> QED BY <4>1, <4>2
    <3> HIDE DEF x, y, z, i
    <3>4. y \in Nat
      BY <3>2, <3>3
    <3> QED BY <3>4 DEF y, i
  <2>2. CASE ~(k + 1 <= n)
    BY <2>2
  <2> QED BY <2>1, <2>2
<1> HIDE DEF A
<1>3. Nat \subseteq A
  BY <1>1, <1>2, SetInduction
<1> QED BY <1>3 DEF A

(* They are whole numbers, whatever the digits.                            *)
LEMMA CarryIsInt ==
  ASSUME NEW w \in Nat, w > 0, NEW n \in Nat, NEW c \in Int, NEW v, IsInts(v, n),
         NEW u, IsCarry(u, v, c, w, n)
  PROVE  IsInts(u, n)
<1> DEFINE A == {k \in Nat : k \in 1..n => u[k] \in Int}
<1>1. 0 \in A
  OBVIOUS
<1>2. ASSUME NEW k \in Nat, k \in A PROVE k + 1 \in A
  <2>1. CASE k + 1 <= n
    <3> DEFINE i == k + 1
               y == u[i]
               x == v[i]
               z == IF i = 1 THEN c ELSE u[i - 1] \div w
    <3>1. i \in 1..n
      BY <2>1
    <3>2. y = x + z /\ x \in Int
      BY <3>1 DEF IsCarry, IsInts
    <3>3. z \in Int
      <4>1. CASE i = 1
        BY <4>1
      <4>2. CASE i # 1
        <5>1. u[i - 1] \in Int
          BY <1>2, <2>1, <4>2
        <5> QED BY <4>2, <5>1
      <4> QED BY <4>1, <4>2
    <3> HIDE DEF x, y, z, i
    <3>4. y \in Int
      BY <3>2, <3>3
    <3> QED BY <3>4 DEF y, i
  <2>2. CASE ~(k + 1 <= n)
    BY <2>2
  <2> QED BY <2>1, <2>2
<1> HIDE DEF A
<1>3. Nat \subseteq A
  BY <1>1, <1>2, SetInduction
<1>4. \A k \in 1..n : u[k] \in Int
  BY <1>3 DEF A
<1> QED BY <1>4 DEF IsInts

(* What is carried out of the last digit and the digits that are left make *)
(* the number there was, ...                                               *)
AreRemainders(e, u, w, n) == \A j \in 1..n : e[j] = u[j] % w

LEMMA CarriedWorth ==
  ASSUME NEW w \in Nat, w > 0, NEW n \in Nat, n > 0, NEW c \in Int, NEW v,
         IsInts(v, n), NEW u, IsCarry(u, v, c, w, n),
         NEW e, AreRemainders(e, u, w, n)
  PROVE  /\ AreDigits(e, w, n) /\ u[n] \div w \in Int
         /\ Worth(e, w, n) + (u[n] \div w) * PowersOf(w)[n] = Worth(v, w, n) + c
<1> DEFINE P == PowersOf(w)
           Out(k) == IF k = 0 THEN c ELSE u[k] \div w
<1>0. \A j \in 1..n : v[j] \in Int /\ e[j] = u[j] % w
  BY DEF IsInts, AreRemainders
<1>1. \A j \in 1..n : u[j] \in Int
  BY CarryIsInt DEF IsInts
<1>2. ASSUME NEW j \in 1..n
      PROVE  u[j] % w \in 0..(w - 1) /\ u[j] \div w \in Int /\ u[j] = (u[j] \div w) * w + (u[j] % w)
  <2>1. u[j] \in Int
    BY <1>1
  <2>2. PICK q \in Int, r \in 0..(w - 1) : u[j] = q * w + r /\ u[j] \div w = q /\ u[j] % w = r
    BY <2>1, IntDivision
  <2> QED BY <2>2
<1>3. AreDigits(e, w, n)
  BY <1>0, <1>2 DEF AreDigits
<1>4. IsInts(e, n) /\ IsInts(v, n)
  BY <1>0, <1>3, DigitsAreInts DEF IsInts
<1>5. ASSUME NEW k \in 0..n PROVE Out(k) \in Int
  <2>1. CASE k = 0
    BY <2>1
  <2>2. CASE k # 0
    <3>1. k \in 1..n
      BY <2>2
    <3> QED BY <1>2, <2>2, <3>1
  <2> QED BY <2>1, <2>2
<1> DEFINE A == {k \in Nat : k <= n =>
                   Worth(e, w, k) + Out(k) * P[k] = Worth(v, w, k) + c}
<1>6. 0 \in A
  <2>1. Worth(e, w, 0) = 0 /\ Worth(v, w, 0) = 0 /\ P[0] = 1
    BY WorthZero, PowersFacts
  <2> QED BY <2>1
<1>7. ASSUME NEW k \in Nat, k \in A PROVE k + 1 \in A
  <2>1. CASE k + 1 <= n
    <3> DEFINE i == k + 1
               x == v[i]
               y == e[i]
               s == u[i]
               o == Out(k)
               t == Out(i)
               a == Worth(e, w, k)
               b == Worth(v, w, k)
               p == P[k]
    <3>1. k < n /\ i \in 1..n /\ k \in 0..n /\ i \in 0..n
      BY <2>1
    <3>2. a + o * p = b + c
      BY <1>7, <2>1
    <3>3. Worth(e, w, i) = a + y * p /\ a \in Int
      BY <1>4, <3>1, WorthStep
    <3>4. Worth(v, w, i) = b + x * p /\ b \in Int
      BY <1>4, <3>1, WorthStep
    <3>5. P[i] = w * p /\ p \in Nat
      BY PowersFacts
    <3>6. s = x + o
      <4>1. CASE k = 0
        BY <3>1, <4>1 DEF IsCarry
      <4>2. CASE k # 0
        <5>1. i # 1 /\ i - 1 = k
          BY <4>2
        <5>2. u[i] = v[i] + (IF i = 1 THEN c ELSE u[i - 1] \div w)
          BY <3>1 DEF IsCarry
        <5> QED BY <4>2, <5>1, <5>2
      <4> QED BY <4>1, <4>2
    <3>7. y = s % w /\ t = s \div w /\ s = (s \div w) * w + (s % w)
      BY <1>0, <1>2, <3>1
    <3>8. o \in Int /\ t \in Int /\ x \in Int /\ y \in Int
      BY <1>0, <1>4, <1>5, <3>1 DEF IsInts
    <3> HIDE DEF x, y, s, t, o, a, b, p, i, Out
    <3>9. x + o = t * w + y
      BY <3>6, <3>7
    <3>10. y * p + t * (w * p) = (t * w + y) * p
      BY <3>5, <3>8
    <3>11. (x + o) * p = x * p + o * p
      BY <3>5, <3>8
    <3>12. y * p + t * (w * p) = x * p + o * p
      BY <3>9, <3>10, <3>11
    <3>13. /\ x * p \in Int /\ o * p \in Int /\ y * p \in Int /\ t * (w * p) \in Int
      BY <3>5, <3>8
    <3>14. Worth(e, w, i) + t * P[i] = Worth(v, w, i) + c
      <4>1. Worth(e, w, i) + t * P[i] = a + (y * p + t * (w * p))
        BY <3>3, <3>5, <3>13
      <4> QED BY <3>2, <3>3, <3>4, <3>12, <3>13, <4>1
    <3> QED BY <3>14 DEF i, t
  <2>2. CASE ~(k + 1 <= n)
    BY <2>2
  <2> QED BY <2>1, <2>2
<1> HIDE DEF A
<1>8. n \in A
  BY <1>6, <1>7, SetInduction
<1>9. Worth(e, w, n) + Out(n) * P[n] = Worth(v, w, n) + c
  BY <1>8 DEF A
<1> QED BY <1>2, <1>3, <1>9

(* ... which carry on if the digits were numbers.                          *)
AreNats(v, n) == \A j \in 1..n : v[j] \in Nat

LEMMA CarryWorth ==
  ASSUME NEW w \in Nat, w > 0, NEW n \in Nat, n > 0, NEW c \in Nat, NEW v,
         AreNats(v, n), NEW u, IsCarry(u, v, c, w, n),
         NEW e, AreRemainders(e, u, w, n)
  PROVE  /\ AreDigits(e, w, n) /\ u[n] \div w \in Nat
         /\ Worth(e, w, n) + (u[n] \div w) * PowersOf(w)[n] = Worth(v, w, n) + c
<1>1. IsInts(v, n)
  BY DEF AreNats, IsInts
<1>2. u[n] \in Nat
  BY CarryFacts DEF AreNats
<1>3. u[n] \div w \in Nat
  BY <1>2, Division
<1> QED BY <1>1, <1>3, CarriedWorth

(* Digits of at most M carry at most M again when w > 1.                   *)
LEMMA CarryBound ==
  ASSUME NEW w \in Nat, w > 1, NEW n \in Nat, NEW M \in Nat, NEW c \in 0..M, NEW v,
         \A j \in 1..n : v[j] \in 0..M, NEW u, IsCarry(u, v, c, w, n)
  PROVE  \A j \in 1..n : u[j] \in 0..(2 * M) /\ u[j] \div w \in 0..M
<1>0. \A j \in 1..n : u[j] \in Nat
  <2>1. \A j \in 1..n : v[j] \in Nat
    OBVIOUS
  <2> QED BY <2>1, CarryFacts
<1> DEFINE A == {k \in Nat : k \in 1..n => u[k] <= 2 * M}
<1>1. 0 \in A
  OBVIOUS
<1>2. ASSUME NEW j \in 1..n, u[j] <= 2 * M PROVE u[j] \div w \in 0..M
  <2> DEFINE x == u[j]
  <2>1. x \in Nat /\ x <= 2 * M
    BY <1>0, <1>2
  <2> HIDE DEF x
  <2>2. PICK q \in Nat, r \in 0..(w - 1) : x = q * w + r /\ x \div w = q
    BY <2>1, Division
  <2>3. q * w >= q * 2
    OBVIOUS
  <2>4. q <= M
    BY <2>1, <2>2, <2>3
  <2> QED BY <2>2, <2>4 DEF x
<1>3. ASSUME NEW k \in Nat, k \in A PROVE k + 1 \in A
  <2>1. CASE k + 1 <= n
    <3>1. k + 1 \in 1..n /\ (k + 1) - 1 = k
      BY <2>1
    <3>2. u[k + 1] = v[k + 1] + (IF k + 1 = 1 THEN c ELSE u[k] \div w)
      BY <3>1 DEF IsCarry
    <3>3. (IF k + 1 = 1 THEN c ELSE u[k] \div w) \in 0..M
      <4>1. CASE k = 0
        BY <4>1
      <4>2. CASE k # 0
        <5>1. k \in 1..n /\ u[k] <= 2 * M
          BY <1>3, <2>1, <4>2
        <5>2. u[k] \div w \in 0..M
          BY <1>2, <5>1
        <5> QED BY <4>2, <5>2
      <4> QED BY <4>1, <4>2
    <3>4. v[k + 1] \in 0..M
      BY <3>1
    <3>5. u[k + 1] <= 2 * M
      BY <3>2, <3>3, <3>4
    <3> QED BY <3>5
  <2>2. CASE ~(k + 1 <= n)
    BY <2>2
  <2> QED BY <2>1, <2>2
<1> HIDE DEF A
<1>4. Nat \subseteq A
  BY <1>1, <1>3, SetInduction
<1>5. \A j \in 1..n : u[j] <= 2 * M
  BY <1>4 DEF A
<1>6. \A j \in 1..n : u[j] \div w \in 0..M
  BY <1>2, <1>5
<1> QED BY <1>0, <1>5, <1>6

-----------------------------------------------------------------------------
(* Numbers that are the same modulo q. *)

Congruent(a, b, q) == \E z \in Int : a = b + z * q

LEMMA CongruentSame ==
  ASSUME NEW q \in Nat, NEW a \in Int
  PROVE  Congruent(a, a, q)
<1>1. a = a + 0 * q /\ 0 \in Int
  OBVIOUS
<1> QED BY <1>1 DEF Congruent

LEMMA CongruentBack ==
  ASSUME NEW q \in Nat, NEW a \in Int, NEW b \in Int, Congruent(a, b, q)
  PROVE  Congruent(b, a, q)
<1>1. PICK z \in Int : a = b + z * q
  BY DEF Congruent
<1>2. b = a + (-z) * q /\ -z \in Int
  BY <1>1
<1> QED BY <1>2 DEF Congruent

LEMMA CongruentTrans ==
  ASSUME NEW q \in Nat, NEW a \in Int, NEW b \in Int, NEW c \in Int,
         Congruent(a, b, q), Congruent(b, c, q)
  PROVE  Congruent(a, c, q)
<1>1. PICK z \in Int : a = b + z * q
  BY DEF Congruent
<1>2. PICK y \in Int : b = c + y * q
  BY DEF Congruent
<1>3. a = c + (z + y) * q /\ z + y \in Int
  <2>1. (z + y) * q = z * q + y * q /\ z * q \in Int /\ y * q \in Int
    OBVIOUS
  <2> QED BY <1>1, <1>2, <2>1
<1> QED BY <1>3 DEF Congruent

(* A multiple of one side added to another one.                            *)
LEMMA CongruentPlus ==
  ASSUME NEW q \in Nat, NEW a \in Int, NEW b \in Int, NEW c \in Int, NEW d \in Int,
         NEW k \in Int, Congruent(a, b, q), Congruent(c, d, q)
  PROVE  Congruent(a + k * c, b + k * d, q)
<1>1. PICK z \in Int : a = b + z * q
  BY DEF Congruent
<1>2. PICK y \in Int : c = d + y * q
  BY DEF Congruent
<1>3. k * c = k * d + (k * y) * q
  BY <1>2
<1>4. z + k * y \in Int /\ (z + k * y) * q = z * q + (k * y) * q
  OBVIOUS
<1>5. /\ k * d \in Int /\ z * q \in Int /\ (k * y) * q \in Int /\ k * c \in Int
  OBVIOUS
<1>6. a + k * c = (b + k * d) + (z + k * y) * q
  BY <1>1, <1>3, <1>4, <1>5
<1> QED BY <1>4, <1>6 DEF Congruent

LEMMA CongruentTimes ==
  ASSUME NEW q \in Nat, NEW a \in Int, NEW b \in Int, NEW k \in Int, Congruent(a, b, q)
  PROVE  Congruent(k * a, k * b, q)
<1>1. PICK z \in Int : a = b + z * q
  BY DEF Congruent
<1>2. k * a = k * b + (k * z) * q /\ k * z \in Int
  BY <1>1
<1> QED BY <1>2 DEF Congruent

(* Of those the smallest is the remainder. *)
LEMMA IntCongruentRemainder ==
  ASSUME NEW q \in Nat, q > 0, NEW a \in Int
  PROVE  /\ a % q \in 0..(q - 1) /\ Congruent(a % q, a, q)
         /\ \A b \in 0..(q - 1) : Congruent(a, b, q) => a % q = b
<1>1. PICK z \in Int, r \in 0..(q - 1) : a = z * q + r /\ a % q = r
  BY IntDivision
<1>2. Congruent(a % q, a, q)
  <2>1. r = a + (-z) * q /\ -z \in Int
    BY <1>1
  <2> QED BY <1>1, <2>1 DEF Congruent
<1>3. ASSUME NEW b \in 0..(q - 1), Congruent(a, b, q) PROVE a % q = b
  <2>1. PICK y \in Int : a = b + y * q
    BY <1>3 DEF Congruent
  <2>2. (z - y) * q = b - r
    BY <1>1, <2>1
  <2>3. ~(z - y >= 1)
    <3>1. ASSUME z - y >= 1 PROVE (z - y) * q >= q
      BY <3>1
    <3> QED BY <2>2, <3>1
  <2>4. ~(y - z >= 1)
    <3>1. ASSUME y - z >= 1 PROVE (y - z) * q >= q
      BY <3>1
    <3>2. (y - z) * q = r - b
      BY <2>2
    <3> QED BY <3>1, <3>2
  <2>5. z = y
    BY <2>3, <2>4
  <2> QED BY <1>1, <2>1, <2>5
<1> QED BY <1>1, <1>2, <1>3

LEMMA CongruentRemainder ==
  ASSUME NEW q \in Nat, q > 0, NEW a \in Nat
  PROVE  /\ a % q \in 0..(q - 1) /\ Congruent(a % q, a, q)
         /\ \A b \in 0..(q - 1) : Congruent(a, b, q) => a % q = b
<1>1. a \in Int
  OBVIOUS
<1> QED BY <1>1, IntCongruentRemainder

(* A number modulo q from its digits, the highest first.                   *)
IsHorner(v, e, w, q, n) ==
  v = [j \in 1..(n + 1) |-> IF j > n THEN 0 ELSE (e[j] + w * v[j + 1]) % q]

LEMMA HornerExists ==
  ASSUME NEW w \in Nat, NEW q \in Nat, q > 0, NEW n \in Nat, NEW e,
         IsInts(e, n)
  PROVE  \E v : IsHorner(v, e, w, q, n)
<1> DEFINE At(k) == IF k < n THEN e[n - k] ELSE 0
           step == [p \in Nat \X Nat |-> (At(p[2]) + w * p[1]) % q]
<1>1. \A k \in Nat : At(k) \in Int
  BY DEF IsInts
<1>2. \A a \in Int : a % q \in Nat
  BY IntCongruentRemainder
<1>3. step \in [Nat \X Nat -> Nat]
      /\ \A a, k \in Nat : step[<<a, k>>] = (At(k) + w * a) % q
  <2>1. \A a, k \in Nat : At(k) + w * a \in Int
    BY <1>1
  <2> HIDE DEF At
  <2> QED BY <1>2, <2>1
<1> HIDE DEF step
<1>4. PICK f : UnrollsTo(f, n, Nat, 0, step)
  <2>1. 0 \in Nat
    OBVIOUS
  <2> QED BY <1>3, <2>1, RecursionTo
<1>5. f \in [0..n -> Nat]
      /\ f = [k \in 0..n |-> IF k = 0 THEN 0 ELSE step[<<f[k - 1], k - 1>>]]
  BY <1>4 DEF UnrollsTo
<1>6. \A k \in 0..n : f[k] = IF k = 0 THEN 0 ELSE step[<<f[k - 1], k - 1>>]
  BY <1>5, Zenon
<1> DEFINE v == [j \in 1..(n + 1) |-> f[n + 1 - j]]
<1>7. ASSUME NEW j \in 1..(n + 1)
      PROVE  v[j] = IF j > n THEN 0 ELSE (e[j] + w * v[j + 1]) % q
  <2>1. CASE j > n
    <3>1. n + 1 - j = 0 /\ 0 \in 0..n
      BY <2>1
    <3>2. f[0] = 0
      BY <1>6, <3>1, Zenon
    <3>3. v[j] = f[0]
      BY <3>1
    <3> QED BY <2>1, <3>2, <3>3
  <2>2. CASE ~(j > n)
    <3> DEFINE k == n + 1 - j
    <3>1. k \in 0..n /\ k # 0 /\ k - 1 \in Nat /\ k - 1 < n /\ n - (k - 1) = j /\ k - 1 \in 0..n
      BY <2>2
    <3>2. j + 1 \in 1..(n + 1) /\ n + 1 - (j + 1) = k - 1
      BY <2>2
    <3>3. v[j] = f[k] /\ v[j + 1] = f[k - 1]
      BY <3>2
    <3> HIDE DEF k, v
    <3>4. f[k] = step[<<f[k - 1], k - 1>>]
      BY <1>6, <3>1, Zenon
    <3>5. f[k - 1] \in Nat
      BY <1>5, <3>1
    <3>6. f[k] = (At(k - 1) + w * f[k - 1]) % q
      <4> HIDE DEF At
      <4> QED BY <1>3, <3>1, <3>4, <3>5
    <3>7. At(k - 1) = e[j]
      BY <3>1
    <3> HIDE DEF At
    <3> QED BY <2>2, <3>3, <3>6, <3>7
  <2> QED BY <2>1, <2>2
<1>8. v = [j \in 1..(n + 1) |-> v[j]]
  OBVIOUS
<1> HIDE DEF v
<1>9. IsHorner(v, e, w, q, n)
  BY <1>7, <1>8 DEF IsHorner
<1> QED BY <1>9, Zenon

LEMMA HornerIsWorth ==
  ASSUME NEW w \in Nat, w > 0, NEW q \in Nat, q > 0, NEW n \in Nat, NEW e,
         IsInts(e, n), NEW v, IsHorner(v, e, w, q, n)
  PROVE  /\ v[1] \in 0..(q - 1) /\ Worth(e, w, n) \in Int
         /\ Congruent(v[1], Worth(e, w, n), q)
<1> DEFINE P == PowersOf(w)
           V == Worth(e, w, n)
           A == {k \in Nat : k <= n =>
                   /\ v[n + 1 - k] \in 0..(q - 1)
                   /\ Congruent(Worth(e, w, n - k) + P[n - k] * v[n + 1 - k], V, q)}
<1>1. V \in Int
  BY WorthIsInt
<1>2. \A j \in 1..(n + 1) : v[j] = IF j > n THEN 0 ELSE (e[j] + w * v[j + 1]) % q
  BY Zenon DEF IsHorner
<1>3. 0 \in A
  <2>1. v[n + 1] = 0 /\ n + 1 - 0 = n + 1 /\ n - 0 = n
    BY <1>2
  <2>2. P[n] \in Nat
    BY PowersFacts
  <2>3. Congruent(V, V, q)
    BY <1>1, CongruentSame
  <2>4. V + P[n] * 0 = V
    BY <1>1, <2>2
  <2>5. 0 \in 0..(q - 1)
    OBVIOUS
  <2>6. v[n + 1 - 0] \in 0..(q - 1)
        /\ Congruent(Worth(e, w, n - 0) + P[n - 0] * v[n + 1 - 0], V, q)
    BY <2>1, <2>3, <2>4, <2>5, Zenon
  <2> HIDE DEF V, P
  <2> QED BY <2>6
<1> HIDE DEF V
<1>4. ASSUME NEW k \in Nat, k \in A PROVE k + 1 \in A
  <2>1. CASE k + 1 <= n
    <3> DEFINE i == n - k
               j == n - (k + 1)
               x == e[i]
               s == v[i + 1]
               t == v[i]
               a == Worth(e, w, j)
               p == P[j]
    <3>1. /\ i \in 1..n /\ i \in 1..(n + 1) /\ ~(i > n) /\ j \in Nat /\ j < n /\ j + 1 = i
          /\ n + 1 - k = i + 1 /\ n + 1 - (k + 1) = i
      BY <2>1
    <3>2. s \in 0..(q - 1) /\ Congruent(Worth(e, w, i) + P[i] * s, V, q)
      BY <1>4, <2>1, <3>1
    <3>3. t = (x + w * s) % q
      <4>1. v[i] = IF i > n THEN 0 ELSE (e[i] + w * v[i + 1]) % q
        BY <1>2, <3>1, Zenon
      <4> QED BY <3>1, <4>1, Zenon
    <3>4. x \in Int
      BY <3>1 DEF IsInts
    <3> DEFINE y == x + w * s
    <3>5. y \in Int
      BY <3>2, <3>4
    <3>6. Worth(e, w, i) = a + x * p /\ a \in Int
      BY <3>1, WorthStep
    <3>7. P[i] = w * p /\ p \in Nat
      BY <3>1, PowersFacts
    <3> HIDE DEF x, s, t, a, p, i, j
    <3>8. Worth(e, w, i) + P[i] * s = a + p * y
      <4>1. x * p + (w * p) * s = p * (x + w * s) /\ x * p \in Int /\ (w * p) * s \in Int
        BY <3>2, <3>4, <3>7
      <4> QED BY <3>6, <3>7, <4>1
    <3> HIDE DEF y
    <3>9. t \in 0..(q - 1) /\ Congruent(t, y, q)
      <4>1. t = y % q
        BY <3>3 DEF y
      <4> QED BY <3>5, <4>1, IntCongruentRemainder
    <3>10. t \in Int /\ y \in Int /\ p \in Int
      BY <3>5, <3>7, <3>9
    <3>11. Congruent(a, a, q)
      BY <3>6, CongruentSame
    <3>12. Congruent(a + p * t, a + p * y, q)
      BY <3>6, <3>9, <3>10, <3>11, CongruentPlus
    <3>13. a + p * t \in Int /\ a + p * y \in Int
      BY <3>6, <3>10
    <3>14. Congruent(a + p * y, V, q)
      BY <3>2, <3>8
    <3>15. Congruent(a + p * t, V, q)
      BY <1>1, <3>12, <3>13, <3>14, CongruentTrans
    <3>16. v[n + 1 - (k + 1)] \in 0..(q - 1)
      BY <3>1, <3>9 DEF t
    <3>17. Congruent(Worth(e, w, n - (k + 1)) + P[n - (k + 1)] * v[n + 1 - (k + 1)], V, q)
      BY <3>1, <3>15, Zenon DEF t, a, p, j
    <3> QED BY <3>16, <3>17
  <2>2. CASE ~(k + 1 <= n)
    BY <2>2
  <2> QED BY <2>1, <2>2
<1> HIDE DEF A
<1>5. n \in A
  BY <1>3, <1>4, SetInduction
<1>6. v[1] \in 0..(q - 1) /\ Congruent(Worth(e, w, 0) + P[0] * v[1], V, q)
  <2>1. n + 1 - n = 1 /\ n - n = 0 /\ n <= n
    OBVIOUS
  <2>2. v[n + 1 - n] \in 0..(q - 1)
        /\ Congruent(Worth(e, w, n - n) + P[n - n] * v[n + 1 - n], V, q)
    BY <1>5, <2>1 DEF A
  <2> QED BY <2>1, <2>2, Zenon
<1>7. Worth(e, w, 0) + P[0] * v[1] = v[1]
  <2>1. Worth(e, w, 0) = 0 /\ P[0] = 1
    BY WorthZero, PowersFacts
  <2> QED BY <1>6, <2>1
<1> QED BY <1>1, <1>6, <1>7, Zenon DEF V

(* Digits that are at most B times too large, or negative.                 *)
AreWithin(d, b, n) == \A k \in 1..n : d[k] \in Int /\ -b <= d[k] /\ d[k] <= b

LEMMA WorthLimits ==
  ASSUME NEW w \in Nat, w > 0, NEW n \in Nat, NEW d, NEW B \in Nat,
         AreWithin(d, (w - 1) * B, n)
  PROVE  /\ IsInts(d, n) /\ Worth(d, w, n) \in Int
         /\ -(B * (PowersOf(w)[n] - 1)) <= Worth(d, w, n)
         /\ Worth(d, w, n) <= B * (PowersOf(w)[n] - 1)
<1> DEFINE p == PowersOf(w)
           b == (w - 1) * B
           Fits(k) == /\ Worth(d, w, k) \in Int
                      /\ -(B * (p[k] - 1)) <= Worth(d, w, k)
                      /\ Worth(d, w, k) <= B * (p[k] - 1)
           A == {k \in Nat : k <= n => Fits(k)}
<1>1. \A k \in 1..n : d[k] \in Int /\ -b <= d[k] /\ d[k] <= b
  BY DEF AreWithin
<1>2. IsInts(d, n)
  BY <1>1 DEF IsInts
<1>3. 0 \in A
  <2>1. Worth(d, w, 0) = 0 /\ p[0] = 1
    BY WorthZero, PowersFacts
  <2> HIDE DEF p
  <2> QED BY <2>1
<1>4. ASSUME NEW k \in Nat, k \in A PROVE k + 1 \in A
  <2>1. CASE k + 1 <= n
    <3> DEFINE i == k + 1
               x == d[i]
               a == Worth(d, w, k)
               c == Worth(d, w, i)
               q == p[k]
               r == p[i]
    <3>1. k < n /\ i \in 1..n
      BY <2>1
    <3>2. Fits(k)
      <4> HIDE DEF Fits
      <4> QED BY <1>4, <3>1
    <3>3. c = a + x * q
      BY <1>2, <3>1, WorthStep
    <3>4. x \in Int /\ -b <= x /\ x <= b /\ b \in Nat
      <4>1. b \in Nat
        <5>1. w - 1 \in Nat
          OBVIOUS
        <5> QED BY <5>1
      <4> HIDE DEF b
      <4> QED BY <1>1, <3>1, <4>1
    <3>5. q \in Nat /\ r = w * q
      BY PowersFacts
    <3>6. a \in Int /\ -(B * (q - 1)) <= a /\ a <= B * (q - 1)
      BY <3>2
    <3> HIDE DEF a, c, q, r, x, p, i
    <3>7. b * q = B * (r - 1) - B * (q - 1)
      <4>1. b * q = w * B * q - B * q /\ B * r = w * B * q
        BY <3>5
      <4> QED BY <3>5, <4>1
    <3> HIDE DEF b
    <3>8. x * q <= b * q /\ -(b * q) <= x * q /\ x * q \in Int
      <4>1. (b - x) \in Nat /\ (b + x) \in Nat
        BY <3>4
      <4>2. (b - x) * q \in Nat /\ (b + x) * q \in Nat
        BY <3>5, <4>1
      <4>3. (b - x) * q = b * q - x * q /\ (b + x) * q = b * q + x * q
        BY <3>4, <3>5
      <4>4. b * q \in Int /\ x * q \in Int
        BY <3>4, <3>5
      <4> QED BY <4>2, <4>3, <4>4
    <3> DEFINE y == x * q
               s == B * (q - 1)
               t == B * (r - 1)
               z == b * q
    <3>9. s \in Int /\ t \in Int /\ z \in Int
      BY <3>4, <3>5
    <3> HIDE DEF y, s, t, z
    <3>10. c \in Int /\ -t <= c /\ c <= t
      <4>1. c = a + y /\ y \in Int /\ y <= z /\ -z <= y /\ z = t - s /\ -s <= a /\ a <= s
        BY <3>3, <3>6, <3>7, <3>8 DEF y, s, t, z
      <4> QED BY <3>6, <3>9, <4>1
    <3>11. Fits(i)
      BY <3>10 DEF c, t, r
    <3> HIDE DEF Fits
    <3> QED BY <3>11 DEF i
  <2>2. CASE ~(k + 1 <= n)
    BY <2>2
  <2> QED BY <2>1, <2>2
<1> HIDE DEF A, Fits
<1>5. n \in A
  BY <1>3, <1>4, SetInduction
<1>6. Fits(n)
  BY <1>5 DEF A
<1> QED BY <1>2, <1>6 DEF Fits

(* The sum of terms between two bounds.                                    *)
LEMMA SumLimits ==
  ASSUME NEW n \in Nat, NEW f, NEW b \in Nat, AreWithin(f, b, n)
  PROVE  /\ IsInts(f, n) /\ SumTo(f, n) \in Int
         /\ -(n * b) <= SumTo(f, n) /\ SumTo(f, n) <= n * b
<1>1. \A k \in 1..n : f[k] \in Int /\ -b <= f[k] /\ f[k] <= b
  BY DEF AreWithin
<1>2. IsInts(f, n)
  BY <1>1 DEF IsInts
<1> DEFINE Fits(k) == SumTo(f, k) \in Int /\ -(k * b) <= SumTo(f, k) /\ SumTo(f, k) <= k * b
           A == {k \in Nat : k <= n => Fits(k)}
<1>3. 0 \in A
  BY SumZero
<1>4. ASSUME NEW k \in Nat, k \in A PROVE k + 1 \in A
  <2>1. CASE k + 1 <= n
    <3> DEFINE i == k + 1
               x == SumTo(f, k)
               y == SumTo(f, i)
               s == k * b
               t == i * b
    <3>1. k < n /\ i \in 1..n /\ Fits(k)
      BY <1>4, <2>1
    <3>2. y = x + f[i]
      BY <1>2, <3>1, SumStep
    <3>3. t = s + b /\ s \in Nat
      OBVIOUS
    <3>4. x \in Int /\ -s <= x /\ x <= s
      BY <3>1
    <3>5. f[i] \in Int /\ -b <= f[i] /\ f[i] <= b
      BY <1>1, <3>1
    <3> HIDE DEF x, y, s, t, i
    <3>6. y \in Int /\ -t <= y /\ y <= t
      BY <3>2, <3>3, <3>4, <3>5
    <3>7. Fits(i)
      BY <3>6 DEF y, t
    <3> HIDE DEF Fits
    <3> QED BY <3>7 DEF i
  <2>2. CASE ~(k + 1 <= n)
    BY <2>2
  <2> QED BY <2>1, <2>2
<1> HIDE DEF A, Fits
<1>5. n \in A
  BY <1>3, <1>4, SetInduction
<1>6. Fits(n)
  BY <1>5 DEF A
<1> QED BY <1>2, <1>6 DEF Fits

(* A product, by the sizes of its factors.                                 *)
LEMMA ProductBetween ==
  ASSUME NEW x \in Nat, NEW y \in Nat, NEW u \in Int, NEW v \in Int,
         -x <= u, u <= x, -y <= v, v <= y
  PROVE  u * v \in Int /\ -(x * y) <= u * v /\ u * v <= x * y
<1>1. (x - u) * (y + v) >= 0 /\ (x + u) * (y - v) >= 0
  <2>1. x - u \in Nat /\ y + v \in Nat /\ x + u \in Nat /\ y - v \in Nat
    OBVIOUS
  <2>2. \A p \in Nat, q \in Nat : p * q >= 0
    OBVIOUS
  <2> QED BY <2>1, <2>2
<1>2. (x - u) * (y - v) >= 0 /\ (x + u) * (y + v) >= 0
  <2>1. x - u \in Nat /\ y + v \in Nat /\ x + u \in Nat /\ y - v \in Nat
    OBVIOUS
  <2>2. \A p \in Nat, q \in Nat : p * q >= 0
    OBVIOUS
  <2> QED BY <2>1, <2>2
<1>3. /\ (x - u) * (y + v) = x * y + x * v - u * y - u * v
      /\ (x + u) * (y - v) = x * y - x * v + u * y - u * v
      /\ (x - u) * (y - v) = x * y - x * v - u * y + u * v
      /\ (x + u) * (y + v) = x * y + x * v + u * y + u * v
  OBVIOUS
<1> DEFINE p == x * y
           q == x * v
           r == u * y
           s == u * v
<1>4. p \in Int /\ q \in Int /\ r \in Int /\ s \in Int
  OBVIOUS
<1>5. p + q - r - s >= 0 /\ p - q + r - s >= 0 /\ p - q - r + s >= 0 /\ p + q + r + s >= 0
  BY <1>1, <1>2, <1>3
<1> HIDE DEF p, q, r, s
<1>6. s \in Int /\ -p <= s /\ s <= p
  BY <1>4, <1>5
<1> QED BY <1>6 DEF p, s

(* A digit is changed.                                                     *)
LEMMA WorthExcept ==
  ASSUME NEW w \in Nat, w > 0, NEW n \in Nat, NEW d, IsInts(d, n), NEW e, IsInts(e, n),
         NEW m \in 1..n, \A k \in 1..n : k # m => e[k] = d[k]
  PROVE  Worth(e, w, n) = Worth(d, w, n) + (e[m] - d[m]) * PowersOf(w)[m - 1]
<1> DEFINE v == e[m]
           p == PowersOf(w)
           z == (v - d[m]) * p[m - 1]
           A == {k \in Nat : k <= n =>
                   Worth(e, w, k) = Worth(d, w, k) + (IF m <= k THEN z ELSE 0)}
<1>1. v \in Int /\ \A k \in 1..n : e[k] = IF k = m THEN v ELSE d[k]
  BY DEF IsInts
<1>2. \A k \in Nat : p[k] \in Nat
  BY PowersFacts
<1>3. v \in Int /\ d[m] \in Int /\ m \in Nat
  BY <1>1 DEF IsInts
<1> HIDE DEF v, p
<1>4. z \in Int
  <2>1. m - 1 \in Nat /\ v - d[m] \in Int
    BY <1>3
  <2>2. p[m - 1] \in Nat
    BY <1>2, <2>1
  <2> DEFINE a == v - d[m]
             r == p[m - 1]
  <2> HIDE DEF a, r
  <2>3. a * r \in Int
    BY <2>1, <2>2 DEF a, r
  <2> QED BY <2>3 DEF a, r
<1>5. 0 \in A
  <2>1. ~(m <= 0)
    BY <1>3
  <2> QED BY <2>1, WorthZero
<1>6. ASSUME NEW k \in Nat, k \in A PROVE k + 1 \in A
  <2>1. CASE k + 1 <= n
    <3> DEFINE x == Worth(e, w, k)
               y == Worth(d, w, k)
               x1 == Worth(e, w, k + 1)
               y1 == Worth(d, w, k + 1)
    <3>1. k < n /\ k + 1 \in 1..n
      BY <2>1
    <3>2. x \in Int /\ x1 \in Int /\ x1 = x + e[k + 1] * p[k]
      BY <1>3, <3>1, WorthStep DEF p
    <3>3. y \in Int /\ y1 \in Int /\ y1 = y + d[k + 1] * p[k]
      BY <1>3, <3>1, WorthStep DEF p
    <3>4. x = y + (IF m <= k THEN z ELSE 0)
      BY <1>6, <3>1
    <3> HIDE DEF x, y, x1, y1
    <3>5. CASE m = k + 1
      <4> DEFINE r == p[k]
                 a == d[m]
      <4>1. e[k + 1] = v /\ d[k + 1] = a /\ ~(m <= k) /\ m <= k + 1 /\ m - 1 = k
        BY <1>1, <3>1, <3>5
      <4>2. z = (v - a) * r
        BY <4>1
      <4>3. r \in Nat /\ a \in Int
        BY <1>2, <1>3
      <4> HIDE DEF r, a, z
      <4>4. (v - a) * r = v * r - a * r /\ v * r \in Int /\ a * r \in Int
        BY <1>3, <4>3
      <4>5. x1 = y + v * r /\ y1 = y + a * r
        BY <3>2, <3>3, <3>4, <4>1 DEF r
      <4>6. x1 = y1 + z
        BY <3>3, <4>2, <4>4, <4>5
      <4> QED BY <4>1, <4>6 DEF x1, y1
    <3>6. CASE m # k + 1
      <4>1. e[k + 1] = d[k + 1] /\ (m <= k + 1 <=> m <= k)
        BY <1>1, <1>3, <3>1, <3>6
      <4> DEFINE s == d[k + 1] * p[k]
                 t == IF m <= k THEN z ELSE 0
      <4>2. x1 = x + s /\ y1 = y + s /\ x = y + t
        BY <3>2, <3>3, <3>4, <4>1
      <4>3. t \in Int /\ s \in Int
        <5>1. d[k + 1] \in Int /\ p[k] \in Nat
          BY <1>2, <1>3, <3>1 DEF IsInts
        <5> QED BY <1>4, <5>1
      <4> HIDE DEF s, t
      <4>4. x1 = y1 + t
        BY <3>3, <4>2, <4>3
      <4> QED BY <4>1, <4>4 DEF x1, y1, t
    <3> QED BY <3>5, <3>6
  <2> QED BY <2>1
<1> HIDE DEF A, z
<1>7. Nat \subseteq A
  BY <1>5, <1>6, SetInduction
<1>8. Worth(e, w, n) = Worth(d, w, n) + z
  <2>1. m <= n /\ n \in A
    BY <1>7
  <2> QED BY <2>1 DEF A
<1> QED BY <1>8 DEF v, z, p

(* What digits are worth whose size has a bound, and from the place l on   *)
(* another.                                                                *)
LEMMA WorthWithin ==
  ASSUME NEW w \in Nat, w > 1, NEW n \in Nat, NEW l \in 0..n, NEW d,
         NEW H \in Nat, NEW G \in Nat, AreWithin(d, H, l),
         \A k \in (l + 1)..n : d[k] \in Int /\ -G <= d[k] /\ d[k] <= G
  PROVE  /\ IsInts(d, n) /\ Worth(d, w, n) \in Int
         /\ LET p == PowersOf(w)
                bound == H * (p[l] - 1) + G * (p[n] - p[l])
            IN  -bound <= (w - 1) * Worth(d, w, n) /\ (w - 1) * Worth(d, w, n) <= bound
<1> DEFINE p == PowersOf(w)
           Most(k) == IF k <= l THEN H * (p[k] - 1) ELSE H * (p[l] - 1) + G * (p[k] - p[l])
           W(k) == (w - 1) * Worth(d, w, k)
           A == {k \in Nat : k <= n => Most(k) \in Int /\ -Most(k) <= W(k) /\ W(k) <= Most(k)}
<1>1. p[0] = 1 /\ \A k \in Nat : p[k] \in Nat /\ p[k] > 0 /\ p[k + 1] = w * p[k]
  <2>1. w > 0
    OBVIOUS
  <2> QED BY <2>1, PowersFacts
<1>2. IsInts(d, n)
  <2>1. ASSUME NEW k \in 1..n PROVE d[k] \in Int
    <3>1. k \in 1..l \/ k \in (l + 1)..n
      OBVIOUS
    <3> QED BY <3>1 DEF AreWithin
  <2> QED BY <2>1 DEF IsInts
<1>3. 0 \in A
  <2>1. H * (1 - 1) = 0 /\ 0 <= l /\ (w - 1) * 0 = 0
    OBVIOUS
  <2>2. Worth(d, w, 0) = 0
    BY WorthZero
  <2>3. W(0) = 0 /\ Most(0) = 0
    BY <1>1, <2>1, <2>2
  <2> HIDE DEF W, Most
  <2> QED BY <2>3
<1> HIDE DEF p
<1>4. ASSUME NEW k \in Nat, k \in A PROVE k + 1 \in A
  <2>1. CASE k + 1 <= n
    <3> DEFINE r == p[k]
               r1 == p[k + 1]
               x == d[k + 1]
               F == IF k + 1 <= l THEN H ELSE G
               m == Most(k)
               m1 == Most(k + 1)
               y == Worth(d, w, k)
               y1 == Worth(d, w, k + 1)
               q == p[l]
    <3>1. k < n /\ k + 1 \in 1..n
      BY <2>1
    <3>2. r \in Nat /\ r > 0 /\ r1 = w * r /\ r1 \in Nat /\ q \in Nat
      BY <1>1
    <3>3. x \in Int /\ -F <= x /\ x <= F /\ F \in Nat
      <4>1. CASE k + 1 <= l
        <5>1. k + 1 \in 1..l
          BY <3>1, <4>1
        <5> QED BY <4>1, <5>1 DEF AreWithin
      <4>2. CASE ~(k + 1 <= l)
        <5>1. k + 1 \in (l + 1)..n
          BY <3>1, <4>2
        <5> QED BY <4>2, <5>1
      <4> QED BY <4>1, <4>2
    <3>4. m \in Int /\ -m <= (w - 1) * y /\ (w - 1) * y <= m
      BY <1>4, <3>1
    <3>5. y \in Int /\ y1 \in Int /\ y1 = y + x * r
      <4>1. w > 0
        OBVIOUS
      <4> QED BY <1>2, <3>1, <4>1, WorthStep DEF p
    <3>6. m1 = m + F * (r1 - r)
      <4>1. CASE k + 1 <= l
        <5>1. k <= l /\ m = H * (r - 1) /\ m1 = H * (r1 - 1) /\ F = H
          BY <4>1
        <5> HIDE DEF m, m1, F, r, r1
        <5>2. H * (r1 - 1) = H * (r - 1) + H * (r1 - r)
          BY <3>2
        <5> QED BY <5>1, <5>2
      <4>2. CASE ~(k + 1 <= l) /\ k = l
        <5>1. m = H * (r - 1) /\ m1 = H * (q - 1) + G * (r1 - q) /\ F = G /\ r = q
          BY <4>2
        <5> QED BY <5>1, Zenon
      <4>3. CASE ~(k + 1 <= l) /\ k # l
        <5>1. ~(k <= l)
          BY <4>3
        <5>2. m = H * (q - 1) + G * (r - q) /\ m1 = H * (q - 1) + G * (r1 - q) /\ F = G
          BY <4>3, <5>1
        <5> HIDE DEF m, m1, F, r, r1, q
        <5>3. G * (r1 - q) = G * (r - q) + G * (r1 - r) /\ G * (r - q) \in Int
              /\ G * (r1 - r) \in Int /\ H * (q - 1) \in Int
          BY <3>2
        <5> DEFINE a == H * (q - 1)
                   b == G * (r - q)
                   c == G * (r1 - r)
                   e == G * (r1 - q)
        <5> HIDE DEF a, b, c, e
        <5>4. m = a + b /\ m1 = a + e /\ e = b + c /\ a \in Int /\ b \in Int /\ c \in Int
          BY <5>2, <5>3 DEF a, b, c, e
        <5>5. m1 = m + c
          BY <5>4
        <5> QED BY <5>2, <5>5 DEF c
      <4> QED BY <4>1, <4>2, <4>3
    <3> HIDE DEF r, r1, x, F, m, m1, y, y1, q
    <3> DEFINE s == (w - 1) * r
               t == F * s
               u == x * s
    <3>7. s \in Nat /\ r1 - r = s
      BY <3>2
    <3>8. u \in Int /\ -t <= u /\ u <= t /\ t \in Nat
      <4> HIDE DEF s
      <4>1. F * s \in Nat
        BY <3>3, <3>7
      <4> QED BY <3>3, <3>7, <4>1, ProductBetween
    <3>9. (w - 1) * y1 = (w - 1) * y + u
      <4>1. (w - 1) * (y + x * r) = (w - 1) * y + (w - 1) * (x * r)
        BY <3>2, <3>3, <3>5
      <4>2. (w - 1) * (x * r) = x * ((w - 1) * r)
        BY <3>2, <3>3
      <4> QED BY <3>5, <4>1, <4>2
    <3>10. m1 = m + t
      BY <3>6, <3>7
    <3> DEFINE g == (w - 1) * y
               g1 == (w - 1) * y1
    <3> HIDE DEF s, t, u
    <3>11. g \in Int /\ g1 = g + u
      BY <3>5, <3>9
    <3> HIDE DEF g1
    <3>12. -m <= g /\ g <= m
      BY <3>4
    <3> HIDE DEF g
    <3>13. m1 \in Int /\ -m1 <= g1 /\ g1 <= m1
      BY <3>4, <3>8, <3>10, <3>11, <3>12
    <3> QED BY <3>13 DEF m1, g1, y1
  <2> QED BY <2>1
<1> HIDE DEF A
<1>5. n \in A
  <2>1. Nat \subseteq A
    BY <1>3, <1>4, SetInduction
  <2> QED BY <2>1
<1>6. Worth(d, w, n) \in Int
  <2>1. w > 0
    OBVIOUS
  <2> QED BY <1>2, <2>1, WorthIsInt
<1> DEFINE bound == H * (p[l] - 1) + G * (p[n] - p[l])
<1>7. Most(n) = bound
  <2>1. CASE n = l
    <3>1. p[n] = p[l] /\ p[n] \in Nat /\ n <= l
      BY <1>1, <2>1
    <3> DEFINE q == p[l]
    <3>2. Most(n) = H * (q - 1) /\ bound = H * (q - 1) + G * (q - q)
      BY <3>1
    <3>3. q \in Nat
      BY <3>1
    <3> HIDE DEF q, Most, bound
    <3>4. H * (q - 1) + G * (q - q) = H * (q - 1)
      BY <3>3
    <3> QED BY <3>2, <3>4
  <2>2. CASE n # l
    <3>1. ~(n <= l)
      BY <2>2
    <3> QED BY <3>1
  <2> QED BY <2>1, <2>2
<1>8. -Most(n) <= W(n) /\ W(n) <= Most(n)
  BY <1>5 DEF A
<1> HIDE DEF Most
<1> QED BY <1>2, <1>6, <1>7, <1>8 DEF p

(* Digits beyond which two numbers are the same.                           *)
LEMMA WorthApart ==
  ASSUME NEW w \in Nat, w > 0, NEW n \in Nat, NEW d, IsInts(d, n), NEW e, IsInts(e, n),
         NEW m \in 0..n, \A k \in (m + 1)..n : e[k] = d[k]
  PROVE  Worth(e, w, n) - Worth(d, w, n) = Worth(e, w, m) - Worth(d, w, m)
<1> DEFINE Gap(k) == Worth(e, w, k) - Worth(d, w, k)
           A == {k \in Nat : m <= k /\ k <= n => Gap(k) = Gap(m)}
<1>1. 0 \in A
  <2>1. m <= 0 => m = 0
    OBVIOUS
  <2> QED BY <2>1
<1>2. ASSUME NEW k \in Nat, k \in A PROVE k + 1 \in A
  <2>1. CASE m <= k /\ k + 1 <= n
    <3> DEFINE x == Worth(e, w, k)
               x1 == Worth(e, w, k + 1)
               y == Worth(d, w, k)
               y1 == Worth(d, w, k + 1)
               r == PowersOf(w)[k]
               i == d[k + 1]
    <3>1. k < n /\ k + 1 \in (m + 1)..n /\ k + 1 \in 1..n
      BY <2>1
    <3>2. e[k + 1] = i /\ i \in Int /\ r \in Nat
      BY <3>1, PowersFacts DEF IsInts
    <3>3. x \in Int /\ x1 \in Int /\ x1 = x + i * r
      BY <3>1, <3>2, WorthStep
    <3>4. y \in Int /\ y1 \in Int /\ y1 = y + i * r
      BY <3>1, WorthStep
    <3>5. x - y = Gap(m)
      BY <1>2, <2>1
    <3>6. i * r \in Int
      <4> HIDE DEF i, r
      <4> QED BY <3>2
    <3> DEFINE z == i * r
               g == Gap(m)
    <3> HIDE DEF x, x1, y, y1, z, g
    <3>7. x1 - y1 = g
      BY <3>3, <3>4, <3>5, <3>6 DEF z, g
    <3> QED BY <3>7 DEF x1, y1, g
  <2>2. CASE m = k + 1
    BY <2>2
  <2>3. CASE ~(m <= k + 1 /\ k + 1 <= n)
    BY <2>3
  <2> QED BY <2>1, <2>2, <2>3
<1> HIDE DEF A
<1>3. n \in A
  BY <1>1, <1>2, SetInduction
<1> QED BY <1>3 DEF A

(* A multiple of some digits is taken away from others, from the place l   *)
(* on, and c is carried: from the digit j it is c[j].                      *)
IsBorrow(e, d, c, f, a, w, l, s) ==
  /\ c \in [0..s -> Int] /\ c[0] = 0
  /\ \A k \in 1..l : e[k] = d[k]
  /\ \A j \in 1..s : e[l + j] + c[j] * w = d[l + j] + c[j - 1] - a * f[j]

LEMMA BorrowWorth ==
  ASSUME NEW w \in Nat, w > 0, NEW l \in Nat, NEW s \in Nat, NEW n \in Nat, l + s <= n,
         NEW d, IsInts(d, n), NEW e, IsInts(e, n), NEW f, IsInts(f, s),
         NEW a \in Int, NEW c, IsBorrow(e, d, c, f, a, w, l, s)
  PROVE  Worth(e, w, l + s) + c[s] * PowersOf(w)[l + s]
           = Worth(d, w, l + s) - a * (PowersOf(w)[l] * Worth(f, w, s))
<1> DEFINE p == PowersOf(w)
           Taken(k) == Worth(e, w, l + k) + c[k] * p[l + k]
                         = Worth(d, w, l + k) - a * (p[l] * Worth(f, w, k))
           A == {k \in Nat : k <= s => Taken(k)}
<1>1. \A k \in Nat : p[k] \in Nat /\ p[k + 1] = w * p[k]
  BY PowersFacts
<1>2. /\ c \in [0..s -> Int] /\ c[0] = 0
      /\ \A k \in 1..l : e[k] = d[k]
      /\ \A j \in 1..s : e[l + j] + c[j] * w = d[l + j] + c[j - 1] - a * f[j]
  BY DEF IsBorrow
<1>3. 0 \in A
  <2>1. IsInts(d, l)
    BY DEF IsInts
  <2>2. Worth(e, w, l) = Worth(d, w, l)
    BY <1>2, <2>1, WorthSame
  <2>3. l + 0 = l /\ Worth(f, w, 0) = 0
    BY WorthZero
  <2> DEFINE x == Worth(d, w, l)
             q == p[l]
  <2>4. x \in Int /\ q \in Nat
    BY <1>1, <2>1, WorthIsInt
  <2> HIDE DEF x, q
  <2>5. x + 0 * q = x - a * (q * 0)
    BY <2>4
  <2>6. Taken(0)
    BY <1>2, <2>2, <2>3, <2>5 DEF x, q
  <2> HIDE DEF Taken
  <2> QED BY <2>6
<1>4. ASSUME NEW k \in Nat, k \in A PROVE k + 1 \in A
  <2>1. CASE k + 1 <= s
    <3> DEFINE i == l + k
               j == k + 1
               q == p[l]
               u == p[k]
               r == p[i]
               r1 == p[l + j]
               x == Worth(d, w, i)
               x1 == Worth(d, w, l + j)
               y == Worth(e, w, i)
               y1 == Worth(e, w, l + j)
               z == Worth(f, w, k)
               z1 == Worth(f, w, j)
               dx == d[l + j]
               dy == e[l + j]
               g == f[j]
               b == c[k]
               b1 == c[j]
    <3>1. k < s /\ k <= s /\ j \in 1..s /\ j \in 0..s /\ k \in 0..s /\ j - 1 = k
      BY <2>1
    <3>2. i \in Nat /\ i < n /\ i + 1 = l + j /\ l + j \in 1..n
      BY <2>1
    <3>3. x \in Int /\ x1 \in Int /\ x1 = x + dx * r
      <4>1. x \in Int /\ Worth(d, w, i + 1) \in Int /\ Worth(d, w, i + 1) = x + d[i + 1] * r
        BY <3>2, WorthStep
      <4> QED BY <3>2, <4>1
    <3>4. y \in Int /\ y1 \in Int /\ y1 = y + dy * r
      <4>1. y \in Int /\ Worth(e, w, i + 1) \in Int /\ Worth(e, w, i + 1) = y + e[i + 1] * r
        BY <3>2, WorthStep
      <4> QED BY <3>2, <4>1
    <3>5. z \in Int /\ z1 \in Int /\ z1 = z + g * u
      BY <3>1, WorthStep
    <3>6. q \in Nat /\ u \in Nat /\ r = q * u /\ r1 = w * r /\ r \in Nat
      <4>1. r1 = w * r
        BY <1>1, <3>2
      <4>2. r = q * u
        <5>1. w \in Int
          OBVIOUS
        <5> QED BY <5>1, PowerOfSum
      <4> QED BY <1>1, <3>2, <4>1, <4>2
    <3>7. dx \in Int /\ dy \in Int /\ g \in Int /\ b \in Int /\ b1 \in Int
      BY <1>2, <3>1, <3>2 DEF IsInts
    <3>8. dy + b1 * w = dx + b - a * g
      BY <1>2, <3>1
    <3>9. y + b * r = x - a * (q * z)
      BY <1>4, <3>1
    <3> HIDE DEF q, u, r, r1, x, x1, y, y1, z, z1, dx, dy, g, b, b1
    <3>10. (dy + b1 * w) * r = dx * r + b * r - (a * g) * r
      <4>1. (dx + b - a * g) * r = dx * r + b * r - (a * g) * r
        BY <3>6, <3>7
      <4> QED BY <3>8, <4>1
    <3>11. (dy + b1 * w) * r = dy * r + b1 * r1
      BY <3>6, <3>7
    <3>12. a * (q * z1) = a * (q * z) + (a * g) * r
      <4>1. q * z1 = q * z + g * r
        BY <3>5, <3>6, <3>7
      <4>2. a * (q * z + g * r) = a * (q * z) + a * (g * r)
        BY <3>5, <3>6, <3>7
      <4>3. a * (g * r) = (a * g) * r
        BY <3>6, <3>7
      <4> QED BY <4>1, <4>2, <4>3
    <3> DEFINE m == a * (q * z)
               m1 == a * (q * z1)
               o == (a * g) * r
               t == dx * r
               t1 == dy * r
               v == b * r
               v1 == b1 * r1
    <3>13. /\ m \in Int /\ m1 \in Int /\ o \in Int /\ t \in Int /\ t1 \in Int
           /\ v \in Int /\ v1 \in Int
      <4>1. r1 \in Nat
        BY <3>6
      <4>2. q * z \in Int /\ q * z1 \in Int /\ a * g \in Int
        BY <3>5, <3>6, <3>7
      <4> QED BY <3>6, <3>7, <4>1, <4>2
    <3>14. /\ t1 + v1 = t + v - o /\ m1 = m + o /\ y + v = x - m
           /\ x1 = x + t /\ y1 = y + t1
      BY <3>3, <3>4, <3>9, <3>10, <3>11, <3>12
    <3> HIDE DEF m, m1, o, t, t1, v, v1
    <3>15. y1 + v1 = x1 - m1
      BY <3>3, <3>4, <3>13, <3>14
    <3>16. Taken(j)
      BY <3>15 DEF y1, v1, x1, m1, b1, r1, q, z1
    <3> HIDE DEF Taken
    <3> QED BY <3>16
  <2>2. CASE ~(k + 1 <= s)
    BY <2>2
  <2> QED BY <2>1, <2>2
<1> HIDE DEF A
<1>5. s \in A
  BY <1>3, <1>4, SetInduction
<1>6. Taken(s)
  BY <1>5 DEF A
<1> QED BY <1>6
=============================================================================
