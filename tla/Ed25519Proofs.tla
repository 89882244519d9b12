--------------------------- MODULE Ed25519Proofs ---------------------------
(***************************************************************************)
(* Theorems about the scalars, the points and the signatures of            *)
(* tweetnacl.c, on top of those about its field: modL, the remainder       *)
(* modulo the order of the base point; the addition, the encoding, the     *)
(* decoding and the multiples of points of the Edwards curve; crypto_sign  *)
(* and crypto_sign_open, which are put together from these; and that every *)
(* call of Ed25519Calls returns what its property says.                    *)
(***************************************************************************)
EXTENDS Ed25519Calls, Field25519Proofs

-----------------------------------------------------------------------------
(* The order of the base point.                                            *)

HALF == BYTE \div 2

(* What the assumption on the order says of its bytes and its size.        *)
LEMMA OrderFacts ==
  ASSUME OrderAssumption
  PROVE  /\ BYTE \in Nat /\ BYTE > 1 /\ HALF \in Nat /\ HALF > 0 /\ BYTE = 2 * HALF
         /\ BYTES \in Nat /\ BYTES > 1 /\ SPAN \in Nat /\ SPAN > 0 /\ SPAN < BYTES
         /\ IsInts(L, BYTES) /\ L[BYTES] \in Nat /\ L[BYTES] > 0
         /\ Times \in Nat /\ Times > 0 /\ Times * L[BYTES] = BYTE
         /\ LowOrder \in Nat /\ LowOrder = Worth(L, BYTE, SPAN)
         /\ Order = Worth(L, BYTE, BYTES) /\ Order \in Nat /\ Order > 0
         /\ Order = LowOrder + L[BYTES] * PowersOf(BYTE)[BYTES - 1]
         /\ Order < PowersOf(BYTE)[BYTES]
         /\ Times * Order = PowersOf(BYTE)[BYTES] + Times * LowOrder
<1> DEFINE b == BYTE
           n == BYTES
           top == L[n]
           p == PowersOf(b)
           h == b \div 2
<1>1. /\ b \in Nat /\ b > 1 /\ b % 2 = 0 /\ LIMBS \in Nat /\ SPAN \in 1..(n - 1)
      /\ L \in [1..n -> 0..(b - 1)] /\ top > 0 /\ b % top = 0
      /\ \A k \in (SPAN + 1)..(n - 1) : L[k] = 0
  BY DEF OrderAssumption
<1>2. n \in Nat /\ n > 1 /\ SPAN \in Nat /\ SPAN > 0 /\ SPAN < n /\ n \in 1..n
  <2>1. n \in Nat
    BY <1>1 DEF BYTES
  <2> HIDE DEF n
  <2> QED BY <1>1, <2>1
<1>3. top \in 0..(b - 1) /\ AreDigits(L, b, n)
  <2> HIDE DEF n, b
  <2>1. \A k \in 1..n : L[k] \in 0..(b - 1)
    BY <1>1
  <2> QED BY <1>2, <2>1 DEF AreDigits
<1>4. h \in Nat /\ h > 0 /\ b = 2 * h
  <2> HIDE DEF b
  <2> QED BY <1>1
<1>5. Times \in Nat /\ Times > 0 /\ Times * top = b
  <2>1. top \in Nat /\ top > 0
    BY <1>1, <1>3
  <2>2. Times = b \div top
    BY DEF Times
  <2> HIDE DEF top, b
  <2>3. PICK q \in Nat, r \in 0..(top - 1) : b = q * top + r /\ b \div top = q /\ b % top = r
    BY <1>1, <2>1, Division
  <2>4. Times = q /\ r = 0
    BY <1>1, <2>2, <2>3, Zenon
  <2>5. b = q * top
    <3>1. q * top \in Nat
      BY <2>1
    <3> QED BY <2>3, <2>4, <3>1
  <2>6. q # 0
    <3>1. 0 * top = 0
      BY <2>1
    <3> QED BY <1>1, <2>5, <3>1
  <2> QED BY <2>4, <2>5, <2>6
<1>6. /\ \A k \in Nat : p[k] \in Nat /\ p[k] > 0
      /\ p[(n - 1) + 1] = b * p[n - 1] /\ (n - 1) + 1 = n /\ n - 1 \in Nat /\ n - 1 < n
  <2> HIDE DEF n, b
  <2>1. b > 0
    BY <1>1
  <2>2. n - 1 \in Nat /\ (n - 1) + 1 = n /\ n - 1 < n
    BY <1>2
  <2>3. \A k \in Nat : p[k] \in Nat /\ p[k] > 0 /\ p[k + 1] = b * p[k]
    BY <1>1, <2>1, PowersFacts
  <2> QED BY <2>2, <2>3
<1>7. IsInts(L, n) /\ IsInts(L, SPAN) /\ AreDigits(L, b, SPAN) /\ AreDigits(L, b, n - 1)
  <2> HIDE DEF n, b
  <2>1. IsInts(L, n)
    BY <1>1, <1>3 DEF AreDigits, IsInts
  <2> QED BY <1>2, <1>3, <2>1 DEF AreDigits, IsInts
<1>8. LowOrder = Worth(L, b, SPAN)
  <2> DEFINE f == [i \in Nat |-> L[i] * p[i - 1]]
             g == [k \in 1..SPAN |-> L[k] * p[k - 1]]
  <2>1. \A k \in 1..SPAN : g[k] = f[k]
    BY <1>2
  <2>2. IsInts(f, SPAN)
    <3>1. ASSUME NEW k \in 1..SPAN PROVE f[k] \in Int
      <4> DEFINE x == L[k]
                 y == p[k - 1]
      <4>1. x \in Int /\ k - 1 \in Nat
        BY <1>7 DEF IsInts
      <4>2. y \in Nat
        BY <1>6, <4>1
      <4>3. f[k] = x * y
        BY <1>2
      <4> HIDE DEF x, y, f
      <4> QED BY <4>1, <4>2, <4>3
    <3> HIDE DEF f
    <3> QED BY <3>1 DEF IsInts
  <2>3. LowOrder = SumTo(g, SPAN) /\ Worth(L, b, SPAN) = SumTo(f, SPAN)
    BY Zenon DEF LowOrder, Worth
  <2> HIDE DEF f, g
  <2> QED BY <1>2, <2>1, <2>2, <2>3, SumSame
<1> DEFINE x == Worth(L, b, n - 1)
           y == Worth(L, b, n)
           q == p[n - 1]
           q1 == p[n]
<1>9. x = LowOrder
  <2>1. b > 0 /\ IsInts(L, n - 1) /\ SPAN \in 0..(n - 1)
    <3> HIDE DEF n
    <3> QED BY <1>1, <1>2, <1>7 DEF IsInts
  <2> HIDE DEF n, b
  <2> QED BY <1>1, <1>6, <1>8, <2>1, WorthZeros
<1>10. x \in Nat /\ x < q
  <2>1. b > 0
    BY <1>1
  <2> HIDE DEF n, b
  <2> QED BY <1>1, <1>6, <1>7, <2>1, WorthBound
<1>11. y \in Nat /\ y < q1
  <2>1. b > 0
    BY <1>1
  <2> HIDE DEF n, b
  <2> QED BY <1>1, <1>2, <1>3, <2>1, WorthBound
<1>12. y = x + top * q
  <2> DEFINE m == n - 1
  <2>1. b > 0 /\ b \in Nat /\ n \in Nat /\ IsInts(L, n) /\ m \in Nat /\ m < n
    BY <1>1, <1>2, <1>6, <1>7
  <2>2. Worth(L, b, (n - 1) + 1) = x + L[(n - 1) + 1] * q
    <3> HIDE DEF n, b, m
    <3>1. Worth(L, b, m + 1) = Worth(L, b, m) + L[m + 1] * PowersOf(b)[m]
      BY <2>1, WorthStep
    <3> QED BY <3>1, Zenon DEF m
  <2>3. (n - 1) + 1 = n
    BY <1>6
  <2> QED BY <2>2, <2>3, Zenon
<1>13. Order = LowOrder + top * q
  BY DEF Order
<1>14. q \in Nat /\ q > 0 /\ q1 = b * q
  BY <1>6
<1> HIDE DEF x, y, q, q1, top, b, n, p, h
<1>15. top * q \in Nat /\ top * q > 0
  <2>1. top \in Nat /\ top > 0
    BY <1>1, <1>3
  <2> QED BY <1>14, <2>1
<1>16. Order = y /\ Order > 0
  BY <1>9, <1>10, <1>12, <1>13, <1>15
<1>17. Times * Order = q1 + Times * LowOrder
  <2>1. top \in Nat /\ LowOrder \in Nat
    BY <1>3, <1>9, <1>10
  <2>2. Times * (LowOrder + top * q) = Times * LowOrder + (Times * top) * q
    BY <1>5, <1>14, <2>1
  <2>3. Times * LowOrder \in Nat /\ b * q \in Nat
    BY <1>1, <1>5, <1>14, <2>1
  <2> QED BY <1>5, <1>13, <1>14, <2>2, <2>3
<1>18. HALF = h
  BY DEF HALF, h, b
<1>19. top \in Nat
  BY <1>3
<1> QED BY <1>1, <1>2, <1>4, <1>5, <1>7, <1>8, <1>9, <1>10, <1>11, <1>13, <1>16, <1>17, <1>18, <1>19
        DEF b, n, top, p, q, q1, y

(* One byte of the order is taken away.                                    *)
Borrowing == [x : Long, carry : Int]

IsOneLess(t, s, low, top, j) ==
  /\ t \in Borrowing
  /\ \A k \in 1..(2 * BYTES) : k # low + j => t.x[k] = s.x[k]
  /\ t.x[low + j] + t.carry * BYTE = s.x[low + j] + s.carry - Times * top * L[j]
  /\ -HALF <= t.x[low + j] /\ t.x[low + j] <= HALF

LEMMA OneBorrow ==
  ASSUME OrderAssumption, NEW s \in Borrowing, NEW low \in 0..(BYTES - 1), NEW top \in Int,
         NEW j \in 1..SPAN
  PROVE  IsOneLess(Borrow(s, j, low, top), s, low, top, j)
<1> DEFINE b == BYTE
           h == HALF
           m == low + j
           x == s.x
           c == s.carry
           v == x[m] + c - Times * top * L[j]
           d == (v + h) \div b
           r == v - d * b
           y == [x EXCEPT ![m] = r]
<1>1. /\ b \in Nat /\ b > 1 /\ h \in Nat /\ h > 0 /\ b = 2 * h /\ BYTES \in Nat
      /\ SPAN \in Nat /\ SPAN < BYTES /\ IsInts(L, BYTES) /\ Times \in Nat
  BY OrderFacts
<1>2. x \in [1..(2 * BYTES) -> Int] /\ c \in Int
  BY DEF Borrowing, Long
<1>3. m \in 1..(2 * BYTES) /\ j \in 1..BYTES
  BY <1>1
<1>4. v \in Int
  <2> DEFINE f == L[j]
             a == x[m]
  <2>1. f \in Int /\ a \in Int
    BY <1>1, <1>2, <1>3 DEF IsInts
  <2>2. v = a + c - Times * top * f
    OBVIOUS
  <2> HIDE DEF f, a, v, c
  <2>3. Times * top * f \in Int
    BY <1>1, <2>1
  <2> QED BY <1>2, <2>1, <2>2, <2>3
<1>5. Borrow(s, j, low, top) = [x |-> y, carry |-> d]
  BY Zenon DEF Borrow, HALF
<1> HIDE DEF v, x, c, b, h, m
<1>6. d \in Int /\ r \in Int /\ -h <= r /\ r <= h /\ r + d * b = v
  <2>1. v + h \in Int /\ b > 0
    BY <1>1, <1>4
  <2>2. PICK q \in Int, e \in 0..(b - 1) : v + h = q * b + e /\ (v + h) \div b = q
    BY <1>1, <2>1, IntDivision
  <2> DEFINE z == q * b
  <2>3. z \in Int /\ d = q /\ r = v - z
    BY <1>1, <2>2
  <2> HIDE DEF d, r, z
  <2>4. v + h = z + e
    BY <2>2 DEF z
  <2>5. r \in Int /\ -h <= r /\ r <= h /\ r + z = v
    BY <1>1, <1>4, <2>2, <2>3, <2>4
  <2> QED BY <2>2, <2>3, <2>5 DEF z
<1> HIDE DEF d, r
<1>7. y \in [1..(2 * BYTES) -> Int] /\ y[m] = r /\ \A k \in 1..(2 * BYTES) : k # m => y[k] = x[k]
  BY <1>2, <1>3, <1>6
<1> HIDE DEF y
<1> DEFINE t == [x |-> y, carry |-> d]
<1>8. t \in Borrowing /\ t.x = y /\ t.carry = d
  BY <1>6, <1>7 DEF Borrowing, Long
<1> HIDE DEF t
<1>9. /\ t \in Borrowing
      /\ \A k \in 1..(2 * BYTES) : k # m => t.x[k] = x[k]
      /\ t.x[m] + t.carry * b = v
      /\ -h <= t.x[m] /\ t.x[m] <= h
  BY <1>6, <1>7, <1>8
<1>10. IsOneLess(t, s, low, top, j)
  BY <1>9, Zenon DEF IsOneLess, m, x, c, v, b, h
<1> QED BY <1>5, <1>10, Zenon DEF t

(* The states after each of the bytes.                                     *)
BorrowRuns(g, x, low, top) ==
  /\ g \in [Nat -> Borrowing] /\ g[0] = [x |-> x, carry |-> 0]
  /\ \A k \in Nat : k < SPAN => g[k + 1] = Borrow(g[k], k + 1, low, top)

BorrowRunsTo(out, x, low, top) == \E g : BorrowRuns(g, x, low, top) /\ out = g[SPAN]

Borrowed(x, low, top) ==
  LET Turn(s, j) == Borrow(s, j, low, top)
  IN  Loop([x : Long, carry : Int], Turn, [x |-> x, carry |-> 0], SPAN)

LEMMA BorrowLoopRuns ==
  ASSUME OrderAssumption, NEW x \in Long, NEW low \in 0..(BYTES - 1), NEW top \in Int
  PROVE  BorrowRunsTo(Borrowed(x, low, top), x, low, top)
<1> DEFINE Turned(s, i) == Borrow(s, i, low, top)
           T == Borrowing
           N == SPAN
           step == [p \in T \X Nat |->
                      IF p[2] > 0 /\ p[2] <= N THEN Turned(p[1], p[2]) ELSE p[1]]
           first == [x |-> x, carry |-> 0]
           K == 1..(N + 1)
           Is(run) == run = [p \in T \X K |->
                               IF p[2] > N THEN p[1]
                               ELSE run[<<Turned(p[1], p[2]), p[2] + 1>>]]
           chosen == CHOOSE run : Is(run)
<1>1. N \in Nat
  BY OrderFacts
<1>2. first \in T
  BY DEF Borrowing
<1>3. ASSUME NEW s \in T, NEW i \in Nat, i > 0, i <= N PROVE Turned(s, i) \in T
  <2>1. i \in 1..SPAN /\ s \in Borrowing
    BY <1>3, OrderFacts
  <2>2. Borrow(s, i, low, top) \in Borrowing
    BY <2>1, OneBorrow DEF IsOneLess
  <2> QED BY <2>2
<1>4. Borrowed(x, low, top) = chosen[<<first, 1>>]
  BY Zenon DEF Borrowed, Loop, Turned, T, N, first, K, Borrowing
<1> HIDE DEF Turned, T, N
<1>5. /\ step \in [T \X Nat -> T]
      /\ \A s \in T : \A i \in Nat : i > 0 /\ i <= N => step[<<s, i>>] = Turned(s, i)
  BY <1>3
<1> HIDE DEF step, first
<1>6. ASSUME NEW p \in T \X K, ~(p[2] > N)
      PROVE  step[<<p[1], p[2]>>] = Turned(p[1], p[2])
  <2>1. p[1] \in T /\ p[2] \in Nat /\ p[2] > 0 /\ p[2] <= N
    BY <1>1, <1>6
  <2> QED BY <1>5, <2>1
<1>7. ASSUME NEW run, IsLoop(run, T, N, step) PROVE Is(run)
  <2>1. run = [p \in T \X K |->
                 IF p[2] > N THEN p[1] ELSE run[<<step[<<p[1], p[2]>>], p[2] + 1>>]]
    BY <1>7 DEF IsLoop
  <2> HIDE DEF K
  <2> QED BY <1>6, <2>1
<1>8. ASSUME NEW run, Is(run) PROVE IsLoop(run, T, N, step)
  <2>1. run = [p \in T \X K |->
                 IF p[2] > N THEN p[1] ELSE run[<<step[<<p[1], p[2]>>], p[2] + 1>>]]
    <3>1. run = [p \in T \X K |->
                   IF p[2] > N THEN p[1] ELSE run[<<Turned(p[1], p[2]), p[2] + 1>>]]
      BY <1>8
    <3> HIDE DEF K
    <3> QED BY <1>6, <3>1
  <2> QED BY <2>1 DEF IsLoop
<1>9. Is(chosen)
  <2>1. \E run : IsLoop(run, T, N, step)
    BY <1>1, <1>5, LoopExists
  <2>2. PICK run : IsLoop(run, T, N, step)
    BY <2>1
  <2>3. Is(run)
    BY <1>7, <2>2
  <2> HIDE DEF Is
  <2> QED BY <2>3, Zenon
<1> HIDE DEF chosen
<1>10. IsLoop(chosen, T, N, step)
  <2> HIDE DEF Is
  <2> QED BY <1>8, <1>9
<1>11. EndsIn(chosen[<<first, 1>>], T, first, N, step)
  <2> HIDE DEF Is, K
  <2> QED BY <1>1, <1>2, <1>5, <1>10, LoopTurns
<1>12. PICK g : Advances(g, T, first, step) /\ chosen[<<first, 1>>] = g[N]
  BY <1>11, Zenon DEF EndsIn
<1>13. /\ g \in [Nat -> T] /\ g[0] = first
       /\ \A i \in Nat : g[i + 1] = step[<<g[i], i + 1>>]
  BY <1>12 DEF Advances
<1>14. ASSUME NEW i \in Nat, i < N PROVE g[i + 1] = Turned(g[i], i + 1)
  <2>1. i + 1 \in Nat /\ i + 1 > 0 /\ i + 1 <= N /\ g[i] \in T
    BY <1>1, <1>13, <1>14
  <2> QED BY <1>5, <1>13, <2>1
<1>15. BorrowRuns(g, x, low, top)
  BY <1>13, <1>14, Zenon DEF BorrowRuns, Turned, T, N, first
<1>16. Borrowed(x, low, top) = g[N]
  BY <1>4, <1>12, Zenon
<1> QED BY <1>15, <1>16, Zenon DEF BorrowRunsTo, N

(* What they make of the number: a multiple of the order's low bytes is    *)
(* taken away, up to a carry.                                              *)
IsLessened(y, c, x, low, top) ==
  /\ y \in Long /\ \A k \in 1..(2 * BYTES) : k \notin (low + 1)..(low + SPAN) => y[k] = x[k]
  /\ \A k \in 1..SPAN : -HALF <= y[low + k] /\ y[low + k] <= HALF
  /\ IsBorrow(y, x, c, L, Times * top, BYTE, low, SPAN)

LEMMA BorrowedIs ==
  ASSUME OrderAssumption, NEW x \in Long, NEW low \in 0..(BYTES - 1), NEW top \in Int
  PROVE  LET s == Borrowed(x, low, top)
         IN  \E c : IsLessened(s.x, c, x, low, top) /\ s.carry = c[SPAN]
<1> DEFINE s == Borrowed(x, low, top)
           n == BYTES
<1>1. n \in Nat /\ SPAN \in Nat /\ SPAN < n /\ HALF \in Nat /\ BYTE \in Nat
  BY OrderFacts
<1>2. PICK g : BorrowRuns(g, x, low, top) /\ s = g[SPAN]
  BY BorrowLoopRuns DEF BorrowRunsTo
<1>3. /\ g \in [Nat -> Borrowing] /\ g[0] = [x |-> x, carry |-> 0]
      /\ \A k \in Nat : k < SPAN => g[k + 1] = Borrow(g[k], k + 1, low, top)
  BY <1>2, Zenon DEF BorrowRuns
<1>4. \A k \in Nat : g[k] \in Borrowing /\ g[k].x \in Long /\ g[k].carry \in Int
  BY <1>3 DEF Borrowing
<1>5. ASSUME NEW k \in Nat, k < SPAN
      PROVE  /\ \A i \in 1..(2 * n) : i # low + (k + 1) => g[k + 1].x[i] = g[k].x[i]
             /\ g[k + 1].x[low + (k + 1)] + g[k + 1].carry * BYTE
                  = g[k].x[low + (k + 1)] + g[k].carry - Times * top * L[k + 1]
             /\ -HALF <= g[k + 1].x[low + (k + 1)] /\ g[k + 1].x[low + (k + 1)] <= HALF
  <2>1. k + 1 \in 1..SPAN /\ g[k] \in Borrowing
    BY <1>1, <1>4, <1>5
  <2>2. g[k + 1] = Borrow(g[k], k + 1, low, top)
    BY <1>3, <1>5
  <2>3. IsOneLess(Borrow(g[k], k + 1, low, top), g[k], low, top, k + 1)
    BY <2>1, OneBorrow
  <2>4. IsOneLess(g[k + 1], g[k], low, top, k + 1)
    BY <2>2, <2>3, Zenon
  <2> QED BY <2>4, Zenon DEF IsOneLess
(* The place low + k has been changed once, in the turn k.                 *)
<1> DEFINE At(k, i) == g[k].x[i]
           Begun(k) == \A i \in 1..(2 * n) : i \notin (low + 1)..(low + k) => At(k, i) = x[i]
           E == {k \in Nat : k <= SPAN => Begun(k)}
<1>6. SPAN \in E /\ \A k \in Nat : k <= SPAN => Begun(k)
  <2>1. 0 \in E
    BY <1>3
  <2>2. ASSUME NEW k \in Nat, k \in E PROVE k + 1 \in E
    <3>1. CASE k + 1 <= SPAN
      <4>1. k < SPAN /\ k <= SPAN
        BY <1>1, <3>1
      <4>2. Begun(k)
        BY <2>2, <4>1
      <4>3. ASSUME NEW i \in 1..(2 * n), i \notin (low + 1)..(low + (k + 1))
            PROVE  At(k + 1, i) = x[i]
        <5>1. i # low + (k + 1) /\ i \notin (low + 1)..(low + k)
          BY <1>1, <4>3
        <5>2. At(k + 1, i) = At(k, i)
          BY <1>5, <4>1, <5>1
        <5> QED BY <4>2, <5>1, <5>2
      <4> HIDE DEF At
      <4> QED BY <4>3
    <3>2. CASE ~(k + 1 <= SPAN)
      BY <3>2
    <3> QED BY <3>1, <3>2
  <2> HIDE DEF E
  <2>3. Nat \subseteq E
    BY <2>1, <2>2, SetInduction
  <2>4. \A k \in Nat : k \in E
    BY <2>3
  <2> HIDE DEF Begun
  <2> QED BY <1>1, <2>4 DEF E
<1>7. \A i \in 1..SPAN : At(SPAN, low + i) = At(i, low + i)
  <2> DEFINE Done(k) == \A i \in 1..k : At(k, low + i) = At(i, low + i)
             B == {k \in Nat : k <= SPAN => Done(k)}
  <2>1. 0 \in B
    OBVIOUS
  <2>2. ASSUME NEW k \in Nat, k \in B PROVE k + 1 \in B
    <3>1. CASE k + 1 <= SPAN
      <4>1. k < SPAN /\ k <= SPAN
        BY <1>1, <3>1
      <4>2. Done(k)
        BY <2>2, <4>1
      <4>3. ASSUME NEW i \in 1..(k + 1) PROVE At(k + 1, low + i) = At(i, low + i)
        <5>1. CASE i = k + 1
          BY <5>1
        <5>2. CASE i # k + 1
          <6>1. i \in 1..k /\ low + i # low + (k + 1) /\ low + i \in 1..(2 * n)
            BY <1>1, <4>1, <5>2
          <6>2. At(k + 1, low + i) = At(k, low + i)
            BY <1>5, <4>1, <6>1
          <6>3. At(k, low + i) = At(i, low + i)
            BY <4>2, <6>1
          <6> QED BY <6>2, <6>3
        <5> QED BY <5>1, <5>2
      <4> HIDE DEF At
      <4> QED BY <4>3
    <3>2. CASE ~(k + 1 <= SPAN)
      BY <3>2
    <3> QED BY <3>1, <3>2
  <2> HIDE DEF B
  <2>3. SPAN \in B
    BY <1>1, <2>1, <2>2, SetInduction
  <2> HIDE DEF Done
  <2>4. Done(SPAN)
    BY <1>1, <2>3 DEF B
  <2> QED BY <2>4 DEF Done
<1> DEFINE c == [k \in 0..SPAN |-> g[k].carry]
           y == g[SPAN].x
<1>8. c \in [0..SPAN -> Int] /\ c[0] = 0 /\ \A k \in 0..SPAN : c[k] = g[k].carry
  <2>1. \A k \in 0..SPAN : k \in Nat
    BY <1>1
  <2>2. 0 \in 0..SPAN
    BY <1>1
  <2> QED BY <1>3, <1>4, <2>1, <2>2
<1>9. y \in Long
  BY <1>1, <1>4
<1>10. \A k \in 1..(2 * n) : k \notin (low + 1)..(low + SPAN) => y[k] = x[k]
  BY <1>1, <1>6
<1>11. ASSUME NEW k \in 1..SPAN
       PROVE  /\ -HALF <= y[low + k] /\ y[low + k] <= HALF
              /\ y[low + k] + c[k] * BYTE = x[low + k] + c[k - 1] - Times * top * L[k]
  <2>1. k - 1 \in Nat /\ k - 1 < SPAN /\ (k - 1) + 1 = k /\ k - 1 \in 0..SPAN /\ k \in 0..SPAN
    BY <1>1
  <2> DEFINE i == k - 1
  <2> HIDE DEF i
  <2>2. i \in Nat /\ i < SPAN /\ i + 1 = k /\ i \in 0..SPAN
    BY <2>1 DEF i
  <2>3. /\ g[i + 1].x[low + (i + 1)] + g[i + 1].carry * BYTE
             = g[i].x[low + (i + 1)] + g[i].carry - Times * top * L[i + 1]
        /\ -HALF <= g[i + 1].x[low + (i + 1)] /\ g[i + 1].x[low + (i + 1)] <= HALF
    BY <1>5, <2>2
  <2>4. /\ g[k].x[low + k] + g[k].carry * BYTE
             = g[i].x[low + k] + g[i].carry - Times * top * L[k]
        /\ -HALF <= g[k].x[low + k] /\ g[k].x[low + k] <= HALF
    BY <2>2, <2>3, Zenon
  <2>5. g[i].x[low + k] = x[low + k]
    <3>1. low + k \in 1..(2 * n) /\ low + k \notin (low + 1)..(low + i) /\ i <= SPAN
      BY <1>1, <2>2
    <3>2. Begun(i)
      BY <1>6, <2>2, <3>1
    <3> QED BY <3>1, <3>2
  <2>6. y[low + k] = g[k].x[low + k]
    BY <1>7
  <2>7. c[k] = g[k].carry /\ c[i] = g[i].carry /\ i = k - 1
    BY <1>8, <2>1, <2>2 DEF i
  <2> HIDE DEF c, y
  <2> QED BY <2>4, <2>5, <2>6, <2>7, Zenon
<1>12. \A k \in 1..low : y[k] = x[k]
  <2>1. ASSUME NEW k \in 1..low PROVE y[k] = x[k]
    <3>1. k \in 1..(2 * n) /\ k \notin (low + 1)..(low + SPAN)
      BY <1>1
    <3> QED BY <1>10, <3>1
  <2> QED BY <2>1
<1> HIDE DEF c, y
<1>13. IsBorrow(y, x, c, L, Times * top, BYTE, low, SPAN)
  BY <1>8, <1>11, <1>12, Zenon DEF IsBorrow
<1>14. IsLessened(y, c, x, low, top)
  BY <1>9, <1>10, <1>11, <1>13, Zenon DEF IsLessened
<1>15. s.x = y /\ s.carry = c[SPAN]
  <2>1. SPAN \in 0..SPAN
    BY <1>1
  <2> QED BY <1>2, <1>8, <2>1 DEF y
<1> QED BY <1>14, <1>15, Zenon

(* The carry goes to the byte after those, and the byte itself away: a     *)
(* multiple of the order has been taken away from the number.              *)
IsTakenAway(y, x, i, carry) ==
  LET low == i - BYTES - 1
  IN  /\ y \in Long /\ y[i] = 0 /\ y[low + SPAN + 1] = x[low + SPAN + 1] + carry
      /\ \A k \in 1..SPAN : -HALF <= y[low + k] /\ y[low + k] <= HALF
      /\ \A k \in 1..(2 * BYTES) :
           k \notin (low + 1)..(low + SPAN + 1) /\ k # i => y[k] = x[k]

LEMMA TakeAwayIs ==
  ASSUME OrderAssumption, NEW x \in Long, NEW i \in (BYTES + 1)..(2 * BYTES)
  PROVE  LET y == TakeAway(x, i)
         IN  \E z, c : /\ IsLessened(z, c, x, i - BYTES - 1, x[i])
                       /\ IsTakenAway(y, x, i, c[SPAN]) /\ c[SPAN] \in Int
                       /\ Congruent(Worth(y, BYTE, 2 * BYTES), Worth(x, BYTE, 2 * BYTES), Order)
<1> DEFINE n == BYTES
           b == BYTE
           low == i - BYTES - 1
           m == low + SPAN
           top == x[i]
           s == Borrowed(x, low, top)
           p == PowersOf(b)
           a == Times * top
<1>1. /\ b \in Nat /\ b > 0 /\ n \in Nat /\ n > 1 /\ SPAN \in Nat /\ SPAN > 0 /\ SPAN < n
      /\ IsInts(L, n) /\ Times \in Nat /\ LowOrder \in Nat /\ Order \in Nat
      /\ LowOrder = Worth(L, b, SPAN) /\ Times * Order = p[n] + Times * LowOrder
  BY OrderFacts
<1>2. /\ x \in [1..(2 * n) -> Int] /\ i \in Nat /\ i \in 1..(2 * n) /\ i - 1 = low + n
      /\ low \in 0..(n - 1) /\ low \in Nat /\ m \in Nat /\ m + 1 \in 1..(2 * n) /\ m + 1 < i
      /\ m \in 0..(2 * n) /\ m + 1 - 1 = m /\ m <= 2 * n /\ 2 * n \in Nat
  BY <1>1 DEF Long
<1>3. top \in Int
  BY <1>2
<1>4. PICK c : IsLessened(s.x, c, x, low, top) /\ s.carry = c[SPAN]
  <2> HIDE DEF low, top
  <2> QED BY <1>2, <1>3, BorrowedIs
<1> DEFINE z == s.x
           e == c[SPAN]
           y2 == [z EXCEPT ![m + 1] = z[m + 1] + e]
           y == [y2 EXCEPT ![i] = 0]
<1>5. TakeAway(x, i) = y
  <2>1. TakeAway(x, i) = [s.x EXCEPT ![m + 1] = @ + s.carry, ![i] = 0]
    BY Zenon DEF TakeAway, Borrowed
  <2>2. [s.x EXCEPT ![m + 1] = @ + s.carry, ![i] = 0] = y
    BY <1>4
  <2> QED BY <2>1, <2>2, Zenon
<1>6. /\ z \in [1..(2 * n) -> Int]
      /\ \A k \in 1..(2 * n) : k \notin (low + 1)..(low + SPAN) => z[k] = x[k]
      /\ \A k \in 1..SPAN : -HALF <= z[low + k] /\ z[low + k] <= HALF
      /\ IsBorrow(z, x, c, L, a, b, low, SPAN)
  BY <1>4, Zenon DEF IsLessened, Long
<1> HIDE DEF s, z
<1>7. e \in Int
  <2>1. SPAN \in 0..SPAN /\ c \in [0..SPAN -> Int]
    BY <1>1, <1>6 DEF IsBorrow
  <2> QED BY <2>1
<1> HIDE DEF e, top
<1>8. /\ y2 \in [1..(2 * n) -> Int] /\ y2[m + 1] = z[m + 1] + e
      /\ \A k \in 1..(2 * n) : k # m + 1 => y2[k] = z[k]
  <2> HIDE DEF m, n
  <2> QED BY <1>2, <1>6, <1>7
<1>9. /\ y \in [1..(2 * n) -> Int] /\ y[i] = 0
      /\ \A k \in 1..(2 * n) : k # i => y[k] = y2[k]
  <2> HIDE DEF y2, n
  <2> QED BY <1>2, <1>8
<1>10. IsTakenAway(y, x, i, e)
  <2> HIDE DEF y, y2
  <2>1. z[m + 1] = x[m + 1]
    BY <1>2, <1>6
  <2>2. y[m + 1] = x[m + 1] + e
    BY <1>2, <1>8, <1>9, <2>1
  <2>3. ASSUME NEW k \in 1..SPAN PROVE -HALF <= y[low + k] /\ y[low + k] <= HALF
    <3>1. low + k \in 1..(2 * n) /\ low + k # i /\ low + k # m + 1
      BY <1>1, <1>2
    <3>2. y[low + k] = z[low + k]
      BY <1>8, <1>9, <3>1
    <3> QED BY <1>6, <3>2
  <2>4. ASSUME NEW k \in 1..(2 * n), k \notin (low + 1)..(low + SPAN + 1), k # i
        PROVE  y[k] = x[k]
    <3>1. k # m + 1 /\ k \notin (low + 1)..(low + SPAN)
      BY <1>1, <1>2, <2>4
    <3>2. y[k] = z[k]
      BY <1>8, <1>9, <2>4, <3>1
    <3> QED BY <1>6, <3>1, <3>2
  <2>5. y \in Long /\ y[i] = 0
    BY <1>9 DEF Long
  <2>6. low + SPAN + 1 = m + 1
    OBVIOUS
  <2> HIDE DEF low, m
  <2> QED BY <2>2, <2>3, <2>4, <2>5, <2>6, Zenon DEF IsTakenAway, low, m, n
<1>11. IsInts(x, 2 * n) /\ IsInts(z, 2 * n)
  BY <1>2, <1>6 DEF IsInts
<1> DEFINE W(d) == Worth(d, b, 2 * n)
           pl == p[low]
           pn == p[n]
           l == LowOrder
           t == Times
<1>12. /\ \A k \in Nat : p[k] \in Nat
       /\ p[i - 1] = pl * pn /\ pl \in Nat /\ pn \in Nat
  <2>1. \A k \in Nat : p[k] \in Nat
    BY <1>1, PowersFacts
  <2>2. p[low + n] = pl * pn
    <3>1. b \in Int
      BY <1>1
    <3> HIDE DEF low, b, n
    <3> QED BY <1>1, <1>2, <3>1, PowerOfSum
  <2> QED BY <1>1, <1>2, <2>1, <2>2
<1>13. W(x) \in Int /\ W(z) \in Int
  <2> HIDE DEF n, b
  <2> QED BY <1>1, <1>2, <1>11, WorthIsInt
<1>14. W(z) = W(x) - a * (pl * l) - e * p[m]
  <2> HIDE DEF n, b, low, m, a, p
  <2> DEFINE q == p[m]
             zm == Worth(z, b, m)
             xm == Worth(x, b, m)
  <2>0. a \in Int /\ m = low + SPAN
    BY <1>1, <1>3 DEF a, m
  <2>1. zm + e * q = xm - a * (pl * l)
    <3>1. IsInts(L, SPAN)
      BY <1>1 DEF IsInts
    <3>2. Worth(z, b, low + SPAN) + c[SPAN] * PowersOf(b)[low + SPAN]
            = Worth(x, b, low + SPAN) - a * (PowersOf(b)[low] * Worth(L, b, SPAN))
      <4> DEFINE nn == 2 * n
      <4>1. /\ low + SPAN <= nn /\ b \in Nat /\ b > 0 /\ low \in Nat /\ SPAN \in Nat /\ nn \in Nat
            /\ IsInts(x, nn) /\ IsInts(z, nn) /\ a \in Int
        BY <1>1, <1>2, <1>11, <2>0
      <4>2. IsBorrow(z, x, c, L, a, b, low, SPAN)
        BY <1>6
      <4> HIDE DEF nn
      <4> QED BY <3>1, <4>1, <4>2, BorrowWorth
    <3> QED BY <1>1, <2>0, <3>2, Zenon DEF e, p
  <2>2. W(z) - W(x) = zm - xm
    <3>1. \A k \in (m + 1)..(2 * n) : z[k] = x[k]
      <4>1. ASSUME NEW k \in (m + 1)..(2 * n) PROVE z[k] = x[k]
        <5>1. k \in 1..(2 * n) /\ k \notin (low + 1)..(low + SPAN)
          BY <1>1, <1>2, <2>0
        <5> QED BY <1>6, <5>1
      <4> QED BY <4>1
    <3> QED BY <1>1, <1>2, <1>11, <3>1, WorthApart
  <2>3. zm \in Int /\ xm \in Int
    <3>1. IsInts(z, m) /\ IsInts(x, m)
      BY <1>2, <1>11 DEF IsInts
    <3> QED BY <1>1, <1>2, <3>1, WorthIsInt
  <2>4. q \in Nat
    BY <1>2, <1>12
  <2> DEFINE u == a * (pl * l)
             v == e * q
             g == W(z)
             f == W(x)
  <2>5. u \in Int /\ v \in Int
    <3>1. pl * l \in Nat
      BY <1>1, <1>12
    <3> HIDE DEF q, pl, l
    <3> QED BY <1>7, <2>0, <2>4, <3>1
  <2> HIDE DEF q, u, v, zm, xm, f, g
  <2>6. g = f - u - v
    <3>1. f \in Int /\ g \in Int /\ zm + v = xm - u /\ g - f = zm - xm
      BY <1>13, <2>1, <2>2 DEF f, g, u, v, q
    <3> QED BY <2>3, <2>5, <3>1
  <2> QED BY <2>6 DEF f, g, u, v, q
<1>15. W(y2) = W(z) + e * p[m]
  <2>1. W(y2) = W(z) + ((z[m + 1] + e) - z[m + 1]) * p[m]
    <3> DEFINE nn == 2 * n
               j == m + 1
    <3>1. j \in 1..nn /\ b \in Nat /\ b > 0 /\ nn \in Nat
      BY <1>1, <1>2
    <3>2. IsInts(z, nn) /\ IsInts(y2, nn)
      BY <1>6, <1>8 DEF IsInts
    <3>3. \A k \in 1..nn : k # j => y2[k] = z[k]
      BY <1>8
    <3>6. y2[j] = z[j] + e
      BY <1>8
    <3> HIDE DEF j, b, n, nn, y2
    <3>4. Worth(y2, b, nn) = Worth(z, b, nn) + (y2[j] - z[j]) * PowersOf(b)[j - 1]
      BY <3>1, <3>2, <3>3, WorthExcept
    <3>5. Worth(y2, b, nn) = Worth(z, b, nn) + ((z[j] + e) - z[j]) * PowersOf(b)[j - 1]
      BY <3>4, <3>6, Zenon
    <3>7. j - 1 = m
      BY <1>2 DEF j
    <3> HIDE DEF m
    <3> QED BY <3>5, <3>7, Zenon DEF j, nn
  <2>2. (z[m + 1] + e) - z[m + 1] = e
    <3>1. z[m + 1] \in Int
      BY <1>2, <1>6
    <3> QED BY <1>7, <3>1
  <2> QED BY <1>2, <2>1, <2>2, Zenon
<1>16. W(y) = W(y2) - top * (pl * pn)
  <2>1. W(y) = W(y2) + (0 - y2[i]) * p[i - 1]
    <3> DEFINE nn == 2 * n
    <3>1. i \in 1..nn /\ b \in Nat /\ b > 0 /\ nn \in Nat
      BY <1>1, <1>2
    <3>2. IsInts(y, nn) /\ IsInts(y2, nn)
      <4> HIDE DEF y, y2
      <4> QED BY <1>8, <1>9 DEF IsInts
    <3>3. y[i] = 0 /\ \A k \in 1..nn : k # i => y[k] = y2[k]
      <4> HIDE DEF y, y2
      <4> QED BY <1>9
    <3> HIDE DEF y, y2, b, n, nn
    <3>4. Worth(y, b, nn) = Worth(y2, b, nn) + (y[i] - y2[i]) * PowersOf(b)[i - 1]
      BY <3>1, <3>2, <3>3, WorthExcept
    <3> QED BY <3>3, <3>4, Zenon DEF nn
  <2>2. y2[i] = top
    <3>1. i # m + 1 /\ i \notin (low + 1)..(low + SPAN)
      BY <1>1, <1>2
    <3> QED BY <1>2, <1>6, <1>8, <3>1 DEF top
  <2> DEFINE q == p[i - 1]
             f == W(y2)
  <2>3. q \in Nat /\ f \in Int
    <3>1. IsInts(y2, 2 * n)
      BY <1>8 DEF IsInts
    <3>2. f \in Int
      <4> HIDE DEF n, b, y2
      <4> QED BY <1>1, <1>2, <3>1, WorthIsInt
    <3>3. i - 1 \in Nat
      BY <1>2
    <3> QED BY <1>12, <3>2, <3>3
  <2> HIDE DEF q, f
  <2>4. f + (0 - top) * q = f - top * q
    BY <1>3, <2>3
  <2> QED BY <1>12, <2>1, <2>2, <2>4 DEF q, f
<1>17. W(y) = W(x) - (top * pl * t) * Order
  <2> DEFINE f == W(x)
             g == W(z)
             g2 == W(y2)
             h == W(y)
             q == p[m]
             r == e * q
             u == a * (pl * l)
             v == top * (pl * pn)
  <2>1. f \in Int /\ r \in Int /\ u \in Int /\ v \in Int
    <3>1. q \in Nat /\ pl * l \in Nat /\ pl * pn \in Nat /\ a \in Int
      <4>1. q \in Nat
        BY <1>2, <1>12
      <4>2. pl \in Nat /\ pn \in Nat /\ l \in Nat /\ Times \in Nat
        BY <1>1, <1>12
      <4> HIDE DEF pl, pn, l, q
      <4>3. pl * l \in Nat /\ pl * pn \in Nat /\ a \in Int
        BY <1>3, <4>2
      <4> QED BY <4>1, <4>3
    <3> HIDE DEF q, pl, pn, l, a
    <3> QED BY <1>3, <1>7, <1>13, <3>1
  <2>2. g = f - u - r /\ g2 = g + r /\ h = g2 - v
    BY <1>14, <1>15, <1>16
  <2> HIDE DEF f, g, g2, h, r
  <2>3. u + v = (top * pl * t) * Order
    <3> DEFINE o == Order
    <3> HIDE DEF pl, pn, l, t, o
    <3>1. /\ t \in Nat /\ l \in Nat /\ o \in Nat /\ pl \in Nat /\ pn \in Nat /\ top \in Int
          /\ t * o = pn + t * l
      BY <1>1, <1>3, <1>12 DEF l, t, o, pn
    <3>2. (top * pl * t) * o = (top * pl) * (t * o)
      BY <3>1
    <3>3. (top * pl) * (pn + t * l) = (top * pl) * pn + (top * pl) * (t * l)
      BY <3>1
    <3>4. (top * pl) * pn = v /\ (top * pl) * (t * l) = (t * top) * (pl * l)
      BY <3>1
    <3>5. (t * top) * (pl * l) = u
      BY DEF t
    <3>6. (top * pl) * pn \in Int /\ (top * pl) * (t * l) \in Int
      BY <3>1
    <3> DEFINE r1 == (top * pl) * pn
               r2 == (top * pl) * (t * l)
    <3>7. r1 \in Int /\ r2 \in Int /\ (top * pl * t) * o = r1 + r2 /\ v = r1 /\ u = r2
      BY <3>1, <3>2, <3>3, <3>4, <3>5, <3>6, Zenon
    <3> HIDE DEF r1, r2, u, v
    <3>8. u + v = (top * pl * t) * o
      BY <3>7
    <3> QED BY <3>8 DEF o
  <2> HIDE DEF u, v
  <2>4. h = f - (u + v)
    BY <2>1, <2>2
  <2> QED BY <2>3, <2>4 DEF h, f
<1>18. Congruent(W(y), W(x), Order)
  <2> DEFINE k == top * pl * t
             f == W(x)
             o == Order
  <2>1. k \in Int /\ f \in Int /\ o \in Nat
    <3> HIDE DEF pl, t
    <3>1. pl \in Nat /\ t \in Nat
      BY <1>1, <1>12 DEF t
    <3> QED BY <1>1, <1>3, <1>13, <3>1
  <2>2. W(y) = f - k * o
    BY <1>17
  <2> HIDE DEF k, f, o
  <2>3. -k \in Int /\ f - k * o = f + (-k) * o
    BY <2>1
  <2>4. W(y) = f + (-k) * o
    BY <2>2, <2>3
  <2> HIDE DEF y
  <2> QED BY <2>3, <2>4, Zenon DEF Congruent, f, o
<1> HIDE DEF y
<1> QED BY <1>4, <1>5, <1>7, <1>10, <1>18, Zenon DEF e, top, z

(* How large the carry is, by the size of the bytes it has come from.      *)
Window(x, low) == [k \in 1..SPAN |-> x[low + k]]

LEMMA CarryOut ==
  ASSUME OrderAssumption, NEW x \in Long, NEW low \in 0..(BYTES - 1), NEW top \in Int,
         NEW z, NEW c, IsLessened(z, c, x, low, top),
         NEW V \in Nat, -V <= Worth(Window(x, low), BYTE, SPAN), Worth(Window(x, low), BYTE, SPAN) <= V,
         NEW W \in Nat, -W <= top, top <= W
  PROVE  LET q == PowersOf(BYTE)[SPAN]
             bound == V + Times * LowOrder * W + (q - 1)
         IN  /\ c[SPAN] \in Int /\ q \in Nat /\ q > 0 /\ bound \in Nat
             /\ -bound <= c[SPAN] * q /\ c[SPAN] * q <= bound
<1> DEFINE b == BYTE
           n == BYTES
           s == SPAN
           q == PowersOf(b)[s]
           a == Times * top
           l == LowOrder
           d == Window(x, low)
           e == Window(z, low)
           dw == Worth(d, b, s)
           ew == Worth(e, b, s)
<1>1. /\ b \in Nat /\ b > 1 /\ n \in Nat /\ s \in Nat /\ s < n /\ IsInts(L, n)
      /\ HALF \in Nat /\ HALF > 0 /\ b = 2 * HALF /\ Times \in Nat /\ l \in Nat
      /\ l = Worth(L, b, s)
  BY OrderFacts
<1>2. /\ z \in [1..(2 * n) -> Int] /\ x \in [1..(2 * n) -> Int]
      /\ \A k \in 1..s : -HALF <= z[low + k] /\ z[low + k] <= HALF
      /\ IsBorrow(z, x, c, L, a, b, low, s)
  BY Zenon DEF IsLessened, Long
<1>3. /\ c \in [0..s -> Int] /\ c[0] = 0
      /\ \A j \in 1..s : z[low + j] + c[j] * b = x[low + j] + c[j - 1] - a * L[j]
  BY <1>2 DEF IsBorrow
<1>4. \A k \in 1..s : low + k \in 1..(2 * n) /\ d[k] = x[low + k] /\ e[k] = z[low + k]
  BY <1>1 DEF Window
<1> HIDE DEF d, e, n
<1>5. IsInts(d, s) /\ IsInts(L, s) /\ AreWithin(e, (b - 1) * 1, s)
  <2>1. (b - 1) * 1 = b - 1 /\ HALF <= b - 1
    BY <1>1
  <2>2. ASSUME NEW k \in 1..s
        PROVE  /\ d[k] \in Int /\ L[k] \in Int /\ e[k] \in Int
               /\ -(b - 1) <= e[k] /\ e[k] <= b - 1
    <3>1. d[k] \in Int /\ e[k] \in Int
      BY <1>2, <1>4
    <3>2. -HALF <= e[k] /\ e[k] <= HALF
      BY <1>2, <1>4
    <3>3. k \in 1..n
      BY <1>1
    <3>4. L[k] \in Int
      BY <1>1, <3>3 DEF IsInts
    <3> DEFINE u == e[k]
    <3> HIDE DEF u, b
    <3>5. -(b - 1) <= u /\ u <= b - 1
      BY <1>1, <2>1, <3>1, <3>2 DEF u
    <3> QED BY <3>1, <3>4, <3>5 DEF u
  <2> HIDE DEF b
  <2> QED BY <2>1, <2>2, Zenon DEF IsInts, AreWithin
<1>6. IsInts(e, s) /\ ew \in Int /\ -(q - 1) <= ew /\ ew <= q - 1 /\ q \in Nat /\ q > 0
  <2> HIDE DEF b, s
  <2>1. b > 0 /\ 1 \in Nat
    BY <1>1
  <2>2. /\ IsInts(e, s) /\ ew \in Int
        /\ -(1 * (PowersOf(b)[s] - 1)) <= ew /\ ew <= 1 * (PowersOf(b)[s] - 1)
    BY <1>1, <1>5, <2>1, WorthLimits
  <2>3. q \in Nat /\ q > 0
    BY <1>1, <2>1, PowersFacts
  <2>4. 1 * (q - 1) = q - 1
    BY <2>3
  <2> QED BY <2>2, <2>3, <2>4, Zenon
<1>7. IsBorrow(e, d, c, L, a, b, 0, s)
  <2>1. ASSUME NEW j \in 1..s
        PROVE  e[0 + j] + c[j] * b = d[0 + j] + c[j - 1] - a * L[j]
    <3>1. 0 + j = j
      OBVIOUS
    <3>2. e[j] + c[j] * b = d[j] + c[j - 1] - a * L[j]
      BY <1>3, <1>4, Zenon
    <3> QED BY <3>1, <3>2, Zenon
  <2>2. \A k \in 1..0 : e[k] = d[k]
    OBVIOUS
  <2> QED BY <1>3, <2>1, <2>2, Zenon DEF IsBorrow
<1>8. ew + c[s] * q = dw - a * l
  <2> HIDE DEF b, s, a
  <2>1. /\ b > 0 /\ 0 \in Nat /\ 0 + s <= s /\ a \in Int
    BY <1>1 DEF a
  <2>2. Worth(e, b, 0 + s) + c[s] * PowersOf(b)[0 + s]
          = Worth(d, b, 0 + s) - a * (PowersOf(b)[0] * Worth(L, b, s))
    BY <1>1, <1>5, <1>6, <1>7, <2>1, BorrowWorth
  <2>3. 0 + s = s
    BY <1>1
  <2>4. PowersOf(b)[0] * Worth(L, b, s) = l
    <3>1. PowersOf(b)[0] = 1
      BY <1>1, <2>1, PowersFacts
    <3> QED BY <1>1, <3>1
  <2> QED BY <2>2, <2>3, <2>4, Zenon
<1>9. a * l = top * (Times * l) /\ Times * l \in Nat /\ a * l \in Int
  <2> HIDE DEF l
  <2> QED BY <1>1
<1> DEFINE t == Times * l
           u == top * t
           f == t * W
<1>10. u \in Int /\ -f <= u /\ u <= f /\ f \in Nat
  <2> HIDE DEF t
  <2>1. t \in Nat
    BY <1>9 DEF t
  <2>2. W * t = t * W /\ t * W \in Nat
    BY <2>1
  <2>3. top * t \in Int /\ -(W * t) <= top * t /\ top * t <= W * t
    <3>1. -t <= t /\ t <= t
      BY <2>1
    <3>2. t \in Int
      BY <2>1
    <3> QED BY <2>1, <3>1, <3>2, ProductBetween
  <2> HIDE DEF f
  <2> QED BY <2>2, <2>3 DEF f
<1>11. c[s] \in Int
  <2>1. s \in 0..s
    BY <1>1
  <2> QED BY <1>3, <2>1
<1>12. dw \in Int
  <2> HIDE DEF b, s
  <2>1. b > 0
    BY <1>1
  <2> QED BY <1>1, <1>5, <2>1, WorthIsInt
<1>13. -V <= dw /\ dw <= V
  BY DEF d
<1> DEFINE g == c[s] * q
<1>14. ew + g = dw - u
  BY <1>8, <1>9, Zenon
<1>15. g \in Int
  <2> DEFINE r == c[s]
  <2> HIDE DEF r, q
  <2> QED BY <1>6, <1>11 DEF r
<1> HIDE DEF g, u, f, dw, ew, q
<1>16. -(V + f + (q - 1)) <= g /\ g <= V + f + (q - 1) /\ V + f + (q - 1) \in Nat
  BY <1>6, <1>10, <1>12, <1>13, <1>14, <1>15
<1> QED BY <1>6, <1>11, <1>16, Zenon DEF g, f, q, t, l, s, b

(* A quotient is small where the product with it is.                       *)
LEMMA QuotientWithin ==
  ASSUME NEW q \in Nat, q > 0, NEW c \in Int, NEW m \in Nat, NEW t \in Nat,
         -t <= c * q, c * q <= t, t < (m + 1) * q
  PROVE  -m <= c /\ c <= m
<1>1. (m + 1) * q = m * q + q /\ m * q \in Nat /\ c * q \in Int
  OBVIOUS
<1>2. ~(c >= m + 1)
  <2>1. ASSUME c >= m + 1 PROVE c * q >= (m + 1) * q
    BY <2>1
  <2> QED BY <1>1, <2>1
<1>3. ~(-c >= m + 1)
  <2>1. ASSUME -c >= m + 1 PROVE (-c) * q >= (m + 1) * q
    BY <2>1
  <2>2. (-c) * q = -(c * q)
    OBVIOUS
  <2> QED BY <1>1, <2>1, <2>2
<1> QED BY <1>2, <1>3

(* The sizes of the bytes, and what the assumption says of them.           *)
LEMMA MostFacts ==
  ASSUME OrderAssumption
  PROVE  LET q == PowersOf(BYTE)[SPAN]
             r == BYTES * (BYTE - 1) + 1
             f == Times * LowOrder * MOST
             g == Times * LowOrder * (2 * MOST)
         IN  /\ q \in Nat /\ q > 0 /\ r \in Nat /\ f \in Nat /\ g \in Nat
             /\ MOST \in Nat /\ MOST = (BYTE - 1) * r
             /\ (r + 1) * q + f <= MOST * q
             /\ TAKEN \in Nat /\ TAKEN = MOST + g
             /\ LEFT \in Nat /\ LEFT = HALF + 2 + TAKEN \div q /\ TAKEN \div q \in Nat
             /\ LEFT <= 2 * MOST
<1> DEFINE b == BYTE
           n == BYTES
           q == PowersOf(b)[SPAN]
           r == n * (b - 1) + 1
           M1 == MOST
           t == Times * LowOrder
           f == t * M1
           g == t * (2 * M1)
<1>1. /\ b \in Nat /\ b > 1 /\ n \in Nat /\ SPAN \in Nat /\ Times \in Nat /\ LowOrder \in Nat
      /\ HALF \in Nat
  BY OrderFacts
<1>2. /\ (n * (b - 1) + 2) * q + t * M1 <= M1 * q /\ LEFT <= 2 * M1
  BY DEF OrderAssumption
<1>3. q \in Nat /\ q > 0
  <2> HIDE DEF b
  <2>1. b > 0
    BY <1>1
  <2> QED BY <1>1, <2>1, PowersFacts
<1>4. M1 = n * (b - 1) * (b - 1) + b - 1
  BY DEF MOST
<1> DEFINE c == b - 1
           d == n * c
<1>5. c \in Nat /\ d \in Nat
  <2> HIDE DEF n
  <2>1. c \in Nat
    BY <1>1
  <2> HIDE DEF c
  <2> QED BY <1>1, <2>1
<1>6. M1 = d * c + c
  <2>1. M1 = d * c + b - 1
    BY <1>4, Zenon
  <2> HIDE DEF d, M1
  <2>2. d * c \in Nat
    <3> HIDE DEF c
    <3> QED BY <1>5
  <2> DEFINE z == d * c
  <2>3. z + b - 1 = z + c
    <3> HIDE DEF z
    <3> QED BY <1>1, <2>2 DEF z
  <2> QED BY <2>1, <2>3
<1>7. M1 \in Nat /\ M1 = c * (d + 1)
  <2> HIDE DEF c, d, M1
  <2> QED BY <1>5, <1>6
<1>8. t \in Nat /\ f \in Nat /\ g \in Nat
  <2> HIDE DEF M1
  <2>1. t \in Nat
    BY <1>1
  <2> HIDE DEF t
  <2>2. t * M1 \in Nat /\ 2 * M1 \in Nat
    BY <1>7, <2>1
  <2>3. t * (2 * M1) \in Nat
    BY <2>1, <2>2
  <2> QED BY <2>1, <2>2, <2>3
<1>9. TAKEN = M1 + g /\ TAKEN \in Nat
  <2>1. TAKEN = M1 + t * 2 * M1
    BY Zenon DEF TAKEN
  <2> HIDE DEF t, M1
  <2>2. t * 2 * M1 = t * (2 * M1)
    BY <1>7, <1>8
  <2>3. TAKEN = M1 + g
    BY <2>1, <2>2
  <2> HIDE DEF g
  <2> QED BY <1>7, <1>8, <2>3
<1>10. TAKEN \div q \in Nat /\ LEFT = HALF + 2 + TAKEN \div q
  <2>1. LEFT = HALF + 2 + TAKEN \div q
    BY Zenon DEF LEFT, HALF
  <2>2. TAKEN \div q \in Nat
    <3> DEFINE x == TAKEN
    <3>1. x \in Nat
      BY <1>9
    <3> HIDE DEF x, q
    <3> QED BY <1>3, <3>1, Division DEF x
  <2> QED BY <2>1, <2>2
<1>11. LEFT \in Nat
  BY <1>1, <1>10
<1>12. (r + 1) * q + f <= M1 * q /\ r \in Nat /\ r = d + 1
  <2>1. r = d + 1
    OBVIOUS
  <2> HIDE DEF d, q, f, M1
  <2>2. (d + 2) * q + f <= M1 * q
    BY <1>2 DEF d, f
  <2>3. (d + 1) + 1 = d + 2
    BY <1>5
  <2> HIDE DEF r
  <2>4. r + 1 = d + 2 /\ r \in Nat
    BY <1>5, <2>1
  <2> QED BY <2>1, <2>2, <2>4
<1> HIDE DEF M1
<1>13. M1 = (b - 1) * r
  BY <1>7, <1>12, Zenon DEF c
<1> QED BY <1>2, <1>3, <1>7, <1>8, <1>9, <1>10, <1>11, <1>12, <1>13, Zenon DEF M1, q, f, g, r, n, b

(* The first time no byte is larger than MOST, ...                         *)
LEMMA FirstCarry ==
  ASSUME OrderAssumption, NEW x \in Long, NEW low \in 0..(BYTES - 1), NEW top \in Int,
         NEW z, NEW c, IsLessened(z, c, x, low, top), AreWithin(Window(x, low), MOST, SPAN),
         -MOST <= top, top <= MOST
  PROVE  c[SPAN] \in Int /\ -MOST <= c[SPAN] /\ c[SPAN] <= MOST
<1> DEFINE q == PowersOf(BYTE)[SPAN]
           r == BYTES * (BYTE - 1) + 1
           f == Times * LowOrder * MOST
           V == r * (q - 1)
           d == Window(x, low)
           dw == Worth(d, BYTE, SPAN)
           t == V + f + (q - 1)
           e == c[SPAN]
<1>1. /\ q \in Nat /\ q > 0 /\ r \in Nat /\ f \in Nat /\ MOST \in Nat
      /\ MOST = (BYTE - 1) * r /\ (r + 1) * q + f <= MOST * q
  BY MostFacts
<1>2. BYTE \in Nat /\ BYTE > 0 /\ SPAN \in Nat
  BY OrderFacts
<1> HIDE DEF d, r, f
<1>3. -V <= dw /\ dw <= V
  <2>1. AreWithin(d, (BYTE - 1) * r, SPAN)
    BY <1>1, Zenon DEF d
  <2> QED BY <1>1, <1>2, <2>1, WorthLimits
<1>4. V \in Nat
  <2> HIDE DEF q
  <2>1. q - 1 \in Nat
    BY <1>1
  <2> QED BY <1>1, <2>1
<1>5. e \in Int /\ -t <= e * q /\ e * q <= t /\ t \in Nat
  <2> HIDE DEF V
  <2>1. -V <= Worth(Window(x, low), BYTE, SPAN) /\ Worth(Window(x, low), BYTE, SPAN) <= V
    BY <1>3 DEF d
  <2>2. MOST \in Nat
    BY <1>1
  <2> QED BY <1>4, <2>1, <2>2, CarryOut DEF f
<1>6. t < (MOST + 1) * q
  <2> DEFINE o == MOST
  <2>0. o \in Nat /\ (r + 1) * q + f <= o * q
    BY <1>1
  <2> HIDE DEF q, o
  <2>1. (o + 1) * q = o * q + q /\ (r + 1) * q = r * q + q /\ r * (q - 1) = r * q - r
        /\ o * q \in Nat /\ r * q \in Nat
    BY <1>1, <2>0
  <2> DEFINE u == r * q
             v == o * q
             v1 == (o + 1) * q
             u1 == (r + 1) * q
  <2>2. /\ v1 = v + q /\ u1 = u + q /\ V = u - r /\ u1 + f <= v /\ u \in Nat /\ v \in Nat
    BY <2>0, <2>1
  <2> HIDE DEF u, v, u1, v1, V
  <2>3. t < v1
    BY <1>1, <2>2
  <2> QED BY <2>3 DEF v1, o
<1> HIDE DEF t, q, e
<1>7. -MOST <= e /\ e <= MOST
  BY <1>1, <1>5, <1>6, QuotientWithin
<1> QED BY <1>5, <1>7 DEF e

(* ... and later only the lowest of those that are lessened.               *)
LEMMA LaterCarry ==
  ASSUME OrderAssumption, NEW x \in Long, NEW low \in 0..(BYTES - 1), NEW top \in Int,
         NEW z, NEW c, IsLessened(z, c, x, low, top),
         -MOST <= x[low + 1], x[low + 1] <= MOST,
         \A k \in 2..SPAN : -HALF <= x[low + k] /\ x[low + k] <= HALF,
         -(2 * MOST) <= top, top <= 2 * MOST
  PROVE  c[SPAN] \in Int /\ -(LEFT - HALF) <= c[SPAN] /\ c[SPAN] <= LEFT - HALF
<1> DEFINE b == BYTE
           s == SPAN
           q == PowersOf(b)[s]
           g == Times * LowOrder * (2 * MOST)
           V == MOST + (q - 1)
           d == Window(x, low)
           d0 == [k \in 1..s |-> IF k = 1 THEN 0 ELSE d[k]]
           dw == Worth(d, b, s)
           t == V + g + (q - 1)
           e == c[s]
           m == 2 + TAKEN \div q
<1>1. /\ q \in Nat /\ q > 0 /\ g \in Nat /\ MOST \in Nat /\ TAKEN \in Nat /\ TAKEN = MOST + g
      /\ LEFT = HALF + 2 + TAKEN \div q /\ TAKEN \div q \in Nat
  BY MostFacts
<1>2. /\ b \in Nat /\ b > 1 /\ b > 0 /\ s \in Nat /\ s > 0 /\ BYTES \in Nat /\ s < BYTES
      /\ HALF \in Nat /\ HALF > 0 /\ b = 2 * HALF
  BY OrderFacts
<1>3. \A k \in 1..s : d[k] = x[low + k] /\ d[k] \in Int
  <2>1. ASSUME NEW k \in 1..s PROVE d[k] = x[low + k] /\ d[k] \in Int
    <3>1. low + k \in 1..(2 * BYTES)
      BY <1>2
    <3> QED BY <3>1 DEF Window, Long
  <2> QED BY <2>1
<1>4. 1 \in 1..s /\ d[1] = x[low + 1] /\ d[1] \in Int
  BY <1>2, <1>3
<1> HIDE DEF d, b, s, q
<1>5. IsInts(d, s) /\ IsInts(d0, s) /\ d0[1] = 0 /\ \A k \in 1..s : k # 1 => d0[k] = d[k]
  BY <1>2, <1>3, <1>4 DEF IsInts
<1>6. AreWithin(d0, (b - 1) * 1, s)
  <2>1. (b - 1) * 1 = b - 1 /\ HALF <= b - 1
    BY <1>2
  <2>2. ASSUME NEW k \in 1..s PROVE d0[k] \in Int /\ -(b - 1) <= d0[k] /\ d0[k] <= b - 1
    <3>1. CASE k = 1
      BY <1>2, <1>5, <3>1
    <3>2. CASE k # 1
      <4> DEFINE u == d[k]
      <4>1. k \in 2..s
        BY <1>2, <3>2
      <4>2. d0[k] = u /\ u \in Int /\ -HALF <= u /\ u <= HALF
        <5>1. -HALF <= x[low + k] /\ x[low + k] <= HALF
          BY <4>1 DEF s
        <5> QED BY <1>3, <1>5, <3>2, <5>1
      <4> HIDE DEF u, d0
      <4> QED BY <1>2, <2>1, <4>2
    <3> QED BY <3>1, <3>2
  <2> HIDE DEF d0
  <2> QED BY <2>1, <2>2, Zenon DEF AreWithin
<1> HIDE DEF d0
<1> DEFINE dw0 == Worth(d0, b, s)
<1>7. dw0 \in Int /\ -(q - 1) <= dw0 /\ dw0 <= q - 1
  <2>1. 1 \in Nat
    OBVIOUS
  <2>2. dw0 \in Int /\ -(1 * (PowersOf(b)[s] - 1)) <= dw0 /\ dw0 <= 1 * (PowersOf(b)[s] - 1)
    BY <1>2, <1>6, <2>1, WorthLimits
  <2>3. 1 * (q - 1) = q - 1
    BY <1>1
  <2> QED BY <2>2, <2>3, Zenon DEF q
<1>8. dw = dw0 + d[1]
  <2>1. Worth(d, b, s) = Worth(d0, b, s) + (d[1] - d0[1]) * PowersOf(b)[1 - 1]
    <3>1. \A k \in 1..s : k # 1 => d[k] = d0[k]
      BY <1>5
    <3> QED BY <1>2, <1>4, <1>5, <3>1, WorthExcept
  <2>2. PowersOf(b)[1 - 1] = 1
    <3>1. 1 - 1 = 0 /\ PowersOf(b)[0] = 1
      BY <1>2, PowersFacts
    <3> QED BY <3>1
  <2>3. (d[1] - d0[1]) * 1 = d[1]
    BY <1>4, <1>5
  <2> QED BY <2>1, <2>2, <2>3
<1>9. -V <= dw /\ dw <= V /\ V \in Nat
  <2> DEFINE u == d[1]
  <2>1. u \in Int /\ -MOST <= u /\ u <= MOST
    BY <1>4
  <2> HIDE DEF u, dw0, dw
  <2>2. dw = dw0 + u
    BY <1>8 DEF u, dw, dw0
  <2> QED BY <1>1, <1>7, <2>1, <2>2
<1> HIDE DEF V, g
<1>10. e \in Int /\ -t <= e * q /\ e * q <= t /\ t \in Nat
  <2>1. -V <= Worth(Window(x, low), BYTE, SPAN) /\ Worth(Window(x, low), BYTE, SPAN) <= V
    BY <1>9 DEF d, b, s
  <2>2. 2 * MOST \in Nat
    BY <1>1
  <2> QED BY <1>9, <2>1, <2>2, CarryOut DEF g, b, s, q
<1>11. m \in Nat /\ t < (m + 1) * q
  <2> DEFINE o == TAKEN
             k == o \div q
  <2>1. o \in Nat /\ o = MOST + g
    BY <1>1
  <2>2. PICK h \in Nat, v \in 0..(q - 1) : o = h * q + v /\ o \div q = h
    <3> HIDE DEF o
    <3> QED BY <1>1, <2>1, Division
  <2>3. m = 2 + h
    BY <2>2
  <2> DEFINE w == h * q
  <2>4. (2 + h + 1) * q = w + 3 * q /\ w \in Nat
    BY <1>1
  <2>5. t = MOST + (q - 1) + g + (q - 1)
    BY DEF V
  <2>6. o = w + v
    BY <2>2
  <2> HIDE DEF o, m, t, w
  <2>7. t < w + 3 * q
    BY <1>1, <2>1, <2>2, <2>4, <2>5, <2>6
  <2> QED BY <2>2, <2>3, <2>4, <2>7
<1>12. LEFT - HALF = m
  <2> DEFINE k == TAKEN \div q
  <2>1. LEFT = HALF + 2 + k /\ k \in Nat
    BY <1>1
  <2> HIDE DEF k
  <2>2. LEFT - HALF = 2 + k
    BY <1>2, <2>1
  <2> QED BY <2>2 DEF k
<1> HIDE DEF t, e, m
<1>13. -m <= e /\ e <= m
  BY <1>1, <1>10, <1>11, QuotientWithin
<1> QED BY <1>10, <1>12, <1>13 DEF e, s

(* The size of the byte m after k turns: those above the last 2 BYTES - k  *)
(* are gone, those below BYTES - k are as they were, the next were carried *)
(* in the last turn, and of the others all but the largest were carried    *)
(* before and have been given one carry since.                             *)
Size(k, m) ==
  IF m > 2 * BYTES - k THEN 0
  ELSE IF k = 0 \/ m <= BYTES - k THEN MOST
  ELSE IF m <= BYTES - k + SPAN THEN HALF
  ELSE IF m < BYTES + SPAN THEN LEFT
  ELSE 2 * MOST

IsSmall(x, k) ==
  x \in Long /\ \A m \in 1..(2 * BYTES) : -Size(k, m) <= x[m] /\ x[m] <= Size(k, m)

LEMMA TurnKeeps ==
  ASSUME OrderAssumption, NEW k \in Nat, k < BYTES, NEW x, IsSmall(x, k)
  PROVE  LET y == TakeAway(x, 2 * BYTES - k)
         IN  /\ IsSmall(y, k + 1)
             /\ Congruent(Worth(y, BYTE, 2 * BYTES), Worth(x, BYTE, 2 * BYTES), Order)
<1> DEFINE n == BYTES
           s == SPAN
           i == 2 * n - k
           low == i - n - 1
           y == TakeAway(x, i)
           top == x[i]
<1>1. /\ n \in Nat /\ s \in Nat /\ s > 0 /\ s < n /\ HALF \in Nat /\ k < n
  BY OrderFacts
<1>2. MOST \in Nat /\ LEFT \in Nat /\ LEFT <= 2 * MOST /\ HALF <= LEFT
  <2> DEFINE a == TAKEN \div PowersOf(BYTE)[SPAN]
  <2>1. MOST \in Nat /\ LEFT \in Nat /\ LEFT <= 2 * MOST /\ LEFT = HALF + 2 + a /\ a \in Nat
    BY MostFacts
  <2> HIDE DEF a
  <2> QED BY <1>1, <2>1
<1>3. x \in Long /\ \A m \in 1..(2 * n) : x[m] \in Int
  BY DEF IsSmall, Long
<1>4. /\ i \in (n + 1)..(2 * n) /\ i \in 1..(2 * n) /\ low = n - k - 1 /\ low \in 0..(n - 1)
      /\ low \in Nat
  <2> HIDE DEF n
  <2> QED BY <1>1
<1>5. PICK z, c : /\ IsLessened(z, c, x, i - BYTES - 1, x[i])
                  /\ IsTakenAway(y, x, i, c[SPAN]) /\ c[SPAN] \in Int
                  /\ Congruent(Worth(y, BYTE, 2 * BYTES), Worth(x, BYTE, 2 * BYTES), Order)
  <2> HIDE DEF i
  <2>1. i \in (BYTES + 1)..(2 * BYTES)
    BY <1>4
  <2> QED BY <1>3, <2>1, TakeAwayIs
<1> DEFINE e == c[s]
<1>6. /\ y \in Long /\ y[i] = 0 /\ y[low + s + 1] = x[low + s + 1] + e
      /\ \A j \in 1..s : -HALF <= y[low + j] /\ y[low + j] <= HALF
      /\ \A m \in 1..(2 * n) : m \notin (low + 1)..(low + s + 1) /\ m # i => y[m] = x[m]
  BY <1>5, Zenon DEF IsTakenAway
<1> HIDE DEF y, n, s
<1>7. \A m \in 1..(2 * n) : -Size(k, m) <= x[m] /\ x[m] <= Size(k, m)
  BY DEF IsSmall, n
<1>8. -(2 * MOST) <= top /\ top <= 2 * MOST /\ (k = 0 => -MOST <= top /\ top <= MOST)
  <2>1. -Size(k, i) <= top /\ top <= Size(k, i)
    BY <1>4, <1>7
  <2>2. Size(k, i) \in Nat /\ Size(k, i) <= 2 * MOST /\ (k = 0 => Size(k, i) = MOST)
    BY <1>1, <1>2, <1>4 DEF Size, n, s
  <2>3. top \in Int
    BY <1>3, <1>4
  <2> HIDE DEF top
  <2> DEFINE o == Size(k, i)
  <2> HIDE DEF o
  <2>4. o \in Nat /\ o <= 2 * MOST /\ (k = 0 => o = MOST) /\ -o <= top /\ top <= o
    BY <2>1, <2>2 DEF o
  <2> QED BY <1>2, <2>3, <2>4
<1>9. CASE k = 0
  <2>1. AreWithin(Window(x, low), MOST, s)
    <3>1. ASSUME NEW j \in 1..s
          PROVE  /\ Window(x, low)[j] \in Int
                 /\ -MOST <= Window(x, low)[j] /\ Window(x, low)[j] <= MOST
      <4>1. low + j \in 1..(2 * n)
        BY <1>1, <1>4
      <4>2. Size(k, low + j) = MOST
        BY <1>1, <1>4, <1>9, <4>1 DEF Size, n
      <4>3. Window(x, low)[j] = x[low + j]
        BY DEF Window, s
      <4> QED BY <1>3, <1>7, <4>1, <4>2, <4>3
    <3> QED BY <3>1 DEF AreWithin
  <2>2. e \in Int /\ -MOST <= e /\ e <= MOST
    <3>1. top \in Int /\ -MOST <= top /\ top <= MOST
      BY <1>3, <1>4, <1>8, <1>9
    <3>2. IsLessened(z, c, x, low, top) /\ low \in 0..(BYTES - 1)
      BY <1>4, <1>5, Zenon DEF low, n
    <3>3. AreWithin(Window(x, low), MOST, SPAN)
      BY <2>1 DEF s
    <3> HIDE DEF low, top
    <3> QED BY <1>3, <3>1, <3>2, <3>3, FirstCarry DEF s
  <2>3. ASSUME NEW m \in 1..(2 * n) PROVE -Size(k + 1, m) <= y[m] /\ y[m] <= Size(k + 1, m)
    <3>1. x[m] \in Int /\ -Size(0, m) <= x[m] /\ x[m] <= Size(0, m) /\ Size(0, m) = MOST
      <4>1. Size(0, m) = MOST
        BY <1>1 DEF Size, n
      <4> QED BY <1>3, <1>7, <1>9, <4>1
    <3>2. CASE m = i
      <4>1. Size(k + 1, m) = 0 /\ y[m] = 0
        BY <1>1, <1>4, <1>6, <1>9, <3>2 DEF Size, n
      <4> QED BY <4>1
    <3>3. CASE m \in (low + 1)..(low + s)
      <4> DEFINE j == m - low
      <4>1. j \in 1..s /\ low + j = m
        BY <1>1, <1>4, <3>3
      <4>2. -HALF <= y[m] /\ y[m] <= HALF
        <5> HIDE DEF j
        <5> QED BY <1>6, <4>1
      <4>3. Size(k + 1, m) = HALF
        BY <1>1, <1>4, <1>9, <3>3 DEF Size, n, s
      <4> QED BY <4>2, <4>3
    <3>4. CASE m = low + s + 1
      <4>1. y[m] = x[m] + e
        BY <1>6, <3>4
      <4>2. Size(k + 1, m) = 2 * MOST
        BY <1>1, <1>4, <1>9, <3>4 DEF Size, n, s
      <4> DEFINE u == x[m]
      <4>3. u \in Int /\ -MOST <= u /\ u <= MOST
        BY <3>1
      <4> HIDE DEF u, e
      <4>4. -(2 * MOST) <= u + e /\ u + e <= 2 * MOST
        BY <1>2, <2>2, <4>3
      <4> QED BY <4>1, <4>2, <4>4 DEF u
    <3>5. CASE m \notin (low + 1)..(low + s + 1) /\ m # i
      <4>1. y[m] = x[m]
        BY <1>6, <3>5
      <4>2. Size(k + 1, m) = MOST \/ Size(k + 1, m) = 2 * MOST
        BY <1>1, <1>4, <1>9, <3>5 DEF Size, n, s
      <4> DEFINE u == x[m]
      <4>3. u \in Int /\ -MOST <= u /\ u <= MOST
        BY <3>1
      <4> HIDE DEF u
      <4>4. -(2 * MOST) <= u /\ u <= 2 * MOST
        BY <1>2, <4>3
      <4> QED BY <4>1, <4>2, <4>3, <4>4 DEF u
    <3>6. m = i \/ m \in (low + 1)..(low + s) \/ m = low + s + 1
          \/ (m \notin (low + 1)..(low + s + 1) /\ m # i)
      BY <1>1, <1>4
    <3> QED BY <3>2, <3>3, <3>4, <3>5, <3>6
  <2>4. IsSmall(y, k + 1)
    BY <1>6, <2>3, Zenon DEF IsSmall, n
  <2> QED BY <1>5, <2>4 DEF y, n
<1>10. CASE k # 0
  <2>1. -MOST <= x[low + 1] /\ x[low + 1] <= MOST
    <3>1. low + 1 \in 1..(2 * n)
      BY <1>1, <1>4
    <3>2. Size(k, low + 1) = MOST
      BY <1>1, <1>4, <3>1 DEF Size, n
    <3> QED BY <1>7, <3>1, <3>2
  <2>2. \A j \in 2..s : -HALF <= x[low + j] /\ x[low + j] <= HALF
    <3>1. ASSUME NEW j \in 2..s PROVE -HALF <= x[low + j] /\ x[low + j] <= HALF
      <4>1. low + j \in 1..(2 * n)
        BY <1>1, <1>4
      <4>2. Size(k, low + j) = HALF
        BY <1>1, <1>4, <1>10, <4>1 DEF Size, n, s
      <4> QED BY <1>7, <4>1, <4>2
    <3> QED BY <3>1
  <2>3. e \in Int /\ -(LEFT - HALF) <= e /\ e <= LEFT - HALF
    <3>1. top \in Int
      BY <1>3, <1>4
    <3>2. IsLessened(z, c, x, low, top) /\ low \in 0..(BYTES - 1)
      BY <1>4, <1>5, Zenon DEF low, n
    <3>3. \A j \in 2..SPAN : -HALF <= x[low + j] /\ x[low + j] <= HALF
      BY <2>2 DEF s
    <3> HIDE DEF low, top
    <3> QED BY <1>3, <1>8, <2>1, <3>1, <3>2, <3>3, LaterCarry DEF s
  <2>4. ASSUME NEW m \in 1..(2 * n) PROVE -Size(k + 1, m) <= y[m] /\ y[m] <= Size(k + 1, m)
    <3>1. x[m] \in Int /\ -Size(k, m) <= x[m] /\ x[m] <= Size(k, m)
      BY <1>3, <1>7
    <3>2. CASE m = i
      <4>1. Size(k + 1, m) = 0 /\ y[m] = 0
        BY <1>1, <1>4, <1>6, <3>2 DEF Size, n
      <4> QED BY <4>1
    <3>3. CASE m \in (low + 1)..(low + s)
      <4> DEFINE j == m - low
      <4>1. j \in 1..s /\ low + j = m
        BY <1>1, <1>4, <3>3
      <4>2. -HALF <= y[m] /\ y[m] <= HALF
        <5> HIDE DEF j
        <5> QED BY <1>6, <4>1
      <4>3. Size(k + 1, m) = HALF
        BY <1>1, <1>4, <3>3 DEF Size, n, s
      <4> QED BY <4>2, <4>3
    <3>4. CASE m = low + s + 1
      <4>1. y[m] = x[m] + e
        BY <1>6, <3>4
      <4>2. Size(k + 1, m) = LEFT /\ Size(k, m) = HALF
        BY <1>1, <1>4, <1>10, <3>4 DEF Size, n, s
      <4> DEFINE u == x[m]
      <4>3. u \in Int /\ -HALF <= u /\ u <= HALF
        BY <3>1, <4>2
      <4> HIDE DEF u, e
      <4>4. -LEFT <= u + e /\ u + e <= LEFT
        BY <1>1, <1>2, <2>3, <4>3
      <4> QED BY <4>1, <4>2, <4>4 DEF u
    <3>5. CASE m \notin (low + 1)..(low + s + 1) /\ m # i
      <4>1. y[m] = x[m]
        BY <1>6, <3>5
      <4>2. Size(k + 1, m) = Size(k, m)
        BY <1>1, <1>4, <1>10, <3>5 DEF Size, n, s
      <4> QED BY <3>1, <4>1, <4>2
    <3>6. m = i \/ m \in (low + 1)..(low + s) \/ m = low + s + 1
          \/ (m \notin (low + 1)..(low + s + 1) /\ m # i)
      BY <1>1, <1>4
    <3> QED BY <3>2, <3>3, <3>4, <3>5, <3>6
  <2>5. IsSmall(y, k + 1)
    BY <1>6, <2>4, Zenon DEF IsSmall, n
  <2> QED BY <1>5, <2>5 DEF y, n
<1> QED BY <1>9, <1>10

(* The numbers after each of the bytes that are taken away.                *)
TakenRuns(g, x0) ==
  /\ g \in [Nat -> Long] /\ g[0] = x0
  /\ \A k \in Nat : k < BYTES => g[k + 1] = TakeAway(g[k], 2 * BYTES + 1 - (k + 1))

TakenRunsTo(out, x0) == \E g : TakenRuns(g, x0) /\ out = g[BYTES]

AllTaken(x0) ==
  LET Turn(x, k) == TakeAway(x, 2 * BYTES + 1 - k)
  IN  Loop(Long, Turn, x0, BYTES)

LEMMA TakenLoopRuns ==
  ASSUME OrderAssumption, NEW x0 \in Long
  PROVE  TakenRunsTo(AllTaken(x0), x0)
<1> DEFINE Turned(s, i) == TakeAway(s, 2 * BYTES + 1 - i)
           T == Long
           N == BYTES
           step == [p \in T \X Nat |->
                      IF p[2] > 0 /\ p[2] <= N THEN Turned(p[1], p[2]) ELSE p[1]]
           first == x0
           K == 1..(N + 1)
           Is(run) == run = [p \in T \X K |->
                               IF p[2] > N THEN p[1]
                               ELSE run[<<Turned(p[1], p[2]), p[2] + 1>>]]
           chosen == CHOOSE run : Is(run)
<1>1. N \in Nat
  BY OrderFacts
<1>2. first \in T
  OBVIOUS
<1>3. ASSUME NEW s \in T, NEW i \in Nat, i > 0, i <= N PROVE Turned(s, i) \in T
  <2> DEFINE j == 2 * BYTES + 1 - i
  <2>1. j \in (BYTES + 1)..(2 * BYTES) /\ s \in Long
    BY <1>1, <1>3
  <2> HIDE DEF j
  <2>2. \E z, c : IsTakenAway(TakeAway(s, j), s, j, c[SPAN])
    BY <2>1, TakeAwayIs, Zenon
  <2>3. TakeAway(s, j) \in Long
    BY <2>2, Zenon DEF IsTakenAway
  <2> QED BY <2>3 DEF j
<1>4. AllTaken(x0) = chosen[<<first, 1>>]
  BY Zenon DEF AllTaken, Loop, Turned, T, N, first, K
<1> HIDE DEF Turned, T, N
<1>5. /\ step \in [T \X Nat -> T]
      /\ \A s \in T : \A i \in Nat : i > 0 /\ i <= N => step[<<s, i>>] = Turned(s, i)
  BY <1>3
<1> HIDE DEF step, first
<1>6. ASSUME NEW p \in T \X K, ~(p[2] > N)
      PROVE  step[<<p[1], p[2]>>] = Turned(p[1], p[2])
  <2>1. p[1] \in T /\ p[2] \in Nat /\ p[2] > 0 /\ p[2] <= N
    BY <1>1, <1>6
  <2> QED BY <1>5, <2>1
<1>7. ASSUME NEW run, IsLoop(run, T, N, step) PROVE Is(run)
  <2>1. run = [p \in T \X K |->
                 IF p[2] > N THEN p[1] ELSE run[<<step[<<p[1], p[2]>>], p[2] + 1>>]]
    BY <1>7 DEF IsLoop
  <2> HIDE DEF K
  <2> QED BY <1>6, <2>1
<1>8. ASSUME NEW run, Is(run) PROVE IsLoop(run, T, N, step)
  <2>1. run = [p \in T \X K |->
                 IF p[2] > N THEN p[1] ELSE run[<<step[<<p[1], p[2]>>], p[2] + 1>>]]
    <3>1. run = [p \in T \X K |->
                   IF p[2] > N THEN p[1] ELSE run[<<Turned(p[1], p[2]), p[2] + 1>>]]
      BY <1>8
    <3> HIDE DEF K
    <3> QED BY <1>6, <3>1
  <2> QED BY <2>1 DEF IsLoop
<1>9. Is(chosen)
  <2>1. \E run : IsLoop(run, T, N, step)
    BY <1>1, <1>5, LoopExists
  <2>2. PICK run : IsLoop(run, T, N, step)
    BY <2>1
  <2>3. Is(run)
    BY <1>7, <2>2
  <2> HIDE DEF Is
  <2> QED BY <2>3, Zenon
<1> HIDE DEF chosen
<1>10. IsLoop(chosen, T, N, step)
  <2> HIDE DEF Is
  <2> QED BY <1>8, <1>9
<1>11. EndsIn(chosen[<<first, 1>>], T, first, N, step)
  <2> HIDE DEF Is, K
  <2> QED BY <1>1, <1>2, <1>5, <1>10, LoopTurns
<1>12. PICK g : Advances(g, T, first, step) /\ chosen[<<first, 1>>] = g[N]
  BY <1>11, Zenon DEF EndsIn
<1>13. /\ g \in [Nat -> T] /\ g[0] = first
       /\ \A i \in Nat : g[i + 1] = step[<<g[i], i + 1>>]
  BY <1>12 DEF Advances
<1>14. ASSUME NEW i \in Nat, i < N PROVE g[i + 1] = Turned(g[i], i + 1)
  <2>1. i + 1 \in Nat /\ i + 1 > 0 /\ i + 1 <= N /\ g[i] \in T
    BY <1>1, <1>13, <1>14
  <2> QED BY <1>5, <1>13, <2>1
<1>15. TakenRuns(g, x0)
  BY <1>13, <1>14, Zenon DEF TakenRuns, Turned, T, N, first
<1>16. AllTaken(x0) = g[N]
  BY <1>4, <1>12, Zenon
<1> QED BY <1>15, <1>16, Zenon DEF TakenRunsTo, N

(* What is left in the low half: bytes that are small, and a number that   *)
(* differs by a multiple of the order.                                     *)
IsLeft(v, x0) ==
  /\ v \in [1..BYTES -> Int] /\ IsInts(v, BYTES) /\ AreWithin(v, HALF, SPAN)
  /\ \A k \in (SPAN + 1)..BYTES : v[k] \in Int /\ -LEFT <= v[k] /\ v[k] <= LEFT
  /\ Congruent(Worth(v, BYTE, BYTES), Worth(x0, BYTE, 2 * BYTES), Order)

LEMMA TakenFacts ==
  ASSUME OrderAssumption, NEW x0 \in [1..(2 * BYTES) -> 0..MOST]
  PROVE  IsLeft(Taken(x0), x0)
<1> DEFINE n == BYTES
           nn == 2 * n
           b == BYTE
           s == SPAN
           W(x) == Worth(x, b, nn)
<1>1. /\ n \in Nat /\ n > 1 /\ nn \in Nat /\ n < nn /\ nn = 2 * n /\ s \in Nat /\ s > 0 /\ s < n
      /\ b \in Nat /\ b > 0 /\ HALF \in Nat /\ Order \in Nat /\ MOST \in Nat /\ LEFT \in Nat
  <2>1. n \in Nat /\ n > 1
    BY OrderFacts
  <2>2. nn \in Nat /\ n < nn
    <3> HIDE DEF n
    <3> QED BY <2>1
  <2> QED BY <2>1, <2>2, OrderFacts, MostFacts
<1>2. x0 \in Long
  BY <1>1 DEF Long
<1>3. PICK g : TakenRuns(g, x0) /\ AllTaken(x0) = g[n]
  BY <1>2, TakenLoopRuns DEF TakenRunsTo
<1>4. /\ g \in [Nat -> Long] /\ g[0] = x0
      /\ \A k \in Nat : k < n => g[k + 1] = TakeAway(g[k], 2 * n + 1 - (k + 1))
  BY <1>3, Zenon DEF TakenRuns
<1>5. \A k \in Nat : g[k] \in Long /\ IsInts(g[k], nn) /\ W(g[k]) \in Int
  <2>1. ASSUME NEW k \in Nat PROVE g[k] \in Long /\ IsInts(g[k], nn) /\ W(g[k]) \in Int
    <3>1. g[k] \in Long
      BY <1>4
    <3>2. IsInts(g[k], nn)
      BY <3>1 DEF Long, IsInts
    <3> HIDE DEF nn, b
    <3>3. W(g[k]) \in Int
      BY <1>1, <3>2, WorthIsInt
    <3> QED BY <3>1, <3>2, <3>3
  <2> QED BY <2>1
<1> DEFINE Good(k) == IsSmall(g[k], k) /\ Congruent(W(g[k]), W(x0), Order)
           G == {k \in Nat : k <= n => Good(k)}
<1>6. 0 \in G
  <2>1. IsSmall(x0, 0)
    <3>1. ASSUME NEW m \in 1..(2 * n) PROVE -Size(0, m) <= x0[m] /\ x0[m] <= Size(0, m)
      <4>1. Size(0, m) = MOST
        BY <1>1 DEF Size
      <4>2. x0[m] \in 0..MOST
        OBVIOUS
      <4> QED BY <1>1, <4>1, <4>2
    <3> QED BY <1>2, <3>1, Zenon DEF IsSmall
  <2>2. Congruent(W(x0), W(x0), Order)
    <3>1. W(x0) \in Int
      BY <1>4, <1>5
    <3> HIDE DEF W
    <3> QED BY <1>1, <3>1, CongruentSame
  <2> QED BY <1>4, <2>1, <2>2
<1>7. ASSUME NEW k \in Nat, k \in G PROVE k + 1 \in G
  <2>1. CASE k + 1 <= n
    <3>1. k < n /\ k <= n
      BY <1>1, <2>1
    <3>2. Good(k)
      BY <1>7, <3>1
    <3>3. 2 * n + 1 - (k + 1) = 2 * n - k
      BY <1>1
    <3>4. g[k + 1] = TakeAway(g[k], 2 * BYTES - k)
      BY <1>4, <3>1, <3>3
    <3>5. LET y == TakeAway(g[k], 2 * BYTES - k)
          IN  /\ IsSmall(y, k + 1)
              /\ Congruent(Worth(y, BYTE, 2 * BYTES), Worth(g[k], BYTE, 2 * BYTES), Order)
      BY <3>1, <3>2, TurnKeeps
    <3>6. IsSmall(g[k + 1], k + 1) /\ Congruent(W(g[k + 1]), W(g[k]), Order)
      BY <3>4, <3>5, Zenon
    <3>7. W(g[k + 1]) \in Int /\ W(g[k]) \in Int /\ W(x0) \in Int
      BY <1>4, <1>5
    <3> HIDE DEF W
    <3>8. Congruent(W(g[k + 1]), W(x0), Order)
      BY <1>1, <3>2, <3>6, <3>7, CongruentTrans
    <3> QED BY <3>6, <3>8
  <2>2. CASE ~(k + 1 <= n)
    BY <2>2
  <2> QED BY <2>1, <2>2
<1> HIDE DEF G
<1>8. Good(n)
  <2>1. n \in G
    BY <1>1, <1>6, <1>7, SetInduction
  <2> HIDE DEF Good
  <2> QED BY <1>1, <2>1 DEF G
<1> DEFINE y == g[n]
           v == Taken(x0)
<1>9. /\ y \in [1..nn -> Int] /\ IsInts(y, nn) /\ W(y) \in Int
      /\ Congruent(W(y), W(x0), Order)
      /\ \A m \in 1..nn : -Size(n, m) <= y[m] /\ y[m] <= Size(n, m)
  BY <1>1, <1>5, <1>8 DEF IsSmall, Long
<1>10. v = SubSeq(y, 1, n)
  BY <1>3, Zenon DEF Taken, AllTaken, Low
<1> HIDE DEF y, v, n, nn, b, s
<1>11. v \in [1..n -> Int] /\ \A m \in 1..n : v[m] = y[m]
  <2>1. y \in Seq(Int) /\ Len(y) = nn
    BY <1>1, <1>9, WholeArray
  <2>2. n \in 0..Len(y)
    BY <1>1, <2>1
  <2>3. /\ Take(y, n) \in Seq(Int) /\ Len(Take(y, n)) = n
        /\ \A i \in 1..n : Take(y, n)[i] = y[i]
    BY <2>1, <2>2, TakeDrop
  <2>4. v = Take(y, n)
    BY <1>10 DEF Take
  <2>5. v \in Seq(Int) /\ Len(v) = n /\ \A i \in 1..n : v[i] = y[i]
    BY <2>3, <2>4, Zenon
  <2> QED BY <1>1, <2>5
<1>12. IsInts(v, n)
  BY <1>11 DEF IsInts
<1>13. AreWithin(v, HALF, s)
  <2>1. ASSUME NEW m \in 1..s PROVE v[m] \in Int /\ -HALF <= v[m] /\ v[m] <= HALF
    <3>1. m \in 1..n /\ m \in 1..nn
      BY <1>1
    <3>2. Size(n, m) = HALF
      BY <1>1, <3>1 DEF Size, n, s
    <3>3. v[m] = y[m] /\ v[m] \in Int
      BY <1>11, <3>1
    <3> QED BY <1>9, <3>1, <3>2, <3>3
  <2> QED BY <2>1 DEF AreWithin
<1>14. ASSUME NEW m \in (s + 1)..n PROVE v[m] \in Int /\ -LEFT <= v[m] /\ v[m] <= LEFT
  <2>1. m \in 1..n /\ m \in 1..nn /\ m > s /\ m <= n
    BY <1>1
  <2>2. Size(n, m) = LEFT
    BY <1>1, <2>1 DEF Size, n, s
  <2>3. v[m] = y[m] /\ v[m] \in Int
    BY <1>11, <2>1
  <2> QED BY <1>9, <2>1, <2>2, <2>3
<1>15. Worth(v, b, n) = W(y)
  <2>1. ASSUME NEW m \in (n + 1)..nn PROVE y[m] = 0
    <3>1. m \in 1..nn /\ m > n
      BY <1>1
    <3>2. Size(n, m) = 0
      BY <1>1, <3>1 DEF Size, n
    <3>3. -Size(n, m) <= y[m] /\ y[m] <= Size(n, m) /\ y[m] \in Int
      BY <1>9, <3>1
    <3> QED BY <3>2, <3>3
  <2>2. n \in 0..nn
    BY <1>1
  <2>3. Worth(y, b, nn) = Worth(y, b, n)
    BY <1>1, <1>9, <2>1, <2>2, WorthZeros
  <2>4. IsInts(y, n)
    BY <1>1, <1>9 DEF IsInts
  <2>5. Worth(v, b, n) = Worth(y, b, n)
    BY <1>1, <1>11, <2>4, WorthSame
  <2> QED BY <2>3, <2>5
<1> HIDE DEF W
<1>16. Congruent(Worth(v, b, n), W(x0), Order)
  BY <1>9, <1>15
<1> QED BY <1>11, <1>12, <1>13, <1>14, <1>16, Zenon DEF IsLeft, n, s, b, W, nn, v

(* A multiple of the order is subtracted: the digits, and the carry that   *)
(* is left above them.                                                     *)
LEMMA LessIs ==
  ASSUME OrderAssumption, NEW x \in [1..BYTES -> Int], NEW times \in Int
  PROVE  LET v == Less(x, times)
             e == InBytes(v)
             c == v[BYTES] \div BYTE
         IN  /\ v \in [1..BYTES -> Int] /\ c \in Int
             /\ e \in [1..BYTES -> Int] /\ AreDigits(e, BYTE, BYTES)
             /\ Worth(e, BYTE, BYTES) + c * PowersOf(BYTE)[BYTES]
                  = Worth(x, BYTE, BYTES) - times * Order
<1> DEFINE n == BYTES
           b == BYTE
           d == [j \in 1..n |-> x[j] - times * L[j]]
           Is(u) == u = [j \in 1..BYTES |->
                           x[j] - times * L[j]
                             + (IF j = 1 THEN 0 ELSE u[j - 1] \div BYTE)]
           u == CHOOSE u : Is(u)
           v == Less(x, times)
           f == [j \in 1..n |-> u[j]]
           e == InBytes(v)
           r == [j \in 1..n |-> v[j] % b]
           p == PowersOf(b)[n]
<1>1. /\ n \in Nat /\ n > 0 /\ n \in 1..n /\ b \in Nat /\ b > 0 /\ IsInts(L, n) /\ Order \in Int
      /\ Order = Worth(L, b, n)
  <2>1. n \in Nat /\ n > 1
    BY OrderFacts
  <2>2. n > 0 /\ n \in 1..n
    <3> HIDE DEF n
    <3> QED BY <2>1
  <2> QED BY <2>1, <2>2, OrderFacts
<1>2. ASSUME NEW m PROVE Is(m) <=> IsCarryTo(m, d, 0, b, n)
  <2>1. \A j \in 1..n : d[j] = x[j] - times * L[j]
    OBVIOUS
  <2>2. [j \in 1..BYTES |->
           x[j] - times * L[j] + (IF j = 1 THEN 0 ELSE m[j - 1] \div BYTE)]
          = [j \in 1..n |-> d[j] + (IF j = 1 THEN 0 ELSE m[j - 1] \div b)]
    <3> HIDE DEF d
    <3> QED BY <2>1
  <2> QED BY <2>2, Zenon DEF IsCarryTo
<1>3. ASSUME NEW j \in 1..n
      PROVE  /\ x[j] \in Int /\ L[j] \in Int /\ d[j] \in Int
             /\ d[j] = x[j] + (-times) * L[j]
  <2> DEFINE a == x[j]
             l == L[j]
  <2>1. a \in Int /\ l \in Int
    BY <1>1 DEF IsInts
  <2>2. d[j] = a - times * l
    OBVIOUS
  <2> HIDE DEF a, l, d
  <2>3. a - times * l \in Int /\ a - times * l = a + (-times) * l
    BY <2>1
  <2> QED BY <2>1, <2>2, <2>3 DEF a, l
<1> HIDE DEF d, n, b
<1>4. IsInts(d, n) /\ IsInts(x, n)
  BY <1>3 DEF IsInts
<1>5. IsCarryTo(u, d, 0, b, n)
  <2>1. \E m : IsCarryTo(m, d, 0, b, n)
    BY <1>1, <1>4, CarryExists
  <2> HIDE DEF Is
  <2>2. \E m : Is(m)
    BY <1>2, <2>1, Zenon
  <2>3. Is(u)
    BY <2>2, Zenon
  <2> HIDE DEF u
  <2> QED BY <1>2, <2>3, Zenon
<1>6. v = SubSeq(f, 1, n)
  BY Zenon DEF Less, Array, n
<1> HIDE DEF u, v
<1>7. IsCarry(u, d, 0, b, n)
  <2>1. u = [j \in 1..n |-> d[j] + (IF j = 1 THEN 0 ELSE u[j - 1] \div b)]
    BY <1>5, Zenon DEF IsCarryTo
  <2>2. \A j \in 1..n : u[j] = d[j] + (IF j = 1 THEN 0 ELSE u[j - 1] \div b)
    BY <2>1, Zenon
  <2> QED BY <2>2, Zenon DEF IsCarry
<1>8. IsInts(u, n)
  BY <1>1, <1>4, <1>7, CarryIsInt
<1>9. f \in [1..n -> Int] /\ \A j \in 1..n : f[j] = u[j]
  BY <1>8 DEF IsInts
<1> HIDE DEF f
<1>10. v = f
  BY <1>1, <1>6, <1>9, WholeArray
<1>11. v \in [1..n -> Int] /\ \A j \in 1..n : v[j] = u[j]
  BY <1>9, <1>10
<1>12. \A j \in 1..n : r[j] = u[j] % b
  BY <1>11
<1>13. e = SubSeq(r, 1, n)
  BY Zenon DEF InBytes, Array, n, b
<1> HIDE DEF r, e
<1>14. AreRemainders(r, u, b, n)
  BY <1>12 DEF AreRemainders
<1>15. /\ AreDigits(r, b, n) /\ u[n] \div b \in Int
       /\ Worth(r, b, n) + (u[n] \div b) * PowersOf(b)[n] = Worth(d, b, n) + 0
  BY <1>1, <1>4, <1>7, <1>14, CarriedWorth
<1>16. r \in [1..n -> Int]
  <2>1. \A j \in 1..n : r[j] \in Int
    BY <1>1, <1>15 DEF AreDigits
  <2> QED BY <2>1 DEF r
<1>17. e = r
  BY <1>1, <1>13, <1>16, WholeArray
<1>18. Worth(d, b, n) = Worth(x, b, n) - times * Order
  <2> DEFINE k == -times
             X0 == Worth(x, b, n)
  <2>1. k \in Int
    OBVIOUS
  <2>2. IsAdded(d, x, k, L, n)
    BY <1>3 DEF IsAdded
  <2>3. X0 \in Int
    BY <1>1, <1>4, WorthIsInt
  <2>4. Worth(d, b, n) = X0 + k * Worth(L, b, n)
    <3> HIDE DEF k
    <3> QED BY <1>1, <1>4, <2>1, <2>2, WorthPlus
  <2> HIDE DEF X0
  <2>5. X0 + k * Order = X0 - times * Order
    BY <1>1, <2>3
  <2> QED BY <1>1, <2>4, <2>5 DEF X0
<1>19. v[n] = u[n]
  BY <1>1, <1>11
<1>20. Worth(d, b, n) \in Int
  BY <1>1, <1>4, WorthIsInt
<1>21. Worth(e, b, n) + (v[n] \div b) * p = Worth(x, b, n) - times * Order
  <2>1. Worth(d, b, n) + 0 = Worth(d, b, n)
    BY <1>20
  <2> QED BY <1>15, <1>17, <1>18, <1>19, <2>1
<1> QED BY <1>11, <1>15, <1>16, <1>17, <1>19, <1>21 DEF n, b, e, v, p

(* The digits of a number are the only ones.                               *)
LEMMA OnlyDigits ==
  ASSUME OrderAssumption, NEW e \in [1..BYTES -> Int], AreDigits(e, BYTE, BYTES)
  PROVE  e = Digits(Worth(e, BYTE, BYTES))
<1> DEFINE n == BYTES
           b == BYTE
           f == [j \in 1..n |-> (Worth(e, b, n) \div PowersOf(b)[j - 1]) % b]
<1>1. n \in Nat /\ b \in Nat /\ b > 0
  BY OrderFacts
<1>2. Digits(Worth(e, b, n)) = SubSeq(f, 1, n)
  BY Zenon DEF Digits, Array
<1>3. \A j \in 1..n : f[j] = (Worth(e, b, n) \div PowersOf(b)[j - 1]) % b
  BY Zenon
<1> HIDE DEF f, n, b
<1>4. \A j \in 1..n : f[j] = e[j]
  BY <1>1, <1>3, WorthDigit DEF n, b
<1>5. e \in [1..n -> Int] /\ \A j \in 1..n : e[j] \in Int
  BY DEF n
<1>6. f \in [1..n -> Int]
  <2>1. \A j \in 1..n : f[j] \in Int
    BY <1>4, <1>5
  <2> QED BY <2>1 DEF f
<1>7. f = e
  <2>1. f = [j \in 1..n |-> f[j]]
    BY <1>6
  <2>2. e = [j \in 1..n |-> e[j]]
    BY <1>5
  <2>3. [j \in 1..n |-> f[j]] = [j \in 1..n |-> e[j]]
    BY <1>4
  <2> QED BY <2>1, <2>2, <2>3, Zenon
<1>8. SubSeq(e, 1, n) = e
  BY <1>1, WholeArray DEF n
<1> QED BY <1>2, <1>7, <1>8 DEF n, b

(* What is left after the multiple that the largest byte tells is less     *)
(* than the order, and more than its negative.                             *)
LEMMA LittleIsLeft ==
  ASSUME NEW b \in Nat, b > 1, NEW p \in Nat, p > 0, NEW q \in Nat, NEW h \in Nat, h > 0,
         NEW l \in Nat, NEW top \in Nat, top > 0, NEW G \in Nat,
         h * q + G * (p - q) + (b - 1) * G * l <= (b - 1) * p,
         NEW V \in Int, -(h * (q - 1) + G * (p - q)) <= (b - 1) * V,
         (b - 1) * V <= h * (q - 1) + G * (p - q),
         NEW a \in Int, -G <= a, a <= G, NEW t \in Int, NEW r \in 0..(top - 1), a = t * top + r
  PROVE  LET o == l + top * p
             u == V + a * p - t * o
         IN  u \in Int /\ -o < u /\ u < o
<1> DEFINE o == l + top * p
           u == V + a * p - t * o
           tt == t * top
           tp == top * p
           rp == r * p
           tl == t * l
           Gl == G * l
           c == b - 1
           d == V - tl
<1>1. tt \in Int /\ tp \in Int /\ rp \in Int /\ tl \in Int /\ Gl \in Nat /\ d \in Int /\ c \in Nat /\ c > 0
  OBVIOUS
<1>2. -G <= t /\ t <= G
  <2>1. CASE t >= 0
    <3>1. t <= tt
      <4>1. t * 1 <= t * top
        BY <2>1
      <4> QED BY <4>1
    <3> HIDE DEF tt
    <3>2. a = tt + r
      BY DEF tt
    <3> QED BY <1>1, <2>1, <3>1, <3>2
  <2>2. CASE t < 0
    <3> DEFINE s == -t
    <3>1. s \in Nat /\ s > 0
      BY <2>2
    <3>2. CASE s <= G
      BY <3>1, <3>2
    <3>3. CASE s > G
      <4>1. s * top = -tt
        OBVIOUS
      <4>2. (s - 1) * 1 <= (s - 1) * top
        <5> DEFINE s1 == s - 1
        <5>1. s1 \in Nat
          BY <3>1
        <5> HIDE DEF s1
        <5>2. s1 * 1 <= s1 * top
          BY <5>1
        <5> QED BY <5>2 DEF s1
      <4>3. (s - 1) * top = s * top - top
        BY <3>1
      <4>4. s - 1 <= -tt - top
        <5> HIDE DEF s
        <5>1. (s - 1) * 1 = s - 1
          BY <3>1
        <5> QED BY <3>1, <4>1, <4>2, <4>3, <5>1
      <4>5. a = tt + r
        OBVIOUS
      <4> HIDE DEF tt, s
      <4> QED BY <1>1, <3>1, <3>3, <4>4, <4>5
    <3> QED BY <3>1, <3>2, <3>3
  <2> QED BY <2>1, <2>2
<1>3. -Gl <= tl /\ tl <= Gl
  BY <1>2, ProductBetween
<1>4. -p < d /\ d < p
  <2> DEFINE cV == c * V
             ctl == c * tl
             cGl == c * Gl
             hq == h * q
             f == G * (p - q)
             cp == c * p
             cd == c * d
  <2>1. cV \in Int /\ ctl \in Int /\ cGl \in Int /\ hq \in Int /\ f \in Int /\ cp \in Int /\ cd \in Int
    BY <1>1
  <2>2. (b - 1) * G * l = cGl
    BY <1>1
  <2>3. h * (q - 1) = hq - h
    OBVIOUS
  <2>4. hq + f + cGl <= cp /\ -(hq - h + f) <= cV /\ cV <= hq - h + f
    BY <2>2, <2>3
  <2>5. -cGl <= ctl /\ ctl <= cGl
    <3>1. c * (-Gl) <= c * tl /\ c * tl <= c * Gl
      <4> HIDE DEF c, Gl, tl
      <4> QED BY <1>1, <1>3
    <3>2. c * (-Gl) = -cGl
      <4> HIDE DEF c, Gl
      <4> QED BY <1>1
    <3> QED BY <3>1, <3>2
  <2>6. cd = cV - ctl
    <3> HIDE DEF c, tl
    <3> QED BY <1>1
  <2>7. -cp < cd /\ cd < cp
    <3> HIDE DEF cV, ctl, cGl, hq, f, cp, cd
    <3> QED BY <2>1, <2>4, <2>5, <2>6
  <2>8. d < p
    <3>1. CASE d >= p
      <4>1. c * p <= c * d
        <5> HIDE DEF c, d
        <5> QED BY <1>1, <3>1
      <4> HIDE DEF c, d
      <4> QED BY <1>1, <2>7, <4>1
    <3> HIDE DEF d
    <3> QED BY <1>1, <3>1
  <2>9. -p < d
    <3>1. CASE d <= -p
      <4>1. c * d <= c * (-p) /\ c * (-p) = -cp
        <5> HIDE DEF c, d
        <5> QED BY <1>1, <3>1
      <4> HIDE DEF c, d
      <4> QED BY <1>1, <2>7, <4>1
    <3> HIDE DEF d
    <3> QED BY <1>1, <3>1
  <2> QED BY <2>8, <2>9
<1>5. a * p - t * o = rp - tl
  <2>1. a * p = tt * p + rp
    BY <1>1
  <2>2. t * o = tl + t * tp
    BY <1>1
  <2>3. tt * p = t * tp
    BY <1>1
  <2> DEFINE e == t * tp
             ap == a * p
             to == t * o
  <2>4. e \in Int /\ ap = e + rp /\ to = tl + e
    BY <1>1, <2>1, <2>2, <2>3
  <2>5. ap - to = rp - tl
    <3> HIDE DEF e, ap, to, rp, tl
    <3> QED BY <1>1, <2>4
  <2> QED BY <2>5
<1>6. 0 <= rp /\ rp <= tp - p
  <2>1. r * p <= (top - 1) * p /\ 0 <= r * p
    <3> DEFINE m == top - 1
    <3>1. m \in Nat /\ r \in Nat /\ r <= m
      OBVIOUS
    <3> HIDE DEF m
    <3>2. r * p <= m * p /\ 0 <= r * p
      BY <3>1
    <3> QED BY <3>2 DEF m
  <2>2. (top - 1) * p = tp - p
    OBVIOUS
  <2> QED BY <2>1, <2>2
<1>7. u = d + rp
  <2> DEFINE ap == a * p
             to == t * o
  <2>1. ap \in Int /\ to \in Int /\ u = V + ap - to /\ ap - to = rp - tl
    BY <1>5
  <2>2. V + ap - to = (V - tl) + rp
    <3> HIDE DEF ap, to, rp, tl, u
    <3> QED BY <1>1, <2>1
  <2> QED BY <2>1, <2>2
<1>8. o = l + tp /\ tp >= p
  <2>1. 1 * p <= top * p
    OBVIOUS
  <2> QED BY <2>1
<1> HIDE DEF u, d, rp, o, tp
<1> QED BY <1>1, <1>4, <1>6, <1>7, <1>8

(* In particular of the bytes that are left when the others are taken.     *)
LEMMA RestIsLittle ==
  ASSUME OrderAssumption, NEW x0, NEW v, IsLeft(v, x0)
  PROVE  LET t == v[BYTES] \div L[BYTES]
             u == Worth(v, BYTE, BYTES) - t * Order
         IN  t \in Int /\ u \in Int /\ -Order < u /\ u < Order
<1> DEFINE n == BYTES
           b == BYTE
           m == n - 1
           p == PowersOf(b)[m]
           q == PowersOf(b)[SPAN]
           top == L[n]
           V == Worth(v, b, m)
           a == v[n]
           t == a \div top
<1>1. /\ n \in Nat /\ n > 1 /\ n > 0 /\ b \in Nat /\ b > 1 /\ b > 0 /\ HALF \in Nat /\ HALF > 0
      /\ SPAN \in Nat /\ SPAN < n /\ LowOrder \in Nat /\ top \in Nat /\ top > 0
      /\ Order = LowOrder + top * p
  <2>1. n \in Nat /\ n > 1 /\ b \in Nat /\ b > 1
    BY OrderFacts
  <2>2. n > 0 /\ b > 0
    <3> HIDE DEF n, b
    <3> QED BY <2>1
  <2> QED BY <2>1, <2>2, OrderFacts
<1>2. LEFT \in Nat
  BY MostFacts
<1>3. HALF * q + LEFT * (p - q) + (b - 1) * LEFT * LowOrder <= (b - 1) * p
  BY Zenon DEF OrderAssumption, HALF
<1>4. /\ v \in [1..n -> Int] /\ IsInts(v, n) /\ AreWithin(v, HALF, SPAN)
      /\ \A k \in (SPAN + 1)..n : v[k] \in Int /\ -LEFT <= v[k] /\ v[k] <= LEFT
  BY Zenon DEF IsLeft
<1> HIDE DEF n, b
<1>5. m \in Nat /\ m < n /\ m + 1 = n /\ SPAN \in 0..m
  BY <1>1
<1> HIDE DEF m
<1>6. p \in Nat /\ p > 0 /\ q \in Nat
  BY <1>1, <1>5, PowersFacts
<1>7. a \in Int /\ -LEFT <= a /\ a <= LEFT
  BY <1>1, <1>4
<1>8. /\ V \in Int
      /\ -(HALF * (q - 1) + LEFT * (p - q)) <= (b - 1) * V
      /\ (b - 1) * V <= HALF * (q - 1) + LEFT * (p - q)
  <2>1. \A k \in (SPAN + 1)..m : v[k] \in Int /\ -LEFT <= v[k] /\ v[k] <= LEFT
    BY <1>1, <1>4, <1>5
  <2> QED BY <1>1, <1>2, <1>4, <1>5, <2>1, WorthWithin
<1>9. PICK r \in 0..(top - 1) : t \in Int /\ a = t * top + r
  <2>1. PICK k \in Int, r \in 0..(top - 1) : a = k * top + r /\ a \div top = k
    BY <1>1, <1>7, IntDivision
  <2> QED BY <2>1
<1>10. Worth(v, b, n) = V + a * p
  <2> HIDE DEF V, a, t, p, q, top
  <2>1. Worth(v, b, m + 1) = Worth(v, b, m) + v[m + 1] * PowersOf(b)[m]
    <3>1. b \in Nat /\ b > 0 /\ n \in Nat /\ IsInts(v, n) /\ m \in Nat /\ m < n
      BY <1>1, <1>4, <1>5
    <3> QED BY <3>1, WorthStep
  <2> QED BY <1>5, <2>1 DEF V, a, p
<1> HIDE DEF V, a, t, p, q, top
<1>11. LET o == LowOrder + top * p
           u == V + a * p - t * o
       IN  u \in Int /\ -o < u /\ u < o
  BY <1>1, <1>2, <1>3, <1>6, <1>7, <1>8, <1>9, LittleIsLeft
<1> DEFINE u == Worth(v, b, n) - t * Order
<1>12. u \in Int /\ -Order < u /\ u < Order
  <2> DEFINE ap == a * p
             to == t * Order
  <2>1. ap \in Int /\ to \in Int
    <3>1. Order \in Int
      BY OrderFacts
    <3> QED BY <1>6, <1>7, <1>9, <3>1
  <2>2. V + ap - to \in Int /\ -Order < V + ap - to /\ V + ap - to < Order
    BY <1>1, <1>11
  <2>3. u = V + ap - to
    <3>1. u = (V + ap) - to
      BY <1>10
    <3> HIDE DEF ap, to, u
    <3> QED BY <1>8, <2>1, <3>1
  <2> QED BY <2>2, <2>3
<1> QED BY <1>9, <1>12 DEF u, a, t, top, n, b

(* A number in a range twice the order wide, by its digits and the carry   *)
(* above them: the carry tells whether it is negative, and whatever it     *)
(* says the order is added back, the digits that come out are of a number  *)
(* below the order.                                                        *)
LEMMA AddBack ==
  ASSUME NEW o \in Nat, NEW B \in Nat, o < B, NEW u \in Int, -o < u, u < o,
         NEW e \in 0..(B - 1), NEW c \in Int, e + c * B = u,
         NEW f \in 0..(B - 1), NEW k \in Int, f + k * B = e - c * o
  PROVE  f = u - c * o /\ f \in 0..(o - 1)
<1> DEFINE cB == c * B
           kB == k * B
           co == c * o
<1>1. cB \in Int /\ kB \in Int /\ co \in Int /\ e + cB = u /\ f + kB = e - co
  OBVIOUS
<1>2. c = 0 \/ c = -1
  <2>1. CASE c >= 1
    <3>1. 1 * B <= c * B
      BY <2>1
    <3> HIDE DEF cB
    <3> QED BY <1>1, <3>1 DEF cB
  <2>2. CASE c <= -2
    <3>1. c * B <= (-2) * B
      BY <2>2
    <3>2. cB <= -2 * B
      BY <3>1
    <3> HIDE DEF cB
    <3> QED BY <1>1, <3>2
  <2> QED BY <2>1, <2>2
<1>3. CASE c = 0
  <2>1. cB = 0 /\ co = 0
    BY <1>3
  <2> HIDE DEF cB, kB, co
  <2>2. f + kB = u /\ u \in 0..(o - 1)
    BY <1>1, <2>1
  <2>3. k = 0
    <3>1. CASE k >= 1
      <4>1. 1 * B <= k * B
        BY <3>1
      <4> QED BY <1>1, <2>2, <4>1 DEF kB
    <3>2. CASE k <= -1
      <4>1. k * B <= (-1) * B
        BY <3>2
      <4> QED BY <1>1, <2>2, <4>1 DEF kB
    <3> QED BY <3>1, <3>2
  <2>4. kB = 0
    BY <2>3 DEF kB
  <2> QED BY <1>1, <2>1, <2>2, <2>4 DEF co
<1>4. CASE c = -1
  <2>1. cB = -B /\ co = -o
    BY <1>4
  <2> HIDE DEF cB, kB, co
  <2>2. f + kB = (u + o) + B /\ u < 0 /\ u + o \in 0..(o - 1)
    BY <1>1, <2>1
  <2>3. k = 1
    <3>1. CASE k >= 2
      <4>1. 2 * B <= k * B
        BY <3>1
      <4> QED BY <1>1, <2>2, <4>1 DEF kB
    <3>2. CASE k <= 0
      <4>1. k * B <= 0 * B
        BY <3>2
      <4> QED BY <1>1, <2>2, <4>1 DEF kB
    <3> QED BY <3>1, <3>2
  <2>4. kB = B
    BY <2>3 DEF kB
  <2> QED BY <1>1, <2>1, <2>2, <2>4 DEF co
<1> QED BY <1>2, <1>3, <1>4

(* modL: the bytes of a product of scalars, as large as MultiplyAdd makes  *)
(* them, become the digits of its remainder modulo the order. The bytes    *)
(* above it are taken away one after the other, each by multiples of the   *)
(* order's low bytes whose carry stays small (TurnKeeps), the multiple the *)
(* last byte tells is subtracted, and the order added back where that was  *)
(* one too many.                                                           *)
THEOREM ModLIsExact ==
  ASSUME OrderAssumption, NEW x0 \in [1..(2 * BYTES) -> 0..MOST]
  PROVE  modL(x0) = Digits(Worth(x0, BYTE, 2 * BYTES) % Order)
<1> DEFINE n == BYTES
           b == BYTE
           o == Order
           B == PowersOf(b)[n]
           v == Taken(x0)
           t == v[n] \div L[n]
           W == Worth(v, b, n)
           W0 == Worth(x0, b, 2 * n)
           u == W - t * o
           top == LessTop(v)
           e == InBytes(top)
           c == top[n] \div b
           back == AddedBack(top)
           f == InBytes(back)
           k == back[n] \div b
           ew == Worth(e, b, n)
           fw == Worth(f, b, n)
<1>1. /\ n \in Nat /\ b \in Nat /\ b > 0 /\ o \in Nat /\ o > 0 /\ o < B
  <2>1. b \in Nat /\ b > 1
    BY OrderFacts
  <2>2. b > 0
    <3> HIDE DEF b
    <3> QED BY <2>1
  <2> QED BY <2>1, <2>2, OrderFacts
<1>2. IsLeft(v, x0)
  BY TakenFacts
<1>3. v \in [1..n -> Int] /\ IsInts(v, n) /\ Congruent(W, W0, o)
  BY <1>2, Zenon DEF IsLeft
<1>4. t \in Int /\ u \in Int /\ -o < u /\ u < o
  <2> HIDE DEF v
  <2> QED BY <1>2, RestIsLittle
<1>5. top = Less(v, t) /\ back = Less(e, c)
  BY Zenon DEF LessTop, AddedBack
<1>6. modL(x0) = f
  BY Zenon DEF modL
<1> HIDE DEF v, t, top, back, u
<1>7. /\ c \in Int /\ e \in [1..n -> Int] /\ AreDigits(e, b, n) /\ ew + c * B = u
  <2>1. LET y == Less(v, t)
            d == InBytes(y)
            h == y[BYTES] \div BYTE
        IN  /\ y \in [1..BYTES -> Int] /\ h \in Int
            /\ d \in [1..BYTES -> Int] /\ AreDigits(d, BYTE, BYTES)
            /\ Worth(d, BYTE, BYTES) + h * PowersOf(BYTE)[BYTES]
                 = Worth(v, BYTE, BYTES) - t * Order
    BY <1>3, <1>4, LessIs
  <2> QED BY <1>5, <2>1, Zenon DEF u
<1> HIDE DEF e, c
<1>8. /\ k \in Int /\ f \in [1..n -> Int] /\ AreDigits(f, b, n) /\ fw + k * B = ew - c * o
  <2>1. LET y == Less(e, c)
            d == InBytes(y)
            h == y[BYTES] \div BYTE
        IN  /\ y \in [1..BYTES -> Int] /\ h \in Int
            /\ d \in [1..BYTES -> Int] /\ AreDigits(d, BYTE, BYTES)
            /\ Worth(d, BYTE, BYTES) + h * PowersOf(BYTE)[BYTES]
                 = Worth(e, BYTE, BYTES) - c * Order
    BY <1>7, LessIs
  <2> QED BY <1>5, <2>1, Zenon
<1> HIDE DEF f, k
<1>9. f = Digits(fw)
  BY <1>8, OnlyDigits
<1> HIDE DEF n, b
<1>10. ew \in Nat /\ ew < B /\ fw \in Nat /\ fw < B
  BY <1>1, <1>7, <1>8, WorthBound
<1>11. W \in Int
  BY <1>1, <1>3, WorthIsInt
<1>12. W0 \in Int
  <2> DEFINE nn == 2 * n
  <2>1. nn \in Nat
    BY <1>1
  <2>2. IsInts(x0, nn)
    <3>1. MOST \in Nat
      BY MostFacts
    <3>2. ASSUME NEW i \in 1..nn PROVE x0[i] \in Int
      <4>1. x0[i] \in 0..MOST
        BY DEF n
      <4> QED BY <3>1, <4>1
    <3> QED BY <3>2 DEF IsInts
  <2> HIDE DEF nn
  <2>3. Worth(x0, b, nn) \in Int
    BY <1>1, <2>1, <2>2, WorthIsInt
  <2> QED BY <2>3 DEF nn
<1> HIDE DEF W, W0, ew, fw, B, o
<1>13. B \in Nat
  BY <1>1, PowersFacts DEF B
<1>14. fw = u - c * o /\ fw \in 0..(o - 1)
  <2>1. ew \in 0..(B - 1) /\ fw \in 0..(B - 1)
    BY <1>10, <1>13
  <2> QED BY <1>1, <1>4, <1>7, <1>8, <1>13, <2>1, AddBack
<1>15. Congruent(W0, fw, o)
  <2> DEFINE z == t + c
  <2>1. W = fw + z * o
    <3> DEFINE to == t * o
               co == c * o
    <3>1. to \in Int /\ co \in Int /\ z * o = to + co
      BY <1>1, <1>4, <1>7
    <3>2. u = W - to /\ fw = u - co
      BY <1>14 DEF u
    <3> HIDE DEF to, co, z
    <3> QED BY <1>4, <1>11, <3>1, <3>2
  <2>2. Congruent(W, fw, o)
    <3>1. z \in Int
      BY <1>4, <1>7
    <3> HIDE DEF z
    <3> QED BY <2>1, <3>1 DEF Congruent
  <2>3. fw \in Int
    BY <1>10
  <2>4. Congruent(W0, W, o)
    BY <1>1, <1>3, <1>11, <1>12, CongruentBack
  <2> QED BY <1>1, <1>11, <1>12, <2>2, <2>3, <2>4, CongruentTrans
<1>16. W0 % o = fw
  BY <1>1, <1>12, <1>14, <1>15, IntCongruentRemainder
<1>17. modL(x0) = Digits(W0 % o)
  BY <1>6, <1>9, <1>16
<1> QED BY <1>17 DEF W0, o, b, n

-----------------------------------------------------------------------------
(* The product of two scalars, and a third. *)

(* r + h d with only the first l bytes of h.                               *)
Partial(r, h, d, l) ==
  [k \in 1..(2 * BYTES) |->
     (IF k <= BYTES THEN r[k] ELSE 0)
       + SumTo([i \in 1..BYTES |-> IF k - i + 1 \in 1..BYTES
                                   THEN h[i] * d[k - i + 1] ELSE 0], l)]

(* One more byte of h adds d times that byte, moved up by its place.       *)
IsMoved(g, f, h, d, l) ==
  \A k \in 1..(2 * BYTES) :
    g[k] = f[k] + (IF k - l \in 1..BYTES THEN h[l + 1] * d[k - l] ELSE 0)

(* The products that a byte of h d is the sum of.                          *)
LEMMA ProductTerms ==
  ASSUME OrderAssumption, NEW h \in Scalar, NEW d \in Scalar, NEW k \in Int
  PROVE  LET f == [i \in 1..BYTES |-> IF k - i + 1 \in 1..BYTES
                                      THEN h[i] * d[k - i + 1] ELSE 0]
         IN  IsInts(f, BYTES) /\ \A i \in 1..BYTES : f[i] \in 0..((BYTE - 1) * (BYTE - 1))
<1> DEFINE n == BYTES
           c == BYTE - 1
           f == [i \in 1..n |-> IF k - i + 1 \in 1..n THEN h[i] * d[k - i + 1] ELSE 0]
<1>1. n \in Nat /\ c \in Nat
  <2>1. BYTE \in Nat /\ BYTE > 1
    BY OrderFacts
  <2> QED BY <2>1, OrderFacts
<1>2. ASSUME NEW i \in 1..n PROVE f[i] \in 0..(c * c)
  <2>1. CASE k - i + 1 \in 1..n
    <3> DEFINE u == h[i]
               v == d[k - i + 1]
    <3>1. u \in 0..c /\ v \in 0..c
      BY <2>1 DEF Scalar
    <3>2. f[i] = u * v
      BY <2>1
    <3> HIDE DEF u, v, c, f
    <3>3. u \in Nat /\ u <= c /\ v \in Nat /\ v <= c
      BY <1>1, <3>1
    <3>4. u * v \in Nat /\ u * v <= c * c
      <4>1. u * v <= u * c
        BY <1>1, <3>3
      <4>2. u * c <= c * c
        BY <1>1, <3>3
      <4>3. u * v \in Nat /\ u * c \in Nat /\ c * c \in Nat
        BY <1>1, <3>3
      <4> QED BY <4>1, <4>2, <4>3
    <3> QED BY <1>1, <3>2, <3>4
  <2>2. CASE k - i + 1 \notin 1..n
    <3>1. f[i] = 0
      BY <2>2
    <3>2. c * c \in Nat
      BY <1>1
    <3> HIDE DEF f, c
    <3> QED BY <3>1, <3>2
  <2> QED BY <2>1, <2>2
<1>3. c * c \in Nat
  BY <1>1
<1> HIDE DEF f
<1>4. IsInts(f, n)
  <2> HIDE DEF c, n
  <2> QED BY <1>2, <1>3 DEF IsInts
<1> QED BY <1>2, <1>4 DEF f, n, c

(* One more byte of h, byte by byte, ...                                   *)
LEMMA PartialStep ==
  ASSUME OrderAssumption, NEW r \in Scalar, NEW h \in Scalar, NEW d \in Scalar,
         NEW l \in Nat, l < BYTES
  PROVE  /\ IsInts(Partial(r, h, d, l), 2 * BYTES)
         /\ IsInts(Partial(r, h, d, l + 1), 2 * BYTES)
         /\ IsMoved(Partial(r, h, d, l + 1), Partial(r, h, d, l), h, d, l)
<1> DEFINE n == BYTES
           nn == 2 * n
           t(k) == [i \in 1..n |-> IF k - i + 1 \in 1..n THEN h[i] * d[k - i + 1] ELSE 0]
           low(k) == IF k <= n THEN r[k] ELSE 0
           f == Partial(r, h, d, l)
           g == Partial(r, h, d, l + 1)
<1>1. n \in Nat /\ BYTE \in Nat /\ BYTE > 1
  BY OrderFacts
<1>2. ASSUME NEW k \in 1..nn
      PROVE  /\ f[k] \in Int /\ g[k] \in Int
             /\ g[k] = f[k] + (IF k - l \in 1..n THEN h[l + 1] * d[k - l] ELSE 0)
  <2>1. f[k] = low(k) + SumTo(t(k), l) /\ g[k] = low(k) + SumTo(t(k), l + 1)
    BY DEF Partial
  <2>2. k \in Int
    BY <1>1
  <2>3. low(k) \in Int
    <3>1. CASE k <= n
      <4>1. k \in 1..n
        BY <1>1, <3>1
      <4>2. r[k] \in 0..(BYTE - 1)
        BY <4>1 DEF Scalar
      <4> QED BY <1>1, <3>1, <4>2
    <3>2. CASE ~(k <= n)
      BY <3>2
    <3> QED BY <3>1, <3>2
  <2>4. IsInts(t(k), n)
    BY <2>2, ProductTerms
  <2>5. t(k)[l + 1] = IF k - l \in 1..n THEN h[l + 1] * d[k - l] ELSE 0
    <3>1. l + 1 \in 1..n /\ (k - (l + 1)) + 1 = k - l /\ k - (l + 1) + 1 = k - l
      BY <1>1
    <3> QED BY <3>1
  <2> DEFINE tk == t(k)
             lk == low(k)
  <2> HIDE DEF tk, lk
  <2>6. /\ SumTo(tk, l) \in Int /\ SumTo(tk, l + 1) \in Int
        /\ SumTo(tk, l + 1) = SumTo(tk, l) + tk[l + 1]
    <3>1. IsInts(tk, n)
      BY <2>4 DEF tk
    <3> HIDE DEF n
    <3> QED BY <1>1, <3>1, SumStep DEF n
  <2>7. lk \in Int /\ f[k] = lk + SumTo(tk, l) /\ g[k] = lk + SumTo(tk, l + 1)
    BY <2>1, <2>3 DEF lk, tk
  <2>8. tk[l + 1] = IF k - l \in 1..n THEN h[l + 1] * d[k - l] ELSE 0
    BY <2>5 DEF tk
  <2>9. tk[l + 1] \in Int
    BY <1>1, <2>4 DEF tk, IsInts
  <2> DEFINE x == SumTo(tk, l)
             y == SumTo(tk, l + 1)
             z == tk[l + 1]
             fk == f[k]
             gk == g[k]
  <2>10. x \in Int /\ y \in Int /\ y = x + z /\ fk = lk + x /\ gk = lk + y /\ z \in Int
    BY <2>6, <2>7, <2>9
  <2>11. fk \in Int /\ gk \in Int /\ gk = fk + z
    <3> HIDE DEF x, y, z, fk, gk
    <3> QED BY <2>7, <2>10
  <2> HIDE DEF f, g
  <2> QED BY <2>8, <2>11
<1> HIDE DEF f, g
<1>3. IsInts(f, nn) /\ IsInts(g, nn)
  BY <1>2 DEF IsInts
<1>4. IsMoved(g, f, h, d, l)
  BY <1>2 DEF IsMoved
<1> QED BY <1>3, <1>4 DEF f, g

(* ... and as a number.                                                    *)
LEMMA NextPartial ==
  ASSUME OrderAssumption, NEW f, NEW g, NEW h, NEW d, NEW l \in Nat, l < BYTES,
         IsInts(f, 2 * BYTES), IsInts(g, 2 * BYTES), IsInts(h, BYTES), IsInts(d, BYTES),
         IsMoved(g, f, h, d, l)
  PROVE  Worth(g, BYTE, 2 * BYTES)
           = Worth(f, BYTE, 2 * BYTES)
               + h[l + 1] * (PowersOf(BYTE)[l] * Worth(d, BYTE, BYTES))
<1> DEFINE n == BYTES
           nn == 2 * n
           b == BYTE
           e == h[l + 1]
           a == -e
           m == l + n
           c == [k \in 0..n |-> 0]
           q == PowersOf(b)[l] * Worth(d, b, n)
<1>1. n \in Nat /\ n > 0 /\ b \in Nat /\ b > 0 /\ l < n
  <2>1. n \in Nat /\ n > 1 /\ b \in Nat /\ b > 1
    BY OrderFacts
  <2> HIDE DEF n, b
  <2> QED BY <2>1 DEF n
<1>2. IsInts(f, nn) /\ IsInts(g, nn) /\ IsInts(h, n) /\ IsInts(d, n)
  OBVIOUS
<1>3. \A k \in 1..nn : g[k] = f[k] + (IF k - l \in 1..n THEN e * d[k - l] ELSE 0)
  BY Zenon DEF IsMoved
<1> HIDE DEF n, b
<1>4. nn \in Nat /\ m \in Nat /\ m <= nn /\ m \in 0..nn /\ l + 1 \in 1..n
  BY <1>1
<1>5. e \in Int /\ a \in Int
  BY <1>2, <1>4 DEF IsInts
<1>6. \A k \in 1..nn : f[k] \in Int /\ g[k] \in Int
  BY <1>2 DEF IsInts
<1> HIDE DEF e, nn
<1>7. ASSUME NEW k \in 1..nn, k <= l \/ k > m PROVE g[k] = f[k]
  <2>1. k - l \notin 1..n
    BY <1>1, <1>4, <1>7
  <2>2. g[k] = f[k] + 0
    BY <1>3, <2>1
  <2> QED BY <1>6, <2>2
<1>8. ASSUME NEW j \in 1..n PROVE g[l + j] = f[l + j] - a * d[j]
  <2>1. l + j \in 1..nn /\ (l + j) - l = j
    BY <1>1, <1>4 DEF nn
  <2>2. g[l + j] = f[l + j] + e * d[j]
    BY <1>3, <2>1
  <2>3. d[j] \in Int /\ f[l + j] \in Int
    BY <1>2, <1>6, <2>1 DEF IsInts
  <2> DEFINE x == d[j]
             y == f[l + j]
  <2>4. y + e * x = y - a * x
    <3> HIDE DEF x, y
    <3>1. x \in Int /\ y \in Int
      BY <2>3 DEF x, y
    <3> QED BY <1>5, <3>1
  <2> QED BY <2>2, <2>4
<1>9. c \in [0..n -> Int] /\ c[0] = 0 /\ \A k \in 0..n : c[k] = 0
  BY <1>1
<1> HIDE DEF c, a, m
<1>10. IsBorrow(g, f, c, d, a, b, l, n)
  <2>1. ASSUME NEW k \in 1..l PROVE g[k] = f[k]
    <3>1. k \in 1..nn /\ k <= l
      BY <1>1, <1>4 DEF m
    <3> QED BY <1>7, <3>1
  <2>2. ASSUME NEW j \in 1..n
        PROVE  g[l + j] + c[j] * b = f[l + j] + c[j - 1] - a * d[j]
    <3>1. c[j] = 0 /\ c[j - 1] = 0 /\ 0 * b = 0
      BY <1>1, <1>9
    <3>2. l + j \in 1..nn
      BY <1>1, <1>4 DEF nn
    <3> DEFINE x == g[l + j]
               y == f[l + j]
               z == a * d[j]
    <3>3. x \in Int /\ y \in Int /\ z \in Int
      BY <1>2, <1>5, <1>6, <3>2 DEF IsInts
    <3>4. x = y - z
      BY <1>8
    <3>5. x + c[j] * b = y + c[j - 1] - z
      <4> HIDE DEF x, y, z
      <4>1. x + 0 = y + (0 - z)
        BY <3>3, <3>4
      <4> QED BY <3>1, <4>1
    <3> QED BY <3>5
  <2> QED BY <1>9, <2>1, <2>2, Zenon DEF IsBorrow
<1>11. Worth(g, b, m) + c[n] * PowersOf(b)[m] = Worth(f, b, m) - a * q
  <2>1. l + n <= nn
    BY <1>4 DEF m
  <2>2. Worth(g, b, l + n) + c[n] * PowersOf(b)[l + n]
          = Worth(f, b, l + n) - a * (PowersOf(b)[l] * Worth(d, b, n))
    BY <1>1, <1>2, <1>4, <1>5, <1>10, <2>1, BorrowWorth
  <2> QED BY <2>2 DEF m
<1>12. Worth(g, b, nn) - Worth(f, b, nn) = Worth(g, b, m) - Worth(f, b, m)
  <2>1. ASSUME NEW k \in (m + 1)..nn PROVE g[k] = f[k]
    <3>1. k \in 1..nn /\ k > m
      BY <1>1, <1>4
    <3> QED BY <1>7, <3>1
  <2> QED BY <1>1, <1>2, <1>4, <2>1, WorthApart
<1> DEFINE G0 == Worth(g, b, nn)
           F0 == Worth(f, b, nn)
           G1 == Worth(g, b, m)
           F1 == Worth(f, b, m)
           P0 == PowersOf(b)[m]
           eq == e * q
<1>13. G0 \in Int /\ F0 \in Int /\ G1 \in Int /\ F1 \in Int /\ P0 \in Int /\ q \in Int /\ eq \in Int
  <2>1. IsInts(f, m) /\ IsInts(g, m)
    BY <1>2, <1>4 DEF IsInts
  <2>2. G0 \in Int /\ F0 \in Int /\ G1 \in Int /\ F1 \in Int
    BY <1>1, <1>2, <1>4, <2>1, WorthIsInt
  <2>3. PowersOf(b)[m] \in Nat /\ PowersOf(b)[l] \in Nat
    BY <1>1, <1>4, PowersFacts
  <2>4. Worth(d, b, n) \in Int
    BY <1>1, <1>2, WorthIsInt
  <2>5. q \in Int
    <3> DEFINE u == PowersOf(b)[l]
               v == Worth(d, b, n)
    <3>1. u \in Int /\ v \in Int /\ q = u * v
      BY <2>3, <2>4
    <3> HIDE DEF u, v, q
    <3> QED BY <3>1
  <2> HIDE DEF q
  <2> QED BY <1>5, <2>2, <2>3, <2>5
<1>14. G1 + 0 * P0 = F1 - a * q /\ 0 * P0 = 0 /\ a * q = -eq
  <2>1. c[n] = 0
    BY <1>1, <1>9
  <2>2. G1 + 0 * P0 = F1 - a * q
    BY <1>11, <2>1
  <2> HIDE DEF q, P0
  <2> QED BY <1>5, <1>13, <2>2 DEF a
<1>15. G0 - F0 = G1 - F1
  BY <1>12
<1>16. G0 = F0 + eq
  <2> DEFINE aq == a * q
             z == 0 * P0
  <2>1. G1 + z = F1 - aq /\ z = 0 /\ aq = -eq
    BY <1>14
  <2> HIDE DEF G0, F0, G1, F1, eq, aq, z
  <2> QED BY <1>13, <1>15, <2>1
<1> QED BY <1>16 DEF G0, F0, eq, q, e, n, b, nn

(* So the bytes stand for the sum of r and the product.                    *)
LEMMA PartialWorth ==
  ASSUME OrderAssumption, NEW r \in Scalar, NEW h \in Scalar, NEW d \in Scalar
  PROVE  Worth(Partial(r, h, d, BYTES), BYTE, 2 * BYTES)
           = Worth(r, BYTE, BYTES) + Worth(h, BYTE, BYTES) * Worth(d, BYTE, BYTES)
<1> DEFINE n == BYTES
           nn == 2 * n
           b == BYTE
           F(l) == Partial(r, h, d, l)
           W(l) == Worth(F(l), b, nn)
           R0 == Worth(r, b, n)
           D0 == Worth(d, b, n)
           H(l) == Worth(h, b, l)
           p == PowersOf(b)
           Good(l) == W(l) = R0 + H(l) * D0
           T == {l \in Nat : l <= n => Good(l)}
<1>1. n \in Nat /\ n > 0 /\ b \in Nat /\ b > 0 /\ nn \in Nat /\ n <= nn
  <2>1. n \in Nat /\ n > 1 /\ b \in Nat /\ b > 1
    BY OrderFacts
  <2> HIDE DEF n, b
  <2> QED BY <2>1
<1>2. IsInts(r, n) /\ IsInts(h, n) /\ IsInts(d, n)
  <2>1. \A x \in Scalar : IsInts(x, n)
    <3>1. ASSUME NEW x \in Scalar, NEW i \in 1..n PROVE x[i] \in Int
      <4>1. x[i] \in 0..(b - 1)
        BY DEF Scalar
      <4> QED BY <1>1, <4>1
    <3> QED BY <3>1 DEF IsInts
  <2> QED BY <2>1
<1>3. R0 \in Int /\ D0 \in Int
  <2> HIDE DEF n, b
  <2> QED BY <1>1, <1>2, WorthIsInt
<1>4. 0 \in T
  <2>1. ASSUME NEW k \in 1..nn PROVE F(0)[k] = IF k <= n THEN r[k] ELSE 0
    <3> DEFINE t == [i \in 1..n |-> IF k - i + 1 \in 1..n THEN h[i] * d[k - i + 1] ELSE 0]
               low == IF k <= n THEN r[k] ELSE 0
    <3>1. F(0)[k] = low + SumTo(t, 0)
      BY DEF Partial
    <3>2. low \in Int
      <4>1. CASE k <= n
        <5>1. k \in 1..n
          BY <1>1, <4>1
        <5> QED BY <1>2, <4>1, <5>1 DEF IsInts
      <4>2. CASE ~(k <= n)
        BY <4>2
      <4> QED BY <4>1, <4>2
    <3>3. SumTo(t, 0) = 0
      BY SumZero
    <3> HIDE DEF low, t
    <3>4. F(0)[k] = low
      BY <3>1, <3>2, <3>3
    <3> QED BY <3>4 DEF low
  <2> DEFINE f == F(0)
  <2> HIDE DEF n, b, nn, f
  <2>2. \A k \in 1..nn : f[k] = IF k <= n THEN r[k] ELSE 0
    BY <2>1 DEF f
  <2>3. \A k \in 1..n : f[k] = r[k]
    BY <1>1, <2>2
  <2>4. \A k \in (n + 1)..nn : f[k] = 0
    BY <1>1, <2>2
  <2>5. IsInts(f, nn)
    <3>1. ASSUME NEW k \in 1..nn PROVE f[k] \in Int
      <4>1. CASE k <= n
        <5>1. k \in 1..n
          BY <1>1, <4>1
        <5> QED BY <1>2, <2>3, <5>1 DEF IsInts
      <4>2. CASE ~(k <= n)
        BY <2>2, <4>2
      <4> QED BY <4>1, <4>2
    <3> QED BY <3>1 DEF IsInts
  <2>6. n \in 0..nn
    BY <1>1
  <2>7. Worth(f, b, nn) = Worth(f, b, n)
    BY <1>1, <2>4, <2>5, <2>6, WorthZeros
  <2>8. Worth(f, b, n) = R0
    BY <1>1, <1>2, <2>3, WorthSame
  <2>9. H(0) = 0
    BY WorthZero
  <2>10. W(0) = R0
    BY <2>7, <2>8 DEF f
  <2>11. R0 + 0 * D0 = R0
    <3> HIDE DEF R0, D0
    <3> QED BY <1>3
  <2> HIDE DEF W, R0, D0, H
  <2> QED BY <2>9, <2>10, <2>11
<1>5. ASSUME NEW l \in Nat, l \in T PROVE l + 1 \in T
  <2>1. CASE l + 1 <= n
    <3>1. l < n /\ l <= n
      BY <1>1, <2>1
    <3>2. W(l) = R0 + H(l) * D0
      BY <1>5, <3>1
    <3>3. /\ IsInts(F(l), nn) /\ IsInts(F(l + 1), nn)
          /\ IsMoved(F(l + 1), F(l), h, d, l)
      BY <3>1, PartialStep
    <3>4. W(l + 1) = W(l) + h[l + 1] * (p[l] * D0)
      BY <1>2, <3>1, <3>3, NextPartial
    <3> DEFINE e == h[l + 1]
               u == H(l)
               u1 == H(l + 1)
               q == p[l]
    <3>5. u \in Int /\ u1 = u + e * q
      <4> HIDE DEF n, b
      <4> QED BY <1>1, <1>2, <3>1, WorthStep
    <3>6. e \in Int
      <4>1. l + 1 \in 1..n
        BY <1>1, <3>1
      <4> QED BY <1>2, <4>1 DEF IsInts
    <3>7. q \in Int
      <4>1. q \in Nat
        <5> HIDE DEF b
        <5> QED BY <1>1, PowersFacts
      <4> QED BY <4>1
    <3>8. R0 + u1 * D0 = R0 + u * D0 + e * (q * D0)
      <4> HIDE DEF e, u, u1, q, D0, R0
      <4>1. (u + e * q) * D0 = u * D0 + e * (q * D0)
        BY <1>3, <3>5, <3>6, <3>7
      <4>2. u * D0 \in Int /\ e * (q * D0) \in Int
        BY <1>3, <3>5, <3>6, <3>7
      <4> QED BY <1>3, <3>5, <4>1, <4>2
    <3>9. W(l + 1) = R0 + u1 * D0
      <4>1. W(l + 1) = R0 + u * D0 + e * (q * D0)
        BY <3>2, <3>4
      <4> HIDE DEF W, e, u, u1, q, D0, R0
      <4> QED BY <3>8, <4>1
    <3> HIDE DEF W, R0, D0
    <3> QED BY <3>9
  <2>2. CASE ~(l + 1 <= n)
    BY <2>2
  <2> QED BY <2>1, <2>2
<1> HIDE DEF T
<1>6. Good(n)
  <2>1. n \in T
    BY <1>1, <1>4, <1>5, SetInduction
  <2> HIDE DEF Good
  <2> QED BY <1>1, <2>1 DEF T
<1> QED BY <1>6

(* The bytes that crypto_sign hands to modL are none too large.            *)
LEMMA MultiplyAddIs ==
  ASSUME OrderAssumption, NEW r \in Scalar, NEW h \in Scalar, NEW d \in Scalar
  PROVE  /\ MultiplyAdd(r, h, d) = Partial(r, h, d, BYTES)
         /\ MultiplyAdd(r, h, d) \in [1..(2 * BYTES) -> 0..MOST]
<1> DEFINE n == BYTES
           nn == 2 * n
           b == BYTE
           c == (b - 1) * (b - 1)
           t(k) == [i \in 1..n |-> IF k - i + 1 \in 1..n THEN h[i] * d[k - i + 1] ELSE 0]
           f == Partial(r, h, d, n)
           g == [k \in 1..nn |-> (IF k <= n THEN r[k] ELSE 0) + SumTo(t(k), n)]
<1>1. n \in Nat /\ nn \in Nat /\ b \in Nat /\ b > 1
  <2>1. n \in Nat /\ b \in Nat /\ b > 1
    BY OrderFacts
  <2> HIDE DEF n, b
  <2> QED BY <2>1
<1>2. MultiplyAdd(r, h, d) = SubSeq(g, 1, nn)
  BY Zenon DEF MultiplyAdd, Array, ProductByte
<1>3. f = g
  BY Zenon DEF Partial
<1>4. MOST \in Nat /\ MOST = n * c + (b - 1) /\ c \in Nat /\ n * c \in Nat
  <2>1. n * (b - 1) * (b - 1) = n * c
    <3> HIDE DEF n, b
    <3> QED BY <1>1
  <2>2. MOST = n * (b - 1) * (b - 1) + b - 1
    BY Zenon DEF MOST
  <2>3. c \in Nat /\ n * c \in Nat
    <3>1. b - 1 \in Nat
      BY <1>1
    <3>2. c \in Nat
      <4> HIDE DEF n, b
      <4> QED BY <3>1
    <3> HIDE DEF c, n, b
    <3> QED BY <1>1, <3>2
  <2> DEFINE nc == n * c
  <2> HIDE DEF nc, n, b
  <2>4. MOST = nc + b - 1 /\ nc \in Nat
    BY <2>1, <2>2, <2>3 DEF nc
  <2>5. MOST \in Nat /\ MOST = nc + (b - 1)
    BY <1>1, <2>4
  <2> QED BY <2>3, <2>5 DEF nc
<1>5. ASSUME NEW k \in 1..nn PROVE g[k] \in 0..MOST
  <2> DEFINE low == IF k <= n THEN r[k] ELSE 0
             sum == SumTo(t(k), n)
  <2>1. k \in Int
    BY <1>1
  <2>2. low \in 0..(b - 1)
    <3>1. CASE k <= n
      <4>1. k \in 1..n
        BY <1>1, <3>1
      <4>2. r[k] \in 0..(b - 1)
        BY <4>1 DEF Scalar
      <4> QED BY <3>1, <4>2
    <3>2. CASE ~(k <= n)
      BY <1>1, <3>2
    <3> QED BY <3>1, <3>2
  <2>3. \A i \in 1..n : t(k)[i] \in 0..c
    BY <2>1, ProductTerms
  <2> DEFINE tk == t(k)
  <2> HIDE DEF tk
  <2>4. \A i \in 1..n : tk[i] \in 0..c
    BY <2>3 DEF tk
  <2>5. SumTo(tk, n) \in Nat /\ SumTo(tk, n) <= n * c
    <3> HIDE DEF n, c
    <3> QED BY <1>1, <1>4, <2>4, SumBound DEF n
  <2>6. sum \in Nat /\ sum <= n * c
    BY <2>5 DEF tk
  <2>7. g[k] = low + sum
    BY Zenon
  <2> DEFINE nc == n * c
  <2> HIDE DEF low, sum, g, nc, n, b, c
  <2>8. sum \in Nat /\ sum <= nc /\ MOST = nc + (b - 1) /\ nc \in Nat
    BY <1>4, <2>6 DEF nc
  <2> QED BY <1>1, <1>4, <2>2, <2>7, <2>8
<1>6. g \in [1..nn -> 0..MOST]
  <2> HIDE DEF t
  <2> QED BY <1>5
<1> HIDE DEF f, g, nn, n
<1>7. SubSeq(g, 1, nn) = g
  BY <1>1, <1>6, WholeArray
<1> QED BY <1>2, <1>3, <1>6, <1>7 DEF f, nn, n

(* The second half of a signature, as crypto_sign computes it from the two *)
(* hashes and the key, is r + h d modulo the order.                        *)
THEOREM ScalarIsExact ==
  ASSUME OrderAssumption, NEW r \in Scalar, NEW h \in Scalar, NEW d \in Scalar
  PROVE  modL(MultiplyAdd(r, h, d))
           = Digits((Worth(r, BYTE, BYTES)
                       + Worth(h, BYTE, BYTES) * Worth(d, BYTE, BYTES)) % Order)
<1> DEFINE x == MultiplyAdd(r, h, d)
<1>1. x = Partial(r, h, d, BYTES) /\ x \in [1..(2 * BYTES) -> 0..MOST]
  BY MultiplyAddIs
<1>2. Worth(Partial(r, h, d, BYTES), BYTE, 2 * BYTES)
        = Worth(r, BYTE, BYTES) + Worth(h, BYTE, BYTES) * Worth(d, BYTE, BYTES)
  BY PartialWorth
<1> HIDE DEF x
<1>3. modL(x) = Digits(Worth(x, BYTE, 2 * BYTES) % Order)
  BY <1>1, ModLIsExact
<1> QED BY <1>1, <1>2, <1>3, Zenon DEF x

-----------------------------------------------------------------------------
(* Numbers that are equal modulo P. *)

Equals(a, b) == a \in Int /\ b \in Int /\ Congruent(a, b, P)

LEMMA EqualsIs ==
  ASSUME FieldAssumption
  PROVE  /\ \A a \in Int : Equals(a, a) /\ Equals(a % P, a)
         /\ \A a, b : Equals(a, b) => Equals(b, a) /\ a % P = b % P
         /\ \A a, b \in Int : a % P = b % P => Equals(a, b)
         /\ \A a, b, c : Equals(a, b) /\ Equals(b, c) => Equals(a, c)
<1>1. P \in Nat /\ P > 0
  BY FieldSizes
<1>2. ASSUME NEW a \in Int PROVE Equals(a, a) /\ Equals(a % P, a)
  <2> DEFINE r == a % P
  <2>1. r \in 0..(P - 1) /\ Congruent(r, a, P)
    BY <1>1, IntCongruentRemainder
  <2> HIDE DEF r
  <2>2. r \in Int /\ Congruent(a, a, P)
    BY <1>1, <2>1, CongruentSame
  <2> QED BY <2>1, <2>2 DEF Equals, r
<1>3. ASSUME NEW a, NEW b, Equals(a, b) PROVE Equals(b, a) /\ a % P = b % P
  <2>1. a \in Int /\ b \in Int /\ Congruent(a, b, P)
    BY <1>3 DEF Equals
  <2> QED BY <1>1, <2>1, CongruentBack, CongruentElements DEF Equals
<1>4. ASSUME NEW a, NEW b, NEW c, Equals(a, b), Equals(b, c) PROVE Equals(a, c)
  <2>1. a \in Int /\ b \in Int /\ c \in Int /\ Congruent(a, b, P) /\ Congruent(b, c, P)
    BY <1>4 DEF Equals
  <2> QED BY <1>1, <2>1, CongruentTrans DEF Equals
<1>5. ASSUME NEW a \in Int, NEW b \in Int, a % P = b % P PROVE Equals(a, b)
  <2> DEFINE r == a % P
  <2>1. Equals(r, a) /\ Equals(r, b)
    BY <1>2, <1>5
  <2> HIDE DEF r
  <2> QED BY <1>3, <1>4, <2>1
<1> QED BY <1>2, <1>3, <1>4, <1>5

LEMMA EqualsAdd ==
  ASSUME FieldAssumption, NEW a, NEW b, NEW c, NEW d, Equals(a, b), Equals(c, d)
  PROVE  Equals(a + c, b + d) /\ Equals(a - c, b - d)
<1>1. P \in Nat
  BY FieldSizes
<1>2. /\ a \in Int /\ b \in Int /\ c \in Int /\ d \in Int
      /\ Congruent(a, b, P) /\ Congruent(c, d, P)
  BY DEF Equals
<1>3. Congruent(a + 1 * c, b + 1 * d, P) /\ Congruent(a + (-1) * c, b + (-1) * d, P)
  <2>1. 1 \in Int /\ -1 \in Int
    OBVIOUS
  <2>2. Congruent(a + 1 * c, b + 1 * d, P)
    BY <1>1, <1>2, <2>1, CongruentPlus, Zenon
  <2>3. Congruent(a + (-1) * c, b + (-1) * d, P)
    BY <1>1, <1>2, <2>1, CongruentPlus, Zenon
  <2> QED BY <2>2, <2>3
<1>4. /\ a + 1 * c = a + c /\ b + 1 * d = b + d
      /\ a + (-1) * c = a - c /\ b + (-1) * d = b - d
      /\ a + c \in Int /\ b + d \in Int /\ a - c \in Int /\ b - d \in Int
  BY <1>2
<1> QED BY <1>3, <1>4 DEF Equals

LEMMA EqualsTimes ==
  ASSUME FieldAssumption, NEW a, NEW b, NEW c, NEW d, Equals(a, b), Equals(c, d)
  PROVE  Equals(a * c, b * d)
<1>1. P \in Nat
  BY FieldSizes
<1>2. /\ a \in Int /\ b \in Int /\ c \in Int /\ d \in Int
      /\ Congruent(a, b, P) /\ Congruent(c, d, P)
  BY DEF Equals
<1>3. Congruent(a * c, a * d, P)
  BY <1>1, <1>2, CongruentTimes
<1>4. Congruent(d * a, d * b, P)
  BY <1>1, <1>2, CongruentTimes
<1>5. /\ d * a = a * d /\ d * b = b * d /\ a * c \in Int /\ a * d \in Int /\ b * d \in Int
  BY <1>2
<1>6. Congruent(a * c, b * d, P)
  BY <1>1, <1>3, <1>4, <1>5, CongruentTrans
<1> QED BY <1>5, <1>6 DEF Equals

(* Limbs stand for any number that equals theirs.                          *)
LEMMA StandsEqual ==
  ASSUME FieldAssumption, NEW a, NEW u, NEW v, Stands(a, u), Equals(u, v)
  PROVE  Stands(a, v)
<1>1. u \in Int /\ v \in Int /\ Congruent(u, v, P) /\ a \in gf /\ Congruent(WorthOf(a), u, P)
  BY DEF Stands, Equals
<1>2. WorthOf(a) \in Int /\ P \in Nat
  BY <1>1, ElementFacts, FieldSizes
<1> QED BY <1>1, <1>2, CongruentTrans DEF Stands

LEMMA StandsEquals ==
  ASSUME FieldAssumption, NEW a, NEW u, Stands(a, u)
  PROVE  Equals(Element(a), u) /\ Element(a) = u % P /\ Element(a) \in 0..(P - 1)
<1>1. u \in Int /\ a \in gf /\ Element(a) = u % P
  BY StandsFor DEF Stands
<1>2. Element(a) \in 0..(P - 1)
  BY <1>1, ElementFacts
<1> QED BY <1>1, <1>2, EqualsIs

-----------------------------------------------------------------------------
(* The prime. *)

(* What squaring and multiplying computes, halving the exponent.           *)
IsSquaring(e, x, n) ==
  e = [k \in 0..n |-> IF k = 0 THEN 1
                      ELSE IF k % 2 = 1 THEN (((e[k \div 2] * e[k \div 2]) % P) * x) % P
                      ELSE (e[k \div 2] * e[k \div 2]) % P]

(* One turn of it, in powers. *)
LEMMA SquaringStep ==
  ASSUME FieldAssumption, NEW x \in Int, NEW k \in Nat, k > 0, NEW h, h = k \div 2,
         NEW e, e = PowersOf(x)[h] % P
  PROVE  PowersOf(x)[k] % P
           = IF k % 2 = 1 THEN (((e * e) % P) * x) % P ELSE (e * e) % P
<1> DEFINE q == PowersOf(x)
<1>1. h \in Nat /\ h + h \in Nat /\ (k % 2 = 1 => k = (h + h) + 1) /\ (k % 2 # 1 => k = h + h)
  <2>1. k = 2 * h + (k % 2) /\ h \in Nat /\ k % 2 \in {0, 1}
    OBVIOUS
  <2> QED BY <2>1
<1>2. q[h] \in Int /\ q[h + h] = q[h] * q[h] /\ q[h + h] \in Int
  <2>1. q[h] \in Int /\ q[h + h] \in Int
    BY <1>1, PowersAreInts
  <2> QED BY <1>1, <2>1, PowerOfSum
<1>3. q[(h + h) + 1] = x * q[h + h]
  BY <1>1, PowersAreInts
<1> HIDE DEF q
<1>4. Equals(e, q[h])
  BY <1>2, EqualsIs DEF q
<1>5. Equals(e * e, q[h + h])
  BY <1>2, <1>4, EqualsTimes
<1>6. Equals((e * e) % P, q[h + h]) /\ (e * e) % P = q[h + h] % P
  BY <1>5, EqualsIs DEF Equals
<1>7. Equals(((e * e) % P) * x, q[h + h] * x)
  <2>1. Equals(x, x)
    BY EqualsIs
  <2> QED BY <1>6, <2>1, EqualsTimes
<1>8. (((e * e) % P) * x) % P = (q[h + h] * x) % P
  BY <1>7, EqualsIs
<1>9. q[h + h] * x = x * q[h + h]
  BY <1>2
<1> QED BY <1>1, <1>3, <1>6, <1>8, <1>9 DEF q

(* So all of its numbers are powers, ... *)
LEMMA SquaringIsPower ==
  ASSUME FieldAssumption, NEW x \in Int, NEW n \in Nat, NEW e, IsSquaring(e, x, n)
  PROVE  e[n] = PowersOf(x)[n] % P
<1> DEFINE K == {k \in 0..n : e[k] = PowersOf(x)[k] % P}
<1>1. \A k \in 0..n : e[k] = IF k = 0 THEN 1
                      ELSE IF k % 2 = 1 THEN (((e[k \div 2] * e[k \div 2]) % P) * x) % P
                      ELSE (e[k \div 2] * e[k \div 2]) % P
  BY Zenon DEF IsSquaring
<1>2. 0 \in K
  <2>1. PowersOf(x)[0] = 1 /\ P \in Nat /\ P > 1
    BY FieldSizes, PowersAreInts
  <2>2. 1 % P = 1
    BY <2>1
  <2> QED BY <1>1, <2>1, <2>2
<1>3. ASSUME NEW k \in 1..n, k \div 2 \in K PROVE k \in K
  <2>1. k \in Nat /\ k > 0 /\ k # 0 /\ k \in 0..n
    OBVIOUS
  <2>2. e[k \div 2] = PowersOf(x)[k \div 2] % P
    BY <1>3
  <2>3. PowersOf(x)[k] % P
           = IF k % 2 = 1 THEN (((e[k \div 2] * e[k \div 2]) % P) * x) % P
             ELSE (e[k \div 2] * e[k \div 2]) % P
    <3> HIDE DEF K
    <3> QED BY <2>1, <2>2, SquaringStep
  <2>4. e[k] = PowersOf(x)[k] % P
    <3> HIDE DEF K
    <3> QED BY <1>1, <2>1, <2>3, Zenon
  <2> QED BY <2>1, <2>4
<1>4. 0..n \subseteq K
  <2> HIDE DEF K
  <2> QED BY <1>2, <1>3, HalvingInduction
<1> QED BY <1>4

(* ... and there is such a function. *)
LEMMA SquaringExists ==
  ASSUME FieldAssumption, NEW x \in Int, NEW n \in Nat
  PROVE  \E e : IsSquaring(e, x, n)
<1> DEFINE e == [k \in 0..n |-> PowersOf(x)[k] % P]
           f == [k \in 0..n |-> IF k = 0 THEN 1
                      ELSE IF k % 2 = 1 THEN (((e[k \div 2] * e[k \div 2]) % P) * x) % P
                      ELSE (e[k \div 2] * e[k \div 2]) % P]
<1>1. ASSUME NEW k \in 0..n PROVE e[k] = f[k]
  <2>1. CASE k = 0
    <3>1. PowersOf(x)[0] = 1 /\ P \in Nat /\ P > 1
      BY FieldSizes, PowersAreInts
    <3>2. 1 % P = 1
      BY <3>1
    <3> QED BY <2>1, <3>1, <3>2
  <2>2. CASE k # 0
    <3>1. k \in Nat /\ k > 0 /\ k \div 2 \in 0..n
      BY <2>2
    <3>2. e[k \div 2] = PowersOf(x)[k \div 2] % P /\ e[k] = PowersOf(x)[k] % P
      BY <3>1, Zenon
    <3> HIDE DEF e
    <3>3. PowersOf(x)[k] % P
           = IF k % 2 = 1 THEN (((e[k \div 2] * e[k \div 2]) % P) * x) % P
             ELSE (e[k \div 2] * e[k \div 2]) % P
      BY <3>1, <3>2, SquaringStep
    <3> QED BY <2>2, <3>2, <3>3, Zenon
  <2> QED BY <2>1, <2>2
<1>2. e = f
  BY <1>1, Zenon
<1> QED BY <1>2, Zenon DEF IsSquaring

(* Exp, by squaring, is the power modulo the prime.                        *)
LEMMA ExpIsPower ==
  ASSUME FieldAssumption, NEW x \in Int, NEW n \in Nat
  PROVE  Exp(x, n) = PowersOf(x)[n] % P
<1> DEFINE chosen == CHOOSE e : IsSquaring(e, x, n)
<1>1. IsSquaring(chosen, x, n)
  BY SquaringExists, Zenon
<1>2. Exp(x, n) = chosen[n]
  BY Zenon DEF Exp, IsSquaring
<1> HIDE DEF chosen
<1> QED BY <1>1, <1>2, SquaringIsPower

(* Fermat's theorem in powers.                                             *)
LEMMA Fermat ==
  ASSUME FieldAssumption, PrimeAssumption, NEW x \in 1..(P - 1)
  PROVE  PowersOf(x)[P - 1] % P = 1
<1>1. P \in Nat /\ P > 1
  BY FieldSizes
<1>2. P - 1 \in Nat /\ x \in Int
  BY <1>1
<1>3. Exp(x, P - 1) = PowersOf(x)[P - 1] % P
  BY <1>2, ExpIsPower
<1> QED BY <1>3 DEF PrimeAssumption

(* A product is zero only if a factor is.                                  *)
LEMMA NoDivisors ==
  ASSUME FieldAssumption, PrimeAssumption, NEW a, NEW b, a \in Int, Equals(a * b, 0), b \in Int
  PROVE  Equals(a, 0) \/ Equals(b, 0)
<1> DEFINE r == a % P
           q == PowersOf(r)[P - 2]
<1>1. P \in Nat /\ P > 1
  BY FieldSizes
<1>2. Equals(r, a) /\ r \in 0..(P - 1)
  <2>1. P > 0
    BY <1>1
  <2> QED BY <1>1, <2>1, EqualsIs, IntCongruentRemainder
<1> HIDE DEF r
<1>3. CASE r = 0
  BY <1>2, <1>3, EqualsIs
<1>4. CASE r # 0
  <2>1. r \in 1..(P - 1) /\ r \in Int
    BY <1>1, <1>2, <1>4
  <2>2. PowersOf(r)[P - 1] % P = 1
    BY <2>1, Fermat
  <2>3. q \in Int /\ PowersOf(r)[P - 1] = r * q
    <3>1. P - 2 \in Nat /\ (P - 2) + 1 = P - 1
      BY <1>1
    <3> QED BY <2>1, <3>1, PowersAreInts
  <2> HIDE DEF q
  <2>4. Equals(1, r * q)
    <3>1. r * q \in Int
      BY <2>1, <2>3
    <3>2. (r * q) % P = 1
      BY <2>2, <2>3
    <3>3. Equals((r * q) % P, r * q)
      BY <3>1, EqualsIs
    <3> QED BY <3>2, <3>3
  <2>5. Equals(1 * b, (r * q) * b)
    <3>1. Equals(b, b)
      BY EqualsIs
    <3> QED BY <2>4, <3>1, EqualsTimes
  <2>6. Equals((r * b) * q, 0 * q)
    <3>1. Equals(r * b, a * b) /\ Equals(q, q)
      <4>1. Equals(b, b) /\ Equals(q, q)
        BY <2>3, EqualsIs
      <4> QED BY <1>2, <4>1, EqualsTimes
    <3>2. Equals(r * b, 0)
      BY <3>1, EqualsIs
    <3> QED BY <3>1, <3>2, EqualsTimes
  <2>7. 1 * b = b /\ (r * q) * b = (r * b) * q /\ 0 * q = 0
    BY <2>1, <2>3
  <2>8. Equals(b, (r * b) * q) /\ Equals((r * b) * q, 0)
    BY <2>5, <2>6, <2>7
  <2>9. Equals(b, 0)
    BY <2>8, EqualsIs
  <2> QED BY <2>9
<1> QED BY <1>3, <1>4

LEMMA NotZero ==
  ASSUME FieldAssumption, PrimeAssumption, NEW a \in Int, NEW b \in Int,
         ~Equals(a, 0), ~Equals(b, 0)
  PROVE  ~Equals(a * b, 0)
BY NoDivisors

(* A factor that is not zero can be left out.                              *)
LEMMA EqualsCancel ==
  ASSUME FieldAssumption, PrimeAssumption, NEW a \in Int, NEW b \in Int, NEW c \in Int,
         Equals(a * c, b * c), ~Equals(c, 0)
  PROVE  Equals(a, b)
<1>1. Equals(a * c - b * c, b * c - b * c)
  <2>1. Equals(b * c, b * c)
    <3>1. b * c \in Int
      OBVIOUS
    <3> QED BY <3>1, EqualsIs
  <2> QED BY <2>1, EqualsAdd
<1>2. a * c - b * c = (a - b) * c /\ b * c - b * c = 0 /\ a - b \in Int
  OBVIOUS
<1>3. Equals((a - b) * c, 0)
  BY <1>1, <1>2
<1>4. Equals(a - b, 0)
  BY <1>2, <1>3, NoDivisors
<1>5. Equals((a - b) + b, 0 + b)
  <2>1. Equals(b, b)
    BY EqualsIs
  <2> QED BY <1>4, <2>1, EqualsAdd
<1>6. (a - b) + b = a /\ 0 + b = b
  OBVIOUS
<1> QED BY <1>5, <1>6

-----------------------------------------------------------------------------
(* Points: the four coordinates of the code stand for x z, y z, z and      *)
(* x y z, where x and y are the coordinates of the point.                  *)

Pairs == (0..(P - 1)) \X (0..(P - 1))

Coordinates(p, x, y, z) ==
  /\ Stands(p[1], x * z) /\ Stands(p[2], y * z)
  /\ Stands(p[3], z) /\ Stands(p[4], (x * y) * z)

IsPoint(p, u) ==
  /\ Within(p[1], 1) /\ Tight(p[2]) /\ Tight(p[3]) /\ Tight(p[4])
  /\ \E z \in Int : ~Equals(z, 0) /\ Coordinates(p, u[1], u[2], z)

LEMMA RemainderTimes ==
  ASSUME FieldAssumption, NEW a, NEW b, Equals(a, b), NEW c \in Int
  PROVE  Equals((a * c) % P, b * c)
<1>1. Equals(c, c)
  BY EqualsIs
<1>2. Equals(a * c, b * c)
  BY <1>1, EqualsTimes
<1>3. a * c \in Int
  BY <1>2 DEF Equals
<1>4. Equals((a * c) % P, a * c)
  BY <1>3, EqualsIs
<1> QED BY <1>2, <1>4, EqualsIs

LEMMA RemainderPlus ==
  ASSUME FieldAssumption, NEW a, NEW b, Equals(a, b), NEW c, NEW d, Equals(c, d)
  PROVE  Equals((a + c) % P, b + d) /\ Equals((a - c) % P, b - d)
<1>1. Equals(a + c, b + d) /\ Equals(a - c, b - d)
  BY EqualsAdd
<1>2. a + c \in Int /\ a - c \in Int
  BY <1>1 DEF Equals
<1>3. Equals((a + c) % P, a + c) /\ Equals((a - c) % P, a - c)
  BY <1>2, EqualsIs
<1> QED BY <1>1, <1>3, EqualsIs

(* A remainder is zero only for the numbers that equal zero.               *)
LEMMA RemainderZero ==
  ASSUME FieldAssumption, NEW a, NEW b, Equals(a, b), a \in 0..(P - 1)
  PROVE  a = 0 <=> Equals(b, 0)
<1>1. P \in Nat /\ P > 0
  BY FieldSizes
<1>2. ASSUME a = 0 PROVE Equals(b, 0)
  BY <1>2, EqualsIs
<1>3. ASSUME Equals(b, 0) PROVE a = 0
  <2>1. Equals(a, 0)
    BY <1>3, EqualsIs
  <2>2. a % P = 0 % P
    BY <2>1, EqualsIs
  <2> QED BY <1>1, <2>2
<1> QED BY <1>2, <1>3

(* What the addition law says, without the remainders.                     *)
LEMMA LawFacts ==
  ASSUME FieldAssumption, Element(D) \in Int, NEW u \in Pairs, NEW v \in Pairs, NEW w \in Pairs,
         IsSum(u, v, w)
  PROVE  \E k \in Int :
           /\ k = (((Element(D) * u[1]) * v[1]) * u[2]) * v[2]
           /\ ~Equals(1 + k, 0) /\ ~Equals(1 - k, 0)
           /\ Equals(w[1] * (1 + k), u[1] * v[2] + v[1] * u[2])
           /\ Equals(w[2] * (1 - k), u[2] * v[2] + u[1] * v[1])
<1> DEFINE d == Element(D)
           x1 == u[1]
           y1 == u[2]
           x2 == v[1]
           y2 == v[2]
           x3 == w[1]
           y3 == w[2]
           k == (((d * x1) * x2) * y1) * y2
           m == Mixed(u, v)
           plus == (1 + m) % P
           minus == (1 - m) % P
           c == Cross(u, v)
           r == DirectSum(u, v)
<1>1. P \in Nat /\ P > 0
  BY FieldSizes
<1>2. d \in Int /\ x1 \in Int /\ y1 \in Int /\ x2 \in Int /\ y2 \in Int /\ x3 \in Int /\ y3 \in Int
  BY <1>1 DEF Pairs
<1>3. m = ((((((((d * x1) % P) * x2) % P) * y1) % P) * y2) % P)
  BY Zenon DEF Mixed
<1>4. c = (((x1 * y2) % P) + ((x2 * y1) % P)) % P
  BY Zenon DEF Cross
<1>5. r = (((y1 * y2) % P) + ((x1 * x2) % P)) % P
  BY Zenon DEF DirectSum
<1>6. /\ plus # 0 /\ (x3 * plus) % P = c
      /\ minus # 0 /\ (y3 * minus) % P = r
  BY Zenon DEF IsSum
<1> HIDE DEF d, x1, y1, x2, y2, x3, y3, m, c, r
<1>7. Equals(m, k) /\ k \in Int
  <2>1. Equals(d, d)
    BY <1>2, EqualsIs
  <2>2. Equals((d * x1) % P, d * x1)
    BY <1>2, <2>1, RemainderTimes
  <2>3. Equals((((d * x1) % P) * x2) % P, (d * x1) * x2)
    BY <1>2, <2>2, RemainderTimes
  <2>4. Equals((((((d * x1) % P) * x2) % P) * y1) % P, ((d * x1) * x2) * y1)
    BY <1>2, <2>3, RemainderTimes
  <2>5. Equals(m, k)
    BY <1>2, <1>3, <2>4, RemainderTimes
  <2> QED BY <2>5 DEF Equals
<1>8. ASSUME NEW a \in Int, NEW b \in Int, NEW e \in Int, NEW f \in Int
      PROVE  Equals((((a * b) % P) + ((e * f) % P)) % P, a * b + e * f)
  <2>1. Equals(a, a) /\ Equals(e, e)
    BY EqualsIs
  <2>2. Equals((a * b) % P, a * b) /\ Equals((e * f) % P, e * f)
    BY <2>1, RemainderTimes
  <2> QED BY <2>2, RemainderPlus
<1>9. Equals(c, x1 * y2 + x2 * y1) /\ Equals(r, y1 * y2 + x1 * x2)
  BY <1>2, <1>4, <1>5, <1>8
<1> HIDE DEF k
<1>10. Equals(plus, 1 + k) /\ Equals(minus, 1 - k)
  <2>1. Equals(1, 1)
    BY EqualsIs
  <2> QED BY <1>7, <2>1, RemainderPlus
<1>11. plus \in 0..(P - 1) /\ minus \in 0..(P - 1)
  <2>1. 1 + m \in Int /\ 1 - m \in Int
    <3>1. m \in Int
      BY <1>7 DEF Equals
    <3> QED BY <3>1
  <2> QED BY <1>1, <2>1, IntCongruentRemainder
<1>12. 1 + k \in Int /\ 1 - k \in Int
  BY <1>7
<1> HIDE DEF plus, minus
<1>13. ~Equals(1 + k, 0) /\ ~Equals(1 - k, 0)
  BY <1>6, <1>10, <1>11, RemainderZero
<1>14. Equals(x3 * (1 + k), c) /\ Equals(y3 * (1 - k), r)
  <2>1. Equals(x3, x3) /\ Equals(y3, y3)
    BY <1>2, EqualsIs
  <2>2. Equals(x3 * plus, x3 * (1 + k)) /\ Equals(y3 * minus, y3 * (1 - k))
    BY <1>10, <2>1, EqualsTimes
  <2>3. x3 * plus \in Int /\ y3 * minus \in Int
    BY <2>2 DEF Equals
  <2>4. Equals(c, x3 * plus) /\ Equals(r, y3 * minus)
    BY <1>6, <2>3, EqualsIs
  <2> QED BY <2>2, <2>4, EqualsIs
<1>15. Equals(x3 * (1 + k), x1 * y2 + x2 * y1) /\ Equals(y3 * (1 - k), y1 * y2 + x1 * x2)
  BY <1>9, <1>14, EqualsIs
<1> QED BY <1>7, <1>13, <1>15 DEF k, d, x1, y1, x2, y2, x3, y3

-----------------------------------------------------------------------------
(* The addition of points. *)

(* CurveAssumption, in the words of the lemmas. *)
LEMMA CurveFacts ==
  ASSUME FieldAssumption, CurveAssumption
  PROVE  /\ Tight(D) /\ Tight(D2) /\ Tight(X) /\ Tight(Y) /\ Tight(I)
         /\ Element(D) \in Int /\ Stands(D2, 2 * Element(D))
         /\ Equals(Element(I) * Element(I), -1) /\ ~Equals(Element(D), -1)
<1>1. /\ RADIX \in Nat /\ RADIX >= 256 /\ LIMBS \in Nat /\ LIMBS > 1 /\ P \in Nat /\ P > 0
  BY FieldSizes
<1>2. ASSUME NEW a \in [1..LIMBS -> 0..(RADIX - 1)] PROVE Tight(a)
  <2> DEFINE n == LIMBS
             w == RADIX
  <2> HIDE DEF n, w
  <2>1. a \in [1..n -> 0..(w - 1)]
    BY DEF n, w
  <2>2. a \in [1..n -> Int]
    BY <1>1, <2>1 DEF w
  <2>3. 1 \in 1..n /\ 2..n \subseteq 1..n
    BY <1>1 DEF n
  <2>4. a[1] \in 0..(w - 1) /\ \A i \in 2..n : a[i] \in 0..(w - 1)
    BY <2>1, <2>3
  <2>5. -38 <= a[1] /\ a[1] <= w + 37
    BY <1>1, <2>4 DEF w
  <2> QED BY <2>2, <2>4, <2>5 DEF Tight, gf, n, w
<1>3. Tight(D) /\ Tight(D2) /\ Tight(X) /\ Tight(Y) /\ Tight(I)
  BY <1>2 DEF CurveAssumption
<1> DEFINE d == Element(D)
           d2 == Element(D2)
           i == Element(I)
<1>4. d \in 0..(P - 1) /\ d2 \in 0..(P - 1) /\ i \in 0..(P - 1)
  BY <1>3, ElementFacts DEF Tight
<1>5. d2 = (2 * d) % P /\ (i * i + 1) % P = 0 /\ (d + 1) % P # 0
  BY Zenon DEF CurveAssumption
<1>6. Stands(D2, d2)
  BY <1>3, StandsFor DEF Tight
<1> HIDE DEF d, d2, i
<1>7. d \in Int /\ d2 \in Int /\ i \in Int /\ i * i \in Int /\ 2 * d \in Int
  BY <1>1, <1>4
<1>8. Stands(D2, 2 * d)
  <2>1. Equals(d2, 2 * d)
    BY <1>5, <1>7, EqualsIs
  <2> QED BY <1>6, <2>1, StandsEqual
<1>9. Equals(i * i, -1)
  <2>1. i * i + 1 \in Int /\ 0 \in Int /\ (i * i + 1) % P = 0 % P
    BY <1>1, <1>5, <1>7
  <2>2. Equals(i * i + 1, 0) /\ Equals(1, 1)
    BY <2>1, EqualsIs
  <2>3. Equals((i * i + 1) - 1, 0 - 1)
    BY <2>2, EqualsAdd
  <2>4. (i * i + 1) - 1 = i * i /\ 0 - 1 = -1
    BY <1>7
  <2> QED BY <2>3, <2>4
<1>10. ~Equals(d, -1)
  <2>1. ASSUME Equals(d, -1) PROVE FALSE
    <3>1. Equals(1, 1)
      BY EqualsIs
    <3>2. Equals(d + 1, -1 + 1)
      BY <2>1, <3>1, EqualsAdd
    <3>3. (d + 1) % P = (-1 + 1) % P
      BY <3>2, EqualsIs
    <3>4. (-1 + 1) % P = 0
      BY <1>1
    <3> QED BY <1>5, <3>3, <3>4
  <2> QED BY <2>1
<1> QED BY <1>3, <1>7, <1>8, <1>9, <1>10 DEF d, i

(* The formulas of add, on numbers: what e, f, g and h are.                *)
AreSums(x1, y1, z1, x2, y2, z2, d, m, k) ==
  LET a == (y1 * z1 - x1 * z1) * (y2 * z2 - x2 * z2)
      b == (x1 * z1 + y1 * z1) * (x2 * z2 + y2 * z2)
      c == (((x1 * y1) * z1) * ((x2 * y2) * z2)) * (2 * d)
      s == z1 * z2 + z1 * z2
  IN  /\ b - a = m * (x1 * y2 + x2 * y1) /\ b + a = m * (y1 * y2 + x1 * x2)
      /\ s - c = m * (1 - k) /\ s + c = m * (1 + k)

LEMMA SumFormulas ==
  ASSUME NEW x1 \in Int, NEW y1 \in Int, NEW z1 \in Int,
         NEW x2 \in Int, NEW y2 \in Int, NEW z2 \in Int, NEW d \in Int,
         NEW m, m = 2 * (z1 * z2), NEW k, k = (((d * x1) * x2) * y1) * y2
  PROVE  AreSums(x1, y1, z1, x2, y2, z2, d, m, k)
<1> DEFINE s1 == x1 * z1
           t1 == y1 * z1
           s2 == x2 * z2
           t2 == y2 * z2
           a == (t1 - s1) * (t2 - s2)
           b == (s1 + t1) * (s2 + t2)
           c == (((x1 * y1) * z1) * ((x2 * y2) * z2)) * (2 * d)
           s == z1 * z2 + z1 * z2
<1>1. /\ s1 * s2 = (z1 * z2) * (x1 * x2) /\ t1 * t2 = (z1 * z2) * (y1 * y2)
      /\ s1 * t2 = (z1 * z2) * (x1 * y2) /\ t1 * s2 = (z1 * z2) * (x2 * y1)
  OBVIOUS
<1>2. s1 \in Int /\ t1 \in Int /\ s2 \in Int /\ t2 \in Int
  OBVIOUS
<1>3. b - a = 2 * (s1 * t2 + t1 * s2) /\ b + a = 2 * (t1 * t2 + s1 * s2)
  <2> HIDE DEF s1, t1, s2, t2
  <2> QED BY <1>2
<1>4. b - a = m * (x1 * y2 + x2 * y1) /\ b + a = m * (y1 * y2 + x1 * x2)
  <2> DEFINE zz == z1 * z2
             xy == x1 * y2
             yx == x2 * y1
             yy == y1 * y2
             xx == x1 * x2
  <2>1. zz \in Int /\ xy \in Int /\ yx \in Int /\ yy \in Int /\ xx \in Int
    OBVIOUS
  <2>2. b - a = 2 * (zz * xy + zz * yx) /\ b + a = 2 * (zz * yy + zz * xx) /\ m = 2 * zz
    BY <1>1, <1>3
  <2> HIDE DEF zz, xy, yx, yy, xx, a, b
  <2>3. 2 * (zz * xy + zz * yx) = (2 * zz) * (xy + yx) /\ 2 * (zz * yy + zz * xx) = (2 * zz) * (yy + xx)
    BY <2>1
  <2> QED BY <2>2, <2>3 DEF xy, yx, yy, xx
<1>5. c = m * k
  <2> DEFINE zz == z1 * z2
             q == (x1 * y1) * (x2 * y2)
  <2>1. zz \in Int /\ q \in Int /\ ((x1 * y1) * z1) * ((x2 * y2) * z2) = zz * q
    OBVIOUS
  <2>2. k = d * q
    OBVIOUS
  <2>3. c = (zz * q) * (2 * d)
    BY <2>1
  <2> HIDE DEF zz, q, c
  <2>4. (zz * q) * (2 * d) = (2 * zz) * (d * q)
    BY <2>1
  <2> QED BY <2>2, <2>3, <2>4 DEF zz
<1>6. m \in Int /\ k \in Int /\ s = m
  OBVIOUS
<1> HIDE DEF a, b, c, s
<1>7. s - c = m * (1 - k) /\ s + c = m * (1 + k)
  <2>1. m * (1 - k) = m - m * k /\ m * (1 + k) = m + m * k
    BY <1>6
  <2> QED BY <1>5, <1>6, <2>1
<1> QED BY <1>4, <1>7, Zenon DEF AreSums, a, b, c, s, s1, t1, s2, t2

LEMMA LooseIfWithin ==
  ASSUME FieldAssumption, NEW a
  PROVE  /\ Within(a, 1) => Loose(a)
         /\ Within(a, 2) => Loose(a)
         /\ Within(a, 3) => Loose(a)
         /\ Tight(a) => Within(a, 1)
<1>1. 1 \in Nat /\ 2 \in Nat /\ 3 \in Nat /\ 1 <= 3 /\ 2 <= 3
  OBVIOUS
<1> QED BY <1>1, WithinFacts

(* The numbers that e, f, g and h stand for.                               *)
AddsUp(p, q, x1, y1, x2, y2, m, k) ==
  \E e, f, g, h :
    /\ add(p, q) = Completed(e, f, g, h)
    /\ Loose(e) /\ Loose(f) /\ Loose(g) /\ Loose(h)
    /\ Stands(e, m * (x1 * y2 + x2 * y1)) /\ Stands(h, m * (y1 * y2 + x1 * x2))
    /\ Stands(f, m * (1 - k)) /\ Stands(g, m * (1 + k))

LEMMA SumsOfPoints ==
  ASSUME FieldAssumption, CurveAssumption, NEW p, NEW q,
         Within(p[1], 1), Tight(p[2]), Tight(p[3]), Tight(p[4]),
         Within(q[1], 1), Tight(q[2]), Tight(q[3]), Tight(q[4]),
         NEW x1 \in Int, NEW y1 \in Int, NEW z1 \in Int,
         NEW x2 \in Int, NEW y2 \in Int, NEW z2 \in Int,
         Coordinates(p, x1, y1, z1), Coordinates(q, x2, y2, z2),
         NEW m, m = 2 * (z1 * z2),
         NEW k, k = (((Element(D) * x1) * x2) * y1) * y2
  PROVE  AddsUp(p, q, x1, y1, x2, y2, m, k)
<1> DEFINE dn == Element(D)
           a1 == Z(p[2], p[1])
           a2 == Z(q[2], q[1])
           b1 == A(p[1], p[2])
           b2 == A(q[1], q[2])
           a == M(a1, a2)
           b == M(b1, b2)
           t == M(p[4], q[4])
           c == M(t, D2)
           r == M(p[3], q[3])
           d == A(r, r)
           na == (y1 * z1 - x1 * z1) * (y2 * z2 - x2 * z2)
           nb == (x1 * z1 + y1 * z1) * (x2 * z2 + y2 * z2)
           nc == (((x1 * y1) * z1) * ((x2 * y2) * z2)) * (2 * dn)
           nd == z1 * z2 + z1 * z2
<1>1. /\ Stands(p[1], x1 * z1) /\ Stands(p[2], y1 * z1) /\ Stands(p[3], z1)
      /\ Stands(p[4], (x1 * y1) * z1)
      /\ Stands(q[1], x2 * z2) /\ Stands(q[2], y2 * z2) /\ Stands(q[3], z2)
      /\ Stands(q[4], (x2 * y2) * z2)
  BY Zenon DEF Coordinates
<1>2. Tight(D2) /\ Stands(D2, 2 * dn) /\ dn \in Int
  BY CurveFacts
<1>3. add(p, q) = Completed(Z(b, a), Z(d, c), A(d, c), A(b, a))
  BY Zenon DEF add, SumOfProducts, Doubled
<1>4. 1 \in Nat /\ 2 \in Nat /\ 1 + 1 = 2 /\ 2 + 1 = 3
  OBVIOUS
<1>5. /\ nb - na = m * (x1 * y2 + x2 * y1) /\ nb + na = m * (y1 * y2 + x1 * x2)
      /\ nd - nc = m * (1 - k) /\ nd + nc = m * (1 + k)
  <2>1. AreSums(x1, y1, z1, x2, y2, z2, dn, m, k)
    BY <1>2, SumFormulas, Zenon
  <2> QED BY <2>1, Zenon DEF AreSums
<1> HIDE DEF dn
<1>6. ASSUME NEW v, Tight(v) PROVE Within(v, 1) /\ Loose(v)
  BY <1>6, LooseIfWithin
<1>7. ASSUME NEW v, NEW w, NEW i, NEW j, Within(v, 1), Within(w, 1), Stands(v, i), Stands(w, j)
      PROVE  /\ Within(A(v, w), 2) /\ Loose(A(v, w)) /\ Stands(A(v, w), i + j)
             /\ Within(Z(v, w), 2) /\ Loose(Z(v, w)) /\ Stands(Z(v, w), i - j)
  <2>1. /\ Within(A(v, w), 1 + 1) /\ Stands(A(v, w), i + j)
        /\ Within(Z(v, w), 1 + 1) /\ Stands(Z(v, w), i - j)
    BY <1>4, <1>7, SumsStand, Zenon
  <2>2. Within(A(v, w), 2) /\ Within(Z(v, w), 2)
    BY <1>4, <2>1, Zenon
  <2> QED BY <2>1, <2>2, LooseIfWithin
<1>8. /\ Loose(a1) /\ Stands(a1, y1 * z1 - x1 * z1)
      /\ Loose(a2) /\ Stands(a2, y2 * z2 - x2 * z2)
  BY <1>1, <1>6, <1>7, Zenon
<1>9. /\ Loose(b1) /\ Stands(b1, x1 * z1 + y1 * z1)
      /\ Loose(b2) /\ Stands(b2, x2 * z2 + y2 * z2)
  BY <1>1, <1>6, <1>7, Zenon
<1> HIDE DEF a1, a2, b1, b2
<1>10. Tight(a) /\ Stands(a, na)
  BY <1>8, ProductStands, Zenon
<1>11. Tight(b) /\ Stands(b, nb)
  BY <1>9, ProductStands, Zenon
<1>12. Tight(t) /\ Stands(t, ((x1 * y1) * z1) * ((x2 * y2) * z2))
  BY <1>1, <1>6, ProductStands, Zenon
<1> HIDE DEF t
<1>13. Tight(c) /\ Stands(c, nc)
  BY <1>2, <1>6, <1>12, ProductStands, Zenon
<1>14. Tight(r) /\ Stands(r, z1 * z2)
  BY <1>1, <1>6, ProductStands, Zenon
<1> HIDE DEF r
<1>15. Within(d, 2) /\ Stands(d, nd)
  BY <1>6, <1>7, <1>14, Zenon
<1> HIDE DEF a, b, c, d, na, nb, nc, nd
<1>16. /\ Loose(Z(b, a)) /\ Stands(Z(b, a), nb - na)
       /\ Loose(A(b, a)) /\ Stands(A(b, a), nb + na)
  BY <1>6, <1>7, <1>10, <1>11, Zenon
<1>17. /\ Loose(Z(d, c)) /\ Stands(Z(d, c), nd - nc)
       /\ Loose(A(d, c)) /\ Stands(A(d, c), nd + nc)
  <2>1. /\ Within(A(d, c), 2 + 1) /\ Stands(A(d, c), nd + nc)
        /\ Within(Z(d, c), 2 + 1) /\ Stands(Z(d, c), nd - nc)
    BY <1>4, <1>6, <1>13, <1>15, SumsStand, Zenon
  <2>2. Within(A(d, c), 3) /\ Within(Z(d, c), 3)
    BY <1>4, <2>1, Zenon
  <2> QED BY <2>1, <2>2, LooseIfWithin
<1> QED BY <1>3, <1>5, <1>16, <1>17, Zenon DEF AddsUp

(* add returns the sum of two points, by the one formula of the curve for  *)
(* all of them: of equal, neutral and opposite points too.                 *)
THEOREM AddIsSum ==
  ASSUME FieldAssumption, CurveAssumption, PrimeAssumption,
         NEW p, NEW q, NEW u \in Pairs, NEW v \in Pairs, NEW w \in Pairs,
         IsPoint(p, u), IsPoint(q, v), IsSum(u, v, w)
  PROVE  IsPoint(add(p, q), w)
<1> DEFINE x1 == u[1]
           y1 == u[2]
           x2 == v[1]
           y2 == v[2]
           x3 == w[1]
           y3 == w[2]
           cross == x1 * y2 + x2 * y1
           direct == y1 * y2 + x1 * x2
<1>1. x1 \in Int /\ y1 \in Int /\ x2 \in Int /\ y2 \in Int /\ x3 \in Int /\ y3 \in Int
  <2>1. P \in Nat
    BY FieldSizes
  <2> QED BY <2>1 DEF Pairs
<1>2. Element(D) \in Int
  BY CurveFacts
<1>3. PICK k \in Int :
        /\ k = (((Element(D) * x1) * x2) * y1) * y2
        /\ ~Equals(1 + k, 0) /\ ~Equals(1 - k, 0)
        /\ Equals(x3 * (1 + k), cross) /\ Equals(y3 * (1 - k), direct)
  BY <1>2, LawFacts
<1>4. PICK z1 \in Int : ~Equals(z1, 0) /\ Coordinates(p, x1, y1, z1)
  BY DEF IsPoint
<1>5. PICK z2 \in Int : ~Equals(z2, 0) /\ Coordinates(q, x2, y2, z2)
  BY DEF IsPoint
<1> DEFINE m == 2 * (z1 * z2)
           ne == m * cross
           nh == m * direct
           nf == m * (1 - k)
           ng == m * (1 + k)
           z3 == ng * nf
<1>6. /\ Within(p[1], 1) /\ Tight(p[2]) /\ Tight(p[3]) /\ Tight(p[4])
      /\ Within(q[1], 1) /\ Tight(q[2]) /\ Tight(q[3]) /\ Tight(q[4])
  BY DEF IsPoint
<1> HIDE DEF x1, y1, x2, y2, x3, y3
<1>7. PICK e, f, g, h :
        /\ add(p, q) = Completed(e, f, g, h)
        /\ Loose(e) /\ Loose(f) /\ Loose(g) /\ Loose(h)
        /\ Stands(e, ne) /\ Stands(h, nh) /\ Stands(f, nf) /\ Stands(g, ng)
  <2> HIDE DEF m
  <2>1. m = 2 * (z1 * z2)
    BY DEF m
  <2>2. AddsUp(p, q, x1, y1, x2, y2, m, k)
    BY <1>1, <1>3, <1>4, <1>5, <1>6, <2>1, SumsOfPoints, Zenon
  <2> QED BY <2>2, Zenon DEF AddsUp, cross, direct
<1>8. m \in Int /\ ~Equals(m, 0)
  <2>1. ~Equals(2, 0)
    <3>1. P \in Nat /\ P > 2
      BY FieldSizes
    <3>2. ASSUME Equals(2, 0) PROVE FALSE
      <4>1. 2 % P = 0 % P
        BY <3>2, EqualsIs
      <4>2. 2 = 0 * P + 2 /\ 0 = 0 * P + 0 /\ 0 \in Nat
        BY <3>1
      <4>3. 2 % P = 2 /\ 0 % P = 0
        BY <3>1, <4>2, DivisionUnique
      <4> QED BY <4>1, <4>3
    <3> QED BY <3>2
  <2>2. ~Equals(z1 * z2, 0) /\ z1 * z2 \in Int
    BY <1>4, <1>5, NotZero
  <2> DEFINE zz == z1 * z2
  <2> HIDE DEF zz
  <2>3. zz \in Int /\ 2 \in Int /\ ~Equals(zz, 0)
    BY <2>2 DEF zz
  <2>4. ~Equals(2 * zz, 0) /\ 2 * zz \in Int
    BY <2>1, <2>3, NotZero
  <2> QED BY <2>4 DEF zz
<1> HIDE DEF m
<1>9. cross \in Int /\ direct \in Int /\ 1 + k \in Int /\ 1 - k \in Int
  BY <1>1, <1>3
<1> HIDE DEF cross, direct
<1>10. ne \in Int /\ nh \in Int /\ nf \in Int /\ ng \in Int /\ z3 \in Int
  <2>1. ne \in Int /\ nh \in Int /\ nf \in Int /\ ng \in Int
    BY <1>8, <1>9
  <2> HIDE DEF nf, ng
  <2> QED BY <2>1
<1>11. ~Equals(z3, 0)
  <2>1. ~Equals(ng, 0) /\ ~Equals(nf, 0)
    BY <1>3, <1>8, <1>9, NotZero
  <2> HIDE DEF nf, ng
  <2> QED BY <1>10, <2>1, NotZero
<1>12. Equals(ne, x3 * ng) /\ Equals(nh, y3 * nf)
  <2>1. Equals(m, m)
    BY <1>8, EqualsIs
  <2>2. Equals(m * cross, m * (x3 * (1 + k))) /\ Equals(m * direct, m * (y3 * (1 - k)))
    <3>1. Equals(cross, x3 * (1 + k)) /\ Equals(direct, y3 * (1 - k))
      BY <1>3, EqualsIs
    <3> QED BY <2>1, <3>1, EqualsTimes
  <2> DEFINE plus == 1 + k
             minus == 1 - k
  <2>3. plus \in Int /\ minus \in Int /\ m \in Int /\ x3 \in Int /\ y3 \in Int
    BY <1>1, <1>8, <1>9
  <2> HIDE DEF plus, minus
  <2>4. m * (x3 * plus) = x3 * (m * plus) /\ m * (y3 * minus) = y3 * (m * minus)
    BY <2>3
  <2>5. m * (x3 * (1 + k)) = x3 * ng /\ m * (y3 * (1 - k)) = y3 * nf
    BY <2>4 DEF plus, minus
  <2> QED BY <2>2, <2>5
<1> HIDE DEF ne, nf, ng, nh, z3
<1>13. Equals(ne * nf, x3 * z3) /\ Equals(nh * ng, y3 * z3) /\ Equals(ne * nh, (x3 * y3) * z3)
  <2>1. Equals(nf, nf) /\ Equals(ng, ng)
    BY <1>10, EqualsIs
  <2>2. Equals(ne * nf, (x3 * ng) * nf) /\ Equals(nh * ng, (y3 * nf) * ng)
    BY <1>12, <2>1, EqualsTimes
  <2>3. Equals(ne * nh, (x3 * ng) * (y3 * nf))
    BY <1>12, EqualsTimes
  <2>4. /\ (x3 * ng) * nf = x3 * z3 /\ (y3 * nf) * ng = y3 * z3
        /\ (x3 * ng) * (y3 * nf) = (x3 * y3) * z3
    BY <1>1, <1>10 DEF z3
  <2> QED BY <2>2, <2>3, <2>4
<1> DEFINE o == <<M(e, f), M(h, g), M(g, f), M(e, h)>>
<1>14. /\ Tight(M(e, f)) /\ Stands(M(e, f), ne * nf)
       /\ Tight(M(h, g)) /\ Stands(M(h, g), nh * ng)
       /\ Tight(M(g, f)) /\ Stands(M(g, f), ng * nf)
       /\ Tight(M(e, h)) /\ Stands(M(e, h), ne * nh)
  BY <1>7, ProductStands
<1>15. /\ o[1] = M(e, f) /\ o[2] = M(h, g) /\ o[3] = M(g, f) /\ o[4] = M(e, h)
       /\ add(p, q) = o
  BY <1>7 DEF Completed
<1> HIDE DEF o
<1>16. Coordinates(o, x3, y3, z3)
  <2>1. Stands(o[1], x3 * z3) /\ Stands(o[2], y3 * z3) /\ Stands(o[4], (x3 * y3) * z3)
    BY <1>13, <1>14, <1>15, StandsEqual
  <2>2. Stands(o[3], z3)
    BY <1>14, <1>15 DEF z3
  <2> QED BY <2>1, <2>2, Zenon DEF Coordinates
<1>17. Within(o[1], 1) /\ Tight(o[2]) /\ Tight(o[3]) /\ Tight(o[4])
  BY <1>14, <1>15, LooseIfWithin
<1> QED BY <1>10, <1>11, <1>15, <1>16, <1>17 DEF IsPoint, x3, y3

-----------------------------------------------------------------------------
(* The bytes of a point. *)

(* The highest byte, of which half are the bytes of numbers below P.       *)
LEMMA TopFacts ==
  ASSUME FieldAssumption
  PROVE  /\ BYTES \in Nat /\ BYTES >= 4 /\ BYTE \in Nat /\ BYTE = 2 * HALF /\ HALF \in Nat
         /\ HALF > 0 /\ PowersOf(BYTE)[BYTES - 1] \in Nat /\ PowersOf(BYTE)[BYTES - 1] > 0
         /\ P + 19 = HALF * PowersOf(BYTE)[BYTES - 1] /\ CAP = PowersOf(BYTE)[BYTES]
         /\ P \in Nat /\ P > 2 /\ CAP = 2 * (P + 19) /\ P % 2 = 1
<1> DEFINE b == BYTE
           m == BYTES
           p == PowersOf(b)[m - 1]
           h == HALF
<1>1. /\ b \in Nat /\ b >= 16 /\ b % 2 = 0 /\ LIMBS \in Nat /\ LIMBS > 1 /\ m = 2 * LIMBS
  BY ByteFacts DEF BYTES
<1>2. m \in Nat /\ m >= 4 /\ m - 1 \in Nat /\ (m - 1) + 1 = m
  BY <1>1
<1>3. b = 2 * h /\ h \in Nat /\ h > 0
  BY <1>1 DEF HALF
<1>4. CAP = PowersOf(b)[m]
  <2>1. PowersOf(b)[2 * LIMBS] = PowersOf(RADIX)[LIMBS]
    BY <1>1, TwoBytes
  <2> QED BY <1>1, <2>1 DEF CAP
<1>5. CAP = b * p /\ p \in Nat /\ p > 0
  <2>1. b > 0
    BY <1>1
  <2> HIDE DEF b, m
  <2> QED BY <1>1, <1>2, <1>4, <2>1, PowersFacts
<1>6. P \in Nat /\ P > 2 /\ CAP = 2 * P + 38 /\ P = PowersOf(2)[BITS - 1] - 19 /\ BITS \in Nat /\ BITS >= 16
  BY BitsFacts, FieldSizes
<1> HIDE DEF b, m, p, h
<1>7. CAP = 2 * (h * p) /\ h * p \in Nat
  BY <1>3, <1>5
<1>8. P + 19 = h * p /\ CAP = 2 * (P + 19)
  BY <1>6, <1>7
<1>9. P % 2 = 1
  <2>1. BITS - 2 \in Nat /\ (BITS - 2) + 1 = BITS - 1 /\ 2 \in Nat /\ 2 > 0
    BY <1>6
  <2> DEFINE q == PowersOf(2)[BITS - 2]
  <2>2. PowersOf(2)[BITS - 1] = 2 * q /\ q \in Nat
    BY <2>1, PowersFacts
  <2> HIDE DEF q
  <2>3. P = (q - 10) * 2 + 1 /\ q - 10 \in Nat
    BY <1>6, <2>2
  <2> QED BY <2>3
<1> QED BY <1>2, <1>3, <1>4, <1>5, <1>6, <1>8, <1>9 DEF b, m, p, h

LEMMA DigitsAre ==
  ASSUME FieldAssumption, NEW x \in 0..(CAP - 1)
  PROVE  Digits(x) \in Scalar /\ Digits(x) \in Seq(0..(BYTE - 1)) /\ Len(Digits(x)) = BYTES
<1> DEFINE m == BYTES
           b == BYTE
           f == [j \in 1..m |-> (x \div PowersOf(b)[j - 1]) % b]
<1>1. m \in Nat /\ AreDigits(Digits(x), b, m)
      /\ \A j \in 1..m : Digits(x)[j] = (x \div PowersOf(b)[j - 1]) % b
  BY TopFacts, DigitsFacts
<1>2. Digits(x) = SubSeq(f, 1, m)
  BY Zenon DEF Digits, Array
<1>3. \A j \in 1..m : f[j] \in 0..(b - 1)
  BY <1>1 DEF AreDigits
<1> HIDE DEF m, b
<1>4. f \in [1..m -> 0..(b - 1)]
  BY <1>3
<1> HIDE DEF f
<1>5. SubSeq(f, 1, m) = f /\ f \in Seq(0..(b - 1)) /\ Len(f) = m
  BY <1>1, <1>4, WholeArray
<1> QED BY <1>2, <1>4, <1>5 DEF Scalar, m, b

LEMMA TopDigit ==
  ASSUME FieldAssumption, NEW y \in 0..(P - 1)
  PROVE  Digits(y)[BYTES] \in 0..(HALF - 1) /\ y \in 0..(CAP - 1)
<1> DEFINE b == BYTE
           m == BYTES
           p == PowersOf(b)[m - 1]
           h == HALF
           n == m - 1
           d == Digits(y)
           z == d[m]
           r == Worth(d, b, n)
<1>1. /\ m \in Nat /\ m >= 4 /\ b \in Nat /\ b = 2 * h /\ h \in Nat /\ h > 0
      /\ p \in Nat /\ p > 0 /\ P + 19 = h * p /\ P \in Nat /\ CAP = 2 * (P + 19)
  BY TopFacts
<1>2. y \in 0..(CAP - 1)
  BY <1>1
<1>3. AreDigits(d, b, m) /\ Worth(d, b, m) = y
  BY <1>2, DigitsFacts
<1> HIDE DEF b, m, h, d
<1>4. n \in Nat /\ n + 1 = m /\ n < m /\ b > 0 /\ m \in 1..m /\ 1..n \subseteq 1..m
  BY <1>1
<1>5. Worth(d, b, n + 1) = r + d[n + 1] * PowersOf(b)[n] /\ IsInts(d, m)
  <2>1. IsInts(d, m)
    BY <1>1, <1>3 DEF IsInts, AreDigits
  <2> HIDE DEF n
  <2> QED BY <1>1, <1>4, <2>1, WorthStep
<1>6. r \in Nat
  <2>1. AreDigits(d, b, n)
    BY <1>3, <1>4 DEF AreDigits
  <2> HIDE DEF n
  <2> QED BY <1>1, <1>4, <2>1, WorthBound
<1>7. z \in 0..(b - 1) /\ z \in Int
  BY <1>1, <1>3, <1>4 DEF AreDigits
<1>8. y = r + z * p
  BY <1>3, <1>4, <1>5
<1> HIDE DEF r, z, p
<1>9. ASSUME z >= h PROVE FALSE
  <2>1. z * p >= h * p
    <3>1. (z - h) * p \in Nat /\ z * p = h * p + (z - h) * p /\ h * p \in Nat
      BY <1>1, <1>7, <1>9
    <3> QED BY <3>1
  <2>2. z * p \in Nat
    BY <1>1, <1>7
  <2> QED BY <1>1, <1>6, <1>8, <2>1, <2>2
<1>10. z \in 0..(h - 1)
  BY <1>1, <1>7, <1>9
<1> QED BY <1>2, <1>10 DEF z, d, h, m

(* The encoding of a point holds the second coordinate and, in its highest *)
(* bit, the parity of the first.                                           *)
LEMMA EncodingFacts ==
  ASSUME FieldAssumption, NEW u \in Pairs
  PROVE  /\ EncodingOf(u) \in Scalar
         /\ EncodingOf(u) \in Seq(0..(BYTE - 1)) /\ Len(EncodingOf(u)) = BYTES
         /\ AreDigits(EncodingOf(u), BYTE, BYTES)
         /\ Worth(EncodingOf(u), BYTE, BYTES) = u[2] + (u[1] % 2) * (P + 19)
         /\ EncodingOf(u)[BYTES] \div HALF = u[1] % 2
         /\ EncodingOf(u) = [Digits(u[2]) EXCEPT ![BYTES] = (@ + (u[1] % 2) * HALF) % BYTE]
<1> DEFINE b == BYTE
           m == BYTES
           p == PowersOf(b)[m - 1]
           h == HALF
           d == Digits(u[2])
           e == EncodingOf(u)
           z == d[m]
           s == u[1] % 2
           y == u[2]
           v == z + s * h
<1>1. /\ m \in Nat /\ m >= 4 /\ b \in Nat /\ b = 2 * h /\ h \in Nat /\ h > 0
      /\ p \in Nat /\ p > 0 /\ P + 19 = h * p /\ P \in Nat /\ CAP = 2 * (P + 19)
  BY TopFacts
<1>2. u[1] \in 0..(P - 1) /\ y \in 0..(P - 1)
  BY DEF Pairs
<1>3. s \in {0, 1} /\ s \in Int
  BY <1>1, <1>2
<1>4. z \in 0..(h - 1) /\ y \in 0..(CAP - 1)
  BY <1>2, TopDigit
<1>5. d \in Scalar /\ AreDigits(d, b, m) /\ Worth(d, b, m) = y
  BY <1>4, DigitsFacts, DigitsAre
<1>6. e = [d EXCEPT ![m] = @ + s * h]
  BY Zenon DEF EncodingOf, HALF
<1> HIDE DEF e, d, s, y
<1>7. d \in [1..m -> 0..(b - 1)]
  BY <1>5 DEF Scalar
<1> HIDE DEF b, m, h
<1>8. v \in 0..(b - 1) /\ v \div h = s
  <2>1. CASE s = 0
    <3>1. v = 0 * h + z /\ 0 \in Nat
      BY <1>1, <1>4, <2>1
    <3> HIDE DEF v, z
    <3>2. v \div h = 0
      BY <1>1, <1>4, <3>1, DivisionUnique
    <3> QED BY <1>1, <1>4, <2>1, <3>1, <3>2
  <2>2. CASE s = 1
    <3>1. v = 1 * h + z /\ 1 \in Nat
      BY <1>1, <1>4, <2>2
    <3> HIDE DEF v, z
    <3>2. v \div h = 1
      BY <1>1, <1>4, <3>1, DivisionUnique
    <3> QED BY <1>1, <1>4, <2>2, <3>1, <3>2
  <2> QED BY <1>3, <2>1, <2>2
<1>9. m \in 1..m
  BY <1>1
<1>10. /\ e[m] = v /\ \A k \in 1..m : k # m => e[k] = d[k]
       /\ e \in [1..m -> 0..(b - 1)]
  <2>1. e = [d EXCEPT ![m] = v]
    BY <1>6
  <2> HIDE DEF v
  <2> QED BY <1>7, <1>8, <1>9, <2>1
<1>11. v % b = v
  <2>1. v = 0 * b + v /\ 0 \in Nat /\ b > 0
    BY <1>1, <1>8
  <2> HIDE DEF v
  <2> QED BY <1>1, <1>8, <2>1, DivisionUnique
<1>12. e = [d EXCEPT ![m] = (@ + s * h) % b]
  BY <1>6, <1>11
<1>13. AreDigits(e, b, m)
  BY <1>10 DEF AreDigits
<1>14. e \in Seq(0..(b - 1)) /\ Len(e) = m
  BY <1>1, <1>10, WholeArray
<1>15. Worth(e, b, m) = y + s * (h * p)
  <2>1. IsInts(e, m) /\ IsInts(d, m)
    BY <1>1, <1>5, <1>13 DEF IsInts, AreDigits
  <2>2. Worth(e, b, m) = Worth(d, b, m) + (e[m] - d[m]) * PowersOf(b)[m - 1]
    <3>1. b \in Nat /\ b > 0 /\ m \in Nat /\ \A k \in 1..m : k # m => e[k] = d[k]
      BY <1>1, <1>10
    <3> HIDE DEF p
    <3> QED BY <1>9, <2>1, <3>1, WorthExcept
  <2>3. e[m] - d[m] = s * h
    <3>1. s * h \in Int /\ z \in Int
      BY <1>1, <1>3, <1>4
    <3> QED BY <1>10, <3>1
  <2>4. (s * h) * p = s * (h * p)
    BY <1>1, <1>3
  <2> QED BY <1>5, <2>2, <2>3, <2>4
<1> QED BY <1>1, <1>8, <1>10, <1>12, <1>13, <1>14, <1>15 DEF Scalar, e, d, s, y, b, m, h

(* The third coordinate of a point is inverted.                            *)
LEMMA InverseStands ==
  ASSUME FieldAssumption, PrimeAssumption, NEW a, Tight(a), NEW z, Stands(a, z), ~Equals(z, 0)
  PROVE  /\ Tight(inv25519(a)) /\ Element(inv25519(a)) \in Int
         /\ Stands(inv25519(a), Element(inv25519(a)))
         /\ Equals(z * Element(inv25519(a)), 1)
<1> DEFINE e == Element(a)
           i == inv25519(a)
           v == Element(i)
<1>1. Equals(e, z) /\ e \in 0..(P - 1) /\ z \in Int /\ P \in Nat /\ P >= 32749
  BY StandsEquals, BitsFacts DEF Equals
<1>2. e \in 1..(P - 1)
  <2>1. CASE e = 0
    <3>1. Equals(z, e)
      BY <1>1, EqualsIs
    <3> QED BY <2>1, <3>1
  <2> QED BY <1>1, <2>1
<1>3. PowersOf(e)[P - 1] % P = 1
  BY <1>2, Fermat
<1>4. (e * v) % P = 1
  BY <1>3, InverseInverts, Zenon
<1>5. Tight(i)
  BY InverseIsPower DEF IsPower
<1>6. v \in 0..(P - 1) /\ Stands(i, v)
  BY <1>5, ElementFacts, StandsFor DEF Tight
<1> HIDE DEF e, i, v
<1>7. v \in Int /\ e * v \in Int /\ e \in Int
  BY <1>1, <1>6
<1>8. Equals(e * v, 1)
  <2>1. 1 = 0 * P + 1 /\ 1 \in 0..(P - 1) /\ 0 \in Nat /\ 1 \in Nat /\ P > 0
    BY <1>1
  <2>2. 1 % P = 1
    BY <1>1, <2>1, DivisionUnique
  <2> DEFINE w == e * v
  <2> HIDE DEF w
  <2>3. w \in Int /\ w % P = 1
    BY <1>4, <1>7 DEF w
  <2>4. Equals(w, 1)
    BY <2>1, <2>2, <2>3, EqualsIs
  <2> QED BY <2>4 DEF w
<1>9. Equals(z * v, e * v)
  <2>1. Equals(v, v) /\ Equals(z, e)
    BY <1>1, <1>7, EqualsIs
  <2> QED BY <2>1, EqualsTimes
<1>10. Equals(z * v, 1)
  BY <1>8, <1>9, EqualsIs
<1> QED BY <1>5, <1>6, <1>7, <1>10 DEF i, v

(* Numbers below P that are equal modulo P are the same.                   *)
LEMMA EqualsBelow ==
  ASSUME FieldAssumption, NEW a \in Int, NEW b \in 0..(P - 1), Equals(a, b)
  PROVE  a % P = b
<1>1. P \in Nat /\ P > 0 /\ b \in Int
  BY FieldSizes
<1>2. a % P = b % P
  BY EqualsIs
<1>3. b = 0 * P + b /\ 0 \in Nat /\ b \in Nat
  BY <1>1
<1>4. b % P = b
  BY <1>1, <1>3, DivisionUnique
<1> QED BY <1>2, <1>4

(* pack of tweetnacl.c: the bytes of a point are those of its second       *)
(* coordinate and of the parity of the first, whatever its coordinates are *)
(* multiplied by.                                                          *)
THEOREM PackIsEncoding ==
  ASSUME FieldAssumption, PrimeAssumption, NEW p, NEW u \in Pairs, IsPoint(p, u)
  PROVE  pack(p) = EncodingOf(u)
<1> DEFINE x == u[1]
           y == u[2]
           i == inv25519(p[3])
           v == Element(i)
           a == M(p[1], i)
           b == M(p[2], i)
<1>1. PICK z \in Int : ~Equals(z, 0) /\ Coordinates(p, x, y, z)
  BY DEF IsPoint
<1>2. /\ Within(p[1], 1) /\ Tight(p[2]) /\ Tight(p[3])
      /\ x \in 0..(P - 1) /\ y \in 0..(P - 1) /\ x \in Int /\ y \in Int
  BY FieldSizes DEF IsPoint, Pairs
<1>3. Stands(p[1], x * z) /\ Stands(p[2], y * z) /\ Stands(p[3], z)
  BY <1>1 DEF Coordinates
<1>4. Tight(i) /\ v \in Int /\ Stands(i, v) /\ Equals(z * v, 1)
  BY <1>1, <1>2, <1>3, InverseStands
<1> HIDE DEF x, y, i, v
<1>5. Loose(p[1]) /\ Loose(p[2]) /\ Loose(i)
  BY <1>2, <1>4, LooseIfWithin, LooseFacts
<1>6. Tight(a) /\ Stands(a, (x * z) * v) /\ Tight(b) /\ Stands(b, (y * z) * v)
  BY <1>3, <1>4, <1>5, ProductStands
<1> HIDE DEF a, b
<1>7. ASSUME NEW c \in 0..(P - 1), c \in Int PROVE Equals((c * z) * v, c)
  <2>1. Equals(c, c)
    BY <1>7, EqualsIs
  <2>2. Equals(c * (z * v), c * 1)
    BY <1>4, <2>1, EqualsTimes
  <2>3. (c * z) * v = c * (z * v) /\ c * 1 = c
    BY <1>1, <1>4, <1>7
  <2> QED BY <2>2, <2>3
<1>8. Stands(a, x) /\ Stands(b, y)
  BY <1>2, <1>6, <1>7, StandsEqual
<1>9. Element(a) = x /\ Element(b) = y
  <2>1. Element(a) = x % P /\ Element(b) = y % P /\ Equals(x, x) /\ Equals(y, y)
    BY <1>2, <1>8, StandsEquals, EqualsIs
  <2> QED BY <1>2, <2>1, EqualsBelow
<1>10. Modest(a) /\ Modest(b)
  BY <1>6, LooseFacts
<1>11. pack25519(b) = Digits(y) /\ par25519(a) = x % 2
  BY <1>9, <1>10, PackIsCanonical, ParityIsExact
<1>12. pack(p) = [pack25519(b) EXCEPT ![BYTES] = (@ + par25519(a) * HALF) % BYTE]
  BY Zenon DEF pack, Packed, HALF, a, b, i
<1>13. EncodingOf(u) = [Digits(y) EXCEPT ![BYTES] = (@ + (x % 2) * HALF) % BYTE]
  BY EncodingFacts DEF x, y
<1> QED BY <1>11, <1>12, <1>13

-----------------------------------------------------------------------------
(* Multiples of a point. *)

(* The bits of a number, of which scalarmult takes the highest first.      *)
BitIs(s, i) ==
  LET n == Worth(s, BYTE, BYTES)
      q == PowersOf(2)
  IN  /\ n \in Nat /\ n \div q[i] \in Nat /\ n \div q[i + 1] \in Nat /\ Bit(s, i) \in {0, 1}
      /\ n \div q[i] = 2 * (n \div q[i + 1]) + Bit(s, i)

LEMMA BitFacts ==
  ASSUME FieldAssumption, NEW s, AreDigits(s, BYTE, BYTES), NEW i \in Nat, i < BITS
  PROVE  BitIs(s, i)
<1> DEFINE m == BYTEBITS
           b == BYTE
           k == BYTES
           q == PowersOf(2)
           n == Worth(s, b, k)
           d == s[(i \div m) + 1]
<1>1. /\ m \in Nat /\ m > 0 /\ b \in Nat /\ b > 0 /\ b = q[m] /\ k \in Nat /\ BITS = k * m
  <2>1. m \in Nat /\ m >= 4 /\ b \in Nat /\ b >= 16 /\ b = q[m] /\ LIMBS \in Nat
    BY ByteFacts
  <2> QED BY <2>1 DEF BYTES, BITS
<1>2. n \in Nat
  BY <1>1, WorthBound
<1>3. \A j \in Nat : q[j] \in Nat /\ q[j] > 0 /\ q[j + 1] = 2 * q[j]
  <2>1. 2 \in Nat /\ 2 > 0
    OBVIOUS
  <2> QED BY <2>1, PowersFacts
<1>4. Bit(s, i) = (d \div q[i % m]) % 2
  BY Zenon DEF Bit
<1> HIDE DEF m, b, k, q, n
<1>5. PICK j \in Nat, r \in 0..(m - 1) : i = j * m + r /\ i \div m = j /\ i % m = r
  BY <1>1, Division
<1>6. r \in Nat /\ m - r \in Nat /\ (m - r) + r = m /\ (m - r) - 1 \in Nat /\ ((m - r) - 1) + 1 = m - r
  BY <1>1
<1>7. j < k
  <2>1. CASE j >= k
    <3>1. j - k \in Nat /\ j = k + (j - k)
      BY <1>1, <2>1
    <3>2. j * m = k * m + (j - k) * m /\ (j - k) * m \in Nat /\ k * m \in Nat
      BY <1>1, <3>1
    <3> QED BY <1>1, <1>5, <1>6, <3>2
  <2> QED BY <1>1, <2>1
<1> DEFINE t == n \div q[j * m]
           u == n \div q[i]
           h == q[r]
           g == q[(m - r) - 1]
           z == q[j * m]
<1>8. j * m \in Nat
  BY <1>1
<1>9. d = t % b
  <2>1. j + 1 \in 1..k /\ (j + 1) - 1 = j
    BY <1>1, <1>7
  <2>2. (n \div PowersOf(b)[(j + 1) - 1]) % b = s[j + 1]
    BY <1>1, <2>1, WorthDigit DEF n, b, k
  <2>3. PowersOf(b)[j] = q[j * m]
    <3>1. 2 \in Int
      OBVIOUS
    <3>2. PowersOf(q[m])[j] = q[j * m]
      BY <1>1, <3>1, PowerOfPower DEF q
    <3> QED BY <1>1, <3>2
  <2> QED BY <1>5, <2>1, <2>2, <2>3
<1>10. /\ h \in Nat /\ h > 0 /\ g \in Nat /\ g > 0 /\ z \in Nat /\ z > 0
       /\ q[i] \in Nat /\ q[i] > 0 /\ q[i + 1] = 2 * q[i]
  BY <1>3, <1>6, <1>8
<1>11. b = (g * 2) * h /\ q[i] = h * z
  <2>1. 2 \in Int
    OBVIOUS
  <2>2. q[(m - r) + r] = q[m - r] * q[r] /\ q[j * m + r] = q[j * m] * q[r]
    BY <1>6, <1>8, <2>1, PowerOfSum DEF q
  <2>3. q[m - r] = 2 * g
    <3>1. q[((m - r) - 1) + 1] = 2 * q[(m - r) - 1]
      BY <1>3, <1>6
    <3> QED BY <1>6, <3>1
  <2>4. b = (2 * g) * h /\ q[i] = z * h
    BY <1>1, <1>5, <1>6, <2>2, <2>3
  <2> HIDE DEF g, h, z
  <2> QED BY <1>10, <2>4
<1> HIDE DEF d
<1>12. t \in Nat /\ u = t \div h
  <2>1. n \div (h * z) = (n \div z) \div h
    <3> HIDE DEF h, z
    <3> QED BY <1>2, <1>10, NestedDivision
  <2>2. n \div z \in Nat
    <3> HIDE DEF z
    <3> QED BY <1>2, <1>10, Division
  <2> QED BY <1>11, <2>1, <2>2
<1> HIDE DEF t, h, g, z
<1>13. d \div h = u % (g * 2)
  <2> DEFINE w == g * 2
  <2>1. w \in Nat /\ w > 0
    BY <1>10
  <2> HIDE DEF w
  <2>2. (t % (w * h)) \div h = (t \div h) % w
    BY <1>10, <1>12, <2>1, NestedDivision
  <2> QED BY <1>9, <1>11, <1>12, <2>2 DEF w
<1>14. Bit(s, i) = u % 2 /\ u \in Nat
  <2>1. u \in Nat
    BY <1>2, <1>10, Division
  <2> HIDE DEF u
  <2>2. (u % (g * 2)) % 2 = u % 2
    <3>1. 2 \in Nat /\ 2 > 0
      OBVIOUS
    <3> QED BY <1>10, <2>1, <3>1, NestedRemainder
  <2> QED BY <1>4, <1>5, <1>13, <2>1, <2>2 DEF h
<1>15. n \div q[i + 1] = u \div 2
  <2> DEFINE f == q[i]
  <2>1. f \in Nat /\ f > 0 /\ 2 \in Nat /\ 2 > 0
    BY <1>10
  <2> HIDE DEF f
  <2>2. n \div (2 * f) = (n \div f) \div 2
    BY <1>2, <2>1, NestedDivision
  <2> QED BY <1>10, <2>2 DEF f
<1>16. u = 2 * (u \div 2) + (u % 2) /\ u \div 2 \in Nat /\ u % 2 \in {0, 1}
  <2>1. u \in Nat /\ 2 \in Nat /\ 2 > 0
    BY <1>14
  <2> HIDE DEF u
  <2>2. PICK a \in Nat, c \in 0..(2 - 1) : u = a * 2 + c /\ u \div 2 = a /\ u % 2 = c
    BY <2>1, Division
  <2> QED BY <2>2
<1>17. Bit(s, i) \in {0, 1} /\ u = 2 * (n \div q[i + 1]) + Bit(s, i) /\ n \div q[i + 1] \in Nat
  BY <1>14, <1>15, <1>16
<1> QED BY <1>2, <1>14, <1>17 DEF BitIs, n, q, b, k

(* Before the first turn no bit is taken, after the last all.              *)
LEMMA NoBits ==
  ASSUME FieldAssumption, NEW s, AreDigits(s, BYTE, BYTES)
  PROVE  LET n == Worth(s, BYTE, BYTES)
         IN  n \div PowersOf(2)[BITS] = 0 /\ n \div PowersOf(2)[0] = n /\ n \in Nat
<1> DEFINE q == PowersOf(2)
           n == Worth(s, BYTE, BYTES)
<1>1. /\ BYTEBITS \in Nat /\ BYTE = q[BYTEBITS] /\ BYTES \in Nat
      /\ BITS = BYTES * BYTEBITS /\ BYTE \in Nat /\ BYTE > 0
  <2>1. BYTEBITS \in Nat /\ BYTE = q[BYTEBITS] /\ LIMBS \in Nat /\ BYTE \in Nat /\ BYTE >= 16
    BY ByteFacts
  <2> QED BY <2>1 DEF BYTES, BITS
<1>2. n \in Nat /\ n < PowersOf(BYTE)[BYTES]
  BY <1>1, WorthBound
<1>3. PowersOf(BYTE)[BYTES] = q[BITS]
  <2>1. 2 \in Int
    OBVIOUS
  <2>2. PowersOf(q[BYTEBITS])[BYTES] = q[BYTES * BYTEBITS]
    BY <1>1, <2>1, PowerOfPower
  <2> QED BY <1>1, <2>2
<1>4. q[0] = 1 /\ q[BITS] \in Nat /\ q[BITS] > 0
  <2>1. 2 \in Nat /\ 2 > 0 /\ 0 \in Nat /\ BITS \in Nat
    BY BitsFacts
  <2> QED BY <2>1, PowersFacts
<1> HIDE DEF n
<1> DEFINE c == q[BITS]
<1>5. n \div c = 0
  <2>1. c \in Nat /\ c > 0 /\ n \in 0..(c - 1) /\ 0 \in Nat
    BY <1>2, <1>3, <1>4
  <2> HIDE DEF c
  <2>2. n = 0 * c + n
    BY <2>1
  <2> QED BY <2>1, <2>2, DivisionUnique
<1>6. n \div 1 = n
  BY <1>2
<1> QED BY <1>2, <1>4, <1>5, <1>6 DEF n

(* The limbs of a sum of points.                                           *)
LEMMA AddStays ==
  ASSUME FieldAssumption, CurveAssumption, NEW p \in [1..4 -> gf], NEW q \in [1..4 -> gf]
  PROVE  add(p, q) \in [1..4 -> gf]
<1> DEFINE a == M(Z(p[2], p[1]), Z(q[2], q[1]))
           b == M(A(p[1], p[2]), A(q[1], q[2]))
           c == M(M(p[4], q[4]), D2)
           d == Doubled(M(p[3], q[3]))
           e == Z(b, a)
           f == Z(d, c)
           g == A(d, c)
           h == A(b, a)
           r1 == M(e, f)
           r2 == M(h, g)
           r3 == M(g, f)
           r4 == M(e, h)
<1>1. /\ p[1] \in gf /\ p[2] \in gf /\ p[3] \in gf /\ p[4] \in gf
      /\ q[1] \in gf /\ q[2] \in gf /\ q[3] \in gf /\ q[4] \in gf
  OBVIOUS
<1>2. D2 \in gf
  BY CurveFacts DEF Tight
<1>3. Z(p[2], p[1]) \in gf /\ Z(q[2], q[1]) \in gf /\ A(p[1], p[2]) \in gf /\ A(q[1], q[2]) \in gf
  BY <1>1, SumsStay, Zenon
<1>4. a \in gf /\ b \in gf /\ M(p[4], q[4]) \in gf /\ M(p[3], q[3]) \in gf
  BY <1>1, <1>3, ProductStays, Zenon
<1>5. c \in gf
  BY <1>2, <1>4, ProductStays, Zenon
<1>6. d \in gf
  BY <1>4, SumsStay, Zenon DEF Doubled
<1>7. add(p, q) = <<r1, r2, r3, r4>>
  BY Zenon DEF add, SumOfProducts, Completed
<1> HIDE DEF a, b, c, d
<1>8. e \in gf /\ f \in gf /\ g \in gf /\ h \in gf
  BY <1>4, <1>5, <1>6, SumsStay, Zenon
<1> HIDE DEF e, f, g, h
<1>9. r1 \in gf /\ r2 \in gf /\ r3 \in gf /\ r4 \in gf
  BY <1>8, ProductStays, Zenon
<1> HIDE DEF r1, r2, r3, r4
<1>10. <<r1, r2, r3, r4>> \in [1..4 -> gf]
  BY <1>9, FourFacts, Zenon
<1> QED BY <1>7, <1>10, Zenon

LEMMA PairFacts ==
  ASSUME NEW T, NEW a \in T, NEW b \in T
  PROVE  <<a, b>> \in [1..2 -> T] /\ <<a, b>>[1] = a /\ <<a, b>>[2] = b
OBVIOUS

LEMMA ScalarStepIs ==
  ASSUME NEW pair, NEW b
  PROVE  ScalarStep(pair, b) = IF b = 1 THEN <<add(pair[1], pair[2]), add(pair[2], pair[2])>>
                               ELSE <<add(pair[1], pair[1]), add(pair[2], pair[1])>>
<1> DEFINE p == pair[1]
           q == pair[2]
<1>1. CASE b = 1
  <2> DEFINE in == <<q, p>>
  <2>1. ScalarStep(pair, b) = <<add(in[2], in[1]), add(in[1], in[1])>>
    BY <1>1, Zenon DEF ScalarStep, cswap, sel25519
  <2>2. in[1] = q /\ in[2] = p
    OBVIOUS
  <2> HIDE DEF in
  <2> QED BY <1>1, <2>1, <2>2
<1>2. CASE b # 1
  <2> DEFINE in == <<p, q>>
  <2>1. ScalarStep(pair, b) = <<add(in[1], in[1]), add(in[2], in[1])>>
    BY <1>2, Zenon DEF ScalarStep, cswap, sel25519
  <2>2. in[1] = p /\ in[2] = q
    OBVIOUS
  <2> HIDE DEF in
  <2> QED BY <1>2, <2>1, <2>2
<1> QED BY <1>1, <1>2

LEMMA ScalarStepStays ==
  ASSUME FieldAssumption, CurveAssumption, NEW pair \in [1..2 -> [1..4 -> gf]], NEW b
  PROVE  ScalarStep(pair, b) \in [1..2 -> [1..4 -> gf]]
<1> DEFINE T == [1..4 -> gf]
           p == pair[1]
           q == pair[2]
<1>1. p \in T /\ q \in T
  OBVIOUS
<1>2. add(p, p) \in T /\ add(p, q) \in T /\ add(q, p) \in T /\ add(q, q) \in T
  BY <1>1, AddStays, Zenon
<1>3. ScalarStep(pair, b) = IF b = 1 THEN <<add(p, q), add(q, q)>> ELSE <<add(p, p), add(q, p)>>
  BY ScalarStepIs
<1> HIDE DEF T, p, q
<1>4. <<add(p, q), add(q, q)>> \in [1..2 -> T] /\ <<add(p, p), add(q, p)>> \in [1..2 -> T]
  BY <1>2, PairFacts
<1> QED BY <1>3, <1>4 DEF T

(* The two points after each turn of scalarmult.                           *)
ScalarRuns(g, q, s) ==
  /\ g \in [Nat -> [1..2 -> [1..4 -> gf]]] /\ g[0] = <<Neutral, q>>
  /\ \A k \in Nat : k < BITS => g[k + 1] = ScalarStep(g[k], Bit(s, BITS - (k + 1)))

ScalarRunsTo(out, q, s) == \E g : ScalarRuns(g, q, s) /\ out = g[BITS][1]

LEMMA ScalarLoopRuns ==
  ASSUME FieldAssumption, CurveAssumption, NEW q \in [1..4 -> gf], NEW s
  PROVE  ScalarRunsTo(scalarmult(q, s), q, s)
<1> DEFINE Turned(pair, i) == ScalarStep(pair, Bit(s, BITS - i))
           T == [1..2 -> [1..4 -> gf]]
           N == BITS
           step == [p \in T \X Nat |->
                      IF p[2] > 0 /\ p[2] <= N THEN Turned(p[1], p[2]) ELSE p[1]]
           first == <<Neutral, q>>
           K == 1..(N + 1)
           Is(run) == run = [p \in T \X K |->
                               IF p[2] > N THEN p[1]
                               ELSE run[<<Turned(p[1], p[2]), p[2] + 1>>]]
           chosen == CHOOSE run : Is(run)
<1>1. N \in Nat
  BY BitsFacts
<1>2. first \in T
  <2>1. gf0 \in gf /\ gf1 \in gf
    BY ConstantFacts DEF Tight
  <2>2. Neutral \in [1..4 -> gf]
    BY <2>1, FourFacts, Zenon DEF Neutral
  <2> HIDE DEF Neutral
  <2> QED BY <2>2, PairFacts
<1>3. ASSUME NEW pair \in T, NEW i \in Nat, i > 0, i <= N PROVE Turned(pair, i) \in T
  <2> HIDE DEF T, N
  <2>1. pair \in [1..2 -> [1..4 -> gf]]
    BY DEF T
  <2>2. Turned(pair, i) \in [1..2 -> [1..4 -> gf]]
    BY <2>1, ScalarStepStays
  <2> QED BY <2>2 DEF T
<1>4. scalarmult(q, s) = chosen[<<first, 1>>][1]
  BY Zenon DEF scalarmult, Loop, Turned, T, N, first, K
<1> HIDE DEF Turned, T, N
<1>5. /\ step \in [T \X Nat -> T]
      /\ \A pair \in T : \A i \in Nat : i > 0 /\ i <= N => step[<<pair, i>>] = Turned(pair, i)
  BY <1>3
<1> HIDE DEF step, first
<1>6. ASSUME NEW p \in T \X K, ~(p[2] > N)
      PROVE  step[<<p[1], p[2]>>] = Turned(p[1], p[2])
  <2>1. p[1] \in T /\ p[2] \in Nat /\ p[2] > 0 /\ p[2] <= N
    BY <1>1, <1>6
  <2> QED BY <1>5, <2>1
<1>7. ASSUME NEW run, IsLoop(run, T, N, step) PROVE Is(run)
  <2>1. run = [p \in T \X K |->
                 IF p[2] > N THEN p[1] ELSE run[<<step[<<p[1], p[2]>>], p[2] + 1>>]]
    BY <1>7 DEF IsLoop
  <2> HIDE DEF K
  <2> QED BY <1>6, <2>1
<1>8. ASSUME NEW run, Is(run) PROVE IsLoop(run, T, N, step)
  <2>1. run = [p \in T \X K |->
                 IF p[2] > N THEN p[1] ELSE run[<<step[<<p[1], p[2]>>], p[2] + 1>>]]
    <3>1. run = [p \in T \X K |->
                   IF p[2] > N THEN p[1] ELSE run[<<Turned(p[1], p[2]), p[2] + 1>>]]
      BY <1>8
    <3> HIDE DEF K
    <3> QED BY <1>6, <3>1
  <2> QED BY <2>1 DEF IsLoop
<1>9. Is(chosen)
  <2>1. \E run : IsLoop(run, T, N, step)
    BY <1>1, <1>5, LoopExists
  <2>2. PICK run : IsLoop(run, T, N, step)
    BY <2>1
  <2>3. Is(run)
    BY <1>7, <2>2
  <2> HIDE DEF Is
  <2> QED BY <2>3, Zenon
<1> HIDE DEF chosen
<1>10. IsLoop(chosen, T, N, step)
  <2> HIDE DEF Is
  <2> QED BY <1>8, <1>9
<1>11. EndsIn(chosen[<<first, 1>>], T, first, N, step)
  <2> HIDE DEF Is, K
  <2> QED BY <1>1, <1>2, <1>5, <1>10, LoopTurns
<1>12. PICK g : Advances(g, T, first, step) /\ chosen[<<first, 1>>] = g[N]
  BY <1>11, Zenon DEF EndsIn
<1>13. /\ g \in [Nat -> T] /\ g[0] = first
       /\ \A i \in Nat : g[i + 1] = step[<<g[i], i + 1>>]
  BY <1>12 DEF Advances
<1>14. ASSUME NEW i \in Nat, i < N PROVE g[i + 1] = Turned(g[i], i + 1)
  <2>1. i + 1 \in Nat /\ i + 1 > 0 /\ i + 1 <= N /\ g[i] \in T
    BY <1>1, <1>13, <1>14
  <2> QED BY <1>5, <1>13, <2>1
<1>15. ScalarRuns(g, q, s)
  BY <1>13, <1>14, Zenon DEF ScalarRuns, Turned, T, N, first
<1>16. scalarmult(q, s) = g[N][1]
  BY <1>4, <1>12, Zenon
<1> QED BY <1>15, <1>16, Zenon DEF ScalarRunsTo, N

(* One is not zero, of the numbers modulo P.                               *)
LEMMA OneIsNotZero ==
  ASSUME FieldAssumption
  PROVE  ~Equals(1, 0) /\ ~Equals(-1, 0) /\ 1 % P = 1 /\ 0 % P = 0
<1>1. P \in Nat /\ P > 2 /\ P > 0
  BY TopFacts
<1>2. 1 \in 0..(P - 1) /\ 0 \in 0..(P - 1) /\ 1 \in Int /\ 0 \in Int /\ -1 \in Int
  BY <1>1
<1>3. 1 % P = 1 /\ 0 % P = 0
  <2>1. 1 = 0 * P + 1 /\ 0 = 0 * P + 0 /\ 0 \in Nat
    BY <1>1
  <2> QED BY <1>1, <1>2, <2>1, DivisionUnique
<1>4. ~Equals(1, 0)
  <2>1. Equals(1, 0) => 1 % P = 0 % P
    BY EqualsIs
  <2> QED BY <1>3, <2>1
<1>5. ASSUME Equals(-1, 0) PROVE FALSE
  <2>1. Equals(0, 0)
    BY <1>2, EqualsIs
  <2>2. Equals(0 - (-1), 0 - 0)
    BY <1>5, <2>1, EqualsAdd
  <2>3. 0 - (-1) = 1 /\ 0 - 0 = 0
    OBVIOUS
  <2> QED BY <1>4, <2>2, <2>3
<1> QED BY <1>3, <1>4, <1>5

LEMMA NeutralIsPoint ==
  ASSUME FieldAssumption
  PROVE  IsPoint(Neutral, <<0, 1>>) /\ <<0, 1>> \in Pairs
<1> DEFINE n == Neutral
           u == <<0, 1>>
<1>1. Tight(gf0) /\ Element(gf0) = 0 /\ Tight(gf1) /\ Element(gf1) = 1
  BY ConstantFacts
<1>2. Stands(gf0, 0) /\ Stands(gf1, 1)
  BY <1>1, StandsFor DEF Tight
<1>3. n[1] = gf0 /\ n[2] = gf1 /\ n[3] = gf1 /\ n[4] = gf0
  BY DEF Neutral
<1>4. u[1] = 0 /\ u[2] = 1
  OBVIOUS
<1>5. u \in Pairs
  <2>1. P \in Nat /\ P > 2
    BY TopFacts
  <2>2. 0 \in 0..(P - 1) /\ 1 \in 0..(P - 1)
    BY <2>1
  <2> QED BY <2>2 DEF Pairs
<1> HIDE DEF n, u
<1>6. Within(n[1], 1) /\ Tight(n[2]) /\ Tight(n[3]) /\ Tight(n[4])
  BY <1>1, <1>3, LooseIfWithin
<1>7. Coordinates(n, u[1], u[2], 1)
  <2>1. u[1] * 1 = 0 /\ u[2] * 1 = 1 /\ (u[1] * u[2]) * 1 = 0
    BY <1>4
  <2> QED BY <1>2, <1>3, <2>1 DEF Coordinates
<1>8. IsPoint(n, u)
  <2>1. ~Equals(1, 0) /\ 1 \in Int
    BY OneIsNotZero
  <2> QED BY <1>6, <1>7, <2>1, Zenon DEF IsPoint
<1> QED BY <1>5, <1>8 DEF n, u

(* The multiples of a point, in the group whose law IsSum is: what a       *)
(* theorem about them rests on is that the law has a value for any two of  *)
(* them, and that n m of them are added to make n + m.                     *)
IsMultiples(group, point) ==
  /\ group \in [Nat -> Pairs] /\ group[0] = <<0, 1>> /\ group[1] = point
  /\ \A m, n \in Nat : IsSum(group[m], group[n], group[m + n])

(* A turn of scalarmult doubles the number of the first of its two points, *)
(* and adds a bit to it; the second stays one ahead.                       *)
LEMMA StepDoubles ==
  ASSUME FieldAssumption, CurveAssumption, PrimeAssumption,
         NEW group, NEW point, IsMultiples(group, point),
         NEW pair, NEW h \in Nat, IsPoint(pair[1], group[h]), IsPoint(pair[2], group[h + 1]),
         NEW b \in {0, 1}
  PROVE  /\ IsPoint(ScalarStep(pair, b)[1], group[2 * h + b])
         /\ IsPoint(ScalarStep(pair, b)[2], group[(2 * h + b) + 1])
<1> DEFINE p == pair[1]
           q == pair[2]
           i == h + 1
<1>1. /\ group \in [Nat -> Pairs]
      /\ \A m, n \in Nat : IsSum(group[m], group[n], group[m + n])
  BY DEF IsMultiples
<1>2. h \in Nat /\ i \in Nat
  OBVIOUS
<1>3. IsPoint(p, group[h]) /\ IsPoint(q, group[i])
  OBVIOUS
<1>4. h + h = 2 * h /\ h + i = 2 * h + 1 /\ i + h = 2 * h + 1 /\ i + i = (2 * h + 1) + 1
  OBVIOUS
<1>5. ScalarStep(pair, b) = IF b = 1 THEN <<add(p, q), add(q, q)>> ELSE <<add(p, p), add(q, p)>>
  BY ScalarStepIs
<1> HIDE DEF p, q, i
<1>6. ASSUME NEW m \in Nat, NEW n \in Nat, NEW r, NEW s,
             IsPoint(r, group[m]), IsPoint(s, group[n])
      PROVE  IsPoint(add(r, s), group[m + n])
  <2>1. m + n \in Nat
    OBVIOUS
  <2>2. group[m] \in Pairs /\ group[n] \in Pairs /\ group[m + n] \in Pairs
    BY <1>1, <2>1
  <2>3. IsSum(group[m], group[n], group[m + n])
    BY <1>1
  <2> QED BY <1>6, <2>2, <2>3, AddIsSum
<1>7. /\ IsPoint(add(p, p), group[h + h]) /\ IsPoint(add(p, q), group[h + i])
      /\ IsPoint(add(q, p), group[i + h]) /\ IsPoint(add(q, q), group[i + i])
  BY <1>2, <1>3, <1>6
<1>8. CASE b = 1
  <2>1. ScalarStep(pair, b)[1] = add(p, q) /\ ScalarStep(pair, b)[2] = add(q, q)
    BY <1>5, <1>8
  <2> QED BY <1>4, <1>7, <1>8, <2>1
<1>9. CASE b = 0
  <2>1. ScalarStep(pair, b)[1] = add(p, p) /\ ScalarStep(pair, b)[2] = add(q, p)
    BY <1>5, <1>9
  <2>2. 2 * h + b = 2 * h
    BY <1>9
  <2> QED BY <1>4, <1>7, <2>1, <2>2
<1> QED BY <1>8, <1>9

(* scalarmult of tweetnacl.c: the multiple of the point by the number that *)
(* the bytes are.                                                          *)
THEOREM ScalarMultIsMultiple ==
  ASSUME FieldAssumption, CurveAssumption, PrimeAssumption,
         NEW group, NEW point, IsMultiples(group, point),
         NEW q \in [1..4 -> gf], IsPoint(q, point), NEW s, AreDigits(s, BYTE, BYTES)
  PROVE  IsPoint(scalarmult(q, s), group[Worth(s, BYTE, BYTES)])
<1> DEFINE n == Worth(s, BYTE, BYTES)
           c == PowersOf(2)
           N == BITS
<1>1. N \in Nat
  BY BitsFacts
<1>2. PICK g : ScalarRuns(g, q, s) /\ scalarmult(q, s) = g[N][1]
  <2>1. ScalarRunsTo(scalarmult(q, s), q, s)
    BY ScalarLoopRuns
  <2> QED BY <2>1, Zenon DEF ScalarRunsTo
<1>3. g[0] = <<Neutral, q>> /\ \A k \in Nat : k < N => g[k + 1] = ScalarStep(g[k], Bit(s, N - (k + 1)))
  BY <1>2 DEF ScalarRuns
<1>4. n \div c[N] = 0 /\ n \div c[0] = n /\ n \in Nat
  BY NoBits
<1>5. \A i \in Nat : i < N => BitIs(s, i)
  BY BitFacts
<1> DEFINE h(k) == n \div c[N - k]
           Good == {k \in Nat : k <= N =>
                      /\ h(k) \in Nat
                      /\ IsPoint(g[k][1], group[h(k)])
                      /\ IsPoint(g[k][2], group[h(k) + 1])}
<1> HIDE DEF N, c, n
<1>6. 0 \in Good
  <2>1. h(0) = 0
    BY <1>1, <1>4
  <2>2. IsPoint(g[0][1], group[0])
    <3>1. g[0][1] = Neutral
      BY <1>3
    <3> QED BY <3>1, NeutralIsPoint DEF IsMultiples
  <2>3. IsPoint(g[0][2], group[0 + 1])
    <3>1. g[0][2] = q /\ group[1] = point /\ 0 + 1 = 1
      BY <1>3 DEF IsMultiples
    <3> QED BY <3>1
  <2> QED BY <2>1, <2>2, <2>3
<1>7. ASSUME NEW k \in Nat, k \in Good PROVE k + 1 \in Good
  <2> SUFFICES ASSUME k + 1 <= N
               PROVE  /\ h(k + 1) \in Nat
                      /\ IsPoint(g[k + 1][1], group[h(k + 1)])
                      /\ IsPoint(g[k + 1][2], group[h(k + 1) + 1])
    OBVIOUS
  <2> DEFINE i == N - (k + 1)
             b == Bit(s, i)
  <2>1. i \in Nat /\ i < N /\ i + 1 = N - k /\ k < N
    BY <1>1
  <2>2. BitIs(s, i)
    BY <1>5, <2>1
  <2>3. b \in {0, 1} /\ h(k + 1) = 2 * h(k) + b /\ h(k + 1) \in Nat
    <3>1. n \div c[i] = 2 * (n \div c[i + 1]) + Bit(s, i) /\ Bit(s, i) \in {0, 1} /\ n \div c[i] \in Nat
      BY <2>2 DEF BitIs, n, c
    <3> QED BY <2>1, <3>1
  <2>4. h(k) \in Nat /\ IsPoint(g[k][1], group[h(k)]) /\ IsPoint(g[k][2], group[h(k) + 1])
    <3>1. k <= N /\ k \in Good
      BY <1>1, <1>7, <2>1
    <3> HIDE DEF h
    <3> QED BY <3>1
  <2>5. g[k + 1] = ScalarStep(g[k], b)
    BY <1>3, <2>1
  <2> HIDE DEF h, b
  <2>6. /\ IsPoint(ScalarStep(g[k], b)[1], group[2 * h(k) + b])
        /\ IsPoint(ScalarStep(g[k], b)[2], group[(2 * h(k) + b) + 1])
    BY <2>3, <2>4, StepDoubles
  <2> QED BY <2>3, <2>5, <2>6
<1>8. N \in Good
  <2> HIDE DEF Good
  <2>1. Nat \subseteq Good
    BY <1>6, <1>7, SetInduction
  <2> QED BY <1>1, <2>1
<1>9. IsPoint(g[N][1], group[h(N)]) /\ h(N) = n
  <2>1. N - N = 0 /\ N <= N
    BY <1>1
  <2> QED BY <1>4, <1>8, <2>1
<1> HIDE DEF h
<1>10. IsPoint(scalarmult(q, s), group[n])
  BY <1>2, <1>9, Zenon
<1> QED BY <1>10 DEF n

(* The base point, and what pack makes of its multiples.                   *)

LEMMA OneStands ==
  ASSUME FieldAssumption, NEW x, Within(x, 1), NEW y, Tight(y),
         NEW a \in 0..(P - 1), NEW b \in 0..(P - 1), Stands(x, a), Stands(y, b)
  PROVE  /\ IsPoint(PointOf(x, y), <<a, b>>) /\ <<a, b>> \in Pairs
         /\ PointOf(x, y) \in [1..4 -> gf]
<1> DEFINE p == PointOf(x, y)
           u == <<a, b>>
<1>1. Tight(gf1) /\ Stands(gf1, 1)
  BY ConstantFacts, StandsFor DEF Tight
<1>2. Tight(M(x, y)) /\ Stands(M(x, y), a * b)
  <2>1. Loose(x) /\ Loose(y)
    BY LooseIfWithin, LooseFacts
  <2> QED BY <2>1, ProductStands
<1>3. p[1] = x /\ p[2] = y /\ p[3] = gf1 /\ p[4] = M(x, y) /\ p = <<x, y, gf1, M(x, y)>>
  BY DEF PointOf
<1>4. u[1] = a /\ u[2] = b /\ u \in Pairs /\ a \in Int /\ b \in Int
  <2>1. P \in Nat
    BY FieldSizes
  <2> QED BY <2>1 DEF Pairs
<1>5. p \in [1..4 -> gf]
  <2>1. x \in gf /\ y \in gf /\ gf1 \in gf /\ M(x, y) \in gf
    BY <1>1, <1>2 DEF Tight, Within
  <2>2. <<x, y, gf1, M(x, y)>> \in [1..4 -> gf]
    BY <2>1, FourFacts, Zenon
  <2> QED BY <1>3, <2>2, Zenon
<1> HIDE DEF p, u
<1>6. Coordinates(p, u[1], u[2], 1)
  <2>1. a * 1 = a /\ b * 1 = b /\ (a * b) * 1 = a * b
    BY <1>4
  <2>2. /\ Stands(p[1], a * 1) /\ Stands(p[2], b * 1) /\ Stands(p[3], 1)
        /\ Stands(p[4], (a * b) * 1)
    BY <1>1, <1>2, <1>3, <2>1
  <2> QED BY <1>4, <2>2, Zenon DEF Coordinates
<1>7. Within(p[1], 1) /\ Tight(p[2]) /\ Tight(p[3]) /\ Tight(p[4])
  BY <1>1, <1>2, <1>3
<1>8. IsPoint(p, u)
  <2>1. ~Equals(1, 0) /\ 1 \in Int
    BY OneIsNotZero
  <2> QED BY <1>6, <1>7, <2>1, Zenon DEF IsPoint
<1> QED BY <1>4, <1>5, <1>8 DEF p, u

(* crypto_sign_keypair and crypto_sign: the point of a secret number is    *)
(* that multiple of the base point, in its only encoding.                  *)
THEOREM ScalarBaseIsMultiple ==
  ASSUME FieldAssumption, CurveAssumption, PrimeAssumption,
         NEW group, IsMultiples(group, BasePoint), NEW s, AreDigits(s, BYTE, BYTES)
  PROVE  /\ IsPoint(scalarbase(s), group[Worth(s, BYTE, BYTES)])
         /\ pack(scalarbase(s)) = EncodingOf(group[Worth(s, BYTE, BYTES)])
<1>1. Tight(X) /\ Tight(Y)
  BY CurveFacts
<1>2. /\ Element(X) \in 0..(P - 1) /\ Element(Y) \in 0..(P - 1)
      /\ Stands(X, Element(X)) /\ Stands(Y, Element(Y)) /\ Within(X, 1)
  BY <1>1, ElementFacts, StandsFor, LooseIfWithin DEF Tight
<1>3. Base = PointOf(X, Y)
  BY Zenon DEF Base, PointOf
<1>4. IsPoint(Base, BasePoint) /\ Base \in [1..4 -> gf]
  BY <1>1, <1>2, <1>3, OneStands DEF BasePoint
<1>5. IsPoint(scalarbase(s), group[Worth(s, BYTE, BYTES)])
  BY <1>4, ScalarMultIsMultiple DEF scalarbase
<1>6. group[Worth(s, BYTE, BYTES)] \in Pairs
  <2>1. Worth(s, BYTE, BYTES) \in Nat
    BY NoBits
  <2> QED BY <2>1 DEF IsMultiples
<1> QED BY <1>5, <1>6, PackIsEncoding

-----------------------------------------------------------------------------
(* The roots that unpackneg takes. *)

LEMMA PowersEqual ==
  ASSUME FieldAssumption, NEW a \in Int, NEW b \in Int, Equals(a, b), NEW k \in Nat
  PROVE  Equals(PowersOf(a)[k], PowersOf(b)[k])
<1> DEFINE p == PowersOf(a)
           q == PowersOf(b)
           Good == {n \in Nat : Equals(p[n], q[n])}
<1>1. p[0] = 1 /\ q[0] = 1 /\ \A n \in Nat : p[n + 1] = a * p[n] /\ q[n + 1] = b * q[n]
  BY PowersAreInts
<1> HIDE DEF p, q
<1>2. 0 \in Good
  <2>1. Equals(1, 1)
    BY EqualsIs
  <2> QED BY <1>1, <2>1
<1>3. ASSUME NEW n \in Nat, n \in Good PROVE n + 1 \in Good
  <2>1. Equals(a * p[n], b * q[n])
    BY <1>3, EqualsTimes
  <2> QED BY <1>1, <2>1
<1> HIDE DEF Good
<1>4. Nat \subseteq Good
  BY <1>2, <1>3, SetInduction
<1> QED BY <1>4 DEF Good, p, q

(* The numbers whose square is one.                                        *)
LEMMA SquareIsOne ==
  ASSUME FieldAssumption, PrimeAssumption, NEW s \in Int, Equals(s * s, 1)
  PROVE  Equals(s, 1) \/ Equals(s, -1)
<1>1. Equals(1, 1) /\ Equals(-1, -1)
  BY EqualsIs
<1>2. Equals(s * s - 1, 1 - 1)
  BY <1>1, EqualsAdd
<1> DEFINE a == s - 1
           b == s + 1
<1>3. s * s - 1 = a * b /\ 1 - 1 = 0 /\ a \in Int /\ b \in Int /\ a + 1 = s /\ b + (-1) = s
  OBVIOUS
<1> HIDE DEF a, b
<1>4. Equals(a, 0) \/ Equals(b, 0)
  BY <1>2, <1>3, NoDivisors
<1>5. Equals(a, 0) => Equals(a + 1, 0 + 1)
  BY <1>1, EqualsAdd
<1>6. Equals(b, 0) => Equals(b + (-1), 0 + (-1))
  BY <1>1, EqualsAdd
<1>7. 0 + 1 = 1 /\ 0 + (-1) = -1
  OBVIOUS
<1> QED BY <1>3, <1>4, <1>5, <1>6, <1>7

(* Where num / den is a square, what Candidate makes of num and den has    *)
(* that square, or its negative.                                           *)
LEMMA RootIsFound ==
  ASSUME FieldAssumption, PrimeAssumption,
         NEW x \in Int, NEW num \in Int, NEW den \in Int,
         ~Equals(den, 0), Equals((x * x) * den, num),
         NEW k \in Nat, P = 8 * k + 5,
         NEW d2, d2 = den * den, NEW d6, d6 = (d2 * d2) * d2,
         NEW t \in 0..(P - 1), Equals(t, (d6 * num) * den),
         NEW r, Equals(r, PowersOf(t)[k]),
         NEW c, Equals(c, (((r * num) * den) * den) * den)
  PROVE  Equals((c * c) * den, num) \/ Equals((c * c) * den, -num)
<1> DEFINE d4 == d2 * d2
           v == x * d4
           w == v % P
           q == PowersOf(w)
           z == r * w
           s == z * z
           cc == (((r * num) * den) * den) * den
<1>1. /\ P \in Nat /\ P > 2 /\ t \in Int /\ r \in Int /\ c \in Int
      /\ d2 \in Int /\ d4 \in Int /\ d6 \in Int /\ v \in Int
  <2>1. P \in Nat /\ P > 2 /\ d2 \in Int /\ t \in Int /\ r \in Int /\ c \in Int
    BY TopFacts DEF Equals
  <2>2. d4 \in Int /\ d6 \in Int
    BY <2>1
  <2> HIDE DEF d4
  <2> QED BY <2>1, <2>2
<1>2. w \in 0..(P - 1) /\ w \in Int /\ Equals(w, v)
  <2> HIDE DEF v
  <2>1. w \in 0..(P - 1)
    BY <1>1
  <2>2. Equals(w, v)
    BY <1>1, EqualsIs
  <2> QED BY <1>1, <2>1, <2>2
<1> HIDE DEF w
<1>3. Equals(t, w * w)
  <2>1. Equals(d6, d6) /\ Equals(den, den) /\ Equals(num, (x * x) * den)
    BY <1>1, EqualsIs
  <2>2. Equals(d6 * num, d6 * ((x * x) * den))
    BY <2>1, EqualsTimes
  <2>3. Equals((d6 * num) * den, (d6 * ((x * x) * den)) * den)
    BY <2>1, <2>2, EqualsTimes
  <2>4. (d6 * ((x * x) * den)) * den = v * v
    <3>1. d6 = d4 * d2
      OBVIOUS
    <3>2. v * v = (x * x) * (d4 * d4)
      <4> HIDE DEF d4
      <4> QED BY <1>1
    <3>3. (d6 * ((x * x) * den)) * den = (x * x) * (d6 * d2)
      BY <1>1
    <3>4. d6 * d2 = d4 * d4
      <4>1. (d4 * d2) * d2 = d4 * (d2 * d2)
        <5> HIDE DEF d4
        <5> QED BY <1>1
      <4> QED BY <3>1, <4>1
    <3> QED BY <3>2, <3>3, <3>4
  <2>5. Equals(v * v, w * w)
    <3>1. Equals(v, w)
      BY <1>2, EqualsIs
    <3> QED BY <3>1, EqualsTimes
  <2>6. Equals((d6 * num) * den, w * w)
    BY <2>3, <2>4, <2>5, EqualsIs
  <2> QED BY <2>6, EqualsIs
<1>4. cc \in Int /\ (cc * cc) * den = num * ((r * r) * ((d6 * num) * den))
  <2>1. cc = (r * num) * (den * d2)
    BY <1>1
  <2> DEFINE a == r * num
             b == den * d2
  <2>2. a \in Int /\ b \in Int /\ cc = a * b
    BY <1>1, <2>1
  <2>3. (cc * cc) * den = (a * a) * ((b * b) * den)
    <3> HIDE DEF a, b, cc
    <3> QED BY <1>1, <2>2
  <2>4. (b * b) * den = d6 * den
    <3>1. (b * b) * den = (den * den) * (d2 * d2) * den
      BY <1>1
    <3>2. (den * den) * (d2 * d2) * den = ((d2 * d2) * d2) * den
      BY <1>1
    <3> QED BY <3>1, <3>2
  <2>5. (a * a) * (d6 * den) = num * ((r * r) * ((d6 * num) * den))
    BY <1>1
  <2> QED BY <2>2, <2>3, <2>4, <2>5
<1>5. Equals((c * c) * den, num * s) /\ s \in Int /\ z \in Int
  <2>1. z \in Int /\ s \in Int
    BY <1>1, <1>2
  <2>2. Equals(den, den) /\ Equals(num, num) /\ Equals(r * r, r * r)
    BY <1>1, EqualsIs
  <2>3. Equals((c * c) * den, (cc * cc) * den)
    <3> HIDE DEF cc
    <3>1. Equals(c, cc)
      BY DEF cc
    <3>2. Equals(c * c, cc * cc)
      BY <3>1, EqualsTimes
    <3> QED BY <2>2, <3>2, EqualsTimes
  <2>4. Equals((d6 * num) * den, w * w)
    <3>1. Equals((d6 * num) * den, t)
      BY EqualsIs
    <3> QED BY <1>3, <3>1, EqualsIs
  <2>5. Equals((r * r) * ((d6 * num) * den), (r * r) * (w * w))
    BY <2>2, <2>4, EqualsTimes
  <2>6. Equals(num * ((r * r) * ((d6 * num) * den)), num * ((r * r) * (w * w)))
    BY <2>2, <2>5, EqualsTimes
  <2>7. (r * r) * (w * w) = s
    BY <1>1, <1>2
  <2> HIDE DEF cc, s
  <2>8. Equals((c * c) * den, num * ((r * r) * (w * w)))
    BY <1>4, <2>3, <2>6, EqualsIs
  <2> QED BY <2>1, <2>7, <2>8
<1> HIDE DEF cc
<1>6. CASE w = 0
  <2>1. Equals(v, 0)
    BY <1>2, <1>6, EqualsIs
  <2>2. ~Equals(d4, 0)
    <3>1. ~Equals(d2, 0)
      BY NotZero
    <3> QED BY <1>1, <3>1, NotZero
  <2>3. Equals(x, 0)
    <3> HIDE DEF d4
    <3> QED BY <1>1, <2>1, <2>2, NoDivisors
  <2>4. Equals(num, 0)
    <3>1. Equals(x * x, 0 * 0)
      BY <2>3, EqualsTimes
    <3>2. Equals(den, den)
      BY EqualsIs
    <3>3. Equals((x * x) * den, 0)
      <4>1. Equals((x * x) * den, (0 * 0) * den)
        BY <3>1, <3>2, EqualsTimes
      <4>2. (0 * 0) * den = 0
        OBVIOUS
      <4> QED BY <4>1, <4>2
    <3>4. Equals(num, (x * x) * den)
      BY EqualsIs
    <3> QED BY <3>3, <3>4, EqualsIs
  <2>5. Equals(num * s, num)
    <3>1. Equals(s, s)
      BY <1>5, EqualsIs
    <3>2. Equals(num * s, 0 * s) /\ 0 * s = 0
      BY <1>5, <2>4, <3>1, EqualsTimes
    <3>3. Equals(0, num)
      BY <2>4, EqualsIs
    <3> QED BY <3>2, <3>3, EqualsIs
  <2> QED BY <1>5, <2>5, EqualsIs
<1>7. CASE w # 0
  <2>1. w \in 1..(P - 1) /\ w \in Nat /\ w > 0
    BY <1>1, <1>2, <1>7
  <2>2. q[P - 1] % P = 1
    BY <2>1, Fermat
  <2>3. Equals(z, q[2 * k + 1])
    <3>1. Equals(PowersOf(t)[k], PowersOf(w * w)[k])
      BY <1>1, <1>2, <1>3, PowersEqual
    <3>2. w * w = q[2]
      <4>1. \A n \in Nat : q[n + 1] = w * q[n] /\ q[n] \in Nat
        BY <2>1, PowersFacts
      <4>2. q[0] = 1 /\ 0 + 1 = 1 /\ 1 + 1 = 2
        BY <2>1, PowersFacts
      <4> HIDE DEF q
      <4>3. q[1] = w * 1 /\ q[2] = w * q[1]
        BY <4>1, <4>2
      <4> QED BY <2>1, <4>3
    <3>3. PowersOf(q[2])[k] = q[k * 2]
      <4>1. w \in Int /\ 2 \in Nat /\ k \in Nat
        BY <2>1
      <4> QED BY <4>1, PowerOfPower, Zenon
    <3>4. Equals(r, q[k * 2])
      BY <3>1, <3>2, <3>3, EqualsIs
    <3>5. Equals(r * w, q[k * 2] * w)
      <4>1. Equals(w, w)
        BY <1>2, EqualsIs
      <4> QED BY <3>4, <4>1, EqualsTimes
    <3>6. q[2 * k + 1] = q[k * 2] * w
      <4>1. k * 2 \in Nat /\ 2 * k + 1 = (k * 2) + 1
        OBVIOUS
      <4>2. q[(k * 2) + 1] = w * q[k * 2] /\ q[k * 2] \in Nat
        BY <2>1, <4>1, PowersFacts
      <4> HIDE DEF q
      <4>3. w * q[k * 2] = q[k * 2] * w
        BY <2>1, <4>2
      <4> QED BY <4>1, <4>2, <4>3
    <3> QED BY <3>5, <3>6
  <2> DEFINE y == q[2 * k + 1]
  <2>4. (y * y) * (y * y) = q[P - 1] /\ y \in Nat
    <3>1. 2 * k + 1 \in Nat /\ 4 \in Nat /\ 4 * (2 * k + 1) = P - 1 /\ w \in Int
      BY <2>1
    <3>2. PowersOf(q[2 * k + 1])[4] = q[4 * (2 * k + 1)]
      BY <3>1, PowerOfPower, Zenon
    <3>3. y \in Nat /\ y > 0
      BY <2>1, <3>1, PowersFacts
    <3> HIDE DEF y
    <3>4. PowersOf(y)[4] = (y * y) * (y * y)
      <4> DEFINE p == PowersOf(y)
      <4>1. p[0] = 1 /\ \A n \in Nat : p[n + 1] = y * p[n]
        BY <3>3, PowersFacts
      <4>2. 0 + 1 = 1 /\ 1 + 1 = 2 /\ 2 + 1 = 3 /\ 3 + 1 = 4
        OBVIOUS
      <4> HIDE DEF p
      <4>3. p[1] = y * p[0] /\ p[2] = y * p[1] /\ p[3] = y * p[2] /\ p[4] = y * p[3]
        BY <4>1, <4>2
      <4>4. p[4] = y * (y * (y * (y * 1)))
        BY <4>1, <4>3
      <4>5. y * (y * (y * (y * 1))) = (y * y) * (y * y)
        BY <3>3
      <4> QED BY <4>4, <4>5 DEF p
    <3> QED BY <3>1, <3>2, <3>3, <3>4 DEF y
  <2>5. Equals(s * s, 1)
    <3>1. Equals(z, y)
      BY <2>3
    <3> HIDE DEF y, z
    <3>2. Equals(z * z, y * y)
      BY <3>1, EqualsTimes
    <3>3. Equals(s * s, (y * y) * (y * y))
      BY <3>2, EqualsTimes
    <3>4. Equals(q[P - 1], 1)
      <4> DEFINE a == q[P - 1]
      <4>1. a \in Int
        BY <2>4
      <4> HIDE DEF a
      <4>2. a % P = 1 % P /\ 1 \in Int
        BY <2>2, OneIsNotZero DEF a
      <4>3. Equals(a, 1)
        BY <4>1, <4>2, EqualsIs
      <4> QED BY <4>3 DEF a
    <3> QED BY <2>4, <3>3, <3>4, EqualsIs
  <2> HIDE DEF s, y
  <2>6. Equals(s, 1) \/ Equals(s, -1)
    BY <1>5, <2>5, SquareIsOne
  <2>7. Equals(num, num)
    BY EqualsIs
  <2>8. CASE Equals(s, 1)
    <3>1. Equals(num * s, num)
      <4>1. Equals(num * s, num * 1)
        BY <2>7, <2>8, EqualsTimes
      <4>2. num * 1 = num
        OBVIOUS
      <4> QED BY <4>1, <4>2
    <3> QED BY <1>5, <3>1, EqualsIs
  <2>9. CASE Equals(s, -1)
    <3>1. Equals(num * s, -num)
      <4>1. Equals(num * s, num * (-1))
        BY <2>7, <2>9, EqualsTimes
      <4>2. num * (-1) = -num
        OBVIOUS
      <4> QED BY <4>1, <4>2
    <3> QED BY <1>5, <3>1, EqualsIs
  <2> QED BY <2>6, <2>8, <2>9
<1> QED BY <1>6, <1>7

(* The equation of the curve, solved for the first coordinate: num / den   *)
(* has to be a square.                                                     *)
Num(y) == y * y - 1
Den(y) == 1 + Element(D) * (y * y)

LEMMA OnCurveIs ==
  ASSUME FieldAssumption, CurveAssumption, NEW x \in Int, NEW y \in Int
  PROVE  /\ OnCurve(<<x, y>>) <=> Equals((x * x) * Den(y), Num(y))
         /\ Den(y) \in Int /\ Num(y) \in Int
<1> DEFINE d == Element(D)
           a == x * x
           b == y * y
           aa == a % P
           bb == b % P
           c == (d * aa) % P
           l == bb - aa
           r == 1 + c * bb
           ll == b - a
           rr == 1 + (d * a) * b
           t == a - 1
<1>1. d \in Int /\ a \in Int /\ b \in Int /\ P \in Nat /\ P > 0
  BY CurveFacts, FieldSizes
<1>2. Den(y) = 1 + d * b /\ Num(y) = b - 1
  BY DEF Den, Num
<1>3. OnCurve(<<x, y>>) <=> l % P = r % P
  <2>1. <<x, y>>[1] = x /\ <<x, y>>[2] = y
    OBVIOUS
  <2> QED BY <2>1 DEF OnCurve
<1> HIDE DEF d, a, b
<1>4. Equals(aa, a) /\ Equals(bb, b) /\ aa \in Int /\ bb \in Int
  <2>1. Equals(aa, a) /\ Equals(bb, b)
    BY <1>1, EqualsIs
  <2> QED BY <2>1 DEF Equals
<1> HIDE DEF aa, bb
<1>5. Equals(c, d * a) /\ c \in Int
  <2>1. Equals(d, d)
    BY <1>1, EqualsIs
  <2>2. Equals(d * aa, d * a) /\ d * aa \in Int
    <3>1. Equals(d * aa, d * a)
      BY <1>4, <2>1, EqualsTimes
    <3> QED BY <1>1, <1>4, <3>1
  <2>3. Equals(c, d * aa)
    <3> DEFINE e == d * aa
    <3> HIDE DEF e
    <3>1. e \in Int
      BY <2>2 DEF e
    <3>2. Equals(e % P, e)
      BY <3>1, EqualsIs
    <3> QED BY <3>2 DEF e
  <2>4. Equals(c, d * a)
    BY <2>2, <2>3, EqualsIs
  <2> QED BY <2>4 DEF Equals
<1> HIDE DEF c
<1>6. Equals(l, ll) /\ Equals(r, rr)
  <2>1. Equals(1, 1)
    BY EqualsIs
  <2>2. Equals(c * bb, (d * a) * b)
    BY <1>4, <1>5, EqualsTimes
  <2> QED BY <1>4, <2>1, <2>2, EqualsAdd
<1>7. l \in Int /\ r \in Int /\ ll \in Int /\ rr \in Int /\ t \in Int
  BY <1>1, <1>6 DEF Equals
<1> HIDE DEF l, r
<1>8. OnCurve(<<x, y>>) <=> Equals(l, r)
  BY <1>3, <1>7, EqualsIs
<1>9. Equals(l, r) <=> Equals(ll, rr)
  <2>1. Equals(ll, l) /\ Equals(rr, r)
    BY <1>6, EqualsIs
  <2> HIDE DEF ll, rr
  <2> QED BY <1>6, <2>1, EqualsIs
<1>10. Equals(ll, rr) <=> Equals(a * (1 + d * b), b - 1)
  <2>1. Equals(t, t)
    BY <1>7, EqualsIs
  <2>2. ll + t = b - 1 /\ rr + t = a * (1 + d * b)
    BY <1>1
  <2>3. (b - 1) - t = ll /\ a * (1 + d * b) - t = rr
    BY <1>1
  <2> HIDE DEF ll, rr, t
  <2> DEFINE m == a * (1 + d * b)
             n == b - 1
  <2>4. ll + t = n /\ rr + t = m /\ n - t = ll /\ m - t = rr
    BY <2>2, <2>3
  <2> HIDE DEF m, n
  <2>5. Equals(ll, rr) => Equals(ll + t, rr + t)
    BY <2>1, EqualsAdd
  <2>6. Equals(m, n) => Equals(m - t, n - t)
    BY <2>1, EqualsAdd
  <2>7. Equals(ll, rr) <=> Equals(m, n)
    BY <2>4, <2>5, <2>6, EqualsIs
  <2> QED BY <2>7 DEF m, n
<1>11. 1 + d * b \in Int /\ b - 1 \in Int
  BY <1>1
<1> QED BY <1>2, <1>8, <1>9, <1>10, <1>11 DEF a

(* A point has no second coordinate for which den is zero.                 *)
LEMMA DenIsNotZero ==
  ASSUME FieldAssumption, CurveAssumption, NEW x \in Int, NEW y \in Int,
         Equals((x * x) * Den(y), Num(y))
  PROVE  ~Equals(Den(y), 0)
<1> DEFINE d == Element(D)
           b == y * y
<1>1. d \in Int /\ b \in Int /\ ~Equals(d, -1)
  BY CurveFacts
<1>2. Den(y) = 1 + d * b /\ Num(y) = b - 1
  BY DEF Den, Num
<1> HIDE DEF d, b
<1> SUFFICES ASSUME Equals(Den(y), 0) PROVE FALSE
  OBVIOUS
<1>3. Equals(Num(y), 0)
  <2> DEFINE a == x * x
  <2>1. a \in Int
    OBVIOUS
  <2> HIDE DEF a
  <2>2. Equals(a, a)
    BY <2>1, EqualsIs
  <2>3. Equals(a * Den(y), a * 0) /\ Equals(a * Den(y), Num(y))
    BY <2>2, EqualsTimes DEF a
  <2>4. a * 0 = 0
    BY <2>1
  <2> QED BY <2>3, <2>4, EqualsIs
<1>4. Equals(b, 1)
  <2>1. Equals(1, 1)
    BY EqualsIs
  <2>2. Equals((b - 1) + 1, 0 + 1)
    BY <1>2, <1>3, <2>1, EqualsAdd
  <2>3. (b - 1) + 1 = b /\ 0 + 1 = 1
    BY <1>1
  <2> QED BY <2>2, <2>3
<1>5. Equals(d, -1)
  <2>1. Equals(d, d) /\ Equals(1, 1)
    BY <1>1, EqualsIs
  <2>2. Equals(d * b, d * 1)
    BY <1>4, <2>1, EqualsTimes
  <2>3. Equals((1 + d * b) - 1, 0 - 1)
    BY <1>2, <2>1, EqualsAdd
  <2>4. (1 + d * b) - 1 = d * b /\ 0 - 1 = -1 /\ d * 1 = d
    BY <1>1
  <2>5. Equals(d, d * b) /\ Equals(d * b, -1)
    BY <2>2, <2>3, <2>4, EqualsIs
  <2> QED BY <2>5, EqualsIs
<1> QED BY <1>1, <1>5

(* Candidate on the numbers.                                               *)
Eighth == (P - 5) \div 8

IsCandidate(c, m, n) ==
  \E t, r : /\ t \in 0..(P - 1) /\ Equals(t, ((((n * n) * (n * n)) * (n * n)) * m) * n)
            /\ Equals(r, PowersOf(t)[Eighth])
            /\ Equals(c, (((r * m) * n) * n) * n)

LEMMA CandidateIs ==
  ASSUME FieldAssumption, NEW num, NEW den, NEW m, NEW n,
         Loose(num), Loose(den), Stands(num, m), Stands(den, n)
  PROVE  /\ Tight(Candidate(num, den))
         /\ IsCandidate(Element(Candidate(num, den)), m, n)
<1> DEFINE s2 == S(den)
           s6 == M(S(s2), s2)
           s7 == M(M(s6, num), den)
           root == pow2523(s7)
           c == M(M(M(M(root, num), den), den), den)
           d2 == n * n
           d6 == (d2 * d2) * d2
           t == Element(s7)
           r == Element(root)
<1>1. Tight(s2) /\ Stands(s2, d2)
  BY ProductStands DEF S
<1>2. Candidate(num, den) = c
  BY Zenon DEF Candidate, Times3, Sixth
<1> HIDE DEF s2, d2
<1>3. Tight(s6) /\ Stands(s6, d6)
  <2>1. Loose(s2)
    BY <1>1, LooseFacts
  <2>2. Tight(S(s2)) /\ Stands(S(s2), d2 * d2)
    BY <1>1, <2>1, ProductStands DEF S
  <2>3. Loose(S(s2))
    BY <2>2, LooseFacts
  <2> QED BY <1>1, <2>1, <2>2, <2>3, ProductStands
<1> HIDE DEF s6, d6
<1>4. Tight(s7) /\ Stands(s7, (d6 * m) * n)
  <2>1. Tight(M(s6, num)) /\ Stands(M(s6, num), d6 * m)
    BY <1>3, LooseFacts, ProductStands
  <2> QED BY <2>1, LooseFacts, ProductStands
<1> HIDE DEF s7
<1>5. t \in 0..(P - 1) /\ Equals(t, (d6 * m) * n)
  BY <1>4, StandsEquals
<1>6. Tight(root) /\ r = PowersOf(t)[Eighth] % P
  BY <1>4, RootIsPower DEF IsPower, Eighth
<1>7. Eighth \in Nat /\ t \in Int
  <2>1. P = 8 * Eighth + 5
    BY <1>4, RootIsPower DEF Eighth
  <2>2. P \in Nat /\ P >= 32749
    BY BitsFacts
  <2>3. Eighth \in Nat
    BY <2>2 DEF Eighth
  <2> QED BY <1>5, <2>2, <2>3
<1>8. Equals(r, PowersOf(t)[Eighth])
  <2> DEFINE w == PowersOf(t)[Eighth]
  <2>1. w \in Int
    BY <1>7, PowersAreInts
  <2> HIDE DEF w
  <2>2. Equals(w % P, w)
    BY <2>1, EqualsIs
  <2> QED BY <1>6, <2>2 DEF w
<1>9. Stands(root, r)
  BY <1>6, StandsFor DEF Tight
<1> HIDE DEF root, t, r
<1>10. Tight(c) /\ Stands(c, (((r * m) * n) * n) * n)
  <2> DEFINE c1 == M(root, num)
             c2 == M(c1, den)
             c3 == M(c2, den)
  <2>1. Tight(c1) /\ Stands(c1, r * m)
    BY <1>6, <1>9, LooseFacts, ProductStands
  <2> HIDE DEF c1
  <2>2. Tight(c2) /\ Stands(c2, (r * m) * n)
    BY <2>1, LooseFacts, ProductStands
  <2> HIDE DEF c2
  <2>3. Tight(c3) /\ Stands(c3, ((r * m) * n) * n)
    BY <2>2, LooseFacts, ProductStands
  <2> HIDE DEF c3
  <2>4. Tight(M(c3, den)) /\ Stands(M(c3, den), (((r * m) * n) * n) * n)
    BY <2>3, LooseFacts, ProductStands
  <2> QED BY <2>4 DEF c1, c2, c3
<1>11. Equals(Element(c), (((r * m) * n) * n) * n)
  BY <1>10, StandsEquals
<1> HIDE DEF c
<1> QED BY <1>2, <1>5, <1>8, <1>10, <1>11 DEF IsCandidate, d6, d2

LEMMA WrongIs ==
  ASSUME FieldAssumption, NEW x, Tight(x), NEW a, Stands(x, a),
         NEW num, NEW den, NEW m, NEW n,
         Loose(num), Loose(den), Stands(num, m), Stands(den, n)
  PROVE  Wrong(x, num, den) <=> ~Equals((a * a) * n, m)
<1> DEFINE v == M(S(x), den)
           k == (a * a) * n
<1>1. Tight(v) /\ Stands(v, k)
  <2>1. Loose(x)
    BY LooseFacts
  <2>2. Tight(S(x)) /\ Stands(S(x), a * a)
    BY <2>1, ProductStands DEF S
  <2> QED BY <2>2, LooseFacts, ProductStands
<1>2. Wrong(x, num, den) <=> neq25519(v, num)
  BY Zenon DEF Wrong
<1> HIDE DEF v
<1>3. neq25519(v, num) <=> Element(v) # Element(num)
  BY <1>1, LooseFacts, NeqIsExact
<1>4. Element(v) = k % P /\ Element(num) = m % P
  BY <1>1, StandsEquals
<1> HIDE DEF k
<1>5. k \in Int /\ m \in Int
  BY <1>1 DEF Stands
<1>6. k % P = m % P <=> Equals(k, m)
  BY <1>5, EqualsIs
<1>7. Wrong(x, num, den) <=> ~Equals(k, m)
  BY <1>2, <1>3, <1>4, <1>6
<1> QED BY <1>7 DEF k

(* Either the candidate or that times I is a root, if there is any.        *)
LEMMA OrOtherFinds ==
  ASSUME FieldAssumption, CurveAssumption, PrimeAssumption, NEW num, NEW den, NEW m, NEW n,
         Loose(num), Loose(den), Stands(num, m), Stands(den, n)
  PROVE  /\ Tight(OrOther(Candidate(num, den), num, den))
         /\ \A x \in Int : Equals((x * x) * n, m) /\ ~Equals(n, 0) =>
              ~Wrong(OrOther(Candidate(num, den), num, den), num, den)
<1> DEFINE c == Candidate(num, den)
           e == Element(c)
           o == OrOther(c, num, den)
           ci == M(c, I)
           i == Element(I)
<1>1. Tight(c) /\ IsCandidate(e, m, n)
  BY CandidateIs
<1>2. o = IF Wrong(c, num, den) THEN ci ELSE c
  BY Zenon DEF OrOther
<1>3. Tight(I) /\ Equals(i * i, -1)
  BY CurveFacts
<1> HIDE DEF c
<1>4. Stands(c, e) /\ Stands(I, i)
  BY <1>1, <1>3, StandsFor DEF Tight
<1>5. Tight(ci) /\ Stands(ci, e * i)
  BY <1>1, <1>3, <1>4, LooseFacts, ProductStands
<1> HIDE DEF ci, o
<1>6. Tight(o)
  BY <1>1, <1>2, <1>5
<1>7. m \in Int /\ n \in Int /\ e \in Int /\ i \in Int
  BY <1>4 DEF Stands
<1> HIDE DEF e, i
<1>8. ASSUME NEW x \in Int, Equals((x * x) * n, m), ~Equals(n, 0) PROVE ~Wrong(o, num, den)
  <2> DEFINE d2 == n * n
             d6 == (d2 * d2) * d2
  <2>1. PICK t, r : /\ t \in 0..(P - 1) /\ Equals(t, (d6 * m) * n)
                    /\ Equals(r, PowersOf(t)[Eighth])
                    /\ Equals(e, (((r * m) * n) * n) * n)
    BY <1>1, Zenon DEF IsCandidate
  <2>2. Eighth \in Nat /\ P = 8 * Eighth + 5
    <3>1. P = 8 * Eighth + 5
      BY <1>1, RootIsPower DEF Eighth
    <3>2. P \in Nat /\ P >= 32749
      BY BitsFacts
    <3>3. Eighth \in Nat
      BY <3>2 DEF Eighth
    <3> QED BY <3>1, <3>3
  <2>3. d2 = n * n /\ d6 = (d2 * d2) * d2
    OBVIOUS
  <2> HIDE DEF d2, d6
  <2>4. Equals((e * e) * n, m) \/ Equals((e * e) * n, -m)
    BY <1>7, <1>8, <2>1, <2>2, <2>3, RootIsFound
  <2>5. CASE Equals((e * e) * n, m)
    <3>1. ~Wrong(c, num, den)
      BY <1>1, <1>4, <2>5, WrongIs
    <3> QED BY <1>2, <3>1
  <2>6. CASE ~Equals((e * e) * n, m)
    <3>1. Wrong(c, num, den)
      BY <1>1, <1>4, <2>6, WrongIs
    <3>2. Equals(((e * i) * (e * i)) * n, m)
      <4> DEFINE f == (e * e) * n
      <4>1. f \in Int /\ ((e * i) * (e * i)) * n = (i * i) * f
        BY <1>7
      <4>2. Equals(f, -m)
        BY <2>4, <2>6
      <4> HIDE DEF f
      <4>3. Equals((i * i) * f, (-1) * (-m))
        BY <1>3, <4>2, EqualsTimes
      <4>4. (-1) * (-m) = m
        BY <1>7
      <4> QED BY <4>1, <4>3, <4>4
    <3>3. ~Wrong(ci, num, den)
      BY <1>5, <3>2, WrongIs
    <3> QED BY <1>2, <3>1, <3>3
  <2> QED BY <2>5, <2>6
<1> QED BY <1>6, <1>8 DEF o, c

(* The root or its negative, of which the parity is not the given one.     *)
LEMMA AtParityIs ==
  ASSUME FieldAssumption, NEW x, Tight(x), NEW parity \in {0, 1}
  PROVE  \E a \in 0..(P - 1) :
           /\ Within(AtParity(x, parity), 1) /\ Stands(AtParity(x, parity), a)
           /\ Equals(a * a, Element(x) * Element(x)) /\ (a = 0 \/ a % 2 # parity)
<1> DEFINE v == Element(x)
           z == AtParity(x, parity)
           zx == Z(gf0, x)
<1>1. /\ v \in 0..(P - 1) /\ v \in Int /\ Stands(x, v) /\ Modest(x) /\ Within(x, 1)
      /\ P \in Nat /\ P > 2 /\ P % 2 = 1
  <2>1. v \in 0..(P - 1) /\ Stands(x, v)
    BY ElementFacts, StandsFor DEF Tight
  <2>2. P \in Nat /\ P > 2 /\ P % 2 = 1
    BY TopFacts
  <2>3. Modest(x) /\ Within(x, 1)
    BY LooseFacts, LooseIfWithin
  <2> QED BY <2>1, <2>2, <2>3
<1>2. par25519(x) = v % 2
  BY <1>1, ParityIsExact
<1>3. Within(zx, 1) /\ Stands(zx, 0 - v)
  <2>1. Within(gf0, 0) /\ Stands(gf0, 0)
    <3>1. Tight(gf0) /\ Element(gf0) = 0 /\ gf0 \in gf
      BY ConstantFacts DEF Tight
    <3>2. Stands(gf0, 0)
      BY <3>1, StandsFor
    <3>3. \A i \in 1..LIMBS : gf0[i] = 0
      BY DEF gf0, Repeat
    <3>4. 0 * SINGLE = 0
      <4>1. RADIX \in Nat
        BY FieldSizes
      <4>2. SINGLE \in Int
        BY <4>1 DEF SINGLE
      <4> QED BY <4>2
    <3>5. AreWithin(gf0, 0, LIMBS)
      BY <3>3 DEF AreWithin
    <3> QED BY <3>1, <3>2, <3>4, <3>5 DEF Within
  <2>2. 0 \in Nat /\ 1 \in Nat /\ 0 + 1 = 1
    OBVIOUS
  <2>3. Within(zx, 0 + 1) /\ Stands(zx, 0 - v)
    BY <1>1, <2>1, <2>2, SumsStand
  <2> QED BY <2>2, <2>3
<1>4. z = IF v % 2 = parity THEN zx ELSE x
  BY <1>2, Zenon DEF AtParity
<1> HIDE DEF v, z, zx
<1>5. CASE v % 2 # parity
  <2>1. Equals(v * v, v * v)
    <3> DEFINE w == v * v
    <3>1. w \in Int
      BY <1>1
    <3> HIDE DEF w
    <3>2. Equals(w, w)
      BY <3>1, EqualsIs
    <3> QED BY <3>2 DEF w
  <2>2. z = x
    BY <1>4, <1>5
  <2> QED BY <1>1, <1>5, <2>1, <2>2 DEF v, z
<1>6. CASE v % 2 = parity
  <2>1. z = zx
    BY <1>4, <1>6
  <2> DEFINE a == IF v = 0 THEN 0 ELSE P - v
  <2>2. a \in 0..(P - 1) /\ a \in Int
    BY <1>1
  <2>3. a = 0 \/ a % 2 # parity
    <3>1. CASE v = 0
      BY <3>1
    <3>2. CASE v # 0
      <4>1. (P - v) % 2 # v % 2
        BY <1>1
      <4> QED BY <1>6, <3>2, <4>1
    <3> QED BY <3>1, <3>2
  <2>4. Equals(0 - v, a)
    <3>1. CASE v = 0
      <4>1. 0 - v = 0 /\ a = 0
        BY <3>1
      <4>2. Equals(0, 0)
        BY EqualsIs
      <4> QED BY <4>1, <4>2
    <3>2. CASE v # 0
      <4>1. a = P - v
        BY <3>2
      <4>2. Equals(0, P)
        <5>1. P % P = 0
          <6>1. P = 1 * P + 0 /\ 0 \in 0..(P - 1) /\ 1 \in Nat /\ P > 0
            BY <1>1
          <6> QED BY <1>1, <6>1, DivisionUnique
        <5>2. Equals(P % P, P)
          BY <1>1, EqualsIs
        <5> QED BY <5>1, <5>2
      <4>3. Equals(v, v)
        BY <1>1, EqualsIs
      <4>4. Equals(0 - v, P - v)
        BY <4>2, <4>3, EqualsAdd
      <4> QED BY <4>1, <4>4
    <3> QED BY <3>1, <3>2
  <2> HIDE DEF a
  <2>5. Equals(a * a, v * v)
    <3>1. Equals(a, 0 - v)
      BY <2>4, EqualsIs
    <3>2. Equals(a * a, (0 - v) * (0 - v))
      BY <3>1, EqualsTimes
    <3>3. (0 - v) * (0 - v) = v * v
      BY <1>1
    <3> QED BY <3>2, <3>3
  <2>6. Stands(z, a)
    BY <1>3, <2>1, <2>4, StandsEqual
  <2> QED BY <1>3, <2>1, <2>2, <2>3, <2>5, <2>6 DEF v, z
<1> QED BY <1>5, <1>6

(* What unpackneg makes of the second coordinate y and of a parity.        *)
Second(bytes) == (Worth(bytes, BYTE, BYTES) % (P + 19)) % P
HasPointAt(y) == \E x \in 0..(P - 1) : OnCurve(<<x, y>>)
IsDecoded(point, y, parity) ==
  \E x \in 0..(P - 1) : /\ OnCurve(<<x, y>>) /\ (x = 0 \/ x % 2 # parity)
                        /\ <<x, y>> \in Pairs
                        /\ IsPoint(point, <<x, y>>) /\ point \in [1..4 -> gf]

LEMMA FromSecondIs ==
  ASSUME FieldAssumption, CurveAssumption, PrimeAssumption, NEW ly, Tight(ly),
         NEW parity \in {0, 1}
  PROVE  /\ FromSecond(ly, parity) = NoPoint <=> ~HasPointAt(Element(ly))
         /\ HasPointAt(Element(ly)) => IsDecoded(FromSecond(ly, parity), Element(ly), parity)
<1> DEFINE y == Element(ly)
           yy == S(ly)
           num == Z(yy, gf1)
           den == A(gf1, M(yy, D))
           m == Num(y)
           n == Den(y)
           o == OrOther(Candidate(num, den), num, den)
           e == Element(o)
           out == FromSecond(ly, parity)
           ax == AtParity(o, parity)
<1>1. y \in 0..(P - 1) /\ y \in Int /\ Stands(ly, y) /\ Loose(ly)
  <2>1. y \in 0..(P - 1) /\ Stands(ly, y) /\ Loose(ly)
    BY ElementFacts, StandsFor, LooseFacts DEF Tight
  <2> QED BY <2>1 DEF Stands
<1>2. Tight(yy) /\ Stands(yy, y * y)
  BY <1>1, ProductStands DEF S
<1>3. Tight(gf1) /\ Stands(gf1, 1) /\ Tight(D) /\ Stands(D, Element(D)) /\ Element(D) \in Int
  <2>1. Tight(gf1) /\ Stands(gf1, 1)
    BY ConstantFacts, StandsFor DEF Tight
  <2>2. Tight(D) /\ Element(D) \in Int
    BY CurveFacts
  <2> QED BY <2>1, <2>2, StandsFor DEF Tight
<1>4. Tight(M(yy, D)) /\ Stands(M(yy, D), (y * y) * Element(D))
  BY <1>2, <1>3, LooseFacts, ProductStands
<1>5. Loose(num) /\ Stands(num, m) /\ Loose(den) /\ Stands(den, n)
  <2>1. Loose(num) /\ Stands(num, y * y - 1)
    BY <1>2, <1>3, SumStands
  <2>2. Loose(den) /\ Stands(den, 1 + (y * y) * Element(D))
    BY <1>3, <1>4, SumStands
  <2>3. (y * y) * Element(D) = Element(D) * (y * y)
    <3> DEFINE d == Element(D)
    <3>1. d \in Int /\ y \in Int
      BY <1>1, <1>3
    <3> HIDE DEF d, y
    <3>2. (y * y) * d = d * (y * y)
      BY <3>1
    <3> QED BY <3>2 DEF d
  <2> HIDE DEF num, den
  <2> QED BY <2>1, <2>2, <2>3 DEF Num, Den
<1>6. out = IF Wrong(o, num, den) THEN NoPoint ELSE PointOf(ax, ly)
  BY Zenon DEF FromSecond, FromSquare, FromRatio, FromRoot
<1> HIDE DEF num, den, m, n
<1>7. /\ Tight(o)
      /\ \A x \in Int : Equals((x * x) * n, m) /\ ~Equals(n, 0) => ~Wrong(o, num, den)
  BY <1>5, OrOtherFinds
<1> HIDE DEF o, y
<1>8. /\ \A x \in Int : OnCurve(<<x, y>>) <=> Equals((x * x) * n, m)
      /\ m \in Int /\ n \in Int
  <2>1. \A x \in Int : OnCurve(<<x, y>>) <=> Equals((x * x) * Den(y), Num(y))
    BY <1>1, OnCurveIs
  <2> QED BY <1>5, <2>1 DEF m, n, Stands
<1>9. \A x \in Int : Equals((x * x) * n, m) => ~Equals(n, 0)
  BY <1>1, DenIsNotZero DEF m, n
<1>10. ASSUME HasPointAt(y) PROVE ~Wrong(o, num, den)
  <2>1. PICK x \in 0..(P - 1) : OnCurve(<<x, y>>)
    BY <1>10 DEF HasPointAt
  <2>2. x \in Int
    BY FieldSizes
  <2> QED BY <1>7, <1>8, <1>9, <2>1, <2>2
<1>11. ASSUME ~Wrong(o, num, den)
       PROVE  HasPointAt(y) /\ IsDecoded(out, y, parity) /\ out # NoPoint
  <2>1. PICK a \in 0..(P - 1) :
          /\ Within(ax, 1) /\ Stands(ax, a) /\ Equals(a * a, e * e) /\ (a = 0 \/ a % 2 # parity)
    BY <1>7, AtParityIs
  <2>2. Stands(o, e) /\ e \in Int
    BY <1>7, StandsFor DEF Tight, Stands
  <2>3. Equals((e * e) * n, m)
    BY <1>5, <1>7, <1>11, <2>2, WrongIs
  <2>4. Equals((a * a) * n, m)
    <3>1. Equals(n, n)
      BY <1>8, EqualsIs
    <3>2. Equals((a * a) * n, (e * e) * n)
      BY <2>1, <3>1, EqualsTimes
    <3> QED BY <2>3, <3>2, EqualsIs
  <2>5. a \in Int
    BY FieldSizes
  <2>6. OnCurve(<<a, y>>)
    BY <1>8, <2>4, <2>5
  <2>7. out = PointOf(ax, ly)
    BY <1>6, <1>11
  <2>8. IsPoint(out, <<a, y>>) /\ <<a, y>> \in Pairs /\ out \in [1..4 -> gf]
    BY <1>1, <2>1, <2>7, OneStands
  <2>9. out # NoPoint
    BY <2>7 DEF PointOf, NoPoint
  <2> HIDE DEF out
  <2>10. HasPointAt(y)
    BY <2>6 DEF HasPointAt
  <2>11. IsDecoded(out, y, parity)
    BY <2>1, <2>6, <2>8 DEF IsDecoded
  <2> QED BY <2>9, <2>10, <2>11
<1>12. Wrong(o, num, den) => out = NoPoint
  BY <1>6
<1> HIDE DEF out
<1> QED BY <1>10, <1>11, <1>12 DEF y, out

(* unpackneg of tweetnacl.c: bytes have a point if and only if some point  *)
(* of the curve has their number as its second coordinate; the point it    *)
(* returns has the other parity than the bytes say.                        *)
THEOREM UnpackDecodes ==
  ASSUME FieldAssumption, CurveAssumption, PrimeAssumption, NEW n, AreDigits(n, BYTE, BYTES)
  PROVE  /\ unpackneg(n) = NoPoint <=> ~HasPointAt(Second(n))
         /\ HasPointAt(Second(n)) =>
              IsDecoded(unpackneg(n), Second(n), n[BYTES] \div HALF)
<1> DEFINE ly == unpack25519(n)
           parity == n[BYTES] \div HALF
<1>1. Tight(ly) /\ Element(ly) = Second(n)
  BY UnpackIsExact DEF Second
<1>2. parity \in {0, 1}
  <2>1. BYTES \in Nat /\ BYTES >= 4 /\ BYTE = 2 * HALF /\ HALF \in Nat /\ HALF > 0
    BY TopFacts
  <2>2. n[BYTES] \in 0..(BYTE - 1)
    BY <2>1 DEF AreDigits
  <2> DEFINE h == HALF
             z == n[BYTES]
  <2>3. h \in Nat /\ h > 0 /\ z \in 0..(2 * h - 1)
    BY <2>1, <2>2
  <2> HIDE DEF h, z
  <2>4. CASE z < h
    <3>1. z = 0 * h + z /\ z \in 0..(h - 1) /\ 0 \in Nat
      BY <2>3, <2>4
    <3>2. z \div h = 0
      BY <2>3, <3>1, DivisionUnique
    <3> QED BY <3>2 DEF h, z
  <2>5. CASE z >= h
    <3> DEFINE r == z - h
    <3>1. z = 1 * h + r /\ r \in 0..(h - 1) /\ 1 \in Nat
      BY <2>3, <2>5
    <3> HIDE DEF r
    <3>2. z \div h = 1
      BY <2>3, <3>1, DivisionUnique
    <3> QED BY <3>2 DEF h, z
  <2> QED BY <2>3, <2>4, <2>5
<1>3. unpackneg(n) = FromSecond(ly, parity)
  BY Zenon DEF unpackneg, HALF
<1> HIDE DEF ly, parity
<1>4. /\ FromSecond(ly, parity) = NoPoint <=> ~HasPointAt(Element(ly))
      /\ HasPointAt(Element(ly)) => IsDecoded(FromSecond(ly, parity), Element(ly), parity)
  BY <1>1, <1>2, FromSecondIs
<1> QED BY <1>1, <1>3, <1>4 DEF parity

(* The bytes of a point of the curve are decoded, to its negative.         *)
THEOREM UnpackNegates ==
  ASSUME FieldAssumption, CurveAssumption, PrimeAssumption, NEW u \in Pairs, OnCurve(u)
  PROVE  /\ IsPoint(unpackneg(EncodingOf(u)), Negated(u)) /\ Negated(u) \in Pairs
         /\ unpackneg(EncodingOf(u)) \in [1..4 -> gf]
<1> DEFINE n == EncodingOf(u)
           x == u[1]
           y == u[2]
           s == x % 2
           q == P + 19
<1>1. /\ AreDigits(n, BYTE, BYTES) /\ Worth(n, BYTE, BYTES) = y + s * q
      /\ n[BYTES] \div HALF = s
  BY EncodingFacts
<1>2. P \in Nat /\ P > 2 /\ q \in Nat /\ q > 0
  BY TopFacts
<1>3. x \in 0..(P - 1) /\ y \in 0..(P - 1) /\ x \in Int /\ y \in Int /\ u = <<x, y>>
  BY <1>2 DEF Pairs
<1> HIDE DEF n, x, y
<1>4. s \in {0, 1} /\ s \in Nat
  BY <1>2, <1>3
<1>5. Second(n) = y
  <2> HIDE DEF s
  <2>1. y + s * q = s * q + y /\ y \in 0..(q - 1)
    BY <1>2, <1>3, <1>4
  <2> HIDE DEF q
  <2>2. (y + s * q) % q = y
    BY <1>2, <1>4, <2>1, DivisionUnique
  <2>3. y % P = y
    <3>1. y = 0 * P + y /\ 0 \in Nat /\ P > 0
      BY <1>2, <1>3
    <3> QED BY <1>2, <1>3, <3>1, DivisionUnique
  <2> QED BY <1>1, <2>2, <2>3 DEF Second, q
<1>6. HasPointAt(y)
  BY <1>3 DEF HasPointAt
<1> HIDE DEF s
<1>7. IsDecoded(unpackneg(n), y, s)
  BY <1>1, <1>5, <1>6, UnpackDecodes
<1>8. PICK a \in 0..(P - 1) :
        /\ OnCurve(<<a, y>>) /\ (a = 0 \/ a % 2 # s) /\ <<a, y>> \in Pairs
        /\ IsPoint(unpackneg(n), <<a, y>>) /\ unpackneg(n) \in [1..4 -> gf]
  BY <1>7 DEF IsDecoded
<1>9. a \in Int
  BY <1>2
<1> DEFINE den == Den(y)
           num == Num(y)
<1>10. /\ Equals((a * a) * den, num) /\ Equals((x * x) * den, num)
       /\ den \in Int /\ num \in Int
  BY <1>3, <1>8, <1>9, OnCurveIs
<1>11. ~Equals(den, 0)
  BY <1>3, <1>10, DenIsNotZero
<1> HIDE DEF den, num
<1>12. Equals(a * a, x * x)
  <2>1. Equals((a * a) * den, (x * x) * den)
    BY <1>10, EqualsIs
  <2>2. a * a \in Int /\ x * x \in Int
    BY <1>3, <1>9
  <2> DEFINE v == a * a
             w == x * x
  <2> HIDE DEF v, w
  <2>3. v \in Int /\ w \in Int /\ Equals(v * den, w * den)
    BY <2>1, <2>2 DEF v, w
  <2>4. Equals(v, w)
    BY <1>10, <1>11, <2>3, EqualsCancel
  <2> QED BY <2>4 DEF v, w
<1>13. a = x \/ a = (P - x) % P
  <2> DEFINE v == a - x
             w == a + x
  <2>1. v \in Int /\ w \in Int /\ v * w = a * a - x * x /\ v + x = a /\ w - x = a
    BY <1>3, <1>9
  <2>2. Equals(a * a - x * x, 0)
    <3>1. Equals(x * x, x * x)
      <4> DEFINE z == x * x
      <4>1. z \in Int
        BY <1>3
      <4> HIDE DEF z
      <4>2. Equals(z, z)
        BY <4>1, EqualsIs
      <4> QED BY <4>2 DEF z
    <3>2. Equals(a * a - x * x, x * x - x * x)
      BY <1>12, <3>1, EqualsAdd
    <3>3. x * x - x * x = 0
      BY <1>3
    <3> QED BY <3>2, <3>3
  <2> HIDE DEF v, w
  <2>3. Equals(v, 0) \/ Equals(w, 0)
    BY <2>1, <2>2, NoDivisors
  <2>4. Equals(x, x)
    BY <1>3, EqualsIs
  <2>5. CASE Equals(v, 0)
    <3>1. Equals(v + x, 0 + x) /\ 0 + x = x
      BY <1>3, <2>4, <2>5, EqualsAdd
    <3>2. Equals(a, x)
      BY <2>1, <3>1
    <3>3. a % P = x
      BY <1>3, <1>9, <3>2, EqualsBelow
    <3>4. a % P = a
      <4>1. Equals(a, a)
        BY <1>9, EqualsIs
      <4> QED BY <1>9, <4>1, EqualsBelow
    <3> QED BY <3>3, <3>4
  <2>6. CASE Equals(w, 0)
    <3>1. Equals(w - x, 0 - x)
      BY <2>4, <2>6, EqualsAdd
    <3>2. Equals(P - x, 0 - x)
      <4>1. Equals(P, 0)
        <5>1. P = 1 * P + 0 /\ 0 \in 0..(P - 1) /\ 1 \in Nat /\ P > 0
          BY <1>2
        <5>2. P % P = 0
          BY <1>2, <5>1, DivisionUnique
        <5>3. Equals(P % P, P)
          BY <1>2, EqualsIs
        <5> QED BY <5>2, <5>3, EqualsIs
      <4> QED BY <2>4, <4>1, EqualsAdd
    <3> DEFINE z == P - x
    <3>3. z \in Int
      BY <1>2, <1>3
    <3>4. Equals(z, a)
      <4>1. Equals(0 - x, a)
        BY <2>1, <3>1, EqualsIs
      <4> QED BY <3>2, <4>1, EqualsIs
    <3> HIDE DEF z
    <3>5. z % P = a
      BY <3>3, <3>4, EqualsBelow
    <3> QED BY <3>5 DEF z
  <2> QED BY <2>3, <2>5, <2>6
<1>14. a = (P - x) % P
  <2>1. CASE x = 0
    <3>1. (P - x) % P = 0
      <4>1. P - x = 1 * P + 0 /\ 0 \in 0..(P - 1) /\ 1 \in Nat /\ P > 0
        BY <1>2, <2>1
      <4> QED BY <1>2, <4>1, DivisionUnique
    <3> QED BY <1>13, <2>1, <3>1
  <2>2. CASE x # 0
    <3>1. a # x
      BY <1>8, <2>2 DEF s
    <3> QED BY <1>13, <3>1
  <2> QED BY <2>1, <2>2
<1>15. Negated(u) = <<a, y>>
  BY <1>14 DEF Negated, x, y
<1> QED BY <1>8, <1>15 DEF n

-----------------------------------------------------------------------------
(* Signatures. *)

(* The hash is a function to bytes.                                        *)
HashAssumption == \A x \in Strings : Hash(x) \in [1..(2 * BYTES) -> 0..(BYTE - 1)]

LEMMA ScalarFacts ==
  ASSUME FieldAssumption, NEW s \in Scalar
  PROVE  s \in Strings /\ Len(s) = BYTES /\ AreDigits(s, BYTE, BYTES) /\ Worth(s, BYTE, BYTES) \in Nat
<1> DEFINE m == BYTES
           b == BYTE
<1>1. m \in Nat /\ b \in Nat /\ b > 0
  <2>1. BYTES \in Nat /\ BYTE \in Nat /\ BYTE = 2 * HALF /\ HALF \in Nat /\ HALF > 0
    BY TopFacts
  <2> QED BY <2>1
<1>2. s \in [1..m -> 0..(b - 1)]
  BY DEF Scalar
<1> HIDE DEF m, b
<1>3. s \in Seq(0..(b - 1)) /\ Len(s) = m
  BY <1>1, <1>2, WholeArray
<1>4. AreDigits(s, b, m)
  BY <1>2 DEF AreDigits
<1>5. Worth(s, b, m) \in Nat
  BY <1>1, <1>4, WorthBound
<1> QED BY <1>3, <1>4, <1>5 DEF Strings, m, b

(* A number modulo the order in bytes.                                     *)
LEMMA OrderDigits ==
  ASSUME FieldAssumption, OrderAssumption, NEW y \in Int
  PROVE  Digits(y % Order) \in Scalar /\ Worth(Digits(y % Order), BYTE, BYTES) = y % Order
<1> DEFINE o == Order
           r == y % o
<1>1. o \in Nat /\ o > 0 /\ o < CAP /\ CAP \in Nat
  BY OrderFacts, TopFacts, FieldSizes
<1> HIDE DEF o
<1>2. r \in 0..(o - 1)
  BY <1>1, IntCongruentRemainder
<1> HIDE DEF r
<1>3. r \in 0..(CAP - 1)
  BY <1>1, <1>2
<1>4. Digits(r) \in Scalar /\ Worth(Digits(r), BYTE, BYTES) = r
  BY <1>3, DigitsAre, DigitsFacts
<1> QED BY <1>4 DEF r, o

LEMMA ReducedFacts ==
  ASSUME FieldAssumption, OrderAssumption, NEW x, x \in [1..(2 * BYTES) -> 0..(BYTE - 1)]
  PROVE  reduce(x) \in Scalar
<1> DEFINE m == BYTES
           b == BYTE
           c == (m * (b - 1)) * (b - 1)
<1>1. m \in Nat /\ b \in Nat /\ b > 1
  BY OrderFacts
<1>2. MOST = c + b - 1
  BY DEF MOST
<1>3. c \in Nat
  <2>1. b - 1 \in Nat
    BY <1>1
  <2> DEFINE d == b - 1
  <2> HIDE DEF d
  <2>2. m \in Nat /\ d \in Nat
    BY <1>1, <2>1 DEF d
  <2>3. m * d \in Nat /\ (m * d) * d \in Nat
    BY <2>2
  <2> QED BY <2>3 DEF d
<1>4. 0..(b - 1) \subseteq 0..MOST
  <2> HIDE DEF b, c
  <2> QED BY <1>1, <1>2, <1>3
<1>5. x \in [1..(2 * BYTES) -> 0..MOST]
  BY <1>4
<1>6. reduce(x) = Digits(Worth(x, BYTE, 2 * BYTES) % Order)
  BY <1>5, ModLIsExact DEF reduce
<1>7. Worth(x, BYTE, 2 * BYTES) \in Int
  <2> DEFINE k == 2 * m
  <2>1. k \in Nat /\ b > 0 /\ AreDigits(x, b, k)
    BY <1>1 DEF AreDigits
  <2> HIDE DEF k, b
  <2>2. Worth(x, b, k) \in Nat
    BY <1>1, <2>1, WorthBound
  <2> QED BY <2>2 DEF k, b
<1> QED BY <1>6, <1>7, OrderDigits

(* Any two strings of bytes are joined, and taken apart again.             *)
LEMMA DropStays ==
  ASSUME NEW T, NEW s \in Seq(T), NEW k \in Nat
  PROVE  Drop(s, k) \in Seq(T)
<1>1. CASE k <= Len(s)
  BY <1>1, TakeDrop
<1>2. CASE k > Len(s)
  <2>1. Drop(s, k) = SubSeq(s, k + 1, Len(s)) /\ Len(s) \in Nat
    BY DEF Drop
  <2>2. SubSeq(s, k + 1, Len(s)) = <<>>
    BY <1>2, <2>1
  <2> QED BY <2>1, <2>2
<1> QED BY <1>1, <1>2

LEMMA HalvesOf ==
  ASSUME FieldAssumption, NEW a \in Strings, NEW b \in Strings, Len(a) = BYTES
  PROVE  Prefix(a \o b) = a /\ Suffix(a \o b) = b /\ a \o b \in Strings /\ Len(a \o b) = BYTES + Len(b)
<1> DEFINE T == 0..(BYTE - 1)
<1>1. a \in Seq(T) /\ b \in Seq(T)
  BY DEF Strings
<1> HIDE DEF T
<1>2. SubSeq(a \o b, 1, Len(a)) = a /\ b = Drop(a \o b, Len(a))
  BY <1>1, PrefixOfCat, DropOfCat
<1>3. a \o b \in Seq(T) /\ Len(a \o b) = Len(a) + Len(b)
  BY <1>1, Concatenation
<1> QED BY <1>2, <1>3 DEF Prefix, Suffix, Take, Strings, T

LEMMA HalvesAre ==
  ASSUME FieldAssumption, NEW x, x \in [1..(2 * BYTES) -> 0..(BYTE - 1)]
  PROVE  Prefix(x) \in Scalar /\ Suffix(x) \in Scalar
<1> DEFINE m == BYTES
           T == 0..(BYTE - 1)
           k == 2 * m
<1>1. m \in Nat /\ k \in Nat /\ m \in 0..k /\ k - m = m
  BY TopFacts
<1>2. x \in [1..k -> T]
  OBVIOUS
<1> HIDE DEF T, k
<1>3. x \in Seq(T) /\ Len(x) = k
  BY <1>1, <1>2, WholeArray
<1>4. Take(x, m) \in Seq(T) /\ Len(Take(x, m)) = m /\ Drop(x, m) \in Seq(T) /\ Len(Drop(x, m)) = m
  BY <1>1, <1>3, TakeDrop
<1> HIDE DEF m
<1>5. \A s : s \in Seq(T) /\ Len(s) = m => s \in [1..m -> T]
  BY <1>1
<1>6. Take(x, m) \in [1..m -> T] /\ Drop(x, m) \in [1..m -> T]
  BY <1>4, <1>5
<1> QED BY <1>6 DEF Prefix, Suffix, Scalar, m, T

LEMMA ClampStays ==
  ASSUME FieldAssumption, NEW n \in Scalar
  PROVE  Clamp(n) \in Scalar
<1> DEFINE m == BYTES
           b == BYTE
           q == b \div 4
           f == [j \in 1..m |-> IF j = m THEN (n[j] % q) + q
                                ELSE IF j = 1 THEN 8 * (n[j] \div 8) ELSE n[j]]
<1>1. m \in Nat /\ b \in Nat /\ b >= 16 /\ LIMBS \in Nat
  BY ByteFacts, TopFacts
<1>2. Clamp(n) = SubSeq(f, 1, m)
  BY Zenon DEF Clamp, Array
<1>3. \A j \in 1..m : n[j] \in 0..(b - 1)
  BY DEF Scalar
<1> HIDE DEF m, b
<1>4. q \in Nat /\ q > 0 /\ 2 * q <= b
  BY <1>1
<1> HIDE DEF q
<1>5. ASSUME NEW x \in 0..(b - 1)
      PROVE  (x % q) + q \in 0..(b - 1) /\ 8 * (x \div 8) \in 0..(b - 1)
  <2>1. x \in Nat
    BY <1>1
  <2>2. x % q \in 0..(q - 1)
    BY <1>4, <2>1
  <2>3. (x % q) + q \in 0..(b - 1)
    <3> DEFINE r == x % q
    <3> HIDE DEF r
    <3>1. r \in 0..(q - 1)
      BY <2>2 DEF r
    <3>2. r + q \in 0..(b - 1)
      BY <1>1, <1>4, <3>1
    <3> QED BY <3>2 DEF r
  <2>4. 8 * (x \div 8) \in 0..(b - 1)
    BY <1>1, <2>1
  <2> QED BY <2>3, <2>4
<1>6. f \in [1..m -> 0..(b - 1)]
  <2>1. ASSUME NEW j \in 1..m PROVE f[j] \in 0..(b - 1)
    <3>1. n[j] \in 0..(b - 1)
      BY <1>3
    <3>2. (n[j] % q) + q \in 0..(b - 1) /\ 8 * (n[j] \div 8) \in 0..(b - 1)
      BY <1>5, <3>1
    <3> QED BY <3>1, <3>2
  <2> HIDE DEF f
  <2>2. \E g : f = [j \in 1..m |-> g[j]]
    <3>1. f = [j \in 1..m |-> f[j]]
      BY DEF f
    <3> QED BY <3>1
  <2> QED BY <2>1, <2>2
<1> HIDE DEF f
<1>7. SubSeq(f, 1, m) = f
  BY <1>1, <1>6, WholeArray
<1> QED BY <1>2, <1>6, <1>7 DEF Scalar, m, b

(* The string that crypto_sign_open hashes.                                *)
HashedOf(sm, pk) == Prefix(sm) \o pk \o Drop(sm, 2 * BYTES)

LEMMA PartsOfSigned ==
  ASSUME FieldAssumption, NEW sm \in Strings, Len(sm) >= 2 * BYTES, NEW pk \in Strings
  PROVE  /\ HashedOf(sm, pk) \in Strings /\ Drop(sm, 2 * BYTES) \in Strings
         /\ Prefix(Suffix(sm)) \in Scalar
<1> DEFINE k == BYTES
           T == 0..(BYTE - 1)
           sb == Prefix(Suffix(sm))
<1>0. k \in Nat /\ 2 * k \in Nat /\ Len(sm) \in Nat /\ sm \in Seq(T) /\ pk \in Seq(T)
  <2>1. k \in Nat
    BY TopFacts
  <2>2. sm \in Seq(T) /\ pk \in Seq(T)
    BY Zenon DEF Strings
  <2> HIDE DEF k, T
  <2> QED BY <2>1, <2>2
<1> HIDE DEF T
<1>1. k \in 0..Len(sm) /\ 2 * k \in 0..Len(sm)
  BY <1>0
<1>2. Prefix(sm) \in Seq(T) /\ Drop(sm, 2 * k) \in Seq(T) /\ Suffix(sm) \in Seq(T)
      /\ Len(Suffix(sm)) = Len(sm) - k
  <2> DEFINE l == 2 * k
  <2>1. l \in 0..Len(sm)
    BY <1>1
  <2> HIDE DEF k, l
  <2>2. Take(sm, k) \in Seq(T) /\ Drop(sm, k) \in Seq(T) /\ Len(Drop(sm, k)) = Len(sm) - k
    BY <1>0, <1>1, TakeDrop
  <2>3. Drop(sm, l) \in Seq(T)
    BY <1>0, <2>1, TakeDrop
  <2> QED BY <2>2, <2>3 DEF Prefix, Suffix, k, l
<1>3. Prefix(sm) \o pk \in Seq(T)
  BY <1>0, <1>2, Concatenation
<1>4. Prefix(sm) \o pk \o Drop(sm, 2 * k) \in Seq(T)
  BY <1>2, <1>3, Concatenation
<1>5. sb \in Seq(T) /\ Len(sb) = k
  <2>1. k \in 0..Len(Suffix(sm))
    BY <1>0, <1>2
  <2> DEFINE t == Suffix(sm)
  <2> HIDE DEF t
  <2>2. Take(t, k) \in Seq(T) /\ Len(Take(t, k)) = k
    BY <1>2, <2>1, TakeDrop DEF t
  <2> QED BY <2>2 DEF t, Prefix
<1>6. sb \in [1..k -> T]
  <2> HIDE DEF sb, k
  <2> QED BY <1>0, <1>5
<1> QED BY <1>2, <1>4, <1>6 DEF Strings, HashedOf, Scalar, T

LEMMA OpenIs ==
  ASSUME NEW m, NEW sm, NEW pk, Len(sm) >= 2 * BYTES, Len(sm) \in Nat, BYTES \in Nat,
         unpackneg(pk) # NoPoint
  PROVE  crypto_sign_open(m, sm, pk)
           = Verified(HasPoint(sm, unpackneg(pk), HashedOf(sm, pk)), m, sm, HashedOf(sm, pk))
<1>1. ~(Len(sm) < 2 * BYTES \/ unpackneg(pk) = NoPoint)
  OBVIOUS
<1> QED BY <1>1, Zenon DEF crypto_sign_open, OpenedAt, HashedOf

(* What crypto_sign_open checks a string with: the points of the key and   *)
(* of the base, their multiples by the numbers h and s, and the sum w.     *)
IsChecked(sm, pk, a, multiples, group, h, s, w) ==
  /\ sm \in Strings /\ Len(sm) >= 2 * BYTES /\ pk \in Strings
  /\ IsPoint(unpackneg(pk), a) /\ unpackneg(pk) \in [1..4 -> gf]
  /\ IsMultiples(multiples, a) /\ IsMultiples(group, BasePoint)
  /\ h = Worth(reduce(Hash(HashedOf(sm, pk))), BYTE, BYTES)
  /\ s = Worth(Prefix(Suffix(sm)), BYTE, BYTES)
  /\ w \in Pairs /\ IsSum(multiples[h], group[s], w)

LEMMA OpenChecks ==
  ASSUME FieldAssumption, CurveAssumption, PrimeAssumption, OrderAssumption, HashAssumption,
         NEW m, NEW sm, NEW pk, NEW a, NEW multiples, NEW group, NEW h, NEW s, NEW w,
         IsChecked(sm, pk, a, multiples, group, h, s, w)
  PROVE  crypto_sign_open(m, sm, pk).valid <=> Prefix(sm) = EncodingOf(w)
<1> SUFFICES ASSUME sm \in Strings, Len(sm) >= 2 * BYTES, pk \in Strings,
                    IsPoint(unpackneg(pk), a), unpackneg(pk) \in [1..4 -> gf],
                    IsMultiples(multiples, a), IsMultiples(group, BasePoint),
                    h = Worth(reduce(Hash(HashedOf(sm, pk))), BYTE, BYTES),
                    s = Worth(Prefix(Suffix(sm)), BYTE, BYTES),
                    w \in Pairs, IsSum(multiples[h], group[s], w)
             PROVE  crypto_sign_open(m, sm, pk).valid <=> Prefix(sm) = EncodingOf(w)
  BY Zenon DEF IsChecked
<1> DEFINE q == unpackneg(pk)
           k == BYTES
           T == 0..(BYTE - 1)
           hs == HashedOf(sm, pk)
           sb == Prefix(Suffix(sm))
           hb == reduce(Hash(hs))
<1>1. k \in Nat /\ 2 * k \in Nat /\ Len(sm) \in Nat /\ sm \in Seq(T) /\ pk \in Seq(T)
  <2>1. k \in Nat
    BY TopFacts
  <2>2. sm \in Seq(T) /\ pk \in Seq(T)
    BY Zenon DEF Strings
  <2> HIDE DEF k, T
  <2> QED BY <2>1, <2>2
<1>2. q # NoPoint
  <2>1. DOMAIN q = 1..4
    OBVIOUS
  <2> HIDE DEF q
  <2>2. 1 \in DOMAIN q
    BY <2>1
  <2> QED BY <2>2 DEF NoPoint
<1>3. crypto_sign_open(m, sm, pk) = Verified(HasPoint(sm, q, hs), m, sm, hs)
  BY <1>1, <1>2, OpenIs
<1> HIDE DEF q
<1>4. crypto_sign_open(m, sm, pk).valid = HasPoint(sm, q, hs)
  BY <1>3 DEF Verified, OpenResult
<1>5. hs \in Strings /\ sb \in Scalar
  BY PartsOfSigned
<1>6. hb \in Scalar
  <2>1. Hash(hs) \in [1..(2 * BYTES) -> 0..(BYTE - 1)]
    BY <1>5 DEF HashAssumption
  <2> QED BY <2>1, ReducedFacts
<1>7. AreDigits(hb, BYTE, BYTES) /\ AreDigits(sb, BYTE, BYTES) /\ h \in Nat /\ s \in Nat
  BY <1>5, <1>6, ScalarFacts
<1> DEFINE qh == scalarmult(q, hb)
           bs == scalarbase(sb)
<1>8. HasPoint(sm, q, hs) <=> Prefix(sm) = pack(add(qh, bs))
  BY Zenon DEF HasPoint
<1> HIDE DEF hb, sb, hs
<1>9. IsPoint(q, a) /\ q \in [1..4 -> gf]
  BY DEF q
<1>10. IsPoint(qh, multiples[h])
  <2>1. IsPoint(scalarmult(q, hb), multiples[Worth(hb, BYTE, BYTES)])
    BY <1>7, <1>9, ScalarMultIsMultiple
  <2>2. h = Worth(hb, BYTE, BYTES)
    BY DEF hb, hs
  <2> QED BY <2>1, <2>2
<1>11. IsPoint(bs, group[s])
  <2>1. IsPoint(scalarbase(sb), group[Worth(sb, BYTE, BYTES)])
    BY <1>7, ScalarBaseIsMultiple
  <2>2. s = Worth(sb, BYTE, BYTES)
    BY DEF sb
  <2> QED BY <2>1, <2>2
<1>12. multiples[h] \in Pairs /\ group[s] \in Pairs
  BY <1>7 DEF IsMultiples
<1> HIDE DEF qh, bs
<1>13. IsPoint(add(qh, bs), w)
  BY <1>10, <1>11, <1>12, AddIsSum
<1>14. pack(add(qh, bs)) = EncodingOf(w)
  BY <1>13, PackIsEncoding
<1> QED BY <1>4, <1>8, <1>14

(* crypto_sign_open of tweetnacl.c: with a public key that is decoded to   *)
(* the point -A, it accepts exactly the strings whose first half is the    *)
(* only encoding of h (-A) + s B. The two points are any whose multiples   *)
(* the law of addition is defined for.                                     *)
THEOREM OpenChecksEquation ==
  ASSUME FieldAssumption, CurveAssumption, PrimeAssumption, OrderAssumption, HashAssumption,
         NEW m, NEW sm \in Strings, Len(sm) >= 2 * BYTES, NEW pk \in Strings,
         NEW a, IsPoint(unpackneg(pk), a), unpackneg(pk) \in [1..4 -> gf],
         NEW multiples, IsMultiples(multiples, a),
         NEW group, IsMultiples(group, BasePoint),
         NEW h, h = Worth(reduce(Hash(HashedOf(sm, pk))), BYTE, BYTES),
         NEW s, s = Worth(Prefix(Suffix(sm)), BYTE, BYTES),
         NEW w \in Pairs, IsSum(multiples[h], group[s], w)
  PROVE  crypto_sign_open(m, sm, pk).valid <=> Prefix(sm) = EncodingOf(w)
<1>1. IsChecked(sm, pk, a, multiples, group, h, s, w)
  BY Zenon DEF IsChecked
<1> QED BY <1>1, OpenChecks

(* The multiples of the base point: points of the curve, as many as Order, *)
(* and with the negatives of each other.                                   *)
IsCycle(group) ==
  /\ IsMultiples(group, BasePoint)
  /\ \A n \in Nat : OnCurve(group[n]) /\ group[n + Order] = group[n]
  /\ \A n \in 0..Order : group[Order - n] = Negated(group[n])

LEMMA Periodic ==
  ASSUME OrderAssumption, NEW group, IsCycle(group), NEW m \in Nat, NEW n \in Nat,
         Congruent(m, n, Order)
  PROVE  group[m] = group[n]
<1> DEFINE o == Order
<1>1. o \in Nat /\ o > 0
  BY OrderFacts
<1>2. \A i \in Nat : group[i + o] = group[i]
  BY DEF IsCycle
<1> HIDE DEF o
<1>3. ASSUME NEW i \in Nat, NEW k \in Nat PROVE group[i + k * o] = group[i]
  <2> DEFINE Good == {j \in Nat : group[i + j * o] = group[i]}
  <2>1. 0 \in Good
    <3>1. i + 0 * o = i
      BY <1>1
    <3> QED BY <3>1
  <2>2. ASSUME NEW j \in Nat, j \in Good PROVE j + 1 \in Good
    <3> DEFINE v == i + j * o
    <3>1. i + (j + 1) * o = v + o /\ v \in Nat
      BY <1>1
    <3>2. group[v] = group[i]
      BY <2>2
    <3> HIDE DEF v
    <3>3. group[i + (j + 1) * o] = group[i]
      BY <1>2, <3>1, <3>2
    <3> QED BY <3>3
  <2> HIDE DEF Good
  <2>3. Nat \subseteq Good
    BY <2>1, <2>2, SetInduction
  <2> QED BY <2>3 DEF Good
<1>4. PICK z \in Int : m = n + z * o
  BY DEF Congruent, o
<1>5. CASE z >= 0
  BY <1>3, <1>4, <1>5
<1>6. CASE z < 0
  <2>1. -z \in Nat /\ n = m + (-z) * o
    BY <1>1, <1>4, <1>6
  <2> QED BY <1>3, <2>1
<1> QED BY <1>5, <1>6

(* The multiples of the negative of a multiple.                            *)
Opposite(group, a) == [i \in Nat |-> group[i * (Order - (a % Order))]]

LEMMA OppositeFacts ==
  ASSUME OrderAssumption, NEW group, IsCycle(group), NEW a \in Nat
  PROVE  /\ IsMultiples(Opposite(group, a), Negated(group[a]))
         /\ \A i \in Nat : Opposite(group, a)[i] = group[i * (Order - (a % Order))]
         /\ Order - (a % Order) \in Nat
<1> DEFINE o == Order
           r == a % o
           e == o - r
           f == Opposite(group, a)
<1>1. o \in Nat /\ o > 0
  BY OrderFacts
<1>2. /\ group \in [Nat -> Pairs] /\ group[0] = <<0, 1>>
      /\ \A i, j \in Nat : IsSum(group[i], group[j], group[i + j])
      /\ \A i \in 0..o : group[o - i] = Negated(group[i])
  BY DEF IsCycle, IsMultiples
<1>3. r \in 0..(o - 1) /\ Congruent(r, a, o)
  <2> HIDE DEF o
  <2> QED BY <1>1, CongruentRemainder
<1>4. f = [i \in Nat |-> group[i * e]]
  BY DEF Opposite
<1>5. group[r] = group[a]
  <2>1. r \in Nat
    BY <1>1, <1>3
  <2> HIDE DEF r
  <2> QED BY <1>3, <2>1, Periodic
<1> HIDE DEF r
<1>6. e \in Nat /\ r \in 0..o
  BY <1>1, <1>3
<1>7. group[e] = Negated(group[a])
  BY <1>2, <1>5, <1>6
<1> HIDE DEF e, f
<1>8. \A i \in Nat : f[i] = group[i * e] /\ i * e \in Nat /\ f[i] \in Pairs
  BY <1>2, <1>4, <1>6
<1>9. f \in [Nat -> Pairs]
  BY <1>4, <1>8
<1>10. f[0] = <<0, 1>> /\ f[1] = Negated(group[a])
  <2>1. 0 * e = 0 /\ 1 * e = e /\ 0 \in Nat /\ 1 \in Nat
    BY <1>6
  <2>2. f[0] = group[0 * e] /\ f[1] = group[1 * e]
    BY <1>8, <2>1
  <2> QED BY <1>2, <1>7, <2>1, <2>2
<1>11. ASSUME NEW i \in Nat, NEW j \in Nat PROVE IsSum(f[i], f[j], f[i + j])
  <2>1. (i + j) * e = i * e + j * e /\ i + j \in Nat /\ i * e \in Nat /\ j * e \in Nat
    BY <1>6
  <2> DEFINE ie == i * e
             je == j * e
  <2>2. f[i] = group[ie] /\ f[j] = group[je] /\ f[i + j] = group[ie + je]
    BY <1>8, <2>1
  <2> HIDE DEF ie, je
  <2>3. IsSum(group[ie], group[je], group[ie + je])
    BY <1>2, <2>1 DEF ie, je
  <2> QED BY <2>2, <2>3
<1>12. IsMultiples(f, Negated(group[a]))
  BY <1>9, <1>10, <1>11, Zenon DEF IsMultiples
<1> QED BY <1>6, <1>8, <1>12 DEF f, e, r, o

(* The parts of a signed message, where they are put and taken.            *)
IsSignedMessage(sm, R, s, m) == sm = R \o s \o m /\ R \in Scalar /\ s \in Scalar /\ m \in Strings

LEMMA SignedParts ==
  ASSUME FieldAssumption, NEW sm, NEW R, NEW s, NEW m, IsSignedMessage(sm, R, s, m)
  PROVE  /\ sm \in Strings /\ Len(sm) = 2 * BYTES + Len(m) /\ Len(sm) >= 2 * BYTES
         /\ Prefix(sm) = R /\ Prefix(Suffix(sm)) = s /\ Drop(sm, 2 * BYTES) = m
<1> DEFINE k == BYTES
           T == 0..(BYTE - 1)
<1>0. sm = R \o s \o m /\ R \in Scalar /\ s \in Scalar /\ m \in Strings
  BY DEF IsSignedMessage
<1>1. k \in Nat /\ R \in Strings /\ s \in Strings /\ Len(R) = k /\ Len(s) = k
  BY <1>0, TopFacts, ScalarFacts
<1>2. R \in Seq(T) /\ s \in Seq(T) /\ m \in Seq(T)
  BY <1>0, <1>1, Zenon DEF Strings
<1>3. sm = R \o (s \o m)
  <2> HIDE DEF T
  <2>1. (R \o s) \o m = R \o (s \o m)
    BY <1>2, Associative
  <2> QED BY <1>0, <2>1
<1>4. s \o m \in Strings /\ Prefix(s \o m) = s
  BY <1>0, <1>1, HalvesOf
<1>5. Prefix(sm) = R /\ Suffix(sm) = s \o m
  <2> DEFINE t == s \o m
  <2>1. t \in Strings /\ sm = R \o t
    BY <1>3, <1>4
  <2> HIDE DEF t
  <2>2. Prefix(R \o t) = R /\ Suffix(R \o t) = t
    BY <1>1, <2>1, HalvesOf
  <2> QED BY <2>1, <2>2 DEF t
<1>6. R \o s \in Strings /\ Len(R \o s) = 2 * k
  <2>1. R \o s \in Strings /\ Len(R \o s) = k + Len(s)
    BY <1>1, HalvesOf
  <2> HIDE DEF k
  <2> QED BY <1>1, <2>1
<1> DEFINE t == R \o s
<1>7. t \in Seq(T) /\ Len(t) = 2 * k /\ sm = t \o m
  BY <1>0, <1>6, Zenon DEF Strings
<1> HIDE DEF t, T
<1>8. m = Drop(t \o m, Len(t)) /\ t \o m \in Seq(T) /\ Len(t \o m) = Len(t) + Len(m)
  <2>1. t \in Seq(T) /\ m \in Seq(T)
    BY <1>2, <1>7
  <2>2. m = Drop(t \o m, Len(t))
    BY <2>1, DropOfCat
  <2>3. t \o m \in Seq(T) /\ Len(t \o m) = Len(t) + Len(m)
    BY <2>1, Concatenation
  <2> QED BY <2>2, <2>3
<1>9. Len(m) \in Nat
  BY <1>2
<1>10. Len(sm) = 2 * k + Len(m) /\ Len(sm) >= 2 * k /\ Drop(sm, 2 * k) = m
  <2> HIDE DEF k
  <2> QED BY <1>1, <1>7, <1>8, <1>9
<1>11. sm \in Strings
  BY <1>7, <1>8 DEF Strings, T
<1> QED BY <1>4, <1>5, <1>10, <1>11

(* The message in front of what crypto_sign_open leaves, or zeros.         *)
LEMMA MessageInFront ==
  ASSUME FieldAssumption, NEW m \in Strings, NEW m0 \in Strings, NEW sm \in Strings, NEW hashed \in Strings,
         Drop(sm, 2 * BYTES) = m, NEW valid \in BOOLEAN
  PROVE  SubSeq(Verified(valid, m0, sm, hashed).m, 1, Len(m))
           = IF valid THEN m ELSE Repeat(0, Len(m))
<1> DEFINE T == 0..(BYTE - 1)
           f == IF valid THEN m ELSE Repeat(0, Len(m))
           x == Drop(hashed, Len(m))
           y == Drop(m0, Len(sm))
<1>1. m \in Seq(T) /\ m0 \in Seq(T) /\ sm \in Seq(T) /\ hashed \in Seq(T)
  BY Zenon DEF Strings
<1>2. 0 \in T
  BY ByteFacts
<1> HIDE DEF T
<1>3. Len(m) \in Nat /\ Len(sm) \in Nat
  BY <1>1
<1>4. f \in Seq(T) /\ Len(f) = Len(m)
  <2> DEFINE k == Len(m)
             z == [j \in 1..k |-> 0]
  <2>1. k \in Nat /\ Repeat(0, k) = z
    BY <1>3 DEF Repeat
  <2> HIDE DEF k
  <2>2. z \in [1..k -> T]
    BY <1>2
  <2>3. z \in Seq(T) /\ Len(z) = k
    BY <2>1, <2>2
  <2> QED BY <1>1, <2>1, <2>3 DEF k
<1>5. x \in Seq(T) /\ y \in Seq(T)
  BY <1>1, <1>3, DropStays
<1>6. Verified(valid, m0, sm, hashed).m = (f \o x) \o y
  BY DEF Verified, OpenResult
<1> HIDE DEF f, x, y
<1>7. (f \o x) \o y = f \o (x \o y) /\ x \o y \in Seq(T)
  BY <1>4, <1>5, Associative, Concatenation
<1> DEFINE z == x \o y
<1> HIDE DEF z
<1>8. z \in Seq(T) /\ Verified(valid, m0, sm, hashed).m = f \o z
  BY <1>6, <1>7 DEF z
<1>9. SubSeq(f \o z, 1, Len(f)) = f
  BY <1>4, <1>8, PrefixOfCat
<1> QED BY <1>4, <1>8, <1>9 DEF f

(* The number of the second half: h (-a) + (r + h a) is r, modulo Order.   *)
LEMMA NumbersCancel ==
  ASSUME OrderAssumption, NEW r \in Nat, NEW h \in Nat, NEW a \in Nat, NEW e, e = Order - (a % Order),
         NEW s, s = (r + h * a) % Order
  PROVE  /\ s \in Nat /\ h * e + s \in Nat /\ Congruent(h * e + s, r, Order)
<1> DEFINE o == Order
           z == a % o
           b == r + h * a
<1>1. o \in Nat /\ o > 0
  BY OrderFacts
<1>2. b \in Nat /\ h * a \in Nat
  BY SMT
<1> HIDE DEF o, b
<1>3. z \in 0..(o - 1) /\ Congruent(z, a, o) /\ b % o \in 0..(o - 1) /\ Congruent(b % o, b, o)
  BY <1>1, <1>2, CongruentRemainder
<1>4. s = b % o /\ e = o - z
  BY DEF o, b
<1> HIDE DEF z
<1>5. PICK i \in Int : z = a + i * o
  BY <1>3 DEF Congruent
<1>6. PICK j \in Int : s = b + j * o
  BY <1>3, <1>4 DEF Congruent
<1>7. s \in Nat /\ e \in Nat
  BY <1>1, <1>3, <1>4
<1>8. h * e + s \in Nat
  BY <1>7
<1>9. h * e + s = r + (h - h * i + j) * o
  <2>1. e = o - (a + i * o)
    BY <1>4, <1>5
  <2>2. h * e = h * o - h * a - (h * i) * o
    BY <1>1, <1>5, <2>1
  <2>3. b = r + h * a
    BY DEF b
  <2>4. (h - h * i + j) * o = h * o - (h * i) * o + j * o
    BY <1>1, <1>5, <1>6
  <2> DEFINE ha == h * a
             ho == h * o
             hio == (h * i) * o
             jo == j * o
  <2>5. ha \in Int /\ ho \in Int /\ hio \in Int /\ jo \in Int
    BY <1>1, <1>5, <1>6
  <2>6. h * e = ho - ha - hio /\ b = r + ha /\ s = b + jo /\ (h - h * i + j) * o = ho - hio + jo
    BY <1>6, <2>2, <2>3, <2>4
  <2> HIDE DEF ha, ho, hio, jo
  <2> QED BY <2>5, <2>6
<1>10. h - h * i + j \in Int
  BY <1>5, <1>6
<1>11. Congruent(h * e + s, r, o)
  BY <1>9, <1>10 DEF Congruent
<1> QED BY <1>7, <1>8, <1>11 DEF o

(* crypto_sign and crypto_sign_open of tweetnacl.c: what was signed with a *)
(* key pair opens with its public key, to the message that was signed, for *)
(* every seed and every message, whatever the hash is.                     *)
THEOREM SignedMessageOpens ==
  ASSUME FieldAssumption, CurveAssumption, PrimeAssumption, OrderAssumption, HashAssumption,
         NEW group, IsCycle(group), NEW seed \in Scalar, NEW m \in Strings, NEW m0 \in Strings
  PROVE  LET keys == crypto_sign_keypair(seed)
             signed == crypto_sign(m, keys.secret)
             opened == crypto_sign_open(m0, signed, keys.public)
         IN  signed \in Strings /\ opened.valid /\ SubSeq(opened.m, 1, Len(m)) = m
<1> DEFINE d == Expanded(seed)
           ab == Clamp(Prefix(Hash(seed)))
           ps == Suffix(Hash(seed))
           pk == pack(scalarbase(ab))
           sk == seed \o pk
           keys == crypto_sign_keypair(seed)
           rb == reduce(Hash(ps \o m))
           R == pack(scalarbase(rb))
           hb == reduce(Hash(R \o pk \o m))
           sb == modL(MultiplyAdd(rb, hb, ab))
           sm == R \o sb \o m
           an == Worth(ab, BYTE, BYTES)
           rn == Worth(rb, BYTE, BYTES)
           hn == Worth(hb, BYTE, BYTES)
           sn == (rn + hn * an) % Order
           e == Order - (an % Order)
           opened == crypto_sign_open(m0, sm, pk)
<1>1. IsMultiples(group, BasePoint) /\ \A n \in Nat : OnCurve(group[n]) /\ group[n] \in Pairs
  BY DEF IsCycle, IsMultiples
<1>2. ab \in Scalar /\ ps \in Scalar
  <2>1. seed \in Strings
    BY ScalarFacts
  <2>2. Hash(seed) \in [1..(2 * BYTES) -> 0..(BYTE - 1)]
    BY <2>1 DEF HashAssumption
  <2>3. Prefix(Hash(seed)) \in Scalar /\ ps \in Scalar
    BY <2>2, HalvesAre
  <2> QED BY <2>3, ClampStays
<1>3. Prefix(d) = ab /\ Suffix(d) = ps
  <2>1. d = ab \o ps
    BY Zenon DEF Expanded
  <2> HIDE DEF ab, ps, d
  <2>2. ab \in Strings /\ ps \in Strings /\ Len(ab) = BYTES
    BY <1>2, ScalarFacts
  <2> QED BY <2>1, <2>2, HalvesOf
<1>4. keys.public = pk /\ keys.secret = sk
  <2>1. keys = KeyPair(seed, pack(scalarbase(Prefix(d))))
    BY Zenon DEF crypto_sign_keypair
  <2>2. keys = KeyPair(seed, pk)
    BY <1>3, <2>1, Zenon
  <2> HIDE DEF keys, pk
  <2> QED BY <2>2 DEF KeyPair
<1> HIDE DEF ab, ps, d, keys
<1>5. ab \in Strings /\ ps \in Strings /\ AreDigits(ab, BYTE, BYTES) /\ an \in Nat /\ Len(ps) = BYTES
  BY <1>2, ScalarFacts
<1>6. pk = EncodingOf(group[an]) /\ pk \in Scalar /\ pk \in Strings
  <2>1. pk = EncodingOf(group[an])
    BY <1>1, <1>5, ScalarBaseIsMultiple
  <2>2. pk \in Scalar
    <3> HIDE DEF pk, an
    <3> QED BY <1>1, <1>5, <2>1, EncodingFacts
  <2> QED BY <2>1, <2>2, ScalarFacts
<1> HIDE DEF pk
<1>7. Prefix(sk) = seed /\ Suffix(sk) = pk
  <2>1. seed \in Strings /\ Len(seed) = BYTES
    BY ScalarFacts
  <2> QED BY <1>6, <2>1, HalvesOf
<1>8. rb \in Scalar /\ rn \in Nat /\ AreDigits(rb, BYTE, BYTES)
  <2>1. ps \o m \in Strings
    BY <1>5, HalvesOf
  <2>2. Hash(ps \o m) \in [1..(2 * BYTES) -> 0..(BYTE - 1)]
    BY <2>1 DEF HashAssumption
  <2>3. rb \in Scalar
    BY <2>2, ReducedFacts
  <2> QED BY <2>3, ScalarFacts
<1>9. crypto_sign(m, sk) = sm
  <2>1. crypto_sign(m, sk) = SignedMessage(m, sk, d, rb, R)
    <3>1. crypto_sign(m, sk) = SignedBy(m, sk, Expanded(Prefix(sk)))
      BY Zenon DEF crypto_sign
    <3>2. crypto_sign(m, sk) = SignedBy(m, sk, d)
      BY <1>7, <3>1, Zenon DEF d
    <3>3. SignedBy(m, sk, d) = SignedAt(m, sk, d, reduce(Hash(Suffix(d) \o m)))
      BY Zenon DEF SignedBy
    <3>4. SignedBy(m, sk, d) = SignedAt(m, sk, d, rb)
      BY <1>3, <3>3, Zenon
    <3> QED BY <3>2, <3>4, Zenon DEF SignedAt
  <2>2. SignedMessage(m, sk, d, rb, R)
          = R \o modL(MultiplyAdd(rb, reduce(Hash(R \o Suffix(sk) \o m)), Prefix(d))) \o m
    BY Zenon DEF SignedMessage
  <2> QED BY <1>3, <1>7, <2>1, <2>2, Zenon
<1> HIDE DEF sk, rb
<1>10. R = EncodingOf(group[rn]) /\ R \in Scalar /\ R \in Strings /\ Len(R) = BYTES
  <2>1. R = EncodingOf(group[rn])
    BY <1>1, <1>8, ScalarBaseIsMultiple
  <2>2. R \in Scalar
    <3> HIDE DEF R, rn
    <3> QED BY <1>1, <1>8, <2>1, EncodingFacts
  <2> QED BY <2>1, <2>2, ScalarFacts
<1> HIDE DEF R
<1>11. R \o pk \o m \in Strings
  <2>1. R \o pk \in Strings
    BY <1>6, <1>10, HalvesOf
  <2> DEFINE T == 0..(BYTE - 1)
             x == R \o pk
  <2>2. x \in Seq(T) /\ m \in Seq(T)
    BY <2>1, Zenon DEF Strings
  <2> HIDE DEF T, x
  <2>3. x \o m \in Seq(T)
    BY <2>2, Concatenation
  <2> QED BY <2>3 DEF Strings, T, x
<1>12. hb \in Scalar /\ hn \in Nat
  <2> DEFINE x == R \o pk \o m
  <2> HIDE DEF x
  <2>1. Hash(x) \in [1..(2 * BYTES) -> 0..(BYTE - 1)]
    BY <1>11 DEF HashAssumption, x
  <2>2. reduce(Hash(x)) \in Scalar
    BY <2>1, ReducedFacts
  <2>3. hb \in Scalar
    BY <2>2 DEF x
  <2> QED BY <2>3, ScalarFacts
<1>13. sb \in Scalar /\ Worth(sb, BYTE, BYTES) = sn
  <2> HIDE DEF hb
  <2>1. sb = Digits((rn + hn * an) % Order)
    BY <1>2, <1>8, <1>12, ScalarIsExact
  <2> DEFINE y == rn + hn * an
  <2>2. y \in Int
    <3> HIDE DEF rn, hn, an
    <3> QED BY <1>5, <1>8, <1>12
  <2> HIDE DEF y
  <2>3. Digits(y % Order) \in Scalar /\ Worth(Digits(y % Order), BYTE, BYTES) = y % Order
    BY <2>2, OrderDigits
  <2> QED BY <2>1, <2>3 DEF y
<1> HIDE DEF sb
<1>14. /\ sm \in Strings /\ Len(sm) >= 2 * BYTES /\ Len(sm) \in Nat
       /\ Prefix(sm) = R /\ Prefix(Suffix(sm)) = sb /\ Drop(sm, 2 * BYTES) = m
  <2>1. sm = R \o sb \o m
    OBVIOUS
  <2> HIDE DEF sm
  <2>2. /\ sm \in Strings /\ Len(sm) >= 2 * BYTES
        /\ Prefix(sm) = R /\ Prefix(Suffix(sm)) = sb /\ Drop(sm, 2 * BYTES) = m
    <3>1. R \in Scalar /\ sb \in Scalar
      BY <1>10, <1>13
    <3>2. IsSignedMessage(sm, R, sb, m)
      BY <2>1, <3>1, Zenon DEF IsSignedMessage
    <3> QED BY <3>2, SignedParts
  <2>3. Len(sm) \in Nat
    BY <2>2 DEF Strings
  <2> QED BY <2>2, <2>3
<1> HIDE DEF sm
<1>15. HashedOf(sm, pk) = R \o pk \o m
  BY <1>14, Zenon DEF HashedOf
<1>16. /\ IsPoint(unpackneg(pk), Negated(group[an])) /\ unpackneg(pk) \in [1..4 -> gf]
  <2> DEFINE u == group[an]
  <2>1. u \in Pairs /\ OnCurve(u)
    BY <1>1, <1>5
  <2> HIDE DEF u
  <2>2. /\ IsPoint(unpackneg(EncodingOf(u)), Negated(u))
        /\ unpackneg(EncodingOf(u)) \in [1..4 -> gf]
    BY <2>1, UnpackNegates
  <2> QED BY <1>6, <2>2 DEF u
<1> HIDE DEF an, rn, hn, e
<1>17. /\ IsMultiples(Opposite(group, an), Negated(group[an]))
       /\ Opposite(group, an)[hn] = group[hn * e] /\ e \in Nat
  BY <1>5, <1>12, OppositeFacts DEF e
<1>18. sn \in Nat /\ hn * e + sn \in Nat /\ Congruent(hn * e + sn, rn, Order)
  <2>1. e = Order - (an % Order)
    BY DEF e
  <2> QED BY <1>5, <1>8, <1>12, <2>1, NumbersCancel
<1> HIDE DEF sn
<1>19. group[hn * e + sn] = group[rn]
  <2> DEFINE k == hn * e + sn
  <2> HIDE DEF k
  <2>1. k \in Nat /\ Congruent(k, rn, Order)
    BY <1>18 DEF k
  <2>2. group[k] = group[rn]
    BY <1>8, <2>1, Periodic
  <2> QED BY <2>2 DEF k
<1>20. IsSum(Opposite(group, an)[hn], group[sn], group[rn])
  <2> DEFINE k == hn * e
  <2>1. k \in Nat
    BY <1>12, <1>17
  <2> HIDE DEF k
  <2>2. IsSum(group[k], group[sn], group[k + sn])
    BY <1>1, <1>18, <2>1 DEF IsMultiples
  <2> QED BY <1>17, <1>19, <2>2 DEF k
<1>21. opened.valid
  <2> DEFINE a == Negated(group[an])
             multiples == Opposite(group, an)
             w == group[rn]
  <2>1. hn = Worth(reduce(Hash(HashedOf(sm, pk))), BYTE, BYTES)
    BY <1>15 DEF hn
  <2>2. sn = Worth(Prefix(Suffix(sm)), BYTE, BYTES)
    BY <1>13, <1>14
  <2>3. w \in Pairs /\ IsSum(multiples[hn], group[sn], w)
    BY <1>1, <1>8, <1>20
  <2>4. IsPoint(unpackneg(pk), a) /\ IsMultiples(multiples, a)
    BY <1>16, <1>17
  <2> HIDE DEF a, multiples, w, hb
  <2>5. opened.valid <=> Prefix(sm) = EncodingOf(w)
    <3> HIDE DEF opened
    <3>1. sm \in Strings /\ Len(sm) >= 2 * BYTES /\ pk \in Strings /\ w \in Pairs
      BY <1>6, <1>14, <2>3
    <3>2. /\ IsPoint(unpackneg(pk), a) /\ unpackneg(pk) \in [1..4 -> gf]
          /\ IsMultiples(multiples, a) /\ IsMultiples(group, BasePoint)
          /\ IsSum(multiples[hn], group[sn], w)
      BY <1>1, <1>16, <2>3, <2>4
    <3>3. crypto_sign_open(m0, sm, pk).valid <=> Prefix(sm) = EncodingOf(w)
      <4>1. IsChecked(sm, pk, a, multiples, group, hn, sn, w)
        BY <2>1, <2>2, <3>1, <3>2, Zenon DEF IsChecked
      <4> QED BY <4>1, OpenChecks
    <3> QED BY <3>3 DEF opened
  <2> QED BY <1>10, <1>14, <2>5 DEF w
<1>22. opened = Verified(HasPoint(sm, unpackneg(pk), HashedOf(sm, pk)), m0, sm, HashedOf(sm, pk))
  <2>1. unpackneg(pk) # NoPoint
    <3> DEFINE q == unpackneg(pk)
    <3>1. DOMAIN q = 1..4
      BY <1>16
    <3> HIDE DEF q
    <3>2. 1 \in DOMAIN q
      BY <3>1
    <3> QED BY <3>2 DEF NoPoint, q
  <2>2. BYTES \in Nat
    BY TopFacts
  <2> QED BY <1>14, <2>1, <2>2, OpenIs
<1>23. opened = Verified(TRUE, m0, sm, HashedOf(sm, pk))
  <2> DEFINE v == HasPoint(sm, unpackneg(pk), HashedOf(sm, pk))
  <2>1. v \in BOOLEAN
    BY DEF HasPoint
  <2> HIDE DEF v
  <2>2. opened.valid = v
    BY <1>22 DEF Verified, OpenResult, v
  <2>3. v = TRUE
    BY <1>21, <2>1, <2>2
  <2> QED BY <1>22, <2>3 DEF v
<1> HIDE DEF opened
<1>24. SubSeq(opened.m, 1, Len(m)) = m
  <2> DEFINE t == HashedOf(sm, pk)
  <2>1. t \in Strings
    BY <1>11, <1>15
  <2>2. sm \in Strings /\ Drop(sm, 2 * BYTES) = m
    BY <1>14
  <2>3. opened = Verified(TRUE, m0, sm, t)
    BY <1>23
  <2> HIDE DEF t
  <2>4. ASSUME NEW b \in BOOLEAN, b
        PROVE  SubSeq(Verified(b, m0, sm, t).m, 1, Len(m)) = m
    <3>1. SubSeq(Verified(b, m0, sm, t).m, 1, Len(m)) = IF b THEN m ELSE Repeat(0, Len(m))
      BY <2>1, <2>2, MessageInFront
    <3> QED BY <2>4, <3>1
  <2>5. SubSeq(Verified(TRUE, m0, sm, t).m, 1, Len(m)) = m
    BY <2>4, Zenon
  <2> QED BY <2>3, <2>5
<1>25. crypto_sign(m, keys.secret) = sm /\ keys.public = pk
  BY <1>4, <1>9, Zenon
<1>26. sm \in Strings
  BY <1>14
<1> QED BY <1>21, <1>24, <1>25, <1>26, Zenon DEF opened, keys

-----------------------------------------------------------------------------
(* The group of the points, and the multiples in it. *)

(* What is not proved here of the curve, because it takes more than the    *)
(* arithmetic of the code: its points are a group with the law of addition *)
(* of the paper that the code implements, and the base point has the order *)
(* that modL reduces by.                                                   *)
CurvePoints == {p \in Pairs : OnCurve(p)}
GroupAssumption ==
  /\ IsGroup(CurvePoints)
  /\ OnCurve(BasePoint) /\ EdwardsMultiple(Order, BasePoint) = <<0, 1>>

(* Sums and negatives of points are points. *)
LEMMA ReciprocalIsNat ==
  ASSUME FieldAssumption, NEW x \in Int
  PROVE  Reciprocal(x) \in Nat
<1>1. P - 2 \in Nat /\ P \in Nat /\ P > 0
  BY FieldSizes
<1>2. Exp(x, P - 2) = PowersOf(x)[P - 2] % P
  BY <1>1, ExpIsPower
<1>3. PowersOf(x)[P - 2] \in Int
  BY <1>1, PowersAreInts
<1> HIDE DEF P
<1>4. PowersOf(x)[P - 2] % P \in Nat
  BY <1>1, <1>3
<1> QED BY <1>2, <1>4 DEF Reciprocal

LEMMA SumIsPair ==
  ASSUME FieldAssumption, CurveAssumption, NEW u \in Pairs, NEW v \in Pairs
  PROVE  EdwardsSum(u, v) \in Pairs
<1>1. P \in Nat /\ P > 0 /\ \A x \in Int : x % P \in 0..(P - 1)
  <2>1. P \in Nat /\ P > 0
    BY FieldSizes
  <2> HIDE DEF P
  <2> QED BY <2>1
<1>2. u[1] \in Int /\ u[2] \in Int /\ v[1] \in Int /\ v[2] \in Int
  BY <1>1 DEF Pairs
<1>3. Element(D) \in Int
  BY CurveFacts
<1>4. \A x \in Int : x % P \in Int
  BY <1>1
<1>5. \A x, y \in Int : (x * y) % P \in Int /\ (x + y) % P \in Int /\ (x - y) % P \in Int
                         /\ (x * y) % P \in 0..(P - 1)
  BY <1>1
<1>6. Cross(u, v) \in Int
  BY <1>2, <1>5 DEF Cross
<1>7. DirectSum(u, v) \in Int
  BY <1>2, <1>5 DEF DirectSum
<1>8. Mixed(u, v) \in Int
  BY <1>2, <1>3, <1>5 DEF Mixed
<1>9. Reciprocal((1 + Mixed(u, v)) % P) \in Int /\ Reciprocal((1 - Mixed(u, v)) % P) \in Int
  BY <1>5, <1>8, ReciprocalIsNat
<1>10. /\ (Cross(u, v) * Reciprocal((1 + Mixed(u, v)) % P)) % P \in 0..(P - 1)
       /\ (DirectSum(u, v) * Reciprocal((1 - Mixed(u, v)) % P)) % P \in 0..(P - 1)
  BY <1>5, <1>6, <1>7, <1>9
<1> QED BY <1>10, Zenon DEF EdwardsSum, Pairs

LEMMA NegatedIsPoint ==
  ASSUME FieldAssumption, CurveAssumption, NEW u \in CurvePoints
  PROVE  Negated(u) \in CurvePoints
<1> DEFINE x == u[1]
           y == u[2]
           x0 == (P - x) % P
<1>1. P \in Nat /\ P > 0
  BY FieldSizes
<1>2. u \in Pairs /\ OnCurve(u)
  BY DEF CurvePoints
<1>3. x \in 0..(P - 1) /\ y \in 0..(P - 1) /\ u = <<x, y>> /\ x \in Int /\ y \in Int
  BY <1>1, <1>2 DEF Pairs
<1>4. Negated(u) = <<x0, y>>
  BY DEF Negated
<1> HIDE DEF x, y
<1>5. P - x \in Int /\ x0 \in 0..(P - 1) /\ x0 \in Int /\ P - x = (-x) + 1 * P
  BY <1>1, <1>3
<1>6. Equals(x0, P - x) /\ Equals(P - x, -x)
  <2>1. Congruent(P - x, -x, P)
    BY <1>5 DEF Congruent
  <2> QED BY <1>3, <1>5, <2>1, EqualsIs DEF Equals
<1> HIDE DEF x0
<1>7. Equals(x0 * x0, x * x)
  <2>1. Equals(x0, -x)
    BY <1>6, EqualsIs
  <2>2. Equals(x0 * x0, (-x) * (-x))
    BY <2>1, EqualsTimes
  <2>3. (-x) * (-x) = x * x
    BY <1>3
  <2> QED BY <2>2, <2>3
<1>8. Equals((x * x) * Den(y), Num(y)) /\ Den(y) \in Int
  BY <1>2, <1>3, OnCurveIs
<1>9. Equals((x0 * x0) * Den(y), (x * x) * Den(y))
  <2>1. Equals(Den(y), Den(y))
    BY <1>8, EqualsIs
  <2> QED BY <1>7, <2>1, EqualsTimes
<1>10. Equals((x0 * x0) * Den(y), Num(y))
  BY <1>8, <1>9, EqualsIs
<1>11. OnCurve(<<x0, y>>)
  BY <1>3, <1>5, <1>10, OnCurveIs
<1>12. <<x0, y>> \in Pairs
  BY <1>3, <1>5, Zenon DEF Pairs
<1> QED BY <1>4, <1>11, <1>12 DEF CurvePoints

(* The group: sums of points, their order and their negatives.             *)
LEMMA GroupFacts ==
  ASSUME FieldAssumption, CurveAssumption, GroupAssumption
  PROVE  /\ <<0, 1>> \in CurvePoints /\ BasePoint \in CurvePoints
         /\ \A u, v \in CurvePoints :
              /\ EdwardsSum(u, v) \in CurvePoints /\ IsSum(u, v, EdwardsSum(u, v))
              /\ EdwardsSum(u, v) = EdwardsSum(v, u)
         /\ \A u, v, w \in CurvePoints :
              EdwardsSum(EdwardsSum(u, v), w) = EdwardsSum(u, EdwardsSum(v, w))
         /\ \A u \in CurvePoints :
              /\ EdwardsSum(<<0, 1>>, u) = u /\ EdwardsSum(u, <<0, 1>>) = u
              /\ Negated(u) \in CurvePoints /\ EdwardsSum(u, Negated(u)) = <<0, 1>>
<1> DEFINE V == CurvePoints
<1>1. \A u, v, w \in V :
        /\ IsSum(u, v, EdwardsSum(u, v)) /\ OnCurve(EdwardsSum(u, v))
        /\ EdwardsSum(u, v) = EdwardsSum(v, u)
        /\ EdwardsSum(EdwardsSum(u, v), w) = EdwardsSum(u, EdwardsSum(v, w))
        /\ EdwardsSum(<<0, 1>>, u) = u
        /\ EdwardsSum(u, Negated(u)) = <<0, 1>>
  BY Zenon DEF GroupAssumption, IsGroup
<1>2. BasePoint \in V
  <2>1. BasePoint \in Pairs
    <3>1. X \in gf /\ Y \in gf
      BY CurveFacts DEF Tight
    <3>2. Element(X) \in 0..(P - 1) /\ Element(Y) \in 0..(P - 1)
      BY <3>1, ElementFacts
    <3> QED BY <3>2, Zenon DEF BasePoint, Pairs
  <2>2. OnCurve(BasePoint)
    BY DEF GroupAssumption
  <2> QED BY <2>1, <2>2 DEF CurvePoints
<1>3. \A u, v \in V : EdwardsSum(u, v) \in V
  <2>1. ASSUME NEW u \in V, NEW v \in V PROVE EdwardsSum(u, v) \in V
    <3>1. u \in Pairs /\ v \in Pairs
      BY DEF CurvePoints
    <3>2. EdwardsSum(u, v) \in Pairs
      BY <3>1, SumIsPair
    <3>3. OnCurve(EdwardsSum(u, v))
      BY <1>1, Zenon
    <3> QED BY <3>2, <3>3, Zenon DEF CurvePoints
  <2> QED BY <2>1
<1>4. \A u \in V : Negated(u) \in V
  BY NegatedIsPoint
<1>5. <<0, 1>> \in V
  <2>1. EdwardsSum(BasePoint, Negated(BasePoint)) = <<0, 1>>
    BY <1>1, <1>2, Zenon
  <2> QED BY <1>2, <1>3, <1>4, <2>1, Zenon
<1>6. \A u \in V : EdwardsSum(u, <<0, 1>>) = u
  BY <1>1, <1>5, Zenon
<1> HIDE DEF V
<1>7. /\ \A u, v \in V : /\ EdwardsSum(u, v) \in V /\ IsSum(u, v, EdwardsSum(u, v))
                         /\ EdwardsSum(u, v) = EdwardsSum(v, u)
  BY <1>1, <1>3, Zenon
<1>8. \A u, v, w \in V :
        EdwardsSum(EdwardsSum(u, v), w) = EdwardsSum(u, EdwardsSum(v, w))
  BY <1>1, Zenon
<1>9. \A u \in V : /\ EdwardsSum(<<0, 1>>, u) = u /\ EdwardsSum(u, <<0, 1>>) = u
                   /\ Negated(u) \in V /\ EdwardsSum(u, Negated(u)) = <<0, 1>>
  BY <1>1, <1>4, <1>6, Zenon
<1> QED BY <1>2, <1>5, <1>7, <1>8, <1>9, Zenon DEF V

(* The multiples of a point, one after the other. *)
IsMultiplesOf(g, p) ==
  /\ g \in [Nat -> CurvePoints] /\ g[0] = <<0, 1>>
  /\ \A k \in Nat : g[k + 1] = EdwardsSum(g[k], p)

(* They exist, add up, and are what doubling and adding computes.          *)
LEMMA MultiplesExist ==
  ASSUME FieldAssumption, CurveAssumption, GroupAssumption, NEW p \in CurvePoints
  PROVE  \E g : IsMultiplesOf(g, p)
<1> DEFINE V == CurvePoints
           step == [u \in V |-> EdwardsSum(u, p)]
<1>1. <<0, 1>> \in V /\ \A u \in V : EdwardsSum(u, p) \in V
  BY GroupFacts
<1>2. step \in [V -> V] /\ \A u \in V : step[u] = EdwardsSum(u, p)
  <2> HIDE DEF V
  <2> QED BY <1>1
<1> HIDE DEF V, step
<1>3. PICK g : Iterates(g, V, <<0, 1>>, step)
  BY <1>1, <1>2, Iteration
<1>4. g \in [Nat -> V] /\ g[0] = <<0, 1>> /\ \A k \in Nat : g[k + 1] = step[g[k]]
  BY <1>3 DEF Iterates
<1>5. \A k \in Nat : g[k + 1] = EdwardsSum(g[k], p)
  BY <1>2, <1>4
<1> QED BY <1>4, <1>5 DEF IsMultiplesOf, V

LEMMA MultiplesAdd ==
  ASSUME FieldAssumption, CurveAssumption, GroupAssumption, NEW p \in CurvePoints,
         NEW g, IsMultiplesOf(g, p), NEW m \in Nat, NEW n \in Nat
  PROVE  g[m + n] = EdwardsSum(g[m], g[n])
<1> DEFINE K == {k \in Nat : g[m + k] = EdwardsSum(g[m], g[k])}
<1>1. /\ \A k \in Nat : g[k] \in CurvePoints /\ g[k + 1] = EdwardsSum(g[k], p)
      /\ g[0] = <<0, 1>>
  BY DEF IsMultiplesOf
<1>2. 0 \in K
  <2>1. m + 0 = m /\ g[m] \in CurvePoints
    BY <1>1
  <2>2. EdwardsSum(g[m], <<0, 1>>) = g[m]
    BY <2>1, GroupFacts
  <2> QED BY <1>1, <2>1, <2>2
<1>3. ASSUME NEW k \in Nat, k \in K PROVE k + 1 \in K
  <2>1. m + k \in Nat /\ m + (k + 1) = (m + k) + 1 /\ k + 1 \in Nat
    OBVIOUS
  <2>2. g[m + (k + 1)] = EdwardsSum(EdwardsSum(g[m], g[k]), p)
    BY <1>1, <1>3, <2>1
  <2>3. EdwardsSum(EdwardsSum(g[m], g[k]), p) = EdwardsSum(g[m], EdwardsSum(g[k], p))
    <3>1. \A u, v, w \in CurvePoints :
            EdwardsSum(EdwardsSum(u, v), w) = EdwardsSum(u, EdwardsSum(v, w))
      BY GroupFacts, Zenon
    <3> QED BY <1>1, <3>1
  <2>4. EdwardsSum(g[k], p) = g[k + 1]
    BY <1>1
  <2> QED BY <2>1, <2>2, <2>3, <2>4
<1>4. Nat \subseteq K
  <2> HIDE DEF K
  <2> QED BY <1>2, <1>3, SetInduction
<1> QED BY <1>4

IsDoubling(e, p, n) ==
  e = [k \in 0..n |-> IF k = 0 THEN <<0, 1>>
                      ELSE IF k % 2 = 1
                      THEN EdwardsSum(EdwardsSum(e[k \div 2], e[k \div 2]), p)
                      ELSE EdwardsSum(e[k \div 2], e[k \div 2])]

LEMMA DoublingStep ==
  ASSUME FieldAssumption, CurveAssumption, GroupAssumption, NEW p \in CurvePoints,
         NEW g, IsMultiplesOf(g, p), NEW k \in Nat, k > 0, NEW e, e = g[k \div 2]
  PROVE  g[k] = IF k % 2 = 1 THEN EdwardsSum(EdwardsSum(e, e), p) ELSE EdwardsSum(e, e)
<1> DEFINE h == k \div 2
<1>1. h \in Nat /\ h + h \in Nat /\ (k % 2 = 1 => k = (h + h) + 1) /\ (k % 2 # 1 => k = h + h)
  <2>1. k = 2 * h + (k % 2) /\ h \in Nat /\ k % 2 \in {0, 1}
    OBVIOUS
  <2> HIDE DEF h
  <2> QED BY <2>1
<1>2. e = g[h]
  OBVIOUS
<1> HIDE DEF h
<1>3. g[h + h] = EdwardsSum(e, e)
  BY <1>1, <1>2, MultiplesAdd
<1>4. g[(h + h) + 1] = EdwardsSum(g[h + h], p)
  BY <1>1 DEF IsMultiplesOf
<1>5. CASE k % 2 = 1
  BY <1>1, <1>3, <1>4, <1>5
<1>6. CASE k % 2 # 1
  BY <1>1, <1>3, <1>6
<1> QED BY <1>5, <1>6

LEMMA DoublingIsMultiple ==
  ASSUME FieldAssumption, CurveAssumption, GroupAssumption, NEW p \in CurvePoints,
         NEW g, IsMultiplesOf(g, p), NEW n \in Nat, NEW e, IsDoubling(e, p, n)
  PROVE  e[n] = g[n]
<1> DEFINE K == {k \in 0..n : e[k] = g[k]}
<1>1. \A k \in 0..n : e[k] = IF k = 0 THEN <<0, 1>>
                      ELSE IF k % 2 = 1
                      THEN EdwardsSum(EdwardsSum(e[k \div 2], e[k \div 2]), p)
                      ELSE EdwardsSum(e[k \div 2], e[k \div 2])
  BY Zenon DEF IsDoubling
<1>2. 0 \in K
  <2>1. g[0] = <<0, 1>> /\ 0 \in 0..n
    BY DEF IsMultiplesOf
  <2> QED BY <1>1, <2>1
<1>3. ASSUME NEW k \in 1..n, k \div 2 \in K PROVE k \in K
  <2>1. k \in Nat /\ k > 0 /\ k # 0 /\ k \in 0..n
    OBVIOUS
  <2>2. e[k \div 2] = g[k \div 2]
    BY <1>3
  <2>3. g[k] = IF k % 2 = 1 THEN EdwardsSum(EdwardsSum(e[k \div 2], e[k \div 2]), p)
               ELSE EdwardsSum(e[k \div 2], e[k \div 2])
    <3> HIDE DEF K
    <3> QED BY <2>1, <2>2, DoublingStep
  <2>4. e[k] = g[k]
    <3> HIDE DEF K
    <3> QED BY <1>1, <2>1, <2>3, Zenon
  <2> QED BY <2>1, <2>4
<1>4. 0..n \subseteq K
  <2> HIDE DEF K
  <2> QED BY <1>2, <1>3, HalvingInduction
<1> QED BY <1>4

LEMMA DoublingExists ==
  ASSUME FieldAssumption, CurveAssumption, GroupAssumption, NEW p \in CurvePoints,
         NEW g, IsMultiplesOf(g, p), NEW n \in Nat
  PROVE  \E e : IsDoubling(e, p, n)
<1> DEFINE e == [k \in 0..n |-> g[k]]
           f == [k \in 0..n |-> IF k = 0 THEN <<0, 1>>
                      ELSE IF k % 2 = 1
                      THEN EdwardsSum(EdwardsSum(e[k \div 2], e[k \div 2]), p)
                      ELSE EdwardsSum(e[k \div 2], e[k \div 2])]
<1>1. ASSUME NEW k \in 0..n PROVE e[k] = f[k]
  <2>1. CASE k = 0
    <3>1. g[0] = <<0, 1>>
      BY DEF IsMultiplesOf
    <3> QED BY <2>1, <3>1
  <2>2. CASE k # 0
    <3>1. k \in Nat /\ k > 0 /\ k \div 2 \in 0..n
      BY <2>2
    <3>2. e[k \div 2] = g[k \div 2] /\ e[k] = g[k]
      BY <3>1, Zenon
    <3> HIDE DEF e
    <3>3. g[k] = IF k % 2 = 1 THEN EdwardsSum(EdwardsSum(e[k \div 2], e[k \div 2]), p)
                 ELSE EdwardsSum(e[k \div 2], e[k \div 2])
      BY <3>1, <3>2, DoublingStep
    <3> QED BY <2>2, <3>2, <3>3, Zenon
  <2> QED BY <2>1, <2>2
<1>2. e = f
  BY <1>1, Zenon
<1> QED BY <1>2, Zenon DEF IsDoubling

(* EdwardsMultiple, by doubling and adding, is the multiple.               *)
LEMMA MultipleIs ==
  ASSUME FieldAssumption, CurveAssumption, GroupAssumption, NEW p \in CurvePoints,
         NEW g, IsMultiplesOf(g, p), NEW n \in Nat
  PROVE  EdwardsMultiple(n, p) = g[n]
<1> DEFINE chosen == CHOOSE e : IsDoubling(e, p, n)
<1>1. IsDoubling(chosen, p, n)
  BY DoublingExists, Zenon
<1>2. EdwardsMultiple(n, p) = chosen[n]
  BY Zenon DEF EdwardsMultiple, EdwardsTwice, IsDoubling
<1> HIDE DEF chosen
<1> QED BY <1>1, <1>2, DoublingIsMultiple

(* The multiples of a point of the curve, as EdwardsMultiple computes them.*)
LEMMA MultiplesFacts ==
  ASSUME FieldAssumption, CurveAssumption, GroupAssumption, NEW p \in CurvePoints
  PROVE  \E g : /\ IsMultiplesOf(g, p) /\ IsMultiples(g, p)
                /\ \A n \in Nat : g[n] = EdwardsMultiple(n, p)
<1>1. PICK g : IsMultiplesOf(g, p)
  BY MultiplesExist
<1>2. \A n \in Nat : g[n] = EdwardsMultiple(n, p)
  BY <1>1, MultipleIs
<1>3. g \in [Nat -> CurvePoints] /\ g[0] = <<0, 1>> /\ g[0 + 1] = EdwardsSum(g[0], p)
  BY <1>1 DEF IsMultiplesOf
<1>4. g[1] = p
  <2>1. EdwardsSum(<<0, 1>>, p) = p
    BY GroupFacts, Zenon
  <2> QED BY <1>3, <2>1
<1>5. ASSUME NEW m \in Nat, NEW n \in Nat PROVE IsSum(g[m], g[n], g[m + n])
  <2>1. \A u, v \in CurvePoints : IsSum(u, v, EdwardsSum(u, v))
    BY GroupFacts, Zenon
  <2>2. g[m] \in CurvePoints /\ g[n] \in CurvePoints
    BY <1>3
  <2>3. g[m + n] = EdwardsSum(g[m], g[n])
    BY <1>1, MultiplesAdd
  <2> QED BY <2>1, <2>2, <2>3, Zenon
<1>6. g \in [Nat -> Pairs]
  <2>1. CurvePoints \subseteq Pairs
    BY DEF CurvePoints
  <2> QED BY <1>3, <2>1
<1>7. IsMultiples(g, p)
  BY <1>3, <1>4, <1>5, <1>6, Zenon DEF IsMultiples
<1> QED BY <1>1, <1>2, <1>7

(* A point has one negative. *)
LEMMA OppositesCancel ==
  ASSUME FieldAssumption, CurveAssumption, GroupAssumption,
         NEW u \in CurvePoints, NEW v \in CurvePoints, EdwardsSum(u, v) = <<0, 1>>
  PROVE  u = Negated(v)
<1>1. /\ Negated(v) \in CurvePoints /\ EdwardsSum(v, Negated(v)) = <<0, 1>>
      /\ EdwardsSum(u, <<0, 1>>) = u /\ EdwardsSum(<<0, 1>>, Negated(v)) = Negated(v)
  BY GroupFacts, Zenon
<1>2. \A x, y, z \in CurvePoints :
        EdwardsSum(EdwardsSum(x, y), z) = EdwardsSum(x, EdwardsSum(y, z))
  BY GroupFacts, Zenon
<1>3. EdwardsSum(EdwardsSum(u, v), Negated(v)) = EdwardsSum(u, EdwardsSum(v, Negated(v)))
  BY <1>1, <1>2
<1> QED BY <1>1, <1>3

(* Those of the base point are a cycle. *)
LEMMA BaseIsCycle ==
  ASSUME FieldAssumption, CurveAssumption, OrderAssumption, GroupAssumption
  PROVE  \E g : /\ IsCycle(g) /\ g \in [Nat -> CurvePoints]
                /\ \A n \in Nat : g[n] = EdwardsMultiple(n, BasePoint)
<1>1. BasePoint \in CurvePoints
  BY GroupFacts, Zenon
<1>2. PICK g : /\ IsMultiplesOf(g, BasePoint) /\ IsMultiples(g, BasePoint)
               /\ \A n \in Nat : g[n] = EdwardsMultiple(n, BasePoint)
  BY <1>1, MultiplesFacts
<1>3. Order \in Nat
  BY OrderFacts
<1>4. g[Order] = <<0, 1>>
  BY <1>2, <1>3 DEF GroupAssumption
<1>5. g \in [Nat -> CurvePoints]
  BY <1>2 DEF IsMultiplesOf
<1>6. ASSUME NEW n \in Nat PROVE OnCurve(g[n]) /\ g[n + Order] = g[n]
  <2>1. g[n] \in CurvePoints
    BY <1>5
  <2>2. g[n + Order] = EdwardsSum(g[n], <<0, 1>>)
    BY <1>1, <1>2, <1>3, <1>4, MultiplesAdd
  <2>3. EdwardsSum(g[n], <<0, 1>>) = g[n]
    BY <2>1, GroupFacts, Zenon
  <2>4. OnCurve(g[n])
    BY <2>1 DEF CurvePoints
  <2> QED BY <2>2, <2>3, <2>4
<1>7. ASSUME NEW n \in 0..Order PROVE g[Order - n] = Negated(g[n])
  <2>1. n \in Nat /\ Order - n \in Nat /\ (Order - n) + n = Order
    BY <1>3
  <2>2. EdwardsSum(g[Order - n], g[n]) = <<0, 1>>
    BY <1>1, <1>2, <1>4, <2>1, MultiplesAdd
  <2>3. g[Order - n] \in CurvePoints /\ g[n] \in CurvePoints
    BY <1>5, <2>1
  <2> QED BY <2>2, <2>3, OppositesCancel
<1>8. IsCycle(g)
  BY <1>2, <1>6, <1>7, Zenon DEF IsCycle
<1> QED BY <1>2, <1>5, <1>8

-----------------------------------------------------------------------------
(* The calls, and what they return. *)

(* The numbers of bytes. *)
LEMMA NumberFacts ==
  ASSUME FieldAssumption, NEW n \in Scalar
  PROVE  /\ NumberOf(n) = Worth(n, BYTE, BYTES) /\ NumberOf(n) \in Nat
         /\ FieldNumber(n) = Second(n) /\ FieldNumber(n) \in 0..(P - 1)
<1> DEFINE w == BYTE
           k == BYTES
           c == PowersOf(BYTE)[BYTES]
           x == Worth(n, BYTE, BYTES)
<1>1. w \in Nat /\ w > 0 /\ k \in Nat /\ c = CAP /\ CAP \in Nat /\ CAP > 0 /\ P \in Nat /\ P > 0
  BY ByteFacts, TopFacts, FieldSizes
<1>2. Len(n) = k /\ AreDigits(n, w, k)
  BY ScalarFacts
<1>3. IsInts(n, k) /\ x \in Nat /\ x < c
  BY <1>1, <1>2, DigitsAreInts, WorthBound
<1> HIDE DEF w, k, c, x
<1>4. \A q \in Nat : q > 0 => NumberMod(n, q) = x % q
  BY <1>1, <1>2, <1>3, ValueModIs DEF NumberMod, w, x, k
<1>5. NumberOf(n) = x % c
  BY <1>1, <1>2, <1>4 DEF NumberOf, c, k
<1>6. x % c = x /\ x \in Nat
  BY <1>1, <1>3
<1>7. P + 19 \in Nat /\ P + 19 > 0
  BY <1>1
<1>8. FieldNumber(n) = (x % (P + 19)) % P /\ Second(n) = (x % (P + 19)) % P
  BY <1>4, <1>7 DEF FieldNumber, Second, x
<1>9. (x % (P + 19)) % P \in 0..(P - 1)
  <2> DEFINE p == P
  <2> HIDE DEF p
  <2>1. p \in Nat /\ p > 0 /\ x \in Nat
    BY <1>1, <1>6 DEF p
  <2>2. x % (p + 19) \in Nat
    BY <2>1
  <2>3. (x % (p + 19)) % p \in 0..(p - 1)
    BY <2>1, <2>2
  <2> QED BY <2>3 DEF p
<1> QED BY <1>5, <1>6, <1>8, <1>9 DEF x

(* Digits of a number below the prime have that number. *)
LEMMA NumberOfDigits ==
  ASSUME FieldAssumption, NEW x \in 0..(P - 1)
  PROVE  NumberOf(Digits(x)) = x
<1>1. x \in 0..(CAP - 1)
  BY FieldSizes
<1>2. Digits(x) \in Scalar /\ Worth(Digits(x), BYTE, BYTES) = x
  BY <1>1, DigitsAre, DigitsFacts
<1> QED BY <1>2, NumberFacts

(* The coordinates of a point, divided. *)
LEMMA AffineIs ==
  ASSUME FieldAssumption, PrimeAssumption, NEW p, NEW u \in Pairs, IsPoint(p, u)
  PROVE  Affine(p) = u
<1> DEFINE x == u[1]
           y == u[2]
           zi == Element(inv25519(p[3]))
<1>1. x \in 0..(P - 1) /\ y \in 0..(P - 1) /\ u = <<x, y>>
  BY DEF Pairs
<1>2. P \in Nat /\ x \in Int /\ y \in Int
  BY <1>1, FieldSizes
<1> HIDE DEF x, y
<1>3. Tight(p[3])
  BY DEF IsPoint
<1>4. PICK z \in Int : /\ ~Equals(z, 0) /\ Stands(p[1], x * z) /\ Stands(p[2], y * z)
                       /\ Stands(p[3], z)
  BY DEF IsPoint, Coordinates, x, y
<1>5. zi \in Int /\ Equals(z * zi, 1)
  BY <1>3, <1>4, InverseStands
<1>6. Reciprocal(Element(p[3])) = zi
  <2>1. P - 2 \in Nat /\ zi = PowersOf(Element(p[3]))[P - 2] % P
    BY <1>3, InverseIsPower DEF IsPower
  <2>2. Element(p[3]) \in Int
    BY <1>2, <1>4, StandsEquals
  <2>3. Exp(Element(p[3]), P - 2) = PowersOf(Element(p[3]))[P - 2] % P
    BY <2>1, <2>2, ExpIsPower
  <2> QED BY <2>1, <2>3, Zenon DEF Reciprocal
<1> HIDE DEF zi
<1>7. ASSUME NEW e, NEW v \in 0..(P - 1), Equals(e, v * z) PROVE (e * zi) % P = v
  <2>1. Equals(zi, zi) /\ v \in Int /\ Equals(v, v) /\ e \in Int
    BY <1>2, <1>5, <1>7, EqualsIs DEF Equals
  <2>2. Equals(e * zi, (v * z) * zi) /\ Equals(v * (z * zi), v * 1)
    BY <1>5, <1>7, <2>1, EqualsTimes
  <2>3. (v * z) * zi = v * (z * zi) /\ v * 1 = v
    BY <1>5, <2>1
  <2>4. Equals(e * zi, v)
    BY <2>2, <2>3, EqualsIs
  <2>5. e * zi \in Int
    BY <1>5, <2>1
  <2> QED BY <2>4, <2>5, EqualsBelow
<1>8. Equals(Element(p[1]), x * z) /\ Equals(Element(p[2]), y * z)
  BY <1>4, StandsEquals
<1>9. (Element(p[1]) * zi) % P = x /\ (Element(p[2]) * zi) % P = y
  BY <1>1, <1>7, <1>8
<1> QED BY <1>1, <1>6, <1>9 DEF Affine

(* What the calls return, one after the other. *)
LEMMA InverseReturns ==
  ASSUME FieldAssumption, PrimeAssumption, NEW n \in Scalar
  PROVE  LET x == FieldNumber(n)
             is == Inverted(unpack25519(n))
             y == NumberOf(is.inverse)
         IN  /\ y < P
             /\ IF x = 0 THEN y = 0 ELSE (x * y) % P = 1
             /\ is.root = Digits(Exp(x, (P - 5) \div 8))
<1> DEFINE u == unpack25519(n)
           x == FieldNumber(n)
           i == inv25519(u)
           r == pow2523(u)
           y == Element(i)
           q == PowersOf(x)
           k == (P - 5) \div 8
<1>1. Tight(u) /\ Element(u) = x /\ x \in 0..(P - 1)
  <2>1. AreDigits(n, BYTE, BYTES)
    BY ScalarFacts
  <2>2. Tight(u) /\ Element(u) = Second(n)
    BY <2>1, UnpackIsExact DEF Second
  <2> QED BY <2>2, NumberFacts
<1> HIDE DEF u, x, k
<1>2. P \in Nat /\ P > 2 /\ x \in Int
  BY <1>1, FieldSizes
<1>3. Tight(i) /\ y = q[P - 2] % P
  BY <1>1, InverseIsPower DEF IsPower
<1>4. Tight(r) /\ Element(r) = q[k] % P /\ P = 8 * k + 5
  BY <1>1, RootIsPower DEF IsPower, k
<1>5. pack25519(i) = Digits(y) /\ pack25519(r) = Digits(Element(r)) /\ y \in 0..(P - 1)
  <2>1. Modest(i) /\ Modest(r) /\ i \in gf
    BY <1>3, <1>4, LooseFacts DEF Tight
  <2> QED BY <2>1, PackIsCanonical, ElementFacts
<1>6. NumberOf(pack25519(i)) = y
  BY <1>5, NumberOfDigits
<1>7. ASSUME x = 0 PROVE y = 0
  <2>1. P - 3 \in Nat /\ (P - 3) + 1 = P - 2 /\ 0 \in Int
    BY <1>2
  <2>2. q[(P - 3) + 1] = 0 * q[P - 3] /\ q[P - 3] \in Int
    BY <1>7, <2>1, PowersAreInts
  <2>3. q[P - 2] = 0
    BY <2>1, <2>2
  <2>4. 0 % P = 0
    BY <1>2
  <2> QED BY <1>3, <2>3, <2>4
<1>8. ASSUME x # 0 PROVE (x * y) % P = 1
  <2>1. x \in 1..(P - 1)
    BY <1>1, <1>2, <1>8
  <2>2. (x * y) % P = 1
    BY <1>1, <2>1, Fermat, InverseInverts
  <2> QED BY <2>2
<1>9. IF x = 0 THEN y = 0 ELSE (x * y) % P = 1
  BY <1>7, <1>8, Zenon
<1>10. pack25519(r) = Digits(Exp(x, k))
  <2>1. k \in Nat
    BY <1>2, <1>4 DEF k
  <2> QED BY <1>2, <1>4, <1>5, <2>1, ExpIsPower
<1> HIDE DEF y, i, r
<1>11. y < P
  BY <1>2, <1>5
<1> QED BY <1>6, <1>9, <1>10, <1>11 DEF Inverted, y, i, r, u, x, k

LEMMA PointReturns ==
  ASSUME FieldAssumption, CurveAssumption, PrimeAssumption, NEW n \in Scalar
  PROVE  LET y == FieldNumber(n)
             p == unpackneg(n)
             q == Affine(p)
         IN  IF p = NoPoint THEN \A x \in 0..(P - 1) : ~OnCurve(<<x, y>>)
             ELSE /\ q[2] = y
                  /\ OnCurve(q)
                  /\ q[1] = 0 \/ q[1] % 2 # n[BYTES] \div (BYTE \div 2)
                  /\ (Element(p[3]) * Element(p[4])) % P
                       = (Element(p[1]) * Element(p[2])) % P
<1> DEFINE y == FieldNumber(n)
           p == unpackneg(n)
           parity == n[BYTES] \div (BYTE \div 2)
<1>1. y = Second(n) /\ y \in 0..(P - 1) /\ AreDigits(n, BYTE, BYTES)
  BY NumberFacts, ScalarFacts
<1>2. p = NoPoint <=> ~HasPointAt(y)
  BY <1>1, UnpackDecodes
<1>3. HasPointAt(y) => IsDecoded(p, y, parity)
  BY <1>1, UnpackDecodes DEF HALF
<1> HIDE DEF y, p, parity
<1>4. CASE ~HasPointAt(y)
  <2>1. p = NoPoint /\ \A x \in 0..(P - 1) : ~OnCurve(<<x, y>>)
    BY <1>2, <1>4 DEF HasPointAt
  <2> QED BY <2>1, Zenon DEF y, p
<1>5. CASE HasPointAt(y)
  <2>1. PICK x \in 0..(P - 1) : /\ OnCurve(<<x, y>>) /\ (x = 0 \/ x % 2 # parity)
                                /\ <<x, y>> \in Pairs
                                /\ IsPoint(p, <<x, y>>) /\ p \in [1..4 -> gf]
    BY <1>3, <1>5 DEF IsDecoded
  <2>2. Affine(p) = <<x, y>>
    BY <2>1, AffineIs
  <2>3. PICK z \in Int : Coordinates(p, x, y, z)
    BY <2>1 DEF IsPoint
  <2>4. /\ Equals(Element(p[1]), x * z) /\ Equals(Element(p[2]), y * z)
        /\ Equals(Element(p[3]), z) /\ Equals(Element(p[4]), (x * y) * z)
    BY <2>3, StandsEquals DEF Coordinates
  <2>5. /\ Equals(Element(p[3]) * Element(p[4]), z * ((x * y) * z))
        /\ Equals(Element(p[1]) * Element(p[2]), (x * z) * (y * z))
    BY <2>4, EqualsTimes
  <2>6. x \in Int /\ y \in Int
    BY <1>1, FieldSizes
  <2>7. z * ((x * y) * z) = (x * z) * (y * z)
    BY <2>6
  <2>8. (Element(p[3]) * Element(p[4])) % P = (Element(p[1]) * Element(p[2])) % P
    <3>1. Equals(Element(p[3]) * Element(p[4]), Element(p[1]) * Element(p[2]))
      BY <2>5, <2>7, EqualsIs
    <3> QED BY <3>1, EqualsIs
  <2>9. p # NoPoint
    BY <1>2, <1>5
  <2>10. Affine(p)[2] = y /\ Affine(p)[1] = x
    BY <2>2
  <2>11. OnCurve(Affine(p)) /\ (Affine(p)[1] = 0 \/ Affine(p)[1] % 2 # parity)
    BY <2>1, <2>2, <2>10, Zenon
  <2> QED BY <2>8, <2>9, <2>10, <2>11, Zenon DEF y, p, parity
<1> QED BY <1>4, <1>5

LEMMA MultipleReturns ==
  ASSUME FieldAssumption, CurveAssumption, PrimeAssumption, OrderAssumption, GroupAssumption,
         NEW n \in Scalar
  PROVE  pack(scalarbase(n)) = EncodingOf(EdwardsMultiple(NumberOf(n), BasePoint))
<1>1. PICK g : IsCycle(g) /\ \A k \in Nat : g[k] = EdwardsMultiple(k, BasePoint)
  BY BaseIsCycle
<1>2. IsMultiples(g, BasePoint) /\ AreDigits(n, BYTE, BYTES)
  BY <1>1, ScalarFacts DEF IsCycle
<1>3. pack(scalarbase(n)) = EncodingOf(g[Worth(n, BYTE, BYTES)])
  BY <1>2, ScalarBaseIsMultiple
<1>4. Worth(n, BYTE, BYTES) = NumberOf(n) /\ NumberOf(n) \in Nat
  BY NumberFacts
<1> QED BY <1>1, <1>3, <1>4

(* The remainder of long bytes, from the highest one down. *)
LEMMA RemainderIs ==
  ASSUME OrderAssumption, NEW x, x \in [1..(2 * BYTES) -> Int]
  PROVE  ValueMod(x, BYTE, Order) = Worth(x, BYTE, 2 * BYTES) % Order
<1> DEFINE k == 2 * BYTES
<1>1. BYTE \in Nat /\ BYTE > 0 /\ k \in Nat /\ Order \in Nat /\ Order > 0
  BY OrderFacts DEF OrderAssumption, BYTES
<1>2. x \in [1..k -> Int]
  OBVIOUS
<1> HIDE DEF k
<1>3. Len(x) = k
  BY <1>1, <1>2
<1>5. IsInts(x, k)
  BY <1>2 DEF IsInts
<1>4. ValueMod(x, BYTE, Order) = Worth(x, BYTE, k) % Order
  BY <1>1, <1>3, <1>5, ValueModIs
<1> QED BY <1>4 DEF k

LEMMA ModLReturns ==
  ASSUME OrderAssumption, NEW x \in [1..(2 * BYTES) -> 0..MOST]
  PROVE  modL(x) = Digits(ValueMod(x, BYTE, Order))
<1>1. x \in [1..(2 * BYTES) -> Int]
  <2>1. MOST \in Int
    BY MostFacts
  <2> QED BY <2>1
<1> QED BY <1>1, ModLIsExact, RemainderIs

(* A string of which no byte is changed. *)
LEMMA NoneForged ==
  ASSUME NEW bytes \in Strings
  PROVE  Forged(bytes, 0) = bytes
<1> DEFINE n == Len(bytes)
           T == 0..(BYTE - 1)
<1>0. bytes \in Seq(T)
  BY DEF Strings
<1> HIDE DEF T
<1>1. n \in Nat /\ bytes \in [1..n -> T]
  BY <1>0
<1> HIDE DEF n
<1>2. DOMAIN bytes = 1..n /\ bytes = [j \in 1..n |-> bytes[j]]
  BY <1>1
<1>3. \A j \in 1..n : j # 0
  BY <1>1
<1> QED BY <1>2, <1>3 DEF Forged

LEMMA SignReturns ==
  ASSUME FieldAssumption, CurveAssumption, PrimeAssumption, OrderAssumption, HashAssumption,
         GroupAssumption, NEW seed \in Scalar, NEW m \in Strings, NEW m0 \in Strings
  PROVE  LET keys == crypto_sign_keypair(seed)
             opened == OpenEach(m0, crypto_sign(m, keys.secret), keys.public)[0]
         IN  opened.valid /\ SubSeq(opened.m, 1, Len(m)) = m
<1> DEFINE keys == crypto_sign_keypair(seed)
           sm == crypto_sign(m, keys.secret)
           opened == crypto_sign_open(m0, sm, keys.public)
<1>1. PICK g : IsCycle(g)
  BY BaseIsCycle
<1>2. sm \in Strings /\ opened.valid /\ SubSeq(opened.m, 1, Len(m)) = m
  BY <1>1, SignedMessageOpens
<1> HIDE DEF sm, keys
<1>3. 0 \in 0..Len(sm)
  BY <1>2 DEF Strings
<1>4. OpenEach(m0, sm, keys.public)[0] = crypto_sign_open(m0, Forged(sm, 0), keys.public)
  BY <1>3 DEF OpenEach
<1>5. OpenEach(m0, sm, keys.public)[0] = opened
  BY <1>2, <1>4, NoneForged
<1> HIDE DEF opened
<1>6. LET r == OpenEach(m0, sm, keys.public)[0] IN r.valid /\ SubSeq(r.m, 1, Len(m)) = m
  BY <1>2, <1>5
<1> QED BY <1>6, Zenon DEF sm, keys

(* The number h that crypto_sign_open makes of what it hashes.             *)
LEMMA ReducedIs ==
  ASSUME FieldAssumption, OrderAssumption, HashAssumption, NEW x \in Strings
  PROVE  /\ Worth(reduce(Hash(x)), BYTE, BYTES) = ValueMod(Hash(x), BYTE, Order)
         /\ ValueMod(Hash(x), BYTE, Order) \in Nat
<1> DEFINE n == 2 * BYTES
           z == Hash(x)
           v == ValueMod(z, BYTE, Order)
           y == Worth(z, BYTE, n)
<1>1. z \in [1..n -> 0..(BYTE - 1)]
  BY DEF HashAssumption
<1> HIDE DEF z
<1>2. 0..(BYTE - 1) \subseteq 0..MOST /\ 0..(BYTE - 1) \subseteq Int
  <2> DEFINE c == BYTE - 1
             d == BYTES * c
  <2>1. c \in Nat /\ d \in Nat /\ MOST = c * (d + 1)
    <3>1. BYTE - 1 \in Nat /\ BYTES \in Nat
      BY OrderFacts
    <3>2. MOST = (BYTE - 1) * (BYTES * (BYTE - 1) + 1)
      BY MostFacts
    <3> QED BY <3>1, <3>2
  <2> HIDE DEF c, d
  <2>2. c * (d + 1) >= c
    BY <2>1
  <2> QED BY <2>1, <2>2 DEF c
<1>3. BYTE \in Nat /\ BYTE > 0 /\ n \in Nat /\ Order \in Nat /\ Order > 0
  BY OrderFacts
<1> HIDE DEF n
<1>4. z \in [1..n -> 0..MOST] /\ z \in [1..n -> Int]
  <2> HIDE DEF MOST
  <2> QED BY <1>1, <1>2
<1>5. reduce(z) = Digits(v) /\ v = y % Order
  BY <1>4, ModLReturns, RemainderIs DEF reduce, n
<1>6. y \in Int
  <2>1. IsInts(z, n)
    BY <1>4 DEF IsInts
  <2> QED BY <1>3, <2>1, WorthIsInt
<1> HIDE DEF v, y
<1>7. Worth(Digits(v), BYTE, BYTES) = v
  BY <1>5, <1>6, OrderDigits
<1>8. v \in Nat
  <2> HIDE DEF Order
  <2> QED BY <1>3, <1>5, <1>6
<1> QED BY <1>5, <1>7, <1>8 DEF z, v

LEMMA OpenReturns ==
  ASSUME FieldAssumption, CurveAssumption, PrimeAssumption, OrderAssumption, HashAssumption,
         GroupAssumption, NEW sm \in Strings, NEW pk \in Scalar, NEW left \in Strings
  PROVE  IsOpening(crypto_sign_open(left, sm, pk), left, sm, pk)
<1> DEFINE is == crypto_sign_open(left, sm, pk)
           message == Drop(sm, 2 * BYTES)
           negA == unpackneg(pk)
           x == HashedOf(sm, pk)
           a == Affine(negA)
           h == ValueMod(Hash(x), BYTE, Order)
           sb == Prefix(Suffix(sm))
           s == NumberOf(sb)
           t == EdwardsSum(EdwardsMultiple(h, a), EdwardsMultiple(s, BasePoint))
<1>1. x = Prefix(sm) \o pk \o message
  BY Zenon DEF HashedOf
<1>2. CASE Len(sm) < 2 * BYTES \/ negA = NoPoint
  <2>1. is = OpenResult(FALSE, left)
    BY <1>2, Zenon DEF crypto_sign_open, OpenedAt
  <2> HIDE DEF is
  <2>2. is = [valid |-> FALSE, m |-> left]
    BY <2>1 DEF OpenResult
  <2> QED BY <1>2, <2>2, Zenon DEF IsOpening, is
<1>3. CASE ~(Len(sm) < 2 * BYTES \/ negA = NoPoint)
  <2>1. /\ pk \in Strings /\ Len(sm) \in Nat /\ BYTES \in Nat /\ Len(sm) >= 2 * BYTES
        /\ negA # NoPoint
    <3>1. Len(sm) \in Nat /\ BYTES \in Nat
      BY TopFacts DEF Strings
    <3> DEFINE l == Len(sm)
               k == BYTES
    <3> HIDE DEF l, k
    <3>2. ~(l < 2 * k) /\ l \in Nat /\ k \in Nat
      BY <1>3, <3>1 DEF l, k
    <3>3. l >= 2 * k
      BY <3>2
    <3> QED BY <1>3, <3>1, <3>3, ScalarFacts DEF l, k
  <2>2. x \in Strings /\ message \in Strings /\ sb \in Scalar
    BY <2>1, PartsOfSigned
  <2>3. is = Verified(HasPoint(sm, negA, x), left, sm, x)
    BY <2>1, OpenIs
  <2>4. h \in Nat /\ h = Worth(reduce(Hash(x)), BYTE, BYTES)
    BY <2>2, ReducedIs
  <2>5. s \in Nat /\ s = Worth(sb, BYTE, BYTES)
    BY <2>2, NumberFacts
  <2>6. a \in CurvePoints /\ IsPoint(negA, a) /\ negA \in [1..4 -> gf]
    <3>1. AreDigits(pk, BYTE, BYTES)
      BY ScalarFacts
    <3>2. IsDecoded(negA, Second(pk), pk[BYTES] \div HALF)
      BY <2>1, <3>1, UnpackDecodes
    <3> HIDE DEF negA
    <3>3. PICK u \in Pairs : OnCurve(u) /\ IsPoint(negA, u) /\ negA \in [1..4 -> gf]
      BY <3>2 DEF IsDecoded
    <3>4. a = u
      BY <3>3, AffineIs
    <3> QED BY <3>3, <3>4 DEF CurvePoints
  <2> HIDE DEF x, h, s, a, sb, message, negA
  <2>7. PICK f : /\ IsMultiples(f, a) /\ IsMultiplesOf(f, a)
                 /\ \A n \in Nat : f[n] = EdwardsMultiple(n, a)
    BY <2>6, MultiplesFacts
  <2>8. BasePoint \in CurvePoints
    BY GroupFacts, Zenon
  <2>9. PICK g : /\ IsMultiples(g, BasePoint) /\ IsMultiplesOf(g, BasePoint)
                 /\ \A n \in Nat : g[n] = EdwardsMultiple(n, BasePoint)
    BY <2>8, MultiplesFacts
  <2>10. t = EdwardsSum(f[h], g[s]) /\ f[h] \in CurvePoints /\ g[s] \in CurvePoints
    BY <2>4, <2>5, <2>7, <2>9 DEF IsMultiplesOf
  <2>11. t \in Pairs /\ IsSum(f[h], g[s], t)
    <3>1. \A u, v \in CurvePoints :
            EdwardsSum(u, v) \in CurvePoints /\ IsSum(u, v, EdwardsSum(u, v))
      BY GroupFacts, Zenon
    <3>2. CurvePoints \subseteq Pairs
      BY DEF CurvePoints
    <3> QED BY <2>10, <3>1, <3>2, Zenon
  <2> HIDE DEF t
  <2>12. is.valid <=> Prefix(sm) = EncodingOf(t)
    <3>1. IsChecked(sm, pk, a, f, g, h, s, t)
      BY <2>1, <2>4, <2>5, <2>6, <2>7, <2>9, <2>11, Zenon DEF IsChecked, negA, sb, x
    <3> QED BY <3>1, OpenChecks
  <2>13. is.valid \in BOOLEAN /\ is = Verified(is.valid, left, sm, x)
    <3> DEFINE v == HasPoint(sm, negA, x)
    <3>1. v \in BOOLEAN
      BY DEF HasPoint
    <3> HIDE DEF v, is
    <3>2. is.valid = v
      BY <2>3 DEF Verified, OpenResult, v
    <3> QED BY <2>3, <3>1, <3>2 DEF v
  <2> HIDE DEF is
  <2>14. SubSeq(is.m, 1, Len(message)) = IF is.valid THEN message ELSE Repeat(0, Len(message))
    <3> DEFINE b == is.valid
    <3>1. b \in BOOLEAN /\ is = Verified(b, left, sm, x)
      BY <2>13
    <3> HIDE DEF b
    <3>2. SubSeq(Verified(b, left, sm, x).m, 1, Len(message))
            = IF b THEN message ELSE Repeat(0, Len(message))
      BY <2>2, <3>1, MessageInFront DEF message
    <3> QED BY <3>1, <3>2 DEF b
  <2> QED BY <1>1, <1>3, <2>12, <2>14, Zenon DEF IsOpening, is, message, negA, h, a, s, sb, t
<1> QED BY <1>2, <1>3

(* A call returns once, and what its function returns.                     *)
LEMMA CurveSteps ==
  ASSUME [CurveNext]_nvars
  PROVE  /\ test' = test
         /\ \/ result' = result
            \/ test.of = "inverse" /\ Invert
            \/ test.of = "point" /\ Point
            \/ test.of = "multiple" /\ MultipleOfBase
            \/ test.of = "modL" /\ ModL
            \/ test.of = "sign" /\ Sign
            \/ test.of = "open" /\ Open
BY DEF CurveNext, nvars, Invert, Point, MultipleOfBase, ModL, Sign, Open, Call

(* The arguments of a call. *)
LEMMA CurveArguments ==
  ASSUME CurveCallsAssumption, test \in CurveCalls
  PROVE  /\ test.of \in {"inverse", "point", "multiple"} => test.n \in Scalar
         /\ test.of = "modL" => test.x \in [1..(2 * BYTES) -> 0..MOST]
         /\ test.of = "sign" => test.seed \in Scalar /\ test.m \in Strings /\ test.left \in Strings
         /\ test.of = "open" => test.pk \in Scalar /\ test.sm \in Strings /\ test.left \in Strings
BY DEF CurveCallsAssumption

(* inv25519 and pow2523 of tweetnacl.c, called with the bytes of any       *)
(* number: the inverse, and the power that roots are taken with.           *)
THEOREM InverseCallsReturn ==
  ASSUME FieldAssumption, PrimeAssumption, CurveCallsAssumption
  PROVE  CurveSpec => []InverseIsInverse
<1> DEFINE IInv == test \in CurveCalls /\ InverseIsInverse
<1>1. CurveInit => IInv
  BY DEF CurveInit, CallOneOf, InverseIsInverse, Returned
<1>2. ASSUME IInv, [CurveNext]_nvars PROVE IInv'
  <2>1. test' = test
    BY <1>2, CurveSteps
  <2>2. CASE test.of # "inverse"
    BY <1>2, <2>1, <2>2 DEF InverseIsInverse, Returned
  <2>3. CASE result' = result
    BY <1>2, <2>1, <2>3 DEF InverseIsInverse, Returned
  <2>4. CASE Invert
    <3>1. test.of = "inverse" /\ result'.is = Inverted(unpack25519(test.n))
      BY <2>4 DEF Invert, Call
    <3>2. test.n \in Scalar
      BY <1>2, <3>1, CurveArguments
    <3>3. InverseIsInverse'
      BY <2>1, <3>1, <3>2, InverseReturns DEF InverseIsInverse
    <3> QED BY <1>2, <2>1, <3>3
  <2> QED BY <1>2, <2>2, <2>3, <2>4, CurveSteps
<1> QED BY <1>1, <1>2, PTL DEF CurveSpec

(* unpackneg, called with any bytes: it refuses those of no point of the   *)
(* curve, and returns the negative of the point of the others.             *)
THEOREM PointCallsReturn ==
  ASSUME FieldAssumption, CurveAssumption, PrimeAssumption, CurveCallsAssumption
  PROVE  CurveSpec => []PointsDecode
<1> DEFINE IInv == test \in CurveCalls /\ PointsDecode
<1>1. CurveInit => IInv
  BY DEF CurveInit, CallOneOf, PointsDecode, Returned
<1>2. ASSUME IInv, [CurveNext]_nvars PROVE IInv'
  <2>1. test' = test
    BY <1>2, CurveSteps
  <2>2. CASE test.of # "point"
    BY <1>2, <2>1, <2>2 DEF PointsDecode, Returned
  <2>3. CASE result' = result
    BY <1>2, <2>1, <2>3 DEF PointsDecode, Returned
  <2>4. CASE Point
    <3>1. test.of = "point" /\ result'.is = unpackneg(test.n)
      BY <2>4 DEF Point, Call
    <3>2. test.n \in Scalar
      BY <1>2, <3>1, CurveArguments
    <3>3. PointsDecode'
      BY <2>1, <3>1, <3>2, PointReturns DEF PointsDecode
    <3> QED BY <1>2, <2>1, <3>3
  <2> QED BY <1>2, <2>2, <2>3, <2>4, CurveSteps
<1> QED BY <1>1, <1>2, PTL DEF CurveSpec

(* scalarbase and pack, called with any scalar: the encoding of that       *)
(* multiple of the base point in the group of the curve.                   *)
THEOREM MultipleCallsReturn ==
  ASSUME FieldAssumption, CurveAssumption, PrimeAssumption, OrderAssumption, GroupAssumption,
         CurveCallsAssumption
  PROVE  CurveSpec => []ScalarIsMultiplication
<1> DEFINE IInv == test \in CurveCalls /\ ScalarIsMultiplication
<1>1. CurveInit => IInv
  BY DEF CurveInit, CallOneOf, ScalarIsMultiplication, Returned
<1>2. ASSUME IInv, [CurveNext]_nvars PROVE IInv'
  <2>1. test' = test
    BY <1>2, CurveSteps
  <2>2. CASE test.of # "multiple"
    BY <1>2, <2>1, <2>2 DEF ScalarIsMultiplication, Returned
  <2>3. CASE result' = result
    BY <1>2, <2>1, <2>3 DEF ScalarIsMultiplication, Returned
  <2>4. CASE MultipleOfBase
    <3>1. test.of = "multiple" /\ result'.is = pack(scalarbase(test.n))
      BY <2>4 DEF MultipleOfBase, Call
    <3>2. test.n \in Scalar
      BY <1>2, <3>1, CurveArguments
    <3>3. ScalarIsMultiplication'
      BY <2>1, <3>1, <3>2, MultipleReturns DEF ScalarIsMultiplication
    <3> QED BY <1>2, <2>1, <3>3
  <2> QED BY <1>2, <2>2, <2>3, <2>4, CurveSteps
<1> QED BY <1>1, <1>2, PTL DEF CurveSpec

(* modL, called with bytes as large as crypto_sign makes them: the         *)
(* remainder modulo the order.                                             *)
THEOREM ModLCallsReturn ==
  ASSUME OrderAssumption, CurveCallsAssumption
  PROVE  CurveSpec => []ModLIsRemainder
<1> DEFINE IInv == test \in CurveCalls /\ ModLIsRemainder
<1>1. CurveInit => IInv
  BY DEF CurveInit, CallOneOf, ModLIsRemainder, Returned
<1>2. ASSUME IInv, [CurveNext]_nvars PROVE IInv'
  <2>1. test' = test
    BY <1>2, CurveSteps
  <2>2. CASE test.of # "modL"
    BY <1>2, <2>1, <2>2 DEF ModLIsRemainder, Returned
  <2>3. CASE result' = result
    BY <1>2, <2>1, <2>3 DEF ModLIsRemainder, Returned
  <2>4. CASE ModL
    <3>1. test.of = "modL" /\ result'.is = modL(test.x)
      BY <2>4 DEF ModL, Call
    <3>2. test.x \in [1..(2 * BYTES) -> 0..MOST]
      BY <1>2, <3>1, CurveArguments
    <3>3. ModLIsRemainder'
      BY <2>1, <3>1, <3>2, ModLReturns DEF ModLIsRemainder
    <3> QED BY <1>2, <2>1, <3>3
  <2> QED BY <1>2, <2>2, <2>3, <2>4, CurveSteps
<1> QED BY <1>1, <1>2, PTL DEF CurveSpec

(* crypto_sign_keypair, crypto_sign and crypto_sign_open, one after the    *)
(* other, for every seed and message: what was signed opens.               *)
THEOREM SignCallsReturn ==
  ASSUME FieldAssumption, CurveAssumption, PrimeAssumption, OrderAssumption, HashAssumption,
         GroupAssumption, CurveCallsAssumption
  PROVE  CurveSpec => []SignatureOpens
<1> DEFINE IInv == test \in CurveCalls /\ SignatureOpens
<1>1. CurveInit => IInv
  BY DEF CurveInit, CallOneOf, SignatureOpens, Returned
<1>2. ASSUME IInv, [CurveNext]_nvars PROVE IInv'
  <2>1. test' = test
    BY <1>2, CurveSteps
  <2>2. CASE test.of # "sign"
    BY <1>2, <2>1, <2>2 DEF SignatureOpens, Returned
  <2>3. CASE result' = result
    BY <1>2, <2>1, <2>3 DEF SignatureOpens, Returned
  <2>4. CASE Sign
    <3>1. /\ test.of = "sign"
          /\ result'.is = SignAndOpen(test.m, crypto_sign_keypair(test.seed))
      BY <2>4 DEF Sign, Call
    <3>2. test.seed \in Scalar /\ test.m \in Strings /\ test.left \in Strings
      BY <1>2, <3>1, CurveArguments
    <3>3. LET opened == result'.is[0]
          IN  opened.valid /\ SubSeq(opened.m, 1, Len(test.m)) = test.m
      BY <3>1, <3>2, SignReturns DEF SignAndOpen
    <3>4. SignatureOpens'
      BY <2>1, <3>3 DEF SignatureOpens
    <3> QED BY <1>2, <2>1, <3>4
  <2> QED BY <1>2, <2>2, <2>3, <2>4, CurveSteps
<1> QED BY <1>1, <1>2, PTL DEF CurveSpec

(* crypto_sign_open, called with any string and any key: what it accepts   *)
(* and what it leaves in its output.                                       *)
THEOREM OpenCallsReturn ==
  ASSUME FieldAssumption, CurveAssumption, PrimeAssumption, OrderAssumption, HashAssumption,
         GroupAssumption, CurveCallsAssumption
  PROVE  CurveSpec => []OpensIffEquation
<1> DEFINE IInv == test \in CurveCalls /\ OpensIffEquation
<1>1. CurveInit => IInv
  BY DEF CurveInit, CallOneOf, OpensIffEquation, Returned
<1>2. ASSUME IInv, [CurveNext]_nvars PROVE IInv'
  <2>1. test' = test
    BY <1>2, CurveSteps
  <2>2. CASE test.of # "open"
    BY <1>2, <2>1, <2>2 DEF OpensIffEquation, Returned
  <2>3. CASE result' = result
    BY <1>2, <2>1, <2>3 DEF OpensIffEquation, Returned
  <2>4. CASE Open
    <3>1. test.of = "open" /\ result'.is = crypto_sign_open(test.left, test.sm, test.pk)
      BY <2>4 DEF Open, Call
    <3>2. test.pk \in Scalar /\ test.sm \in Strings /\ test.left \in Strings
      BY <1>2, <3>1, CurveArguments
    <3>3. OpensIffEquation'
      BY <2>1, <3>1, <3>2, OpenReturns DEF OpensIffEquation
    <3> QED BY <1>2, <2>1, <3>3
  <2> QED BY <1>2, <2>2, <2>3, <2>4, CurveSteps
<1> QED BY <1>1, <1>2, PTL DEF CurveSpec
=============================================================================
