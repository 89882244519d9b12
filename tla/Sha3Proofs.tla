----------------------------- MODULE Sha3Proofs -----------------------------
(***************************************************************************)
(* Theorems about Keccak as sha3-ref.c feeds it, for every width of the    *)
(* sponge and of its words, every kind of digest and every way of cutting  *)
(* a message into strings.                                                 *)
(***************************************************************************)
EXTENDS Sha3, BufferProofs, TLAPS

-----------------------------------------------------------------------------
(* The types of the state. *)

Bit == (UNION {KeccakByteAt(i) : i \in Nat}) \cup {0, TopBit}
Byte == SUBSET Bit
Word == [0..(LANEBYTES - 1) -> Byte]
Input == [0..(SPONGE_WORDS - 1) -> Word]
Contexts ==
  [saved : Word, s : Input, inputs : Seq(Input),
   byteIndex : Nat, wordIndex : Nat, capacityWords : Nat]
CallType == [pc : {"idle", "update", "loop"}, in : Seq(Byte)]
GivenType == [kind : KeccakKinds \cup {"closed"}, message : Seq(Byte)]

TypeInv ==
  /\ kctx \in Contexts
  /\ kcall \in CallType
  /\ khash \in [inputs : Seq(Input), words : Nat]
  /\ kgiven \in GivenType

(* Exclusive or of two bytes is a byte, and adds to a byte without bits.   *)
LEMMA XorFacts ==
  ASSUME NEW a \in Byte, NEW b \in Byte
  PROVE  XorBits(a, b) \in Byte /\ XorBits({}, b) = b /\ XorBits(a, {}) = a /\ {} \in Byte
BY DEF XorBits, Byte

LEMMA EndBits == 0 \in Bit /\ TopBit \in Bit
BY DEF Bit

LEMMA EmptyTypes == NoWord \in Word /\ NoInput \in Input
BY DEF NoWord, NoInput, Word, Input, Byte

(* The strings a caller feeds are bytes.                                   *)
LEMMA TextType ==
  ASSUME NEW n \in Nat, NEW l \in Nat
  PROVE  KeccakText(n, l) \in Seq(Byte)
<1>1. ASSUME NEW j \in 1..l PROVE KeccakByteAt(n + j) \in Byte
  <2>1. n + j \in Nat
    OBVIOUS
  <2>2. KeccakByteAt(n + j) \in {KeccakByteAt(i) : i \in Nat}
    BY <2>1
  <2>3. KeccakByteAt(n + j) \subseteq UNION {KeccakByteAt(i) : i \in Nat}
    BY <2>2
  <2> QED BY <2>3 DEF Byte, Bit
<1>2. KeccakText(n, l) \in [1..l -> Byte]
  BY <1>1 DEF KeccakText
<1> QED BY <1>2

(* A word that is added to an input.                                       *)
LEMMA XorWordType ==
  ASSUME NEW input \in Input, NEW w \in 0..(SPONGE_WORDS - 1), NEW word \in Word
  PROVE  /\ XorWord(input, w, word) \in Input
         /\ XorWord(input, w, word)
              = [input EXCEPT ![w] = [i \in 0..(LANEBYTES - 1) |->
                                        XorBits(input[w][i], word[i])]]
<1> DEFINE sum == [i \in 0..(LANEBYTES - 1) |-> XorBits(input[w][i], word[i])]
<1>1. input[w] \in Word
  BY DEF Input
<1>2. sum \in Word
  <2>1. ASSUME NEW i \in 0..(LANEBYTES - 1)
        PROVE  XorBits(input[w][i], word[i]) \in Byte
    <3>1. input[w][i] \in Byte /\ word[i] \in Byte
      BY <1>1 DEF Word
    <3> QED BY <3>1, XorFacts
  <2> QED BY <2>1 DEF Word
<1>3. XorWord(input, w, word) = [input EXCEPT ![w] = sum]
  <2>1. DOMAIN input[w] = 0..(LANEBYTES - 1)
    BY <1>1 DEF Word
  <2> QED BY <2>1 DEF XorWord, Input
<1> HIDE DEF sum
<1>4. [input EXCEPT ![w] = sum] \in Input
  BY <1>2 DEF Input
<1> QED BY <1>3, <1>4 DEF sum

-----------------------------------------------------------------------------
(* The functions on a context. *)

(* The words that can be filled, and the bytes they have.                  *)
LEMMA RateType ==
  ASSUME KeccakAssumption, NEW c \in Contexts, NEW kind \in KeccakKinds,
         c.capacityWords = 2 * OutWords[kind]
  PROVE  /\ LANEBYTES \in Nat /\ LANEBYTES > 0
         /\ SPONGE_WORDS \in Nat
         /\ Rate(c) \in 1..SPONGE_WORDS
         /\ Rate(c) = SPONGE_WORDS - 2 * OutWords[kind]
         /\ BlockBytes(c) \in Nat /\ BlockBytes(c) >= LANEBYTES
         /\ BlockStart(c) \in Nat
         /\ c.wordIndex * LANEBYTES \in Nat
         /\ WordStart(c) \in Nat
         /\ Position(c) \in Nat
<1>1. /\ LANEBYTES \in Nat /\ LANEBYTES > 0 /\ SPONGE_WORDS \in Nat
      /\ OutWords[kind] \in Nat /\ 2 * OutWords[kind] < SPONGE_WORDS
  BY DEF KeccakAssumption
<1>2. /\ Len(c.inputs) \in Nat /\ c.wordIndex \in Nat /\ c.byteIndex \in Nat
  BY DEF Contexts
<1>3. Rate(c) \in 1..SPONGE_WORDS /\ Rate(c) = SPONGE_WORDS - 2 * OutWords[kind]
  BY <1>1 DEF Rate
<1>4. BlockBytes(c) \in Nat /\ BlockBytes(c) >= LANEBYTES
  <2> DEFINE r == Rate(c)
  <2>1. r \in Nat /\ r >= 1
    BY <1>1, <1>3
  <2> HIDE DEF r
  <2>2. r * LANEBYTES \in Nat /\ r * LANEBYTES >= LANEBYTES
    BY <1>1, <2>1
  <2> QED BY <2>2 DEF BlockBytes, r
<1>5. BlockStart(c) \in Nat
  BY <1>2, <1>4 DEF BlockStart
<1>6. c.wordIndex * LANEBYTES \in Nat
  BY <1>1, <1>2
<1>7. WordStart(c) \in Nat
  BY <1>5, <1>6 DEF WordStart
<1> QED BY <1>1, <1>2, <1>3, <1>4, <1>5, <1>6, <1>7 DEF Position

(* What the fields of a message are, cut to words and inputs.              *)
LEMMA InputAtType ==
  ASSUME LANEBYTES \in Nat, NEW m \in Seq(Byte), NEW base \in Nat, NEW words \in Nat,
         base + words * LANEBYTES <= Len(m)
  PROVE  InputAt(m, base, words) \in Input
<1>1. ASSUME NEW w \in 0..(SPONGE_WORDS - 1), NEW i \in 0..(LANEBYTES - 1)
      PROVE  (IF w < words THEN m[base + w * LANEBYTES + i + 1] ELSE {}) \in Byte
  <2>1. CASE w < words
    <3>1. (w + 1) * LANEBYTES <= words * LANEBYTES
      BY <2>1
    <3>2. w * LANEBYTES \in Nat /\ (w + 1) * LANEBYTES = w * LANEBYTES + LANEBYTES
      OBVIOUS
    <3>3. base + w * LANEBYTES + i + 1 \in 1..Len(m)
      BY <3>1, <3>2
    <3> QED BY <2>1, <3>3
  <2> QED BY <2>1 DEF Byte
<1> QED BY <1>1 DEF InputAt, Input, Word

LEMMA WordAtType ==
  ASSUME LANEBYTES \in Nat, NEW m \in Seq(Byte), NEW begun \in Nat,
         NEW bytes \in Nat, begun + bytes <= Len(m)
  PROVE  WordAt(m, begun, bytes) \in Word
<1>1. ASSUME NEW i \in 0..(LANEBYTES - 1)
      PROVE  (IF i < bytes THEN m[begun + i + 1] ELSE {}) \in Byte
  <2>1. CASE i < bytes
    <3>1. begun + i + 1 \in 1..Len(m)
      BY <2>1
    <3> QED BY <2>1, <3>1
  <2> QED BY <2>1 DEF Byte
<1> QED BY <1>1 DEF WordAt, Word

(* saved |= ...: the bytes come behind those that were saved.              *)
LEMMA SaveFacts ==
  ASSUME KeccakAssumption, NEW c \in Contexts, NEW kind \in KeccakKinds,
         c.capacityWords = 2 * OutWords[kind],
         NEW m \in Seq(Byte), Absorbed(c, m),
         NEW bytes \in Seq(Byte), c.byteIndex + Len(bytes) <= LANEBYTES,
         Position(c) + Len(bytes) <= Len(m),
         \A j \in 1..Len(bytes) : bytes[j] = m[Position(c) + j]
  PROVE  /\ Save(c, bytes) \in Contexts
         /\ Save(c, bytes).saved = WordAt(m, WordStart(c), c.byteIndex + Len(bytes))
         /\ Save(c, bytes).byteIndex = c.byteIndex + Len(bytes)
         /\ \A f \in {"s", "inputs", "wordIndex", "capacityWords"} :
              Save(c, bytes)[f] = c[f]
<1> DEFINE b == c.byteIndex
           n == Len(bytes)
           begun == WordStart(c)
           next == [i \in 0..(LANEBYTES - 1) |->
                      IF b <= i /\ i < b + n
                      THEN c.saved[i] \cup bytes[i - b + 1] ELSE c.saved[i]]
<1>1. /\ LANEBYTES \in Nat /\ LANEBYTES > 0 /\ begun \in Nat
      /\ b \in Nat /\ n \in Nat /\ Position(c) = begun + b /\ b + n \in Nat
  BY RateType DEF Contexts, Position
<1>2. c.saved = WordAt(m, begun, b)
  BY DEF Absorbed
<1>3. Save(c, bytes) = [c EXCEPT !.saved = next, !.byteIndex = b + n]
  BY DEF Save, Contexts, Word
<1>a. begun + (b + n) <= Len(m) /\ \A j \in 1..n : bytes[j] = m[begun + b + j]
  BY <1>1
<1> HIDE DEF b, n, begun
<1>4. next = WordAt(m, begun, b + n)
  <2>1. ASSUME NEW i \in 0..(LANEBYTES - 1)
        PROVE  (IF b <= i /\ i < b + n
                THEN c.saved[i] \cup bytes[i - b + 1] ELSE c.saved[i])
                 = (IF i < b + n THEN m[begun + i + 1] ELSE {})
    <3>1. c.saved[i] = IF i < b THEN m[begun + i + 1] ELSE {}
      BY <1>2 DEF WordAt
    <3>2. CASE b <= i /\ i < b + n
      <4>1. i - b + 1 \in 1..n /\ begun + b + (i - b + 1) = begun + i + 1
        BY <1>1, <3>2
      <4>2. c.saved[i] = {} /\ bytes[i - b + 1] = m[begun + i + 1]
        <5>1. c.saved[i] = {}
          BY <1>1, <3>1, <3>2
        <5>2. bytes[i - b + 1] = m[begun + b + (i - b + 1)]
          BY <1>a, <4>1
        <5> QED BY <4>1, <5>1, <5>2
      <4> QED BY <3>2, <4>2
    <3>3. CASE ~(b <= i /\ i < b + n)
      BY <1>1, <3>1, <3>3
    <3> QED BY <3>2, <3>3
  <2> QED BY <2>1 DEF WordAt
<1>5. next \in Word
  BY <1>1, <1>4, <1>a, WordAtType
<1> HIDE DEF next
<1> QED BY <1>1, <1>3, <1>4, <1>5 DEF Contexts, b, n, begun

(* The first words with one more word, which was empty.                    *)
LEMMA WordAdded ==
  ASSUME KeccakAssumption, NEW m \in Seq(Byte), NEW base \in Nat,
         NEW w \in 0..(SPONGE_WORDS - 1),
         base + (w + 1) * LANEBYTES <= Len(m)
  PROVE  XorWord(InputAt(m, base, w), w, WordAt(m, base + w * LANEBYTES, LANEBYTES))
           = InputAt(m, base, w + 1)
<1> DEFINE input == InputAt(m, base, w)
           word == WordAt(m, base + w * LANEBYTES, LANEBYTES)
           all == InputAt(m, base, w + 1)
           sum == [i \in 0..(LANEBYTES - 1) |-> XorBits(input[w][i], word[i])]
<1>1. /\ LANEBYTES \in Nat /\ LANEBYTES > 0 /\ SPONGE_WORDS \in Nat /\ w \in Nat
      /\ w * LANEBYTES \in Nat /\ (w + 1) * LANEBYTES = w * LANEBYTES + LANEBYTES
  BY DEF KeccakAssumption
<1>2. input \in Input /\ all \in Input
  BY <1>1, InputAtType
<1>3. word \in Word
  <2>1. base + w * LANEBYTES \in Nat
        /\ base + w * LANEBYTES + LANEBYTES <= Len(m)
    BY <1>1
  <2> QED BY <1>1, <2>1, WordAtType
<1>4. XorWord(input, w, word) = [input EXCEPT ![w] = sum]
      /\ XorWord(input, w, word) \in Input
  BY <1>2, <1>3, XorWordType
<1>5. sum = all[w]
  <2>1. ASSUME NEW i \in 0..(LANEBYTES - 1)
        PROVE  XorBits(input[w][i], word[i]) = m[base + w * LANEBYTES + i + 1]
    <3>1. input[w][i] = {} /\ word[i] = m[base + w * LANEBYTES + i + 1]
      BY <1>1 DEF InputAt, WordAt
    <3>2. word[i] \in Byte
      BY <1>3 DEF Word
    <3> QED BY <3>1, <3>2, XorFacts
  <2>2. all[w] = [i \in 0..(LANEBYTES - 1) |-> m[base + w * LANEBYTES + i + 1]]
    BY <1>1 DEF InputAt
  <2> QED BY <2>1, <2>2
<1>6. ASSUME NEW v \in 0..(SPONGE_WORDS - 1), v # w
      PROVE  input[v] = all[v]
  <2>1. v < w <=> v < w + 1
    BY <1>1, <1>6
  <2> QED BY <2>1 DEF InputAt
<1> HIDE DEF input, all, sum, word
<1>7. [input EXCEPT ![w] = sum] = all
  BY <1>2, <1>5, <1>6 DEF Input
<1> QED BY <1>4, <1>7 DEF input, all, word

(* A full word goes where the reference puts it, and a block that is full  *)
(* is permuted as the next input of the sponge.                            *)
LEMMA AbsorbFacts ==
  ASSUME KeccakAssumption, NEW c \in Contexts, NEW kind \in KeccakKinds,
         c.capacityWords = 2 * OutWords[kind],
         NEW m \in Seq(Byte), Absorbed(c, m), c.byteIndex = 0,
         Position(c) + LANEBYTES <= Len(m)
  PROVE  LET d == Absorb(c, WordAt(m, WordStart(c), LANEBYTES))
         IN  /\ d \in Contexts
             /\ Absorbed(d, m)
             /\ Position(d) = Position(c) + LANEBYTES
             /\ d.byteIndex = 0
             /\ d.capacityWords = c.capacityWords
<1> DEFINE word == WordAt(m, WordStart(c), LANEBYTES)
           d == Absorb(c, word)
           w == c.wordIndex
           n == Len(c.inputs)
           base == BlockStart(c)
           r == Rate(c)
           all == XorWord(c.s, w, word)
<1>1. /\ LANEBYTES \in Nat /\ LANEBYTES > 0 /\ SPONGE_WORDS \in Nat
      /\ r \in 1..SPONGE_WORDS /\ BlockBytes(c) \in Nat /\ base \in Nat
      /\ w * LANEBYTES \in Nat /\ WordStart(c) \in Nat
  BY RateType
<1>2. /\ w \in Nat /\ n \in Nat /\ w < r /\ w \in 0..(SPONGE_WORDS - 1)
      /\ c.saved \in Word /\ c.s \in Input /\ c.inputs \in Seq(Input)
      /\ c.capacityWords \in Nat
  BY <1>1 DEF Contexts, Absorbed
<1>3. /\ WordStart(c) = base + w * LANEBYTES /\ Position(c) = WordStart(c)
      /\ (w + 1) * LANEBYTES = w * LANEBYTES + LANEBYTES
  BY <1>1, <1>2 DEF WordStart, Position
<1>4. base + (w + 1) * LANEBYTES <= Len(m)
  BY <1>1, <1>2, <1>3
<1>5. c.s = InputAt(m, base, w)
  BY DEF Absorbed
<1>6. all = InputAt(m, base, w + 1)
  BY <1>1, <1>2, <1>3, <1>4, <1>5, WordAdded
<1>7. all \in Input
  BY <1>1, <1>2, <1>4, <1>6, InputAtType
<1>8. c.saved = WordAt(m, WordStart(c), 0)
  BY DEF Absorbed
<1>9. \A p, q \in Nat : WordAt(m, p, 0) = WordAt(m, q, 0)
  BY <1>1 DEF WordAt
<1>10. \A k \in 1..n : c.inputs[k] = InputAt(m, (k - 1) * BlockBytes(c), r)
  BY DEF Absorbed
<1>11. d = IF w + 1 = r
           THEN [c EXCEPT !.s = NoInput, !.inputs = Append(@, all), !.wordIndex = 0]
           ELSE [c EXCEPT !.s = all, !.wordIndex = @ + 1]
  BY DEF Absorb, permute, Rate, Contexts
<1> HIDE DEF word, d, all
<1>12. CASE w + 1 # r
  <2>0. d = [c EXCEPT !.s = all, !.wordIndex = w + 1] /\ w + 1 \in Nat
    BY <1>2, <1>11, <1>12
  <2>1. /\ d \in Contexts
        /\ d.saved = c.saved /\ d.s = all /\ d.inputs = c.inputs
        /\ d.byteIndex = 0 /\ d.wordIndex = w + 1
        /\ d.capacityWords = c.capacityWords
    <3> HIDE DEF w, n, base, r
    <3> QED BY <1>7, <2>0 DEF Contexts
  <2>2. Rate(d) = r /\ BlockBytes(d) = BlockBytes(c) /\ BlockStart(d) = base
    BY <2>1 DEF Rate, BlockBytes, BlockStart
  <2>3. WordStart(d) = base + (w + 1) * LANEBYTES /\ Position(d) = WordStart(d)
    BY <1>1, <1>2, <2>1, <2>2 DEF WordStart, Position
  <2>4. WordStart(d) \in Nat /\ Position(d) = Position(c) + LANEBYTES
    <3> HIDE DEF w, n, base, r
    <3>1. w * LANEBYTES + LANEBYTES \in Nat
      BY <1>1
    <3> QED BY <1>1, <1>3, <2>3, <3>1
  <2>5. w + 1 < r
    BY <1>1, <1>2, <1>12
  <2>6. d.saved = WordAt(m, WordStart(d), 0)
    BY <1>1, <1>8, <1>9, <2>1, <2>4
  <2> QED BY <1>1, <1>4, <1>6, <1>10, <2>1, <2>2, <2>3, <2>4, <2>5, <2>6
          DEF Absorbed, d, word
<1>13. CASE w + 1 = r
  <2>0. /\ d = [c EXCEPT !.s = NoInput, !.inputs = Append(c.inputs, all),
                        !.wordIndex = 0]
        /\ Append(c.inputs, all) \in Seq(Input)
    BY <1>2, <1>7, <1>11, <1>13
  <2>1. /\ d \in Contexts
        /\ d.saved = c.saved /\ d.s = NoInput /\ d.inputs = Append(c.inputs, all)
        /\ d.byteIndex = 0 /\ d.wordIndex = 0
        /\ d.capacityWords = c.capacityWords
    <3> HIDE DEF w, n, base, r
    <3> QED BY <2>0, EmptyTypes DEF Contexts
  <2>2. Len(d.inputs) = n + 1
    BY <1>2, <1>7, <2>1
  <2>3. Rate(d) = r /\ BlockBytes(d) = BlockBytes(c)
    BY <2>1 DEF Rate, BlockBytes
  <2>4. BlockStart(d) = base + BlockBytes(c)
    <3> DEFINE bb == BlockBytes(c)
    <3>1. bb \in Nat /\ base = n * bb
      BY <1>1 DEF BlockStart
    <3>2. BlockStart(d) = (n + 1) * bb
      BY <2>2, <2>3 DEF BlockStart
    <3> HIDE DEF bb
    <3> QED BY <1>2, <3>1, <3>2 DEF bb
  <2>5. BlockBytes(c) = (w + 1) * LANEBYTES
    BY <1>13 DEF BlockBytes
  <2>6. WordStart(d) = BlockStart(d) /\ Position(d) = BlockStart(d)
    BY <1>1, <2>1, <2>4 DEF WordStart, Position
  <2>7. Position(d) = Position(c) + LANEBYTES /\ Position(d) \in Nat
    BY <1>1, <1>3, <2>4, <2>5, <2>6
  <2>8. ASSUME NEW k \in 1..(n + 1)
        PROVE  d.inputs[k] = InputAt(m, (k - 1) * BlockBytes(c), r)
    <3>1. CASE k = n + 1
      <4>1. d.inputs[k] = all
        BY <1>2, <1>7, <2>1, <3>1
      <4>2. (k - 1) * BlockBytes(c) = base
        <5>1. k - 1 = n
          BY <1>2, <3>1
        <5> QED BY <5>1 DEF BlockStart
      <4> QED BY <1>6, <1>13, <4>1, <4>2
    <3>2. CASE k \in 1..n
      <4>1. d.inputs[k] = c.inputs[k]
        BY <1>2, <1>7, <2>1, <3>2
      <4> QED BY <1>10, <3>2, <4>1
    <3> QED BY <1>2, <3>1, <3>2
  <2>9. NoInput = InputAt(m, BlockStart(d), 0)
    <3>1. \A v \in 0..(SPONGE_WORDS - 1) : ~(v < 0)
      BY <1>1
    <3> QED BY <3>1 DEF NoInput, NoWord, InputAt
  <2>10. d.saved = WordAt(m, WordStart(d), 0)
    BY <1>1, <1>8, <1>9, <2>1, <2>6, <2>7
  <2>11. Position(d) <= Len(m) /\ 0 < r /\ 0 < LANEBYTES
    BY <1>1, <1>3, <2>7
  <2>12. Absorbed(d, m)
    BY <2>1, <2>2, <2>3, <2>8, <2>9, <2>10, <2>11 DEF Absorbed
  <2> QED BY <2>1, <2>7, <2>12 DEF d, word
<1> QED BY <1>12, <1>13

(* An input is the same for messages that agree as far as it reaches.      *)
LEMMA SameInput ==
  ASSUME LANEBYTES \in Nat, NEW S, NEW m \in Seq(S), NEW q \in Seq(S),
         NEW base \in Nat, NEW words \in Nat,
         base + words * LANEBYTES <= Len(m),
         \A p \in 1..Len(m) : q[p] = m[p]
  PROVE  InputAt(q, base, words) = InputAt(m, base, words)
<1>1. ASSUME NEW v \in 0..(SPONGE_WORDS - 1), NEW i \in 0..(LANEBYTES - 1)
      PROVE  (IF v < words THEN q[base + v * LANEBYTES + i + 1] ELSE {})
               = (IF v < words THEN m[base + v * LANEBYTES + i + 1] ELSE {})
  <2>1. CASE v < words
    <3> DEFINE x == v * LANEBYTES
               y == words * LANEBYTES
    <3>1. (v + 1) * LANEBYTES <= y /\ (v + 1) * LANEBYTES = x + LANEBYTES
      BY <2>1
    <3>2. /\ x \in Nat /\ y \in Nat /\ x + LANEBYTES <= y
          /\ base + y <= Len(m)
      BY <3>1
    <3> HIDE DEF x, y
    <3>3. base + x + i + 1 \in 1..Len(m)
      BY <3>2
    <3>4. q[base + x + i + 1] = m[base + x + i + 1]
      BY <3>3
    <3> QED BY <3>4 DEF x
  <2> QED BY <2>1
<1> QED BY <1>1 DEF InputAt

(* Absorbed looks at the bytes before the position only.                   *)
LEMMA MoreBytes ==
  ASSUME KeccakAssumption, NEW c \in Contexts, NEW kind \in KeccakKinds,
         c.capacityWords = 2 * OutWords[kind],
         NEW m \in Seq(Byte), Absorbed(c, m), NEW bytes \in Seq(Byte)
  PROVE  Absorbed(c, m \o bytes)
<1> DEFINE all == m \o bytes
           r == Rate(c)
           bb == BlockBytes(c)
           n == Len(c.inputs)
           w == c.wordIndex
<1>1. /\ all \in Seq(Byte) /\ Len(all) = Len(m) + Len(bytes)
      /\ \A p \in 1..Len(m) : all[p] = m[p]
  BY Concatenation
<1>2. /\ LANEBYTES \in Nat /\ LANEBYTES > 0 /\ SPONGE_WORDS \in Nat
      /\ r \in 1..SPONGE_WORDS /\ bb \in Nat /\ BlockStart(c) \in Nat
      /\ WordStart(c) \in Nat /\ Position(c) \in Nat
      /\ n \in Nat /\ w \in Nat /\ c.byteIndex \in Nat
      /\ BlockStart(c) = n * bb /\ bb = r * LANEBYTES
      /\ WordStart(c) = BlockStart(c) + w * LANEBYTES
      /\ Position(c) = WordStart(c) + c.byteIndex
      /\ Position(c) <= Len(m)
  BY RateType DEF Contexts, BlockStart, BlockBytes, WordStart, Position, Absorbed
<1> HIDE DEF all, r, bb, n, w
<1>3. ASSUME NEW base \in Nat, NEW words \in Nat,
             base + words * LANEBYTES <= Len(m)
      PROVE  InputAt(all, base, words) = InputAt(m, base, words)
  BY <1>1, <1>2, <1>3, SameInput
<1>4. ASSUME NEW k \in 1..n
      PROVE  InputAt(all, (k - 1) * bb, r) = InputAt(m, (k - 1) * bb, r)
  <2>1. (k - 1) * bb \in Nat /\ k * bb <= n * bb /\ k * bb = (k - 1) * bb + bb
    BY <1>2
  <2>2. (k - 1) * bb + bb <= Len(m)
    <3>1. n * bb <= Len(m)
      <4> DEFINE p == w * LANEBYTES
                 q == n * bb
      <4>1. p \in Nat /\ q \in Nat /\ q + p + c.byteIndex <= Len(m)
        BY <1>2
      <4> HIDE DEF p, q
      <4>2. q <= Len(m)
        BY <1>2, <4>1
      <4> QED BY <4>2 DEF q
    <3> DEFINE p == (k - 1) * bb
               q == n * bb
    <3>2. p \in Nat /\ q \in Nat /\ p + bb <= q /\ q <= Len(m)
      BY <1>2, <2>1, <3>1
    <3> HIDE DEF p, q
    <3>3. p + bb <= Len(m)
      BY <1>2, <3>2
    <3> QED BY <3>3 DEF p
  <2>3. r \in Nat /\ (k - 1) * bb + r * LANEBYTES <= Len(m)
    BY <1>2, <2>2
  <2> QED BY <1>3, <2>1, <2>3
<1>5. InputAt(all, BlockStart(c), w) = InputAt(m, BlockStart(c), w)
  BY <1>2, <1>3
<1>6. WordAt(all, WordStart(c), c.byteIndex) = WordAt(m, WordStart(c), c.byteIndex)
  <2>1. ASSUME NEW i \in 0..(LANEBYTES - 1), i < c.byteIndex
        PROVE  all[WordStart(c) + i + 1] = m[WordStart(c) + i + 1]
    <3>1. WordStart(c) + i + 1 \in 1..Len(m)
      BY <1>2, <2>1
    <3> QED BY <1>1, <3>1
  <2> QED BY <2>1 DEF WordAt
<1>7. Position(c) <= Len(all)
  BY <1>1, <1>2
<1> QED BY <1>4, <1>5, <1>6, <1>7 DEF Absorbed, all, r, bb, n, w

-----------------------------------------------------------------------------
(* The steps of sha3_Update. *)

(* What is missing in the word that was begun.                             *)
LEMMA OldTailIs ==
  ASSUME LANEBYTES \in Nat, LANEBYTES > 0, kctx.byteIndex \in 0..(LANEBYTES - 1)
  PROVE  OldTail = IF kctx.byteIndex = 0 THEN 0 ELSE LANEBYTES - kctx.byteIndex
<1> DEFINE b == kctx.byteIndex
<1>1. CASE b = 0
  <2>1. LANEBYTES - b = 1 * LANEBYTES + 0 /\ 0 \in 0..(LANEBYTES - 1)
    BY <1>1
  <2> QED BY <1>1, <2>1, DivisionUnique DEF OldTail
<1>2. CASE b # 0
  <2>1. /\ LANEBYTES - b = 0 * LANEBYTES + (LANEBYTES - b)
        /\ LANEBYTES - b \in 0..(LANEBYTES - 1)
    BY <1>2
  <2> QED BY <1>2, <2>1, DivisionUnique DEF OldTail
<1> QED BY <1>1, <1>2

(* A word that was begun, and not completed.                               *)
LEMMA SaveKeeps ==
  ASSUME KeccakAssumption, NEW c \in Contexts, NEW kind \in KeccakKinds,
         c.capacityWords = 2 * OutWords[kind],
         NEW m \in Seq(Byte), Absorbed(c, m),
         NEW bytes \in Seq(Byte), c.byteIndex + Len(bytes) < LANEBYTES,
         Position(c) + Len(bytes) <= Len(m),
         \A j \in 1..Len(bytes) : bytes[j] = m[Position(c) + j]
  PROVE  LET d == Save(c, bytes)
         IN  /\ d \in Contexts
             /\ Absorbed(d, m)
             /\ Position(d) = Position(c) + Len(bytes)
             /\ d.capacityWords = c.capacityWords
<1> DEFINE d == Save(c, bytes)
<1>1. /\ LANEBYTES \in Nat /\ WordStart(c) \in Nat
      /\ c.byteIndex \in Nat /\ Len(bytes) \in Nat
  BY RateType DEF Contexts
<1>2. /\ d \in Contexts
      /\ d.saved = WordAt(m, WordStart(c), c.byteIndex + Len(bytes))
      /\ d.byteIndex = c.byteIndex + Len(bytes)
      /\ \A f \in {"s", "inputs", "wordIndex", "capacityWords"} : d[f] = c[f]
  <2>1. c.byteIndex + Len(bytes) <= LANEBYTES
    BY <1>1
  <2> QED BY <2>1, SaveFacts
<1> HIDE DEF d
<1>3. /\ d.s = c.s /\ d.inputs = c.inputs /\ d.wordIndex = c.wordIndex
      /\ d.capacityWords = c.capacityWords
  BY <1>2
<1>4. /\ Rate(d) = Rate(c) /\ BlockBytes(d) = BlockBytes(c)
      /\ BlockStart(d) = BlockStart(c) /\ WordStart(d) = WordStart(c)
  BY <1>3 DEF Rate, BlockBytes, BlockStart, WordStart
<1>5. Position(d) = Position(c) + Len(bytes)
  BY <1>1, <1>2, <1>4 DEF Position
<1>6. Absorbed(d, m)
  BY <1>2, <1>3, <1>4, <1>5 DEF Absorbed
<1> QED BY <1>2, <1>3, <1>5, <1>6 DEF d

(* A word that was begun, and completed: it is the word of the message, and*)
(* the context is ready for it.                                            *)
LEMMA CompleteFacts ==
  ASSUME KeccakAssumption, NEW c \in Contexts, NEW kind \in KeccakKinds,
         c.capacityWords = 2 * OutWords[kind],
         NEW m \in Seq(Byte), Absorbed(c, m),
         NEW bytes \in Seq(Byte), c.byteIndex + Len(bytes) = LANEBYTES,
         Position(c) + Len(bytes) <= Len(m),
         \A j \in 1..Len(bytes) : bytes[j] = m[Position(c) + j]
  PROVE  LET complete == Save(c, bytes)
             d == [complete EXCEPT !.byteIndex = 0, !.saved = NoWord]
         IN  /\ complete.saved = WordAt(m, WordStart(d), LANEBYTES)
             /\ d \in Contexts /\ Absorbed(d, m)
             /\ Position(d) + LANEBYTES = Position(c) + Len(bytes)
             /\ d.byteIndex = 0
             /\ d.capacityWords = c.capacityWords
<1> DEFINE complete == Save(c, bytes)
           d == [complete EXCEPT !.byteIndex = 0, !.saved = NoWord]
<1>1. /\ LANEBYTES \in Nat /\ LANEBYTES > 0 /\ WordStart(c) \in Nat
      /\ c.byteIndex \in Nat /\ Len(bytes) \in Nat
      /\ Position(c) = WordStart(c) + c.byteIndex
  BY RateType DEF Contexts, Position
<1>2. /\ complete \in Contexts
      /\ complete.saved = WordAt(m, WordStart(c), c.byteIndex + Len(bytes))
      /\ \A f \in {"s", "inputs", "wordIndex", "capacityWords"} :
           complete[f] = c[f]
  <2>1. c.byteIndex + Len(bytes) <= LANEBYTES
    BY <1>1
  <2> QED BY <2>1, SaveFacts
<1>3. /\ complete.s = c.s /\ complete.inputs = c.inputs
      /\ complete.wordIndex = c.wordIndex
      /\ complete.capacityWords = c.capacityWords
  BY <1>2
<1> HIDE DEF complete
<1>4. /\ d \in Contexts /\ d.saved = NoWord /\ d.byteIndex = 0
      /\ d.s = c.s /\ d.inputs = c.inputs /\ d.wordIndex = c.wordIndex
      /\ d.capacityWords = c.capacityWords
  BY <1>2, <1>3, EmptyTypes DEF Contexts
<1> HIDE DEF d
<1>5. /\ Rate(d) = Rate(c) /\ BlockBytes(d) = BlockBytes(c)
      /\ BlockStart(d) = BlockStart(c) /\ WordStart(d) = WordStart(c)
  BY <1>4 DEF Rate, BlockBytes, BlockStart, WordStart
<1>6. Position(d) = WordStart(c)
  BY <1>1, <1>4, <1>5 DEF Position
<1>7. NoWord = WordAt(m, WordStart(c), 0)
  <2>1. \A i \in 0..(LANEBYTES - 1) : ~(i < 0)
    BY <1>1
  <2> QED BY <2>1 DEF NoWord, WordAt
<1>8. Position(d) <= Len(m)
  BY <1>1, <1>6
<1>9. Absorbed(d, m)
  BY <1>1, <1>4, <1>5, <1>7, <1>8 DEF Absorbed
<1> QED BY <1>1, <1>2, <1>4, <1>5, <1>6, <1>9 DEF d, complete

(* The bytes that the running call still holds.                            *)
LEMMA InputFacts ==
  ASSUME NEW m \in Seq(Byte), NEW p \in 0..Len(m), NEW in, in = Drop(m, p)
  PROVE  /\ in \in Seq(Byte) /\ Len(in) = Len(m) - p
         /\ \A j \in 1..Len(in) : in[j] = m[p + j]
<1>1. /\ in \in Seq(Byte) /\ Len(in) = Len(m) - p
      /\ \A j \in 1..(Len(m) - p) : in[j] = m[j + p]
  BY TakeDrop
<1>2. \A j \in 1..Len(in) : j + p = p + j
  BY <1>1
<1> QED BY <1>1, <1>2

(* A context that was just opened has absorbed nothing.                    *)
LEMMA FreshFacts ==
  ASSUME KeccakAssumption, NEW kind \in KeccakKinds
  PROVE  /\ Fresh(kind) \in Contexts
         /\ Fresh(kind).capacityWords = 2 * OutWords[kind]
         /\ Absorbed(Fresh(kind), <<>>)
         /\ Drop(<<>>, Position(Fresh(kind))) = <<>>
<1> DEFINE c == Fresh(kind)
<1>1. /\ c \in Contexts /\ c.capacityWords = 2 * OutWords[kind]
      /\ c.inputs = <<>> /\ c.byteIndex = 0 /\ c.wordIndex = 0
      /\ c.s = NoInput /\ c.saved = NoWord
  BY EmptyTypes DEF Fresh, Contexts, KeccakAssumption
<1> HIDE DEF c
<1>2. /\ LANEBYTES \in Nat /\ LANEBYTES > 0 /\ SPONGE_WORDS \in Nat
      /\ Rate(c) \in 1..SPONGE_WORDS /\ BlockBytes(c) \in Nat
  BY <1>1, RateType
<1>3. BlockStart(c) = 0 /\ WordStart(c) = 0 /\ Position(c) = 0
  BY <1>1, <1>2 DEF BlockStart, WordStart, Position
<1>4. NoInput = InputAt(<<>>, 0, 0) /\ NoWord = WordAt(<<>>, 0, 0)
  <2>1. /\ \A i \in 0..(LANEBYTES - 1) : ~(i < 0)
        /\ \A v \in 0..(SPONGE_WORDS - 1) : ~(v < 0)
    BY <1>2
  <2> QED BY <2>1 DEF NoInput, NoWord, InputAt, WordAt
<1>5. Absorbed(c, <<>>)
  BY <1>1, <1>2, <1>3, <1>4 DEF Absorbed
<1>6. Drop(<<>>, 0) = <<>>
  BY DEF Drop
<1> QED BY <1>1, <1>3, <1>5, <1>6 DEF c

-----------------------------------------------------------------------------
(* The end: the padding. *)

(* A message with the bits of the padding behind it, up to some place.     *)
Ends(q, m, end) ==
  /\ \A j \in 1..Len(m) : j # end /\ q[j] = m[j]
  /\ \A j \in (Len(m) + 1)..end :
       q[j] = (IF j = Len(m) + 1 THEN {0} ELSE {})
                \cup (IF j = end THEN {TopBit} ELSE {})

(* The message with its padding, byte by byte.                             *)
LEMMA PaddedFacts ==
  ASSUME NEW m \in Seq(Byte), NEW rate \in Nat, NEW k \in Nat,
         NEW rest \in 0..(rate - 1), Len(m) = k * rate + rest
  PROVE  LET p == KeccakPadded(m, rate)
             size == (k + 1) * rate
         IN  /\ p \in Seq(Byte) /\ Len(p) = size /\ Len(p) \div rate = k + 1
             /\ Ends(p, m, size) /\ \A j \in 1..Len(m) : p[j] = m[j]
<1> DEFINE n == Len(m)
           size == (k + 1) * rate
           tail == [j \in 1..(size - n) |-> IF j = 1 THEN {0} ELSE {}]
           extended == m \o tail
           p == KeccakPadded(m, rate)
<1>1. /\ rate > 0 /\ n \in Nat /\ size \in Nat /\ n < size /\ n \div rate = k
      /\ rate * (n \div rate + 1) = size
  <2>1. rate > 0 /\ n \in Nat /\ k * rate \in Nat
    OBVIOUS
  <2>2. n \div rate = k
    BY <2>1, DivisionUnique
  <2>3. size = k * rate + rate
    OBVIOUS
  <2>4. size \in Nat /\ n < size
    BY <2>1, <2>3
  <2> QED BY <2>1, <2>2, <2>4
<1>2. p = [extended EXCEPT ![size] = @ \cup {TopBit}]
  BY <1>1 DEF KeccakPadded
<1> HIDE DEF size, n
<1>3. tail \in Seq(Byte) /\ Len(tail) = size - n
  <2>1. {0} \in Byte /\ {} \in Byte
    BY EndBits DEF Byte
  <2> DEFINE l == size - n
  <2>2. l \in Nat
    BY <1>1
  <2> HIDE DEF l
  <2>3. [j \in 1..l |-> IF j = 1 THEN {0} ELSE {}] \in [1..l -> Byte]
    BY <2>1
  <2>4. \A t \in [1..l -> Byte] : t \in Seq(Byte) /\ Len(t) = l
    BY <2>2
  <2> QED BY <2>3, <2>4 DEF l
<1>4. /\ extended \in Seq(Byte) /\ Len(extended) = size
      /\ \A j \in 1..size : extended[j] = IF j <= n THEN m[j] ELSE tail[j - n]
  <2>1. Len(m) = n /\ n + (size - n) = size
    BY <1>1 DEF n
  <2>2. /\ m \o tail \in Seq(Byte) /\ Len(m \o tail) = Len(m) + Len(tail)
        /\ \A i \in 1..(Len(m) + Len(tail)) :
             (m \o tail)[i] = IF i <= Len(m) THEN m[i] ELSE tail[i - Len(m)]
    <3> HIDE DEF tail
    <3> QED BY <1>3, Concatenation
  <2> HIDE DEF tail
  <2> QED BY <1>3, <2>1, <2>2
<1>5. \A j \in (n + 1)..size : extended[j] = IF j = n + 1 THEN {0} ELSE {}
  <2>1. ASSUME NEW j \in (n + 1)..size
        PROVE  extended[j] = IF j = n + 1 THEN {0} ELSE {}
    <3>1. j \in 1..size /\ ~(j <= n) /\ j - n \in 1..(size - n)
          /\ (j - n = 1 <=> j = n + 1)
      BY <1>1
    <3> QED BY <1>4, <3>1
  <2> QED BY <2>1
<1> HIDE DEF tail, extended, p
<1>6. extended \in [1..size -> Byte] /\ size \in 1..size
  BY <1>1, <1>4
<1>7. p \in [1..size -> Byte]
  <2>1. extended[size] \cup {TopBit} \in Byte
    <3>1. extended[size] \in Byte
      BY <1>6
    <3> QED BY <3>1, EndBits DEF Byte
  <2> QED BY <1>2, <1>6, <2>1
<1>8. p \in Seq(Byte) /\ Len(p) = size
  BY <1>1, <1>7
<1>9. size \div rate = k + 1
  <2>1. size = (k + 1) * rate + 0 /\ 0 \in 0..(rate - 1)
    BY <1>1 DEF size
  <2> QED BY <1>1, <2>1, DivisionUnique
<1>10. ASSUME NEW j \in 1..size, j # size PROVE p[j] = extended[j]
  BY <1>2, <1>6, <1>10
<1>11. p[size] = extended[size] \cup {TopBit}
  BY <1>2, <1>6
<1>12. ASSUME NEW j \in 1..n PROVE j # size /\ p[j] = m[j]
  BY <1>1, <1>4, <1>10
<1>13. ASSUME NEW j \in (n + 1)..size
       PROVE  p[j] = (IF j = n + 1 THEN {0} ELSE {})
                       \cup (IF j = size THEN {TopBit} ELSE {})
  <2>1. j \in 1..size
    BY <1>1
  <2>2. CASE j = size
    BY <1>5, <1>11, <2>2
  <2>3. CASE j # size
    BY <1>5, <1>10, <2>1, <2>3
  <2> QED BY <2>2, <2>3
<1> QED BY <1>8, <1>9, <1>12, <1>13 DEF Ends, p, size, n

(* The bits around the padding, in a byte that the message does not reach. *)
LEMMA EndFacts ==
  ASSUME KeccakAssumption
  PROVE  /\ {0} \in Byte /\ {TopBit} \in Byte /\ {} \in Byte
         /\ XorBits({0}, {TopBit}) = {0} \cup {TopBit}
<1>1. TopBit # 0
  BY DEF KeccakAssumption
<1>2. {0} \ {TopBit} = {0} /\ {TopBit} \ {0} = {TopBit}
  BY <1>1
<1>3. XorBits({0}, {TopBit}) = {0} \cup {TopBit}
  BY <1>2 DEF XorBits
<1> QED BY <1>3, EndBits DEF Byte

(* Where a byte of the last block is, from the end of the message and from *)
(* the end of the block.                                                   *)
LEMMA EndOrder ==
  ASSUME NEW B \in Nat, B > 0, NEW base \in Nat, NEW r \in Nat, r > 0,
         NEW w \in Nat, w < r, NEW b \in 0..(B - 1),
         NEW v \in Nat, NEW i \in 0..(B - 1),
         NEW n, n = base + w * B + b, NEW end, end = base + r * B,
         NEW p, p = base + v * B + i + 1
  PROVE  /\ n \in Nat /\ end \in Nat /\ p \in Nat /\ p >= 1
         /\ p <= n <=> v < w \/ (v = w /\ i < b)
         /\ p = n + 1 <=> v = w /\ i = b
         /\ p = end <=> v = r - 1 /\ i = B - 1
         /\ p <= end <=> v < r
<1> DEFINE x == v * B
           y == w * B
           z == (r - 1) * B
           e == B - 1
           l == r - 1
<1>1. /\ x \in Nat /\ y \in Nat /\ z \in Nat /\ i \in Nat /\ b \in Nat
      /\ e \in 0..(B - 1) /\ l \in Nat
  OBVIOUS
<1>2. p = base + x + i + 1 /\ n = base + y + b /\ end = base + z + B
  <2>1. r * B = z + B
    OBVIOUS
  <2> QED BY <2>1
<1>3. /\ x + i < y + b <=> v < w \/ (v = w /\ i < b)
      /\ x + i = y + b <=> v = w /\ i = b
  BY Lexicographic
<1>4. /\ x + i < l * B + e <=> v < l \/ (v = l /\ i < e)
      /\ x + i = l * B + e <=> v = l /\ i = e
  <2> HIDE DEF l, e
  <2> QED BY <1>1, Lexicographic
<1>5. l * B = z /\ l = r - 1 /\ e = B - 1
  OBVIOUS
<1> HIDE DEF x, y, z, e, l
<1> QED BY <1>1, <1>2, <1>3, <1>4, <1>5

(* What sha3_Finalize makes of the words that were added, the word that    *)
(* was begun and the byte in it that comes next.                           *)
LastBlock(s, saved, w, b, r) ==
  LET start == [i \in 0..(LANEBYTES - 1) |->
                  XorBits(saved[i], IF i = b THEN {0} ELSE {})]
      stop == [NoWord EXCEPT ![LANEBYTES - 1] = {TopBit}]
  IN  XorWord(XorWord(s, w, start), r - 1, stop)

(* The words of the last block, with the bits of the padding added to the  *)
(* word that was begun and to the last word.                               *)
LEMMA PadLast ==
  ASSUME KeccakAssumption, NEW m \in Seq(Byte), NEW base \in Nat,
         NEW r \in 1..SPONGE_WORDS, NEW w \in 0..(r - 1),
         NEW b \in 0..(LANEBYTES - 1), Len(m) = base + w * LANEBYTES + b,
         NEW q, NEW end, end = base + r * LANEBYTES, Ends(q, m, end)
  PROVE  LET padded == LastBlock(InputAt(m, base, w),
                                WordAt(m, base + w * LANEBYTES, b), w, b, r)
         IN  padded \in Input /\ padded = InputAt(q, base, r)
<1> DEFINE B == LANEBYTES
           begun == base + w * B
           s == InputAt(m, base, w)
           saved == WordAt(m, begun, b)
           start == [i \in 0..(B - 1) |-> XorBits(saved[i], IF i = b THEN {0} ELSE {})]
           stop == [NoWord EXCEPT ![B - 1] = {TopBit}]
           one == XorWord(s, w, start)
           two == XorWord(one, r - 1, stop)
<1>1. /\ B \in Nat /\ B > 0 /\ SPONGE_WORDS \in Nat /\ w \in Nat /\ w < r
      /\ r \in Nat /\ r > 0 /\ r - 1 \in Nat
      /\ w \in 0..(SPONGE_WORDS - 1) /\ r - 1 \in 0..(SPONGE_WORDS - 1)
  BY DEF KeccakAssumption
<1>2. s \in Input /\ saved \in Word
  <2> DEFINE y == w * B
  <2>1. y \in Nat
    BY <1>1
  <2> HIDE DEF y
  <2>2. b \in Nat /\ begun \in Nat /\ begun + b <= Len(m) /\ base + y <= Len(m)
    BY <1>1, <2>1 DEF y
  <2>3. base + w * B <= Len(m)
    BY <2>2 DEF y
  <2> HIDE DEF begun
  <2> QED BY <1>1, <2>2, <2>3, InputAtType, WordAtType
<1>s. s = InputAt(m, base, w) /\ saved = WordAt(m, base + w * B, b)
  OBVIOUS
<1> HIDE DEF s, saved
<1>3. start \in Word /\ stop \in Word
  <2>1. ASSUME NEW i \in 0..(B - 1)
        PROVE  XorBits(saved[i], IF i = b THEN {0} ELSE {}) \in Byte
    <3>1. saved[i] \in Byte
      BY <1>2 DEF Word
    <3> QED BY <3>1, XorFacts, EndFacts
  <2>2. NoWord \in Word /\ {TopBit} \in Byte
    BY EmptyTypes, EndFacts
  <2> QED BY <2>1, <2>2 DEF Word
<1>t. /\ \A i \in 0..(B - 1) : start[i] = XorBits(saved[i], IF i = b THEN {0} ELSE {})
      /\ \A i \in 0..(B - 1) : stop[i] = IF i = B - 1 THEN {TopBit} ELSE {}
  BY <1>1 DEF NoWord
<1> HIDE DEF start, stop
<1>4. /\ one \in Input
      /\ one = [s EXCEPT ![w] = [i \in 0..(B - 1) |-> XorBits(s[w][i], start[i])]]
  BY <1>1, <1>2, <1>3, XorWordType
<1> HIDE DEF one
<1>5. /\ two \in Input
      /\ two = [one EXCEPT ![r - 1] = [i \in 0..(B - 1) |-> XorBits(one[r - 1][i], stop[i])]]
  <2> DEFINE l == r - 1
  <2>1. l \in 0..(SPONGE_WORDS - 1) /\ one \in Input /\ stop \in Word
    BY <1>1, <1>3, <1>4
  <2> HIDE DEF l
  <2>2. /\ XorWord(one, l, stop) \in Input
        /\ XorWord(one, l, stop)
             = [one EXCEPT ![l] = [i \in 0..(LANEBYTES - 1) |-> XorBits(one[l][i], stop[i])]]
    BY <2>1, XorWordType
  <2> QED BY <2>2 DEF l
<1> HIDE DEF two
<1>6. ASSUME NEW v \in 0..(SPONGE_WORDS - 1), NEW i \in 0..(B - 1)
      PROVE  two[v][i] = IF v < r THEN q[base + v * B + i + 1] ELSE {}
  <2> DEFINE p == base + v * B + i + 1
             n == Len(m)
  <2>1. v \in Nat /\ i \in Nat /\ b \in Nat
    BY <1>1
  <2>2. p = base + v * B + i + 1 /\ n = Len(m)
    OBVIOUS
  <2> HIDE DEF p, n
  <2>4. /\ n \in Nat /\ end \in Nat /\ p \in Nat /\ p >= 1
        /\ p <= n <=> v < w \/ (v = w /\ i < b)
        /\ p = n + 1 <=> v = w /\ i = b
        /\ p = end <=> v = r - 1 /\ i = B - 1
        /\ p <= end <=> v < r
    BY <1>1, <2>1, <2>2, EndOrder
  <2> DEFINE e == IF p <= n THEN m[p] ELSE IF p = n + 1 THEN {0} ELSE {}
  <2>5. s[v][i] = (IF v < w THEN m[p] ELSE {}) /\ s[v][i] \in Byte
    <3>1. s[v][i] = IF v < w THEN m[base + v * B + i + 1] ELSE {}
      BY <1>s DEF InputAt
    <3>2. s[v] \in Word
      BY <1>2 DEF Input
    <3> QED BY <2>2, <3>1, <3>2 DEF Word
  <2>6. start[i] = XorBits(saved[i], IF i = b THEN {0} ELSE {}) /\ start[i] \in Byte
    BY <1>3, <1>t DEF Word
  <2>7. ASSUME v = w PROVE start[i] = e
    <3>1. saved[i] = (IF i < b THEN m[p] ELSE {}) /\ saved[i] \in Byte
      <4>1. saved[i] = IF i < b THEN m[base + v * B + i + 1] ELSE {}
        BY <1>s, <2>7 DEF WordAt
      <4> QED BY <1>2, <2>2, <4>1 DEF Word
    <3>2. CASE i = b
      <4>1. saved[i] = {} /\ e = {0}
        BY <1>1, <2>1, <2>4, <2>7, <3>1, <3>2
      <4> HIDE DEF e
      <4> QED BY <2>6, <3>2, <4>1, XorFacts, EndFacts
    <3>3. CASE i # b
      <4>1. saved[i] = e
        BY <1>1, <2>1, <2>4, <2>7, <3>1, <3>3
      <4> HIDE DEF e
      <4> QED BY <2>6, <3>1, <3>3, <4>1, XorFacts
    <3> QED BY <3>2, <3>3
  <2>8. one[v][i] = e
    <3>1. CASE v = w
      <4>1. one[v][i] = XorBits(s[v][i], start[i])
        BY <1>1, <1>2, <1>4, <3>1 DEF Input
      <4>2. s[v][i] = {}
        BY <1>1, <2>5, <3>1
      <4> HIDE DEF e
      <4> QED BY <2>6, <2>7, <3>1, <4>1, <4>2, XorFacts
    <3>2. CASE v # w
      <4>1. one[v][i] = s[v][i]
        BY <1>1, <1>2, <1>4, <3>2 DEF Input
      <4>2. s[v][i] = e
        BY <1>1, <2>1, <2>4, <2>5, <3>2
      <4> QED BY <4>1, <4>2
    <3> QED BY <3>1, <3>2
  <2>9. one[v][i] \in Byte
    BY <1>4 DEF Input, Word
  <2>10. two[v][i] = IF v = r - 1 THEN XorBits(one[v][i], stop[i]) ELSE one[v][i]
    BY <1>1, <1>4, <1>5 DEF Input
  <2>11. stop[i] = IF i = B - 1 THEN {TopBit} ELSE {}
    BY <1>t
  <2>12. v < r => q[p] = e \cup (IF p = end THEN {TopBit} ELSE {})
    <3>1. CASE p <= n
      <4>1. p \in 1..Len(m)
        BY <2>2, <2>4, <3>1
      <4> QED BY <3>1, <4>1 DEF Ends
    <3>2. CASE p > n
      <4>1. v < r => p \in (Len(m) + 1)..end
        BY <2>2, <2>4, <3>2
      <4> QED BY <2>2, <2>4, <3>2, <4>1 DEF Ends
    <3> QED BY <2>4, <3>1, <3>2
  <2>13. ~(v < r) => e = {}
    BY <1>1, <2>1, <2>4
  <2> HIDE DEF e
  <2>14. CASE v = r - 1 /\ i = B - 1
    <3>1. two[v][i] = XorBits(e, {TopBit})
      BY <2>8, <2>10, <2>11, <2>14
    <3>2. p > n /\ v < r /\ p = end
      BY <1>1, <2>1, <2>4, <2>14
    <3>3. e = {} \/ e = {0}
      BY <2>4, <3>2 DEF e
    <3>4. XorBits(e, {TopBit}) = e \cup {TopBit}
      BY <3>3, XorFacts, EndFacts
    <3> QED BY <2>2, <2>12, <3>1, <3>2, <3>4
  <2>15. CASE ~(v = r - 1 /\ i = B - 1)
    <3>1. two[v][i] = e
      BY <2>8, <2>9, <2>10, <2>11, <2>15, XorFacts
    <3>2. p # end
      BY <2>4, <2>15
    <3> QED BY <2>2, <2>12, <2>13, <3>1, <3>2
  <2> QED BY <2>14, <2>15
<1>7. two = InputAt(q, base, r)
  <2>1. two = [v \in 0..(SPONGE_WORDS - 1) |-> [i \in 0..(B - 1) |-> two[v][i]]]
    <3>1. two = [v \in 0..(SPONGE_WORDS - 1) |-> two[v]]
      BY <1>5 DEF Input
    <3>2. \A v \in 0..(SPONGE_WORDS - 1) : two[v] = [i \in 0..(B - 1) |-> two[v][i]]
      BY <1>5 DEF Input, Word
    <3> QED BY <3>1, <3>2
  <2> QED BY <1>6, <2>1 DEF InputAt
<1> QED BY <1>5, <1>7 DEF LastBlock, two, one, s, saved, start, stop

(* What sha3_Finalize adds to the last block is its padding.               *)
LEMMA LastInput ==
  ASSUME KeccakAssumption, NEW c \in Contexts, NEW kind \in KeccakKinds,
         c.capacityWords = 2 * OutWords[kind],
         NEW m \in Seq(Byte), Absorbed(c, m), Position(c) = Len(m)
  PROVE  LET padded == LastBlock(c.s, c.saved, c.wordIndex, c.byteIndex, Rate(c))
             q == KeccakPadded(m, BlockBytes(c))
         IN  /\ padded \in Input
             /\ padded = InputAt(q, BlockStart(c), Rate(c))
             /\ q \in Seq(Byte) /\ Len(q) \div BlockBytes(c) = Len(c.inputs) + 1
             /\ \A j \in 1..Len(m) : q[j] = m[j]
<1> DEFINE w == c.wordIndex
           b == c.byteIndex
           r == Rate(c)
           B == LANEBYTES
           rate == BlockBytes(c)
           k == Len(c.inputs)
           base == BlockStart(c)
           rest == w * B + b
           q == KeccakPadded(m, rate)
           end == (k + 1) * rate
<1>1. /\ B \in Nat /\ B > 0 /\ SPONGE_WORDS \in Nat /\ r \in 1..SPONGE_WORDS
      /\ base \in Nat /\ rate \in Nat /\ w * B \in Nat
  BY RateType
<1>2. /\ w \in 0..(r - 1) /\ b \in 0..(B - 1) /\ k \in Nat /\ Len(m) \in Nat
  BY <1>1 DEF Contexts, Absorbed
<1>3. rate = r * B /\ base = k * rate /\ Len(m) = base + w * B + b
  BY DEF BlockBytes, BlockStart, Position, WordStart
<1>4. c.s = InputAt(m, base, w) /\ c.saved = WordAt(m, base + w * B, b)
  BY DEF Absorbed, WordStart
<1> HIDE DEF w, b, r, k, base, rate
<1>6. rest \in 0..(rate - 1) /\ Len(m) = k * rate + rest
  <2>1. w \in Nat /\ r \in Nat /\ w + 1 <= r /\ b \in Nat
    BY <1>1, <1>2
  <2> DEFINE x == w * B
             y == r * B
  <2>2. x \in Nat /\ y \in Nat /\ x + B <= y
    <3>1. (w + 1) * B <= r * B /\ (w + 1) * B = w * B + B
      BY <1>1, <2>1
    <3> QED BY <1>1, <2>1, <3>1
  <2>3. rest = x + b /\ rate = y /\ Len(m) = base + x + b
    BY <1>3
  <2> HIDE DEF x, y, rest
  <2>4. rest \in 0..(rate - 1) /\ Len(m) = base + rest
    BY <1>1, <1>2, <2>1, <2>2, <2>3
  <2> QED BY <1>3, <2>4
<1>7. end = base + r * B
  BY <1>1, <1>2, <1>3
<1> HIDE DEF rest
<1>8. /\ q \in Seq(Byte) /\ Len(q) \div rate = k + 1
      /\ Ends(q, m, end) /\ \A j \in 1..Len(m) : q[j] = m[j]
  <2>1. q = KeccakPadded(m, rate) /\ end = (k + 1) * rate
    OBVIOUS
  <2> HIDE DEF q, end
  <2>2. LET p == KeccakPadded(m, rate)
            size == (k + 1) * rate
        IN  /\ p \in Seq(Byte) /\ Len(p) = size /\ Len(p) \div rate = k + 1
            /\ Ends(p, m, size) /\ \A j \in 1..Len(m) : p[j] = m[j]
    BY <1>1, <1>2, <1>6, PaddedFacts, Zenon
  <2> QED BY <2>1, <2>2, Zenon
<1> HIDE DEF q, end
<1>9. LET padded == LastBlock(c.s, c.saved, w, b, r)
      IN  padded \in Input /\ padded = InputAt(q, base, r)
  <2>1. end = base + r * LANEBYTES /\ Len(m) = base + w * LANEBYTES + b
    BY <1>3, <1>7
  <2>2. LET padded == LastBlock(InputAt(m, base, w),
                                WordAt(m, base + w * LANEBYTES, b), w, b, r)
        IN  padded \in Input /\ padded = InputAt(q, base, r)
    BY <1>1, <1>2, <1>8, <2>1, PadLast
  <2> QED BY <1>4, <2>2
<1> QED BY <1>8, <1>9 DEF w, b, r, k, base, rate, q, end

-----------------------------------------------------------------------------
(* The invariant. *)

IInv == TypeInv /\ SpongeInv

LEMMA SpongeInit ==
  ASSUME KeccakAssumption, KeccakInit
  PROVE  IInv
<1>1. PICK kind \in KeccakKinds :
        /\ kctx = Fresh(kind) /\ kcall = NoUpdate /\ khash = NoSponge
        /\ kgiven = [kind |-> kind, message |-> <<>>]
  BY DEF KeccakInit
<1>2. kind # "closed"
  BY DEF KeccakAssumption
<1>3. TypeInv
  BY <1>1, FreshFacts DEF TypeInv, CallType, GivenType, NoUpdate, NoSponge
<1>4. SpongeInv
  BY <1>1, <1>2, FreshFacts DEF SpongeInv, NoUpdate
<1> QED BY <1>3, <1>4 DEF IInv

(* A step of a call that keeps the bytes in their places.                  *)
LEMMA StepKeeps ==
  ASSUME IInv, kgiven.kind # "closed", UNCHANGED <<khash, kgiven>>,
         kctx' \in Contexts, Absorbed(kctx', kgiven.message),
         kctx'.capacityWords = kctx.capacityWords,
         kcall'.in = Drop(kgiven.message, Position(kctx')),
         \/ kcall' = NoUpdate
         \/ /\ kcall' = [pc |-> "loop", in |-> kcall'.in] /\ kcall'.in \in Seq(Byte)
            /\ kctx'.byteIndex = 0
  PROVE  IInv'
<1>1. TypeInv'
  <2>1. kcall' \in CallType
    <3>1. CASE kcall' = NoUpdate
      <4>1. NoUpdate \in CallType
        BY DEF CallType, NoUpdate
      <4> QED BY <3>1, <4>1
    <3>2. ASSUME NEW in \in Seq(Byte), kcall' = [pc |-> "loop", in |-> in]
          PROVE  kcall' \in CallType
      BY <3>2 DEF CallType
    <3> QED BY <3>1, <3>2
  <2> QED BY <2>1 DEF IInv, TypeInv
<1>2. SpongeInv'
  BY DEF IInv, SpongeInv, NoUpdate
<1> QED BY <1>1, <1>2 DEF IInv

(* What closing a context leaves: the padded block, permuted.              *)
LEMMA FinalFacts ==
  ASSUME KeccakAssumption, IInv, sha3_Finalize
  PROVE  LET m == kgiven.message
             last == InputAt(KeccakPadded(m, BlockBytes(kctx)), BlockStart(kctx), Rate(kctx))
         IN  /\ kgiven.kind \in KeccakKinds /\ kgiven.kind # "closed"
             /\ kcall = NoUpdate /\ UNCHANGED kcall
             /\ Position(kctx) = Len(m)
             /\ last \in Input
             /\ kctx' \in Contexts /\ kctx'.inputs = Append(kctx.inputs, last)
             /\ khash' = [inputs |-> kctx'.inputs, words |-> OutWords[kgiven.kind]]
             /\ kgiven' = [kind |-> "closed", message |-> <<>>]
<1> DEFINE m == kgiven.message
           last == InputAt(KeccakPadded(m, BlockBytes(kctx)), BlockStart(kctx), Rate(kctx))
           padded == LastBlock(kctx.s, kctx.saved, kctx.wordIndex, kctx.byteIndex, Rate(kctx))
<1>1. /\ kgiven.kind \in KeccakKinds /\ kgiven.kind # "closed" /\ kcall.pc = "idle"
      /\ kctx \in Contexts /\ m \in Seq(Byte)
  BY DEF sha3_Finalize, KeccakAssumption, IInv, TypeInv, GivenType
<1>2. /\ kctx.capacityWords = 2 * OutWords[kgiven.kind] /\ Absorbed(kctx, m)
      /\ kcall = NoUpdate /\ kcall.in = Drop(m, Position(kctx))
  BY <1>1 DEF IInv, SpongeInv
<1>3. Position(kctx) = Len(m)
  <2>1. Position(kctx) \in Nat
    BY <1>1, <1>2, RateType
  <2>2. Position(kctx) \in 0..Len(m)
    BY <1>1, <1>2, <2>1 DEF Absorbed
  <2>3. Len(<<>>) = Len(m) - Position(kctx)
    BY <1>1, <1>2, <2>2, InputFacts DEF NoUpdate
  <2> QED BY <1>1, <2>1, <2>3
<1>4. padded = last /\ padded \in Input
  BY <1>1, <1>2, <1>3, LastInput
<1>5. kctx' = permute([kctx EXCEPT !.s = padded])
  BY DEF sha3_Finalize, LastBlock
<1> HIDE DEF padded, last
<1>6. kctx' \in Contexts /\ kctx'.inputs = Append(kctx.inputs, last)
  <2>1. kctx.inputs \in Seq(Input) /\ Append(kctx.inputs, padded) \in Seq(Input)
    BY <1>1, <1>4 DEF Contexts
  <2>2. kctx' = [kctx EXCEPT !.inputs = Append(kctx.inputs, padded), !.s = NoInput]
    BY <1>1, <1>5 DEF permute, Contexts
  <2> QED BY <1>1, <1>4, <2>1, <2>2, EmptyTypes DEF Contexts
<1>7. /\ khash' = [inputs |-> kctx'.inputs, words |-> OutWords[kgiven.kind]]
      /\ kgiven' = [kind |-> "closed", message |-> <<>>]
      /\ UNCHANGED kcall
  BY DEF sha3_Finalize
<1> QED BY <1>1, <1>2, <1>3, <1>4, <1>6, <1>7 DEF last

(* Every step of every call keeps the bytes of the message in their places.*)
LEMMA SpongeStep ==
  ASSUME KeccakAssumption, IInv, [KeccakNext]_kvars
  PROVE  IInv'
<1> DEFINE c == kctx
           m == kgiven.message
           in == kcall.in
<1>0. /\ kctx \in Contexts /\ kcall \in CallType /\ kgiven \in GivenType
      /\ m \in Seq(Byte) /\ in \in Seq(Byte)
  BY DEF IInv, TypeInv, CallType, GivenType
<1>a. ASSUME kgiven.kind # "closed"
      PROVE  /\ kgiven.kind \in KeccakKinds /\ c.capacityWords = 2 * OutWords[kgiven.kind]
             /\ Absorbed(c, m) /\ in = Drop(m, Position(c))
             /\ Position(c) \in 0..Len(m)
             /\ LANEBYTES \in Nat /\ LANEBYTES > 0
             /\ c.byteIndex \in 0..(LANEBYTES - 1)
             /\ Len(in) \in Nat /\ Len(in) = Len(m) - Position(c)
             /\ \A j \in 1..Len(in) : in[j] = m[Position(c) + j]
             /\ OldTail = IF c.byteIndex = 0 THEN 0 ELSE LANEBYTES - c.byteIndex
  <2>1. kgiven.kind \in KeccakKinds /\ c.capacityWords = 2 * OutWords[kgiven.kind]
        /\ Absorbed(c, m) /\ in = Drop(m, Position(c))
    BY <1>0, <1>a DEF IInv, SpongeInv, GivenType
  <2>2. Position(c) \in Nat /\ LANEBYTES \in Nat /\ LANEBYTES > 0
    BY <1>0, <2>1, RateType
  <2>3. Position(c) \in 0..Len(m) /\ c.byteIndex \in 0..(LANEBYTES - 1)
    BY <1>0, <2>1, <2>2 DEF Absorbed, Contexts
  <2>4. /\ Len(in) = Len(m) - Position(c)
        /\ \A j \in 1..Len(in) : in[j] = m[Position(c) + j]
    BY <1>0, <2>1, <2>3, InputFacts
  <2> QED BY <1>0, <2>1, <2>2, <2>3, <2>4, OldTailIs
<1>b. kcall.pc # "idle" => kgiven.kind # "closed"
  BY DEF IInv, SpongeInv, NoUpdate
<1>1. ASSUME NEW kind \in KeccakKinds, sha3_init_ml(kind) PROVE IInv'
  <2>1. /\ kctx' = Fresh(kind) /\ kcall' = kcall /\ khash' = NoSponge
        /\ kgiven' = [kind |-> kind, message |-> <<>>] /\ kcall.pc = "idle"
    BY <1>1 DEF sha3_init_ml
  <2>2. kcall = NoUpdate
    BY <2>1 DEF IInv, SpongeInv
  <2>3. kind # "closed"
    BY DEF KeccakAssumption
  <2>4. TypeInv'
    BY <2>1, <2>2, FreshFacts DEF TypeInv, CallType, GivenType, NoUpdate, NoSponge
  <2>5. SpongeInv'
    BY <2>1, <2>2, <2>3, FreshFacts DEF SpongeInv, NoUpdate
  <2> QED BY <2>4, <2>5 DEF IInv
<1>2. ASSUME NEW l \in KeccakLengths, sha3_Update(KeccakText(Len(m), l)) PROVE IInv'
  <2> DEFINE bytes == KeccakText(Len(m), l)
  <2>1. bytes \in Seq(Byte)
    <3>1. Len(m) \in Nat /\ l \in Nat
      BY <1>0 DEF KeccakAssumption
    <3> QED BY <3>1, TextType
  <2> HIDE DEF bytes
  <2>2. /\ kcall.pc = "idle" /\ kgiven.kind \in KeccakKinds /\ UNCHANGED <<kctx, khash>>
        /\ kcall' = [pc |-> "update", in |-> bytes]
        /\ kgiven' = [kgiven EXCEPT !.message = m \o bytes]
    BY <1>2 DEF sha3_Update, bytes
  <2>3. kgiven.kind # "closed"
    BY <2>2 DEF KeccakAssumption
  <2>4. /\ kgiven'.kind = kgiven.kind /\ kgiven'.message = m \o bytes
        /\ m \o bytes \in Seq(Byte) /\ kgiven' \in GivenType
    <3> DEFINE all == m \o bytes
    <3>1. all \in Seq(Byte)
      BY <1>0, <2>1, Concatenation
    <3>2. kgiven' = [kgiven EXCEPT !.message = all]
      BY <2>2
    <3> HIDE DEF all
    <3>3. kgiven'.kind = kgiven.kind /\ kgiven'.message = all /\ kgiven' \in GivenType
      BY <1>0, <3>1, <3>2 DEF GivenType
    <3> QED BY <3>1, <3>3 DEF all
  <2>5. Absorbed(c, m \o bytes)
    BY <1>0, <1>a, <2>1, <2>3, MoreBytes
  <2>6. Position(c) = Len(m)
    <3>1. in = <<>>
      BY <2>2, <2>3 DEF IInv, SpongeInv, NoUpdate
    <3> QED BY <1>0, <1>a, <2>3, <3>1
  <2>7. bytes = Drop(m \o bytes, Position(c))
    BY <1>0, <2>1, <2>6, DropOfCat
  <2>8. TypeInv'
    BY <2>1, <2>2, <2>4 DEF IInv, TypeInv, CallType
  <2>9. SpongeInv'
    BY <2>2, <2>3, <2>4, <2>5, <2>7 DEF IInv, SpongeInv
  <2> QED BY <2>8, <2>9 DEF IInv
<1>3. CASE StoreShort \/ SaveTail
  <2>1. /\ kcall.pc # "idle" /\ UNCHANGED <<khash, kgiven>>
        /\ kctx' = Save(c, in) /\ kcall' = NoUpdate
    BY <1>3 DEF StoreShort, SaveTail
  <2>2. kgiven.kind # "closed"
    BY <1>b, <2>1
  <2>3. c.byteIndex + Len(in) < LANEBYTES
    <3>1. CASE StoreShort
      BY <1>a, <2>2, <3>1 DEF StoreShort
    <3>2. CASE SaveTail
      <4>1. c.byteIndex = 0
        <5>1. CASE kcall.pc = "loop"
          BY <2>2, <5>1 DEF IInv, SpongeInv
        <5>2. CASE OldTail = 0
          BY <1>a, <2>2, <5>2
        <5> QED BY <3>2, <5>1, <5>2 DEF SaveTail
      <4> QED BY <1>a, <2>2, <3>2, <4>1 DEF SaveTail
    <3> QED BY <1>3, <3>1, <3>2
  <2> DEFINE d == Save(c, in)
  <2>4. /\ d \in Contexts /\ Absorbed(d, m) /\ Position(d) = Position(c) + Len(in)
        /\ d.capacityWords = c.capacityWords
    <3>1. Position(c) + Len(in) <= Len(m)
      BY <1>0, <1>a, <2>2
    <3> QED BY <1>0, <1>a, <2>2, <2>3, <3>1, SaveKeeps
  <2> HIDE DEF d
  <2>5. Position(d) = Len(m)
    BY <1>0, <1>a, <2>2, <2>4
  <2>6. <<>> = Drop(m, Len(m))
    BY <1>0, DropAll
  <2>7. kcall'.in = Drop(kgiven.message, Position(kctx'))
    BY <2>1, <2>5, <2>6 DEF NoUpdate, d
  <2> QED BY <2>1, <2>2, <2>4, <2>7, StepKeeps DEF d
<1>4. ASSUME NEW d \in Contexts, Absorbed(d, m), d.byteIndex = 0,
             d.capacityWords = c.capacityWords, kgiven.kind # "closed",
             NEW k \in 0..Len(in), Position(d) + LANEBYTES = Position(c) + k,
             kctx' = Absorb(d, WordAt(m, WordStart(d), LANEBYTES)),
             kcall' = [pc |-> "loop", in |-> Drop(in, k)],
             UNCHANGED <<khash, kgiven>>
      PROVE  IInv'
  <2> DEFINE e == Absorb(d, WordAt(m, WordStart(d), LANEBYTES))
  <2>1. Position(d) + LANEBYTES <= Len(m)
    BY <1>0, <1>4, <1>a
  <2>2. /\ e \in Contexts /\ Absorbed(e, m) /\ Position(e) = Position(d) + LANEBYTES
        /\ e.byteIndex = 0 /\ e.capacityWords = d.capacityWords
    BY <1>0, <1>4, <1>a, <2>1, AbsorbFacts
  <2> HIDE DEF e
  <2>3. Position(e) = Position(c) + k
    BY <1>4, <2>2
  <2>4. k \in 0..(Len(m) - Position(c)) /\ k \in 0..Len(in)
    BY <1>4, <1>a
  <2>5. Drop(in, k) = Drop(m, Position(c) + k) /\ Drop(in, k) \in Seq(Byte)
    <3>1. Drop(in, k) \in Seq(Byte)
      BY <1>0, <2>4, TakeDrop
    <3>2. Drop(Drop(m, Position(c)), k) = Drop(m, Position(c) + k)
      BY <1>0, <1>4, <1>a, <2>4, DropDrop
    <3> QED BY <1>4, <1>a, <3>1, <3>2
  <2>6. kctx' = e
    BY <1>4 DEF e
  <2> QED BY <1>4, <2>2, <2>3, <2>5, <2>6, StepKeeps
<1>5. CASE CompleteWord
  <2> DEFINE k == OldTail
             bytes == Take(in, k)
             complete == Save(c, bytes)
             d == [complete EXCEPT !.byteIndex = 0, !.saved = NoWord]
  <2>1. /\ kcall.pc # "idle" /\ UNCHANGED <<khash, kgiven>>
        /\ k # 0 /\ Len(in) >= k
        /\ kctx' = Absorb(d, complete.saved)
        /\ kcall' = [pc |-> "loop", in |-> Drop(in, k)]
    BY <1>5 DEF CompleteWord
  <2>2. kgiven.kind # "closed"
    BY <1>b, <2>1
  <2>3. k \in 0..Len(in) /\ c.byteIndex + k = LANEBYTES
    BY <1>a, <2>1, <2>2
  <2> HIDE DEF k
  <2>4. /\ bytes \in Seq(Byte) /\ Len(bytes) = k
        /\ \A j \in 1..Len(bytes) : bytes[j] = m[Position(c) + j]
    <3>1. /\ bytes \in Seq(Byte) /\ Len(bytes) = k
          /\ \A j \in 1..k : bytes[j] = in[j]
      BY <1>0, <2>3, TakeDrop
    <3> QED BY <1>a, <2>2, <2>3, <3>1
  <2> HIDE DEF bytes
  <2>5. /\ complete.saved = WordAt(m, WordStart(d), LANEBYTES)
        /\ d \in Contexts /\ Absorbed(d, m)
        /\ Position(d) + LANEBYTES = Position(c) + k
        /\ d.byteIndex = 0
        /\ d.capacityWords = c.capacityWords
    <3>1. Position(c) + Len(bytes) <= Len(m) /\ c.byteIndex + Len(bytes) = LANEBYTES
      BY <1>0, <1>a, <2>2, <2>3, <2>4
    <3> QED BY <1>0, <1>a, <2>2, <2>4, <3>1, CompleteFacts
  <2> HIDE DEF d, complete
  <2> QED BY <1>4, <2>1, <2>2, <2>3, <2>5
<1>6. CASE AbsorbWord
  <2> DEFINE word == [i \in 0..(LANEBYTES - 1) |-> in[i + 1]]
  <2>1. /\ kcall.pc # "idle" /\ UNCHANGED <<khash, kgiven>>
        /\ kcall.pc = "loop" \/ OldTail = 0
        /\ Len(in) >= LANEBYTES
        /\ kctx' = Absorb(c, word)
        /\ kcall' = [pc |-> "loop", in |-> Drop(in, LANEBYTES)]
    BY <1>6 DEF AbsorbWord
  <2>2. kgiven.kind # "closed"
    BY <1>b, <2>1
  <2>3. c.byteIndex = 0
    <3>1. CASE kcall.pc = "loop"
      BY <2>2, <3>1 DEF IInv, SpongeInv
    <3>2. CASE OldTail = 0
      BY <1>a, <2>2, <3>2
    <3> QED BY <2>1, <3>1, <3>2
  <2>4. WordStart(c) \in Nat /\ Position(c) = WordStart(c)
    <3>1. WordStart(c) \in Nat
      BY <1>0, <1>a, <2>2, RateType
    <3> QED BY <2>3, <3>1 DEF Position
  <2>5. word = WordAt(m, WordStart(c), LANEBYTES)
    <3>1. ASSUME NEW i \in 0..(LANEBYTES - 1)
          PROVE  in[i + 1] = IF i < LANEBYTES THEN m[WordStart(c) + i + 1] ELSE {}
      <4>1. /\ i + 1 \in 1..Len(in) /\ i < LANEBYTES
            /\ Position(c) + (i + 1) = WordStart(c) + i + 1
        BY <1>a, <2>1, <2>2, <2>4
      <4> QED BY <1>a, <2>2, <4>1
    <3> QED BY <3>1 DEF WordAt
  <2>6. LANEBYTES \in 0..Len(in)
    BY <1>a, <2>1, <2>2
  <2> HIDE DEF word
  <2> QED BY <1>0, <1>4, <1>a, <2>1, <2>2, <2>3, <2>5, <2>6
<1>7. CASE sha3_Finalize
  <2>1. /\ kgiven.kind \in KeccakKinds /\ kcall = NoUpdate /\ kcall' = NoUpdate /\ kctx' \in Contexts
        /\ khash' = [inputs |-> kctx'.inputs, words |-> OutWords[kgiven.kind]]
        /\ kgiven' = [kind |-> "closed", message |-> <<>>]
    BY <1>7, FinalFacts DEF NoUpdate
  <2>2. OutWords[kgiven.kind] \in Nat
    BY <2>1 DEF KeccakAssumption
  <2>3. TypeInv'
    BY <1>0, <2>1, <2>2 DEF TypeInv, GivenType, Contexts
  <2>4. SpongeInv'
    BY <2>1 DEF SpongeInv
  <2> QED BY <2>3, <2>4 DEF IInv
<1>8. CASE UNCHANGED kvars
  BY <1>8 DEF kvars, IInv, TypeInv, SpongeInv
<1> QED BY <1>1, <1>2, <1>3, <1>5, <1>6, <1>7, <1>8 DEF KeccakNext

(* Closing a context writes the digest of the message.                     *)
LEMMA DigestIsReference ==
  ASSUME KeccakAssumption, IInv, sha3_Finalize
  PROVE  kgiven.kind # "closed" /\ khash' = KeccakReference(kgiven.kind, kgiven.message)
<1> DEFINE m == kgiven.message
           kind == kgiven.kind
           rate == BlockBytes(kctx)
           words == Rate(kctx)
           inputs == kctx.inputs
           n == Len(inputs)
           q == KeccakPadded(m, rate)
           last == InputAt(q, BlockStart(kctx), words)
           ref == [k \in 1..(n + 1) |-> InputAt(q, (k - 1) * rate, words)]
<1>1. /\ kind \in KeccakKinds /\ kind # "closed"
      /\ Position(kctx) = Len(m) /\ last \in Input
      /\ khash' = [inputs |-> Append(inputs, last), words |-> OutWords[kind]]
  BY FinalFacts
<1>2. /\ kctx \in Contexts /\ m \in Seq(Byte) /\ Absorbed(kctx, m)
      /\ kctx.capacityWords = 2 * OutWords[kind]
  BY <1>1 DEF IInv, TypeInv, GivenType, SpongeInv
<1>3. /\ LANEBYTES \in Nat /\ SPONGE_WORDS \in Nat /\ words \in Nat
      /\ words = SPONGE_WORDS - 2 * OutWords[kind] /\ rate \in Nat
      /\ rate = words * LANEBYTES /\ BlockStart(kctx) = n * rate
      /\ WordStart(kctx) \in Nat /\ kctx.wordIndex * LANEBYTES \in Nat
  BY <1>1, <1>2, RateType DEF BlockBytes, BlockStart
<1>4. inputs \in Seq(Input) /\ n \in Nat /\ kctx.byteIndex \in Nat
  BY <1>2 DEF Contexts
<1>5. q \in Seq(Byte) /\ Len(q) \div rate = n + 1 /\ \A j \in 1..Len(m) : q[j] = m[j]
  BY <1>1, <1>2, LastInput
<1>6. KeccakReference(kind, m) = [words |-> OutWords[kind], inputs |-> ref]
  BY <1>3, <1>5 DEF KeccakReference, InputAt
<1>7. n * rate <= Len(m)
  BY <1>1, <1>3, <1>4 DEF Position, WordStart
<1> HIDE DEF m, kind, rate, words, n, q, last
<1>8. ASSUME NEW k \in 1..n PROVE inputs[k] = InputAt(q, (k - 1) * rate, words)
  <2>1. inputs[k] = InputAt(m, (k - 1) * rate, words)
    BY <1>2 DEF Absorbed, n, rate, words
  <2>2. /\ (k - 1) * rate \in Nat
        /\ (k - 1) * rate + words * LANEBYTES <= Len(m)
    <3> DEFINE x == (k - 1) * rate
               y == n * rate
    <3>1. x \in Nat /\ y \in Nat /\ x + rate <= y
      BY <1>3, <1>4, Rows
    <3>2. y <= Len(m) /\ Len(m) \in Nat
      BY <1>2, <1>7
    <3> HIDE DEF x, y
    <3>3. x + rate <= Len(m)
      BY <1>3, <3>1, <3>2
    <3> QED BY <1>3, <3>1, <3>3 DEF x
  <2>3. InputAt(q, (k - 1) * rate, words) = InputAt(m, (k - 1) * rate, words)
    <3> DEFINE x == (k - 1) * rate
    <3>1. x \in Nat /\ x + words * LANEBYTES <= Len(m)
      BY <2>2
    <3> HIDE DEF x
    <3>2. InputAt(q, x, words) = InputAt(m, x, words)
      BY <1>2, <1>3, <1>5, <3>1, SameInput
    <3> QED BY <3>2 DEF x
  <2> QED BY <2>1, <2>3
<1>9. Append(inputs, last) = ref
  <2>1. /\ Append(inputs, last) \in Seq(Input) /\ Len(Append(inputs, last)) = n + 1
        /\ \A k \in 1..n : Append(inputs, last)[k] = inputs[k]
        /\ Append(inputs, last)[n + 1] = last
    BY <1>1, <1>4 DEF n
  <2> DEFINE all == Append(inputs, last)
  <2>2. all = [k \in 1..(n + 1) |-> all[k]]
    <3> HIDE DEF all
    <3>1. \A s \in Seq(Input) : Len(s) = n + 1 => s = [k \in 1..(n + 1) |-> s[k]]
      BY <1>4
    <3> QED BY <2>1, <3>1 DEF all
  <2>3. ASSUME NEW k \in 1..(n + 1)
        PROVE  all[k] = InputAt(q, (k - 1) * rate, words)
    <3>1. CASE k \in 1..n
      BY <1>8, <2>1, <3>1
    <3>2. CASE k = n + 1
      <4>1. k - 1 = n
        BY <1>4, <3>2
      <4>2. all[k] = InputAt(q, n * rate, words)
        BY <1>3, <2>1, <3>2 DEF last
      <4> QED BY <4>1, <4>2
    <3>3. k \in 1..n \/ k = n + 1
      BY <1>4
    <3> QED BY <3>1, <3>2, <3>3
  <2> HIDE DEF all
  <2> QED BY <2>2, <2>3 DEF all
<1> HIDE DEF ref
<1>10. khash' = KeccakReference(kind, m)
  BY <1>1, <1>6, <1>9
<1> QED BY <1>1, <1>10 DEF kind, m

-----------------------------------------------------------------------------
(* The theorems. *)

(* The fields of a context, the call that runs on it and the digest always *)
(* have their types: no word is added outside the sponge.                  *)
THEOREM TypeCorrect == ASSUME KeccakAssumption PROVE KeccakSpec => []TypeInv
<1>1. KeccakInit => IInv
  BY SpongeInit
<1>2. IInv /\ [KeccakNext]_kvars => IInv'
  BY SpongeStep
<1>3. IInv => TypeInv
  BY DEF IInv
<1> QED BY <1>1, <1>2, <1>3, PTL DEF KeccakSpec

(* Whatever the strings a message comes in, the full words are in the      *)
(* sponge at the places of the message, each once, and the others are in   *)
(* the word that was begun or still in the string of the running call.     *)
THEOREM SpongeKeepsAll == ASSUME KeccakAssumption PROVE KeccakSpec => []SpongeInv
<1>1. KeccakInit => IInv
  BY SpongeInit
<1>2. IInv /\ [KeccakNext]_kvars => IInv'
  BY SpongeStep
<1>3. IInv => SpongeInv
  BY DEF IInv
<1> QED BY <1>1, <1>2, <1>3, PTL DEF KeccakSpec

(* A context begins opened. *)
LEMMA PromiseInit == KeccakInit => KeccakPromise!Init
BY DEF KeccakInit, KeccakPromise!Init

(* Every step of the code opens, feeds or closes, or leaves both be.       *)
LEMMA PromiseStep ==
  ASSUME KeccakAssumption, IInv, [KeccakNext]_kvars
  PROVE  [KeccakPromise!Next]_(KeccakPromise!vars)
<1>a. ASSUME kgiven' = kgiven, khash' = khash PROVE [KeccakPromise!Next]_(KeccakPromise!vars)
  BY <1>a DEF KeccakPromise!vars
<1>1. ASSUME NEW kind \in KeccakKinds, sha3_init_ml(kind) PROVE [KeccakPromise!Next]_(KeccakPromise!vars)
  BY <1>1 DEF sha3_init_ml, KeccakPromise!Next, KeccakPromise!Open
<1>2. ASSUME NEW l \in KeccakLengths, sha3_Update(KeccakText(Len(kgiven.message), l))
      PROVE  [KeccakPromise!Next]_(KeccakPromise!vars)
  <2> DEFINE m == kgiven.message
             bytes == KeccakText(Len(m), l)
             all == m \o bytes
  <2>1. m \in Seq(Byte) /\ kgiven \in GivenType
    BY DEF IInv, TypeInv, GivenType
  <2>2. bytes \in Seq(Byte)
    <3>1. Len(m) \in Nat /\ l \in Nat
      BY <2>1 DEF KeccakAssumption
    <3> QED BY <3>1, TextType
  <2>3. kgiven.kind # "closed" /\ khash' = khash /\ kgiven' = [kgiven EXCEPT !.message = all]
    BY <1>2 DEF sha3_Update, KeccakAssumption
  <2> HIDE DEF bytes
  <2>4. Len(all) >= Len(m) /\ SubSeq(all, 1, Len(m)) = m
    BY <2>1, <2>2, PrefixOfCat
  <2> HIDE DEF all
  <2>5. kgiven'.kind = kgiven.kind /\ kgiven'.message = all
    BY <2>1, <2>3 DEF GivenType
  <2>6. KeccakPromise!Feed
    BY <2>3, <2>4, <2>5 DEF KeccakPromise!Feed
  <2> QED BY <2>6 DEF KeccakPromise!Next
<1>3. CASE StoreShort \/ CompleteWord \/ AbsorbWord \/ SaveTail
  BY <1>3, <1>a DEF StoreShort, CompleteWord, AbsorbWord, SaveTail
<1>4. CASE sha3_Finalize
  <2>1. kgiven.kind # "closed" /\ khash' = KeccakReference(kgiven.kind, kgiven.message)
    BY <1>4, DigestIsReference
  <2>2. kgiven' = [kind |-> "closed", message |-> <<>>]
    BY <1>4 DEF sha3_Finalize
  <2> QED BY <2>1, <2>2 DEF KeccakPromise!Next, KeccakPromise!Close
<1>5. CASE UNCHANGED kvars
  BY <1>5, <1>a DEF kvars
<1> QED BY <1>1, <1>2, <1>3, <1>4, <1>5 DEF KeccakNext

(* A digest is Keccak's of the concatenation of what its context was fed,  *)
(* whatever the calls were: sha3-ref.c keeps the promise of the other two. *)
THEOREM KeccakIsHash == ASSUME KeccakAssumption PROVE KeccakSpec => Sha3IsHash
<1>1. KeccakInit => IInv
  BY SpongeInit
<1>2. IInv /\ [KeccakNext]_kvars => IInv'
  BY SpongeStep
<1>3. IInv /\ [KeccakNext]_kvars => [KeccakPromise!Next]_(KeccakPromise!vars)
  BY PromiseStep
<1> QED BY <1>1, <1>2, <1>3, PromiseInit, PTL DEF KeccakSpec, Sha3IsHash, KeccakPromise!Spec
==============================================================================
