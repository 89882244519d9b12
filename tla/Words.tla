-------------------------------- MODULE Words --------------------------------
(***************************************************************************)
(* Machine words of the C libraries.  A word is the set of the positions   *)
(* of its bits that are set, counted from the lowest: exclusive or is the  *)
(* symmetric difference, a rotation moves the members, and the words of 64 *)
(* bits that TLC's integers cannot hold are like any other.                *)
(***************************************************************************)
EXTENDS Buffers

Xor(x, y) == (x \ y) \cup (y \ x)
XorAll(x, y, z) == Xor(Xor(x, y), z)

Shr(x, n) == {i - n : i \in {i \in x : i >= n}}
Shl(x, n, width) == {i + n : i \in {i \in x : i + n < width}}
RotateLeft(x, n, width) == {(i + n) % width : i \in x}
RotateRight(x, n, width) == {(i + width - n) % width : i \in x}

(* The numbers that become words have this many bits. *)
WIDTH == 16

Bits(n) ==
  LET half[i \in 0..WIDTH] == IF i = 0 THEN n ELSE half[i - 1] \div 2
  IN  {i \in 0..(WIDTH - 1) : half[i] % 2 = 1}

(* The number whose bits are given. *)
Number(bits) ==
  LET above[i \in 0..WIDTH] ==
        IF i = 0 THEN 0
        ELSE 2 * above[i - 1] + (IF WIDTH - i \in bits THEN 1 ELSE 0)
  IN  above[WIDTH]

(* Of numbers that are the 16-bit halves or quarters of a constant, the    *)
(* highest first.                                                          *)
Word(quarters) ==
  UNION {{i + 16 * (Len(quarters) - q) : i \in Bits(quarters[q])} :
           q \in DOMAIN quarters}

(* Bytes, low to high. *)
ByteOf(x, i) == {b - 8 * i : b \in {b \in x : 8 * i <= b /\ b < 8 * i + 8}}

LoadLittle(bytes) ==
  UNION {{b + 8 * (j - 1) : b \in Bits(bytes[j])} : j \in DOMAIN bytes}
LoadBig(bytes) ==
  UNION {{b + 8 * (Len(bytes) - j) : b \in Bits(bytes[j])} : j \in DOMAIN bytes}
StoreLittle(x, n) == Array(n, LAMBDA j : Number(ByteOf(x, j - 1)))
StoreBig(x, n) == Array(n, LAMBDA j : Number(ByteOf(x, n - j)))

(* The bytes of a sequence of words. *)
StoreWords(words, size, Store(_, _)) ==
  LET stored == [i \in DOMAIN words |-> Store(words[i], size)]
  IN  [b \in 1..(size * Len(words)) |->
         stored[((b - 1) \div size) + 1][((b - 1) % size) + 1]]
==============================================================================
