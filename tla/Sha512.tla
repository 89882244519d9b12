------------------------------- MODULE Sha512 -------------------------------
(***************************************************************************)
(* crypto_hash of tweetnacl.c, with crypto_hashblocks uninterpreted: the   *)
(* padding is built in two blocks of its own.                              *)
(***************************************************************************)
EXTENDS Buffers, Calls

CONSTANTS
  HASHBLOCK,          \* the bytes of a block, 128 in the code
  HASHBYTE,           \* the number of values of a byte, 256
  COUNTBYTES,         \* the bytes of the length of a message, 8
  hashiv,             \* iv, the initial state
  Hashblocks(_, _),   \* crypto_hashblocks: the whole blocks of a string
  HashedMessages      \* the messages crypto_hash is called with

HashPower == PowersOf(HASHBYTE)
Number64(n) ==
  Array(COUNTBYTES,
        LAMBDA j : (n \div HashPower[COUNTBYTES - j]) % HASHBYTE)

(* Mutant of PaddedSize: no room is asked for the bit that ends the message. *)
PaddedSizeTight(n) ==
  IF n <= HASHBLOCK - 2 * COUNTBYTES THEN HASHBLOCK ELSE 2 * HASHBLOCK

(* 256 - 128 * (n < 112): one block or two. *)
PaddedSize(n) ==
  IF n < HASHBLOCK - 2 * COUNTBYTES THEN HASHBLOCK ELSE 2 * HASHBLOCK

crypto_hash(m) ==
  LET b == Len(m)
      rest == Drop(m, b - (b % HASHBLOCK))
      size == PaddedSize(Len(rest))
      \* b >> 61 and b << 3
      top == (b \div (HashPower[COUNTBYTES] \div 8)) % HASHBYTE
      low == (8 * b) % HashPower[COUNTBYTES]
      x == Overwrite(Overwrite(Repeat(0, size), 0, rest \o <<128>>),
                     size - COUNTBYTES - 1, <<top>> \o Number64(low))
  IN  Hashblocks(Hashblocks(hashiv, m), x)

(* The standard: the message, a one bit, zeros and the length in bits. *)
Padded(message) ==
  LET n == Len(message)
      zeros == CHOOSE z \in 0..(HASHBLOCK - 1) :
                 (n + 1 + z + 2 * COUNTBYTES) % HASHBLOCK = 0
  IN  message \o <<128>> \o Repeat(0, zeros)
        \o Number64((8 * n) \div HashPower[COUNTBYTES]) \o Number64(8 * n)

(* What the proofs rest on: a byte has room for the three bits that the    *)
(* length in bits has more than the length in bytes, and a block for both  *)
(* words of the length.                                                    *)
Sha512Assumption ==
  /\ HASHBYTE \in Nat /\ HASHBYTE > 8 /\ HASHBYTE % 8 = 0
  /\ COUNTBYTES \in Nat /\ COUNTBYTES > 0
  /\ HASHBLOCK \in Nat /\ 2 * COUNTBYTES < HASHBLOCK

(* crypto_hashblocks reads whole blocks, one after the other, and leaves   *)
(* the rest of its string.                                                 *)
HashesInOrder(m) ==
  \A x \in Seq(Nat) :
    Hashblocks(Hashblocks(hashiv, m), x)
      = Hashblocks(hashiv, Take(m, Len(m) - (Len(m) % HASHBLOCK)) \o x)

(* The messages are shorter than the word of a length can tell. *)
MessagesAssumption ==
  \A m \in HashedMessages : m \in Seq(Nat) /\ Len(m) < HashPower[COUNTBYTES]

-----------------------------------------------------------------------------
(* The calls. *)

Sha512Init == CallOneOf({[of |-> "hash", m |-> m] : m \in HashedMessages})
Sha512Next == Call("hash", crypto_hash(test.m))
Sha512Spec == Sha512Init /\ [][Sha512Next]_nvars

(* crypto_hash hashes the padded message of the standard, the length going *)
(* to a block of its own when there is no room behind the message.         *)
HashIsPadded ==
  Returned("hash") => result.is = Hashblocks(hashiv, Padded(test.m))
=============================================================================
