-------------------------------- MODULE Sha3 --------------------------------
(***************************************************************************)
(* Keccak as sha3-ref.c (SHA3_USE_KECCAK is defined there), sha3-stubs.c   *)
(* and nocrypto_bak.ml run it.  A byte is the set of the numbers of its    *)
(* bits that are set, so that exclusive or is the symmetric difference.    *)
(* The permutation keccakf is kept uninterpreted: the sponge is the        *)
(* sequence of the inputs added between its calls, and what was added to   *)
(* it since the last one.  sha3_Update is one action per word.             *)
(***************************************************************************)
EXTENDS Buffers

CONSTANTS
  LANEBYTES,      \* the bytes of a word: 8
  SPONGE_WORDS,   \* the words of the sponge: 25
  OutWords,       \* the words of a digest, by kind: 4, 6, 8, of which the
                  \* sponge has more than two digests
  TopBit,         \* the highest bit of a byte: 7
  KeccakLengths,  \* the lengths of the strings a caller feeds
  KeccakByteAt(_), \* the byte at a place of a message
  KeccakMaxFed,   \* bound: the bytes a context is fed
  MaxInputs       \* bound: no context is opened after more permutations

KeccakKinds == DOMAIN OutWords

(* What the proofs rest on: a sponge wider than every capacity, and a bit  *)
(* that ends the padding which is not the one that starts it.              *)
KeccakAssumption ==
  /\ LANEBYTES \in Nat \ {0}
  /\ SPONGE_WORDS \in Nat
  /\ \A kind \in KeccakKinds : /\ OutWords[kind] \in Nat
                               /\ 2 * OutWords[kind] < SPONGE_WORDS
  /\ "closed" \notin KeccakKinds
  /\ TopBit # 0
  /\ KeccakLengths \subseteq Nat

VARIABLES
  kctx,     \* the sha3_context
  kcall,    \* the call of sha3_Update running on it, and its input
  khash,    \* the output string
  kgiven    \* history: what the context was opened for and fed

kvars == <<kctx, kcall, khash, kgiven>>

KeccakText(n, l) == [j \in 1..l |-> KeccakByteAt(n + j)]

NoSponge == [inputs |-> <<>>, words |-> 0]
NoUpdate == [pc |-> "idle", in |-> <<>>]

XorBits(a, b) == (a \ b) \cup (b \ a)

NoWord == [i \in 0..(LANEBYTES - 1) |-> {}]
NoInput == [w \in 0..(SPONGE_WORDS - 1) |-> NoWord]

(* Mutant of Save: the bytes are not shifted behind those that are there.  *)
SaveFirst(c, bytes) ==
  [c EXCEPT
     !.saved = [i \in DOMAIN @ |->
                  IF i < Len(bytes) THEN @[i] \cup bytes[i + 1] ELSE @[i]],
     !.byteIndex = @ + Len(bytes)]

(* saved |= byte << (byteIndex++ * 8), for some bytes. *)
Save(c, bytes) ==
  [c EXCEPT
     !.saved = [i \in DOMAIN @ |->
                  IF c.byteIndex <= i /\ i < c.byteIndex + Len(bytes)
                  THEN @[i] \cup bytes[i - c.byteIndex + 1] ELSE @[i]],
     !.byteIndex = @ + Len(bytes)]

XorWord(input, w, word) ==
  [input EXCEPT ![w] = [i \in DOMAIN @ |-> XorBits(@[i], word[i])]]

Rate(c) == SPONGE_WORDS - c.capacityWords

permute(c) == [c EXCEPT !.inputs = Append(@, c.s), !.s = NoInput]

(* Mutant of Absorb: the words that are filled reach into the capacity.    *)
AbsorbLate(c, word) ==
  LET added == [c EXCEPT !.s = XorWord(@, c.wordIndex, word)]
  IN  IF c.wordIndex = Rate(c)
      THEN [permute(added) EXCEPT !.wordIndex = 0]
      ELSE [added EXCEPT !.wordIndex = @ + 1]

(* A word is added to the sponge, which is permuted when the rate is full. *)
Absorb(c, word) ==
  LET added == [c EXCEPT !.s = XorWord(@, c.wordIndex, word)]
  IN  IF c.wordIndex + 1 = Rate(c)
      THEN [permute(added) EXCEPT !.wordIndex = 0]
      ELSE [added EXCEPT !.wordIndex = @ + 1]

(* sha3_Init256, sha3_Init384 and sha3_Init512. *)
Fresh(kind) ==
  [saved |-> NoWord, s |-> NoInput, inputs |-> <<>>, byteIndex |-> 0,
   wordIndex |-> 0, capacityWords |-> 2 * OutWords[kind]]

(* The bytes that are missing in the word that was begun. *)
OldTail == (LANEBYTES - kctx.byteIndex) % LANEBYTES

-----------------------------------------------------------------------------
(* sha3_init of nocrypto_bak.ml, on sha3_init_ml. *)
sha3_init_ml(kind) ==
  /\ kcall.pc = "idle"
  /\ Len(kctx.inputs) <= MaxInputs
  /\ kctx' = Fresh(kind)
  /\ khash' = NoSponge
  /\ kgiven' = [kind |-> kind, message |-> <<>>]
  /\ UNCHANGED kcall

sha3_Update(bytes) ==
  /\ kcall.pc = "idle"
  /\ kgiven.kind \in KeccakKinds
  /\ kcall' = [pc |-> "update", in |-> bytes]
  /\ kgiven' = [kgiven EXCEPT !.message = @ \o bytes]
  /\ UNCHANGED <<kctx, khash>>

(* len < old_tail: the word is still not complete. *)
StoreShort ==
  /\ kcall.pc = "update"
  /\ Len(kcall.in) < OldTail
  /\ kctx' = Save(kctx, kcall.in)
  /\ kcall' = NoUpdate
  /\ UNCHANGED <<khash, kgiven>>

(* The word that was begun is completed and added to the sponge. *)
CompleteWord ==
  /\ kcall.pc = "update"
  /\ OldTail # 0 /\ Len(kcall.in) >= OldTail
  /\ LET complete == Save(kctx, Take(kcall.in, OldTail))
     IN  kctx' = Absorb([complete EXCEPT !.byteIndex = 0, !.saved = NoWord],
                       complete.saved)
  /\ kcall' = [pc |-> "loop", in |-> Drop(kcall.in, OldTail)]
  /\ UNCHANGED <<khash, kgiven>>

(* One turn of the loop over the full words of the input. *)
AbsorbWord ==
  /\ \/ kcall.pc = "loop"
     \/ kcall.pc = "update" /\ OldTail = 0
  /\ Len(kcall.in) >= LANEBYTES
  /\ kctx' = Absorb(kctx, [i \in 0..(LANEBYTES - 1) |-> kcall.in[i + 1]])
  /\ kcall' = [pc |-> "loop", in |-> Drop(kcall.in, LANEBYTES)]
  /\ UNCHANGED <<khash, kgiven>>

(* Finally the partial word is saved. *)
SaveTail ==
  /\ \/ kcall.pc = "loop"
     \/ kcall.pc = "update" /\ OldTail = 0
  /\ Len(kcall.in) < LANEBYTES
  /\ kctx' = Save(kctx, kcall.in)
  /\ kcall' = NoUpdate
  /\ UNCHANGED <<khash, kgiven>>

(* sha3_Finalize adds the saved bytes with the bit that starts the padding *)
(* and, in the last word of the rate, the bit that ends it.                *)
sha3_Finalize ==
  LET start == [i \in 0..(LANEBYTES - 1) |->
                  XorBits(kctx.saved[i],
                          IF i = kctx.byteIndex THEN {0} ELSE {})]
      stop == [NoWord EXCEPT ![LANEBYTES - 1] = {TopBit}]
      padded == XorWord(XorWord(kctx.s, kctx.wordIndex, start),
                        Rate(kctx) - 1, stop)
      final == permute([kctx EXCEPT !.s = padded])
  IN  /\ kcall.pc = "idle"
      /\ kgiven.kind \in KeccakKinds
      /\ kctx' = final
      /\ khash' = [inputs |-> final.inputs, words |-> OutWords[kgiven.kind]]
      /\ kgiven' = [kind |-> "closed", message |-> <<>>]
      /\ UNCHANGED kcall

-----------------------------------------------------------------------------
KeccakInit ==
  \E kind \in KeccakKinds :
    /\ kctx = Fresh(kind)
    /\ kcall = NoUpdate
    /\ khash = NoSponge
    /\ kgiven = [kind |-> kind, message |-> <<>>]

KeccakNext ==
  \/ \E kind \in KeccakKinds : sha3_init_ml(kind)
  \/ \E l \in KeccakLengths :
       /\ Len(kgiven.message) + l <= KeccakMaxFed
       /\ sha3_Update(KeccakText(Len(kgiven.message), l))
  \/ StoreShort
  \/ CompleteWord
  \/ AbsorbWord
  \/ SaveTail
  \/ sha3_Finalize

KeccakSpec == KeccakInit /\ [][KeccakNext]_kvars

-----------------------------------------------------------------------------
(* The digest of Keccak: the message followed by a one bit, zeros and a    *)
(* one bit, up to a multiple of the rate; the two one bits may be in the   *)
(* same byte.                                                              *)

KeccakPadded(message, rate) ==
  LET n == Len(message)
      size == rate * (n \div rate + 1)
      extended == message \o [j \in 1..(size - n) |-> IF j = 1 THEN {0} ELSE {}]
  IN  [extended EXCEPT ![size] = @ \cup {TopBit}]

KeccakReference(kind, message) ==
  LET words == SPONGE_WORDS - 2 * OutWords[kind]
      rate == words * LANEBYTES
      padded == KeccakPadded(message, rate)
  IN  [words |-> OutWords[kind],
       inputs |->
         [k \in 1..(Len(padded) \div rate) |->
            [w \in 0..(SPONGE_WORDS - 1) |->
               [i \in 0..(LANEBYTES - 1) |->
                  IF w < words
                  THEN padded[(k - 1) * rate + w * LANEBYTES + i + 1]
                  ELSE {}]]]]

KeccakPromise ==
  INSTANCE HashStream
    WITH digest <- khash, Untouched <- NoSponge, Closed <- "closed",
         Digest <- KeccakReference, Kinds <- KeccakKinds, given <- kgiven

(* sha3-ref.c keeps the bytes of a word that was begun, and the words of a *)
(* block that was begun: neither depends on where the message was cut.     *)
Sha3IsHash == KeccakPromise!Spec

(***************************************************************************)
(* The invariant of an open context: the bytes it has taken are where the  *)
(* reference puts them, each once; the running call holds the others.      *)
(***************************************************************************)

(* The first words of an input, filled with a message from base on.        *)
InputAt(message, base, words) ==
  [w \in 0..(SPONGE_WORDS - 1) |->
     [i \in 0..(LANEBYTES - 1) |->
        IF w < words THEN message[base + w * LANEBYTES + i + 1] ELSE {}]]

WordAt(message, begun, bytes) ==
  [i \in 0..(LANEBYTES - 1) |->
     IF i < bytes THEN message[begun + i + 1] ELSE {}]

(* Where the block and the word begin that are being filled, and where the *)
(* next byte comes from.                                                   *)
BlockBytes(c) == Rate(c) * LANEBYTES
BlockStart(c) == Len(c.inputs) * BlockBytes(c)
WordStart(c) == BlockStart(c) + c.wordIndex * LANEBYTES
Position(c) == WordStart(c) + c.byteIndex

Absorbed(c, message) ==
  /\ c.wordIndex < Rate(c)
  /\ c.byteIndex < LANEBYTES
  /\ Position(c) <= Len(message)
  /\ \A k \in 1..Len(c.inputs) :
       c.inputs[k] = InputAt(message, (k - 1) * BlockBytes(c), Rate(c))
  /\ c.s = InputAt(message, BlockStart(c), c.wordIndex)
  /\ c.saved = WordAt(message, WordStart(c), c.byteIndex)

(* The words that sha3_Update added to the sponge, between the calls of    *)
(* keccakf, are those of the message, each once and at its place, and what *)
(* is left is in the word that was begun or in the running call.           *)
SpongeInv ==
  IF kgiven.kind = "closed" THEN kcall = NoUpdate
  ELSE /\ khash = NoSponge
       /\ kctx.capacityWords = 2 * OutWords[kgiven.kind]
       /\ Absorbed(kctx, kgiven.message)
       /\ kcall.in = Drop(kgiven.message, Position(kctx))
       /\ kcall.pc = "idle" => kcall = NoUpdate
       /\ kcall.pc = "loop" => kctx.byteIndex = 0
=============================================================================
