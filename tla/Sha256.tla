------------------------------- MODULE Sha256 -------------------------------
(***************************************************************************)
(* SHA-256 and SHA-224 as sha256.c, sha256-stubs.c and nocrypto_bak.ml run *)
(* them.  mbedtls_sha256_process is kept uninterpreted: the state is the   *)
(* initial value it started from and the blocks it was called with.        *)
(* mbedtls_sha256_update is one action per block.                          *)
(***************************************************************************)
EXTENDS Buffers

CONSTANTS
  SHABLOCK,       \* 64 in the code; "& 0x3F" is modulo SHABLOCK
  SHARADIX,       \* the number of values of a byte
  WORDBYTES,      \* the bytes of a word: 4
  SHAWORD,        \* the words of total are modulo SHAWORD, a multiple of
                  \* SHABLOCK: 2^32
  ShaLengths,     \* the lengths of the strings a caller feeds
  ShaByteAt(_),   \* the byte at a place of a message
  ShaMaxFed,      \* bound: the bytes a context is fed
  ShaMaxBlocks    \* bound: no context is started again after more blocks

VARIABLES
  sctx,     \* the mbedtls_sha256_context
  scall,    \* the call running on it: its input and what follows it
  shash,    \* the output string
  sgiven    \* history: what the context was started for and fed

svars == <<sctx, scall, shash, sgiven>>

ShaText(n, l) == [j \in 1..l |-> ShaByteAt(n + j)]

LENGTHBYTES == 2 * WORDBYTES      \* of msglen

(* What the proofs rest on: words of whole bytes and of whole blocks, room *)
(* for the length in a block, and strings whose length is a word.          *)
ShaPower == PowersOf(SHARADIX)

Sha256Assumption ==
  /\ SHARADIX \in Nat /\ SHARADIX > 1
  /\ WORDBYTES \in Nat /\ WORDBYTES > 0
  /\ SHABLOCK \in Nat /\ LENGTHBYTES < SHABLOCK
  /\ SHAWORD = ShaPower[WORDBYTES]
  /\ SHAWORD % SHABLOCK = 0 /\ SHABLOCK < SHAWORD
  /\ SHAWORD % 8 = 0
  /\ ShaLengths \subseteq 0..(SHAWORD - 1)

Kinds == {"sha224", "sha256"}
NoDigest == [iv |-> "none", blocks |-> <<>>, words |-> 0]
NoCall == [pc |-> "idle", in |-> <<>>, left |-> 0, next |-> <<>>,
           finish |-> FALSE, direct |-> FALSE]

(* The last l bytes of a number, the highest first: n >> 8 * (l - j). *)
Shifted(n) ==
  LET shifted[k \in Nat] == IF k = 0 THEN n ELSE shifted[k - 1] \div SHARADIX
  IN  shifted
Bytes(n, l) == [j \in 1..l |-> Shifted(n)[l - j] % SHARADIX]

(* PUT_UINT32_BE( n, b, i ) *)
Put(n) == Bytes(n, WORDBYTES)

(* mbedtls_sha256_init, and mbedtls_sha256_free: everything is cleared. *)
Cleared ==
  [total |-> <<0, 0>>, iv |-> "none", blocks |-> <<>>,
   buffer |-> Repeat(0, SHABLOCK), is224 |-> FALSE]

(* mbedtls_sha256_starts: what is left in the buffer stays there. *)
starts(c, kind) ==
  [c EXCEPT !.total = <<0, 0>>, !.iv = kind, !.blocks = <<>>,
            !.is224 = kind = "sha224"]

process(c, block) == [c EXCEPT !.blocks = Append(@, block)]

(* Mutant of Count: the second word is counted without the carry. *)
CountUncarried(total, ilen) ==
  <<(total[1] + (ilen % SHAWORD)) % SHAWORD, total[2]>>

(* total, two words, counts the length of the input cut to a word. *)
Count(total, ilen) ==
  LET length == ilen % SHAWORD
      low == (total[1] + length) % SHAWORD
  IN  <<low, (total[2] + (IF low < length THEN 1 ELSE 0)) % SHAWORD>>

(* The entry of mbedtls_sha256_update.  It returns at once when the input  *)
(* is empty; going through its body changes nothing then either.           *)
Entered(c, k, bytes) ==
  [k EXCEPT !.pc = "update", !.in = bytes, !.left = c.total[1] % SHABLOCK]
Counted(c, bytes) == [c EXCEPT !.total = Count(@, Len(bytes))]

-----------------------------------------------------------------------------
(* The calls, each on a context that no call is running on. *)

(* sha256_init_ml makes a SHA-256 context. *)
sha256_init_ml ==
  /\ scall.pc = "idle"
  /\ sctx' = starts(Cleared, "sha256")
  /\ shash' = NoDigest
  /\ sgiven' = [kind |-> "sha256", message |-> <<>>]
  /\ UNCHANGED scall

(* mbedtls_sha256_self_test starts one context again and again. *)
Restart(kind) ==
  /\ scall.pc = "idle"
  /\ Len(sctx.blocks) <= ShaMaxBlocks
  /\ sctx' = starts(sctx, kind)
  /\ shash' = NoDigest
  /\ sgiven' = [kind |-> kind, message |-> <<>>]
  /\ UNCHANGED scall

sha256_update_ml(bytes) ==
  /\ scall.pc = "idle"
  /\ sgiven.kind \in Kinds
  /\ sctx' = Counted(sctx, bytes)
  /\ scall' = Entered(sctx, scall, bytes)
  /\ sgiven' = [sgiven EXCEPT !.message = @ \o bytes]
  /\ UNCHANGED shash

(* sha256_ml, and mbedtls_sha256 under it: all the calls on a context of   *)
(* its own, which is cleared in the end.                                   *)
sha256_ml(kind, bytes) ==
  /\ scall.pc = "idle"
  /\ sctx' = Counted(starts(Cleared, kind), bytes)
  /\ scall' = [Entered(starts(Cleared, kind), NoCall, bytes)
                EXCEPT !.direct = TRUE]
  /\ shash' = NoDigest
  /\ sgiven' = [kind |-> kind, message |-> bytes]

-----------------------------------------------------------------------------
(* The body of mbedtls_sha256_update. *)

CompleteBlock ==
  LET fill == SHABLOCK - scall.left
      full == Overwrite(sctx.buffer, scall.left, Take(scall.in, fill))
  IN  /\ scall.pc = "update"
      /\ scall.left # 0 /\ Len(scall.in) >= fill
      /\ sctx' = process([sctx EXCEPT !.buffer = full], full)
      /\ scall' = [scall EXCEPT !.pc = "loop", !.in = Drop(@, fill), !.left = 0]
      /\ UNCHANGED <<shash, sgiven>>

ProcessInput ==
  /\ \/ scall.pc = "loop"
     \/ scall.pc = "update" /\ scall.left = 0
  /\ Len(scall.in) >= SHABLOCK
  /\ sctx' = process(sctx, Take(scall.in, SHABLOCK))
  /\ scall' = [scall EXCEPT !.pc = "loop", !.in = Drop(@, SHABLOCK)]
  /\ UNCHANGED <<shash, sgiven>>

(* The rest waits in the buffer.  mbedtls_sha256_finish goes on with the   *)
(* length after the padding, and to its output after the length.           *)
KeepRest ==
  /\ \/ scall.pc = "update" /\ Len(scall.in) < SHABLOCK - scall.left
     \/ scall.pc = "loop" /\ Len(scall.in) < SHABLOCK
  /\ LET copied == [sctx EXCEPT !.buffer = Overwrite(@, scall.left, scall.in)]
     IN  IF scall.next # <<>>
         THEN /\ sctx' = Counted(copied, scall.next)
              /\ scall' = [Entered(sctx, scall, scall.next)
                             EXCEPT !.next = <<>>]
         ELSE /\ sctx' = copied
              /\ scall' = [scall EXCEPT !.in = <<>>, !.left = 0,
                            !.pc = IF scall.finish THEN "output"
                                   ELSE IF scall.direct THEN "finish"
                                   ELSE "idle"]
  /\ UNCHANGED <<shash, sgiven>>

(* Mutant of PaddingLength: no padding where the message fills the room.   *)
PaddingLengthTight(last) ==
  LET room == SHABLOCK - LENGTHBYTES
  IN  IF last <= room THEN room - last ELSE SHABLOCK + room - last

(* padn: what follows the last bytes of the message up to the length.      *)
PaddingLength(last) ==
  LET room == SHABLOCK - LENGTHBYTES
  IN  IF last < room THEN room - last ELSE SHABLOCK + room - last

(* The entry of mbedtls_sha256_finish: the length in bits is taken before  *)
(* the padding is counted, and the padding ends where the length fits.     *)
Finish ==
  LET high == (sctx.total[1] \div (SHAWORD \div 8))
                + ((sctx.total[2] * 8) % SHAWORD)
      low  == (sctx.total[1] * 8) % SHAWORD
      padn == PaddingLength(sctx.total[1] % SHABLOCK)
      padding == Overwrite(Repeat(0, padn), 0, <<128>>)
  IN  /\ scall.pc \in {"idle", "finish"}
      /\ sgiven.kind \in Kinds
      /\ sctx' = Counted(sctx, padding)
      /\ scall' = [Entered(sctx, scall, padding)
                    EXCEPT !.finish = TRUE, !.next = Put(high) \o Put(low)]
      /\ UNCHANGED <<shash, sgiven>>

(* Its end: SHA-224 leaves the last word of the state out. *)
WriteDigest ==
  /\ scall.pc = "output"
  /\ shash' = [iv |-> sctx.iv, blocks |-> sctx.blocks,
              words |-> IF sctx.is224 THEN 7 ELSE 8]
  /\ sctx' = IF scall.direct THEN Cleared ELSE sctx
  /\ scall' = NoCall
  /\ sgiven' = [kind |-> "closed", message |-> <<>>]

-----------------------------------------------------------------------------
ShaInit ==
  /\ sctx = starts(Cleared, "sha256")
  /\ scall = NoCall
  /\ shash = NoDigest
  /\ sgiven = [kind |-> "sha256", message |-> <<>>]

ShaNext ==
  \/ sha256_init_ml
  \/ \E kind \in Kinds : Restart(kind)
  \/ \E l \in ShaLengths :
       /\ Len(sgiven.message) + l <= ShaMaxFed
       /\ sha256_update_ml(ShaText(Len(sgiven.message), l))
  \/ \E kind \in Kinds, l \in ShaLengths :
       /\ l <= ShaMaxFed
       /\ sha256_ml(kind, ShaText(0, l))
  \/ CompleteBlock
  \/ ProcessInput
  \/ KeepRest
  \/ Finish
  \/ WriteDigest

ShaSpec == ShaInit /\ [][ShaNext]_svars

-----------------------------------------------------------------------------
(* The digest of FIPS 180: the message, a one bit, zeros up to a multiple  *)
(* of the block size less the length field, and the length in bits.        *)

LengthField(bits) == Bytes(bits, LENGTHBYTES)

Extended(message) ==
  LET zeros == CHOOSE z \in 0..(SHABLOCK - 1) :
                 (Len(message) + 1 + z + LENGTHBYTES) % SHABLOCK = 0
  IN  message \o <<128>> \o Repeat(0, zeros)

ShaPadded(message) == Extended(message) \o LengthField(8 * Len(message))

BlockAt(data, k) == SubSeq(data, (k - 1) * SHABLOCK + 1, k * SHABLOCK)

ShaReference(kind, message) ==
  LET padded == ShaPadded(message)
  IN  [iv |-> kind,
       blocks |-> [k \in 1..(Len(padded) \div SHABLOCK) |-> BlockAt(padded, k)],
       words |-> IF kind = "sha224" THEN 7 ELSE 8]

ShaPromise ==
  INSTANCE HashStream
    WITH digest <- shash, Untouched <- NoDigest, Closed <- "closed",
         Digest <- ShaReference, given <- sgiven

(* nocrypto_bak.ml and mbedtls_sha256_self_test, which starts one context  *)
(* again and again: what the last message left in the buffer never shows.  *)
Sha256IsHash == ShaPromise!Spec

(***************************************************************************)
(* The invariant of a context: the blocks that were processed and the      *)
(* bytes in the buffer are the data up to where the running call is, and   *)
(* total counts all the data.  The data is the message until it is padded. *)
(***************************************************************************)

DataOf(k, message) ==
  IF ~k.finish THEN message
  ELSE IF k.next # <<>> THEN Extended(message) ELSE ShaPadded(message)

(* The bytes in the buffer: left during a call, total & 0x3F between two.  *)
Held(c, k) ==
  IF k.pc \in {"update", "loop"} THEN k.left ELSE c.total[1] % SHABLOCK

Reached(c, held) == Len(c.blocks) * SHABLOCK + held

Processed(c, data, held) ==
  /\ held < SHABLOCK
  /\ Reached(c, held) <= Len(data)
  /\ \A k \in 1..Len(c.blocks) : c.blocks[k] = BlockAt(data, k)
  /\ \A i \in 1..held : c.buffer[i] = data[Reached(c, i)]

Totalled(total, n) == total = <<n % SHAWORD, (n \div SHAWORD) % SHAWORD>>

(* Whatever the strings a message comes in, the blocks that                *)
(* mbedtls_sha256_process was called with and the buffer are the message   *)
(* up to where the call is, and then its padding and its length, each byte *)
(* once; total counts them.                                                *)
StreamInv ==
  IF sgiven.kind = "closed" THEN scall = NoCall
  ELSE LET data == DataOf(scall, sgiven.message)
           held == Held(sctx, scall)
       IN  /\ shash = NoDigest
           /\ sctx.iv = sgiven.kind
           /\ sctx.is224 <=> sgiven.kind = "sha224"
           /\ Totalled(sctx.total, Len(data))
           /\ Processed(sctx, data, held)
           /\ scall.in = Drop(data, Reached(sctx, held))
           /\ scall.next # <<>> =>
                /\ scall.finish
                /\ scall.next = LengthField(8 * Len(sgiven.message))
           /\ scall.pc = "idle" => scall = NoCall
           /\ scall.pc = "finish" => ~scall.finish /\ scall.in = <<>>
           /\ scall.pc = "loop" => scall.left = 0
           /\ scall.pc = "output" =>
                scall.finish /\ scall.next = <<>> /\ scall.in = <<>>
=============================================================================
