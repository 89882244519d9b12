------------------------------- MODULE Blake2b -------------------------------
(***************************************************************************)
(* BLAKE2b as blake2b-ref.c, blake2b-stubs.c and blake2.ml run it: the     *)
(* hash of every operation and every contract address of liquidDeploy.ml.  *)
(*                                                                         *)
(* The compression function is kept uninterpreted: the chaining value h is *)
(* the parameter block it started from and the sequence of the calls made  *)
(* of blake2b_compress, each with the block, the byte counter and the      *)
(* finalisation flags it read (Compressions.tla gives them their meaning). *)
(* blake2b_update is one action per block, so that its loop is proved      *)
(* about like any other behaviour.                                         *)
(***************************************************************************)
EXTENDS Buffers

CONSTANTS
  BLOCKBYTES, OUTBYTES, KEYBYTES,   \* 128, 64 and 64 in the code
  WORD,           \* the words of the byte counter are modulo WORD (2^64)
  Sizes,          \* the digest sizes a caller asks for, legal or not
  Keys,           \* the keys a caller gives
  Lengths,        \* the lengths of the strings a caller feeds
  ByteAt(_),      \* the byte at a place of a message
  MaxFed,         \* bound: the bytes a context is fed
  MaxBlocks       \* bound: no call is made on a context with more blocks

ASSUME BlockAssumption ==
  /\ BLOCKBYTES \in Nat \ {0}
  /\ WORD \in Nat /\ BLOCKBYTES < WORD
  /\ KEYBYTES \in Nat /\ KEYBYTES <= BLOCKBYTES
  /\ OUTBYTES \in Nat

ASSUME CallerAssumption ==
  /\ Sizes \subseteq Nat
  /\ Keys \subseteq Seq(Nat)
  /\ Lengths \subseteq Nat

VARIABLES
  handle,   \* what the caller took the context for: "context", "unit", "none"
  ctx,      \* the blake2b_state
  call,     \* the call running on it: its input and what follows it
  hash,     \* the OCaml string the digest is written to
  given     \* history: what the open context was opened for and fed

vars == <<handle, ctx, call, hash, given>>

(* The string of l bytes that comes after n others. *)
Text(n, l) == [j \in 1..l |-> ByteAt(n + j)]

(* The kinds of digest: a size and a key, or parameters that were refused. *)
Opened(size, key) == [size |-> size, key |-> key, open |-> TRUE]
Refused == Opened(0, <<>>)
Closed == [Refused EXCEPT !.open = FALSE]

(* A string of zeros, and a chaining value of zeros. *)
Zeroes == [h |-> [size |-> 0, keylen |-> 0], calls |-> <<>>, outlen |-> 0]

(* String.make blake2b_ctx_size '\000'. *)
NoContext ==
  [h      |-> Zeroes.h,
   calls  |-> <<>>,
   t      |-> <<0, 0>>,
   f      |-> <<FALSE, FALSE>>,
   buf    |-> Repeat(0, BLOCKBYTES),
   buflen |-> 0,
   outlen |-> 0,
   last_node |-> FALSE]

Idle == [pc |-> "idle", in |-> <<>>, next |-> <<>>, direct |-> FALSE]

-----------------------------------------------------------------------------
(* The functions of blake2b-ref.c on a context. *)

(* blake2b_init0 and blake2b_init_param: everything is cleared, then h is  *)
(* the IV combined with the parameter block.                               *)
init_param(digest_length, key_length) ==
  [NoContext EXCEPT !.h = [size |-> digest_length, keylen |-> key_length],
                    !.outlen = digest_length]

LegalSize(outlen) == outlen # 0 /\ outlen <= OUTBYTES
LegalKey(key) == Len(key) # 0 /\ Len(key) <= KEYBYTES

(* The block blake2b_init_key builds: the key, and zeros behind it. *)
KeyBlock(key) == Overwrite(Repeat(0, BLOCKBYTES), 0, key)

(* Unsigned words: the sum wrapped round iff it is less than inc. *)
increment_counter(t, inc) ==
  LET low == (t[1] + inc) % WORD
  IN  <<low, (t[2] + (IF low < inc THEN 1 ELSE 0)) % WORD>>

(* Mutant of set_lastblock: the last block is not flagged as such.         *)
set_lastblock_once(f, last_node) == <<FALSE, f[2] \/ last_node>>

set_lastblock(f, last_node) == <<TRUE, f[2] \/ last_node>>

Compression(block, t, f) == [block |-> block, t |-> t, f |-> f]

(* Counting a block and compressing it, the pair of calls of the loop. *)
Compress(c, block) ==
  LET t == increment_counter(c.t, BLOCKBYTES)
  IN  [c EXCEPT !.t = t, !.calls = Append(@, Compression(block, t, c.f))]

-----------------------------------------------------------------------------
(* The calls of blake2.ml, each on a context that no call is running on. *)

(* blake2b_init ~size (): the stub ignores the result of blake2b_init, so  *)
(* that an illegal size leaves the context as it was allocated.            *)
Init_(size) ==
  /\ call.pc = "idle"
  /\ handle' = "context"
  /\ ctx' = IF LegalSize(size) THEN init_param(size, 0) ELSE NoContext
  /\ hash' = Zeroes
  /\ given' = [kind |-> IF LegalSize(size) THEN Opened(size, <<>>) ELSE Refused,
                message |-> <<>>]
  /\ UNCHANGED call

(* blake2b_init_key: the key is fed as a block of its own.  The stub       *)
(* returns unit where blake2.ml declares the context.                      *)
InitKeyResult == "unit"

InitKey(size, key) ==
  /\ call.pc = "idle"
  /\ handle' = InitKeyResult
  /\ IF LegalSize(size) /\ LegalKey(key)
     THEN /\ ctx' = init_param(size, Len(key))
          /\ call' = [Idle EXCEPT !.pc = "update", !.in = KeyBlock(key)]
          /\ given' = [kind |-> Opened(size, key), message |-> <<>>]
     ELSE /\ ctx' = NoContext
          /\ given' = [kind |-> Refused, message |-> <<>>]
          /\ UNCHANGED call
  /\ hash' = Zeroes

(* blake2b_update: it may be called on a closed context too.  What it does *)
(* to a unit is undefined.                                                 *)
Update(bytes) ==
  /\ call.pc = "idle" /\ handle = "context"
  /\ Len(ctx.calls) <= MaxBlocks
  /\ call' = [Idle EXCEPT !.pc = "update", !.in = bytes]
  /\ given' = IF given.kind = Closed THEN given
              ELSE [given EXCEPT !.message = @ \o bytes]
  /\ UNCHANGED <<handle, ctx, hash>>

(* blake2b, the one-shot function: its checks, then the same three calls   *)
(* on a context of its own.  The OCaml caller asserts that it returned 0.  *)
Direct(size, key, bytes) ==
  /\ call.pc = "idle"
  /\ LegalSize(size)
  /\ Len(key) <= KEYBYTES
  /\ handle' = "none"
  /\ ctx' = init_param(size, Len(key))
  /\ call' = [pc |-> "update", direct |-> TRUE,
              in |-> IF key = <<>> THEN bytes ELSE KeyBlock(key),
              next |-> IF key = <<>> THEN <<>> ELSE bytes]
  /\ hash' = Zeroes
  /\ given' = [kind |-> Opened(size, key), message |-> bytes]

-----------------------------------------------------------------------------
(* The body of blake2b_update. *)

(* Mutant of FillBuffer: a block that is just full is compressed at once.  *)
FillBufferEarly ==
  LET left == ctx.buflen
      fill == BLOCKBYTES - left
      full == Overwrite(ctx.buf, left, Take(call.in, fill))
  IN  /\ call.pc = "update"
      /\ Len(call.in) >= fill
      /\ ctx' = Compress([ctx EXCEPT !.buflen = 0, !.buf = full], full)
      /\ call' = [call EXCEPT !.pc = "loop", !.in = Drop(@, fill)]
      /\ UNCHANGED <<handle, hash, given>>

(* inlen > fill: the buffer is filled up and compressed. *)
FillBuffer ==
  LET left == ctx.buflen
      fill == BLOCKBYTES - left
      full == Overwrite(ctx.buf, left, Take(call.in, fill))
  IN  /\ call.pc = "update"
      /\ Len(call.in) > fill
      /\ ctx' = Compress([ctx EXCEPT !.buflen = 0, !.buf = full], full)
      /\ call' = [call EXCEPT !.pc = "loop", !.in = Drop(@, fill)]
      /\ UNCHANGED <<handle, hash, given>>

(* while (inlen > BLAKE2B_BLOCKBYTES): a block straight from the input. *)
CompressInput ==
  /\ call.pc = "loop"
  /\ Len(call.in) > BLOCKBYTES
  /\ ctx' = Compress(ctx, Take(call.in, BLOCKBYTES))
  /\ call' = [call EXCEPT !.in = Drop(@, BLOCKBYTES)]
  /\ UNCHANGED <<handle, hash, given>>

(* The rest goes to the buffer, where the last block always waits: only    *)
(* blake2b_final may compress it.  The call returns, or goes on to the     *)
(* message after the key, or to blake2b_final.                             *)
CopyRest ==
  /\ \/ call.pc = "update" /\ Len(call.in) <= BLOCKBYTES - ctx.buflen
     \/ call.pc = "loop" /\ Len(call.in) <= BLOCKBYTES
  /\ ctx' = [ctx EXCEPT !.buf = Overwrite(@, ctx.buflen, call.in),
                        !.buflen = @ + Len(call.in)]
  /\ call' = IF call.next # <<>>
             THEN [call EXCEPT !.pc = "update", !.in = call.next,
                               !.next = <<>>]
             ELSE [Idle EXCEPT !.pc = IF call.direct THEN "final" ELSE "idle"]
  /\ UNCHANGED <<handle, hash, given>>

(* blake2b_final, from the one-shot function or from OCaml: nothing is     *)
(* done to a context that was closed already.  The output string was       *)
(* allocated with the size asked for, so that it is never too short.       *)
Final ==
  LET t == increment_counter(ctx.t, ctx.buflen)
      f == set_lastblock(ctx.f, ctx.last_node)
      padded == Blank(ctx.buf, ctx.buflen, 0)
      calls == Append(ctx.calls, Compression(padded, t, f))
  IN  /\ call.pc = "final" \/ (call.pc = "idle" /\ handle = "context")
      /\ call' = Idle
      /\ UNCHANGED handle
      /\ IF ctx.f[1]
         THEN UNCHANGED <<ctx, hash, given>>
         ELSE /\ ctx' = [ctx EXCEPT !.t = t, !.f = f, !.buf = padded,
                                    !.calls = calls]
              /\ hash' = IF ctx.outlen = 0 THEN hash
                         ELSE [h |-> ctx.h, calls |-> calls,
                               outlen |-> ctx.outlen]
              /\ given' = [kind |-> Closed, message |-> <<>>]

-----------------------------------------------------------------------------
(* No call can be made before a context was made for it. *)
Init ==
  \E size \in Sizes :
    /\ handle = "context"
    /\ LegalSize(size)
    /\ ctx = init_param(size, 0)
    /\ call = Idle
    /\ hash = Zeroes
    /\ given = [kind |-> Opened(size, <<>>), message |-> <<>>]

Next ==
  \/ \E size \in Sizes : Init_(size)
  \/ \E size \in Sizes, key \in Keys : InitKey(size, key)
  \/ \E l \in Lengths :
       /\ Len(given.message) + l <= MaxFed
       /\ Update(Text(Len(given.message), l))
  \/ \E size \in Sizes, key \in Keys \cup {<<>>}, l \in Lengths :
       /\ l <= MaxFed
       /\ Direct(size, key, Text(0, l))
  \/ FillBuffer
  \/ CompressInput
  \/ CopyRest
  \/ Final

Spec == Init /\ [][Next]_vars
-----------------------------------------------------------------------------
(* The digest of RFC 7693, block by block, as blake2b_compress sees it. *)

Data(kind, message) ==
  (IF kind.key = <<>> THEN <<>> ELSE KeyBlock(kind.key)) \o message

(* The last block holds at least a byte, except for no data at all. *)
Blocks(n) == IF n = 0 THEN 1 ELSE (n + BLOCKBYTES - 1) \div BLOCKBYTES

Counter(n) == <<n % WORD, (n \div WORD) % WORD>>

BlockOf(data, k) ==
  [j \in 1..BLOCKBYTES |->
     LET i == (k - 1) * BLOCKBYTES + j
     IN  IF i <= Len(data) THEN data[i] ELSE 0]

CompressionsOf(data) ==
  LET n == Len(data)
  IN  [k \in 1..Blocks(n) |->
         Compression(BlockOf(data, k),
                     Counter(IF k = Blocks(n) THEN n ELSE k * BLOCKBYTES),
                     <<k = Blocks(n), FALSE>>)]

Reference(kind, message) ==
  IF kind = Refused THEN Zeroes
  ELSE [h |-> [size |-> kind.size, keylen |-> Len(kind.key)],
        calls |-> CompressionsOf(Data(kind, message)),
        outlen |-> kind.size]

Promise ==
  INSTANCE HashStream
    WITH digest <- hash, Untouched <- Zeroes, Digest <- Reference,
         Kinds <- {Opened(size, key) : size \in Sizes \cup {0},
                                       key \in Keys \cup {<<>>}}

(* BLAKE2b hashes streams, whatever the calls of blake2.ml: an update may  *)
(* come after the end, a size or a key may be refused, a context may be    *)
(* opened over one that was not closed.                                    *)
Blake2bIsHash == Promise!Spec

(***************************************************************************)
(* The invariant of an open context: between the blocks compressed and the *)
(* input of the running call, no byte of the data is lost, repeated or     *)
(* moved, and the counter agrees with them.                                *)
(***************************************************************************)

BufferInv ==
  /\ DOMAIN ctx.buf = 1..BLOCKBYTES
  /\ ctx.buflen \in 0..BLOCKBYTES
  /\ call.pc = "loop" => ctx.buflen = 0

(* What the context and its call still hold. *)
Pending == Take(ctx.buf, ctx.buflen) \o call.in \o call.next

(* The block that may be the last one is never compressed by an update. *)
CallsInv ==
  LET data == Data(given.kind, given.message)
      n == Len(ctx.calls)
  IN  /\ Pending = Drop(data, n * BLOCKBYTES)
      /\ n > 0 => n * BLOCKBYTES < Len(data)
      /\ ctx.t = Counter(n * BLOCKBYTES)
      /\ \A k \in 1..n :
           ctx.calls[k] = Compression(BlockOf(data, k),
                                      Counter(k * BLOCKBYTES), <<FALSE, FALSE>>)

(* An open context is what its parameters made it.  A closed one keeps the *)
(* flag that stops blake2b_final, one that was refused has no output.      *)
ContextInv ==
  IF given.kind = Closed THEN ctx.f[1]
  ELSE /\ hash = Zeroes
       /\ ctx.f = <<FALSE, FALSE>>
       /\ ctx.last_node = FALSE
       /\ ctx.outlen = given.kind.size
       /\ given.kind # Refused =>
            /\ ctx.h = [size |-> given.kind.size,
                        keylen |-> Len(given.kind.key)]
            /\ CallsInv

(* Every update leaves the context ready for the blocks that follow, and a *)
(* digest for the one that closes it: an open context has compressed all   *)
(* the full blocks but the last, each once and in order, with the counter  *)
(* and the flags of its place, and holds the rest.                         *)
NothingLost == BufferInv /\ ContextInv

==============================================================================
