---------------------------- MODULE Blake2bProofs ----------------------------
(***************************************************************************)
(* Theorems about Blake2b, for every size of a block and of the counter,   *)
(* every key, message and way of cutting it into strings.                  *)
(***************************************************************************)
EXTENDS Blake2b, BufferProofs, TLAPS

-----------------------------------------------------------------------------
(* The counter of a context counts like one number (blake2b_increment_     *)
(* counter).                                                               *)
LEMMA CounterAdds ==
  ASSUME NEW n \in Nat, NEW inc \in Nat, inc < WORD
  PROVE  increment_counter(Counter(n), inc) = Counter(n + inc)
<1> DEFINE low == ((n % WORD) + inc) % WORD
<1>1. WORD \in Nat /\ WORD > 0
  BY BlockAssumption
<1>2. /\ low = (n + inc) % WORD
      /\ (((n \div WORD) % WORD) + (IF low < inc THEN 1 ELSE 0)) % WORD
           = ((n + inc) \div WORD) % WORD
  BY <1>1, CarryAdds
<1> QED BY <1>2 DEF increment_counter, Counter

-----------------------------------------------------------------------------
(* The types of the state. *)

Byte == Nat \cup {ByteAt(i) : i \in Nat}
Block == [1..BLOCKBYTES -> Byte]
Counters == Nat \X Nat
Flags == BOOLEAN \X BOOLEAN
Calls == [block : Block, t : Counters, f : Flags]
Contexts ==
  [h : [size : Nat, keylen : Nat], calls : Seq(Calls), t : Counters,
   f : Flags, buf : Block, buflen : 0..BLOCKBYTES, outlen : Nat,
   last_node : BOOLEAN]
LegalKeys == {key \in Keys \cup {<<>>} : Len(key) <= KEYBYTES}
OpenKinds == {Opened(size, key) : size \in 1..OUTBYTES, key \in LegalKeys}

TypeInv ==
  /\ ctx \in Contexts
  /\ call \in [pc : {"idle", "update", "loop", "final"}, in : Seq(Byte),
                next : Seq(Byte), direct : BOOLEAN]
  /\ call.pc \in {"idle", "final"} => call.in = <<>> /\ call.next = <<>>
  /\ call.pc = "loop" => ctx.buflen = 0
  /\ given \in [kind : OpenKinds \cup {Refused, Closed}, message : Seq(Byte)]

(* The block of a key that was accepted is a block (blake2b_init_key).     *)
LEMMA KeyBlockType ==
  ASSUME NEW key \in LegalKeys
  PROVE  /\ KeyBlock(key) \in Block /\ KeyBlock(key) \in Seq(Byte)
         /\ Len(KeyBlock(key)) = BLOCKBYTES
<1>1. key \in Seq(Byte) /\ 0 + Len(key) <= BLOCKBYTES
  <2>0. Keys \subseteq Seq(Nat) /\ <<>> \in Seq(Nat)
    BY CallerAssumption
  <2>1. key \in Seq(Nat) /\ Len(key) <= KEYBYTES
    BY <2>0 DEF LegalKeys
  <2>2. key \in [1..Len(key) -> Byte]
    BY <2>1 DEF Byte
  <2> QED BY <2>1, <2>2, BlockAssumption
<1>2. Repeat(0, BLOCKBYTES) \in [1..BLOCKBYTES -> Byte]
  BY DEF Repeat, Byte
<1>3. BLOCKBYTES \in Nat
  BY BlockAssumption
<1> QED BY <1>1, <1>2, <1>3, OverwriteFacts DEF KeyBlock, Block

(* What a caller feeds is a string.                                        *)
LEMMA TextType ==
  ASSUME NEW n \in Nat, NEW l \in Nat
  PROVE  Text(n, l) \in Seq(Byte)
<1>1. \A j \in 1..l : ByteAt(n + j) \in Byte
  BY DEF Byte
<1> QED BY <1>1 DEF Text

(* A context that was allocated or initialised has its type.               *)
LEMMA NewContextType ==
  /\ NoContext \in Contexts
  /\ \A size, keylen \in Nat : init_param(size, keylen) \in Contexts
<1>1. NoContext \in Contexts
  <2>1. Repeat(0, BLOCKBYTES) \in Block /\ 0 \in 0..BLOCKBYTES
    BY BlockAssumption DEF Repeat, Byte, Block
  <2>2. <<0, 0>> \in Counters /\ <<>> \in Seq(Calls)
    BY DEF Counters
  <2>3. <<FALSE, FALSE>> \in Flags
    BY Zenon DEF Flags
  <2> QED BY <2>1, <2>2, <2>3 DEF NoContext, Contexts, Zeroes
<1>2. ASSUME NEW size \in Nat, NEW keylen \in Nat
      PROVE  init_param(size, keylen) \in Contexts
  BY <1>1 DEF init_param, Contexts
<1> QED BY <1>1, <1>2

(* The words of the counter stay words (blake2b_increment_counter).        *)
LEMMA IncrementType ==
  ASSUME NEW t \in Counters, NEW inc \in Nat
  PROVE  increment_counter(t, inc) \in Counters
<1>1. t[1] \in Nat /\ t[2] \in Nat /\ WORD \in Nat /\ WORD > 0
  BY BlockAssumption DEF Counters
<1>2. \A n \in Nat : n % WORD \in Nat
  BY <1>1
<1> QED BY <1>1, <1>2 DEF increment_counter, Counters

(* Compressing a block touches the counter and the calls only.             *)
LEMMA CompressType ==
  ASSUME NEW c \in Contexts, NEW block \in Block
  PROVE  /\ Compress(c, block) \in Contexts
         /\ Compress(c, block).h = c.h
         /\ Compress(c, block).calls
              = Append(c.calls, Compression(block,
                                  increment_counter(c.t, BLOCKBYTES), c.f))
         /\ Compress(c, block).t = increment_counter(c.t, BLOCKBYTES)
         /\ Compress(c, block).f = c.f
         /\ Compress(c, block).buf = c.buf
         /\ Compress(c, block).buflen = c.buflen
         /\ Compress(c, block).outlen = c.outlen
         /\ Compress(c, block).last_node = c.last_node
<1> DEFINE t == increment_counter(c.t, BLOCKBYTES)
           calls == Append(c.calls, Compression(block, t, c.f))
           d == Compress(c, block)
<1>1. t \in Counters
  BY IncrementType, BlockAssumption DEF Contexts
<1>2. d = [c EXCEPT !.t = t, !.calls = calls]
  BY DEF Compress, Contexts
<1>3. calls \in Seq(Calls)
  <2> HIDE DEF t
  <2>1. Compression(block, t, c.f) \in Calls
    BY <1>1 DEF Compression, Calls, Contexts
  <2> QED BY <2>1 DEF Contexts
<1>4. t = increment_counter(c.t, BLOCKBYTES)
      /\ calls = Append(c.calls, Compression(block, t, c.f))
  OBVIOUS
<1> HIDE DEF t, calls, d
<1>5. d \in Contexts
  BY <1>1, <1>2, <1>3 DEF Contexts
<1>6. /\ d.h = c.h /\ d.calls = calls /\ d.t = t /\ d.f = c.f
      /\ d.buf = c.buf /\ d.buflen = c.buflen /\ d.outlen = c.outlen
      /\ d.last_node = c.last_node
  BY <1>2 DEF Contexts
<1> QED BY <1>4, <1>5, <1>6 DEF d

CallType == [pc : {"idle", "update", "loop", "final"}, in : Seq(Byte),
             next : Seq(Byte), direct : BOOLEAN]
GivenType == [kind : OpenKinds \cup {Refused, Closed}, message : Seq(Byte)]

(* What FillBuffer and CopyRest make of the buffer.                        *)
LEMMA FilledType ==
  ASSUME NEW b \in Block, NEW left \in 0..BLOCKBYTES, NEW s \in Seq(Byte),
         NEW k \in 0..Len(s), left + k <= BLOCKBYTES
  PROVE  Overwrite(b, left, Take(s, k)) \in Block
<1>1. Take(s, k) \in Seq(Byte) /\ Len(Take(s, k)) = k
  BY TakeDrop
<1>2. BLOCKBYTES \in Nat
  BY BlockAssumption
<1> QED BY <1>1, <1>2, OverwriteFacts DEF Block

(* The first context has its type.                                         *)
LEMMA TypeInit == Init => TypeInv
<1> SUFFICES ASSUME Init PROVE TypeInv
  OBVIOUS
<1>1. PICK size \in Sizes :
        /\ LegalSize(size) /\ ctx = init_param(size, 0) /\ call = Idle
        /\ given = [kind |-> Opened(size, <<>>), message |-> <<>>]
  BY DEF Init
<1>2. size \in 1..OUTBYTES
  BY <1>1, CallerAssumption, BlockAssumption DEF LegalSize
<1>3. <<>> \in LegalKeys /\ <<>> \in Seq(Byte)
  BY BlockAssumption DEF LegalKeys
<1>4. ctx \in Contexts
  BY <1>1, <1>2, NewContextType
<1>5. given \in [kind : OpenKinds \cup {Refused, Closed}, message : Seq(Byte)]
  BY <1>1, <1>2, <1>3 DEF OpenKinds
<1> QED BY <1>1, <1>3, <1>4, <1>5 DEF TypeInv, Idle

(* Every call, and every step of blake2b_update, keeps the types.          *)
LEMMA TypeStep == TypeInv /\ [Next]_vars => TypeInv'
<1> SUFFICES ASSUME TypeInv, [Next]_vars PROVE TypeInv'
  OBVIOUS
<1>0. BLOCKBYTES \in Nat /\ BLOCKBYTES > 0 /\ OUTBYTES \in Nat /\ KEYBYTES \in Nat
  BY BlockAssumption
<1>a. /\ ctx \in Contexts /\ call \in CallType /\ given \in GivenType
      /\ call.pc \in {"idle", "final"} => call.in = <<>> /\ call.next = <<>>
      /\ call.pc = "loop" => ctx.buflen = 0
  BY DEF TypeInv, CallType, GivenType
<1>b. ASSUME ctx' \in Contexts, call' \in CallType, given' \in GivenType,
             call'.pc \in {"idle", "final"} => call'.in = <<>> /\ call'.next = <<>>,
             call'.pc = "loop" => ctx'.buflen = 0
      PROVE  TypeInv'
  BY <1>b DEF TypeInv, CallType, GivenType
<1>c. Idle \in CallType /\ Idle.in = <<>> /\ Idle.next = <<>> /\ <<>> \in Seq(Byte)
  BY DEF Idle, CallType
<1>d. \A size \in Sizes : LegalSize(size) => size \in 1..OUTBYTES
  BY CallerAssumption, <1>0 DEF LegalSize
<1>e. <<>> \in LegalKeys /\ Keys \subseteq Keys \cup {<<>>}
  BY <1>0 DEF LegalKeys
<1>f. ASSUME NEW kind \in OpenKinds \cup {Refused, Closed}, NEW m \in Seq(Byte)
      PROVE  [kind |-> kind, message |-> m] \in GivenType
  BY DEF GivenType
<1>1. ASSUME NEW size \in Sizes, Init_(size) PROVE TypeInv'
  <2>1. ctx' \in Contexts
    BY <1>1, <1>d, NewContextType DEF Init_
  <2>2. given' \in GivenType
    <3>1. LegalSize(size) => Opened(size, <<>>) \in OpenKinds
      BY <1>d, <1>e DEF OpenKinds
    <3> QED BY <1>1, <1>c, <1>f, <3>1 DEF Init_
  <2> QED BY <1>1, <1>a, <1>b, <2>1, <2>2 DEF Init_
<1>2. ASSUME NEW size \in Sizes, NEW key \in Keys, InitKey(size, key) PROVE TypeInv'
  <2>1. CASE LegalSize(size) /\ LegalKey(key)
    <3>1. key \in LegalKeys /\ Len(key) \in Nat
      BY <2>1, <1>0, CallerAssumption DEF LegalKey, LegalKeys
    <3>2. ctx' \in Contexts
      BY <1>2, <2>1, <3>1, <1>d, NewContextType DEF InitKey
    <3>3. Opened(size, key) \in OpenKinds
      BY <2>1, <3>1, <1>d DEF OpenKinds
    <3>4. given' \in GivenType
      BY <1>2, <2>1, <3>3, <1>c, <1>f DEF InitKey
    <3>5. call' = [Idle EXCEPT !.pc = "update", !.in = KeyBlock(key)]
      BY <1>2, <2>1 DEF InitKey
    <3>6. call' \in CallType /\ call'.pc = "update"
      BY <3>1, <3>5, <1>c, KeyBlockType DEF CallType, Idle
    <3> QED BY <3>2, <3>4, <3>6, <1>b
  <2>2. CASE ~(LegalSize(size) /\ LegalKey(key))
    <3>1. ctx' = NoContext /\ given' = [kind |-> Refused, message |-> <<>>]
          /\ call' = call /\ call.pc = "idle"
      BY <1>2, <2>2 DEF InitKey
    <3>2. given' \in GivenType
      BY <3>1, <1>c, <1>f
    <3> QED BY <3>1, <3>2, <1>a, <1>b, NewContextType
  <2> QED BY <2>1, <2>2
<1>3. ASSUME NEW l \in Lengths, Update(Text(Len(given.message), l)) PROVE TypeInv'
  <2> DEFINE bytes == Text(Len(given.message), l)
  <2>1. bytes \in Seq(Byte)
    BY TextType, CallerAssumption, <1>a DEF GivenType
  <2> HIDE DEF bytes
  <2>2. call' = [Idle EXCEPT !.pc = "update", !.in = bytes] /\ ctx' = ctx
    BY <1>3 DEF Update, bytes
  <2>3. call' \in CallType /\ call'.pc = "update"
    BY <2>1, <2>2, <1>c DEF CallType, Idle
  <2>4. given' \in GivenType
    <3>1. given.message \o bytes \in Seq(Byte)
      BY <1>a, <2>1 DEF GivenType
    <3>2. given' = given \/ given' = [given EXCEPT !.message = given.message \o bytes]
      BY <1>3 DEF Update, bytes
    <3> QED BY <1>a, <3>1, <3>2 DEF GivenType
  <2> QED BY <1>a, <1>b, <2>2, <2>3, <2>4
<1>4. ASSUME NEW size \in Sizes, NEW key \in Keys \cup {<<>>}, NEW l \in Lengths,
             Direct(size, key, Text(0, l))
      PROVE  TypeInv'
  <2> DEFINE bytes == Text(0, l)
  <2>1. bytes \in Seq(Byte)
    BY TextType, CallerAssumption
  <2> HIDE DEF bytes
  <2>2. key \in LegalKeys /\ LegalSize(size) /\ Len(key) \in Nat
    BY <1>4, CallerAssumption DEF Direct, LegalKeys
  <2>3. /\ ctx' = init_param(size, Len(key))
        /\ call' = [pc |-> "update", direct |-> TRUE,
                    in |-> IF key = <<>> THEN bytes ELSE KeyBlock(key),
                    next |-> IF key = <<>> THEN <<>> ELSE bytes]
        /\ given' = [kind |-> Opened(size, key), message |-> bytes]
    BY <1>4 DEF Direct, bytes
  <2>4. ctx' \in Contexts
    BY <2>2, <2>3, <1>d, NewContextType
  <2>5. call' \in CallType /\ call'.pc = "update"
    <3>1. (IF key = <<>> THEN bytes ELSE KeyBlock(key)) \in Seq(Byte)
          /\ (IF key = <<>> THEN <<>> ELSE bytes) \in Seq(Byte)
      BY <2>1, <2>2, <1>c, KeyBlockType
    <3> QED BY <2>3, <3>1 DEF CallType
  <2>6. given' \in GivenType
    <3>1. Opened(size, key) \in OpenKinds
      BY <2>2, <1>d DEF OpenKinds
    <3> QED BY <2>1, <2>3, <3>1, <1>f
  <2> QED BY <1>b, <2>4, <2>5, <2>6
<1>5. CASE FillBuffer
  <2> DEFINE fill == BLOCKBYTES - ctx.buflen
             full == Overwrite(ctx.buf, ctx.buflen, Take(call.in, fill))
             c == [ctx EXCEPT !.buflen = 0, !.buf = full]
  <2>1. call.pc = "update" /\ Len(call.in) > fill /\ ctx' = Compress(c, full)
        /\ call' = [call EXCEPT !.pc = "loop", !.in = Drop(call.in, fill)]
        /\ given' = given
    BY <1>5 DEF FillBuffer
  <2>2. ctx.buf \in Block /\ ctx.buflen \in 0..BLOCKBYTES /\ call.in \in Seq(Byte)
    BY <1>a DEF Contexts, CallType
  <2>3. fill \in 0..Len(call.in) /\ ctx.buflen + fill <= BLOCKBYTES
    BY <2>1, <2>2, <1>0
  <2>4. full \in Block
    BY <2>2, <2>3, FilledType
  <2>5. Drop(call.in, fill) \in Seq(Byte)
    BY <2>2, <2>3, TakeDrop
  <2> HIDE DEF full, fill
  <2>6. c \in Contexts /\ c.buflen = 0
    <3>1. 0 \in 0..BLOCKBYTES
      BY <1>0
    <3> QED BY <2>4, <3>1, <1>a DEF Contexts
  <2> HIDE DEF c
  <2>7. ctx' \in Contexts /\ ctx'.buflen = 0
    <3>1. ctx' \in Contexts
      BY <2>1, <2>4, <2>6, CompressType
    <3>2. ctx'.buflen = c.buflen
      BY <2>1, <2>4, <2>6, CompressType
    <3> QED BY <2>6, <3>1, <3>2
  <2>8. call' \in CallType /\ call'.pc = "loop"
    BY <2>1, <2>5, <1>a DEF CallType
  <2> QED BY <2>1, <2>7, <2>8, <1>a, <1>b
<1>6. CASE CompressInput
  <2> DEFINE block == Take(call.in, BLOCKBYTES)
  <2>1. call.pc = "loop" /\ Len(call.in) > BLOCKBYTES /\ ctx' = Compress(ctx, block)
        /\ call' = [call EXCEPT !.in = Drop(call.in, BLOCKBYTES)]
        /\ given' = given
    BY <1>6 DEF CompressInput
  <2>2. call.in \in Seq(Byte) /\ BLOCKBYTES \in 0..Len(call.in)
    BY <2>1, <1>0, <1>a DEF CallType
  <2>3. block \in Block /\ Drop(call.in, BLOCKBYTES) \in Seq(Byte)
    <3>1. block \in Seq(Byte) /\ Len(block) = BLOCKBYTES
          /\ Drop(call.in, BLOCKBYTES) \in Seq(Byte)
      BY <2>2, TakeDrop
    <3> HIDE DEF block
    <3> QED BY <3>1 DEF Block
  <2> HIDE DEF block
  <2>4. ctx' \in Contexts /\ ctx'.buflen = ctx.buflen
    <3>1. ctx' \in Contexts
      BY <2>1, <2>3, <1>a, CompressType
    <3>2. ctx'.buflen = ctx.buflen
      BY <2>1, <2>3, <1>a, CompressType
    <3> QED BY <3>1, <3>2
  <2>5. call' \in CallType /\ call'.pc = "loop"
    BY <2>1, <2>3, <1>a DEF CallType
  <2> QED BY <2>1, <2>4, <2>5, <1>a, <1>b
<1>7. CASE CopyRest
  <2>1. ctx.buf \in Block /\ ctx.buflen \in 0..BLOCKBYTES /\ call.in \in Seq(Byte)
    BY <1>a DEF Contexts, CallType
  <2>2. ctx.buflen + Len(call.in) \in 0..BLOCKBYTES
    BY <1>7, <1>0, <1>a, <2>1 DEF CopyRest
  <2>3. ctx' = [ctx EXCEPT !.buf = Overwrite(ctx.buf, ctx.buflen, call.in),
                           !.buflen = ctx.buflen + Len(call.in)]
    BY <1>7, <1>a DEF CopyRest, Contexts
  <2>4. Overwrite(ctx.buf, ctx.buflen, call.in) \in Block
    BY <2>1, <2>2, <1>0, OverwriteFacts DEF Block
  <2>5. ctx' \in Contexts
    BY <1>a, <2>2, <2>3, <2>4 DEF Contexts
  <2>6. given' = given
    BY <1>7 DEF CopyRest
  <2>7. CASE call.next # <<>>
    <3>1. call' = [call EXCEPT !.pc = "update", !.in = call.next, !.next = <<>>]
      BY <1>7, <2>7 DEF CopyRest
    <3>2. call' \in CallType /\ call'.pc = "update"
      BY <3>1, <1>a, <1>c DEF CallType
    <3> QED BY <1>a, <1>b, <2>5, <2>6, <3>2
  <2>8. CASE call.next = <<>>
    <3>1. PICK stage \in {"idle", "final"} : call' = [Idle EXCEPT !.pc = stage]
      BY <1>7, <2>8 DEF CopyRest
    <3>2. call' \in CallType /\ call'.pc = stage /\ call'.in = <<>> /\ call'.next = <<>>
      BY <3>1, <1>c DEF CallType
    <3> QED BY <1>a, <1>b, <2>5, <2>6, <3>2
  <2> QED BY <2>7, <2>8
<1>8. CASE Final
  <2> DEFINE t == increment_counter(ctx.t, ctx.buflen)
             f == set_lastblock(ctx.f, ctx.last_node)
             padded == Blank(ctx.buf, ctx.buflen, 0)
             calls == Append(ctx.calls, Compression(padded, t, f))
  <2>1. t \in Counters
    <3>1. ctx.t \in Counters /\ ctx.buflen \in Nat
      BY <1>a, <1>0 DEF Contexts
    <3> QED BY <3>1, IncrementType
  <2>2. f \in Flags
    <3>1. ctx.f[2] \in BOOLEAN /\ ctx.last_node \in BOOLEAN
      BY <1>a DEF Contexts, Flags
    <3>2. (ctx.f[2] \/ ctx.last_node) \in BOOLEAN
      OBVIOUS
    <3> QED BY <3>2, Zenon DEF set_lastblock, Flags
  <2>3. padded \in Block
    <3>1. ctx.buf \in Block /\ 0 \in Byte
      BY <1>a DEF Contexts, Byte
    <3> QED BY <3>1 DEF Blank, Block
  <2>4. call' = Idle
    BY <1>8 DEF Final
  <2>5. CASE ctx.f[1]
    <3>1. ctx' = ctx /\ given' = given
      BY <1>8, <2>5 DEF Final
    <3> QED BY <3>1, <2>4, <1>a, <1>b, <1>c DEF Idle
  <2>6. CASE ~ctx.f[1]
    <3>1. ctx' = [ctx EXCEPT !.t = t, !.f = f, !.buf = padded, !.calls = calls]
          /\ given' = [kind |-> Closed, message |-> <<>>]
      BY <1>8, <2>6 DEF Final
    <3>2. calls \in Seq(Calls)
      <4>1. Compression(padded, t, f) \in Calls
        BY <2>1, <2>2, <2>3 DEF Compression, Calls
      <4>2. ctx.calls \in Seq(Calls)
        BY <1>a DEF Contexts
      <4> QED BY <4>1, <4>2
    <3> HIDE DEF t, f, padded, calls
    <3>3. ctx' \in Contexts
      BY <1>a, <2>1, <2>2, <2>3, <3>1, <3>2 DEF Contexts
    <3>4. given' \in GivenType
      BY <3>1, <1>c, <1>f
    <3> QED BY <2>4, <3>3, <3>4, <1>b, <1>c DEF Idle
  <2> QED BY <2>5, <2>6
<1>9. CASE UNCHANGED vars
  BY <1>9, <1>a, <1>b DEF vars
<1> QED BY <1>1, <1>2, <1>3, <1>4, <1>5, <1>6, <1>7, <1>8, <1>9 DEF Next

-----------------------------------------------------------------------------
(* What an open context holds. *)

(* CallsInv of a context c, what is pending of the data included.          *)
Holds(c, pending, data) ==
  LET n == Len(c.calls)
  IN  /\ pending = Drop(data, n * BLOCKBYTES)
      /\ n > 0 => n * BLOCKBYTES < Len(data)
      /\ c.t = Counter(n * BLOCKBYTES)
      /\ \A k \in 1..n :
           c.calls[k] = Compression(BlockOf(data, k),
                                    Counter(k * BLOCKBYTES), <<FALSE, FALSE>>)

(* A block at the head of what was not compressed is the next of the data. *)
LEMMA NextBlock ==
  ASSUME NEW data \in Seq(Byte), NEW n \in Nat, n * BLOCKBYTES <= Len(data),
         NEW block \in Block, NEW rest \in Seq(Byte),
         Drop(data, n * BLOCKBYTES) = block \o rest
  PROVE  /\ block = BlockOf(data, n + 1)
         /\ rest = Drop(data, (n + 1) * BLOCKBYTES)
         /\ (n + 1) * BLOCKBYTES + Len(rest) = Len(data)
<1> DEFINE m == n * BLOCKBYTES
           d == Drop(data, m)
           k == m + BLOCKBYTES
           q == Drop(data, k)
<1>0. BLOCKBYTES \in Nat
  BY BlockAssumption
<1>1. m \in 0..Len(data) /\ (n + 1) * BLOCKBYTES = m + BLOCKBYTES
      /\ (n + 1 - 1) * BLOCKBYTES = m
  BY <1>0
<1>2. block \in Seq(Byte) /\ Len(block) = BLOCKBYTES
  BY <1>0 DEF Block
<1> HIDE DEF m
<1>3. /\ d \in Seq(Byte) /\ Len(d) = Len(data) - m
      /\ \A i \in 1..(Len(data) - m) : d[i] = data[i + m]
  BY <1>1, TakeDrop
<1>4. d = block \o rest
  BY DEF m
<1> HIDE DEF d
<1>5. /\ Len(data) - m = BLOCKBYTES + Len(rest)
      /\ \A i \in 1..(BLOCKBYTES + Len(rest)) :
           d[i] = IF i <= BLOCKBYTES THEN block[i] ELSE rest[i - BLOCKBYTES]
  BY <1>2, <1>3, <1>4, Concatenation
<1>6. block = BlockOf(data, n + 1)
  <2>1. ASSUME NEW j \in 1..BLOCKBYTES
        PROVE  m + j <= Len(data) /\ block[j] = data[m + j]
    <3>1. m + j <= Len(data) /\ j \in 1..(Len(data) - m) /\ j <= BLOCKBYTES
      BY <1>0, <1>1, <1>5
    <3>2. d[j] = block[j] /\ d[j] = data[j + m]
      BY <1>3, <1>5, <3>1
    <3> QED BY <3>1, <3>2, <1>1
  <2>2. BlockOf(data, n + 1)
          = [j \in 1..BLOCKBYTES |-> IF m + j <= Len(data) THEN data[m + j] ELSE 0]
    BY <1>1 DEF BlockOf
  <2> QED BY <2>1, <2>2 DEF Block
<1>7. k \in 0..Len(data) /\ Len(data) - k = Len(rest) /\ k = m + BLOCKBYTES
  BY <1>0, <1>1, <1>5
<1> HIDE DEF k
<1>8. /\ q \in Seq(Byte) /\ Len(q) = Len(rest)
      /\ \A i \in 1..Len(rest) : q[i] = data[i + k]
  <2>1. Len(q) = Len(data) - k /\ q \in Seq(Byte)
        /\ \A i \in 1..(Len(data) - k) : q[i] = data[i + k]
    BY <1>7, TakeDrop
  <2> QED BY <1>7, <2>1
<1> HIDE DEF q
<1>9. rest = q
  <2>1. ASSUME NEW i \in 1..Len(rest) PROVE rest[i] = q[i]
    <3>1. PICK j \in 1..(BLOCKBYTES + Len(rest)) :
            /\ j = i + BLOCKBYTES /\ ~(j <= BLOCKBYTES) /\ j - BLOCKBYTES = i
            /\ j + m = i + k
      BY <1>0, <1>1, <1>7
    <3>2. d[j] = rest[i]
      BY <1>5, <3>1
    <3>3. d[j] = data[j + m]
      BY <1>3, <1>5, <3>1
    <3> QED BY <1>8, <3>1, <3>2, <3>3
  <2> QED BY <1>8, <2>1, SameSeq
<1>10. (n + 1) * BLOCKBYTES = k /\ k + Len(rest) = Len(data)
  BY <1>1, <1>7
<1> QED BY <1>6, <1>9, <1>10 DEF q

(* A block that is compressed when more is to come is the next one.        *)
LEMMA CompressKeeps ==
  ASSUME NEW c \in Contexts, NEW block \in Block, NEW rest \in Seq(Byte),
         NEW data \in Seq(Byte), Len(rest) > 0, c.f = <<FALSE, FALSE>>,
         Holds(c, block \o rest, data)
  PROVE  Holds(Compress(c, block), rest, data)
<1> DEFINE n == Len(c.calls)
           e == Compress(c, block)
           t == increment_counter(c.t, BLOCKBYTES)
           x == Compression(block, t, c.f)
<1>0. BLOCKBYTES \in Nat /\ BLOCKBYTES < WORD
  BY BlockAssumption
<1>1. c.calls \in Seq(Calls) /\ n \in Nat /\ n * BLOCKBYTES \in Nat
  BY <1>0 DEF Contexts
<1>2. n * BLOCKBYTES <= Len(data)
  BY <1>0, <1>1 DEF Holds
<1>3. Drop(data, n * BLOCKBYTES) = block \o rest
  BY DEF Holds
<1> HIDE DEF n
<1>4. /\ block = BlockOf(data, n + 1)
      /\ rest = Drop(data, (n + 1) * BLOCKBYTES)
      /\ (n + 1) * BLOCKBYTES + Len(rest) = Len(data)
  BY <1>1, <1>2, <1>3, NextBlock
<1>5. t = Counter((n + 1) * BLOCKBYTES)
  <2>1. t = Counter(n * BLOCKBYTES + BLOCKBYTES)
    BY <1>0, <1>1, CounterAdds DEF Holds, n
  <2>2. n * BLOCKBYTES + BLOCKBYTES = (n + 1) * BLOCKBYTES
    BY <1>0, <1>1
  <2> QED BY <2>1, <2>2
<1>6. /\ e \in Contexts /\ e.calls = Append(c.calls, x) /\ e.t = t
  BY CompressType
<1>7. x = Compression(BlockOf(data, n + 1), Counter((n + 1) * BLOCKBYTES),
                      <<FALSE, FALSE>>)
  BY <1>4, <1>5
<1>8. x \in Calls
  <2>1. t \in Counters
    BY <1>6 DEF Contexts
  <2> QED BY <2>1 DEF Compression, Calls, Contexts
<1> HIDE DEF e, x, t
<1>9. /\ Len(e.calls) = n + 1 /\ e.calls[n + 1] = x
      /\ \A k \in 1..n : e.calls[k] = c.calls[k]
  BY <1>1, <1>6, <1>8 DEF n
<1>10. ASSUME NEW k \in 1..(n + 1)
       PROVE  e.calls[k] = Compression(BlockOf(data, k),
                             Counter(k * BLOCKBYTES), <<FALSE, FALSE>>)
  <2>1. CASE k = n + 1
    BY <1>7, <1>9, <2>1
  <2>2. CASE k \in 1..n
    BY <1>9, <2>2 DEF Holds, n
  <2> QED BY <1>1, <2>1, <2>2
<1>11. (n + 1) * BLOCKBYTES < Len(data)
  <2>1. (n + 1) * BLOCKBYTES \in Nat /\ Len(rest) \in Nat /\ Len(data) \in Nat
    BY <1>0, <1>1
  <2> QED BY <1>4, <2>1
<1>12. Holds(e, rest, data)
  BY <1>4, <1>5, <1>6, <1>9, <1>10, <1>11 DEF Holds
<1> QED BY <1>12 DEF e

(* A context that has just been made holds the data its first call is      *)
(* given.                                                                  *)
FreshFacts(c, size, keylen, in, next) ==
  /\ Holds(c, (Take(c.buf, c.buflen) \o in) \o next, in \o next)
  /\ c.h = [size |-> size, keylen |-> keylen]
  /\ c.f = <<FALSE, FALSE>> /\ c.last_node = FALSE /\ c.outlen = size

(* A context that was just initialised holds all of its data.              *)
LEMMA FreshHolds ==
  ASSUME NEW size \in Nat, NEW keylen \in Nat, NEW in \in Seq(Byte),
         NEW next \in Seq(Byte)
  PROVE  FreshFacts(init_param(size, keylen), size, keylen, in, next)
<1> DEFINE c == init_param(size, keylen)
<1>0. BLOCKBYTES \in Nat /\ WORD \in Nat /\ WORD > 0
  BY BlockAssumption
<1>1. /\ c.calls = <<>> /\ c.t = <<0, 0>> /\ c.buflen = 0
      /\ c.h = [size |-> size, keylen |-> keylen]
      /\ c.f = <<FALSE, FALSE>> /\ c.last_node = FALSE /\ c.outlen = size
  BY DEF init_param, NoContext
<1>2. c.buf \in Seq(Byte)
  <2>1. c \in Contexts
    BY NewContextType
  <2>2. c.buf \in [1..BLOCKBYTES -> Byte]
    BY <2>1 DEF Contexts, Block
  <2> QED BY <1>0, <2>2
<1>3. Take(c.buf, 0) = <<>>
  BY <1>2 DEF Take
<1>4. (Take(c.buf, c.buflen) \o in) \o next = in \o next
  BY <1>1, <1>3, EmptyIsNeutral
<1>5. in \o next \in Seq(Byte)
  OBVIOUS
<1>6. Counter(0) = <<0, 0>>
  <2>1. 0 = 0 * WORD + 0 /\ 0 \in 0..(WORD - 1)
    BY <1>0
  <2>2. 0 \div WORD = 0 /\ 0 % WORD = 0
    BY <2>1, <1>0, DivisionUnique
  <2> QED BY <2>2 DEF Counter
<1>7. in \o next = Drop(in \o next, 0)
  <2>1. 0 \in 0..Len(in \o next)
    BY <1>5
  <2>2. in \o next = Take(in \o next, 0) \o Drop(in \o next, 0)
        /\ Drop(in \o next, 0) \in Seq(Byte)
    BY <1>5, <2>1, Cut, TakeDrop
  <2>3. Take(in \o next, 0) = <<>>
    BY <1>5 DEF Take
  <2> QED BY <2>2, <2>3, EmptyIsNeutral
<1>8. Len(c.calls) = 0 /\ 0 * BLOCKBYTES = 0
  BY <1>0, <1>1
<1> HIDE DEF c
<1>9. Holds(c, in \o next, in \o next)
  BY <1>1, <1>6, <1>7, <1>8 DEF Holds
<1>10. FreshFacts(c, size, keylen, in, next)
  BY <1>1, <1>4, <1>9 DEF FreshFacts
<1> QED BY <1>10 DEF c

(* More data leaves what was compressed as it is.                          *)
LEMMA MoreHolds ==
  ASSUME NEW c \in Contexts, NEW pending \in Seq(Byte), NEW data \in Seq(Byte),
         NEW bytes \in Seq(Byte), Holds(c, pending, data)
  PROVE  Holds(c, pending \o bytes, data \o bytes)
<1> DEFINE n == Len(c.calls)
           m == n * BLOCKBYTES
           all == data \o bytes
<1>0. BLOCKBYTES \in Nat
  BY BlockAssumption
<1>1. n \in Nat /\ m \in Nat
  BY <1>0 DEF Contexts
<1>2. pending = Drop(data, m) /\ (n > 0 => m < Len(data))
  BY DEF Holds
<1>3. m \in 0..Len(data)
  BY <1>0, <1>1, <1>2
<1>4. /\ all \in Seq(Byte) /\ Len(all) = Len(data) + Len(bytes)
      /\ \A i \in 1..Len(data) : all[i] = data[i]
  BY Concatenation
<1>5. pending \o bytes = Drop(all, m)
  <2> DEFINE p == Take(data, m)
  <2>1. data = p \o pending /\ p \in Seq(Byte) /\ Len(p) = m
    BY <1>2, <1>3, Cut, TakeDrop
  <2> HIDE DEF p
  <2>2. (p \o pending) \o bytes = p \o (pending \o bytes)
    BY <2>1, Associative
  <2>3. all = p \o (pending \o bytes)
    BY <2>1, <2>2
  <2>4. pending \o bytes \in Seq(Byte)
    OBVIOUS
  <2> HIDE DEF all, m
  <2> QED BY <2>1, <2>3, <2>4, DropOfCat
<1>6. ASSUME NEW k \in 1..n PROVE BlockOf(all, k) = BlockOf(data, k)
  <2>1. ASSUME NEW j \in 1..BLOCKBYTES
        PROVE  (k - 1) * BLOCKBYTES + j \in 1..Len(data)
    <3> DEFINE u == (k - 1) * BLOCKBYTES
               v == (n - k) * BLOCKBYTES
    <3>1. n \in Nat
      BY <1>1
    <3> HIDE DEF n
    <3>2. u \in Nat /\ v \in Nat
      <4>1. k - 1 \in Nat /\ n - k \in Nat
        BY <3>1
      <4> QED BY <4>1, <1>0
    <3>3. m = u + BLOCKBYTES + v
      BY <1>0, <3>1
    <3> HIDE DEF u, v, m
    <3>4. u + j \in 1..Len(data)
      BY <1>0, <1>3, <3>2, <3>3
    <3> QED BY <3>4 DEF u
  <2>2. ASSUME NEW j \in 1..BLOCKBYTES
        PROVE  LET i == (k - 1) * BLOCKBYTES + j
               IN  /\ i <= Len(data) /\ i <= Len(all) /\ all[i] = data[i]
    BY <1>4, <2>1
  <2> QED BY <2>2 DEF BlockOf
<1>7. n > 0 => m < Len(all)
  BY <1>1, <1>2, <1>4
<1> QED BY <1>5, <1>6, <1>7 DEF Holds

-----------------------------------------------------------------------------
(* NothingLost is inductive, given the types.                              *)

IsOpen(g) == g.kind # Closed /\ g.kind # Refused

(* A refused context is not a closed one.                                  *)
LEMMA KindsDiffer == Refused # Closed /\ Refused.size = 0
BY DEF Refused, Closed, Opened

(* A context that was opened is neither closed nor refused.                *)
LEMMA OpenedIsOpen ==
  ASSUME NEW size \in 1..OUTBYTES, NEW key
  PROVE  /\ Opened(size, key) # Closed /\ Opened(size, key) # Refused
         /\ Opened(size, key).size = size /\ Opened(size, key).key = key
<1>1. size # 0
  BY BlockAssumption
<1>2. Closed.open = FALSE /\ Opened(size, key).open = TRUE
  BY DEF Closed, Refused, Opened
<1> QED BY <1>1, <1>2 DEF Refused, Opened

(* The data of an open context, its key block first, is a string.          *)
LEMMA DataType ==
  ASSUME NEW g \in GivenType, g.kind \in OpenKinds
  PROVE  Data(g.kind, g.message) \in Seq(Byte)
<1>1. PICK size \in 1..OUTBYTES, key \in LegalKeys : g.kind = Opened(size, key)
  BY DEF OpenKinds
<1>2. g.kind.key = key /\ KeyBlock(key) \in Seq(Byte) /\ <<>> \in Seq(Byte)
      /\ g.message \in Seq(Byte)
  BY <1>1, KeyBlockType DEF Opened, GivenType
<1> QED BY <1>2 DEF Data

(* The first context has lost nothing.                                     *)
LEMMA LostInit == Init => NothingLost
<1> SUFFICES ASSUME Init PROVE NothingLost
  OBVIOUS
<1>1. PICK size \in Sizes :
        /\ LegalSize(size) /\ ctx = init_param(size, 0) /\ call = Idle
        /\ hash = Zeroes
        /\ given = [kind |-> Opened(size, <<>>), message |-> <<>>]
  BY DEF Init
<1>2. size \in 1..OUTBYTES /\ size \in Nat
  BY <1>1, CallerAssumption, BlockAssumption DEF LegalSize
<1>3. TypeInv
  BY TypeInit
<1>4. BufferInv
  BY <1>3 DEF TypeInv, BufferInv, Contexts, Block
<1>5. <<>> \in Seq(Byte) /\ <<>> \o <<>> = <<>> /\ Len(<<>>) = 0
  OBVIOUS
<1>6. /\ Holds(ctx, (Take(ctx.buf, ctx.buflen) \o <<>>) \o <<>>, <<>>)
      /\ ctx.h = [size |-> size, keylen |-> 0]
      /\ ctx.f = <<FALSE, FALSE>> /\ ctx.last_node = FALSE /\ ctx.outlen = size
  <2>1. FreshFacts(ctx, size, 0, <<>>, <<>>)
    BY <1>1, <1>2, <1>5, FreshHolds
  <2> QED BY <2>1, <1>5 DEF FreshFacts
<1>7. /\ given.kind # Closed /\ given.kind.size = size /\ given.kind.key = <<>>
      /\ Data(given.kind, given.message) = <<>>
  BY <1>1, <1>2, <1>5, OpenedIsOpen DEF Data
<1>8. CallsInv
  BY <1>1, <1>6, <1>7 DEF CallsInv, Pending, Holds, Idle
<1>9. ContextInv
  BY <1>1, <1>5, <1>6, <1>7, <1>8 DEF ContextInv
<1> QED BY <1>4, <1>9 DEF NothingLost

(* No call and no step of blake2b_update loses or repeats a byte.          *)
LEMMA LostStep == TypeInv /\ TypeInv' /\ NothingLost /\ [Next]_vars => NothingLost'
<1> SUFFICES ASSUME TypeInv, TypeInv', NothingLost, [Next]_vars PROVE NothingLost'
  OBVIOUS
<1>0. BLOCKBYTES \in Nat /\ BLOCKBYTES > 0
  BY BlockAssumption
<1>a. /\ ctx \in Contexts /\ ctx' \in Contexts
      /\ call \in CallType /\ call' \in CallType
      /\ given \in GivenType /\ given' \in GivenType
      /\ call.pc \in {"idle", "final"} => call.in = <<>> /\ call.next = <<>>
      /\ call.pc = "loop" => ctx.buflen = 0
  BY DEF TypeInv, CallType, GivenType
<1>b. BufferInv'
  BY DEF TypeInv, BufferInv, Contexts, Block
<1>c. ContextInv
  BY DEF NothingLost
<1>d. ASSUME ContextInv' PROVE NothingLost'
  BY <1>b, <1>d DEF NothingLost
<1>e. IsOpen(given) =>
        /\ given.kind \in OpenKinds
        /\ Holds(ctx, Pending, Data(given.kind, given.message))
        /\ Data(given.kind, given.message) \in Seq(Byte)
        /\ ctx.f = <<FALSE, FALSE>>
  <2>1. ASSUME IsOpen(given) PROVE given.kind \in OpenKinds
    BY <2>1, <1>a DEF GivenType, IsOpen
  <2>2. ASSUME IsOpen(given)
        PROVE  CallsInv /\ ctx.f = <<FALSE, FALSE>>
    BY <2>2, <1>c DEF ContextInv, IsOpen
  <2> QED BY <2>1, <2>2, <1>a, DataType DEF CallsInv, Holds
<1>f. ASSUME given' = given, hash' = hash, ctx'.h = ctx.h, ctx'.f = ctx.f,
             ctx'.outlen = ctx.outlen, ctx'.last_node = ctx.last_node,
             IsOpen(given) =>
               Holds(ctx', Pending', Data(given.kind, given.message))
      PROVE  ContextInv'
  <2>1. IsOpen(given) => CallsInv'
    BY <1>f DEF CallsInv, Holds
  <2> QED BY <2>1, <1>c, <1>f DEF ContextInv, IsOpen
<1>g. ASSUME NEW size \in 1..OUTBYTES, NEW key \in LegalKeys,
             ctx' = init_param(size, Len(key)), hash' = Zeroes,
             given'.kind = Opened(size, key),
             Data(given.kind, given.message)' = call'.in \o call'.next
      PROVE  ContextInv'
  <2>1. Len(key) \in Nat /\ size \in Nat
    BY CallerAssumption, BlockAssumption DEF LegalKeys
  <2>2. call'.in \in Seq(Byte) /\ call'.next \in Seq(Byte)
    BY <1>a DEF CallType
  <2>3. /\ Holds(ctx', (Take(ctx'.buf, ctx'.buflen) \o call'.in) \o call'.next,
                 call'.in \o call'.next)
        /\ ctx'.h = [size |-> size, keylen |-> Len(key)]
        /\ ctx'.f = <<FALSE, FALSE>> /\ ctx'.last_node = FALSE
        /\ ctx'.outlen = size
    <3>1. FreshFacts(ctx', size, Len(key), call'.in, call'.next)
      BY <1>g, <2>1, <2>2, FreshHolds
    <3> QED BY <3>1 DEF FreshFacts
  <2>4. CallsInv'
    BY <1>g, <2>3 DEF CallsInv, Pending, Holds
  <2>5. given'.kind # Closed /\ given'.kind.size = size /\ given'.kind.key = key
    BY <1>g, OpenedIsOpen
  <2> QED BY <1>g, <2>3, <2>4, <2>5 DEF ContextInv
<1>h. ASSUME ctx' = NoContext, hash' = Zeroes, given'.kind = Refused
      PROVE  ContextInv'
  <2>1. Refused # Closed /\ Refused.size = 0
    BY KindsDiffer
  <2>2. /\ NoContext.f = <<FALSE, FALSE>> /\ NoContext.last_node = FALSE
        /\ NoContext.outlen = 0
    BY DEF NoContext
  <2> QED BY <1>h, <2>1, <2>2 DEF ContextInv
<1>i. \A size \in Sizes : LegalSize(size) => size \in 1..OUTBYTES
  BY CallerAssumption, BlockAssumption DEF LegalSize
<1>j. <<>> \in LegalKeys /\ Len(<<>>) = 0 /\ <<>> \o <<>> = <<>>
  BY BlockAssumption DEF LegalKeys
<1>k. \A size, key, m : Data(Opened(size, key), m)
                          = (IF key = <<>> THEN <<>> ELSE KeyBlock(key)) \o m
  BY DEF Data, Opened
<1>1. ASSUME NEW size \in Sizes, Init_(size) PROVE NothingLost'
  <2>1. CASE LegalSize(size)
    <3>1. /\ ctx' = init_param(size, Len(<<>>)) /\ hash' = Zeroes
          /\ given' = [kind |-> Opened(size, <<>>), message |-> <<>>]
          /\ call'.in = <<>> /\ call'.next = <<>>
      BY <1>1, <2>1, <1>a, <1>j DEF Init_
    <3>2. Data(given.kind, given.message)' = <<>>
      BY <3>1, <1>j, <1>k
    <3> QED BY <2>1, <3>1, <3>2, <1>d, <1>g, <1>i, <1>j
  <2>2. CASE ~LegalSize(size)
    BY <1>1, <2>2, <1>d, <1>h DEF Init_
  <2> QED BY <2>1, <2>2
<1>2. ASSUME NEW size \in Sizes, NEW key \in Keys, InitKey(size, key) PROVE NothingLost'
  <2>1. CASE LegalSize(size) /\ LegalKey(key)
    <3>1. key \in LegalKeys /\ key # <<>>
      BY <2>1, BlockAssumption, CallerAssumption DEF LegalKey, LegalKeys
    <3>2. /\ ctx' = init_param(size, Len(key)) /\ hash' = Zeroes
          /\ given' = [kind |-> Opened(size, key), message |-> <<>>]
          /\ call'.in = KeyBlock(key) /\ call'.next = <<>>
      BY <1>2, <2>1 DEF InitKey, Idle
    <3>3. Data(given.kind, given.message)' = KeyBlock(key) \o <<>>
      BY <3>1, <3>2, <1>k
    <3> QED BY <2>1, <3>1, <3>2, <3>3, <1>d, <1>g, <1>i
  <2>2. CASE ~(LegalSize(size) /\ LegalKey(key))
    BY <1>2, <2>2, <1>d, <1>h DEF InitKey
  <2> QED BY <2>1, <2>2
<1>4. ASSUME NEW size \in Sizes, NEW key \in Keys \cup {<<>>}, NEW l \in Lengths,
             Direct(size, key, Text(0, l))
      PROVE  NothingLost'
  <2> DEFINE bytes == Text(0, l)
  <2>1. bytes \in Seq(Byte)
    BY TextType, CallerAssumption
  <2>2. key \in LegalKeys /\ LegalSize(size)
    BY <1>4 DEF Direct, LegalKeys
  <2>3. /\ ctx' = init_param(size, Len(key)) /\ hash' = Zeroes
        /\ given' = [kind |-> Opened(size, key), message |-> bytes]
        /\ call'.in = IF key = <<>> THEN bytes ELSE KeyBlock(key)
        /\ call'.next = IF key = <<>> THEN <<>> ELSE bytes
    BY <1>4 DEF Direct
  <2> HIDE DEF bytes
  <2>4. Data(given.kind, given.message)' = call'.in \o call'.next
    <3>1. Data(given.kind, given.message)'
            = (IF key = <<>> THEN <<>> ELSE KeyBlock(key)) \o bytes
      BY <2>3, <1>k
    <3>2. <<>> \o bytes = bytes /\ bytes \o <<>> = bytes
      BY <2>1, EmptyIsNeutral
    <3> QED BY <2>3, <3>1, <3>2
  <2> QED BY <2>2, <2>3, <2>4, <1>d, <1>g, <1>i
<1>3. ASSUME NEW l \in Lengths, Update(Text(Len(given.message), l)) PROVE NothingLost'
  <2> DEFINE bytes == Text(Len(given.message), l)
             data == Data(given.kind, given.message)
  <2>1. bytes \in Seq(Byte)
    BY TextType, CallerAssumption, <1>a DEF GivenType
  <2>2. /\ ctx' = ctx /\ hash' = hash /\ call.pc = "idle"
        /\ call'.in = bytes /\ call'.next = <<>>
        /\ given' = IF given.kind = Closed THEN given
                    ELSE [given EXCEPT !.message = @ \o bytes]
    BY <1>3 DEF Update, Idle
  <2> HIDE DEF bytes
  <2>3. CASE given.kind = Closed
    BY <2>2, <2>3, <1>c, <1>d DEF ContextInv
  <2>4. CASE given.kind = Refused
    <3>1. given'.kind = Refused
      BY <2>2, <2>4, <1>a, KindsDiffer DEF GivenType
    <3> QED BY <2>2, <2>4, <3>1, <1>c, <1>d, KindsDiffer DEF ContextInv
  <2>5. CASE IsOpen(given)
    <3>1. given'.kind = given.kind /\ given'.message = given.message \o bytes
      BY <2>2, <2>5, <1>a DEF GivenType, IsOpen
    <3>2. Pending' = Pending \o bytes /\ Pending \in Seq(Byte)
      <4> DEFINE p == Take(ctx.buf, ctx.buflen)
      <4>1. p \in Seq(Byte)
        <5>1. ctx.buf \in Seq(Byte) /\ Len(ctx.buf) = BLOCKBYTES
              /\ ctx.buflen \in 0..BLOCKBYTES
          BY <1>0, <1>a DEF Contexts, Block
        <5> QED BY <5>1, TakeDrop
      <4>2. Pending = (p \o <<>>) \o <<>> /\ Pending' = (p \o bytes) \o <<>>
        BY <2>2, <1>a DEF Pending
      <4> HIDE DEF p
      <4>3. p \o bytes \in Seq(Byte)
        BY <2>1, <4>1
      <4> QED BY <4>1, <4>2, <4>3, EmptyIsNeutral
    <3>3. data \in Seq(Byte) /\ Holds(ctx, Pending, data)
      BY <2>5, <1>e
    <3>4. Data(given.kind, given.message)' = data \o bytes
      <4>1. PICK size \in 1..OUTBYTES, key \in LegalKeys :
              given.kind = Opened(size, key)
        BY <2>5, <1>e DEF OpenKinds
      <4> DEFINE q == IF key = <<>> THEN <<>> ELSE KeyBlock(key)
      <4>2. q \in Seq(Byte) /\ given.message \in Seq(Byte)
        <5>1. KeyBlock(key) \in Seq(Byte) /\ <<>> \in Seq(Byte)
          BY KeyBlockType
        <5> QED BY <5>1, <1>a DEF GivenType
      <4>3. data = q \o given.message
        BY <4>1, <1>k
      <4>4. Data(given.kind, given.message)' = q \o (given.message \o bytes)
        <5>1. Data(given.kind, given.message)'
                = Data(Opened(size, key), given.message \o bytes)
          BY <3>1, <4>1
        <5> QED BY <5>1, <1>k
      <4> HIDE DEF q, data
      <4>5. (q \o given.message) \o bytes = q \o (given.message \o bytes)
        <5> DEFINE m == given.message
        <5>1. m \in Seq(Byte)
          BY <4>2
        <5> HIDE DEF m
        <5>2. (q \o m) \o bytes = q \o (m \o bytes)
          BY <2>1, <4>2, <5>1, Associative
        <5> QED BY <5>2 DEF m
      <4> QED BY <4>3, <4>4, <4>5
    <3> HIDE DEF data
    <3>5. Holds(ctx, Pending \o bytes, data \o bytes)
      BY <2>1, <3>2, <3>3, <1>a, MoreHolds
    <3>6. CallsInv'
      BY <2>2, <3>2, <3>4, <3>5 DEF CallsInv, Holds
    <3> QED BY <2>2, <2>5, <3>1, <3>6, <1>c, <1>d DEF ContextInv, IsOpen
  <2> QED BY <2>3, <2>4, <2>5 DEF IsOpen
<1>5. CASE FillBuffer
  <2> DEFINE left == ctx.buflen
             fill == BLOCKBYTES - left
             full == Overwrite(ctx.buf, left, Take(call.in, fill))
             c == [ctx EXCEPT !.buflen = 0, !.buf = full]
             rest == Drop(call.in, fill)
  <2>1. Len(call.in) > fill /\ ctx' = Compress(c, full)
        /\ call' = [call EXCEPT !.pc = "loop", !.in = rest]
        /\ given' = given /\ hash' = hash
    BY <1>5 DEF FillBuffer
  <2>2. /\ ctx.buf \in [1..BLOCKBYTES -> Byte] /\ left \in 0..BLOCKBYTES
        /\ call.in \in Seq(Byte) /\ call.next \in Seq(Byte)
    BY <1>a DEF Contexts, Block, CallType
  <2>3. fill \in 0..Len(call.in) /\ left + fill = BLOCKBYTES /\ fill \in Nat
    BY <2>1, <2>2, <1>0
  <2> HIDE DEF left, fill
  <2>4. /\ Take(call.in, fill) \in Seq(Byte) /\ Len(Take(call.in, fill)) = fill
        /\ rest \in Seq(Byte) /\ Len(rest) > 0
        /\ call.in = Take(call.in, fill) \o rest
    <3>1. fill \in Nat /\ fill < Len(call.in) /\ call.in \in Seq(Byte)
      BY <2>1, <2>2, <2>3
    <3> QED BY <3>1, Split
  <2>5. full \in Block
    BY <2>2, <2>3, FilledType DEF Block
  <2>6. full = Take(ctx.buf, left) \o Take(call.in, fill)
    <3> DEFINE k == Take(call.in, fill)
    <3>1. k \in Seq(Byte) /\ left + Len(k) = BLOCKBYTES
      BY <2>3, <2>4
    <3> HIDE DEF k
    <3>2. Take(Overwrite(ctx.buf, left, k), left + Len(k))
            = Take(ctx.buf, left) \o k
      <4> DEFINE b == ctx.buf
      <4>1. left + Len(k) <= BLOCKBYTES /\ BLOCKBYTES \in Nat
        BY <3>1, <1>0
      <4>2. b \in [1..BLOCKBYTES -> Byte] /\ left \in 0..BLOCKBYTES
        BY <2>2
      <4>3. k \in Seq(Byte)
        BY <3>1
      <4> HIDE DEF b
      <4>4. Take(Overwrite(b, left, k), left + Len(k)) = Take(b, left) \o k
        BY <4>1, <4>2, <4>3, Appended
      <4> QED BY <4>4 DEF b
    <3>3. full \in Seq(Byte) /\ Len(full) = BLOCKBYTES
      <4> HIDE DEF full
      <4> QED BY <2>5, <1>0 DEF Block
    <3>4. full = Overwrite(ctx.buf, left, k)
      BY DEF k
    <3> HIDE DEF full
    <3>5. Take(full, BLOCKBYTES) = full
      BY <3>3, TakeAll
    <3>6. full = Take(ctx.buf, left) \o k
      BY <3>1, <3>2, <3>4, <3>5
    <3> QED BY <3>6 DEF k
  <2>7. /\ c \in Contexts /\ c.calls = ctx.calls /\ c.t = ctx.t /\ c.f = ctx.f
        /\ c.h = ctx.h /\ c.outlen = ctx.outlen /\ c.last_node = ctx.last_node
        /\ c.buf = full /\ c.buflen = 0
    <3>1. 0 \in 0..BLOCKBYTES
      BY <1>0
    <3> HIDE DEF full
    <3> QED BY <2>5, <3>1, <1>a DEF Contexts
  <2> HIDE DEF c
  <2>8. /\ ctx'.h = ctx.h /\ ctx'.f = ctx.f /\ ctx'.outlen = ctx.outlen
        /\ ctx'.last_node = ctx.last_node /\ ctx'.buf = full /\ ctx'.buflen = 0
    BY <2>1, <2>5, <2>7, CompressType
  <2>9. Pending = full \o (rest \o call.next) /\ Pending' = rest \o call.next
    <3> DEFINE p == Take(ctx.buf, left)
               k == Take(call.in, fill)
    <3>1. p \in Seq(Byte) /\ k \in Seq(Byte)
      <4>1. ctx.buf \in Seq(Byte) /\ Len(ctx.buf) = BLOCKBYTES
        BY <2>2, <1>0
      <4> QED BY <4>1, <2>2, <2>4, TakeDrop
    <3>2. Pending = (p \o (k \o rest)) \o call.next /\ full = p \o k
      BY <2>4, <2>6 DEF Pending, left
    <3> HIDE DEF p, k, rest, full
    <3>3. p \o (k \o rest) = full \o rest /\ full \in Seq(Byte)
      BY <2>4, <3>1, <3>2, Associative
    <3>4. (full \o rest) \o call.next = full \o (rest \o call.next)
      <4> DEFINE next == call.next
      <4>1. full \in Seq(Byte) /\ rest \in Seq(Byte) /\ next \in Seq(Byte)
        BY <2>2, <2>4, <3>3
      <4> HIDE DEF next
      <4>2. (full \o rest) \o next = full \o (rest \o next)
        BY <4>1, Associative
      <4> QED BY <4>2 DEF next
    <3>5. Take(ctx'.buf, 0) = <<>>
      BY <2>8, <3>3 DEF Take
    <3>6. call'.in = rest /\ call'.next = call.next
      BY <2>1, <1>a DEF CallType
    <3>7. Pending' = (<<>> \o rest) \o call.next
      BY <2>8, <3>5, <3>6 DEF Pending
    <3> QED BY <2>4, <3>2, <3>3, <3>4, <3>7, EmptyIsNeutral
  <2> HIDE DEF full, rest
  <2>10. rest \o call.next \in Seq(Byte) /\ Len(rest \o call.next) > 0
    BY <2>2, <2>4
  <2>11. ASSUME IsOpen(given)
         PROVE  Holds(ctx', Pending', Data(given.kind, given.message))
    <3> DEFINE data == Data(given.kind, given.message)
    <3>1. data \in Seq(Byte) /\ Holds(c, full \o (rest \o call.next), data)
          /\ c.f = <<FALSE, FALSE>>
      BY <2>7, <2>9, <2>11, <1>e DEF Holds
    <3> HIDE DEF data
    <3>2. Holds(Compress(c, full), rest \o call.next, data)
      BY <2>5, <2>7, <2>10, <3>1, CompressKeeps
    <3> QED BY <2>1, <2>9, <3>2 DEF data
  <2> QED BY <2>1, <2>8, <2>11, <1>d, <1>f
<1>6. CASE CompressInput
  <2> DEFINE block == Take(call.in, BLOCKBYTES)
             rest == Drop(call.in, BLOCKBYTES)
  <2>1. call.pc = "loop" /\ Len(call.in) > BLOCKBYTES /\ ctx' = Compress(ctx, block)
        /\ call' = [call EXCEPT !.in = rest] /\ given' = given /\ hash' = hash
    BY <1>6 DEF CompressInput
  <2>2. /\ call.in \in Seq(Byte) /\ call.next \in Seq(Byte)
        /\ BLOCKBYTES \in 0..Len(call.in) /\ ctx.buflen = 0
    BY <2>1, <1>0, <1>a DEF CallType
  <2>3. /\ block \in Seq(Byte) /\ Len(block) = BLOCKBYTES
        /\ rest \in Seq(Byte) /\ Len(rest) > 0 /\ call.in = block \o rest
    <3>1. BLOCKBYTES \in Nat /\ BLOCKBYTES < Len(call.in) /\ call.in \in Seq(Byte)
      BY <2>1, <2>2, <1>0
    <3> QED BY <3>1, Split
  <2> HIDE DEF block, rest
  <2>4. block \in Block
    BY <2>3 DEF Block
  <2>5. /\ ctx'.h = ctx.h /\ ctx'.f = ctx.f /\ ctx'.outlen = ctx.outlen
        /\ ctx'.last_node = ctx.last_node /\ ctx'.buf = ctx.buf
        /\ ctx'.buflen = 0
    BY <2>1, <2>2, <2>4, <1>a, CompressType
  <2>6. Pending = block \o (rest \o call.next) /\ Pending' = rest \o call.next
    <3>1. Take(ctx.buf, 0) = <<>>
      <4>1. ctx.buf \in Seq(Byte)
        BY <1>0, <1>a DEF Contexts, Block
      <4> QED BY <4>1 DEF Take
    <3>2. call'.in = rest /\ call'.next = call.next
      BY <2>1, <1>a DEF CallType
    <3>3. Pending = (<<>> \o (block \o rest)) \o call.next
          /\ Pending' = (<<>> \o rest) \o call.next
      BY <2>2, <2>3, <2>5, <3>1, <3>2 DEF Pending
    <3>4. block \o rest \in Seq(Byte)
      BY <2>3
    <3>5. <<>> \o (block \o rest) = block \o rest /\ <<>> \o rest = rest
      BY <2>3, <3>4, EmptyIsNeutral
    <3>6. (block \o rest) \o call.next = block \o (rest \o call.next)
      <4> DEFINE next == call.next
      <4>1. block \in Seq(Byte) /\ rest \in Seq(Byte) /\ next \in Seq(Byte)
        BY <2>2, <2>3
      <4> HIDE DEF next
      <4>2. (block \o rest) \o next = block \o (rest \o next)
        BY <4>1, Associative
      <4> QED BY <4>2 DEF next
    <3> QED BY <3>3, <3>5, <3>6
  <2>7. rest \o call.next \in Seq(Byte) /\ Len(rest \o call.next) > 0
    BY <2>2, <2>3
  <2>8. ASSUME IsOpen(given)
        PROVE  Holds(ctx', Pending', Data(given.kind, given.message))
    <3> DEFINE data == Data(given.kind, given.message)
    <3>1. data \in Seq(Byte) /\ Holds(ctx, block \o (rest \o call.next), data)
          /\ ctx.f = <<FALSE, FALSE>>
      BY <2>6, <2>8, <1>e
    <3> HIDE DEF data
    <3>2. Holds(Compress(ctx, block), rest \o call.next, data)
      BY <2>4, <2>7, <3>1, <1>a, CompressKeeps
    <3> QED BY <2>1, <2>6, <3>2 DEF data
  <2> QED BY <2>1, <2>5, <2>8, <1>d, <1>f
<1>7. CASE CopyRest
  <2> DEFINE left == ctx.buflen
             buf == Overwrite(ctx.buf, left, call.in)
             len == left + Len(call.in)
  <2>1. /\ ctx.buf \in [1..BLOCKBYTES -> Byte] /\ left \in 0..BLOCKBYTES
        /\ call.in \in Seq(Byte) /\ call.next \in Seq(Byte)
    BY <1>a DEF Contexts, Block, CallType
  <2>2. len \in 0..BLOCKBYTES
    BY <1>7, <1>0, <1>a, <2>1 DEF CopyRest
  <2>3. ctx' = [ctx EXCEPT !.buf = buf, !.buflen = len]
        /\ given' = given /\ hash' = hash
    BY <1>7, <1>a DEF CopyRest, Contexts
  <2>4. Take(buf, len) = Take(ctx.buf, left) \o call.in
    <3>1. left \in 0..BLOCKBYTES /\ left + Len(call.in) <= BLOCKBYTES
      BY <2>1, <2>2, <1>0
    <3> HIDE DEF left
    <3> QED BY <3>1, <2>1, <1>0, Appended
  <2> HIDE DEF left, buf, len
  <2>5. /\ ctx'.h = ctx.h /\ ctx'.f = ctx.f /\ ctx'.outlen = ctx.outlen
        /\ ctx'.last_node = ctx.last_node /\ ctx'.buf = buf /\ ctx'.buflen = len
        /\ ctx'.calls = ctx.calls /\ ctx'.t = ctx.t
    BY <2>3, <1>a DEF Contexts
  <2>6. \/ call'.in = call.next /\ call'.next = <<>>
        \/ call'.in = <<>> /\ call'.next = <<>> /\ call.next = <<>>
    <3>1. CASE call.next # <<>>
      BY <1>7, <3>1, <1>a DEF CopyRest, CallType
    <3>2. CASE call.next = <<>>
      BY <1>7, <3>2 DEF CopyRest, Idle
    <3> QED BY <3>1, <3>2
  <2>7. Pending' = Pending
    <3> DEFINE p == Take(ctx.buf, left) \o call.in
    <3>1. p \in Seq(Byte)
      <4>1. ctx.buf \in Seq(Byte) /\ Len(ctx.buf) = BLOCKBYTES
        BY <2>1, <1>0
      <4>2. Take(ctx.buf, left) \in Seq(Byte)
        BY <4>1, <2>1, TakeDrop
      <4> QED BY <2>1, <4>2
    <3>2. Pending = p \o call.next
      BY DEF Pending, left
    <3>3. Pending' = (p \o call'.in) \o call'.next
      BY <2>4, <2>5 DEF Pending
    <3> HIDE DEF p
    <3>4. p \o call'.in \in Seq(Byte) /\ call'.in = call.next /\ call'.next = <<>>
      BY <2>1, <2>6, <3>1
    <3> QED BY <3>2, <3>3, <3>4, EmptyIsNeutral
  <2>8. ASSUME IsOpen(given)
        PROVE  Holds(ctx', Pending', Data(given.kind, given.message))
    BY <2>5, <2>7, <2>8, <1>e DEF Holds
  <2> QED BY <2>3, <2>5, <2>8, <1>d, <1>f
<1>8. CASE Final
  <2>1. CASE ctx.f[1]
    <3>1. /\ ctx' = ctx /\ hash' = hash /\ given' = given
          /\ call.in = <<>> /\ call.next = <<>>
          /\ call'.in = <<>> /\ call'.next = <<>>
      BY <1>8, <2>1, <1>a DEF Final, Idle
    <3>2. Pending' = Pending
      BY <3>1 DEF Pending
    <3> QED BY <3>1, <3>2, <1>d, <1>e, <1>f
  <2>2. CASE ~ctx.f[1]
    <3>1. given'.kind = Closed
      BY <1>8, <2>2 DEF Final
    <3>2. ctx'.f[1] = TRUE
      <4> DEFINE f == set_lastblock(ctx.f, ctx.last_node)
                 t == increment_counter(ctx.t, ctx.buflen)
                 buf == Blank(ctx.buf, ctx.buflen, 0)
                 calls == Append(ctx.calls, Compression(buf, t, f))
      <4>1. ctx' = [ctx EXCEPT !.t = t, !.f = f, !.buf = buf, !.calls = calls]
        BY <1>8, <2>2 DEF Final
      <4>2. f[1] = TRUE
        BY DEF set_lastblock
      <4> HIDE DEF t, f, buf, calls
      <4>3. ctx'.f = f
        BY <4>1, <1>a DEF Contexts
      <4> QED BY <4>2, <4>3
    <3> QED BY <3>1, <3>2, <1>d DEF ContextInv
  <2> QED BY <2>1, <2>2
<1>9. CASE UNCHANGED vars
  <2>1. Pending' = Pending
    BY <1>9 DEF vars, Pending
  <2> QED BY <1>9, <2>1, <1>d, <1>e, <1>f DEF vars
<1> QED BY <1>1, <1>2, <1>3, <1>4, <1>5, <1>6, <1>7, <1>8, <1>9 DEF Next

(* The buffer never holds more than a block, the running call knows what is *)
(* left of its input, the counter stays in its words (blake2b-ref.c).      *)
THEOREM TypeCorrect == Spec => []TypeInv
<1> QED BY TypeInit, TypeStep, PTL DEF Spec

(* An open context holds what it was fed, each byte once and in its place, *)
(* and has counted it, whatever the calls were (blake2b_update).           *)
THEOREM NothingIsLost == Spec => []NothingLost
<1>1. TypeInv /\ NothingLost /\ [Next]_vars => TypeInv' /\ NothingLost'
  BY TypeStep, LostStep
<1> QED BY <1>1, TypeInit, LostInit, PTL DEF Spec

-----------------------------------------------------------------------------
(* The digest. *)

(* What is left in the buffer, with zeros behind it, is the last block.    *)
LEMMA LastBlock ==
  ASSUME NEW data \in Seq(Byte), NEW n \in Nat, n * BLOCKBYTES <= Len(data),
         n > 0 => n * BLOCKBYTES < Len(data),
         NEW buf \in Block, NEW len \in 0..BLOCKBYTES,
         Take(buf, len) = Drop(data, n * BLOCKBYTES)
  PROVE  /\ Len(data) = n * BLOCKBYTES + len
         /\ Blank(buf, len, 0) = BlockOf(data, n + 1)
         /\ Blocks(Len(data)) = n + 1
<1> DEFINE m == n * BLOCKBYTES
           d == Drop(data, m)
<1>0. BLOCKBYTES \in Nat /\ BLOCKBYTES > 0
  BY BlockAssumption
<1>1. m \in 0..Len(data) /\ (n + 1 - 1) * BLOCKBYTES = m
      /\ (n > 0 => m < Len(data)) /\ (n = 0 => m = 0)
  BY <1>0
<1>2. buf \in Seq(Byte) /\ Len(buf) = BLOCKBYTES
  BY <1>0 DEF Block
<1>3. d = Take(buf, len)
  BY DEF m
<1>4. /\ Len(d) = len /\ \A i \in 1..len : d[i] = buf[i]
  BY <1>2, <1>3, TakeDrop
<1> HIDE DEF m
<1>5. /\ Len(d) = Len(data) - m
      /\ \A i \in 1..(Len(data) - m) : d[i] = data[i + m]
  <2>1. m \in 0..Len(data)
    BY <1>1
  <2> QED BY <2>1, TakeDrop
<1> HIDE DEF d
<1>6. Len(data) = m + len /\ len \in Nat /\ m \in Nat
  BY <1>0, <1>1, <1>4, <1>5
<1>7. Blank(buf, len, 0) = BlockOf(data, n + 1)
  <2>1. ASSUME NEW j \in 1..BLOCKBYTES
        PROVE  (IF len < j THEN 0 ELSE buf[j])
                 = (IF m + j <= Len(data) THEN data[m + j] ELSE 0)
    <3>1. CASE len < j
      BY <1>0, <1>6, <3>1
    <3>2. CASE j <= len
      <4>1. j \in 1..len /\ j \in 1..(Len(data) - m) /\ m + j <= Len(data)
            /\ j + m = m + j /\ ~(len < j)
        BY <1>0, <1>6, <3>2
      <4>2. buf[j] = data[j + m]
        BY <1>4, <1>5, <4>1
      <4> QED BY <4>1, <4>2
    <3> QED BY <1>0, <1>6, <3>1, <3>2
  <2>2. BlockOf(data, n + 1)
          = [j \in 1..BLOCKBYTES |-> IF m + j <= Len(data) THEN data[m + j] ELSE 0]
    BY <1>1 DEF BlockOf
  <2>3. Blank(buf, len, 0) = [j \in 1..BLOCKBYTES |-> IF len < j THEN 0 ELSE buf[j]]
    BY DEF Blank, Block
  <2> QED BY <2>1, <2>2, <2>3
<1>8. Blocks(Len(data)) = n + 1
  <2>1. CASE Len(data) = 0
    BY <1>0, <1>1, <1>6, <2>1 DEF Blocks
  <2>2. CASE Len(data) # 0
    <3>1. len - 1 \in 0..(BLOCKBYTES - 1)
      BY <1>0, <1>1, <1>6, <2>2
    <3>2. (n + 1) * BLOCKBYTES = m + BLOCKBYTES
      BY <1>0 DEF m
    <3>3. Len(data) + BLOCKBYTES - 1 = (n + 1) * BLOCKBYTES + (len - 1)
      BY <1>0, <1>6, <3>2
    <3>4. ((n + 1) * BLOCKBYTES + (len - 1)) \div BLOCKBYTES = n + 1
      BY <1>0, <3>1, DivisionUnique
    <3> QED BY <2>2, <3>3, <3>4 DEF Blocks
  <2> QED BY <2>1, <2>2
<1> QED BY <1>6, <1>7, <1>8 DEF m

(* The calls of a closed context are those of the reference.               *)
LEMMA LastCall ==
  ASSUME NEW c \in Contexts, NEW data \in Seq(Byte),
         Holds(c, Take(c.buf, c.buflen), data)
  PROVE  Append(c.calls, Compression(Blank(c.buf, c.buflen, 0),
                                     increment_counter(c.t, c.buflen),
                                     <<TRUE, FALSE>>))
           = CompressionsOf(data)
<1> DEFINE n == Len(c.calls)
           buf == c.buf
           len == c.buflen
           t == increment_counter(c.t, len)
           x == Compression(Blank(buf, len, 0), t, <<TRUE, FALSE>>)
           s == Append(c.calls, x)
           r == CompressionsOf(data)
<1>0. BLOCKBYTES \in Nat /\ BLOCKBYTES < WORD
  BY BlockAssumption
<1>1. /\ n \in Nat /\ c.calls \in Seq(Calls) /\ buf \in Block
      /\ len \in 0..BLOCKBYTES /\ n * BLOCKBYTES \in Nat
  BY <1>0 DEF Contexts
<1>2. /\ Take(buf, len) = Drop(data, n * BLOCKBYTES)
      /\ n > 0 => n * BLOCKBYTES < Len(data)
      /\ c.t = Counter(n * BLOCKBYTES)
      /\ \A k \in 1..n :
           c.calls[k] = Compression(BlockOf(data, k),
                                    Counter(k * BLOCKBYTES), <<FALSE, FALSE>>)
  BY DEF Holds
<1> HIDE DEF n, buf, len
<1>3. n * BLOCKBYTES <= Len(data)
  <2>1. n = 0 => n * BLOCKBYTES = 0
    BY <1>0
  <2> QED BY <1>1, <1>2, <2>1
<1>4. /\ Len(data) = n * BLOCKBYTES + len
      /\ Blank(buf, len, 0) = BlockOf(data, n + 1)
      /\ Blocks(Len(data)) = n + 1
  BY <1>1, <1>2, <1>3, LastBlock
<1>5. t = Counter(Len(data))
  <2>1. len \in Nat /\ len < WORD
    BY <1>0, <1>1, BlockAssumption
  <2> QED BY <1>1, <1>2, <1>4, <2>1, CounterAdds
<1>6. x = Compression(BlockOf(data, n + 1), Counter(Len(data)), <<TRUE, FALSE>>)
  BY <1>4, <1>5
<1>7. x \in Calls
  <2>1. t \in Counters
    BY <1>0, <1>1, IncrementType DEF Contexts
  <2>2. Blank(buf, len, 0) \in Block
    <3>1. 0 \in Byte
      BY DEF Byte
    <3> QED BY <1>1, <3>1 DEF Blank, Block
  <2>3. <<TRUE, FALSE>> \in Flags
    BY Zenon DEF Flags
  <2> HIDE DEF t
  <2> QED BY <2>1, <2>2, <2>3 DEF Compression, Calls
<1> HIDE DEF x
<1>8. /\ s \in Seq(Calls) /\ Len(s) = n + 1 /\ s[n + 1] = x
      /\ \A k \in 1..n : s[k] = c.calls[k]
  BY <1>1, <1>7 DEF n
<1> HIDE DEF s
<1>9. s = [k \in 1..(n + 1) |-> s[k]]
  BY <1>1, <1>8
<1>10. r = [k \in 1..(n + 1) |->
              Compression(BlockOf(data, k),
                Counter(IF k = n + 1 THEN Len(data) ELSE k * BLOCKBYTES),
                <<k = n + 1, FALSE>>)]
  BY <1>4 DEF CompressionsOf
<1>11. ASSUME NEW k \in 1..(n + 1)
       PROVE  s[k] = Compression(BlockOf(data, k),
                       Counter(IF k = n + 1 THEN Len(data) ELSE k * BLOCKBYTES),
                       <<k = n + 1, FALSE>>)
  <2>1. CASE k = n + 1
    <3>1. <<k = n + 1, FALSE>> = <<TRUE, FALSE>>
      BY <2>1
    <3> QED BY <1>6, <1>8, <2>1, <3>1
  <2>2. CASE k \in 1..n
    <3>1. k # n + 1
      BY <1>1, <2>2
    <3>2. <<k = n + 1, FALSE>> = <<FALSE, FALSE>>
      BY <3>1
    <3> QED BY <1>2, <1>8, <2>2, <3>1, <3>2
  <2> QED BY <1>1, <2>1, <2>2
<1> HIDE DEF r
<1>12. s = r
  BY <1>9, <1>10, <1>11
<1> QED BY <1>12 DEF s, r, x, t, n, buf, len

(* Closing an open context writes the reference digest of what it was fed. *)
LEMMA DigestIsReference ==
  ASSUME TypeInv, NothingLost, Final, ~ctx.f[1]
  PROVE  given.kind # Closed /\ hash' = Reference(given.kind, given.message)
<1>a. /\ ctx \in Contexts /\ given \in GivenType /\ call \in CallType
      /\ call.in = <<>> /\ call.next = <<>>
  BY DEF TypeInv, GivenType, CallType, Final
<1>b. ContextInv
  BY DEF NothingLost
<1>1. given.kind # Closed
  BY <1>b DEF ContextInv
<1>2. hash = Zeroes /\ ctx.f = <<FALSE, FALSE>> /\ ctx.last_node = FALSE
      /\ ctx.outlen = given.kind.size
  BY <1>b, <1>1 DEF ContextInv
<1>3. set_lastblock(ctx.f, ctx.last_node) = <<TRUE, FALSE>>
  <2>1. ctx.f[2] = FALSE
    BY <1>2
  <2>2. (ctx.f[2] \/ ctx.last_node) = FALSE
    BY <1>2, <2>1
  <2> QED BY <2>2 DEF set_lastblock
<1>4. hash' = IF ctx.outlen = 0 THEN hash
              ELSE [h |-> ctx.h, outlen |-> ctx.outlen,
                    calls |-> Append(ctx.calls,
                                Compression(Blank(ctx.buf, ctx.buflen, 0),
                                  increment_counter(ctx.t, ctx.buflen),
                                  <<TRUE, FALSE>>))]
  BY <1>3 DEF Final
<1>5. CASE given.kind = Refused
  BY <1>1, <1>2, <1>4, <1>5, KindsDiffer DEF Reference
<1>6. CASE given.kind # Refused
  <2> DEFINE data == Data(given.kind, given.message)
  <2>1. given.kind \in OpenKinds
    BY <1>1, <1>6, <1>a DEF GivenType
  <2>2. given.kind.size # 0
    <3>1. PICK size \in 1..OUTBYTES, key \in LegalKeys :
            given.kind = Opened(size, key)
      BY <2>1 DEF OpenKinds
    <3>2. size # 0
      BY BlockAssumption
    <3> QED BY <3>1, <3>2 DEF Opened
  <2>3. data \in Seq(Byte)
    BY <2>1, <1>a, DataType
  <2>4. CallsInv /\ ctx.h = [size |-> given.kind.size,
                             keylen |-> Len(given.kind.key)]
    BY <1>1, <1>6, <1>b DEF ContextInv
  <2>5. Holds(ctx, Pending, data)
    BY <2>4 DEF CallsInv, Holds
  <2>6. Pending = Take(ctx.buf, ctx.buflen)
    <3> DEFINE p == Take(ctx.buf, ctx.buflen)
    <3>1. p \in Seq(Byte)
      <4>1. ctx.buf \in Seq(Byte) /\ Len(ctx.buf) = BLOCKBYTES
            /\ ctx.buflen \in 0..BLOCKBYTES
        BY <1>a, BlockAssumption DEF Contexts, Block
      <4> QED BY <4>1, TakeDrop
    <3>2. Pending = (p \o <<>>) \o <<>>
      BY <1>a DEF Pending
    <3> HIDE DEF p
    <3>3. Pending = p
      BY <3>1, <3>2, EmptyIsNeutral
    <3> QED BY <3>3 DEF p
  <2> HIDE DEF data
  <2>7. Holds(ctx, Take(ctx.buf, ctx.buflen), data)
    BY <2>5, <2>6
  <2>8. hash' = [h |-> ctx.h, calls |-> CompressionsOf(data), outlen |-> ctx.outlen]
    BY <1>2, <1>4, <1>a, <2>2, <2>3, <2>7, LastCall
  <2>9. Reference(given.kind, given.message)
          = [h |-> [size |-> given.kind.size, keylen |-> Len(given.kind.key)],
             calls |-> CompressionsOf(data), outlen |-> given.kind.size]
    BY <1>6 DEF Reference, data
  <2> QED BY <1>1, <1>2, <2>4, <2>8, <2>9
<1> QED BY <1>1, <1>5, <1>6

-----------------------------------------------------------------------------
(* Blake2b implements HashStream. *)

(* The first context is one that HashStream can start from.                *)
LEMMA PromiseInit == Init => Promise!Init
<1> SUFFICES ASSUME Init PROVE Promise!Init
  OBVIOUS
<1>1. PICK size \in Sizes :
        hash = Zeroes /\ given = [kind |-> Opened(size, <<>>), message |-> <<>>]
  BY DEF Init
<1> DEFINE kinds == {Opened(s, key) : s \in Sizes \cup {0},
                                      key \in Keys \cup {<<>>}}
           kind == Opened(size, <<>>)
<1>2. <<>> \in Keys \cup {<<>>} /\ size \in Sizes \cup {0}
  OBVIOUS
<1>3. kind \in kinds
  BY <1>2
<1>4. Promise!Init <=> /\ \E k \in kinds : given = [kind |-> k, message |-> <<>>]
                       /\ hash = Zeroes
  BY DEF Promise!Init
<1>5. hash = Zeroes /\ given = [kind |-> kind, message |-> <<>>]
  BY <1>1
<1> HIDE DEF kinds, kind
<1>6. \E k \in kinds : given = [kind |-> k, message |-> <<>>]
  BY <1>3, <1>5
<1> QED BY <1>4, <1>5, <1>6

(* Every step of the code opens, feeds or closes, or leaves both be.       *)
LEMMA PromiseStep ==
  TypeInv /\ NothingLost /\ [Next]_vars => [Promise!Next]_(Promise!vars)
<1> SUFFICES ASSUME TypeInv, NothingLost, [Next]_vars
             PROVE  [Promise!Next]_(Promise!vars)
  OBVIOUS
<1>a. ASSUME given' = given, hash' = hash PROVE [Promise!Next]_(Promise!vars)
  BY <1>a DEF Promise!vars
<1>b. ASSUME NEW size \in Sizes \cup {0}, NEW key \in Keys \cup {<<>>},
             given'.kind = Opened(size, key), hash' = Zeroes
      PROVE  [Promise!Next]_(Promise!vars)
  BY <1>b DEF Promise!Next, Promise!Open
<1>c. Refused = Opened(0, <<>>) /\ <<>> \in Keys \cup {<<>>} /\ 0 \in Sizes \cup {0}
  BY DEF Refused
<1>1. ASSUME NEW size \in Sizes, Init_(size) PROVE [Promise!Next]_(Promise!vars)
  <2>1. hash' = Zeroes
        /\ (given'.kind = Opened(size, <<>>) \/ given'.kind = Opened(0, <<>>))
    BY <1>1, <1>c DEF Init_
  <2> QED BY <2>1, <1>b, <1>c
<1>2. ASSUME NEW size \in Sizes, NEW key \in Keys, InitKey(size, key)
      PROVE  [Promise!Next]_(Promise!vars)
  <2>1. hash' = Zeroes
        /\ (given'.kind = Opened(size, key) \/ given'.kind = Opened(0, <<>>))
    BY <1>2, <1>c DEF InitKey
  <2> QED BY <2>1, <1>b, <1>c
<1>3. ASSUME NEW l \in Lengths, Update(Text(Len(given.message), l))
      PROVE  [Promise!Next]_(Promise!vars)
  <2> DEFINE m == given.message
             bytes == Text(Len(m), l)
  <2>1. m \in Seq(Byte)
    BY DEF TypeInv
  <2>2. bytes \in Seq(Byte)
    <3> DEFINE n == Len(m)
    <3>1. n \in Nat /\ l \in Nat
      BY <2>1, CallerAssumption
    <3> HIDE DEF n, m
    <3>2. Text(n, l) \in Seq(Byte)
      BY <3>1, TextType
    <3> QED BY <3>2 DEF n
  <2>3. hash' = hash
        /\ given' = IF given.kind = Closed THEN given
                    ELSE [given EXCEPT !.message = m \o bytes]
    BY <1>3 DEF Update
  <2>4. CASE given.kind = Closed
    BY <2>3, <2>4, <1>a
  <2>5. CASE given.kind # Closed
    <3>0. given \in GivenType
      BY DEF TypeInv, GivenType
    <3> HIDE DEF bytes
    <3>1. given'.kind = given.kind /\ given'.message = m \o bytes
      BY <2>3, <2>5, <3>0 DEF GivenType
    <3> HIDE DEF m
    <3>2. Len(m \o bytes) >= Len(m) /\ SubSeq(m \o bytes, 1, Len(m)) = m
      BY <2>1, <2>2, PrefixOfCat
    <3>3. Promise!Feed
      BY <2>3, <2>5, <3>1, <3>2 DEF Promise!Feed, m
    <3> QED BY <3>3 DEF Promise!Next
  <2> QED BY <2>4, <2>5
<1>4. ASSUME NEW size \in Sizes, NEW key \in Keys \cup {<<>>}, NEW l \in Lengths,
             Direct(size, key, Text(0, l))
      PROVE  [Promise!Next]_(Promise!vars)
  <2>1. hash' = Zeroes /\ given'.kind = Opened(size, key)
    BY <1>4 DEF Direct
  <2> QED BY <2>1, <1>b
<1>5. CASE FillBuffer \/ CompressInput \/ CopyRest
  BY <1>5, <1>a DEF FillBuffer, CompressInput, CopyRest
<1>6. CASE Final
  <2>1. CASE ctx.f[1]
    BY <1>6, <2>1, <1>a DEF Final
  <2>2. CASE ~ctx.f[1]
    <3>1. given.kind # Closed /\ hash' = Reference(given.kind, given.message)
      BY <1>6, <2>2, DigestIsReference
    <3>2. given' = [kind |-> Closed, message |-> <<>>]
      BY <1>6, <2>2 DEF Final
    <3> QED BY <3>1, <3>2 DEF Promise!Next, Promise!Close
  <2> QED BY <2>1, <2>2
<1>7. CASE UNCHANGED vars
  BY <1>7, <1>a DEF vars
<1> QED BY <1>1, <1>2, <1>3, <1>4, <1>5, <1>6, <1>7 DEF Next

(* A digest is that of the concatenation of what its context was fed,      *)
(* whatever the calls were: blake2b-ref.c keeps the promise of blake2.ml.  *)
THEOREM Refinement == Spec => Blake2bIsHash
<1>1. TypeInv /\ NothingLost /\ [Next]_vars => TypeInv' /\ NothingLost'
  BY TypeStep, LostStep
<1> QED BY <1>1, TypeInit, LostInit, PromiseInit, PromiseStep, PTL
        DEF Spec, Blake2bIsHash, Promise!Spec

==============================================================================
