------------------------------- MODULE Buffers -------------------------------
(***************************************************************************)
(* The memory operations of the C libraries of src/libs/deps-michelson.    *)
(* A byte array of n bytes is a sequence of length n; a pointer into a     *)
(* string that is being consumed is the rest of that string.               *)
(***************************************************************************)
EXTENDS Integers, Sequences

(* memcpy( buffer + at, bytes, Len(bytes) ). *)
Overwrite(buffer, at, bytes) ==
  [j \in DOMAIN buffer |->
     IF at < j /\ j <= at + Len(bytes) THEN bytes[j - at] ELSE buffer[j]]

(* memset( buffer + at, zero, n ) up to the end of the buffer. *)
Blank(buffer, at, zero) ==
  [j \in DOMAIN buffer |-> IF at < j THEN zero ELSE buffer[j]]

(* The array of n elements, the first at 1. *)
Array(n, At(_)) == SubSeq([i \in 1..n |-> At(i)], 1, n)

(* The state s after the turns 1 to n of a loop. *)
Loop(States, Turn(_, _), s, n) ==
  LET run[p \in States \X (1..(n + 1))] ==
        IF p[2] > n THEN p[1] ELSE run[<<Turn(p[1], p[2]), p[2] + 1>>]
  IN  run[<<s, 1>>]

(* What a loop adds up in n turns. *)
SumTo(terms, n) ==
  LET sum[k \in 0..n] == IF k = 0 THEN 0 ELSE sum[k - 1] + terms[k]
  IN  sum[n]

(* The powers of the number of values of a byte. *)
PowersOf(radix) ==
  LET power[k \in Nat] == IF k = 0 THEN 1 ELSE radix * power[k - 1]
  IN  power

Repeat(byte, n) == [j \in 1..n |-> byte]

(* The first n bytes at a pointer, and the pointer moved on by n. *)
Take(bytes, n) == SubSeq(bytes, 1, n)
Drop(bytes, n) == SubSeq(bytes, n + 1, Len(bytes))
==============================================================================
