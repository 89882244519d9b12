----------------------------- MODULE HashStream -----------------------------
(***************************************************************************)
(* What the three hash libraries promise their OCaml callers: a context is *)
(* opened for a kind of digest, is fed strings, and is closed by writing   *)
(* the digest of the concatenation of what it was fed, however that was    *)
(* cut into strings.  Nothing but the closing of a context writes a        *)
(* digest.  Blake2b, Sha256 and Sha3 are shown to implement this module.   *)
(***************************************************************************)
EXTENDS Integers, Sequences

CONSTANTS
  Kinds,          \* the digests a caller may ask for
  Closed,         \* no context is open
  Untouched,      \* the output string as it was allocated
  Digest(_, _)    \* the digest of a kind and a message

VARIABLES
  given,    \* the kind of the open context, and the message fed to it
  digest    \* the output string of the last context opened

vars == <<given, digest>>

Init ==
  /\ \E kind \in Kinds : given = [kind |-> kind, message |-> <<>>]
  /\ digest = Untouched

(* A context may be abandoned and another opened at any time. *)
Open ==
  /\ given'.kind \in Kinds
  /\ digest' = Untouched

(* The message becomes longer by what was fed. *)
Feed ==
  /\ given.kind # Closed
  /\ given'.kind = given.kind
  /\ Len(given'.message) >= Len(given.message)
  /\ SubSeq(given'.message, 1, Len(given.message)) = given.message
  /\ UNCHANGED digest

Close ==
  /\ given.kind # Closed
  /\ digest' = Digest(given.kind, given.message)
  /\ given' = [kind |-> Closed, message |-> <<>>]

Next == Open \/ Feed \/ Close

Spec == Init /\ [][Next]_vars
=============================================================================
