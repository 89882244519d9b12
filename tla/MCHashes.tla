------------------------------ MODULE MCHashes ------------------------------
(***************************************************************************)
(* The three hash libraries on blocks of a few bytes, each fed in every    *)
(* way of cutting a message into strings; one of them runs in a behaviour. *)
(* A byte is named by its place in the message, so that one that is lost,  *)
(* repeated or moved shows.                                                *)
(***************************************************************************)
EXTENDS Blake2b, Sha256, Sha3

(* Keys of no byte, of one, of as many as are allowed and of one more. *)
MCKeys == {<<>>, <<101>>, <<101, 102, 103>>, <<101, 102, 103, 104>>}
MCByteAt(i) == 1000 + i
BitsAt(i) == {0, 1000 + i}
MCOutWords == [keccak256 |-> 1, keccak512 |-> 2]

(* What the proofs about the libraries assume of their constants. *)
ASSUME Sha256Assumption
ASSUME KeccakAssumption

(* The initial state of a library that does not run. *)
BlakeRests == Init /\ given.kind.size = 1
Sha256Rests == ShaInit
Sha3Rests == KeccakInit /\ kgiven.kind = "keccak256"
=============================================================================
