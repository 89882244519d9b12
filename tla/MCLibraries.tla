---------------------------- MODULE MCLibraries ----------------------------
(***************************************************************************)
(* The C libraries of src/libs/deps-michelson: in a behaviour, one of the  *)
(* hash libraries runs, or one function of tweetnacl.c is called, or a     *)
(* session of libsecp256k1 is run, or one of the known answers of the      *)
(* repository is computed.                                                 *)
(***************************************************************************)
EXTENDS MCHashes, MCSecp256k1, HashVectors

VARIABLE algo       \* what runs

vars_ == <<algo, vars, svars, kvars, nvars>>

(* The known answers, each with the function that is to give it. *)
Vectors ==
  {[of |-> "vector", f |-> "blake2b", vector |-> v] : v \in test_BLAKE2b_512}
    \cup {[of |-> "vector", f |-> "sha256", vector |-> v] :
            v \in test_SHA256 \cup sha256_test_sum}
    \cup {[of |-> "vector", f |-> "keccak", vector |-> v] :
            v \in test_KEC \cup KeccakKAT}
    \cup {[of |-> "vector", f |-> v.of, vector |-> v] : v \in CoreAnswers}

DigestOf(f, v) ==
  CASE f = "blake2b" -> Blake2bDigest(v.kind, v.message)
    [] f = "sha256"  -> Sha256Digest(v.kind, v.message)
    [] f = "keccak"  -> KeccakDigest(v.kind, v.message)
    [] f = "hashblocks" ->
         StoreWords(crypto_hashblocks(iv, v.message), 8, StoreBig)
    [] f = "hsalsa20" -> crypto_core_hsalsa20(v.message, v.key, sigma)
    [] f = "salsa20"  -> crypto_core_salsa20(v.message, v.key, sigma)

HashVector == Call("vector", DigestOf(test.f, test.vector))

Rest == test = NotCalled /\ result = NotCalled

MCInit ==
  \/ algo = "blake2b" /\ Init /\ Sha256Rests /\ Sha3Rests /\ Rest
  \/ algo = "sha256" /\ ShaInit /\ BlakeRests /\ Sha3Rests /\ Rest
  \/ algo = "sha3" /\ KeccakInit /\ BlakeRests /\ Sha256Rests /\ Rest
  \/ /\ algo = "function"
     /\ BlakeRests /\ Sha256Rests /\ Sha3Rests
     /\ TestInit \/ SecpInit \/ (test \in Vectors /\ result = NotCalled)

MCNext ==
  \/ algo = "blake2b" /\ Next /\ UNCHANGED <<algo, svars, kvars, nvars>>
  \/ algo = "sha256" /\ ShaNext /\ UNCHANGED <<algo, vars, kvars, nvars>>
  \/ algo = "sha3" /\ KeccakNext /\ UNCHANGED <<algo, vars, svars, nvars>>
  \/ /\ algo = "function"
     /\ TestNext \/ SecpNext \/ HashVector
     /\ UNCHANGED <<algo, vars, svars, kvars>>

MCSpec == MCInit /\ [][MCNext]_vars_

(* The compressions on words of their full size, and the padding and the   *)
(* parameters around them, give the answers that nocrypto_bak.ml asserts   *)
(* and those of the self tests of sha256.c and sha3-tests.c; the cores of  *)
(* tweetnacl.c give those of the standards.                                *)
KnownAnswers ==
  Returned("vector") =>
    [j \in DOMAIN test.vector.digest |->
       256 * result.is[2 * j - 1] + result.is[2 * j]] = test.vector.digest

(* blake2.ml declares that blake2b_init_key returns a context ("Same       *)
(* interface as Tezos' Blake2"): one that was opened with a key may be     *)
(* updated and closed.                                                     *)
KeyedContextIsUsable ==
  given.kind # Closed /\ given.kind.key # <<>> /\ call.pc = "idle"
    => handle = "context"
============================================================================
