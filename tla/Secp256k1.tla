------------------------------ MODULE Secp256k1 ------------------------------
(***************************************************************************)
(* The binding of libsecp256k1: secp256k1-stubs.c, each function of which  *)
(* ends in _ml here too, and secp256k1.ml, which allocates the strings     *)
(* that the C functions write to.  A stub returns an integer, which the    *)
(* declarations of secp256k1.ml read as a boolean, a length or nothing,    *)
(* and the string it wrote.                                                *)
(***************************************************************************)
EXTENDS Ecdsa

(* What the functions of secp256k1.ml return. *)
Some(x) == [is |-> "some", of |-> x]
None == [is |-> "none"]

(* As an int, with the string the stub was given for its output. *)
Returning(value, result) ==
  IF result = Aborted THEN Aborted ELSE [result EXCEPT !.res = value]
Written(buffer, result) ==
  IF result = Aborted THEN Aborted
  ELSE [result EXCEPT !.res = Len(result.out),
                      !.out = Overwrite(buffer, 0, result.out)]

(* if stub ... then Some out else None *)
IfTrue(result) ==
  IF result = Aborted THEN Aborted
  ELSE IF result.res = 1 THEN Some(result.out) ELSE None
(* stub ...; out *)
Out(result) == IF result = Aborted THEN Aborted ELSE Some(result.out)
(* let len = stub ... in String.sub s 0 len *)
OutLength(result) ==
  IF result = Aborted THEN Aborted ELSE Some(Take(result.out, result.res))

Elements(list) == {list[j] : j \in DOMAIN list}

-----------------------------------------------------------------------------
(* secp256k1-stubs.c *)

(* Mutant of context_create_ml: the constructors the wrong way round.      *)
context_create_swapped(flags) ==
  context_create({IF f = "VERIFY" THEN "SIGN" ELSE "VERIFY" :
                    f \in Elements(flags)})

(* The first constructor of create_flag is VERIFY. *)
context_create_ml(flags) ==
  context_create({IF f = "VERIFY" THEN "VERIFY" ELSE "SIGN" :
                    f \in Elements(flags)})

ec_pubkey_create_ml(ctx, seckey) == ec_pubkey_create(ctx, seckey)

ec_pubkey_parse_ml(ctx, input) == ec_pubkey_parse(ctx, input)

(* The first constructor of serial_flag is EC_COMPRESSED. *)
SerialFlags(flags) ==
  {IF f = "EC_COMPRESSED" THEN "COMPRESSED" ELSE "UNCOMPRESSED" :
     f \in Elements(flags)}

(* Mutant of ec_pubkey_serialize_ml: returns the length of the buffer, not *)
(* the one that the library stored over it.                                *)
ec_pubkey_serialize_whole(ctx, output, pubkey, flags) ==
  Returning(Len(output),
    Written(output,
      ec_pubkey_serialize(ctx, pubkey, SerialFlags(flags))))

ec_pubkey_serialize_ml(ctx, output, pubkey, flags) ==
  Written(output,
    ec_pubkey_serialize(ctx, pubkey, SerialFlags(flags)))

ecdsa_signature_parse_compact_ml(ctx, input64) ==
  ecdsa_signature_parse_compact(ctx, input64)

ecdsa_signature_parse_der_ml(ctx, input) ==
  ecdsa_signature_parse_der(ctx, input)

ecdsa_signature_serialize_compact_ml(ctx, output64, sig) ==
  Written(output64, ecdsa_signature_serialize_compact(ctx, sig))

ecdsa_signature_serialize_der_ml(ctx, output, sig) ==
  Written(output, ecdsa_signature_serialize_der(ctx, sig))

ecdsa_verify_ml(ctx, sig, msg32, pubkey) ==
  ecdsa_verify(ctx, sig, msg32, pubkey)

ecdsa_sign_ml(ctx, msg32, seckey) == ecdsa_sign(ctx, msg32, seckey)

ecdsa_recoverable_signature_parse_compact_ml(ctx, input64, recid) ==
  ecdsa_recoverable_signature_parse_compact(ctx, input64, recid)

ecdsa_recoverable_signature_convert_ml(ctx, sigin) ==
  ecdsa_recoverable_signature_convert(ctx, sigin)

(* Mutant of ecdsa_recoverable_signature_serialize_compact_ml: not the id  *)
(* is returned, but what the library returned.                             *)
recoverable_serialize_result(ctx, output64, sig) ==
  Returning(1, Written(output64, ecdsa_signature_serialize_compact(ctx, sig)))

(* The integer that is returned is the recovery id, which the library      *)
(* stores beside the string.                                               *)
ecdsa_recoverable_signature_serialize_compact_ml(ctx, output64, sig) ==
  Returning(sig.id,
    Written(output64, ecdsa_signature_serialize_compact(ctx, sig)))

ecdsa_recoverable_sign_ml(ctx, msg32, seckey) ==
  ecdsa_sign_recoverable(ctx, msg32, seckey)

ecdsa_recoverable_recover_ml(ctx, sig, msg32) ==
  ecdsa_recover(ctx, sig, msg32)

-----------------------------------------------------------------------------
(* secp256k1.ml *)

(* A key is a string of the right length: Privkey.of_string asserts no more. *)
PubkeyCreate(ctx, seckey) == IfTrue(ec_pubkey_create_ml(ctx, seckey))
PubkeyParse(ctx, s) == IfTrue(ec_pubkey_parse_ml(ctx, s))
PubkeySerialize(ctx, pubkey, flags) ==
  OutLength(ec_pubkey_serialize_ml(ctx, Repeat(0, 1 + 2 * DIGITS),
                                   pubkey, flags))

ParseCompact(ctx, s) == IfTrue(ecdsa_signature_parse_compact_ml(ctx, s))
ParseDer(ctx, s) == IfTrue(ecdsa_signature_parse_der_ml(ctx, s))
SerializeCompact(ctx, sig) ==
  Out(ecdsa_signature_serialize_compact_ml(ctx, Repeat(0, 2 * DIGITS), sig))
SerializeDer(ctx, sig) ==
  OutLength(ecdsa_signature_serialize_der_ml(ctx, Repeat(0, 8 * DIGITS), sig))

(* sign is declared to return nothing: whether it failed is not looked at. *)
Sign(ctx, s, seckey) == Out(ecdsa_sign_ml(ctx, s, seckey))

IsTrue(result) == IF result = Aborted THEN Aborted ELSE Some(result.res = 1)
Verify(ctx, sig, s, pubkey) == IsTrue(ecdsa_verify_ml(ctx, sig, s, pubkey))

RecoverableSign(ctx, s, seckey) ==
  IfTrue(ecdsa_recoverable_sign_ml(ctx, s, seckey))
Recover(ctx, recsig, s) == IfTrue(ecdsa_recoverable_recover_ml(ctx, recsig, s))
Convert(ctx, recsig) == Out(ecdsa_recoverable_signature_convert_ml(ctx, recsig))
RecoverableParse(ctx, s, id) ==
  IfTrue(ecdsa_recoverable_signature_parse_compact_ml(ctx, s, id))
RecoverableSerialize(ctx, recsig) ==
  LET result == ecdsa_recoverable_signature_serialize_compact_ml(
                  ctx, Repeat(0, 2 * DIGITS), recsig)
  IN  Some(<<result.out, result.res>>)
=============================================================================
