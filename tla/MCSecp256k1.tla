----------------------------- MODULE MCSecp256k1 -----------------------------
(***************************************************************************)
(* The binding of libsecp256k1 on a curve of 31 points, over the field of  *)
(* 43 elements: x can be above the order, as it can on the real curve.  An *)
(* initial state is the arguments of a session, the only step is all of    *)
(* its calls.                                                              *)
(***************************************************************************)
EXTENDS MCNaCl

(* Numbers are two bytes below 8.  The first attempt fails now and then.   *)
MCNonce(z, d, n) == (5 * z + 7 * d + 3) \div 2 + 11 * n
CurveOrder == 31
Generator == <<34, 3>>
E == INSTANCE Secp256k1
       WITH PRIME <- 43, ORDER <- CurveOrder, BASE <- Generator,
            BYTE <- 8, DIGITS <- 2, Nonce <- MCNonce

ContextFlags ==
  {<<>>, <<"VERIFY">>, <<"SIGN">>, <<"VERIFY", "SIGN">>, <<"SIGN", "VERIFY">>}
SerialLists ==
  {<<>>, <<"EC_COMPRESSED">>, <<"EC_UNCOMPRESSED">>,
   <<"EC_UNCOMPRESSED", "EC_COMPRESSED">>}

(* Numbers at the order and at half of it, and the largest of two bytes.   *)
EdgeNumbers == {0, 1, 4, 15, 16, 30, 31, 32, 63}

(* The bytes of integers in a DER form: numbers in range and out of it     *)
(* (above the order, negative, too long), and what is not DER: no byte, or *)
(* a first one that only repeats the sign.                                 *)
InRange == {<<0>>, <<1>>, <<3, 6>>}
OutOfRange == {<<3, 7>>, <<0, 4, 0>>, <<4, 0>>, <<7, 1>>, <<1, 0, 0>>, <<0, 7, 7, 7>>}
NotDer == {<<>>, <<0, 1>>, <<0, 0>>, <<7, 5>>}

SecpInit ==
  /\ result = NotCalled
  /\ \/ \E flags \in ContextFlags, d \in 0..63, z \in EdgeNumbers :
          test = [of |-> "signature", flags |-> flags, seckey |-> E!Bytes(d),
                  msg |-> E!Bytes(z)]
     \/ \E r, s \in EdgeNumbers, id \in 0..4 :
          test = [of |-> "encoding", r |-> r, s |-> s, id |-> id]
     \/ \E r, s \in InRange \cup OutOfRange \cup NotDer, more \in {<<>>, <<0>>}, tag \in {48, 49} :
          test = [of |-> "der", r |-> r, s |-> s, whole |-> more = <<>> /\ tag = 48,
                  input |-> [E!DerForm(r, s) EXCEPT ![1] = tag] \o more]
     \/ \E head \in 0..8, x \in 0..47,
           y \in {<<>>} \cup {E!Bytes(n) : n \in {0, 3, 7, 12, 31, 36, 40, 63}} :
          test = [of |-> "pubkey", input |-> <<head>> \o E!Bytes(x) \o y]

-----------------------------------------------------------------------------
(* f of what the call before returned, if it returned anything. *)
Then(option, f(_)) == IF option.is = "some" THEN f(option.of) ELSE option

(* A message is signed in both ways; what comes of that is converted,      *)
(* verified, and asked for the key it was made with.  Signatures by no key *)
(* are verified with a key that is right.                                  *)
SignedSession(ctx, pubkey, rec, sig) ==
  LET Check(s) ==
        E!Verify(ctx, s, test.msg, IF pubkey.is = "some" THEN pubkey.of ELSE Generator)
  IN  [pubkey |-> pubkey, rec |-> rec, sig |-> sig,
       converted |-> Then(rec, LAMBDA r : E!Convert(ctx, r)),
       verified |-> Then(sig, Check),
       other |-> Then(sig, LAMBDA s : Check([s EXCEPT !.s = CurveOrder - @])),
       recovered |-> Then(rec, LAMBDA r : E!Recover(ctx, r, test.msg))]
SessionIn(ctx) ==
  SignedSession(ctx, E!PubkeyCreate(ctx, test.seckey),
                E!RecoverableSign(ctx, test.msg, test.seckey),
                E!Sign(ctx, test.msg, test.seckey))
SignSession == Call("signature", SessionIn(E!context_create_ml(test.flags)))

(* The two forms of a pair of numbers are parsed and written again. *)
EncodingSession ==
  LET ctx == E!context_create_ml(<<>>)
      input64 == E!Bytes(test.r) \o E!Bytes(test.s)
      compact == E!ParseCompact(ctx, input64)
      der == E!ParseDer(ctx, E!Der(test.r, test.s))
      rec == E!RecoverableParse(ctx, input64, test.id)
  IN  Call("encoding",
        [compact |-> compact, der |-> der,
         toCompact |-> Then(der, LAMBDA s : E!SerializeCompact(ctx, s)),
         toDer |-> Then(compact, LAMBDA s : E!SerializeDer(ctx, s)),
         toRecoverable |-> Then(rec, LAMBDA s : E!RecoverableSerialize(ctx, s)),
         converted |-> Then(rec, LAMBDA s : E!Convert(ctx, s))])

(* A string is parsed as the DER form of a signature, which is verified.   *)
DerSession ==
  LET ctx == E!context_create_ml(<<"VERIFY">>)
      der == E!ParseDer(ctx, test.input)
  IN  Call("der",
        [der |-> der,
         toDer |-> Then(der, LAMBDA s : E!SerializeDer(ctx, s)),
         verified |-> Then(der, LAMBDA s : E!Verify(ctx, s, E!Bytes(1), Generator))])

(* A public key is parsed, written in the forms asked for, parsed again. *)
PubkeySession ==
  LET ctx == E!context_create_ml(<<>>)
      parsed == E!PubkeyParse(ctx, test.input)
      Written(flags) ==
        Then(parsed, LAMBDA key : E!PubkeySerialize(ctx, key, flags))
  IN  Call("pubkey",
        [parsed |-> parsed,
         written |-> [flags \in SerialLists |-> Written(flags)],
         again |-> [flags \in SerialLists |->
                      Then(Written(flags), LAMBDA s : E!PubkeyParse(ctx, s))]])

SecpNext == SignSession \/ EncodingSession \/ DerSession \/ PubkeySession

-----------------------------------------------------------------------------
(* secp256k1.ml: whatever the attempts of the signer, a signature verifies *)
(* in its one accepted form, and gives back the public key, however its    *)
(* point lies in the field; both ways of signing agree.  The flags of the  *)
(* context have to allow it.  A key that is not one is refused, but by     *)
(* sign, whose failure is dropped: its string of zeros verifies with no    *)
(* key.                                                                    *)
SignaturesVerify ==
  Returned("signature") =>
    LET may(flag) == \E j \in DOMAIN test.flags : test.flags[j] = flag
        Allowed(value) == IF may("VERIFY") THEN value ELSE E!Aborted
        r == result.is
        calls == DOMAIN r
    IN  IF ~may("SIGN") THEN \A call \in calls : r[call] = E!Aborted
        ELSE IF E!NumberOf(test.seckey) \in 1..(CurveOrder - 1)
        THEN /\ r.pubkey.is = "some" /\ r.sig.is = "some"
             /\ r.converted = r.sig
             /\ r.verified = Allowed(E!Some(TRUE))
             /\ r.other = Allowed(E!Some(FALSE))
             /\ r.recovered = Allowed(r.pubkey)
        ELSE /\ r.pubkey = E!None /\ r.rec = E!None
             /\ r.sig = E!Some(E!NoSignature)
             /\ r.verified = Allowed(E!Some(FALSE))

(* secp256k1.mli: the compact form is invalid when either number is out of *)
(* range.  parse_der takes any valid DER form, even if its numbers are out *)
(* of range, and such a signature never verifies.  What was in range is    *)
(* written back as it was, with its recovery id, and the forms agree with  *)
(* each other.                                                             *)
EncodingsParse ==
  /\ Returned("der") =>
       LET r == result.is
           numbers == {test.r, test.s}
       IN  /\ r.der.is = "some" <=> test.whole /\ numbers \cap NotDer = {}
           /\ r.der.is = "some" /\ numbers \cap OutOfRange # {} =>
                r.verified = E!Some(FALSE)
           /\ r.der.is = "some" /\ numbers \subseteq InRange =>
                /\ r.toDer = E!Some(test.input)
                /\ r.der.of = E!Signature(E!NumberOf(test.r), E!NumberOf(test.s))
  /\ Returned("encoding") =>
       LET r == result.is
           input64 == E!Bytes(test.r) \o E!Bytes(test.s)
           inRange == test.r < CurveOrder /\ test.s < CurveOrder
       IN  /\ r.der.is = "some"
           /\ (test.id > 3) = (r.toRecoverable = E!Aborted)
           /\ IF inRange
              THEN /\ r.compact = r.der
                   /\ r.toCompact = E!Some(input64)
                   /\ r.toDer = E!Some(E!Der(test.r, test.s))
                   /\ test.id <= 3 =>
                        /\ r.toRecoverable = E!Some(<<input64, test.id>>)
                        /\ r.converted = r.compact
              ELSE /\ r.compact = E!None
                   /\ test.id <= 3 => r.toRecoverable = E!None

(* Pubkey.parse takes the bytes that name a point of the curve in one of   *)
(* the forms that secp256k1.mli lists.  Pubkey.serialize cuts its string   *)
(* to the length of the form that was asked for, so that it parses again   *)
(* to the same key; without a flag there is no form.                       *)
PubkeysParse ==
  Returned("pubkey") =>
    LET r == result.is
        in == test.input
    IN  /\ r.parsed.is = "some" =>
             LET form == IF Len(in) = 3 THEN <<"EC_COMPRESSED">>
                         ELSE <<"EC_UNCOMPRESSED">>
             IN  /\ r.parsed.of \in E!Points
                 /\ r.parsed.of[1] = E!NumberOf(SubSeq(in, 2, 3))
                 /\ r.written[<<>>] = E!Aborted
                 /\ \A flags \in SerialLists \ {<<>>} :
                      /\ r.again[flags] = r.parsed
                      /\ Len(r.written[flags].of)
                           = IF flags = <<"EC_UNCOMPRESSED">> THEN 5 ELSE 3
                 /\ in[1] \in {2, 3, 4} => r.written[form].of = in
        /\ (in[1] \in {2, 3} /\ Len(in) = 3
              /\ \E point \in E!Points : point[1] = E!NumberOf(SubSeq(in, 2, 3)))
             => r.parsed.is = "some"
=============================================================================
