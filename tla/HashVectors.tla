---------------------------- MODULE HashVectors ----------------------------
(***************************************************************************)
(* The known answers that the repository states for its hash functions,    *)
(* and the digests of the modules Blake2b, Sha256 and Sha3 on blocks and   *)
(* words of their full size, with the compressions of the code.            *)
(***************************************************************************)
EXTENDS Compressions

Blake == INSTANCE Blake2b
           WITH BLOCKBYTES <- 128, OUTBYTES <- 64, KEYBYTES <- 64, WORD <- 2^24,
                Sizes <- {}, Keys <- {}, Lengths <- {}, MaxFed <- 0,
                MaxBlocks <- 0, ByteAt <- LAMBDA i : i,
                handle <- 0, ctx <- 0, call <- 0, hash <- 0, given <- 0

Mbed == INSTANCE Sha256
          WITH SHABLOCK <- 64, SHARADIX <- 256, WORDBYTES <- 4, SHAWORD <- 2^24,
               ShaLengths <- {}, ShaByteAt <- LAMBDA i : i,
               ShaMaxFed <- 0, ShaMaxBlocks <- 0,
               sctx <- 0, scall <- 0, shash <- 0, sgiven <- 0

Keccak == INSTANCE Sha3
            WITH LANEBYTES <- 8, SPONGE_WORDS <- 25,
                 OutWords <- [KEC256 |-> 4, KEC384 |-> 6, KEC512 |-> 8],
                 TopBit <- 7, KeccakLengths <- {}, KeccakByteAt <- LAMBDA i : i,
                 KeccakMaxFed <- 0, MaxInputs <- 0,
                 kctx <- 0, kcall <- 0, khash <- 0, kgiven <- 0

-----------------------------------------------------------------------------
(* The digests: the calls of the reference, each made of its compression.  *)

(* The counter and the flags of a call as words. *)
WordOf(n) == Word(<<n \div 65536, n % 65536>>)
Flag(b) == IF b THEN 0..63 ELSE {}

Blake2bDigest(size, message) ==
  LET r == Blake!Reference(Blake!Opened(size, <<>>), message)
      Call(h, k) ==
        LET c == r.calls[k]
        IN  blake2b_compress(h, c.block, <<WordOf(c.t[1]), WordOf(c.t[2])>>,
                             <<Flag(c.f[1]), Flag(c.f[2])>>)
      h == Loop(Arrays, Call, blake2b_init_param(r.h.size, r.h.keylen),
                Len(r.calls))
  IN  Take(StoreWords(h, 8, StoreLittle), r.outlen)

Sha256Digest(kind, message) ==
  LET r == Mbed!ShaReference(kind, message)
      h == Loop(Arrays, LAMBDA s, k : sha256_process(s, r.blocks[k]),
                InitialState(r.iv), Len(r.blocks))
  IN  StoreWords(Take(h, r.words), 4, StoreBig)

KeccakDigest(kind, message) ==
  LET r == Keccak!KeccakReference(kind, Array(Len(message), LAMBDA j : Bits(message[j])))
      Input(k) ==
        Array(25, LAMBDA w :
                    UNION {{b + 8 * i : b \in r.inputs[k][w - 1][i]} : i \in 0..7})
      Added(s, k) == LET input == Input(k)
                     IN  Array(25, LAMBDA w : Xor(s[w], input[w]))
      s == Loop(Arrays, LAMBDA t, k : keccakf(Added(t, k)),
                Array(25, LAMBDA w : {}), Len(r.inputs))
  IN  StoreWords(Take(s, r.words), 8, StoreLittle)

-----------------------------------------------------------------------------
(* The answers, two bytes to a number. *)

(* "The quick brown fox jumps over the lazy dog" *)
Fox ==
  <<84, 104, 101, 32, 113, 117, 105, 99, 107, 32, 98, 114, 111, 119, 110,
    32, 102, 111, 120, 32, 106, 117, 109, 112, 115, 32, 111, 118, 101, 114,
    32, 116, 104, 101, 32, 108, 97, 122, 121, 32, 100, 111, 103>>

(* nocrypto_bak.ml *)
test_BLAKE2b_512 ==
  {[kind |-> 64,
    message |-> <<>>,
    digest |->
      <<\h786a, \h02f7, \h4201, \h5903, \hc6c6, \hfd85, \h2552, \hd272,
        \h912f, \h4740, \he158, \h4761, \h8a86, \he217, \hf71f, \h5419,
        \hd25e, \h1031, \hafee, \h5853, \h1389, \h6444, \h934e, \hb04b,
        \h903a, \h685b, \h1448, \hb755, \hd56f, \h701a, \hfe9b, \he2ce>>],
   [kind |-> 64,
    message |-> Fox,
    digest |->
      <<\ha8ad, \hd4bd, \hddfd, \h93e4, \h877d, \h2746, \he628, \h17b1,
        \h1636, \h4a1f, \ha7bc, \h148d, \h9509, \h0bc7, \h333b, \h3673,
        \hf824, \h01cf, \h7aa2, \he4cb, \h1ecd, \h9029, \h6e3f, \h14cb,
        \h5413, \hf8ed, \h77be, \h7304, \h5b13, \h914c, \hdcd6, \ha918>>]}

test_SHA256 ==
  {[kind |-> "sha256",
    message |-> <<>>,
    digest |->
      <<\he3b0, \hc442, \h98fc, \h1c14, \h9afb, \hf4c8, \h996f, \hb924,
        \h27ae, \h41e4, \h649b, \h934c, \ha495, \h991b, \h7852, \hb855>>],
   [kind |-> "sha256",
    message |-> Fox,
    digest |->
      <<\hd7a8, \hfbb3, \h07d7, \h8094, \h69ca, \h9abc, \hb008, \h2e4f,
        \h8d56, \h51e4, \h6d3c, \hdb76, \h2d02, \hd0bf, \h37c9, \he592>>]}

(* mbedtls_sha256_self_test, but for the message of a million bytes. *)
sha256_test_buf ==
  <<<<97, 98, 99>>,
    <<97, 98, 99, 100, 98, 99, 100, 101, 99, 100, 101, 102, 100, 101, 102,
      103, 101, 102, 103, 104, 102, 103, 104, 105, 103, 104, 105, 106, 104,
      105, 106, 107, 105, 106, 107, 108, 106, 107, 108, 109, 107, 108, 109,
      110, 108, 109, 110, 111, 109, 110, 111, 112, 110, 111, 112, 113>>>>

sha256_test_sum ==
  {[kind |-> "sha224",
    message |-> sha256_test_buf[1],
    digest |->
      <<\h2309, \h7d22, \h3405, \hd822, \h8642, \ha477, \hbda2, \h55b3,
        \h2aad, \hbce4, \hbda0, \hb3f7, \he36c, \h9da7>>],
   [kind |-> "sha224",
    message |-> sha256_test_buf[2],
    digest |->
      <<\h7538, \h8b16, \h5127, \h76cc, \h5dba, \h5da1, \hfd89, \h0150,
        \hb0c6, \h455c, \hb4f5, \h8b19, \h5252, \h2525>>],
   [kind |-> "sha256",
    message |-> sha256_test_buf[1],
    digest |->
      <<\hba78, \h16bf, \h8f01, \hcfea, \h4141, \h40de, \h5dae, \h2223,
        \hb003, \h61a3, \h9617, \h7a9c, \hb410, \hff61, \hf200, \h15ad>>],
   [kind |-> "sha256",
    message |-> sha256_test_buf[2],
    digest |->
      <<\h248d, \h6a61, \hd206, \h38b8, \he5c0, \h2693, \h0c3e, \h6039,
        \ha33c, \he459, \h64ff, \h2167, \hf6ec, \hedd4, \h19db, \h06c1>>]}

test_KEC ==
  {[kind |-> "KEC256",
    message |-> <<>>,
    digest |->
      <<\hc5d2, \h4601, \h86f7, \h233c, \h927e, \h7db2, \hdcc7, \h03c0,
        \he500, \hb653, \hca82, \h273b, \h7bfa, \hd804, \h5d85, \ha470>>],
   [kind |-> "KEC256",
    message |-> Fox,
    digest |->
      <<\h4d74, \h1b6f, \h1eb2, \h9cb2, \ha9b9, \h911c, \h82f5, \h6fa8,
        \hd73b, \h0495, \h9d3d, \h9d22, \h2895, \hdf6c, \h0b28, \haa15>>]}

(* main of sha3-tests.c with SHA3_USE_KECCAK, but for the message of 2^30 bytes *)
KeccakKAT ==
  {[kind |-> "KEC256",
    message |-> <<204>>,
    digest |->
      <<\heead, \h6dbf, \hc734, \h0a56, \hcaed, \hc044, \h696a, \h1688,
        \h7054, \h9a6a, \h7f6f, \h5696, \h1e84, \ha54b, \hd997, \h0b8a>>],
   [kind |-> "KEC256",
    message |-> <<65, 251>>,
    digest |->
      <<\ha8ea, \hceda, \h4d47, \hb328, \h1a79, \h5ad9, \he1ea, \h2122,
        \hb407, \hbaf9, \haabc, \hb9e1, \h8b57, \h17b7, \h8735, \h37d2>>],
   [kind |-> "KEC256",
    message |-> <<82, 166, 8, 171, 33, 204, 221, 138, 68, 87, 165, 126,
                  222, 120, 33, 118>>,
    digest |->
      <<\h0e32, \hdefa, \h2071, \hf0b5, \hac0e, \h6a10, \h8b84, \h2ed0,
        \hf1d3, \h2497, \h12f5, \h8ee0, \hddf9, \h56fe, \h332a, \h5f95>>],
   [kind |-> "KEC256",
    message |-> <<67, 60, 83, 3, 19, 22, 36, 192, 2, 29, 134, 138, 48, 130,
                  84, 117, 232, 208, 189, 48, 82, 160, 34, 24, 3, 152, 244,
                  202, 68, 35, 185, 130, 20, 182, 190, 170, 194, 28, 136,
                  7, 162, 195, 63, 140, 147, 189, 66, 176, 146, 204, 27, 6,
                  206, 223, 50, 36, 213, 237, 30, 194, 151, 132, 68, 79,
                  34, 224, 138, 85, 170, 88, 84, 43, 82, 75, 2, 205, 61,
                  93, 95, 105, 7, 175, 231, 28, 93, 116, 98, 34, 74, 63,
                  157, 158, 83, 231, 224, 132, 109, 203, 180, 206>>,
    digest |->
      <<\hce87, \ha517, \h3bff, \hd923, \h9922, \h1658, \hf801, \hd45c,
        \h294d, \h9006, \hee9f, \h3f9d, \h419c, \h8d42, \h7748, \hdc41>>]}

(* tweetnacl.c has no tests: the example of FIPS 180 for SHA-512, one block *)
(* with its padding, and those of the NaCl paper for the Salsa20 cores.    *)
Abc512 == <<97, 98, 99, 128>> \o Repeat(0, 123) \o <<24>>

CoreAnswers ==
  {[of |-> "hashblocks",
    message |-> Abc512,
    digest |->
      <<\hddaf, \h35a1, \h9361, \h7aba, \hcc41, \h7349, \hae20, \h4131,
        \h12e6, \hfa4e, \h89a9, \h7ea2, \h0a9e, \heee6, \h4b55, \hd39a,
        \h2192, \h992a, \h274f, \hc1a8, \h36ba, \h3c23, \ha3fe, \hebbd,
        \h454d, \h4423, \h643c, \he80e, \h2a9a, \hc94f, \ha54c, \ha49f>>],
   [of |-> "hsalsa20",
    key |-> <<27, 39, 85, 100, 115, 233, 133, 212, 98, 205, 81, 25, 122,
                154, 70, 199, 96, 9, 84, 158, 172, 100, 116, 242, 6, 196,
                238, 8, 68, 246, 131, 137>>,
    message |-> <<105, 105, 110, 233, 85, 182, 43, 115, 205, 98, 189, 168, 117,
                252, 115, 214>>,
    digest |->
      <<\hdc90, \h8dda, \h0b93, \h44a9, \h5362, \h9b73, \h3820, \h7788,
        \h80f3, \hceb4, \h21bb, \h61b9, \h1cbd, \h4c3e, \h6625, \h6ce4>>],
   [of |-> "salsa20",
    key |-> <<220, 144, 141, 218, 11, 147, 68, 169, 83, 98, 155, 115, 56,
                32, 119, 136, 128, 243, 206, 180, 33, 187, 97, 185, 28, 189,
                76, 62, 102, 37, 108, 228>>,
    message |-> <<130, 25, 224, 3, 107, 122, 11, 55>> \o Repeat(0, 8),
    digest |->
      <<\heea6, \ha725, \h1c1e, \h7291, \h6d11, \hc2cb, \h214d, \h3c25,
        \h2539, \h121d, \h8e23, \h4e65, \h2d65, \h1fa4, \hc8cf, \hf880>>]}

=============================================================================
