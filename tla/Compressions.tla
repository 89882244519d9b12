---------------------------- MODULE Compressions ----------------------------
(***************************************************************************)
(* The functions that the hash contexts of Blake2b, Sha256 and Sha3 leave  *)
(* uninterpreted, and those of tweetnacl.c, on words of their full size:   *)
(* blake2b_compress, mbedtls_sha256_process, keccakf, crypto_hashblocks    *)
(* and the Salsa20 core.  An array a is a sequence: a[i] of the C code is  *)
(* a[i + 1] here.                                                          *)
(***************************************************************************)
EXTENDS Words

Arrays == Seq(SUBSET Nat)     \* arrays of words

(* Addition modulo 2^width: add without the carries, then add the carries. *)
RECURSIVE Add(_, _, _)
Add(x, y, width) ==
  IF y = {} THEN x ELSE Add(Xor(x, y), Shl(x \cap y, 1, width), width)

Sum(words, width) ==
  LET sum[n \in 0..Len(words)] ==
        IF n = 0 THEN {} ELSE Add(sum[n - 1], words[n], width)
  IN  sum[Len(words)]

Negate(x, width) == Add((0..(width - 1)) \ x, {0}, width)

(* Constants are written in their 16-bit parts, the highest first. *)
WordsOf(table) == Array(Len(table), LAMBDA i : Word(table[i]))
(* The i-th of the parts of a given size. *)
Slice(bytes, size, i) == SubSeq(bytes, size * (i - 1) + 1, size * i)

-----------------------------------------------------------------------------
(* blake2b-ref.c *)

blake2b_IV == WordsOf(
  <<<<\h6a09, \he667, \hf3bc, \hc908>>, <<\hbb67, \hae85, \h84ca, \ha73b>>,
    <<\h3c6e, \hf372, \hfe94, \hf82b>>, <<\ha54f, \hf53a, \h5f1d, \h36f1>>,
    <<\h510e, \h527f, \hade6, \h82d1>>, <<\h9b05, \h688c, \h2b3e, \h6c1f>>,
    <<\h1f83, \hd9ab, \hfb41, \hbd6b>>, <<\h5be0, \hcd19, \h137e, \h2179>>>>)

blake2b_sigma ==
  <<<<0, 1, 2, 3, 4, 5, 6, 7, 8, 9, 10, 11, 12, 13, 14, 15>>,
    <<14, 10, 4, 8, 9, 15, 13, 6, 1, 12, 0, 2, 11, 7, 5, 3>>,
    <<11, 8, 12, 0, 5, 2, 15, 13, 10, 14, 3, 6, 7, 1, 9, 4>>,
    <<7, 9, 3, 1, 13, 12, 11, 14, 2, 6, 5, 10, 4, 0, 15, 8>>,
    <<9, 0, 5, 7, 2, 4, 10, 15, 14, 1, 11, 12, 6, 8, 3, 13>>,
    <<2, 12, 6, 10, 0, 11, 8, 3, 4, 13, 7, 5, 15, 14, 1, 9>>,
    <<12, 5, 1, 15, 14, 13, 4, 10, 0, 7, 6, 3, 9, 2, 8, 11>>,
    <<13, 11, 7, 14, 12, 1, 3, 9, 5, 0, 15, 4, 8, 6, 2, 10>>,
    <<6, 15, 14, 9, 11, 3, 0, 8, 12, 2, 13, 7, 1, 4, 10, 5>>,
    <<10, 2, 8, 4, 7, 6, 1, 5, 15, 11, 9, 14, 3, 12, 13, 0>>,
    <<0, 1, 2, 3, 4, 5, 6, 7, 8, 9, 10, 11, 12, 13, 14, 15>>,
    <<14, 10, 4, 8, 9, 15, 13, 6, 1, 12, 0, 2, 11, 7, 5, 3>>>>

(* The macro G: four words of v are mixed with two of the message. *)
AddTo(v, a, b, x) == [v EXCEPT ![a] = Sum(<<@, v[b], x>>, 64)]
MixInto(v, d, a, n) == [v EXCEPT ![d] = RotateRight(Xor(@, v[a]), n, 64)]
HalfG(v, a, b, c, d, x, n, k) ==
  MixInto(AddTo(MixInto(AddTo(v, a, b, x), d, a, n), c, d, {}), b, c, k)

G(v, m, r, i, a, b, c, d) ==
  HalfG(HalfG(v, a, b, c, d, m[blake2b_sigma[r][2 * i + 1] + 1], 32, 24),
        a, b, c, d, m[blake2b_sigma[r][2 * i + 2] + 1], 16, 63)

(* Mutant of Round: columns only. *)
RoundOfColumns(v0, m, r) ==
  LET Mix(v, k) ==
        LET n == (k - 1) % 4
        IN  G(v, m, r, k - 1, n + 1, n + 5, n + 9, n + 13)
  IN  Loop(Arrays, Mix, v0, 8)

(* The macro ROUND: the four columns, then the four diagonals. *)
Round(v0, m, r) ==
  LET Mix(v, k) ==
        LET n == k - 1
            shift == IF n < 4 THEN 0 ELSE 1
            at(row) == 4 * row + ((n + row * shift) % 4) + 1
        IN  G(v, m, r, n, at(0), at(1), at(2), at(3))
  IN  Loop(Arrays, Mix, v0, 8)

(* The first word of the parameter block is all that the callers set. *)
blake2b_init_param(digest_length, key_length) ==
  LET P0 == Word(<<\h0101, 256 * key_length + digest_length>>)
  IN  [blake2b_IV EXCEPT ![1] = Xor(@, P0)]

(* h, the block, the byte counter and the finalisation flags, as words. *)
blake2b_compress(h, block, t, f) ==
  LET m == Array(16, LAMBDA i : LoadLittle(Slice(block, 8, i)))
      low == SubSeq(blake2b_IV, 1, 4)
      high == Array(4, LAMBDA i : Xor(blake2b_IV[i + 4], (t \o f)[i]))
      last == Loop(Arrays, LAMBDA v, r : Round(v, m, r), h \o low \o high, 12)
  IN  Array(8, LAMBDA i : XorAll(h[i], last[i], last[i + 8]))

-----------------------------------------------------------------------------
(* sha256.c *)

InitialState(kind) == WordsOf(
  IF kind = "sha224"
  THEN <<<<\hc105, \h9ed8>>, <<\h367c, \hd507>>, <<\h3070, \hdd17>>,
         <<\hf70e, \h5939>>, <<\hffc0, \h0b31>>, <<\h6858, \h1511>>,
         <<\h64f9, \h8fa7>>, <<\hbefa, \h4fa4>>>>
  ELSE <<<<\h6a09, \he667>>, <<\hbb67, \hae85>>, <<\h3c6e, \hf372>>,
         <<\ha54f, \hf53a>>, <<\h510e, \h527f>>, <<\h9b05, \h688c>>,
         <<\h1f83, \hd9ab>>, <<\h5be0, \hcd19>>>>)

K256 == WordsOf(
  <<<<\h428a, \h2f98>>, <<\h7137, \h4491>>, <<\hb5c0, \hfbcf>>, <<\he9b5, \hdba5>>,
    <<\h3956, \hc25b>>, <<\h59f1, \h11f1>>, <<\h923f, \h82a4>>, <<\hab1c, \h5ed5>>,
    <<\hd807, \haa98>>, <<\h1283, \h5b01>>, <<\h2431, \h85be>>, <<\h550c, \h7dc3>>,
    <<\h72be, \h5d74>>, <<\h80de, \hb1fe>>, <<\h9bdc, \h06a7>>, <<\hc19b, \hf174>>,
    <<\he49b, \h69c1>>, <<\hefbe, \h4786>>, <<\h0fc1, \h9dc6>>, <<\h240c, \ha1cc>>,
    <<\h2de9, \h2c6f>>, <<\h4a74, \h84aa>>, <<\h5cb0, \ha9dc>>, <<\h76f9, \h88da>>,
    <<\h983e, \h5152>>, <<\ha831, \hc66d>>, <<\hb003, \h27c8>>, <<\hbf59, \h7fc7>>,
    <<\hc6e0, \h0bf3>>, <<\hd5a7, \h9147>>, <<\h06ca, \h6351>>, <<\h1429, \h2967>>,
    <<\h27b7, \h0a85>>, <<\h2e1b, \h2138>>, <<\h4d2c, \h6dfc>>, <<\h5338, \h0d13>>,
    <<\h650a, \h7354>>, <<\h766a, \h0abb>>, <<\h81c2, \hc92e>>, <<\h9272, \h2c85>>,
    <<\ha2bf, \he8a1>>, <<\ha81a, \h664b>>, <<\hc24b, \h8b70>>, <<\hc76c, \h51a3>>,
    <<\hd192, \he819>>, <<\hd699, \h0624>>, <<\hf40e, \h3585>>, <<\h106a, \ha070>>,
    <<\h19a4, \hc116>>, <<\h1e37, \h6c08>>, <<\h2748, \h774c>>, <<\h34b0, \hbcb5>>,
    <<\h391c, \h0cb3>>, <<\h4ed8, \haa4a>>, <<\h5b9c, \hca4f>>, <<\h682e, \h6ff3>>,
    <<\h748f, \h82ee>>, <<\h78a5, \h636f>>, <<\h84c8, \h7814>>, <<\h8cc7, \h0208>>,
    <<\h90be, \hfffa>>, <<\ha450, \h6ceb>>, <<\hbef9, \ha3f7>>, <<\hc671, \h78f2>>>>)

ROTR(x, n) == RotateRight(x, n, 32)
S0(x) == XorAll(ROTR(x, 7), ROTR(x, 18), Shr(x, 3))
S1(x) == XorAll(ROTR(x, 17), ROTR(x, 19), Shr(x, 10))
S2(x) == XorAll(ROTR(x, 2), ROTR(x, 13), ROTR(x, 22))
S3(x) == XorAll(ROTR(x, 6), ROTR(x, 11), ROTR(x, 25))
F0(x, y, z) == (x \cap y) \cup (z \cap (x \cup y))
F1(x, y, z) == Xor(z, x \cap Xor(y, z))

(* The macro R, for every t. *)
Schedule(block) ==
  LET Extend(w, k) ==
        LET t == k + 16
        IN  Append(w, Sum(<<S1(w[t - 2]), w[t - 7], S0(w[t - 15]), w[t - 16]>>,
                          32))
  IN  Loop(Arrays, Extend,
           Array(16, LAMBDA i : LoadBig(Slice(block, 4, i))), 48)

(* The macro P in the unrolled loops: the registers stay where they are    *)
(* and their roles move by one from a step to the next.                    *)
Step(A, i, w) ==
  LET at(role) == ((role - i) % 8) + 1
      temp1 == Sum(<<A[at(7)], S3(A[at(4)]),
                     F1(A[at(4)], A[at(5)], A[at(6)]), K256[i + 1], w>>, 32)
      temp2 == Add(S2(A[at(0)]), F0(A[at(0)], A[at(1)], A[at(2)]), 32)
  IN  [A EXCEPT ![at(3)] = Add(@, temp1, 32), ![at(7)] = Add(temp1, temp2, 32)]

sha256_process(state, block) ==
  LET W == Schedule(block)
      last == Loop(Arrays, LAMBDA A, i : Step(A, i - 1, W[i]), state, 64)
  IN  Array(8, LAMBDA i : Add(state[i], last[i], 32))

-----------------------------------------------------------------------------
(* sha3-ref.c *)

keccakf_rndc == WordsOf(
  <<<<\h0000, \h0000, \h0000, \h0001>>, <<\h0000, \h0000, \h0000, \h8082>>,
    <<\h8000, \h0000, \h0000, \h808a>>, <<\h8000, \h0000, \h8000, \h8000>>,
    <<\h0000, \h0000, \h0000, \h808b>>, <<\h0000, \h0000, \h8000, \h0001>>,
    <<\h8000, \h0000, \h8000, \h8081>>, <<\h8000, \h0000, \h0000, \h8009>>,
    <<\h0000, \h0000, \h0000, \h008a>>, <<\h0000, \h0000, \h0000, \h0088>>,
    <<\h0000, \h0000, \h8000, \h8009>>, <<\h0000, \h0000, \h8000, \h000a>>,
    <<\h0000, \h0000, \h8000, \h808b>>, <<\h8000, \h0000, \h0000, \h008b>>,
    <<\h8000, \h0000, \h0000, \h8089>>, <<\h8000, \h0000, \h0000, \h8003>>,
    <<\h8000, \h0000, \h0000, \h8002>>, <<\h8000, \h0000, \h0000, \h0080>>,
    <<\h0000, \h0000, \h0000, \h800a>>, <<\h8000, \h0000, \h8000, \h000a>>,
    <<\h8000, \h0000, \h8000, \h8081>>, <<\h8000, \h0000, \h0000, \h8080>>,
    <<\h0000, \h0000, \h8000, \h0001>>, <<\h8000, \h0000, \h8000, \h8008>>>>)

keccakf_rotc ==
  <<1, 3, 6, 10, 15, 21, 28, 36, 45, 55, 2, 14,
    27, 41, 56, 8, 25, 43, 62, 18, 39, 61, 20, 44>>
keccakf_piln ==
  <<10, 7, 11, 17, 18, 3, 5, 16, 8, 21, 24, 4,
    15, 23, 19, 13, 12, 2, 20, 14, 22, 9, 6, 1>>

Theta(s) ==
  LET bc == Array(5, LAMBDA i : XorAll(s[i], s[i + 5],
                                  XorAll(s[i + 10], s[i + 15], s[i + 20])))
      t(i) == Xor(bc[((i + 3) % 5) + 1], RotateLeft(bc[(i % 5) + 1], 1, 64))
  IN  Array(25, LAMBDA j : Xor(s[j], t(((j - 1) % 5) + 1)))

(* The words move along one cycle, each rotated on its way. *)
RhoPi(s) ==
  [j \in 1..25 |->
     IF j = 1 THEN s[1]
     ELSE LET i == CHOOSE i \in 1..24 : keccakf_piln[i] + 1 = j
              from == IF i = 1 THEN 1 ELSE keccakf_piln[i - 1]
          IN  RotateLeft(s[from + 1], keccakf_rotc[i], 64)]

Chi(s) ==
  LET row(j) == [i \in 1..5 |-> Xor(s[j + i], s[j + ((i + 1) % 5) + 1]
                                             \ s[j + (i % 5) + 1])]
  IN  row(0) \o row(5) \o row(10) \o row(15) \o row(20)

Iota(s, round) == [s EXCEPT ![1] = Xor(@, keccakf_rndc[round])]

keccakf(s) ==
  Loop(Arrays, LAMBDA t, round : Iota(Chi(RhoPi(Theta(t))), round), s, 24)

-----------------------------------------------------------------------------
(* tweetnacl.c: the block function of SHA-512 *)

K512 == WordsOf(
  <<<<\h428a, \h2f98, \hd728, \hae22>>, <<\h7137, \h4491, \h23ef, \h65cd>>,
    <<\hb5c0, \hfbcf, \hec4d, \h3b2f>>, <<\he9b5, \hdba5, \h8189, \hdbbc>>,
    <<\h3956, \hc25b, \hf348, \hb538>>, <<\h59f1, \h11f1, \hb605, \hd019>>,
    <<\h923f, \h82a4, \haf19, \h4f9b>>, <<\hab1c, \h5ed5, \hda6d, \h8118>>,
    <<\hd807, \haa98, \ha303, \h0242>>, <<\h1283, \h5b01, \h4570, \h6fbe>>,
    <<\h2431, \h85be, \h4ee4, \hb28c>>, <<\h550c, \h7dc3, \hd5ff, \hb4e2>>,
    <<\h72be, \h5d74, \hf27b, \h896f>>, <<\h80de, \hb1fe, \h3b16, \h96b1>>,
    <<\h9bdc, \h06a7, \h25c7, \h1235>>, <<\hc19b, \hf174, \hcf69, \h2694>>,
    <<\he49b, \h69c1, \h9ef1, \h4ad2>>, <<\hefbe, \h4786, \h384f, \h25e3>>,
    <<\h0fc1, \h9dc6, \h8b8c, \hd5b5>>, <<\h240c, \ha1cc, \h77ac, \h9c65>>,
    <<\h2de9, \h2c6f, \h592b, \h0275>>, <<\h4a74, \h84aa, \h6ea6, \he483>>,
    <<\h5cb0, \ha9dc, \hbd41, \hfbd4>>, <<\h76f9, \h88da, \h8311, \h53b5>>,
    <<\h983e, \h5152, \hee66, \hdfab>>, <<\ha831, \hc66d, \h2db4, \h3210>>,
    <<\hb003, \h27c8, \h98fb, \h213f>>, <<\hbf59, \h7fc7, \hbeef, \h0ee4>>,
    <<\hc6e0, \h0bf3, \h3da8, \h8fc2>>, <<\hd5a7, \h9147, \h930a, \ha725>>,
    <<\h06ca, \h6351, \he003, \h826f>>, <<\h1429, \h2967, \h0a0e, \h6e70>>,
    <<\h27b7, \h0a85, \h46d2, \h2ffc>>, <<\h2e1b, \h2138, \h5c26, \hc926>>,
    <<\h4d2c, \h6dfc, \h5ac4, \h2aed>>, <<\h5338, \h0d13, \h9d95, \hb3df>>,
    <<\h650a, \h7354, \h8baf, \h63de>>, <<\h766a, \h0abb, \h3c77, \hb2a8>>,
    <<\h81c2, \hc92e, \h47ed, \haee6>>, <<\h9272, \h2c85, \h1482, \h353b>>,
    <<\ha2bf, \he8a1, \h4cf1, \h0364>>, <<\ha81a, \h664b, \hbc42, \h3001>>,
    <<\hc24b, \h8b70, \hd0f8, \h9791>>, <<\hc76c, \h51a3, \h0654, \hbe30>>,
    <<\hd192, \he819, \hd6ef, \h5218>>, <<\hd699, \h0624, \h5565, \ha910>>,
    <<\hf40e, \h3585, \h5771, \h202a>>, <<\h106a, \ha070, \h32bb, \hd1b8>>,
    <<\h19a4, \hc116, \hb8d2, \hd0c8>>, <<\h1e37, \h6c08, \h5141, \hab53>>,
    <<\h2748, \h774c, \hdf8e, \heb99>>, <<\h34b0, \hbcb5, \he19b, \h48a8>>,
    <<\h391c, \h0cb3, \hc5c9, \h5a63>>, <<\h4ed8, \haa4a, \he341, \h8acb>>,
    <<\h5b9c, \hca4f, \h7763, \he373>>, <<\h682e, \h6ff3, \hd6b2, \hb8a3>>,
    <<\h748f, \h82ee, \h5def, \hb2fc>>, <<\h78a5, \h636f, \h4317, \h2f60>>,
    <<\h84c8, \h7814, \ha1f0, \hab72>>, <<\h8cc7, \h0208, \h1a64, \h39ec>>,
    <<\h90be, \hfffa, \h2363, \h1e28>>, <<\ha450, \h6ceb, \hde82, \hbde9>>,
    <<\hbef9, \ha3f7, \hb2c6, \h7915>>, <<\hc671, \h78f2, \he372, \h532b>>,
    <<\hca27, \h3ece, \hea26, \h619c>>, <<\hd186, \hb8c7, \h21c0, \hc207>>,
    <<\heada, \h7dd6, \hcde0, \heb1e>>, <<\hf57d, \h4f7f, \hee6e, \hd178>>,
    <<\h06f0, \h67aa, \h7217, \h6fba>>, <<\h0a63, \h7dc5, \ha2c8, \h98a6>>,
    <<\h113f, \h9804, \hbef9, \h0dae>>, <<\h1b71, \h0b35, \h131c, \h471b>>,
    <<\h28db, \h77f5, \h2304, \h7d84>>, <<\h32ca, \hab7b, \h40c7, \h2493>>,
    <<\h3c9e, \hbe0a, \h15c9, \hbebc>>, <<\h431d, \h67c4, \h9c10, \h0d4c>>,
    <<\h4cc5, \hd4be, \hcb3e, \h42b6>>, <<\h597f, \h299c, \hfc65, \h7e2a>>,
    <<\h5fcb, \h6fab, \h3ad6, \hfaec>>, <<\h6c44, \h198c, \h4a47, \h5817>>>>)

(* The square roots of the first primes, as for BLAKE2b. *)
iv == blake2b_IV

Ch(x, y, z) == Xor(x \cap y, z \ x)
Maj(x, y, z) == XorAll(x \cap y, x \cap z, y \cap z)
R64(x, n) == RotateRight(x, n, 64)
Sigma0(x) == XorAll(R64(x, 28), R64(x, 34), R64(x, 39))
Sigma1(x) == XorAll(R64(x, 14), R64(x, 18), R64(x, 41))
sigma0(x) == XorAll(R64(x, 1), R64(x, 8), Shr(x, 7))
sigma1(x) == XorAll(R64(x, 19), R64(x, 61), Shr(x, 6))

(* One turn of the loop: b is a copy of a with two words changed, which is *)
(* copied back one place up.                                               *)
Turn(a, i, w) ==
  LET t == Sum(<<a[8], Sigma1(a[5]), Ch(a[5], a[6], a[7]), K512[i], w>>, 64)
      b == [a EXCEPT ![8] = Sum(<<t, Sigma0(a[1]), Maj(a[1], a[2], a[3])>>, 64),
                     ![4] = Add(@, t, 64)]
  IN  <<b[8]>> \o SubSeq(b, 1, 7)

(* The sixteen words are replaced in place, one after the other. *)
Reschedule(w) ==
  LET Replace(v, j) ==
        LET at(n) == v[((j - 1 + n) % 16) + 1]
        IN  [v EXCEPT ![j] = Sum(<<@, at(9), sigma0(at(1)), sigma1(at(14))>>,
                                 64)]
  IN  Loop(Arrays, Replace, w, 16)

HashBlock(z, block) ==
  LET w0 == Array(16, LAMBDA i : LoadBig(Slice(block, 8, i)))
      TurnBoth(aw, i) ==
        <<Turn(aw[1], i, aw[2][((i - 1) % 16) + 1]),
          IF i % 16 = 0 THEN Reschedule(aw[2]) ELSE aw[2]>>
      last == Loop(Seq(Arrays), TurnBoth, <<z, w0>>, 80)[1]
  IN  Array(8, LAMBDA i : Add(last[i], z[i], 64))

(* Whole blocks only; the rest of the message is left to the caller. *)
crypto_hashblocks(z0, bytes) ==
  Loop(Arrays, LAMBDA z, n : HashBlock(z, Slice(bytes, 128, n)),
       z0, Len(bytes) \div 128)

-----------------------------------------------------------------------------
(* tweetnacl.c: the core of Salsa20 and of HSalsa20 *)

L32(x, n) == RotateLeft(x, n, 32)
LoadWords(bytes) ==
  Array(Len(bytes) \div 4, LAMBDA i : LoadLittle(Slice(bytes, 4, i)))

(* One column or row, of which the first is on the diagonal. *)
XorSum(t, i, j, k, n) == [t EXCEPT ![i] = Xor(@, L32(Add(t[j], t[k], 32), n))]
Quarter(t) ==
  XorSum(XorSum(XorSum(XorSum(t, 2, 1, 4, 7), 3, 2, 1, 9), 4, 3, 2, 13),
         1, 4, 3, 18)

(* The columns are written back as rows, so that the next round does those. *)
SalsaRound(x) ==
  LET row(j) ==
        LET t == Quarter(Array(4, LAMBDA m : x[((5 * j + 4 * (m - 1)) % 16) + 1]))
        IN  Array(4, LAMBDA i : t[((i - 1 - j) % 4) + 1])
  IN  row(0) \o row(1) \o row(2) \o row(3)

(* in, k and c are byte strings of 16, 32 and 16 bytes; their words are    *)
(* laid out in a square with those of c on the diagonal.                   *)
Laid(inw, kw, cw) ==
  <<cw[1]>> \o SubSeq(kw, 1, 4) \o <<cw[2]>> \o inw
    \o <<cw[3]>> \o SubSeq(kw, 5, 8) \o <<cw[4]>>
Summed(y, x) == Array(16, LAMBDA i : Add(x[i], y[i], 32))
Rounds20(y) == Summed(y, Loop(Arrays, LAMBDA x, r : SalsaRound(x), y, 20))
(* HSalsa20 subtracts again what was added, on eight places. *)
HWords(sum, inw, cw) ==
  LET less(i, word) == Add(sum[i], Negate(word, 32), 32)
  IN  Array(8, LAMBDA i : IF i <= 4 THEN less(5 * i - 4, cw[i])
                         ELSE less(i + 2, inw[i - 4]))
Output(sum, inw, cw, h) ==
  StoreWords(IF h THEN HWords(sum, inw, cw) ELSE sum, 4, StoreLittle)
CoreWords(inw, kw, cw, h) == Output(Rounds20(Laid(inw, kw, cw)), inw, cw, h)
core(in, k, c, h) == CoreWords(LoadWords(in), LoadWords(k), LoadWords(c), h)

crypto_core_salsa20(in, k, c) == core(in, k, c, FALSE)
crypto_core_hsalsa20(in, k, c) == core(in, k, c, TRUE)

(* "expand 32-byte k" *)
sigma == <<101, 120, 112, 97, 110, 100, 32, 51, 50, 45, 98, 121, 116, 101, 32, 107>>
=============================================================================
