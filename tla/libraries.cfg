SPECIFICATION MCSpec
CONSTANTS
  BLOCKBYTES = 3
  OUTBYTES = 2
  KEYBYTES = 3
  WORD = 4
  Sizes = {0, 1, 2, 3}
  Keys <- MCKeys
  Lengths = {0, 1, 2, 3, 4, 5, 6, 7}
  ByteAt <- MCByteAt
  MaxFed = 10
  MaxBlocks = 3
  SHABLOCK = 8
  SHARADIX = 4
  WORDBYTES = 2
  SHAWORD = 16
  ShaLengths = {0, 1, 4, 7, 9, 15}
  ShaByteAt <- MCByteAt
  ShaMaxFed = 20
  ShaMaxBlocks = 1
  LANEBYTES = 2
  SPONGE_WORDS = 6
  OutWords <- MCOutWords
  TopBit = 7
  KeccakLengths = {0, 1, 2, 3, 5, 7}
  KeccakByteAt <- BitsAt
  KeccakMaxFed = 10
  MaxInputs = 2
  BOXBYTE = 16
  MACBYTES = 5
  NONCEBYTES = 2
  STREAMBLOCK = 12
  Core <- MCCore
  HCore <- MCCore
  ScalarMult <- crypto_scalarmult
  LIMBS = 2
  BYTEBITS = 4
  A24 <- MCA24
  D <- MCD
  D2 <- MCD2
  X <- MCX
  Y <- MCY
  I <- MCI
  L <- MCL
  SPAN = 3
  Hash <- MCHash
  CurveCalls <- MCCurveCalls
  BoxCalls <- MCBoxCalls
  HASHBLOCK = 8
  HASHBYTE = 16
  COUNTBYTES = 2
  hashiv <- MCiv
  Hashblocks <- Concatenated
  HashedMessages <- MCMessages
INVARIANTS
  NothingLost StreamInv SpongeInv
  KnownAnswers
  FieldIsExact InverseIsInverse LadderIsMultiplication PointsDecode
  ScalarIsMultiplication ModLIsRemainder SignatureOpens ForgeriesRefused
  OpensIffEquation
  StreamIsKeystream MacIsPolynomial BoxOpens HashIsPadded
  SignaturesVerify EncodingsParse PubkeysParse
PROPERTIES Blake2bIsHash Sha256IsHash Sha3IsHash
CHECK_DEADLOCK FALSE
