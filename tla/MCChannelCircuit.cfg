\* Two updates over a field of 29 elements; a prover may write its own bits and its own Ay.
CONSTANTS
  P = 29
  WordBytes = 2
  RawT6 <- TinyT6
  RawT7 <- TinyT7
  a_coeff = 4
  d_coeff = 8
  BASE8_X <- TinyBaseX
  BASE8_Y <- TinyBaseY
  ChallengeBits = 5
  ScalarBits = 4
  Steps = 2
  RangeBits = 2
  Circuits <- TwoClaims
  Updates <- FewUpdates
  Signatures <- FewSignatures
  Stray <- CellsDepart
CHECK_DEADLOCK FALSE
SPECIFICATION Spec
INVARIANTS
  TypeOK
  ChainSound
  SignaturesSound
  RejectedForCause
  DecompositionSound
  ScalarMulIsRepeated
  ConstantsRead
PROPERTIES
  ImplementsChain
