\* One channel with every way of closing it; a push may fail.
CONSTANTS
  a = a
  b = b
  Party = {a, b}
  ZeroAddress = ZeroAddress
  NoKey = NoKey
  Public = Public
  None = None
  NumChannels = 1
  Deposits = {1}
  RawUpdates <- RawSmall
  ProofUpdates <- ProofSmall
  Attestable <- RemoteSmall
  Steps = 2
  CHALLENGE_PERIOD = 2
  MaxTime = 4
SYMMETRY AccountSymmetry
SPECIFICATION Spec
INVARIANTS
  TypeOK
  EscrowExact
  PostedStateAuthentic
  CommitmentOnlyInWindow
  SettlementAuthentic
  Solvency
PROPERTIES
  PostsOnlyRise
  ClosedIsFinal
  ImplementsLifecycle
