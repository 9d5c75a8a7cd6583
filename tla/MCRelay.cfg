\* One channel disputed with raw signatures, one watch-loop that may fail, crash and restart.
CONSTANTS
  a = a
  b = b
  r1 = r1
  r2 = r2
  Party = {a, b}
  ZeroAddress = ZeroAddress
  NoKey = NoKey
  Public = Public
  None = None
  NumChannels = 1
  Deposits = {1}
  RawUpdates <- RawTwo
  ProofUpdates <- NoUpdates
  Attestable <- NoUpdates
  Steps = 1
  CHALLENGE_PERIOD = 1
  MaxTime = 2
  Relayers = {r1}
SPECIFICATION RelaySpec
INVARIANT UsableAttestation
PROPERTIES
  NeverRewound
  PostsRelayed
