\* One channel closed with a proof.
CONSTANTS
  a = a
  b = b
  r1 = r1
  r2 = r2
  Party = {a, b}
  ZeroAddress = ZeroAddress
  NoKey = NoKey
  Public = Public
  None = None
  NumChannels = 1
  Deposits = {1}
  RawUpdates <- NoUpdates
  ProofUpdates <- ProofOne
  Attestable <- NoUpdates
  Steps = 1
  CHALLENGE_PERIOD = 1
  MaxTime = 1
  Relayers = {r1}
SPECIFICATION RelaySpec
INVARIANT AttestedWasReached
