\* Two watch-loops on the same channel.
CONSTANTS
  a = a
  b = b
  r1 = r1
  r2 = r2
  Party = {a, b}
  ZeroAddress = ZeroAddress
  NoKey = NoKey
  Public = Public
  None = None
  NumChannels = 1
  Deposits = {1}
  RawUpdates <- RawTwo
  ProofUpdates <- NoUpdates
  Attestable <- NoUpdates
  Steps = 1
  CHALLENGE_PERIOD = 1
  MaxTime = 1
  Relayers = {r1, r2}
SPECIFICATION RelaySpec
PROPERTY NeverRewound
