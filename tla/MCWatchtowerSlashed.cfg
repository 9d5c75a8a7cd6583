\* The registry's view of a prompt process.
CONSTANTS
  a = a
  b = b
  Party = {a, b}
  ZeroAddress = ZeroAddress
  NoKey = NoKey
  Public = Public
  None = None
  Torn = Torn
  NumChannels = 1
  Deposits = {1}
  RawUpdates <- RawTwo
  ProofUpdates <- NoUpdates
  Attestable <- NoUpdates
  Steps = 1
  CHALLENGE_PERIOD = 1
  MaxTime = 1
SPECIFICATION DutySpec
INVARIANT SlashProvesMiss
