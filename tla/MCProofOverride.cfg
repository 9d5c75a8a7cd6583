\* A proof posted under a private blinding, against newer EdDSA updates.
CONSTANTS
  a = a
  b = b
  Party = {a, b}
  ZeroAddress = ZeroAddress
  NoKey = NoKey
  Public = Public
  None = None
  NumChannels = 1
  Deposits = {1}
  RawUpdates <- NoUpdates
  ProofUpdates <- ProofFour
  Attestable <- NoUpdates
  Steps = 2
  CHALLENGE_PERIOD = 2
  MaxTime = 3
SYMMETRY AccountSymmetry
SPECIFICATION DefenceSpec
INVARIANT ProofOverridable
