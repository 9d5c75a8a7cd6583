\* Checkpoints, commits and challenges with failing handlers, crashes and restarts.
CONSTANTS
  a = a
  b = b
  Party = {a, b}
  ZeroAddress = ZeroAddress
  NoKey = NoKey
  Public = Public
  None = None
  Torn = Torn
  NumChannels = 1
  Deposits = {1}
  RawUpdates <- RawEarly
  ProofUpdates <- NoUpdates
  Attestable <- RemoteOld
  Steps = 1
  CHALLENGE_PERIOD = 1
  MaxTime = 1
SPECIFICATION WatchtowerSpec
INVARIANTS
  CommitsRise
  CommitmentsBacked
  CheckpointsProtect
SYMMETRY AccountSymmetry
