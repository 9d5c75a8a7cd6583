\* Two channels of the same two accounts share the ledger, the signers and the clock.
\* Every window opens at 0 and can run out at 1.
CONSTANTS
  a = a
  b = b
  Party = {a, b}
  ZeroAddress = ZeroAddress
  NoKey = NoKey
  Public = Public
  None = None
  NumChannels = 2
  Deposits = {1}
  RawUpdates <- RawTwo
  ProofUpdates <- NoUpdates
  Attestable <- NoUpdates
  Steps = 1
  CHALLENGE_PERIOD = 1
  MaxTime = 1
SYMMETRY AccountSymmetry
SPECIFICATION Spec
INVARIANTS
  SettlementAuthentic
  EscrowExact
