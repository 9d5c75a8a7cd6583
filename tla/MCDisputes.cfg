\* Every way of closing against a party that may or may not answer in time;
\* time can reach the end of every window.
CONSTANTS
  a = a
  b = b
  Party = {a, b}
  ZeroAddress = ZeroAddress
  NoKey = NoKey
  Public = Public
  None = None
  NumChannels = 1
  Deposits = {1}
  RawUpdates <- RawDefence
  ProofUpdates <- ProofDefence
  Attestable <- RemoteDefence
  Steps = 1
  CHALLENGE_PERIOD = 2
  MaxTime = 4
SPECIFICATION FairDefenceSpec
INVARIANTS
  NewestStateWins
  KnownPostOverridable
PROPERTY DisputesSettle
