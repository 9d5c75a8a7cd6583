\* Committees of up to four seats and the demo committee, one validator that signs anything.
CONSTANTS
  v1 = v1
  v2 = v2
  v3 = v3
  v4 = v4
  f = f
  r1 = r1
  r2 = r2
  Validator = {v1, v2, v3, v4, f}
  Faulty = {f}
  ChainId = {1}
  BlockNumber = {1, 2}
  StateRoot = {r1, r2}
  NoRoot = NoRoot
  Signable <- Requests
  Batches <- SmallBatches
  MaxSeats = 4
  DemoKeys <- FiveKeys
  DemoThreshold = 3
  ByteSize = 3
CHECK_DEADLOCK FALSE
SPECIFICATION FairSpec
INVARIANTS
  TypeOK
  NoFork
  QuorumSigned
PROPERTY TwoThirdsSuffice
