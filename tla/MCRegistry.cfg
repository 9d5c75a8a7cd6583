\* One channel; either party stakes, commits, slashes and claims.
CONSTANTS
  c1 = c1
  a = a
  w = w
  Channel = {c1}
  Amounts = {0}
  Nonces = {1, 2}
  CHALLENGE_PERIOD = 1
  MaxTime = 3
  Address = {a, w}
  PartyA <- AllA
  PartyB <- AllW
  StakeAmounts = {5, 20}
  MIN_STAKE = 20
  SLASH_BOUNTY_BPS = 1000
  BPS_DENOMINATOR = 10000
  UNSTAKE_COOLDOWN = 1
  Unobserved = Unobserved
  MaxBalance = 25
SPECIFICATION FairSpec
INVARIANTS
  TypeOK
  Solvency
  DiligentNeverSlashed
PROPERTIES
  StakeLeavesJustly
  StakeReleased
