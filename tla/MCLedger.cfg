SPECIFICATION Spec
CONSTANTS
  alice = alice
  bob = bob
  zero = zero
  fuel = fuel
  collection = collection
  king = king
  queen = queen
  None = None
  Ask = Ask
  Users = {alice, bob, zero}
  Pools = {fuel}
  Contracts = {collection}
  CardIds = {king, queen}
  Chains <- MCChains
  MaxFaults = 1
INVARIANTS TypeOK PointsExact StakesExact CardsExact MetadataRequested
CHECK_DEADLOCK FALSE
