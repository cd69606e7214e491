SPECIFICATION FairSpec
CONSTANTS
  alice = alice
  bob = bob
  zero = zero
  fuel = fuel
  collection = collection
  king = king
  queen = queen
  None = None
  Ask = Ask
  Users = {alice, bob, zero}
  Pools = {fuel}
  Contracts = {collection}
  CardIds = {king, queen}
  Chains <- MCRewards
  MaxFaults = 1
PROPERTIES EveryEventDone
CHECK_DEADLOCK FALSE
