SPECIFICATION Spec
CONSTANTS
  alice = alice
  bob = bob
  zero = zero
  fuel = fuel
  collection = collection
  king = king
  queen = queen
  None = None
  Ask = Ask
  Users = {alice, bob, zero}
  Pools = {fuel}
  Contracts = {collection}
  CardIds = {king, queen}
  Chains <- MCTwoCards
  MaxFaults = 1
INVARIANTS OneDocumentPerCard
CHECK_DEADLOCK FALSE
