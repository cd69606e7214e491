SPECIFICATION FairSpec
CONSTANTS
  Users = {u1}
  None = None
  MinJoined = 1
  MaxPools = 2
  FaultKinds = {"time", "loop", "query", "restart"}
  MaxFaults = 1
INVARIANTS TypeOK DrawnWhenOver WinnerStaked DrawnOnce
PROPERTIES NextPoolCreated
