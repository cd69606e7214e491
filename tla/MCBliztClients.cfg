SPECIFICATION FairSpec
CONSTANTS
  Sockets = {s1, s2}
  u1 = u1
  Users = {u1}
  Owner <- OneUser
  MaxCalls = 3
INVARIANTS TypeOK Stoppable StartedWorks
PROPERTIES StoppedLoopEnds
CHECK_DEADLOCK FALSE
