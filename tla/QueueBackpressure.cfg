SPECIFICATION FairSpec
CONSTANTS
  Events = {e1, e2, e3}
  Copies = {1, 2, 3}
  Callers = 2
  queueMaxSize = 0
  concurrency = 1
  attempts = 2
  MaxFaults = 1
INVARIANTS TypeOK QueueBounded EveryEventOnce
PROPERTIES EveryEventHandled
CHECK_DEADLOCK FALSE
