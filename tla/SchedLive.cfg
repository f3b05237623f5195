SPECIFICATION FairSpec
CONSTANTS
  u1 = u1
  u2 = u2
  u3 = u3
  Idle = Idle
  NULL = NULL
  Shell = u1
  User <- TwoThreads
  Calls <- JobControl
  Quantum = 2
  Sleeps = {1}
  MaxTime = 3
  Wraps = TRUE
  MaxInput = 1
CHECK_DEADLOCK FALSE
 
PROPERTIES RunsAgain WaiterReturns
