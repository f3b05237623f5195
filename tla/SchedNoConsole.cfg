SPECIFICATION Spec
CONSTANTS
  u1 = u1
  u2 = u2
  u3 = u3
  Idle = Idle
  NULL = NULL
  Shell = u1
  User <- ThreeThreads
  Calls <- NoConsole
  Quantum = 1
  Sleeps = {1, 2}
  MaxTime = 5
  Wraps = FALSE
  MaxInput = 1
CHECK_DEADLOCK FALSE
INVARIANT NeverHangs
PROPERTIES TermIsForever WaitMeansExited WakesWhenDue
