SPECIFICATION Spec
CONSTANTS
  u1 = u1
  u2 = u2
  u3 = u3
  Idle = Idle
  NULL = NULL
  Shell = u1
  User <- TwoThreads
  Calls <- AllCalls
  Quantum = 2
  Sleeps = {1}
  MaxTime = 4
  Wraps = FALSE
  MaxInput = 2
CHECK_DEADLOCK FALSE
INVARIANTS TypeOK ReadyEndsAgree OneRunning IdleAvailable LoopOwnerCanRun
