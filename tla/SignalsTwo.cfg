SPECIFICATION SigFairSpec
CONSTANTS
  k = k
  p1 = p1
  p2 = p2
  m1 = m1
  h1 = h1
  ret = ret
  w1 = w1
  Proc <- TwoProcs
  KernelProc = k
  SigCount = 2
  MainCode = {m1}
  Handler = {h1}
  ReturnCode = ret
  NoHandler = NoHandler
  Word = {w1}
  NoWord = NoWord
  CodeWord <- SameWord
CHECK_DEADLOCK FALSE
INVARIANTS  InSigMeansHandler
PROPERTIES NoSignalLost 
