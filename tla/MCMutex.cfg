SPECIFICATION FairSpec
CONSTANTS
  Threads = {t1, t2, t3}
  NoThread = NoThread
  IsRecursive = TRUE
  MaxDepth = 2
  MaxFaults = 1
INVARIANTS HoldsAgree HandleUsable
PROPERTIES CallsReturn
