SPECIFICATION AllSpec
CONSTANTS
  Items = {a, b}
  Capacity = 3
  Junk = Junk
  Threads = {t1, t2}
  MaxCalls = 3
  Results = {x, y, z}
  Tmp = Tmp
  Failure = Failure
  Width = 4
CHECK_DEADLOCK FALSE
INVARIANTS SharedBalance SharedAloneIsExact ResultLifetimes IteratorsExact
PROPERTIES ImplementsFifo StackAndBag ResultMovesExact CleanupsRunOnce
