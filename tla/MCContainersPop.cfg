SPECIFICATION AllSpec
CONSTANTS
  Items = {a, b}
  Capacity = 3
  Junk = Junk
  Threads = {t1, t2}
  MaxCalls = 1
  Results = {x, y}
  Tmp = Tmp
  Failure = Failure
  Width = 4
CHECK_DEADLOCK FALSE
PROPERTY VectorPopDestroysLast
