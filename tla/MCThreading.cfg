SPECIFICATION AllSpec
CONSTANTS
  Kinds = {"thread", "cond_var"}
  Waiters = {t1, t2, t3}
  NoThread = NoThread
  Main = Main
  Workers = {w1, w2}
  Actors = {w1, w2}
  Vars = {v1, v2}
  Null = Null
  Gone = Gone
  MaxFaults = 2
CHECK_DEADLOCK FALSE
INVARIANTS HandlesOwned EndsOnce SleepersSafe
PROPERTIES WaitsHonest OperationsReturn
