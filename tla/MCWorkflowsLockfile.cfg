SPECIFICATION AllSpec
CONSTANTS
  Kinds = {"lock"}
  Checks = {c1, c2, c3}
  Unknown = {u}
  Slots = 2
  MaxNeeds = 3
  Procs = {p1, p2, p3}
  Direct = {p3}
  None = None
  MaxFaults = 0
  Reports = {f1}
  Life = 1
  MaxTime = 1
  MaxRuns = 1
INVARIANT OneHolder
