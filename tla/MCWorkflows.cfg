SPECIFICATION AllSpec
CONSTANTS
  Kinds = {"push", "lock", "findings"}
  Checks = {c1, c2, c3}
  Unknown = {u}
  Slots = 2
  MaxNeeds = 3
  Procs = {p1, p2, p3}
  Direct = {p3}
  None = None
  MaxFaults = 2
  Reports = {f1, f2}
  Life = 1
  MaxTime = 3
  MaxRuns = 2
INVARIANTS VerdictHonest OneHolderUnlessTorn InstallsHonest FindingsHonest
PROPERTIES RunsOnceAfterNeeds WorkflowsEnd
