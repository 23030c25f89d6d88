SPECIFICATION FairSpec
CONSTANTS
  Threads = {t1, t2, t3}
  NoThread = NoThread
  Initial = 1
  Highest = 2
  MaxHeld = 0
  MaxFaults = 2
INVARIANTS Conservation GuardsSafe NoStrandedPermit
PROPERTIES ImplementsPermits PermitsMove
