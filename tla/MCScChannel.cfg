SPECIFICATION FairSpec
CONSTANTS
  Callers = {c1, c2}
  Nobody = Nobody
  NMutex = 2
  MaxSends = 4
  Created = TRUE
  Faults = {"merge", "mem"}
INVARIANTS OwnAnswer OneAtATime
PROPERTY LockFreed
CHECK_DEADLOCK FALSE
