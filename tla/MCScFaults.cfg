SPECIFICATION FairSpec
CONSTANTS
  Callers = {c1, c2}
  Nobody = Nobody
  NMutex = 2
  MaxSends = 2
  Created = FALSE
  Faults = {"merge", "mem"}
INVARIANT TypeOK
PROPERTY CallReturns
CHECK_DEADLOCK FALSE
