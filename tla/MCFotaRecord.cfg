SPECIFICATION Spec
CONSTANTS
  t1 = t1
  t2 = t2
  NoTask = NoTask
  Tasks = {t1, t2}
  Versions = {"A", "B", "C"}
  From <- ChainFrom
  To <- ChainTo
  QSize = 2
  MaxFaults = 2
  Sleeps = TRUE
  SaveFails = FALSE
INVARIANTS TypeOK CachedOnce InstalledOnce
PROPERTY SuccessIsTrue
CHECK_DEADLOCK FALSE
