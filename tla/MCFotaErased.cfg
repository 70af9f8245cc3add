SPECIFICATION FairSpec
CONSTANTS
  t1 = t1
  t2 = t2
  NoTask = NoTask
  Tasks = {t1, t2}
  Versions = {"A", "B", "C"}
  From <- SameFrom
  To <- SameTo
  QSize = 2
  MaxFaults = 0
  Sleeps = FALSE
  SaveFails = FALSE
PROPERTY SuccessReported
CHECK_DEADLOCK FALSE
