SPECIFICATION Spec
CONSTANTS
  Tasks = {t1, t2}
  NumMod = 3
  RetryCnt = 2
  MaxVer = 2
  WriteErrors = FALSE
  Outages = FALSE
SYMMETRY TaskSymmetry
INVARIANT SavedRecordStored
