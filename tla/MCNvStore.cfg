SPECIFICATION FairSpec
CONSTANTS
  Tasks = {t1}
  NumMod = 3
  RetryCnt = 2
  MaxVer = 3
  WriteErrors = TRUE
  Outages = TRUE
INVARIANTS TypeOK NoTotalLoss BackupLeads
PROPERTIES BootKeepsDurable SaveReturns IsCrashSafeRegister
