SPECIFICATION FairSpec
CONSTANTS
  m1 = m1
  m2 = m2
  m3 = m3
  Msgs = {m1, m2, m3}
  NoMsg = NoMsg
  Kind <- KindMixed
  QSize = 2
  ErrCnt = 0
  MaxFaults = 2
  MaxFotas = 1
  MaxSleeps = 1
INVARIANTS TypeOK OneSocket UnansweredBounded
PROPERTIES IsOutbox Delivered SleepEndsIfNoReport
