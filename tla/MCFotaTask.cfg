SPECIFICATION FairSpec
CONSTANTS
  MaxRounds = 4
  Retries = {0, 1, 2}
  Packets = 3
  QueueSize = 2
  GetRetry = 1
  Faults = {}
INVARIANTS TypeOK ImageWhole NoLostPut NoStuckWait
PROPERTIES TaskEnds LastPacketEndsWriter
CHECK_DEADLOCK FALSE
