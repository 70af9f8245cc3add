SPECIFICATION Spec
CONSTANTS
  MaxRounds = 4
  Retries = {0, 1, 2}
  Packets = 3
  QueueSize = 2
  GetRetry = 1
  Faults = {"open", "write", "mem", "thread"}
INVARIANTS OneWriter OneSource
CHECK_DEADLOCK FALSE
