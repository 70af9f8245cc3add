SPECIFICATION Spec
CONSTANTS
  KeepAlive = 5
  CmdTimeout = 1
  Gaps = TRUE
  MaxPubs = 2
  MaxFaults = 2
  MaxAge = 9
  PipeSize = 2
PROPERTY PingGrace
