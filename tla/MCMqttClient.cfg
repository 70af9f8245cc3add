SPECIFICATION Spec
CONSTANTS
  KeepAlive = 5
  CmdTimeout = 1
  Gaps = FALSE
  MaxPubs = 2
  MaxFaults = 2
  MaxAge = 9
  PipeSize = 2
INVARIANTS TypeOK AckedReceived DeadLinkSeen
PROPERTIES PingGrace IsSession
