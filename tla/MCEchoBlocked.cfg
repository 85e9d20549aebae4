SPECIFICATION FairEchoSpec
CONSTANTS
  c1 = c1
  c2 = c2
  KILLME = KILLME
  KillMe = KILLME
  Conn = {c1}
  NoConn = NoConn
  Fd <- MCFd
  Unit <- MCUnits
  MaxSend = 2
  Says <- MCSays
  SndBuf = 1
  Faults <- MCNoFaults
  ListenFd = 3
  ReadBuf = 2
  WriteBuf = 1
  MaxSignals = 0
PROPERTIES BlockedWriteKeepsOpen
CHECK_DEADLOCK FALSE
