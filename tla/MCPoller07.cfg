SPECIFICATION FairSpec07
CONSTANTS
  c1 = c1
  c2 = c2
  KillMe = 11
  Conn = {c1, c2}
  NoConn = NoConn
  Fd <- MCFd
  Unit <- MCUnits
  MaxSend = 2
  Says <- MCSays
  SndBuf = 1
  Faults <- MCFaults
  ListenFd = 3
  ReadBuf = 2
  WriteBuf = 1
  MaxSignals = 0
INVARIANTS Intact07 EndsForAReason
PROPERTIES Serves07 ResetEndsServer
CHECK_DEADLOCK FALSE
