SPECIFICATION FairSpec
CONSTANTS
  c1 = c1
  c2 = c2
  c3 = c3
  Conn = {c1, c2, c3}
  NoConn = NoConn
  Fd <- MCFd
  Unit <- MCNumbers
  MaxSend = 2
  Says <- MCSays
  SndBuf = 1
  Faults <- MCFaults
  ListenFd = 3
  ReadBuf = 2
  WriteBuf = 1
INVARIANTS ClassTypeOK EventsHaveClients
PROPERTIES ServesEchoCounts
CHECK_DEADLOCK FALSE
