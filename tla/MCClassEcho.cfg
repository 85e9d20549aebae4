SPECIFICATION Spec
CONSTANTS
  c1 = c1
  c2 = c2
  c3 = c3
  Conn = {c1}
  NoConn = NoConn
  Fd <- MCFd
  Unit <- MCNumbers
  MaxSend = 3
  Says <- MCSays
  SndBuf = 2
  Faults <- MCNoFaults
  ListenFd = 3
  ReadBuf = 2
  WriteBuf = 2
INVARIANTS EchoIntact
CHECK_DEADLOCK FALSE
