SPECIFICATION FairSpec
CONSTANTS
  c1 = c1
  c2 = c2
  c3 = c3
  Conn = {c1, c2, c3}
  NoConn = NoConn
  Fd <- MCFd
  Unit <- MCUnits
  MaxSend = 3
  Says <- MCSays
  SndBuf = 1
  Faults <- MCFaults
  ListenFd = 3
  ReadBuf = 2
  Kill = 99
  LockStep = {c1}
  Plain = {c3}
  Urgent = {c3}
INVARIANTS FirstTypeOK InStep EndsForAReason
PROPERTIES Answered NextIsAccepted
CHECK_DEADLOCK FALSE
