SPECIFICATION FairSpec
CONSTANTS
  c1 = c1
  c2 = c2
  c3 = c3
  data = data
  Conn = {c1, c2, c3}
  NoConn = NoConn
  Fd <- MCFd
  Unit = {data}
  MaxSend = 1
  Says <- MCSays
  SndBuf = 1
  Faults <- MCFaults
  ListenFd = 3
  ReadBuf = 1
  WriteBuf = 1
  MaxSignals = 1
INVARIANTS TypeOK FdOwnership NoStaleEvents PollsOnlyLive
PROPERTIES EveryoneAccepted GoneAreRemoved SignalsNoted
CHECK_DEADLOCK FALSE
