SPECIFICATION FairChatSpec
CONSTANTS
  c1 = c1
  c2 = c2
  c3 = c3
  Conn = {c1, c2, c3}
  NoConn = NoConn
  Fd <- MCFd
  Unit <- MCUnits
  MaxSend = 2
  Says <- MCSays
  SndBuf = 1
  Faults <- MCFaults
  ListenFd = 3
  ReadBuf = 2
  WriteBuf = 1
  MaxSignals = 0
INVARIANTS ChatTypeOK ClientsAreHandlers RelayedInOrder
PROPERTIES Conversation
