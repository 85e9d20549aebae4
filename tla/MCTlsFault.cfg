SPECIFICATION TlsSpec
CONSTANTS
  c1 = c1
  c2 = c2
  hello = hello
  finished = finished
  flight = flight
  tickets = tickets
  bye = bye
  alert = alert
  junk = junk
  d1 = d1
  d2 = d2
  killme = killme
  KillMe = killme
  Hello = hello
  Finished = finished
  Flight = flight
  Tickets = tickets
  Bye = bye
  Alert = alert
  Junk = junk
  Conn = {c1, c2}
  NoConn = NoConn
  Fd <- MCFd
  Unit <- MCUnit
  MaxSend = 3
  Says <- MCSays
  SndBuf = 4
  Faults <- MCNoFaults
  ListenFd = 3
  ReadBuf = 1
  WriteBuf = 1
  MaxSignals = 0
INVARIANTS FaultIsItsOwn
CHECK_DEADLOCK FALSE
