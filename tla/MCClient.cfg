SPECIFICATION FairSpec
CONSTANTS
  CLOSE = CLOSE
  Close = CLOSE
  hello = hello
  finished = finished
  flight = flight
  forged = forged
  bye = bye
  alert = alert
  Hello = hello
  Finished = finished
  Flight = flight
  Forged = forged
  Bye = bye
  Alert = alert
  Unit <- MCUnit
  Says <- MCSays
  MaxSend = 3
  Capacity <- MCCapacity
  ReadBuf = 2
  WriteBuf = 1
INVARIANTS TlsClientTypeOK Relayed CloseIsLast StrangersGetNothing
PROPERTIES  RelaysBothWays
CHECK_DEADLOCK FALSE
