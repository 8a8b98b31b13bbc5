SPECIFICATION FairPeerSpec
CONSTANTS
  r1 = r1
  r2 = r2
  c = c
  s = s
  Receivers = {r1}
  Connector = c
  Sender = s
  DevBuf = 2
  Mtu = 2
  MaxHost = 3
  MaxDev = 2
  CanDie = {}
  CanRefuse = TRUE
CHECK_DEADLOCK FALSE
PROPERTIES ChunkSent ConnectReturns
