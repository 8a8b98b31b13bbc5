SPECIFICATION FairSpec
CONSTANTS
  u1 = u1
  w1 = w1
  u2 = u2
  p1 = p1
  c1 = c1
  c2 = c2
  Devices = {u1, w1, u2, p1}
  Serial <- MCSerial
  Conn <- MCConn
  Pairing = {p1}
  Removals <- OneRemoval
  Order <- MCOrder
  Clients = {c1}
  MaxId = 9
  AddsAlone = TRUE
  EarlyDelete = FALSE
CHECK_DEADLOCK FALSE
INVARIANTS TypeOK IdsSound ViewExact
PROPERTY CallsReturn
