SPECIFICATION Spec
CONSTANTS
  u1 = u1
  w1 = w1
  u2 = u2
  p1 = p1
  c1 = c1
  c2 = c2
  Devices = {u1, u2}
  Serial <- SerialOfTwo
  Conn <- ConnOfTwo
  Pairing = {}
  Removals <- RemovalOfTwo
  Order <- OrderOfTwo
  Clients = {c1}
  MaxId = 9
  AddsAlone = FALSE
  EarlyDelete = FALSE
CHECK_DEADLOCK FALSE
INVARIANT IdsUnique
