SPECIFICATION Spec
CONSTANTS
  r1 = r1
  r2 = r2
  c = c
  s = s
  Receivers = {r1, r2}
  Connector = c
  Sender = s
  DevBuf = 2
  Mtu = 1
  MaxHost = 3
  MaxDev = 2
  CanDie = {"device", "client"}
  CanRefuse = TRUE
CHECK_DEADLOCK FALSE
SYMMETRY Sym
INVARIANTS TypeOK SleepsOnlyWhenFull WithinDeviceWindow DeliveredInOrder
