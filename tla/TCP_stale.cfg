SPECIFICATION Spec
CONSTANTS
  r1 = r1
  r2 = r2
  c = c
  s = s
  Receivers = {r1, r2}
  Connector = c
  Sender = s
  DevBuf = 2
  Mtu = 1
  MaxHost = 3
  MaxDev = 1
  CanDie = {}
  CanRefuse = FALSE
CHECK_DEADLOCK FALSE
INVARIANT WaitsForTheDevice
