SPECIFICATION FairSpec
CONSTANTS
  x1 = x1
  x2 = x2
  c1 = c1
  c2 = c2
  Rx = {x1}
  Clients = {c1}
  PortMod = 4
  MaxTx = 1
  MaxKills = 1
  MaxCloses = 1
CHECK_DEADLOCK FALSE
INVARIANTS TypeOK NoResurrection
PROPERTIES ConReaperNeverLast DeconstructReturns KilledDeviceDies ShutdownEnds
