SPECIFICATION FairSpec
CONSTANTS
  disc = disc
  reaper = reaper
  dtor = dtor
  c1 = c1
  c2 = c2
  Clients = {c1}
  Sessions = {1}
  MaxVersion = 2
  MaxKills = 1
CHECK_DEADLOCK FALSE
INVARIANTS TypeOK NoCrash UpToDate StoppedForGood
PROPERTIES RefreshAnswered KilledDeviceDies
