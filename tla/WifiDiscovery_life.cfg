SPECIFICATION FairSpec
CONSTANTS
  p1 = p1
  p2 = p2
  c1 = c1
  c2 = c2
  loop = loop
  reaper = reaper
  dtor = dtor
  Phones = {p1, p2}
  Clients = {c1, c2}
  Threads = {loop, reaper, dtor, c1, c2}
  Near = {p1}
  Pairable = {p1}
  MaxJobs = 2
  MaxFaults = 1
CHECK_DEADLOCK FALSE
INVARIANTS TypeOK TableComplete
PROPERTIES UnpairedUnlisted RequestAnswered PairedPhoneFound StopEnds
