SPECIFICATION FairSpec
CONSTANTS
  c1 = c1
  c2 = c2
  Clients = {c1, c2}
  Header = 2
  Length = 3
CHECK_DEADLOCK FALSE
INVARIANTS TypeOK Ownership
PROPERTIES LinkSpec RequestAnswered LeaverDies ShutdownEnds
