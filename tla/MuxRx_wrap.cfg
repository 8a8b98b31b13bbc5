SPECIFICATION FairSpec
CONSTANTS
  Receivers = {r1, r2, r3}
  r1 = r1
  r2 = r2
  r3 = r3
  SeqMod = 8
  MaxPkts = 9
  MaxDup = 0
  Kinds = {"whole"}
CHECK_DEADLOCK FALSE
PROPERTY AlwaysResubmit
