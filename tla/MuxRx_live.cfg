SPECIFICATION FairSpec
CONSTANTS
  Receivers = {r1, r2, r3}
  r1 = r1
  r2 = r2
  r3 = r3
  SeqMod = 9
  MaxPkts = 5
  MaxDup = 1
  Kinds = {"whole"}
CHECK_DEADLOCK FALSE
INVARIANTS DroppedOnlyDuplicates SleepersWaitForOlder
PROPERTIES EveryPacketAccepted
