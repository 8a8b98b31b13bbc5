SPECIFICATION Spec
CONSTANTS
  Receivers = {r1, r2, r3}
  r1 = r1
  r2 = r2
  r3 = r3
  SeqMod = 5
  MaxPkts = 9
  MaxDup = 0
  Kinds = {"whole", "torn", "odd"}
SYMMETRY Sym
CHECK_DEADLOCK FALSE
INVARIANTS TypeOK TransfersConserved
PROPERTY LinkSpec
