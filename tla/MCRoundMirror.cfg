SPECIFICATION Spec
CONSTANTS
  Calls = {c1, c2}
  Crops = {wheat}
  Shares = 2
  D = 2
  R = 2
  S = 2
  T = 2
  E = 1
SYMMETRY Symmetry
INVARIANTS RowIsItsRound MirrorAgrees SharesAddUp
CHECK_DEADLOCK FALSE
