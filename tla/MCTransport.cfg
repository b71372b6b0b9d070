SPECIFICATION Spec
CONSTANTS
  Calls = {c1, c2}
  Transporters = {t1, t2}
  Sellers = {s1, s2}
  B = 3
  None = none
SYMMETRY Symmetry
INVARIANTS SelectionAgrees DeliveryNeedsPickups NoBidLeftOpen PhaseKeepsUp
PROPERTY DeliveryStands
CHECK_DEADLOCK FALSE
