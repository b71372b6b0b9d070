SPECIFICATION MCSpec
CONSTANTS
  Calls = {c1, c2}
  Sellers = {s1, s2}
  I = 2
  F = 2
  Sent = {"SCHEDULED", "COMPLETED"}
  None = none
SYMMETRY Symmetry
INVARIANTS VerifiedWasVouched LastWordCounts
PROPERTY VouchedTravel
CHECK_DEADLOCK FALSE
