SPECIFICATION MCSpec
CONSTANTS
  Keys = {k1, k2}
  Accounts = {a1, a2}
  Elsewhere = elsewhere
  Default = default
  Amounts <- MCAmounts
  Positions = {p1, p2}
  NoTrade = notrade
INVARIANTS VaultsCover OneExecuted
PROPERTIES KeepsPromise Concludes
CHECK_DEADLOCK FALSE
