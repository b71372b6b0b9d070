SPECIFICATION MCSpec
CONSTANTS
  R = 2
  T = 2
  Wallets = {w1, w2}
  Staking = staking
  This = rounds
  NoOne = none
  Deployer = w1
  Prices <- MCPrices
  Sales <- MCSales
  FeeBps = 1
  BpsScale = 2
  Funds <- MCFunds
  Rates <- MCRates
  MaxBlock = 1
INVARIANTS Solvent DividendsFair NothingStranded StakedIsHeld EachBlockOnce
CHECK_DEADLOCK FALSE
