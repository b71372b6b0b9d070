CONSTANTS
  Calls = {c1}
  Handlers = {h1, h2}
  ReleasePhase = "SELLER_MATCHING"
  Price <- MCPrice
  Funds <- MCFunds
  Wallet = wallet
  Farmer = farmer
  NoOne = zero
  Contract = escrow
SPECIFICATION MCSpec
INVARIANTS MetadataTruthful NoEarlyPayout OneLock
