CONSTANTS
  Calls = {c1}
  Handlers = {h1, h2}
  ReleasePhase = "DELIVERED"
  Price <- MCPrice
  Funds <- MCFunds
  Wallet = wallet
  Farmer = farmer
  NoOne = zero
  Contract = escrow
SPECIFICATION FairCoreSpec
PROPERTY DeliveryReleases
