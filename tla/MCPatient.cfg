CONSTANTS
  Calls = {c1, c2}
  Handlers = {h1, h2}
  ReleasePhase = "DELIVERED"
  Price <- MCPrice
  Funds <- MCFunds
  Wallet = wallet
  Farmer = farmer
  NoOne = zero
  Contract = escrow
SPECIFICATION PatientSpec
PROPERTIES FundsLock DeliveryReleases
