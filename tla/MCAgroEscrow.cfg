CONSTANTS
  N = 2
  Accounts = {a1, a2}
  NoOne = zero
  Contract = escrow
  Deployer = a1
  Amounts <- MCAmounts
SPECIFICATION Spec
INVARIANTS FundedIffOpen Solvent
PROPERTY KeepsPromise
