CONSTANTS
  Sellers = {s1}
  Graded = {}
  Offers <- MCOffers
  Calls = {c1, c2}
SPECIFICATION CronSpec
INVARIANT AgreementBacked
PROPERTY OverdueExpires
