CONSTANTS
  Sellers = {s1, s2}
  Graded = {s2}
  Offers <- MCOffers
  Calls = {c1}
SPECIFICATION SequentialSpec
INVARIANTS FinalIsAgreed TotalsMatch InspectedOnce NoDeadEnd
PROPERTIES AcceptedIsFinal AgreedAdvances
