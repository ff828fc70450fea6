SPECIFICATION MCSpec
CONSTANTS
  Calls = {c1, c2, c3}
  Gets = {g1, g2}
  e1 = e1 e2 = e2 e3 = e3
  m1 = m1 m2 = m2
  h1 = h1
  NoLot = NoLot
  Evidence = {e1, e2, e3}
  Matches = {m1, m2}
  Holders = {h1, h2}
  MatchOf <- MCMatchOf
  HolderOf <- MCHolderOf
  NoHolder = NoLot
  Verdicts = {"accepted", "rejected"}
  ListSize = 8
SYMMETRY Symmetry
CONSTRAINT OneRejected
INVARIANTS
  OneCreditPerEvidence
  CreditIsEarned
  IndexNeverCollides
  RevokedMeansRetired
  CustodyHead
  DecisionsAreTrue
  OnlyHolderRetires
PROPERTIES
  AskingAgainShowsNoLess
