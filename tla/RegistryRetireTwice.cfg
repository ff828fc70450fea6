SPECIFICATION MCSpec
CONSTANTS
  Calls = {c1, c2, c3}
  Gets = {g1}
  e1 = e1 e2 = e2 e3 = e3
  m1 = m1 m2 = m2
  h1 = h1
  NoLot = NoLot
  Evidence = {e1}
  Matches = {m1}
  Holders = {h1}
  MatchOf <- OneMatchOf
  HolderOf <- OneHolderOf
  NoHolder = NoLot
  Verdicts = {"accepted"}
  ListSize = 8
SYMMETRY Symmetry
INVARIANTS
  RetirementRecordedOnce
