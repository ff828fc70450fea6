SPECIFICATION Cases
CONSTANTS
  None = None
  Known = {Ludhiana}
  CreditIds = {Credit}
  Ludhiana = Ludhiana
  Credit = Credit
  Lot = Lot
  Ward = Ward
  Districts <- MCDistricts
  Km <- MCKm
  Slug <- MCSlug
  NoDistrict = NoDistrict
  Starts <- MCStarts
  Grown <- MCGrown
  MaxLines = 4
  LotIds = {1, 2, 3}
INVARIANTS
  AssignFollowsTheRule
  PlanIsTheLoop
  WritesAreAsked
  CreditAddsUp
