SPECIFICATION MCSpec
CONSTANTS
  Rounds = {r1, r2, r3}
  ludhiana = ludhiana
  patiala = patiala
  Lots <- MCLots
  Units <- MCUnits
  Radii = {3}
  District <- MCDistrict
  LastDay = 1
SYMMETRY Symmetry
INVARIANTS
  PlacedOnceWithinCapacity
  DecisionsAreTrue
PROPERTIES
  RoundsAreAtomic
