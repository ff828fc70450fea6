SPECIFICATION MCSpec
CONSTANTS
  Calls = {c1, c2, c3}
  i1 = i1 i2 = i2
  photo1 = photo1 photo2 = photo2
  m1 = m1
  Ids = {i1, i2}
  Photos = {photo1, photo2}
  Matches = {m1}
  Payloads <- MCPayloads
  NoCall = NoCall
  MaxFaults = 1
INVARIANTS
  MutexKeepsTurns
  AgainAddsNothing
  VerdictsAreSound
PROPERTIES
  EveryCallEnds
