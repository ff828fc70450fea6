SPECIFICATION MCSpec
CONSTANTS
  Writers = {w1, w2, w3}
  Decisions = {d1, d2}
  MaxRows = 4
INVARIANTS
  ChainIntact
  NeverRefused
  ReturnedIsLogged
PROPERTIES
  EveryCallEnds
  ImplementsAppendLog
