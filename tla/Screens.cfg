SPECIFICATION Spec
CONSTANTS
  None = None
  Actions <- MCActions
  Loads = {l1, l2}
  Lookups = {k1, k2}
  MaxRows = 5
  MAX_TRACE_FETCHES = 2
CONSTRAINT Short
INVARIANTS
  AuditIsTrue
  ChecksAreOfThisCredential
  TargetsAreReal
  PaintedTrue
