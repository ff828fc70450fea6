SPECIFICATION MCSpec
CONSTANTS
  Tabs = {t1, t2}
  Photos = {p1, p2}
  Evidence = {1, 2}
  NoPhoto = NoPhoto
  MAX_ATTEMPTS = 3
  MaxFaults = 3
INVARIANTS
  QueueIsWhatWasTold
  SentIsVerified
  GivesUpLate
PROPERTIES
  QueueDrains
