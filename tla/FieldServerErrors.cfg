SPECIFICATION MCSpec
CONSTANTS
  Tabs = {t1}
  Photos = {p1}
  Evidence = {1}
  NoPhoto = NoPhoto
  MAX_ATTEMPTS = 3
  MaxFaults = 2
PROPERTIES
  NotLostToARestart
