CONSTANTS
  Pids = {p1, p2}
  Workers = {k1}
  Contents <- SomeContents
  Conditions <- SomeConditions
  MaxSignals = 1
  MaxFailures = 0
  MaxCrashes = 1
  None = None
SPECIFICATION FairSpec
PROPERTIES WaitersAreWoken
