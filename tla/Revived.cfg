CONSTANTS
  Pids = {p1}
  Workers = {k1}
  Contents <- SomeContents
  Conditions <- SomeConditions
  MaxSignals = 1
  MaxFailures = 1
  MaxCrashes = 0
  None = None
SPECIFICATION Spec
PROPERTIES ProcessEndIsFinal
