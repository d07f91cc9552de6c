SPECIFICATION Spec
CONSTANTS
    Tasks = {t1, t2}
    Agents = {a1}
    Capacity = 2
    MaxAttempts = 1
    HandoffActions = {}
    MaxClaims = 2
    MaxVersion = 0
    MaxInc = 0
    MaxMishaps = 1
    MaxCrashes = 1
INVARIANT NoStrandedTask
CHECK_DEADLOCK FALSE
