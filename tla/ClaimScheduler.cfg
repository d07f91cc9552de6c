SPECIFICATION Spec
CONSTANTS
    Tasks = {t1}
    Agents = {a1, a2}
    Capacity = 1
    MaxAttempts = 2
    HandoffActions = {"preempt"}
    MaxClaims = 2
    MaxVersion = 2
    MaxInc = 1
    MaxMishaps = 1
    MaxCrashes = 1
SYMMETRY Symmetry
INVARIANT ClaimsAreSound
PROPERTY ClaimStepsAreFinal
CHECK_DEADLOCK FALSE
