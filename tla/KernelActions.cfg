CONSTANTS
    Actions = {a1, a2}
    Workers = {w1, w2}
    Resources = {r1}
    NoResource = NoResource
    Classes = {"pure", "idempotent"}
    Policies = {"retry"}
    MaxCrashes = 1
    Nobody = Nobody
SPECIFICATION Spec
SYMMETRY Symmetry
INVARIANT ActionsAreSafe
PROPERTY ActionStepsAreFenced
