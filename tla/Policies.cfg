SPECIFICATION Spec
CONSTANTS
  Parts = {"plan", "rebase", "admission", "routing", "guard", "analysis",
           "continuation"}
  Actors = {a1, a2}
  Keys = {k1, k2}
  Pids = {p1, p2}
  NoAction = NoAction
INVARIANTS AdmissionsAreSound DecisionsFailClosed RestartsAreEarned
CHECK_DEADLOCK FALSE
