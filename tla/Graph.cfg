SPECIFICATION Spec
CONSTANTS
  Parts = {"graph", "derived"}
  Actors = {a1, a2}
  Keys = {k1, k2}
  Pids = {p1, p2}
  NoAction = NoAction
SYMMETRY KeySymmetry
INVARIANTS DerivedStateIsSound WorkGoesOn
PROPERTIES HistoryIsKept
CHECK_DEADLOCK FALSE
