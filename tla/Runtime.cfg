SPECIFICATION Spec
CONSTANTS
  Parts = {"pool", "cleanup", "run", "outrun", "wide", "long", "control",
           "supervisor", "watcher", "signals", "letters"}
  Actors = {a1, a2}
  Keys = {k1, k2}
  Pids = {p1, p2}
  NoAction = NoAction
SYMMETRY ActorSymmetry
INVARIANTS CapacityIsConserved CleanupIsHonest NothingIsLeftRunning
  EpochsAreAccounted NoChangeIsLost SignalsAreSound
PROPERTIES FencedSteps ControlStepsAreSound
CHECK_DEADLOCK FALSE
