SPECIFICATION Spec
CONSTANTS
  Parts = {"child", "trace", "dsh", "usage", "capture", "one", "many", "agent",
           "watch", "job", "outputs"}
  Actors = {a1, a2}
  Keys = {k1, k2}
  Pids = {p1, p2}
  NoAction = NoAction
INVARIANTS HarnessProcessesAreAccounted CostsAreCountedOnce ComparisonsAreFaithful PairsAreCosted
PROPERTIES SettledIsFinal
CHECK_DEADLOCK FALSE
