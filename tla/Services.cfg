SPECIFICATION Spec
CONSTANTS
  Parts = {"store", "mounted", "context", "journal", "workspace", "unread",
           "recon", "drift", "harness", "durable", "nodes"}
  Actors = {a1, a2}
  Keys = {k1, k2}
  Pids = {p1, p2}
  NoAction = NoAction
SYMMETRY ActorSymmetry
INVARIANTS StoreIsConsistent ContextsAreExact ProvenanceIsComplete ReconciledOnce
  DamageIsBounded RunsAreAccounted
PROPERTIES StepsUnderCurrentState NoLostUpdate
CHECK_DEADLOCK FALSE
