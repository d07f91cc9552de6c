CONSTANTS
  Procs = {p1, p2}
  Kernels = {n1, n2}
  Keys = {k1, k2}
  Payloads = {x}
  NoPayload = NoPayload
  Delays = {0}
  Workers = {w1}
  Tokens = {t1, t2, t3}
  None = None
  ClaimTtl = 1
  RetryDelay = 0
  MaxAttempts = 0
  Limit = 2
  Poison = {k1}
  MaxAge = 4
  MaxLag = 1
  MaxElapsed = 1
  MaxDeaths = 0
SPECIFICATION LiveSpec
INVARIANT CyclesAreExact
PROPERTIES EventuallySettled IntentsAreDelivered WaitersAreWoken DeadlocksAreResolved
