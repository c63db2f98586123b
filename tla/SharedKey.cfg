SPECIFICATION Spec
CONSTANTS
  Jobs = {1, 2, 3}
  Products = {p1, p2}
  Workers = {w1}
  Threads = {t1, t2}
  None = None
  Keys = {k}
  KeyOf <- OneKey
  AutoProducts = {p1}
  ReuseIds = FALSE
  SlowThreads = FALSE
  Ops = {"submit", "cancelAll", "deleteFinished", "rerun"}
  SweepEvery = 1
  MaxCalls = 1
  MaxFaults = 0
  MaxCrashes = 0
SYMMETRY Interchangeable
INVARIANTS
  OneRunningPerKey
  KeysAreOwned
PROPERTIES
  StartsInOrder
  ImplementsExclusiveKeys
