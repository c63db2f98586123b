SPECIFICATION Spec
CONSTANTS
  Jobs = {1, 2}
  Products = {p1, p2}
  Workers = {w1, w2}
  Threads = {t1}
  None = None
  Keys = {p1, p2}
  KeyOf <- OwnKeys
  AutoProducts = {}
  ReuseIds = FALSE
  SlowThreads = TRUE
  Ops = {"submit", "cancelAll", "delete", "deleteFinished", "enable"}
  SweepEvery = 1
  MaxCalls = 1
  MaxFaults = 0
  MaxCrashes = 0
SYMMETRY AllInterchangeable
INVARIANTS
  TypeOK
  RunningHoldsLock
PROPERTIES
  OnlyStartsLeak
  ImplementsExclusiveWorkers
