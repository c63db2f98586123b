SPECIFICATION Spec
CONSTANTS
  Jobs = {1}
  Products = {p1}
  Workers = {w1}
  Threads = {t1, t2}
  None = None
  Keys = {k}
  KeyOf <- OneKey
  AutoProducts = {}
  ReuseIds = FALSE
  SlowThreads = FALSE
  Ops = {"submit", "cancelAll"}
  SweepEvery = 1
  MaxCalls = 1
  MaxFaults = 0
  MaxCrashes = 0
SYMMETRY Interchangeable
PROPERTIES
  CanceledJobsStayCanceled
