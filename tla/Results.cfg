SPECIFICATION Spec
CONSTANTS
  Jobs = {1, 2, 3}
  Products = {p1, p2}
  Workers = {w1}
  Threads = {t1, t2}
  None = None
  Keys = {k}
  KeyOf <- OneKey
  AutoProducts = {p1}
  ReuseIds = FALSE
  SlowThreads = FALSE
  Ops = {"submit", "cancel", "autoEnqueue", "runNow"}
  SweepEvery = 1
  MaxCalls = 1
  MaxFaults = 1
  MaxCrashes = 1
SYMMETRY Interchangeable
INVARIANTS
  JobsAreAttended
  RunnersApart
PROPERTIES
  ResultsAreFinal
