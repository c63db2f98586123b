SPECIFICATION FairSpec
CONSTANTS
  Jobs = {1, 2, 3}
  Products = {p1, p2}
  Workers = {w1}
  Threads = {t1, t2}
  None = None
  Keys = {k}
  KeyOf <- OneKey
  AutoProducts = {p1}
  ReuseIds = FALSE
  SlowThreads = FALSE
  Ops = {"submit"}
  SweepEvery = 2
  MaxCalls = 1
  MaxFaults = 1
  MaxCrashes = 1
PROPERTIES
  RunningEnds
  HoldingsAreFreed
  QueueMoves
  OnlyStartsLeak
