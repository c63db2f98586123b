SPECIFICATION FairSpec
CONSTANTS
  None = None
  Files = {p}
  Functions = {a, b}
  FileOf <- OneFile
  AutoList <- ListedTwice
  CompileDb = {p}
  HasPatches = FALSE
  MaxCommits = 2
  MaxClients = 1
  MaxFaults = 1
  MaxUpsets = 1
INVARIANTS
  ChangesAreTracked
  NoChangeMissed
  NothingQueuedTwice
PROPERTIES
  TestsAppear
