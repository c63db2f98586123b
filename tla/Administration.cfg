SPECIFICATION FairSpec
CONSTANTS
  Jobs = {1, 2, 3}
  KindOf <- LastPrepares
  Products = {1, 2}
  Workers = {1, 2}
  Names = {n1, n2}
  FirstNames <- SameOrOwn
  None = None
  MaxCalls = 2
  MaxEdits = 2
INVARIANTS
  RunnersApart
PROPERTIES
  RunningRowsStay
  JobsLetGo
CHECK_DEADLOCK FALSE
