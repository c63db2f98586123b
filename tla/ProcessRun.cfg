SPECIFICATION FairSpec
CONSTANTS
  Script <- ShortScript
  Cancelers = {c}
INVARIANTS
  KillIsComing
  NothingLeftBehind
  OneLateCallback
PROPERTIES
  CancelEnds
  JobEnds
CHECK_DEADLOCK FALSE
