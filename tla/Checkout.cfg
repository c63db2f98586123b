SPECIFICATION FairSpec
CONSTANTS
  Job = job
  Pulls = {pull}
  Modes <- JobModes
  Patches = {1}
  Lists <- JobLists
  Tests = {t}
  LastCommit = 3
  Fit <- Fits
  LocalFits = {1, 3}
  MaxFaults = 1
INVARIANTS
  TestsKept
  RunsPatched
  SuccessIsCurrent
  LocalCommitsKept
PROPERTIES
  JobsGetThrough
