SPECIFICATION Spec
CONSTANTS
  MaxJobs = 1
  Stables = {4}
  MaxRound = 1
  MinBusy = 3
CHECK_DEADLOCK FALSE
PROPERTY
  OpensOnlyAfterQuiet
