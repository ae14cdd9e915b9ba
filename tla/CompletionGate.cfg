SPECIFICATION FairSpec
CONSTANTS
  MaxJobs = 2
  Stables = {0, 4}
  MaxRound = 2
  MinBusy = 5
CHECK_DEADLOCK FALSE
INVARIANT
  TypeOK
PROPERTIES
  OpensAfterQuiet
  CalmOpens
