SPECIFICATION FairSpec
CONSTANTS
  Jobs = {j1}
  NoJob = NoJob
  MaxInFlight = 2
  MaxChanges = 5
  MaxCuts = 2
  MaxCrashes = 1
INVARIANT
  RefusalsAreFew
PROPERTY
  EndIsTold
