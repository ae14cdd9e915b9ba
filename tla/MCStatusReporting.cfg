SPECIFICATION Spec
CONSTANTS
  Jobs = {j1, j2}
  NoJob = NoJob
  MaxInFlight = 1
  MaxChanges = 3
  MaxCuts = 1
  MaxCrashes = 1
SYMMETRY JobSymmetry
INVARIANTS
  TypeOK
  BackendInSync
  KeptIsCurrent
PROPERTY
  EndIsLastWord
