SPECIFICATION Spec
CONSTANTS
  Jobs = {j1, j2}
  NoJob = NoJob
  InvalidSettings = {}
  MaxAttempts = 2
  LossyListings = FALSE
  MaxQueue = 2
  MaxCupsJobs = 2
  MaxCrashes = 1
SYMMETRY JobSymmetry
INVARIANTS
  TypeOK
  OneCupsJob
  FreshSubmission
  NoPrintBeforeReady
  StoredIdIsReal
  CompletedWasPrinted
  RetryBudget
  FinalReportIsTrue
  ReportFollowsRow
PROPERTIES
  ImplementsLifecycle
