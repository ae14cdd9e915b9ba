SPECIFICATION Spec
CONSTANTS
  Jobs = {j1}
  NoJob = NoJob
  InvalidSettings = {}
  MaxAttempts = 2
  LossyListings = FALSE
  MaxQueue = 1
  MaxCupsJobs = 2
  MaxCrashes = 1
PROPERTY
  CompletedReportStands
