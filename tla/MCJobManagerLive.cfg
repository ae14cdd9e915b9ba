SPECIFICATION FairSpec
CONSTANTS
  Jobs = {j1, j2}
  NoJob = NoJob
  InvalidSettings = {j2}
  MaxAttempts = 2
  LossyListings = FALSE
  MaxQueue = 1
  MaxCupsJobs = 1
  MaxCrashes = 1
PROPERTIES
  WorkerComesBack
  UnfinishedJobsSettle
