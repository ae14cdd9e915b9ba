SPECIFICATION Spec
CONSTANTS
  CupsJobs = {c1, c2, c3}
  Polled = c1
  Titled = {c1, c2}
INVARIANTS
  TypeOK
  FinalAnswerIsTrue
  FinalAnswerMeansEnd
  LookupMissesNothing
