SPECIFICATION FairSpec
CONSTANTS
  Conditions <- MCConditions
  MaxPending = 1
  MaxInFlight = 1
  MaxDisturbances = 1
INVARIANTS
  TypeOK
  QueueBounded
  BackendInSync
PROPERTIES
  NoPhantomPrinting
  Converges
