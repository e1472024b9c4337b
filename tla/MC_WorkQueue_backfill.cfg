CONSTANTS
  Processes = {v, w}
  Workers = {v, w}
  ForeignLoop = {v, w}
  MaxBlock = 7
  BatchSize = 2
  Concurrency = 2
  MaxFails = 2
  MessageSize = 3
  NoMessage = NoMessage
  MaxRetries = 1
  MaxCrashes = 1
  Commands <- BothDirections
SPECIFICATION FairSpec
INVARIANTS
  RangeIsPartitioned
  UnfinishedIsInFlight
PROPERTY BackfillCompletes
