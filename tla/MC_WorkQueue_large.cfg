CONSTANTS
  Processes = {v, w}
  Workers = {v, w}
  ForeignLoop = {v, w}
  MaxBlock = 5
  BatchSize = 2
  Concurrency = 2
  MaxFails = 0
  MessageSize = 5
  NoMessage = NoMessage
  MaxRetries = 1
  MaxCrashes = 0
  Commands <- OneRange
SPECIFICATION Spec
INVARIANT ConcurrencyOnlyDelays
