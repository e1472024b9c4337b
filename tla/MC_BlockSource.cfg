CONSTANTS
  Retries = 3
  MaxForks = 1
  Nothing = Nothing
SPECIFICATION FairSpec
CHECK_DEADLOCK FALSE
INVARIANTS
  RetriesAreExact
  BlocksAreComplete
PROPERTY EveryCallEnds
