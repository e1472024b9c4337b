CONSTANTS
  Inspectors = {l}
  MaxBlock = 5
  Tables <- ShortTables
  SandwichLegs = {}
  MaxRuns = 8
  Lag = 2
  NoBlock = NoBlock
  MaxDepth = 2
  MaxForks = 1
  MaxKills = 1
  MaxStops = 1
SPECIFICATION FairSpec
INVARIANTS
  CursorCovers
  CursorIsExported
  StoredIsSettled
  StopLeavesNoHalfBlock
PROPERTIES
  ImplementsStream
  InspectsExclusively
  EveryDueBlockIsSent
