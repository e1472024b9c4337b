CONSTANTS
  Inspectors = {l}
  MaxBlock = 6
  Tables <- ShortTables
  SandwichLegs = {}
  MaxRuns = 8
  Lag = 2
  NoBlock = NoBlock
  MaxDepth = 2
  MaxForks = 0
  MaxKills = 1
  MaxStops = 1
SPECIFICATION Spec
INVARIANT NoSkippedBlocks
