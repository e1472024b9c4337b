CONSTANTS
  Inspectors = {a, b}
  MaxBlock = 3
  Tables <- ShortTables
  SandwichLegs = {}
  MaxRuns = 13
  Lag = 0
  NoBlock = NoBlock
  MaxDepth = 0
  MaxForks = 0
  MaxKills = 0
  MaxStops = 1
SPECIFICATION HandoverSpec
INVARIANTS
  HandoverLosesNothing
PROPERTIES
  CursorNeverGoesBack
