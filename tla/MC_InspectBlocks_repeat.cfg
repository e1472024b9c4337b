CONSTANTS
  Inspectors = {p1, p2, p3}
  MaxBlock = 1
  Tables <- ShortTables
  SandwichLegs = {}
  MaxRuns = 3
SYMMETRY InspectorSymmetry
SPECIFICATION RepeatSpec
INVARIANT CollisionsLoseNothing
