CONSTANTS
  Inspectors = {p1, p2}
  MaxBlock = 2
  Tables <- AllTables
  SandwichLegs = {2}
  MaxRuns = 3
SYMMETRY InspectorSymmetry
SPECIFICATION ExclusiveSpec
INVARIANTS
  TypeOK
  FinishedRunsExact
  RerunsNeverCollide
  OneTableMissingAtATime
