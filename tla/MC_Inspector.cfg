CONSTANTS
  Processes = {c}
  ForeignLoop = {}
  MaxBlock = 9
  BatchSize = 2
  Concurrency = 2
  MaxFails = 2
SPECIFICATION CommandSpec
INVARIANTS
  PermitsInUse
