CONSTANTS
  Exporters = {e}
  Tables <- ThreeTables
  Rewritten <- ThreeRewritten
  MaxVersion = 3
  MaxRequests = 1
  MaxFails = 2
SPECIFICATION FairSpec
INVARIANTS
  DisagreementIsPending
PROPERTY ObjectsCatchUp
