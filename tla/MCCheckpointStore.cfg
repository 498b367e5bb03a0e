SPECIFICATION Spec
CONSTANTS
  MaxId = 2
  Limit = 1
  Retries = 1
INVARIANTS
  TypeOK
  LatestReadable
  HistoryIsNewest
PROPERTY DeleteForgets
