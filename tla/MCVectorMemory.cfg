SPECIFICATION FairSpec
CONSTANTS
  Calls = {c1, c2, c3}
  Queries = {q1, q2, q3}
  NoQuery = NoQuery
  CacheSize = 2
INVARIANTS
  TypeOK
  OneConnect
  RequestsHaveCollection
PROPERTIES
  LastUsedStays
  CallsEnd
