SPECIFICATION FairSpec
CONSTANTS
  Callers = {c1, c2}
  Streaming = {c1}
  Sessions = {s1}
  NoSession = NoSession
  Threshold = 2
  Cooldown = 2
  Cleanup = 3
  Timeout = 2
  Backoffs <- MCBackoffs
  MaxRetries = 1
INVARIANTS
  TypeOK
  TripsOnOwnFailures
PROPERTIES
  SweepSparesOpen
  OpenEnds
  CallEnds
