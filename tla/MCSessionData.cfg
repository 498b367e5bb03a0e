SPECIFICATION Spec
CONSTANTS
  s1 = s1
  s2 = s2
  c1 = c1
  c2 = c2
  c3 = c3
  p1 = p1
  p2 = p2
  n1 = n1
  v1 = v1
  v2 = v2
  Sessions = {s1, s2}
  Callers = {c1, c2, c3}
  Prompts = {p1}
  Notes = {n1}
  Points = {v1}
  None = None
  Fragment = Fragment
  KeptEntries = 2
  MaxHead = 2
SYMMETRY Symmetry
INVARIANTS TypeOK EachEntryOnce ServedAnswerFits RatingsReachPoints
PROPERTY WritesAreSerial
CHECK_DEADLOCK FALSE
