SPECIFICATION Spec
CONSTANTS
  p1 = p1
  p2 = p2
  d1 = d1
  d2 = d2
  k1 = k1
  k2 = k2
  None = None
  Processes = {p1, p2}
  Connections = {k1, k2}
  Callers <- OneCaller
  Tables <- BothTables
  Batch = 3
  MaxRows = 1
  MaxDepth = 2
INVARIANTS
  TypeOK
  OneCleaner
PROPERTIES
  CleanupNeverStops
  DecisionsAnswered
