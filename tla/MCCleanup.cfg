SPECIFICATION Spec
CONSTANTS
  p1 = p1
  p2 = p2
  d1 = d1
  d2 = d2
  k1 = k1
  k2 = k2
  None = None
  Processes = {p1}
  Connections = {k1, k2}
  Callers <- NoCallers
  Tables <- BothTables
  Batch = 3
  MaxRows = 4
  MaxDepth = 2
PROPERTIES
  TableIsCleared
