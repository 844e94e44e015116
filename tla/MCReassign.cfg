SPECIFICATION Spec
CONSTANTS
  m1 = m1
  m2 = m2
  m3 = m3
  m4 = m4
  m5 = m5
  g1 = g1
  g2 = g2
  g3 = g3
  g4 = g4
  g5 = g5
  p1 = p1
  p2 = p2
  c1 = c1
  c2 = c2
  c3 = c3
  c4 = c4
  None = None
  Absent = Absent
  Ids = {1, 2, 3, 4, 5}
  Mobiles = {m1, m2, m3, m4, m5}
  Uids = {g1, g2, g3, g4, g5}
  Passwords = {p1, p2}
  Attempts = 2
  Clients = {c1, c2}
  Scenarios <- StaleScenario
PROPERTIES
  OnlyAdminsReassign
