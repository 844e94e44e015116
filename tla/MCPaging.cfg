SPECIFICATION TimesSpec
CONSTANTS
  u1 = u1
  ag = ag
  adm = adm
  w1 = w1
  w2 = w2
  r1 = r1
  r2 = r2
  c1 = c1
  c2 = c2
  c3 = c3
  c4 = c4
  c5 = c5
  None = None
  Users <- MCUsers
  Admin = adm
  Kind <- MCKind
  AgentOf <- MCAgentOf
  WalletIds = {w1, w2}
  RequestIds = {r1, r2}
  Clients = {c1, c2, c3, c4}
  CallsOf <- CallsPaging
  Queries = {}
  Limit = 3
INVARIANTS
  PagesShowAll
