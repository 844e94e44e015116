SPECIFICATION Spec
CONSTANTS
  u1 = u1
  ag = ag
  adm = adm
  w1 = w1
  w2 = w2
  r1 = r1
  c1 = c1
  c2 = c2
  c3 = c3
  c4 = c4
  c5 = c5
  None = None
  Users <- MCUsers
  Admin = adm
  Kind <- MCKind
  AgentOf <- MCAgentOf
  WalletIds = {w1, w2}
  RequestIds = {r1}
  Clients = {c1, c2, c3, c4, c5}
  CallsOf <- CallsRequests
  Limit = 3
INVARIANTS
  LedgerExplainsBalances
  CopiesAreCurrent
PROPERTIES
  AcceptanceBooksCurrentAmount
  EveryCallAnswered
