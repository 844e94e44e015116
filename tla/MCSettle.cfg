SPECIFICATION Spec
CONSTANTS
  k1 = k1
  k2 = k2
  c1 = c1
  c2 = c2
  c3 = c3
  c4 = c4
  c5 = c5
  None = None
  Undefined = Undefined
  Empty = Empty
  Players = {1, 2}
  Rounds = {1, 2, 3, 4}
  Keys = {k1, k2}
  Numbers = {1, 2}
  Clients = {c1, c2, c3, c4, c5}
  CallsOf <- CallsSettle
  Limit = 4
  Opening <- MCOpening
  Config0 <- ThirdConfig
  Rounds0 <- JokerAndRandom
  Bets0 <- BetsOnBoth
CONSTRAINTS
  OneCast
INVARIANTS
  PaidOnce
  PayoutCountsEveryBet
  AuditTellsResult
PROPERTIES
  EveryCallAnswered
  ImplementsGame
