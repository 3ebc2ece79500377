CONSTANTS
  k1 = k1
  k2 = k2
  g1 = g1
  g2 = g2
  Clients = {c1, c2}
  Workers = {w1}
  Keys = {k1, k2}
  Requests <- TwoKeyRequests
  Actuals = {1, 2}
  Grants = {g1, g2}
  Terms <- GrantTerms
  PeriodEnd = 2
  NoTxn = NoTxn
  Horizon = 2
  MaxAborts = 0
SPECIFICATION Spec
SYMMETRY Symmetry
INVARIANTS
  TypeOK
  BalanceIsExact
  CommittedIsMetered
PROPERTIES
  ImplementsLedger
