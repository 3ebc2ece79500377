CONSTANTS
  k1 = k1
  k2 = k2
  g1 = g1
  g2 = g2
  Clients = {c1, c2}
  Workers = {w1}
  Keys = {k1}
  Requests <- OneKeyRequests
  Actuals = {1}
  Grants = {g1, g2}
  Terms <- GrantTerms
  PeriodEnd = 2
  NoTxn = NoTxn
  Horizon = 2
  MaxAborts = 1
SPECIFICATION FairSpec
PROPERTIES
  DueReservationsSettle
