CONSTANTS
  p1 = p1
  v1 = v1
  v2 = v2
  m1 = m1
  w1 = w1
  w2 = w2
  w3 = w3
  f1 = f1
  f2 = f2
  c1 = c1
  c2 = c2
  x1 = x1
  s1 = s1
  s2 = s2
  i1 = i1
  e1 = e1
  e2 = e2
  e3 = e3
  Plans = {p1}
  Versions = {v1, v2}
  Meters = {m1}
  MeterVersions = {w1, w2, w3}
  Features = {f1, f2}
  Customers = {c1, c2}
  Subjects = {c1, c2, x1}
  SubscriptionIds = {s1, s2}
  SimulationIds = {i1}
  Events = {e1, e2, e3}
  Requests = {r1, r2}
  None = None
  Rows <- MCRows
  MonthLengths <- MCMonths
  Settings <- MCSettings
  BatchSize = 1
  MaxLag = 1
  Horizon = 4
SPECIFICATION Spec
INVARIANTS
  BillingTypeOK
  PublishedMeterVersionsDoNotOverlap
  RenewalsContinue
  SimulationsAreExact
PROPERTIES
  EntitlementsFitSubscription
CHECK_DEADLOCK FALSE
