CONSTANTS
  e1 = e1  e2 = e2  e3 = e3  b1 = b1  b2 = b2
  Events = {e1, e2, e3}
  Buckets = {b1, b2}
  Workers = {w1, w2}
  Run = Run  Rebuild = Rebuild  None = None
  Settings <- MCSettings
  RetentionAge = 1
  MaxLag = 1
  MaxAttempts = 2
  Horizon = 1
  MaxLost = 1
SPECIFICATION Spec
INVARIANTS TypeOK NeverCountedTwice UnracedBucketsAreExact FailsForOlderEventsOnly
PROPERTY AcceptedEventsSettle
CHECK_DEADLOCK FALSE
