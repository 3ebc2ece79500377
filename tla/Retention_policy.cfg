SPECIFICATION Spec
CONSTANTS
  s = s
  w1 = w1
  w2 = w2
  Servers = {s}
  Workers = {w1, w2}
  Signals = {int, term}
  None = None
  r1 = r1
  r2 = r2
  Requests = {r1, r2}
  e1 = e1
  e2 = e2
  Events = {e1, e2}
  Settings <- MCSettings
  BatchSize = 1
  MaxAttempts = 2
INVARIANTS RetentionTypeOK ScansContinue GracefulExitsLoseNothing
PROPERTIES RedactionsObeyPolicy ExpiredEventsAreRedacted
CHECK_DEADLOCK FALSE
