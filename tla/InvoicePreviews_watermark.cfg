CONSTANTS
  e1 = e1  e2 = e2  e3 = e3
  Events = {e1, e2, e3}
  Exports = {x1}
  Workers = {w1, w2}
  Run = Run  Series = Series  None = None
  Settings <- LateSettings
  RetentionAge = 1
  MaxLag = 1
  Horizon = 1
  MaxRevision = 4
  MaxLost = 1
SPECIFICATION Spec
INVARIANT ProcessedEventsArePreviewed
CHECK_DEADLOCK FALSE
