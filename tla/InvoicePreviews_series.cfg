CONSTANTS
  e1 = e1  e2 = e2  e3 = e3
  Events = {e1, e2, e3}
  Exports = {x1}
  Workers = {w1, w2}
  Run = Run  Series = Series  None = None
  Settings <- MCSettings
  RetentionAge = 1
  MaxLag = 1
  Horizon = 1
  MaxRevision = 4
  MaxLost = 2
SPECIFICATION Spec
INVARIANTS TypeOK OnlyLatestIsPending PreviewsLoseOnlyEventsBehind RevisionsAdvance
PROPERTIES OutcomesAreFinal RevisionsSettle
CHECK_DEADLOCK FALSE
