CONSTANTS
  Jobs = {j1, j2}
  Workers = {w1, w2}
  Operators = {}
  NoWorker = NoWorker
  NoReview = NoReview
  ClaimLimit = 2
  LeaseDuration = 2
  MaxAttempts = 2
  BaseDelay = 1
  MaxDelay = 1
  MaxManualRetries = 0
  StartDelays = {0}
  MaxLag = 0
  MaxOverruns = 1
  MaxStops = 0
  MaxErrors = 0
  MaxSettleErrors = 1
SPECIFICATION Spec
SYMMETRY Symmetry
PROPERTIES
  FormerOwnerIsRejected
