CONSTANTS
  Jobs = {j1, j2}
  Workers = {w1, w2}
  Operators = {}
  NoWorker = NoWorker
  NoReview = NoReview
  ClaimLimit = 2
  LeaseDuration = 1
  MaxAttempts = 2
  BaseDelay = 1
  MaxDelay = 1
  MaxManualRetries = 1
  StartDelays = {0}
  MaxLag = 0
  MaxOverruns = 1
  MaxStops = 1
  MaxErrors = 0
  MaxSettleErrors = 1
SPECIFICATION FairSpec
PROPERTIES
  EveryJobSettles
