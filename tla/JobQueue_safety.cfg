CONSTANTS
  Jobs = {j1}
  Workers = {w1, w2}
  Operators = {o1}
  NoWorker = NoWorker
  NoReview = NoReview
  ClaimLimit = 1
  LeaseDuration = 2
  MaxAttempts = 2
  BaseDelay = 1
  MaxDelay = 1
  MaxManualRetries = 2
  StartDelays = {0}
  MaxLag = 1
  MaxOverruns = 2
  MaxStops = 1
  MaxErrors = 1
  MaxSettleErrors = 0
SPECIFICATION Spec
SYMMETRY Symmetry
INVARIANTS
  TypeOK
  LeaseIsExclusive
  AttemptBudget
PROPERTIES
  OperatorRetriesWhatItSaw
  ImplementsLifecycle
