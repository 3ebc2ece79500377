CONSTANTS
  u1 = u1
  u2 = u2
  u3 = u3
  k1 = k1
  k2 = k2
  k3 = k3
  e1 = e1
  e2 = e2
  e3 = e3
  Users = {u1, u2, u3}
  Keys = {k1, k2, k3}
  Requests = {r1, r2}
  Calls = {c1, c2}
  Events = {e1, e2, e3}
  Contents = {"x", "y", "z", "reversal"}
  Unknown = {"z"}
  None = None
  Settings <- MCSettings
  MaxLag = 2
  Horizon = 3
  Window = 1
  MaxAge = 1
  MaxSkew = 0
SPECIFICATION FairSpec
INVARIANTS
  IngestionTypeOK
  OwnerRemains
  RotationReplaces
  RateIsLimited
PROPERTIES
  AuthorityHolds
  RevocationsWaitForBatches
  AnswersAreTrue
  EveryCallEnds
CHECK_DEADLOCK FALSE
