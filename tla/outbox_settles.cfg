SPECIFICATION FairSpec
CONSTANTS
  None = None
  w1 = w1
  k1 = k1
  k2 = k2
  Workspaces = {w1}
  Members = {m1}
  Payloads = {x1}
  Keys = {k1, k2}
  WorkspaceOf <- SingleWorkspace
  Apis = {a1}
  Workers = {v1}
  BatchLimit = 2
  MaxClaims = 4
  MaxAborts = 1
  LeaseOutlivesHolder = TRUE
  SerialEnqueue = TRUE
INVARIANTS Exclusive
PROPERTIES EveryCommandSettles
CHECK_DEADLOCK FALSE
