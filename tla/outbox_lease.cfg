SPECIFICATION Spec
CONSTANTS
  None = None
  w1 = w1
  k1 = k1
  k2 = k2
  Workspaces = {w1}
  Members = {m1}
  Payloads = {x1}
  Keys = {k1}
  WorkspaceOf <- SingleWorkspace
  Apis = {a1, a2}
  Workers = {v1}
  BatchLimit = 2
  MaxClaims = 4
  MaxAborts = 0
  LeaseOutlivesHolder = FALSE
  SerialEnqueue = TRUE
INVARIANTS AtMostOnePost
CHECK_DEADLOCK FALSE
