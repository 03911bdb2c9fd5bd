SPECIFICATION Spec
CONSTANTS
  None = None
  w1 = w1
  c1 = c1
  k1 = k1
  Contents = {c1}
  Workspaces = {w1}
  Members = {m1}
  Keys = {k1}
  WorkspaceOf <- SingleWorkspace
  KeyOf <- KeyOfContent
  Apis = {a1}
  Workers = {v1}
  BatchLimit = 1
  MaxClaims = 2
  MaxAborts = 1
  LastMinute = 2
  SerialReview = TRUE
  SerialCalendar = TRUE
  LeaseOutlivesHolder = TRUE
  SerialEnqueue = TRUE
  OneKey = TRUE
SYMMETRY Interchangeable
INVARIANTS TypeOK ContentPostedOnce
PROPERTIES NotBeforePlanned
CHECK_DEADLOCK FALSE
