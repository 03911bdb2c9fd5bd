SPECIFICATION Spec
CONSTANTS
  None = None
  w1 = w1
  c1 = c1
  k1 = k1
  Contents = {c1}
  Workspaces = {w1}
  Members = {m1}
  Keys = {k1}
  WorkspaceOf <- SingleWorkspace
  KeyOf <- KeyOfContent
  Apis = {a1, a2}
  Workers = {}
  BatchLimit = 1
  MaxClaims = 1
  MaxAborts = 0
  LastMinute = 1
  SerialReview = FALSE
  SerialCalendar = FALSE
  LeaseOutlivesHolder = TRUE
  SerialEnqueue = FALSE
  OneKey = TRUE
SYMMETRY Interchangeable
INVARIANTS NothingUnapproved PipelineHolds
PROPERTIES QueuedIsOnCalendar
CHECK_DEADLOCK FALSE
