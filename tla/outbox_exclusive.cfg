SPECIFICATION Spec
CONSTANTS
  None = None
  w1 = w1
  k1 = k1
  k2 = k2
  Workspaces = {w1}
  Members = {m1, m2}
  Payloads = {x1, x2}
  Keys = {k1}
  WorkspaceOf <- SingleWorkspace
  Apis = {a1, a2}
  Workers = {v1}
  BatchLimit = 1
  MaxClaims = 4
  MaxAborts = 2
  LeaseOutlivesHolder = TRUE
  SerialEnqueue = TRUE
SYMMETRY Interchangeable
INVARIANTS TypeOK AtMostOnePost LedgerNeverDeniesPost QueueAgreesWithLedger Exclusive Coherent
PROPERTIES TerminalStays KeepsPromise
CHECK_DEADLOCK FALSE
