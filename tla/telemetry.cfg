SPECIFICATION Spec
CONSTANTS
  None = None
  w1 = w1
  w2 = w2
  s0 = s0
  Workspaces = {w1, w2}
  Members = {m1}
  States = {s0, s1, s2}
  WorkspaceOf <- StateWorkspace
  Callbacks = {b1, b2}
  Ttl = 1
  LastTime = 1
  Keys = {k1}
  KeyWorkspace <- FirstWorkspace
  Slots = {"manual"}
  Polls = {p1, p2}
  WithAdapter = {p1}
  Metrics = {"impressions"}
SYMMETRY Interchangeable
INVARIANTS TypeOK StateIsSpentOnce TokenFitsAccount OneReadingPerSlot ReadingsAreHonest
CHECK_DEADLOCK FALSE
