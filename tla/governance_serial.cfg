SPECIFICATION Spec
CONSTANTS
  None = None
  Contents = {c1, c2, c3}
  Callers = {r1, r2, r3}
  Minutes = {t1, t2}
  SerialReview = TRUE
  SerialCalendar = TRUE
SYMMETRY Interchangeable
INVARIANTS TypeOK HumanGate OneVerdict InboxIsDecidable StatusIsDecided OneContentPerMinute
PROPERTIES FollowsLifecycle KeepsMemory
