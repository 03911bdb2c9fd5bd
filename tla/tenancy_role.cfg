SPECIFICATION Spec
CONSTANTS
  None = None
  Workspaces = {w1, w2}
  Names = {n1, n2}
  Users = {u1}
  Items = {i1}
  Calls = {r1, r2}
  Conns = {d1}
  MaxFaults = 0
  SerialCreate = TRUE
INVARIANTS OwnRowsOnly
