SPECIFICATION Spec
CONSTANTS
  None = None
  good = good
  mislabelled = mislabelled
  huge = huge
  Images = {good, mislabelled, huge}
  Mimes = {"image/png"}
  MimeOf <- Sniffed
  TooLarge <- Huge
  Uploads = {u1, u2}
  Shares = {r1, r2}
  Members = {m1, m2}
  Ttl = 1
  LastTime = 1
  MaxAssets = 2
SYMMETRY Interchangeable
INVARIANTS TypeOK RowsHaveFiles PostsShowTheirImage
PROPERTIES CachedUrnStays
CHECK_DEADLOCK FALSE
