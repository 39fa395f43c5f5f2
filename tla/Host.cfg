SPECIFICATION Spec
CONSTANTS
  Preview = {p1, p2}
  Config <- MCConfig
  Caller = {c1, c2}
  MaxMint = 4
  MaxFaults = 2
  Converger = {v1, v2}
  Deployment = {d1, d2}
  MaxConvergence = 3
INVARIANTS
  UrlMeansAnswered
  ExpiredStaysClosed
  LeaksAreKnown
  CachedCredentialOpens
  TrafficStaysApproved
PROPERTY
  BucketComesBack
SYMMETRY Permuted
CHECK_DEADLOCK FALSE
