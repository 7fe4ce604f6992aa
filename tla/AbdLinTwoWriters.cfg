SPECIFICATION LinSpec
CONSTANTS
  s1 = s1
  s2 = s2
  s3 = s3
  v1 = v1
  None = None
  Servers = {s1, s2, s3}
  Clients = {1, 2}
  Values = {None, v1}
  Arguments = {v1}
  MaxWrites <- OneOperation
  MaxRequests <- FirstTwice
  Flaky = {}
  Transient = {}
  Duplicating = FALSE
  Prophecies = {1, 2}
  MaxReads = 3
SYMMETRY ServerSymmetry
CHECK_DEADLOCK FALSE
INVARIANT WritesAreNewer
INVARIANT QuorumsCoverWatermark
INVARIANT ReadsAreFresh
PROPERTY Linearizable
