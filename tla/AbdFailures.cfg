SPECIFICATION Spec
CONSTANTS
  s1 = s1
  s2 = s2
  s3 = s3
  v1 = v1
  None = None
  Servers = {s1, s2, s3}
  Clients = {1, 2}
  Values = {None, v1}
  Arguments = {None, v1}
  MaxWrites <- FirstWritesTwice
  MaxRequests <- FirstRetries
  Flaky <- LinksToMajority
  Transient <- LinkToLast
  Duplicating = TRUE
CHECK_DEADLOCK FALSE
INVARIANTS TypeOK TimestampsNameOneValue
PROPERTY ServersAreMonotonic
