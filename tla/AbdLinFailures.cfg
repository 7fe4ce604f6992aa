SPECIFICATION LinSpec
CONSTANTS
  s1 = s1
  s2 = s2
  s3 = s3
  v1 = v1
  None = None
  Servers = {s1, s2, s3}
  Clients = {1, 2}
  Values = {None, v1}
  Arguments = {v1}
  MaxWrites <- FirstWrites
  MaxRequests <- OneOperation
  Flaky <- LinksToMajority
  Transient = {}
  Duplicating = FALSE
  Prophecies = {1}
  MaxReads = 2
SYMMETRY MajoritySymmetry
CHECK_DEADLOCK FALSE
INVARIANT CommitmentsHold
PROPERTY Linearizable
INVARIANT NobodyWaitsInVain
PROPERTY QueueIsUsedWell
PROPERTY CommitmentsAreUsedWell
