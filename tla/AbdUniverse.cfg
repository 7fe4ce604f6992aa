SPECIFICATION UniSpec
CONSTANTS
  s1 = s1
  s2 = s2
  s3 = s3
  v1 = v1
  None = None
  Servers = {s1, s2, s3}
  Clients = {1, 2}
  Values = {None, v1}
  Arguments = {v1}
  MaxWrites <- SecondWrites
  MaxRequests <- OneOperation
  Flaky <- LinksToMajority
  Transient = {}
  Duplicating = FALSE
SYMMETRY MajoritySymmetry
CHECK_DEADLOCK FALSE
INVARIANTS UniTypeOK BoundsAreValid ProofsAgree ResponsesReach AccumulatorsKnow
