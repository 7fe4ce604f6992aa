SPECIFICATION FairSpec
CONSTANTS
  s1 = s1
  s2 = s2
  s3 = s3
  v1 = v1
  None = None
  Servers = {s1, s2}
  Clients = {1, 2}
  Values = {None, v1}
  Arguments = {v1}
  MaxWrites <- SecondWrites
  MaxRequests <- OneOperation
  Flaky <- LinkToSecond
  Transient = {}
  Duplicating = FALSE
CHECK_DEADLOCK FALSE
PROPERTY OperationsReturn
