SPECIFICATION ExampleSpec
CONSTANTS
  s1 = s1
  s2 = s2
  s3 = s3
  None = None
  Servers = {s1, s2, s3}
  Clients = {1, 2}
  Values = {None, 1, 2}
  Arguments = {1, 2}
  MaxWrites <- OneWrite
  MaxRequests <- FewRequests
  Flaky = {}
  Transient = {}
  Duplicating = FALSE
  Workloads <- WriterAndReader
  MaxStarts = 2
  MaxRestarts = 1
  MaxDropped = 1
VIEW View
SYMMETRY ServerSymmetry
CHECK_DEADLOCK FALSE
INVARIANTS ClashesAreWithAbandonedWrites OnlyAmnesiaUncovers StaleReadsHeardFromForgetful
PROPERTY LoneClientReadsItsWrites
