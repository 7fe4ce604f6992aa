SPECIFICATION Spec
CONSTANTS
  a1 = a1
  a2 = a2
  b = b
  Client = {a1, a2, b}
  ClientId <- Ids
  MaxCalls <- OneCall
  MaxSockets = 2
  Length <- ShortLongShort
  LenUnits = 2
  Capacity = 4
  MaxLength = 4
CHECK_DEADLOCK FALSE
INVARIANTS TypeOK IdsAgree PeersMatch FailuresStayLocal Framing ReceivedInOrder
PROPERTIES ReliableUnlessDamaged TryRecvReturns ConnectsReturn
