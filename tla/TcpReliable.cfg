SPECIFICATION TcpSpec
CONSTANTS
  Length <- ShortLongShort
  LenUnits = 2
  Capacity = 12
  MaxLength = 4
CHECK_DEADLOCK FALSE
PROPERTY Reliable
