SPECIFICATION Spec
CONSTANTS
  a1 = a1
  a2 = a2
  b = b
  Process = {a1, a2, b}
  Thread = {t1, t2}
  ClientId <- Restarted
  MaxCalls <- TwoCallsOfA2
  MaxAccepts = 1
  Mortal = {a1, a2}
  Breakable = {a2}
CHECK_DEADLOCK FALSE
INVARIANTS TypeOK RepliesAreNotLost FailuresStayLocal
PROPERTY AtMostOnce
PROPERTY CallsReturn
