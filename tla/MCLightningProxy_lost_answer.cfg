SPECIFICATION Spec
CONSTANTS
  MaxCalls = 1
  Callers = {c1}
  Op <- MCOp
  Conns = {k1}
  Steady = {k1}
  Implemented <- BothMethods
  CanFail = FALSE
  NoMsg = NoMsg
PROPERTY Returns
CHECK_DEADLOCK FALSE
