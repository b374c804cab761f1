SPECIFICATION Spec
CONSTANTS
  MaxCalls = 3
  Callers = {c1, c2}
  Op <- MCOp
  Conns = {k1, k2}
  Steady = {}
  Implemented <- BothMethods
  CanFail = TRUE
  NoMsg = NoMsg
SYMMETRY Symmetry
INVARIANT TypeOK
INVARIANT OneMessagePerCall
CHECK_DEADLOCK FALSE
