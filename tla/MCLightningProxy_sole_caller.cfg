SPECIFICATION Spec
CONSTANTS
  MaxCalls = 3
  Callers = {c1}
  Op <- MCOp
  Conns = {k1, k2}
  Steady = {k1}
  Implemented <- BothMethods
  CanFail = FALSE
  NoMsg = NoMsg
INVARIANT GreetedFirst
PROPERTY RequestTaken
PROPERTY RefinesReverseRpc
CHECK_DEADLOCK FALSE
