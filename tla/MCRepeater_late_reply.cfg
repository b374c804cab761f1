SPECIFICATION Spec
CONSTANTS
  MaxCalls = 2
  MaxOutstanding = 1
  Method <- MCMethod
  Invoices = {}
  Conns = {h1}
  Steady = {h1}
  Frags = 2
  MaxTimeouts = 1
  CanReset = FALSE
  NoItem = NoItem
  NoReply = NoReply
  Empty = Empty
INVARIANT OwnReply
CHECK_DEADLOCK FALSE
