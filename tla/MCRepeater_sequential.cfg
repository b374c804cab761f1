SPECIFICATION Spec
CONSTANTS
  MaxCalls = 3
  MaxOutstanding = 1
  Method <- MCMethod
  Invoices = {i1}
  Conns = {h1, h2}
  Steady = {h2}
  Frags = 2
  MaxTimeouts = 0
  CanReset = FALSE
  NoItem = NoItem
  NoReply = NoReply
  Empty = Empty
PROPERTY RefinesReverseRpc
INVARIANT OwnReply
CHECK_DEADLOCK FALSE
