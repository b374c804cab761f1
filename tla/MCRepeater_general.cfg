SPECIFICATION Spec
CONSTANTS
  MaxCalls = 2
  MaxOutstanding = 2
  Method <- MCMethod
  Invoices = {i1}
  Conns = {h1, h2}
  Steady = {h2}
  Frags = 2
  MaxTimeouts = 1
  CanReset = TRUE
  NoItem = NoItem
  NoReply = NoReply
  Empty = Empty
PROPERTY Answered
PROPERTY ResponseFinal
INVARIANT TypeOK
INVARIANT SingleCopy
INVARIANT OneTicket
INVARIANT Balanced
CHECK_DEADLOCK FALSE
