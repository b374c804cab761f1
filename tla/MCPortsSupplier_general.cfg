SPECIFICATION Spec
CONSTANTS
  Keys <- MCKeys
  Cut = "cut"
  Clients = {"a1", "areq", "b1"}
  Socks = {"a1", "b1"}
  KeyOf <- MCKeyOf
  Saved <- MCSaved
  Modes = {TRUE, FALSE}
  CutReads = FALSE
  CanCrash = TRUE
  MaxAttempts = 2
  MaxStarts = 2
CHECK_DEADLOCK FALSE
INVARIANT TypeOK
INVARIANT WalletsIsolated
INVARIANT PortsDistinct
INVARIANT RefusedOnlyIfFull
INVARIANT OneStream
INVARIANT PeersOnce
PROPERTY Supplies
