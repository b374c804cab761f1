SPECIFICATION Spec
CONSTANTS
  Keys <- MCKeys
  Cut = "cut"
  Clients = {"a1", "b1"}
  Socks = {"a1", "b1"}
  KeyOf <- MCKeyOf
  Saved <- MCSaved
  Modes = {FALSE}
  CutReads = TRUE
  CanCrash = FALSE
  MaxAttempts = 1
  MaxStarts = 3
CHECK_DEADLOCK FALSE
PROPERTY RefinesDirectory
