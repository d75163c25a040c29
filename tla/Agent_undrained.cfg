SPECIFICATION RaFairSpec
CONSTANTS
  MaxRuns = 1
  MaxLines = 4
  MaxInbox = 1
  PipeCap = 2
  Line = {"json", "text"}
PROPERTY Reconnects
CHECK_DEADLOCK FALSE
