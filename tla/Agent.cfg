SPECIFICATION RaFairSpec
CONSTANTS
  MaxRuns = 2
  MaxLines = 2
  MaxInbox = 1
  PipeCap = 1
  Line = {"json", "text", "undecodable"}
INVARIANTS OneRunAtATime ResultsSentUnlessCut OneCommandAfterShutdown
 
CHECK_DEADLOCK FALSE
