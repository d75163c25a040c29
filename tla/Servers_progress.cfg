SPECIFICATION ServersFairSpec
CONSTANTS
  RNode = {"a", "b", "c"}
  RDb = {0, 1}
  BacklogSize = 3
  MaxWrites = 1
  MaxOps = 1
  Replica = {"r1", "r2"}
  MaxFWrites = 1
  MaxFSyncs = 1
  MaxFFaults = 1
  PConn = {"c1", "c2"}
  Chunks = 2
  BufLen = 2
  Target = {"t1", "t2"}
  MaxOff = 2
  MaxFoOps = 1
  IoClients = {1, 2}
  IoNum = 2
  PerThread = 1
  MaxReplies = 1
  A = A
  B = B
  R = R
  Node = {A, B, R}
  None = None
  Id <- Ids
  Slot = {0, 1}
  InitOwner <- Owners
  InitSlaveof <- Masters
  InitEpoch <- Epochs
  FirstEpoch = 0
  MaxEpoch = 0
  MaxNet = 0
  MaxFaults = 0
  SKey = {"k1"}
  MaxSWrites = 2
  MaxSFaults = 1
  m1 = m1
  m2 = m2
  m3 = m3
  FMaster = {m1, m2, m3}
  T = 1
  MaxCuts = 1
  PingPeriod = 2
  DownAfter = 3
  MinReconnect = 1
  PubSilence = 2
  TiltTrigger = 2
  TiltPeriod = 4
  MaxPending = 2
  Jumps <- ClockJumps
  MaxAge = 5
  MaxDelay = 1
  SmMaxFaults = 1
  Overseer = {"s1", "s2"}
  Instance = {"m", "x", "y"}
  First = "m"
  Nothing = "nothing"
  ParallelSyncs = 2
  LastEpoch = 1
PROPERTIES  FailuresNoticed
CHECK_DEADLOCK FALSE
