SPECIFICATION ServersSpec
CONSTANTS
  RNode = {"a", "b", "c"}
  RDb = {0, 1}
  BacklogSize = 3
  MaxWrites = 2
  MaxOps = 2
  Replica = {"r1", "r2"}
  MaxFWrites = 2
  MaxFSyncs = 2
  MaxFFaults = 1
  PConn = {"c1", "c2"}
  Chunks = 3
  BufLen = 2
  Target = {"t1", "t2"}
  MaxOff = 3
  MaxFoOps = 2
  IoClients = {1, 2, 3}
  IoNum = 2
  PerThread = 1
  MaxReplies = 1
  A = A
  B = B
  R = R
  Node = {A, B, R}
  None = None
  Id <- Ids
  Slot = {0, 1}
  InitOwner <- Owners
  InitSlaveof <- Masters
  InitEpoch <- Epochs
  FirstEpoch = 0
  MaxEpoch = 1
  MaxNet = 1
  MaxFaults = 1
  SKey = {"k1", "k2"}
  MaxSWrites = 3
  MaxSFaults = 2
  m1 = m1
  m2 = m2
  m3 = m3
  FMaster = {m1, m2, m3}
  T = 1
  MaxCuts = 2
  PingPeriod = 2
  DownAfter = 3
  MinReconnect = 1
  PubSilence = 2
  TiltTrigger = 2
  TiltPeriod = 4
  MaxPending = 2
  Jumps <- ClockJumps
  MaxAge = 5
  MaxDelay = 1
  SmMaxFaults = 2
  Overseer = {"s1", "s2"}
  Instance = {"m", "x", "y"}
  First = "m"
  Nothing = "nothing"
  ParallelSyncs = 2
  LastEpoch = 2
INVARIANTS ReplicasHaveTheData IoHandoff GossipAgrees ReshardingSafe  
PROPERTIES FailoverKeepsWrites 
CHECK_DEADLOCK FALSE
