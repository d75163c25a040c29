SPECIFICATION StorageSpec
CONSTANTS
  KKey = {"a", "b"}
  KDb = {0, 1}
  KValue = {1, 2}
  Ttl = {1}
  QueuedOp = {"del"}
  MaxNow = 3
  MaxLink = 2
  MaxCmd = 1
  MaxWatch = 1
  MaxLoaded = 1
  EKey = {1, 2, 3}
  Policies <- MCPolicies
  Lazy = TRUE
  PoolSize = 3
  Samples = 2
  Batch = 1
  MaxMem = 1
  LruMax = 2
  MaxOps = 3
  LKey = {1, 2}
  LObj = {1, 2, 3}
  Large = {1, 2}
  MaxFlush = 2
  AofConfigs <- MCAofConfigs
  MaxAofWrites = 2
  MaxAofEvents = 2
  Datasets <- Sets
  Oldsets <- OldSets
  Loaders <- MCLoaders
  PerCmd = 2
  Numbers <- Nums
  Names = {"default", "u"}
  AClients = {"c1"}
  CmdOrder <- MCCmdOrder
  ModuleCmds = {"mod"}
  CatOrder <- MCCatOrder
  CatsOf <- AclCats
  MatchPairs <- MCMatchPairs
  RuleLists <- AclRules
  EditedFiles <- MCEditedFiles
  AllChanDefault = FALSE
  MaxAcl = 3
  Topics <- MCTopics
  TClients = {"c1", "c2"}
  TKeys <- MCTKeys
  TOptions <- TrackOpts
  TProtos = {2, 3}
  TableMax = 1
  MaxCalls = 3
  BufSize = 2
  Chunk = 3
  Align = 2
  ItemSize = 1
  Hard = 12
  Soft = 7
  SoftSeconds = 1
  Sizes = {1, 5}
  MaxTold = 4
  QStreams = {}
  ReadLen = 8
  InlineMax = 10
  BigArg = 4
  MaxArgs = 4
  MaxBulk = 8
  FreeArgs = 2
  FreeBulk = 5
  MaxQuery = 14
  IoReads = TRUE
INVARIANTS  MemoryRight DiskRight AclRight 
 
VIEW StorageView
CHECK_DEADLOCK FALSE
