SPECIFICATION TypesSpec
CONSTANTS
  Consumer = {"a", "b"}
  NoConsumer = "none"
  MaxId = 3
  NodeMax = 2
  ReplNodeMax = 1
  IdleSets <- MCIdleSets
  Key = {"k1", "k2"}
  SElem <- MCSElem
  Text = {9}
  Narrow = 1
  MaxIntset = 2
  ReplMaxIntset = 1
  MoveMul = 1
  MaxCount = 3
  ZKey = {"z"}
  ZElem = {1, 2, 3}
  Long = {3}
  PlainSet = {2, 3}
  Finite = {0, 1}
  AddElems <- MCAddElems
  Weight = {0, 1}
  ZMaxZiplist = 2
  ReplZMaxZiplist = 1
  Bound = 2
  RangeBound = {0, 1}
  BKey = {"a", "b"}
  Client = {"c", "d"}
  MaxPush = 2
INVARIANTS ReplicasFollow ValuesWellFormed BlockedServed
PROPERTIES ImplementsSets CommandsAsTold
VIEW TypesView
CHECK_DEADLOCK FALSE
