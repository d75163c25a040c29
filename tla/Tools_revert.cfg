SPECIFICATION ToolsSpec
CONSTANTS
  Reporter = {"server-01", "server-02"}
  CoreList <- CoreLists
  MayFail = TRUE
  MaxQueue = 2
  Cpus <- TwoCpus
  Queues <- TwoQueues
  Irqs <- TwoIrqs
  MaxApplies = 3
  Hosts <- TwoHosts
  Instances = 72
  Iops = 120000
INVARIANT RevertRestores
CHECK_DEADLOCK FALSE
