SPECIFICATION ElectionsSpec
CONSTANTS
  s1 = s1  s2 = s2  s3 = s3
  Sentinel = {s1, s2, s3}
  Quorum = 2
  Nobody = Nobody
  SeMaxEpoch = 2
  SeMaxFaults = 1
  A = A  B = B  C = C  R1 = R1  R2 = R2
  Node = {A, B, C, R1, R2}
  None = None
  Id <- Ids
  Slot <- Slots
  InitOwner <- Owners
  InitSlaveof <- Masters
  InitEpoch <- Epochs
  FirstEpoch = 3
  MaxEpoch = 4
  MaxNet = 0
  MaxFaults = 1
  CNode = {"a", "b", "c"}
  MaxMOps = 3
  MaxGen = 1
  MfTimeout = 2
  PauseMult = 2
  MaxTime = 5
  MaxMfWrites = 1
  MaxAttempts = 2
INVARIANTS AtMostOneLeader OneWinnerPerEpoch ViewsSound NodesKnown
PROPERTIES MembershipSteps
CHECK_DEADLOCK FALSE
