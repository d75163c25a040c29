SPECIFICATION StructuresSpec
CONSTANTS
  Elem = {1, 2, 3}
  Score = {1, 2, 3}
  MaxLevel = 2
  LElem = {1, 2}
  Big = {2}
  Fill = 2
  SafetyLimit = 10
  Compress = 1
  MaxLen = 4
  Keys = {"a", "b", "c"}
  HashOf <- Hashes
  InitialSize = 2
  EmptyVisits = 2
  ForceRatio = 1
  MinFill = 30
  Width = 3
  FirstSizes = {2, 8}
  MaxDictOps = 3
  Values <- ZipVals
  Integers0 <- ZipInts
  MaxEntries = 4
  LenLimit = 3
  LpValues <- MCLpValues
  Filler = 255
  NumUnknown = 3
  MaxLp = 3
  RaxKeys <- RadixKeys
  RaxProbes <- RadixProbes
  RaxValues = {0, 1}
  MaxNode = 10
  BKeys = {"k1", "k2"}
  BInit <- Strs
  ByteBits = 3
  WordBytes = 2
  PopGroup = 2
  FastBytes = 2
  FastKeys = 2
  IntBits = 6
  MaxBulk = 5
  Offsets = {0, 2, 4, 16}
  Ranges <- MCRanges
  SrcLists <- MCSrcLists
  Fields <- MCFields
  HllKeys = {"a", "b"}
  HlElements <- HllElems
  Regs = 16
  Counts = {0, 2, 3, 33}
  ZeroMaxLen = 4
  SparseMaxBytes = 6
  MaxHllDirty = 20
INVARIANTS SearchRight SequencesRight
PROPERTIES StructuresAsTold
VIEW StructuresView
CHECK_DEADLOCK FALSE
