CONSTANTS
  Binding = {"rust", "ts", "python", "go"}
  MaxHeight = 4
  MaxLeap = 2

SPECIFICATION FairSpec

INVARIANTS
  TypeOK
  TimeoutSawEveryBlock

PROPERTIES
  KeepsItsPromise
  LandedIsReported

CHECK_DEADLOCK FALSE
