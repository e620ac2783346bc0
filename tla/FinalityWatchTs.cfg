CONSTANTS
  Binding = {"ts"}
  MaxHeight = 4
  MaxLeap = 2

SPECIFICATION Spec

INVARIANTS
  FailedMeansNoEffect

CHECK_DEADLOCK FALSE
