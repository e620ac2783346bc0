CONSTANTS
  Binding = {"go"}
  MaxHeight = 4
  MaxLeap = 2

SPECIFICATION Spec

INVARIANTS
  TimeoutMeansNotFinal

CHECK_DEADLOCK FALSE
