SPECIFICATION Spec
CONSTANTS
  Goroutine = {g1}
  Collector = collector
  g1 = g1
  Keys = {"good", "malformed", "not_utf8", "empty"}
  Seals <- MCSeals
  Opens <- MCOpens
  MaxCalls = 3
CHECK_DEADLOCK FALSE
INVARIANT SafeWithoutClose
