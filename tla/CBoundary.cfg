SPECIFICATION Spec
CONSTANTS
  Goroutine = {g1, g2}
  Collector = collector
  g1 = g1
  g2 = g2
  Keys = {"good", "malformed", "not_utf8", "empty"}
  Seals <- MCSeals
  Opens <- MCOpens
  MaxCalls = 4
SYMMETRY Symmetry
CHECK_DEADLOCK FALSE
INVARIANT TypeOK
INVARIANT BuffersAreReleasedOnce
INVARIANT KeyIsReleased
INVARIANT KeyOutlivesItsCalls
INVARIANT WhatSealsOpens
