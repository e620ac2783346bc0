SPECIFICATION Spec
CONSTANTS
  t1 = t1
  t2 = t2
  r = r
  w = w
  Tx = {t1, t2}
  Scope = {r, w}
  Need = {{r}}
  Principal = Principal
  Stranger = Stranger
  Nobody = Nobody
  MaxMoves = 2
CHECK_DEADLOCK FALSE
INVARIANT UnsponsoredMeansInScope
