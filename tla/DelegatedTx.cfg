SPECIFICATION FairSpec
CONSTANTS
  t1 = t1
  t2 = t2
  r = r
  w = w
  Tx = {t1, t2}
  Scope = {r, w}
  Need = {{r}}
  Principal = Principal
  Stranger = Stranger
  Nobody = Nobody
  MaxMoves = 2
CHECK_DEADLOCK FALSE
INVARIANT TypeOK
INVARIANT CachedScopesWereGranted
INVARIANT RefusalHasNoEffect
INVARIANT KeyRevokedIsTrue
INVARIANT NotPermittedNamesMissing
INVARIANT UnsponsoredInScope
PROPERTY ModeNeverFalls
PROPERTY CallsKeepTheirPromise
PROPERTY CallEnds
