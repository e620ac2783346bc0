CONSTANTS
  Node = {1, 2, 3, 4, 5}
  Faulty = {2, 3}
  Misbehaviour = {"refuse", "diverge"}
  Threshold = 3
  ReqEpoch = 2
  MaxEpoch = 3
  SealMayDiffer = FALSE
  SignerMayFail = FALSE

SPECIFICATION FairSpec

INVARIANTS
  VotesAreDistinctNodes
  VotedRotationIsReal
  GivesUpOnlyWithoutQuorum

PROPERTIES
  Recovers

CHECK_DEADLOCK FALSE
