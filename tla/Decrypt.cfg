CONSTANTS
  Node = {1, 2, 3, 4, 5}
  Faulty = {1, 2, 4}
  Misbehaviour = {"refuse", "diverge", "unreadable", "forge"}
  Threshold = 3
  ReqEpoch = 2
  MaxEpoch = 3
  SealMayDiffer = TRUE
  SignerMayFail = TRUE

SPECIFICATION FairSpec

INVARIANTS
  TypeOK
  DroppedStaysDropped
  NamesEveryDroppedNode
  PartialsMatchQuorum
  HonestBlamedForEpochOnly
  CryptoErrorBlamesFaulty

PROPERTIES
  Terminates
  ImplementsRecovery

CHECK_DEADLOCK FALSE
