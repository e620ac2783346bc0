CONSTANTS
  Node = {1, 2, 3}
  Faulty = {2, 3}
  Misbehaviour = {"refuse", "diverge"}
  Threshold = 2
  ReqEpoch = 1
  MaxEpoch = 2
  SealMayDiffer = FALSE
  SignerMayFail = FALSE

SPECIFICATION Spec

INVARIANTS
  RotationNeedsThreshold

CHECK_DEADLOCK FALSE
