CONSTANTS
  Node = {1, 2, 3, 4}
  Faulty = {2}
  Misbehaviour = {"refuse", "diverge", "unreadable", "forge"}
  Threshold = 2
  ReqEpoch = 1
  MaxEpoch = 1
  SealMayDiffer = FALSE
  SignerMayFail = FALSE

SPECIFICATION Spec

INVARIANTS
  NoSingleNodeDenies

CHECK_DEADLOCK FALSE
