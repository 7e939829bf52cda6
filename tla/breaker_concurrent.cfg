SPECIFICATION Spec
SYMMETRY Symmetry
CONSTANTS
  t1 = t1  t2 = t2  t3 = t3  t4 = t4
  Callers <- FourCallers
  FailureThreshold = 2
  OpenDuration = 2
  CallersGiveUp = TRUE
INVARIANTS
  TypeOK
  OpenNeedsFaults
  OverlapNeedsStraggler
  ClaimHasOwner
