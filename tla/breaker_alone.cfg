SPECIFICATION FairSpec
CONSTANTS
  t1 = t1  t2 = t2  t3 = t3  t4 = t4
  Callers <- OneCaller
  FailureThreshold = 6
  OpenDuration = 12
  CallersGiveUp = FALSE
PROPERTIES
  LoneCallerSeesStates
  Recovers
