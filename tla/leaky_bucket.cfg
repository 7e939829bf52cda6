SPECIFICATION Spec
CONSTANTS
  MaxInt64 = 31
  MaxUint64 = 63
  MaxNow = 6
  Limits <- MCLimits
  Costs <- MCCosts
  Batches <- MCBatches
INVARIANTS
  TypeOK
  NeverOverAdmits
  RemainingAgreesWithVerdict
  RetryAfterIsExact
  ZeroRetryIsFinal
  RemoteAgreesWithLocal
  ReportTellsCommit
  AdmissionHasReason
