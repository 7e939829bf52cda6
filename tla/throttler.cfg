SPECIFICATION Spec
SYMMETRY Symmetry
CONSTANTS
  c1 = c1  c2 = c2  b1 = b1  b2 = b2  b3 = b3
  Calls <- MCCalls
  Keys = {1, 2}
  NumStripes = 2
  StripeOf <- TwoStripes
  Buckets <- MCBuckets
  Requests <- DrainedRequests
  GCInterval = 2
  MaxCallTime = 1
  MaxGCDelay = 0
  MaxClock = 4
  MaxInt64 = 31
  MaxUint64 = 63
  NoBucket = NoBucket  NoCall = NoCall  NoVerdict = NoVerdict
VIEW WithoutSpent
INVARIANTS
  TypeOK
  WorkingCopyIsCurrent
  ExclusiveEvaluation
  OneBucketPerKey
  KeyLifetime
PROPERTIES
  Linearizable
