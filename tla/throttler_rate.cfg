SPECIFICATION Spec
SYMMETRY FewSymmetry
CONSTANTS
  c1 = c1  c2 = c2  b1 = b1  b2 = b2  b3 = b3
  Calls <- MCCalls
  Keys = {1}
  NumStripes = 1
  StripeOf <- OneStripe
  Buckets <- MCFewBuckets
  Requests <- OneKeyRequests
  GCInterval = 3
  MaxCallTime = 1
  MaxGCDelay = 1
  MaxClock = 6
  MaxInt64 = 31
  MaxUint64 = 63
  NoBucket = NoBucket  NoCall = NoCall  NoVerdict = NoVerdict
INVARIANTS
  RateConformance
