SPECIFICATION FairSpec
CONSTANTS
  x1 = x1  x2 = x2  x3 = x3
  Calls <- TwoCalls
  KeyOf <- DistinctKeys
  MaxInFlight = 1
  MaxConns = 2
  Faults <- AllFaults
  Expiries = {}
  NoCall = NoCall  NoLine = NoLine
PROPERTIES
  EveryCallReturns
  CloseIsFinal
CHECK_DEADLOCK FALSE
