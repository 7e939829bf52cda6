SPECIFICATION Spec
SYMMETRY Symmetry
VIEW ConnView
CONSTANTS
  x1 = x1  x2 = x2  x3 = x3
  Calls <- ThreeCalls
  KeyOf <- DistinctKeys
  MaxInFlight = 3
  MaxConns = 2
  Faults = {"read"}
  Expiries = {"deadline"}
  NoCall = NoCall  NoLine = NoLine
INVARIANTS
  TypeOK
  OneDialAtATime
  LiveSocketIsOwned
  TokensConserved
  QueueMatchesWire
  NoStrandedCall
  MatchedResponses
CHECK_DEADLOCK FALSE
