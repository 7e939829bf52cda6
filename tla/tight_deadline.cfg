SPECIFICATION Spec
SYMMETRY PairSymmetry
CONSTANTS
  x1 = x1  x2 = x2  x3 = x3
  Calls <- TwoCalls
  KeyOf <- SameKey
  MaxInFlight = 2
  MaxConns = 2
  Faults = {}
  Expiries = {"deadline"}
  NoCall = NoCall  NoLine = NoLine
INVARIANTS
  BlameIsDeserved
CHECK_DEADLOCK FALSE
