SPECIFICATION Spec
SYMMETRY Symmetry
CONSTANTS
  q1 = q1  q2 = q2  q3 = q3
  Processes = {1}
  Calls <- MCCalls
  Keys = {"user", "org"}
  Hash <- MCHash
  Requests <- MCRequests
  Sizes = {1, 2}
  MaxClock = 2
  MaxRestarts = 1
  MaxInt64 = 31
  MaxUint64 = 63
INVARIANTS
  TypeOK
  FleetBudget
  
