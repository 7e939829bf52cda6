-------------------------- MODULE MCCircuitBreaker --------------------------
(* Instances of the breaker.                                                 *)
EXTENDS BreakerRefinement, TLC

CONSTANTS t1, t2, t3, t4

OneCaller    == {t1}
FourCallers  == {t1, t2, t3, t4}
Symmetry     == Permutations(FourCallers)

=============================================================================
