----------------------------- MODULE MCThrottler -----------------------------
(* Small instances of the in-memory throttler.                               *)
EXTENDS ThrottlerRefinement, TLC

CONSTANTS c1, c2, b1, b2, b3

Shape(cap, u, p) == [capacity |-> cap, units |-> u, period |-> p]
Ask(k, l, n, pk) == [key |-> k, limit |-> l, cost |-> n, peek |-> pk]

MCCalls   == {c1, c2}
MCBuckets == {b1, b2, b3}
MCFewBuckets == {b1, b2}
Symmetry  == Permutations(MCCalls) \cup Permutations(MCBuckets)
FewSymmetry == Permutations(MCCalls) \cup Permutations(MCFewBuckets)

\* The two keys live on different stripes; one key has a stripe for itself.
TwoStripes == [k \in {1, 2} |-> k]
OneStripe  == [k \in {1} |-> 1]

Brisk == Shape(2, 2, 1)

\* Two keys in both orders, one key twice, a peek beside a real entry and one
\* alone, groups whose second entry may be refused after the first was
\* admitted; with bursts that drain within GCInterval less a call's time, so
\* that dropping a key is invisible.
Tight == Shape(1, 1, 1)
DrainedRequests ==
  {<<Ask(1, Tight, 1, FALSE), Ask(2, Brisk, 1, FALSE)>>,
   <<Ask(2, Brisk, 2, FALSE), Ask(1, Tight, 0, FALSE)>>,
   <<Ask(2, Brisk, 1, FALSE), Ask(2, Brisk, 1, FALSE)>>,
   <<Ask(1, Tight, 1, TRUE), Ask(2, Brisk, 2, FALSE)>>,
   <<Ask(2, Brisk, 1, TRUE)>>}

\* Calls that lock the two keys in the orders a deadlock would need.
CrossedRequests ==
  {<<Ask(1, Tight, 1, FALSE), Ask(2, Tight, 1, FALSE)>>,
   <<Ask(2, Tight, 1, FALSE), Ask(1, Tight, 1, FALSE)>>,
   <<Ask(2, Tight, 1, TRUE)>>}

\* What was spent in each window is read by no action, and only by
\* RateConformance.
WithoutSpent == <<clock, hot, cold, tat, owner, gcDue, gcAt, callVars, age>>

\* One key, costs up to the whole capacity, for the rate over long windows.
OneKeyRequests == {<<Ask(1, Brisk, 2, FALSE)>>, <<Ask(1, Brisk, 1, FALSE)>>}
=============================================================================
