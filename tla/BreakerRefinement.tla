-------------------------- MODULE BreakerRefinement --------------------------
(***************************************************************************)
(* The breaker's atomics, with one caller at a time, implement the states  *)
(* its doc comment describes.                                              *)
(***************************************************************************)
EXTENDS CircuitBreaker

\* A failure takes effect when openedAtNano is stored: the flag that follows
\* it is read by nobody else.
At(l) == \E c \in Callers : pc[c] = l

Mode ==
  IF At("trip") \/ At("dropTrial") THEN "open"
  ELSE IF ~open THEN "closed"
  ELSE IF trialInFlight THEN "trial"
  ELSE "open"

Count ==
  IF Mode # "closed" THEN 0
  ELSE IF At("stamp") THEN FailureThreshold - 1
  ELSE consecutiveFailures

States == INSTANCE BreakerStates WITH mode <- Mode, count <- Count, since <- sinceOpened

\* A caller that has the breaker to itself and never gives up sees exactly the
\* documented machine: it opens at the threshold, refuses until the cooldown
\* has elapsed, and the trial's outcome closes it or restarts the cooldown.
LoneCallerSeesStates == States!Spec
=============================================================================
