---------------------------- MODULE BreakerStates ----------------------------
(***************************************************************************)
(* The circuit breaker as its doc comment describes it: closed, open, and  *)
(* half-open with one trial, each call's outcome one atomic step.          *)
(***************************************************************************)
EXTENDS Integers

CONSTANTS FailureThreshold, OpenDuration

VARIABLES mode, count, since

vars == <<mode, count, since>>

Init == mode = "closed" /\ count = 0 /\ since = OpenDuration

\* closed: failures are counted, a success forgets them.
Succeed == mode = "closed" /\ count' = 0 /\ UNCHANGED <<mode, since>>

Fail ==
  /\ mode = "closed" /\ count + 1 < FailureThreshold
  /\ count' = count + 1
  /\ UNCHANGED <<mode, since>>

Trip ==
  /\ mode = "closed" /\ count + 1 = FailureThreshold
  /\ mode' = "open" /\ count' = 0 /\ since' = 0

\* half-open: once the cooldown has elapsed one call becomes the trial.
BeginTrial ==
  /\ mode = "open" /\ since = OpenDuration
  /\ mode' = "trial"
  /\ UNCHANGED <<count, since>>

TrialSucceeds == mode = "trial" /\ mode' = "closed" /\ UNCHANGED <<count, since>>

TrialFails == mode = "trial" /\ mode' = "open" /\ since' = 0 /\ UNCHANGED count

Tick ==
  /\ since < OpenDuration /\ since' = since + 1
  /\ UNCHANGED <<mode, count>>

Next ==
  \/ Succeed \/ Fail \/ Trip
  \/ BeginTrial \/ TrialSucceeds \/ TrialFails \/ Tick

Spec == Init /\ [][Next]_vars
=============================================================================
