---------------------------- MODULE CircuitBreaker ----------------------------
(***************************************************************************)
(* client/breaker.go under concurrent callers of shardConn.throttle: each  *)
(* atomic operation of allow, recordSuccess and recordFailure is a step of *)
(* its own.  A reading of the clock and the atomic operation it belongs to *)
(* are one step.  openedAtNano is kept as the time since it was stored.    *)
(*                                                                         *)
(* A definition under a comment that starts with "Bug:" is no part of the  *)
(* model: it is the next definition with a mistake in it, kept to show     *)
(* that some property notices.                                             *)
(***************************************************************************)
EXTENDS Integers, FiniteSets

CONSTANTS
  Callers,           \* goroutines that call throttle on this shard, again and again
  FailureThreshold,  \* failureThreshold; 0 or less disables the breaker
  OpenDuration,      \* openDuration, in clock units
  CallersGiveUp      \* whether a caller's own ctx may end before the answer

ASSUME BreakerAssumption ==
  /\ FailureThreshold \in Int /\ OpenDuration \in Nat
  /\ CallersGiveUp \in BOOLEAN
  /\ IsFiniteSet(Callers)

VARIABLES
  open, trialInFlight,
  consecutiveFailures,  \* saturates at FailureThreshold: only compared with it
  sinceOpened,          \* age of openedAtNano; saturates at OpenDuration
  pc,                   \* where each caller is
  healthy,              \* environment: from now on the shard always answers
  trials,               \* history: callers let through as a trial, not yet done
  streak, alone,        \* history: shard faults since the last undisturbed success
  lost, stray           \* history: what became of the claim of the trial

breaker == <<open, trialInFlight, consecutiveFailures, sinceOpened>>
claim   == <<lost, stray>>
history == <<streak, alone, claim>>
vars    == <<breaker, pc, healthy, trials, history>>

Saturate(n, bound) == IF n > bound THEN bound ELSE n
Cap == IF FailureThreshold > 0 THEN FailureThreshold ELSE 0

Goto(c, l) ==
  /\ pc' = [pc EXCEPT ![c] = l]
  /\ trials' = IF l = "idle" THEN trials \ {c} ELSE trials

\* c clears trialInFlight.  The claim was another's if c is no trial and some
\* trial has yet to be recorded.
ClearTrial(c) ==
  /\ trialInFlight' = FALSE
  /\ lost' = FALSE
  /\ stray' = (trials \ {c} # {} /\ (stray \/ c \notin trials))

-----------------------------------------------------------------------------
(* allow *)

LoadOpen(c) ==
  /\ pc[c] = "idle"
  /\ Goto(c, IF FailureThreshold <= 0 \/ ~open THEN "exchange" ELSE "cooldown")
  /\ alone' = IF \A d \in Callers \ {c} : pc[d] = "idle" THEN {c} ELSE {}
  /\ UNCHANGED <<breaker, healthy, streak, claim>>

LoadOpenedAt(c) ==
  /\ pc[c] = "cooldown"
  /\ Goto(c, IF sinceOpened < OpenDuration THEN "idle" ELSE "claim")
  /\ UNCHANGED <<breaker, healthy, history>>

\* Bug: whoever sees the cooldown elapsed is let through.
ClaimTrialAlways(c) ==
  /\ pc[c] = "claim"
  /\ pc' = [pc EXCEPT ![c] = "exchange"]
  /\ trialInFlight' = TRUE
  /\ trials' = trials \cup {c}
  /\ UNCHANGED <<open, consecutiveFailures, sinceOpened, healthy, history>>

\* CompareAndSwap: one caller claims the trial.
ClaimTrial(c) ==
  /\ pc[c] = "claim" /\ ~trialInFlight
  /\ pc' = [pc EXCEPT ![c] = "exchange"]
  /\ trialInFlight' = TRUE
  /\ trials' = trials \cup {c}
  /\ lost' = ~open
  /\ stray' = (stray /\ trials # {})
  /\ UNCHANGED <<open, consecutiveFailures, sinceOpened, healthy, streak, alone>>

MissTrial(c) ==
  /\ pc[c] = "claim" /\ trialInFlight
  /\ Goto(c, "idle")
  /\ UNCHANGED <<breaker, healthy, history>>

-----------------------------------------------------------------------------
(* How exchange ends, as throttle's switch tells the cases apart. *)

Answer(c) ==
  /\ pc[c] = "exchange"
  /\ Goto(c, "reset")
  /\ UNCHANGED <<breaker, healthy, history>>

ShardFault(c) ==
  /\ pc[c] = "exchange" /\ ~healthy
  /\ Goto(c, "blame")
  /\ streak' = Saturate(streak + 1, Cap)
  /\ UNCHANGED <<breaker, healthy, alone, claim>>

\* Bug: a caller's own cancel held against the shard.
GiveUpBlames(c) ==
  /\ pc[c] = "exchange" /\ CallersGiveUp
  /\ Goto(c, "blame")
  /\ UNCHANGED <<breaker, healthy, history>>

\* The caller's own ctx ended first: neither recordSuccess nor recordFailure.
GiveUp(c) ==
  /\ pc[c] = "exchange" /\ CallersGiveUp
  /\ Goto(c, "idle")
  /\ lost' = (lost \/ (c \in trials /\ trialInFlight))
  /\ UNCHANGED <<breaker, healthy, streak, alone, stray>>

-----------------------------------------------------------------------------
(* recordSuccess *)

\* Bug: a success takes one failure back instead of all.
ForgiveOne(c) ==
  /\ pc[c] = "reset"
  /\ consecutiveFailures' = consecutiveFailures - 1
  /\ Goto(c, "close")
  /\ UNCHANGED <<open, trialInFlight, sinceOpened, healthy, history>>

ResetFailures(c) ==
  /\ pc[c] = "reset"
  /\ consecutiveFailures' = 0
  /\ Goto(c, "close")
  /\ UNCHANGED <<open, trialInFlight, sinceOpened, healthy, history>>

CloseBreaker(c) ==
  /\ pc[c] = "close"
  /\ open' = FALSE
  /\ Goto(c, IF open THEN "endTrial" ELSE "idle")
  /\ streak' = IF alone = {c} THEN 0 ELSE streak
  /\ UNCHANGED <<trialInFlight, consecutiveFailures, sinceOpened, healthy, alone, claim>>

EndTrial(c) ==
  /\ pc[c] = "endTrial"
  /\ ClearTrial(c)
  /\ Goto(c, "idle")
  /\ UNCHANGED <<open, consecutiveFailures, sinceOpened, healthy, streak, alone>>

-----------------------------------------------------------------------------
(* recordFailure *)

LoadTrial(c) ==
  /\ pc[c] = "blame"
  /\ Goto(c, IF FailureThreshold <= 0 THEN "idle"
             ELSE IF trialInFlight THEN "restart" ELSE "count")
  /\ UNCHANGED <<breaker, healthy, history>>

\* Bug: a failed trial leaves the old cooldown, already over.
KeepCooldown(c) ==
  /\ pc[c] = "restart"
  /\ Goto(c, "dropTrial")
  /\ UNCHANGED <<breaker, healthy, history>>

RestartCooldown(c) ==
  /\ pc[c] = "restart"
  /\ sinceOpened' = 0
  /\ Goto(c, "dropTrial")
  /\ UNCHANGED <<open, trialInFlight, consecutiveFailures, healthy, history>>

\* Bug: a failed trial stays claimed.
KeepTrial(c) ==
  /\ pc[c] = "dropTrial"
  /\ Goto(c, "idle")
  /\ UNCHANGED <<breaker, healthy, history>>

DropTrial(c) ==
  /\ pc[c] = "dropTrial"
  /\ ClearTrial(c)
  /\ Goto(c, "idle")
  /\ UNCHANGED <<open, consecutiveFailures, sinceOpened, healthy, streak, alone>>

CountFailure(c) ==
  /\ pc[c] = "count"
  /\ consecutiveFailures' = Saturate(consecutiveFailures + 1, FailureThreshold)
  /\ Goto(c, IF consecutiveFailures + 1 >= FailureThreshold THEN "stamp" ELSE "idle")
  /\ UNCHANGED <<open, trialInFlight, sinceOpened, healthy, history>>

StampOpened(c) ==
  /\ pc[c] = "stamp"
  /\ sinceOpened' = 0
  /\ Goto(c, "trip")
  /\ UNCHANGED <<open, trialInFlight, consecutiveFailures, healthy, history>>

TripOpen(c) ==
  /\ pc[c] = "trip"
  /\ open' = TRUE
  /\ Goto(c, "idle")
  /\ UNCHANGED <<trialInFlight, consecutiveFailures, sinceOpened, healthy, history>>

-----------------------------------------------------------------------------
Tick ==
  /\ sinceOpened < OpenDuration
  /\ sinceOpened' = sinceOpened + 1
  /\ UNCHANGED <<open, trialInFlight, consecutiveFailures, pc, healthy, trials, history>>

Repair == ~healthy /\ healthy' = TRUE /\ UNCHANGED <<breaker, pc, trials, history>>

Init ==
  /\ open = FALSE /\ trialInFlight = FALSE
  /\ consecutiveFailures = 0
  /\ sinceOpened = OpenDuration      \* openedAtNano = 0: the epoch
  /\ pc = [c \in Callers |-> "idle"]
  /\ healthy = FALSE
  /\ trials = {} /\ streak = 0 /\ alone = {} /\ lost = FALSE /\ stray = FALSE

Step(c) ==
  \/ LoadOpen(c) \/ LoadOpenedAt(c) \/ ClaimTrial(c) \/ MissTrial(c)
  \/ Answer(c) \/ ShardFault(c) \/ GiveUp(c)
  \/ ResetFailures(c) \/ CloseBreaker(c) \/ EndTrial(c)
  \/ LoadTrial(c) \/ RestartCooldown(c) \/ DropTrial(c)
  \/ CountFailure(c) \/ StampOpened(c) \/ TripOpen(c)

Next == Tick \/ Repair \/ \E c \in Callers : Step(c)

Spec == Init /\ [][Next]_vars

\* Time passes, callers keep calling, and every exchange ends: it is bounded
\* by the client's own timeout.
FairSpec == Spec /\ WF_vars(Tick) /\ \A c \in Callers : WF_vars(Step(c))

-----------------------------------------------------------------------------
TypeOK ==
  /\ open \in BOOLEAN /\ trialInFlight \in BOOLEAN /\ healthy \in BOOLEAN
  /\ consecutiveFailures \in 0..Cap
  /\ sinceOpened \in 0..OpenDuration
  /\ pc \in [Callers -> {"idle", "cooldown", "claim", "exchange", "reset", "close",
                         "endTrial", "blame", "restart", "dropTrial", "count",
                         "stamp", "trip"}]
  /\ trials \in SUBSET Callers /\ alone \in SUBSET Callers
  /\ streak \in 0..Cap /\ lost \in BOOLEAN /\ stray \in BOOLEAN

\* Whatever the interleaving of callers, the breaker is open only if
\* FailureThreshold calls failed on the shard since the last success that no
\* other call overlapped: callers that give up never open it, and such a
\* success always leaves it closed with nothing counted.
OpenNeedsFaults == open => streak >= FailureThreshold /\ FailureThreshold > 0

\* Once the shard always answers, the breaker closes and stays closed.
Recovers == (<>healthy) => <>[](~open)

\* The trial is exactly one at a time.
AtMostOneTrial == Cardinality(trials) <= 1

\* The one way to two trials at once: recordFailure or recordSuccess of a call
\* that is no trial cleared the claim of a trial that is still on its way.
OverlapNeedsStraggler == ~AtMostOneTrial => stray

\* Without a call in flight the breaker can still let a trial through: open,
\* it does not believe in a trial that nobody is making.
NeverWedged ==
  (\A c \in Callers : pc[c] = "idle") => ~(open /\ trialInFlight)

\* The two ways to a claim that nobody is left to clear: its caller gave up,
\* or the breaker had closed when it was made.  However trials and stragglers
\* end otherwise, a claim has a trial behind it or is about to be cleared.
ClaimHasOwner ==
  trialInFlight => \/ trials # {}
                   \/ \E c \in Callers : pc[c] \in {"endTrial", "restart", "dropTrial"}
                   \/ lost
=============================================================================
