---------------------------- MODULE BreakerProofs ----------------------------
(***************************************************************************)
(* The circuit breaker for any number of callers, any threshold and any    *)
(* cooldown: what opens it, how trials come to overlap, who owns a claim.  *)
(***************************************************************************)
EXTENDS BreakerRefinement, FiniteSetTheorems, TLAPS

Labels == {"idle", "cooldown", "claim", "exchange", "reset", "close", "endTrial",
           "blame", "restart", "dropTrial", "count", "stamp", "trip"}

\* With the breaker disabled nobody gets past the first test of allow and of
\* recordFailure.
Enabled ==
  \A c \in Callers :
    pc[c] \in {"cooldown", "claim", "restart", "dropTrial", "count", "stamp", "trip"} =>
      FailureThreshold > 0

\* The types, and which labels a disabled breaker rules out.
TypeInv == TypeOK /\ Enabled

\* The fields of the breaker and its history start well typed.
LEMMA TypeInvInit == Init => TypeInv
  <1> SUFFICES ASSUME Init PROVE TypeInv
    OBVIOUS
  <1>1. open \in BOOLEAN /\ trialInFlight \in BOOLEAN /\ healthy \in BOOLEAN
    BY DEF Init
  <1>2. consecutiveFailures \in 0..Cap /\ streak \in 0..Cap
    BY BreakerAssumption DEF Init, Cap
  <1>3. sinceOpened \in 0..OpenDuration
    BY BreakerAssumption DEF Init
  <1>4. lost \in BOOLEAN /\ stray \in BOOLEAN
    BY DEF Init
  <1>5. trials \in SUBSET Callers /\ alone \in SUBSET Callers /\ Enabled
    BY DEF Init, Enabled
  <1>6. pc \in [Callers -> Labels]
    BY DEF Init, Labels
  <1> QED BY <1>1, <1>2, <1>3, <1>4, <1>5, <1>6 DEF TypeInv, TypeOK, Labels

\* Every atomic operation keeps the types.
LEMMA TypeInvStep == TypeInv /\ [Next]_vars => TypeInv'
  <1> SUFFICES ASSUME TypeInv, [Next]_vars PROVE TypeInv'
    OBVIOUS
  <1> USE BreakerAssumption DEF TypeInv, TypeOK, Enabled, breaker, claim, history, Cap
  <1>1. CASE Tick
    BY <1>1 DEF Tick
  <1>2. CASE Repair
    BY <1>2 DEF Repair
  <1>3. ASSUME NEW c \in Callers, Step(c) PROVE TypeInv'
    <2>1. CASE LoadOpen(c)
      BY <2>1 DEF LoadOpen, Goto
    <2>2. CASE LoadOpenedAt(c)
      BY <2>2 DEF LoadOpenedAt, Goto
    <2>3. CASE ClaimTrial(c) \/ MissTrial(c)
      BY <2>3 DEF ClaimTrial, MissTrial, Goto
    <2>4. CASE Answer(c)
      BY <2>4 DEF Answer, Goto
    <2>11. CASE GiveUp(c)
      <3>1. lost' \in BOOLEAN
        BY <2>11, Zenon DEF GiveUp
      <3> QED BY <2>11, <3>1 DEF GiveUp, Goto
    <2>5. CASE ShardFault(c)
      BY <2>5 DEF ShardFault, Goto, Saturate
    <2>6. CASE ResetFailures(c)
      BY <2>6 DEF ResetFailures, Goto
    <2>12. CASE CloseBreaker(c)
      <3>1. open' \in BOOLEAN
        BY <2>12, Zenon DEF CloseBreaker
      <3> QED BY <2>12, <3>1 DEF CloseBreaker, Goto
    <2>7. CASE EndTrial(c) \/ DropTrial(c)
      <3>1. lost' \in BOOLEAN /\ stray' \in BOOLEAN /\ trialInFlight' \in BOOLEAN
        BY <2>7, Zenon DEF EndTrial, DropTrial, ClearTrial
      <3> QED BY <2>7, <3>1 DEF EndTrial, DropTrial, ClearTrial, Goto
    <2>8. CASE LoadTrial(c) \/ RestartCooldown(c)
      BY <2>8 DEF LoadTrial, RestartCooldown, Goto
    <2>9. CASE CountFailure(c)
      BY <2>9 DEF CountFailure, Goto, Saturate
    <2>10. CASE StampOpened(c)
      BY <2>10 DEF StampOpened, Goto
    <2>13. CASE TripOpen(c)
      <3>1. open' \in BOOLEAN
        BY <2>13, Zenon DEF TripOpen
      <3> QED BY <2>13, <3>1 DEF TripOpen, Goto
    <2> QED BY <1>3, <2>1, <2>2, <2>3, <2>4, <2>5, <2>6, <2>7, <2>8, <2>9, <2>10, <2>11,
              <2>12, <2>13 DEF Step
  <1>4. CASE UNCHANGED vars
    BY <1>4 DEF vars
  <1> QED BY <1>1, <1>2, <1>3, <1>4 DEF Next

\* The types hold in every behaviour of the breaker.
LEMMA TypeInvariant == Spec => []TypeInv
  BY TypeInvInit, TypeInvStep, PTL DEF Spec

\* Whatever the interleaving of its atomics, the breaker's counters stay within
\* their bounds.
THEOREM BreakerTypeCorrect == Spec => []TypeOK
  <1>1. TypeInv => TypeOK
    BY DEF TypeInv
  <1> QED BY <1>1, TypeInvariant, PTL

-----------------------------------------------------------------------------
(* What opens the breaker *)

\* Failed calls that consecutiveFailures may yet count.
Counting == {c \in Callers : pc[c] \in {"blame", "count"}}

\* What has been counted and what may yet be is covered by the faults seen.
CountedFaults ==
  streak = Cap \/ consecutiveFailures + Cardinality(Counting) <= streak

\* A caller past the threshold saw that many faults.
TripIsDue ==
  \A c \in Callers : pc[c] \in {"stamp", "trip"} => streak >= FailureThreshold

\* alone names a caller that has had the breaker to itself since its allow.
AloneMeansAlone ==
  \A c \in Callers : alone = {c} =>
    /\ \A d \in Callers \ {c} : pc[d] = "idle"
    /\ pc[c] = "close" => consecutiveFailures = 0

FaultInv ==
  TypeInv /\ CountedFaults /\ TripIsDue /\ AloneMeansAlone /\ OpenNeedsFaults

\* Nothing has failed and nobody counts at the start.
LEMMA FaultInvInit == Init => FaultInv
  <1> SUFFICES ASSUME Init PROVE FaultInv
    OBVIOUS
  <1>1. TypeInv
    BY TypeInvInit
  <1>2. Counting = {}
    BY DEF Init, Counting
  <1>3. CountedFaults
    BY <1>2, FS_EmptySet DEF Init, CountedFaults
  <1>4. TripIsDue /\ AloneMeansAlone /\ OpenNeedsFaults
    BY DEF Init, TripIsDue, AloneMeansAlone, OpenNeedsFaults
  <1> QED BY <1>1, <1>3, <1>4 DEF FaultInv

\* How the set of callers that may yet be counted changes with one label.
LEMMA CountingStep ==
  ASSUME TypeInv, NEW c \in Callers, NEW l \in Labels, pc' = [pc EXCEPT ![c] = l]
  PROVE  /\ Cardinality(Counting) \in Nat /\ Cardinality(Counting') \in Nat
         /\ l \in {"blame", "count"} /\ c \notin Counting =>
              Cardinality(Counting') = Cardinality(Counting) + 1
         /\ l \in {"blame", "count"} /\ c \in Counting =>
              Cardinality(Counting') = Cardinality(Counting)
         /\ l \notin {"blame", "count"} /\ c \in Counting =>
              Cardinality(Counting') = Cardinality(Counting) - 1
         /\ l \notin {"blame", "count"} /\ c \notin Counting =>
              Cardinality(Counting') = Cardinality(Counting)
  <1>1. IsFiniteSet(Counting) /\ IsFiniteSet(Counting')
    BY BreakerAssumption, FS_Subset DEF Counting
  <1>2. pc \in [Callers -> Labels]
    BY DEF TypeInv, TypeOK, Labels
  <1>3. Counting' = IF l \in {"blame", "count"} THEN Counting \cup {c} ELSE Counting \ {c}
    BY <1>2 DEF Counting
  <1>4. Cardinality(Counting) \in Nat /\ Cardinality(Counting') \in Nat
    BY <1>1, FS_CardinalityType
  <1>5. Cardinality(Counting \cup {c}) =
          IF c \in Counting THEN Cardinality(Counting) ELSE Cardinality(Counting) + 1
    BY <1>1, FS_AddElement
  <1>6. Cardinality(Counting \ {c}) =
          IF c \in Counting THEN Cardinality(Counting) - 1 ELSE Cardinality(Counting)
    BY <1>1, FS_RemoveElement
  <1> HIDE DEF Counting
  <1> QED BY <1>3, <1>4, <1>5, <1>6

\* Only recordFailure after a shard's fault adds to the count, and a success
\* that nobody overlaps leaves nothing behind.
LEMMA FaultInvStep == FaultInv /\ [Next]_vars => FaultInv'
  <1> SUFFICES ASSUME FaultInv, [Next]_vars PROVE FaultInv'
    OBVIOUS
  <1>0. TypeInv'
    BY TypeInvStep DEF FaultInv
  <1> USE DEF breaker, claim, history
  <1>1. CASE Tick \/ Repair \/ UNCHANGED vars
    BY <1>0, <1>1 DEF Tick, Repair, vars, FaultInv, CountedFaults, TripIsDue,
                      AloneMeansAlone, OpenNeedsFaults, Counting
  <1>2. ASSUME NEW c \in Callers, Step(c) PROVE FaultInv'
    <2>1. /\ pc \in [Callers -> Labels] /\ streak \in 0..Cap /\ streak' \in 0..Cap
          /\ consecutiveFailures \in 0..Cap /\ consecutiveFailures' \in 0..Cap
          /\ FailureThreshold \in Int /\ Cap \in Nat
          /\ FailureThreshold > 0 => Cap = FailureThreshold
      BY <1>0, BreakerAssumption DEF FaultInv, TypeInv, TypeOK, Labels, Cap
    <2>2. PICK l \in Labels : Goto(c, l) \/ (l = "exchange" /\ ClaimTrial(c))
      BY <1>2 DEF Step, Labels, LoadOpen, LoadOpenedAt, MissTrial, Answer, ShardFault,
                  GiveUp, ResetFailures, CloseBreaker, EndTrial, LoadTrial,
                  RestartCooldown, DropTrial, CountFailure, StampOpened, TripOpen
    <2>3. pc' = [pc EXCEPT ![c] = l]
      BY <2>2 DEF Goto, ClaimTrial
    <2>4. Cardinality(Counting) \in Nat /\ Cardinality(Counting') \in Nat
      BY <2>3, CountingStep DEF FaultInv
    <2> DEFINE quiet == /\ UNCHANGED <<open, streak, consecutiveFailures, alone>>
                        /\ pc[c] \notin {"idle", "blame", "count"}
                        /\ l \notin {"blame", "count", "stamp", "trip", "close"}
    <2>5. CASE quiet
      <3>1. CountedFaults'
        BY <2>1, <2>3, <2>5, CountingStep DEF FaultInv, CountedFaults, Counting, Cap
      <3>2. TripIsDue' /\ OpenNeedsFaults'
        BY <2>1, <2>3, <2>5 DEF FaultInv, TripIsDue, OpenNeedsFaults
      <3>3. AloneMeansAlone'
        BY <2>1, <2>3, <2>5 DEF FaultInv, AloneMeansAlone
      <3> QED BY <1>0, <3>1, <3>2, <3>3 DEF FaultInv
    <2>6. CASE LoadOpen(c)
      <3>1. /\ l \in {"exchange", "cooldown"} /\ c \notin Counting
            /\ UNCHANGED <<open, streak, consecutiveFailures>>
        BY <2>1, <2>3, <2>6 DEF LoadOpen, Goto, Counting
      <3>2. CountedFaults'
        BY <2>1, <2>3, <3>1, CountingStep DEF FaultInv, CountedFaults, Cap
      <3>3. TripIsDue' /\ OpenNeedsFaults'
        BY <2>1, <2>3, <3>1 DEF FaultInv, TripIsDue, OpenNeedsFaults
      <3>4. AloneMeansAlone'
        BY <2>1, <2>3, <2>6, <3>1 DEF LoadOpen, AloneMeansAlone
      <3> QED BY <1>0, <3>2, <3>3, <3>4 DEF FaultInv
    <2>7. CASE ShardFault(c)
      <3>1. /\ l = "blame" /\ pc[c] = "exchange" /\ c \notin Counting
            /\ UNCHANGED <<open, consecutiveFailures, alone>>
            /\ streak' = Saturate(streak + 1, Cap)
        BY <2>1, <2>3, <2>7 DEF ShardFault, Goto, Counting
      <3>5. Cardinality(Counting') = Cardinality(Counting) + 1
        BY <2>3, <3>1, CountingStep DEF FaultInv
      <3>2. CountedFaults' /\ streak' >= streak
        BY <2>1, <2>4, <3>1, <3>5 DEF FaultInv, CountedFaults, Saturate, Cap
      <3>3. TripIsDue' /\ OpenNeedsFaults'
        BY <2>1, <2>3, <3>1, <3>2 DEF FaultInv, TripIsDue, OpenNeedsFaults
      <3>4. AloneMeansAlone'
        BY <2>1, <2>3, <3>1 DEF FaultInv, AloneMeansAlone
      <3> QED BY <1>0, <3>2, <3>3, <3>4 DEF FaultInv
    <2>8. CASE ResetFailures(c)
      <3>1. /\ l = "close" /\ pc[c] = "reset" /\ c \notin Counting
            /\ UNCHANGED <<open, streak, alone>> /\ consecutiveFailures' = 0
        BY <2>1, <2>3, <2>8 DEF ResetFailures, Goto, Counting
      <3>5. Cardinality(Counting') = Cardinality(Counting)
        BY <2>3, <3>1, CountingStep DEF FaultInv
      <3>2. CountedFaults'
        BY <2>1, <2>4, <3>1, <3>5 DEF FaultInv, CountedFaults, Cap
      <3>3. TripIsDue' /\ OpenNeedsFaults'
        BY <2>1, <2>3, <3>1 DEF FaultInv, TripIsDue, OpenNeedsFaults
      <3>4. AloneMeansAlone'
        BY <2>1, <2>3, <3>1 DEF FaultInv, AloneMeansAlone
      <3> QED BY <1>0, <3>2, <3>3, <3>4 DEF FaultInv
    <2>9. CASE CloseBreaker(c)
      <3>1. /\ l \in {"endTrial", "idle"} /\ pc[c] = "close" /\ c \notin Counting
            /\ open' = FALSE /\ UNCHANGED <<consecutiveFailures, alone>>
            /\ streak' = IF alone = {c} THEN 0 ELSE streak
        BY <2>1, <2>3, <2>9 DEF CloseBreaker, Goto, Counting
      <3>2. OpenNeedsFaults'
        BY <3>1 DEF OpenNeedsFaults
      <3>3. AloneMeansAlone'
        BY <2>1, <2>3, <3>1 DEF FaultInv, AloneMeansAlone
      <3>4. CASE alone # {c}
        <4>1. CountedFaults'
          BY <2>1, <2>3, <3>1, <3>4, CountingStep DEF FaultInv, CountedFaults, Cap
        <4>2. TripIsDue'
          BY <2>1, <2>3, <3>1, <3>4 DEF FaultInv, TripIsDue
        <4> QED BY <1>0, <3>2, <3>3, <4>1, <4>2 DEF FaultInv
      <3>5. CASE alone = {c}
        <4>1. \A d \in Callers \ {c} : pc[d] = "idle"
          BY <3>5 DEF FaultInv, AloneMeansAlone
        <4>2. consecutiveFailures' = 0
          BY <3>1, <3>5 DEF FaultInv, AloneMeansAlone
        <4>3. Counting' = {} /\ TripIsDue'
          BY <2>1, <2>3, <3>1, <4>1 DEF Counting, TripIsDue
        <4>4. CountedFaults'
          BY <3>1, <3>5, <4>2, <4>3, FS_EmptySet DEF CountedFaults
        <4> QED BY <1>0, <3>2, <3>3, <4>3, <4>4 DEF FaultInv
      <3> QED BY <3>4, <3>5
    <2>10. CASE LoadTrial(c)
      <3>1. /\ l \in {"idle", "restart", "count"} /\ pc[c] = "blame" /\ c \in Counting
            /\ UNCHANGED <<open, streak, consecutiveFailures, alone>>
        BY <2>1, <2>3, <2>10 DEF LoadTrial, Goto, Counting
      <3>5. \/ Cardinality(Counting') = Cardinality(Counting)
            \/ Cardinality(Counting') = Cardinality(Counting) - 1
        BY <2>3, <3>1, CountingStep DEF FaultInv
      <3>2. CountedFaults'
        BY <2>1, <2>4, <3>1, <3>5 DEF FaultInv, CountedFaults, Cap
      <3>3. TripIsDue' /\ OpenNeedsFaults'
        BY <2>1, <2>3, <3>1 DEF FaultInv, TripIsDue, OpenNeedsFaults
      <3>4. AloneMeansAlone'
        BY <2>1, <2>3, <3>1 DEF FaultInv, AloneMeansAlone
      <3> QED BY <1>0, <3>2, <3>3, <3>4 DEF FaultInv
    <2>11. CASE CountFailure(c)
      <3>1. /\ pc[c] = "count" /\ c \in Counting
            /\ UNCHANGED <<open, streak, alone>>
            /\ consecutiveFailures' = Saturate(consecutiveFailures + 1, FailureThreshold)
            /\ l = IF consecutiveFailures + 1 >= FailureThreshold THEN "stamp" ELSE "idle"
        BY <2>1, <2>3, <2>11 DEF CountFailure, Goto, Counting
      <3>2. FailureThreshold > 0
        BY <3>1 DEF FaultInv, TypeInv, Enabled
      <3>3. Counting # {} /\ IsFiniteSet(Counting)
        BY <3>1, BreakerAssumption, FS_Subset DEF Counting
      <3>4. Cardinality(Counting) >= 1
        BY <2>4, <3>3, FS_EmptySet
      <3>9. Cardinality(Counting') = Cardinality(Counting) - 1
        BY <2>3, <3>1, CountingStep DEF FaultInv
      <3>5. CountedFaults'
        BY <2>1, <2>4, <3>1, <3>2, <3>9 DEF FaultInv, CountedFaults, Saturate, Cap
      <3>6. l = "stamp" => streak >= FailureThreshold
        BY <2>1, <2>4, <3>1, <3>2, <3>4 DEF FaultInv, CountedFaults
      <3>7. TripIsDue' /\ OpenNeedsFaults'
        BY <2>1, <2>3, <3>1, <3>6 DEF FaultInv, TripIsDue, OpenNeedsFaults
      <3>8. AloneMeansAlone'
        BY <2>1, <2>3, <3>1 DEF FaultInv, AloneMeansAlone
      <3> QED BY <1>0, <3>5, <3>7, <3>8 DEF FaultInv
    <2>12. CASE StampOpened(c) \/ TripOpen(c)
      <3>1. /\ pc[c] \in {"stamp", "trip"} /\ c \notin Counting
            /\ l \in {"trip", "idle"}
            /\ UNCHANGED <<streak, consecutiveFailures, alone>>
        BY <2>1, <2>3, <2>12 DEF StampOpened, TripOpen, Goto, Counting
      <3>2. streak >= FailureThreshold /\ FailureThreshold > 0
        BY <3>1 DEF FaultInv, TripIsDue, TypeInv, Enabled
      <3>3. CountedFaults'
        BY <2>1, <2>3, <3>1, CountingStep DEF FaultInv, CountedFaults, Cap
      <3>4. TripIsDue' /\ OpenNeedsFaults'
        BY <2>1, <2>3, <3>1, <3>2 DEF FaultInv, TripIsDue, OpenNeedsFaults
      <3>5. AloneMeansAlone'
        BY <2>1, <2>3, <3>1 DEF FaultInv, AloneMeansAlone
      <3> QED BY <1>0, <3>3, <3>4, <3>5 DEF FaultInv
    <2>13. CASE \/ LoadOpenedAt(c) \/ ClaimTrial(c) \/ MissTrial(c) \/ Answer(c) \/ GiveUp(c)
                \/ EndTrial(c) \/ RestartCooldown(c) \/ DropTrial(c)
      <3>1. quiet
        BY <2>1, <2>2, <2>3, <2>13
           DEF LoadOpenedAt, ClaimTrial, MissTrial, Answer, GiveUp, EndTrial,
               RestartCooldown, DropTrial, Goto, Labels
      <3> QED BY <2>5, <3>1
    <2> QED BY <1>2, <2>6, <2>7, <2>8, <2>9, <2>10, <2>11, <2>12, <2>13 DEF Step
  <1> QED BY <1>1, <1>2 DEF Next

\* However callers interleave, the breaker opens only after FailureThreshold
\* faults of the shard since the last success nobody overlapped; a caller that
\* gives up never adds to them.
THEOREM OnlyFaultsOpen == Spec => []OpenNeedsFaults
  <1>1. FaultInv => OpenNeedsFaults
    BY DEF FaultInv
  <1> QED BY <1>1, FaultInvInit, FaultInvStep, PTL DEF Spec

-----------------------------------------------------------------------------
(* Trials that overlap *)

\* Two trials, or a trial without a claim, only after a straggler cleared one.
TrialInv ==
  /\ TypeInv
  /\ \A c, d \in trials : c # d => stray
  /\ (~trialInFlight /\ trials # {}) => stray

\* There is no trial at the start.
LEMMA TrialInvInit == Init => TrialInv
  BY TypeInvInit DEF Init, TrialInv

\* Only ClearTrial takes a claim away from a trial, and stray remembers it.
LEMMA TrialInvStep == TrialInv /\ [Next]_vars => TrialInv'
  <1> SUFFICES ASSUME TrialInv, [Next]_vars PROVE TrialInv'
    OBVIOUS
  <1>0. TypeInv'
    BY TypeInvStep DEF TrialInv
  <1>1. CASE UNCHANGED <<trialInFlight, trials, stray>>
    BY <1>0, <1>1 DEF TrialInv
  <1>2. ASSUME NEW c \in Callers, UNCHANGED <<trialInFlight, stray>>, trials' = trials \ {c}
        PROVE  TrialInv'
    BY <1>0, <1>2 DEF TrialInv
  <1>3. ASSUME NEW c \in Callers, NEW l, Goto(c, l), UNCHANGED <<trialInFlight, stray>>
        PROVE  TrialInv'
    BY <1>1, <1>2, <1>3 DEF Goto
  <1>4. ASSUME NEW c \in Callers, ClaimTrial(c) PROVE TrialInv'
    <2>1. trials' = trials \cup {c} /\ ~trialInFlight /\ trialInFlight'
      BY <1>4 DEF ClaimTrial
    <2>2. stray' <=> (stray /\ trials # {})
      BY <1>4 DEF ClaimTrial
    <2> QED BY <1>0, <2>1, <2>2 DEF TrialInv
  <1>5. ASSUME NEW c \in Callers, ClearTrial(c), Goto(c, "idle") PROVE TrialInv'
    <2>1. trials' = trials \ {c} /\ ~trialInFlight'
      BY <1>5 DEF ClearTrial, Goto
    <2>2. stray' <=> (trials \ {c} # {} /\ (stray \/ c \notin trials))
      BY <1>5 DEF ClearTrial
    <2>3. trials \ {c} # {} /\ c \in trials => stray
      BY DEF TrialInv
    <2>4. trials' # {} => stray'
      BY <2>1, <2>2, <2>3
    <2>5. \A b, d \in trials' : stray'
      BY <2>4
    <2> QED BY <1>0, <2>4, <2>5 DEF TrialInv
  <1>6. ASSUME NEW c \in Callers, Step(c) PROVE TrialInv'
    <2> USE DEF breaker, claim, history
    <2>1. CASE LoadOpen(c) \/ LoadOpenedAt(c) \/ MissTrial(c) \/ Answer(c)
      BY <1>3, <2>1 DEF LoadOpen, LoadOpenedAt, MissTrial, Answer
    <2>2. CASE ShardFault(c) \/ GiveUp(c) \/ ResetFailures(c) \/ CloseBreaker(c)
      BY <1>3, <2>2 DEF ShardFault, GiveUp, ResetFailures, CloseBreaker
    <2>3. CASE LoadTrial(c) \/ RestartCooldown(c) \/ CountFailure(c)
      BY <1>3, <2>3 DEF LoadTrial, RestartCooldown, CountFailure
    <2>4. CASE StampOpened(c) \/ TripOpen(c)
      BY <1>3, <2>4 DEF StampOpened, TripOpen
    <2>5. CASE EndTrial(c) \/ DropTrial(c)
      BY <1>5, <2>5 DEF EndTrial, DropTrial
    <2> QED BY <1>4, <1>6, <2>1, <2>2, <2>3, <2>4, <2>5 DEF Step
  <1> QED
    BY <1>1, <1>6 DEF Next, Tick, Repair, vars, breaker, claim, history

\* Two trials are on their way at once only after recordFailure or
\* recordSuccess of a call that was no trial cleared the claim of one.
THEOREM OverlapsAreExplained == Spec => []OverlapNeedsStraggler
  <1>1. TrialInv => OverlapNeedsStraggler
    <2> SUFFICES ASSUME TrialInv, ~stray PROVE AtMostOneTrial
      BY DEF OverlapNeedsStraggler
    <2>1. \A c, d \in trials : c = d
      BY DEF TrialInv
    <2>2. trials = {} \/ \E c : trials = {c}
      BY <2>1
    <2>3. Cardinality(trials) = 0 \/ Cardinality(trials) = 1
      BY <2>2, FS_EmptySet, FS_Singleton
    <2> QED BY <2>3 DEF AtMostOneTrial
  <1> QED BY <1>1, TrialInvInit, TrialInvStep, PTL DEF Spec

-----------------------------------------------------------------------------
(* Who is left to clear a claim *)

\* A trial is past allow, and the breaker is not disabled.
TrialsAreUnderway ==
  \A c \in trials : FailureThreshold > 0 /\ pc[c] \notin {"idle", "cooldown", "claim"}

\* Somebody is about to clear the claim.
Clearing == \E c \in Callers : pc[c] \in {"endTrial", "restart", "dropTrial"}

\* A trial that will find its own claim when it is recorded: one that counts
\* its failure instead has found the claim gone.
Deciding == \E c \in trials : pc[c] \in {"exchange", "reset", "close", "blame"}

ClaimInv ==
  /\ TypeInv /\ TrialsAreUnderway
  /\ trialInFlight => Deciding \/ Clearing \/ lost
  /\ (trialInFlight /\ ~open) => lost \/ \E c \in Callers : pc[c] = "endTrial"

\* Nothing is claimed at the start.
LEMMA ClaimInvInit == Init => ClaimInv
  BY TypeInvInit DEF Init, ClaimInv, TrialsAreUnderway

\* A claim passes from the trial to the call that clears it, or is lost.
LEMMA ClaimInvStep == ClaimInv /\ [Next]_vars => ClaimInv'
  <1> SUFFICES ASSUME ClaimInv, [Next]_vars PROVE ClaimInv'
    OBVIOUS
  <1>0. TypeInv' /\ pc \in [Callers -> Labels] /\ trials \subseteq Callers
    BY TypeInvStep DEF ClaimInv, TypeInv, TypeOK, Labels
  <1> USE DEF breaker, claim, history
  <1>1. CASE Tick \/ Repair \/ UNCHANGED vars
    BY <1>0, <1>1 DEF Tick, Repair, vars, ClaimInv, TrialsAreUnderway, Clearing, Deciding
  <1>2. ASSUME NEW c \in Callers, Step(c) PROVE ClaimInv'
    <2> USE DEF ClaimInv, TrialsAreUnderway, Clearing, Deciding, Goto
    <2>1. CASE LoadOpen(c)
      BY <1>0, <2>1 DEF LoadOpen
    <2>2. CASE LoadOpenedAt(c)
      BY <1>0, <2>2, BreakerAssumption DEF LoadOpenedAt
    <2>3. CASE ClaimTrial(c)
      BY <1>0, <2>3 DEF ClaimTrial, TypeInv, Enabled
    <2>4. CASE MissTrial(c)
      BY <1>0, <2>4 DEF MissTrial
    <2>5. CASE Answer(c)
      BY <1>0, <2>5 DEF Answer
    <2>6. CASE ShardFault(c)
      BY <1>0, <2>6 DEF ShardFault
    <2>7. CASE GiveUp(c)
      BY <1>0, <2>7 DEF GiveUp
    <2>8. CASE ResetFailures(c)
      BY <1>0, <2>8 DEF ResetFailures
    <2>9. CASE CloseBreaker(c)
      BY <1>0, <2>9 DEF CloseBreaker
    <2>10. CASE EndTrial(c) \/ DropTrial(c)
      BY <1>0, <2>10 DEF EndTrial, DropTrial, ClearTrial
    <2>11. CASE LoadTrial(c)
      BY <1>0, <2>11, BreakerAssumption DEF LoadTrial
    <2>12. CASE RestartCooldown(c)
      BY <1>0, <2>12 DEF RestartCooldown
    <2>13. CASE CountFailure(c)
      BY <1>0, <2>13 DEF CountFailure
    <2>14. CASE StampOpened(c) \/ TripOpen(c)
      BY <1>0, <2>14 DEF StampOpened, TripOpen
    <2> QED BY <1>2, <2>1, <2>2, <2>3, <2>4, <2>5, <2>6, <2>7, <2>8, <2>9, <2>10, <2>11,
               <2>12, <2>13, <2>14 DEF Step
  <1> QED BY <1>1, <1>2 DEF Next

\* A claim nobody is left to clear goes back to a caller that gave up, or to a
\* claim made on a breaker that had already closed.
THEOREM ClaimsAreOwned == Spec => []ClaimHasOwner
  <1>1. ClaimInv => ClaimHasOwner
    BY DEF ClaimInv, ClaimHasOwner, Clearing, Deciding
  <1> QED BY <1>1, ClaimInvInit, ClaimInvStep, PTL DEF Spec

-----------------------------------------------------------------------------
(* One caller at a time: the states of the doc comment *)

\* Where the lone caller c is decides what the flags say.
Lone(c) ==
  /\ open => FailureThreshold > 0
  /\ pc[c] \in {"idle", "cooldown", "claim", "count", "stamp", "trip"} => ~trialInFlight
  /\ pc[c] \in {"cooldown", "claim"} => open
  /\ pc[c] = "claim" => sinceOpened = OpenDuration
  /\ pc[c] \in {"exchange", "reset", "close", "blame"} => (trialInFlight <=> open)
  /\ pc[c] = "close" => consecutiveFailures = 0
  /\ pc[c] = "endTrial" => ~open /\ consecutiveFailures = 0
  /\ pc[c] \in {"restart", "dropTrial"} => open /\ trialInFlight
  /\ pc[c] \in {"count", "stamp", "trip"} => ~open
  /\ (~open /\ FailureThreshold > 0 /\ pc[c] \notin {"stamp", "trip"}) =>
       consecutiveFailures < FailureThreshold

LoneInv(c) == TypeInv /\ Lone(c)

\* The start is a lone caller's start.
LEMMA LoneInit ==
  ASSUME NEW c, Callers = {c}, Init
  PROVE  LoneInv(c)
  <1>1. TypeInv
    BY TypeInvInit
  <1>2. pc[c] = "idle" /\ ~open /\ ~trialInFlight /\ consecutiveFailures = 0
    BY DEF Init
  <1> QED BY <1>1, <1>2 DEF LoneInv, Lone

\* Without anybody else and without giving up, the flags follow the caller.
LEMMA LoneStep ==
  ASSUME NEW c, Callers = {c}, ~CallersGiveUp, LoneInv(c), [Next]_vars
  PROVE  LoneInv(c)'
  <1>0. /\ TypeInv' /\ pc \in [Callers -> Labels] /\ c \in Callers
        /\ consecutiveFailures \in 0..Cap /\ sinceOpened \in 0..OpenDuration
        /\ OpenDuration \in Nat /\ FailureThreshold \in Int
    BY TypeInvStep, BreakerAssumption DEF LoneInv, TypeInv, TypeOK, Labels
  <1> USE DEF breaker, claim, history, LoneInv, Lone, Goto
  <1>1. CASE Tick \/ Repair \/ UNCHANGED vars
    BY <1>0, <1>1 DEF Tick, Repair, vars
  <1>2. CASE Step(c)
    <2>1. CASE LoadOpen(c)
      BY <1>0, <2>1 DEF LoadOpen
    <2>2. CASE LoadOpenedAt(c)
      BY <1>0, <2>2 DEF LoadOpenedAt
    <2>3. CASE ClaimTrial(c) \/ MissTrial(c)
      BY <1>0, <2>3 DEF ClaimTrial, MissTrial
    <2>4. CASE Answer(c) \/ ShardFault(c) \/ GiveUp(c)
      BY <1>0, <2>4 DEF Answer, ShardFault, GiveUp
    <2>5. CASE ResetFailures(c)
      BY <1>0, <2>5 DEF ResetFailures
    <2>6. CASE CloseBreaker(c)
      BY <1>0, <2>6 DEF CloseBreaker
    <2>7. CASE EndTrial(c) \/ DropTrial(c)
      BY <1>0, <2>7 DEF EndTrial, DropTrial, ClearTrial
    <2>8. CASE LoadTrial(c)
      BY <1>0, <2>8 DEF LoadTrial
    <2>9. CASE RestartCooldown(c)
      BY <1>0, <2>9 DEF RestartCooldown
    <2>10. CASE CountFailure(c)
      BY <1>0, <2>10 DEF CountFailure, Saturate
    <2>11. CASE StampOpened(c)
      BY <1>0, <2>11 DEF StampOpened
    <2>12. CASE TripOpen(c)
      BY <1>0, <2>12 DEF TripOpen, TypeInv, Enabled
    <2> QED BY <1>2, <2>1, <2>2, <2>3, <2>4, <2>5, <2>6, <2>7, <2>8, <2>9, <2>10, <2>11,
               <2>12 DEF Step
  <1> QED BY <1>0, <1>1, <1>2 DEF Next

\* Mode and Count as functions of where the lone caller is.
ModeAt(l, o, tr) ==
  IF l \in {"trip", "dropTrial"} THEN "open"
  ELSE IF ~o THEN "closed" ELSE IF tr THEN "trial" ELSE "open"

CountAt(l, o, tr, n) ==
  IF ModeAt(l, o, tr) # "closed" THEN 0
  ELSE IF l = "stamp" THEN FailureThreshold - 1 ELSE n

\* With one caller the mapping looks at that caller only.
LEMMA LoneMapping ==
  ASSUME NEW c, Callers = {c}
  PROVE  /\ Mode = ModeAt(pc[c], open, trialInFlight)
         /\ Count = CountAt(pc[c], open, trialInFlight, consecutiveFailures)
         /\ Mode' = ModeAt(pc'[c], open', trialInFlight')
         /\ Count' = CountAt(pc'[c], open', trialInFlight', consecutiveFailures')
  BY DEF At, Mode, Count, ModeAt, CountAt

\* Each step of a lone caller is a step of the documented machine, or none.
LEMMA LoneSimulation ==
  ASSUME NEW c, Callers = {c}, ~CallersGiveUp, LoneInv(c), LoneInv(c)', [Next]_vars
  PROVE  [States!Next]_(States!vars)
  <1> DEFINE quiet == UNCHANGED <<Mode, Count, sinceOpened>>
  <1>0. /\ pc \in [Callers -> Labels] /\ c \in Callers
        /\ consecutiveFailures \in 0..Cap /\ sinceOpened \in 0..OpenDuration
        /\ OpenDuration \in Nat /\ FailureThreshold \in Int
    BY BreakerAssumption DEF LoneInv, TypeInv, TypeOK, Labels
  <1>1. /\ Mode = ModeAt(pc[c], open, trialInFlight)
        /\ Count = CountAt(pc[c], open, trialInFlight, consecutiveFailures)
        /\ Mode' = ModeAt(pc'[c], open', trialInFlight')
        /\ Count' = CountAt(pc'[c], open', trialInFlight', consecutiveFailures')
    BY LoneMapping
  <1> USE DEF breaker, claim, history, LoneInv, Lone, Goto, ModeAt, CountAt
  <1>2. CASE quiet
    BY <1>2 DEF States!vars
  <1>3. CASE Repair \/ UNCHANGED vars
    BY <1>1, <1>2, <1>3 DEF Repair, vars
  <1>4. CASE Tick
    <2>1. Mode' = Mode /\ Count' = Count
      BY <1>1, <1>4 DEF Tick
    <2> QED BY <1>4, <2>1 DEF Tick, States!Next, States!Tick
  <1>5. CASE Step(c)
    <2>1. CASE LoadOpen(c) \/ LoadOpenedAt(c) \/ MissTrial(c) \/ Answer(c) \/ ShardFault(c)
      <3>1. quiet
        BY <1>0, <1>1, <2>1 DEF LoadOpen, LoadOpenedAt, MissTrial, Answer, ShardFault
      <3> QED BY <1>2, <3>1
    <2>2. CASE GiveUp(c)
      BY <2>2 DEF GiveUp
    <2>3. CASE ClaimTrial(c)
      BY <1>0, <1>1, <2>3 DEF ClaimTrial, States!Next, States!BeginTrial
    <2>4. CASE ResetFailures(c)
      <3>1. CASE open
        BY <1>0, <1>1, <1>2, <2>4, <3>1 DEF ResetFailures
      <3>2. CASE ~open
        BY <1>0, <1>1, <2>4, <3>2 DEF ResetFailures, States!Next, States!Succeed
      <3> QED BY <3>1, <3>2
    <2>5. CASE CloseBreaker(c)
      <3>1. CASE open
        BY <1>0, <1>1, <2>5, <3>1 DEF CloseBreaker, States!Next, States!TrialSucceeds
      <3>2. CASE ~open
        BY <1>0, <1>1, <1>2, <2>5, <3>2 DEF CloseBreaker
      <3> QED BY <3>1, <3>2
    <2>6. CASE EndTrial(c) \/ DropTrial(c)
      <3>1. quiet
        BY <1>0, <1>1, <2>6 DEF EndTrial, DropTrial, ClearTrial
      <3> QED BY <1>2, <3>1
    <2>7. CASE LoadTrial(c)
      <3>1. quiet
        BY <1>0, <1>1, <2>7 DEF LoadTrial
      <3> QED BY <1>2, <3>1
    <2>8. CASE RestartCooldown(c)
      BY <1>0, <1>1, <2>8 DEF RestartCooldown, States!Next, States!TrialFails
    <2>9. CASE CountFailure(c)
      <3>1. FailureThreshold > 0 /\ consecutiveFailures < FailureThreshold
        BY <1>0, <2>9 DEF CountFailure, TypeInv, Enabled
      <3>2. CASE consecutiveFailures + 1 < FailureThreshold
        BY <1>0, <1>1, <2>9, <3>1, <3>2
           DEF CountFailure, Saturate, States!Next, States!Fail
      <3>3. CASE consecutiveFailures + 1 = FailureThreshold
        BY <1>0, <1>1, <1>2, <2>9, <3>1, <3>3 DEF CountFailure, Saturate
      <3> QED BY <1>0, <3>1, <3>2, <3>3
    <2>10. CASE StampOpened(c)
      BY <1>0, <1>1, <2>10 DEF StampOpened, States!Next, States!Trip
    <2>11. CASE TripOpen(c)
      BY <1>0, <1>1, <1>2, <2>11 DEF TripOpen
    <2> QED BY <1>5, <2>1, <2>2, <2>3, <2>4, <2>5, <2>6, <2>7, <2>8, <2>9, <2>10, <2>11
            DEF Step
  <1> QED BY <1>3, <1>4, <1>5 DEF Next

\* A caller that has the breaker to itself and never gives up sees the closed,
\* open and half-open machine of the doc comment: the atomics implement it.
THEOREM LoneCallerRefines ==
  ASSUME NEW c, Callers = {c}, ~CallersGiveUp
  PROVE  Spec => LoneCallerSeesStates
  <1>1. Init => LoneInv(c)
    BY LoneInit
  <1>2. LoneInv(c) /\ [Next]_vars => LoneInv(c)'
    BY LoneStep
  <1>3. Init => States!Init
    BY LoneMapping DEF Init, States!Init, ModeAt, CountAt
  <1>4. LoneInv(c) /\ LoneInv(c)' /\ [Next]_vars => [States!Next]_(States!vars)
    BY LoneSimulation
  <1> QED BY <1>1, <1>2, <1>3, <1>4, PTL DEF Spec, LoneCallerSeesStates, States!Spec
=============================================================================
