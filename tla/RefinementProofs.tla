-------------------------- MODULE RefinementProofs --------------------------
(***************************************************************************)
(* Throttler implements AtomicThrottler: for any number of calls, keys,    *)
(* stripes and buckets, a caller cannot tell the locks, the working copies *)
(* and the generations from one atomic transaction per call.               *)
(***************************************************************************)
EXTENDS ThrottlerRefinement, ThrottlerProofs

-----------------------------------------------------------------------------
(* The operators of Gcra and Batch mean the same within AtomicThrottler.    *)

\* The arithmetic.
LEMMA SameArithmetic ==
  ASSUME NEW a, NEW b
  PROVE  /\ Atomic!max(a, b) = max(a, b) /\ Atomic!Wrap(a) = Wrap(a)
         /\ Atomic!ceilDiv(a, b) = ceilDiv(a, b) /\ Atomic!CeilQuotient(a, b) = CeilQuotient(a, b)
         /\ Atomic!addNonNeg(a, b) = addNonNeg(a, b) /\ Atomic!mulNonNeg(a, b) = mulNonNeg(a, b)
         /\ Atomic!Ok(a) = Ok(a) /\ Atomic!Overflow = Overflow
         /\ Atomic!EffectiveCost(a) = EffectiveCost(a)
         /\ Atomic!EffectiveUnits(a) = EffectiveUnits(a)
  BY DEF Atomic!max, max, Atomic!Wrap, Wrap, Atomic!addNonNeg, addNonNeg,
         Atomic!mulNonNeg, mulNonNeg, Atomic!Ok, Ok, Atomic!Overflow, Overflow,
         Atomic!ceilDiv, ceilDiv, Atomic!CeilQuotient, CeilQuotient,
         Atomic!EffectiveCost, EffectiveCost, Atomic!EffectiveUnits, EffectiveUnits

\* The quotients.
LEMMA SameQuotients ==
  ASSUME NEW a, NEW b, NEW c
  PROVE  /\ Atomic!mulDivFloor(a, b, c) = mulDivFloor(a, b, c)
         /\ Atomic!mulDivCeil(a, b, c) = mulDivCeil(a, b, c)
  BY SameArithmetic DEF Atomic!mulDivFloor, mulDivFloor, Atomic!mulDivCeil, mulDivCeil,
     Atomic!Div64Fits, Div64Fits

\* The shape of a limit.
LEMMA SameShape ==
  ASSUME NEW a, NEW u, NEW p, NEW n
  PROVE  /\ Atomic!MaxDebt(a, u, p) = MaxDebt(a, u, p)
         /\ Atomic!CostNs(a, u, p) = CostNs(a, u, p)
         /\ Atomic!DebtUnits(n, a, u, p) = DebtUnits(n, a, u, p)
  BY SameArithmetic, SameQuotients
     DEF Atomic!MaxDebt, MaxDebt, Atomic!CostNs, CostNs, Atomic!DebtUnits, DebtUnits

\* The check.
LEMMA SameCheck ==
  ASSUME NEW t, NEW n, NEW a, NEW u, NEW p, NEW c
  PROVE  Atomic!gcraCheck(t, n, a, u, p, c) = gcraCheck(t, n, a, u, p, c)
  <1>1. /\ Atomic!BadShape(a, u, p, c) = BadShape(a, u, p, c)
        /\ Atomic!Remaining(t, n, a, u, p) = Remaining(t, n, a, u, p)
    BY SameArithmetic, SameShape DEF Atomic!BadShape, BadShape, Atomic!Remaining, Remaining
  <1>2. Atomic!addNonNeg(Atomic!max(t, n), Atomic!CostNs(c, u, p).val)
          = addNonNeg(max(t, n), CostNs(c, u, p).val)
    BY SameArithmetic, SameShape
  <1>3. Atomic!MaxDebt(a, u, p) = MaxDebt(a, u, p)
    BY SameShape
  <1> QED BY <1>1, <1>2, <1>3
             DEF Atomic!gcraCheck, gcraCheck, Atomic!Refused, Refused, Atomic!Admitted, Admitted

\* The batch.
LEMMA SameBatch ==
  ASSUME NEW es, NEW t, NEW s
  PROVE  /\ \A u, e : Atomic!CheckEntry(u, s, e) = CheckEntry(u, s, e)
         /\ Atomic!Group(es, t, s) = Group(es, t, s)
         /\ Atomic!Committed(es, t, s) = Committed(es, t, s)
  <1>1. \A u, e : Atomic!CheckEntry(u, s, e) = CheckEntry(u, s, e)
    BY SameArithmetic, SameCheck DEF Atomic!CheckEntry, CheckEntry
  <1>2. \A g, e : Atomic!GroupStep(g, e, s) = GroupStep(g, e, s)
    BY <1>1 DEF Atomic!GroupStep, GroupStep
  <1>3. Atomic!Group(es, t, s) = Group(es, t, s)
    BY <1>2 DEF Atomic!Group, Group
  <1> QED BY <1>1, <1>3 DEF Atomic!Committed, Committed

-----------------------------------------------------------------------------
(* What dropping a key needs *)

\* Every limit that admits anything drains before the store may drop its key.
BurstsDrain ==
  \A r \in Requests : \A i \in Real(r) : Sound(r[i].limit) => DrainsBeforeDrop(r[i].limit)

\* How far ahead of its instant a call may leave a bucket.
Slack == GCInterval - MaxGCDelay - MaxCallTime

\* What a call admits, for whatever limits, stays within the slack.
LEMMA CopyWithinStep ==
  ASSUME CallsAreShort, BurstsDrain, TypeOK, GroupInv, [Next]_vars,
         NEW k \in Keys, CopyWithin(k, Slack)
  PROVE  CopyWithin(k, Slack)'
  <1> SUFFICES ASSUME NEW d \in Calls, pc'[d] = "check", charge'[d][k] # 0
               PROVE  k \in Touched(d)' /\ work'[d][k] <= now'[d] + Slack
    BY DEF CopyWithin, Slack
  <1>0. GroupOK(d) /\ GCInterval \in Nat /\ MaxGCDelay \in Nat /\ MaxCallTime \in Nat
    BY ThrottlerAssumption DEF GroupInv
  <1>1. ASSUME pc[d] = "check", charge'[d][k] = charge[d][k], work'[d][k] = work[d][k],
               now'[d] = now[d], held'[d] = held[d]
        PROVE  k \in Touched(d)' /\ work'[d][k] <= now'[d] + Slack
    BY <1>1 DEF CopyWithin, Touched
  <1>2. CASE CallKept(d)
    BY <1>1, <1>2 DEF CallKept
  <1>3. ASSUME NEW i \in todo[d], Check(d, i)
        PROVE  k \in Touched(d)' /\ work'[d][k] <= now'[d] + Slack
    <2> DEFINE e == entries[d][i]
               v == CheckEntry(work[d][k], now[d], e)
    <2>1. /\ pc[d] = "check" /\ held'[d] = held[d] /\ now'[d] = now[d]
          /\ \/ charge'[d][k] = charge[d][k] /\ work'[d][k] = work[d][k]
             \/ /\ entries[d] \in Requests /\ i \in Real(entries[d])
                /\ e \in Entry /\ k \in Touched(d) /\ ~v.throttled
                /\ work'[d][k] = v.tat
      BY <1>3, CheckEffect
    <2>2. CASE /\ entries[d] \in Requests /\ i \in Real(entries[d])
               /\ e \in Entry /\ k \in Touched(d) /\ ~v.throttled
               /\ work'[d][k] = v.tat
      <3>1. now[d] \in Nat /\ work[d][k] \in Nat
        BY RateTypes
      <3>2. Sound(e.limit) /\ v.tat \in Nat /\ v.tat <= now[d] + Debt(e.limit)
        BY <2>2, <3>1, AdmittedEntry
      <3>3. e.limit \in Limit /\ DrainsBeforeDrop(e.limit)
        BY <2>2, <3>2 DEF BurstsDrain, Entry
      <3>4. Debt(e.limit) \in Nat /\ Debt(e.limit) + MaxGCDelay + MaxCallTime <= GCInterval
        BY <3>2, <3>3, SoundLimit, DrainsInTime
      <3>5. v.tat <= now[d] + Slack
        <4> DEFINE x == Debt(e.limit)
        <4> HIDE DEF x, v
        <4> QED BY <1>0, <3>1, <3>2, <3>4 DEF Slack, x
      <3> QED BY <2>1, <2>2, <3>5 DEF Touched
    <2> QED BY <1>1, <2>1, <2>2
  <1>4. CASE BeginCheck(d)
    <2>1. pc[d] = "touch" /\ charge'[d] = charge[d]
      BY <1>4 DEF BeginCheck
    <2> QED BY <1>0, <2>1 DEF GroupOK
  <1>5. CASE EnterGroup(d) \/ Commit(d)
    BY <1>5 DEF EnterGroup, Commit, TypeOK
  <1>6. CASE Return(d)
    BY <1>6 DEF Return, IdleCall, TypeOK
  <1>7. ASSUME NEW i \in todo[d],
               \/ PeekCheck(d, i) \/ TouchAgain(d, i)
               \/ \E b \in Buckets : PeekTouch(d, i, b) \/ Touch(d, i, b)
        PROVE  FALSE
    BY <1>7 DEF PeekCheck, TouchAgain, PeekTouch, Touch, TypeOK
  <1>8. ASSUME NEW j \in Keys, Lock(d, j) \/ Unlock(d, j) PROVE FALSE
    BY <1>8 DEF Lock, Unlock, callVars
  <1>9. ASSUME NEW r \in Requests, Start(d, r) PROVE FALSE
    BY <1>9 DEF Start, TypeOK
  <1> QED BY <1>2, <1>3, <1>4, <1>5, <1>6, <1>7, <1>8, <1>9, StepsOfCall DEF CallStep

\* A key that the store drops has drained.
DrainInv == \A k \in Keys : CopyWithin(k, Slack) /\ TatWithin(k, Slack)

\* There is room for a call between two rotations.
LEMMA SlackType ==
  ASSUME CallsAreShort
  PROVE  Slack \in Nat /\ Slack + MaxGCDelay + MaxCallTime <= GCInterval
  <1>1. GCInterval \in Nat /\ MaxGCDelay \in Nat /\ MaxCallTime \in Nat
    BY ThrottlerAssumption
  <1> QED BY <1>1 DEF CallsAreShort, Slack

\* Whatever the limits of a key.
LEMMA DrainInvStep ==
  ASSUME CallsAreShort, BurstsDrain, TypeOK, TypeOK', StoreInv, TimingInv, HeldInv,
         WorkingCopyIsCurrent, DrainInv, [Next]_vars
  PROVE  DrainInv'
  <1> SUFFICES ASSUME NEW k \in Keys PROVE CopyWithin(k, Slack)' /\ TatWithin(k, Slack)'
    BY DEF DrainInv
  <1>1. CopyWithin(k, Slack) /\ TatWithin(k, Slack) /\ GroupInv /\ Slack \in Nat
    BY SlackType DEF DrainInv, TimingInv
  <1>2. CopyWithin(k, Slack)'
    BY <1>1, CopyWithinStep
  <1>3. TatWithin(k, Slack)'
    <2> DEFINE m == Slack
    <2>1. m \in Nat /\ CopyWithin(k, m) /\ TatWithin(k, m)
      BY <1>1
    <2>2. m' = m
      BY DEF Slack
    <2>3. TatWithin(k, Slack)' = TatWithin(k, m)'
      BY <2>2
    <2> QED BY <2>1, <2>3, TatWithinStep
  <1> QED BY <1>2, <1>3

\* No key has a TAT yet.
LEMMA DrainInvInit == ASSUME CallsAreShort PROVE Init => DrainInv
  <1> SUFFICES ASSUME Init, NEW k \in Keys PROVE CopyWithin(k, Slack) /\ TatWithin(k, Slack)
    BY DEF DrainInv
  <1>1. TatOf(k) = 0 /\ age[k] = 2 /\ clock = 1
    BY DEF Init, TatOf, BucketOf
  <1>2. TatWithin(k, Slack)
    BY <1>1, SlackType DEF TatWithin
  <1>3. CopyWithin(k, Slack)
    BY DEF Init, CopyWithin
  <1> QED BY <1>2, <1>3

-----------------------------------------------------------------------------
(* Verdicts *)

\* What an entry's check reports is a verdict, and so not NoVerdict.
LEMMA CheckEntryType ==
  ASSUME NEW t \in Nat, NEW n \in Nat, NEW e \in Entry
  PROVE  CheckEntry(t, n, e) \in Verdict /\ CheckEntry(t, n, e) # NoVerdict
  <1> DEFINE cap == e.limit.capacity
             un  == EffectiveUnits(e.limit.units)
             per == e.limit.period
             co  == EffectiveCost(e.cost)
             v   == gcraCheck(t, n, cap, un, per, co)
             rm  == Remaining(t, n, cap, un, per)
             ex  == Excess(t, n, cap, un, per, co)
             bad == BadShape(cap, un, per, co)
  <1>1. cap \in Int /\ un \in Nat \ {0} /\ per \in Int /\ co \in Nat \ {0}
    BY DEF Entry, Limit, EffectiveUnits, EffectiveCost
  <1>2. CheckEntry(t, n, e) = v /\ v.tat \in Nat
    BY EntryCheck DEF CheckEntry
  <1> HIDE DEF cap, un, per, co
  <1>3. /\ bad => v = Refused(0, 0, t)
        /\ ~bad => \/ v = Refused(rm, 0, t)
                   \/ ~Hopeless(t, n, cap, un, per, co) /\ ex > 0 /\ v = Refused(rm, ex, t)
                   \/ v = Admitted(rm, v.tat)
    BY DEF gcraCheck, Hopeless, Excess, Candidate, Admitted
  <1>4. ASSUME ~bad PROVE rm \in Nat
    <2>1. cap \in Nat /\ per \in Nat \ {0}
      BY <1>1, <1>4 DEF BadShape
    <2> DEFINE lv == max(t, n) - n
               d  == DebtUnits(lv, cap, un, per)
    <2>2. lv \in Nat
      BY DEF max
    <2>3. \A x \in Int : Wrap(x) \in Int
      BY WidthAssumption DEF Wrap
    <2>4. \A a \in Nat : CeilQuotient(a, per) \in Int
      BY <2>1, CeilBound
    <2> HIDE DEF lv
    <2>5. lv * un \in Nat
      BY <1>1, <2>2, ProductNat
    <2>6. d \in Int
      <3>1. ceilDiv(lv, per) \in Int
        BY <2>2, <2>4 DEF ceilDiv
      <3>2. mulDivCeil(lv, un, per).ok => mulDivCeil(lv, un, per).val \in Int
        BY <2>4, <2>5 DEF mulDivCeil, Ok, Overflow
      <3>3. Wrap(cap + 1) \in Int
        BY <2>1, <2>3
      <3> QED BY <3>1, <3>2, <3>3 DEF DebtUnits
    <2> HIDE DEF d
    <2>7. Wrap(cap - d) \in Int
      BY <2>1, <2>3, <2>6
    <2>8. rm = max(Wrap(cap - d), 0)
      BY DEF Remaining, d, lv
    <2> HIDE DEF rm
    <2> QED BY <2>7, <2>8 DEF max
  <1>5. ~Hopeless(t, n, cap, un, per, co) => ex \in Int
    <2>1. un \in Int /\ co \in Int
      BY <1>1
    <2> QED BY <1>1, <2>1, ExcessInt
  <1> HIDE DEF rm, ex, bad, v
  <1>6. v \in Verdict
    <2>1. \A r, x \in Nat : Refused(r, x, t) \in Verdict
      BY DEF Refused, Verdict
    <2>2. \A r, x \in Nat : Admitted(r, x) \in Verdict
      BY DEF Admitted, Verdict
    <2>3. CASE bad
      BY <1>3, <2>1, <2>3
    <2>4. CASE ~bad
      <3>1. rm \in Nat
        BY <1>4, <2>4
      <3>2. ~Hopeless(t, n, cap, un, per, co) /\ ex > 0 => ex \in Nat
        BY <1>5
      <3> QED BY <1>2, <1>3, <2>1, <2>2, <2>4, <3>1, <3>2
    <2> QED BY <2>3, <2>4
  <1> QED BY <1>2, <1>6, ThrottlerAssumption

\* A call has one result for each of its entries.
ResultsOK ==
  /\ result = [c \in Calls |-> result[c]]
  /\ \A c \in Calls : result[c] = [i \in DOMAIN entries[c] |-> result[c][i]]

\* A call's verdicts are what they were.
ResultsKept(d) == result'[d] = result[d] /\ admitAll'[d] = admitAll[d]

\* What a step does to the results of the call that takes it.
LEMMA ResultSteps ==
  ASSUME TypeOK, ResultsOK, NEW c \in Calls,
         CallStep(c) \/ \E r \in Requests : Start(c, r)
  PROVE  \/ result' = result /\ entries' = entries
         \/ /\ entries' = entries
            /\ \E i \in todo[c] : \E v : result' = [result EXCEPT ![c][i] = v]
         \/ \E r : /\ entries' = [entries EXCEPT ![c] = r]
                   /\ \E f : /\ f = [i \in DOMAIN r |-> f[i]]
                             /\ result' = [result EXCEPT ![c] = f]
  <1>1. ASSUME NEW r \in Requests, Start(c, r)
        PROVE  \E f : /\ f = [i \in DOMAIN r |-> f[i]]
                      /\ result' = [result EXCEPT ![c] = f]
                      /\ entries' = [entries EXCEPT ![c] = r]
    <2> DEFINE f == [i \in DOMAIN r |-> NoVerdict]
    <2>1. f = [i \in DOMAIN r |-> f[i]]
      OBVIOUS
    <2>2. result' = [result EXCEPT ![c] = f] /\ entries' = [entries EXCEPT ![c] = r]
      BY <1>1 DEF Start
    <2> HIDE DEF f
    <2> QED BY <2>1, <2>2
  <1>2. CASE Return(c)
    <2>1. result' = [result EXCEPT ![c] = <<>>] /\ entries' = [entries EXCEPT ![c] = <<>>]
      BY <1>2 DEF Return, IdleCall
    <2>2. <<>> = [i \in DOMAIN <<>> |-> <<>>[i]]
      OBVIOUS
    <2> QED BY <2>1, <2>2
  <1>3. CASE EnterGroup(c) \/ BeginCheck(c) \/ Commit(c)
    BY <1>3 DEF EnterGroup, BeginCheck, Commit
  <1>4. ASSUME NEW i \in todo[c], PeekCheck(c, i) \/ Check(c, i)
        PROVE  entries' = entries /\ \E v : result' = [result EXCEPT ![c][i] = v]
    BY <1>4 DEF PeekCheck, Check
  <1>5. ASSUME NEW i \in todo[c],
               TouchAgain(c, i) \/ \E b \in Buckets : PeekTouch(c, i, b) \/ Touch(c, i, b)
        PROVE  result' = result /\ entries' = entries
    BY <1>5 DEF TouchAgain, PeekTouch, Touch
  <1>6. ASSUME NEW k \in Keys, Lock(c, k) \/ Unlock(c, k)
        PROVE  result' = result /\ entries' = entries
    BY <1>6 DEF Lock, Unlock, callVars
  <1> QED BY <1>1, <1>2, <1>3, <1>4, <1>5, <1>6 DEF CallStep

\* No step changes the number of results of a call under way.
LEMMA ResultsOKStep == TypeOK /\ ResultsOK /\ [Next]_vars => ResultsOK'
  <1> SUFFICES ASSUME TypeOK, ResultsOK, [Next]_vars PROVE ResultsOK'
    OBVIOUS
  <1>1. CASE result' = result /\ entries' = entries
    BY <1>1 DEF ResultsOK
  <1>2. ASSUME NEW c \in Calls, NEW i, NEW v, result' = [result EXCEPT ![c][i] = v],
               entries' = entries
        PROVE  ResultsOK'
    <2>1. result = [d \in Calls |-> result[d]]
      BY DEF ResultsOK
    <2>2. result' = [d \in Calls |-> IF d = c THEN [result[d] EXCEPT ![i] = v] ELSE result[d]]
      BY <1>2, <2>1
    <2>3. ASSUME NEW d \in Calls PROVE result'[d] = [j \in DOMAIN entries[d] |-> result'[d][j]]
      <3>1. result[d] = [j \in DOMAIN entries[d] |-> result[d][j]]
        BY DEF ResultsOK
      <3>2. CASE d # c
        BY <2>2, <3>1, <3>2
      <3>3. CASE d = c
        <4> DEFINE f == result[d]
                   D == DOMAIN entries[d]
        <4>1. result'[d] = [f EXCEPT ![i] = v]
          BY <2>2, <3>3
        <4>2. f = [j \in D |-> f[j]]
          BY <3>1
        <4> HIDE DEF f, D
        <4>3. [f EXCEPT ![i] = v] = [j \in D |-> [f EXCEPT ![i] = v][j]]
          BY <4>2
        <4> QED BY <4>1, <4>3 DEF D
      <3> QED BY <3>2, <3>3
    <2> QED BY <1>2, <2>2, <2>3 DEF ResultsOK
  <1>3. ASSUME NEW c \in Calls, NEW r, NEW f, f = [i \in DOMAIN r |-> f[i]],
               entries' = [entries EXCEPT ![c] = r], result' = [result EXCEPT ![c] = f]
        PROVE  ResultsOK'
    <2>1. entries = [d \in Calls |-> entries[d]] /\ result = [d \in Calls |-> result[d]]
      BY DEF ResultsOK, TypeOK
    <2>2. /\ result' = [d \in Calls |-> IF d = c THEN f ELSE result[d]]
          /\ entries' = [d \in Calls |-> IF d = c THEN r ELSE entries[d]]
      BY <1>3, <2>1
    <2>3. ASSUME NEW d \in Calls
          PROVE  result'[d] = [j \in DOMAIN entries'[d] |-> result'[d][j]]
      <3>1. result[d] = [j \in DOMAIN entries[d] |-> result[d][j]]
        BY DEF ResultsOK
      <3> QED BY <1>3, <2>2, <3>1
    <2> QED BY <2>2, <2>3 DEF ResultsOK
  <1>4. CASE Tick \/ GCWake \/ Rotate \/ UNCHANGED vars
    BY <1>1, <1>4 DEF Tick, GCWake, Rotate, vars, callVars
  <1> QED BY <1>1, <1>2, <1>3, <1>4, ResultSteps DEF Next

\* For a call, a step is its own or leaves all of its locals alone.
LEMMA OwnSteps ==
  ASSUME TypeOK, ResultsOK, [Next]_vars, NEW d \in Calls
  PROVE  \/ CallStep(d) \/ \E r \in Requests : Start(d, r)
         \/ CallKept(d) /\ ResultsKept(d)
  <1>r. result = [c \in Calls |-> result[c]]
    BY DEF ResultsOK
  <1>1. CASE Tick \/ GCWake \/ Rotate \/ UNCHANGED vars
    BY <1>1 DEF Tick, GCWake, Rotate, vars, callVars, CallKept, ResultsKept
  <1>2. ASSUME NEW c \in Calls, c # d, CallStep(c) \/ \E r \in Requests : Start(c, r)
        PROVE  CallKept(d) /\ ResultsKept(d)
    <2>1. CallKept(d)
      BY <1>2, OtherCalls
    <2>2. result'[d] = result[d]
      BY <1>2, <1>r, ResultSteps
    <2>3. admitAll'[d] = admitAll[d]
      <3> USE DEF evalVars, callVars, TypeOK
      <3>1. CASE \E r \in Requests : Start(c, r)
        BY <3>1 DEF Start
      <3>2. CASE EnterGroup(c) \/ Commit(c)
        BY <3>2 DEF EnterGroup, Commit
      <3>3. CASE BeginCheck(c)
        BY <1>2, <3>3 DEF BeginCheck
      <3>4. CASE Return(c)
        BY <1>2, <3>4 DEF Return, IdleCall
      <3>5. ASSUME NEW i \in todo[c],
                   \/ PeekCheck(c, i) \/ TouchAgain(c, i)
                   \/ \E b \in Buckets : PeekTouch(c, i, b) \/ Touch(c, i, b)
            PROVE  admitAll'[d] = admitAll[d]
        BY <3>5 DEF PeekCheck, TouchAgain, PeekTouch, Touch
      <3>6. ASSUME NEW i \in todo[c], Check(c, i) PROVE admitAll'[d] = admitAll[d]
        BY <1>2, <3>6 DEF Check
      <3>7. ASSUME NEW k \in Keys, Lock(c, k) \/ Unlock(c, k)
            PROVE  admitAll'[d] = admitAll[d]
        BY <3>7 DEF Lock, Unlock
      <3> QED BY <1>2, <3>1, <3>2, <3>3, <3>4, <3>5, <3>6, <3>7 DEF CallStep
    <2> QED BY <2>1, <2>2, <2>3 DEF ResultsKept
  <1> QED BY <1>1, <1>2 DEF Next

-----------------------------------------------------------------------------
(* Peeks *)

\* A peek has its verdict exactly when it is done, and its bucket before that.
PeeksOK(c) ==
  /\ pc[c] \in {"scan", "peek"} => todo[c] \subseteq Peeks(entries[c])
  /\ pc[c] = "peek" => \A i \in todo[c] : IsFirst(i, todo[c]) => entries[c][i].key \in Touched(c)
  /\ pc[c] # "idle" =>
       \A i \in Peeks(entries[c]) :
         result[c][i] = NoVerdict <=> (pc[c] \in {"scan", "peek"} /\ i \in todo[c])

PeekInv == \A c \in Calls : PeeksOK(c)

\* An entry has only one verdict written at a time.
LEMMA OneResult ==
  ASSUME TypeOK, ResultsOK, NEW c \in Calls, NEW i, NEW v,
         result' = [result EXCEPT ![c][i] = v], NEW j \in DOMAIN entries[c]
  PROVE  /\ j = i => result'[c][j] = v
         /\ j # i => result'[c][j] = result[c][j]
  <1>1. result = [d \in Calls |-> result[d]]
    BY DEF ResultsOK
  <1>2. result[c] = [k \in DOMAIN entries[c] |-> result[c][k]]
    BY DEF ResultsOK
  <1>3. result'[c] = [result[c] EXCEPT ![i] = v]
    BY <1>1
  <1> QED BY <1>2, <1>3

\* Throttle answers its peeks one by one, and only them.
LEMMA PeekInvStep ==
  ASSUME TypeOK, ResultsOK, GroupInv, PeekInv, [Next]_vars, NEW d \in Calls
  PROVE  PeeksOK(d)'
  <1>0. PeeksOK(d) /\ GroupOK(d)
    BY DEF PeekInv, GroupInv
  <1> DEFINE Peeking(p) == p \in {"scan", "peek"}
  <1> USE DEF evalVars, callVars
  <1>k. ASSUME entries'[d] = entries[d], held'[d] = held[d],
               result'[d] = result[d], pc[d] # "idle",
               ~Peeking(pc'[d]),
               Peeking(pc[d]) => todo[d] = {}
        PROVE  PeeksOK(d)'
    <2>1. pc'[d] # "peek"
      BY <1>k
    <2> QED BY <1>0, <1>k, <2>1 DEF PeeksOK
  <1>1. ASSUME CallKept(d), ResultsKept(d) PROVE PeeksOK(d)'
    <2>1. Touched(d)' = Touched(d)
      BY <1>1 DEF CallKept, Touched
    <2> QED BY <1>0, <1>1, <2>1 DEF CallKept, ResultsKept, PeeksOK
  <1>2. ASSUME NEW r \in Requests, Start(d, r) PROVE PeeksOK(d)'
    <2>1. /\ pc'[d] = "scan" /\ entries'[d] = r /\ todo'[d] = Peeks(r)
      BY <1>2 DEF Start, TypeOK
    <2>2. result'[d] = [i \in DOMAIN r |-> NoVerdict]
      BY <1>2 DEF Start, ResultsOK
    <2> QED BY <2>1, <2>2, IndexSets DEF PeeksOK
  <1>3. CASE EnterGroup(d)
    <2>1. /\ pc[d] = "scan" /\ todo[d] = {} /\ pc'[d] \in {"unlock", "touch"}
          /\ entries'[d] = entries[d] /\ held'[d] = held[d] /\ result'[d] = result[d]
      BY <1>3 DEF EnterGroup, TypeOK
    <2> QED BY <1>k, <2>1
  <1>4. CASE BeginCheck(d) \/ Commit(d)
    <2>1. /\ pc[d] \in {"touch", "check"} /\ pc'[d] \in {"check", "unlock"}
          /\ entries'[d] = entries[d] /\ held'[d] = held[d] /\ result'[d] = result[d]
      BY <1>4 DEF BeginCheck, Commit, TypeOK
    <2> QED BY <1>k, <2>1
  <1>5. CASE Return(d)
    <2>1. pc'[d] = "idle"
      BY <1>5 DEF Return, IdleCall, TypeOK
    <2> QED BY <2>1 DEF PeeksOK
  <1>6. ASSUME NEW i \in todo[d], PeekCheck(d, i) PROVE PeeksOK(d)'
    <2> DEFINE e == entries[d][i]
               v == CheckEntry(tat[held[d][e.key]], now[d], e)
    <2>1. /\ pc[d] = "peek" /\ pc'[d] = "scan" /\ IsFirst(i, todo[d])
          /\ todo'[d] = todo[d] \ {i} /\ entries'[d] = entries[d]
          /\ result' = [result EXCEPT ![d][i] = v]
      BY <1>6 DEF PeekCheck, TypeOK
    <2>2. e \in Entry /\ e.key \in Keys
      BY EntryType
    <2>3. e.key \in Touched(d)
      BY <1>0, <2>1 DEF PeeksOK
    <2>4. held[d][e.key] \in Buckets
      BY <2>3, TouchedType
    <2>5. tat[held[d][e.key]] \in Nat /\ now[d] \in Nat
      BY <2>4, ThrottlerAssumption DEF TypeOK
    <2>6. v # NoVerdict
      BY <2>2, <2>5, CheckEntryType
    <2> HIDE DEF v, e
    <2>7. ASSUME NEW j \in Peeks(entries[d])
          PROVE  result'[d][j] = NoVerdict <=> j \in todo[d] \ {i}
      <3>1. j \in DOMAIN entries[d]
        BY IndexSets
      <3>2. /\ j = i => result'[d][j] = v
            /\ j # i => result'[d][j] = result[d][j]
        <4> DEFINE u == [result EXCEPT ![d][i] = v]
        <4>1. result' = u
          BY <2>1
        <4>2. result = [c \in Calls |-> result[c]]
              /\ result[d] = [k \in DOMAIN entries[d] |-> result[d][k]]
          BY DEF ResultsOK
        <4>3. u[d] = [result[d] EXCEPT ![i] = v]
          BY <4>2
        <4>4. /\ j = i => u[d][j] = v
              /\ j # i => u[d][j] = result[d][j]
          BY <3>1, <4>2, <4>3
        <4> HIDE DEF u
        <4> QED BY <4>1, <4>4
      <3>3. result[d][j] = NoVerdict <=> j \in todo[d]
        BY <1>0, <2>1 DEF PeeksOK
      <3> QED BY <2>6, <3>2, <3>3
    <2> QED BY <1>0, <2>1, <2>7 DEF PeeksOK
  <1>7. ASSUME NEW i \in todo[d], NEW b \in Buckets, PeekTouch(d, i, b) PROVE PeeksOK(d)'
    <2>0. entries[d][i].key \in Keys /\ b # NoBucket /\ todo[d] \subseteq Nat
      BY EntryType, ThrottlerAssumption DEF TypeOK
    <2>1. /\ pc[d] = "scan" /\ pc'[d] = "peek" /\ IsFirst(i, todo[d])
          /\ todo'[d] = todo[d] /\ entries'[d] = entries[d] /\ result'[d] = result[d]
          /\ held'[d][entries[d][i].key] = b
      BY <1>7, <2>0 DEF PeekTouch, TypeOK
    <2>2. entries[d][i].key \in Touched(d)'
      BY <2>0, <2>1 DEF Touched
    <2>3. \A j : IsFirst(j, todo[d]) => j = i
      BY <2>0, <2>1 DEF IsFirst
    <2> QED BY <1>0, <2>1, <2>2, <2>3 DEF PeeksOK
  <1>8. ASSUME NEW i \in todo[d],
               TouchAgain(d, i) \/ \E b \in Buckets : Touch(d, i, b)
        PROVE  PeeksOK(d)'
    <2>1. /\ pc[d] = "touch" /\ pc'[d] = "touch"
          /\ entries'[d] = entries[d] /\ result'[d] = result[d]
      BY <1>8 DEF TouchAgain, Touch, TypeOK
    <2> QED BY <1>0, <2>1 DEF PeeksOK
  <1>9. ASSUME NEW i \in todo[d], Check(d, i) PROVE PeeksOK(d)'
    <2>1. /\ pc[d] = "check" /\ pc'[d] = "check" /\ entries'[d] = entries[d]
          /\ \E v : result' = [result EXCEPT ![d][i] = v]
      BY <1>9 DEF Check, TypeOK
    <2>2. i \in Real(entries[d])
      BY <1>0, <2>1 DEF GroupOK
    <2>3. ASSUME NEW j \in Peeks(entries[d]) PROVE result'[d][j] = result[d][j]
      <3>1. j \in DOMAIN entries[d] /\ j # i
        BY <2>2 DEF Peeks, Real
      <3>2. PICK v : result' = [result EXCEPT ![d][i] = v]
        BY <2>1
      <3> QED BY <3>1, <3>2, OneResult
    <2> QED BY <1>0, <2>1, <2>3 DEF PeeksOK
  <1>10. ASSUME NEW k \in Keys, Lock(d, k) \/ Unlock(d, k) PROVE PeeksOK(d)'
    <2>1. CallKept(d) /\ ResultsKept(d)
      BY <1>10 DEF Lock, Unlock, CallKept, ResultsKept
    <2> QED BY <1>1, <2>1
  <1> QED BY <1>1, <1>2, <1>3, <1>4, <1>5, <1>6, <1>7, <1>8, <1>9, <1>10, OwnSteps
             DEF CallStep

-----------------------------------------------------------------------------
(* Groups *)

\* The TATs that a call's group starts from.
Seed(c) == [k \in Keys |-> IF k \in Touched(c) THEN TatOf(k) ELSE 0]

\* The group of a call after its first n entries.
GroupAt(c, n) == Group(entries[c], Seed(c), now[c])[n]

\* The entries up to n are exactly those that have been checked or are peeks.
Cut(c, n) ==
  /\ \A j \in todo[c] : n < j
  /\ \A j \in Real(entries[c]) \ todo[c] : j <= n

\* The loop of evaluateRealGroup computes the group of Batch.
GroupingOK(c) ==
  pc[c] = "check" =>
    /\ \A j \in Real(entries[c]) \ todo[c] :
         /\ \A i \in todo[c] : j < i
         /\ result[c][j] =
              CheckEntry(GroupAt(c, j-1).tats[entries[c][j].key], now[c], entries[c][j])
    /\ \A n \in 0..Len(entries[c]) :
         Cut(c, n) => GroupAt(c, n) = [tats |-> work[c], admitted |-> admitAll[c]]

GroupingInv == \A c \in Calls : GroupingOK(c)

\* A call's entries have a length, and its group a type.
LEMMA GroupAtType ==
  ASSUME TypeOK, NEW c \in Calls
  PROVE  /\ entries[c] \in Seq(EntryOf(Keys)) /\ now[c] \in Nat /\ Seed(c) \in [Keys -> Nat]
         /\ Len(entries[c]) \in Nat /\ DOMAIN entries[c] = 1..Len(entries[c])
         /\ \A n \in 0..Len(entries[c]) :
              GroupAt(c, n) \in [tats : [Keys -> Nat], admitted : BOOLEAN]
  <1>1. entries[c] \in Seq(EntryOf(Keys))
    <2>1. Entry = EntryOf(Keys)
      BY DEF Entry, EntryOf, Limit, LimitOf
    <2> QED BY <2>1, EntriesType
  <1>2. now[c] \in Nat /\ Seed(c) \in [Keys -> Nat]
    BY RateTypes, ThrottlerAssumption DEF Seed, TypeOK
  <1>3. Len(entries[c]) \in Nat /\ DOMAIN entries[c] = 1..Len(entries[c])
    BY <1>1
  <1> QED BY <1>1, <1>2, <1>3, GroupType DEF GroupAt

\* While a call checks its keys, its group starts from the same TATs.
LEMMA SeedIsStill ==
  ASSUME TypeOK, StoreInv, HeldInv, HeldInv', WorkingCopyIsCurrent, [Next]_vars,
         NEW d \in Calls, pc[d] = "check", pc'[d] = "check", held'[d] = held[d]
  PROVE  Seed(d)' = Seed(d)
  <1>1. Touched(d)' = Touched(d)
    BY DEF Touched
  <1>2. \A k \in Touched(d) : TatOf(k)' = TatOf(k)
    BY CheckedKeyIsStill
  <1>3. Seed(d)' = [k \in Keys |-> IF k \in Touched(d)' THEN TatOf(k)' ELSE 0]
    BY DEF Seed
  <1> QED BY <1>1, <1>2, <1>3 DEF Seed

\* The loop starts with the group of no entries.
LEMMA GroupingBegins ==
  ASSUME TypeOK, HeldInv, NEW c \in Calls, BeginCheck(c)
  PROVE  GroupingOK(c)'
  <1> DEFINE es == entries[c]
             t  == Seed(c)
             s  == now[c]
  <1>1. /\ pc[c] = "touch" /\ todo'[c] = Real(es) /\ entries'[c] = es /\ now'[c] = s
        /\ held' = held /\ hot' = hot /\ cold' = cold /\ tat' = tat
        /\ work'[c] = [k \in Keys |-> IF k \in Touched(c) THEN tat[held[c][k]] ELSE 0]
        /\ admitAll'[c] = TRUE
    BY DEF BeginCheck, storeVars, TypeOK
  <1>2. Touched(c)' = Touched(c) /\ \A k \in Keys : TatOf(k)' = TatOf(k)
    BY <1>1 DEF Touched, TatOf, BucketOf
  <1>3. Seed(c)' = t
    <2>1. Seed(c)' = [k \in Keys |-> IF k \in Touched(c)' THEN TatOf(k)' ELSE 0]
      BY DEF Seed
    <2> QED BY <1>2, <2>1 DEF Seed
  <1>4. work'[c] = t
    <2>1. ASSUME NEW k \in Touched(c) PROVE tat[held[c][k]] = TatOf(k)
      BY DEF HeldInv, TatOf, Touched
    <2> QED BY <1>1, <2>1 DEF Seed
  <1>5. \A n : GroupAt(c, n)' = Group(es, t, s)[n]
    BY <1>1, <1>3 DEF GroupAt
  <1>6. Len(es) \in Nat /\ DOMAIN es = 1..Len(es)
    BY GroupAtType
  <1>7. ASSUME NEW n \in 0..Len(es), Cut(c, n)'
        PROVE  GroupAt(c, n)' = [tats |-> work'[c], admitted |-> admitAll'[c]]
    <2>1. \A j \in 1..n : es[j].peek
      <3> SUFFICES ASSUME NEW j \in 1..n, ~es[j].peek PROVE FALSE
        OBVIOUS
      <3>1. j \in Real(es)
        BY <1>6 DEF Real
      <3>2. n < j
        BY <1>1, <1>7, <3>1 DEF Cut
      <3> QED BY <3>2
    <2>2. Group(es, t, s)[n] = Group(es, t, s)[0]
      <3>1. 0 \in 0..Len(es) /\ n \in 0..Len(es) /\ \A j \in (0+1)..n : es[j].peek
        BY <1>6, <2>1
      <3> HIDE DEF es, t, s
      <3> QED BY <1>6, <3>1, PeeksPass
    <2>3. Group(es, t, s)[0] = GroupStart(t)
      <3> HIDE DEF es, t, s
      <3> QED BY <1>6, GroupUnfolds
    <2> QED BY <1>1, <1>4, <1>5, <2>2, <2>3 DEF GroupStart
  <1> QED BY <1>1, <1>7 DEF GroupingOK

\* One turn of the loop is one step of the group: it chains the entries of a
\* key and remembers a refusal.
LEMMA GroupingAdvances ==
  ASSUME TypeOK, ResultsOK, StoreInv, HeldInv, HeldInv', WorkingCopyIsCurrent, GroupInv,
         [Next]_vars, NEW c \in Calls, GroupingOK(c), NEW i \in todo[c], Check(c, i)
  PROVE  GroupingOK(c)'
  <1> DEFINE es == entries[c]
             s  == now[c]
             t  == Seed(c)
             G  == Group(es, t, s)
             e  == es[i]
             v  == CheckEntry(work[c][e.key], s, e)
             R  == Real(es)
             U  == todo[c]
  <1>1. /\ pc[c] = "check" /\ pc'[c] = "check" /\ IsFirst(i, U)
        /\ todo'[c] = U \ {i} /\ entries'[c] = es /\ now'[c] = s /\ held'[c] = held[c]
        /\ result' = [result EXCEPT ![c][i] = v]
        /\ work'[c] = [work[c] EXCEPT ![e.key] = v.tat]
        /\ admitAll'[c] = (admitAll[c] /\ ~v.throttled)
    BY DEF Check, TypeOK
  <1>2. Seed(c)' = Seed(c)
    BY <1>1, SeedIsStill
  <1>3. \A n : GroupAt(c, n)' = G[n] /\ GroupAt(c, n) = G[n]
    BY <1>1, <1>2 DEF GroupAt
  <1>4. /\ es \in Seq(EntryOf(Keys)) /\ s \in Nat /\ Len(es) \in Nat /\ DOMAIN es = 1..Len(es)
        /\ \A n \in 0..Len(es) : G[n] \in [tats : [Keys -> Nat], admitted : BOOLEAN]
    BY GroupAtType DEF GroupAt
  <1>5. /\ e \in Entry /\ e.key \in Keys /\ i \in 1..Len(es) /\ i \in R
        /\ U \subseteq R /\ R \subseteq 1..Len(es)
    BY <1>1, <1>4, EntryType, IndexSets DEF GroupInv, GroupOK
  <1>6. \A j \in R \ U : j < i /\ \A k \in U : j < k
    BY <1>1 DEF GroupingOK
  <1>7. G[i-1] = [tats |-> work[c], admitted |-> admitAll[c]]
    <2>1. i - 1 \in 0..Len(es)
      BY <1>4, <1>5
    <2>2. Cut(c, i-1)
      BY <1>1, <1>5, <1>6 DEF Cut, IsFirst
    <2> QED BY <1>1, <1>3, <2>1, <2>2 DEF GroupingOK
  <1>8. work[c] \in [Keys -> Nat] /\ admitAll[c] \in BOOLEAN
    BY DEF TypeOK
  <1>9. v.throttled => v.tat = work[c][e.key]
    BY <1>4, <1>5, <1>8, EntryCheck
  <1>10. G[i] = GroupStep(G[i-1], e, s)
    <2> HIDE DEF es, s
    <2> QED BY <1>4, <1>5, GroupUnfolds
  <1>11. ~e.peek
    BY <1>5 DEF Real
  <1>12. G[i] = [tats |-> work'[c], admitted |-> admitAll'[c]]
    <2> DEFINE h == [tats |-> work[c], admitted |-> admitAll[c]]
    <2>1. v = CheckEntry(h.tats[e.key], s, e)
      OBVIOUS
    <2>2. G[i] = IF v.throttled THEN [h EXCEPT !.admitted = FALSE]
                 ELSE [h EXCEPT !.tats[e.key] = v.tat]
      BY <1>7, <1>10, <1>11, <2>1 DEF GroupStep
    <2> HIDE DEF v, e, G
    <2>3. CASE v.throttled
      <3>1. work'[c] = work[c]
        BY <1>1, <1>5, <1>8, <1>9, <2>3
      <3>2. admitAll'[c] = FALSE
        BY <1>1, <2>3
      <3>3. [h EXCEPT !.admitted = FALSE] = [tats |-> work[c], admitted |-> FALSE]
        <4> DEFINE f == FALSE
        <4> HIDE DEF f
        <4>1. [h EXCEPT !.admitted = f] = [tats |-> work[c], admitted |-> f]
          OBVIOUS
        <4> QED BY <4>1 DEF f
      <3> QED BY <2>2, <2>3, <3>1, <3>2, <3>3
    <2>4. CASE ~v.throttled
      <3>1. admitAll'[c] = admitAll[c]
        BY <1>1, <1>8, <2>4, Zenon
      <3>2. [h EXCEPT !.tats[e.key] = v.tat]
              = [tats |-> [work[c] EXCEPT ![e.key] = v.tat], admitted |-> admitAll[c]]
        OBVIOUS
      <3> QED BY <1>1, <2>2, <2>4, <3>1, <3>2
    <2> QED BY <2>3, <2>4
  <1> HIDE DEF v
  <1>13. ASSUME NEW n \in 0..Len(es), Cut(c, n)'
         PROVE  G[n] = [tats |-> work'[c], admitted |-> admitAll'[c]]
    <2>1. i <= n
      <3>1. i \in R \ (U \ {i})
        BY <1>5
      <3> QED BY <1>1, <1>13, <3>1 DEF Cut
    <2>2. \A j \in (i+1)..n : es[j].peek
      <3> SUFFICES ASSUME NEW j \in (i+1)..n, ~es[j].peek PROVE FALSE
        OBVIOUS
      <3>1. j \in R
        BY <1>4, <1>5 DEF Real
      <3>2. j # i /\ ~(j < i)
        BY <1>5
      <3>3. j \in U \ {i}
        BY <1>6, <3>1, <3>2
      <3>4. n < j
        BY <1>1, <1>13, <3>3 DEF Cut
      <3> QED BY <1>4, <1>5, <3>4
    <2>3. G[n] = G[i]
      <3>1. Len(es) \in Nat /\ i \in 0..Len(es) /\ n \in i..Len(es)
        BY <1>4, <1>5, <2>1
      <3> HIDE DEF es, s, t
      <3> QED BY <2>2, <3>1, PeeksPass
    <2> QED BY <1>12, <2>3
  <1>14. ASSUME NEW j \in R \ (U \ {i})
         PROVE  /\ \A k \in U \ {i} : j < k
                /\ result'[c][j] = CheckEntry(G[j-1].tats[es[j].key], s, es[j])
    <2>r. /\ result = [d \in Calls |-> result[d]]
          /\ result[c] = [k \in DOMAIN es |-> result[c][k]]
      BY DEF ResultsOK
    <2>u. result'[c] = [result[c] EXCEPT ![i] = v]
      BY <1>1, <2>r
    <2>d. j \in DOMAIN es /\ i \in DOMAIN es
      BY <1>4, <1>5
    <2>1. CASE j = i
      <3>1. result'[c][i] = v
        BY <2>r, <2>u, <2>d
      <3>2. G[i-1].tats = work[c]
        <4> HIDE DEF G
        <4> QED BY <1>7
      <3>3. \A k \in U \ {i} : i < k
        BY <1>1, <1>5 DEF IsFirst
      <3> QED BY <2>1, <3>1, <3>2, <3>3 DEF v
    <2>2. CASE j # i
      <3>1. result'[c][j] = result[c][j]
        BY <2>2, <2>r, <2>u, <2>d
      <3>2. j \in R \ U
        BY <2>2
      <3>3. result[c][j] = CheckEntry(G[j-1].tats[es[j].key], s, es[j])
        BY <1>1, <1>3, <3>2 DEF GroupingOK
      <3> QED BY <1>6, <3>1, <3>2, <3>3
    <2> QED BY <2>1, <2>2
  <1> HIDE DEF G
  <1> QED BY <1>1, <1>3, <1>13, <1>14 DEF GroupingOK

\* What evaluateRealGroup has computed is the group, whoever else moves.
LEMMA GroupingInvStep ==
  ASSUME TypeOK, ResultsOK, StoreInv, HeldInv, HeldInv', WorkingCopyIsCurrent, GroupInv,
         GroupingInv, [Next]_vars, NEW d \in Calls
  PROVE  GroupingOK(d)'
  <1>0. GroupingOK(d)
    BY DEF GroupingInv
  <1>1. ASSUME CallKept(d), ResultsKept(d) PROVE GroupingOK(d)'
    <2> SUFFICES ASSUME pc'[d] = "check" PROVE GroupingOK(d)'
      BY DEF GroupingOK
    <2>1. Seed(d)' = Seed(d)
      BY <1>1, SeedIsStill DEF CallKept
    <2>2. \A n : GroupAt(d, n)' = GroupAt(d, n)
      BY <1>1, <2>1 DEF GroupAt, CallKept
    <2>3. \A n : Cut(d, n)' <=> Cut(d, n)
      BY <1>1 DEF Cut, CallKept
    <2> QED BY <1>0, <1>1, <2>2, <2>3 DEF GroupingOK, CallKept, ResultsKept
  <1>2. CASE BeginCheck(d)
    BY <1>2, GroupingBegins
  <1>3. ASSUME NEW i \in todo[d], Check(d, i) PROVE GroupingOK(d)'
    BY <1>0, <1>3, GroupingAdvances
  <1>4. ASSUME NEW k \in Keys, Lock(d, k) \/ Unlock(d, k) PROVE GroupingOK(d)'
    <2>1. CallKept(d) /\ ResultsKept(d)
      BY <1>4 DEF Lock, Unlock, CallKept, ResultsKept, callVars
    <2> QED BY <1>1, <2>1
  <1>5. ASSUME \/ EnterGroup(d) \/ Commit(d) \/ Return(d)
               \/ \E r \in Requests : Start(d, r)
               \/ \E i \in todo[d] :
                    \/ PeekCheck(d, i) \/ TouchAgain(d, i)
                    \/ \E b \in Buckets : PeekTouch(d, i, b) \/ Touch(d, i, b)
        PROVE  GroupingOK(d)'
    <2>1. pc'[d] # "check"
      <3>1. CASE EnterGroup(d) \/ Commit(d)
        BY <3>1 DEF EnterGroup, Commit, TypeOK
      <3>2. CASE Return(d) \/ \E r \in Requests : Start(d, r)
        BY <3>2 DEF Return, IdleCall, Start, TypeOK
      <3>3. CASE \E i \in todo[d] : PeekCheck(d, i) \/ TouchAgain(d, i)
        BY <3>3 DEF PeekCheck, TouchAgain, TypeOK
      <3>4. CASE \E i \in todo[d], b \in Buckets : PeekTouch(d, i, b) \/ Touch(d, i, b)
        BY <3>4 DEF PeekTouch, Touch, TypeOK
      <3> QED BY <1>5, <3>1, <3>2, <3>3, <3>4
    <2> QED BY <2>1 DEF GroupingOK
  <1> QED BY <1>1, <1>2, <1>3, <1>4, <1>5, OwnSteps DEF CallStep

-----------------------------------------------------------------------------
(* The simulation *)

\* What the mapping makes of one call.
StageOf(c) == CASE pc[c] = "idle" -> "idle"
                [] pc[c] = "unlock" -> "done"
                [] OTHER -> "active"

ReplyOf(c) ==
  [i \in DOMAIN result[c] |->
     IF entries[c][i].peek \/ pc[c] = "unlock" THEN result[c][i] ELSE NoVerdict]

\* The mapping, key by key and call by call.
LEMMA Mapping ==
  /\ KeyTAT = [k \in Keys |-> TatOf(k)]
  /\ Stage = [c \in Calls |-> StageOf(c)] /\ Reply = [c \in Calls |-> ReplyOf(c)]
  <1>1. KeyTAT = [k \in Keys |-> TatOf(k)]
    BY DEF KeyTAT, TatOf, BucketOf
  <1>2. Stage = [c \in Calls |-> StageOf(c)]
    BY DEF Stage, StageOf
  <1>3. Reply = [c \in Calls |-> ReplyOf(c)]
    BY DEF Reply, ReplyOf
  <1> QED BY <1>1, <1>2, <1>3

\* The mapping after a step.
LEMMA MappingNext ==
  /\ KeyTAT' = [k \in Keys |-> TatOf(k)']
  /\ Stage' = [c \in Calls |-> StageOf(c)'] /\ Reply' = [c \in Calls |-> ReplyOf(c)']
  <1>1. KeyTAT' = [k \in Keys |-> TatOf(k)']
    BY DEF KeyTAT, TatOf, BucketOf
  <1>2. Stage' = [c \in Calls |-> StageOf(c)']
    BY DEF Stage, StageOf
  <1>3. Reply' = [c \in Calls |-> ReplyOf(c)']
    BY DEF Reply, ReplyOf
  <1> QED BY <1>1, <1>2, <1>3

\* A call's step is that call's in the atomic specification too.
LEMMA OneCallMoves ==
  ASSUME TypeOK, ResultsOK, NEW c \in Calls, CallStep(c) \/ \E r \in Requests : Start(c, r)
  PROVE  /\ Stage' = [Stage EXCEPT ![c] = StageOf(c)']
         /\ Reply' = [Reply EXCEPT ![c] = ReplyOf(c)']
  <1>0. [Next]_vars
    BY DEF Next
  <1>1. ASSUME NEW d \in Calls, d # c
        PROVE  StageOf(d)' = StageOf(d) /\ ReplyOf(d)' = ReplyOf(d)
    <2>1. CallKept(d)
      BY <1>1, OtherCalls
    <2>2. result'[d] = result[d]
      BY <1>1, ResultSteps DEF ResultsOK
    <2>3. StageOf(d)' = StageOf(d)
      BY <2>1 DEF CallKept, StageOf
    <2>4. ReplyOf(d)' = ReplyOf(d)
      BY <2>1, <2>2 DEF CallKept, ReplyOf
    <2> QED BY <2>3, <2>4
  <1>2. Stage' = [Stage EXCEPT ![c] = StageOf(c)']
    BY <1>1, Mapping, MappingNext
  <1>3. Reply' = [Reply EXCEPT ![c] = ReplyOf(c)']
    BY <1>1, Mapping, MappingNext
  <1> QED BY <1>2, <1>3

\* A call's step that shows nothing.
LEMMA HiddenStep ==
  ASSUME TypeOK, ResultsOK, NEW c \in Calls, CallStep(c),
         clock' = clock, entries' = entries, now' = now,
         \A k \in Keys : TatOf(k)' = TatOf(k),
         StageOf(c)' = StageOf(c), ReplyOf(c)' = ReplyOf(c)
  PROVE  UNCHANGED Atomic!vars
  <1>1. Stage' = [Stage EXCEPT ![c] = StageOf(c)] /\ Reply' = [Reply EXCEPT ![c] = ReplyOf(c)]
    BY OneCallMoves
  <1>2. Stage' = Stage /\ Reply' = Reply
    BY <1>1, Mapping
  <1>3. KeyTAT' = KeyTAT
    BY Mapping, MappingNext
  <1> QED BY <1>2, <1>3 DEF Atomic!vars

\* Start is Begin.
LEMMA StartBegins ==
  ASSUME TypeOK, ResultsOK, NEW c \in Calls, NEW r \in Requests, Start(c, r)
  PROVE  Atomic!Begin(c, r)
  <1>1. /\ pc[c] = "idle" /\ pc'[c] = "scan" /\ entries' = [entries EXCEPT ![c] = r]
        /\ entries'[c] = r /\ now' = [now EXCEPT ![c] = clock] /\ clock' = clock
        /\ hot' = hot /\ cold' = cold /\ tat' = tat
    BY DEF Start, storeVars, TypeOK
  <1>2. result'[c] = [i \in DOMAIN r |-> NoVerdict]
    BY DEF Start, ResultsOK
  <1>3. Stage[c] = "idle" /\ StageOf(c)' = "active"
    BY <1>1, Mapping DEF StageOf
  <1>4. ReplyOf(c)' = [i \in DOMAIN r |-> NoVerdict]
    BY <1>1, <1>2 DEF ReplyOf
  <1>5. KeyTAT' = KeyTAT
    BY <1>1 DEF KeyTAT
  <1>6. /\ Stage' = [Stage EXCEPT ![c] = StageOf(c)']
        /\ Reply' = [Reply EXCEPT ![c] = ReplyOf(c)']
    BY OneCallMoves
  <1> QED BY <1>1, <1>3, <1>4, <1>5, <1>6 DEF Atomic!Begin

\* PeekCheck is Peek.
LEMMA PeekCheckPeeks ==
  ASSUME TypeOK, ResultsOK, HeldInv, PeekInv, NEW c \in Calls, NEW i \in todo[c],
         PeekCheck(c, i)
  PROVE  Atomic!Peek(c, i) /\ i \in DOMAIN entries[c]
  <1> DEFINE e == entries[c][i]
             v == CheckEntry(tat[held[c][e.key]], now[c], e)
  <1>0. PeeksOK(c) /\ CallStep(c)
    BY DEF PeekInv, CallStep
  <1>1. /\ pc[c] = "peek" /\ pc'[c] = "scan" /\ IsFirst(i, todo[c])
        /\ result' = [result EXCEPT ![c][i] = v]
        /\ clock' = clock /\ entries' = entries /\ now' = now
        /\ hot' = hot /\ cold' = cold /\ tat' = tat
    BY DEF PeekCheck, storeVars, TypeOK
  <1>2. i \in Peeks(entries[c]) /\ result[c][i] = NoVerdict /\ e.key \in Touched(c)
    BY <1>0, <1>1 DEF PeeksOK
  <1>3. i \in DOMAIN entries[c] /\ e.peek
    BY <1>2 DEF Peeks
  <1>4. e.key \in Keys /\ tat[held[c][e.key]] = TatOf(e.key)
    BY <1>2 DEF HeldInv, TatOf, Touched
  <1>5. v = Atomic!CheckEntry(KeyTAT[e.key], now[c], e)
    BY <1>4, SameBatch, Mapping
  <1>6. KeyTAT' = KeyTAT
    BY <1>1 DEF KeyTAT
  <1>7. StageOf(c) = "active" /\ StageOf(c)' = "active"
    BY <1>1 DEF StageOf
  <1> HIDE DEF v
  <1>8. /\ result = [d \in Calls |-> result[d]]
        /\ result[c] = [j \in DOMAIN entries[c] |-> result[c][j]]
    BY DEF ResultsOK
  <1>9. result'[c] = [result[c] EXCEPT ![i] = v]
    BY <1>1, <1>8
  <1>10. ReplyOf(c)' = [ReplyOf(c) EXCEPT ![i] = v] /\ ReplyOf(c)[i] = NoVerdict
    <2> DEFINE f == result[c]
               D == DOMAIN entries[c]
               g == [f EXCEPT ![i] = v]
               P(j) == entries[c][j].peek
    <2>1. f = [j \in D |-> f[j]] /\ result'[c] = g /\ i \in D /\ P(i) /\ f[i] = NoVerdict
      BY <1>2, <1>3, <1>8, <1>9
    <2>2. ReplyOf(c) = [j \in DOMAIN f |-> IF P(j) THEN f[j] ELSE NoVerdict]
      BY <1>1 DEF ReplyOf
    <2>3. ReplyOf(c)' = [j \in DOMAIN g |-> IF P(j) THEN g[j] ELSE NoVerdict]
      BY <1>1, <2>1 DEF ReplyOf
    <2> HIDE DEF f, D, P
    <2>4. DOMAIN f = D /\ DOMAIN g = D /\ \A j \in D : g[j] = IF j = i THEN v ELSE f[j]
      BY <2>1
    <2> HIDE DEF g
    <2> QED BY <2>1, <2>2, <2>3, <2>4
  <1>11. Stage' = Stage
    BY <1>0, <1>7, OneCallMoves, Mapping
  <1>12. Reply' = [Reply EXCEPT ![c][i] = v] /\ Reply[c][i] = NoVerdict
    <2>1. Reply' = [Reply EXCEPT ![c] = ReplyOf(c)']
      BY <1>0, OneCallMoves
    <2>2. Reply[c] = ReplyOf(c) /\ Reply = [d \in Calls |-> Reply[d]]
      BY Mapping
    <2> QED BY <1>10, <2>1, <2>2
  <1>13. Stage[c] = "active"
    BY <1>7, Mapping
  <1> QED BY <1>1, <1>3, <1>5, <1>6, <1>11, <1>12, <1>13 DEF Atomic!Peek

\* What makes a step of a call its transaction.
LEMMA IsTransact ==
  ASSUME TypeOK, ResultsOK, PeekInv, NEW c \in Calls, CallStep(c),
         pc[c] \in {"scan", "touch", "check"}, pc[c] = "scan" => todo[c] = {},
         pc'[c] = "unlock", UNCHANGED <<clock, entries, now, result>>,
         KeyTAT' = Committed(entries[c], KeyTAT, now[c]),
         \A i \in Real(entries[c]) :
           result[c][i] = CheckEntry(Group(entries[c], KeyTAT, now[c])[i-1].tats[entries[c][i].key],
                                     now[c], entries[c][i])
  PROVE  Atomic!Transact(c)
  <1> DEFINE es == entries[c]
             s  == now[c]
             g  == Group(es, KeyTAT, s)
             W(i) == CheckEntry(g[i-1].tats[es[i].key], s, es[i])
             A(i) == Atomic!CheckEntry(Atomic!Group(es, KeyTAT, s)[i-1].tats[es[i].key], s, es[i])
  <1>1. Stage[c] = "active" /\ StageOf(c)' = "done"
    BY Mapping DEF StageOf
  <1>2. result[c] = [i \in DOMAIN es |-> result[c][i]]
    BY DEF ResultsOK
  <1>3. Reply[c] = [i \in DOMAIN es |-> IF es[i].peek THEN result[c][i] ELSE NoVerdict]
    BY <1>2, Mapping DEF ReplyOf
  <1>4. ReplyOf(c)' = [i \in DOMAIN es |-> result[c][i]]
    BY <1>2 DEF ReplyOf
  <1>5. \A i \in DOMAIN es : es[i].peek => result[c][i] # NoVerdict
    BY DEF PeekInv, PeeksOK, Peeks
  <1>6. \A i \in DOMAIN es : es[i].peek \/ result[c][i] = W(i)
    BY DEF Real
  <1>7. \A i : W(i) = A(i)
    BY SameBatch
  <1>8. Committed(es, KeyTAT, s) = Atomic!Committed(es, KeyTAT, s)
    BY SameBatch
  <1>9. /\ Stage' = [Stage EXCEPT ![c] = "done"]
        /\ Reply' = [Reply EXCEPT ![c] = ReplyOf(c)']
    BY <1>1, OneCallMoves
  <1> HIDE DEF W, A
  <1>10. ReplyOf(c)' = [i \in DOMAIN es |-> IF es[i].peek THEN Reply[c][i] ELSE A(i)]
    BY <1>3, <1>4, <1>6, <1>7
  <1>11. \A i \in DOMAIN es : es[i].peek => Reply[c][i] # NoVerdict
    BY <1>3, <1>5
  <1>12. KeyTAT' = Atomic!Committed(es, KeyTAT, s)
    BY <1>8
  <1> QED BY <1>1, <1>9, <1>10, <1>11, <1>12 DEF Atomic!Transact, A

\* A call without real entries has an empty transaction.
LEMMA EnterGroupTransacts ==
  ASSUME TypeOK, ResultsOK, PeekInv, NEW c \in Calls, EnterGroup(c), Real(entries[c]) = {}
  PROVE  Atomic!Transact(c)
  <1> DEFINE es == entries[c]
             s  == now[c]
             t  == KeyTAT
  <1>1. /\ pc[c] = "scan" /\ todo[c] = {} /\ pc'[c] = "unlock" /\ CallStep(c)
        /\ UNCHANGED <<clock, entries, now, result, hot, cold, tat>>
    BY DEF EnterGroup, storeVars, CallStep, TypeOK
  <1>2. KeyTAT' = KeyTAT
    BY <1>1 DEF KeyTAT
  <1>3. Len(es) \in Nat /\ DOMAIN es = 1..Len(es)
    BY GroupAtType
  <1>4. \A j \in (0+1)..Len(es) : es[j].peek
    BY <1>3 DEF Real
  <1>5. Committed(es, t, s) = t
    <2>1. 0 \in 0..Len(es) /\ Len(es) \in 0..Len(es)
      BY <1>3
    <2> HIDE DEF es, s, t
    <2>2. Group(es, t, s)[Len(es)] = Group(es, t, s)[0]
      BY <1>3, <1>4, <2>1, PeeksPass
    <2>3. Group(es, t, s)[0] = GroupStart(t)
      BY <1>3, GroupUnfolds
    <2> QED BY <2>2, <2>3 DEF Committed, GroupStart
  <1> QED BY <1>1, <1>2, <1>5, IsTransact

\* Commit is the transaction of a call with real entries: what it computed from
\* the buckets it holds is what the whole map would have given.
LEMMA CommitTransacts ==
  ASSUME TypeOK, StoreInv, HeldInv, GroupInv, ResultsOK, PeekInv, GroupingInv,
         NEW c \in Calls, Commit(c)
  PROVE  Atomic!Transact(c)
  <1> DEFINE es == entries[c]
             s  == now[c]
             t  == KeyTAT
             u  == Seed(c)
             T  == Touched(c)
             G  == Group(es, t, s)
             H  == Group(es, u, s)
  <1>1. /\ pc[c] = "check" /\ todo[c] = {} /\ pc'[c] = "unlock" /\ CallStep(c)
        /\ UNCHANGED <<clock, entries, now, result>>
    BY DEF Commit, CallStep, TypeOK
  <1>2. /\ es \in Seq(EntryOf(Keys)) /\ s \in Nat /\ u \in [Keys -> Nat]
        /\ Len(es) \in Nat /\ DOMAIN es = 1..Len(es)
    BY GroupAtType
  <1>3. /\ t \in [Keys -> Nat] /\ T \in SUBSET Keys /\ \A k \in T : t[k] = u[k]
        /\ \A k \in Keys : t[k] = TatOf(k)
    BY Mapping, RateTypes DEF Seed, Touched
  <1>4. \A i \in DOMAIN es : es[i].peek \/ es[i].key \in T
    BY <1>1 DEF GroupInv, GroupOK, Real
  <1>5. \A n \in 0..Len(es) :
          /\ G[n].admitted = H[n].admitted
          /\ \A k \in T : G[n].tats[k] = H[n].tats[k]
          /\ \A k \in Keys \ T : G[n].tats[k] = t[k]
    <2> HIDE DEF es, s, t, u, T
    <2>1. /\ es \in Seq(EntryOf(Keys)) /\ t \in [Keys -> Nat] /\ u \in [Keys -> Nat]
          /\ s \in Nat /\ T \in SUBSET Keys
      BY <1>2, <1>3
    <2>2. AgreeOn(T, t, u) /\ Covers(T, es)
      BY <1>3, <1>4 DEF AgreeOn, Covers
    <2>3. \A n \in 0..Len(es) :
            LET g == Group(es, t, s)[n]
                h == Group(es, u, s)[n]
            IN  /\ g.admitted = h.admitted
                /\ \A k \in T : g.tats[k] = h.tats[k]
                /\ \A k \in Keys \ T : g.tats[k] = t[k]
      BY <2>1, <2>2, GroupFrame
    <2> QED BY <2>3
  <1>6. /\ \A i \in Real(es) : result[c][i] = CheckEntry(H[i-1].tats[es[i].key], s, es[i])
        /\ H[Len(es)] = [tats |-> work[c], admitted |-> admitAll[c]]
    <2>1. GroupingOK(c) /\ Real(es) \subseteq 1..Len(es)
      BY <1>2, IndexSets DEF GroupingInv
    <2>2. Cut(c, Len(es)) /\ Len(es) \in 0..Len(es)
      BY <1>1, <1>2, <2>1 DEF Cut
    <2> QED BY <1>1, <2>1, <2>2 DEF GroupingOK, GroupAt
  <1>7. \A i \in Real(es) : result[c][i] = CheckEntry(G[i-1].tats[es[i].key], s, es[i])
    <2> SUFFICES ASSUME NEW i \in Real(es)
                 PROVE  result[c][i] = CheckEntry(G[i-1].tats[es[i].key], s, es[i])
      OBVIOUS
    <2>1. i \in DOMAIN es /\ ~es[i].peek
      BY DEF Real
    <2>2. es[i].key \in T /\ i - 1 \in 0..Len(es)
      BY <1>2, <1>4, <2>1
    <2>3. G[i-1].tats[es[i].key] = H[i-1].tats[es[i].key]
      BY <1>5, <2>2
    <2> QED BY <1>6, <2>3
  <1>8. KeyTAT' = Committed(es, t, s)
    <2> DEFINE g == G[Len(es)]
               cm == Committed(es, t, s)
    <2>1. cm \in [Keys -> Nat] /\ cm = IF g.admitted THEN g.tats ELSE t
      <3> HIDE DEF es, s, t
      <3> QED BY <1>2, <1>3, CommittedType DEF Committed
    <2>2. /\ g.admitted = admitAll[c] /\ \A k \in T : g.tats[k] = work[c][k]
          /\ \A k \in Keys \ T : g.tats[k] = t[k]
      <3>1. Len(es) \in 0..Len(es)
        BY <1>2
      <3>2. H[Len(es)].admitted = admitAll[c] /\ H[Len(es)].tats = work[c]
        <4> HIDE DEF H
        <4> QED BY <1>6
      <3> HIDE DEF G, H
      <3> QED BY <1>5, <3>1, <3>2
    <2>3. KeyTAT' = [k \in Keys |-> TatOf(k)']
      BY MappingNext
    <2>4. ASSUME NEW k \in Keys PROVE TatOf(k)' = cm[k]
      <3>1. TatOf(k)' = IF admitAll[c] /\ k \in Touched(c) THEN work[c][k] ELSE TatOf(k)
        BY CommitTat
      <3>2. t[k] = TatOf(k)
        BY <1>3
      <3> HIDE DEF cm, g, t
      <3> QED BY <2>1, <2>2, <3>1, <3>2
    <2> HIDE DEF cm
    <2>5. cm = [k \in Keys |-> cm[k]]
      BY <2>1
    <2>6. KeyTAT' = cm
      BY <2>3, <2>4, <2>5
    <2> QED BY <2>6 DEF cm
  <1> QED BY <1>1, <1>7, <1>8, IsTransact

\* Return is End.
LEMMA ReturnEnds ==
  ASSUME TypeOK, ResultsOK, NEW c \in Calls, Return(c)
  PROVE  Atomic!End(c)
  <1>1. /\ pc[c] = "unlock" /\ pc'[c] = "idle" /\ result'[c] = <<>>
        /\ entries' = [entries EXCEPT ![c] = <<>>] /\ now' = [now EXCEPT ![c] = 0]
        /\ UNCHANGED <<clock, hot, cold, tat>> /\ CallStep(c)
    BY DEF Return, IdleCall, storeVars, CallStep, TypeOK, ResultsOK
  <1>2. Stage[c] = "done" /\ StageOf(c)' = "idle"
    BY <1>1, Mapping DEF StageOf
  <1>3. ReplyOf(c)' = <<>>
    <2>1. DOMAIN result'[c] = {}
      BY <1>1
    <2> QED BY <2>1 DEF ReplyOf
  <1>4. KeyTAT' = KeyTAT
    BY <1>1 DEF KeyTAT
  <1> QED BY <1>1, <1>2, <1>3, <1>4, OneCallMoves DEF Atomic!End

\* Rotate forgets the keys it drops, and they have drained.
LEMMA RotateForgets ==
  ASSUME CallsAreShort, TypeOK, StoreInv, TimingInv, DrainInv, Rotate
  PROVE  \E K \in SUBSET Keys : Atomic!Forget(K)
  <1> DEFINE K == {k \in Keys : StripeOf[k] = gcAt /\ age[k] = 1}
  <1>0. RoundInv /\ AgeInv /\ KeyLifetime /\ MaxCallTime \in Nat /\ clock \in Nat
    BY ThrottlerAssumption DEF TimingInv, StoreInv, TypeOK, Time
  <1>1. /\ UNCHANGED <<clock, entries, now, pc, result, tat>>
    BY DEF Rotate, callVars
  <1>2. Stage' = Stage /\ Reply' = Reply
    BY <1>1 DEF Stage, Reply
  <1>3. ASSUME NEW k \in K
        PROVE  /\ KeyTAT[k] <= clock
               /\ \A c \in Calls : Stage[c] # "idle" => KeyTAT[k] <= now[c]
    <2>1. TatOf(k) <= clock - MaxCallTime /\ TatOf(k) \in Nat
      <3>1. TatWithin(k, Slack)
        BY DEF DrainInv
      <3> QED BY <1>0, <3>1, SlackType, DroppedIsDrained, RateTypes
    <2>2. KeyTAT[k] = TatOf(k)
      BY Mapping
    <2>3. ASSUME NEW c \in Calls, Stage[c] # "idle" PROVE TatOf(k) <= now[c]
      <3>1. pc[c] # "idle"
        BY <2>3, Mapping DEF StageOf
      <3>2. clock <= now[c] + MaxCallTime /\ now[c] \in Nat
        BY <1>0, <3>1, RateTypes DEF AgeInv
      <3> QED BY <1>0, <2>1, <3>2
    <2> QED BY <1>0, <2>1, <2>2, <2>3
  <1>4. KeyTAT' = [k \in Keys |-> IF k \in K THEN 0 ELSE KeyTAT[k]]
    <2>1. ASSUME NEW k \in Keys PROVE TatOf(k)' = IF k \in K THEN 0 ELSE TatOf(k)
      <3>0. age[k] \in 0..2
        BY DEF TypeOK
      <3>1. CASE k \in K
        <4>1. BucketOf(k)' = NoBucket
          BY <1>0, <3>1, RotateEffect
        <4> QED BY <3>1, <4>1 DEF TatOf
      <3>2. CASE StripeOf[k] = gcAt /\ age[k] = 2
        <4>1. BucketOf(k)' = NoBucket /\ BucketOf(k) = NoBucket
          BY <1>0, <3>2, RotateEffect DEF KeyLifetime, BucketOf
        <4> QED BY <3>2, <4>1 DEF TatOf
      <3>3. CASE StripeOf[k] # gcAt \/ age[k] = 0
        <4>1. BucketOf(k)' = BucketOf(k)
          BY <1>0, <3>3, RotateEffect
        <4> QED BY <1>1, <3>3, <4>1 DEF TatOf
      <3> QED BY <3>0, <3>1, <3>2, <3>3
    <2> QED BY <2>1, Mapping, MappingNext
  <1>5. Atomic!Forget(K)
    <2> HIDE DEF K
    <2> QED BY <1>1, <1>2, <1>3, <1>4 DEF Atomic!Forget
  <1> QED BY <1>5

\* The steps inside evaluateRealGroup, and the getOrCreate of a peek, are hidden.
LEMMA InnerSteps ==
  ASSUME TypeOK, StoreInv, GroupInv, ResultsOK, NEW c \in Calls,
         \/ BeginCheck(c)
         \/ \E i \in todo[c] :
              \/ TouchAgain(c, i) \/ Check(c, i)
              \/ \E b \in Buckets : PeekTouch(c, i, b) \/ Touch(c, i, b)
         \/ \E k \in Keys : Lock(c, k) \/ Unlock(c, k)
  PROVE  UNCHANGED Atomic!vars
  <1> USE DEF storeVars, callVars
  <1>0. CallStep(c)
    BY DEF CallStep
  <1>1. CASE \E k \in Keys : Lock(c, k) \/ Unlock(c, k)
    <2>1. UNCHANGED <<clock, entries, now, pc, result, hot, cold, tat>>
      BY <1>1 DEF Lock, Unlock
    <2> QED BY <1>0, <2>1, HiddenStep DEF TatOf, BucketOf, StageOf, ReplyOf
  <1>2. CASE BeginCheck(c)
    <2>1. /\ UNCHANGED <<clock, entries, now, result, hot, cold, tat>>
          /\ pc[c] = "touch" /\ pc'[c] = "check"
      BY <1>2 DEF BeginCheck, TypeOK
    <2> QED BY <1>0, <2>1, HiddenStep DEF TatOf, BucketOf, StageOf, ReplyOf
  <1>3. ASSUME NEW i \in todo[c], TouchAgain(c, i) PROVE UNCHANGED Atomic!vars
    <2>1. UNCHANGED <<clock, entries, now, pc, result, hot, cold, tat>>
      BY <1>3 DEF TouchAgain
    <2> QED BY <1>0, <2>1, HiddenStep DEF TatOf, BucketOf, StageOf, ReplyOf
  <1>4. ASSUME NEW i \in todo[c], NEW b \in Buckets, PeekTouch(c, i, b) \/ Touch(c, i, b)
        PROVE  UNCHANGED Atomic!vars
    <2>1. /\ UNCHANGED <<clock, entries, now, result>> /\ getOrCreate(entries[c][i].key, b)
          /\ \/ pc'[c] = pc[c]
             \/ pc[c] = "scan" /\ pc'[c] = "peek"
      BY <1>4 DEF PeekTouch, Touch, TypeOK
    <2>2. entries[c][i].key \in Keys
      BY EntryType
    <2>3. \A k \in Keys : TatOf(k)' = TatOf(k)
      BY <2>1, <2>2, GetOrCreateTat
    <2>4. StageOf(c)' = StageOf(c) /\ ReplyOf(c)' = ReplyOf(c)
      BY <2>1 DEF StageOf, ReplyOf
    <2> QED BY <1>0, <2>1, <2>3, <2>4, HiddenStep
  <1>5. ASSUME NEW i \in todo[c], Check(c, i) PROVE UNCHANGED Atomic!vars
    <2> DEFINE D == DOMAIN entries[c]
    <2>1. /\ UNCHANGED <<clock, entries, now, pc, hot, cold, tat>> /\ pc[c] = "check"
          /\ \E v : result' = [result EXCEPT ![c][i] = v]
      BY <1>5 DEF Check
    <2>2. ~entries[c][i].peek
      BY <2>1 DEF GroupInv, GroupOK, Real
    <2>3. /\ \A j \in D : j # i => result'[c][j] = result[c][j]
          /\ DOMAIN result[c] = D /\ DOMAIN result'[c] = D
      BY <2>1, OneResult DEF ResultsOK
    <2>4. ReplyOf(c)' = ReplyOf(c)
      BY <2>1, <2>2, <2>3 DEF ReplyOf
    <2> QED BY <1>0, <2>1, <2>4, HiddenStep DEF TatOf, BucketOf, StageOf
  <1> QED BY <1>1, <1>2, <1>3, <1>4, <1>5

\* Every step of the implementation is one of the atomic specification, or shows
\* nothing.
LEMMA Simulation ==
  ASSUME CallsAreShort, TypeOK, StoreInv, TimingInv, HeldInv, DrainInv, ResultsOK, PeekInv,
         GroupingInv, [Next]_vars
  PROVE  [Atomic!Next]_(Atomic!vars)
  <1>0. GroupInv
    BY DEF TimingInv
  <1>1. CASE Tick
    <2>1. UNCHANGED <<entries, now, pc, result, hot, cold, tat>>
      BY <1>1 DEF Tick, storeVars, callVars
    <2>2. KeyTAT' = KeyTAT /\ Stage' = Stage /\ Reply' = Reply
      BY <2>1 DEF KeyTAT, Stage, Reply
    <2>3. Atomic!Tick
      BY <1>1, <2>1, <2>2 DEF Tick, Atomic!Tick
    <2> QED BY <2>3 DEF Atomic!Next
  <1>2. CASE GCWake \/ UNCHANGED vars
    <2>1. UNCHANGED <<clock, entries, now, pc, result, hot, cold, tat>>
      BY <1>2 DEF GCWake, vars, storeVars, callVars
    <2>2. KeyTAT' = KeyTAT /\ Stage' = Stage /\ Reply' = Reply
      BY <2>1 DEF KeyTAT, Stage, Reply
    <2> QED BY <2>1, <2>2 DEF Atomic!vars
  <1>3. CASE Rotate
    BY <1>3, RotateForgets DEF Atomic!Next
  <1>4. ASSUME NEW c \in Calls, NEW r \in Requests, Start(c, r)
        PROVE  [Atomic!Next]_(Atomic!vars)
    BY <1>4, StartBegins DEF Atomic!Next
  <1>5. ASSUME NEW c \in Calls, NEW i \in todo[c], PeekCheck(c, i)
        PROVE  [Atomic!Next]_(Atomic!vars)
    BY <1>5, PeekCheckPeeks DEF Atomic!Next
  <1>6. ASSUME NEW c \in Calls, EnterGroup(c)
        PROVE  [Atomic!Next]_(Atomic!vars)
    <2>1. CASE Real(entries[c]) = {}
      BY <1>6, <2>1, EnterGroupTransacts DEF Atomic!Next
    <2>2. CASE Real(entries[c]) # {}
      <3>1. /\ UNCHANGED <<clock, entries, now, result, hot, cold, tat>> /\ CallStep(c)
            /\ pc[c] = "scan" /\ pc'[c] = "touch"
        BY <1>6, <2>2 DEF EnterGroup, storeVars, CallStep, TypeOK
      <3> QED BY <3>1, HiddenStep DEF TatOf, BucketOf, StageOf, ReplyOf
    <2> QED BY <2>1, <2>2
  <1>7. ASSUME NEW c \in Calls, Commit(c) PROVE [Atomic!Next]_(Atomic!vars)
    BY <1>0, <1>7, CommitTransacts DEF Atomic!Next
  <1>8. ASSUME NEW c \in Calls, Return(c) PROVE [Atomic!Next]_(Atomic!vars)
    BY <1>8, ReturnEnds DEF Atomic!Next
  <1>9. ASSUME NEW c \in Calls, CallStep(c) PROVE [Atomic!Next]_(Atomic!vars)
    BY <1>0, <1>5, <1>6, <1>7, <1>8, <1>9, InnerSteps DEF CallStep
  <1> QED BY <1>1, <1>2, <1>3, <1>4, <1>9 DEF Next

\* What the simulation needs beside the invariants of the rate limit.
CallInv == ResultsOK /\ PeekInv /\ GroupingInv

\* No call has started, and no key has been seen.
LEMMA SimulationInit == Init => HeldInv /\ CallInv /\ Atomic!Init
  <1> SUFFICES ASSUME Init PROVE HeldInv /\ CallInv /\ Atomic!Init
    OBVIOUS
  <1>1. HeldInv
    BY DEF Init, HeldInv, Touched
  <1>2. ResultsOK
    <2>1. ASSUME NEW c \in Calls PROVE result[c] = [i \in DOMAIN entries[c] |-> result[c][i]]
      <3>1. result[c] = <<>> /\ entries[c] = <<>>
        BY DEF Init
      <3> QED BY <3>1
    <2>2. result = [c \in Calls |-> result[c]]
      BY DEF Init
    <2> QED BY <2>1, <2>2 DEF ResultsOK
  <1>3. PeekInv /\ GroupingInv
    BY DEF Init, PeekInv, PeeksOK, GroupingInv, GroupingOK
  <1>4. KeyTAT = [k \in Keys |-> 0] /\ Stage = [c \in Calls |-> "idle"]
    BY DEF Init, KeyTAT, Stage
  <1>5. Reply = [c \in Calls |-> <<>>]
    <2>1. ASSUME NEW c \in Calls PROVE ReplyOf(c) = <<>>
      <3>1. result[c] = <<>> /\ DOMAIN result[c] = {}
        BY DEF Init
      <3> QED BY <3>1 DEF ReplyOf
    <2> QED BY <2>1, Mapping
  <1>6. clock = 1 /\ entries = [c \in Calls |-> <<>>] /\ now = [c \in Calls |-> 0]
    BY DEF Init
  <1> QED BY <1>1, <1>2, <1>3, <1>4, <1>5, <1>6 DEF CallInv, Atomic!Init

\* Throttle is linearizable: whatever the number of calls and keys and the
\* interleaving of their steps with each other, the rotations and the clock, its
\* callers see one atomic transaction per call (every limit they ask for drains
\* before its bucket may be dropped, and calls are shorter than a GC interval).
THEOREM CallsAreAtomic == ASSUME CallsAreShort, BurstsDrain PROVE Spec => Linearizable
  <1>1. Init => HeldInv /\ CallInv /\ Atomic!Init
    BY SimulationInit
  <1>2. Init => DrainInv
    BY DrainInvInit
  <1>3. TypeOK /\ StoreInv /\ TimingInv /\ HeldInv /\ [Next]_vars => HeldInv'
    BY HeldInvStep
  <1>4. TypeOK /\ TypeOK' /\ StoreInv /\ TimingInv /\ HeldInv /\ WorkingCopyIsCurrent
          /\ DrainInv /\ [Next]_vars => DrainInv'
    BY DrainInvStep
  <1>5. TypeOK /\ StoreInv /\ TimingInv /\ HeldInv /\ HeldInv' /\ WorkingCopyIsCurrent
          /\ CallInv /\ [Next]_vars => CallInv'
    <2> SUFFICES ASSUME TypeOK, StoreInv, TimingInv, HeldInv, HeldInv', WorkingCopyIsCurrent,
                        CallInv, [Next]_vars
                 PROVE  CallInv'
      OBVIOUS
    <2>1. ResultsOK /\ PeekInv /\ GroupingInv /\ GroupInv
      BY DEF CallInv, TimingInv
    <2>2. ResultsOK'
      BY <2>1, ResultsOKStep
    <2>3. \A d \in Calls : PeeksOK(d)'
      BY <2>1, PeekInvStep
    <2>4. \A d \in Calls : GroupingOK(d)'
      BY <2>1, GroupingInvStep
    <2> QED BY <2>2, <2>3, <2>4 DEF CallInv, PeekInv, GroupingInv
  <1>6. TypeOK /\ StoreInv /\ TimingInv /\ HeldInv /\ DrainInv /\ CallInv /\ [Next]_vars
          => [Atomic!Next]_(Atomic!vars)
    BY Simulation DEF CallInv
  <1> QED BY <1>1, <1>2, <1>3, <1>4, <1>5, <1>6, TypeOKInit, TypeOKStep, StoreInvInit,
             StoreInvStep, TimingInvInit, TimingInvStep, CopyStaysCurrent, PTL
             DEF Spec, Linearizable, Atomic!Spec
=============================================================================
