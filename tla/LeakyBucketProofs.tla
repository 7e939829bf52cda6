-------------------------- MODULE LeakyBucketProofs --------------------------
(***************************************************************************)
(* The sequential contract of gcraCheck, for every word width, limit, cost *)
(* and history of the bucket; and, over such a bucket, what a call of any  *)
(* number of entries over the wire reports and commits.                    *)
(***************************************************************************)
EXTENDS Wire, GcraProofs, SequenceTheorems

\* The state's own types: all the contract needs of a bucket's history.
StateOK == tat \in 0..MaxInt64 /\ now \in 1..MaxNow

\* A request of the model, normalised, is made of integers.
LEMMA RequestType ==
  ASSUME NEW l \in Limits, NEW c \in Costs
  PROVE  /\ Cap(l) \in Int /\ Unit(l) \in Nat \ {0} /\ Per(l) \in Int
         /\ Cost(c) \in Nat \ {0}
         /\ \A t : VerdictAt(t, l, c) =
                     gcraCheck(tat, t, Cap(l), Unit(l), Per(l), Cost(c))
  <1>1. /\ l.capacity \in Int /\ l.units \in Int /\ l.period \in Int /\ c \in Int
    BY LeakyBucketAssumption, WidthAssumption DEF Int64
  <1> QED BY <1>1 DEF Cap, Unit, Per, Cost, EffectiveUnits, EffectiveCost,
                      VerdictAt, CheckEntry, Entry

\* The TAT that gcraCheck stores always fits an int64.
LEMMA StateOKInvariant == Spec => []StateOK
  <1>1. Init => StateOK
    BY WidthAssumption, LeakyBucketAssumption DEF Init, StateOK
  <1>2. StateOK /\ [Next]_vars => StateOK'
    <2> SUFFICES ASSUME StateOK, [Next]_vars PROVE StateOK'
      OBVIOUS
    <2>1. CASE Tick
      BY <2>1, LeakyBucketAssumption, WidthAssumption DEF Tick, StateOK
    <2>2. ASSUME NEW l \in Limits, NEW c \in Costs, Consume(l, c) PROVE StateOK'
      <3> DEFINE v == gcraCheck(tat, now, Cap(l), Unit(l), Per(l), Cost(c))
      <3>1. tat' = v.tat /\ now' = now
        BY <2>2, RequestType DEF Consume
      <3>2. tat \in Nat /\ now \in Nat
        BY LeakyBucketAssumption DEF StateOK
      <3>3. CASE v.throttled
        BY <3>1, <3>3, RefusedKeepsTat DEF StateOK
      <3>4. CASE ~v.throttled
        <4>0. /\ Cap(l) \in Int /\ Unit(l) \in Int /\ Per(l) \in Int /\ Cost(c) \in Int
          BY RequestType
        <4>1. v.tat \in Nat /\ v.tat <= MaxInt64
          BY <3>2, <3>4, <4>0, AdmittedMovesTat
        <4> HIDE DEF v
        <4> QED BY <3>1, <4>1, WidthAssumption DEF StateOK
      <3> QED BY <3>3, <3>4
    <2>3. CASE UNCHANGED vars
      BY <2>3 DEF vars, StateOK
    <2> QED BY <2>1, <2>2, <2>3 DEF Next
  <1> QED BY <1>1, <1>2, PTL DEF Spec

\* gcraCheck admits nothing the exact leaky bucket has no room for, for every
\* limit, cost and history: rounding maxDebt down and costNs up is safe.
THEOREM AdmissionIsSafe == Spec => []NeverOverAdmits
  <1>1. StateOK => NeverOverAdmits
    <2> SUFFICES ASSUME StateOK, NEW l \in Limits, NEW c \in Costs,
                        ~VerdictAt(now, l, c).throttled
                 PROVE  Level * Unit(l) + Cost(c) * Per(l) <= Cap(l) * Per(l)
      BY DEF NeverOverAdmits
    <2>1. tat \in Nat /\ now \in Nat
      BY LeakyBucketAssumption DEF StateOK
    <2>2. /\ Cap(l) \in Int /\ Unit(l) \in Int /\ Per(l) \in Int /\ Cost(c) \in Int
          /\ ~gcraCheck(tat, now, Cap(l), Unit(l), Per(l), Cost(c)).throttled
      BY RequestType
    <2> QED BY <2>1, <2>2, AdmittedFits DEF Level
  <1> QED BY <1>1, StateOKInvariant, PTL

\* A refusal that reports no retry time is never lifted by waiting.
THEOREM FinalRefusals == Spec => []ZeroRetryIsFinal
  <1>1. StateOK => ZeroRetryIsFinal
    <2> SUFFICES ASSUME StateOK, NEW l \in Limits, NEW c \in Costs,
                        VerdictAt(now, l, c).throttled,
                        VerdictAt(now, l, c).retryAfter = 0,
                        NEW t \in now..MaxInt64
                 PROVE  VerdictAt(t, l, c).throttled
      BY DEF ZeroRetryIsFinal
    <2> DEFINE H(s) == Hopeless(tat, s, Cap(l), Unit(l), Per(l), Cost(c))
               X(s) == Excess(tat, s, Cap(l), Unit(l), Per(l), Cost(c))
    <2>1. tat \in Nat /\ now \in Nat /\ t \in Nat /\ t >= now
      BY LeakyBucketAssumption, WidthAssumption DEF StateOK
    <2>2. \A s : VerdictAt(s, l, c).throttled <=> (H(s) \/ X(s) > 0)
      BY RequestType, VerdictCases
    <2>3. H(now)
      <3>1. H(now) \/ X(now) > 0
        BY <2>2
      <3>2. ~H(now) /\ X(now) > 0 => VerdictAt(now, l, c).retryAfter = X(now)
        BY RequestType, VerdictCases
      <3>3. ~H(now) /\ X(now) > 0 => X(now) # 0
        <4> HIDE DEF X
        <4> QED BY SMT
      <3> QED BY <3>1, <3>2, <3>3
    <2>4. H(t)
      <3>1. CASE BadShape(Cap(l), Unit(l), Per(l), Cost(c)) \/ Cost(c) > Cap(l)
        BY <3>1 DEF Hopeless
      <3>2. CASE ~BadShape(Cap(l), Unit(l), Per(l), Cost(c)) /\ ~(Cost(c) > Cap(l))
        <4>1. ~Candidate(tat, now, Unit(l), Per(l), Cost(c)).ok
          BY <2>3, <3>2 DEF Hopeless
        <4> DEFINE cn == CostNs(Cost(c), Unit(l), Per(l)).val
        <4>0. Cap(l) \in Int /\ Unit(l) \in Int /\ Per(l) \in Int /\ Cost(c) \in Int
          BY RequestType
        <4>2. cn \in Nat /\ ~(max(tat, now) + cn <= MaxInt64)
          <5> DEFINE cp == Cap(l)
                     un == Unit(l)
                     pr == Per(l)
                     co == Cost(c)
          <5>1. /\ cp \in Int /\ un \in Int /\ pr \in Int /\ co \in Int
                /\ ~BadShape(cp, un, pr, co) /\ ~Candidate(tat, now, un, pr, co).ok
            BY <3>2, <4>0, <4>1
          <5> HIDE DEF cp, un, pr, co
          <5>2. /\ CostNs(co, un, pr).val \in Nat
                /\ ~(max(tat, now) + CostNs(co, un, pr).val <= MaxInt64)
            BY <2>1, <5>1, CandidateExact
          <5> QED BY <5>2 DEF cp, un, pr, co
        <4> HIDE DEF cn
        <4>3. ~(max(tat, t) + cn <= MaxInt64)
          BY <2>1, <4>2, WidthAssumption DEF max
        <4>4. ~Candidate(tat, t, Unit(l), Per(l), Cost(c)).ok
          BY <2>1, <3>2, <4>0, <4>3, CandidateExact DEF cn
        <4> QED BY <4>4 DEF Hopeless
      <3> QED BY <3>1, <3>2
    <2> QED BY <2>2, <2>4
  <1> QED BY <1>1, StateOKInvariant, PTL

\* A request that fits an empty bucket and is told to wait is refused until
\* exactly then: RetryAfter is neither early nor late.
THEOREM RetryTimeIsExact == Spec => []RetryAfterIsExact
  <1>1. StateOK => RetryAfterIsExact
    <2> SUFFICES ASSUME StateOK, NEW l \in Limits, NEW c \in Costs,
                        VerdictAt(now, l, c).retryAfter > 0,
                        CostNs(Cost(c), Unit(l), Per(l)).val
                          <= MaxDebt(Cap(l), Unit(l), Per(l)).val
                 PROVE  LET d == VerdictAt(now, l, c).retryAfter
                        IN  /\ \A t \in now..(now + d - 1) : VerdictAt(t, l, c).throttled
                            /\ ~VerdictAt(now + d, l, c).throttled
      BY DEF RetryAfterIsExact
    <2> DEFINE d == VerdictAt(now, l, c).retryAfter
               H(s) == Hopeless(tat, s, Cap(l), Unit(l), Per(l), Cost(c))
               X(s) == Excess(tat, s, Cap(l), Unit(l), Per(l), Cost(c))
    <2>1. tat \in Nat /\ now \in Nat
      BY LeakyBucketAssumption DEF StateOK
    <2>2. Cap(l) \in Int /\ Unit(l) \in Int /\ Per(l) \in Int /\ Cost(c) \in Int
      BY RequestType
    <2>3. \A s : VerdictAt(s, l, c).throttled <=> (H(s) \/ X(s) > 0)
      BY RequestType, VerdictCases
    <2>4. ~H(now) /\ X(now) > 0 /\ d = X(now)
      <3>1. /\ H(now) => d = 0
            /\ ~H(now) /\ X(now) > 0 => d = X(now)
            /\ ~H(now) /\ ~(X(now) > 0) => d = 0
        BY RequestType, VerdictCases
      <3> HIDE DEF H, X
      <3> QED BY <3>1
    <2>5. ASSUME NEW s \in Nat, now <= s, s <= now + X(now)
          PROVE  ~H(s) /\ X(s) = now + X(now) - s
      BY <2>1, <2>2, <2>4, <2>5, WaitingDrains
    <2> HIDE DEF d, H, X
    <2>6. d \in Int
      <3>1. X(now) \in Int
        BY <2>1, <2>2, <2>4, ExcessInt DEF X, H
      <3> QED BY <2>4, <3>1
    <2>7. ASSUME NEW t \in now..(now + d - 1) PROVE VerdictAt(t, l, c).throttled
      <3>1. t \in Nat /\ now <= t /\ t <= now + d /\ now + d - t > 0
        BY <2>1, <2>6
      <3>2. X(t) = now + X(now) - t
        BY <2>4, <2>5, <3>1
      <3> QED BY <2>3, <2>4, <3>1, <3>2
    <2>8. ~VerdictAt(now + d, l, c).throttled
      <3>1. now + d \in Nat /\ now <= now + d
        BY <2>1, <2>4, <2>6
      <3>2. ~H(now + d) /\ X(now + d) = now + X(now) - (now + d)
        BY <2>4, <2>5, <3>1
      <3>3. ~(X(now + d) > 0)
        BY <2>1, <2>4, <2>6, <3>2
      <3> QED BY <2>3, <3>2, <3>3
    <2> QED BY <2>7, <2>8 DEF d
  <1> QED BY <1>1, StateOKInvariant, PTL

\* The headroom of a well-formed request, admitted or not.
LEMMA ReportedHeadroom ==
  ASSUME StateOK, NEW l \in Limits, NEW c \in Costs
  PROVE  LET v == VerdictAt(now, l, c)
             fits == DebtFits(Level, Unit(l), Per(l))
         IN  /\ ~Sane(l, c) => v.remaining = 0
             /\ Sane(l, c) =>
                  /\ Cap(l) \in 0..MaxInt64 /\ Per(l) \in Nat \ {0}
                  /\ Level \in 0..MaxInt64 /\ v.remaining \in 0..Cap(l)
                  /\ fits => v.remaining = Headroom(Level, Cap(l), Unit(l), Per(l))
                  /\ ~fits => v.remaining = 0
  <1> DEFINE cap == Cap(l)
             un  == Unit(l)
             per == Per(l)
             v   == gcraCheck(tat, now, cap, un, per, Cost(c))
  <1>1. VerdictAt(now, l, c) = v
    BY RequestType
  <1>2. ASSUME ~Sane(l, c) PROVE v.remaining = 0
    BY <1>2 DEF Sane, gcraCheck, Refused
  <1>3. ASSUME Sane(l, c)
        PROVE  cap \in 0..MaxInt64 /\ per \in Nat \ {0} /\ un \in Nat \ {0}
               /\ v.remaining = Remaining(tat, now, cap, un, per)
    <2>1. cap \in Int /\ cap <= MaxInt64
      BY LeakyBucketAssumption, WidthAssumption DEF Int64, Cap
    <2>2. per \in Int /\ un \in Nat \ {0}
      BY RequestType
    <2>3. ~BadShape(cap, un, per, Cost(c))
      BY <1>3 DEF Sane
    <2>4. per > 0 /\ cap >= 0
      <3>1. ~(per <= 0) /\ ~(cap < 0)
        BY <2>3 DEF BadShape
      <3> HIDE DEF per, cap
      <3> QED BY <2>1, <2>2, <3>1
    <2>5. v.remaining = Remaining(tat, now, cap, un, per)
      BY <2>3 DEF gcraCheck, Refused, Admitted
    <2> HIDE DEF cap, per, un, v
    <2> QED BY <2>1, <2>2, <2>4, <2>5, WidthAssumption
  <1>4. tat \in 0..MaxInt64 /\ now \in Nat
    BY LeakyBucketAssumption DEF StateOK
  <1>5. ASSUME Sane(l, c)
        PROVE  LET rm == Remaining(tat, now, cap, un, per)
               IN  /\ Level \in 0..MaxInt64 /\ rm \in 0..cap
                   /\ DebtFits(Level, un, per) => rm = Headroom(Level, cap, un, per)
                   /\ ~DebtFits(Level, un, per) => rm = 0
    <2>1. cap \in 0..MaxInt64 /\ per \in Nat \ {0} /\ un \in Nat \ {0}
      BY <1>3, <1>5
    <2> HIDE DEF cap, per, un
    <2> QED BY <1>4, <2>1, RemainingExact DEF Level
  <1> HIDE DEF v
  <1> QED BY <1>1, <1>2, <1>3, <1>5

\* Nothing that is stored or reported wraps: the TAT and RetryAfter fit an
\* int64, and the reported headroom lies within the bucket, also where the
\* fallback for an oversized debt wraps capacity + 1.
THEOREM VerdictsAreRepresentable == Spec => []TypeOK
  <1>1. StateOK => TypeOK
    <2> SUFFICES ASSUME StateOK, NEW l \in Limits, NEW c \in Costs
                 PROVE  LET v == VerdictAt(now, l, c)
                        IN  /\ v.tat \in 0..MaxInt64
                            /\ v.retryAfter \in 0..MaxInt64
                            /\ v.remaining \in 0..max(Cap(l), 0)
      BY DEF TypeOK, StateOK
    <2> DEFINE v == VerdictAt(now, l, c)
               g == gcraCheck(tat, now, Cap(l), Unit(l), Per(l), Cost(c))
    <2>0. v = g
      BY RequestType
    <2>1. /\ Cap(l) \in Int /\ Unit(l) \in Int /\ Per(l) \in Int /\ Cost(c) \in Int
          /\ tat \in Nat /\ now \in Nat /\ tat \in 0..MaxInt64
      BY RequestType, LeakyBucketAssumption DEF StateOK
    <2>2. v.tat \in 0..MaxInt64
      <3>1. CASE g.throttled
        BY <2>0, <2>1, <3>1, RefusedKeepsTat
      <3>2. CASE ~g.throttled
        <4>1. g.tat \in Nat /\ g.tat <= MaxInt64
          BY <2>1, <3>2, AdmittedMovesTat
        <4> HIDE DEF g, v
        <4> QED BY <2>0, <4>1, WidthAssumption
      <3> QED BY <3>1, <3>2
    <2>3. v.retryAfter \in 0..MaxInt64
      <3> DEFINE h == Hopeless(tat, now, Cap(l), Unit(l), Per(l), Cost(c))
                 x == Excess(tat, now, Cap(l), Unit(l), Per(l), Cost(c))
      <3>1. \/ g.retryAfter = 0
            \/ ~h /\ x > 0 /\ g.retryAfter = x
        BY VerdictCases
      <3>2. ASSUME ~h PROVE x \in Int /\ x <= MaxInt64
        <4> DEFINE cn == CostNs(Cost(c), Unit(l), Per(l)).val
                   md == MaxDebt(Cap(l), Unit(l), Per(l)).val
                   cd == Candidate(tat, now, Unit(l), Per(l), Cost(c))
        <4>1. ~BadShape(Cap(l), Unit(l), Per(l), Cost(c)) /\ cd.ok
          BY <3>2 DEF Hopeless
        <4>2. /\ cn \in Nat /\ md \in Nat /\ max(tat, now) + cn <= MaxInt64
              /\ cd.val = max(tat, now) + cn
          <5> DEFINE cap == Cap(l)
                     un  == Unit(l)
                     per == Per(l)
                     co  == Cost(c)
          <5>1. ~BadShape(cap, un, per, co) /\ Candidate(tat, now, un, per, co).ok
            BY <4>1
          <5>2. cap \in Int /\ un \in Int /\ per \in Int /\ co \in Int
            BY <2>1
          <5> HIDE DEF cap, un, per, co
          <5>3. LET cn1 == CostNs(co, un, per).val
                IN  /\ cn1 \in Nat /\ MaxDebt(cap, un, per).val \in Nat
                    /\ max(tat, now) + cn1 <= MaxInt64
                    /\ Candidate(tat, now, un, per, co).val = max(tat, now) + cn1
            BY <2>1, <5>1, <5>2, CandidateExact
          <5> QED BY <5>3 DEF cap, un, per, co
        <4>3. x = cd.val - now - md
          BY DEF Excess
        <4>4. max(tat, now) \in Nat
          BY <2>1 DEF max
        <4> HIDE DEF cn, md, cd, x
        <4> QED BY <2>1, <4>1, <4>2, <4>3, <4>4, WidthAssumption
      <3> HIDE DEF g, v, h, x
      <3> QED BY <2>0, <3>1, <3>2, WidthAssumption
    <2>4. v.remaining \in 0..max(Cap(l), 0)
      <3>1. CASE Sane(l, c)
        <4>1. Cap(l) \in 0..MaxInt64 /\ v.remaining \in 0..Cap(l)
          BY <3>1, ReportedHeadroom
        <4> HIDE DEF v
        <4> QED BY <2>1, <4>1, WidthAssumption DEF max
      <3>2. CASE ~Sane(l, c)
        <4>1. v.remaining = 0
          BY <3>2, ReportedHeadroom
        <4> HIDE DEF v
        <4> QED BY <2>1, <4>1 DEF max
      <3> QED BY <3>1, <3>2
    <2> QED BY <2>2, <2>3, <2>4
  <1> QED BY <1>1, StateOKInvariant, PTL

\* The verdict and the headroom reported with it never contradict each other:
\* an admitted cost is within it, a refused one of a whole-unit rate is not,
\* and a debt too large to express leaves none and admits nothing.
THEOREM HeadroomIsHonest == Spec => []RemainingAgreesWithVerdict
  <1>1. StateOK => RemainingAgreesWithVerdict
    <2> SUFFICES ASSUME StateOK, NEW l \in Limits, NEW c \in Costs, Sane(l, c)
                 PROVE  LET v == VerdictAt(now, l, c)
                        IN  /\ ~v.throttled => Cost(c) <= v.remaining
                            /\ (Unit(l) = 1 /\ v.throttled) =>
                                 \/ Cost(c) > v.remaining
                                 \/ max(tat, now) + Cost(c) * Per(l) > MaxInt64
                            /\ (Unit(l) # 1 /\ ~mulDivCeil(Level, Unit(l), Per(l)).ok) =>
                                 v.throttled /\ v.remaining = 0
      BY DEF RemainingAgreesWithVerdict
    <2> DEFINE v   == VerdictAt(now, l, c)
               cap == Cap(l)
               un  == Unit(l)
               per == Per(l)
               co  == Cost(c)
               lv  == Level
               k   == CeilQuotient(lv * un, per)
               g   == gcraCheck(tat, now, cap, un, per, co)
    <2>1. v = g
      BY RequestType
    <2>2. /\ cap \in 0..MaxInt64 /\ per \in Nat \ {0} /\ lv \in 0..MaxInt64
          /\ v.remaining \in 0..cap
          /\ DebtFits(lv, un, per) => v.remaining = max(cap - k, 0)
          /\ ~DebtFits(lv, un, per) => v.remaining = 0
      BY ReportedHeadroom DEF Headroom
    <2>3. un \in Nat \ {0} /\ co \in Nat \ {0} /\ tat \in Nat /\ now \in Nat
      BY RequestType, LeakyBucketAssumption DEF StateOK
    <2>4. /\ lv \in Nat /\ lv * un \in Nat /\ k \in Nat /\ cap \in Nat
          /\ cap \in Int /\ un \in Int /\ per \in Int /\ co \in Int
          /\ cap <= MaxInt64
      <3>1. lv \in Nat /\ cap \in Nat /\ cap <= MaxInt64
        <4> HIDE DEF lv, cap
        <4> QED BY <2>2, WidthAssumption
      <3>2. lv * un \in Nat
        BY <2>3, <3>1, ProductNat
      <3> QED BY <2>2, <2>3, <3>1, <3>2, CeilBound
    <2>5. ~BadShape(cap, un, per, co)
      BY DEF Sane
    <2>6. ASSUME ~v.throttled PROVE k <= cap - co /\ DebtFits(lv, un, per)
      <3>1. lv * un + co * per <= cap * per
        BY <2>1, <2>3, <2>4, <2>6, AdmittedFits DEF Level
      <3> HIDE DEF lv, un, per, co, cap
      <3>2. co * per \in Nat /\ cap * per \in Nat
        BY <2>2, <2>3, <2>4, ProductNat
      <3>3. per * (cap - co) = cap * per - co * per /\ cap - co \in Int
        BY <2>2, <2>3, <2>4, SMT
      <3>4. lv * un <= per * (cap - co)
        <4> DEFINE a == lv * un
                   b == co * per
                   d == cap * per
        <4>1. a + b <= d /\ a \in Nat /\ b \in Nat /\ d \in Nat
              /\ per * (cap - co) = d - b
          BY <2>4, <3>1, <3>2, <3>3
        <4> HIDE DEF a, b, d
        <4>2. a <= per * (cap - co)
          BY <4>1
        <4> QED BY <4>2 DEF a
      <3>5. k <= cap - co
        BY <2>2, <2>4, <3>3, <3>4, CeilLeast
      <3>6. mulDivCeil(lv, un, per).ok
        <4>1. ~(k > MaxInt64)
          <5> HIDE DEF k
          <5> QED BY <2>3, <2>4, <3>5, WidthAssumption
        <4> DEFINE w == MaxUint64 + 1
                   a == lv * un
                   q == a \div w
        <4>2. w \in Nat \ {0} /\ cap < w
          BY <2>4, WidthAssumption
        <4>3. q \in Nat /\ w * q <= a /\ a \in Nat
          BY <2>4, <4>2, FloorBound
        <4>4. a < w * per
          <5>1. a <= per * (cap - co)
            BY <3>4
          <5>2. per * (cap - co) <= per * (w - 1)
            BY <2>2, <2>3, <2>4, <4>2, Scale
          <5>3. per * (w - 1) = w * per - per /\ w * per \in Nat
            BY <2>2, <4>2, ProductNat, SMT
          <5>4. per * (cap - co) \in Int
            BY <2>2, <3>3, SMT
          <5> DEFINE e == w * per
                     f == per * (cap - co)
          <5>5. a <= f /\ f <= e - per /\ e \in Nat /\ f \in Int /\ a \in Nat
            BY <4>3, <5>1, <5>2, <5>3, <5>4
          <5> HIDE DEF a, e, f, w
          <5>6. a < e
            BY <2>2, <5>5
          <5> QED BY <5>6 DEF e
        <4>5. q < per
          <5> HIDE DEF a, q, w
          <5> SUFFICES ASSUME per <= q PROVE FALSE
            BY <2>2, <4>3
          <5>1. w * per <= w * q
            BY <2>2, <4>2, <4>3, Scale
          <5>2. w * per \in Nat /\ w * q \in Nat
            BY <2>2, <4>2, <4>3, ProductNat
          <5> QED BY <4>3, <4>4, <5>1, <5>2
        <4>6. Div64Fits(lv, un, per)
          BY <2>2, <2>3, <2>4, <4>5 DEF Div64Fits
        <4> QED BY <4>1, <4>6 DEF mulDivCeil, Ok
      <3> QED BY <3>5, <3>6 DEF DebtFits
    <2>7. ASSUME ~v.throttled PROVE co <= v.remaining
      <3>1. k <= cap - co /\ v.remaining = max(cap - k, 0)
        BY <2>2, <2>6, <2>7
      <3> HIDE DEF v, k, cap, co
      <3> QED BY <2>3, <2>4, <3>1 DEF max
    <2>8. ASSUME un = 1, v.throttled, ~(co > v.remaining)
          PROVE  max(tat, now) + co * per > MaxInt64
      <3>1. v.remaining = max(cap - k, 0)
        BY <2>2, <2>8 DEF DebtFits
      <3>2. co <= cap - k /\ ~(co > cap)
        <4> HIDE DEF v, k, cap, co
        <4> QED BY <2>2, <2>3, <2>4, <2>8, <3>1 DEF max
      <3> DEFINE cd == Candidate(tat, now, un, per, co)
                 cn == CostNs(co, un, per).val
                 md == MaxDebt(cap, un, per).val
      <3>3. cn = co * per /\ md = cap * per /\ co * per \in Nat /\ cap * per \in Nat
        <4>1. CostNs(co, un, per).ok /\ MaxDebt(cap, un, per).ok
          BY <2>5 DEF BadShape
        <4>2. co * per \in Nat /\ cap * per \in Nat
          BY <2>2, <2>3, <2>4, ProductNat
        <4>3. CostNs(co, un, per) = mulNonNeg(co, per) /\ MaxDebt(cap, un, per) = mulNonNeg(cap, per)
          BY <2>8 DEF CostNs, MaxDebt
        <4> HIDE DEF co, per, cap, un
        <4>4. ASSUME NEW a \in Nat, mulNonNeg(a, per).ok PROVE mulNonNeg(a, per).val = a * per
          <5>1. CASE a = 0 \/ per = 0
            BY <2>2, <5>1 DEF mulNonNeg, Ok
          <5>2. CASE ~(a = 0 \/ per = 0)
            BY <4>4, <5>2 DEF mulNonNeg, Ok, Overflow
          <5> QED BY <5>1, <5>2
        <4> QED BY <2>3, <2>4, <4>1, <4>2, <4>3, <4>4
      <3>4. lv + co * per <= cap * per
        <4>1. k <= cap - co
          <5> HIDE DEF k, cap, co
          <5> QED BY <2>3, <2>4, <3>2
        <4>2. lv * un <= per * (cap - co)
          <5> HIDE DEF lv, un, cap, co, per
          <5> QED BY <2>2, <2>3, <2>4, <4>1, CeilLeast
        <4> HIDE DEF lv, un, cap, co, per
        <4>3. lv * un = lv
          BY <2>4, <2>8
        <4>4. per * (cap - co) = cap * per - co * per
          BY <2>2, <2>3, <2>4, SMT
        <4> DEFINE b == co * per
                   d == cap * per
        <4>5. lv <= d - b /\ b \in Nat /\ d \in Nat
          BY <3>3, <4>2, <4>3, <4>4
        <4> HIDE DEF b, d
        <4>6. lv + b <= d
          BY <2>4, <4>5
        <4> QED BY <4>6 DEF b, d
      <3>5. \/ ~cd.ok
            \/ cd.val - now - md > 0
        <4>1. Hopeless(tat, now, cap, un, per, co) \/ Excess(tat, now, cap, un, per, co) > 0
          BY <2>1, <2>8, VerdictCases
        <4>2. CASE Hopeless(tat, now, cap, un, per, co)
          BY <2>5, <3>2, <4>2 DEF Hopeless
        <4>3. CASE Excess(tat, now, cap, un, per, co) > 0
          BY <4>3 DEF Excess
        <4> QED BY <4>1, <4>2, <4>3
      <3>6. /\ cd.ok <=> max(tat, now) + cn <= MaxInt64
            /\ cd.ok => cd.val = max(tat, now) + cn
        <4>1. cap \in Int /\ un \in Int /\ per \in Int /\ co \in Int
          BY <2>4
        <4> HIDE DEF cap, un, per, co
        <4>2. LET cd1 == Candidate(tat, now, un, per, co)
                  cn1 == CostNs(co, un, per).val
              IN  /\ cd1.ok <=> max(tat, now) + cn1 <= MaxInt64
                  /\ cd1.ok => cd1.val = max(tat, now) + cn1
          BY <2>3, <2>5, <4>1, CandidateExact
        <4> QED BY <4>2
      <3>7. max(tat, now) \in Nat /\ lv = max(tat, now) - now
        BY <2>3 DEF max, Level
      <3> DEFINE b == co * per
                 d == cap * per
      <3>8. /\ cn = b /\ md = d /\ b \in Nat /\ d \in Nat
            /\ lv + b <= d
        BY <3>3, <3>4
      <3> HIDE DEF cd, cn, md, b, d, lv
      <3>9. max(tat, now) + b > MaxInt64
        BY <2>3, <3>5, <3>6, <3>7, <3>8, WidthAssumption
      <3> QED BY <3>9 DEF b
    <2>9. ASSUME un # 1, ~mulDivCeil(lv, un, per).ok
          PROVE  v.throttled /\ v.remaining = 0
      <3>1. ~DebtFits(lv, un, per)
        BY <2>9 DEF DebtFits
      <3>2. v.throttled
        BY <2>6, <3>1
      <3> QED BY <2>2, <3>1, <3>2
    <2> QED BY <2>7, <2>8, <2>9
  <1> QED BY <1>1, StateOKInvariant, PTL

-----------------------------------------------------------------------------
(***************************************************************************)
(* Wire.  Lists of positions, as the loops of throttle and handleThrottle  *)
(* build them.                                                             *)
(***************************************************************************)

\* h lists the members of P up to m.
IsPositions(P, m, h) ==
  h = [n \in 0..m |-> IF n = 0 THEN <<>>
                      ELSE IF n \in P THEN Append(h[n-1], n) ELSE h[n-1]]

\* One more position.
PositionStep(P, n, q) == IF n \in P THEN Append(q, n) ELSE q

\* The recursion of Positions has a solution.
LEMMA PositionsExist ==
  ASSUME NEW P, NEW m \in Nat
  PROVE  \E h : IsPositions(P, m, h)
  <1> DEFINE S == {k \in Nat : \E h : IsPositions(P, k, h)}
  <1>1. 0 \in S
    <2> DEFINE h == [n \in 0..0 |-> <<>>]
    <2>1. h = [n \in 0..0 |-> IF n = 0 THEN <<>> ELSE PositionStep(P, n, h[n-1])]
      OBVIOUS
    <2>2. IsPositions(P, 0, h)
      BY <2>1 DEF IsPositions, PositionStep
    <2> QED BY <2>2
  <1>2. ASSUME NEW k \in 1..m, k - 1 \in S PROVE k \in S
    <2>1. PICK p : IsPositions(P, k-1, p)
      BY <1>2
    <2> DEFINE h == [n \in 0..k |-> IF n = k THEN PositionStep(P, n, p[n-1]) ELSE p[n]]
    <2>2. ASSUME NEW n \in 0..k
          PROVE  h[n] = IF n = 0 THEN <<>> ELSE PositionStep(P, n, h[n-1])
      <3>1. CASE n = 0
        <4>1. n \in 0..(k-1) /\ n # k
          BY <3>1
        <4>2. p[n] = <<>>
          BY <2>1, <3>1, <4>1 DEF IsPositions
        <4> QED BY <3>1, <4>1, <4>2
      <3>2. CASE n # 0
        <4>1. h[n-1] = p[n-1]
          BY <3>2
        <4>2. CASE n = k
          BY <3>2, <4>1, <4>2
        <4>3. CASE n # k
          <5>1. n \in 0..(k-1)
            BY <4>3
          <5>2. p[n] = PositionStep(P, n, p[n-1])
            BY <2>1, <3>2, <5>1 DEF IsPositions, PositionStep
          <5> QED BY <3>2, <4>1, <4>3, <5>2
        <4> QED BY <4>2, <4>3
      <3> QED BY <3>1, <3>2
    <2>3. IsPositions(P, k, h)
      <3>1. h = [n \in 0..k |-> h[n]]
        OBVIOUS
      <3> HIDE DEF h
      <3>2. h = [n \in 0..k |-> IF n = 0 THEN <<>> ELSE PositionStep(P, n, h[n-1])]
        BY <2>2, <3>1
      <3> QED BY <3>2 DEF IsPositions, PositionStep
    <2> HIDE DEF h
    <2> QED BY <2>3
  <1>3. 0..m \subseteq S
    <2> HIDE DEF S
    <2> QED BY <1>1, <1>2, SegmentInduction
  <1> QED BY <1>3

\* Positions unfolds position by position.
LEMMA PositionsUnfold ==
  ASSUME NEW P, NEW m \in Nat
  PROVE  /\ Positions(P, m)[0] = <<>>
         /\ \A n \in 1..m : Positions(P, m)[n] = PositionStep(P, n, Positions(P, m)[n-1])
  <1> DEFINE q == Positions(P, m)
  <1>1. q = CHOOSE h : IsPositions(P, m, h)
    BY DEF Positions, IsPositions
  <1>2. IsPositions(P, m, q)
    BY <1>1, PositionsExist
  <1> HIDE DEF q
  <1>3. q = [n \in 0..m |-> IF n = 0 THEN <<>> ELSE PositionStep(P, n, q[n-1])]
    BY <1>2 DEF IsPositions, PositionStep
  <1>4. q[0] = <<>> /\ \A n \in 1..m : q[n] = PositionStep(P, n, q[n-1])
    BY <1>3
  <1> QED BY <1>4 DEF q

\* A list with one more element.
LEMMA AppendedElements ==
  ASSUME NEW S, NEW p \in Seq(S), NEW x \in S
  PROVE  /\ Append(p, x) \in Seq(S) /\ Len(Append(p, x)) = Len(p) + 1
         /\ \A j \in 1..Len(p) : Append(p, x)[j] = p[j]
         /\ Append(p, x)[Len(p) + 1] = x
  OBVIOUS

\* q lists the members of P up to n in order, and the i-th of m lists counts
\* them up to i: it has i at its end, and i is there in every later one.
Lists(q, P, n) ==
  /\ q[n] \in Seq(P)
  /\ \A i \in P : i <= n => Len(q[i]) \in 1..Len(q[n]) /\ q[n][Len(q[i])] = i
  /\ \A j \in 1..Len(q[n]) : q[n][j] <= n /\ Len(q[q[n][j]]) = j
  /\ Len(q[n]) = Cardinality({i \in P : i <= n})

LEMMA PositionsList ==
  ASSUME NEW m \in Nat, NEW P \in SUBSET (1..m)
  PROVE  \A n \in 0..m : Lists(Positions(P, m), P, n)
  <1> DEFINE q == Positions(P, m)
             S == {n \in Nat : Lists(q, P, n)}
  <1>0. \A i \in P : i \in Nat /\ 1 <= i
    OBVIOUS
  <1>1. q[0] = <<>> /\ \A n \in 1..m : q[n] = PositionStep(P, n, q[n-1])
    BY PositionsUnfold
  <1> HIDE DEF q
  <1>2. 0 \in S
    <2>1. q[0] \in Seq(P) /\ Len(q[0]) = 0
      BY <1>1
    <2>2. {i \in P : i <= 0} = {}
      <3>1. ASSUME NEW i \in P PROVE ~(i <= 0)
        BY <1>0
      <3> QED BY <3>1
    <2>3. Lists(q, P, 0)
      BY <2>1, <2>2, FS_EmptySet DEF Lists
    <2> QED BY <2>3
  <1>3. ASSUME NEW n \in 1..m, n - 1 \in S PROVE n \in S
    <2> DEFINE p == q[n-1]
    <2>1. /\ p \in Seq(P) /\ Len(p) \in Nat
          /\ \A i \in P : i <= n - 1 => Len(q[i]) \in 1..Len(p) /\ p[Len(q[i])] = i
          /\ \A j \in 1..Len(p) : p[j] <= n - 1 /\ Len(q[p[j]]) = j
          /\ Len(p) = Cardinality({i \in P : i <= n - 1})
      BY <1>3 DEF Lists
    <2>2. q[n] = PositionStep(P, n, p)
      BY <1>1
    <2> HIDE DEF p
    <2>3. CASE n \in P
      <3>1. /\ q[n] = Append(p, n) /\ q[n] \in Seq(P) /\ Len(q[n]) = Len(p) + 1
            /\ \A j \in 1..Len(p) : q[n][j] = p[j]
            /\ q[n][Len(p) + 1] = n
        <4>1. q[n] = Append(p, n)
          BY <2>2, <2>3 DEF PositionStep
        <4>2. p \in Seq(P)
          BY <2>1
        <4> QED BY <2>3, <4>1, <4>2, AppendedElements
      <3>2. ASSUME NEW i \in P, i <= n
            PROVE  Len(q[i]) \in 1..Len(q[n]) /\ q[n][Len(q[i])] = i
        <4>1. CASE i = n
          BY <2>1, <3>1, <4>1
        <4>2. CASE i # n
          <5>1. i <= n - 1
            BY <3>2, <4>2
          <5>2. Len(q[i]) \in 1..Len(p) /\ p[Len(q[i])] = i
            BY <2>1, <5>1
          <5> QED BY <2>1, <3>1, <5>2
        <4> QED BY <4>1, <4>2
      <3>3. ASSUME NEW j \in 1..Len(q[n]) PROVE q[n][j] <= n /\ Len(q[q[n][j]]) = j
        <4>1. CASE j = Len(p) + 1
          BY <3>1, <4>1
        <4>2. CASE j # Len(p) + 1
          <5>1. j \in 1..Len(p)
            BY <2>1, <3>1, <4>2
          <5>2. q[n][j] = p[j] /\ p[j] <= n - 1 /\ Len(q[p[j]]) = j /\ p[j] \in P
            BY <2>1, <3>1, <5>1
          <5>3. p[j] <= n
            <6>1. n \in Nat
              OBVIOUS
            <6>2. p[j] \in Nat
              <7>1. p[j] \in P
                BY <5>2
              <7> QED BY <1>0, <7>1
            <6> QED BY <5>2, <6>1, <6>2
          <5> QED BY <5>2, <5>3
        <4> QED BY <4>1, <4>2
      <3>4. Len(q[n]) = Cardinality({i \in P : i <= n})
        <4> DEFINE T == {i \in P : i <= n - 1}
        <4>1. {i \in P : i <= n} = T \cup {n} /\ n \notin T
          <5>1. \A i \in P : i <= n <=> i <= n - 1 \/ i = n
            BY <1>0
          <5>2. ~(n <= n - 1)
            OBVIOUS
          <5> QED BY <2>3, <5>1, <5>2
        <4>2. IsFiniteSet(T)
          <5>1. IsFiniteSet(1..m)
            BY FS_Interval
          <5>2. T \subseteq 1..m
            OBVIOUS
          <5> HIDE DEF T
          <5> QED BY <5>1, <5>2, FS_Subset
        <4>3. Len(p) = Cardinality(T)
          BY <2>1
        <4> HIDE DEF T
        <4>4. Cardinality(T \cup {n}) = Cardinality(T) + 1
          BY <4>1, <4>2, FS_AddElement
        <4> QED BY <3>1, <4>1, <4>3, <4>4
      <3>5. Lists(q, P, n)
        BY <3>1, <3>2, <3>3, <3>4 DEF Lists
      <3> QED BY <3>5
    <2>4. CASE n \notin P
      <3>1. q[n] = p
        BY <2>2, <2>4 DEF PositionStep
      <3>2. \A i \in P : i <= n <=> i <= n - 1
        BY <1>0, <2>4
      <3>3. {i \in P : i <= n} = {i \in P : i <= n - 1}
        BY <3>2
      <3>4. ASSUME NEW j \in 1..Len(p) PROVE p[j] <= n
        <4>1. p[j] \in P /\ p[j] <= n - 1
          BY <2>1
        <4>2. n \in Nat
          OBVIOUS
        <4>3. p[j] \in Nat
          BY <1>0, <4>1
        <4> QED BY <4>1, <4>2, <4>3
      <3>5. Lists(q, P, n)
        BY <2>1, <3>1, <3>2, <3>3, <3>4 DEF Lists
      <3> QED BY <3>5
    <2> QED BY <2>3, <2>4
  <1>4. 0..m \subseteq S
    <2> HIDE DEF S
    <2> QED BY <1>2, <1>3, SegmentInduction
  <1> QED BY <1>4 DEF q

\* The place of a position in such a list is the length of the list up to it.
LEMMA PlaceInList ==
  ASSUME NEW m \in Nat, NEW P \in SUBSET (1..m), NEW i \in P
  PROVE  LET q == Positions(P, m)
         IN  /\ Len(q[i]) \in DOMAIN q[m] /\ q[m][Len(q[i])] = i
             /\ (CHOOSE j \in DOMAIN q[m] : q[m][j] = i) = Len(q[i])
  <1> DEFINE q == Positions(P, m)
  <1>1. Lists(q, P, m)
    BY PositionsList
  <1> HIDE DEF q
  <1>2. /\ q[m] \in Seq(P) /\ DOMAIN q[m] = 1..Len(q[m])
        /\ Len(q[i]) \in 1..Len(q[m]) /\ q[m][Len(q[i])] = i
        /\ \A j \in 1..Len(q[m]) : Len(q[q[m][j]]) = j
    BY <1>1 DEF Lists
  <1>3. \A j \in DOMAIN q[m] : q[m][j] = i => j = Len(q[i])
    BY <1>2
  <1>4. (CHOOSE j \in DOMAIN q[m] : q[m][j] = i) = Len(q[i])
    BY <1>2, <1>3
  <1> QED BY <1>2, <1>4 DEF q

\* The first n of some values, as a list.
Cut(f, n) == [i \in 1..n |-> f[i]]

\* One more of them.
LEMMA CutGrows ==
  ASSUME NEW f, NEW n \in Nat \ {0}
  PROVE  Cut(f, n-1) \o <<f[n]>> = Cut(f, n)
  <1> DEFINE S == {f[i] : i \in 1..n}
             a == Cut(f, n-1)
             b == <<f[n]>>
             c == Cut(f, n)
  <1>1. /\ n - 1 \in Nat /\ n \in Nat
        /\ \A i \in 1..n : f[i] \in S
        /\ \A i \in 1..(n-1) : i \in 1..n
    OBVIOUS
  <1>2. a = [i \in 1..(n-1) |-> f[i]] /\ c = [i \in 1..n |-> f[i]]
    BY DEF Cut
  <1>3. f[n] \in S
    BY <1>1
  <1> HIDE DEF S, a, c
  <1>4. a \in Seq(S) /\ Len(a) = n - 1 /\ \A i \in 1..(n-1) : a[i] = f[i]
    BY <1>1, <1>2
  <1>5. c \in Seq(S) /\ Len(c) = n /\ \A i \in 1..n : c[i] = f[i]
    BY <1>1, <1>2
  <1>6. b \in Seq(S) /\ Len(b) = 1 /\ b[1] = f[n]
    BY <1>3
  <1> HIDE DEF b
  <1>7. /\ a \o b \in Seq(S) /\ Len(a \o b) = Len(a) + Len(b)
        /\ \A i \in 1..(Len(a) + Len(b)) :
             (a \o b)[i] = IF i <= Len(a) THEN a[i] ELSE b[i - Len(a)]
    BY <1>4, <1>6, ConcatProperties
  <1>8. ASSUME NEW i \in 1..n PROVE (a \o b)[i] = c[i]
    <2>1. (a \o b)[i] = IF i <= n - 1 THEN a[i] ELSE b[i - (n - 1)]
      BY <1>1, <1>4, <1>6, <1>7
    <2>2. CASE i <= n - 1
      BY <1>1, <1>4, <1>5, <2>1, <2>2
    <2>3. CASE ~(i <= n - 1)
      <3>1. i = n /\ i - (n - 1) = 1
        BY <1>1, <2>3
      <3> QED BY <1>5, <1>6, <2>1, <2>3, <3>1
    <2> QED BY <2>2, <2>3
  <1>9. Len(a \o b) = Len(c)
    BY <1>1, <1>4, <1>5, <1>6, <1>7
  <1>10. a \o b = c
    BY <1>1, <1>5, <1>7, <1>8, <1>9, SeqEqual
  <1> QED BY <1>10 DEF a, b, c

-----------------------------------------------------------------------------
(* The line an entry crosses the wire on. *)

WireEntry(K) ==
  [key : K, limit : [capacity : Int64, units : Int64, period : Int64],
   cost : Int64, peek : BOOLEAN]

Token(e) == Fields(6, e.key, e)

\* Numbers that fit an int64 are integers.
LEMMA WireEntryType ==
  ASSUME NEW K, NEW e \in WireEntry(K)
  PROVE  /\ e \in EntryOf(K) /\ e.key \in K /\ e.peek \in BOOLEAN
         /\ e.limit.capacity \in Int64 /\ e.limit.units \in Int64 /\ e.limit.period \in Int64
         /\ e.cost \in Int64
  <1>1. Int64 \subseteq Int
    BY WidthAssumption DEF Int64
  <1> QED BY <1>1 DEF WireEntry, EntryOf, LimitOf

\* h holds the tokens of the first m entries.
IsEncoded(es, m, h) ==
  h = [n \in 0..m |-> IF n = 0 THEN <<>> ELSE h[n-1] \o Encode(es[n])]

\* Entries with keys that can be sent make one token each.
LEMMA EncodedLine ==
  ASSUME NEW es \in Seq(WireEntry(ValidKeys))
  PROVE  encodeThrottle(es) = [i \in 1..Len(es) |-> Token(es[i])]
  <1> DEFINE m == Len(es)
             f == [i \in 1..m |-> Token(es[i])]
             w == [n \in 0..m |-> Cut(f, n)]
             q == CHOOSE h : IsEncoded(es, m, h)
             P == {n \in Nat : q[n] = Cut(f, n)}
  <1>1. m \in Nat /\ \A i \in 1..m : es[i] \in WireEntry(ValidKeys)
    OBVIOUS
  <1>2. ASSUME NEW i \in 1..m PROVE Encode(es[i]) = <<f[i]>>
    <2>1. es[i].key \in {"k", "m"}
      BY <1>1 DEF WireEntry, ValidKeys
    <2> QED BY <2>1 DEF Encode, Token, SpacedKey, PipedKey
  <1>3. Cut(f, 0) = <<>>
    BY DEF Cut
  <1>4. Cut(f, m) = f
    BY DEF Cut
  <1>5. ASSUME NEW n \in 1..m PROVE Cut(f, n) = Cut(f, n-1) \o Encode(es[n])
    <2>1. n \in Nat \ {0}
      OBVIOUS
    <2>2. Cut(f, n-1) \o <<f[n]>> = Cut(f, n)
      <3> HIDE DEF f, m
      <3> QED BY <2>1, CutGrows
    <2> QED BY <1>2, <2>2
  <1>6. encodeThrottle(es) = q[m]
    BY DEF encodeThrottle, IsEncoded
  <1>7. IsEncoded(es, m, w)
    <2>1. ASSUME NEW n \in 0..m
          PROVE  Cut(f, n) = IF n = 0 THEN <<>> ELSE w[n-1] \o Encode(es[n])
      <3>1. CASE n = 0
        BY <1>3, <3>1
      <3>2. CASE n # 0
        <4>1. n \in 1..m /\ n - 1 \in 0..m
          BY <1>1, <3>2
        <4>2. w[n-1] = Cut(f, n-1)
          BY <4>1
        <4> HIDE DEF w, f, m
        <4> QED BY <1>5, <3>2, <4>1, <4>2
      <3> QED BY <3>1, <3>2
    <2>2. w = [n \in 0..m |-> Cut(f, n)]
      OBVIOUS
    <2> HIDE DEF w, f, m
    <2> QED BY <2>1, <2>2 DEF IsEncoded
  <1>8. IsEncoded(es, m, q)
    <2> HIDE DEF w, m
    <2> QED BY <1>7
  <1> HIDE DEF q, f, w
  <1>9. q[0] = <<>> /\ \A n \in 1..m : q[n] = q[n-1] \o Encode(es[n])
    <2>1. q = [n \in 0..m |-> IF n = 0 THEN <<>> ELSE q[n-1] \o Encode(es[n])]
      BY <1>8 DEF IsEncoded
    <2> HIDE DEF m
    <2> QED BY <1>1, <2>1
  <1>10. 0 \in P
    BY <1>3, <1>9
  <1>11. ASSUME NEW n \in 1..m, n - 1 \in P PROVE n \in P
    <2>1. q[n-1] = Cut(f, n-1) /\ q[n] = q[n-1] \o Encode(es[n])
      BY <1>9, <1>11
    <2>2. q[n] = Cut(f, n)
      BY <1>5, <2>1
    <2> QED BY <2>2
  <1>12. 0..m \subseteq P
    <2> HIDE DEF P, m
    <2> QED BY <1>1, <1>10, <1>11, SegmentInduction
  <1>13. q[m] = Cut(f, m)
    BY <1>1, <1>12
  <1> QED BY <1>4, <1>6, <1>13 DEF f

\* What parseEntry accepts, and what it makes of a token.
LEMMA TokenParses ==
  ASSUME NEW K, NEW e \in WireEntry(K), e.key # EmptyKey
  PROVE  /\ parseEntry(Token(e)) <=> e.limit.capacity >= 0 /\ e.limit.period >= 0
         /\ Parsed(Token(e)) =
              [key |-> e.key, cost |-> EffectiveCost(e.cost), peek |-> e.peek,
               limit |-> [capacity |-> e.limit.capacity, units |-> EffectiveUnits(e.limit.units),
                          period |-> e.limit.period]]
  <1> DEFINE t == Token(e)
  <1>1. /\ t.fields = 6 /\ t.key = e.key /\ t.capacity = e.limit.capacity
        /\ t.units = EffectiveUnits(e.limit.units) /\ t.period = e.limit.period
        /\ t.cost = EffectiveCost(e.cost) /\ t.mode = IF e.peek THEN ModePeek ELSE ModeReal
    BY DEF Token, Fields
  <1> HIDE DEF t
  <1>2. /\ e.limit.capacity \in Int64 /\ e.limit.units \in Int64 /\ e.limit.period \in Int64
        /\ e.cost \in Int64 /\ e.peek \in BOOLEAN
    BY WireEntryType
  <1>3. EffectiveCost(e.cost) \in 0..MaxInt64 /\ EffectiveUnits(e.limit.units) \in 0..MaxInt64
    BY <1>2, WidthAssumption DEF Int64, EffectiveCost, EffectiveUnits
  <1>4. \A x \in Int64 : x \in 0..MaxInt64 <=> x >= 0
    BY WidthAssumption DEF Int64
  <1>5. t.mode \in {ModeReal, ModePeek} /\ (t.mode = ModePeek) = e.peek
    BY <1>1, <1>2 DEF ModePeek, ModeReal
  <1>6. parseEntry(t) <=> e.limit.capacity >= 0 /\ e.limit.period >= 0
    BY <1>1, <1>2, <1>3, <1>4, <1>5 DEF parseEntry
  <1>7. Parsed(t) = [key |-> e.key, cost |-> EffectiveCost(e.cost), peek |-> e.peek,
                     limit |-> [capacity |-> e.limit.capacity,
                                units |-> EffectiveUnits(e.limit.units),
                                period |-> e.limit.period]]
    BY <1>1, <1>5 DEF Parsed
  <1> QED BY <1>6, <1>7 DEF t

\* Normalising twice is normalising once: a parsed entry is checked like the
\* entry it was made from ...
LEMMA ParsedChecksAlike ==
  ASSUME NEW K, NEW e \in WireEntry(K), e.key # EmptyKey
  PROVE  LET p == Parsed(Token(e))
         IN  /\ p \in EntryOf(K) /\ p.key = e.key /\ p.peek = e.peek
             /\ \A x, s : CheckEntry(x, s, p) = CheckEntry(x, s, e)
  <1> DEFINE p == Parsed(Token(e))
             u == EffectiveUnits(e.limit.units)
             c == EffectiveCost(e.cost)
             l == [capacity |-> e.limit.capacity, units |-> u, period |-> e.limit.period]
  <1>1. /\ e.limit.capacity \in Int /\ e.limit.units \in Int /\ e.limit.period \in Int
        /\ e.cost \in Int /\ e.peek \in BOOLEAN /\ e.key \in K
    BY WireEntryType, WidthAssumption DEF Int64
  <1>2. /\ u \in Int /\ c \in Int
        /\ EffectiveUnits(u) = u /\ EffectiveCost(c) = c
    BY <1>1 DEF EffectiveUnits, EffectiveCost
  <1> HIDE DEF u, c
  <1>3. p = [key |-> e.key, cost |-> c, peek |-> e.peek, limit |-> l]
    BY TokenParses DEF u, c
  <1>4. l \in LimitOf
    BY <1>1, <1>2 DEF LimitOf
  <1> HIDE DEF p
  <1>5. p \in EntryOf(K) /\ p.key = e.key /\ p.peek = e.peek
    <2> HIDE DEF l
    <2> QED BY <1>1, <1>2, <1>3, <1>4 DEF EntryOf
  <1>6. /\ p.limit.capacity = e.limit.capacity /\ p.limit.units = u
        /\ p.limit.period = e.limit.period /\ p.cost = c
    BY <1>3
  <1>7. \A x, s : CheckEntry(x, s, p) = CheckEntry(x, s, e)
    BY <1>2, <1>6 DEF CheckEntry, u, c
  <1> QED BY <1>5, <1>7 DEF p

\* ... and one that does not parse is refused for good.
LEMMA UnparsedIsRefused ==
  ASSUME NEW K, NEW e \in WireEntry(K), e.key # EmptyKey, ~parseEntry(Token(e))
  PROVE  \A x, s : CheckEntry(x, s, e) = Refused(0, 0, x)
  <1>1. e.limit.capacity \in Int /\ e.limit.period \in Int
    BY WireEntryType, WidthAssumption DEF Int64
  <1>2. e.limit.capacity < 0 \/ e.limit.period <= 0
    BY <1>1, TokenParses
  <1>3. \A u, c : BadShape(e.limit.capacity, u, e.limit.period, c)
    BY <1>2 DEF BadShape
  <1> QED BY <1>3 DEF CheckEntry, gcraCheck

-----------------------------------------------------------------------------
(* What the shard evaluates: the entries that parse, among all it was sent. *)

Parse(es) == {i \in 1..Len(es) : parseEntry(Token(es[i]))}

\* Where in the line the j-th of them is, and how many there are up to n.
Nth(es)     == Positions(Parse(es), Len(es))[Len(es)]
Upto(es, n) == Len(Positions(Parse(es), Len(es))[n])

Kept(es) == [j \in DOMAIN Nth(es) |-> Parsed(Token(es[Nth(es)[j]]))]

\* The batch the shard evaluates.
LEMMA KeptType ==
  ASSUME NEW K, EmptyKey \notin K, NEW es \in Seq(WireEntry(K))
  PROVE  /\ Kept(es) \in Seq(EntryOf(K)) /\ Len(Kept(es)) = Len(Nth(es))
         /\ Len(Kept(es)) = Upto(es, Len(es)) /\ DOMAIN Kept(es) = 1..Len(Kept(es))
         /\ \A j \in 1..Len(Kept(es)) :
              /\ Nth(es)[j] \in Parse(es) /\ Upto(es, Nth(es)[j]) = j
              /\ Kept(es)[j] = Parsed(Token(es[Nth(es)[j]]))
         /\ \A i \in Parse(es) :
              /\ Upto(es, i) \in 1..Len(Kept(es)) /\ Nth(es)[Upto(es, i)] = i
              /\ Kept(es)[Upto(es, i)] = Parsed(Token(es[i]))
  <1> DEFINE m == Len(es)
             P == Parse(es)
             q == Positions(P, m)
             idx == q[m]
  <1>1. m \in Nat /\ P \in SUBSET (1..m) /\ m \in 0..m
    BY DEF Parse
  <1>2. Lists(q, P, m)
    <2> HIDE DEF m, P, q
    <2> QED BY <1>1, PositionsList DEF q
  <1>3. Nth(es) = idx /\ \A n : Upto(es, n) = Len(q[n])
    BY DEF Nth, Upto
  <1>4. \A i \in 1..m : es[i] \in WireEntry(K) /\ es[i].key # EmptyKey
    <2>1. ASSUME NEW i \in 1..m PROVE es[i] \in WireEntry(K) /\ es[i].key # EmptyKey
      <3>1. es[i] \in WireEntry(K)
        OBVIOUS
      <3>2. es[i].key \in K
        BY <3>1 DEF WireEntry
      <3> QED BY <3>1, <3>2
    <2> QED BY <2>1
  <1> HIDE DEF m, P, q
  <1>5. /\ idx \in Seq(P) /\ Len(idx) \in Nat /\ DOMAIN idx = 1..Len(idx)
        /\ \A i \in P : i <= m => Len(q[i]) \in 1..Len(idx) /\ idx[Len(q[i])] = i
        /\ \A j \in 1..Len(idx) : idx[j] \in P /\ Len(q[idx[j]]) = j
    <2>1. /\ idx \in Seq(P)
          /\ \A i \in P : i <= m => Len(q[i]) \in 1..Len(idx) /\ idx[Len(q[i])] = i
          /\ \A j \in 1..Len(idx) : Len(q[idx[j]]) = j
      BY <1>2 DEF Lists
    <2> HIDE DEF idx
    <2>2. Len(idx) \in Nat /\ DOMAIN idx = 1..Len(idx) /\ \A j \in 1..Len(idx) : idx[j] \in P
      BY <2>1
    <2> QED BY <2>1, <2>2
  <1>6. \A i \in P : i <= m /\ i \in 1..m
    BY <1>1
  <1> HIDE DEF idx
  <1>7. Kept(es) = [j \in 1..Len(idx) |-> Parsed(Token(es[idx[j]]))]
    BY <1>3, <1>5 DEF Kept
  <1>8. \A j \in 1..Len(idx) : Parsed(Token(es[idx[j]])) \in EntryOf(K)
    <2>1. ASSUME NEW j \in 1..Len(idx) PROVE Parsed(Token(es[idx[j]])) \in EntryOf(K)
      <3>1. idx[j] \in 1..m
        BY <1>5, <1>6
      <3>2. es[idx[j]] \in WireEntry(K) /\ es[idx[j]].key # EmptyKey
        BY <1>4, <3>1
      <3> QED BY <3>2, ParsedChecksAlike
    <2> QED BY <2>1
  <1>9. Kept(es) \in Seq(EntryOf(K)) /\ Len(Kept(es)) = Len(idx)
    BY <1>5, <1>7, <1>8
  <1>10. \A j \in 1..Len(idx) : Kept(es)[j] = Parsed(Token(es[idx[j]]))
    BY <1>7
  <1>11. ASSUME NEW i \in P
         PROVE  Len(q[i]) \in 1..Len(idx) /\ Kept(es)[Len(q[i])] = Parsed(Token(es[i]))
    <2>1. Len(q[i]) \in 1..Len(idx) /\ idx[Len(q[i])] = i
      BY <1>5, <1>6
    <2> QED BY <1>10, <2>1
  <1>12. Upto(es, Len(es)) = Len(idx)
    BY <1>3 DEF idx, m
  <1>13. DOMAIN Kept(es) = 1..Len(Kept(es))
    BY <1>7, <1>9
  <1> QED BY <1>3, <1>5, <1>6, <1>9, <1>10, <1>11, <1>12, <1>13 DEF P

\* A group on its way.
GroupState(K) == [tats : [K -> Nat], admitted : BOOLEAN]

\* A step of a group moves the TAT of an entry that is admitted, and no other.
LEMMA PassedTats ==
  ASSUME NEW K, NEW g, g \in GroupState(K), NEW e, NEW s,
         e.peek \/ CheckEntry(g.tats[e.key], s, e).throttled
  PROVE  GroupStep(g, e, s).tats = g.tats
  <1> DEFINE v == CheckEntry(g.tats[e.key], s, e)
  <1>1. GroupStep(g, e, s) = g \/ GroupStep(g, e, s) = [g EXCEPT !.admitted = FALSE]
    BY DEF GroupStep
  <1>2. [g EXCEPT !.admitted = FALSE].tats = g.tats
    BY DEF GroupState
  <1> QED BY <1>1, <1>2

LEMMA ChargedTats ==
  ASSUME NEW K, NEW g, g \in GroupState(K), NEW e, e.key \in K, NEW s,
         ~e.peek, ~CheckEntry(g.tats[e.key], s, e).throttled
  PROVE  GroupStep(g, e, s).tats = [g.tats EXCEPT ![e.key] = CheckEntry(g.tats[e.key], s, e).tat]
  <1> DEFINE v == CheckEntry(g.tats[e.key], s, e)
  <1>1. GroupStep(g, e, s) = [g EXCEPT !.tats[e.key] = v.tat]
    BY DEF GroupStep
  <1> HIDE DEF v
  <1>2. [g EXCEPT !.tats[e.key] = v.tat].tats = [g.tats EXCEPT ![e.key] = v.tat]
    BY DEF GroupState
  <1> QED BY <1>1, <1>2 DEF v

\* The count goes up by one at an entry that parses.
LEMMA UptoStep ==
  ASSUME NEW es, Len(es) \in Nat
  PROVE  /\ Upto(es, 0) = 0
         /\ \A n \in 1..Len(es) :
              /\ Upto(es, n - 1) \in Nat
              /\ Upto(es, n) = IF n \in Parse(es) THEN Upto(es, n - 1) + 1 ELSE Upto(es, n - 1)
  <1> DEFINE m == Len(es)
             P == Parse(es)
             q == Positions(P, m)
  <1>1. m \in Nat /\ P \in SUBSET (1..m)
    BY DEF Parse
  <1>2. \A n : Upto(es, n) = Len(q[n])
    BY DEF Upto
  <1> HIDE DEF m, P
  <1>3. q[0] = <<>> /\ \A n \in 1..m : q[n] = PositionStep(P, n, q[n-1])
    BY <1>1, PositionsUnfold
  <1>4. \A n \in 0..m : q[n] \in Seq(P)
    BY <1>1, PositionsList DEF Lists
  <1> HIDE DEF q
  <1>5. ASSUME NEW n \in 1..m
        PROVE  /\ Len(q[n-1]) \in Nat
               /\ Len(q[n]) = IF n \in P THEN Len(q[n-1]) + 1 ELSE Len(q[n-1])
    <2>1. q[n-1] \in Seq(P)
      BY <1>1, <1>4
    <2>2. Len(q[n-1]) \in Nat
      BY <2>1
    <2>3. CASE n \in P
      <3>1. q[n] = Append(q[n-1], n)
        BY <1>3, <2>3 DEF PositionStep
      <3>2. Len(Append(q[n-1], n)) = Len(q[n-1]) + 1
        BY <2>1, <2>3, AppendedElements
      <3> QED BY <2>2, <2>3, <3>1, <3>2
    <2>4. CASE n \notin P
      <3>1. q[n] = q[n-1]
        BY <1>3, <2>4 DEF PositionStep
      <3> QED BY <2>2, <2>4, <3>1
    <2> QED BY <2>3, <2>4
  <1>6. Len(q[0]) = 0
    BY <1>3
  <1> QED BY <1>2, <1>5, <1>6 DEF m, P

\* Entries that do not parse leave the working copy alone wherever they are
\* evaluated: the shard, which never sees them, has the same TATs as an embedded
\* throttler at every entry that both evaluate.
LEMMA GroupSkips ==
  ASSUME NEW K, EmptyKey \notin K, NEW es \in Seq(WireEntry(K)), NEW t \in [K -> Nat],
         NEW s \in Nat
  PROVE  \A n \in 0..Len(es) :
           /\ Upto(es, n) \in 0..Len(Kept(es))
           /\ Group(Kept(es), t, s)[Upto(es, n)].tats = Group(es, t, s)[n].tats
  <1> DEFINE m == Len(es)
             k == Kept(es)
             G == Group(es, t, s)
             H == Group(k, t, s)
             c(n) == Upto(es, n)
             S == {n \in Nat : c(n) \in 0..Len(k) /\ H[c(n)].tats = G[n].tats}
  <1>0. m \in Nat /\ \A n \in 1..m : es[n] \in WireEntry(K) /\ es[n].key \in K
    <2>1. ASSUME NEW n \in 1..m PROVE es[n] \in WireEntry(K) /\ es[n].key \in K
      <3>1. es[n] \in WireEntry(K)
        OBVIOUS
      <3> QED BY <3>1 DEF WireEntry
    <2> QED BY <2>1
  <1>1. /\ k \in Seq(EntryOf(K)) /\ Len(k) \in Nat
        /\ \A i \in Parse(es) : c(i) \in 1..Len(k) /\ k[c(i)] = Parsed(Token(es[i]))
    BY KeptType
  <1>2. es \in Seq(EntryOf(K))
    <2>1. WireEntry(K) \subseteq EntryOf(K)
      BY WireEntryType
    <2> QED BY <2>1
  <1>3. G[0] = GroupStart(t) /\ \A n \in 1..m : G[n] = GroupStep(G[n-1], es[n], s)
    BY <1>0, GroupUnfolds
  <1> HIDE DEF k
  <1>4. H[0] = GroupStart(t) /\ \A n \in 1..Len(k) : H[n] = GroupStep(H[n-1], k[n], s)
    BY <1>1, GroupUnfolds
  <1>5. \A n \in 0..m : G[n] \in GroupState(K)
    BY <1>2, GroupType DEF GroupState
  <1>6. \A n \in 0..Len(k) : H[n] \in GroupState(K)
    BY <1>1, GroupType DEF GroupState
  <1>7. /\ c(0) = 0
        /\ \A n \in 1..m : /\ c(n - 1) \in Nat
                           /\ c(n) = IF n \in Parse(es) THEN c(n - 1) + 1 ELSE c(n - 1)
    BY <1>0, UptoStep
  <1> HIDE DEF G, H, c
  <1>8. 0 \in S
    <2>1. c(0) \in 0..Len(k)
      BY <1>1, <1>7
    <2>2. H[c(0)].tats = G[0].tats
      BY <1>3, <1>4, <1>7
    <2> QED BY <2>1, <2>2
  <1>9. ASSUME NEW n \in 1..m, n - 1 \in S PROVE n \in S
    <2> DEFINE e == es[n]
               g == G[n-1]
               h == H[c(n-1)]
    <2>1. c(n-1) \in 0..Len(k) /\ h.tats = g.tats
      BY <1>9
    <2>2. /\ e \in WireEntry(K) /\ e.key \in K /\ e.key # EmptyKey
          /\ g \in GroupState(K)
          /\ h \in GroupState(K)
          /\ G[n] = GroupStep(g, e, s)
      BY <1>0, <1>3, <1>5, <1>6, <2>1
    <2>3. CASE n \in Parse(es)
      <3> DEFINE p == Parsed(Token(e))
      <3>1. c(n) = c(n-1) + 1 /\ c(n) \in 1..Len(k) /\ k[c(n)] = p /\ c(n) - 1 = c(n-1)
        BY <1>1, <1>7, <2>3
      <3>2. H[c(n)] = GroupStep(h, p, s)
        <4>1. H[c(n)] = GroupStep(H[c(n) - 1], k[c(n)], s)
          BY <1>4, <3>1
        <4> QED BY <3>1, <4>1
      <3>3. /\ p.key = e.key /\ p.peek = e.peek
            /\ \A x : CheckEntry(x, s, p) = CheckEntry(x, s, e)
        <4> HIDE DEF e
        <4> QED BY <2>2, ParsedChecksAlike
      <3> HIDE DEF e, g, h, p
      <3>4. GroupStep(h, p, s).tats = GroupStep(g, e, s).tats
        <4> DEFINE v == CheckEntry(g.tats[e.key], s, e)
        <4>1. p.key \in K
          BY <2>2, <3>3
        <4>2. CheckEntry(h.tats[p.key], s, p) = v
          BY <2>1, <3>3
        <4>3. CASE e.peek \/ v.throttled
          <5>1. GroupStep(g, e, s).tats = g.tats
            BY <2>2, <4>3, PassedTats
          <5>2. p.peek \/ CheckEntry(h.tats[p.key], s, p).throttled
            BY <3>3, <4>2, <4>3
          <5>3. GroupStep(h, p, s).tats = h.tats
            BY <2>2, <5>2, PassedTats
          <5> QED BY <2>1, <5>1, <5>3
        <4>4. CASE ~e.peek /\ ~v.throttled
          <5>1. GroupStep(g, e, s).tats = [g.tats EXCEPT ![e.key] = v.tat]
            BY <2>2, <4>4, ChargedTats
          <5>2. ~p.peek /\ ~CheckEntry(h.tats[p.key], s, p).throttled
            BY <3>3, <4>2, <4>4
          <5>3. GroupStep(h, p, s).tats =
                  [h.tats EXCEPT ![p.key] = CheckEntry(h.tats[p.key], s, p).tat]
            BY <2>2, <4>1, <5>2, ChargedTats
          <5> HIDE DEF v
          <5> QED BY <2>1, <3>3, <4>2, <5>1, <5>3
        <4> QED BY <4>3, <4>4
      <3>5. H[c(n)].tats = G[n].tats /\ c(n) \in 0..Len(k)
        BY <1>1, <2>2, <3>1, <3>2, <3>4
      <3> QED BY <3>5
    <2>4. CASE n \notin Parse(es)
      <3>1. c(n) = c(n-1)
        BY <1>7, <2>4
      <3>2. ~parseEntry(Token(e))
        BY <2>4 DEF Parse
      <3> HIDE DEF e, g, h
      <3>3. CheckEntry(g.tats[e.key], s, e) = Refused(0, 0, g.tats[e.key])
        BY <2>2, <3>2, UnparsedIsRefused
      <3>4. GroupStep(g, e, s).tats = g.tats
        <4>1. CheckEntry(g.tats[e.key], s, e).throttled
          BY <3>3 DEF Refused
        <4> QED BY <2>2, <4>1, PassedTats
      <3>5. H[c(n)].tats = G[n].tats /\ c(n) \in 0..Len(k)
        BY <2>1, <2>2, <3>1, <3>4 DEF h
      <3> QED BY <3>5
    <2> QED BY <2>3, <2>4
  <1>10. 0..m \subseteq S
    <2> HIDE DEF S, m
    <2> QED BY <1>0, <1>8, <1>9, SegmentInduction
  <1> QED BY <1>10 DEF G, H, c, k, m

\* A verdict, entry by entry.
VerdictOn(es, t, s, i) ==
  CheckEntry(IF es[i].peek THEN t[es[i].key] ELSE Group(es, t, s)[i-1].tats[es[i].key], s, es[i])

LEMMA VerdictOf ==
  ASSUME NEW S, NEW es \in Seq(S), NEW t, NEW s
  PROVE  \A i \in 1..Len(es) : Verdicts(es, t, s)[i] = VerdictOn(es, t, s, i)
  <1>1. DOMAIN es = 1..Len(es)
    OBVIOUS
  <1> QED BY <1>1 DEF Verdicts, VerdictOn

\* Alike(es, t, s): both give an entry the same verdict, and an entry the shard
\* rejects is one an embedded throttler refuses for good.
Alike(es, t, s) ==
  /\ \A i \in Parse(es) : Verdicts(Kept(es), t, s)[Upto(es, i)] = Verdicts(es, t, s)[i]
  /\ \A i \in 1..Len(es) : i \notin Parse(es) =>
       LET v == Verdicts(es, t, s)[i]
       IN  v.throttled = TRUE /\ v.remaining = 0 /\ v.retryAfter = 0

LEMMA VerdictsAlike ==
  ASSUME NEW K, EmptyKey \notin K, NEW es \in Seq(WireEntry(K)), NEW t \in [K -> Nat],
         NEW s \in Nat
  PROVE  Alike(es, t, s)
  <1> DEFINE m == Len(es)
             k == Kept(es)
  <1>1. /\ m \in Nat
        /\ \A n \in 1..m : es[n] \in WireEntry(K) /\ es[n].key \in K /\ es[n].key # EmptyKey
    <2>1. ASSUME NEW n \in 1..m
          PROVE  es[n] \in WireEntry(K) /\ es[n].key \in K /\ es[n].key # EmptyKey
      <3>1. es[n] \in WireEntry(K)
        OBVIOUS
      <3> QED BY <3>1 DEF WireEntry
    <2> QED BY <2>1
  <1>2. /\ k \in Seq(EntryOf(K)) /\ Len(k) \in Nat
        /\ \A i \in Parse(es) : Upto(es, i) \in 1..Len(k) /\ k[Upto(es, i)] = Parsed(Token(es[i]))
    BY KeptType
  <1>3. \A n \in 0..m : Group(k, t, s)[Upto(es, n)].tats = Group(es, t, s)[n].tats
    BY GroupSkips
  <1>4. \A i \in 1..m : Verdicts(es, t, s)[i] = VerdictOn(es, t, s, i)
    BY VerdictOf
  <1> HIDE DEF k
  <1>5. \A j \in 1..Len(k) : Verdicts(k, t, s)[j] = VerdictOn(k, t, s, j)
    BY <1>2, VerdictOf
  <1>6. ASSUME NEW i \in Parse(es) PROVE Verdicts(k, t, s)[Upto(es, i)] = Verdicts(es, t, s)[i]
    <2> DEFINE e == es[i]
               j == Upto(es, i)
               p == Parsed(Token(e))
    <2>1. i \in 1..m /\ i - 1 \in 0..m
      BY <1>1 DEF Parse
    <2>2. j \in 1..Len(k) /\ k[j] = p
      BY <1>2
    <2>3. j - 1 = Upto(es, i - 1)
      <3>1. Upto(es, i - 1) \in Nat /\ j = Upto(es, i - 1) + 1
        BY <1>1, <2>1, UptoStep
      <3> HIDE DEF j
      <3> QED BY <3>1
    <2>4. Group(k, t, s)[j-1].tats = Group(es, t, s)[i-1].tats
      BY <1>3, <2>1, <2>3
    <2>5. e \in WireEntry(K) /\ e.key # EmptyKey
      BY <1>1, <2>1
    <2>6. VerdictOn(es, t, s, i) =
            CheckEntry(IF e.peek THEN t[e.key] ELSE Group(es, t, s)[i-1].tats[e.key], s, e)
      BY DEF VerdictOn
    <2>7. VerdictOn(k, t, s, j) =
            CheckEntry(IF p.peek THEN t[p.key] ELSE Group(k, t, s)[j-1].tats[p.key], s, p)
      BY <2>2 DEF VerdictOn
    <2> HIDE DEF e, j
    <2>8. /\ p.key = e.key /\ p.peek = e.peek
          /\ \A x : CheckEntry(x, s, p) = CheckEntry(x, s, e)
      BY <2>5, ParsedChecksAlike
    <2> HIDE DEF p
    <2>9. VerdictOn(k, t, s, j) = VerdictOn(es, t, s, i)
      BY <2>4, <2>6, <2>7, <2>8
    <2>10. Verdicts(k, t, s)[j] = Verdicts(es, t, s)[i]
      BY <1>4, <1>5, <2>1, <2>2, <2>9
    <2> QED BY <2>10 DEF j
  <1>7. ASSUME NEW i \in 1..m, i \notin Parse(es)
        PROVE  LET v == Verdicts(es, t, s)[i]
               IN  v.throttled = TRUE /\ v.remaining = 0 /\ v.retryAfter = 0
    <2> DEFINE e == es[i]
               x == IF e.peek THEN t[e.key] ELSE Group(es, t, s)[i-1].tats[e.key]
    <2>1. Verdicts(es, t, s)[i] = CheckEntry(x, s, e)
      BY <1>4 DEF VerdictOn
    <2>2. e \in WireEntry(K) /\ e.key # EmptyKey
      BY <1>1
    <2>3. ~parseEntry(Token(e))
      BY <1>7 DEF Parse
    <2> HIDE DEF e, x
    <2>4. CheckEntry(x, s, e) = Refused(0, 0, x)
      BY <2>2, <2>3, UnparsedIsRefused
    <2> QED BY <2>1, <2>4 DEF Refused
  <1> QED BY <1>6, <1>7 DEF k, Alike

-----------------------------------------------------------------------------
(* What the shard answers, and what the client makes of it. *)

\* The positions handleThrottle keeps, and the batch it hands to the Throttler.
LEMMA AcceptedLine ==
  ASSUME NEW es \in Seq(WireEntry(ValidKeys))
  PROVE  LET line == encodeThrottle(es)
         IN  /\ DOMAIN line = 1..Len(es) /\ Len(line) = Len(es)
             /\ \A i \in 1..Len(es) : parseEntry(line[i]) <=> i \in Parse(es)
             /\ EntryIdx(line) = Nth(es) /\ Accepted(line) = Kept(es)
  <1> DEFINE line == encodeThrottle(es)
             m == Len(es)
  <1>1. line = [i \in 1..m |-> Token(es[i])] /\ m \in Nat
    BY EncodedLine
  <1> HIDE DEF line
  <1>2. DOMAIN line = 1..m /\ Len(line) = m /\ \A i \in 1..m : line[i] = Token(es[i])
    BY <1>1
  <1>3. \A i \in 1..m : parseEntry(line[i]) <=> i \in Parse(es)
    BY <1>2 DEF Parse
  <1>4. {i \in DOMAIN line : parseEntry(line[i])} = Parse(es)
    BY <1>2 DEF Parse
  <1>5. EntryIdx(line) = Nth(es)
    BY <1>2, <1>4 DEF EntryIdx, Nth
  <1>6. Accepted(line) = Kept(es)
    <2> DEFINE idx == Nth(es)
    <2>1. Accepted(line) = [j \in DOMAIN idx |-> Parsed(line[idx[j]])]
      BY <1>5 DEF Accepted
    <2>2. Kept(es) = [j \in DOMAIN idx |-> Parsed(Token(es[idx[j]]))]
      BY DEF Kept
    <2>3. ASSUME NEW j \in DOMAIN idx PROVE line[idx[j]] = Token(es[idx[j]])
      <3>1. Kept(es) \in Seq(EntryOf(ValidKeys)) /\ DOMAIN Kept(es) = 1..Len(Kept(es))
            /\ \A n \in 1..Len(Kept(es)) : Nth(es)[n] \in Parse(es)
        BY KeptType DEF ValidKeys, EmptyKey
      <3>2. DOMAIN Kept(es) = DOMAIN idx
        BY <2>2
      <3>3. idx[j] \in Parse(es)
        BY <3>1, <3>2
      <3>4. idx[j] \in 1..m
        BY <3>3 DEF Parse
      <3> QED BY <1>2, <3>4
    <2> HIDE DEF idx
    <2> QED BY <2>1, <2>2, <2>3
  <1> QED BY <1>2, <1>3, <1>5, <1>6 DEF line

\* The shard's TATs are naturals.
LEMMA TatsType ==
  ASSUME StateOK
  PROVE  Tats \in [ValidKeys -> Nat] /\ now \in Nat
  <1>1. tat \in Nat /\ now \in Nat
    BY LeakyBucketAssumption, WidthAssumption DEF StateOK
  <1> QED BY <1>1 DEF Tats

\* No verdict reports less than no headroom.
LEMMA VerdictShape ==
  ASSUME NEW K, NEW e \in EntryOf(K), NEW x \in Nat, NEW s \in Nat
  PROVE  LET v == CheckEntry(x, s, e) IN v.throttled \in BOOLEAN /\ v.remaining >= 0
  <1> DEFINE v == CheckEntry(x, s, e)
             rm == Remaining(x, s, e.limit.capacity, EffectiveUnits(e.limit.units), e.limit.period)
  <1>1. v.throttled \in BOOLEAN
    BY EntryVerdict
  <1>2. v.remaining = 0 \/ v.remaining = rm
    BY DEF CheckEntry, gcraCheck, Refused, Admitted
  <1>3. rm >= 0
    BY DEF Remaining, max
  <1> HIDE DEF rm, v
  <1>4. v.remaining >= 0
    BY <1>2, <1>3
  <1> QED BY <1>1, <1>4 DEF v

\* The verdicts on a batch are such verdicts.
LEMMA VerdictsShape ==
  ASSUME NEW K, NEW es \in Seq(EntryOf(K)), NEW t \in [K -> Nat], NEW s \in Nat,
         NEW i \in 1..Len(es)
  PROVE  LET v == Verdicts(es, t, s)[i] IN v.throttled \in BOOLEAN /\ v.remaining >= 0
  <1> DEFINE e == es[i]
             g == Group(es, t, s)[i-1]
             x == IF e.peek THEN t[e.key] ELSE g.tats[e.key]
  <1>1. e \in EntryOf(K) /\ i - 1 \in 0..Len(es)
    OBVIOUS
  <1>2. e.key \in K
    <2> HIDE DEF e
    <2> QED BY <1>1 DEF EntryOf
  <1>3. g \in GroupState(K)
    BY <1>1, GroupType DEF GroupState
  <1>4. Verdicts(es, t, s)[i] = CheckEntry(x, s, e)
    BY VerdictOf DEF VerdictOn
  <1>5. x \in Nat
    <2> HIDE DEF e, g
    <2> QED BY <1>2, <1>3 DEF GroupState
  <1> HIDE DEF e, x
  <1> QED BY <1>1, <1>4, <1>5, VerdictShape

\* The response line: a verdict where the token parsed, ERR elsewhere, and ERR
\* everywhere if the Throttler fails.
LEMMA HandledLine ==
  ASSUME StateOK, NEW es \in Seq(WireEntry(ValidKeys)), NEW fails \in BOOLEAN
  PROVE  LET r == handleThrottle(encodeThrottle(es), fails)
         IN  /\ Len(r) = Len(es)
             /\ \A i \in 1..Len(es) :
                  /\ fails \/ i \notin Parse(es) => r[i] = ERR
                  /\ ~fails /\ i \in Parse(es) =>
                       r[i] = formatResult(es[i].key, Verdicts(es, Tats, now)[i])
  <1> DEFINE line == encodeThrottle(es)
             r   == handleThrottle(line, fails)
             m   == Len(es)
             P   == Parse(es)
             idx == Nth(es)
             k   == Kept(es)
             vs  == Verdicts(k, Tats, now)
             J(i) == CHOOSE j \in DOMAIN idx : idx[j] = i
  <1>0. m \in Nat /\ P \in SUBSET (1..m) /\ EmptyKey \notin ValidKeys
    BY DEF Parse, EmptyKey, ValidKeys
  <1>1. /\ DOMAIN line = 1..m
        /\ \A i \in 1..m : parseEntry(line[i]) <=> i \in P
        /\ EntryIdx(line) = idx /\ Accepted(line) = k
    BY AcceptedLine
  <1> HIDE DEF line
  <1>2. r = [i \in 1..m |-> IF fails \/ ~parseEntry(line[i]) THEN ERR
                            ELSE formatResult(k[J(i)].key, vs[J(i)])]
    BY <1>1 DEF handleThrottle
  <1>3. ASSUME NEW i \in P PROVE J(i) = Upto(es, i)
    <2> DEFINE q == Positions(P, m)
    <2>1. idx = q[m] /\ Upto(es, i) = Len(q[i])
      BY DEF Nth, Upto
    <2> HIDE DEF P, m
    <2>2. (CHOOSE j \in DOMAIN q[m] : q[m][j] = i) = Len(q[i])
      BY <1>0, PlaceInList
    <2> HIDE DEF q, idx
    <2> QED BY <2>1, <2>2
  <1>4. ASSUME NEW i \in P
        PROVE  k[J(i)].key = es[i].key /\ vs[J(i)] = Verdicts(es, Tats, now)[i]
    <2>1. k[Upto(es, i)] = Parsed(Token(es[i]))
      BY <1>0, KeptType
    <2>2. i \in 1..m
      BY <1>0
    <2>3. es[i] \in WireEntry(ValidKeys) /\ es[i].key # EmptyKey
      <3>1. es[i] \in WireEntry(ValidKeys)
        BY <2>2
      <3>2. es[i].key \in ValidKeys
        BY <3>1, WireEntryType
      <3> QED BY <1>0, <3>1, <3>2
    <2>4. Parsed(Token(es[i])).key = es[i].key
      BY <2>3, ParsedChecksAlike
    <2>5. Tats \in [ValidKeys -> Nat] /\ now \in Nat
      BY TatsType
    <2>6. vs[Upto(es, i)] = Verdicts(es, Tats, now)[i]
      <3>1. \A n \in Parse(es) :
              Verdicts(Kept(es), Tats, now)[Upto(es, n)] = Verdicts(es, Tats, now)[n]
        <4>1. Alike(es, Tats, now)
          BY <1>0, <2>5, VerdictsAlike
        <4> QED BY <4>1 DEF Alike
      <3> QED BY <3>1
    <2>7. J(i) = Upto(es, i)
      BY <1>3
    <2> HIDE DEF J, k, vs
    <2> QED BY <2>1, <2>4, <2>6, <2>7
  <1> HIDE DEF r, k, vs, J, P, m
  <1>5. Len(r) = m
    BY <1>0, <1>2
  <1>6. ASSUME NEW i \in 1..m
        PROVE  /\ fails \/ i \notin P => r[i] = ERR
               /\ ~fails /\ i \in P => r[i] = formatResult(es[i].key, Verdicts(es, Tats, now)[i])
    <2>1. r[i] = IF fails \/ ~parseEntry(line[i]) THEN ERR
                 ELSE formatResult(k[J(i)].key, vs[J(i)])
      BY <1>2
    <2> QED BY <1>1, <1>4, <2>1
  <1> QED BY <1>5, <1>6 DEF r, line, m, P

\* A formatted verdict, and what decodeResult reads of it.
LEMMA Formatted ==
  ASSUME NEW key, NEW v, v.throttled \in BOOLEAN, v.remaining >= 0
  PROVE  LET f == formatResult(key, v)
         IN  /\ f # ERR /\ f.fields = 4 /\ f.key = key
             /\ f.remaining >= 0 /\ f.remaining = v.remaining /\ f.retryAfter = v.retryAfter
             /\ (f.throttled = "1") = v.throttled
  <1> DEFINE f == formatResult(key, v)
  <1>1. /\ f.fields = 4 /\ f.key = key /\ f.throttled = IF v.throttled THEN "1" ELSE "0"
        /\ f.remaining = v.remaining /\ f.retryAfter = v.retryAfter
    BY DEF formatResult
  <1> HIDE DEF f
  <1>2. f # ERR
    <2>1. ERR.fields = 1
      BY DEF ERR
    <2> QED BY <1>1, <2>1
  <1>3. (f.throttled = "1") = v.throttled
    BY <1>1
  <1> QED BY <1>1, <1>2, <1>3 DEF f

\* The entries of a batch that is sent.
LEMMA SentVerdicts ==
  ASSUME StateOK, NEW es \in Seq(WireEntry(ValidKeys)), NEW i \in 1..Len(es)
  PROVE  LET v == Verdicts(es, Tats, now)[i] IN v.throttled \in BOOLEAN /\ v.remaining >= 0
  <1>1. WireEntry(ValidKeys) \subseteq EntryOf(ValidKeys)
    BY WireEntryType
  <1>2. es \in Seq(EntryOf(ValidKeys))
    BY <1>1
  <1>3. Tats \in [ValidKeys -> Nat] /\ now \in Nat
    BY TatsType
  <1> QED BY <1>2, <1>3, VerdictsShape

\* An answer, healthy or not, always decodes.
LEMMA AnswerDecodes ==
  ASSUME StateOK, NEW es \in Seq(WireEntry(ValidKeys)), NEW fails \in BOOLEAN
  PROVE  WellFormed(handleThrottle(encodeThrottle(es), fails), es)
  <1> DEFINE r == handleThrottle(encodeThrottle(es), fails)
             vs == Verdicts(es, Tats, now)
  <1>1. /\ Len(r) = Len(es)
        /\ \A i \in 1..Len(es) :
             /\ fails \/ i \notin Parse(es) => r[i] = ERR
             /\ ~fails /\ i \in Parse(es) => r[i] = formatResult(es[i].key, vs[i])
    BY HandledLine
  <1>2. DOMAIN es = 1..Len(es)
    OBVIOUS
  <1> HIDE DEF r
  <1>3. ASSUME NEW i \in DOMAIN es
        PROVE  r[i] = ERR \/ (r[i].fields = 4 /\ r[i].key = es[i].key /\ r[i].remaining >= 0)
    <2>1. CASE fails \/ i \notin Parse(es)
      BY <1>1, <1>2, <2>1
    <2>2. CASE ~fails /\ i \in Parse(es)
      <3>1. r[i] = formatResult(es[i].key, vs[i])
        BY <1>1, <1>2, <2>2
      <3>2. vs[i].throttled \in BOOLEAN /\ vs[i].remaining >= 0
        BY <1>2, SentVerdicts
      <3> HIDE DEF vs
      <3> QED BY <3>1, <3>2, Formatted
    <2> QED BY <2>1, <2>2
  <1>4. WellFormed(r, es)
    BY <1>1, <1>3 DEF WellFormed
  <1> QED BY <1>4 DEF r

\* The Err of a sent entry that was answered.
ErrAt(es, i) == IF i \in Parse(es) THEN "none" ELSE "ErrEntryRejected"

\* x is the result for an entry with this key, by how the exchange ended; v and
\* err are what the shard said of it.
ResultIs(x, key, outcome, failOpen, v, err) ==
  /\ outcome \in {"open", "fault"} => x = Reply(key, ~failOpen, 0, 0, "shard")
  /\ outcome = "answer of a failing Throttler" =>
       x = Reply(key, TRUE, 0, 0, "ErrEntryRejected")
  /\ outcome = "answer" => x = Reply(key, v.throttled, v.remaining, v.retryAfter, err)

\* The results an exchange gives.
LEMMA ExchangeResults ==
  ASSUME StateOK, NEW es \in Seq(WireEntry(ValidKeys)), NEW outcome \in Outcomes,
         NEW failOpen \in BOOLEAN, NEW i \in 1..Len(es)
  PROVE  ResultIs(Exchange(es, outcome, failOpen)[i], es[i].key, outcome, failOpen,
                  Verdicts(es, Tats, now)[i], ErrAt(es, i))
  <1> DEFINE fails == outcome # "answer"
             r == handleThrottle(encodeThrottle(es), fails)
             x == Exchange(es, outcome, failOpen)[i]
             v == Verdicts(es, Tats, now)[i]
             lost == outcome \in {"open", "fault"}
  <1>1. fails \in BOOLEAN /\ i \in DOMAIN es
    OBVIOUS
  <1>2. WellFormed(r, es)
    BY <1>1, AnswerDecodes
  <1>3. /\ fails \/ i \notin Parse(es) => r[i] = ERR
        /\ ~fails /\ i \in Parse(es) => r[i] = formatResult(es[i].key, v)
    BY <1>1, HandledLine
  <1>4. x = IF lost THEN Reply(es[i].key, ~failOpen, 0, 0, "shard")
            ELSE decodeResult(r, es)[i]
    BY <1>1, <1>2 DEF Exchange
  <1>5. decodeResult(r, es)[i] =
          IF r[i] = ERR THEN Reply(es[i].key, TRUE, 0, 0, "ErrEntryRejected")
          ELSE Reply(es[i].key, r[i].throttled = "1", r[i].remaining, r[i].retryAfter, "none")
    BY <1>1 DEF decodeResult
  <1>6. v.throttled \in BOOLEAN /\ v.remaining >= 0
    BY SentVerdicts
  <1>7. i \notin Parse(es) => v.throttled = TRUE /\ v.remaining = 0 /\ v.retryAfter = 0
    <2>1. Tats \in [ValidKeys -> Nat] /\ now \in Nat /\ EmptyKey \notin ValidKeys
      BY TatsType DEF EmptyKey, ValidKeys
    <2>2. Alike(es, Tats, now)
      BY <2>1, VerdictsAlike
    <2> QED BY <2>2 DEF Alike
  <1> HIDE DEF r, x, v
  <1>8. CASE lost
    <2>1. x = Reply(es[i].key, ~failOpen, 0, 0, "shard")
      BY <1>4, <1>8
    <2>2. outcome # "answer of a failing Throttler" /\ outcome # "answer"
      BY <1>8
    <2> QED BY <2>1, <2>2 DEF x, ResultIs
  <1>9. CASE outcome = "answer of a failing Throttler"
    <2>1. ~lost /\ fails /\ outcome # "answer"
      BY <1>9
    <2>2. x = Reply(es[i].key, TRUE, 0, 0, "ErrEntryRejected")
      BY <1>3, <1>4, <1>5, <2>1
    <2> QED BY <2>1, <2>2 DEF x, ResultIs
  <1>10. CASE outcome = "answer" /\ i \notin Parse(es)
    <2>1. ~lost /\ outcome # "answer of a failing Throttler"
      BY <1>10
    <2>2. x = Reply(es[i].key, TRUE, 0, 0, "ErrEntryRejected")
      BY <1>3, <1>4, <1>5, <1>10, <2>1
    <2>3. x = Reply(es[i].key, v.throttled, v.remaining, v.retryAfter, "ErrEntryRejected")
      BY <1>7, <1>10, <2>2
    <2> QED BY <1>10, <2>1, <2>3 DEF x, v, ResultIs, ErrAt
  <1>11. CASE outcome = "answer" /\ i \in Parse(es)
    <2> DEFINE f == formatResult(es[i].key, v)
    <2>1. r[i] = f
      BY <1>3, <1>11
    <2>2. /\ f # ERR /\ (f.throttled = "1") = v.throttled
          /\ f.remaining = v.remaining /\ f.retryAfter = v.retryAfter
      BY <1>6, Formatted
    <2>3. x = Reply(es[i].key, f.throttled = "1", f.remaining, f.retryAfter, "none")
      BY <1>4, <1>5, <1>11, <2>1, <2>2
    <2> HIDE DEF f
    <2>4. x = Reply(es[i].key, v.throttled, v.remaining, v.retryAfter, "none")
      BY <2>2, <2>3
    <2>5. ~lost /\ outcome # "answer of a failing Throttler"
      BY <1>11
    <2> QED BY <1>11, <2>4, <2>5 DEF x, v, ResultIs, ErrAt
  <1> QED BY <1>8, <1>9, <1>10, <1>11 DEF Outcomes

-----------------------------------------------------------------------------
(* The caller's entries, and the ones among them that are sent. *)

\* A key passes validateKey exactly if DHP/1 can carry it.
LEMMA KeysSent ==
  ASSUME NEW key \in Keys
  PROVE  validateKey(key) <=> key \in ValidKeys
  BY DEF Keys, validateKey, IsKeyDelimiter, ValidKeys, EmptyKey, SpacedKey, PipedKey

\* validIdx and validEntries hold what they should, in the caller's order.
LEMMA SentEntries ==
  ASSUME NEW es \in Seq(WireEntry(Keys))
  PROVE  /\ ValidEntries(es) = Sendable(es)
         /\ Sendable(es) \in Seq(WireEntry(ValidKeys))
         /\ \A i \in SendableAt(es) :
              /\ Place(es, i) \in 1..Len(Sendable(es)) /\ Sendable(es)[Place(es, i)] = es[i]
              /\ (CHOOSE j \in DOMAIN ValidIdx(es) : ValidIdx(es)[j] = i) = Place(es, i)
         /\ \A j \in 1..Len(Sendable(es)) : \E i \in SendableAt(es) : Place(es, i) = j
  <1> DEFINE m == Len(es)
             P == SendableAt(es)
             q == Positions(P, m)
             idx == q[m]
             S == Sendable(es)
  <1>1. m \in Nat /\ m \in 0..m /\ DOMAIN es = 1..m /\ \A i \in 1..m : es[i] \in WireEntry(Keys)
    OBVIOUS
  <1>2. P \in SUBSET (1..m) /\ \A i \in P : i \in 1..m /\ i \in Nat /\ i <= m /\ i \in 0..m
    <2>1. P \subseteq 1..m
      BY <1>1 DEF SendableAt
    <2>2. \A i \in 1..m : i \in Nat /\ i <= m /\ i \in 0..m
      BY <1>1
    <2> HIDE DEF P, m
    <2> QED BY <2>1, <2>2
  <1>3. {i \in DOMAIN es : validateKey(es[i].key)} = P
    <2>1. ASSUME NEW i \in DOMAIN es PROVE validateKey(es[i].key) <=> es[i].key \in ValidKeys
      <3>1. es[i] \in WireEntry(Keys)
        BY <1>1
      <3>2. es[i].key \in Keys
        BY <3>1, WireEntryType
      <3> QED BY <3>2, KeysSent
    <2> QED BY <2>1 DEF SendableAt
  <1>4. ValidIdx(es) = idx
    BY <1>3 DEF ValidIdx
  <1>5. \A n \in 0..m : Lists(q, P, n)
    <2> HIDE DEF m, P, q
    <2> QED BY <1>1, <1>2, PositionsList DEF q
  <1>6. \A i \in P : es[i] \in WireEntry(ValidKeys)
    <2>1. ASSUME NEW i \in P PROVE es[i] \in WireEntry(ValidKeys)
      <3>1. es[i] \in WireEntry(Keys) /\ es[i].key \in ValidKeys
        BY <1>1, <1>2 DEF SendableAt
      <3> QED BY <3>1 DEF WireEntry
    <2> QED BY <2>1
  <1>7. \A n : Place(es, n) = Cardinality({i \in P : i <= n})
    BY DEF Place
  <1>8. S = [n \in 1..Cardinality(P) |-> es[CHOOSE i \in P : Place(es, i) = n]]
    BY DEF Sendable
  <1>9. ValidEntries(es) = [j \in DOMAIN idx |-> es[idx[j]]]
    BY <1>4 DEF ValidEntries
  <1> HIDE DEF P, q, m, S
  <1>10. \A n \in 0..m : Len(q[n]) = Place(es, n)
    BY <1>5, <1>7 DEF Lists
  <1>11. /\ idx \in Seq(P)
         /\ \A i \in P : Len(q[i]) \in 1..Len(idx) /\ idx[Len(q[i])] = i
         /\ \A j \in 1..Len(idx) : Len(q[idx[j]]) = j
    BY <1>1, <1>2, <1>5 DEF Lists
  <1>12. Len(idx) = Cardinality(P)
    <2>1. {i \in P : i <= m} = P
      BY <1>2
    <2> QED BY <1>1, <1>7, <1>10, <2>1
  <1> HIDE DEF idx
  <1>13. Len(idx) \in Nat /\ DOMAIN idx = 1..Len(idx) /\ \A j \in 1..Len(idx) : idx[j] \in P
    BY <1>11
  <1>14. \A i \in P : Place(es, i) \in 1..Len(idx) /\ idx[Place(es, i)] = i
    BY <1>2, <1>10, <1>11
  <1>15. \A j \in 1..Len(idx) : Place(es, idx[j]) = j
    BY <1>2, <1>10, <1>11, <1>13
  <1>16. ASSUME NEW n \in 1..Len(idx) PROVE (CHOOSE i \in P : Place(es, i) = n) = idx[n]
    <2>1. idx[n] \in P /\ Place(es, idx[n]) = n
      BY <1>13, <1>15
    <2>2. \A i \in P : Place(es, i) = n => i = idx[n]
      BY <1>14
    <2> QED BY <2>1, <2>2
  <1>17. S = [j \in 1..Len(idx) |-> es[idx[j]]]
    <2> DEFINE C(n) == CHOOSE i \in P : Place(es, i) = n
    <2>1. S = [n \in 1..Len(idx) |-> es[C(n)]]
      BY <1>8, <1>12
    <2>2. \A n \in 1..Len(idx) : C(n) = idx[n]
      BY <1>16
    <2> HIDE DEF C
    <2> QED BY <2>1, <2>2
  <1>18. ValidEntries(es) = S
    BY <1>9, <1>13, <1>17
  <1>19. \A j \in 1..Len(idx) : es[idx[j]] \in WireEntry(ValidKeys)
    BY <1>6, <1>13
  <1>20. /\ S \in Seq(WireEntry(ValidKeys)) /\ Len(S) = Len(idx)
         /\ \A j \in 1..Len(idx) : S[j] = es[idx[j]]
    BY <1>13, <1>17, <1>19
  <1>21. ASSUME NEW i \in P PROVE (CHOOSE j \in DOMAIN idx : idx[j] = i) = Place(es, i)
    <2>1. Place(es, i) \in DOMAIN idx /\ idx[Place(es, i)] = i
      BY <1>13, <1>14
    <2>2. \A j \in DOMAIN idx : idx[j] = i => j = Place(es, i)
      BY <1>13, <1>15
    <2> QED BY <2>1, <2>2
  <1>22. \A i \in P : S[Place(es, i)] = es[i]
    BY <1>14, <1>20
  <1>23. \A j \in 1..Len(idx) : \E i \in P : Place(es, i) = j
    BY <1>13, <1>15
  <1> QED BY <1>4, <1>14, <1>18, <1>20, <1>21, <1>22, <1>23 DEF P, S

\* What the caller gets for each of its entries.
LEMMA CallerResults ==
  ASSUME StateOK, NEW es \in Batches, NEW outcome \in Outcomes, NEW failOpen \in BOOLEAN,
         NEW i \in DOMAIN es
  PROVE  LET x == throttle(es, outcome, failOpen)[i]
             n == Place(es, i)
             v == Verdicts(Sendable(es), Tats, now)[n]
         IN  /\ es \in Seq(WireEntry(Keys))
             /\ es[i].key \notin ValidKeys => x = Reply(es[i].key, TRUE, 0, 0, "ErrInvalidKey")
             /\ es[i].key \in ValidKeys =>
                  /\ i \in SendableAt(es)
                  /\ ResultIs(x, es[i].key, outcome, failOpen, v, ErrAt(Sendable(es), n))
  <1> DEFINE x == throttle(es, outcome, failOpen)[i]
             n == Place(es, i)
             S == Sendable(es)
             R == Exchange(S, outcome, failOpen)
             v == Verdicts(S, Tats, now)[n]
  <1>1. es \in Seq(WireEntry(Keys))
    BY WireAssumption DEF WireEntry
  <1>2. es[i].key \in Keys
    <2>1. es[i] \in WireEntry(Keys)
      BY <1>1
    <2> QED BY <2>1, WireEntryType
  <1>3. ValidEntries(es) = S /\ S \in Seq(WireEntry(ValidKeys))
    BY <1>1, SentEntries
  <1>4. x = IF validateKey(es[i].key)
            THEN R[CHOOSE j \in DOMAIN ValidIdx(es) : ValidIdx(es)[j] = i]
            ELSE Reply(es[i].key, TRUE, 0, 0, "ErrInvalidKey")
    BY <1>3 DEF throttle, PutBack
  <1>5. validateKey(es[i].key) <=> es[i].key \in ValidKeys
    BY <1>2, KeysSent
  <1>6. ASSUME es[i].key \in ValidKeys
        PROVE  i \in SendableAt(es) /\ x = R[n] /\ n \in 1..Len(S) /\ S[n].key = es[i].key
    <2>1. i \in SendableAt(es)
      BY <1>6 DEF SendableAt
    <2>2. /\ n \in 1..Len(S) /\ S[n] = es[i]
          /\ (CHOOSE j \in DOMAIN ValidIdx(es) : ValidIdx(es)[j] = i) = n
      BY <1>1, <2>1, SentEntries
    <2> HIDE DEF x, R
    <2> QED BY <1>4, <1>5, <1>6, <2>1, <2>2
  <1>7. ASSUME es[i].key \in ValidKeys
        PROVE  ResultIs(R[n], S[n].key, outcome, failOpen, v, ErrAt(S, n))
    <2>1. n \in 1..Len(S)
      BY <1>6, <1>7
    <2> HIDE DEF S, n
    <2> QED BY <1>3, <2>1, ExchangeResults
  <1>8. es[i].key \notin ValidKeys => x = Reply(es[i].key, TRUE, 0, 0, "ErrInvalidKey")
    BY <1>4, <1>5
  <1> HIDE DEF x, R, v, S, n
  <1>9. es[i].key \in ValidKeys =>
          /\ i \in SendableAt(es)
          /\ ResultIs(x, es[i].key, outcome, failOpen, v, ErrAt(S, n))
    BY <1>6, <1>7
  <1> QED BY <1>1, <1>8, <1>9 DEF x, v, S, n

\* A shard's client decodes what an embedded throttler with the same buckets
\* reports, in the same places, for every batch, limit and history of the bucket.
THEOREM RemoteIsLocal == Spec => []RemoteAgreesWithLocal
  <1>1. StateOK => RemoteAgreesWithLocal
    <2> SUFFICES ASSUME StateOK, NEW es \in Batches
                 PROVE  SameReports(es, throttle(es, "answer", TRUE),
                                    Verdicts(Sendable(es), Tats, now))
      BY DEF RemoteAgreesWithLocal
    <2> DEFINE rs == throttle(es, "answer", TRUE)
               vs == Verdicts(Sendable(es), Tats, now)
    <2>1. "answer" \in Outcomes /\ TRUE \in BOOLEAN
      BY DEF Outcomes
    <2>2. ASSUME NEW i \in DOMAIN es, es[i].key \in ValidKeys
          PROVE  LET v == vs[Place(es, i)]
                 IN  /\ rs[i].throttled = v.throttled /\ rs[i].remaining = v.remaining
                     /\ rs[i].retryAfter = v.retryAfter
      <3> DEFINE v == vs[Place(es, i)]
                 o == ErrAt(Sendable(es), Place(es, i))
      <3>1. ResultIs(rs[i], es[i].key, "answer", TRUE, v, o)
        BY <2>1, <2>2, CallerResults
      <3> HIDE DEF rs, vs, o
      <3> QED BY <3>1 DEF ResultIs, Reply
    <2>3. ASSUME NEW i \in DOMAIN es, es[i].key \notin ValidKeys
          PROVE  rs[i].throttled
      <3>1. rs[i] = Reply(es[i].key, TRUE, 0, 0, "ErrInvalidKey")
        BY <2>1, <2>3, CallerResults
      <3> HIDE DEF rs
      <3> QED BY <3>1 DEF Reply
    <2> HIDE DEF rs, vs
    <2>4. SameReports(es, rs, vs)
      BY <2>2, <2>3 DEF SameReports
    <2> QED BY <2>4 DEF rs, vs
  <1> QED BY <1>1, StateOKInvariant, PTL

\* Whatever becomes of a call, an entry is let through only on the shard's word
\* or, when there is none, on a fail-open client's.
THEOREM AdmissionsHaveReasons == Spec => []AdmissionHasReason
  <1>1. StateOK => AdmissionHasReason
    <2> SUFFICES ASSUME StateOK, NEW es \in Batches, NEW outcome \in Outcomes,
                        NEW failOpen \in BOOLEAN, NEW i \in DOMAIN es,
                        ~throttle(es, outcome, failOpen)[i].throttled
                 PROVE  /\ es[i].key \in ValidKeys
                        /\ \/ outcome \in {"open", "fault"} /\ failOpen
                           \/ /\ outcome = "answer"
                              /\ ~Verdicts(Sendable(es), Tats, now)[Place(es, i)].throttled
      BY DEF AdmissionHasReason
    <2> DEFINE x == throttle(es, outcome, failOpen)[i]
               v == Verdicts(Sendable(es), Tats, now)[Place(es, i)]
               o == ErrAt(Sendable(es), Place(es, i))
    <2>1. /\ es[i].key \notin ValidKeys => x = Reply(es[i].key, TRUE, 0, 0, "ErrInvalidKey")
          /\ es[i].key \in ValidKeys => ResultIs(x, es[i].key, outcome, failOpen, v, o)
      BY CallerResults
    <2>2. ~x.throttled
      OBVIOUS
    <2> HIDE DEF x, v, o
    <2>3. es[i].key \in ValidKeys
      BY <2>1, <2>2 DEF Reply
    <2>4. CASE outcome \in {"open", "fault"}
      <3>1. x = Reply(es[i].key, ~failOpen, 0, 0, "shard")
        BY <2>1, <2>3, <2>4 DEF ResultIs
      <3> QED BY <2>2, <2>3, <2>4, <3>1 DEF Reply
    <2>5. CASE outcome = "answer of a failing Throttler"
      <3>1. x = Reply(es[i].key, TRUE, 0, 0, "ErrEntryRejected")
        BY <2>1, <2>3, <2>5 DEF ResultIs
      <3> QED BY <2>2, <3>1 DEF Reply
    <2>6. CASE outcome = "answer"
      <3>1. x = Reply(es[i].key, v.throttled, v.remaining, v.retryAfter, o)
        BY <2>1, <2>3, <2>6 DEF ResultIs
      <3>2. ~v.throttled
        BY <2>2, <3>1 DEF Reply
      <3> QED BY <2>3, <2>6, <3>2 DEF v
    <2> QED BY <2>4, <2>5, <2>6 DEF Outcomes
  <1> QED BY <1>1, StateOKInvariant, PTL

-----------------------------------------------------------------------------
(* What the line commits. *)

\* An admission moves the TAT of its key, by something.
LEMMA AdmissionMoves ==
  ASSUME NEW K, NEW e \in EntryOf(K), NEW x \in Nat, NEW s \in Nat,
         ~CheckEntry(x, s, e).throttled
  PROVE  CheckEntry(x, s, e).tat \in Nat /\ CheckEntry(x, s, e).tat > x
  <1> DEFINE u == Units(e.limit)
             a == CheckEntry(x, s, e).tat
             c == EffectiveCost(e.cost)
             d == e.limit.period
  <1>1. e.limit \in LimitOf /\ e.cost \in Int
    BY DEF EntryOf
  <1>2. Sound(e.limit) /\ a \in Nat /\ c \in Nat /\ u * x + c * d <= u * a
    BY AdmissionCharges
  <1>3. u \in Nat \ {0} /\ d \in Nat \ {0}
    BY <1>1, <1>2, SoundLimitBounds
  <1>4. c \in Nat \ {0}
    BY <1>1, <1>2 DEF EffectiveCost
  <1> HIDE DEF u, a, c, d
  <1>5. ASSUME a <= x PROVE FALSE
    <2>1. u * a <= u * x
      BY <1>2, <1>3, <1>5, Scale
    <2>2. c * d \in Nat \ {0}
      <3>1. c * 1 <= c * d
        BY <1>3, <1>4, Scale
      <3>2. c * d \in Nat /\ c * 1 = c
        BY <1>3, <1>4, ProductNat
      <3> DEFINE p == c * d
      <3>3. c <= p /\ p \in Nat
        BY <3>1, <3>2
      <3> HIDE DEF p
      <3>4. p \in Nat \ {0}
        BY <1>4, <3>3
      <3> QED BY <3>4 DEF p
    <2>3. u * a \in Nat /\ u * x \in Nat
      BY <1>2, <1>3, ProductNat
    <2> DEFINE p == c * d
               y == u * a
               z == u * x
    <2>4. p \in Nat \ {0} /\ y \in Nat /\ z \in Nat /\ y <= z /\ z + p <= y
      BY <1>2, <2>1, <2>2, <2>3
    <2> HIDE DEF p, y, z
    <2> QED BY <2>4
  <1>6. a > x
    BY <1>2, <1>5
  <1> QED BY <1>2, <1>6 DEF a

\* Whether one of the first n entries is real and has this key.
Touches(es, n, key) == \E i \in 1..n : ~es[i].peek /\ es[i].key = key

\* A group in which nothing is refused has moved exactly the TATs of the real
\* entries' keys, and only forward.
LEMMA GroupRaises ==
  ASSUME NEW K, NEW es \in Seq(EntryOf(K)), NEW t \in [K -> Nat], NEW s \in Nat,
         \A i \in 1..Len(es) : es[i].peek \/ ~Verdicts(es, t, s)[i].throttled
  PROVE  \A n \in 0..Len(es) : \A key \in K :
           LET x == Group(es, t, s)[n].tats[key]
           IN  /\ Touches(es, n, key) => x > t[key]
               /\ ~Touches(es, n, key) => x = t[key]
  <1> DEFINE G == Group(es, t, s)
             Moved(n) == \A key \in K : /\ Touches(es, n, key) => G[n].tats[key] > t[key]
                                        /\ ~Touches(es, n, key) => G[n].tats[key] = t[key]
             S == {n \in Nat : Moved(n)}
  <1>0. Len(es) \in Nat /\ \A n \in 1..Len(es) : es[n] \in EntryOf(K) /\ es[n].key \in K
    <2>1. ASSUME NEW n \in 1..Len(es) PROVE es[n] \in EntryOf(K) /\ es[n].key \in K
      <3>1. es[n] \in EntryOf(K)
        OBVIOUS
      <3> QED BY <3>1 DEF EntryOf
    <2> QED BY <2>1
  <1>1. G[0] = GroupStart(t) /\ \A n \in 1..Len(es) : G[n] = GroupStep(G[n-1], es[n], s)
    BY <1>0, GroupUnfolds
  <1>2. \A n \in 0..Len(es) : G[n] \in GroupState(K)
    BY GroupType DEF GroupState
  <1>3. \A n \in 1..Len(es) : ~es[n].peek =>
          ~CheckEntry(G[n-1].tats[es[n].key], s, es[n]).throttled
    <2>1. ASSUME NEW n \in 1..Len(es), ~es[n].peek
          PROVE  ~CheckEntry(G[n-1].tats[es[n].key], s, es[n]).throttled
      <3>1. Verdicts(es, t, s)[n] = CheckEntry(G[n-1].tats[es[n].key], s, es[n])
        BY <2>1, VerdictOf DEF VerdictOn
      <3> QED BY <2>1, <3>1
    <2> QED BY <2>1
  <1> HIDE DEF G
  <1>4. 0 \in S
    <2>1. ASSUME NEW key \in K PROVE G[0].tats[key] = t[key] /\ ~Touches(es, 0, key)
      BY <1>1 DEF GroupStart, Touches
    <2>2. Moved(0)
      BY <2>1
    <2> QED BY <2>2
  <1>5. ASSUME NEW n \in 1..Len(es), n - 1 \in S PROVE n \in S
    <2> DEFINE e == es[n]
               g == G[n-1]
               v == CheckEntry(g.tats[e.key], s, e)
    <2>1. /\ Moved(n-1) /\ g \in GroupState(K) /\ e \in EntryOf(K) /\ e.key \in K
          /\ G[n] = GroupStep(g, e, s) /\ n - 1 \in Nat /\ n \in Nat
      BY <1>0, <1>1, <1>2, <1>5
    <2>2. \A key \in K : g.tats[key] \in Nat /\ t[key] \in Nat
      <3> HIDE DEF g
      <3> QED BY <2>1 DEF GroupState
    <2>3. \A key : Touches(es, n, key) <=> Touches(es, n-1, key) \/ (~e.peek /\ e.key = key)
      <3>1. \A i : i \in 1..n <=> i \in 1..(n-1) \/ i = n
        BY <2>1
      <3> QED BY <3>1 DEF Touches
    <2>4. CASE e.peek
      <3>1. G[n].tats = g.tats
        <4> HIDE DEF e, g
        <4> QED BY <2>1, <2>4, PassedTats
      <3>2. Moved(n)
        <4> HIDE DEF g, e
        <4> QED BY <2>1, <2>3, <2>4, <3>1 DEF g
      <3> QED BY <2>1, <3>2
    <2>5. CASE ~e.peek
      <3>1. ~v.throttled
        BY <1>3, <2>5
      <3>2. G[n].tats = [g.tats EXCEPT ![e.key] = v.tat]
        <4> HIDE DEF e, g
        <4> QED BY <2>1, <2>5, <3>1, ChargedTats
      <3>3. v.tat \in Nat /\ v.tat > g.tats[e.key]
        <4> DEFINE x == g.tats[e.key]
        <4>1. x \in Nat
          BY <2>1, <2>2
        <4>2. ~CheckEntry(x, s, e).throttled
          BY <3>1
        <4> HIDE DEF e, x
        <4>3. CheckEntry(x, s, e).tat \in Nat /\ CheckEntry(x, s, e).tat > x
          BY <2>1, <4>1, <4>2, AdmissionMoves
        <4> QED BY <4>3 DEF x
      <3>4. DOMAIN g.tats = K
        <4> HIDE DEF g
        <4> QED BY <2>1 DEF GroupState
      <3>5. /\ \A key \in K : key # e.key => G[n].tats[key] = g.tats[key]
            /\ G[n].tats[e.key] = v.tat
        <4> HIDE DEF g, e, v
        <4> QED BY <2>1, <3>2, <3>4
      <3>6. /\ \A key \in K : /\ Touches(es, n-1, key) => g.tats[key] > t[key]
                              /\ ~Touches(es, n-1, key) => g.tats[key] = t[key]
        BY <2>1
      <3> HIDE DEF g, e, v
      <3>7. ASSUME NEW key \in K
            PROVE  /\ Touches(es, n, key) => G[n].tats[key] > t[key]
                   /\ ~Touches(es, n, key) => G[n].tats[key] = t[key]
        <4>1. CASE key = e.key
          <5>1. Touches(es, n, key)
            BY <2>3, <2>5, <4>1
          <5>2. /\ g.tats[key] \in Nat /\ t[key] \in Nat
                /\ g.tats[key] > t[key] \/ g.tats[key] = t[key]
            BY <2>2, <3>6
          <5>3. G[n].tats[key] = v.tat /\ v.tat > g.tats[key] /\ v.tat \in Nat
            BY <3>3, <3>5, <4>1
          <5> QED BY <5>1, <5>2, <5>3
        <4>2. CASE key # e.key
          <5>1. Touches(es, n, key) <=> Touches(es, n-1, key)
            BY <2>3, <4>2
          <5> QED BY <3>5, <3>6, <4>2, <5>1
        <4> QED BY <4>1, <4>2
      <3>8. Moved(n)
        BY <3>7
      <3> QED BY <2>1, <3>8
    <2> QED BY <2>4, <2>5
  <1>6. 0..Len(es) \subseteq S
    <2> HIDE DEF S
    <2> QED BY <1>0, <1>4, <1>5, SegmentInduction
  <1> QED BY <1>6 DEF G

\* What a group leaves, told from the verdicts on its entries: nothing if a real
\* one is refused, and otherwise a later TAT for each of their keys.
LEMMA CommitFollowsVerdicts ==
  ASSUME NEW K, NEW es \in Seq(EntryOf(K)), NEW t \in [K -> Nat], NEW s \in Nat
  PROVE  /\ (\E i \in 1..Len(es) : ~es[i].peek /\ Verdicts(es, t, s)[i].throttled) =>
              Committed(es, t, s) = t
         /\ (\A i \in 1..Len(es) : es[i].peek \/ ~Verdicts(es, t, s)[i].throttled) =>
              \A key \in K : Committed(es, t, s)[key] # t[key] <=> Touches(es, Len(es), key)
  <1> DEFINE m == Len(es)
             g == Group(es, t, s)[m]
             V(i) == Verdicts(es, t, s)[i].throttled
             C == Committed(es, t, s)
  <1>1. m \in Nat /\ m \in 0..m
    OBVIOUS
  <1>2. g.admitted <=> \A i \in 1..m : es[i].peek \/ ~V(i)
    BY <1>1, GroupVerdict
  <1>3. C = IF g.admitted THEN g.tats ELSE t
    BY DEF Committed
  <1>4. g \in GroupState(K)
    BY <1>1, GroupType DEF GroupState
  <1>5. ASSUME \E i \in 1..m : ~es[i].peek /\ V(i) PROVE C = t
    <2> HIDE DEF g, V, C
    <2> QED BY <1>2, <1>3, <1>5
  <1>6. ASSUME \A i \in 1..m : es[i].peek \/ ~V(i), NEW key \in K
        PROVE  C[key] # t[key] <=> Touches(es, m, key)
    <2>1. /\ Touches(es, m, key) => g.tats[key] > t[key]
          /\ ~Touches(es, m, key) => g.tats[key] = t[key]
      BY <1>1, <1>6, GroupRaises
    <2>2. g.tats[key] \in Nat /\ t[key] \in Nat
      <3> HIDE DEF g
      <3> QED BY <1>4 DEF GroupState
    <2>3. C[key] = g.tats[key]
      <3> HIDE DEF g, V, C
      <3> QED BY <1>2, <1>3, <1>6
    <2> HIDE DEF g, C
    <2> QED BY <2>1, <2>2, <2>3
  <1> QED BY <1>5, <1>6

\* The entries the shard evaluates, seen from the caller: the i-th of the
\* caller's entries is the At(es, i)-th of them, if it is one.
At(es, i)   == Upto(Sendable(es), Place(es, i))
Answered(es) == {i \in SendableAt(es) : Place(es, i) \in Parse(Sendable(es))}

LEMMA EvaluatedEntries ==
  ASSUME StateOK, NEW es \in Seq(WireEntry(Keys))
  PROVE  LET k  == Kept(Sendable(es))
             vs == Verdicts(Sendable(es), Tats, now)
             ws == Verdicts(k, Tats, now)
         IN  /\ k \in Seq(EntryOf(ValidKeys))
             /\ \A i \in Answered(es) :
                  /\ At(es, i) \in 1..Len(k)
                  /\ k[At(es, i)].key = es[i].key /\ k[At(es, i)].peek = es[i].peek
                  /\ ws[At(es, i)] = vs[Place(es, i)]
             /\ \A j \in 1..Len(k) : \E i \in Answered(es) : At(es, i) = j
  <1> DEFINE S  == Sendable(es)
             k  == Kept(S)
             vs == Verdicts(S, Tats, now)
             ws == Verdicts(k, Tats, now)
  <1>1. /\ S \in Seq(WireEntry(ValidKeys))
        /\ \A i \in SendableAt(es) : Place(es, i) \in 1..Len(S) /\ S[Place(es, i)] = es[i]
        /\ \A j \in 1..Len(S) : \E i \in SendableAt(es) : Place(es, i) = j
    BY SentEntries
  <1>2. /\ EmptyKey \notin ValidKeys /\ Tats \in [ValidKeys -> Nat] /\ now \in Nat
    BY TatsType DEF EmptyKey, ValidKeys
  <1>3. Answered(es) = {i \in SendableAt(es) : Place(es, i) \in Parse(S)}
        /\ \A i : At(es, i) = Upto(S, Place(es, i))
    BY DEF Answered, At
  <1>4. Parse(S) \subseteq 1..Len(S)
    BY DEF Parse
  <1> HIDE DEF S
  <1>5. /\ k \in Seq(EntryOf(ValidKeys))
        /\ \A j \in 1..Len(k) : Nth(S)[j] \in Parse(S) /\ Upto(S, Nth(S)[j]) = j
        /\ \A n \in Parse(S) : Upto(S, n) \in 1..Len(k) /\ k[Upto(S, n)] = Parsed(Token(S[n]))
    BY <1>1, <1>2, KeptType
  <1>6. Alike(S, Tats, now)
    BY <1>1, <1>2, VerdictsAlike
  <1>7. \A n \in Parse(S) : ws[Upto(S, n)] = vs[n]
    BY <1>6 DEF Alike
  <1> HIDE DEF k, vs, ws
  <1>8. ASSUME NEW i \in Answered(es)
        PROVE  /\ At(es, i) \in 1..Len(k)
               /\ k[At(es, i)].key = es[i].key /\ k[At(es, i)].peek = es[i].peek
               /\ ws[At(es, i)] = vs[Place(es, i)]
    <2> DEFINE n == Place(es, i)
               e == S[n]
    <2>1. n \in Parse(S) /\ n \in 1..Len(S) /\ e = es[i] /\ At(es, i) = Upto(S, n)
      BY <1>1, <1>3
    <2>2. e \in WireEntry(ValidKeys)
      BY <1>1, <2>1
    <2> HIDE DEF n, e
    <2>3. e.key \in ValidKeys
      BY <2>2, WireEntryType
    <2>4. e.key # EmptyKey
      BY <1>2, <2>3
    <2>5. Parsed(Token(e)).key = e.key /\ Parsed(Token(e)).peek = e.peek
      BY <2>2, <2>4, ParsedChecksAlike
    <2>6. Upto(S, n) \in 1..Len(k) /\ k[Upto(S, n)] = Parsed(Token(e)) /\ ws[Upto(S, n)] = vs[n]
      BY <1>5, <1>7, <2>1 DEF e
    <2> QED BY <2>1, <2>5, <2>6 DEF n
  <1>9. ASSUME NEW j \in 1..Len(k) PROVE \E i \in Answered(es) : At(es, i) = j
    <2>1. Nth(S)[j] \in Parse(S) /\ Upto(S, Nth(S)[j]) = j
      BY <1>5
    <2>2. Nth(S)[j] \in 1..Len(S)
      BY <1>4, <2>1
    <2>3. PICK i \in SendableAt(es) : Place(es, i) = Nth(S)[j]
      BY <1>1, <2>2
    <2>4. i \in Answered(es) /\ At(es, i) = j
      BY <1>3, <2>1, <2>3
    <2> QED BY <2>4
  <1> QED BY <1>5, <1>8, <1>9 DEF k, vs, ws, S

\* What a line committed can be told from Throttled alone, for every batch:
\* entries the shard rejects take no part in the group.
THEOREM ReportsTellCommits == Spec => []ReportTellsCommit
  <1>1. StateOK => ReportTellsCommit
    <2> SUFFICES ASSUME StateOK, NEW es \in Batches
                 PROVE  Tells(es, throttle(es, "answer", TRUE),
                              CommittedByLine(encodeThrottle(ValidEntries(es)), FALSE))
      BY DEF ReportTellsCommit
    <2> DEFINE S     == Sendable(es)
               rs    == throttle(es, "answer", TRUE)
               vs    == Verdicts(S, Tats, now)
               k     == Kept(S)
               ws    == Verdicts(k, Tats, now)
               after == CommittedByLine(encodeThrottle(ValidEntries(es)), FALSE)
               real  == {i \in DOMAIN es : ~es[i].peek /\ rs[i].err = "none"}
    <2>1. es \in Seq(WireEntry(Keys))
      BY WireAssumption DEF WireEntry
    <2>2. after = Committed(k, Tats, now)
      <3>1. ValidEntries(es) = S /\ S \in Seq(WireEntry(ValidKeys))
        BY <2>1, SentEntries
      <3>2. Accepted(encodeThrottle(S)) = k
        BY <3>1, AcceptedLine
      <3> QED BY <3>1, <3>2 DEF CommittedByLine
    <2>3. /\ k \in Seq(EntryOf(ValidKeys))
          /\ \A i \in Answered(es) :
               /\ At(es, i) \in 1..Len(k)
               /\ k[At(es, i)].key = es[i].key /\ k[At(es, i)].peek = es[i].peek
               /\ ws[At(es, i)] = vs[Place(es, i)]
          /\ \A j \in 1..Len(k) : \E i \in Answered(es) : At(es, i) = j
      BY <2>1, EvaluatedEntries
    <2>4. Tats \in [ValidKeys -> Nat] /\ now \in Nat
      BY TatsType
    <2>5. ASSUME NEW i \in DOMAIN es
          PROVE  /\ rs[i].err = "none" <=> i \in Answered(es)
                 /\ i \in Answered(es) => rs[i].throttled = ws[At(es, i)].throttled
      <3> DEFINE n == Place(es, i)
                 v == vs[n]
                 o == ErrAt(S, n)
      <3>1. "answer" \in Outcomes /\ TRUE \in BOOLEAN
        BY DEF Outcomes
      <3>2. /\ es[i].key \notin ValidKeys => rs[i] = Reply(es[i].key, TRUE, 0, 0, "ErrInvalidKey")
            /\ es[i].key \in ValidKeys => ResultIs(rs[i], es[i].key, "answer", TRUE, v, o)
        BY <3>1, CallerResults
      <3>3. i \in Answered(es) <=> es[i].key \in ValidKeys /\ n \in Parse(S)
        BY DEF Answered, SendableAt
      <3>4. o = IF n \in Parse(S) THEN "none" ELSE "ErrEntryRejected"
        BY DEF ErrAt
      <3>5. i \in Answered(es) => ws[At(es, i)] = v
        BY <2>3
      <3> HIDE DEF n, v, o, rs, ws, S
      <3>6. CASE es[i].key \notin ValidKeys
        <4>1. rs[i].err = "ErrInvalidKey"
          BY <3>2, <3>6 DEF Reply
        <4> QED BY <3>3, <3>6, <4>1
      <3>7. CASE es[i].key \in ValidKeys
        <4>1. rs[i] = Reply(es[i].key, v.throttled, v.remaining, v.retryAfter, o)
          BY <3>2, <3>7 DEF ResultIs
        <4>2. rs[i].err = o /\ rs[i].throttled = v.throttled
          BY <4>1 DEF Reply
        <4> QED BY <3>3, <3>4, <3>5, <3>7, <4>2
      <3> QED BY <3>6, <3>7
    <2>6. \A i \in Answered(es) : i \in DOMAIN es
      BY DEF Answered, SendableAt
    <2> HIDE DEF rs, vs, k, ws, after, S
    <2>7. \A i : i \in real <=> i \in Answered(es) /\ ~es[i].peek
      BY <2>5, <2>6
    <2>8. CASE \E i \in real : rs[i].throttled
      <3>1. PICK i \in real : rs[i].throttled
        BY <2>8
      <3>2. i \in Answered(es) /\ ~es[i].peek
        BY <2>7
      <3>3. At(es, i) \in 1..Len(k) /\ ~k[At(es, i)].peek /\ ws[At(es, i)].throttled
        BY <2>3, <2>5, <2>6, <3>1, <3>2
      <3>4. after = Tats
        BY <2>2, <2>3, <2>4, <3>3, CommitFollowsVerdicts DEF ws
      <3> QED BY <2>8, <3>4 DEF Tells, rs, after
    <2>9. CASE ~\E i \in real : rs[i].throttled
      <3>1. ASSUME NEW j \in 1..Len(k) PROVE k[j].peek \/ ~ws[j].throttled
        <4>1. PICK i \in Answered(es) : At(es, i) = j
          BY <2>3
        <4>2. k[j].peek = es[i].peek /\ rs[i].throttled = ws[j].throttled
          BY <2>3, <2>5, <2>6, <4>1
        <4> QED BY <2>7, <2>9, <4>1, <4>2
      <3>2. \A key \in ValidKeys : after[key] # Tats[key] <=> Touches(k, Len(k), key)
        BY <2>2, <2>3, <2>4, <3>1, CommitFollowsVerdicts DEF ws
      <3>3. ASSUME NEW key \in ValidKeys
            PROVE  Touches(k, Len(k), key) <=> \E i \in real : es[i].key = key
        <4>1. ASSUME NEW j \in 1..Len(k), ~k[j].peek, k[j].key = key
              PROVE  \E i \in real : es[i].key = key
          <5>1. PICK i \in Answered(es) : At(es, i) = j
            BY <2>3
          <5>2. i \in real /\ es[i].key = key
            BY <2>3, <2>7, <4>1, <5>1
          <5> QED BY <5>2
        <4>2. ASSUME NEW i \in real, es[i].key = key PROVE Touches(k, Len(k), key)
          <5>1. At(es, i) \in 1..Len(k) /\ ~k[At(es, i)].peek /\ k[At(es, i)].key = key
            BY <2>3, <2>7, <4>2
          <5> QED BY <5>1 DEF Touches
        <4> QED BY <4>1, <4>2 DEF Touches
      <3>4. \A key \in ValidKeys : after[key] # Tats[key] <=> \E i \in real : es[i].key = key
        BY <3>2, <3>3
      <3> QED BY <2>9, <3>4 DEF Tells, rs, after
    <2> QED BY <2>8, <2>9
  <1> QED BY <1>1, StateOKInvariant, PTL
=============================================================================
