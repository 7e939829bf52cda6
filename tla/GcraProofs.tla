------------------------------ MODULE GcraProofs ------------------------------
(***************************************************************************)
(* What gcraCheck guarantees for every bucket, instant, limit and cost: a  *)
(* refusal keeps the TAT, an admission moves it to                         *)
(* max(tat, now) + costNs, and the rounding of both debts is conservative. *)
(* And what a batch guarantees for any entries: its group is admitted      *)
(* exactly if none of its real entries is reported as throttled.           *)
(***************************************************************************)
EXTENDS Batch, FiniteSetTheorems, TLAPS

\* Quotient and remainder, as the provers need them spelled out.
LEMMA DivMod ==
  ASSUME NEW a \in Nat, NEW b \in Nat \ {0}
  PROVE  /\ a \div b \in Nat /\ a % b \in Nat /\ a % b < b
         /\ a = b * (a \div b) + (a % b)
  BY SMT

\* Natural numbers are closed under products.
LEMMA ProductNat ==
  ASSUME NEW a \in Nat, NEW b \in Nat
  PROVE  a * b \in Nat
  BY SMT

\* The floor is at most, the rounded-up quotient at least, the exact one.
LEMMA CeilBound ==
  ASSUME NEW a \in Nat, NEW b \in Nat \ {0}
  PROVE  /\ CeilQuotient(a, b) \in Nat
         /\ a <= b * CeilQuotient(a, b)
  <1>1. a \div b \in Nat /\ a % b \in Nat /\ a % b < b /\ a = b * (a \div b) + (a % b)
    BY DivMod
  <1>2. CASE a % b # 0
    <2> DEFINE q == a \div b
    <2>1. CeilQuotient(a, b) = q + 1
      BY <1>2 DEF CeilQuotient
    <2>2. b * (q + 1) = b * q + b
      BY <1>1, SMT
    <2>3. a = b * q + (a % b) /\ a % b < b /\ a % b \in Nat /\ q \in Nat
      BY <1>1
    <2>4. b * q \in Nat
      BY <2>3, ProductNat
    <2> HIDE DEF q
    <2> QED BY <2>1, <2>2, <2>3, <2>4
  <1>3. CASE a % b = 0
    BY <1>1, <1>3 DEF CeilQuotient
  <1> QED BY <1>2, <1>3

\* The integer quotient never exceeds the exact one.
LEMMA FloorBound ==
  ASSUME NEW a \in Nat, NEW b \in Nat \ {0}
  PROVE  (a \div b) \in Nat /\ b * (a \div b) <= a
  <1>1. a \div b \in Nat /\ a % b \in Nat /\ a = b * (a \div b) + (a % b)
    BY DivMod
  <1>2. b * (a \div b) \in Nat
    BY <1>1, ProductNat
  <1> QED BY <1>1, <1>2

\* A request's own debt never falls below its exact share of the period.
LEMMA CostNsBound ==
  ASSUME NEW cost \in Nat, NEW units \in Nat \ {0}, NEW period \in Nat \ {0},
         CostNs(cost, units, period).ok
  PROVE  /\ CostNs(cost, units, period).val \in Nat
         /\ cost * period <= units * CostNs(cost, units, period).val
  <1>p. cost * period \in Nat
    BY ProductNat
  <1>1. CASE units = 1
    <2>1. CostNs(cost, units, period).val = cost * period
      BY <1>1, WidthAssumption DEF CostNs, mulNonNeg, Ok, Overflow
    <2> QED BY <1>1, <1>p, <2>1
  <1>2. CASE units # 1
    <2>1. CostNs(cost, units, period).val = CeilQuotient(cost * period, units)
      BY <1>2 DEF CostNs, mulDivCeil, Ok, Overflow
    <2> QED BY <1>p, <2>1, CeilBound
  <1> QED BY <1>1, <1>2

\* The bucket's size never exceeds what its capacity allows.
LEMMA MaxDebtBound ==
  ASSUME NEW capacity \in Nat, NEW units \in Nat \ {0}, NEW period \in Nat \ {0},
         MaxDebt(capacity, units, period).ok
  PROVE  /\ MaxDebt(capacity, units, period).val \in Nat
         /\ units * MaxDebt(capacity, units, period).val <= capacity * period
  <1>p. capacity * period \in Nat
    BY ProductNat
  <1>1. CASE units = 1
    <2>1. MaxDebt(capacity, units, period).val = capacity * period
      BY <1>1, WidthAssumption DEF MaxDebt, mulNonNeg, Ok, Overflow
    <2> QED BY <1>1, <1>p, <2>1
  <1>2. CASE units # 1
    <2>1. MaxDebt(capacity, units, period).val = (capacity * period) \div units
      BY <1>2 DEF MaxDebt, mulDivFloor, Ok, Overflow
    <2> QED BY <1>p, <2>1, FloorBound
  <1> QED BY <1>1, <1>2

\* A refusal keeps the TAT.
LEMMA RefusedKeepsTat ==
  ASSUME NEW tat, NEW now, NEW capacity, NEW units, NEW period, NEW cost,
         gcraCheck(tat, now, capacity, units, period, cost).throttled
  PROVE  gcraCheck(tat, now, capacity, units, period, cost).tat = tat
  BY DEF gcraCheck, Refused, Admitted

\* Only a well-formed request is admitted.
LEMMA AdmittedShape ==
  ASSUME NEW tat, NEW now, NEW capacity \in Int, NEW units \in Int,
         NEW period \in Int, NEW cost \in Int,
         ~gcraCheck(tat, now, capacity, units, period, cost).throttled
  PROVE  /\ ~BadShape(capacity, units, period, cost)
         /\ capacity \in Nat /\ units \in Nat \ {0}
         /\ period \in Nat \ {0} /\ cost \in Nat
         /\ MaxDebt(capacity, units, period).ok /\ CostNs(cost, units, period).ok
  <1>1. ~BadShape(capacity, units, period, cost)
    BY DEF gcraCheck, Refused
  <1> QED BY <1>1 DEF BadShape

\* An admission moves the TAT to max(tat, now) + costNs, within the bucket.
LEMMA AdmittedMovesTat ==
  ASSUME NEW tat \in Nat, NEW now \in Nat, NEW capacity \in Int, NEW units \in Int,
         NEW period \in Int, NEW cost \in Int,
         ~gcraCheck(tat, now, capacity, units, period, cost).throttled
  PROVE  LET cn == CostNs(cost, units, period).val
             md == MaxDebt(capacity, units, period).val
             t  == gcraCheck(tat, now, capacity, units, period, cost).tat
         IN  /\ cn \in Nat /\ md \in Nat
             /\ tat + cn <= t /\ now + cn <= t
             /\ t <= tat + cn \/ t <= now + cn
             /\ t \in Nat /\ t <= MaxInt64
             /\ t - now <= md
  <1> DEFINE cn == CostNs(cost, units, period).val
             md == MaxDebt(capacity, units, period).val
             t  == gcraCheck(tat, now, capacity, units, period, cost).tat
             cand == addNonNeg(max(tat, now), cn)
  <1>1. /\ ~BadShape(capacity, units, period, cost)
        /\ capacity \in Nat /\ units \in Nat \ {0}
        /\ period \in Nat \ {0} /\ cost \in Nat
        /\ MaxDebt(capacity, units, period).ok /\ CostNs(cost, units, period).ok
    BY AdmittedShape
  <1>2. cn \in Nat
    BY <1>1, CostNsBound
  <1>3. md \in Nat
    BY <1>1, MaxDebtBound
  <1>4. cand.ok /\ ~(cand.val - now - md > 0) /\ t = cand.val
    BY <1>1 DEF gcraCheck, Refused, Admitted
  <1>5. max(tat, now) \in Nat
    BY DEF max
  <1> HIDE DEF cn, md, t
  <1>6. cand.val = max(tat, now) + cn /\ cand.val <= MaxInt64
    BY <1>2, <1>4, <1>5, WidthAssumption DEF addNonNeg, Ok, Overflow
  <1>7. /\ tat + cn <= t /\ now + cn <= t
        /\ t <= tat + cn \/ t <= now + cn
        /\ t \in Nat /\ t <= MaxInt64 /\ t - now <= md
    BY <1>2, <1>3, <1>4, <1>5, <1>6 DEF max
  <1> QED BY <1>2, <1>3, <1>7 DEF cn, md, t

\* x <= y gives u * x <= u * y.
LEMMA Scale ==
  ASSUME NEW u \in Nat, NEW x \in Int, NEW y \in Int, x <= y
  PROVE  u * x <= u * y
  BY SMT

\* The exact leaky bucket has room for whatever is admitted.
LEMMA AdmittedFits ==
  ASSUME NEW tat \in Nat, NEW now \in Nat, NEW capacity \in Int, NEW units \in Int,
         NEW period \in Int, NEW cost \in Int,
         ~gcraCheck(tat, now, capacity, units, period, cost).throttled
  PROVE  (max(tat, now) - now) * units + cost * period <= capacity * period
  <1> DEFINE cn == CostNs(cost, units, period).val
             md == MaxDebt(capacity, units, period).val
             t  == gcraCheck(tat, now, capacity, units, period, cost).tat
             lv == max(tat, now) - now
  <1>s. /\ capacity \in Nat /\ units \in Nat \ {0}
        /\ period \in Nat \ {0} /\ cost \in Nat
        /\ MaxDebt(capacity, units, period).ok /\ CostNs(cost, units, period).ok
    BY AdmittedShape
  <1>n. cn \in Nat /\ md \in Nat /\ t \in Nat
    BY AdmittedMovesTat
  <1>m. tat + cn <= t /\ now + cn <= t /\ t - now <= md
    BY <1>n, AdmittedMovesTat
  <1>c. cn \in Nat /\ cost * period <= units * cn
    BY <1>s, CostNsBound
  <1>d. md \in Nat /\ units * md <= capacity * period
    BY <1>s, MaxDebtBound
  <1> HIDE DEF cn, md, t
  <1>2. lv \in Nat /\ lv + cn <= md
    BY <1>m, <1>n DEF max
  <1> HIDE DEF lv
  <1>3. units * (lv + cn) <= units * md
    BY <1>s, <1>c, <1>d, <1>2, Scale
  <1>4. units * (lv + cn) = lv * units + units * cn
    BY <1>s, <1>c, <1>2, SMT
  <1>5. /\ lv * units \in Nat /\ units * cn \in Nat /\ units * md \in Nat
        /\ cost * period \in Nat /\ capacity * period \in Nat
    BY <1>s, <1>c, <1>d, <1>2, ProductNat
  <1>6. lv * units + cost * period <= capacity * period
    BY <1>c, <1>d, <1>3, <1>4, <1>5
  <1> QED BY <1>6 DEF lv

\* The candidate TAT and by how much it overshoots the bucket.
Candidate(tat, now, units, period, cost) ==
  addNonNeg(max(tat, now), CostNs(cost, units, period).val)

Excess(tat, now, capacity, units, period, cost) ==
  Candidate(tat, now, units, period, cost).val - now
    - MaxDebt(capacity, units, period).val

\* A refusal that no waiting changes.
Hopeless(tat, now, capacity, units, period, cost) ==
  \/ BadShape(capacity, units, period, cost)
  \/ cost > capacity
  \/ ~Candidate(tat, now, units, period, cost).ok

\* The three ways gcraCheck ends.
LEMMA VerdictCases ==
  ASSUME NEW tat, NEW now, NEW capacity, NEW units, NEW period, NEW cost
  PROVE  LET v == gcraCheck(tat, now, capacity, units, period, cost)
             h == Hopeless(tat, now, capacity, units, period, cost)
             x == Excess(tat, now, capacity, units, period, cost)
         IN  /\ v.throttled <=> (h \/ x > 0)
             /\ h => v.retryAfter = 0
             /\ ~h /\ x > 0 => v.retryAfter = x
             /\ ~h /\ ~(x > 0) => v.retryAfter = 0
  <1> DEFINE v == gcraCheck(tat, now, capacity, units, period, cost)
             h == Hopeless(tat, now, capacity, units, period, cost)
             x == Excess(tat, now, capacity, units, period, cost)
  <1>1. CASE BadShape(capacity, units, period, cost)
    BY <1>1 DEF gcraCheck, Refused, Hopeless
  <1>2. CASE ~BadShape(capacity, units, period, cost)
    BY <1>2 DEF gcraCheck, Refused, Admitted, Hopeless, Excess, Candidate
  <1> QED BY <1>1, <1>2

\* Outside the hopeless cases the arithmetic is exact.
LEMMA CandidateExact ==
  ASSUME NEW tat \in Nat, NEW now \in Nat, NEW capacity \in Int, NEW units \in Int,
         NEW period \in Int, NEW cost \in Int,
         ~BadShape(capacity, units, period, cost)
  PROVE  LET cn == CostNs(cost, units, period).val
             md == MaxDebt(capacity, units, period).val
             cd == Candidate(tat, now, units, period, cost)
         IN  /\ cn \in Nat /\ md \in Nat
             /\ cd.ok <=> max(tat, now) + cn <= MaxInt64
             /\ cd.ok => cd.val = max(tat, now) + cn
  <1> DEFINE cn == CostNs(cost, units, period).val
             md == MaxDebt(capacity, units, period).val
  <1>1. /\ capacity \in Nat /\ units \in Nat \ {0}
        /\ period \in Nat \ {0} /\ cost \in Nat
        /\ MaxDebt(capacity, units, period).ok /\ CostNs(cost, units, period).ok
    BY DEF BadShape
  <1>2. cn \in Nat /\ md \in Nat
    BY <1>1, CostNsBound, MaxDebtBound
  <1>3. max(tat, now) \in Nat
    BY DEF max
  <1> HIDE DEF cn, md
  <1>4. LET cd == addNonNeg(max(tat, now), cn)
        IN  /\ cd.ok <=> max(tat, now) + cn <= MaxInt64
            /\ cd.ok => cd.val = max(tat, now) + cn
    BY <1>2, <1>3, WidthAssumption DEF addNonNeg, Ok, Overflow
  <1> QED BY <1>2, <1>4 DEF cn, md, Candidate

\* The same, as one fact about an instant.
ExactAt(tat, now, capacity, units, period, cost) ==
  LET cn == CostNs(cost, units, period).val
      md == MaxDebt(capacity, units, period).val
      cd == Candidate(tat, now, units, period, cost)
  IN  /\ cn \in Nat /\ md \in Nat
      /\ cd.ok <=> max(tat, now) + cn <= MaxInt64
      /\ cd.ok => cd.val = max(tat, now) + cn

LEMMA CandidateIsExact ==
  ASSUME NEW tat \in Nat, NEW now \in Nat, NEW capacity \in Int, NEW units \in Int,
         NEW period \in Int, NEW cost \in Int,
         ~BadShape(capacity, units, period, cost)
  PROVE  ExactAt(tat, now, capacity, units, period, cost)
  BY CandidateExact DEF ExactAt

\* Outside the hopeless cases the excess is a number.
LEMMA ExcessInt ==
  ASSUME NEW tat \in Nat, NEW now \in Nat, NEW capacity \in Int, NEW units \in Int,
         NEW period \in Int, NEW cost \in Int,
         ~Hopeless(tat, now, capacity, units, period, cost)
  PROVE  Excess(tat, now, capacity, units, period, cost) \in Int
  <1> DEFINE cn == CostNs(cost, units, period).val
             md == MaxDebt(capacity, units, period).val
             cd == Candidate(tat, now, units, period, cost)
  <1>1. ~BadShape(capacity, units, period, cost) /\ cd.ok
    BY DEF Hopeless
  <1>2. cn \in Nat /\ md \in Nat /\ cd.val = max(tat, now) + cn
    BY <1>1, CandidateExact
  <1>3. max(tat, now) \in Nat
    BY DEF max
  <1>4. Excess(tat, now, capacity, units, period, cost) = cd.val - now - md
    BY DEF Excess
  <1> HIDE DEF cn, md, cd
  <1> QED BY <1>2, <1>3, <1>4

\* While it is short of its excess, waiting reduces it one for one.
LEMMA WaitingDrains ==
  ASSUME NEW tat \in Nat, NEW now \in Nat, NEW capacity \in Int, NEW units \in Int,
         NEW period \in Int, NEW cost \in Int, NEW s \in Nat,
         ~Hopeless(tat, now, capacity, units, period, cost),
         Excess(tat, now, capacity, units, period, cost) > 0,
         CostNs(cost, units, period).val <= MaxDebt(capacity, units, period).val,
         now <= s, s <= now + Excess(tat, now, capacity, units, period, cost)
  PROVE  /\ ~Hopeless(tat, s, capacity, units, period, cost)
         /\ Excess(tat, s, capacity, units, period, cost) =
              now + Excess(tat, now, capacity, units, period, cost) - s
  <1> DEFINE cn == CostNs(cost, units, period).val
             md == MaxDebt(capacity, units, period).val
             cn0 == Candidate(tat, now, units, period, cost)
             cns == Candidate(tat, s, units, period, cost)
             x == Excess(tat, now, capacity, units, period, cost)
  <1>1. ~BadShape(capacity, units, period, cost) /\ ~(cost > capacity) /\ cn0.ok
    BY DEF Hopeless
  <1>2. /\ cn \in Nat /\ md \in Nat
        /\ max(tat, now) + cn <= MaxInt64
        /\ cn0.val = max(tat, now) + cn
    <2>1. ExactAt(tat, now, capacity, units, period, cost)
      BY <1>1, CandidateIsExact
    <2> QED BY <1>1, <2>1 DEF ExactAt
  <1>3. /\ cns.ok <=> max(tat, s) + cn <= MaxInt64
        /\ cns.ok => cns.val = max(tat, s) + cn
    <2>1. ExactAt(tat, s, capacity, units, period, cost)
      BY <1>1, CandidateIsExact
    <2> QED BY <2>1 DEF ExactAt
  <1>4. /\ x = cn0.val - now - md
        /\ Excess(tat, s, capacity, units, period, cost) = cns.val - s - md
    BY DEF Excess
  <1>5. cn <= md /\ x > 0 /\ s <= now + x
    OBVIOUS
  <1> HIDE DEF cn, md, cn0, cns, x
  <1>6. max(tat, now) = tat /\ x = tat + cn - now - md
    BY <1>2, <1>4, <1>5 DEF max
  <1>7. max(tat, s) = tat
    BY <1>2, <1>5, <1>6 DEF max
  <1>8. cns.ok /\ cns.val = tat + cn
    BY <1>2, <1>3, <1>6, <1>7
  <1>9. ~Hopeless(tat, s, capacity, units, period, cost)
    BY <1>1, <1>8 DEF Hopeless, cns
  <1>10. x \in Int /\ cns.val - s - md = now + x - s
    BY <1>2, <1>6, <1>8
  <1> QED BY <1>4, <1>9, <1>10 DEF x

(***************************************************************************)
(* The headroom a verdict reports.                                         *)
(***************************************************************************)

\* The rounded-up quotient is the least integer whose product covers a.
LEMMA CeilLeast ==
  ASSUME NEW a \in Nat, NEW b \in Nat \ {0}, NEW n \in Int
  PROVE  CeilQuotient(a, b) <= n <=> a <= b * n
  <1> DEFINE q == a \div b
             r == a % b
             k == CeilQuotient(a, b)
  <1>1. q \in Nat /\ r \in Nat /\ r < b /\ a = b * q + r
    BY DivMod
  <1>2. k \in Nat /\ a <= b * k
    BY CeilBound
  <1>3. k = IF r # 0 THEN q + 1 ELSE q
    BY <1>1 DEF CeilQuotient
  <1> HIDE DEF q, r, k
  <1>4. b * (k - 1) < a
    <2>1. b * q \in Nat /\ b * (q - 1) = b * q - b
      BY <1>1, ProductNat, SMT
    <2> DEFINE bq == b * q
    <2>2. CASE r # 0
      <3>1. k - 1 = q
        BY <1>1, <1>3, <2>2
      <3> QED BY <1>1, <2>1, <2>2, <3>1
    <2>3. CASE r = 0
      <3>1. k - 1 = q - 1
        BY <1>1, <1>3, <2>3
      <3>2. b * (k - 1) = bq - b /\ a = bq + r /\ bq \in Nat
        BY <1>1, <2>1, <3>1
      <3> HIDE DEF bq
      <3> QED BY <2>3, <3>2
    <2> QED BY <2>2, <2>3
  <1>5. ASSUME k <= n PROVE a <= b * n
    <2>1. b * k <= b * n
      BY <1>2, <1>5, Scale
    <2>2. b * k \in Int /\ b * n \in Int
      BY <1>2, SMT
    <2> QED BY <1>2, <2>1, <2>2
  <1>6. ASSUME a <= b * n PROVE k <= n
    <2> SUFFICES ASSUME n <= k - 1 PROVE FALSE
      BY <1>2
    <2>1. b * n <= b * (k - 1)
      BY <1>2, Scale
    <2>2. b * n \in Int /\ b * (k - 1) \in Int
      BY <1>2, SMT
    <2> QED BY <1>4, <1>6, <2>1, <2>2
  <1> QED BY <1>5, <1>6 DEF k

\* A number below the divisor is its own remainder.
LEMMA SmallMod ==
  ASSUME NEW a \in Nat, NEW b \in Nat \ {0}, a < b
  PROVE  a % b = a
  BY SMT

\* An int64 expression that does not overflow is exact, and one that exceeds
\* the range by less than its width comes back from below.
LEMMA WrapExact ==
  ASSUME NEW x \in Int
  PROVE  /\ x \in Int64 => Wrap(x) = x
         /\ (MaxInt64 < x /\ x <= MaxUint64) => Wrap(x) = x - MaxUint64 - 1
  <1> DEFINE w == MaxUint64 + 1
             y == x + MaxInt64 + 1
  <1>1. w \in Nat \ {0} /\ y \in Int /\ w = 2 * MaxInt64 + 2 /\ MaxInt64 \in Nat
    BY WidthAssumption
  <1>2. Wrap(x) = (y % w) - MaxInt64 - 1
    BY DEF Wrap
  <1>3. ASSUME x \in Int64 PROVE Wrap(x) = x
    <2>1. y \in Nat /\ y < w
      BY <1>1, <1>3 DEF Int64
    <2>2. y % w = y
      BY <1>1, <2>1, SmallMod
    <2> QED BY <1>1, <1>2, <2>2
  <1>4. ASSUME MaxInt64 < x, x <= MaxUint64 PROVE Wrap(x) = x - MaxUint64 - 1
    <2>1. y - w \in Nat /\ y - w < w
      BY <1>1, <1>4, WidthAssumption
    <2>2. y % w = y - w
      <3>1. /\ y \in Nat /\ y \div w \in Nat /\ y % w \in Nat /\ y % w < w
            /\ y = w * (y \div w) + (y % w)
        <4>1. y \in Nat
          BY <1>1, <2>1
        <4> QED BY <1>1, <4>1, DivMod
      <3> HIDE DEF y, w
      <3>2. y \div w = 1
        <4> DEFINE q == y \div w
        <4>1. q \in Nat
          BY <3>1
        <4>2. y = w * q + (y % w)
          BY <3>1
        <4>3. q # 0
          BY <1>1, <2>1, <3>1, <4>2
        <4> HIDE DEF q
        <4>4. ~(q >= 2)
          <5> SUFFICES ASSUME q >= 2 PROVE FALSE
            OBVIOUS
          <5>1. w * 2 <= w * q
            BY <1>1, <4>1, Scale
          <5>2. w * q \in Nat
            BY <1>1, <4>1, ProductNat
          <5> QED BY <1>1, <2>1, <3>1, <4>2, <5>1, <5>2
        <4> QED BY <4>1, <4>3, <4>4 DEF q
      <3> QED BY <1>1, <3>1, <3>2
    <2> QED BY <1>1, <1>2, <2>2, WidthAssumption
  <1> QED BY <1>3, <1>4

\* What is left of a bucket of this capacity at this level, in exact
\* arithmetic; reported unless the debt in cost units does not fit an int64.
Headroom(level, capacity, units, period) ==
  max(capacity - CeilQuotient(level * units, period), 0)

DebtFits(level, units, period) ==
  units = 1 \/ mulDivCeil(level, units, period).ok

\* The reported headroom is the exact one, or none at all if the debt does not
\* fit: the wrap of capacity + 1 cannot turn it into a large one.
LEMMA RemainingExact ==
  ASSUME NEW tat \in 0..MaxInt64, NEW now \in Nat, NEW capacity \in 0..MaxInt64,
         NEW units \in Nat \ {0}, NEW period \in Nat \ {0}
  PROVE  LET lv == max(tat, now) - now
             rm == Remaining(tat, now, capacity, units, period)
         IN  /\ lv \in 0..MaxInt64
             /\ DebtFits(lv, units, period) => rm = Headroom(lv, capacity, units, period)
             /\ ~DebtFits(lv, units, period) => rm = 0
             /\ rm \in 0..capacity
  <1> DEFINE lv == max(tat, now) - now
             rm == Remaining(tat, now, capacity, units, period)
             d  == DebtUnits(lv, capacity, units, period)
             k  == CeilQuotient(lv * units, period)
  <1>1. lv \in 0..MaxInt64
    BY WidthAssumption DEF max
  <1>2. rm = max(Wrap(capacity - d), 0)
    BY DEF Remaining
  <1> HIDE DEF lv, rm
  <1>3. k \in Nat
    BY <1>1, ProductNat, CeilBound, WidthAssumption
  <1>4. ASSUME DebtFits(lv, units, period)
        PROVE  rm = Headroom(lv, capacity, units, period) /\ rm \in 0..capacity
    <2>1. d = k /\ k <= MaxInt64
      <3>1. CASE units = 1
        <4>1. lv * units = lv /\ d = ceilDiv(lv, period)
          BY <1>1, <3>1, WidthAssumption DEF DebtUnits
        <4>2. CASE lv = 0
          <5>1. CeilQuotient(0, period) <= 0
            BY CeilLeast
          <5>2. k = 0
            BY <1>3, <4>1, <4>2, <5>1
          <5> HIDE DEF k
          <5> QED BY <4>1, <4>2, <5>2, WidthAssumption DEF ceilDiv
        <4>3. CASE lv # 0
          <5>1. d = k
            BY <1>1, <4>1, <4>3, WidthAssumption DEF ceilDiv
          <5>2. lv <= period * MaxInt64
            <6>1. MaxInt64 * 1 <= MaxInt64 * period
              BY Scale, WidthAssumption
            <6>2. MaxInt64 * period \in Nat /\ MaxInt64 * period = period * MaxInt64
              BY ProductNat, WidthAssumption, SMT
            <6> QED BY <1>1, <6>1, <6>2, WidthAssumption
          <5> QED BY <1>1, <4>1, <5>1, <5>2, CeilLeast, WidthAssumption
        <4> QED BY <4>2, <4>3
      <3>2. CASE units # 1
        <4>1. mulDivCeil(lv, units, period).ok
          BY <1>4, <3>2 DEF DebtFits
        <4>2. mulDivCeil(lv, units, period).val = k /\ ~(k > MaxInt64)
          BY <4>1 DEF mulDivCeil, Ok, Overflow
        <4>3. d = k
          BY <3>2, <4>1, <4>2 DEF DebtUnits
        <4> HIDE DEF k
        <4> QED BY <1>3, <4>2, <4>3, WidthAssumption
      <3> QED BY <3>1, <3>2
    <2> HIDE DEF d, k
    <2>2. capacity - d \in Int64 /\ capacity - d \in Int
      BY <1>3, <2>1, WidthAssumption DEF Int64
    <2>3. rm = max(capacity - k, 0)
      BY <1>2, <2>1, <2>2, WrapExact
    <2>4. rm \in 0..capacity
      BY <1>3, <2>3, WidthAssumption DEF max
    <2> QED BY <2>3, <2>4 DEF Headroom, k
  <1>5. ASSUME ~DebtFits(lv, units, period) PROVE rm = 0
    <2>1. d = Wrap(capacity + 1)
      BY <1>5 DEF DebtUnits, DebtFits
    <2> HIDE DEF d
    <2>2. CASE capacity < MaxInt64
      <3>1. d = capacity + 1
        <4>1. capacity + 1 \in Int64 /\ capacity + 1 \in Int
          BY <2>2, WidthAssumption DEF Int64
        <4> QED BY <2>1, <4>1, WrapExact
      <3>2. capacity - d = -1
        BY <3>1, WidthAssumption
      <3>3. Wrap(-1) = -1
        BY WrapExact, WidthAssumption DEF Int64
      <3> QED BY <1>2, <3>2, <3>3 DEF max
    <2>3. CASE capacity = MaxInt64
      <3>1. d = (capacity + 1) - MaxUint64 - 1
        <4>1. capacity + 1 \in Int /\ MaxInt64 < capacity + 1 /\ capacity + 1 <= MaxUint64
          BY <2>3, WidthAssumption
        <4> QED BY <2>1, <4>1, WrapExact
      <3>2. capacity - d = MaxUint64
        BY <2>3, <3>1, WidthAssumption
      <3>3. Wrap(MaxUint64) = -1
        <4>1. MaxUint64 \in Int /\ MaxInt64 < MaxUint64 /\ MaxUint64 <= MaxUint64
          BY WidthAssumption
        <4>2. Wrap(MaxUint64) = MaxUint64 - MaxUint64 - 1
          BY <4>1, WrapExact
        <4> QED BY <4>1, <4>2
      <3> QED BY <1>2, <3>2, <3>3 DEF max
    <2> QED BY <2>2, <2>3, WidthAssumption
  <1> QED
    <2>1. rm = 0 => rm \in 0..capacity
      BY WidthAssumption
    <2> QED BY <1>1, <1>4, <1>5, <2>1 DEF lv, rm

(***************************************************************************)
(* Batches.  Group is a recursive function; that it exists, and what it    *)
(* computes, is shown by least counterexample: a set of naturals that is   *)
(* not empty has a least member.                                           *)
(***************************************************************************)

\* Initial segments are finite, and strict inclusion of finite sets is
\* well-founded.
LEMMA LeastNatural ==
  ASSUME NEW T, T \subseteq Nat, T # {}
  PROVE  \E m \in T : \A n \in T : m <= n
  <1> DEFINE R == StrictSubsetOrdering(Nat)
             U == {0..n : n \in T}
  <1>1. IsWellFoundedOn(R, FiniteSubsetsOf(Nat))
    BY FS_StrictSubsetOrderingWellFounded
  <1>2. U \subseteq FiniteSubsetsOf(Nat) /\ U # {}
    <2>1. ASSUME NEW n \in T PROVE 0..n \subseteq Nat /\ IsFiniteSet(0..n)
      BY FS_Interval
    <2> QED BY <2>1 DEF FiniteSubsetsOf
  <1>3. PICK X \in U : \A Y \in U : ~(<<Y, X>> \in R)
    <2> HIDE DEF R, U
    <2> QED BY <1>1, <1>2, WFMin
  <1>4. PICK m \in T : X = 0..m
    BY <1>3
  <1>5. ASSUME NEW n \in T PROVE m <= n
    <2> SUFFICES ASSUME n < m PROVE FALSE
      OBVIOUS
    <2>1. 0..n \in SUBSET Nat /\ 0..m \in SUBSET Nat /\ 0..n \subseteq 0..m /\ 0..n # 0..m
      <3>1. m \in 0..m /\ m \notin 0..n
        OBVIOUS
      <3> QED BY <3>1
    <2>2. <<0..n, 0..m>> \in R
      BY <2>1 DEF StrictSubsetOrdering
    <2> QED BY <1>3, <1>4, <2>2
  <1> QED BY <1>5

\* Induction up to a bound: a set that holds 0 and, below m, the successor of
\* each of its members holds 0..m.
LEMMA SegmentInduction ==
  ASSUME NEW m \in Nat, NEW P, 0 \in P, \A n \in 1..m : n - 1 \in P => n \in P
  PROVE  0..m \subseteq P
  <1> DEFINE T == {n \in 0..m : n \notin P}
  <1> SUFFICES ASSUME T # {} PROVE FALSE
    OBVIOUS
  <1>1. PICK k \in T : \A n \in T : k <= n
    <2>1. T \subseteq Nat
      OBVIOUS
    <2> HIDE DEF T
    <2> QED BY <2>1, LeastNatural
  <1>2. k \in 1..m
    BY <1>1
  <1>3. k - 1 \in P
    BY <1>1, <1>2
  <1> QED BY <1>1, <1>2, <1>3

GroupStart(t) == [tats |-> t, admitted |-> TRUE]

\* h is the group over its first m entries.
IsGroup(es, t, s, m, h) ==
  h = [n \in 0..m |-> IF n = 0 THEN GroupStart(t) ELSE GroupStep(h[n-1], es[n], s)]

\* The recursion of Group has a solution.
LEMMA GroupExists ==
  ASSUME NEW es, NEW t, NEW s, NEW m \in Nat
  PROVE  \E h : IsGroup(es, t, s, m, h)
  <1> DEFINE P == {k \in Nat : \E h : IsGroup(es, t, s, k, h)}
  <1>1. 0 \in P
    <2> DEFINE h == [n \in 0..0 |-> GroupStart(t)]
    <2>1. h = [n \in 0..0 |-> IF n = 0 THEN GroupStart(t) ELSE GroupStep(h[n-1], es[n], s)]
      OBVIOUS
    <2>2. IsGroup(es, t, s, 0, h)
      BY <2>1 DEF IsGroup
    <2> QED BY <2>2
  <1>2. ASSUME NEW k \in 1..m, k - 1 \in P PROVE k \in P
    <2>1. PICK p : IsGroup(es, t, s, k-1, p)
      BY <1>2
    <2> DEFINE h == [n \in 0..k |-> IF n = k THEN GroupStep(p[n-1], es[n], s) ELSE p[n]]
    <2>2. ASSUME NEW n \in 0..k
          PROVE  h[n] = IF n = 0 THEN GroupStart(t) ELSE GroupStep(h[n-1], es[n], s)
      <3>1. CASE n = 0
        <4>1. n \in 0..(k-1) /\ n # k
          BY <3>1
        <4>2. p[n] = GroupStart(t)
          BY <2>1, <3>1, <4>1 DEF IsGroup
        <4> QED BY <3>1, <4>1, <4>2
      <3>2. CASE n # 0
        <4>1. h[n-1] = p[n-1]
          BY <3>2
        <4>2. CASE n = k
          BY <3>2, <4>1, <4>2
        <4>3. CASE n # k
          <5>1. n \in 0..(k-1)
            BY <4>3
          <5>2. p[n] = GroupStep(p[n-1], es[n], s)
            BY <2>1, <3>2, <5>1 DEF IsGroup
          <5> QED BY <3>2, <4>1, <4>3, <5>2
        <4> QED BY <4>2, <4>3
      <3> QED BY <3>1, <3>2
    <2>3. IsGroup(es, t, s, k, h)
      <3>1. h = [n \in 0..k |-> h[n]]
        OBVIOUS
      <3> HIDE DEF h
      <3>2. h = [n \in 0..k |-> IF n = 0 THEN GroupStart(t)
                                ELSE GroupStep(h[n-1], es[n], s)]
        BY <2>2, <3>1
      <3> QED BY <3>2 DEF IsGroup
    <2> HIDE DEF h
    <2> QED BY <2>3
  <1>3. 0..m \subseteq P
    <2> HIDE DEF P
    <2> QED BY <1>1, <1>2, SegmentInduction
  <1> QED BY <1>3

\* Group unfolds entry by entry.
LEMMA GroupUnfolds ==
  ASSUME NEW es, NEW t, NEW s, Len(es) \in Nat
  PROVE  LET g == Group(es, t, s)
         IN  /\ g[0] = GroupStart(t)
             /\ \A n \in 1..Len(es) : g[n] = GroupStep(g[n-1], es[n], s)
  <1> DEFINE g == Group(es, t, s)
  <1>1. g = CHOOSE h : IsGroup(es, t, s, Len(es), h)
    BY DEF Group, IsGroup, GroupStart
  <1>2. IsGroup(es, t, s, Len(es), g)
    BY <1>1, GroupExists
  <1> HIDE DEF g
  <1>3. g = [n \in 0..Len(es) |-> IF n = 0 THEN GroupStart(t)
                                  ELSE GroupStep(g[n-1], es[n], s)]
    BY <1>2 DEF IsGroup
  <1>4. g[0] = GroupStart(t)
    BY <1>3
  <1>5. ASSUME NEW n \in 1..Len(es) PROVE g[n] = GroupStep(g[n-1], es[n], s)
    BY <1>3
  <1> QED BY <1>4, <1>5 DEF g

\* The entries of a batch over the keys K.
LimitOf == [capacity : Int, units : Int, period : Int]

EntryOf(K) == [key : K, limit : LimitOf, cost : Int, peek : BOOLEAN]

\* Checking an entry gives a TAT and a verdict.
LEMMA EntryVerdict ==
  ASSUME NEW K, NEW e \in EntryOf(K), NEW t \in Nat, NEW s \in Nat
  PROVE  /\ CheckEntry(t, s, e).tat \in Nat
         /\ CheckEntry(t, s, e).throttled \in BOOLEAN
  <1> DEFINE cap == e.limit.capacity
             un  == EffectiveUnits(e.limit.units)
             per == e.limit.period
             co  == EffectiveCost(e.cost)
             g   == gcraCheck(t, s, cap, un, per, co)
  <1>1. CheckEntry(t, s, e) = g
    BY DEF CheckEntry
  <1>2. cap \in Int /\ un \in Int /\ per \in Int /\ co \in Int
    BY DEF EntryOf, LimitOf, EffectiveUnits, EffectiveCost
  <1>3. g.throttled \in BOOLEAN
    BY DEF gcraCheck, Refused, Admitted
  <1> HIDE DEF cap, un, per, co
  <1>4. CASE g.throttled
    BY <1>1, <1>3, <1>4, RefusedKeepsTat
  <1>5. CASE ~g.throttled
    <2>1. g.tat \in Nat
      BY <1>2, <1>5, AdmittedMovesTat
    <2> QED BY <1>1, <1>3, <2>1
  <1> QED BY <1>4, <1>5

\* A limit under which anything can be admitted.
Sound(l) == l.capacity >= 1 /\ l.period >= 1

Units(l) == EffectiveUnits(l.units)
Debt(l)  == MaxDebt(l.capacity, Units(l), l.period).val

\* Facts about a sound limit.
LEMMA SoundLimitBounds ==
  ASSUME NEW l \in LimitOf, Sound(l)
  PROVE  /\ Units(l) \in Nat \ {0} /\ l.capacity \in Nat \ {0} /\ l.period \in Nat \ {0}
         /\ Debt(l) \in Nat /\ Units(l) * Debt(l) <= l.capacity * l.period
  <1>1. Units(l) \in Nat \ {0} /\ l.capacity \in Nat \ {0} /\ l.period \in Nat \ {0}
    BY DEF LimitOf, Sound, Units, EffectiveUnits
  <1> DEFINE m == MaxDebt(l.capacity, Units(l), l.period)
  <1>2. CASE m.ok
    BY <1>1, <1>2, MaxDebtBound DEF Debt
  <1>3. CASE ~m.ok
    <2>1. m.val = 0
      BY <1>3 DEF MaxDebt, mulNonNeg, mulDivFloor, Ok, Overflow
    <2>2. l.capacity * l.period \in Nat
      BY <1>1, ProductNat
    <2>3. Debt(l) = 0
      BY <2>1 DEF Debt
    <2> QED BY <1>1, <2>2, <2>3
  <1> QED BY <1>1, <1>2, <1>3

\* A check under l that admits: the limit is sound, and the TAT it leaves is
\* ahead of the one it found, and of now, by at least the cost, and not beyond a
\* burst from now.
LEMMA AdmissionCharges ==
  ASSUME NEW K, NEW t \in Nat, NEW n \in Nat, NEW e \in EntryOf(K),
         ~CheckEntry(t, n, e).throttled
  PROVE  LET l == e.limit
             a == CheckEntry(t, n, e).tat
             c == EffectiveCost(e.cost)
         IN  /\ Sound(l) /\ a \in Nat /\ c \in Nat
             /\ Units(l) * t + c * l.period <= Units(l) * a
             /\ Units(l) * n + c * l.period <= Units(l) * a
             /\ a <= n + Debt(l)
  <1> DEFINE l   == e.limit
             cap == l.capacity
             u   == Units(l)
             per == l.period
             co  == EffectiveCost(e.cost)
             cn  == CostNs(co, u, per).val
             a   == gcraCheck(t, n, cap, u, per, co).tat
  <1>1. l \in LimitOf /\ cap \in Int /\ u \in Int /\ per \in Int /\ co \in Nat \ {0}
    BY DEF EntryOf, LimitOf, Units, EffectiveUnits, EffectiveCost
  <1>2. CheckEntry(t, n, e) = gcraCheck(t, n, cap, u, per, co)
    BY DEF CheckEntry, Units
  <1>c. co \in Int
    BY <1>1
  <1>3. co <= cap
    BY <1>1, <1>2 DEF gcraCheck, Refused
  <1>4. u \in Nat \ {0} /\ per \in Nat \ {0} /\ CostNs(co, u, per).ok
    <2> HIDE DEF u, per, co, cap
    <2> QED BY <1>1, <1>2, <1>c, AdmittedShape
  <1>5. Sound(l)
    BY <1>1, <1>3, <1>4 DEF Sound
  <1>6. /\ cn \in Nat /\ a \in Nat /\ t + cn <= a /\ n + cn <= a
        /\ Debt(l) \in Nat /\ a - n <= Debt(l)
    <2>1. ~gcraCheck(t, n, cap, u, per, co).throttled
      BY <1>2
    <2>2. Debt(l) = MaxDebt(cap, u, per).val
      BY DEF Debt
    <2> HIDE DEF u, per, co, cap
    <2>3. /\ cn \in Nat /\ MaxDebt(cap, u, per).val \in Nat
          /\ t + cn <= a /\ n + cn <= a /\ a \in Nat
          /\ a - n <= MaxDebt(cap, u, per).val
      <3> HIDE DEF l
      <3> QED BY <1>1, <1>c, <2>1, AdmittedMovesTat
    <2> HIDE DEF cn, a
    <2> QED BY <2>2, <2>3
  <1>7. co * per <= u * cn
    <2> HIDE DEF u, per, co
    <2> QED BY <1>1, <1>4, CostNsBound
  <1>8. a = CheckEntry(t, n, e).tat
    BY <1>2
  <1> HIDE DEF l, cap, u, per, co, cn, a
  <1>9. u * (t + cn) <= u * a /\ u * (n + cn) <= u * a
    BY <1>4, <1>6, Scale
  <1>10. u * (t + cn) = u * t + u * cn /\ u * (n + cn) = u * n + u * cn
    BY <1>4, <1>6
  <1>11. /\ u * t \in Int /\ u * n \in Int /\ u * cn \in Int /\ u * a \in Int
         /\ co * per \in Int
    BY <1>1, <1>4, <1>6
  <1>12. u * t + co * per <= u * a /\ u * n + co * per <= u * a
    BY <1>7, <1>9, <1>10, <1>11
  <1>13. a <= n + Debt(l)
    BY <1>6
  <1> QED BY <1>1, <1>5, <1>6, <1>8, <1>12, <1>13 DEF l, u, per, co

\* A group is a working copy of the TATs and whether nothing failed so far.
LEMMA GroupType ==
  ASSUME NEW K, NEW es \in Seq(EntryOf(K)), NEW t \in [K -> Nat], NEW s \in Nat
  PROVE  \A n \in 0..Len(es) :
           Group(es, t, s)[n] \in [tats : [K -> Nat], admitted : BOOLEAN]
  <1> DEFINE g == Group(es, t, s)
             P == {n \in Nat : g[n] \in [tats : [K -> Nat], admitted : BOOLEAN]}
  <1>0. Len(es) \in Nat /\ \A n \in 1..Len(es) : es[n] \in EntryOf(K)
    OBVIOUS
  <1>1. g[0] = GroupStart(t) /\ \A n \in 1..Len(es) : g[n] = GroupStep(g[n-1], es[n], s)
    BY <1>0, GroupUnfolds
  <1> HIDE DEF g
  <1>2. 0 \in P
    <2>1. GroupStart(t) \in [tats : [K -> Nat], admitted : BOOLEAN]
      BY Zenon DEF GroupStart
    <2> QED BY <1>1, <2>1
  <1>3. ASSUME NEW n \in 1..Len(es), n - 1 \in P PROVE n \in P
    <2> DEFINE h == g[n-1]
               e == es[n]
               v == CheckEntry(h.tats[e.key], s, e)
    <2>1. h \in [tats : [K -> Nat], admitted : BOOLEAN] /\ e \in EntryOf(K)
      BY <1>0, <1>3
    <2>2. g[n] = GroupStep(h, e, s)
      BY <1>1
    <2> HIDE DEF h, e
    <2>3. e.key \in K /\ h.tats[e.key] \in Nat
      BY <2>1 DEF EntryOf
    <2>4. v.tat \in Nat
      BY <2>1, <2>3, EntryVerdict
    <2>5. \/ GroupStep(h, e, s) = h
          \/ GroupStep(h, e, s) = [h EXCEPT !.admitted = FALSE]
          \/ GroupStep(h, e, s) = [h EXCEPT !.tats[e.key] = v.tat]
      BY DEF GroupStep
    <2> HIDE DEF v
    <2>6. GroupStep(h, e, s) \in [tats : [K -> Nat], admitted : BOOLEAN]
      <3>1. [h EXCEPT !.admitted = FALSE] \in [tats : [K -> Nat], admitted : BOOLEAN]
        BY <2>1, Zenon
      <3>2. [h EXCEPT !.tats[e.key] = v.tat] \in [tats : [K -> Nat], admitted : BOOLEAN]
        <4>1. [h.tats EXCEPT ![e.key] = v.tat] \in [K -> Nat]
          BY <2>1, <2>3, <2>4
        <4>2. [h EXCEPT !.tats[e.key] = v.tat]
                = [h EXCEPT !.tats = [h.tats EXCEPT ![e.key] = v.tat]]
          BY <2>1
        <4> DEFINE w == [h.tats EXCEPT ![e.key] = v.tat]
        <4> HIDE DEF w
        <4>3. [h EXCEPT !.tats = w] \in [tats : [K -> Nat], admitted : BOOLEAN]
          BY <2>1, <4>1, Zenon DEF w
        <4> QED BY <4>2, <4>3 DEF w
      <3> QED BY <2>1, <2>5, <3>1, <3>2
    <2> QED BY <2>2, <2>6
  <1>4. 0..Len(es) \subseteq P
    <2> HIDE DEF P
    <2> QED BY <1>0, <1>2, <1>3, SegmentInduction
  <1> QED BY <1>4 DEF g

\* The verdicts of a batch tell what became of its group: after n entries it
\* stands exactly if none of the real ones among them is reported throttled.
LEMMA GroupVerdict ==
  ASSUME NEW K, NEW es \in Seq(EntryOf(K)), NEW t \in [K -> Nat], NEW s \in Nat
  PROVE  \A n \in 0..Len(es) :
           Group(es, t, s)[n].admitted <=>
             \A i \in 1..n : es[i].peek \/ ~Verdicts(es, t, s)[i].throttled
  <1> DEFINE g == Group(es, t, s)
             V(i) == Verdicts(es, t, s)[i].throttled
             P == {n \in Nat : g[n].admitted <=> \A i \in 1..n : es[i].peek \/ ~V(i)}
  <1>0. /\ Len(es) \in Nat /\ DOMAIN es = 1..Len(es)
        /\ \A n \in 1..Len(es) : es[n] \in EntryOf(K)
    OBVIOUS
  <1>1. g[0] = GroupStart(t) /\ \A n \in 1..Len(es) : g[n] = GroupStep(g[n-1], es[n], s)
    BY <1>0, GroupUnfolds
  <1>2. \A n \in 0..Len(es) : g[n] \in [tats : [K -> Nat], admitted : BOOLEAN]
    BY GroupType
  <1>3. ASSUME NEW n \in 1..Len(es), ~es[n].peek
        PROVE  V(n) = CheckEntry(g[n-1].tats[es[n].key], s, es[n]).throttled
    BY <1>0, <1>3 DEF Verdicts
  <1> HIDE DEF g, V
  <1>4. 0 \in P
    BY <1>1 DEF GroupStart
  <1>5. ASSUME NEW n \in 1..Len(es), n - 1 \in P PROVE n \in P
    <2> DEFINE h == g[n-1]
               e == es[n]
               v == CheckEntry(h.tats[e.key], s, e)
               Q(m) == \A i \in 1..m : es[i].peek \/ ~V(i)
    <2>0. n - 1 \in 0..Len(es)
      BY <1>0
    <2>1. /\ h \in [tats : [K -> Nat], admitted : BOOLEAN] /\ e \in EntryOf(K)
          /\ g[n] = GroupStep(h, e, s)
      BY <1>0, <1>1, <1>2, <2>0
    <2>2. h.admitted <=> Q(n-1)
      BY <1>5
    <2>3. Q(n) <=> Q(n-1) /\ (e.peek \/ ~V(n))
      BY <1>0
    <2>4. ~e.peek => V(n) = v.throttled
      BY <1>3
    <2> HIDE DEF h, e, Q
    <2>5. CASE e.peek
      <3>1. g[n] = h
        BY <2>1, <2>5 DEF GroupStep
      <3>2. g[n].admitted <=> Q(n)
        BY <2>2, <2>3, <2>5, <3>1
      <3> QED BY <3>2 DEF Q
    <2>6. CASE ~e.peek /\ v.throttled
      <3>1. g[n] = [h EXCEPT !.admitted = FALSE]
        BY <2>1, <2>6 DEF GroupStep
      <3>2. ~g[n].admitted
        BY <2>1, <3>1
      <3>3. ~Q(n)
        BY <2>3, <2>4, <2>6
      <3> QED BY <3>2, <3>3 DEF Q
    <2>7. CASE ~e.peek /\ ~v.throttled
      <3>1. g[n] = [h EXCEPT !.tats[e.key] = v.tat]
        BY <2>1, <2>7 DEF GroupStep
      <3>2. g[n].admitted = h.admitted
        <4> HIDE DEF v
        <4> QED BY <2>1, <3>1
      <3>3. g[n].admitted <=> Q(n)
        BY <2>2, <2>3, <2>4, <2>7, <3>2
      <3> QED BY <3>3 DEF Q
    <2> QED BY <2>5, <2>6, <2>7
  <1>6. 0..Len(es) \subseteq P
    <2> HIDE DEF P
    <2> QED BY <1>0, <1>4, <1>5, SegmentInduction
  <1> QED BY <1>6 DEF g, V

\* What a batch leaves behind are TATs again.
LEMMA CommittedType ==
  ASSUME NEW K, NEW es \in Seq(EntryOf(K)), NEW t \in [K -> Nat], NEW s \in Nat
  PROVE  Committed(es, t, s) \in [K -> Nat]
  <1>1. Group(es, t, s)[Len(es)] \in [tats : [K -> Nat], admitted : BOOLEAN]
    BY GroupType
  <1> QED BY <1>1 DEF Committed

\* Peeks leave the group as it is.
LEMMA PeeksPass ==
  ASSUME NEW es, NEW t, NEW s, Len(es) \in Nat, NEW i \in 0..Len(es), NEW n \in i..Len(es),
         \A j \in (i+1)..n : es[j].peek
  PROVE  Group(es, t, s)[n] = Group(es, t, s)[i]
  <1> DEFINE g == Group(es, t, s)
             P == {d \in Nat : g[i+d] = g[i]}
  <1>1. \A j \in 1..Len(es) : g[j] = GroupStep(g[j-1], es[j], s)
    BY GroupUnfolds
  <1> HIDE DEF g
  <1>2. 0 \in P
    OBVIOUS
  <1>3. ASSUME NEW d \in 1..(n-i), d - 1 \in P PROVE d \in P
    <2>1. i + d \in 1..Len(es) /\ i + d \in (i+1)..n /\ (i + d) - 1 = i + (d - 1)
      OBVIOUS
    <2>2. g[i+d] = GroupStep(g[i+(d-1)], es[i+d], s)
      BY <1>1, <2>1
    <2>3. g[i+d] = g[i+(d-1)]
      BY <2>1, <2>2 DEF GroupStep
    <2> QED BY <1>3, <2>3
  <1>4. n - i \in Nat /\ 0..(n-i) \subseteq P
    <2>1. n - i \in Nat
      OBVIOUS
    <2> HIDE DEF P
    <2> QED BY <1>2, <1>3, <2>1, SegmentInduction
  <1>5. n - i \in P /\ i + (n - i) = n
    BY <1>4
  <1> QED BY <1>5 DEF g

\* T holds the keys of all real entries.
Covers(T, es) == \A i \in DOMAIN es : es[i].peek \/ es[i].key \in T

AgreeOn(T, t, u) == \A k \in T : t[k] = u[k]

\* A group depends on, and changes, only the keys of its real entries.
LEMMA GroupFrame ==
  ASSUME NEW K, NEW es \in Seq(EntryOf(K)), NEW t \in [K -> Nat], NEW u \in [K -> Nat],
         NEW s \in Nat, NEW T \in SUBSET K, AgreeOn(T, t, u), Covers(T, es)
  PROVE  \A n \in 0..Len(es) :
           LET g == Group(es, t, s)[n]
               h == Group(es, u, s)[n]
           IN  /\ g.admitted = h.admitted
               /\ \A k \in T : g.tats[k] = h.tats[k]
               /\ \A k \in K \ T : g.tats[k] = t[k]
  <1> DEFINE G == Group(es, t, s)
             H == Group(es, u, s)
             Agree(g, h) == /\ g.admitted = h.admitted
                            /\ \A k \in T : g.tats[k] = h.tats[k]
                            /\ \A k \in K \ T : g.tats[k] = t[k]
             P == {n \in Nat : Agree(G[n], H[n])}
  <1>0. /\ Len(es) \in Nat /\ DOMAIN es = 1..Len(es)
        /\ \A n \in 1..Len(es) : es[n] \in EntryOf(K)
    OBVIOUS
  <1>c. /\ \A k \in T : t[k] = u[k]
        /\ \A n \in 1..Len(es) : es[n].peek \/ es[n].key \in T
    BY <1>0 DEF AgreeOn, Covers
  <1>g. G[0] = GroupStart(t) /\ \A n \in 1..Len(es) : G[n] = GroupStep(G[n-1], es[n], s)
    BY <1>0, GroupUnfolds
  <1>h. H[0] = GroupStart(u) /\ \A n \in 1..Len(es) : H[n] = GroupStep(H[n-1], es[n], s)
    BY <1>0, GroupUnfolds
  <1>1. /\ G[0] = GroupStart(t) /\ \A n \in 1..Len(es) : G[n] = GroupStep(G[n-1], es[n], s)
        /\ H[0] = GroupStart(u) /\ \A n \in 1..Len(es) : H[n] = GroupStep(H[n-1], es[n], s)
    BY <1>g, <1>h
  <1>2. \A n \in 0..Len(es) : /\ G[n] \in [tats : [K -> Nat], admitted : BOOLEAN]
                             /\ H[n] \in [tats : [K -> Nat], admitted : BOOLEAN]
    BY GroupType
  <1> HIDE DEF G, H
  <1>3. 0 \in P
    <2>1. Agree(GroupStart(t), GroupStart(u))
      BY <1>c DEF GroupStart
    <2> QED BY <1>1, <2>1
  <1>4. ASSUME NEW n \in 1..Len(es), n - 1 \in P PROVE n \in P
    <2> DEFINE g == G[n-1]
               h == H[n-1]
               e == es[n]
               v == CheckEntry(g.tats[e.key], s, e)
    <2>0. n - 1 \in 0..Len(es)
      BY <1>0
    <2>1. /\ g \in [tats : [K -> Nat], admitted : BOOLEAN]
          /\ h \in [tats : [K -> Nat], admitted : BOOLEAN]
          /\ Agree(g, h) /\ (e.peek \/ e.key \in T)
      BY <1>0, <1>2, <1>4, <1>c, <2>0
    <2>2. G[n] = GroupStep(g, e, s) /\ H[n] = GroupStep(h, e, s)
      BY <1>1
    <2>3. e.key \in T => h.tats[e.key] = g.tats[e.key]
      BY <2>1
    <2> HIDE DEF g, h, e
    <2>4. CASE e.peek
      <3>1. GroupStep(g, e, s) = g /\ GroupStep(h, e, s) = h
        BY <2>4 DEF GroupStep
      <3> QED BY <2>1, <2>2, <3>1
    <2>5. CASE ~e.peek /\ v.throttled
      <3>1. /\ GroupStep(g, e, s) = [g EXCEPT !.admitted = FALSE]
            /\ GroupStep(h, e, s) = [h EXCEPT !.admitted = FALSE]
        BY <2>1, <2>3, <2>5 DEF GroupStep
      <3>2. Agree([g EXCEPT !.admitted = FALSE], [h EXCEPT !.admitted = FALSE])
        BY <2>1
      <3> HIDE DEF Agree
      <3>9. Agree(G[n], H[n])
        BY <2>2, <3>1, <3>2
      <3> QED BY <1>0, <3>9
    <2>6. CASE ~e.peek /\ ~v.throttled
      <3>1. /\ GroupStep(g, e, s) = [g EXCEPT !.tats[e.key] = v.tat]
            /\ GroupStep(h, e, s) = [h EXCEPT !.tats[e.key] = v.tat]
        BY <2>1, <2>3, <2>6 DEF GroupStep
      <3>2. e.key \in T /\ e.key \in K
        BY <2>1, <2>6
      <3> HIDE DEF v
      <3>3. Agree([g EXCEPT !.tats[e.key] = v.tat], [h EXCEPT !.tats[e.key] = v.tat])
        BY <2>1, <3>2
      <3> HIDE DEF Agree
      <3>9. Agree(G[n], H[n])
        BY <2>2, <3>1, <3>3
      <3> QED BY <1>0, <3>9
    <2> QED BY <2>4, <2>5, <2>6
  <1>5. 0..Len(es) \subseteq P
    <2> HIDE DEF P
    <2> QED BY <1>0, <1>3, <1>4, SegmentInduction
  <1> QED BY <1>5 DEF G, H

=============================================================================
