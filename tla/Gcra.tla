-------------------------------- MODULE Gcra --------------------------------
(***************************************************************************)
(* The leaky-bucket admission check of server/gcra.go, as pure operators.  *)
(* A bucket's whole state is one instant, its theoretical arrival time     *)
(* (TAT); tat = 0 means "never seen".  Integers keep the width of the Go   *)
(* code: MaxInt64 and MaxUint64 stand for math.MaxInt64 and                *)
(* math.MaxUint64, and the checked arithmetic refuses exactly the results  *)
(* that do not fit.                                                        *)
(*                                                                         *)
(* A definition under a comment that starts with "Bug:" is no part of the  *)
(* model: it is the next definition with a mistake in it, kept to show     *)
(* that some property notices.                                             *)
(***************************************************************************)
EXTENDS Integers

CONSTANTS MaxInt64, MaxUint64

ASSUME WidthAssumption ==
  /\ MaxInt64 \in Nat \ {0}
  /\ MaxUint64 = 2 * MaxInt64 + 1

Int64 == (-MaxInt64 - 1) .. MaxInt64

\* The value an int64 expression wraps to.
Wrap(x) == ((x + MaxInt64 + 1) % (MaxUint64 + 1)) - MaxInt64 - 1

max(a, b) == IF a >= b THEN a ELSE b

\* The (value, ok) pairs the checked helpers return.
Ok(v)    == [ok |-> TRUE, val |-> v]
Overflow == [ok |-> FALSE, val |-> 0]

(***************************************************************************)
(* Checked arithmetic.  Products are exact in TLA+, which is what the      *)
(* 128-bit intermediate of bits.Mul64 gives the Go code.                   *)
(***************************************************************************)
CeilQuotient(a, b) == a \div b + IF a % b # 0 THEN 1 ELSE 0

\* Bug: rounding down makes a partly used unit look free.
ceilDivRoundsDown(a, b) == IF a <= 0 THEN 0 ELSE a \div b

ceilDiv(a, b) == IF a <= 0 THEN 0 ELSE CeilQuotient(a, b)

mulNonNeg(a, b) ==
  IF a = 0 \/ b = 0 THEN Ok(0)
  ELSE IF a > MaxInt64 \div b THEN Overflow
  ELSE Ok(a * b)

addNonNeg(a, b) == IF a > MaxInt64 - b THEN Overflow ELSE Ok(a + b)

\* bits.Div64 may only be called when the high word is below the divisor.
Div64Fits(a, b, c) ==
  /\ a >= 0 /\ b >= 0 /\ c > 0
  /\ (a * b) \div (MaxUint64 + 1) < c

mulDivFloor(a, b, c) ==
  IF ~Div64Fits(a, b, c) \/ (a * b) \div c > MaxInt64
  THEN Overflow
  ELSE Ok((a * b) \div c)

mulDivCeil(a, b, c) ==
  IF ~Div64Fits(a, b, c) \/ CeilQuotient(a * b, c) > MaxInt64
  THEN Overflow
  ELSE Ok(CeilQuotient(a * b, c))

(***************************************************************************)
(* The shape of a limit on the TAT timeline: the bucket's size (rounded    *)
(* down) and a request's own debt (rounded up), in nanoseconds.            *)
(***************************************************************************)
MaxDebt(capacity, units, period) ==
  IF units = 1 THEN mulNonNeg(capacity, period)
               ELSE mulDivFloor(capacity, period, units)

\* Bug: a request's own debt rounded in the caller's favour.
CostNsRoundsDown(cost, units, period) ==
  IF units = 1 THEN mulNonNeg(cost, period)
               ELSE mulDivFloor(cost, period, units)

CostNs(cost, units, period) ==
  IF units = 1 THEN mulNonNeg(cost, period)
               ELSE mulDivCeil(cost, period, units)

\* A shape gcraCheck refuses outright: no leak rate, or not representable.
BadShape(capacity, units, period, cost) ==
  \/ period <= 0 \/ units <= 0 \/ capacity < 0 \/ cost < 0
  \/ ~MaxDebt(capacity, units, period).ok
  \/ ~CostNs(cost, units, period).ok

\* Bug: an overflowing level read as no debt at all.
DebtUnitsOverflowsToZero(level, capacity, units, period) ==
  IF units = 1 THEN ceilDiv(level, period)
  ELSE mulDivCeil(level, units, period).val

\* The debt in cost units, with the fallback for a level that does not fit.
DebtUnits(level, capacity, units, period) ==
  IF units = 1 THEN ceilDiv(level, period)
  ELSE LET d == mulDivCeil(level, units, period)
       IN  IF d.ok THEN d.val ELSE Wrap(capacity + 1)

\* Bug: headroom not clamped at zero.
RemainingUnclamped(tat, now, capacity, units, period) ==
  Wrap(capacity - DebtUnits(max(tat, now) - now, capacity, units, period))

Remaining(tat, now, capacity, units, period) ==
  max(Wrap(capacity - DebtUnits(max(tat, now) - now, capacity, units, period)), 0)

Refused(remaining, retryAfter, tat) ==
  [throttled |-> TRUE, remaining |-> remaining, retryAfter |-> retryAfter, tat |-> tat]

Admitted(remaining, tat) ==
  [throttled |-> FALSE, remaining |-> remaining, retryAfter |-> 0, tat |-> tat]

\* Bug: a request that exactly fills the bucket is refused.
gcraCheckOffByOne(tat, now, capacity, units, period, cost) ==
  IF BadShape(capacity, units, period, cost) THEN Refused(0, 0, tat)
  ELSE LET remaining == Remaining(tat, now, capacity, units, period)
           candidate == addNonNeg(max(tat, now), CostNs(cost, units, period).val)
           excess    == candidate.val - now - MaxDebt(capacity, units, period).val
       IN  IF cost > capacity \/ ~candidate.ok THEN Refused(remaining, 0, tat)
           ELSE IF excess >= 0 THEN Refused(remaining, excess, tat)
           ELSE Admitted(remaining, candidate.val)

\* Bug: the time until the bucket is empty instead of until the request fits.
gcraCheckReportsDebt(tat, now, capacity, units, period, cost) ==
  IF BadShape(capacity, units, period, cost) THEN Refused(0, 0, tat)
  ELSE LET remaining == Remaining(tat, now, capacity, units, period)
           candidate == addNonNeg(max(tat, now), CostNs(cost, units, period).val)
           debt      == candidate.val - now
       IN  IF cost > capacity \/ ~candidate.ok THEN Refused(remaining, 0, tat)
           ELSE IF debt > MaxDebt(capacity, units, period).val
           THEN Refused(remaining, debt, tat)
           ELSE Admitted(remaining, candidate.val)

(***************************************************************************)
(* gcraCheck: the verdict, the headroom before this request, how long      *)
(* until it would fit, and the TAT to store if it is applied.              *)
(***************************************************************************)
gcraCheck(tat, now, capacity, units, period, cost) ==
  IF BadShape(capacity, units, period, cost) THEN Refused(0, 0, tat)
  ELSE LET remaining == Remaining(tat, now, capacity, units, period)
           maxDebt   == MaxDebt(capacity, units, period).val
           candidate == addNonNeg(max(tat, now), CostNs(cost, units, period).val)
           excess    == candidate.val - now - maxDebt
       IN  IF cost > capacity \/ ~candidate.ok THEN Refused(remaining, 0, tat)
           ELSE IF excess > 0 THEN Refused(remaining, excess, tat)
           ELSE Admitted(remaining, candidate.val)

(***************************************************************************)
(* types.go: zero or negative means "not specified" and defaults to 1.     *)
(***************************************************************************)
EffectiveCost(cost)   == IF cost <= 0 THEN 1 ELSE cost
EffectiveUnits(units) == IF units <= 0 THEN 1 ELSE units

\* One entry's check, normalised the way both callers in throttling.go do.
CheckEntry(tat, now, e) ==
  gcraCheck(tat, now, e.limit.capacity, EffectiveUnits(e.limit.units),
            e.limit.period, EffectiveCost(e.cost))
=============================================================================
