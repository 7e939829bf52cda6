----------------------------- MODULE LeakyBucket -----------------------------
(***************************************************************************)
(* One bucket under a sequence of checks: the sequential contract of       *)
(* gcraCheck, stated against the leaky bucket in exact arithmetic.  The    *)
(* bucket holds no limit of its own; every request brings one, so checks   *)
(* of different limits may share it.                                       *)
(***************************************************************************)
EXTENDS Gcra

CONSTANTS Limits,   \* the limits requests may carry: [capacity, units, period]
          Costs,    \* the costs requests may carry
          MaxNow    \* bound on the clock, so that the state space is finite

ASSUME LeakyBucketAssumption ==
  /\ MaxNow \in 1..MaxInt64
  /\ Limits \subseteq [capacity : Int64, units : Int64, period : Int64]
  /\ Costs \subseteq Int64

VARIABLES tat, now

vars == <<tat, now>>

Entry(l, c) == [limit |-> l, cost |-> c]

\* The verdict on a request made at instant t against the current bucket.
VerdictAt(t, l, c) == CheckEntry(tat, t, Entry(l, c))

Init == tat = 0 /\ now = 1

\* A real request: the TAT moves only if the request is admitted.
Consume(l, c) ==
  /\ tat' = VerdictAt(now, l, c).tat
  /\ UNCHANGED now

Tick == now < MaxNow /\ now' = now + 1 /\ UNCHANGED tat

Next == Tick \/ \E l \in Limits, c \in Costs : Consume(l, c)

Spec == Init /\ [][Next]_vars

-----------------------------------------------------------------------------
(* The request's shape after the normalisation of types.go. *)
Cap(l)   == l.capacity
Unit(l)  == EffectiveUnits(l.units)
Per(l)   == l.period
Cost(c)  == EffectiveCost(c)
Sane(l, c) == ~BadShape(Cap(l), Unit(l), Per(l), Cost(c))
Level    == max(tat, now) - now

\* Every value stored or reported is one the Go code can hold: nothing wraps,
\* and the reported headroom stays within the bucket.
TypeOK ==
  /\ tat \in 0..MaxInt64 /\ now \in 1..MaxNow
  /\ \A l \in Limits, c \in Costs :
       LET v == VerdictAt(now, l, c)
       IN  /\ v.tat \in 0..MaxInt64
           /\ v.retryAfter \in 0..MaxInt64
           /\ v.remaining \in 0..max(Cap(l), 0)

\* gcraCheck never admits a request the exact leaky bucket has no room for:
\* level * units / period + cost <= capacity, whatever was rounded.
NeverOverAdmits ==
  \A l \in Limits, c \in Costs :
    ~VerdictAt(now, l, c).throttled =>
      Level * Unit(l) + Cost(c) * Per(l) <= Cap(l) * Per(l)

\* The reported headroom agrees with the verdict: an admitted cost is at most
\* remaining, and for a whole-unit rate a refused one is more than remaining
\* (unless the new TAT would not fit an int64).  When another limit pushed the
\* TAT so far out that the debt in cost units does not fit an int64, the
\* request is refused and reports no headroom, the wrap of capacity + 1
\* included.
RemainingAgreesWithVerdict ==
  \A l \in Limits, c \in Costs :
    LET v == VerdictAt(now, l, c)
    IN  Sane(l, c) =>
          /\ ~v.throttled => Cost(c) <= v.remaining
          /\ (Unit(l) = 1 /\ v.throttled) =>
               \/ Cost(c) > v.remaining
               \/ max(tat, now) + Cost(c) * Per(l) > MaxInt64
          /\ (Unit(l) # 1 /\ ~mulDivCeil(Level, Unit(l), Per(l)).ok) =>
               v.throttled /\ v.remaining = 0

\* A request whose debt fits an empty bucket and that is told to retry after
\* d > 0 is still refused at every earlier instant and admitted at now + d.
RetryAfterIsExact ==
  \A l \in Limits, c \in Costs :
    LET d == VerdictAt(now, l, c).retryAfter
    IN  (/\ d > 0
         /\ CostNs(Cost(c), Unit(l), Per(l)).val <= MaxDebt(Cap(l), Unit(l), Per(l)).val
         /\ now + d + CostNs(Cost(c), Unit(l), Per(l)).val <= MaxInt64) =>
          /\ \A t \in now..(now + d - 1) : VerdictAt(t, l, c).throttled
          /\ ~VerdictAt(now + d, l, c).throttled

\* A refusal that reports retryAfter = 0 is final: at no later instant would
\* the same request be admitted by the same bucket.
ZeroRetryIsFinal ==
  \A l \in Limits, c \in Costs :
    LET v == VerdictAt(now, l, c)
    IN  v.throttled /\ v.retryAfter = 0 =>
          \A t \in now..MaxInt64 : VerdictAt(t, l, c).throttled

\* What types.go says of RetryAfter: a positive value is how long until this
\* exact request fits, and a request that can never fit reports zero.
PositiveRetryResolves ==
  \A l \in Limits, c \in Costs :
    LET d == VerdictAt(now, l, c).retryAfter
    IN  d > 0 => \E t \in now..MaxInt64 : ~VerdictAt(t, l, c).throttled
=============================================================================
