------------------------------ MODULE Throttler ------------------------------
(***************************************************************************)
(* server/throttling.go over server/store.go: concurrent Throttle calls on *)
(* an InMemoryThrottler, and the gcLoop that rotates the store under them. *)
(*                                                                         *)
(* A bucket is a heap object (bucketState): its mutex is owner[b], its one *)
(* field tat[b].  A stripe's two map generations are hot and cold; a call  *)
(* keeps the pointers getOrCreate gave it in held, so a bucket may be in   *)
(* use after the store has dropped it.  One step of a call is what the     *)
(* code does under one acquisition of a stripe's or a bucket's mutex.  A   *)
(* call whose ctx is done when it starts returns at once and changes       *)
(* nothing, so it is no step at all.                                       *)
(*                                                                         *)
(* A definition under a comment that starts with "Bug:" is no part of the  *)
(* model: it is the next definition with a mistake in it, kept to show     *)
(* that some property notices.                                             *)
(***************************************************************************)
EXTENDS Gcra, Sequences

CONSTANTS
  Calls,      \* goroutines that call Throttle, again and again
  Keys,       \* keys; their order as numbers is the order of sort.Strings
  NumStripes, StripeOf,   \* stripeFor: the hash of a key modulo the stripes
  Buckets,    \* the heap's bucketState objects
  Requests,   \* the entry slices a call may carry
  GCInterval, \* clock units between two ticks of gcLoop's ticker
  MaxClock,   \* bound on the clock, so that the state space is finite
  MaxCallTime,   \* a call returns within this many clock units of its start
  MaxGCDelay,    \* gcLoop has rotated every stripe this soon after a tick
  NoBucket, NoCall, NoVerdict

Limit   == [capacity : Int, units : Int, period : Int]
Entry   == [key : Keys, limit : Limit, cost : Int, peek : BOOLEAN]
Verdict == [throttled : BOOLEAN, remaining : Nat, retryAfter : Nat, tat : Nat]
Time    == 1..MaxClock
Stripes == 1..NumStripes

ASSUME ThrottlerAssumption ==
  /\ Keys \subseteq Nat
  /\ NumStripes \in Nat \ {0} /\ StripeOf \in [Keys -> Stripes]
  /\ Requests \subseteq Seq(Entry)
  /\ GCInterval \in Nat \ {0} /\ MaxClock \in 1..MaxInt64
  /\ MaxCallTime \in Nat /\ MaxGCDelay \in 0..(GCInterval - 1)
  /\ NoBucket \notin Buckets /\ NoCall \notin Calls /\ NoVerdict \notin Verdict

VARIABLES
  clock,          \* time.Now(), from 1: a TAT of 0 means "never seen"
  hot, cold,      \* stripe.hot, stripe.cold: [Keys -> bucket or NoBucket]
  tat, owner,     \* bucketState.tat, bucketState.mu
  gcDue, gcAt,    \* a tick waits in gcTicker.C; the stripe gcLoop is at (0: none)
  pc, entries, now, todo,    \* where a call is, its arguments, the indices left
  held,           \* the buckets a call got, by key: its buckets map
  work, admitAll, \* workingTAT and admitAll of evaluateRealGroup
  result,         \* the verdicts a call has so far, by index
  charge, spent,  \* history: cost a call would commit, cost committed per window
  age             \* history: rotations of its stripe since a key's last touch

storeVars == <<hot, cold, age>>
gcVars    == <<gcDue, gcAt>>
evalVars  == <<work, admitAll, charge>>
callVars  == <<pc, entries, now, todo, held, result, work, admitAll, charge>>
vars      == <<clock, hot, cold, tat, owner, gcDue, gcAt, callVars, spent, age>>

Windows == {w \in Time \X Time : w[1] <= w[2]}

Peeks(es) == {i \in DOMAIN es : es[i].peek}
Real(es)  == {i \in DOMAIN es : ~es[i].peek}

IsFirst(i, S) == i \in S /\ \A j \in S : i <= j

Touched(c) == {k \in Keys : held[c][k] # NoBucket}

\* Bug: a mutex somebody else holds counts as taken by this call.
LockedByAnyone(c) == {k \in Touched(c) : owner[held[c][k]] # NoCall}

Locked(c) == {k \in Touched(c) : owner[held[c][k]] = c}

\* A bucket some map or some call still points to.
InUse(b) ==
  \E k \in Keys : \/ hot[k] = b \/ cold[k] = b
                  \/ \E c \in Calls : held[c][k] = b

-----------------------------------------------------------------------------
(* store.go *)

\* getOrCreate(k) returns b: from hot, promoted from cold, or freshly made.
FromHot(k, b) ==
  /\ hot[k] = b
  /\ UNCHANGED <<hot, cold, tat>>

\* Bug: the promoted bucket is not deleted from cold.
PromoteKeepsCold(k, b) ==
  /\ hot[k] = NoBucket /\ cold[k] = b
  /\ hot' = [hot EXCEPT ![k] = b]
  /\ UNCHANGED <<cold, tat>>

\* Bug: it is deleted from cold and not stored in hot.
PromoteForgetsHot(k, b) ==
  /\ hot[k] = NoBucket /\ cold[k] = b
  /\ cold' = [cold EXCEPT ![k] = NoBucket]
  /\ UNCHANGED <<hot, tat>>

Promote(k, b) ==
  /\ hot[k] = NoBucket /\ cold[k] = b
  /\ hot' = [hot EXCEPT ![k] = b]
  /\ cold' = [cold EXCEPT ![k] = NoBucket]
  /\ UNCHANGED tat

\* Bug: a key absent from hot is taken for a new one.
CreateIgnoresCold(k, b) ==
  /\ hot[k] = NoBucket /\ ~InUse(b)
  /\ hot' = [hot EXCEPT ![k] = b]
  /\ tat' = [tat EXCEPT ![b] = 0]
  /\ UNCHANGED cold

Create(k, b) ==
  /\ hot[k] = NoBucket /\ cold[k] = NoBucket /\ ~InUse(b)
  /\ hot' = [hot EXCEPT ![k] = b]
  /\ tat' = [tat EXCEPT ![b] = 0]
  /\ UNCHANGED cold

getOrCreate(k, b) ==
  /\ FromHot(k, b) \/ Promote(k, b) \/ Create(k, b)
  /\ age' = [age EXCEPT ![k] = 0]

\* gcLoop takes the tick that waits for it and starts over the stripes.
GCWake ==
  /\ gcDue /\ gcAt = 0
  /\ gcDue' = FALSE /\ gcAt' = 1
  /\ UNCHANGED <<clock, storeVars, tat, owner, callVars, spent>>

\* Bug: one stripe too many.
NextStripeOffByOne == IF gcAt > NumStripes THEN 0 ELSE gcAt + 1

\* Where gcLoop's range over the stripes goes next.
NextStripe == IF gcAt = NumStripes THEN 0 ELSE gcAt + 1

\* rotate on one stripe: hot becomes cold, what was cold is dropped.
Rotate ==
  /\ gcAt # 0
  /\ LET mine(k) == StripeOf[k] = gcAt
     IN  /\ cold' = [k \in Keys |-> IF mine(k) THEN hot[k] ELSE cold[k]]
         /\ hot'  = [k \in Keys |-> IF mine(k) THEN NoBucket ELSE hot[k]]
         /\ age'  = [k \in Keys |-> IF mine(k) /\ age[k] < 2 THEN age[k] + 1 ELSE age[k]]
  /\ gcAt' = NextStripe
  /\ UNCHANGED <<clock, gcDue, tat, owner, callVars, spent>>

-----------------------------------------------------------------------------
(* throttling.go: InMemoryThrottler.Throttle *)

Start(c, r) ==
  /\ pc[c] = "idle"
  /\ pc' = [pc EXCEPT ![c] = "scan"]
  /\ entries' = [entries EXCEPT ![c] = r]
  /\ now' = [now EXCEPT ![c] = clock]
  /\ todo' = [todo EXCEPT ![c] = Peeks(r)]
  /\ result' = [result EXCEPT ![c] = [i \in DOMAIN r |-> NoVerdict]]
  /\ UNCHANGED <<clock, storeVars, tat, owner, gcVars, held, evalVars, spent>>

\* A peek entry gets its bucket ...
PeekTouch(c, i, b) ==
  /\ pc[c] = "scan" /\ IsFirst(i, todo[c])
  /\ getOrCreate(entries[c][i].key, b)
  /\ held' = [held EXCEPT ![c][entries[c][i].key] = b]
  /\ pc' = [pc EXCEPT ![c] = "peek"]
  /\ UNCHANGED <<clock, owner, gcVars, entries, now, todo, result, evalVars, spent>>

\* ... and reads it under the bucket's mutex, keeping nothing.
PeekCheck(c, i) ==
  LET e == entries[c][i]
      b == held[c][e.key]
  IN  /\ pc[c] = "peek" /\ IsFirst(i, todo[c])
      /\ owner[b] = NoCall
      /\ result' = [result EXCEPT ![c][i] = CheckEntry(tat[b], now[c], e)]
      /\ held' = [held EXCEPT ![c][e.key] = NoBucket]
      /\ todo' = [todo EXCEPT ![c] = @ \ {i}]
      /\ pc' = [pc EXCEPT ![c] = "scan"]
      /\ UNCHANGED <<clock, storeVars, tat, owner, gcVars, entries, now, evalVars, spent>>

\* The peeks are done: enter evaluateRealGroup (a call with no real entry
\* has nothing to do there).
EnterGroup(c) ==
  /\ pc[c] = "scan" /\ todo[c] = {}
  /\ todo' = [todo EXCEPT ![c] = Real(entries[c])]
  /\ pc' = [pc EXCEPT ![c] = IF Real(entries[c]) = {} THEN "unlock" ELSE "touch"]
  /\ UNCHANGED <<clock, storeVars, tat, owner, gcVars, entries, now, held, result, evalVars, spent>>

\* One turn of the loop that fills the buckets map.
Touch(c, i, b) ==
  /\ pc[c] = "touch" /\ IsFirst(i, todo[c])
  /\ held[c][entries[c][i].key] = NoBucket
  /\ getOrCreate(entries[c][i].key, b)
  /\ held' = [held EXCEPT ![c][entries[c][i].key] = b]
  /\ todo' = [todo EXCEPT ![c] = @ \ {i}]
  /\ UNCHANGED <<clock, owner, gcVars, pc, entries, now, result, evalVars, spent>>

TouchAgain(c, i) ==
  /\ pc[c] = "touch" /\ IsFirst(i, todo[c])
  /\ held[c][entries[c][i].key] # NoBucket
  /\ todo' = [todo EXCEPT ![c] = @ \ {i}]
  /\ UNCHANGED <<clock, storeVars, tat, owner, gcVars, pc, entries, now, held, result, evalVars, spent>>

\* Bug: no sort; the keys in any order, and a call that finds a mutex taken
\* gives back what it has and tries again.
LockOrBackOff(c, k) ==
  /\ pc[c] = "touch" /\ todo[c] = {}
  /\ k \in Touched(c) \ Locked(c)
  /\ owner' = IF owner[held[c][k]] = NoCall
              THEN [owner EXCEPT ![held[c][k]] = c]
              ELSE [b \in Buckets |-> IF owner[b] = c THEN NoCall ELSE owner[b]]
  /\ UNCHANGED <<clock, storeVars, tat, gcVars, callVars, spent>>

\* The mutexes of the touched buckets, one by one in the order of the keys.
Lock(c, k) ==
  /\ pc[c] = "touch" /\ todo[c] = {}
  /\ IsFirst(k, Touched(c) \ Locked(c))
  /\ owner[held[c][k]] = NoCall
  /\ owner' = [owner EXCEPT ![held[c][k]] = c]
  /\ UNCHANGED <<clock, storeVars, tat, gcVars, callVars, spent>>

\* Every mutex is held: seed the working copy.
BeginCheck(c) ==
  /\ pc[c] = "touch" /\ todo[c] = {} /\ Locked(c) = Touched(c)
  /\ pc' = [pc EXCEPT ![c] = "check"]
  /\ todo' = [todo EXCEPT ![c] = Real(entries[c])]
  /\ work' = [work EXCEPT ![c] =
                [k \in Keys |-> IF k \in Touched(c) THEN tat[held[c][k]] ELSE 0]]
  /\ admitAll' = [admitAll EXCEPT ![c] = TRUE]
  /\ UNCHANGED <<clock, storeVars, tat, owner, gcVars, entries, now, held, result, charge, spent>>

\* Bug: only the last entry decides whether the group is applied.
CheckForgetsRefusal(c, i) ==
  LET e == entries[c][i]
      v == CheckEntry(work[c][e.key], now[c], e)
  IN  /\ pc[c] = "check" /\ IsFirst(i, todo[c])
      /\ result' = [result EXCEPT ![c][i] = v]
      /\ admitAll' = [admitAll EXCEPT ![c] = ~v.throttled]
      /\ work' = [work EXCEPT ![c][e.key] = v.tat]
      /\ todo' = [todo EXCEPT ![c] = @ \ {i}]
      /\ UNCHANGED <<clock, storeVars, tat, owner, gcVars, pc, entries, now, held, charge, spent>>

\* One real entry, against the working copy.
Check(c, i) ==
  LET e == entries[c][i]
      v == CheckEntry(work[c][e.key], now[c], e)
  IN  /\ pc[c] = "check" /\ IsFirst(i, todo[c])
      /\ result' = [result EXCEPT ![c][i] = v]
      /\ admitAll' = [admitAll EXCEPT ![c] = @ /\ ~v.throttled]
      /\ work' = [work EXCEPT ![c][e.key] = v.tat]
      /\ charge' = IF v.throttled THEN charge
                   ELSE [charge EXCEPT ![c][e.key] = @ + EffectiveCost(e.cost)]
      /\ todo' = [todo EXCEPT ![c] = @ \ {i}]
      /\ UNCHANGED <<clock, storeVars, tat, owner, gcVars, pc, entries, now, held, spent>>

\* Write every bucket back, or none.
Commit(c) ==
  LET mine(b) == {k \in Touched(c) : held[c][k] = b}
      added(k, w) == IF w[1] <= now[c] /\ now[c] <= w[2] THEN charge[c][k] ELSE 0
  IN  /\ pc[c] = "check" /\ todo[c] = {}
      /\ IF admitAll[c]
         THEN /\ tat' = [b \in Buckets |-> IF mine(b) = {} THEN tat[b]
                                           ELSE work[c][CHOOSE k \in mine(b) : TRUE]]
              /\ spent' = [k \in Keys |-> [w \in Windows |-> spent[k][w] + added(k, w)]]
         ELSE UNCHANGED <<tat, spent>>
      /\ pc' = [pc EXCEPT ![c] = "unlock"]
      /\ UNCHANGED <<clock, storeVars, owner, gcVars, entries, now, todo, held, result, evalVars>>

\* The deferred unlocks, in the same order.
Unlock(c, k) ==
  /\ pc[c] = "unlock" /\ IsFirst(k, Locked(c))
  /\ owner' = [owner EXCEPT ![held[c][k]] = NoCall]
  /\ UNCHANGED <<clock, storeVars, tat, gcVars, callVars, spent>>

\* The call's local state.
IdleCall(c) ==
  /\ pc' = [pc EXCEPT ![c] = "idle"]
  /\ entries' = [entries EXCEPT ![c] = <<>>]
  /\ now' = [now EXCEPT ![c] = 0]
  /\ todo' = [todo EXCEPT ![c] = {}]
  /\ held' = [held EXCEPT ![c] = [k \in Keys |-> NoBucket]]
  /\ result' = [result EXCEPT ![c] = <<>>]
  /\ work' = [work EXCEPT ![c] = [k \in Keys |-> 0]]
  /\ admitAll' = [admitAll EXCEPT ![c] = FALSE]
  /\ charge' = [charge EXCEPT ![c] = [k \in Keys |-> 0]]

Return(c) ==
  /\ pc[c] = "unlock" /\ Locked(c) = {}
  /\ IdleCall(c)
  /\ UNCHANGED <<clock, storeVars, tat, owner, gcVars, spent>>

-----------------------------------------------------------------------------
\* The scheduler's promises: time waits for a gcLoop that is about to be
\* MaxGCDelay late, and for a call about to last longer than MaxCallTime.
MayTick ==
  /\ gcDue \/ gcAt # 0 => (clock + 1) % GCInterval \in 1..MaxGCDelay
  /\ \A c \in Calls : pc[c] # "idle" => clock + 1 - now[c] <= MaxCallTime

\* Time passes; the ticker's channel holds one tick and drops the others.
Tick ==
  /\ clock < MaxClock /\ MayTick
  /\ clock' = clock + 1
  /\ gcDue' = (gcDue \/ (clock + 1) % GCInterval = 0)
  /\ UNCHANGED <<storeVars, tat, owner, gcAt, callVars, spent>>

Init ==
  /\ clock = 1
  /\ hot = [k \in Keys |-> NoBucket] /\ cold = [k \in Keys |-> NoBucket]
  /\ tat = [b \in Buckets |-> 0] /\ owner = [b \in Buckets |-> NoCall]
  /\ gcDue = FALSE /\ gcAt = 0
  /\ pc = [c \in Calls |-> "idle"] /\ entries = [c \in Calls |-> <<>>]
  /\ now = [c \in Calls |-> 0] /\ todo = [c \in Calls |-> {}]
  /\ held = [c \in Calls |-> [k \in Keys |-> NoBucket]]
  /\ result = [c \in Calls |-> <<>>]
  /\ work = [c \in Calls |-> [k \in Keys |-> 0]]
  /\ admitAll = [c \in Calls |-> FALSE]
  /\ charge = [c \in Calls |-> [k \in Keys |-> 0]]
  /\ spent = [k \in Keys |-> [w \in Windows |-> 0]]
  /\ age = [k \in Keys |-> 2]

\* The steps of a call after Start.
CallStep(c) ==
  \/ EnterGroup(c) \/ BeginCheck(c) \/ Commit(c) \/ Return(c)
  \/ \E i \in todo[c] :
       \/ PeekCheck(c, i) \/ TouchAgain(c, i) \/ Check(c, i)
       \/ \E b \in Buckets : PeekTouch(c, i, b) \/ Touch(c, i, b)
  \/ \E k \in Keys : Lock(c, k) \/ Unlock(c, k)

Next ==
  \/ Tick \/ GCWake \/ Rotate
  \/ \E c \in Calls : CallStep(c) \/ \E r \in Requests : Start(c, r)

Spec == Init /\ [][Next]_vars

\* gcLoop and every call keep running; sync.Mutex hands itself to a waiter
\* that has waited long enough, so a call that keeps finding a mutex free
\* eventually takes it.
FairSpec ==
  /\ Spec /\ WF_vars(GCWake) /\ WF_vars(Rotate)
  /\ \A c \in Calls : SF_vars(CallStep(c))

-----------------------------------------------------------------------------
TypeOK ==
  /\ clock \in Time
  /\ hot \in [Keys -> Buckets \cup {NoBucket}]
  /\ cold \in [Keys -> Buckets \cup {NoBucket}]
  /\ tat \in [Buckets -> Nat] /\ owner \in [Buckets -> Calls \cup {NoCall}]
  /\ gcDue \in BOOLEAN /\ gcAt \in 0..NumStripes
  /\ pc \in [Calls -> {"idle", "scan", "peek", "touch", "check", "unlock"}]
  /\ entries \in [Calls -> Requests \cup {<<>>}]
  /\ now \in [Calls -> 0..MaxClock]
  /\ \A c \in Calls : todo[c] \subseteq DOMAIN entries[c]
  /\ todo \in [Calls -> SUBSET Nat]
  /\ held \in [Calls -> [Keys -> Buckets \cup {NoBucket}]]
  /\ work \in [Calls -> [Keys -> Nat]] /\ admitAll \in [Calls -> BOOLEAN]
  /\ charge \in [Calls -> [Keys -> Nat]]
  /\ spent \in [Keys -> [Windows -> Nat]]
  /\ age \in [Keys -> 0..2]

\* While evaluateRealGroup works on its private copy, it owns the mutex of
\* every bucket it touched and no other call has written one of them: a key
\* it has admitted nothing for yet still has the TAT it was seeded with.
WorkingCopyIsCurrent ==
  \A c \in Calls : pc[c] = "check" =>
    \A k \in Touched(c) :
      /\ owner[held[c][k]] = c
      /\ charge[c][k] = 0 => work[c][k] = tat[held[c][k]]

\* No two calls evaluate the same key at the same time, so neither can write
\* between the other's check and its commit.
ExclusiveEvaluation ==
  \A c, d \in Calls :
    (c # d /\ pc[c] = "check" /\ pc[d] = "check") => Touched(c) \cap Touched(d) = {}

\* A bucket a call is about to lock, read or write is the one the store would
\* hand out for that key now: all calls on a key share one mutex and one TAT.
OneBucketPerKey ==
  \A c \in Calls : \A k \in Touched(c) : held[c][k] \in {hot[k], cold[k]}

\* A key is in hot if it was touched since the last rotation of its stripe,
\* only in cold if one rotation passed since, and gone after two: a key
\* touched in every interval is never dropped, an idle one never stays.
KeyLifetime ==
  \A k \in Keys :
    /\ (hot[k] # NoBucket) <=> (age[k] = 0)
    /\ (cold[k] # NoBucket) <=> (age[k] = 1)

\* The limit of every real request for k, where they all agree.
UniformLimit(k, l) ==
  \A r \in Requests : \A i \in Real(r) : r[i].key = k => r[i].limit = l

\* A full bucket drains before the store may drop it: its burst is shorter
\* than what a GC interval leaves after a late gcLoop and a slow call.
DrainsBeforeDrop(l) ==
  l.capacity * l.period
    <= (GCInterval - MaxGCDelay - MaxCallTime) * EffectiveUnits(l.units)

\* The rate limit holds whatever the interleaving, the age of a call's now or
\* the rotations of the store: the cost admitted for a key at instants in any
\* window, if there is any, is at most its capacity plus what drains in the
\* window.
RateConformance ==
  \A k \in Keys : \A r \in Requests : \A i \in Real(r) :
    LET l == r[i].limit
    IN  (r[i].key = k /\ UniformLimit(k, l) /\ DrainsBeforeDrop(l)) =>
          \A w \in Windows :
            \/ spent[k][w] = 0
            \/ spent[k][w] * l.period
                 <= l.capacity * l.period + (w[2] - w[1]) * EffectiveUnits(l.units)

\* Every call returns: no set of calls waits for each other's mutexes.
CallsReturn == \A c \in Calls : (pc[c] # "idle") ~> (pc[c] = "idle")
=============================================================================
