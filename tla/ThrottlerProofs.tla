--------------------------- MODULE ThrottlerProofs ---------------------------
(***************************************************************************)
(* For any number of calls, keys, stripes and buckets, any requests and    *)
(* any timing that the scheduler's promises allow: the throttler keeps its *)
(* types, evaluateRealGroup works on a copy that no other call can make    *)
(* stale, and the rate limit holds.                                        *)
(*                                                                         *)
(* The rate limit has four layers, each an inductive invariant over the    *)
(* ones before it: which generation a key is in (StoreInv), when gcLoop    *)
(* and the calls run (TimingInv), that no call outlives the bucket it got  *)
(* (HeldInv), and what a key's TAT says about the cost committed for it    *)
(* (RateInv).                                                              *)
(***************************************************************************)
EXTENDS Throttler, GcraProofs

\* A refused entry leaves the TAT it was checked against, an admitted one
\* another instant; the cost it charges is positive.
LEMMA EntryCheck ==
  ASSUME NEW t \in Nat, NEW n \in Nat, NEW e \in Entry
  PROVE  /\ CheckEntry(t, n, e).tat \in Nat
         /\ CheckEntry(t, n, e).throttled => CheckEntry(t, n, e).tat = t
         /\ EffectiveCost(e.cost) \in Nat \ {0}
  <1> DEFINE cap == e.limit.capacity
             un  == EffectiveUnits(e.limit.units)
             per == e.limit.period
             co  == EffectiveCost(e.cost)
             v   == gcraCheck(t, n, cap, un, per, co)
  <1>1. cap \in Int /\ un \in Int /\ per \in Int /\ co \in Nat \ {0}
    BY DEF Entry, Limit, EffectiveUnits, EffectiveCost
  <1>2. CheckEntry(t, n, e) = v
    BY DEF CheckEntry
  <1> HIDE DEF cap, un, per, co
  <1>3. v.throttled => v.tat = t
    BY RefusedKeepsTat
  <1>4. ASSUME ~v.throttled PROVE v.tat \in Nat
    <2>1. co \in Int
      BY <1>1
    <2> QED BY <1>1, <1>4, <2>1, AdmittedMovesTat
  <1> QED BY <1>1, <1>2, <1>3, <1>4 DEF co

\* What a call carries is a request, or nothing when it is idle.
LEMMA EntriesType ==
  ASSUME TypeOK, NEW c \in Calls
  PROVE  entries[c] \in Seq(Entry)
  <1>1. entries[c] \in Requests \cup {<<>>}
    BY DEF TypeOK
  <1>2. <<>> \in Seq(Entry) /\ Requests \subseteq Seq(Entry)
    BY ThrottlerAssumption
  <1> QED BY <1>1, <1>2

\* What a call may read of its entries.
LEMMA EntryType ==
  ASSUME TypeOK, NEW c \in Calls, NEW i \in todo[c]
  PROVE  /\ entries[c] \in Seq(Entry) /\ i \in DOMAIN entries[c]
         /\ entries[c][i] \in Entry /\ entries[c][i].key \in Keys
  <1>1. entries[c] \in Seq(Entry)
    BY EntriesType
  <1>2. i \in DOMAIN entries[c]
    BY DEF TypeOK
  <1>3. entries[c][i] \in Entry
    BY <1>1, <1>2
  <1> QED BY <1>1, <1>2, <1>3 DEF Entry

\* The indices of a request, split by mode, are indices.
LEMMA IndexSets ==
  ASSUME NEW es
  PROVE  Peeks(es) \subseteq DOMAIN es /\ Real(es) \subseteq DOMAIN es
  BY DEF Peeks, Real

\* getOrCreate keeps the store well-typed, whichever way it finds the bucket.
LEMMA GetOrCreateType ==
  ASSUME TypeOK, NEW k \in Keys, NEW b \in Buckets, getOrCreate(k, b)
  PROVE  /\ hot' \in [Keys -> Buckets \cup {NoBucket}]
         /\ cold' \in [Keys -> Buckets \cup {NoBucket}]
         /\ tat' \in [Buckets -> Nat]
         /\ age' \in [Keys -> 0..2]
  <1>1. age' \in [Keys -> 0..2]
    BY DEF getOrCreate, TypeOK
  <1>2. CASE FromHot(k, b)
    BY <1>1, <1>2 DEF FromHot, TypeOK
  <1>3. CASE Promote(k, b)
    BY <1>1, <1>3 DEF Promote, TypeOK
  <1>4. CASE Create(k, b)
    BY <1>1, <1>4 DEF Create, TypeOK
  <1> QED BY <1>2, <1>3, <1>4 DEF getOrCreate

-----------------------------------------------------------------------------
\* A fresh store is well typed.
LEMMA TypeOKInit == Init => TypeOK
  <1> SUFFICES ASSUME Init PROVE TypeOK
    OBVIOUS
  <1>1. clock \in Time
    BY ThrottlerAssumption, WidthAssumption DEF Init, Time
  <1>2. gcAt \in 0..NumStripes
    BY ThrottlerAssumption DEF Init
  <1>3. now \in [Calls -> 0..MaxClock]
    BY ThrottlerAssumption, WidthAssumption DEF Init
  <1>4. entries \in [Calls -> Requests \cup {<<>>}]
    BY DEF Init
  <1>5. /\ \A c \in Calls : todo[c] \subseteq DOMAIN entries[c]
        /\ todo \in [Calls -> SUBSET Nat]
    BY DEF Init
  <1>6. /\ hot \in [Keys -> Buckets \cup {NoBucket}]
        /\ cold \in [Keys -> Buckets \cup {NoBucket}]
        /\ owner \in [Buckets -> Calls \cup {NoCall}]
        /\ held \in [Calls -> [Keys -> Buckets \cup {NoBucket}]]
    BY DEF Init
  <1>7. /\ tat \in [Buckets -> Nat]
        /\ work \in [Calls -> [Keys -> Nat]] /\ admitAll \in [Calls -> BOOLEAN]
        /\ charge \in [Calls -> [Keys -> Nat]]
        /\ spent \in [Keys -> [Windows -> Nat]]
        /\ age \in [Keys -> 0..2]
    BY DEF Init
  <1>8. pc \in [Calls -> {"idle", "scan", "peek", "touch", "check", "unlock"}]
    BY DEF Init
  <1>9. gcDue \in BOOLEAN
    BY DEF Init
  <1> QED BY <1>1, <1>2, <1>3, <1>4, <1>5, <1>6, <1>7, <1>8, <1>9 DEF TypeOK

\* Every step of a call, of gcLoop and of the clock keeps the types.
LEMMA TypeOKStep == TypeOK /\ [Next]_vars => TypeOK'
  <1> SUFFICES ASSUME TypeOK, [Next]_vars PROVE TypeOK'
    OBVIOUS
  <1> USE DEF storeVars, gcVars, evalVars, callVars
  <1>1. CASE Tick
    <2>1. clock' \in Time
      BY <1>1, ThrottlerAssumption, WidthAssumption DEF Tick, TypeOK, Time
    <2> QED BY <1>1, <2>1 DEF Tick, TypeOK
  <1>2. CASE GCWake
    <2>1. gcAt' \in 0..NumStripes
      BY <1>2, ThrottlerAssumption DEF GCWake
    <2> QED BY <1>2, <2>1 DEF GCWake, TypeOK
  <1>3. CASE Rotate
    <2>1. gcAt' \in 0..NumStripes
      BY <1>3, ThrottlerAssumption DEF Rotate, NextStripe, TypeOK
    <2>2. age' \in [Keys -> 0..2]
      BY <1>3 DEF Rotate, NextStripe, TypeOK
    <2>3. /\ hot' \in [Keys -> Buckets \cup {NoBucket}]
          /\ cold' \in [Keys -> Buckets \cup {NoBucket}]
      BY <1>3 DEF Rotate, NextStripe, TypeOK
    <2> QED BY <1>3, <2>1, <2>2, <2>3 DEF Rotate, NextStripe, TypeOK
  <1>4. ASSUME NEW c \in Calls, NEW r \in Requests, Start(c, r) PROVE TypeOK'
    <2>1. now' \in [Calls -> 0..MaxClock]
      BY <1>4, ThrottlerAssumption, WidthAssumption DEF Start, TypeOK, Time
    <2>2. Peeks(r) \subseteq DOMAIN r /\ Peeks(r) \subseteq Nat
      <3>1. r \in Seq(Entry)
        BY ThrottlerAssumption
      <3> QED BY <3>1, IndexSets
    <2>3. /\ entries' \in [Calls -> Requests \cup {<<>>}]
          /\ todo' \in [Calls -> SUBSET Nat]
          /\ \A d \in Calls : todo'[d] \subseteq DOMAIN entries'[d]
      BY <1>4, <2>2 DEF Start, TypeOK
    <2> QED BY <1>4, <2>1, <2>3 DEF Start, TypeOK
  <1>5. ASSUME NEW c \in Calls, NEW i \in todo[c], NEW b \in Buckets, PeekTouch(c, i, b)
        PROVE  TypeOK'
    <2>1. entries[c][i].key \in Keys
      BY EntryType
    <2>2. /\ hot' \in [Keys -> Buckets \cup {NoBucket}]
          /\ cold' \in [Keys -> Buckets \cup {NoBucket}]
          /\ tat' \in [Buckets -> Nat] /\ age' \in [Keys -> 0..2]
      BY <1>5, <2>1, GetOrCreateType DEF PeekTouch
    <2> QED BY <1>5, <2>1, <2>2 DEF PeekTouch, TypeOK
  <1>6. ASSUME NEW c \in Calls, NEW i \in todo[c], PeekCheck(c, i) PROVE TypeOK'
    <2>1. entries[c][i].key \in Keys
      BY EntryType
    <2>2. todo' \in [Calls -> SUBSET Nat] /\ entries' = entries
          /\ \A d \in Calls : todo'[d] \subseteq DOMAIN entries[d]
      BY <1>6 DEF PeekCheck, TypeOK
    <2> QED BY <1>6, <2>1, <2>2 DEF PeekCheck, TypeOK
  <1>7. ASSUME NEW c \in Calls, EnterGroup(c) PROVE TypeOK'
    <2>1. Real(entries[c]) \subseteq DOMAIN entries[c] /\ Real(entries[c]) \subseteq Nat
      <3>1. entries[c] \in Seq(Entry)
        BY EntriesType
      <3> QED BY <3>1, IndexSets
    <2> QED BY <1>7, <2>1 DEF EnterGroup, TypeOK
  <1>8. ASSUME NEW c \in Calls, NEW i \in todo[c], NEW b \in Buckets, Touch(c, i, b)
        PROVE  TypeOK'
    <2>1. entries[c][i].key \in Keys
      BY EntryType
    <2>2. /\ hot' \in [Keys -> Buckets \cup {NoBucket}]
          /\ cold' \in [Keys -> Buckets \cup {NoBucket}]
          /\ tat' \in [Buckets -> Nat] /\ age' \in [Keys -> 0..2]
      BY <1>8, <2>1, GetOrCreateType DEF Touch
    <2> QED BY <1>8, <2>1, <2>2 DEF Touch, TypeOK
  <1>9. ASSUME NEW c \in Calls, NEW i \in todo[c], TouchAgain(c, i) PROVE TypeOK'
    BY <1>9 DEF TouchAgain, TypeOK
  <1>10. ASSUME NEW c \in Calls, NEW k \in Keys, Lock(c, k) PROVE TypeOK'
    BY <1>10 DEF Lock, TypeOK
  <1>11. ASSUME NEW c \in Calls, BeginCheck(c) PROVE TypeOK'
    <2>1. Real(entries[c]) \subseteq DOMAIN entries[c] /\ Real(entries[c]) \subseteq Nat
      <3>1. entries[c] \in Seq(Entry)
        BY EntriesType
      <3> QED BY <3>1, IndexSets
    <2>2. work' \in [Calls -> [Keys -> Nat]]
      BY <1>11 DEF BeginCheck, Touched, TypeOK
    <2> QED BY <1>11, <2>1, <2>2 DEF BeginCheck, TypeOK
  <1>12. ASSUME NEW c \in Calls, NEW i \in todo[c], Check(c, i) PROVE TypeOK'
    <2> DEFINE e == entries[c][i]
               v == CheckEntry(work[c][e.key], now[c], e)
    <2>1. e \in Entry /\ e.key \in Keys
      BY EntryType
    <2>2. work[c][e.key] \in Nat /\ now[c] \in Nat
      BY <2>1 DEF TypeOK
    <2>3. v.tat \in Nat /\ EffectiveCost(e.cost) \in Nat
      BY <2>1, <2>2, EntryCheck
    <2>4. work' \in [Calls -> [Keys -> Nat]]
      BY <1>12, <2>1, <2>3 DEF Check, TypeOK
    <2>5. charge' \in [Calls -> [Keys -> Nat]]
      BY <1>12, <2>1, <2>3 DEF Check, TypeOK
    <2>6. admitAll' \in [Calls -> BOOLEAN]
      BY <1>12 DEF Check, TypeOK
    <2>7. /\ todo' \in [Calls -> SUBSET Nat] /\ entries' = entries
          /\ \A d \in Calls : todo'[d] \subseteq DOMAIN entries[d]
      BY <1>12 DEF Check, TypeOK
    <2> QED BY <1>12, <2>4, <2>5, <2>6, <2>7 DEF Check, TypeOK
  <1>13. ASSUME NEW c \in Calls, Commit(c) PROVE TypeOK'
    <2> DEFINE mine(b) == {k \in Touched(c) : held[c][k] = b}
    <2>1. tat' \in [Buckets -> Nat]
      <3>1. CASE admitAll[c]
        <4>1. ASSUME NEW b \in Buckets, mine(b) # {}
              PROVE  work[c][CHOOSE k \in mine(b) : TRUE] \in Nat
          <5>1. (CHOOSE k \in mine(b) : TRUE) \in Keys
            BY <4>1 DEF Touched
          <5> QED BY <5>1 DEF TypeOK
        <4>2. tat' = [b \in Buckets |-> IF mine(b) = {} THEN tat[b]
                                         ELSE work[c][CHOOSE k \in mine(b) : TRUE]]
          BY <1>13, <3>1 DEF Commit
        <4> HIDE DEF mine
        <4> QED BY <4>1, <4>2 DEF TypeOK
      <3>2. CASE ~admitAll[c]
        BY <1>13, <3>2 DEF Commit, TypeOK
      <3> QED BY <3>1, <3>2
    <2>2. spent' \in [Keys -> [Windows -> Nat]]
      <3> DEFINE added(k, w) ==
                   IF w[1] <= now[c] /\ now[c] <= w[2] THEN charge[c][k] ELSE 0
      <3>1. \A k \in Keys, w \in Windows : spent[k][w] + added(k, w) \in Nat
        BY DEF TypeOK
      <3>2. CASE admitAll[c]
        <4>1. spent' = [k \in Keys |-> [w \in Windows |-> spent[k][w] + added(k, w)]]
          BY <1>13, <3>2 DEF Commit
        <4> HIDE DEF added
        <4> QED BY <3>1, <4>1
      <3>3. CASE ~admitAll[c]
        BY <1>13, <3>3 DEF Commit, TypeOK
      <3> QED BY <3>2, <3>3
    <2> QED BY <1>13, <2>1, <2>2 DEF Commit, TypeOK
  <1>14. ASSUME NEW c \in Calls, NEW k \in Keys, Unlock(c, k) PROVE TypeOK'
    BY <1>14 DEF Unlock, TypeOK
  <1>15. ASSUME NEW c \in Calls, Return(c) PROVE TypeOK'
    BY <1>15, ThrottlerAssumption, WidthAssumption DEF Return, IdleCall, TypeOK
  <1>16. CASE UNCHANGED vars
    BY <1>16 DEF vars, TypeOK
  <1> QED BY <1>1, <1>2, <1>3, <1>4, <1>5, <1>6, <1>7, <1>8, <1>9, <1>10, <1>11,
             <1>12, <1>13, <1>14, <1>15, <1>16 DEF Next, CallStep

\* Every variable of the throttler keeps its type for all constants: among
\* others a TAT never goes negative, whatever limits and costs are asked for.
THEOREM TypeCorrect == Spec => []TypeOK
  BY TypeOKInit, TypeOKStep, PTL DEF Spec

-----------------------------------------------------------------------------
(* The lock discipline.  A bucket's TAT changes only when its owner commits *)
(* or when a bucket nobody points to is handed out afresh.                   *)

\* The part of WorkingCopyIsCurrent about one call.
CopyOK(c) ==
  pc[c] = "check" =>
    \A k \in Touched(c) :
      /\ owner[held[c][k]] = c
      /\ charge[c][k] = 0 => work[c][k] = tat[held[c][k]]

\* A step that leaves a call's locals alone and the mutexes and TATs of the
\* buckets it owns leaves its copy current.
LEMMA CopyFrame ==
  ASSUME NEW c \in Calls, CopyOK(c),
         pc'[c] = pc[c], held'[c] = held[c], work'[c] = work[c], charge'[c] = charge[c],
         \A k \in Touched(c) : pc[c] = "check" =>
           /\ owner'[held[c][k]] = owner[held[c][k]]
           /\ tat'[held[c][k]] = tat[held[c][k]]
  PROVE  CopyOK(c)'
  <1>1. Touched(c)' = Touched(c)
    BY DEF Touched
  <1> QED BY <1>1 DEF CopyOK

\* What a call touched are buckets.
LEMMA TouchedType ==
  ASSUME TypeOK, NEW c \in Calls, NEW k \in Touched(c)
  PROVE  k \in Keys /\ held[c][k] \in Buckets
  BY DEF Touched, TypeOK

\* getOrCreate changes no bucket that a call holds.
LEMMA GetOrCreateFrame ==
  ASSUME TypeOK, NEW k \in Keys, NEW b \in Buckets, getOrCreate(k, b),
         NEW d \in Calls, NEW j \in Touched(d)
  PROVE  tat'[held[d][j]] = tat[held[d][j]]
  <1>0. j \in Keys /\ held[d][j] \in Buckets
    BY TouchedType
  <1>1. CASE FromHot(k, b)
    BY <1>1 DEF FromHot
  <1>2. CASE Promote(k, b)
    BY <1>2 DEF Promote
  <1>3. CASE Create(k, b)
    <2>1. held[d][j] # b
      BY <1>0, <1>3 DEF Create, InUse
    <2> QED BY <1>0, <1>3, <2>1 DEF Create, TypeOK
  <1> QED BY <1>1, <1>2, <1>3 DEF getOrCreate

\* One step, whoever takes it, leaves every call's working copy current.
LEMMA CopyStep ==
  ASSUME TypeOK, TypeOK', WorkingCopyIsCurrent, [Next]_vars, NEW d \in Calls
  PROVE  CopyOK(d)'
  <1>0. \A c \in Calls : CopyOK(c)
    BY DEF WorkingCopyIsCurrent, CopyOK
  <1>d. CopyOK(d)
    BY <1>0
  <1>n. NoCall \notin Calls
    BY ThrottlerAssumption
  <1>own. ASSUME NEW k \in Touched(d), pc[d] = "check" PROVE owner[held[d][k]] = d
    BY <1>d, <1>own DEF CopyOK
  <1> USE DEF storeVars, gcVars, evalVars, callVars
  \* Steps of the clock and of gcLoop touch neither buckets nor calls.
  <1>1. CASE Tick \/ GCWake \/ Rotate \/ UNCHANGED vars
    <2>1. UNCHANGED <<pc, held, work, charge, owner, tat>>
      BY <1>1 DEF Tick, GCWake, Rotate, vars
    <2> QED BY <1>d, <2>1, CopyFrame
  \* Steps of another call that write no bucket and take no mutex.
  <1>2. ASSUME NEW c \in Calls, c # d,
               \/ EnterGroup(c) \/ BeginCheck(c) \/ Return(c)
               \/ \E r \in Requests : Start(c, r)
               \/ \E i \in todo[c] : PeekCheck(c, i) \/ TouchAgain(c, i) \/ Check(c, i)
        PROVE  CopyOK(d)'
    <2>1. /\ UNCHANGED <<owner, tat>>
          /\ pc'[d] = pc[d] /\ held'[d] = held[d]
          /\ work'[d] = work[d] /\ charge'[d] = charge[d]
      <3>1. CASE EnterGroup(c) \/ (\E i \in todo[c] : TouchAgain(c, i))
        BY <1>2, <3>1 DEF EnterGroup, TouchAgain, TypeOK
      <3>2. CASE BeginCheck(c)
        BY <1>2, <3>2 DEF BeginCheck, TypeOK
      <3>3. CASE Return(c)
        BY <1>2, <3>3 DEF Return, IdleCall, TypeOK
      <3>4. CASE \E r \in Requests : Start(c, r)
        BY <1>2, <3>4 DEF Start, TypeOK
      <3>5. CASE \E i \in todo[c] : PeekCheck(c, i)
        <4>1. UNCHANGED <<owner, tat, work, charge>>
          BY <3>5 DEF PeekCheck
        <4>2. pc'[d] = pc[d]
          BY <1>2, <3>5 DEF PeekCheck, TypeOK
        <4>3. PICK k : held' = [held EXCEPT ![c][k] = NoBucket]
          BY <3>5 DEF PeekCheck
        <4>4. held'[d] = held[d]
          BY <1>2, <4>3 DEF TypeOK
        <4> QED BY <4>1, <4>2, <4>4
      <3>6. CASE \E i \in todo[c] : Check(c, i)
        <4> PICK i \in todo[c] : Check(c, i)
          BY <3>6
        <4> DEFINE k == entries[c][i].key
                   v == CheckEntry(work[c][k], now[c], entries[c][i])
                   n == EffectiveCost(entries[c][i].cost)
        <4>1. /\ UNCHANGED <<owner, tat, pc, held>>
              /\ work' = [work EXCEPT ![c][k] = v.tat]
              /\ charge' = IF v.throttled THEN charge ELSE [charge EXCEPT ![c][k] = @ + n]
          BY DEF Check
        <4>t. work \in [Calls -> [Keys -> Nat]] /\ charge \in [Calls -> [Keys -> Nat]]
          BY DEF TypeOK
        <4> HIDE DEF k, v, n
        <4>2. work'[d] = work[d]
          BY <1>2, <4>1, <4>t
        <4>3. charge'[d] = charge[d]
          BY <1>2, <4>1, <4>t
        <4> QED BY <4>1, <4>2, <4>3
      <3> QED BY <1>2, <3>1, <3>2, <3>3, <3>4, <3>5, <3>6
    <2> QED BY <1>d, <2>1, CopyFrame
  \* Another call gets a bucket: a fresh one is one nobody holds.
  <1>3. ASSUME NEW c \in Calls, c # d, NEW i \in todo[c], NEW b \in Buckets,
               PeekTouch(c, i, b) \/ Touch(c, i, b)
        PROVE  CopyOK(d)'
    <2>1. entries[c][i].key \in Keys
      BY EntryType
    <2>2. getOrCreate(entries[c][i].key, b)
      BY <1>3 DEF PeekTouch, Touch
    <2>3. \A k \in Touched(d) : tat'[held[d][k]] = tat[held[d][k]]
      BY <2>1, <2>2, GetOrCreateFrame
    <2>4. /\ UNCHANGED owner /\ pc'[d] = pc[d] /\ held'[d] = held[d]
          /\ work'[d] = work[d] /\ charge'[d] = charge[d]
      BY <1>3 DEF PeekTouch, Touch, TypeOK
    <2> QED BY <1>d, <2>3, <2>4, CopyFrame
  \* Another call takes a free mutex, or gives back its own.
  <1>4. ASSUME NEW c \in Calls, c # d, NEW k \in Keys, Lock(c, k) \/ Unlock(c, k)
        PROVE  CopyOK(d)'
    <2>1. UNCHANGED <<tat, pc, held, work, charge>>
      BY <1>4 DEF Lock, Unlock
    <2>2. ASSUME NEW j \in Touched(d), pc[d] = "check"
          PROVE  owner'[held[d][j]] = owner[held[d][j]]
      <3>1. owner[held[d][j]] = d /\ held[d][j] \in Buckets
        BY <1>own, <2>2, TouchedType
      <3>2. CASE Lock(c, k)
        <4>1. owner[held[c][k]] = NoCall /\ owner' = [owner EXCEPT ![held[c][k]] = c]
          BY <3>2 DEF Lock
        <4> QED BY <1>n, <3>1, <4>1 DEF TypeOK
      <3>3. CASE Unlock(c, k)
        <4>1. owner[held[c][k]] = c /\ owner' = [owner EXCEPT ![held[c][k]] = NoCall]
          BY <3>3 DEF Unlock, IsFirst, Locked
        <4> QED BY <1>4, <3>1, <4>1 DEF TypeOK
      <3> QED BY <1>4, <3>2, <3>3
    <2> QED BY <1>d, <2>1, <2>2, CopyFrame
  \* Another call commits: it owns every bucket it writes.
  <1>5. ASSUME NEW c \in Calls, c # d, Commit(c) PROVE CopyOK(d)'
    <2> DEFINE mine(b) == {k \in Touched(c) : held[c][k] = b}
    <2>1. /\ UNCHANGED <<owner, held, work, charge>> /\ pc'[d] = pc[d]
          /\ pc[c] = "check"
      BY <1>5 DEF Commit, TypeOK
    <2>2. ASSUME NEW j \in Touched(d), pc[d] = "check"
          PROVE  tat'[held[d][j]] = tat[held[d][j]]
      <3>1. owner[held[d][j]] = d /\ held[d][j] \in Buckets
        BY <1>own, <2>2, TouchedType
      <3>2. mine(held[d][j]) = {}
        <4> SUFFICES ASSUME NEW k \in Touched(c), held[c][k] = held[d][j] PROVE FALSE
          OBVIOUS
        <4>1. owner[held[c][k]] = c
          BY <1>0, <2>1 DEF CopyOK
        <4> QED BY <1>5, <3>1, <4>1
      <3>3. CASE admitAll[c]
        <4>1. tat' = [b \in Buckets |-> IF mine(b) = {} THEN tat[b]
                                         ELSE work[c][CHOOSE k \in mine(b) : TRUE]]
          BY <1>5, <3>3 DEF Commit
        <4> HIDE DEF mine
        <4> QED BY <3>1, <3>2, <4>1
      <3>4. CASE ~admitAll[c]
        BY <1>5, <3>4 DEF Commit
      <3> QED BY <3>3, <3>4
    <2> QED BY <1>d, <2>1, <2>2, CopyFrame
  \* The call's own steps: only BeginCheck enters, only Check stays in, the check.
  <1>6. CASE BeginCheck(d)
    <2>1. /\ UNCHANGED <<held, owner, tat>> /\ Locked(d) = Touched(d)
          /\ work'[d] = [k \in Keys |-> IF k \in Touched(d) THEN tat[held[d][k]] ELSE 0]
      BY <1>6 DEF BeginCheck, TypeOK
    <2>2. Touched(d)' = Touched(d)
      BY <2>1 DEF Touched
    <2>3. \A k \in Touched(d) : k \in Keys /\ owner[held[d][k]] = d
      BY <2>1 DEF Locked, Touched
    <2> QED BY <2>1, <2>2, <2>3 DEF CopyOK
  <1>7. ASSUME NEW i \in todo[d], Check(d, i) PROVE CopyOK(d)'
    <2> DEFINE e == entries[d][i]
               v == CheckEntry(work[d][e.key], now[d], e)
    <2>1. e \in Entry /\ e.key \in Keys
      BY EntryType
    <2>2. work[d][e.key] \in Nat /\ now[d] \in Nat /\ charge[d][e.key] \in Nat
      BY <2>1 DEF TypeOK
    <2>3. /\ v.throttled => v.tat = work[d][e.key]
          /\ EffectiveCost(e.cost) \in Nat \ {0}
      BY <2>1, <2>2, EntryCheck
    <2>4. /\ UNCHANGED <<held, owner, tat, pc>>
          /\ work' = [work EXCEPT ![d][e.key] = v.tat]
          /\ charge' = IF v.throttled THEN charge
                        ELSE [charge EXCEPT ![d][e.key] = @ + EffectiveCost(e.cost)]
          /\ pc[d] = "check"
      BY <1>7 DEF Check
    <2>5. Touched(d)' = Touched(d)
      BY <2>4 DEF Touched
    <2> HIDE DEF v
    <2>6. ASSUME NEW k \in Touched(d), charge'[d][k] = 0
          PROVE  work'[d][k] = tat[held[d][k]]
      <3>1. k \in Keys /\ (charge[d][k] = 0 => work[d][k] = tat[held[d][k]])
        BY <1>d, <2>4, TouchedType DEF CopyOK
      <3>2. CASE k # e.key
        <4>1. work'[d][k] = work[d][k] /\ charge'[d][k] = charge[d][k]
          BY <2>1, <2>4, <3>1, <3>2 DEF TypeOK
        <4> QED BY <2>6, <3>1, <4>1
      <3>3. CASE k = e.key /\ v.throttled
        <4>1. work'[d][k] = v.tat /\ charge'[d][k] = charge[d][k]
          BY <2>1, <2>4, <3>1, <3>3 DEF TypeOK
        <4> QED BY <2>3, <2>6, <3>1, <3>3, <4>1
      <3>4. CASE k = e.key /\ ~v.throttled
        <4>1. charge'[d][k] = charge[d][k] + EffectiveCost(e.cost)
          BY <2>1, <2>4, <3>1, <3>4 DEF TypeOK
        <4> QED BY <2>2, <2>3, <2>6, <3>4, <4>1
      <3> QED BY <3>2, <3>3, <3>4
    <2> QED BY <1>own, <2>4, <2>5, <2>6 DEF CopyOK
  <1>8. ASSUME \/ EnterGroup(d) \/ Commit(d) \/ Return(d)
               \/ \E r \in Requests : Start(d, r)
               \/ \E i \in todo[d] :
                    \/ PeekCheck(d, i) \/ TouchAgain(d, i)
                    \/ \E b \in Buckets : PeekTouch(d, i, b) \/ Touch(d, i, b)
               \/ \E k \in Keys : Lock(d, k) \/ Unlock(d, k)
        PROVE  CopyOK(d)'
    <2>1. pc'[d] # "check"
      <3>1. CASE EnterGroup(d) \/ Commit(d)
        BY <3>1 DEF EnterGroup, Commit, TypeOK
      <3>2. CASE Return(d) \/ \E r \in Requests : Start(d, r)
        BY <3>2 DEF Return, IdleCall, Start, TypeOK
      <3>3. CASE \E i \in todo[d] : PeekCheck(d, i) \/ TouchAgain(d, i)
        BY <3>3 DEF PeekCheck, TouchAgain, TypeOK
      <3>4. CASE \E i \in todo[d], b \in Buckets : PeekTouch(d, i, b) \/ Touch(d, i, b)
        BY <3>4 DEF PeekTouch, Touch, TypeOK
      <3>5. CASE \E k \in Keys : Lock(d, k) \/ Unlock(d, k)
        BY <3>5 DEF Lock, Unlock, TypeOK
      <3> QED BY <1>8, <3>1, <3>2, <3>3, <3>4, <3>5
    <2> QED BY <2>1 DEF CopyOK
  <1> QED BY <1>1, <1>2, <1>3, <1>4, <1>5, <1>6, <1>7, <1>8 DEF Next, CallStep

\* No interleaving of calls and rotations, however late or slow, makes the
\* private copy of evaluateRealGroup stale while it decides: this is what lets
\* its commit be all or none.
THEOREM CopyStaysCurrent == Spec => []WorkingCopyIsCurrent
  <1>1. Init => WorkingCopyIsCurrent
    BY DEF Init, WorkingCopyIsCurrent
  <1>2. TypeOK /\ TypeOK' /\ WorkingCopyIsCurrent /\ [Next]_vars => WorkingCopyIsCurrent'
    <2> SUFFICES ASSUME TypeOK, TypeOK', WorkingCopyIsCurrent, [Next]_vars
                 PROVE  WorkingCopyIsCurrent'
      OBVIOUS
    <2>1. \A d \in Calls : CopyOK(d)'
      BY CopyStep
    <2> QED BY <2>1 DEF WorkingCopyIsCurrent, CopyOK
  <1> QED BY <1>1, <1>2, TypeCorrect, PTL DEF Spec

-----------------------------------------------------------------------------
(* The generations of the store *)

\* A key's bucket, wherever it is.
BucketOf(k) == IF hot[k] # NoBucket THEN hot[k] ELSE cold[k]

\* No two keys share a bucket.
Disjoint ==
  \A j, k \in Keys :
    (j # k /\ BucketOf(j) # NoBucket) => BucketOf(j) # BucketOf(k)

StoreInv == KeyLifetime /\ Disjoint

\* What a step does to the two generations.
LEMMA StoreSteps ==
  ASSUME TypeOK, [Next]_vars
  PROVE  \/ UNCHANGED storeVars
         \/ Rotate
         \/ \E k \in Keys, b \in Buckets : getOrCreate(k, b)
  <1>1. CASE Tick \/ GCWake \/ UNCHANGED vars
    BY <1>1 DEF Tick, GCWake, vars, storeVars
  <1>2. ASSUME NEW c \in Calls, NEW r \in Requests, Start(c, r) PROVE UNCHANGED storeVars
    BY <1>2 DEF Start
  <1>3. ASSUME NEW c \in Calls, EnterGroup(c) \/ BeginCheck(c) \/ Commit(c) \/ Return(c)
        PROVE  UNCHANGED storeVars
    BY <1>3 DEF EnterGroup, BeginCheck, Commit, Return
  <1>4. ASSUME NEW c \in Calls, NEW i \in todo[c],
               PeekCheck(c, i) \/ TouchAgain(c, i) \/ Check(c, i)
        PROVE  UNCHANGED storeVars
    BY <1>4 DEF PeekCheck, TouchAgain, Check
  <1>5. ASSUME NEW c \in Calls, NEW k \in Keys, Lock(c, k) \/ Unlock(c, k)
        PROVE  UNCHANGED storeVars
    BY <1>5 DEF Lock, Unlock
  <1>6. ASSUME NEW c \in Calls, NEW i \in todo[c], NEW b \in Buckets,
               PeekTouch(c, i, b) \/ Touch(c, i, b)
        PROVE  \E k \in Keys, d \in Buckets : getOrCreate(k, d)
    <2>1. entries[c][i].key \in Keys
      BY EntryType
    <2> QED BY <1>6, <2>1 DEF PeekTouch, Touch
  <1> QED BY <1>1, <1>2, <1>3, <1>4, <1>5, <1>6 DEF Next, CallStep

\* getOrCreate leaves k in hot with the bucket it returns, which is the one k
\* had, if it had one; no other key is concerned.
LEMMA GetOrCreateEffect ==
  ASSUME TypeOK, KeyLifetime, NEW k \in Keys, NEW b \in Buckets, getOrCreate(k, b)
  PROVE  /\ hot'[k] = b /\ cold'[k] = NoBucket /\ age'[k] = 0
         /\ BucketOf(k)' = b
         /\ BucketOf(k) = b \/ (BucketOf(k) = NoBucket /\ ~InUse(b) /\ tat'[b] = 0)
         /\ \A j \in Keys \ {k} : /\ hot'[j] = hot[j] /\ cold'[j] = cold[j] /\ age'[j] = age[j]
                                  /\ BucketOf(j)' = BucketOf(j)
  <1>0. NoBucket \notin Buckets /\ b # NoBucket
    BY ThrottlerAssumption
  <1>1. /\ (hot[k] # NoBucket) <=> (age[k] = 0)
        /\ (cold[k] # NoBucket) <=> (age[k] = 1)
    BY DEF KeyLifetime
  <1>2. age'[k] = 0 /\ \A j \in Keys \ {k} : age'[j] = age[j]
    BY DEF getOrCreate, TypeOK
  <1>3. CASE FromHot(k, b)
    BY <1>0, <1>1, <1>2, <1>3 DEF FromHot, BucketOf
  <1>4. CASE Promote(k, b)
    BY <1>0, <1>1, <1>2, <1>4 DEF Promote, BucketOf, TypeOK
  <1>5. CASE Create(k, b)
    BY <1>0, <1>1, <1>2, <1>5 DEF Create, BucketOf, TypeOK
  <1> QED BY <1>3, <1>4, <1>5 DEF getOrCreate

\* rotate ages the keys of one stripe: a hot bucket stays the key's, a cold one
\* is dropped.
LEMMA RotateEffect ==
  ASSUME TypeOK, KeyLifetime, Rotate, NEW k \in Keys
  PROVE  /\ StripeOf[k] # gcAt => /\ hot'[k] = hot[k] /\ cold'[k] = cold[k] /\ age'[k] = age[k]
                                  /\ BucketOf(k)' = BucketOf(k)
         /\ StripeOf[k] = gcAt /\ age[k] = 0 =>
              age'[k] = 1 /\ hot'[k] = NoBucket /\ cold'[k] = hot[k] /\ BucketOf(k)' = BucketOf(k)
         /\ StripeOf[k] = gcAt /\ age[k] # 0 =>
              age'[k] = 2 /\ hot'[k] = NoBucket /\ cold'[k] = NoBucket /\ BucketOf(k)' = NoBucket
  <1>1. /\ (hot[k] # NoBucket) <=> (age[k] = 0)
        /\ (cold[k] # NoBucket) <=> (age[k] = 1)
    BY DEF KeyLifetime
  <1>2. age[k] \in 0..2
    BY DEF TypeOK
  <1>3. /\ cold'[k] = IF StripeOf[k] = gcAt THEN hot[k] ELSE cold[k]
        /\ hot'[k] = IF StripeOf[k] = gcAt THEN NoBucket ELSE hot[k]
        /\ age'[k] = IF StripeOf[k] = gcAt /\ age[k] < 2 THEN age[k] + 1 ELSE age[k]
    BY DEF Rotate
  <1> QED BY <1>1, <1>2, <1>3 DEF BucketOf

\* A key is hot, cold or gone by the rotations since it was last touched, and
\* every key has its own bucket.
LEMMA StoreInvStep == TypeOK /\ StoreInv /\ [Next]_vars => StoreInv'
  <1> SUFFICES ASSUME TypeOK, KeyLifetime, Disjoint, [Next]_vars PROVE KeyLifetime' /\ Disjoint'
    BY DEF StoreInv
  <1>1. CASE UNCHANGED storeVars
    BY <1>1 DEF storeVars, KeyLifetime, Disjoint, BucketOf
  <1>2. CASE Rotate
    <2>1. ASSUME NEW k \in Keys
          PROVE  /\ (hot'[k] # NoBucket) <=> (age'[k] = 0)
                 /\ (cold'[k] # NoBucket) <=> (age'[k] = 1)
      <3>1. /\ (hot[k] # NoBucket) <=> (age[k] = 0)
            /\ (cold[k] # NoBucket) <=> (age[k] = 1)
        BY DEF KeyLifetime
      <3> QED BY <1>2, <3>1, RotateEffect
    <2>2. ASSUME NEW k \in Keys PROVE BucketOf(k)' \in {BucketOf(k), NoBucket}
      BY <1>2, RotateEffect
    <2> QED BY <2>1, <2>2 DEF KeyLifetime, Disjoint
  <1>3. ASSUME NEW k \in Keys, NEW b \in Buckets, getOrCreate(k, b)
        PROVE  KeyLifetime' /\ Disjoint'
    <2>0. b # NoBucket
      BY ThrottlerAssumption
    <2>1. KeyLifetime'
      BY <1>3, <2>0, GetOrCreateEffect DEF KeyLifetime
    <2>2. ASSUME NEW j \in Keys \ {k} PROVE BucketOf(j) # b /\ BucketOf(j)' = BucketOf(j)
      <3>1. CASE BucketOf(k) = b
        BY <1>3, <2>0, <3>1, GetOrCreateEffect DEF Disjoint
      <3>2. CASE ~InUse(b)
        BY <1>3, <3>2, GetOrCreateEffect DEF InUse, BucketOf
      <3> QED BY <1>3, <3>1, <3>2, GetOrCreateEffect
    <2>3. BucketOf(k)' = b
      BY <1>3, GetOrCreateEffect
    <2> QED BY <2>1, <2>2, <2>3 DEF Disjoint
  <1> QED BY <1>1, <1>2, <1>3, StoreSteps

\* An empty store.
LEMMA StoreInvInit == Init => StoreInv
  BY DEF Init, StoreInv, KeyLifetime, Disjoint, BucketOf

\* A key touched within every interval is never dropped, and an idle one never
\* stays for more than two rotations of its stripe.
THEOREM KeysLiveTwoRotations == Spec => []KeyLifetime
  <1>1. StoreInv => KeyLifetime
    BY DEF StoreInv
  <1> QED BY <1>1, StoreInvInit, StoreInvStep, TypeOKInit, TypeOKStep, PTL DEF Spec

-----------------------------------------------------------------------------
(* The schedule of gcLoop and of the calls *)

\* The stripe of k is still to be rotated for the last tick.
Pending(k) == gcDue \/ (gcAt # 0 /\ gcAt <= StripeOf[k])

\* The tick that the last rotation of k's stripe was for.
RoundStart(k) ==
  IF Pending(k) THEN clock - (clock % GCInterval) - GCInterval
                ELSE clock - (clock % GCInterval)

\* gcLoop is never behind by more than MaxGCDelay, so never by a whole tick.
RoundInv ==
  /\ ~(gcDue /\ gcAt # 0)
  /\ gcDue \/ gcAt # 0 => clock % GCInterval <= MaxGCDelay

\* A call is at most MaxCallTime old.
AgeInv ==
  \A c \in Calls : pc[c] # "idle" => now[c] <= clock /\ clock <= now[c] + MaxCallTime

\* What a call works on: the entries left are real ones, those before them
\* have their buckets, and nothing is charged before the check.
GroupOK(c) ==
  /\ pc[c] \in {"touch", "check"} => todo[c] \subseteq Real(entries[c])
  /\ pc[c] \in {"touch", "check"} =>
       \A i \in Real(entries[c]) :
         pc[c] = "check" \/ i \notin todo[c] => entries[c][i].key \in Touched(c)
  /\ pc[c] \notin {"check", "unlock"} => \A k \in Keys : charge[c][k] = 0
  /\ pc[c] = "idle" => Touched(c) = {}

GroupInv == \A c \in Calls : GroupOK(c)

TimingInv == RoundInv /\ AgeInv /\ GroupInv

\* What a step does to the clock and to gcLoop.
LEMMA ClockSteps ==
  ASSUME [Next]_vars
  PROVE  \/ Tick \/ GCWake \/ Rotate
         \/ UNCHANGED <<clock, gcDue, gcAt>>
  <1>1. ASSUME NEW c \in Calls, NEW r \in Requests, Start(c, r)
        PROVE  UNCHANGED <<clock, gcDue, gcAt>>
    BY <1>1 DEF Start, gcVars
  <1>2. ASSUME NEW c \in Calls, EnterGroup(c) \/ BeginCheck(c) \/ Commit(c) \/ Return(c)
        PROVE  UNCHANGED <<clock, gcDue, gcAt>>
    BY <1>2 DEF EnterGroup, BeginCheck, Commit, Return, gcVars
  <1>3. ASSUME NEW c \in Calls, NEW i \in todo[c],
               \/ PeekCheck(c, i) \/ TouchAgain(c, i) \/ Check(c, i)
               \/ \E b \in Buckets : PeekTouch(c, i, b) \/ Touch(c, i, b)
        PROVE  UNCHANGED <<clock, gcDue, gcAt>>
    BY <1>3 DEF PeekCheck, TouchAgain, Check, PeekTouch, Touch, gcVars
  <1>4. ASSUME NEW c \in Calls, NEW k \in Keys, Lock(c, k) \/ Unlock(c, k)
        PROVE  UNCHANGED <<clock, gcDue, gcAt>>
    BY <1>4 DEF Lock, Unlock, gcVars
  <1>5. CASE UNCHANGED vars
    BY <1>5 DEF vars
  <1> QED BY <1>1, <1>2, <1>3, <1>4, <1>5 DEF Next, CallStep

\* MayTick keeps gcLoop on time.
LEMMA RoundInvStep == TypeOK /\ RoundInv /\ [Next]_vars => RoundInv'
  <1> SUFFICES ASSUME TypeOK, RoundInv, [Next]_vars PROVE RoundInv'
    OBVIOUS
  <1>0. GCInterval \in Nat \ {0} /\ MaxGCDelay \in Nat /\ gcDue \in BOOLEAN
    BY ThrottlerAssumption DEF TypeOK
  <1>1. CASE Tick
    <2> DEFINE m == (clock + 1) % GCInterval
    <2>1. /\ gcDue \/ gcAt # 0 => m \in 1..MaxGCDelay
          /\ clock' = clock + 1 /\ gcAt' = gcAt
      BY <1>1 DEF Tick, MayTick
    <2>2. gcDue' = (gcDue \/ m = 0)
      BY <1>1 DEF Tick
    <2> HIDE DEF m
    <2>3. m \in 1..MaxGCDelay => m # 0 /\ m <= MaxGCDelay
      BY <1>0
    <2>4. m = 0 => m <= MaxGCDelay
      BY <1>0
    <2>5. ~(gcDue' /\ gcAt' # 0)
      BY <2>1, <2>2, <2>3 DEF RoundInv
    <2>6. gcDue' \/ gcAt' # 0 => m <= MaxGCDelay
      BY <2>1, <2>2, <2>3, <2>4
    <2> QED BY <2>1, <2>5, <2>6 DEF RoundInv, m
  <1>2. CASE GCWake
    BY <1>2 DEF GCWake, RoundInv
  <1>3. CASE Rotate
    BY <1>3 DEF Rotate, RoundInv
  <1>4. CASE UNCHANGED <<clock, gcDue, gcAt>>
    BY <1>4 DEF RoundInv
  <1> QED BY <1>1, <1>2, <1>3, <1>4, ClockSteps

\* A call's locals, but for its results, are what they were.
CallKept(d) ==
  /\ pc'[d] = pc[d] /\ entries'[d] = entries[d] /\ now'[d] = now[d]
  /\ todo'[d] = todo[d] /\ held'[d] = held[d] /\ work'[d] = work[d]
  /\ charge'[d] = charge[d]

\* A call's step is no other call's.
LEMMA OtherCalls ==
  ASSUME TypeOK, NEW c \in Calls, NEW d \in Calls, c # d,
         CallStep(c) \/ \E r \in Requests : Start(c, r)
  PROVE  CallKept(d)
  <1> USE DEF TypeOK, evalVars, callVars, CallKept
  <1>1. CASE \E r \in Requests : Start(c, r)
    BY <1>1 DEF Start
  <1>2. CASE EnterGroup(c)
    BY <1>2 DEF EnterGroup
  <1>3. CASE BeginCheck(c)
    BY <1>3 DEF BeginCheck
  <1>4. CASE Commit(c)
    BY <1>4 DEF Commit
  <1>5. CASE Return(c)
    BY <1>5 DEF Return, IdleCall
  <1>6. ASSUME NEW i \in todo[c], PeekCheck(c, i)
        PROVE  CallKept(d)
    BY <1>6 DEF PeekCheck
  <1>7. ASSUME NEW i \in todo[c], TouchAgain(c, i)
        PROVE  CallKept(d)
    BY <1>7 DEF TouchAgain
  <1>8. ASSUME NEW i \in todo[c], Check(c, i)
        PROVE  CallKept(d)
    BY <1>8 DEF Check
  <1>9. ASSUME NEW i \in todo[c], NEW b \in Buckets, PeekTouch(c, i, b) \/ Touch(c, i, b)
        PROVE  CallKept(d)
    BY <1>9 DEF PeekTouch, Touch
  <1>10. ASSUME NEW k \in Keys, Lock(c, k) \/ Unlock(c, k)
         PROVE  CallKept(d)
    BY <1>10 DEF Lock, Unlock
  <1> QED BY <1>1, <1>2, <1>3, <1>4, <1>5, <1>6, <1>7, <1>8, <1>9, <1>10 DEF CallStep

\* For a call, a step is its own or leaves its locals alone.
LEMMA StepsOfCall ==
  ASSUME TypeOK, [Next]_vars, NEW d \in Calls
  PROVE  \/ CallStep(d) \/ \E r \in Requests : Start(d, r)
         \/ CallKept(d)
  <1>1. CASE Tick \/ GCWake \/ Rotate \/ UNCHANGED vars
    BY <1>1 DEF Tick, GCWake, Rotate, vars, callVars, CallKept
  <1> QED BY <1>1, OtherCalls DEF Next

\* A call that goes on keeps its now, and a call is not idle while it runs.
LEMMA CallGoesOn ==
  ASSUME TypeOK, NEW c \in Calls, CallStep(c)
  PROVE  pc[c] # "idle" /\ (pc'[c] = "idle" \/ now'[c] = now[c])
  <1> USE DEF TypeOK, evalVars, callVars
  <1>1. CASE EnterGroup(c) \/ BeginCheck(c) \/ Commit(c)
    BY <1>1 DEF EnterGroup, BeginCheck, Commit
  <1>2. CASE Return(c)
    BY <1>2 DEF Return, IdleCall
  <1>3. ASSUME NEW i \in todo[c], PeekCheck(c, i) \/ TouchAgain(c, i) \/ Check(c, i)
        PROVE  pc[c] # "idle" /\ now'[c] = now[c]
    BY <1>3 DEF PeekCheck, TouchAgain, Check
  <1>4. ASSUME NEW i \in todo[c], NEW b \in Buckets, PeekTouch(c, i, b) \/ Touch(c, i, b)
        PROVE  pc[c] # "idle" /\ now'[c] = now[c]
    BY <1>4 DEF PeekTouch, Touch
  <1>5. ASSUME NEW k \in Keys, Lock(c, k) \/ Unlock(c, k)
        PROVE  pc[c] # "idle" /\ now'[c] = now[c]
    BY <1>5 DEF Lock, Unlock
  <1> QED BY <1>1, <1>2, <1>3, <1>4, <1>5 DEF CallStep

\* The steps that let time pass, and those that do not.
LEMMA ClockKept ==
  ASSUME [Next]_vars
  PROVE  Tick \/ clock' = clock
  BY ClockSteps DEF GCWake, Rotate

\* MayTick keeps calls short.
LEMMA AgeInvStep == TypeOK /\ AgeInv /\ [Next]_vars => AgeInv'
  <1> SUFFICES ASSUME TypeOK, AgeInv, [Next]_vars, NEW d \in Calls, pc'[d] # "idle"
               PROVE  now'[d] <= clock' /\ clock' <= now'[d] + MaxCallTime
    BY DEF AgeInv
  <1>0. MaxCallTime \in Nat /\ clock \in Nat /\ now[d] \in Nat
    BY ThrottlerAssumption DEF TypeOK, Time
  <1>1. CASE Tick
    <2>1. pc[d] # "idle" /\ now'[d] = now[d] /\ clock' = clock + 1
          /\ clock + 1 - now[d] <= MaxCallTime
      BY <1>1 DEF Tick, MayTick, callVars
    <2>2. now[d] <= clock
      BY <2>1 DEF AgeInv
    <2> QED BY <1>0, <2>1, <2>2
  <1>2. CASE clock' = clock
    <2>1. CASE CallKept(d) \/ CallStep(d)
      <3>1. pc[d] # "idle" /\ now'[d] = now[d]
        BY <2>1, CallGoesOn DEF CallKept
      <3> QED BY <1>2, <3>1 DEF AgeInv
    <2>2. ASSUME NEW r \in Requests, Start(d, r)
          PROVE  now'[d] <= clock' /\ clock' <= now'[d] + MaxCallTime
      <3>1. now'[d] = clock
        BY <2>2 DEF Start, TypeOK
      <3> QED BY <1>0, <1>2, <3>1
    <2> QED BY <2>1, <2>2, StepsOfCall
  <1> QED BY <1>1, <1>2, ClockKept

\* Throttle goes through its phases in order.
LEMMA GroupInvStep ==
  ASSUME TypeOK, GroupInv, [Next]_vars, NEW d \in Calls
  PROVE  GroupOK(d)'
  <1>0. GroupOK(d)
    BY DEF GroupInv
  <1> USE DEF evalVars, callVars
  <1>1. CASE CallKept(d)
    <2>1. Touched(d)' = Touched(d)
      BY <1>1 DEF CallKept, Touched
    <2> QED BY <1>0, <1>1, <2>1 DEF CallKept, GroupOK
  <1>2. ASSUME NEW r \in Requests, Start(d, r) PROVE GroupOK(d)'
    <2>1. pc[d] = "idle" /\ pc'[d] = "scan" /\ charge'[d] = charge[d]
      BY <1>2 DEF Start, TypeOK
    <2> QED BY <1>0, <2>1 DEF GroupOK
  <1>3. CASE EnterGroup(d)
    <2>1. /\ pc[d] = "scan" /\ pc'[d] \in {"unlock", "touch"} /\ charge'[d] = charge[d]
          /\ todo'[d] = Real(entries[d]) /\ entries'[d] = entries[d]
      BY <1>3 DEF EnterGroup, TypeOK
    <2> QED BY <1>0, <2>1 DEF GroupOK
  <1>4. CASE BeginCheck(d)
    <2>1. /\ pc[d] = "touch" /\ pc'[d] = "check" /\ charge'[d] = charge[d]
          /\ todo[d] = {} /\ todo'[d] = Real(entries[d])
          /\ entries'[d] = entries[d] /\ held'[d] = held[d]
      BY <1>4 DEF BeginCheck, TypeOK
    <2>2. Touched(d)' = Touched(d)
      BY <2>1 DEF Touched
    <2> QED BY <1>0, <2>1, <2>2 DEF GroupOK
  <1>5. CASE Commit(d)
    <2>1. pc'[d] = "unlock"
      BY <1>5 DEF Commit, TypeOK
    <2> QED BY <2>1 DEF GroupOK
  <1>6. CASE Return(d)
    <2>1. pc'[d] = "idle" /\ \A k \in Keys : charge'[d][k] = 0 /\ held'[d][k] = NoBucket
      BY <1>6 DEF Return, IdleCall, TypeOK
    <2> QED BY <2>1 DEF GroupOK, Touched
  <1>7. ASSUME NEW i \in todo[d], PeekCheck(d, i) PROVE GroupOK(d)'
    <2>1. pc[d] = "peek" /\ pc'[d] = "scan" /\ charge'[d] = charge[d]
      BY <1>7 DEF PeekCheck, TypeOK
    <2> QED BY <1>0, <2>1 DEF GroupOK
  <1>8. ASSUME NEW i \in todo[d], NEW b \in Buckets, PeekTouch(d, i, b) PROVE GroupOK(d)'
    <2>1. pc[d] = "scan" /\ pc'[d] = "peek" /\ charge'[d] = charge[d]
      BY <1>8 DEF PeekTouch, TypeOK
    <2> QED BY <1>0, <2>1 DEF GroupOK
  <1>9. ASSUME NEW i \in todo[d], TouchAgain(d, i) PROVE GroupOK(d)'
    <2>1. /\ pc[d] = "touch" /\ pc'[d] = "touch" /\ charge'[d] = charge[d]
          /\ todo'[d] = todo[d] \ {i}
          /\ entries'[d] = entries[d] /\ held'[d] = held[d]
      BY <1>9 DEF TouchAgain, TypeOK
    <2>2. Touched(d)' = Touched(d)
      BY <2>1 DEF Touched
    <2>3. entries[d][i].key \in Touched(d)
      BY <1>9, EntryType DEF TouchAgain, Touched
    <2> QED BY <1>0, <2>1, <2>2, <2>3 DEF GroupOK
  <1>10. ASSUME NEW i \in todo[d], NEW b \in Buckets, Touch(d, i, b) PROVE GroupOK(d)'
    <2>0. entries[d][i].key \in Keys /\ b # NoBucket
      BY EntryType, ThrottlerAssumption
    <2>1. /\ pc[d] = "touch" /\ pc'[d] = "touch" /\ charge'[d] = charge[d]
          /\ todo'[d] = todo[d] \ {i} /\ entries'[d] = entries[d]
      BY <1>10 DEF Touch, TypeOK
    <2>2. held'[d] = [held[d] EXCEPT ![entries[d][i].key] = b] /\ held[d] \in [Keys -> Buckets \cup {NoBucket}]
      BY <1>10 DEF Touch, TypeOK
    <2>3. Touched(d)' = Touched(d) \cup {entries[d][i].key}
      BY <2>0, <2>2 DEF Touched
    <2> QED BY <1>0, <2>1, <2>3 DEF GroupOK
  <1>11. ASSUME NEW i \in todo[d], Check(d, i) PROVE GroupOK(d)'
    <2>1. /\ pc[d] = "check" /\ pc'[d] = "check"
          /\ todo'[d] = todo[d] \ {i} /\ entries'[d] = entries[d] /\ held'[d] = held[d]
      BY <1>11 DEF Check, TypeOK
    <2>2. Touched(d)' = Touched(d)
      BY <2>1 DEF Touched
    <2> QED BY <1>0, <2>1, <2>2 DEF GroupOK
  <1>12. ASSUME NEW k \in Keys, Lock(d, k) \/ Unlock(d, k) PROVE GroupOK(d)'
    <2>1. CallKept(d)
      BY <1>12 DEF Lock, Unlock, CallKept
    <2> QED BY <1>1, <2>1
  <1> QED BY <1>1, <1>2, <1>3, <1>4, <1>5, <1>6, <1>7, <1>8, <1>9, <1>10, <1>11, <1>12,
             StepsOfCall DEF CallStep

\* Together.
LEMMA TimingInvStep == TypeOK /\ TimingInv /\ [Next]_vars => TimingInv'
  <1> SUFFICES ASSUME TypeOK, TimingInv, [Next]_vars PROVE TimingInv'
    OBVIOUS
  <1>1. GroupInv'
    BY GroupInvStep DEF TimingInv, GroupInv
  <1> QED BY <1>1, RoundInvStep, AgeInvStep DEF TimingInv

\* No tick has come, and no call started.
LEMMA TimingInvInit == Init => TimingInv
  <1> SUFFICES ASSUME Init PROVE TimingInv
    OBVIOUS
  <1>1. RoundInv /\ AgeInv
    BY DEF Init, RoundInv, AgeInv
  <1>2. GroupInv
    BY DEF Init, GroupInv, GroupOK, Touched
  <1> QED BY <1>1, <1>2 DEF TimingInv

-----------------------------------------------------------------------------
(* Calls and their buckets *)

\* A call is over before gcLoop can have rotated a stripe twice.
CallsAreShort == MaxCallTime + MaxGCDelay < GCInterval

\* A bucket some call holds is its key's; once it has gone cold, the call
\* started before that rotation was over.
HeldInv ==
  \A c \in Calls : \A k \in Touched(c) :
    /\ held[c][k] = BucketOf(k)
    /\ age[k] = 1 => now[c] <= RoundStart(k) + MaxGCDelay

\* One more second on a clock with g seconds.
LEMMA NextMod ==
  ASSUME NEW t \in Nat, NEW g \in Nat \ {0}
  PROVE  /\ t % g \in Nat /\ t % g < g
         /\ (t + 1) % g = IF t % g = g - 1 THEN 0 ELSE (t % g) + 1
  <1> DEFINE q == t \div g
             r == t % g
             p == (t + 1) \div g
             s == (t + 1) % g
  <1>1. /\ q \in Nat /\ r \in Nat /\ r < g /\ t = g * q + r
        /\ p \in Nat /\ s \in Nat /\ s < g /\ t + 1 = g * p + s
    BY DivMod
  <1> HIDE DEF q, r, p, s
  <1>2. g * q \in Nat /\ g * p \in Nat
    BY <1>1, ProductNat
  <1>3. ~(p < q)
    <2> SUFFICES ASSUME p + 1 <= q PROVE FALSE
      BY <1>1
    <2>1. g * (p + 1) <= g * q
      BY <1>1, Scale
    <2>2. g * (p + 1) = g * p + g
      BY <1>1
    <2> QED BY <1>1, <1>2, <2>1, <2>2
  <1>4. ~(p > q + 1)
    <2> SUFFICES ASSUME q + 2 <= p PROVE FALSE
      BY <1>1
    <2>1. g * (q + 2) <= g * p
      BY <1>1, Scale
    <2>2. g * (q + 2) = g * q + g + g
      BY <1>1
    <2> QED BY <1>1, <1>2, <2>1, <2>2
  <1>5. CASE p = q
    <2>1. s = r + 1
      BY <1>1, <1>2, <1>5
    <2> QED BY <1>1, <2>1 DEF r, s
  <1>6. CASE p = q + 1
    <2>1. g * p = g * q + g
      BY <1>1, <1>6
    <2>2. s = 0 /\ r = g - 1
      BY <1>1, <1>2, <2>1
    <2> QED BY <1>1, <2>2 DEF r, s
  <1> QED BY <1>1, <1>3, <1>4, <1>5, <1>6

\* The tick that a key's last rotation was for stays the same until the next
\* rotation: a new tick finds the last one served.
LEMMA RoundStartSteps ==
  ASSUME TypeOK, RoundInv, [Next]_vars, NEW k \in Keys
  PROVE  \/ RoundStart(k)' = RoundStart(k)
         \/ /\ Rotate /\ StripeOf[k] = gcAt /\ Pending(k)
            /\ RoundStart(k)' = clock - (clock % GCInterval)
  <1>0. /\ GCInterval \in Nat \ {0} /\ clock \in Nat /\ MaxGCDelay \in Nat
        /\ StripeOf[k] \in 1..NumStripes /\ gcAt \in 0..NumStripes /\ NumStripes \in Nat
        /\ gcDue \in BOOLEAN
    BY ThrottlerAssumption DEF TypeOK, Time, Stripes
  <1>1. CASE Tick
    <2> DEFINE r == clock % GCInterval
               s == (clock + 1) % GCInterval
    <2>1. /\ gcDue \/ gcAt # 0 => s \in 1..MaxGCDelay
          /\ clock' = clock + 1 /\ gcAt' = gcAt
      BY <1>1 DEF Tick, MayTick
    <2>2. gcDue' = (gcDue \/ s = 0)
      BY <1>1 DEF Tick
    <2>3. r \in Nat /\ r < GCInterval /\ s = IF r = GCInterval - 1 THEN 0 ELSE r + 1
      BY <1>0, NextMod
    <2> DEFINE e == clock' - (clock' % GCInterval)
    <2>n. e = clock + 1 - s
      <3>1. clock' = clock + 1
        BY <2>1
      <3> QED BY <1>0, <3>1
    <2>4. /\ Pending(k) => RoundStart(k) = clock - r - GCInterval
          /\ ~Pending(k) => RoundStart(k) = clock - r
          /\ Pending(k)' => RoundStart(k)' = e - GCInterval
          /\ ~Pending(k)' => RoundStart(k)' = e
      BY Zenon DEF RoundStart
    <2> HIDE DEF r, s, e
    <2>5. CASE s = 0
      <3>1. s \notin 1..MaxGCDelay
        BY <1>0, <2>5
      <3>2. ~gcDue /\ gcAt = 0 /\ gcDue'
        BY <2>1, <2>2, <2>5, <3>1, Zenon
      <3>3. ~Pending(k) /\ Pending(k)'
        BY <3>2, Zenon DEF Pending
      <3>4. RoundStart(k) = clock - r /\ RoundStart(k)' = e - GCInterval
        BY <2>4, <3>3, Zenon
      <3> QED BY <1>0, <2>3, <2>5, <2>n, <3>4
    <2>6. CASE s # 0
      <3>1. gcDue' = gcDue
        BY <1>0, <2>2, <2>6, Zenon
      <3>2. Pending(k)' <=> Pending(k)
        BY <2>1, <3>1, Zenon DEF Pending
      <3>3. e = clock - r
        BY <1>0, <2>3, <2>6, <2>n
      <3> QED BY <2>4, <3>2, <3>3, Zenon
    <2> QED BY <2>5, <2>6
  <1>2. CASE GCWake
    <2>1. Pending(k) /\ Pending(k)' /\ clock' = clock
      BY <1>0, <1>2 DEF GCWake, Pending
    <2> QED BY <2>1 DEF RoundStart
  <1>3. CASE Rotate
    <2>1. gcAt # 0 /\ ~gcDue /\ ~gcDue' /\ clock' = clock /\ gcAt' = NextStripe
      BY <1>3 DEF Rotate, RoundInv
    <2>2. CASE StripeOf[k] = gcAt
      <3>1. Pending(k) /\ ~Pending(k)'
        BY <1>0, <2>1, <2>2 DEF Pending, NextStripe
      <3>2. RoundStart(k)' = clock - (clock % GCInterval)
        BY <2>1, <3>1, Zenon DEF RoundStart
      <3> QED BY <1>3, <2>2, <3>1, <3>2
    <2>3. CASE StripeOf[k] # gcAt
      <3>1. Pending(k)' <=> Pending(k)
        BY <1>0, <2>1, <2>3 DEF Pending, NextStripe
      <3> QED BY <2>1, <3>1 DEF RoundStart
    <2> QED BY <2>2, <2>3
  <1>4. CASE UNCHANGED <<clock, gcDue, gcAt>>
    BY <1>4 DEF RoundStart, Pending
  <1> QED BY <1>1, <1>2, <1>3, <1>4, ClockSteps

\* A bucket that a call holds after a step was held before, or has just been
\* handed to it.
LEMMA HeldSteps ==
  ASSUME TypeOK, GroupInv, [Next]_vars, NEW d \in Calls, NEW k \in Touched(d)'
  PROVE  \/ k \in Touched(d) /\ held'[d][k] = held[d][k] /\ now'[d] = now[d]
         \/ \E b \in Buckets : getOrCreate(k, b) /\ held'[d][k] = b
  <1>0. k \in Keys /\ held'[d][k] # NoBucket /\ GroupOK(d)
    BY DEF Touched, GroupInv
  <1>k. held'[d] = held[d] /\ now'[d] = now[d] =>
          k \in Touched(d) /\ held'[d][k] = held[d][k] /\ now'[d] = now[d]
    BY <1>0 DEF Touched
  <1> USE DEF evalVars, callVars
  <1>1. CASE CallKept(d)
    BY <1>1, <1>k DEF CallKept
  <1>2. ASSUME NEW r \in Requests, Start(d, r) PROVE FALSE
    <2>1. pc[d] = "idle" /\ held'[d] = held[d]
      BY <1>2 DEF Start
    <2> QED BY <1>0, <2>1 DEF GroupOK, Touched
  <1>3. CASE EnterGroup(d) \/ BeginCheck(d) \/ Commit(d)
    BY <1>3, <1>k DEF EnterGroup, BeginCheck, Commit
  <1>4. CASE Return(d)
    <2>1. held'[d][k] = NoBucket
      BY <1>0, <1>4 DEF Return, IdleCall, TypeOK
    <2> QED BY <1>0, <2>1
  <1>5. ASSUME NEW i \in todo[d], TouchAgain(d, i) \/ Check(d, i)
        PROVE  held'[d] = held[d] /\ now'[d] = now[d]
    BY <1>5 DEF TouchAgain, Check
  <1>6. ASSUME NEW i \in todo[d], PeekCheck(d, i)
        PROVE  k \in Touched(d) /\ held'[d][k] = held[d][k] /\ now'[d] = now[d]
    <2>1. /\ held'[d] = [held[d] EXCEPT ![entries[d][i].key] = NoBucket]
          /\ held[d] \in [Keys -> Buckets \cup {NoBucket}] /\ now'[d] = now[d]
      BY <1>6 DEF PeekCheck, TypeOK
    <2> QED BY <1>0, <2>1 DEF Touched
  <1>7. ASSUME NEW i \in todo[d], NEW b \in Buckets, PeekTouch(d, i, b) \/ Touch(d, i, b)
        PROVE  \/ k \in Touched(d) /\ held'[d][k] = held[d][k] /\ now'[d] = now[d]
               \/ getOrCreate(k, b) /\ held'[d][k] = b
    <2>1. /\ held'[d] = [held[d] EXCEPT ![entries[d][i].key] = b]
          /\ held[d] \in [Keys -> Buckets \cup {NoBucket}] /\ now'[d] = now[d]
          /\ getOrCreate(entries[d][i].key, b)
      BY <1>7 DEF PeekTouch, Touch, TypeOK
    <2> QED BY <1>0, <2>1 DEF Touched
  <1>8. ASSUME NEW j \in Keys, Lock(d, j) \/ Unlock(d, j)
        PROVE  held'[d] = held[d] /\ now'[d] = now[d]
    BY <1>8 DEF Lock, Unlock
  <1> QED BY <1>1, <1>2, <1>3, <1>4, <1>5, <1>6, <1>7, <1>8, <1>k, StepsOfCall DEF CallStep

\* No call keeps a bucket through two rotations of its stripe.
LEMMA HeldInvStep ==
  ASSUME CallsAreShort, TypeOK, StoreInv, TimingInv, HeldInv, [Next]_vars
  PROVE  HeldInv'
  <1> SUFFICES ASSUME NEW d \in Calls, NEW k \in Touched(d)'
               PROVE  /\ held'[d][k] = BucketOf(k)'
                      /\ age'[k] = 1 => now'[d] <= RoundStart(k)' + MaxGCDelay
    BY DEF HeldInv
  <1>0. KeyLifetime /\ RoundInv /\ AgeInv /\ GroupInv /\ k \in Keys
    BY DEF StoreInv, TimingInv, Touched
  <1>1. ASSUME NEW b \in Buckets, getOrCreate(k, b), held'[d][k] = b
        PROVE  held'[d][k] = BucketOf(k)' /\ age'[k] = 0
    BY <1>0, <1>1, GetOrCreateEffect
  <1>2. CASE k \in Touched(d) /\ held'[d][k] = held[d][k] /\ now'[d] = now[d]
    <2>1. /\ held[d][k] = BucketOf(k) /\ held[d][k] # NoBucket
          /\ age[k] = 1 => now[d] <= RoundStart(k) + MaxGCDelay
      BY <1>2 DEF HeldInv, Touched
    <2>2. CASE Rotate /\ StripeOf[k] = gcAt
      <3> DEFINE m == clock % GCInterval
      <3>1. pc[d] # "idle"
        BY <1>0, <1>2 DEF GroupInv, GroupOK
      <3>2. /\ GCInterval \in Nat /\ MaxGCDelay \in Nat /\ MaxCallTime \in Nat
            /\ clock \in Nat /\ now[d] \in Nat /\ age[k] \in 0..2
        BY <1>0, ThrottlerAssumption DEF TypeOK, Time
      <3>3. m \in Nat
        BY <3>2, ThrottlerAssumption, NextMod
      <3>4. now[d] <= clock /\ clock <= now[d] + MaxCallTime
        BY <1>0, <3>1 DEF AgeInv
      <3>5. m <= MaxGCDelay
        BY <1>0, <2>2 DEF RoundInv, Rotate
      <3>6. /\ RoundStart(k) = clock - m - GCInterval
            /\ RoundStart(k)' = clock - m
        <4>1. Pending(k) /\ clock' = clock
          BY <1>0, <2>2, ThrottlerAssumption DEF Pending, Rotate, Stripes, TypeOK
        <4>2. RoundStart(k) = clock - m - GCInterval
          BY <4>1 DEF RoundStart
        <4>3. ~Pending(k)'
          BY <1>0, <2>2, ThrottlerAssumption
             DEF Pending, Rotate, NextStripe, RoundInv, Stripes, TypeOK
        <4>4. RoundStart(k)' = clock - m
          BY <4>1, <4>3, Zenon DEF RoundStart
        <4> QED BY <4>2, <4>4
      <3> HIDE DEF m
      <3>7. age[k] # 1
        BY <2>1, <3>2, <3>3, <3>4, <3>6 DEF CallsAreShort
      <3>8. age[k] # 2
        BY <1>0, <2>1, <3>2 DEF KeyLifetime, BucketOf
      <3>9. age[k] = 0
        BY <3>2, <3>7, <3>8
      <3>10. BucketOf(k)' = BucketOf(k)
        BY <1>0, <2>2, <3>9, RotateEffect
      <3>11. now[d] <= RoundStart(k)' + MaxGCDelay
        BY <3>2, <3>3, <3>4, <3>5, <3>6
      <3> QED BY <1>2, <2>1, <3>10, <3>11
    <2>3. CASE ~(Rotate /\ StripeOf[k] = gcAt)
      <3>1. RoundStart(k)' = RoundStart(k)
        BY <1>0, <2>3, RoundStartSteps
      <3>2. CASE UNCHANGED storeVars
        <4>1. BucketOf(k)' = BucketOf(k) /\ age'[k] = age[k]
          BY <3>2 DEF storeVars, BucketOf
        <4> QED BY <1>2, <2>1, <3>1, <4>1
      <3>3. CASE Rotate
        <4>1. BucketOf(k)' = BucketOf(k) /\ age'[k] = age[k]
          BY <1>0, <2>3, <3>3, RotateEffect
        <4> QED BY <1>2, <2>1, <3>1, <4>1
      <3>4. ASSUME NEW j \in Keys, NEW b \in Buckets, getOrCreate(j, b)
            PROVE  /\ held'[d][k] = BucketOf(k)'
                   /\ age'[k] = 1 => now'[d] <= RoundStart(k)' + MaxGCDelay
        <4>1. CASE j = k
          BY <1>0, <1>2, <2>1, <3>4, <4>1, GetOrCreateEffect
        <4>2. CASE j # k
          <5>1. BucketOf(k)' = BucketOf(k) /\ age'[k] = age[k]
            BY <1>0, <3>4, <4>2, GetOrCreateEffect
          <5> QED BY <1>2, <2>1, <3>1, <5>1
        <4> QED BY <4>1, <4>2
      <3> QED BY <3>2, <3>3, <3>4, StoreSteps
    <2> QED BY <2>2, <2>3
  <1> QED BY <1>0, <1>1, <1>2, HeldSteps

\* While calls are short, every call on a key works on the one bucket that the
\* store has for it.
THEOREM OneBucket == ASSUME CallsAreShort PROVE Spec => []OneBucketPerKey
  <1>1. Init => HeldInv
    BY DEF Init, HeldInv, Touched
  <1>2. HeldInv => OneBucketPerKey
    BY DEF HeldInv, OneBucketPerKey, BucketOf
  <1>3. TypeOK /\ StoreInv /\ TimingInv /\ HeldInv /\ [Next]_vars => HeldInv'
    BY HeldInvStep
  <1> QED BY <1>1, <1>2, <1>3, TypeOKInit, TypeOKStep, StoreInvInit, StoreInvStep,
             TimingInvInit, TimingInvStep, PTL DEF Spec

\* While calls are short, no two of them evaluate a key at the same time.
THEOREM EvaluationIsExclusive == ASSUME CallsAreShort PROVE Spec => []ExclusiveEvaluation
  <1>1. Init => HeldInv
    BY DEF Init, HeldInv, Touched
  <1>2. HeldInv /\ WorkingCopyIsCurrent => ExclusiveEvaluation
    BY DEF HeldInv, WorkingCopyIsCurrent, ExclusiveEvaluation
  <1>3. TypeOK /\ StoreInv /\ TimingInv /\ HeldInv /\ [Next]_vars => HeldInv'
    BY HeldInvStep
  <1> QED BY <1>1, <1>2, <1>3, TypeOKInit, TypeOKStep, StoreInvInit, StoreInvStep,
             TimingInvInit, TimingInvStep, CopyStaysCurrent, PTL DEF Spec

-----------------------------------------------------------------------------
(* The debt of a key with one limit *)

\* The TAT the next call will find.
TatOf(k) == IF BucketOf(k) = NoBucket THEN 0 ELSE tat[BucketOf(k)]

\* No instant below it can matter any more: neither to the bucket, nor to a
\* call that is or will be under way.
Level(k) == max(TatOf(k), clock - MaxCallTime)

\* What a call has admitted for k, but not committed, is in its working copy.
CopyRate(k, l) ==
  \A c \in Calls : (pc[c] = "check" /\ charge[c][k] # 0) =>
    /\ k \in Touched(c)
    /\ Units(l) * TatOf(k) + charge[c][k] * l.period <= Units(l) * work[c][k]
    /\ Units(l) * now[c] + charge[c][k] * l.period <= Units(l) * work[c][k]
    /\ work[c][k] <= now[c] + Debt(l)

\* What a call has admitted for k is at most m ahead of its instant.
CopyWithin(k, m) ==
  \A c \in Calls : (pc[c] = "check" /\ charge[c][k] # 0) =>
    k \in Touched(c) /\ work[c][k] <= now[c] + m

\* A bucket is at most m ahead of the last call that wrote it.
TatWithin(k, m) ==
  /\ TatOf(k) <= clock + m
  /\ age[k] = 1 => TatOf(k) <= RoundStart(k) + MaxGCDelay + m

\* What was committed since a window began is in the bucket, or has drained.
SpentRate(k, l) ==
  \A w \in Windows :
    \/ spent[k][w] = 0
    \/ /\ spent[k][w] * l.period <= Units(l) * (Level(k) - w[1])
       /\ spent[k][w] * l.period <= l.capacity * l.period + Units(l) * (w[2] - w[1])

\* Nothing is ever admitted.
Barren(k) ==
  /\ \A c \in Calls : charge[c][k] = 0
  /\ \A w \in Windows : spent[k][w] = 0

RateOK(k, l) ==
  IF Sound(l) THEN CopyRate(k, l) /\ TatWithin(k, Debt(l)) /\ SpentRate(k, l) ELSE Barren(k)

\* The limits RateConformance is about.
Governs(k, l) == UniformLimit(k, l) /\ DrainsBeforeDrop(l)

RateInv == \A k \in Keys, l \in Limit : Governs(k, l) => RateOK(k, l)

\* Facts about a sound limit.
LEMMA SoundLimit ==
  ASSUME NEW l \in Limit, Sound(l)
  PROVE  /\ Units(l) \in Nat \ {0} /\ l.capacity \in Nat \ {0} /\ l.period \in Nat \ {0}
         /\ Debt(l) \in Nat /\ Units(l) * Debt(l) <= l.capacity * l.period
  <1>1. l \in LimitOf
    BY DEF Limit, LimitOf
  <1> QED BY <1>1, SoundLimitBounds

\* A burst that drains before its bucket can be dropped leaves room for calls.
LEMMA DrainsInTime ==
  ASSUME NEW l \in Limit, Sound(l), DrainsBeforeDrop(l)
  PROVE  CallsAreShort /\ Debt(l) + MaxGCDelay + MaxCallTime <= GCInterval
  <1> DEFINE u == Units(l)
             m == Debt(l)
             z == l.capacity * l.period
             x == GCInterval - MaxGCDelay - MaxCallTime
  <1>1. /\ u \in Nat \ {0} /\ l.capacity \in Nat \ {0} /\ l.period \in Nat \ {0}
        /\ m \in Nat /\ u * m <= z
    BY SoundLimit
  <1>2. GCInterval \in Nat /\ MaxGCDelay \in Nat /\ MaxCallTime \in Nat /\ x \in Int
    BY ThrottlerAssumption
  <1>3. z \in Nat \ {0}
    BY <1>1
  <1>4. z <= u * x
    BY <1>1, <1>2 DEF DrainsBeforeDrop, Units
  <1> HIDE DEF u, m, z, x
  <1>5. x >= 1
    <2> SUFFICES ASSUME x <= 0 PROVE FALSE
      BY <1>2
    <2>1. u * x <= u * 0
      BY <1>1, <1>2, Scale
    <2> QED BY <1>1, <1>2, <1>3, <1>4, <2>1
  <1>6. m <= x
    <2> SUFFICES ASSUME x + 1 <= m PROVE FALSE
      BY <1>1, <1>2
    <2>1. u * (x + 1) <= u * m
      BY <1>1, <1>2, Scale
    <2>2. u * (x + 1) = u * x + u
      BY <1>1, <1>2
    <2>3. u * x \in Int /\ u * m \in Int
      BY <1>1, <1>2
    <2> QED BY <1>1, <1>3, <1>4, <2>1, <2>2, <2>3
  <1> QED BY <1>1, <1>2, <1>5, <1>6 DEF CallsAreShort, m, x

\* Which steps write a bucket or charge a key.
LEMMA TatSteps ==
  ASSUME TypeOK, [Next]_vars
  PROVE  \/ UNCHANGED <<storeVars, tat, spent>>
         \/ Rotate /\ UNCHANGED <<tat, spent>>
         \/ (\E k \in Keys, b \in Buckets : getOrCreate(k, b)) /\ UNCHANGED spent
         \/ \E c \in Calls : Commit(c)
  <1>1. CASE Tick \/ GCWake \/ UNCHANGED vars
    BY <1>1 DEF Tick, GCWake, vars, storeVars
  <1>2. ASSUME NEW c \in Calls, NEW r \in Requests, Start(c, r)
        PROVE  UNCHANGED <<storeVars, tat, spent>>
    BY <1>2 DEF Start
  <1>3. ASSUME NEW c \in Calls, EnterGroup(c) \/ BeginCheck(c) \/ Return(c)
        PROVE  UNCHANGED <<storeVars, tat, spent>>
    BY <1>3 DEF EnterGroup, BeginCheck, Return
  <1>4. ASSUME NEW c \in Calls, NEW i \in todo[c],
               PeekCheck(c, i) \/ TouchAgain(c, i) \/ Check(c, i)
        PROVE  UNCHANGED <<storeVars, tat, spent>>
    BY <1>4 DEF PeekCheck, TouchAgain, Check
  <1>5. ASSUME NEW c \in Calls, NEW k \in Keys, Lock(c, k) \/ Unlock(c, k)
        PROVE  UNCHANGED <<storeVars, tat, spent>>
    BY <1>5 DEF Lock, Unlock
  <1>6. ASSUME NEW c \in Calls, NEW i \in todo[c], NEW b \in Buckets,
               PeekTouch(c, i, b) \/ Touch(c, i, b)
        PROVE  (\E k \in Keys, e \in Buckets : getOrCreate(k, e)) /\ UNCHANGED spent
    <2>1. entries[c][i].key \in Keys
      BY EntryType
    <2> QED BY <1>6, <2>1 DEF PeekTouch, Touch
  <1>7. CASE Rotate
    BY <1>7 DEF Rotate
  <1> QED BY <1>1, <1>2, <1>3, <1>4, <1>5, <1>6, <1>7 DEF Next, CallStep

\* getOrCreate changes no key's TAT: a new bucket is as good as none.
LEMMA GetOrCreateTat ==
  ASSUME TypeOK, StoreInv, NEW j \in Keys, NEW b \in Buckets, getOrCreate(j, b),
         NEW k \in Keys
  PROVE  TatOf(k)' = TatOf(k)
  <1>0. KeyLifetime /\ NoBucket \notin Buckets
    BY ThrottlerAssumption DEF StoreInv
  <1>1. CASE FromHot(j, b) \/ Promote(j, b)
    <2>1. tat' = tat
      BY <1>1 DEF FromHot, Promote
    <2>2. BucketOf(j) = b
      BY <1>0, <1>1 DEF FromHot, Promote, BucketOf
    <2>3. BucketOf(k)' = BucketOf(k)
      BY <1>0, <2>2, GetOrCreateEffect
    <2> QED BY <2>1, <2>3 DEF TatOf
  <1>2. CASE Create(j, b)
    <2>1. tat' = [tat EXCEPT ![b] = 0] /\ BucketOf(j) = NoBucket /\ BucketOf(k) # b
      BY <1>0, <1>2 DEF Create, BucketOf, InUse
    <2>2. CASE k = j
      <3>1. BucketOf(k)' = b /\ tat'[b] = 0
        BY <1>0, <2>1, <2>2, GetOrCreateEffect DEF TypeOK
      <3> QED BY <1>0, <2>1, <2>2, <3>1 DEF TatOf
    <2>3. CASE k # j
      <3>1. BucketOf(k)' = BucketOf(k) /\ BucketOf(k) \in Buckets \cup {NoBucket}
        BY <1>0, <2>3, GetOrCreateEffect DEF BucketOf, TypeOK
      <3>2. BucketOf(k) # NoBucket => tat'[BucketOf(k)] = tat[BucketOf(k)]
        BY <2>1, <3>1 DEF TypeOK
      <3> QED BY <3>1, <3>2 DEF TatOf
    <2> QED BY <2>2, <2>3
  <1> QED BY <1>1, <1>2 DEF getOrCreate

\* A commit writes the working copy to the keys the call holds, and to no other.
LEMMA CommitTat ==
  ASSUME TypeOK, StoreInv, HeldInv, NEW c \in Calls, Commit(c), NEW k \in Keys
  PROVE  TatOf(k)' = IF admitAll[c] /\ k \in Touched(c) THEN work[c][k] ELSE TatOf(k)
  <1> DEFINE mine(b) == {j \in Touched(c) : held[c][j] = b}
  <1>1. BucketOf(k)' = BucketOf(k) /\ BucketOf(k) \in Buckets \cup {NoBucket}
    BY DEF Commit, storeVars, BucketOf, TypeOK
  <1>2. CASE ~admitAll[c]
    <2>1. tat' = tat
      BY <1>2 DEF Commit
    <2> QED BY <1>1, <1>2, <2>1 DEF TatOf
  <1>3. CASE admitAll[c]
    <2>1. tat' = [b \in Buckets |-> IF mine(b) = {} THEN tat[b]
                                    ELSE work[c][CHOOSE j \in mine(b) : TRUE]]
      BY <1>3 DEF Commit
    <2>2. ASSUME NEW j \in Touched(c), held[c][j] = BucketOf(k) PROVE j = k
      <3>1. j \in Keys /\ held[c][j] # NoBucket /\ held[c][j] = BucketOf(j)
        BY DEF Touched, HeldInv
      <3> QED BY <2>2, <3>1 DEF StoreInv, Disjoint
    <2>3. CASE k \in Touched(c)
      <3>1. held[c][k] = BucketOf(k) /\ BucketOf(k) # NoBucket
        BY <2>3 DEF HeldInv, Touched
      <3>2. mine(BucketOf(k)) = {k}
        BY <2>2, <2>3, <3>1
      <3>3. (CHOOSE j \in mine(BucketOf(k)) : TRUE) = k
        BY <3>2
      <3>4. tat'[BucketOf(k)] = work[c][k]
        BY <1>1, <2>1, <3>1, <3>2, <3>3
      <3> QED BY <1>1, <1>3, <2>3, <3>1, <3>4 DEF TatOf
    <2>4. CASE k \notin Touched(c)
      <3>1. mine(BucketOf(k)) = {}
        BY <2>2, <2>4
      <3>2. BucketOf(k) # NoBucket => tat'[BucketOf(k)] = tat[BucketOf(k)]
        BY <1>1, <2>1, <3>1
      <3> QED BY <1>1, <2>4, <3>2 DEF TatOf
    <2> QED BY <2>3, <2>4
  <1> QED BY <1>2, <1>3

\* How a key's TAT may change.
LEMMA TatOfSteps ==
  ASSUME TypeOK, StoreInv, HeldInv, [Next]_vars, NEW k \in Keys
  PROVE  \/ TatOf(k)' = TatOf(k) /\ UNCHANGED spent
         \/ /\ Rotate /\ StripeOf[k] = gcAt /\ age[k] = 1 /\ UNCHANGED spent
            /\ TatOf(k)' = 0
         \/ \E c \in Calls : Commit(c)
  <1>1. CASE UNCHANGED <<storeVars, tat, spent>>
    BY <1>1 DEF storeVars, TatOf, BucketOf
  <1>2. CASE Rotate /\ UNCHANGED <<tat, spent>>
    <2>0. KeyLifetime /\ age[k] \in 0..2
      BY DEF StoreInv, TypeOK
    <2>1. CASE StripeOf[k] = gcAt /\ age[k] = 1
      <3>1. BucketOf(k)' = NoBucket
        BY <1>2, <2>0, <2>1, RotateEffect
      <3> QED BY <1>2, <2>1, <3>1 DEF TatOf
    <2>2. CASE StripeOf[k] = gcAt /\ age[k] = 2
      <3>1. BucketOf(k)' = NoBucket /\ BucketOf(k) = NoBucket
        BY <1>2, <2>0, <2>2, RotateEffect DEF KeyLifetime, BucketOf
      <3> QED BY <1>2, <3>1 DEF TatOf
    <2>3. CASE StripeOf[k] # gcAt \/ age[k] = 0
      <3>1. BucketOf(k)' = BucketOf(k)
        BY <1>2, <2>0, <2>3, RotateEffect
      <3> QED BY <1>2, <3>1 DEF TatOf
    <2> QED BY <2>0, <2>1, <2>2, <2>3
  <1>3. ASSUME NEW j \in Keys, NEW b \in Buckets, getOrCreate(j, b)
        PROVE  TatOf(k)' = TatOf(k)
    BY <1>3, GetOrCreateTat
  <1> QED BY <1>1, <1>2, <1>3, TatSteps

\* What a check that admits leaves, for an entry of a request.
LEMMA AdmittedEntry ==
  ASSUME NEW t \in Nat, NEW n \in Nat, NEW e \in Entry, ~CheckEntry(t, n, e).throttled
  PROVE  LET l == e.limit
             a == CheckEntry(t, n, e).tat
             c == EffectiveCost(e.cost)
         IN  /\ Sound(l) /\ a \in Nat /\ c \in Nat
             /\ Units(l) * t + c * l.period <= Units(l) * a
             /\ Units(l) * n + c * l.period <= Units(l) * a
             /\ a <= n + Debt(l)
  <1>1. e \in EntryOf(Keys)
    BY DEF Entry, Limit, EntryOf, LimitOf
  <1> QED BY <1>1, AdmissionCharges

\* A key's charge grows only when a real entry on it is admitted.
LEMMA ChargeSteps ==
  ASSUME TypeOK, [Next]_vars, NEW d \in Calls, NEW k \in Keys
  PROVE  \/ charge'[d][k] \in {0, charge[d][k]} /\ ~(\E i \in todo[d] : Check(d, i))
         \/ \E i \in todo[d] : Check(d, i)
  <1> USE DEF evalVars, callVars, TypeOK
  <1>1. CASE CallKept(d)
    BY <1>1 DEF CallKept
  <1>2. CASE EnterGroup(d) \/ BeginCheck(d) \/ Commit(d)
    BY <1>2 DEF EnterGroup, BeginCheck, Commit
  <1>3. CASE Return(d)
    BY <1>3 DEF Return, IdleCall
  <1>4. ASSUME NEW i \in todo[d],
               \/ PeekCheck(d, i) \/ TouchAgain(d, i)
               \/ \E b \in Buckets : PeekTouch(d, i, b) \/ Touch(d, i, b)
        PROVE  charge'[d][k] = charge[d][k]
    BY <1>4 DEF PeekCheck, TouchAgain, PeekTouch, Touch
  <1>5. ASSUME NEW j \in Keys, Lock(d, j) \/ Unlock(d, j) PROVE charge'[d][k] = charge[d][k]
    BY <1>5 DEF Lock, Unlock
  <1>6. ASSUME NEW r \in Requests, Start(d, r) PROVE charge'[d][k] = charge[d][k]
    BY <1>6 DEF Start
  <1> QED BY <1>1, <1>2, <1>3, <1>4, <1>5, <1>6, StepsOfCall DEF CallStep

\* What a check does to a key's working copy.
LEMMA CheckEffect ==
  ASSUME TypeOK, GroupInv, NEW d \in Calls, NEW i \in todo[d], Check(d, i), NEW k \in Keys
  PROVE  LET e == entries[d][i]
             v == CheckEntry(work[d][k], now[d], e)
         IN  /\ pc[d] = "check" /\ pc'[d] = "check"
             /\ held'[d] = held[d] /\ now'[d] = now[d]
             /\ \/ charge'[d][k] = charge[d][k] /\ work'[d][k] = work[d][k]
                \/ /\ entries[d] \in Requests /\ i \in Real(entries[d])
                   /\ e \in Entry /\ e.key = k /\ k \in Touched(d) /\ ~v.throttled
                   /\ charge'[d][k] = charge[d][k] + EffectiveCost(e.cost)
                   /\ work'[d][k] = v.tat
  <1> DEFINE e == entries[d][i]
             v == CheckEntry(work[d][e.key], now[d], e)
  <1>1. e \in Entry /\ e.key \in Keys /\ i \in DOMAIN entries[d]
    BY EntryType
  <1>2. /\ pc[d] = "check" /\ pc'[d] = "check"
        /\ held'[d] = held[d] /\ now'[d] = now[d]
        /\ work' = [work EXCEPT ![d][e.key] = v.tat]
        /\ v.throttled => charge' = charge
        /\ ~v.throttled => charge' = [charge EXCEPT ![d][e.key] = @ + EffectiveCost(e.cost)]
    BY DEF Check
  <1>3. /\ work'[d][k] = IF k = e.key THEN v.tat ELSE work[d][k]
        /\ v.throttled \/ k # e.key => charge'[d][k] = charge[d][k]
        /\ ~v.throttled /\ k = e.key => charge'[d][k] = charge[d][k] + EffectiveCost(e.cost)
    <2> HIDE DEF v, e
    <2> QED BY <1>1, <1>2 DEF TypeOK
  <1>4. work[d][e.key] \in Nat /\ now[d] \in Nat
    <2>1. work[d][e.key] \in Nat
      BY <1>1 DEF TypeOK
    <2>2. now[d] \in Nat
      BY ThrottlerAssumption DEF TypeOK
    <2> QED BY <2>1, <2>2
  <1>5. v.throttled => v.tat = work[d][e.key]
    BY <1>1, <1>4, EntryCheck
  <1>6. i \in Real(entries[d]) /\ e.key \in Touched(d)
    BY <1>2 DEF GroupInv, GroupOK
  <1>7. entries[d] \in Requests
    <2>1. entries[d] # <<>>
      BY <1>1
    <2> QED BY <2>1 DEF TypeOK
  <1>9. CASE v.throttled \/ k # e.key
    <2>1. charge'[d][k] = charge[d][k] /\ work'[d][k] = work[d][k]
      BY <1>3, <1>5, <1>9
    <2> QED BY <1>2, <2>1
  <1>10. CASE ~v.throttled /\ k = e.key
    BY <1>1, <1>2, <1>3, <1>6, <1>7, <1>10
  <1> QED BY <1>9, <1>10

\* The same for a key whose real entries all have the limit l.
LEMMA CheckUnderLimit ==
  ASSUME TypeOK, GroupInv, NEW d \in Calls, NEW i \in todo[d], Check(d, i), NEW k \in Keys,
         NEW l \in Limit, UniformLimit(k, l)
  PROVE  LET e == entries[d][i]
             v == CheckEntry(work[d][k], now[d], e)
         IN  /\ pc[d] = "check" /\ pc'[d] = "check"
             /\ held'[d] = held[d] /\ now'[d] = now[d]
             /\ \/ charge'[d][k] = charge[d][k] /\ work'[d][k] = work[d][k]
                \/ /\ e \in Entry /\ e.limit = l /\ k \in Touched(d) /\ ~v.throttled
                   /\ charge'[d][k] = charge[d][k] + EffectiveCost(e.cost)
                   /\ work'[d][k] = v.tat
  BY CheckEffect DEF UniformLimit

\* Under a limit that is not sound nothing is admitted.
LEMMA BarrenStep ==
  ASSUME TypeOK, GroupInv, [Next]_vars, NEW k \in Keys, NEW l \in Limit,
         UniformLimit(k, l), ~Sound(l), Barren(k)
  PROVE  Barren(k)'
  <1>1. ASSUME NEW d \in Calls PROVE charge'[d][k] = 0
    <2>0. charge[d][k] = 0
      BY DEF Barren
    <2>1. ASSUME NEW i \in todo[d], Check(d, i) PROVE charge'[d][k] = 0
      <3> DEFINE e == entries[d][i]
                 v == CheckEntry(work[d][k], now[d], e)
      <3>1. work[d][k] \in Nat /\ now[d] \in Nat
        BY ThrottlerAssumption DEF TypeOK
      <3>2. ~(e \in Entry /\ e.limit = l /\ ~v.throttled)
        BY <3>1, AdmittedEntry
      <3> QED BY <2>0, <2>1, <3>2, CheckUnderLimit
    <2> QED BY <2>0, <2>1, ChargeSteps
  <1>2. ASSUME NEW w \in Windows PROVE spent'[k][w] = 0
    <2>0. spent[k][w] = 0 /\ \A c \in Calls : charge[c][k] = 0
      BY DEF Barren
    <2>1. ASSUME NEW c \in Calls, Commit(c) PROVE spent'[k][w] = 0
      <3>1. CASE admitAll[c]
        BY <2>0, <2>1, <3>1 DEF Commit
      <3>2. CASE ~admitAll[c]
        BY <2>0, <2>1, <3>2 DEF Commit
      <3> QED BY <3>1, <3>2
    <2> QED BY <2>0, <2>1, TatSteps
  <1> QED BY <1>1, <1>2 DEF Barren

\* The types of what RateOK compares.
LEMMA RateTypes ==
  ASSUME TypeOK, NEW k \in Keys
  PROVE  /\ TatOf(k) \in Nat /\ clock \in Nat /\ clock - MaxCallTime \in Int
         /\ Level(k) \in Int /\ TatOf(k) <= Level(k) /\ clock - MaxCallTime <= Level(k)
         /\ \A c \in Calls : /\ now[c] \in Nat /\ work[c][k] \in Nat /\ charge[c][k] \in Nat
         /\ \A w \in Windows : spent[k][w] \in Nat
  <1>1. clock \in Nat /\ clock - MaxCallTime \in Int
    BY ThrottlerAssumption DEF TypeOK, Time
  <1>2. TatOf(k) \in Nat
    BY DEF TatOf, BucketOf, TypeOK
  <1>3. Level(k) \in Int /\ TatOf(k) <= Level(k) /\ clock - MaxCallTime <= Level(k)
    BY <1>1, <1>2 DEF Level, max
  <1>4. \A c \in Calls : now[c] \in Nat /\ work[c][k] \in Nat /\ charge[c][k] \in Nat
    BY ThrottlerAssumption DEF TypeOK
  <1>5. \A w \in Windows : spent[k][w] \in Nat
    BY DEF TypeOK
  <1> QED BY <1>1, <1>2, <1>3, <1>4, <1>5

\* While a call checks a key, nobody else writes it and it is not dropped.
LEMMA CheckedKeyIsStill ==
  ASSUME TypeOK, StoreInv, HeldInv, HeldInv', WorkingCopyIsCurrent, [Next]_vars,
         NEW d \in Calls, NEW k \in Touched(d), pc[d] = "check", pc'[d] = "check",
         held'[d] = held[d]
  PROVE  TatOf(k)' = TatOf(k)
  <1>0. k \in Keys /\ KeyLifetime
    BY DEF Touched, StoreInv
  <1>1. CASE Rotate /\ StripeOf[k] = gcAt /\ age[k] = 1
    <2>1. BucketOf(k)' = NoBucket
      BY <1>0, <1>1, RotateEffect
    <2>2. k \in Touched(d)' /\ held'[d][k] # NoBucket
      BY DEF Touched
    <2>3. held'[d][k] = BucketOf(k)'
      BY <2>2 DEF HeldInv
    <2> QED BY <2>1, <2>2, <2>3
  <1>2. ASSUME NEW c \in Calls, Commit(c) PROVE TatOf(k)' = TatOf(k)
    <2>1. pc[c] = "check" /\ pc'[c] = "unlock"
      BY <1>2 DEF Commit, TypeOK
    <2>2. k \notin Touched(c)
      BY <1>0, <2>1 DEF HeldInv, WorkingCopyIsCurrent
    <2> QED BY <1>0, <1>2, <2>2, CommitTat
  <1> QED BY <1>0, <1>1, <1>2, TatOfSteps

\* Charging another entry keeps the working copy ahead by what is charged.
LEMMA ChargeArith ==
  ASSUME NEW u \in Nat, NEW per \in Nat, NEW ch \in Nat, NEW co \in Nat,
         NEW x \in Nat, NEW w \in Nat, NEW a \in Nat,
         u * x + ch * per <= u * w, u * w + co * per <= u * a
  PROVE  u * x + (ch + co) * per <= u * a
  <1>1. (ch + co) * per = ch * per + co * per
    OBVIOUS
  <1>2. u * x \in Nat /\ u * w \in Nat /\ u * a \in Nat /\ ch * per \in Nat /\ co * per \in Nat
    BY ProductNat
  <1> QED BY <1>1, <1>2

\* The working copy holds what the call has charged.
LEMMA CopyRateStep ==
  ASSUME TypeOK, StoreInv, TimingInv, HeldInv, HeldInv', WorkingCopyIsCurrent, [Next]_vars,
         NEW k \in Keys, NEW l \in Limit, UniformLimit(k, l), Sound(l), CopyRate(k, l)
  PROVE  CopyRate(k, l)'
  <1> DEFINE u == Units(l)
             per == l.period
  <1> SUFFICES ASSUME NEW d \in Calls, pc'[d] = "check", charge'[d][k] # 0
               PROVE  /\ k \in Touched(d)'
                      /\ u * TatOf(k)' + charge'[d][k] * per <= u * work'[d][k]
                      /\ u * now'[d] + charge'[d][k] * per <= u * work'[d][k]
                      /\ work'[d][k] <= now'[d] + Debt(l)
    BY DEF CopyRate
  <1>0. GroupInv /\ GroupOK(d)
    BY DEF TimingInv, GroupInv
  <1>1. ASSUME pc[d] = "check", charge[d][k] # 0
        PROVE  /\ k \in Touched(d)
               /\ u * TatOf(k) + charge[d][k] * per <= u * work[d][k]
               /\ u * now[d] + charge[d][k] * per <= u * work[d][k]
               /\ work[d][k] <= now[d] + Debt(l)
    BY <1>1 DEF CopyRate
  <1>2. ASSUME pc[d] = "check", charge'[d][k] = charge[d][k], work'[d][k] = work[d][k],
               now'[d] = now[d], held'[d] = held[d]
        PROVE  /\ k \in Touched(d)'
               /\ u * TatOf(k)' + charge'[d][k] * per <= u * work'[d][k]
               /\ u * now'[d] + charge'[d][k] * per <= u * work'[d][k]
               /\ work'[d][k] <= now'[d] + Debt(l)
    <2>1. k \in Touched(d)
      BY <1>1, <1>2
    <2>2. k \in Touched(d)'
      BY <1>2, <2>1 DEF Touched
    <2>3. TatOf(k)' = TatOf(k)
      BY <1>2, <2>1, CheckedKeyIsStill
    <2> QED BY <1>1, <1>2, <2>2, <2>3
  <1>3. CASE CallKept(d)
    BY <1>2, <1>3 DEF CallKept
  <1>4. ASSUME NEW i \in todo[d], Check(d, i)
        PROVE  /\ k \in Touched(d)'
               /\ u * TatOf(k)' + charge'[d][k] * per <= u * work'[d][k]
               /\ u * now'[d] + charge'[d][k] * per <= u * work'[d][k]
               /\ work'[d][k] <= now'[d] + Debt(l)
    <2> DEFINE e == entries[d][i]
               v == CheckEntry(work[d][k], now[d], e)
               co == EffectiveCost(e.cost)
    <2>1. /\ pc[d] = "check" /\ held'[d] = held[d] /\ now'[d] = now[d]
          /\ \/ charge'[d][k] = charge[d][k] /\ work'[d][k] = work[d][k]
             \/ /\ e \in Entry /\ e.limit = l /\ k \in Touched(d) /\ ~v.throttled
                /\ charge'[d][k] = charge[d][k] + co
                /\ work'[d][k] = v.tat
      BY <1>0, <1>4, CheckUnderLimit
    <2>2. CASE charge'[d][k] = charge[d][k] /\ work'[d][k] = work[d][k]
      BY <1>2, <2>1, <2>2
    <2>3. CASE /\ e \in Entry /\ e.limit = l /\ k \in Touched(d) /\ ~v.throttled
               /\ charge'[d][k] = charge[d][k] + co
               /\ work'[d][k] = v.tat
      <3>1. /\ TatOf(k) \in Nat /\ now[d] \in Nat /\ work[d][k] \in Nat
            /\ charge[d][k] \in Nat
        BY RateTypes
      <3>2. /\ v.tat \in Nat /\ co \in Nat
            /\ u * work[d][k] + co * per <= u * v.tat
            /\ u * now[d] + co * per <= u * v.tat
            /\ v.tat <= now[d] + Debt(l)
        BY <2>3, <3>1, AdmittedEntry
      <3>3. u \in Nat /\ per \in Nat
        BY SoundLimit
      <3>4. k \in Touched(d)' /\ TatOf(k)' = TatOf(k)
        BY <2>1, <2>3, CheckedKeyIsStill DEF Touched
      <3>5. CASE charge[d][k] = 0
        <4>1. work[d][k] = TatOf(k)
          <5>1. held[d][k] = BucketOf(k) /\ held[d][k] # NoBucket
            BY <2>3 DEF HeldInv, Touched
          <5>2. work[d][k] = tat[held[d][k]]
            BY <2>1, <2>3, <3>5 DEF WorkingCopyIsCurrent
          <5> QED BY <5>1, <5>2 DEF TatOf
        <4>2. charge'[d][k] = co
          BY <2>3, <3>2, <3>5
        <4> HIDE DEF u, per, co, v
        <4> QED BY <2>1, <2>3, <3>2, <3>4, <4>1, <4>2
      <3>6. CASE charge[d][k] # 0
        <4>1. /\ u * TatOf(k) + charge[d][k] * per <= u * work[d][k]
              /\ u * now[d] + charge[d][k] * per <= u * work[d][k]
          BY <1>1, <2>1, <3>6
        <4> HIDE DEF u, per, co, v
        <4>2. u * TatOf(k) + (charge[d][k] + co) * per <= u * v.tat
          BY <3>1, <3>2, <3>3, <4>1, ChargeArith
        <4>3. u * now[d] + (charge[d][k] + co) * per <= u * v.tat
          BY <3>1, <3>2, <3>3, <4>1, ChargeArith
        <4> QED BY <2>1, <2>3, <3>2, <3>4, <4>2, <4>3
      <3> QED BY <3>5, <3>6
    <2> QED BY <2>1, <2>2, <2>3
  <1>5. CASE BeginCheck(d)
    <2>1. pc[d] = "touch" /\ charge'[d] = charge[d]
      BY <1>5 DEF BeginCheck
    <2> QED BY <1>0, <2>1 DEF GroupOK
  <1>6. CASE EnterGroup(d) \/ Commit(d)
    BY <1>6 DEF EnterGroup, Commit, TypeOK
  <1>7. CASE Return(d)
    BY <1>7 DEF Return, IdleCall, TypeOK
  <1>8. ASSUME NEW i \in todo[d],
               \/ PeekCheck(d, i) \/ TouchAgain(d, i)
               \/ \E b \in Buckets : PeekTouch(d, i, b) \/ Touch(d, i, b)
        PROVE  FALSE
    BY <1>8 DEF PeekCheck, TouchAgain, PeekTouch, Touch, TypeOK
  <1>9. ASSUME NEW j \in Keys, Lock(d, j) \/ Unlock(d, j) PROVE FALSE
    BY <1>9 DEF Lock, Unlock, callVars
  <1>10. ASSUME NEW r \in Requests, Start(d, r) PROVE FALSE
    BY <1>10 DEF Start, TypeOK
  <1> QED BY <1>3, <1>4, <1>5, <1>6, <1>7, <1>8, <1>9, <1>10, StepsOfCall DEF CallStep

\* A working copy that holds its charge is within a burst of its instant.
LEMMA CopyRateBounds ==
  ASSUME NEW k, NEW l, CopyRate(k, l)
  PROVE  CopyWithin(k, Debt(l))
  BY DEF CopyRate, CopyWithin

\* What a call commits for a key it has charged, or has not.
LEMMA CommitCases ==
  ASSUME TypeOK, StoreInv, HeldInv, WorkingCopyIsCurrent, NEW k \in Keys, NEW m,
         CopyWithin(k, m), NEW c \in Calls, Commit(c)
  PROVE  \/ TatOf(k)' = TatOf(k) /\ \A w \in Windows : spent'[k][w] = spent[k][w]
         \/ /\ pc[c] = "check" /\ charge[c][k] # 0 /\ k \in Touched(c)
            /\ TatOf(k)' = work[c][k]
            /\ \A w \in Windows :
                 spent'[k][w] = spent[k][w] + (IF w[1] <= now[c] /\ now[c] <= w[2]
                                               THEN charge[c][k] ELSE 0)
  <1>1. TatOf(k)' = IF admitAll[c] /\ k \in Touched(c) THEN work[c][k] ELSE TatOf(k)
    BY CommitTat
  <1>2. pc[c] = "check"
    BY DEF Commit
  <1>3. CASE ~admitAll[c]
    <2>1. spent' = spent
      BY <1>3 DEF Commit
    <2> QED BY <1>1, <1>3, <2>1
  <1>4. CASE admitAll[c]
    <2>1. \A w \in Windows :
            spent'[k][w] = spent[k][w] + (IF w[1] <= now[c] /\ now[c] <= w[2]
                                          THEN charge[c][k] ELSE 0)
      BY <1>4 DEF Commit
    <2>2. CASE charge[c][k] = 0
      <3>1. \A w \in Windows : spent[k][w] \in Nat
        BY RateTypes
      <3>2. \A w \in Windows : spent'[k][w] = spent[k][w]
        BY <2>1, <2>2, <3>1
      <3>3. k \in Touched(c) => work[c][k] = TatOf(k)
        <4> SUFFICES ASSUME k \in Touched(c) PROVE work[c][k] = TatOf(k)
          OBVIOUS
        <4>1. held[c][k] = BucketOf(k) /\ held[c][k] # NoBucket
          BY DEF HeldInv, Touched
        <4>2. work[c][k] = tat[held[c][k]]
          BY <1>2, <2>2 DEF WorkingCopyIsCurrent
        <4> QED BY <4>1, <4>2 DEF TatOf
      <3> QED BY <1>1, <3>2, <3>3
    <2>3. CASE charge[c][k] # 0
      <3>1. k \in Touched(c)
        BY <1>2, <2>3 DEF CopyWithin
      <3> QED BY <1>1, <1>2, <1>4, <2>1, <2>3, <3>1
    <2> QED BY <2>2, <2>3
  <1> QED BY <1>3, <1>4

\* A bucket is dropped only when it has drained, with time to spare for the
\* calls under way.
LEMMA DroppedIsDrained ==
  ASSUME TypeOK, RoundInv, NEW k \in Keys, NEW m \in Nat,
         m + MaxGCDelay + MaxCallTime <= GCInterval,
         TatWithin(k, m), Rotate, StripeOf[k] = gcAt, age[k] = 1
  PROVE  TatOf(k) <= clock - MaxCallTime
  <1>1. /\ GCInterval \in Nat /\ MaxGCDelay \in Nat /\ MaxCallTime \in Nat
        /\ clock \in Nat /\ TatOf(k) \in Nat
    BY ThrottlerAssumption, RateTypes
  <1>2. clock % GCInterval \in Nat
    BY <1>1, ThrottlerAssumption, NextMod
  <1>3. Pending(k)
    BY ThrottlerAssumption DEF Pending, Rotate, Stripes, TypeOK
  <1>4. RoundStart(k) = clock - (clock % GCInterval) - GCInterval
    BY <1>3, Zenon DEF RoundStart
  <1>5. TatOf(k) <= RoundStart(k) + MaxGCDelay + m
    BY DEF TatWithin
  <1> QED BY <1>1, <1>2, <1>4, <1>5

\* How the age of a key may come to be one.
LEMMA AgeOneSteps ==
  ASSUME TypeOK, StoreInv, RoundInv, [Next]_vars, NEW k \in Keys, age'[k] = 1
  PROVE  \/ age[k] = 1 /\ RoundStart(k)' = RoundStart(k)
         \/ /\ clock' = clock /\ RoundStart(k)' = clock - (clock % GCInterval)
            /\ clock % GCInterval <= MaxGCDelay
  <1>0. KeyLifetime
    BY DEF StoreInv
  <1>1. CASE Rotate /\ StripeOf[k] = gcAt
    <2>1. Pending(k) /\ clock' = clock /\ clock % GCInterval <= MaxGCDelay
      BY <1>1, ThrottlerAssumption DEF Pending, Rotate, RoundInv, Stripes, TypeOK
    <2>2. ~Pending(k)'
      BY <1>1, ThrottlerAssumption DEF Pending, Rotate, NextStripe, RoundInv, Stripes, TypeOK
    <2>3. RoundStart(k)' = clock - (clock % GCInterval)
      BY <2>1, <2>2, Zenon DEF RoundStart
    <2> QED BY <2>1, <2>3
  <1>2. CASE ~(Rotate /\ StripeOf[k] = gcAt)
    <2>1. RoundStart(k)' = RoundStart(k)
      BY <1>2, RoundStartSteps
    <2>2. age[k] = 1
      <3>1. CASE UNCHANGED storeVars
        BY <3>1 DEF storeVars
      <3>2. CASE Rotate
        BY <1>0, <1>2, <3>2, RotateEffect
      <3>3. ASSUME NEW j \in Keys, NEW b \in Buckets, getOrCreate(j, b) PROVE age[k] = 1
        BY <1>0, <3>3, GetOrCreateEffect
      <3> QED BY <3>1, <3>2, <3>3, StoreSteps
    <2> QED BY <2>1, <2>2
  <1> QED BY <1>1, <1>2

\* A bucket is never more than a burst ahead of the calls that wrote it.
LEMMA TatWithinStep ==
  ASSUME TypeOK, TypeOK', StoreInv, TimingInv, HeldInv, WorkingCopyIsCurrent, [Next]_vars,
         NEW k \in Keys, NEW m \in Nat, CopyWithin(k, m), TatWithin(k, m)
  PROVE  TatWithin(k, m)'
  <1>0. /\ TatOf(k) \in Nat /\ TatOf(k)' \in Nat /\ clock \in Nat
        /\ MaxGCDelay \in Nat /\ GCInterval \in Nat \ {0} /\ clock % GCInterval \in Nat
    <2>1. TatOf(k) \in Nat /\ clock \in Nat
      BY RateTypes
    <2>2. TatOf(k)' \in Nat
      BY DEF TatOf, BucketOf, TypeOK
    <2>3. GCInterval \in Nat \ {0} /\ MaxGCDelay \in Nat
      BY ThrottlerAssumption
    <2> QED BY <2>1, <2>2, <2>3, NextMod
  <1>1. clock' \in Nat /\ clock <= clock'
    BY <1>0, ClockKept DEF Tick
  <1>2. RoundStart(k) \in Int
    BY <1>0 DEF RoundStart
  <1>3. /\ TatOf(k) <= clock + m
        /\ age[k] = 1 => TatOf(k) <= RoundStart(k) + MaxGCDelay + m
    BY DEF TatWithin
  <1>r. RoundInv /\ AgeInv /\ GroupInv
    BY DEF TimingInv
  <1>4. CASE TatOf(k)' <= TatOf(k)
    <2>1. TatOf(k)' <= clock' + m
      BY <1>0, <1>1, <1>3, <1>4
    <2>2. ASSUME age'[k] = 1 PROVE TatOf(k)' <= RoundStart(k)' + MaxGCDelay + m
      <3>1. CASE age[k] = 1 /\ RoundStart(k)' = RoundStart(k)
        BY <1>0, <1>2, <1>3, <1>4, <3>1
      <3>2. CASE /\ clock' = clock /\ RoundStart(k)' = clock - (clock % GCInterval)
                 /\ clock % GCInterval <= MaxGCDelay
        BY <1>0, <1>3, <1>4, <3>2
      <3> QED BY <1>r, <2>2, <3>1, <3>2, AgeOneSteps
    <2> QED BY <2>1, <2>2 DEF TatWithin
  <1>5. ASSUME NEW c \in Calls, Commit(c), pc[c] = "check", charge[c][k] # 0,
               k \in Touched(c), TatOf(k)' = work[c][k]
        PROVE  TatWithin(k, m)'
    <2>1. now[c] \in Nat /\ work[c][k] \in Nat /\ work[c][k] <= now[c] + m
      BY <1>5, RateTypes DEF CopyWithin
    <2>2. now[c] <= clock
      BY <1>r, <1>5 DEF AgeInv
    <2>3. age' = age /\ clock' = clock /\ RoundStart(k)' = RoundStart(k)
      BY <1>5 DEF Commit, storeVars, gcVars, RoundStart, Pending
    <2>4. age[k] = 1 => now[c] <= RoundStart(k) + MaxGCDelay
      BY <1>5 DEF HeldInv
    <2>5. work[c][k] <= clock + m
      BY <1>0, <2>1, <2>2
    <2>6. age[k] = 1 => work[c][k] <= RoundStart(k) + MaxGCDelay + m
      BY <1>0, <1>2, <2>1, <2>4
    <2> QED BY <1>5, <2>3, <2>5, <2>6 DEF TatWithin
  <1>6. ASSUME NEW c \in Calls, Commit(c) PROVE TatWithin(k, m)'
    <2>1. CASE TatOf(k)' = TatOf(k)
      BY <1>0, <1>4, <2>1
    <2> QED BY <1>5, <1>6, <2>1, CommitCases
  <1>7. CASE TatOf(k)' = TatOf(k) \/ TatOf(k)' = 0
    BY <1>0, <1>4, <1>7
  <1> QED BY <1>6, <1>7, TatOfSteps

\* A commit of the charge ch at the instant n, within a window from a to b in
\* which sp was spent before: T is the TAT it finds, lo the least instant any
\* call may carry, w the TAT it leaves.
LEMMA CommitArith ==
  ASSUME NEW u \in Nat \ {0}, NEW per \in Nat, NEW cap \in Nat, NEW md \in Nat,
         u * md <= cap * per,
         NEW T \in Nat, NEW n \in Nat, NEW lo \in Int, lo <= n, NEW w \in Nat,
         NEW ch \in Nat, NEW sp \in Nat,
         u * T + ch * per <= u * w, u * n + ch * per <= u * w, w <= n + md,
         NEW a \in Int, NEW b \in Int, a <= n, n <= b,
         sp = 0 \/ sp * per <= u * (max(T, lo) - a)
  PROVE  /\ (sp + ch) * per <= u * (w - a)
         /\ (sp + ch) * per <= cap * per + u * (b - a)
  <1>1. (sp + ch) * per = sp * per + ch * per
    OBVIOUS
  <1>2. /\ u * T \in Int /\ u * n \in Int /\ u * w \in Int /\ u * md \in Int /\ u * a \in Int
        /\ u * b \in Int /\ ch * per \in Int /\ sp * per \in Int /\ cap * per \in Int
        /\ u * lo \in Int
    OBVIOUS
  <1>3. u * (w - a) = u * w - u * a /\ u * (b - a) = u * b - u * a
    OBVIOUS
  <1>4. u * a <= u * n /\ u * n <= u * b /\ u * lo <= u * n
    BY Scale
  <1>5. u * w <= u * n + u * md
    <2>1. u * w <= u * (n + md)
      BY Scale
    <2>2. u * (n + md) = u * n + u * md
      OBVIOUS
    <2> QED BY <2>1, <2>2
  <1>6. (sp + ch) * per <= u * (w - a)
    <2>1. CASE sp = 0
      <3>1. sp * per = 0
        BY <2>1
      <3> QED BY <1>1, <1>2, <1>3, <1>4, <3>1
    <2>2. CASE sp * per <= u * (T - a)
      <3>1. u * (T - a) = u * T - u * a
        OBVIOUS
      <3> QED BY <1>1, <1>2, <1>3, <2>2, <3>1
    <2>3. CASE sp * per <= u * (lo - a)
      <3>1. u * (lo - a) = u * lo - u * a
        OBVIOUS
      <3> QED BY <1>1, <1>2, <1>3, <1>4, <2>3, <3>1
    <2> QED BY <2>1, <2>2, <2>3 DEF max
  <1>7. (sp + ch) * per \in Int
    BY <1>1, <1>2
  <1>8. (sp + ch) * per <= cap * per + u * (b - a)
    BY <1>2, <1>3, <1>4, <1>5, <1>6, <1>7
  <1> QED BY <1>6, <1>8

\* What is spent is in the bucket, or has drained from it.
LEMMA SpentRateStep ==
  ASSUME TypeOK, TypeOK', StoreInv, TimingInv, HeldInv, WorkingCopyIsCurrent, [Next]_vars,
         NEW k \in Keys, NEW l \in Limit, Sound(l), DrainsBeforeDrop(l),
         CopyRate(k, l), TatWithin(k, Debt(l)), SpentRate(k, l)
  PROVE  SpentRate(k, l)'
  <1> DEFINE u   == Units(l)
             per == l.period
             cap == l.capacity
             lo  == clock - MaxCallTime
  <1> SUFFICES ASSUME NEW w \in Windows
               PROVE  \/ spent'[k][w] = 0
                      \/ /\ spent'[k][w] * per <= u * (Level(k)' - w[1])
                         /\ spent'[k][w] * per <= cap * per + u * (w[2] - w[1])
    BY DEF SpentRate
  <1>0. /\ u \in Nat \ {0} /\ cap \in Nat /\ per \in Nat /\ Debt(l) \in Nat
        /\ u * Debt(l) <= cap * per
    BY SoundLimit
  <1>1. /\ TatOf(k) \in Nat /\ clock \in Nat /\ lo \in Int /\ Level(k) \in Int
        /\ spent[k][w] \in Nat /\ TatOf(k) <= Level(k) /\ lo <= Level(k)
    BY RateTypes
  <1>2. /\ TatOf(k)' \in Nat /\ clock' \in Nat /\ clock' - MaxCallTime \in Int
        /\ Level(k)' \in Int /\ TatOf(k)' <= Level(k)' /\ clock' - MaxCallTime <= Level(k)'
    <2>1. TatOf(k)' \in Nat
      BY DEF TatOf, BucketOf, TypeOK
    <2>2. clock' \in Nat /\ MaxCallTime \in Nat
      BY ThrottlerAssumption DEF TypeOK, Time
    <2>3. Level(k)' = IF TatOf(k)' >= clock' - MaxCallTime THEN TatOf(k)' ELSE clock' - MaxCallTime
      BY DEF Level, max
    <2> QED BY <2>1, <2>2, <2>3
  <1>3. w[1] \in Nat /\ w[2] \in Nat /\ w[1] <= w[2]
    BY ThrottlerAssumption, WidthAssumption DEF Windows, Time
  <1>4. \/ spent[k][w] = 0
        \/ /\ spent[k][w] * per <= u * (Level(k) - w[1])
           /\ spent[k][w] * per <= cap * per + u * (w[2] - w[1])
    BY DEF SpentRate
  <1>5. clock <= clock' /\ MaxCallTime \in Nat
    BY <1>1, ClockKept, ThrottlerAssumption DEF Tick
  <1>6. Level(k) = max(TatOf(k), lo)
    BY DEF Level
  <1>r. RoundInv /\ AgeInv
    BY DEF TimingInv
  <1> HIDE DEF u, per, cap
  <1>7. ASSUME spent'[k][w] = spent[k][w], Level(k) <= Level(k)'
        PROVE  \/ spent'[k][w] = 0
               \/ /\ spent'[k][w] * per <= u * (Level(k)' - w[1])
                  /\ spent'[k][w] * per <= cap * per + u * (w[2] - w[1])
    <2>1. u * (Level(k) - w[1]) <= u * (Level(k)' - w[1])
      BY <1>0, <1>1, <1>2, <1>3, <1>7, Scale
    <2>2. /\ spent[k][w] * per \in Int
          /\ u * (Level(k) - w[1]) \in Int /\ u * (Level(k)' - w[1]) \in Int
      BY <1>0, <1>1, <1>2, <1>3
    <2>3. spent[k][w] * per <= u * (Level(k) - w[1]) => spent[k][w] * per <= u * (Level(k)' - w[1])
      BY <2>1, <2>2
    <2> QED BY <1>4, <1>7, <2>3
  <1>8. CASE TatOf(k)' = TatOf(k) /\ spent'[k][w] = spent[k][w]
    <2>1. Level(k) <= Level(k)'
      BY <1>1, <1>2, <1>5, <1>6, <1>8 DEF max
    <2> QED BY <1>7, <1>8, <2>1
  <1>9. CASE Rotate /\ StripeOf[k] = gcAt /\ age[k] = 1 /\ UNCHANGED spent
    <2>1. TatOf(k) <= lo
      BY <1>9, <1>r, SoundLimit, DrainsInTime, DroppedIsDrained
    <2>2. Level(k) <= Level(k)'
      BY <1>1, <1>2, <1>5, <1>6, <2>1 DEF max
    <2> QED BY <1>7, <1>9, <2>2
  <1>10. ASSUME NEW c \in Calls, Commit(c), pc[c] = "check", charge[c][k] # 0,
                k \in Touched(c), TatOf(k)' = work[c][k],
                spent'[k][w] = spent[k][w] + (IF w[1] <= now[c] /\ now[c] <= w[2]
                                              THEN charge[c][k] ELSE 0)
         PROVE  \/ spent'[k][w] = 0
                \/ /\ spent'[k][w] * per <= u * (Level(k)' - w[1])
                   /\ spent'[k][w] * per <= cap * per + u * (w[2] - w[1])
    <2> DEFINE n  == now[c]
               wk == work[c][k]
               ch == charge[c][k]
               T  == TatOf(k)
    <2>1. n \in Nat /\ wk \in Nat /\ ch \in Nat
      BY RateTypes
    <2>2. /\ u * T + ch * per <= u * wk
          /\ u * n + ch * per <= u * wk
          /\ wk <= n + Debt(l)
      BY <1>10 DEF CopyRate, u, per
    <2>3. lo <= n
      BY <1>1, <1>5, <1>10, <1>r, <2>1 DEF AgeInv
    <2>4. wk <= Level(k)'
      BY <1>2, <1>10
    <2>5. ch * per \in Nat
      BY <1>0, <2>1, ProductNat
    <2>i. /\ u * T \in Int /\ u * n \in Int /\ u * wk \in Int
      BY <1>0, <1>1, <2>1
    <2> HIDE DEF n, wk, ch, T
    <2>6. CASE w[1] <= n /\ n <= w[2]
      <3>1. spent'[k][w] = spent[k][w] + ch
        BY <1>10, <2>6 DEF n, ch
      <3>2. spent[k][w] = 0 \/ spent[k][w] * per <= u * (max(T, lo) - w[1])
        BY <1>4, <1>6 DEF T
      <3>t. T \in Nat
        BY <1>1 DEF T
      <3>3. /\ (spent[k][w] + ch) * per <= u * (wk - w[1])
            /\ (spent[k][w] + ch) * per <= cap * per + u * (w[2] - w[1])
        <4> DEFINE a  == w[1]
                   b  == w[2]
                   sp == spent[k][w]
                   md == Debt(l)
        <4>1. /\ a \in Int /\ b \in Int /\ sp \in Nat /\ md \in Nat /\ lo \in Int
              /\ a <= n /\ n <= b /\ u * md <= cap * per /\ wk <= n + md
              /\ sp = 0 \/ sp * per <= u * (max(T, lo) - a)
          BY <1>0, <1>1, <1>3, <2>2, <2>6, <3>2
        <4>2. /\ u \in Nat \ {0} /\ per \in Nat /\ cap \in Nat /\ T \in Nat /\ n \in Nat
              /\ wk \in Nat /\ ch \in Nat /\ lo <= n
              /\ u * T + ch * per <= u * wk /\ u * n + ch * per <= u * wk
          BY <1>0, <2>1, <2>2, <2>3, <3>t
        <4> HIDE DEF a, b, sp, md, lo
        <4>3. (sp + ch) * per <= u * (wk - a) /\ (sp + ch) * per <= cap * per + u * (b - a)
          BY <4>1, <4>2, CommitArith
        <4> QED BY <4>3 DEF a, b, sp
      <3>4. u * (wk - w[1]) <= u * (Level(k)' - w[1])
        BY <1>0, <1>2, <1>3, <2>1, <2>4, Scale
      <3>5. /\ (spent[k][w] + ch) * per \in Int /\ u * (wk - w[1]) \in Int
            /\ u * (Level(k)' - w[1]) \in Int
        BY <1>0, <1>1, <1>2, <1>3, <2>1
      <3>6. (spent[k][w] + ch) * per <= u * (Level(k)' - w[1])
        BY <3>3, <3>4, <3>5
      <3> QED BY <3>1, <3>3, <3>6
    <2>7. CASE ~(w[1] <= n /\ n <= w[2])
      <3>1. spent'[k][w] = spent[k][w]
        BY <1>1, <1>10, <2>7 DEF n
      <3>2. T <= wk
        <4> SUFFICES ASSUME wk + 1 <= T PROVE FALSE
          BY <1>1, <2>1 DEF T
        <4>1. u * (wk + 1) <= u * T
          BY <1>0, <1>1, <2>1, Scale DEF T
        <4>2. u * (wk + 1) = u * wk + u
          BY <1>0, <2>1
        <4> QED BY <1>0, <2>2, <2>5, <2>i, <4>1, <4>2
      <3>3. n <= wk
        <4> SUFFICES ASSUME wk + 1 <= n PROVE FALSE
          BY <2>1
        <4>1. u * (wk + 1) <= u * n
          BY <1>0, <2>1, Scale
        <4>2. u * (wk + 1) = u * wk + u
          BY <1>0, <2>1
        <4> QED BY <1>0, <2>2, <2>5, <2>i, <4>1, <4>2
      <3>4. Level(k) <= Level(k)'
        BY <1>1, <1>2, <1>6, <2>1, <2>3, <2>4, <3>2, <3>3 DEF T, max
      <3> QED BY <1>7, <3>1, <3>4
    <2> QED BY <2>6, <2>7
  <1>11. ASSUME NEW c \in Calls, Commit(c)
         PROVE  \/ spent'[k][w] = 0
                \/ /\ spent'[k][w] * per <= u * (Level(k)' - w[1])
                   /\ spent'[k][w] * per <= cap * per + u * (w[2] - w[1])
    BY <1>8, <1>10, <1>11, CopyRateBounds, CommitCases
  <1>12. CASE TatOf(k)' = TatOf(k) /\ UNCHANGED spent
    BY <1>8, <1>12
  <1> QED BY <1>9, <1>11, <1>12, TatOfSteps

\* One step, for every key with one limit that drains in time.
LEMMA RateInvStep ==
  ASSUME TypeOK, TypeOK', StoreInv, TimingInv, CallsAreShort => HeldInv,
         WorkingCopyIsCurrent, RateInv, [Next]_vars
  PROVE  RateInv'
  <1> SUFFICES ASSUME NEW k \in Keys, NEW l \in Limit, Governs(k, l) PROVE RateOK(k, l)'
    BY DEF RateInv, Governs, UniformLimit, DrainsBeforeDrop
  <1>0. UniformLimit(k, l) /\ DrainsBeforeDrop(l) /\ RateOK(k, l) /\ GroupInv
    BY DEF Governs, RateInv, TimingInv
  <1>1. CASE Sound(l)
    <2>1. CallsAreShort
      BY <1>0, <1>1, DrainsInTime
    <2>2. HeldInv /\ HeldInv'
      BY <2>1, HeldInvStep
    <2>3. CopyRate(k, l) /\ TatWithin(k, Debt(l)) /\ SpentRate(k, l)
      BY <1>0, <1>1 DEF RateOK
    <2>4. CopyRate(k, l)'
      BY <1>0, <1>1, <2>2, <2>3, CopyRateStep
    <2>5. TatWithin(k, Debt(l))'
      BY <1>1, <2>2, <2>3, CopyRateBounds, SoundLimit, TatWithinStep
    <2>6. SpentRate(k, l)'
      BY <1>0, <1>1, <2>2, <2>3, SpentRateStep
    <2> QED BY <1>1, <2>4, <2>5, <2>6 DEF RateOK, Sound
  <1>2. CASE ~Sound(l)
    <2>1. Barren(k)
      BY <1>0, <1>2 DEF RateOK
    <2>2. Barren(k)'
      BY <1>0, <1>2, <2>1, BarrenStep
    <2> QED BY <1>2, <2>2 DEF RateOK, Sound
  <1> QED BY <1>1, <1>2

\* Nothing has been spent.
LEMMA RateInvInit == Init => RateInv
  <1> SUFFICES ASSUME Init, NEW k \in Keys, NEW l \in Limit PROVE RateOK(k, l)
    BY DEF RateInv
  <1>1. Barren(k)
    BY DEF Init, Barren
  <1>2. ASSUME Sound(l) PROVE CopyRate(k, l) /\ TatWithin(k, Debt(l)) /\ SpentRate(k, l)
    <2>1. CopyRate(k, l)
      BY DEF Init, CopyRate
    <2>2. TatOf(k) = 0 /\ age[k] = 2 /\ clock = 1
      BY DEF Init, TatOf, BucketOf
    <2>3. TatWithin(k, Debt(l))
      BY <1>2, <2>2, SoundLimit DEF TatWithin
    <2>4. SpentRate(k, l)
      BY <1>1 DEF SpentRate, Barren
    <2> QED BY <2>1, <2>3, <2>4
  <1> QED BY <1>1, <1>2 DEF RateOK

\* RateInv says more than the rate limit.
LEMMA RateInvImplies == RateInv => RateConformance
  <1> SUFFICES ASSUME RateInv, NEW k \in Keys, NEW r \in Requests, NEW i \in Real(r),
                      UniformLimit(k, r[i].limit), DrainsBeforeDrop(r[i].limit),
                      NEW w \in Windows, spent[k][w] # 0
               PROVE  spent[k][w] * r[i].limit.period
                        <= r[i].limit.capacity * r[i].limit.period
                           + (w[2] - w[1]) * EffectiveUnits(r[i].limit.units)
    BY DEF RateConformance
  <1> DEFINE l == r[i].limit
  <1>1. l \in Limit
    <2>1. r \in Seq(Entry) /\ i \in DOMAIN r
      BY ThrottlerAssumption DEF Real
    <2>2. r[i] \in Entry
      BY <2>1
    <2> QED BY <2>2 DEF Entry
  <1>2. RateOK(k, l)
    BY <1>1 DEF RateInv, Governs
  <1>3. Sound(l)
    BY <1>2 DEF RateOK, Barren
  <1>4. spent[k][w] * l.period <= l.capacity * l.period + Units(l) * (w[2] - w[1])
    BY <1>2, <1>3 DEF RateOK, SpentRate
  <1>5. w[1] \in Int /\ w[2] \in Int
    BY DEF Windows, Time
  <1>6. Units(l) * (w[2] - w[1]) = (w[2] - w[1]) * Units(l)
    BY <1>1, <1>3, <1>5, SoundLimit
  <1> QED BY <1>4, <1>6 DEF Units

\* The rate limit: whatever the interleaving of calls, the age of their now, the
\* rotations under them and the ticks that gcLoop is late for, the cost admitted
\* for a key in any window is at most its burst and what drains meanwhile.
THEOREM RateIsKept == Spec => []RateConformance
  <1>1. Init => (CallsAreShort => HeldInv)
    BY DEF Init, HeldInv, Touched
  <1>2. TypeOK /\ StoreInv /\ TimingInv /\ (CallsAreShort => HeldInv) /\ [Next]_vars
          => (CallsAreShort => HeldInv)'
    BY HeldInvStep DEF CallsAreShort
  <1>3. TypeOK /\ TypeOK' /\ StoreInv /\ TimingInv /\ (CallsAreShort => HeldInv)
          /\ WorkingCopyIsCurrent /\ RateInv /\ [Next]_vars => RateInv'
    BY RateInvStep
  <1> QED BY <1>1, <1>2, <1>3, RateInvInit, RateInvImplies, TypeOKInit, TypeOKStep,
             StoreInvInit, StoreInvStep, TimingInvInit, TimingInvStep, CopyStaysCurrent,
             PTL DEF Spec
=============================================================================
