----------------------------- MODULE FleetProofs -----------------------------
(***************************************************************************)
(* For any number of processes, calls, shards and entries, and whatever is *)
(* lost, late, restarted or resized: the fleet keeps its types, what a     *)
(* caller is told of its group is what became of it, and all shards        *)
(* together admit no more of a key than FleetBudget allows.                *)
(***************************************************************************)
EXTENDS Fleet, GcraProofs

\* A finite set of numbers has a greatest member: a smallest one without would
\* have one more than some set that has.
LEMMA GreatestMember ==
  ASSUME NEW S, S \subseteq Nat, S # {}, IsFiniteSet(S)
  PROVE  \E m \in S : \A n \in S : n <= m
  <1> DEFINE R == StrictSubsetOrdering(Nat)
             F == FiniteSubsetsOf(Nat)
             Topped(X) == \E m \in X : \A n \in X : n <= m
             T == {X \in F : X # {} /\ ~Topped(X)}
  <1> SUFFICES ASSUME T # {} PROVE FALSE
    BY DEF FiniteSubsetsOf
  <1>1. IsWellFoundedOn(R, F)
    BY FS_StrictSubsetOrderingWellFounded
  <1>2. PICK X \in T : \A Y \in T : ~(<<Y, X>> \in R)
    <2>1. T \subseteq F
      OBVIOUS
    <2> HIDE DEF T, F, R
    <2> QED BY <1>1, <2>1, WFMin
  <1>3. PICK x \in X : TRUE
    BY <1>2
  <1> DEFINE Y == X \ {x}
  <1>4. X \subseteq Nat /\ IsFiniteSet(X) /\ ~Topped(X)
    BY <1>2 DEF FiniteSubsetsOf
  <1>5. Y \subseteq Nat /\ IsFiniteSet(Y)
    BY <1>4, FS_Subset
  <1>6. <<Y, X>> \in R
    BY <1>3, <1>4, <1>5 DEF StrictSubsetOrdering
  <1>7. CASE Y = {}
    <2>1. X = {x}
      BY <1>3, <1>7
    <2> QED BY <1>3, <1>4, <2>1
  <1>8. CASE Y # {}
    <2>1. Y \notin T
      BY <1>2, <1>6
    <2>2. PICK m \in Y : \A n \in Y : n <= m
      BY <1>5, <1>8, <2>1 DEF FiniteSubsetsOf
    <2>3. CASE x <= m
      BY <1>3, <1>4, <2>2, <2>3
    <2>4. CASE m <= x
      <3>1. ASSUME NEW n \in X PROVE n <= x
        BY <1>3, <1>4, <2>2, <2>4
      <3> QED BY <1>3, <1>4, <3>1
    <2> QED BY <1>3, <1>4, <2>2, <2>3, <2>4
  <1> QED BY <1>7, <1>8

\* Shards are numbered from 0 to one below the largest client's number of them.
LEMMA MaxSizes ==
  Max(Sizes) \in Sizes /\ \A n \in Sizes : n <= Max(Sizes)
  <1>1. \E m \in Sizes : \A n \in Sizes : m >= n
    BY FleetAssumption, GreatestMember
  <1> QED BY <1>1, FleetAssumption DEF Max

\* shardFor stays within the client's list.
LEMMA ShardForType ==
  ASSUME NEW r \in Requests, NEW n \in Sizes
  PROVE  shardFor(r, n) \in Shards
  <1>1. n \in Nat \ {0} /\ Max(Sizes) \in Nat \ {0} /\ n <= Max(Sizes)
    BY MaxSizes, FleetAssumption
  <1>2. Hash[r.shardKey] \in Nat
    BY FleetAssumption
  <1>3. Hash[r.shardKey] % n \in 0..(n-1)
    BY <1>1, <1>2
  <1> QED BY <1>1, <1>3 DEF shardFor, Shards

\* A call's entries are entries, also before it has any.
LEMMA EntriesType ==
  ASSUME NEW r \in Requests \cup {NoRequest}
  PROVE  r.entries \in Seq(EntryOf(Keys))
  <1>1. Entry \subseteq EntryOf(Keys)
    <2>1. Int64 \subseteq Int
      BY WidthAssumption DEF Int64
    <2> QED BY <2>1 DEF Entry, EntryOf, LimitOf
  <1>2. CASE r \in Requests
    <2>1. r.entries \in Seq(Entry)
      BY <1>2, FleetAssumption
    <2> QED BY <1>1, <2>1
  <1>3. CASE r = NoRequest
    BY <1>3 DEF NoRequest
  <1> QED BY <1>2, <1>3

-----------------------------------------------------------------------------
(* Sums *)

\* h sums the first m numbers of f.
IsSums(f, m, h) == h = [n \in 0..m |-> IF n = 0 THEN 0 ELSE h[n-1] + f[n]]

\* The recursion of Sums has a solution.
LEMMA SumsExist ==
  ASSUME NEW f, NEW m \in Nat
  PROVE  \E h : IsSums(f, m, h)
  <1> DEFINE P == {k \in Nat : \E h : IsSums(f, k, h)}
  <1>1. 0 \in P
    <2> DEFINE h == [n \in 0..0 |-> 0]
    <2>1. h = [n \in 0..0 |-> IF n = 0 THEN 0 ELSE h[n-1] + f[n]]
      OBVIOUS
    <2>2. IsSums(f, 0, h)
      BY <2>1 DEF IsSums
    <2> QED BY <2>2
  <1>2. ASSUME NEW k \in 1..m, k - 1 \in P PROVE k \in P
    <2>1. PICK p : IsSums(f, k-1, p)
      BY <1>2
    <2> DEFINE h == [n \in 0..k |-> IF n = k THEN p[n-1] + f[n] ELSE p[n]]
    <2>2. ASSUME NEW n \in 0..k
          PROVE  h[n] = IF n = 0 THEN 0 ELSE h[n-1] + f[n]
      <3>1. CASE n = 0
        <4>1. n \in 0..(k-1) /\ n # k
          BY <3>1
        <4>2. p[n] = 0
          BY <2>1, <3>1, <4>1 DEF IsSums
        <4> QED BY <3>1, <4>1, <4>2
      <3>2. CASE n # 0
        <4>1. h[n-1] = p[n-1]
          BY <3>2
        <4>2. CASE n = k
          BY <3>2, <4>1, <4>2
        <4>3. CASE n # k
          <5>1. n \in 0..(k-1)
            BY <4>3
          <5>2. p[n] = p[n-1] + f[n]
            BY <2>1, <3>2, <5>1 DEF IsSums
          <5> QED BY <3>2, <4>1, <4>3, <5>2
        <4> QED BY <4>2, <4>3
      <3> QED BY <3>1, <3>2
    <2>3. IsSums(f, k, h)
      <3>1. h = [n \in 0..k |-> h[n]]
        OBVIOUS
      <3> HIDE DEF h
      <3>2. h = [n \in 0..k |-> IF n = 0 THEN 0 ELSE h[n-1] + f[n]]
        BY <2>2, <3>1
      <3> QED BY <3>2 DEF IsSums
    <2> HIDE DEF h
    <2> QED BY <2>3
  <1>3. 0..m \subseteq P
    <2> HIDE DEF P
    <2> QED BY <1>1, <1>2, SegmentInduction
  <1> QED BY <1>3

\* Sums unfolds number by number.
LEMMA SumsUnfold ==
  ASSUME NEW f, NEW m \in Nat
  PROVE  Sums(f, m)[0] = 0 /\ \A n \in 1..m : Sums(f, m)[n] = Sums(f, m)[n-1] + f[n]
  <1> DEFINE q == Sums(f, m)
  <1>1. q = CHOOSE h : IsSums(f, m, h)
    BY DEF Sums, IsSums
  <1>2. IsSums(f, m, q)
    BY <1>1, SumsExist
  <1> HIDE DEF q
  <1>3. q = [n \in 0..m |-> IF n = 0 THEN 0 ELSE q[n-1] + f[n]]
    BY <1>2 DEF IsSums
  <1>4. q[0] = 0 /\ \A n \in 1..m : q[n] = q[n-1] + f[n]
    BY <1>3
  <1> QED BY <1>4 DEF q

\* Sums of natural numbers are natural numbers.
LEMMA SumsType ==
  ASSUME NEW m \in Nat, NEW f, \A i \in 1..m : f[i] \in Nat
  PROVE  \A n \in 0..m : Sums(f, m)[n] \in Nat
  <1> DEFINE q == Sums(f, m)
             P == {n \in Nat : q[n] \in Nat}
  <1>1. q[0] = 0 /\ \A n \in 1..m : q[n] = q[n-1] + f[n]
    BY SumsUnfold
  <1> HIDE DEF q
  <1>2. 0 \in P
    BY <1>1
  <1>3. ASSUME NEW n \in 1..m, n - 1 \in P PROVE n \in P
    BY <1>1, <1>3
  <1>4. 0..m \subseteq P
    <2> HIDE DEF P
    <2> QED BY <1>2, <1>3, SegmentInduction
  <1> QED BY <1>4 DEF q

\* g is nowhere below f, but for the place j, where it is d above it (or, if d
\* is negative, at most so much below).
Above(f, g, m, j, d) ==
  /\ \A i \in 1..m : i # j => f[i] <= g[i]
  /\ f[j] + d <= g[j]

\* Then so is its sum.
LEMMA SumsCompare ==
  ASSUME NEW m \in Nat, NEW f, NEW g,
         \A i \in 1..m : f[i] \in Nat, \A i \in 1..m : g[i] \in Nat,
         NEW j \in 1..m, NEW d \in Int, Above(f, g, m, j, d)
  PROVE  Sums(f, m)[m] + d <= Sums(g, m)[m]
  <1> DEFINE p == Sums(f, m)
             q == Sums(g, m)
             D(n) == IF j <= n THEN d ELSE 0
             P == {n \in Nat : p[n] + D(n) <= q[n]}
  <1>1. /\ p[0] = 0 /\ \A n \in 1..m : p[n] = p[n-1] + f[n]
        /\ q[0] = 0 /\ \A n \in 1..m : q[n] = q[n-1] + g[n]
    BY SumsUnfold
  <1>2. \A n \in 0..m : p[n] \in Nat /\ q[n] \in Nat
    BY SumsType
  <1> HIDE DEF p, q
  <1>3. 0 \in P
    BY <1>1
  <1>4. ASSUME NEW n \in 1..m, n - 1 \in P PROVE n \in P
    <2>1. n - 1 \in 0..m /\ n \in 0..m
      OBVIOUS
    <2>2. p[n] = p[n-1] + f[n] /\ q[n] = q[n-1] + g[n] /\ p[n-1] + D(n-1) <= q[n-1]
      BY <1>1, <1>4
    <2>3. /\ p[n] \in Nat /\ q[n] \in Nat /\ p[n-1] \in Nat /\ q[n-1] \in Nat
          /\ f[n] \in Nat /\ g[n] \in Nat
      BY <1>2, <2>1
    <2>4. CASE n = j
      <3>1. D(n-1) = 0 /\ D(n) = d /\ f[n] + d <= g[n]
        BY <2>4 DEF Above
      <3>2. p[n] + D(n) <= q[n]
        <4> HIDE DEF D
        <4> QED BY <2>2, <2>3, <3>1
      <3> QED BY <3>2
    <2>5. CASE n # j
      <3>1. D(n-1) = D(n) /\ D(n) \in Int /\ f[n] <= g[n]
        BY <2>5 DEF Above
      <3>2. p[n] + D(n) <= q[n]
        <4> HIDE DEF D
        <4> QED BY <2>2, <2>3, <3>1
      <3> QED BY <3>2
    <2> QED BY <2>4, <2>5
  <1>5. 0..m \subseteq P
    <2> HIDE DEF P
    <2> QED BY <1>3, <1>4, SegmentInduction
  <1>6. m \in P /\ D(m) = d
    BY <1>5
  <1> QED BY <1>6 DEF p, q

\* Numbers up to b in the places X, and nothing elsewhere, sum up to at most
\* b for each place.
LEMMA SumsBound ==
  ASSUME NEW m \in Nat, NEW f, \A i \in 1..m : f[i] \in Nat,
         NEW X, X \subseteq 1..m, NEW b \in Nat,
         \A i \in 1..m : IF i \in X THEN f[i] <= b ELSE f[i] = 0
  PROVE  IsFiniteSet(X) /\ Sums(f, m)[m] <= Cardinality(X) * b
  <1> DEFINE q == Sums(f, m)
             Y(n) == X \cap 1..n
             P == {n \in Nat : q[n] <= Cardinality(Y(n)) * b}
  <1>1. q[0] = 0 /\ \A n \in 1..m : q[n] = q[n-1] + f[n]
    BY SumsUnfold
  <1>2. \A n \in 0..m : q[n] \in Nat
    BY SumsType
  <1> HIDE DEF q
  <1>3. ASSUME NEW n \in 0..m PROVE IsFiniteSet(Y(n)) /\ Cardinality(Y(n)) \in Nat
    <2>1. IsFiniteSet(1..n)
      BY FS_Interval
    <2>2. IsFiniteSet(Y(n))
      BY <2>1, FS_Subset
    <2> QED BY <2>2, FS_CardinalityType
  <1>4. 0 \in P
    <2>1. Y(0) = {}
      OBVIOUS
    <2>2. Cardinality(Y(0)) = 0
      BY <2>1, FS_EmptySet
    <2> HIDE DEF Y
    <2> QED BY <1>1, <2>2
  <1>5. ASSUME NEW n \in 1..m, n - 1 \in P PROVE n \in P
    <2> DEFINE c == Cardinality(Y(n-1))
    <2>1. n - 1 \in 0..m /\ n \in 0..m
      OBVIOUS
    <2>2. q[n] = q[n-1] + f[n] /\ q[n-1] <= c * b /\ q[n-1] \in Nat /\ f[n] \in Nat
      BY <1>1, <1>2, <1>5, <2>1
    <2>3. IsFiniteSet(Y(n-1)) /\ c \in Nat
      BY <1>3, <2>1
    <2>4. c * b \in Nat /\ (c + 1) * b = c * b + b
      BY <2>3, ProductNat, SMT
    <2>5. CASE n \in X
      <3>1. Y(n) = Y(n-1) \cup {n} /\ n \notin Y(n-1)
        BY <2>5
      <3>2. Cardinality(Y(n)) = c + 1
        <4> HIDE DEF Y
        <4> QED BY <2>3, <3>1, FS_AddElement
      <3>3. f[n] <= b
        BY <2>5
      <3> HIDE DEF c, Y
      <3>4. q[n] <= (c + 1) * b
        <4> DEFINE cb == c * b
        <4>1. q[n] = q[n-1] + f[n] /\ q[n-1] <= cb /\ cb \in Nat /\ (c + 1) * b = cb + b
          BY <2>2, <2>4
        <4> HIDE DEF cb
        <4> QED BY <2>2, <3>3, <4>1
      <3>5. q[n] <= Cardinality(Y(n)) * b
        BY <3>2, <3>4
      <3> QED BY <3>5
    <2>6. CASE n \notin X
      <3>1. Y(n) = Y(n-1)
        BY <2>6
      <3>2. f[n] = 0
        BY <2>6
      <3> HIDE DEF Y
      <3>3. q[n] = q[n-1]
        BY <2>2, <3>2
      <3>4. q[n] <= Cardinality(Y(n)) * b
        BY <2>2, <3>1, <3>3
      <3> QED BY <3>4
    <2> QED BY <2>5, <2>6
  <1>6. 0..m \subseteq P
    <2> HIDE DEF P
    <2> QED BY <1>4, <1>5, SegmentInduction
  <1>7. m \in P /\ m \in 0..m /\ Y(m) = X
    <2>1. Y(m) = X
      OBVIOUS
    <2>2. m \in 0..m
      OBVIOUS
    <2> HIDE DEF P, Y
    <2> QED BY <1>6, <2>1, <2>2
  <1>8. IsFiniteSet(X)
    BY <1>3, <1>7
  <1>9. q[m] <= Cardinality(Y(m)) * b
    BY <1>7
  <1> QED BY <1>7, <1>8, <1>9 DEF q

\* What a group charges a key is a number.
LEMMA CostsType ==
  ASSUME NEW K, NEW es \in Seq(EntryOf(K)), NEW k
  PROVE  /\ Len(es) \in Nat /\ \A i \in 1..Len(es) : Costs(es, k)[i] \in Nat
         /\ Charge(es, k) \in Nat
  <1>1. Len(es) \in Nat /\ DOMAIN es = 1..Len(es) /\ Len(es) \in 0..Len(es)
    OBVIOUS
  <1>2. ASSUME NEW i \in 1..Len(es) PROVE Costs(es, k)[i] \in Nat
    <2>1. es[i] \in EntryOf(K)
      OBVIOUS
    <2>2. es[i].cost \in Int
      BY <2>1 DEF EntryOf
    <2>3. EffectiveCost(es[i].cost) \in Nat
      BY <2>2 DEF EffectiveCost
    <2> QED BY <1>1, <2>3 DEF Costs
  <1>3. \A n \in 0..Len(es) : Sums(Costs(es, k), Len(es))[n] \in Nat
    BY <1>1, <1>2, SumsType
  <1> QED BY <1>1, <1>2, <1>3 DEF Charge

\* The instants of a window.
LEMMA WindowType ==
  ASSUME NEW w \in Windows
  PROVE  /\ w[1] \in Nat \ {0} /\ w[2] \in Nat /\ w[1] <= w[2]
  <1>1. Time \subseteq Nat \ {0}
    BY FleetAssumption, WidthAssumption DEF Time
  <1> QED BY <1>1 DEF Windows

\* What a shard adds to the books when it serves a call.
LEMMA ServeSpends ==
  ASSUME TypeOK, NEW c \in Calls, Serve(c)
  PROVE  LET es == req[c].entries
             t  == tats[home[c]]
         IN  /\ spent' \in [Keys -> [Windows -> Nat]]
             /\ \A k \in Keys, w \in Windows :
                  \/ spent'[k][w] = spent[k][w]
                  \/ /\ Group(es, t, clock)[Len(es)].admitted
                     /\ w[1] <= clock /\ clock <= w[2]
                     /\ spent'[k][w] = spent[k][w] + Charge(es, k)
  <1> DEFINE es == req[c].entries
             t  == tats[home[c]]
             ok == Group(es, t, clock)[Len(es)].admitted
             added(k, w) == IF clock \in w[1]..w[2] THEN Charge(es, k) ELSE 0
  <1>1. spent \in [Keys -> [Windows -> Nat]]
    BY DEF TypeOK
  <1>2. es \in Seq(EntryOf(Keys))
    BY EntriesType DEF TypeOK
  <1>3. spent' = IF Real(es) # {} /\ ok
                 THEN [k \in Keys |-> [w \in Windows |-> spent[k][w] + added(k, w)]]
                 ELSE spent
    BY DEF Serve
  <1> HIDE DEF es, ok
  <1>4. ASSUME NEW k \in Keys PROVE Charge(es, k) \in Nat
    BY <1>2, CostsType
  <1>5. CASE ~(Real(es) # {} /\ ok)
    <2>1. spent' = spent
      BY <1>3, <1>5
    <2> QED BY <1>1, <2>1
  <1>6. CASE Real(es) # {} /\ ok
    <2>1. spent' = [k \in Keys |-> [w \in Windows |-> spent[k][w] + added(k, w)]]
      BY <1>3, <1>6
    <2>2. ASSUME NEW k \in Keys, NEW w \in Windows
          PROVE  /\ spent'[k][w] \in Nat
                 /\ \/ spent'[k][w] = spent[k][w]
                    \/ /\ w[1] <= clock /\ clock <= w[2]
                       /\ spent'[k][w] = spent[k][w] + Charge(es, k)
      <3>1. spent'[k][w] = spent[k][w] + added(k, w)
        BY <2>1
      <3>2. spent[k][w] \in Nat
        BY <1>1
      <3>3. w[1] \in Nat /\ w[2] \in Nat /\ clock \in Nat
        BY WindowType, FleetAssumption, WidthAssumption DEF TypeOK, Time
      <3>4. CASE clock \in w[1]..w[2]
        <4>1. added(k, w) = Charge(es, k) /\ w[1] <= clock /\ clock <= w[2]
          BY <3>3, <3>4
        <4> QED BY <1>4, <3>1, <3>2, <4>1
      <3>5. CASE ~(clock \in w[1]..w[2])
        BY <3>1, <3>2, <3>5
      <3> QED BY <3>4, <3>5
    <2> HIDE DEF added
    <2>3. spent' \in [Keys -> [Windows -> Nat]]
      BY <2>1, <2>2
    <2> QED BY <1>6, <2>2, <2>3 DEF es, ok
  <1> QED BY <1>5, <1>6 DEF es

-----------------------------------------------------------------------------
LEMMA TypeOKInit == Init => TypeOK
  <1> SUFFICES ASSUME Init PROVE TypeOK
    OBVIOUS
  <1>1. 0 \in Shards
    BY MaxSizes, FleetAssumption DEF Shards
  <1>2. clock \in Time /\ restarts \in 0..MaxRestarts
    BY FleetAssumption, WidthAssumption DEF Init, Time
  <1>3. tats \in [Shards -> [Keys -> Nat]]
    BY DEF Init
  <1>4. /\ size \in [Processes -> Sizes] /\ sizes \subseteq Sizes
        /\ shut \in [Processes -> Nat] /\ \A p \in Processes : shut[p] <= size[p]
    BY FleetAssumption DEF Init
  <1>5. failOpen \in BOOLEAN
    BY DEF Init, Options
  <1>6. /\ stage \in [Calls -> {"idle", "waiting", "returned"}]
        /\ message \in [Calls -> {"none", "request", "answer"}]
        /\ home \in [Calls -> Shards]
    BY <1>1 DEF Init
  <1>7. req \in [Calls -> Requests \cup {NoRequest}]
    BY DEF Init
  <1>8. spent \in [Keys -> [Windows -> Nat]]
    BY DEF Init
  <1> QED BY <1>2, <1>3, <1>4, <1>5, <1>6, <1>7, <1>8 DEF TypeOK

LEMMA TypeOKStep == TypeOK /\ [Next]_vars => TypeOK'
  <1> SUFFICES ASSUME TypeOK, [Next]_vars PROVE TypeOK'
    OBVIOUS
  <1>1. CASE Tick
    BY <1>1, FleetAssumption, WidthAssumption DEF Tick, TypeOK, Time, callVars
  <1>2. ASSUME NEW s \in Shards, Restart(s) PROVE TypeOK'
    <2>1. restarts' \in 0..MaxRestarts
      BY <1>2, FleetAssumption DEF Restart, TypeOK
    <2>2. tats' \in [Shards -> [Keys -> Nat]]
      BY <1>2 DEF Restart, TypeOK
    <2>3. message' \in [Calls -> {"none", "request", "answer"}]
      BY <1>2 DEF Restart, TypeOK
    <2> QED BY <1>2, <2>1, <2>2, <2>3 DEF Restart, TypeOK
  <1>3. ASSUME NEW p \in Processes, CloseShard(p) PROVE TypeOK'
    <2>1. shut' \in [Processes -> Nat]
      BY <1>3 DEF CloseShard, TypeOK
    <2>2. ASSUME NEW q \in Processes PROVE shut'[q] <= size'[q]
      <3>1. size[q] \in Nat /\ shut[q] \in Nat /\ shut[q] <= size[q] /\ size' = size
        BY <1>3, FleetAssumption DEF CloseShard, TypeOK
      <3>2. shut'[q] = IF q = p THEN shut[q] + 1 ELSE shut[q]
        BY <1>3 DEF CloseShard, TypeOK
      <3> QED BY <1>3, <3>1, <3>2 DEF CloseShard
    <2> QED BY <1>3, <2>1, <2>2 DEF CloseShard, TypeOK, callVars
  <1>4. ASSUME NEW p \in Processes, NEW n \in Sizes, Resize(p, n) PROVE TypeOK'
    <2>1. size' \in [Processes -> Sizes] /\ sizes' \subseteq Sizes
      BY <1>4 DEF Resize, TypeOK
    <2>2. shut' \in [Processes -> Nat]
      BY <1>4 DEF Resize, TypeOK
    <2>3. ASSUME NEW q \in Processes PROVE shut'[q] <= size'[q]
      <3>1. size'[q] \in Nat /\ shut[q] <= size[q]
        BY <2>1, FleetAssumption DEF TypeOK
      <3>2. shut'[q] = 0 \/ (shut'[q] = shut[q] /\ size'[q] = size[q])
        BY <1>4 DEF Resize, TypeOK
      <3> QED BY <3>1, <3>2
    <2> QED BY <1>4, <2>1, <2>2, <2>3 DEF Resize, TypeOK, callVars
  <1>5. ASSUME NEW c \in Calls, Receive(c) PROVE TypeOK'
    BY <1>5 DEF Receive, TypeOK, fleetVars
  <1>6. ASSUME NEW c \in Calls, GiveUp(c) PROVE TypeOK'
    BY <1>6 DEF GiveUp, TypeOK, fleetVars
  <1>7. ASSUME NEW c \in Calls, Serve(c) PROVE TypeOK'
    <2> DEFINE es == req[c].entries
               s  == home[c]
               w  == Committed(es, tats[s], clock)
    <2>1. es \in Seq(EntryOf(Keys)) /\ s \in Shards /\ tats[s] \in [Keys -> Nat]
          /\ clock \in Nat
      BY EntriesType, FleetAssumption, WidthAssumption DEF TypeOK, Time
    <2>2. tats' = [tats EXCEPT ![s] = w]
      BY <1>7 DEF Serve
    <2>3. w \in [Keys -> Nat]
      <3> HIDE DEF es, s
      <3> QED BY <2>1, CommittedType
    <2> HIDE DEF w
    <2>4. tats' \in [Shards -> [Keys -> Nat]]
      BY <2>1, <2>2, <2>3 DEF TypeOK
    <2>5. message' \in [Calls -> {"none", "request", "answer"}]
      BY <1>7 DEF Serve, TypeOK
    <2>6. spent' \in [Keys -> [Windows -> Nat]]
      BY <1>7, ServeSpends
    <2> QED BY <1>7, <2>4, <2>5, <2>6 DEF Serve, TypeOK, fleetVars
  <1>8. ASSUME NEW c \in Calls, NEW r \in Requests, Refuse(c, r) PROVE TypeOK'
    BY <1>8 DEF Refuse, TypeOK, fleetVars
  <1>9. ASSUME NEW c \in Calls, NEW r \in Requests, NEW p \in Processes, Submit(c, p, r)
        PROVE  TypeOK'
    <2>1. shardFor(r, size[p]) \in Shards
      BY ShardForType DEF TypeOK
    <2> QED BY <1>9, <2>1 DEF Submit, TypeOK, fleetVars
  <1>10. CASE UNCHANGED vars
    BY <1>10 DEF vars, fleetVars, callVars, TypeOK
  <1> QED BY <1>1, <1>2, <1>3, <1>4, <1>5, <1>6, <1>7, <1>8, <1>9, <1>10 DEF Next

\* The fleet keeps its types: a call goes to a shard that exists, a client
\* closes no more shards than it has, a TAT never becomes negative.
THEOREM FleetTypeCorrect == Spec => []TypeOK
  BY TypeOKInit, TypeOKStep, PTL DEF Spec

-----------------------------------------------------------------------------
(***************************************************************************)
(* What a caller is told.  ReportIsTrue looks only at calls that have      *)
(* returned; what makes it true is decided while the request and its       *)
(* answer are on their way, so the invariant follows the message: a        *)
(* request that is still to be served has committed nothing, and an answer *)
(* says what its service did.                                              *)
(***************************************************************************)

\* A report without errors: no real entry is throttled exactly if the group
\* was committed.
Truthful(c, r) ==
  LET es == req[c].entries
  IN  /\ DOMAIN r = DOMAIN es
      /\ \A i \in DOMAIN es : ~r[i].err
      /\ Real(es) # {} => (commits[c] # <<>> <=> \A i \in Real(es) : ~r[i].throttled)

\* A report of a call that got no answer.
FilledIn(c, r) ==
  LET es == req[c].entries
  IN  /\ DOMAIN r = DOMAIN es
      /\ \A i \in DOMAIN es : r[i].err /\ (r[i].throttled <=> ~failOpen)

CallReport(c) ==
  /\ Len(commits[c]) <= 1
  /\ stage[c] = "idle" => message[c] = "none" /\ commits[c] = <<>>
  /\ message[c] = "request" => commits[c] = <<>>
  /\ message[c] = "answer" => stage[c] = "waiting" /\ Truthful(c, reply[c])
  /\ stage[c] = "returned" =>
       \/ FilledIn(c, result[c])
       \/ Truthful(c, result[c]) /\ message[c] = "none"

ReportInv ==
  /\ commits \in [Calls -> Seq(Time)]
  /\ reply = [c \in Calls |-> reply[c]] /\ result = [c \in Calls |-> result[c]]
  /\ \A c \in Calls : CallReport(c)

\* What a call does not touch stays true of it.
LEMMA ReportKept ==
  ASSUME NEW d, CallReport(d), failOpen' = failOpen,
         stage'[d] = stage[d], req'[d] = req[d], commits'[d] = commits[d],
         message'[d] = message[d], reply'[d] = reply[d], result'[d] = result[d]
  PROVE  CallReport(d)'
  BY DEF CallReport, Truthful, FilledIn

\* A lost message only leaves less to be said.
LEMMA ReportOfLost ==
  ASSUME NEW d, CallReport(d), failOpen' = failOpen,
         stage'[d] = stage[d], req'[d] = req[d], commits'[d] = commits[d],
         message'[d] = "none", result'[d] = result[d]
  PROVE  CallReport(d)'
  BY DEF CallReport, Truthful, FilledIn

\* The answer a shard gives says what it did with the group.
LEMMA AnswerIsTruthful ==
  ASSUME TypeOK, NEW c \in Calls
  PROVE  LET es == req[c].entries
             t  == tats[home[c]]
             a  == Answer(es, t)
         IN  /\ DOMAIN a = DOMAIN es
             /\ \A i \in DOMAIN es : ~a[i].err
             /\ Group(es, t, clock)[Len(es)].admitted <=> \A i \in Real(es) : ~a[i].throttled
  <1> DEFINE es == req[c].entries
             t  == tats[home[c]]
             a  == Answer(es, t)
             v  == Verdicts(es, t, clock)
  <1>1. es \in Seq(EntryOf(Keys)) /\ t \in [Keys -> Nat] /\ clock \in Nat
    BY EntriesType, FleetAssumption, WidthAssumption DEF TypeOK, Time
  <1>2. a = [i \in DOMAIN es |-> [throttled |-> v[i].throttled, err |-> FALSE]]
    BY DEF Answer
  <1> HIDE DEF es, t, a
  <1>3. DOMAIN es = 1..Len(es) /\ Len(es) \in Nat
    BY <1>1
  <1>4. Group(es, t, clock)[Len(es)].admitted <=>
          \A i \in 1..Len(es) : es[i].peek \/ ~v[i].throttled
    BY <1>1, <1>3, GroupVerdict
  <1> HIDE DEF v
  <1>5. DOMAIN a = DOMAIN es /\ \A i \in DOMAIN es : ~a[i].err /\ a[i].throttled = v[i].throttled
    BY <1>2
  <1>6. Group(es, t, clock)[Len(es)].admitted <=> \A i \in Real(es) : ~a[i].throttled
    BY <1>3, <1>4, <1>5 DEF Real
  <1> QED BY <1>5, <1>6 DEF es, t, a

\* Every step keeps the reports true.
LEMMA ReportStep == TypeOK /\ ReportInv /\ [Next]_vars => ReportInv'
  <1> SUFFICES ASSUME TypeOK, ReportInv, [Next]_vars PROVE ReportInv'
    OBVIOUS
  <1>0. \A d \in Calls : CallReport(d)
    BY DEF ReportInv
  <1>f. failOpen' = failOpen
    BY DEF Next, Tick, Restart, CloseShard, Resize, Receive, GiveUp, Serve, Refuse,
           Submit, vars, fleetVars
  <1>1. ASSUME UNCHANGED <<callVars, commits>> PROVE ReportInv'
    <2>1. ASSUME NEW d \in Calls PROVE CallReport(d)'
      BY <1>0, <1>1, <1>f, ReportKept DEF callVars
    <2> QED BY <1>1, <2>1 DEF ReportInv, callVars
  <1>2. ASSUME NEW s \in Shards, Restart(s) PROVE ReportInv'
    <2>1. ASSUME NEW d \in Calls PROVE CallReport(d)'
      <3>0. CallReport(d) /\ stage' = stage /\ req' = req /\ commits' = commits /\ result' = result
        BY <1>0, <1>2 DEF Restart
      <3>1. CASE home[d] = s
        <4>1. message'[d] = "none"
          BY <1>2, <3>1 DEF Restart
        <4> QED BY <1>f, <3>0, <4>1, ReportOfLost
      <3>2. CASE home[d] # s
        <4>1. message'[d] = message[d] /\ reply'[d] = reply[d]
          BY <1>2, <3>2 DEF Restart
        <4> QED BY <1>f, <3>0, <4>1, ReportKept
      <3> QED BY <3>1, <3>2
    <2>2. reply' = [c \in Calls |-> reply'[c]]
      BY <1>2 DEF Restart
    <2> QED BY <1>2, <2>1, <2>2 DEF Restart, ReportInv
  <1>3. ASSUME NEW c \in Calls, Receive(c) PROVE ReportInv'
    <2>1. CallReport(c)'
      <3>1. /\ stage'[c] = "returned" /\ message'[c] = "none" /\ result'[c] = reply[c]
            /\ req' = req /\ commits' = commits
        BY <1>3 DEF Receive, TypeOK, ReportInv
      <3>2. Len(commits[c]) <= 1 /\ Truthful(c, reply[c])
        BY <1>0, <1>3 DEF CallReport, Receive
      <3>3. Truthful(c, result[c])'
        BY <3>1, <3>2 DEF Truthful
      <3> QED BY <3>1, <3>2, <3>3 DEF CallReport
    <2>2. ASSUME NEW d \in Calls, d # c PROVE CallReport(d)'
      <3>1. /\ stage'[d] = stage[d] /\ message'[d] = message[d] /\ req' = req
            /\ reply'[d] = reply[d] /\ result'[d] = result[d] /\ commits' = commits
        BY <1>3, <2>2 DEF Receive, TypeOK, ReportInv
      <3> QED BY <1>0, <1>f, <3>1, ReportKept
    <2>3. /\ reply' = [d \in Calls |-> reply'[d]]
          /\ result' = [d \in Calls |-> result'[d]] /\ commits' = commits
      BY <1>3 DEF Receive, ReportInv
    <2> QED BY <2>1, <2>2, <2>3 DEF ReportInv
  <1>4. ASSUME NEW c \in Calls, GiveUp(c) PROVE ReportInv'
    <2>1. CallReport(c)'
      <3>1. /\ stage'[c] = "returned" /\ result'[c] = Fill(req[c].entries)
            /\ message'[c] = (IF message[c] = "answer" THEN "none" ELSE message[c])
            /\ req' = req /\ commits' = commits
        BY <1>4 DEF GiveUp, TypeOK, ReportInv
      <3>2. Len(commits[c]) <= 1 /\ (message[c] = "request" => commits[c] = <<>>)
        BY <1>0 DEF CallReport
      <3>3. FilledIn(c, result[c])'
        <4>1. FilledIn(c, Fill(req[c].entries))
          BY DEF FilledIn, Fill
        <4> QED BY <1>f, <3>1, <4>1 DEF FilledIn
      <3>4. /\ message'[c] # "answer"
            /\ message'[c] = "request" => message[c] = "request"
        BY <3>1
      <3> QED BY <3>1, <3>2, <3>3, <3>4 DEF CallReport
    <2>2. ASSUME NEW d \in Calls, d # c PROVE CallReport(d)'
      <3>1. /\ stage'[d] = stage[d] /\ message'[d] = message[d] /\ req' = req
            /\ reply'[d] = reply[d] /\ result'[d] = result[d] /\ commits' = commits
        BY <1>4, <2>2 DEF GiveUp, TypeOK, ReportInv
      <3> QED BY <1>0, <1>f, <3>1, ReportKept
    <2>3. /\ reply' = [d \in Calls |-> reply'[d]]
          /\ result' = [d \in Calls |-> result'[d]] /\ commits' = commits
      BY <1>4 DEF GiveUp, ReportInv
    <2> QED BY <2>1, <2>2, <2>3 DEF ReportInv
  <1>5. ASSUME NEW c \in Calls, NEW r \in Requests, Refuse(c, r) PROVE ReportInv'
    <2>1. CallReport(c)'
      <3>1. /\ stage'[c] = "returned" /\ result'[c] = Fill(r.entries) /\ req'[c] = r
            /\ message' = message /\ commits' = commits
        BY <1>5 DEF Refuse, TypeOK, ReportInv
      <3>2. commits[c] = <<>> /\ message[c] = "none"
        BY <1>0, <1>5 DEF CallReport, Refuse
      <3>3. FilledIn(c, result[c])'
        <4>1. DOMAIN Fill(r.entries) = DOMAIN r.entries
          BY DEF Fill
        <4>2. ASSUME NEW i \in DOMAIN r.entries
              PROVE  Fill(r.entries)[i].err /\ (Fill(r.entries)[i].throttled <=> ~failOpen)
          BY DEF Fill
        <4> QED BY <1>f, <3>1, <4>1, <4>2 DEF FilledIn
      <3> QED BY <3>1, <3>2, <3>3 DEF CallReport
    <2>2. ASSUME NEW d \in Calls, d # c PROVE CallReport(d)'
      <3>1. /\ stage'[d] = stage[d] /\ message' = message /\ req'[d] = req[d]
            /\ reply' = reply /\ result'[d] = result[d] /\ commits' = commits
        BY <1>5, <2>2 DEF Refuse, TypeOK, ReportInv
      <3> QED BY <1>0, <1>f, <3>1, ReportKept
    <2>3. reply' = reply /\ result' = [d \in Calls |-> result'[d]] /\ commits' = commits
      BY <1>5 DEF Refuse, ReportInv
    <2> QED BY <2>1, <2>2, <2>3 DEF ReportInv
  <1>6. ASSUME NEW c \in Calls, NEW r \in Requests, NEW p \in Processes, Submit(c, p, r)
        PROVE  ReportInv'
    <2>1. CallReport(c)'
      <3>1. /\ stage'[c] = "waiting" /\ message'[c] = "request" /\ commits' = commits
        BY <1>6 DEF Submit, TypeOK
      <3>2. commits[c] = <<>>
        BY <1>0, <1>6 DEF CallReport, Submit
      <3> QED BY <3>1, <3>2 DEF CallReport
    <2>2. ASSUME NEW d \in Calls, d # c PROVE CallReport(d)'
      <3>1. /\ stage'[d] = stage[d] /\ message'[d] = message[d] /\ req'[d] = req[d]
            /\ reply' = reply /\ result' = result /\ commits' = commits
        BY <1>6, <2>2 DEF Submit, TypeOK
      <3> QED BY <1>0, <1>f, <3>1, ReportKept
    <2>3. reply' = reply /\ result' = result /\ commits' = commits
      BY <1>6 DEF Submit
    <2> QED BY <2>1, <2>2, <2>3 DEF ReportInv
  <1>7. ASSUME NEW c \in Calls, Serve(c) PROVE ReportInv'
    <2> DEFINE es == req[c].entries
               t  == tats[home[c]]
               a  == Answer(es, t)
               ok == Group(es, t, clock)[Len(es)].admitted
    <2>0. message[c] = "request" /\ commits[c] = <<>> /\ stage' = stage /\ req' = req
          /\ result' = result
      BY <1>0, <1>7 DEF Serve, CallReport
    <2>1. clock \in Time /\ commits \in [Calls -> Seq(Time)]
      BY DEF TypeOK, ReportInv
    <2>2. commits' = IF Real(es) # {} /\ ok THEN [commits EXCEPT ![c] = Append(@, clock)]
                     ELSE commits
      BY <1>7 DEF Serve
    <2>3. /\ reply'[c] = (IF stage[c] = "waiting" THEN a ELSE <<>>)
          /\ message'[c] = (IF stage[c] = "waiting" THEN "answer" ELSE "none")
          /\ reply' = [d \in Calls |-> reply'[d]]
      BY <1>7 DEF Serve, TypeOK, ReportInv
    <2>4. /\ DOMAIN a = DOMAIN es /\ \A i \in DOMAIN es : ~a[i].err
          /\ ok <=> \A i \in Real(es) : ~a[i].throttled
      BY AnswerIsTruthful
    <2> HIDE DEF ok, a
    <2>5. /\ commits' \in [Calls -> Seq(Time)]
          /\ commits'[c] = IF Real(es) # {} /\ ok THEN <<clock>> ELSE <<>>
          /\ \A d \in Calls : d # c => commits'[d] = commits[d]
      <3>1. Append(commits[c], clock) = <<clock>> /\ <<clock>> \in Seq(Time)
        BY <2>0, <2>1
      <3> HIDE DEF es
      <3>2. CASE Real(es) # {} /\ ok
        <4>1. commits' = [commits EXCEPT ![c] = <<clock>>]
          BY <2>2, <3>1, <3>2
        <4> QED BY <2>1, <3>1, <3>2, <4>1
      <3>3. CASE ~(Real(es) # {} /\ ok)
        <4>1. commits' = commits
          BY <2>2, <3>3
        <4> QED BY <2>0, <2>1, <3>3, <4>1
      <3> QED BY <3>2, <3>3
    <2>6. Len(commits'[c]) <= 1
      <3>1. commits'[c] = <<clock>> \/ commits'[c] = <<>>
        BY <2>5
      <3>2. Len(<<clock>>) = 1 /\ Len(<<>>) = 0
        OBVIOUS
      <3>3. Len(commits'[c]) = 1 \/ Len(commits'[c]) = 0
        BY <3>1, <3>2, Zenon
      <3> DEFINE k == Len(commits'[c])
      <3>4. k = 1 \/ k = 0
        BY <3>3
      <3> HIDE DEF k
      <3>5. k <= 1
        BY <3>4
      <3> QED BY <3>5 DEF k
    <2>7. CallReport(c)'
      <3>1. CASE stage[c] = "waiting"
        <4>1. message'[c] = "answer" /\ reply'[c] = a
          BY <2>3, <3>1
        <4>2. Truthful(c, reply[c])'
          <5>1. Real(es) # {} => (commits'[c] # <<>> <=> ok)
            BY <2>5
          <5> QED BY <2>0, <2>4, <4>1, <5>1 DEF Truthful
        <4> QED BY <2>0, <2>6, <3>1, <4>1, <4>2 DEF CallReport
      <3>2. CASE stage[c] # "waiting"
        <4>1. message'[c] = "none" /\ stage[c] = "returned"
          BY <1>0, <2>0, <2>3, <3>2 DEF CallReport, TypeOK
        <4>2. FilledIn(c, result[c])
          BY <1>0, <2>0, <4>1 DEF CallReport
        <4>3. FilledIn(c, result[c])'
          BY <1>f, <2>0, <4>2 DEF FilledIn
        <4> QED BY <2>0, <2>6, <4>1, <4>3 DEF CallReport
      <3> QED BY <3>1, <3>2
    <2>8. ASSUME NEW d \in Calls, d # c PROVE CallReport(d)'
      <3>1. message'[d] = message[d] /\ reply'[d] = reply[d]
        BY <1>7, <2>8 DEF Serve, TypeOK, ReportInv
      <3> QED BY <1>0, <1>f, <2>0, <2>5, <2>8, <3>1, ReportKept
    <2> QED BY <2>0, <2>3, <2>5, <2>7, <2>8 DEF ReportInv
  <1>8. CASE Tick
    BY <1>1, <1>8 DEF Tick
  <1>9. ASSUME NEW p \in Processes, CloseShard(p) PROVE ReportInv'
    BY <1>1, <1>9 DEF CloseShard
  <1>10. ASSUME NEW p \in Processes, NEW n \in Sizes, Resize(p, n) PROVE ReportInv'
    BY <1>1, <1>10 DEF Resize
  <1>11. CASE UNCHANGED vars
    BY <1>1, <1>11 DEF vars
  <1> QED BY <1>2, <1>3, <1>4, <1>5, <1>6, <1>7, <1>8, <1>9, <1>10, <1>11 DEF Next

LEMMA ReportInit == Init => ReportInv
  <1> SUFFICES ASSUME Init PROVE ReportInv
    OBVIOUS
  <1>1. ASSUME NEW c \in Calls PROVE CallReport(c)
    BY DEF Init, CallReport
  <1> QED BY <1>1 DEF Init, ReportInv

\* However a call ends, and whatever is lost, late or restarted, its group is
\* committed at most once, and the client never reports a commit that did not
\* happen or hides one that did, except where it reports an error.
THEOREM ReportsAreTrue == Spec => []ReportIsTrue
  <1>1. TypeOK /\ ReportInv => ReportIsTrue
    <2> SUFFICES ASSUME TypeOK, ReportInv, NEW c \in Calls
                 PROVE  LET real    == Real(req[c].entries)
                            goAhead == \A i \in real : ~result[c][i].throttled
                            failed  == \E i \in DOMAIN result[c] : result[c][i].err
                        IN  /\ Len(commits[c]) <= 1
                            /\ (stage[c] = "returned" /\ real # {}) =>
                                 IF goAhead THEN commits[c] # <<>> \/ (failed /\ failOpen)
                                            ELSE commits[c] = <<>> \/ failed
      BY DEF ReportIsTrue
    <2> DEFINE real    == Real(req[c].entries)
               goAhead == \A i \in real : ~result[c][i].throttled
               failed  == \E i \in DOMAIN result[c] : result[c][i].err
    <2>1. CallReport(c)
      BY DEF ReportInv
    <2>2. Len(commits[c]) <= 1
      BY <2>1 DEF CallReport
    <2>3. ASSUME stage[c] = "returned", real # {}
          PROVE  IF goAhead THEN commits[c] # <<>> \/ (failed /\ failOpen)
                            ELSE commits[c] = <<>> \/ failed
      <3>1. PICK j \in real : j \in DOMAIN req[c].entries
        BY <2>3 DEF Real
      <3>2. CASE FilledIn(c, result[c])
        <4>1. failed
          BY <3>1, <3>2 DEF FilledIn
        <4>2. goAhead => failOpen
          BY <3>1, <3>2 DEF FilledIn
        <4> QED BY <4>1, <4>2
      <3>3. CASE Truthful(c, result[c])
        <4>1. commits[c] # <<>> <=> goAhead
          BY <2>3, <3>3 DEF Truthful
        <4> QED BY <4>1
      <3> QED BY <2>1, <2>3, <3>2, <3>3 DEF CallReport
    <2> QED BY <2>2, <2>3
  <1> QED BY <1>1, ReportInit, ReportStep, FleetTypeCorrect, PTL DEF Spec
-----------------------------------------------------------------------------
(***************************************************************************)
(* The budget of the fleet.  What all shards together admitted for a key   *)
(* since a window began is held in their buckets, or drained from them, or *)
(* was lost with a restart.  A bucket holds at most one burst beyond the   *)
(* present, so a restart loses at most one, and the buckets that matter    *)
(* are those of the shards some number of shards in use routes the key to. *)
(***************************************************************************)

\* All real entries on k have the limit l.
OneLimit(es, k, l) == \A i \in Real(es) : es[i].key = k => es[i].limit = l

\* Charging ch moved a TAT from a to b at the instant s: by as much as the
\* charge drains in, and not beyond a burst.
Paid(l, s, a, b, ch) ==
  \/ ch = 0 /\ b = a
  \/ /\ Sound(l) /\ b <= s + Debt(l)
     /\ Units(l) * max(a, s) + ch * l.period <= Units(l) * max(b, s)

\* One more entry is paid for.
LEMMA PaidEntry ==
  ASSUME NEW K, NEW e \in EntryOf(K), NEW s \in Nat, NEW a \in Nat, NEW b \in Nat,
         NEW ch \in Nat, Paid(e.limit, s, a, b, ch), ~CheckEntry(b, s, e).throttled
  PROVE  /\ CheckEntry(b, s, e).tat \in Nat /\ EffectiveCost(e.cost) \in Nat
         /\ Paid(e.limit, s, a, CheckEntry(b, s, e).tat, ch + EffectiveCost(e.cost))
  <1> DEFINE l  == e.limit
             d  == CheckEntry(b, s, e).tat
             co == EffectiveCost(e.cost)
             u  == Units(l)
             per == l.period
             A  == u * max(a, s)
             B  == u * max(b, s)
             D  == u * max(d, s)
  <1>1. /\ Sound(l) /\ d \in Nat /\ co \in Nat
        /\ u * b + co * per <= u * d /\ u * s + co * per <= u * d
        /\ d <= s + Debt(l)
    BY AdmissionCharges
  <1>2. u \in Nat \ {0} /\ per \in Nat \ {0}
    <2>1. l \in LimitOf
      BY DEF EntryOf
    <2> QED BY <1>1, <2>1, SoundLimitBounds
  <1>p. Paid(l, s, a, b, ch)
    OBVIOUS
  <1> HIDE DEF l, d, co, u, per
  <1>3. max(a, s) \in Nat /\ max(b, s) \in Nat /\ max(d, s) \in Nat
    BY <1>1 DEF max
  <1>4. A \in Nat /\ B \in Nat /\ D \in Nat /\ co * per \in Nat /\ ch * per \in Nat
        /\ u * d \in Nat
    BY <1>1, <1>2, <1>3, ProductNat
  <1>5. u * d <= D
    <2>1. d <= max(d, s)
      BY <1>1 DEF max
    <2> QED BY <1>1, <1>2, <1>3, <2>1, Scale
  <1>6. B + co * per <= u * d
    <2>1. B = u * b \/ B = u * s
      BY DEF max
    <2> QED BY <1>1, <2>1
  <1>7. (ch + co) * per = ch * per + co * per
    BY <1>1, <1>2
  <1>8. A + ch * per <= B
    <2>1. CASE ch = 0 /\ b = a
      BY <1>2, <1>4, <2>1
    <2>2. CASE ~(ch = 0 /\ b = a)
      BY <1>p, <2>2 DEF Paid, u, per
    <2> QED BY <2>1, <2>2
  <1> HIDE DEF A, B, D
  <1>9. A + (ch + co) * per <= D
    <2> DEFINE x == ch * per
               y == co * per
               z == u * d
    <2>1. /\ x \in Nat /\ y \in Nat /\ z \in Nat /\ A \in Nat /\ B \in Nat /\ D \in Nat
          /\ z <= D /\ B + y <= z /\ A + x <= B /\ (ch + co) * per = x + y
      BY <1>4, <1>5, <1>6, <1>7, <1>8
    <2> HIDE DEF x, y, z
    <2> QED BY <2>1
  <1>10. Paid(l, s, a, d, ch + co)
    BY <1>1, <1>9 DEF Paid, A, D, u, per
  <1> QED BY <1>1, <1>10 DEF l, d, co

\* A group that stands has paid for what it charges a key.
LEMMA GroupPays ==
  ASSUME NEW K, NEW es \in Seq(EntryOf(K)), NEW t \in [K -> Nat], NEW s \in Nat,
         NEW k \in K, NEW l, OneLimit(es, k, l)
  PROVE  \A n \in 0..Len(es) :
           Group(es, t, s)[n].admitted =>
             Paid(l, s, t[k], Group(es, t, s)[n].tats[k], Sums(Costs(es, k), Len(es))[n])
  <1> DEFINE g == Group(es, t, s)
             q == Sums(Costs(es, k), Len(es))
             P == {n \in Nat : g[n].admitted => Paid(l, s, t[k], g[n].tats[k], q[n])}
  <1>0. /\ Len(es) \in Nat /\ DOMAIN es = 1..Len(es)
        /\ \A n \in 1..Len(es) : es[n] \in EntryOf(K)
    OBVIOUS
  <1>1. g[0] = GroupStart(t) /\ \A n \in 1..Len(es) : g[n] = GroupStep(g[n-1], es[n], s)
    BY <1>0, GroupUnfolds
  <1>2. \A n \in 0..Len(es) : g[n] \in [tats : [K -> Nat], admitted : BOOLEAN]
    BY GroupType
  <1>c. \A i \in 1..Len(es) : Costs(es, k)[i] \in Nat
    BY CostsType
  <1>3. q[0] = 0 /\ \A n \in 1..Len(es) : q[n] = q[n-1] + Costs(es, k)[n]
    BY <1>0, SumsUnfold
  <1>4. \A n \in 0..Len(es) : q[n] \in Nat
    BY <1>0, <1>c, SumsType
  <1> HIDE DEF g, q
  <1>5. 0 \in P
    <2>1. g[0].tats[k] = t[k]
      BY <1>1 DEF GroupStart
    <2>2. Paid(l, s, t[k], g[0].tats[k], q[0])
      BY <1>3, <2>1 DEF Paid
    <2> QED BY <2>2
  <1>6. ASSUME NEW n \in 1..Len(es), n - 1 \in P PROVE n \in P
    <2> DEFINE h == g[n-1]
               e == es[n]
               b == h.tats[e.key]
               v == CheckEntry(b, s, e)
    <2>0. n - 1 \in 0..Len(es)
      BY <1>0
    <2>1. h \in [tats : [K -> Nat], admitted : BOOLEAN] /\ e \in EntryOf(K)
      BY <1>0, <1>2, <2>0
    <2>2. g[n] = GroupStep(h, e, s)
      BY <1>1
    <2>3. q[n-1] \in Nat /\ q[n] = q[n-1] + Costs(es, k)[n]
      BY <1>3, <1>4, <2>0
    <2>4. Costs(es, k)[n] = IF e.peek \/ e.key # k THEN 0 ELSE EffectiveCost(e.cost)
      BY <1>0 DEF Costs
    <2>5. h.admitted => Paid(l, s, t[k], h.tats[k], q[n-1])
      BY <1>6
    <2>6. ~e.peek /\ e.key = k => e.limit = l
      BY <1>0 DEF OneLimit, Real
    <2> HIDE DEF h, e
    <2>7. e.key \in K /\ b \in Nat /\ h.tats[k] \in Nat /\ t[k] \in Nat
      BY <2>1 DEF EntryOf
    <2> SUFFICES ASSUME g[n].admitted PROVE Paid(l, s, t[k], g[n].tats[k], q[n])
      OBVIOUS
    <2>8. CASE e.peek
      <3>1. g[n] = h
        BY <2>2, <2>8 DEF GroupStep
      <3>2. q[n] = q[n-1]
        BY <2>3, <2>4, <2>8
      <3> QED BY <2>5, <3>1, <3>2
    <2>9. CASE ~e.peek /\ v.throttled
      <3>1. g[n] = [h EXCEPT !.admitted = FALSE]
        BY <2>2, <2>9 DEF GroupStep
      <3>2. ~g[n].admitted
        BY <2>1, <3>1
      <3> QED BY <3>2
    <2>10. CASE ~e.peek /\ ~v.throttled
      <3> DEFINE d == v.tat
      <3>1. g[n] = [h EXCEPT !.tats[e.key] = d]
        BY <2>2, <2>10 DEF GroupStep
      <3> HIDE DEF d
      <3>2. /\ g[n].admitted = h.admitted
            /\ g[n].tats[k] = IF e.key = k THEN d ELSE h.tats[k]
        <4>1. g[n].admitted = h.admitted
          BY <2>1, <3>1
        <4>2. g[n].tats = [h.tats EXCEPT ![e.key] = d]
          BY <2>1, <3>1
        <4>3. h.tats \in [K -> Nat]
          BY <2>1
        <4> QED BY <4>1, <4>2, <4>3
      <3>3. Paid(l, s, t[k], h.tats[k], q[n-1])
        BY <2>5, <3>2
      <3>4. CASE e.key # k
        <4>1. q[n] = q[n-1] /\ g[n].tats[k] = h.tats[k]
          BY <2>3, <2>4, <3>2, <3>4
        <4> QED BY <3>3, <4>1
      <3>5. CASE e.key = k
        <4>1. q[n] = q[n-1] + EffectiveCost(e.cost) /\ g[n].tats[k] = d /\ e.limit = l
          BY <2>3, <2>4, <2>6, <2>10, <3>2, <3>5
        <4>2. Paid(e.limit, s, t[k], b, q[n-1])
          BY <3>3, <3>5, <4>1
        <4>3. Paid(e.limit, s, t[k], CheckEntry(b, s, e).tat, q[n-1] + EffectiveCost(e.cost))
          <5> DEFINE x == t[k]
                     y == q[n-1]
          <5>1. x \in Nat /\ y \in Nat /\ Paid(e.limit, s, x, b, y)
            BY <2>3, <2>7, <4>2
          <5> HIDE DEF x, y, b
          <5>2. b \in Nat /\ ~CheckEntry(b, s, e).throttled
            BY <2>7, <2>10 DEF b
          <5>3. Paid(e.limit, s, x, CheckEntry(b, s, e).tat, y + EffectiveCost(e.cost))
            BY <2>1, <5>1, <5>2, PaidEntry
          <5> QED BY <5>3 DEF x, y, b
        <4> QED BY <4>1, <4>3 DEF d
      <3> QED BY <3>4, <3>5
    <2> QED BY <2>8, <2>9, <2>10
  <1>7. 0..Len(es) \subseteq P
    <2> HIDE DEF P
    <2> QED BY <1>0, <1>5, <1>6, SegmentInduction
  <1> QED BY <1>7 DEF g, q

\* A request on its way goes to the shard that some number of shards in use
\* gives it.
RouteInv ==
  /\ \A p \in Processes : size[p] \in sizes
  /\ \A c \in Calls : message[c] = "request" =>
       req[c] \in Requests /\ \E n \in sizes : home[c] = shardFor(req[c], n)

LEMMA RouteStep ==
  ASSUME TypeOK, ReportInv, RouteInv, [Next]_vars
  PROVE  RouteInv'
  <1>1. ASSUME size' = size, sizes' = sizes, req' = req, home' = home,
               \A c \in Calls : message'[c] = "request" => message[c] = "request"
        PROVE  RouteInv'
    BY <1>1 DEF RouteInv, shardFor
  <1>2. CASE Tick \/ UNCHANGED vars
    BY <1>1, <1>2 DEF Tick, vars, fleetVars, callVars
  <1>3. ASSUME NEW s \in Shards, Restart(s) PROVE RouteInv'
    BY <1>1, <1>3 DEF Restart
  <1>4. ASSUME NEW p \in Processes, CloseShard(p) PROVE RouteInv'
    BY <1>1, <1>4 DEF CloseShard, callVars
  <1>5. ASSUME NEW p \in Processes, NEW n \in Sizes, Resize(p, n) PROVE RouteInv'
    <2>1. /\ size' = [size EXCEPT ![p] = n] /\ sizes' = sizes \cup {n}
          /\ message' = message /\ req' = req /\ home' = home
      BY <1>5 DEF Resize, callVars
    <2>2. ASSUME NEW q \in Processes PROVE size'[q] \in sizes'
      BY <2>1 DEF RouteInv, TypeOK
    <2> QED BY <2>1, <2>2 DEF RouteInv, shardFor
  <1>6. ASSUME NEW c \in Calls, Receive(c) \/ GiveUp(c) \/ Serve(c) PROVE RouteInv'
    <2>1. /\ size' = size /\ sizes' = sizes /\ req' = req /\ home' = home
          /\ message' = [message EXCEPT ![c] = message'[c]]
          /\ message'[c] = "request" => message[c] = "request"
      BY <1>6 DEF Receive, GiveUp, Serve, fleetVars, TypeOK
    <2> QED BY <1>1, <2>1 DEF TypeOK
  <1>7. ASSUME NEW c \in Calls, NEW r \in Requests, Refuse(c, r) PROVE RouteInv'
    <2>1. /\ size' = size /\ sizes' = sizes /\ home' = home /\ message' = message
          /\ req' = [req EXCEPT ![c] = r] /\ stage[c] = "idle"
      BY <1>7 DEF Refuse, fleetVars
    <2>2. message[c] = "none"
      BY <2>1 DEF ReportInv, CallReport
    <2>3. ASSUME NEW d \in Calls, message[d] = "request" PROVE req'[d] = req[d]
      BY <2>1, <2>2, <2>3 DEF TypeOK
    <2> QED BY <2>1, <2>3 DEF RouteInv, shardFor
  <1>8. ASSUME NEW c \in Calls, NEW r \in Requests, NEW p \in Processes, Submit(c, p, r)
        PROVE  RouteInv'
    <2>1. /\ size' = size /\ sizes' = sizes
          /\ home' = [home EXCEPT ![c] = shardFor(r, size[p])]
          /\ req' = [req EXCEPT ![c] = r] /\ message' = [message EXCEPT ![c] = "request"]
      BY <1>8 DEF Submit, fleetVars
    <2>2. size[p] \in sizes /\ req'[c] = r /\ home'[c] = shardFor(r, size[p])
      BY <2>1 DEF RouteInv, TypeOK
    <2>3. ASSUME NEW d \in Calls, d # c
          PROVE  req'[d] = req[d] /\ home'[d] = home[d] /\ message'[d] = message[d]
      BY <2>1, <2>3 DEF TypeOK
    <2>4. ASSUME NEW d \in Calls, message'[d] = "request"
          PROVE  req'[d] \in Requests /\ \E n \in sizes' : home'[d] = shardFor(req'[d], n)
      <3>1. CASE d = c
        BY <2>1, <2>2, <3>1
      <3>2. CASE d # c
        BY <2>1, <2>3, <2>4, <3>2 DEF RouteInv
      <3> QED BY <3>1, <3>2
    <2> QED BY <2>1, <2>4 DEF RouteInv, shardFor
  <1> QED BY <1>2, <1>3, <1>4, <1>5, <1>6, <1>7, <1>8 DEF Next

\* The shards that the numbers of shards in use so far give a request.
Homes(r) == {shardFor(r, n) : n \in sizes}

Burst(l)   == l.capacity * l.period
Room(l, w) == Burst(l) + Units(l) * (w[2] - w[1])

Low(a, b) == IF a <= b THEN a ELSE b

\* What a bucket accounts for: all it holds at c or has drained since the
\* window began, as far as the window has room for it.
Held(t, c, l, w) == Low(Units(l) * (max(t, c) - w[1]), Room(l, w))

Share(r, k, l, w, s) == IF s \in Homes(r) THEN Held(tats[s][k], clock, l, w) ELSE 0

Holds(r, k, l, w) == [i \in 1..Max(Sizes) |-> Share(r, k, l, w, i - 1)]

Hold(r, k, l, w) == Sums(Holds(r, k, l, w), Max(Sizes))[Max(Sizes)]

\* What was committed in a window is in the buckets, or was lost with them.
SpentIsHeld(r, k, l, w) ==
  IF clock < w[1] THEN spent[k][w] = 0
  ELSE spent[k][w] * l.period <= restarts * Burst(l) + Hold(r, k, l, w)

\* The books of a key k with the limit l, which r names: no bucket is further
\* ahead than a burst, and what was spent is held; under a limit that admits
\* nothing, nothing was spent.
Kept(r, k, l) ==
  IF Sound(l) THEN /\ \A s \in Shards : tats[s][k] <= clock + Debt(l)
                   /\ \A w \in Windows : SpentIsHeld(r, k, l, w)
  ELSE \A w \in Windows : spent[k][w] = 0

Governs(r, k, l) ==
  /\ \E i \in Real(r.entries) : r.entries[i].key = k /\ r.entries[i].limit = l
  /\ Agreed(k, l)

BudgetInv ==
  /\ RouteInv
  /\ \A r \in Requests, k \in Keys, l \in LimitOf : Governs(r, k, l) => Kept(r, k, l)

\* What a window has room for is a number.
LEMMA RoomType ==
  ASSUME NEW l \in LimitOf, Sound(l), NEW w \in Windows
  PROVE  Burst(l) \in Nat /\ Room(l, w) \in Nat
  <1>1. Units(l) \in Nat \ {0} /\ l.capacity \in Nat /\ l.period \in Nat
    BY SoundLimitBounds
  <1>2. w[2] - w[1] \in Nat
    BY WindowType
  <1>3. Burst(l) \in Nat /\ Units(l) * (w[2] - w[1]) \in Nat
    BY <1>1, <1>2, ProductNat DEF Burst
  <1> QED BY <1>3 DEF Room

\* What a bucket accounts for is a number, no more than the window's room.
LEMMA HeldType ==
  ASSUME NEW l \in LimitOf, Sound(l), NEW w \in Windows, NEW t \in Nat, NEW c \in Nat,
         w[1] <= c
  PROVE  /\ Burst(l) \in Nat /\ Room(l, w) \in Nat
         /\ Held(t, c, l, w) \in Nat /\ Held(t, c, l, w) <= Room(l, w)
  <1>1. Units(l) \in Nat /\ Burst(l) \in Nat /\ Room(l, w) \in Nat
    BY SoundLimitBounds, RoomType
  <1>2. max(t, c) - w[1] \in Nat
    BY WindowType DEF max
  <1>3. Units(l) * (max(t, c) - w[1]) \in Nat
    BY <1>1, <1>2, ProductNat
  <1> QED BY <1>1, <1>3 DEF Held, Low

\* What a shard accounts for is a number.
LEMMA ShareType ==
  ASSUME TypeOK, NEW r \in Requests, NEW k \in Keys, NEW l \in LimitOf, Sound(l),
         NEW w \in Windows, w[1] <= clock, NEW s \in Shards
  PROVE  Held(tats[s][k], clock, l, w) \in Nat /\ Share(r, k, l, w, s) \in Nat
  <1>1. tats[s][k] \in Nat /\ clock \in Nat
    BY FleetAssumption, WidthAssumption DEF TypeOK, Time
  <1>2. Held(tats[s][k], clock, l, w) \in Nat
    BY <1>1, HeldType
  <1> QED BY <1>2 DEF Share

LEMMA HoldType ==
  ASSUME TypeOK, NEW r \in Requests, NEW k \in Keys, NEW l \in LimitOf, Sound(l),
         NEW w \in Windows, w[1] <= clock
  PROVE  /\ Max(Sizes) \in Nat \ {0}
         /\ \A i \in 1..Max(Sizes) : Holds(r, k, l, w)[i] \in Nat
         /\ Hold(r, k, l, w) \in Nat
  <1>1. Max(Sizes) \in Nat \ {0}
    BY MaxSizes, FleetAssumption
  <1>2. ASSUME NEW i \in 1..Max(Sizes) PROVE Holds(r, k, l, w)[i] \in Nat
    <2>1. i - 1 \in Shards
      BY <1>1 DEF Shards
    <2>2. Share(r, k, l, w, i - 1) \in Nat
      BY <2>1, ShareType
    <2> QED BY <2>2 DEF Holds
  <1>3. \A n \in 0..Max(Sizes) : Sums(Holds(r, k, l, w), Max(Sizes))[n] \in Nat
    BY <1>1, <1>2, SumsType
  <1>4. Max(Sizes) \in 0..Max(Sizes)
    BY <1>1
  <1> QED BY <1>1, <1>2, <1>3, <1>4 DEF Hold

\* The same after a step.
LEMMA HoldTypePrime ==
  ASSUME TypeOK', NEW r \in Requests, NEW k \in Keys, NEW l \in LimitOf, Sound(l),
         NEW w \in Windows, w[1] <= clock'
  PROVE  /\ \A s \in Shards : Share(r, k, l, w, s)' \in Nat
         /\ \A i \in 1..Max(Sizes) : Holds(r, k, l, w)'[i] \in Nat
         /\ Hold(r, k, l, w)' \in Nat
  <1> DEFINE f == Holds(r, k, l, w)'
  <1>1. Max(Sizes) \in Nat \ {0}
    BY MaxSizes, FleetAssumption
  <1>2. ASSUME NEW s \in Shards PROVE Share(r, k, l, w, s)' \in Nat
    <2>1. tats'[s][k] \in Nat /\ clock' \in Nat
      BY FleetAssumption, WidthAssumption DEF TypeOK, Time
    <2>2. Held(tats'[s][k], clock', l, w) \in Nat
      BY <2>1, HeldType
    <2> QED BY <2>2 DEF Share
  <1>3. ASSUME NEW i \in 1..Max(Sizes) PROVE f[i] \in Nat
    <2>1. i - 1 \in Shards
      BY <1>1 DEF Shards
    <2>2. Share(r, k, l, w, i - 1)' \in Nat
      BY <1>2, <2>1
    <2> QED BY <2>2 DEF Holds
  <1> HIDE DEF f
  <1>4. \A n \in 0..Max(Sizes) : Sums(f, Max(Sizes))[n] \in Nat
    BY <1>1, <1>3, SumsType
  <1>5. Max(Sizes) \in 0..Max(Sizes)
    BY <1>1
  <1> QED BY <1>2, <1>3, <1>4, <1>5 DEF Hold, f

\* If one shard's account changes by at least d and no other's shrinks, the
\* account of all changes by at least d.
LEMMA HoldCompare ==
  ASSUME TypeOK, TypeOK', NEW r \in Requests, NEW k \in Keys, NEW l \in LimitOf, Sound(l),
         NEW w \in Windows, w[1] <= clock, w[1] <= clock', NEW j \in Shards, NEW d \in Int,
         \A s \in Shards : s # j => Share(r, k, l, w, s) <= Share(r, k, l, w, s)',
         Share(r, k, l, w, j) + d <= Share(r, k, l, w, j)'
  PROVE  Hold(r, k, l, w) + d <= Hold(r, k, l, w)'
  <1> DEFINE m == Max(Sizes)
             f == Holds(r, k, l, w)
             g == Holds(r, k, l, w)'
  <1>1. m \in Nat /\ \A i \in 1..m : f[i] \in Nat
    BY HoldType
  <1>2. \A i \in 1..m : g[i] \in Nat
    BY HoldTypePrime
  <1>3. j + 1 \in 1..m /\ (j + 1) - 1 = j
    BY <1>1 DEF Shards
  <1>4. Above(f, g, m, j + 1, d)
    <2>1. ASSUME NEW i \in 1..m, i # j + 1 PROVE f[i] <= g[i]
      <3>1. i - 1 \in Shards /\ i - 1 # j
        BY <1>1, <1>3, <2>1 DEF Shards
      <3>2. Share(r, k, l, w, i - 1) <= Share(r, k, l, w, i - 1)'
        BY <3>1
      <3> QED BY <3>2 DEF Holds
    <2>2. f[j+1] + d <= g[j+1]
      BY <1>3 DEF Holds
    <2> QED BY <2>1, <2>2 DEF Above
  <1> HIDE DEF f, g, m
  <1>5. Sums(f, m)[m] + d <= Sums(g, m)[m]
    BY <1>1, <1>2, <1>3, <1>4, SumsCompare
  <1> QED BY <1>5 DEF Hold, f, g, m

\* A bucket's account shrinks by no more than its TAT falls behind.
LEMMA HeldDrops ==
  ASSUME NEW l \in LimitOf, Sound(l), NEW w \in Windows, NEW a \in Nat, NEW b \in Nat,
         NEW c \in Nat, NEW d \in Nat, NEW z \in Nat,
         Units(l) * max(a, c) <= Units(l) * max(b, d) + z
  PROVE  Held(a, c, l, w) - z <= Held(b, d, l, w)
  <1> DEFINE u == Units(l)
             R == Room(l, w)
             x == u * max(a, c)
             y == u * max(b, d)
             o == u * w[1]
  <1>1. u \in Nat /\ R \in Nat /\ w[1] \in Nat
    BY SoundLimitBounds, RoomType, WindowType
  <1>2. max(a, c) \in Nat /\ max(b, d) \in Nat
    BY DEF max
  <1>3. x \in Nat /\ y \in Nat /\ o \in Nat
    <2> HIDE DEF u
    <2> QED BY <1>1, <1>2, ProductNat
  <1>4. u * (max(a, c) - w[1]) = x - o /\ u * (max(b, d) - w[1]) = y - o
    <2> HIDE DEF u
    <2> QED BY <1>1, <1>2, SMT
  <1>5. Held(a, c, l, w) = Low(x - o, R) /\ Held(b, d, l, w) = Low(y - o, R)
    BY <1>4 DEF Held
  <1>6. x <= y + z
    OBVIOUS
  <1> HIDE DEF u, R, x, y, o
  <1>7. Low(x - o, R) - z <= Low(y - o, R)
    BY <1>1, <1>3, <1>6 DEF Low
  <1> QED BY <1>5, <1>7

\* Within the window a bucket's account grows by what it is charged.
LEMMA HeldPays ==
  ASSUME NEW l \in LimitOf, NEW w \in Windows, NEW a \in Nat, NEW b \in Nat, NEW ch \in Nat,
         NEW c \in Nat, c <= w[2], Sound(l), b <= c + Debt(l),
         Units(l) * max(a, c) + ch * l.period <= Units(l) * max(b, c)
  PROVE  Held(a, c, l, w) + ch * l.period <= Held(b, c, l, w)
  <1> DEFINE u == Units(l)
             R == Room(l, w)
             x == u * max(a, c)
             y == u * max(b, c)
             o == u * w[1]
             e == u * w[2]
             z == ch * l.period
  <1>1. /\ u \in Nat /\ R \in Nat /\ w[1] \in Nat /\ w[2] \in Nat /\ l.period \in Nat
        /\ Debt(l) \in Nat /\ u * Debt(l) <= Burst(l) /\ Burst(l) \in Nat
    BY SoundLimitBounds, RoomType, WindowType DEF Burst
  <1>2. max(a, c) \in Nat /\ max(b, c) \in Nat /\ max(b, c) <= w[2] + Debt(l)
    BY <1>1 DEF max
  <1>3. x \in Nat /\ y \in Nat /\ o \in Nat /\ e \in Nat /\ z \in Nat /\ u * Debt(l) \in Nat
    <2> HIDE DEF u
    <2> QED BY <1>1, <1>2, ProductNat
  <1>4. /\ u * (max(a, c) - w[1]) = x - o /\ u * (max(b, c) - w[1]) = y - o
        /\ u * (w[2] - w[1]) = e - o /\ u * (w[2] + Debt(l)) = e + u * Debt(l)
    <2> HIDE DEF u
    <2> QED BY <1>1, <1>2, SMT
  <1>5. Held(a, c, l, w) = Low(x - o, R) /\ Held(b, c, l, w) = Low(y - o, R)
    BY <1>4 DEF Held
  <1>6. R = Burst(l) + (e - o)
    BY <1>4 DEF Room
  <1>7. y <= e + u * Debt(l)
    <2>1. u * max(b, c) <= u * (w[2] + Debt(l))
      <3> HIDE DEF u
      <3> QED BY <1>1, <1>2, Scale
    <2> QED BY <1>4, <2>1
  <1>8. x + z <= y
    OBVIOUS
  <1> DEFINE D == u * Debt(l)
             C == Burst(l)
  <1>9. D \in Nat /\ C \in Nat /\ D <= C /\ y <= e + D /\ R = C + (e - o)
    BY <1>1, <1>3, <1>6, <1>7
  <1> HIDE DEF u, R, x, y, o, e, z, D, C
  <1>10. Low(x - o, R) + z <= Low(y - o, R)
    BY <1>1, <1>3, <1>8, <1>9 DEF Low
  <1> QED BY <1>5, <1>10 DEF z

\* A shard whose bucket for k stays as it is accounts for no less later.
LEMMA ShareGrows ==
  ASSUME TypeOK, TypeOK', NEW r \in Requests, NEW k \in Keys, NEW l \in LimitOf, Sound(l),
         NEW w \in Windows, w[1] <= clock, clock <= clock', sizes \subseteq sizes',
         NEW s \in Shards, tats'[s][k] = tats[s][k]
  PROVE  Share(r, k, l, w, s) <= Share(r, k, l, w, s)'
  <1> DEFINE t == tats[s][k]
             x == Held(t, clock, l, w)
             y == Held(t, clock', l, w)
  <1>1. t \in Nat /\ clock \in Nat /\ clock' \in Nat /\ w[1] \in Nat
    BY WindowType, FleetAssumption, WidthAssumption DEF TypeOK, Time
  <1>2. Units(l) * max(t, clock) <= Units(l) * max(t, clock') + 0
    <2>1. /\ max(t, clock) \in Nat /\ max(t, clock') \in Nat
          /\ max(t, clock) <= max(t, clock') /\ Units(l) \in Nat
      BY <1>1, SoundLimitBounds DEF max
    <2>2. Units(l) * max(t, clock) <= Units(l) * max(t, clock')
      BY <2>1, Scale
    <2>3. Units(l) * max(t, clock') \in Nat
      BY <2>1, ProductNat
    <2> QED BY <2>2, <2>3
  <1>3. x \in Nat /\ y \in Nat
    BY <1>1, HeldType
  <1>4. x - 0 <= y
    <2> HIDE DEF t
    <2> QED BY <1>1, <1>2, HeldDrops
  <1>5. Homes(r) \subseteq Homes(r)'
    BY DEF Homes, shardFor
  <1>6. /\ Share(r, k, l, w, s) = IF s \in Homes(r) THEN x ELSE 0
        /\ Share(r, k, l, w, s)' = IF s \in Homes(r)' THEN y ELSE 0
    BY DEF Share
  <1> HIDE DEF x, y
  <1> QED BY <1>3, <1>4, <1>5, <1>6

\* The state as far as the books of k are concerned, for a step that changes no
\* bucket of k and spends nothing on it.
Idles(k) ==
  /\ clock <= clock' /\ restarts' = restarts /\ sizes \subseteq sizes'
  /\ \A s \in Shards : tats'[s][k] = tats[s][k]
  /\ \A w \in Windows : spent'[k][w] = spent[k][w]

LEMMA KeptIdle ==
  ASSUME TypeOK, TypeOK', NEW r \in Requests, NEW k \in Keys, NEW l \in LimitOf,
         Kept(r, k, l), Idles(k)
  PROVE  Kept(r, k, l)'
  <1>0. /\ clock <= clock' /\ restarts' = restarts /\ sizes \subseteq sizes'
        /\ \A s \in Shards : tats'[s][k] = tats[s][k]
        /\ \A w \in Windows : spent'[k][w] = spent[k][w]
    BY DEF Idles
  <1>1. CASE ~Sound(l)
    BY <1>0, <1>1 DEF Kept, Sound
  <1>2. CASE Sound(l)
    <2>1. ASSUME NEW s \in Shards PROVE tats'[s][k] <= clock' + Debt(l)
      <3>1. tats[s][k] <= clock + Debt(l) /\ tats'[s][k] = tats[s][k]
        BY <1>0, <1>2 DEF Kept
      <3>2. tats[s][k] \in Nat /\ clock \in Nat /\ clock' \in Nat
        BY FleetAssumption, WidthAssumption DEF TypeOK, Time
      <3>3. Debt(l) \in Nat
        BY <1>2, SoundLimitBounds
      <3> QED BY <1>0, <3>1, <3>2, <3>3
    <2>2. ASSUME NEW w \in Windows PROVE SpentIsHeld(r, k, l, w)'
      <3>1. SpentIsHeld(r, k, l, w) /\ spent'[k][w] = spent[k][w]
        BY <1>0, <1>2 DEF Kept
      <3>2. w[1] \in Nat /\ clock \in Nat /\ clock' \in Nat
        BY WindowType, FleetAssumption, WidthAssumption DEF TypeOK, Time
      <3>3. /\ spent[k][w] \in Nat /\ restarts \in Nat /\ l.period \in Nat /\ Burst(l) \in Nat
        BY <1>2, SoundLimitBounds, RoomType, FleetAssumption DEF TypeOK
      <3>4. CASE clock' < w[1]
        BY <1>0, <3>1, <3>2, <3>4 DEF SpentIsHeld
      <3>5. CASE clock < w[1] /\ w[1] <= clock'
        <4>1. spent'[k][w] = 0
          BY <3>1, <3>5 DEF SpentIsHeld
        <4>2. Hold(r, k, l, w)' \in Nat
          BY <1>2, <3>5, HoldTypePrime
        <4>3. restarts' * Burst(l) \in Nat /\ spent'[k][w] * l.period = 0
          BY <1>0, <3>3, <4>1, ProductNat
        <4> QED BY <3>2, <3>5, <4>2, <4>3 DEF SpentIsHeld, Burst
      <3>6. CASE w[1] <= clock
        <4>1. ASSUME NEW s \in Shards PROVE Share(r, k, l, w, s) <= Share(r, k, l, w, s)'
          BY <1>0, <1>2, <3>6, ShareGrows
        <4>2. PICK j \in Shards : TRUE
          <5>1. Max(Sizes) \in Nat \ {0}
            BY MaxSizes, FleetAssumption
          <5>2. 0 \in Shards
            BY <5>1 DEF Shards
          <5> QED BY <5>2
        <4>3. Hold(r, k, l, w) + 0 <= Hold(r, k, l, w)'
          <5>1. Share(r, k, l, w, j) + 0 <= Share(r, k, l, w, j)'
            BY <1>2, <3>6, <4>1, ShareType
          <5>2. w[1] <= clock'
            BY <1>0, <3>2, <3>6
          <5> QED BY <1>2, <3>6, <4>1, <5>1, <5>2, HoldCompare
        <4>4. Hold(r, k, l, w) \in Nat /\ Hold(r, k, l, w)' \in Nat
          BY <1>0, <1>2, <3>2, <3>6, HoldType, HoldTypePrime
        <4>5. spent[k][w] * l.period <= restarts * Burst(l) + Hold(r, k, l, w)
          BY <3>1, <3>2, <3>6 DEF SpentIsHeld
        <4>6. restarts * Burst(l) \in Nat /\ spent[k][w] * l.period \in Nat
          BY <3>3, ProductNat
        <4>7. spent[k][w] * l.period <= restarts * Burst(l) + Hold(r, k, l, w)'
          BY <4>3, <4>4, <4>5, <4>6
        <4>8. ~(clock' < w[1])
          BY <1>0, <3>2, <3>6
        <4> QED BY <1>0, <3>1, <4>7, <4>8 DEF SpentIsHeld, Burst
      <3> QED BY <3>2, <3>4, <3>5, <3>6
    <2> QED BY <1>2, <2>1, <2>2 DEF Kept, Sound, Debt, Units
  <1> QED BY <1>1, <1>2

\* A restart loses at most a burst.
LEMMA KeptRestart ==
  ASSUME TypeOK, TypeOK', NEW r \in Requests, NEW k \in Keys, NEW l \in LimitOf,
         Kept(r, k, l), NEW j \in Shards, Restart(j)
  PROVE  Kept(r, k, l)'
  <1>0. /\ clock' = clock /\ restarts' = restarts + 1 /\ sizes' = sizes /\ spent' = spent
        /\ tats' = [tats EXCEPT ![j] = [i \in Keys |-> 0]]
    BY DEF Restart
  <1>t. /\ tats'[j][k] = 0
        /\ \A s \in Shards : s # j => tats'[s][k] = tats[s][k]
    BY <1>0 DEF TypeOK
  <1>1. CASE ~Sound(l)
    BY <1>0, <1>1 DEF Kept, Sound
  <1>2. CASE Sound(l)
    <2>n. /\ clock \in Nat /\ restarts \in Nat /\ Debt(l) \in Nat /\ Units(l) \in Nat
          /\ l.period \in Nat /\ Units(l) * Debt(l) <= Burst(l)
      <3>1. clock \in Nat /\ restarts \in Nat
        BY FleetAssumption, WidthAssumption DEF TypeOK, Time
      <3>2. /\ Debt(l) \in Nat /\ Units(l) \in Nat /\ l.period \in Nat
            /\ Units(l) * Debt(l) <= Burst(l)
        BY <1>2, SoundLimitBounds DEF Burst
      <3> QED BY <3>1, <3>2
    <2>0. \A s \in Shards : tats[s][k] \in Nat /\ tats[s][k] <= clock + Debt(l)
      BY <1>2 DEF Kept, TypeOK
    <2>1. ASSUME NEW s \in Shards PROVE tats'[s][k] <= clock' + Debt(l)
      BY <1>0, <1>t, <2>n, <2>0
    <2>2. ASSUME NEW w \in Windows PROVE SpentIsHeld(r, k, l, w)'
      <3>1. SpentIsHeld(r, k, l, w)
        BY <1>2 DEF Kept
      <3>2. w[1] \in Nat /\ spent[k][w] \in Nat /\ Burst(l) \in Nat
        BY <1>2, WindowType, RoomType DEF TypeOK
      <3>3. CASE clock < w[1]
        BY <1>0, <3>1, <3>3 DEF SpentIsHeld
      <3>4. CASE ~(clock < w[1])
        <4>1. w[1] <= clock /\ w[1] <= clock'
          BY <1>0, <2>n, <3>2, <3>4
        <4>2. ASSUME NEW s \in Shards, s # j
              PROVE  Share(r, k, l, w, s) <= Share(r, k, l, w, s)'
          BY <1>0, <1>2, <1>t, <2>n, <4>1, <4>2, ShareGrows
        <4>3. Share(r, k, l, w, j) + (-Burst(l)) <= Share(r, k, l, w, j)'
          <5> DEFINE t == tats[j][k]
                     x == Held(t, clock, l, w)
                     y == Held(0, clock, l, w)
          <5>1. t \in Nat /\ t <= clock + Debt(l)
            BY <2>0
          <5>2. Units(l) * max(t, clock) <= Units(l) * max(0, clock) + Burst(l)
            <6>1. /\ max(t, clock) \in Nat /\ max(t, clock) <= clock + Debt(l)
                  /\ max(0, clock) = clock
              BY <2>n, <5>1 DEF max
            <6>2. Units(l) * max(t, clock) <= Units(l) * (clock + Debt(l))
              BY <2>n, <6>1, Scale
            <6>3. Units(l) * (clock + Debt(l)) = Units(l) * clock + Units(l) * Debt(l)
              BY <2>n
            <6>4. /\ Units(l) * max(t, clock) \in Nat /\ Units(l) * clock \in Nat
                  /\ Units(l) * Debt(l) \in Nat
              BY <2>n, <6>1, ProductNat
            <6> QED BY <2>n, <3>2, <6>1, <6>2, <6>3, <6>4
          <5>3. x - Burst(l) <= y
            <6> HIDE DEF t
            <6> QED BY <1>2, <2>n, <3>2, <5>1, <5>2, HeldDrops
          <5>4. x \in Nat /\ y \in Nat
            BY <1>2, <2>n, <4>1, <5>1, HeldType
          <5>5. Homes(r)' = Homes(r)
            BY <1>0 DEF Homes, shardFor
          <5>6. /\ Share(r, k, l, w, j) = IF j \in Homes(r) THEN x ELSE 0
                /\ Share(r, k, l, w, j)' = IF j \in Homes(r)' THEN y ELSE 0
            BY <1>0, <1>t DEF Share
          <5> HIDE DEF x, y
          <5> QED BY <3>2, <5>3, <5>4, <5>5, <5>6
        <4>4. Hold(r, k, l, w) + (-Burst(l)) <= Hold(r, k, l, w)'
          <5> DEFINE d == -Burst(l)
          <5>1. d \in Int /\ Share(r, k, l, w, j) + d <= Share(r, k, l, w, j)'
            BY <3>2, <4>3
          <5> HIDE DEF d
          <5>2. Hold(r, k, l, w) + d <= Hold(r, k, l, w)'
            BY <1>2, <4>1, <4>2, <5>1, HoldCompare
          <5> QED BY <5>2 DEF d
        <4>5. Hold(r, k, l, w) \in Nat /\ Hold(r, k, l, w)' \in Nat
          BY <1>2, <4>1, HoldType, HoldTypePrime
        <4>6. spent[k][w] * l.period <= restarts * Burst(l) + Hold(r, k, l, w)
          BY <3>1, <3>4 DEF SpentIsHeld
        <4>7. /\ restarts * Burst(l) \in Nat /\ spent[k][w] * l.period \in Nat
              /\ (restarts + 1) * Burst(l) = restarts * Burst(l) + Burst(l)
          BY <2>n, <3>2, ProductNat, SMT
        <4>8. spent[k][w] * l.period <= (restarts + 1) * Burst(l) + Hold(r, k, l, w)'
          BY <3>2, <4>4, <4>5, <4>6, <4>7
        <4> QED BY <1>0, <3>4, <4>8 DEF SpentIsHeld, Burst
      <3> QED BY <3>3, <3>4
    <2> QED BY <1>2, <2>1, <2>2 DEF Kept, Sound, Debt, Units
  <1> QED BY <1>1, <1>2

\* What serving a call does to a key's buckets and books: nothing; or the group
\* names the key, is paid for, and is served where the key belongs.
LEMMA ServeEffect ==
  ASSUME TypeOK, RouteInv, NEW r \in Requests, NEW k \in Keys, NEW l \in LimitOf,
         Governs(r, k, l), NEW c \in Calls, Serve(c)
  PROVE  \/ Idles(k)
         \/ LET j == home[c]
                ch == Charge(req[c].entries, k)
            IN  /\ clock' = clock /\ restarts' = restarts /\ sizes' = sizes
                /\ ch \in Nat /\ j \in Homes(r) /\ j \in Shards
                /\ \A s \in Shards : s # j => tats'[s][k] = tats[s][k]
                /\ tats'[j][k] \in Nat
                /\ Sound(l) /\ tats'[j][k] <= clock + Debt(l)
                /\ Units(l) * max(tats[j][k], clock) + ch * l.period
                     <= Units(l) * max(tats'[j][k], clock)
                /\ \A w \in Windows :
                     \/ spent'[k][w] = spent[k][w]
                     \/ /\ w[1] <= clock /\ clock <= w[2]
                        /\ spent'[k][w] = spent[k][w] + ch
  <1> DEFINE es == req[c].entries
             j  == home[c]
             t  == tats[j]
             g  == Group(es, t, clock)[Len(es)]
             ch == Charge(es, k)
  <1>1. /\ clock' = clock /\ restarts' = restarts /\ sizes' = sizes
        /\ message[c] = "request" /\ tats' = [tats EXCEPT ![j] = Committed(es, t, clock)]
    BY DEF Serve, fleetVars
  <1>2. req[c] \in Requests /\ \E n \in sizes : j = shardFor(req[c], n)
    BY <1>1 DEF RouteInv
  <1>3. /\ es \in Seq(EntryOf(Keys)) /\ j \in Shards /\ t \in [Keys -> Nat] /\ clock \in Nat
        /\ Len(es) \in Nat /\ Len(es) \in 0..Len(es)
    <2>1. es \in Seq(EntryOf(Keys))
      BY <1>2, EntriesType
    <2>2. j \in Shards /\ t \in [Keys -> Nat] /\ clock \in Nat
      BY FleetAssumption, WidthAssumption DEF TypeOK, Time
    <2>3. Len(es) \in Nat
      BY <2>1
    <2>4. Len(es) \in 0..Len(es)
      BY <2>3
    <2> QED BY <2>1, <2>2, <2>3, <2>4
  <1>4. \A w \in Windows :
          \/ spent'[k][w] = spent[k][w]
          \/ /\ g.admitted /\ w[1] <= clock /\ clock <= w[2]
             /\ spent'[k][w] = spent[k][w] + ch
    BY ServeSpends
  <1>5. Committed(es, t, clock) = IF g.admitted THEN g.tats ELSE t
    BY DEF Committed
  <1>6. ch \in Nat
    <2> HIDE DEF es
    <2> QED BY <1>3, CostsType
  <1>7. g.tats \in [Keys -> Nat]
    <2> HIDE DEF es, t, j
    <2>1. g \in [tats : [Keys -> Nat], admitted : BOOLEAN]
      BY <1>3, GroupType
    <2> QED BY <2>1
  <1>8. ASSUME NEW m, OneLimit(es, k, m), g.admitted
        PROVE  Paid(m, clock, t[k], g.tats[k], ch)
    <2>1. ch = Sums(Costs(es, k), Len(es))[Len(es)]
      BY DEF Charge
    <2> HIDE DEF es, t, j, ch
    <2> QED BY <1>3, <1>8, <2>1, GroupPays
  <1> DEFINE C == Committed(es, t, clock)
  <1> HIDE DEF g, ch, C
  <1>9. /\ tats'[j] = C /\ \A s \in Shards : s # j => tats'[s][k] = tats[s][k]
    <2> HIDE DEF j
    <2> QED BY <1>1, <1>3 DEF TypeOK, C
  <1>10. ASSUME tats'[j][k] = t[k], \A w \in Windows : spent'[k][w] = spent[k][w]
         PROVE  Idles(k)
    BY <1>1, <1>3, <1>9, <1>10 DEF Idles
  <1>11. CASE ~g.admitted
    <2>1. C = t
      BY <1>5, <1>11 DEF C
    <2> QED BY <1>4, <1>9, <1>10, <1>11, <2>1
  <1>12. CASE g.admitted /\ ch = 0 /\ g.tats[k] = t[k]
    <2>1. tats'[j][k] = t[k]
      BY <1>5, <1>9, <1>12 DEF C
    <2>2. ASSUME NEW w \in Windows PROVE spent'[k][w] = spent[k][w]
      <3>1. spent[k][w] \in Nat
        BY DEF TypeOK
      <3> QED BY <1>4, <1>12, <3>1
    <2> QED BY <1>10, <2>1, <2>2
  <1>13. CASE g.admitted /\ ~(ch = 0 /\ g.tats[k] = t[k])
    <2>1. PICK i \in Real(es) : es[i].key = k
      <3> SUFFICES ASSUME \A i \in Real(es) : es[i].key # k PROVE FALSE
        OBVIOUS
      <3> DEFINE m == [capacity |-> 0, units |-> 0, period |-> 0]
      <3>1. OneLimit(es, k, m) /\ ~Sound(m)
        BY DEF OneLimit, Sound
      <3> HIDE DEF m
      <3>2. Paid(m, clock, t[k], g.tats[k], ch)
        BY <1>8, <1>13, <3>1
      <3> QED BY <1>13, <3>1, <3>2 DEF Paid
    <2>2. OneLimit(es, k, l)
      BY <1>2 DEF OneLimit, Governs, Agreed
    <2>3. Paid(l, clock, t[k], g.tats[k], ch)
      BY <1>8, <1>13, <2>2
    <2>4. /\ Sound(l) /\ g.tats[k] <= clock + Debt(l)
          /\ Units(l) * max(t[k], clock) + ch * l.period <= Units(l) * max(g.tats[k], clock)
      BY <1>13, <2>3 DEF Paid
    <2>5. tats'[j][k] = g.tats[k]
      BY <1>5, <1>9, <1>13 DEF C
    <2>6. req[c].shardKey = r.shardKey
      <3>1. PICK h \in Real(r.entries) : r.entries[h].key = k
        BY DEF Governs
      <3>2. i \in DOMAIN req[c].entries /\ h \in DOMAIN r.entries
        BY DEF Real
      <3> QED BY <1>2, <2>1, <3>1, <3>2 DEF Governs, Agreed
    <2>7. j \in Homes(r)
      BY <1>2, <2>6 DEF Homes, shardFor
    <2>8. g.tats[k] \in Nat
      BY <1>7
    <2>9. \A w \in Windows :
            \/ spent'[k][w] = spent[k][w]
            \/ /\ w[1] <= clock /\ clock <= w[2] /\ spent'[k][w] = spent[k][w] + ch
      BY <1>4
    <2> QED BY <1>1, <1>3, <1>6, <1>9, <2>4, <2>5, <2>7, <2>8, <2>9 DEF ch
  <1> QED BY <1>11, <1>12, <1>13

\* What a shard commits is in its bucket.
LEMMA KeptServe ==
  ASSUME TypeOK, TypeOK', RouteInv, NEW r \in Requests, NEW k \in Keys, NEW l \in LimitOf,
         Governs(r, k, l), Kept(r, k, l), NEW c \in Calls, Serve(c)
  PROVE  Kept(r, k, l)'
  <1>j. PICK j \in Shards : j = home[c]
    BY DEF TypeOK
  <1> DEFINE ch == Charge(req[c].entries, k)
             a  == tats[j][k]
             b  == tats'[j][k]
             z  == ch * l.period
  <1>1. CASE Idles(k)
    BY <1>1, KeptIdle
  <1>2. CASE ~Idles(k)
    <2>1. /\ clock' = clock /\ restarts' = restarts /\ sizes' = sizes
          /\ ch \in Nat /\ j \in Homes(r) /\ j \in Shards
          /\ \A s \in Shards : s # j => tats'[s][k] = tats[s][k]
          /\ b \in Nat /\ Sound(l) /\ b <= clock + Debt(l)
          /\ Units(l) * max(a, clock) + z <= Units(l) * max(b, clock)
          /\ \A w \in Windows :
               \/ spent'[k][w] = spent[k][w]
               \/ w[1] <= clock /\ clock <= w[2] /\ spent'[k][w] = spent[k][w] + ch
      BY <1>2, <1>j, ServeEffect
    <2> HIDE DEF ch
    <2>2. /\ clock \in Nat /\ a \in Nat /\ restarts \in Nat /\ Units(l) \in Nat
          /\ l.period \in Nat /\ Debt(l) \in Nat /\ Burst(l) \in Nat
      <3>1. clock \in Nat /\ a \in Nat /\ restarts \in Nat
        BY <2>1, FleetAssumption, WidthAssumption DEF TypeOK, Time
      <3>2. Units(l) \in Nat /\ l.period \in Nat /\ l.capacity \in Nat /\ Debt(l) \in Nat
        BY <2>1, SoundLimitBounds
      <3> QED BY <3>1, <3>2, ProductNat DEF Burst
    <2>3. /\ max(a, clock) \in Nat /\ max(b, clock) \in Nat /\ z \in Nat
          /\ Units(l) * max(a, clock) \in Nat /\ Units(l) * max(b, clock) \in Nat
      <3>1. max(a, clock) \in Nat /\ max(b, clock) \in Nat
        BY <2>1, <2>2 DEF max
      <3> HIDE DEF a, b
      <3> QED BY <2>1, <2>2, <3>1, ProductNat
    <2>4. ASSUME NEW s \in Shards PROVE tats'[s][k] <= clock' + Debt(l)
      <3>1. tats[s][k] <= clock + Debt(l)
        BY <2>1 DEF Kept
      <3> QED BY <2>1, <3>1
    <2>5. ASSUME NEW w \in Windows PROVE SpentIsHeld(r, k, l, w)'
      <3>1. SpentIsHeld(r, k, l, w)
        BY <2>1 DEF Kept
      <3>2. w[1] \in Nat /\ w[2] \in Nat /\ spent[k][w] \in Nat
        BY WindowType DEF TypeOK
      <3>3. CASE clock < w[1]
        <4>1. spent'[k][w] = spent[k][w]
          BY <2>1, <2>2, <3>2, <3>3
        <4> QED BY <2>1, <3>1, <3>3, <4>1 DEF SpentIsHeld
      <3>4. CASE ~(clock < w[1])
        <4>1. w[1] <= clock /\ w[1] <= clock'
          BY <2>1, <2>2, <3>2, <3>4
        <4>2. ASSUME NEW s \in Shards, s # j
              PROVE  Share(r, k, l, w, s) <= Share(r, k, l, w, s)'
          BY <2>1, <2>2, <4>1, <4>2, ShareGrows
        <4> DEFINE x == Held(a, clock, l, w)
                   y == Held(b, clock, l, w)
        <4>3. Share(r, k, l, w, j) = x /\ Share(r, k, l, w, j)' = y
          <5>1. Homes(r)' = Homes(r)
            BY <2>1 DEF Homes, shardFor
          <5> QED BY <2>1, <5>1 DEF Share
        <4>4. x \in Nat /\ y \in Nat
          <5> HIDE DEF a, b
          <5> QED BY <2>1, <2>2, <4>1, HeldType
        <4>5. Hold(r, k, l, w) \in Nat /\ Hold(r, k, l, w)' \in Nat
          BY <2>1, <4>1, HoldType, HoldTypePrime
        <4>6. spent[k][w] * l.period <= restarts * Burst(l) + Hold(r, k, l, w)
          BY <3>1, <3>4 DEF SpentIsHeld
        <4>7. restarts * Burst(l) \in Nat /\ spent[k][w] * l.period \in Nat
          BY <2>2, <3>2, ProductNat
        <4>8. ASSUME NEW d \in Nat, x + d <= y, spent'[k][w] * l.period = spent[k][w] * l.period + d
              PROVE  SpentIsHeld(r, k, l, w)'
          <5>1. Share(r, k, l, w, j) + d <= Share(r, k, l, w, j)'
            BY <4>3, <4>8
          <5>2. Hold(r, k, l, w) + d <= Hold(r, k, l, w)'
            <6>1. d \in Int
              OBVIOUS
            <6> HIDE DEF x, y
            <6> QED BY <2>1, <4>1, <4>2, <5>1, <6>1, HoldCompare
          <5>3. spent'[k][w] * l.period <= restarts * Burst(l) + Hold(r, k, l, w)'
            <6> HIDE DEF x, y
            <6> QED BY <4>5, <4>6, <4>7, <4>8, <5>2
          <5> QED BY <2>1, <3>4, <5>3 DEF SpentIsHeld, Burst
        <4>9. CASE spent'[k][w] = spent[k][w]
          <5>1. x - 0 <= y
            <6>1. Units(l) * max(a, clock) <= Units(l) * max(b, clock) + 0
              BY <2>1, <2>3
            <6> HIDE DEF a, b
            <6> QED BY <2>1, <2>2, <6>1, HeldDrops
          <5>2. x + 0 <= y /\ spent'[k][w] * l.period = spent[k][w] * l.period + 0
            <6> HIDE DEF x, y
            <6> QED BY <4>4, <4>7, <4>9, <5>1
          <5> HIDE DEF x, y
          <5> QED BY <4>8, <5>2
        <4>10. CASE clock <= w[2] /\ spent'[k][w] = spent[k][w] + ch
          <5>1. x + ch * l.period <= y
            <6>1. Units(l) * max(a, clock) + ch * l.period <= Units(l) * max(b, clock)
              BY <2>1
            <6> HIDE DEF a, b
            <6> QED BY <2>1, <2>2, <4>10, <6>1, HeldPays
          <5>2. (spent[k][w] + ch) * l.period = spent[k][w] * l.period + ch * l.period
            BY <2>1, <2>2, <3>2, SMT
          <5> HIDE DEF x, y
          <5> QED BY <2>3, <4>8, <4>10, <5>1, <5>2
        <4> QED BY <2>1, <4>9, <4>10
      <3> QED BY <3>3, <3>4
    <2> QED BY <2>1, <2>4, <2>5 DEF Kept, Sound, Debt, Units
  <1> QED BY <1>1, <1>2

\* Every step keeps the books.
LEMMA BudgetStep ==
  TypeOK /\ TypeOK' /\ ReportInv /\ BudgetInv /\ [Next]_vars => BudgetInv'
  <1> SUFFICES ASSUME TypeOK, TypeOK', ReportInv, BudgetInv, [Next]_vars PROVE BudgetInv'
    OBVIOUS
  <1>1. RouteInv /\ RouteInv'
    BY RouteStep DEF BudgetInv
  <1>2. ASSUME NEW r \in Requests, NEW k \in Keys, NEW l \in LimitOf, Governs(r, k, l)
        PROVE  Kept(r, k, l)'
    <2>1. Kept(r, k, l)
      BY <1>2 DEF BudgetInv
    <2>2. ASSUME NEW c \in Calls, Serve(c) PROVE Kept(r, k, l)'
      BY <1>1, <1>2, <2>1, <2>2, KeptServe
    <2>3. ASSUME NEW s \in Shards, Restart(s) PROVE Kept(r, k, l)'
      BY <2>1, <2>3, KeptRestart
    <2>4. ASSUME clock <= clock', restarts' = restarts, sizes \subseteq sizes',
                 tats' = tats, spent' = spent
          PROVE  Kept(r, k, l)'
      <3>1. Idles(k)
        BY <2>4 DEF Idles
      <3> QED BY <2>1, <3>1, KeptIdle
    <2>0. clock \in Int
      BY FleetAssumption, WidthAssumption DEF TypeOK, Time
    <2>5. CASE Tick
      BY <2>0, <2>4, <2>5 DEF Tick
    <2>6. ASSUME NEW p \in Processes, CloseShard(p) PROVE Kept(r, k, l)'
      BY <2>0, <2>4, <2>6 DEF CloseShard
    <2>7. ASSUME NEW p \in Processes, NEW n \in Sizes, Resize(p, n) PROVE Kept(r, k, l)'
      BY <2>0, <2>4, <2>7 DEF Resize
    <2>8. ASSUME NEW c \in Calls, NEW q \in Requests,
                 \/ Receive(c) \/ GiveUp(c) \/ Refuse(c, q)
                 \/ \E p \in Processes : Submit(c, p, q)
          PROVE  Kept(r, k, l)'
      BY <2>0, <2>4, <2>8 DEF Receive, GiveUp, Refuse, Submit, fleetVars
    <2>9. CASE UNCHANGED vars
      BY <2>0, <2>4, <2>9 DEF vars, fleetVars
    <2> QED BY <1>2, <2>2, <2>3, <2>5, <2>6, <2>7, <2>8, <2>9 DEF Next
  <1> QED BY <1>1, <1>2 DEF BudgetInv, Governs, Agreed

LEMMA BudgetInit == Init => BudgetInv
  <1> SUFFICES ASSUME Init PROVE BudgetInv
    OBVIOUS
  <1>1. RouteInv
    BY DEF Init, RouteInv
  <1>2. ASSUME NEW r \in Requests, NEW k \in Keys, NEW l \in LimitOf PROVE Kept(r, k, l)
    <2>1. CASE ~Sound(l)
      BY <2>1 DEF Init, Kept
    <2>2. CASE Sound(l)
      <3>1. ASSUME NEW s \in Shards PROVE tats[s][k] <= clock + Debt(l)
        BY <2>2, SoundLimitBounds DEF Init
      <3>2. ASSUME NEW w \in Windows PROVE SpentIsHeld(r, k, l, w)
        <4>1. spent[k][w] = 0 /\ clock \in Nat /\ restarts = 0
          BY DEF Init
        <4>2. w[1] \in Nat /\ l.period \in Nat /\ Burst(l) \in Nat
          BY <2>2, WindowType, SoundLimitBounds, RoomType
        <4>3. CASE ~(clock < w[1])
          <5>1. Hold(r, k, l, w) \in Nat
            BY <2>2, <4>1, <4>2, <4>3, TypeOKInit, HoldType
          <5> QED BY <4>1, <4>2, <4>3, <5>1 DEF SpentIsHeld
        <4> QED BY <4>1, <4>3 DEF SpentIsHeld
      <3> QED BY <2>2, <3>1, <3>2 DEF Kept
    <2> QED BY <2>1, <2>2
  <1> QED BY <1>1, <1>2 DEF BudgetInv

\* Shards that so many lists give are no more than the lists.
LEMMA HomesBound ==
  ASSUME TypeOK, NEW r \in Requests
  PROVE  /\ IsFiniteSet(Homes(r)) /\ Homes(r) \subseteq Shards
         /\ Cardinality(Homes(r)) \in Nat /\ Cardinality(sizes) \in Nat
         /\ Cardinality(Homes(r)) <= Cardinality(sizes)
  <1>1. IsFiniteSet(sizes) /\ sizes \subseteq Sizes
    BY FleetAssumption, FS_Subset DEF TypeOK
  <1> DEFINE f == [n \in sizes |-> shardFor(r, n)]
  <1>2. f \in Surjection(sizes, Homes(r))
    BY DEF Surjection, Homes
  <1>3. IsFiniteSet(Homes(r)) /\ Cardinality(Homes(r)) <= Cardinality(sizes)
    <2> HIDE DEF f
    <2> QED BY <1>1, <1>2, FS_Surjection
  <1>4. Homes(r) \subseteq Shards
    BY <1>1, ShardForType DEF Homes
  <1> QED BY <1>1, <1>3, <1>4, FS_CardinalityType

\* All shards together account for no more than a window's room for each shard
\* the key can be at.
LEMMA HoldBound ==
  ASSUME TypeOK, NEW r \in Requests, NEW k \in Keys, NEW l \in LimitOf, Sound(l),
         NEW w \in Windows, w[1] <= clock
  PROVE  Hold(r, k, l, w) <= Cardinality(Homes(r)) * Room(l, w)
  <1> DEFINE m == Max(Sizes)
             f == Holds(r, k, l, w)
             X == {i \in 1..m : i - 1 \in Homes(r)}
             b == Room(l, w)
  <1>1. m \in Nat \ {0} /\ \A i \in 1..m : f[i] \in Nat
    BY HoldType
  <1>2. b \in Nat /\ X \subseteq 1..m
    BY RoomType
  <1>3. ASSUME NEW i \in 1..m PROVE IF i \in X THEN f[i] <= b ELSE f[i] = 0
    <2>1. i - 1 \in Shards
      BY <1>1 DEF Shards
    <2>2. tats[i-1][k] \in Nat /\ clock \in Nat
      BY <2>1, FleetAssumption, WidthAssumption DEF TypeOK, Time
    <2>3. Held(tats[i-1][k], clock, l, w) <= b
      BY <2>2, HeldType
    <2>4. f[i] = IF i - 1 \in Homes(r) THEN Held(tats[i-1][k], clock, l, w) ELSE 0
      BY DEF Holds, Share
    <2> QED BY <2>3, <2>4
  <1>4. IsFiniteSet(X) /\ Sums(f, m)[m] <= Cardinality(X) * b
    <2> HIDE DEF f, X, b, m
    <2> QED BY <1>1, <1>2, <1>3, SumsBound
  <1>5. Cardinality(X) <= Cardinality(Homes(r)) /\ Cardinality(Homes(r)) \in Nat
    <2> DEFINE h == [x \in Homes(r) |-> x + 1]
    <2>1. /\ Homes(r) \subseteq Shards /\ IsFiniteSet(Homes(r))
          /\ Cardinality(Homes(r)) \in Nat
      BY HomesBound
    <2>2. h \in Surjection(Homes(r), X)
      <3>1. ASSUME NEW x \in Homes(r) PROVE x + 1 \in X
        <4>1. x + 1 \in 1..m /\ (x + 1) - 1 = x
          BY <1>1, <2>1 DEF Shards
        <4> QED BY <4>1
      <3>2. ASSUME NEW i \in X PROVE \E x \in Homes(r) : h[x] = i
        <4>1. i - 1 \in Homes(r) /\ (i - 1) + 1 = i
          BY <1>1
        <4> QED BY <4>1
      <3> HIDE DEF X
      <3>3. h \in [Homes(r) -> X]
        BY <3>1
      <3> HIDE DEF h
      <3> QED BY <3>2, <3>3 DEF Surjection
    <2> HIDE DEF h, X
    <2>3. Cardinality(X) <= Cardinality(Homes(r))
      BY <2>1, <2>2, FS_Surjection
    <2> QED BY <2>1, <2>3
  <1>6. Cardinality(X) * b <= Cardinality(Homes(r)) * b
    <2> DEFINE x == Cardinality(X)
               y == Cardinality(Homes(r))
    <2>1. x \in Nat /\ y \in Nat /\ x <= y
      BY <1>4, <1>5, FS_CardinalityType
    <2> HIDE DEF x, y, b
    <2>2. b * x <= b * y /\ b * x = x * b /\ b * y = y * b
      BY <1>2, <2>1, Scale, SMT
    <2>3. x * b <= y * b
      BY <2>2
    <2> QED BY <2>3 DEF x, y
  <1>7. Sums(f, m)[m] \in Nat /\ Cardinality(X) * b \in Nat /\ Cardinality(Homes(r)) * b \in Nat
    <2>1. Sums(f, m)[m] \in Nat
      BY HoldType DEF Hold
    <2>2. Cardinality(X) \in Nat
      BY <1>4, FS_CardinalityType
    <2> HIDE DEF X, b
    <2> QED BY <1>2, <1>5, <2>1, <2>2, ProductNat
  <1> HIDE DEF X, b, f, m
  <1>8. Sums(f, m)[m] <= Cardinality(Homes(r)) * b
    BY <1>4, <1>6, <1>7
  <1> QED BY <1>8 DEF Hold, f, m, b

\* The books and the room of the windows give the budget.
LEMMA BudgetFollows == TypeOK /\ BudgetInv => FleetBudget
  <1> SUFFICES ASSUME TypeOK, BudgetInv, NEW r \in Requests, NEW i \in Real(r.entries),
                      Agreed(r.entries[i].key, r.entries[i].limit), NEW w \in Windows
               PROVE  LET k == r.entries[i].key
                          l == r.entries[i].limit
                      IN  \/ spent[k][w] = 0
                          \/ spent[k][w] * l.period
                               <= (Cardinality(sizes) + restarts) * l.capacity * l.period
                                  + Cardinality(sizes) * (w[2] - w[1]) * EffectiveUnits(l.units)
    BY DEF FleetBudget
  <1> DEFINE k == r.entries[i].key
             l == r.entries[i].limit
             N == Cardinality(sizes)
             H == Cardinality(Homes(r))
             R == Room(l, w)
             B == Burst(l)
             S == spent[k][w] * l.period
  <1>1. k \in Keys /\ l \in LimitOf
    <2>1. r.entries \in Seq(EntryOf(Keys)) /\ i \in DOMAIN r.entries
      BY EntriesType DEF Real
    <2>2. r.entries[i] \in EntryOf(Keys)
      BY <2>1
    <2> QED BY <2>2 DEF EntryOf
  <1>2. Kept(r, k, l)
    <2>1. Governs(r, k, l)
      BY DEF Governs
    <2> QED BY <1>1, <2>1 DEF BudgetInv
  <1> HIDE DEF k, l
  <1>3. CASE ~Sound(l)
    BY <1>2, <1>3 DEF Kept, k
  <1>4. CASE Sound(l)
    <2>1. /\ w[1] \in Nat /\ w[2] \in Nat /\ w[2] - w[1] \in Nat /\ clock \in Nat
          /\ spent[k][w] \in Nat /\ restarts \in Nat /\ l.capacity \in Nat /\ l.period \in Nat
          /\ Units(l) \in Nat /\ B \in Nat /\ R \in Nat
      <3>1. w[1] \in Nat /\ w[2] \in Nat /\ w[2] - w[1] \in Nat
        BY WindowType
      <3>2. clock \in Nat /\ restarts \in Nat
        BY FleetAssumption, WidthAssumption DEF TypeOK, Time
      <3>3. spent[k][w] \in Nat
        BY <1>1 DEF TypeOK
      <3>4. l.capacity \in Nat /\ l.period \in Nat /\ Units(l) \in Nat /\ B \in Nat /\ R \in Nat
        BY <1>1, <1>4, SoundLimitBounds, RoomType
      <3> QED BY <3>1, <3>2, <3>3, <3>4
    <2>2. SpentIsHeld(r, k, l, w)
      BY <1>2, <1>4 DEF Kept
    <2>3. CASE clock < w[1]
      BY <2>2, <2>3 DEF SpentIsHeld, k
    <2>4. CASE ~(clock < w[1])
      <3>1. w[1] <= clock /\ S <= restarts * B + Hold(r, k, l, w)
        BY <2>1, <2>2, <2>4 DEF SpentIsHeld
      <3>2. H \in Nat /\ N \in Nat /\ H <= N /\ Homes(r) \subseteq Shards
        BY HomesBound
      <3>3. Hold(r, k, l, w) <= H * R
        BY <1>1, <1>4, <2>1, <3>1, HoldBound
      <3>4. H * R <= N * R
        <4>1. R * H <= R * N
          <5> HIDE DEF R, H, N
          <5> QED BY <2>1, <3>2, Scale
        <4>2. R * H = H * R /\ R * N = N * R
          <5> HIDE DEF R, H, N
          <5> QED BY <2>1, <3>2, SMT
        <4> QED BY <4>1, <4>2
      <3>5. Hold(r, k, l, w) \in Nat
        BY <1>1, <1>4, <3>1, HoldType
      <3> DEFINE D == (w[2] - w[1]) * Units(l)
      <3>6. R = B + D /\ D \in Nat
        <4>1. D = Units(l) * (w[2] - w[1]) /\ D \in Nat
          BY <2>1, ProductNat, SMT
        <4> QED BY <4>1 DEF Room
      <3> HIDE DEF N, H, R, B, S, D
      <3>7. H * R \in Nat /\ N * R \in Nat /\ restarts * B \in Nat
        BY <2>1, <3>2, ProductNat
      <3>8. S <= restarts * B + N * R
        <4>1. S \in Nat
          BY <2>1, ProductNat DEF S
        <4> QED BY <3>1, <3>3, <3>4, <3>5, <3>7, <4>1
      <3>9. restarts * B + N * R = (N + restarts) * B + N * D
        BY <2>1, <3>2, <3>6, SMT
      <3>10. (N + restarts) * B = (N + restarts) * l.capacity * l.period
        BY <2>1, <3>2, SMT DEF B, Burst
      <3>11. N * D = N * (w[2] - w[1]) * EffectiveUnits(l.units)
        BY <2>1, <3>2, SMT DEF D, Units
      <3> QED BY <3>8, <3>9, <3>10, <3>11 DEF S, N, k, l
    <2> QED BY <2>3, <2>4
  <1> QED BY <1>3, <1>4

\* The rate limit of the fleet, for any number of processes, calls, shards and
\* keys, any limits that callers agree on and any batches: whatever is lost,
\* late, restarted or resized, all shards together admit for a key within any
\* window at most a burst for each restart and each number of shards in use,
\* and what drains meanwhile from as many shards.
THEOREM FleetBudgetIsKept == Spec => []FleetBudget
  BY FleetTypeCorrect, ReportInit, ReportStep, BudgetInit, BudgetStep, BudgetFollows,
     PTL DEF Spec
=============================================================================
