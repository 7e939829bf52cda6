-------------------------------- MODULE Fleet --------------------------------
(***************************************************************************)
(* The whole system from a caller's side: processes that hold a            *)
(* ShardedClient (client/client.go) over a list of shards, each a server   *)
(* with buckets of its own.  A call is routed by its shard key, becomes    *)
(* one request and comes back as verdicts or as the fail-open fill; what   *)
(* the connection, the breaker and the locks do in between is in           *)
(* ShardConn, CircuitBreaker and Throttler, and shows here as calls that   *)
(* end early and one atomic step per request.  A request or an answer that *)
(* is lost is one that is never served or received.  Shards may restart    *)
(* and lose every bucket; a process may replace its client by one with     *)
(* another number of shards.                                               *)
(*                                                                         *)
(* A definition under a comment that starts with "Bug:" is no part of the  *)
(* model: it is the next definition with a mistake in it, kept to show     *)
(* that some property notices.                                             *)
(***************************************************************************)
EXTENDS Batch, FiniteSetsExt

CONSTANTS
  Processes,    \* programs that hold a client
  Calls,        \* calls of Throttle; each is made once, by any process
  Keys,
  Hash,         \* fnv1a.Hash, for shard keys and keys
  Requests,     \* what a call may carry: a shard key and entries
  Sizes,        \* the numbers of shards a client may be built with
  MaxClock, MaxRestarts   \* bounds of the instance

Shards == 0..(Max(Sizes) - 1)
Time   == 1..MaxClock
Windows == {w \in Time \X Time : w[1] <= w[2]}
Entry  == [key : Keys, limit : [capacity : Int64, units : Int64, period : Int64],
           cost : Int64, peek : BOOLEAN]

ASSUME FleetAssumption ==
  /\ IsFiniteSet(Sizes) /\ Sizes # {} /\ Sizes \subseteq Nat \ {0}
  /\ MaxClock \in 1..MaxInt64 /\ MaxRestarts \in Nat
  /\ Requests \subseteq [shardKey : DOMAIN Hash, entries : Seq(Entry)]
  /\ Hash \in [DOMAIN Hash -> Nat] /\ Keys \subseteq DOMAIN Hash

VARIABLES
  clock,
  tats,       \* the buckets of each shard
  restarts,   \* how often shards have been restarted
  size, shut, \* per process: len(c.shards), and how many of them Close has closed
  failOpen,   \* c.failOpen
  stage,      \* where each call is: idle, waiting, returned
  req, home,  \* its arguments and its shard
  message,    \* what of it is on its way: request, answer, or nothing
  reply,      \* the answer on its way
  result,     \* what the caller got
  commits,    \* history: the instants a call's group was committed at
  spent,      \* history: cost committed for each key in each window, on all shards
  sizes       \* history: numbers of shards in use so far

fleetVars  == <<clock, restarts, size, shut, failOpen, sizes>>
callVars   == <<stage, req, home, message, reply, result>>
vars       == <<fleetVars, tats, callVars, commits, spent>>

Real(es) == {i \in DOMAIN es : ~es[i].peek}

\* The sums of the first n of m numbers.
Sums(f, m) == LET q[n \in 0..m] == IF n = 0 THEN 0 ELSE q[n-1] + f[n] IN q

\* What a group charges a key, entry by entry and in all.
Costs(es, k) ==
  [i \in DOMAIN es |-> IF es[i].peek \/ es[i].key # k THEN 0 ELSE EffectiveCost(es[i].cost)]

Charge(es, k) == Sums(Costs(es, k), Len(es))[Len(es)]

-----------------------------------------------------------------------------
(* client.go *)

\* Bug: the first entry's key decides instead of the shard key.
shardForFirstKey(r, n) == Hash[r.entries[1].key] % n

\* Bug: shards numbered from one.
shardForOneBased(r, n) == IF n = 1 THEN 0 ELSE (Hash[r.shardKey] % n) + 1

shardFor(r, n) == IF n = 1 THEN 0 ELSE Hash[r.shardKey] % n

\* Bug: fail-open and fail-closed swapped.
FillSwapped(es) == [i \in DOMAIN es |-> [throttled |-> failOpen, err |-> TRUE]]

\* What throttle reports for entries that got no answer.
Fill(es) == [i \in DOMAIN es |-> [throttled |-> ~failOpen, err |-> TRUE]]

\* The breaker is open, or the shard's connection is closed: no request.
Refuse(c, r) ==
  /\ stage[c] = "idle"
  /\ stage' = [stage EXCEPT ![c] = "returned"]
  /\ req' = [req EXCEPT ![c] = r]
  /\ result' = [result EXCEPT ![c] = Fill(r.entries)]
  /\ UNCHANGED <<fleetVars, tats, home, message, reply, commits, spent>>

Submit(c, p, r) ==
  /\ stage[c] = "idle"
  /\ shardFor(r, size[p]) >= shut[p]
  /\ stage' = [stage EXCEPT ![c] = "waiting"]
  /\ req' = [req EXCEPT ![c] = r]
  /\ home' = [home EXCEPT ![c] = shardFor(r, size[p])]
  /\ message' = [message EXCEPT ![c] = "request"]
  /\ UNCHANGED <<fleetVars, tats, reply, result, commits, spent>>

Receive(c) ==
  /\ stage[c] = "waiting" /\ message[c] = "answer"
  /\ stage' = [stage EXCEPT ![c] = "returned"]
  /\ result' = [result EXCEPT ![c] = reply[c]]
  /\ message' = [message EXCEPT ![c] = "none"] /\ reply' = [reply EXCEPT ![c] = <<>>]
  /\ UNCHANGED <<fleetVars, tats, req, home, commits, spent>>

\* Bug: a call that got no answer in time sends its request again.
GiveUpResends(c) ==
  /\ stage[c] = "waiting"
  /\ message' = [message EXCEPT ![c] = "request"]
  /\ UNCHANGED <<fleetVars, tats, stage, req, home, reply, result, commits, spent>>

\* Bug: the error of a failed exchange is not reported.
GiveUpQuietly(c) ==
  /\ stage[c] = "waiting"
  /\ stage' = [stage EXCEPT ![c] = "returned"]
  /\ result' = [result EXCEPT ![c] = [i \in DOMAIN req[c].entries |->
                                        [throttled |-> ~failOpen, err |-> FALSE]]]
  /\ UNCHANGED <<fleetVars, tats, req, home, message, reply, commits, spent>>

\* The exchange fails, by a timeout, the caller's ctx or the connection.  A
\* request on its way stays on its way; an answer will find nobody.
GiveUp(c) ==
  /\ stage[c] = "waiting"
  /\ stage' = [stage EXCEPT ![c] = "returned"]
  /\ result' = [result EXCEPT ![c] = Fill(req[c].entries)]
  /\ message' = [message EXCEPT ![c] = IF @ = "answer" THEN "none" ELSE @]
  /\ reply' = [reply EXCEPT ![c] = <<>>]
  /\ UNCHANGED <<fleetVars, tats, req, home, commits, spent>>

\* Close, one shard after the other.
CloseShard(p) ==
  /\ shut[p] < size[p]
  /\ shut' = [shut EXCEPT ![p] = @ + 1]
  /\ UNCHANGED <<clock, restarts, size, failOpen, sizes, tats, callVars, commits, spent>>

-----------------------------------------------------------------------------
(* The shards and the network *)

\* What a shard answers to entries it evaluates over its buckets t.
Answer(es, t) ==
  LET v == Verdicts(es, t, clock)
  IN  [i \in DOMAIN es |-> [throttled |-> v[i].throttled, err |-> FALSE]]

\* The shard serves a request, whether or not its caller still waits.
Serve(c) ==
  LET es == req[c].entries
      s  == home[c]
      waits == stage[c] = "waiting"
      admits == Real(es) # {} /\ Group(es, tats[s], clock)[Len(es)].admitted
      added(k, w) == IF clock \in w[1]..w[2] THEN Charge(es, k) ELSE 0
  IN  /\ message[c] = "request"
      /\ tats' = [tats EXCEPT ![s] = Committed(es, @, clock)]
      /\ reply' = [reply EXCEPT ![c] = IF waits THEN Answer(es, tats[s]) ELSE <<>>]
      /\ message' = [message EXCEPT ![c] = IF waits THEN "answer" ELSE "none"]
      /\ commits' = IF admits THEN [commits EXCEPT ![c] = Append(@, clock)] ELSE commits
      /\ spent' = IF admits THEN [k \in Keys |-> [w \in Windows |-> spent[k][w] + added(k, w)]]
                  ELSE spent
      /\ UNCHANGED <<fleetVars, stage, req, home, result>>

\* A shard starts again from nothing; its connections are gone.
Restart(s) ==
  /\ restarts < MaxRestarts
  /\ restarts' = restarts + 1
  /\ tats' = [tats EXCEPT ![s] = [k \in Keys |-> 0]]
  /\ message' = [c \in Calls |-> IF home[c] = s THEN "none" ELSE message[c]]
  /\ reply' = [c \in Calls |-> IF home[c] = s THEN <<>> ELSE reply[c]]
  /\ UNCHANGED <<clock, size, shut, failOpen, sizes, stage, req, home, result, commits, spent>>

\* A process goes over to a new client with another list of shards.
Resize(p, n) ==
  /\ n # size[p]
  /\ size' = [size EXCEPT ![p] = n]
  /\ shut' = [shut EXCEPT ![p] = 0]
  /\ sizes' = sizes \cup {n}
  /\ UNCHANGED <<clock, restarts, failOpen, tats, callVars, commits, spent>>

Tick ==
  /\ clock < MaxClock
  /\ clock' = clock + 1
  /\ UNCHANGED <<restarts, size, shut, failOpen, sizes, tats, callVars, commits, spent>>

-----------------------------------------------------------------------------
\* WithFailClosed, or not.
Options == failOpen \in BOOLEAN

NoRequest == [shardKey |-> CHOOSE k \in DOMAIN Hash : TRUE, entries |-> <<>>]

Init ==
  /\ clock = 1
  /\ tats = [s \in Shards |-> [k \in Keys |-> 0]]
  /\ restarts = 0
  /\ \E n \in Sizes : size = [p \in Processes |-> n] /\ sizes = {n}
  /\ shut = [p \in Processes |-> 0]
  /\ Options
  /\ stage = [c \in Calls |-> "idle"]
  /\ req = [c \in Calls |-> NoRequest]
  /\ home = [c \in Calls |-> 0]
  /\ message = [c \in Calls |-> "none"]
  /\ reply = [c \in Calls |-> <<>>] /\ result = [c \in Calls |-> <<>>]
  /\ commits = [c \in Calls |-> <<>>]
  /\ spent = [k \in Keys |-> [w \in Windows |-> 0]]

Next ==
  \/ Tick
  \/ \E s \in Shards : Restart(s)
  \/ \E p \in Processes : CloseShard(p) \/ \E n \in Sizes : Resize(p, n)
  \/ \E c \in Calls :
       \/ Receive(c) \/ GiveUp(c) \/ Serve(c)
       \/ \E r \in Requests : Refuse(c, r) \/ \E p \in Processes : Submit(c, p, r)

Spec == Init /\ [][Next]_vars

-----------------------------------------------------------------------------
TypeOK ==
  /\ clock \in Time
  /\ tats \in [Shards -> [Keys -> Nat]] /\ restarts \in 0..MaxRestarts
  /\ size \in [Processes -> Sizes] /\ shut \in [Processes -> Nat]
  /\ \A p \in Processes : shut[p] <= size[p]
  /\ failOpen \in BOOLEAN /\ sizes \subseteq Sizes
  /\ stage \in [Calls -> {"idle", "waiting", "returned"}]
  /\ req \in [Calls -> Requests \cup {NoRequest}] /\ home \in [Calls -> Shards]
  /\ message \in [Calls -> {"none", "request", "answer"}]
  /\ spent \in [Keys -> [Windows -> Nat]]

\* Every call that names k uses one shard key and one limit for it.
Agreed(k, l) ==
  /\ \A r, q \in Requests :
       (\E i \in DOMAIN r.entries, j \in DOMAIN q.entries :
          r.entries[i].key = k /\ q.entries[j].key = k) => r.shardKey = q.shardKey
  /\ \A r \in Requests : \A i \in Real(r.entries) :
       r.entries[i].key = k => r.entries[i].limit = l

\* The rate limit of the fleet, for a key whose callers agree on its limit and
\* its shard key, whatever is lost, late, restarted or resized: within any
\* window all shards together admit at most one burst per restart and per
\* number of shards in use, beyond what drains from the shards that this many
\* lists can route it to.  A limit that gcraCheck rejects admits nothing.
FleetBudget ==
  \A r \in Requests : \A i \in Real(r.entries) :
    LET k == r.entries[i].key
        l == r.entries[i].limit
    IN  Agreed(k, l) =>
          \A w \in Windows :
            \/ spent[k][w] = 0
            \/ spent[k][w] * l.period
                 <= (Cardinality(sizes) + restarts) * l.capacity * l.period
                    + Cardinality(sizes) * (w[2] - w[1]) * EffectiveUnits(l.units)

\* However a call ends, its group is committed at most once, and the caller can
\* trust what it is told: if none of its real entries is throttled the group
\* was committed, unless the call reports an error and the client fails open;
\* if one is and there is no error, nothing was.
ReportIsTrue ==
  \A c \in Calls :
    LET real    == Real(req[c].entries)
        goAhead == \A i \in real : ~result[c][i].throttled
        failed  == \E i \in DOMAIN result[c] : result[c][i].err
    IN  /\ Len(commits[c]) <= 1
        /\ (stage[c] = "returned" /\ real # {}) =>
             IF goAhead THEN commits[c] # <<>> \/ (failed /\ failOpen)
                        ELSE commits[c] = <<>> \/ failed
=============================================================================
