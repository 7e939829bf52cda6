# Verification of DeadHorse

DeadHorse is a rate limiter: a server keeps leaky buckets in memory and answers
`THROTTLE` lines over TCP; a Go client pipelines such lines to a fleet of
shards. This directory holds TLA+ models of its core, the TLC runs that check
them on small instances, and TLAPS proofs of what matters most for every
instance. `PROJECT.json` is the machine-readable index: which definition models
which lines, which run checks which property, and what has been found.

## The system

| Part | State | Operations | Hard because |
|---|---|---|---|
| GCRA check (`server/gcra.go`, `types.go`) | none; a bucket is one timestamp, the TAT | `gcraCheck`, checked arithmetic, `EffectiveCost`, `EffectiveUnits` | rounding in two directions, overflow, limits that differ per request |
| Key store (`server/store.go`) | stripes with two map generations of bucket pointers | `getOrCreate`, `rotate`, `gcLoop` | pointers outlive the lock under which they were read; keys are dropped by age |
| Throttler (`server/throttling.go`) | buckets behind the store | `Throttle`, `evaluateRealGroup` | several locks per call, check-then-commit, an instant read before the locks |
| Text server (`server/textserver.go`) | listener and closed flag under `listenerMu`, one goroutine and one reader's buffer per connection | `ListenAndServe`, `Close`, `handleConn`, `readLine`, `dispatch`, `handleThrottle` | shutdown races the start, lines longer than the buffer, answers in request order, `ERR` placement, peers that fall silent |
| Server command (`cmd/deadhorse/main.go`) | none of its own | starts the server, closes it on a signal, closes the store when it returns | the signal may come at any time |
| Shard connection (`client/conn.go`) | connection, generation (queue and semaphore), dial in flight, closed flag | `throttle`, `exchange`, `submit`, `ensureConn`, `readLoop`, `abort`, `drainPending`, `close` | pipelining without request ids, reconnects, timeouts, one slow or impatient caller among many |
| Circuit breaker (`client/breaker.go`) | four atomics | `allow`, `recordSuccess`, `recordFailure` | lock-free, one operation at a time; outcomes arrive late and out of order |
| Sharded client (`client/client.go`) | a fixed list of shard connections | `NewShardedClient`, `Throttle`, `Close` | a rate that must hold over shards that restart, calls whose end nobody knows, and a list that changes |
| Metrics, test doubles, tools | none the program reads back | | |

The client's `throttle` asks the breaker, runs `exchange` on the connection and
tells the breaker how it went. The server hands each line's entries to
`Throttler.Throttle`, which gets buckets from the store and evaluates them with
`gcraCheck`; `gcLoop` rotates the store beside all this.

What makes each part correct:

* **GCRA**: never admit more than the exact leaky bucket; report a headroom and
  a retry time that agree with the verdict; never wrap.
* **Store and throttler**: a call is one all-or-none transaction; calls on a key
  exclude each other; a key in use is never dropped; dropping an idle key is
  invisible; the rate holds over every window; nobody deadlocks.
* **Breaker**: opens only for faults of the shard, tries again one call at a
  time, and recovers.
* **Connection**: every answer reaches its own call, every call returns, no
  token, socket or goroutine is lost, one caller's impatience is its own problem.
* **Text server and command**: one answer per line and in order, however the
  bytes arrive; a line of bounded length; a `Close` that works at any moment,
  and an error only when something broke; no connection that stays for ever.
* **Sharded client**: the fleet admits what one bucket would, plus a bounded
  amount per restart and per change of the list; a report without an error is
  true, and a fail-closed caller never goes ahead without being charged.

## Modules

| Module | What it is |
|---|---|
| `Gcra` | `gcraCheck` and its helpers as pure operators. `MaxInt64` and `MaxUint64` are constants, so the same definitions are checked at 6 bits and proved at any width. |
| `LeakyBucket` | one bucket under any sequence of checks, and the contract of `gcraCheck` against exact arithmetic |
| `Throttler` | concurrent `Throttle` calls, the store and `gcLoop`, one step per hold of a mutex |
| `Batch` | the entries of one call as a function of the TATs it finds |
| `AtomicThrottler` | the abstract contract: one TAT per key, one atomic transaction per call |
| `ThrottlerRefinement` | the refinement mapping from `Throttler` to `AtomicThrottler` |
| `CircuitBreaker` | the breaker, one step per atomic operation, and how exchanges end |
| `BreakerStates`, `BreakerRefinement` | the closed / open / half-open machine of the doc comment, and the mapping onto it |
| `ShardConn` | the pipelined connection, its readers, `close()`, and the answers of the shard's connection handler |
| `Wire` | a batch through `validateKey`, `encodeThrottle`, `handleThrottle`, `decodeResult` and the fail-open fill, over the buckets of `LeakyBucket` |
| `TextServer` | the listener and `Close`, `main` around them, and a connection from the bytes in its buffer to its answers |
| `Fleet` | callers, sharded clients, a network that delays and loses, and shards that restart; each request is one `Batch` transaction |
| `GcraProofs`, `LeakyBucketProofs` | proofs about `Gcra` and `Batch`; about one bucket, and about `Wire` over it |
| `ThrottlerProofs` | proofs about `Throttler`: types and locks, the store, its clock and the rate |
| `RefinementProofs` | the proof that `Throttler` implements `AtomicThrottler` |
| `BreakerProofs`, `ShardConnProofs`, `TextServerProofs`, `FleetProofs` | proofs about the module of that name |
| `MC*` | instances for TLC: model values, requests, symmetry |

Definitions under a comment starting with `Bug:` are mutants: the next
definition with one plausible mistake. Putting one in place of the original
makes TLC report the property that `PROJECT.json` pairs it with; they take no
part in any specification.

### State and steps

*LeakyBucket.* `tat` is `bucketState.tat`, `now` the instant of the check.
`Consume(l, c)` is one admitted-or-refused real entry; a peek changes nothing.

*Throttler.* A bucket is a heap object: `tat[b]` is its field and `owner[b]` its
mutex. `hot` and `cold` map keys to buckets; a key's stripe decides which
rotation moves it. A call goes `idle -> scan -> (peek -> scan)* -> touch ->
check -> unlock -> idle`: `Start` reads the clock, `PeekTouch` and `PeekCheck`
serve one peek entry, `Touch`/`TouchAgain` fill the `buckets` map, `Lock` takes
the mutexes in key order, `BeginCheck` seeds `workingTAT`, `Check` evaluates one
entry, `Commit` writes all or nothing, `Unlock` and `Return` finish. `GCWake`
and `Rotate` are `gcLoop`; between the stripes other steps may happen. A bucket
no map and no call points to is garbage and may be handed out again by
`Create`, as the Go heap would. The keys' order as numbers stands for
`sort.Strings`. A call whose `ctx` is done at its start changes nothing and is
not a step. `charge`, `spent` and `age` are history variables.

*CircuitBreaker.* Every `Load`, `Store`, `Add` and `CompareAndSwap` is a step.
`openedAtNano` is kept as the time since it was stored, saturating at the
cooldown; `consecutiveFailures` saturates at the threshold: both are only ever
compared. `Answer`, `ShardFault` and `GiveUp` are the three ways the switch in
`throttle` tells apart. `trials` (who went through as a trial and is not done),
`stray` (a trial's claim was cleared by a call that is no trial), `lost` (a claim
was left behind by a caller that gave up, or made on a closed breaker), `streak` and `alone` are history.

*ShardConn.* A connection and its generation come and go together, so one number
names both. `pc[c]` is the line of `exchange`/`submit`/`ensureConn` a call is
at, `reader[g]` that of a `readLoop`. `mu` is a variable only because `submit`
holds it from the enqueue to the end of the write; every other critical section
is one step and needs `mu` free. `wire` and `inbox` are the requests the shard
has yet to answer and the answers yet to be read. A result is tagged with the
request it answers (`of`) and the key it echoes, which is all `decodeResult`
compares; any answer may instead be a bare `ERR`, which echoes no key and which
`decodeResult` accepts for any call (`client/conn.go:517-520`), or garbage, which
it never accepts. A batch counts as one entry: mixed lines of batches of one
length are accepted or not entry by entry, by the same rule. `torn` is history:
the connections on which a write has failed. `ended[c]` says how a call's wait ended: the client's timeout, the
caller's deadline, or its cancel. `"read"` faults include the idle read timeout
and a shard that closes the connection.

*Wire.* Pure operators on the state of `LeakyBucket`: a line is the sequence of
its tokens and a token the record of its fields, so that a key with whitespace
tears its entry into two tokens and one with a `|` adds a field, as the text
would. `handleThrottle` answers a line, `CommittedByLine` is its effect,
`throttle` is what the caller gets for each way a call may end. The limit on a
line's length is in `TextServer`.

*TextServer.* `main` is the line `main` and its `ListenAndServe` are at; each
hold of `listenerMu` is one step (`Publish`, `JudgeError`, `Close`), and closing
the socket is another. A line is a command, a length and whether its newline
ever comes; the bytes of a script pass from the socket (`left`) through
`bufio.Reader` (`buffered`, at most `BufSize`) into `readLine`'s `buf`. `Fill` is
a read of the socket of any size, `ReadRest`, `ReadFull`, `ReadEOF` and
`ReadDeadline` the ways `ReadSlice` returns, `Fragment` what `readLine` does with
them, `Dispatch` and `Flush` the rest of the loop. The commands stand for the
branches of `dispatch` and `handleHello`; what `THROTTLE` answers is in `Wire`.

*Fleet.* A call is submitted to the shard its shard key hashes to, or refused at
once (an open breaker, a closed shard), and returns with an answer or gives up.
`message` says what of it is on its way. A message is lost by never being served
or received, and late by being served after its caller has gone. Requests to one
shard may overtake each other, which one connection would not let happen and
reconnects do. `Restart` empties a shard's buckets and drops its connections;
`Resize` is a process that replaces its client by one over another list.
`commits` and `spent` are history: when each call's group was charged, and what
all shards together have charged a key within each window; `restarts` counts the
restarts, which the budget pays for.

## Runs

| Run | Shows |
|---|---|
| `leaky_bucket` | every shape with capacity up to 3, units up to 4, period up to 3, nonsensical ones and some at the 6-bit width: safe admission, exact and final retry times, consistent headroom, a safe fallback on overflow; and every batch of up to two entries of each kind, and of three around a rejected one, gets over the wire the verdicts an embedded throttler gives it, or a defined refusal, and the entries the server parses take effect as one group (one it rejects takes no part in it, see below) |
| `throttler` | two calls, two keys on two stripes, rotations anywhere: exclusive evaluation, a current working copy, one bucket per key, key lifetime, no deadlock; and calls with groups, repeated keys and peeks implement `AtomicThrottler` |
| `throttler_rate` | one key over six clock units, a GC up to one unit late, calls up to one unit long: the rate over every window |
| `throttler_liveness` | calls that name two keys in opposite orders always return |
| `breaker_alone` | one patient caller sees the documented state machine and recovers; deployment-like threshold and a long cooldown |
| `breaker_concurrent` | four callers that may give up: only faults open the breaker; two trials overlap only after a call that is no trial cleared the claim of one; a claim without an owner goes back to a caller that gave up or to a claim on a breaker that had closed |
| `shard_conn` | three calls on distinct keys, deadlines that may pass at any moment, broken connections, `close()`: tokens are conserved, queue and wire agree until a write fails, only then can an answer reach another call and only as a bare `ERR`, one dial at a time, no leaked socket |
| `shard_conn_liveness` | two calls for one slot, every network fault: every call returns without any timeout; `close()` ends every socket and reader |
| `text_server` | seven scripts in portions of any size, lines at, above and far above the limit, two callers of `Close` at any moment, peers that stop reading or go away: answers match lines, lines are bounded, an error means that something broke, `Close` ends `ListenAndServe`, the store and its goroutine and frees the port, silent connections end |
| `fleet` | three calls over a list that changes between one and two shards, a restart, lost and late messages, both policies: the budget of the fleet, and what a caller may conclude from its report |

Two runs expect a violation; each contradicts a sentence of the repository,
quoted under `findings`:

| Run | What the code does |
|---|---|
| `abandoned_trial` | never records a trial whose caller gave up, so the breaker never closes again |
| `tight_deadline` | lets one caller's deadline fail a shared connection's write and with it everybody's calls |

`RemoteAgreesWithLocal` is about verdicts. The effects of a call may differ
between a shard and an embedded throttler in one case: a real entry with a
negative capacity or period is refused by an embedded throttler, and so stops
the whole group, while a shard answers `ERR` and commits the rest. The same goes
for a key that cannot be sent. `types.go:62-65` tells a caller to OR `Throttled`
over its real entries to learn whether the transaction committed; over the wire
that is right only for the entries without an `Err`, which is what
`ReportTellsCommit` says.

`FleetBudget` counts one burst per restart and per list in use, and lets each
list drain for the whole window: a request sent to the old shard may still be
served while the new one is in use. `client/client.go:21-24` speaks of "one extra
burst" at a resize, which is right about the burst.

`SilentConnectionEnds` excludes a peer that stops reading its answers: `Flush`
has no write deadline, so the goroutine waits as long as such a peer keeps the
connection. It also shows something the repository's README (164-165) does not
mention: besides `QUIT` and too long a line, the idle timeout ends a connection.
A genuine accept error makes `ListenAndServe` return without closing its socket;
in the command the process then ends.

Five properties are stated in the modules and fail outside the passing runs. The
code's comments promise `ExclusiveEvaluation` only for a suitable GC interval; the
other four are promised by a comment, which the code contradicts:

* `PositiveRetryResolves` (`types.go:74`, `server/gcra.go:96-98`) fails with one
  limit of capacity 1, 3 units and period 10, `MaxInt64 = 127`,
  `MaxUint64 = 255` and `MaxNow = 6`: the debt of a request, 4 rounded up, does
  not fit the size of the bucket, 3 rounded down, and the request is refused
  forever with a positive `RetryAfter`.
* `ExclusiveEvaluation` needs calls shorter than two rotations. With
  `MaxCallTime = 6`, `GCInterval = 3` and one key, a call that stalls between
  getting its bucket and locking it evaluates a bucket the store has dropped,
  while another call evaluates the key's new one.
* `AtMostOneTrial` (`client/breaker.go:38-42`: "exactly one at a time, guarded by
  trialInFlight") fails with two callers, `FailureThreshold = 1` and
  `OpenDuration = 1`: a call let through before the breaker opened fails during
  the trial, `recordFailure` takes it for the trial (`client/breaker.go:109`)
  and clears `trialInFlight`, and a second trial joins the first.
  `OverlapNeedsStraggler` says that this is the only way.
* `NeverWedged` (`client/client.go:48-50`: calls fail "until a periodic trial call
  finds it healthy again") fails with three callers and the same constants, even if nobody
  gives up: a success closes the breaker between another call's cooldown check
  and its `CompareAndSwap`, the claim succeeds on a closed breaker and nobody
  clears it, and when a failure counted before opens the breaker again no trial
  is let through. `ClaimHasOwner` says that this and a caller that gives up are
  the only ways.

* `AnswersAreOwn` (a call that succeeds returns the answer to its own request)
  fails in the instance of `tight_deadline` with `ThreeCalls`, `DistinctKeys` and
  `MaxInFlight = 3`. `submit` releases `mu` between a failed write and its `abort`
  (`client/conn.go:290-292`), and other calls enqueue and write on the same
  connection in between. From there on lines and calls are paired wrongly: because
  the failed request is in the queue but not on the wire, or because the `abort`
  drains the queue (`client/conn.go:382`) while the reader holds a line it has not
  matched yet. A line with a key is then caught by the cross-check and the calls
  fail; a bare `ERR` has no key and is accepted (`client/conn.go:517-520`), so a
  call on a key of its own returns another call's refusal (`ErrEntryRejected`) and
  no error. This contradicts `client/conn.go:522-527`: the cross-check "turns a
  future desync bug into a loud, immediate error instead of a silently mislabeled
  result". The misled call is told that its entry was rejected, so it does not go
  ahead on another call's answer; it is wrongly refused, or was charged without
  being told. With equal keys the same interleavings hand over a keyed result as
  well (`client/conn.go:56-57`, `client/client_test.go:404-407`).
  `MatchedResponses`, which `shard_conn` checks and `AnswersReachTheirCalls`
  proves, says exactly this much: without a failed write on its connection a call
  gets its own answer, and with one it gets another's only as a bare `ERR` or on
  an equal key.

### Bounds

*Throttler.* Two calls suffice for every pairwise race on a lock or a bucket;
two keys for a lock order; two stripes for a rotation caught halfway; three
buckets for two live keys and one orphan. `MaxClock` covers at least one
rotation (and in `throttler_rate` two, so that a key can be dropped and come
back). `MaxCallTime` bounds how long a call may run and `MaxGCDelay` how late
`gcLoop` may be. They are assumptions about scheduling: `OneBucketPerKey`,
`ExclusiveEvaluation` and `RateConformance` need a call to be shorter than a GC
interval (60 s by default).
`RateConformance` covers limits whose burst drains within what the interval
leaves after the worst delay (`DrainsBeforeDrop`): this is the README's advice
to pick an interval "comfortably larger than the longest burst window", and one
clock unit less breaks the property.

*Breaker.* Four callers give two trials, a straggler and a bystander.

*TextServer.* One connection: connections share nothing but the throttler, whose
races are `Throttler`'s. Two callers of `Close` give every order of two closes.
A limit of 4 bytes and a buffer of 3 give lines below, at and one above the
limit, in one fragment and in several; scripts have two to four lines, so that
the buffer can hold one line's end and the next one's beginning. The server stops, so
deadlock is not checked; `ShutdownCompletes` says how far it must get.

*Fleet.* Three calls suffice for a burst, an overtaking request and one over the
limit. Going from one shard to two moves the tenant whose keys they charge, and
back. One restart, two instants: time serves only to drain a bucket between two
calls.

*ShardConn.* Two connections give a reconnect; when `MaxConns` is used up a dial
fails, which counts as the shard's fault. `MaxInFlight` is 3 where the queue
should be long and 1 where callers should queue for a slot. In `shard_conn` a
passed deadline stands for every end of a wait: it also fails writes, so write
and dial faults come from it; garbled answers are left to `shard_conn_liveness`.
Its view (`ConnView`) leaves out what neither a later step nor one of its
properties reads; three calls are what a misdirected answer takes.
Calls are one-shot,
so these runs may stop and deadlock is not checked; `EveryCallReturns` says that
they stop only when every call has returned.

### Fairness

`throttler_liveness`: weak fairness of `gcLoop` and strong fairness of each
call. Strong, because a mutex others keep taking is free only now and then;
`sync.Mutex` hands itself over to a waiter that has starved for a millisecond.
Calls need not start again. `breaker_alone`: time passes, callers keep calling
and exchanges end, as the client's own timeout makes them. `shard_conn_liveness`:
the same strong fairness for calls and readers (mutex and channel operations),
weak fairness of the shard and of the rest of `close()`. A reader on an open and
silent socket may wait for ever: no timeout is needed, not even the idle read
timeout. `text_server`: weak fairness of `main`, of `gcLoop`, of the rest of a
`Close` once begun, and of each connection, whose reads have a deadline; of
`Flush` only while the peer reads. Nothing is assumed of failures, of peers, of
whether `Close` is called, or of the exit of the process.

## Proofs

All proofs are checked by TLAPS for every value of the constants, from the named
`ASSUME`s of the modules only; TLC evaluates those assumptions in every run.

An invariant that TLC checks is seldom inductive; each proof names the
strengthening it needs.

*One bucket* (`GcraProofs`, `LeakyBucketProofs`). All five properties of
`LeakyBucket`: `AdmissionIsSafe`, `RetryTimeIsExact`, `FinalRefusals`,
`HeadroomIsHonest` and `VerdictsAreRepresentable`. The inductive part is small:
the TAT stays within `0..MaxInt64` (`StateOK`), because a refusal keeps it and an
admission stores a sum that `addNonNeg` accepted. The rest is arithmetic about
`gcraCheck`: `CostNs` rounded up times units is at least cost times period,
`MaxDebt` rounded down times units at most capacity times period, so an admitted
debt fits the exact bucket (`AdmittedFits`); the three ways a check ends
(`VerdictCases`); waiting `d` reduces the excess by exactly `d` as long as it is
positive (`WaitingDrains`); and `RemainingExact`, where the only sum that may
wrap, capacity + 1, does so harmlessly.

*A call over the wire* (`LeakyBucketProofs`). All three properties of `Wire`, for
batches of any length over any bucket: `RemoteIsLocal`, `ReportsTellCommits` and
`AdmissionsHaveReasons`. Nothing beyond `StateOK` is needed of the state. The
argument follows the batch around:

* what is sent is the caller's entries with valid keys, in order, and the list
  `validIdx` finds each one's place again (`PositionsList`, `SentEntries`); each of
  them is one token (`EncodedLine`);
* normalising twice is normalising once, so a parsed entry is checked like the
  original (`ParsedChecksAlike`), and one that does not parse would be refused for
  good by an embedded throttler (`UnparsedIsRefused`), leaving its working copy
  alone: with and without the rejected entries a group has the same TATs at every
  entry that both evaluate (`GroupSkips`, `VerdictsAlike`);
* every answer of the shard decodes (`AnswerDecodes`), and what it decodes to is
  laid out by the outcome of the call (`ExchangeResults`, `CallerResults`);
* a group in which nothing is refused has moved exactly the TATs of its real
  entries' keys, because every admission moves a TAT (`GroupRaises`).

*Locks* (`ThrottlerProofs`). `TypeCorrect` (`TypeOK` is inductive; beyond the
shapes it needs that `todo` only holds indices of the call's own entries) and
`CopyStaysCurrent`: each call's part of `WorkingCopyIsCurrent` is preserved by
everybody else's steps because a TAT changes only in `Commit`, whose call owns
the buckets it writes, or in `Create`, which hands out a bucket nobody holds
(`GetOrCreateFrame`); mutexes change hands only from `NoCall` or from their
owner. No assumption about time is used: the lock discipline holds even for a
call that stalls, on the bucket it holds.

*Store and rate* (`ThrottlerProofs`), in four layers, each using the ones before it:

* `KeysLiveTwoRotations`: `StoreInv` adds that no two keys share a bucket.
* `OneBucket` and `EvaluationIsExclusive`, for `CallsAreShort`, that is
  `MaxCallTime + MaxGCDelay < GCInterval`. `TimingInv` ties the clock, `gcLoop`'s
  round and the age of each call together; `HeldInv` says that a bucket in a
  call's hands is its key's, and that once the key has gone cold the call
  started before that rotation was over, so the next one finds the call done.
  The hypothesis is about scheduling, not code: the interval is 60 s by default
  and a call does no I/O. It cannot be dropped (see the counterexample above).
* `RateIsKept`, without that hypothesis: it follows from `DrainsBeforeDrop`, which
  is part of `RateConformance`. `RateInv` bounds, for each window, what was spent
  by how far the key's TAT (or a call's working copy plus its charge) lies beyond
  the window's start, and what was spent before the key was dropped by a TAT that
  had passed by then. A limit of negative capacity or period admits nothing,
  whatever the formula for its burst says; hence "if there is any" in the
  property, which an earlier form lacked.

*Linearizability* (`RefinementProofs`). `CallsAreAtomic`: `Spec => Linearizable`, for
`CallsAreShort` and `BurstsDrain`, that is, every limit asked for that can admit
anything satisfies `DrainsBeforeDrop`. The second hypothesis is what "dropping an
idle key is invisible" means: a bucket whose burst outlasts the interval is
forgotten while it still owes. Both hold in the `throttler` run, and TLC finds no
violation of the four invariants that carry the simulation on that instance:

* `DrainInv`: a TAT, or the working copy of a call, lies at most `Slack` beyond
  the instant it was computed for, whatever limits were mixed on the key; a key
  about to be dropped is therefore behind the clock and every running call.
* `ResultsOK` and `PeekInv`: a peek has a verdict exactly once it is done, and
  its bucket before that.
* `GroupingInv`: what the loop of `evaluateRealGroup` has computed is a prefix of
  `Group` over the buckets it touched, whatever the others do meanwhile.

Then `Start` is `Begin`, `PeekCheck` is `Peek`, `Return` is `End`, `Rotate` is a
`Forget` of the keys it drops, and `Commit` (or `EnterGroup`, when a call has no
real entry) is `Transact`: a group reads and writes only the keys of its real
entries (`GroupFrame` in `GcraProofs`), so the buckets in hand give the result that
the whole map would. Every other step of a call shows nothing. The operators of
`Batch` and `Gcra` are reached twice, by `EXTENDS` and through the instance
`Atomic`; that both mean the same is proved (`SameBatch`), not assumed.

*Breaker* (`BreakerProofs`). `BreakerTypeCorrect` needs that no label after the
first load is reached when the breaker is disabled. `OnlyFaultsOpen`: `FaultInv`
counts the callers between the fault and their increment, so that the counter is
at most the streak of faults, and `alone` means alone. `OverlapsAreExplained`:
two trials, or a trial without a claim, only with `stray` set.
`ClaimsAreOwned`: a claim passes from the trial to the call that clears it, or is
`lost`. `LoneCallerRefines`: for one caller that does not give up, `BreakerStates`
is implemented step by step; `LoneInv` says which label goes with which values of
the four atomics. The hypotheses are those of the doc comment's machine, which
concurrent callers do not see (`AtMostOneTrial` fails for two).

*Connection* (`ShardConnProofs`), for any number of calls and connections:

* `ConnTypeCorrect`, `TokensAreConserved`: `TokenInv` adds that a call past
  `acquire` has a generation, and that only finitely many calls hold a token, so
  that the cardinalities in the property count something.
* `DialsAreSingle`, `SocketsAreOwned`: `DialInv` ties `dialing`, `conn`, `closed` and
  `closing` together; no connection is current while somebody dials or after
  `close()`.
* `CallsAreNotStranded`: `QueueInv` places each call in the queue of its own
  generation, once, from its enqueue to its result, and keeps a reader alive as
  long as the queue is not empty.
* `QueueAndWireAgree`: `WireInv` adds who holds `mu`, that nobody drains the
  current connection, and that a connection not yet installed is its dialer's
  alone; `TornInv` that a submit drains only where its write has failed.
* `AnswersReachTheirCalls`, for any keys: `EchoInv` says that a line carries the
  key of its request, an `ERR` or garbage, and that a call keeps only a line with
  its own key or an `ERR`; `OwnInv` that a call with a line has been through the
  queue and that the line is its own unless a write has failed on its
  connection, which rests on `QueueMatchesWire`. Why the exception is needed is
  told above, under `AnswersAreOwn`.

*Text server* (`TextServerProofs`). `ErrorsAreGenuine`: whoever makes `Accept`
fail on purpose has set `closed` before (`ListenInv`). `LinesAreBounded` and
`ServerTypeCorrect`: `readLine` goes on only while what it has is below the limit
and short of the line's newline, and one fragment is at most a buffer
(`ConnInv`). `AnswersInOrder`: `Progress` says of a connection that still reads that
what it has taken of the current line, what is buffered and what is left on the
socket are together the rest of the script from that line on, and that it has
written exactly the answers owed to the lines before; `Faithful` carries this
through the dispatch and the flush of a line. Bytes and answers up to a line are
recursive functions over the script, and what they satisfy (`Bytes*`, `Owed*`) is
proved by induction over its lines (`LineInduction`).

*Fleet* (`FleetProofs`). `FleetTypeCorrect`, for every assignment of keys to
shards. `ReportsAreTrue`: `ReportInv` follows a call's message. While the request
is on its way nothing is charged; an answer on its way tells the truth about the
charge; a returned call has that answer or the policy's fill. That a batch's
verdicts tell its commit (`AnswerIsTruthful`) needs induction over the entries of
a batch of any length. The library's induction theorems take an operator, which
the provers cannot instantiate; `SegmentInduction` in `GcraProofs` takes a set of
numbers instead and rests on the well-foundedness of strict inclusion between
finite sets (`LeastNatural`), and the operators about batches (`GroupExists`,
`GroupUnfolds`, `GroupVerdict`, `CommittedType`) are proved with it.

`FleetBudgetIsKept`: for each window `BudgetInv` compares what was spent of a key
with what the shards it can be at account for. What was spent since the window
began is still in one of their buckets, has drained from it since, or was lost
with a restart; a bucket never holds more than a burst, so each restart and each
shard is worth at most one. `RouteInv` says that a request on its way is for a
shard that some list in use so far routes it to. That a committed group pays for
what it spends, and leaves at most a burst (`Paid`), is an induction over its
entries; the shares of the shards are added up one by one. A
limit without a positive capacity and period has no meaningful burst but admits
nothing, hence "nothing spent" as the property's first alternative.

Only model-checked:

* liveness (`CallsReturn`, `Recovers`, `EveryCallReturns`, `CloseIsFinal`,
  `ShutdownCompletes`, `SilentConnectionEnds`), which needs fairness and `ENABLED`.

Every invariant a run checks is stated by a theorem as well.

## Not modelled

Metrics, their ticker and their endpoint, the key counts and what `STATS`
reports of them: nothing reads them back. Flags and the wiring of options. The
hash (an arbitrary map from keys to stripes and shards). Test doubles, which are
stateless, and the load and keyspace tools, which are programs of their own
around the client. What a throttler does after its `Close`: nothing is promised.
`client/simple.go` is a sharded client with one shard. In the breaker, reading
the clock and the atomic operation it belongs to are one step. In the
connection, a write either reaches the shard whole or fails. In the
text server, answers are written when they are flushed, line by line, as the
loop does. In the fleet the breaker, the connection and the locks are abstract:
their own modules show what the fleet assumes of them.

## Plan

1. *Done*: `Gcra`, `LeakyBucket`, `Throttler` with its abstract specification,
   `CircuitBreaker`, `ShardConn`, `Wire`; first proofs.
2. *Done*: `TextServer`, `Fleet`, and the histories of the breaker's trials.
3. *Done*: proofs for every component: the types and safety invariants of the
   bucket, the store, the breaker, the connection, the text server and the fleet,
   and the refinement of the breaker's states.
4. *Done*: the refinement of `AtomicThrottler` by `Throttler`.
5. *Done*: `Wire`, `AnswersMatchLines` and `FleetBudget`, restated with recursive
   functions over positions, lines and entries, which the prover can unfold.
