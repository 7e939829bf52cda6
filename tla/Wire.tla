--------------------------------- MODULE Wire ---------------------------------
(***************************************************************************)
(* A Throttle call over DHP/1, from the caller's entries to the caller's   *)
(* results: client/conn.go validates, encodes and decodes, and             *)
(* server/textserver.go parses, evaluates and formats.  A line is the      *)
(* sequence of its whitespace-separated tokens, and a token a record of    *)
(* its '|'-separated fields; "fields" is how many there are.  The shard's  *)
(* buckets are the bucket of LeakyBucket and one never seen.               *)
(***************************************************************************)
EXTENDS LeakyBucket, Batch, FiniteSets

CONSTANT Batches    \* the batches of entries a caller may send

\* Keys that DHP/1 can carry, and one of each kind that it cannot.
ValidKeys == {"k", "m"}
EmptyKey  == ""
SpacedKey == "k m"
PipedKey  == "k|m"
Keys      == ValidKeys \cup {EmptyKey, SpacedKey, PipedKey}

ASSUME WireAssumption ==
  Batches \subseteq
    Seq([key : Keys, limit : [capacity : Int64, units : Int64, period : Int64],
         cost : Int64, peek : BOOLEAN])

\* The members of P among the first n of m positions, in order: what a loop
\* appends to a slice of indices.
Positions(P, m) ==
  LET q[n \in 0..m] == IF n = 0 THEN <<>>
                       ELSE IF n \in P THEN Append(q[n-1], n) ELSE q[n-1]
  IN  q

\* The shard's TATs before the call.
Tats == [key \in ValidKeys |-> IF key = "k" THEN tat ELSE 0]

(***************************************************************************)
(* Client: RequestEntry to tokens.                                         *)
(***************************************************************************)
IsKeyDelimiter(key) == key \in {SpacedKey, PipedKey}

validateKey(key) == key # EmptyKey /\ ~IsKeyDelimiter(key)

ModeReal == "R"
ModePeek == "P"

\* Bug: an unset number of units goes out as it is.
FieldsRaw(n, key, e) ==
  [fields |-> n, key |-> key, capacity |-> e.limit.capacity, units |-> e.limit.units,
   period |-> e.limit.period, cost |-> EffectiveCost(e.cost),
   mode |-> IF e.peek THEN ModePeek ELSE ModeReal]

Fields(n, key, e) ==
  [fields |-> n, key |-> key, capacity |-> e.limit.capacity,
   units |-> EffectiveUnits(e.limit.units), period |-> e.limit.period,
   cost |-> EffectiveCost(e.cost), mode |-> IF e.peek THEN ModePeek ELSE ModeReal]

\* What one entry becomes on the line.  A key with whitespace would be torn
\* into two tokens, one with a '|' would give its token a field too many.
Encode(e) ==
  CASE e.key = SpacedKey -> << [fields |-> 1, key |-> "k"], Fields(6, "m", e) >>
    [] e.key = PipedKey  -> << Fields(7, "k", e) >>
    [] OTHER             -> << Fields(6, e.key, e) >>

encodeThrottle(es) ==
  LET line[n \in 0..Len(es)] == IF n = 0 THEN <<>> ELSE line[n-1] \o Encode(es[n])
  IN  line[Len(es)]

(***************************************************************************)
(* Server: tokens to RequestEntry, evaluation, ResponseEntry to tokens.    *)
(***************************************************************************)
\* Whether parseEntry accepts a token ...
parseEntry(tok) ==
  /\ tok.fields = 6 /\ tok.key # EmptyKey
  /\ \A n \in {tok.capacity, tok.units, tok.period, tok.cost} : n \in 0..MaxInt64
  /\ tok.mode \in {ModeReal, ModePeek}

\* ... and the entry it makes of it.
Parsed(tok) ==
  [key |-> tok.key, cost |-> tok.cost, peek |-> tok.mode = ModePeek,
   limit |-> [capacity |-> tok.capacity, units |-> tok.units, period |-> tok.period]]

ERR == [fields |-> 1]

formatResult(key, v) ==
  [fields |-> 4, key |-> key, throttled |-> IF v.throttled THEN "1" ELSE "0",
   remaining |-> v.remaining, retryAfter |-> v.retryAfter]

\* entryIdx: the positions of the tokens that parsed, in order.
EntryIdx(line) ==
  Positions({i \in DOMAIN line : parseEntry(line[i])}, Len(line))[Len(line)]

Accepted(line) ==
  LET idx == EntryIdx(line) IN [j \in DOMAIN idx |-> Parsed(line[idx[j]])]

\* Bug: the answers fill the line from the front, the ERRs follow.
handleThrottleFromFront(line, fails) ==
  LET es == Accepted(line)
      vs == Verdicts(es, Tats, now)
  IN  [i \in DOMAIN line |->
         IF i \in DOMAIN vs /\ ~fails THEN formatResult(es[i].key, vs[i]) ELSE ERR]

\* The response line: each verdict goes back to the position its token had,
\* ERR wherever a token did not parse, or everywhere if the Throttler fails.
handleThrottle(line, fails) ==
  LET idx == EntryIdx(line)
      es  == Accepted(line)
      vs  == Verdicts(es, Tats, now)
  IN  [i \in DOMAIN line |->
         IF fails \/ ~parseEntry(line[i]) THEN ERR
         ELSE LET j == CHOOSE j \in DOMAIN idx : idx[j] = i
              IN  formatResult(es[j].key, vs[j])]

\* Bug: an entry that does not parse fails the whole group.
CommittedByLineUnlessErr(line, fails) ==
  IF fails \/ Len(Accepted(line)) < Len(line) THEN Tats
  ELSE Committed(Accepted(line), Tats, now)

\* What the line leaves in the shard's buckets.
CommittedByLine(line, fails) ==
  IF fails THEN Tats ELSE Committed(Accepted(line), Tats, now)

(***************************************************************************)
(* Client: tokens to ResponseEntry, and the whole of shardConn.throttle.   *)
(***************************************************************************)
Reply(key, throttled, remaining, retryAfter, err) ==
  [key |-> key, throttled |-> throttled, remaining |-> remaining,
   retryAfter |-> retryAfter, err |-> err]

\* A response decodeResult accepts for es; any other one fails the exchange.
WellFormed(line, es) ==
  /\ Len(line) = Len(es)
  /\ \A i \in DOMAIN es :
       line[i] = ERR \/ (/\ line[i].fields = 4 /\ line[i].key = es[i].key
                         /\ line[i].remaining >= 0)

decodeResult(line, es) ==
  [i \in DOMAIN es |->
     IF line[i] = ERR THEN Reply(es[i].key, TRUE, 0, 0, "ErrEntryRejected")
     ELSE Reply(es[i].key, line[i].throttled = "1", line[i].remaining,
                line[i].retryAfter, "none")]

\* validIdx and validEntries.
ValidIdx(es) ==
  Positions({i \in DOMAIN es : validateKey(es[i].key)}, Len(es))[Len(es)]

ValidEntries(es) ==
  LET idx == ValidIdx(es) IN [j \in DOMAIN idx |-> es[idx[j]]]

\* How a call may end: the breaker refuses it, its exchange fails, the shard
\* answers, or answers with its Throttler failing.
Outcomes == {"open", "fault", "answer", "answer of a failing Throttler"}

\* The results for the entries that were sent: what decodes from the response,
\* or the configured policy for all of them.
Exchange(sent, outcome, failOpen) ==
  LET line == handleThrottle(encodeThrottle(sent), outcome # "answer")
  IN  IF outcome \notin {"open", "fault"} /\ WellFormed(line, sent)
      THEN decodeResult(line, sent)
      ELSE [j \in DOMAIN sent |-> Reply(sent[j].key, ~failOpen, 0, 0, "shard")]

\* The results in the caller's order, the keys that were not sent refused.
PutBack(es, idx, res, refusal) ==
  [i \in DOMAIN es |->
     IF validateKey(es[i].key) THEN res[CHOOSE j \in DOMAIN idx : idx[j] = i]
     ELSE Reply(es[i].key, refusal, 0, 0, "ErrInvalidKey")]

\* Bug: the fail-open policy also covers the keys that were never sent.
throttleFillsAll(es, outcome, failOpen) ==
  PutBack(es, ValidIdx(es), Exchange(ValidEntries(es), outcome, failOpen),
          ~(failOpen /\ outcome \in {"open", "fault"}))

\* The results of shardConn.throttle.
throttle(es, outcome, failOpen) ==
  PutBack(es, ValidIdx(es), Exchange(ValidEntries(es), outcome, failOpen), TRUE)

-----------------------------------------------------------------------------
\* Where es has keys DHP/1 can carry, and how many of those places come up to i.
SendableAt(es) == {i \in DOMAIN es : es[i].key \in ValidKeys}

Place(es, i) == Cardinality({j \in SendableAt(es) : j <= i})

\* The entries at those places, in order.
Sendable(es) ==
  [n \in 1..Cardinality(SendableAt(es)) |->
     es[CHOOSE i \in SendableAt(es) : Place(es, i) = n]]

SameReports(es, rs, vs) ==
  \A i \in DOMAIN es :
    IF es[i].key \in ValidKeys
    THEN LET v == vs[Place(es, i)]
         IN  /\ rs[i].throttled = v.throttled /\ rs[i].remaining = v.remaining
             /\ rs[i].retryAfter = v.retryAfter
    ELSE rs[i].throttled

\* What a shard's client decodes is what an embedded InMemoryThrottler with
\* the same buckets reports for the same entries, in the same places: the
\* normalisations of encodeThrottle, parseEntry and Throttle agree, and an
\* entry the shard rejects is one an embedded throttler refuses for good.
RemoteAgreesWithLocal ==
  \A es \in Batches :
    SameReports(es, throttle(es, "answer", TRUE), Verdicts(Sendable(es), Tats, now))

Tells(es, rs, after) ==
  LET real == {i \in DOMAIN es : ~es[i].peek /\ rs[i].err = "none"}
  IN  IF \E i \in real : rs[i].throttled
      THEN after = Tats
      ELSE \A key \in ValidKeys :
             after[key] # Tats[key] <=> \E i \in real : es[i].key = key

\* A caller that leaves out the entries with an Err can tell from Throttled
\* alone what its line committed: all of the other real entries if none of
\* them is refused, and nothing if one is.  Entries the shard rejects take no
\* part in the group, and so never stop the others.
ReportTellsCommit ==
  \A es \in Batches :
    Tells(es, throttle(es, "answer", TRUE),
          CommittedByLine(encodeThrottle(ValidEntries(es)), FALSE))

\* An entry reported as not throttled was admitted by the shard, or the shard
\* gave no answer and the client fails open; a key that was never sent and an
\* entry the shard rejected are throttled whatever the policy.
AdmissionHasReason ==
  \A es \in Batches, outcome \in Outcomes, failOpen \in BOOLEAN :
    LET rs == throttle(es, outcome, failOpen)
        vs == Verdicts(Sendable(es), Tats, now)
    IN  \A i \in DOMAIN es :
          ~rs[i].throttled =>
            /\ es[i].key \in ValidKeys
            /\ \/ outcome \in {"open", "fault"} /\ failOpen
               \/ outcome = "answer" /\ ~vs[Place(es, i)].throttled
=============================================================================
