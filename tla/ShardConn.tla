------------------------------ MODULE ShardConn ------------------------------
(***************************************************************************)
(* client/conn.go: one shard's pipelined connection.  Concurrent calls run *)
(* exchange, submit and ensureConn; every connection has a readLoop; close *)
(* may come at any time.  At the other end the shard's handleConn answers  *)
(* a connection's requests in order.                                       *)
(*                                                                         *)
(* A connection and its generation are made and dropped together, so one   *)
(* number names both.  One step is what the code does under one hold of mu *)
(* or one channel or socket operation; mu outlives a step only in submit,  *)
(* between the enqueue and the end of the write.  Taking a call out of     *)
(* pending, releasing its token and answering its resultCh are one step:   *)
(* whoever took the call is the only one to touch either.  A batch counts  *)
(* as one entry: the key of an answer stands for the keys in its line.     *)
(*                                                                         *)
(* A definition under a comment that starts with "Bug:" is no part of the  *)
(* model: it is the next definition with a mistake in it, kept to show     *)
(* that some property notices.                                             *)
(***************************************************************************)
EXTENDS Integers, Sequences, FiniteSets

CONSTANTS
  Calls,        \* the calls made; each is one pendingCall
  KeyOf,        \* the key of a call's request, echoed by its response
  MaxInFlight,  \* maxInFlight
  MaxConns,     \* bound on the connections ever dialled
  Faults,       \* faults that may happen: "dial", "write", "read", "garbled"
  Expiries,     \* how a wait may end: "timeout", "deadline", "cancel"
  NoCall, NoLine

Conns == 1..MaxConns
None  == 0

\* An answer is tagged with the request it answers and the key it echoes: "ERR"
\* is a bare ERR, which echoes none, and "garbage" is no answer at all.
Replies        == [of : Calls, key : {KeyOf[c] : c \in Calls} \cup {"ERR", "garbage"}]
Response(c, k) == [of |-> c, key |-> k]
Failed         == [of |-> NoCall, key |-> "error"]

ASSUME ShardConnAssumption ==
  /\ MaxInFlight \in Nat \ {0} /\ MaxConns \in Nat \ {0}
  /\ Faults \subseteq {"dial", "write", "read", "garbled"}
  /\ Expiries \subseteq {"timeout", "deadline", "cancel"}
  /\ \A c \in Calls : KeyOf[c] \notin {"ERR", "garbage"}
  /\ NoCall \notin Calls /\ NoLine \notin Replies \cup {Failed}

VARIABLES
  mu,                     \* the call that holds mu across steps, or NoCall
  conn, dialing, closed,  \* shardConn's fields; conn names its gen too
  pending, sem,           \* generation.pending and the tokens left in sem
  live,                   \* the sockets open on this side
  reader, line,           \* where each readLoop is, and the line it has read
  wire, inbox,            \* requests the shard has not answered; unread answers
  pc, mine, ended,        \* where a call is, the connection it got, how its wait ended
  result,                 \* the call's resultCh
  outcome,                \* what exchange returned: "ok", "fault" (shardFault), "own"
  closing,                \* the connection close() took out and has yet to close
  dialled,                \* connections dialled so far
  faulted, torn           \* history: the shard misbehaved; where a write has failed

connVars  == <<conn, dialing, closed>>
genVars   == <<pending, sem>>
readVars  == <<reader, line>>
netVars   == <<live, wire, inbox>>
callVars  == <<pc, mine, ended, result, outcome>>
envVars   == <<closing, dialled, faulted, torn>>
vars == <<mu, connVars, genVars, readVars, netVars, callVars, envVars>>

Free == mu = NoCall
Goto(c, l) == pc' = [pc EXCEPT ![c] = l]

\* waitCtx is done; the caller's own ctx is done; the write deadline has passed.
Done(c)     == ended[c] # "no"
OwnEnd(c)   == ended[c] \in {"deadline", "cancel"}
PastWrite(c) == ended[c] \in {"timeout", "deadline"}

\* exchange returns an error: shardFault unless the caller's ctx is done.
ReturnErr(c) ==
  /\ Goto(c, "returned")
  /\ outcome' = [outcome EXCEPT ![c] = IF OwnEnd(c) THEN "own" ELSE "fault"]

-----------------------------------------------------------------------------
(* ensureConn *)

Begin(c) ==
  /\ pc[c] = "new" /\ Goto(c, "ensure")
  /\ UNCHANGED <<mu, connVars, genVars, readVars, netVars, mine, ended, result, outcome, envVars>>

EnsureClosed(c) ==
  /\ pc[c] = "ensure" /\ Free /\ closed
  /\ ReturnErr(c)
  /\ UNCHANGED <<mu, connVars, genVars, readVars, netVars, mine, ended, result, envVars>>

EnsureHave(c) ==
  /\ pc[c] = "ensure" /\ Free /\ ~closed /\ conn # None
  /\ mine' = [mine EXCEPT ![c] = conn]
  /\ Goto(c, "acquire")
  /\ UNCHANGED <<mu, connVars, genVars, readVars, netVars, ended, result, outcome, envVars>>

EnsureWait(c) ==
  /\ pc[c] = "ensure" /\ Free /\ ~closed /\ conn = None /\ dialing
  /\ Goto(c, "awaitDial")
  /\ UNCHANGED <<mu, connVars, genVars, readVars, netVars, mine, ended, result, outcome, envVars>>

\* Bug: no look at dialing before a dial.
EnsureDialUnguarded(c) ==
  /\ pc[c] = "ensure" /\ Free /\ ~closed /\ conn = None
  /\ dialing' = TRUE
  /\ Goto(c, "dial")
  /\ UNCHANGED <<mu, conn, closed, genVars, readVars, netVars, mine, ended, result, outcome, envVars>>

EnsureDial(c) ==
  /\ pc[c] = "ensure" /\ Free /\ ~closed /\ conn = None /\ ~dialing
  /\ dialing' = TRUE
  /\ Goto(c, "dial")
  /\ UNCHANGED <<mu, conn, closed, genVars, readVars, netVars, mine, ended, result, outcome, envVars>>

\* The dial another call had in flight is over, or this call's wait is.
DialOver(c) ==
  /\ pc[c] = "dialOver" /\ Goto(c, "ensure")
  /\ UNCHANGED <<mu, connVars, genVars, readVars, netVars, mine, ended, result, outcome, envVars>>

DialWaitEnds(c) ==
  /\ pc[c] \in {"awaitDial", "dialOver"} /\ Done(c)
  /\ ReturnErr(c)
  /\ UNCHANGED <<mu, connVars, genVars, readVars, netVars, mine, ended, result, envVars>>

\* DialContext returns: a socket, or an error.
Dial(c) ==
  /\ pc[c] = "dial" /\ ~Done(c) /\ dialled < MaxConns
  /\ dialled' = dialled + 1
  /\ live' = [live EXCEPT ![dialled + 1] = TRUE]
  /\ mine' = [mine EXCEPT ![c] = dialled + 1]
  /\ Goto(c, "install")
  /\ UNCHANGED <<mu, connVars, genVars, readVars, wire, inbox, ended, result, outcome,
                 closing, faulted, torn>>

DialFails(c) ==
  /\ pc[c] = "dial" /\ (Done(c) \/ "dial" \in Faults \/ dialled = MaxConns)
  /\ faulted' = (faulted \/ ~Done(c))
  /\ mine' = [mine EXCEPT ![c] = None]
  /\ Goto(c, "install")
  /\ UNCHANGED <<mu, connVars, genVars, readVars, netVars, ended, result, outcome,
                 closing, dialled, torn>>

\* Bug: a close() during the dial goes unnoticed.
InstallAfterClose(c) ==
  LET g    == mine[c]
      good == g # None
  IN  /\ pc[c] = "install" /\ Free
      /\ dialing' = FALSE
      /\ pc' = [d \in Calls |->
                  IF d = c THEN IF good THEN "acquire" ELSE "discard"
                  ELSE IF pc[d] = "awaitDial" THEN "dialOver" ELSE pc[d]]
      /\ conn' = IF good THEN g ELSE conn
      /\ reader' = IF good THEN [reader EXCEPT ![g] = "read"] ELSE reader
      /\ UNCHANGED <<mu, closed, genVars, line, netVars, mine, ended, result, outcome, envVars>>

\* Bug: a failed dial leaves the calls that wait for it asleep.
InstallWakesOnSuccess(c) ==
  LET g    == mine[c]
      good == g # None /\ ~closed
  IN  /\ pc[c] = "install" /\ Free
      /\ dialing' = FALSE
      /\ pc' = [d \in Calls |->
                  IF d = c THEN IF good THEN "acquire" ELSE "discard"
                  ELSE IF pc[d] = "awaitDial" /\ good THEN "dialOver" ELSE pc[d]]
      /\ conn' = IF good THEN g ELSE conn
      /\ reader' = IF good THEN [reader EXCEPT ![g] = "read"] ELSE reader
      /\ UNCHANGED <<mu, closed, genVars, line, netVars, mine, ended, result, outcome, envVars>>

\* Under mu again: the dial is over for everyone, and its connection is
\* installed unless there is none or close() ran meanwhile.
Install(c) ==
  LET g    == mine[c]
      good == g # None /\ ~closed
  IN  /\ pc[c] = "install" /\ Free
      /\ dialing' = FALSE
      /\ pc' = [d \in Calls |->
                  IF d = c THEN IF good THEN "acquire" ELSE "discard"
                  ELSE IF pc[d] = "awaitDial" THEN "dialOver" ELSE pc[d]]
      /\ conn' = IF good THEN g ELSE conn
      /\ reader' = IF good THEN [reader EXCEPT ![g] = "read"] ELSE reader
      /\ UNCHANGED <<mu, closed, genVars, line, netVars, mine, ended, result, outcome, envVars>>

\* Bug: the socket that lost the race against close() is left open.
DiscardLeaks(c) ==
  /\ pc[c] = "discard"
  /\ ReturnErr(c)
  /\ UNCHANGED <<mu, connVars, genVars, readVars, netVars, mine, ended, result, envVars>>

\* ensureConn's error return closes the socket it could not install.
Discard(c) ==
  /\ pc[c] = "discard"
  /\ live' = [g \in Conns |-> live[g] /\ g # mine[c]]
  /\ ReturnErr(c)
  /\ UNCHANGED <<mu, connVars, genVars, readVars, wire, inbox, mine, ended, result, envVars>>

-----------------------------------------------------------------------------
(* submit *)

\* A token of the generation's semaphore.
Acquire(c) ==
  /\ pc[c] = "acquire" /\ sem[mine[c]] > 0
  /\ sem' = [sem EXCEPT ![mine[c]] = @ - 1]
  /\ Goto(c, "lock")
  /\ UNCHANGED <<mu, connVars, pending, readVars, netVars, mine, ended, result, outcome, envVars>>

\* Bug: a token given back that was never taken.
AcquireWaitReleases(c) ==
  /\ pc[c] = "acquire" /\ Done(c)
  /\ ReturnErr(c)
  /\ sem' = [sem EXCEPT ![mine[c]] = @ + 1]
  /\ UNCHANGED <<mu, connVars, pending, readVars, netVars, mine, ended, result, envVars>>

AcquireWaitEnds(c) ==
  /\ pc[c] = "acquire" /\ Done(c)
  /\ ReturnErr(c)
  /\ UNCHANGED <<mu, connVars, genVars, readVars, netVars, mine, ended, result, envVars>>

\* The connection changed meanwhile: give the token back and start over.
Stale(c) ==
  /\ pc[c] = "lock" /\ Free /\ conn # mine[c]
  /\ Goto(c, "giveBack")
  /\ UNCHANGED <<mu, connVars, genVars, readVars, netVars, mine, ended, result, outcome, envVars>>

\* Bug: the retry keeps the old generation's token.
GiveBackForgets(c) ==
  /\ pc[c] = "giveBack"
  /\ Goto(c, "ensure")
  /\ UNCHANGED <<mu, connVars, genVars, readVars, netVars, mine, ended, result, outcome, envVars>>

GiveBack(c) ==
  /\ pc[c] = "giveBack"
  /\ sem' = [sem EXCEPT ![mine[c]] = @ + 1]
  /\ Goto(c, "ensure")
  /\ UNCHANGED <<mu, connVars, pending, readVars, netVars, mine, ended, result, outcome, envVars>>

\* Bug: mu released between the enqueue and the write.
EnqueueUnlocks(c) ==
  /\ pc[c] = "lock" /\ Free /\ conn = mine[c]
  /\ Len(pending[mine[c]]) < MaxInFlight
  /\ pending' = [pending EXCEPT ![mine[c]] = Append(@, c)]
  /\ Goto(c, "write")
  /\ UNCHANGED <<mu, connVars, sem, readVars, netVars, mine, ended, result, outcome, envVars>>

Enqueue(c) ==
  /\ pc[c] = "lock" /\ Free /\ conn = mine[c]
  /\ Len(pending[mine[c]]) < MaxInFlight
  /\ pending' = [pending EXCEPT ![mine[c]] = Append(@, c)]
  /\ mu' = c
  /\ Goto(c, "write")
  /\ UNCHANGED <<connVars, sem, readVars, netVars, mine, ended, result, outcome, envVars>>

\* The write, under mu still, with waitCtx's deadline as write deadline.
Write(c) ==
  /\ pc[c] = "write" /\ live[mine[c]] /\ ~PastWrite(c)
  /\ wire' = [wire EXCEPT ![mine[c]] = Append(@, c)]
  /\ mu' = NoCall
  /\ Goto(c, "wait")
  /\ UNCHANGED <<connVars, genVars, readVars, live, inbox, mine, ended, result, outcome, envVars>>

WriteFails(c) ==
  /\ pc[c] = "write" /\ (~live[mine[c]] \/ PastWrite(c) \/ "write" \in Faults)
  /\ mu' = NoCall
  /\ faulted' = (faulted \/ (live[mine[c]] /\ ~PastWrite(c)))
  /\ torn' = torn \cup {mine[c]}
  /\ Goto(c, "abort")
  /\ UNCHANGED <<connVars, genVars, readVars, netVars, mine, ended, result, outcome, closing, dialled>>

-----------------------------------------------------------------------------
(* abort, from submit and from readLoop *)

ClearConn(g) == conn' = IF conn = g THEN None ELSE conn

\* One turn of drainPending's loop: the oldest call gets the error.
DrainOne(g) ==
  /\ pending[g] # <<>> /\ result[Head(pending[g])] = NoLine
  /\ pending' = [pending EXCEPT ![g] = Tail(@)]
  /\ sem' = [sem EXCEPT ![g] = @ + 1]
  /\ result' = [result EXCEPT ![Head(pending[g])] = Failed]

SubmitAborts(c) ==
  /\ pc[c] = "abort" /\ Free
  /\ ClearConn(mine[c])
  /\ Goto(c, "shut")
  /\ UNCHANGED <<mu, dialing, closed, genVars, readVars, netVars, mine, ended, result, outcome, envVars>>

SubmitShuts(c) ==
  /\ pc[c] = "shut"
  /\ live' = [live EXCEPT ![mine[c]] = FALSE]
  /\ Goto(c, "drain")
  /\ UNCHANGED <<mu, connVars, genVars, readVars, wire, inbox, mine, ended, result, outcome, envVars>>

SubmitDrains(c) ==
  /\ pc[c] = "drain" /\ DrainOne(mine[c])
  /\ UNCHANGED <<mu, connVars, readVars, netVars, pc, mine, ended, outcome, envVars>>

SubmitDrained(c) ==
  /\ pc[c] = "drain" /\ pending[mine[c]] = <<>>
  /\ ReturnErr(c)
  /\ UNCHANGED <<mu, connVars, genVars, readVars, netVars, mine, ended, result, envVars>>

-----------------------------------------------------------------------------
(* exchange's own wait *)

Receive(c) ==
  /\ pc[c] = "wait" /\ result[c] # NoLine
  /\ Goto(c, "returned")
  /\ outcome' = [outcome EXCEPT ![c] = IF result[c] = Failed THEN "fault" ELSE "ok"]
  /\ UNCHANGED <<mu, connVars, genVars, readVars, netVars, mine, ended, result, envVars>>

\* Bug: a call that stops waiting gives back the token its answer will.
WaitEndsReleases(c) ==
  /\ pc[c] = "wait" /\ Done(c)
  /\ ReturnErr(c)
  /\ sem' = [sem EXCEPT ![mine[c]] = @ + 1]
  /\ UNCHANGED <<mu, connVars, pending, readVars, netVars, mine, ended, result, envVars>>

\* Bug: it takes itself out of the queue, ahead of its answer.
WaitEndsDequeues(c) ==
  LET rest == SelectSeq(pending[mine[c]], LAMBDA d : d # c)
  IN  /\ pc[c] = "wait" /\ Done(c)
      /\ ReturnErr(c)
      /\ pending' = [pending EXCEPT ![mine[c]] = rest]
      /\ sem' = [sem EXCEPT ![mine[c]] = @ + Len(pending[mine[c]]) - Len(rest)]
      /\ UNCHANGED <<mu, connVars, readVars, netVars, mine, ended, result, envVars>>

WaitEnds(c) ==
  /\ pc[c] = "wait" /\ Done(c)
  /\ ReturnErr(c)
  /\ UNCHANGED <<mu, connVars, genVars, readVars, netVars, mine, ended, result, envVars>>

\* The client's timeout, the deadline of the caller's ctx, or its cancel.
Expire(c, how) ==
  /\ pc[c] \notin {"new", "returned"} /\ ~Done(c)
  /\ ended' = [ended EXCEPT ![c] = how]
  /\ faulted' = (faulted \/ how = "timeout")
  /\ UNCHANGED <<mu, connVars, genVars, readVars, netVars, pc, mine, result, outcome,
                 closing, dialled, torn>>

-----------------------------------------------------------------------------
(* readLoop *)

ToReader(g, l) == reader' = [reader EXCEPT ![g] = l]

\* Lines already buffered are still read after the socket is closed.
ReadLine(g) ==
  /\ reader[g] = "read" /\ inbox[g] # <<>>
  /\ line' = [line EXCEPT ![g] = Head(inbox[g])]
  /\ inbox' = [inbox EXCEPT ![g] = Tail(@)]
  /\ ToReader(g, "match")
  /\ UNCHANGED <<mu, connVars, genVars, live, wire, callVars, envVars>>

ReadFails(g) ==
  /\ reader[g] = "read" /\ (~live[g] \/ "read" \in Faults)
  /\ faulted' = (faulted \/ live[g])
  /\ ToReader(g, "abort")
  /\ UNCHANGED <<mu, connVars, genVars, line, netVars, callVars, closing, dialled, torn>>

\* Bug: the echoed key is not compared.
DeliverUnchecked(g) ==
  LET c == Head(pending[g])
  IN  /\ reader[g] = "match" /\ pending[g] # <<>> /\ result[c] = NoLine
      /\ pending' = [pending EXCEPT ![g] = Tail(@)]
      /\ sem' = [sem EXCEPT ![g] = @ + 1]
      /\ result' = [result EXCEPT ![c] = line[g]]
      /\ line' = [line EXCEPT ![g] = NoLine]
      /\ ToReader(g, "read")
      /\ UNCHANGED <<mu, connVars, netVars, pc, mine, ended, outcome, envVars>>

\* decodeResult compares the echoed key with the call's; an ERR has none.
Decodes(l, c) == l.key \in {KeyOf[c], "ERR"}

\* The oldest pending call gets the line, if it decodes against its entries.
Deliver(g) ==
  LET c    == Head(pending[g])
      good == Decodes(line[g], c)
  IN  /\ reader[g] = "match" /\ pending[g] # <<>> /\ result[c] = NoLine
      /\ pending' = [pending EXCEPT ![g] = Tail(@)]
      /\ sem' = [sem EXCEPT ![g] = @ + 1]
      /\ result' = [result EXCEPT ![c] = IF good THEN line[g] ELSE Failed]
      /\ line' = [line EXCEPT ![g] = NoLine]
      /\ ToReader(g, IF good THEN "read" ELSE "abort")
      /\ UNCHANGED <<mu, connVars, netVars, pc, mine, ended, outcome, envVars>>

NothingPending(g) ==
  /\ reader[g] = "match" /\ pending[g] = <<>>
  /\ line' = [line EXCEPT ![g] = NoLine]
  /\ ToReader(g, "abort")
  /\ UNCHANGED <<mu, connVars, genVars, netVars, callVars, envVars>>

ReaderAborts(g) ==
  /\ reader[g] = "abort" /\ Free
  /\ ClearConn(g)
  /\ ToReader(g, "shut")
  /\ UNCHANGED <<mu, dialing, closed, genVars, line, netVars, callVars, envVars>>

ReaderShuts(g) ==
  /\ reader[g] = "shut"
  /\ live' = [live EXCEPT ![g] = FALSE]
  /\ ToReader(g, "drain")
  /\ UNCHANGED <<mu, connVars, genVars, line, wire, inbox, callVars, envVars>>

ReaderDrains(g) ==
  /\ reader[g] = "drain" /\ DrainOne(g)
  /\ UNCHANGED <<mu, connVars, readVars, netVars, pc, mine, ended, outcome, envVars>>

\* Bug: an if where drainPending has a for.
ReaderDrainsOnce(g) ==
  /\ reader[g] = "drain"
  /\ ToReader(g, "done")
  /\ UNCHANGED <<mu, connVars, genVars, line, netVars, callVars, envVars>>

ReaderDrained(g) ==
  /\ reader[g] = "drain" /\ pending[g] = <<>>
  /\ ToReader(g, "done")
  /\ UNCHANGED <<mu, connVars, genVars, line, netVars, callVars, envVars>>

-----------------------------------------------------------------------------
(* close, and the shard at the other end of the wire *)

Close ==
  /\ Free /\ ~closed
  /\ closing' = conn /\ conn' = None /\ closed' = TRUE
  /\ UNCHANGED <<mu, dialing, genVars, readVars, netVars, callVars, dialled, faulted, torn>>

CloseSocket ==
  /\ closing # None
  /\ live' = [live EXCEPT ![closing] = FALSE]
  /\ closing' = None
  /\ UNCHANGED <<mu, connVars, genVars, readVars, wire, inbox, callVars, dialled, faulted, torn>>

\* The oldest request of a connection gets an answer that says k.
Reply(g, k) ==
  /\ live[g] /\ wire[g] # <<>>
  /\ inbox' = [inbox EXCEPT ![g] = Append(@, Response(Head(wire[g]), k))]
  /\ wire' = [wire EXCEPT ![g] = Tail(@)]

\* handleConn's answer: the verdict under the entry's key, or ERR if the entry
\* does not parse or the throttler fails.
Answer(g) ==
  /\ Reply(g, KeyOf[Head(wire[g])]) \/ Reply(g, "ERR")
  /\ UNCHANGED <<mu, connVars, genVars, readVars, live, callVars, envVars>>

\* A line that does not decode.
Garble(g) ==
  /\ "garbled" \in Faults /\ Reply(g, "garbage")
  /\ faulted' = TRUE
  /\ UNCHANGED <<mu, connVars, genVars, readVars, live, callVars, closing, dialled, torn>>

-----------------------------------------------------------------------------
Init ==
  /\ mu = NoCall /\ conn = None /\ dialing = FALSE /\ closed = FALSE
  /\ pending = [g \in Conns |-> <<>>] /\ sem = [g \in Conns |-> MaxInFlight]
  /\ live = [g \in Conns |-> FALSE]
  /\ reader = [g \in Conns |-> "off"] /\ line = [g \in Conns |-> NoLine]
  /\ wire = [g \in Conns |-> <<>>] /\ inbox = [g \in Conns |-> <<>>]
  /\ pc = [c \in Calls |-> "new"] /\ mine = [c \in Calls |-> None]
  /\ ended = [c \in Calls |-> "no"] /\ result = [c \in Calls |-> NoLine]
  /\ outcome = [c \in Calls |-> "none"]
  /\ closing = None /\ dialled = 0 /\ faulted = FALSE /\ torn = {}

CallStep(c) ==
  \/ EnsureClosed(c) \/ EnsureHave(c) \/ EnsureWait(c) \/ EnsureDial(c)
  \/ DialOver(c) \/ DialWaitEnds(c) \/ Dial(c) \/ DialFails(c)
  \/ Install(c) \/ Discard(c)
  \/ Acquire(c) \/ AcquireWaitEnds(c) \/ Stale(c) \/ GiveBack(c) \/ Enqueue(c)
  \/ Write(c) \/ WriteFails(c)
  \/ SubmitAborts(c) \/ SubmitShuts(c) \/ SubmitDrains(c) \/ SubmitDrained(c)
  \/ Receive(c) \/ WaitEnds(c)

ReaderStep(g) ==
  \/ ReadLine(g) \/ ReadFails(g) \/ Deliver(g) \/ NothingPending(g)
  \/ ReaderAborts(g) \/ ReaderShuts(g) \/ ReaderDrains(g) \/ ReaderDrained(g)

ShardStep(g) == Answer(g) \/ Garble(g)

Next ==
  \/ \E c \in Calls : Begin(c) \/ CallStep(c) \/ \E how \in Expiries : Expire(c, how)
  \/ \E g \in Conns : ReaderStep(g) \/ ShardStep(g)
  \/ Close \/ CloseSocket

Spec == Init /\ [][Next]_vars

\* Something to read, or nothing more to wait for.
Readable(g) == reader[g] = "read" => inbox[g] # <<>> \/ ~live[g]

\* Goroutines keep running (sync.Mutex is not starved) and the shard answers.
\* A reader on an open, silent socket may wait for ever: nothing relies on the
\* idle read timeout.
FairSpec ==
  /\ Spec
  /\ \A c \in Calls : SF_vars(CallStep(c))
  /\ \A g \in Conns : SF_vars(Readable(g) /\ ReaderStep(g)) /\ WF_vars(ShardStep(g))
  /\ WF_vars(CloseSocket)

-----------------------------------------------------------------------------
TypeOK ==
  /\ mu \in Calls \cup {NoCall} /\ conn \in 0..MaxConns /\ closing \in 0..MaxConns
  /\ dialing \in BOOLEAN /\ closed \in BOOLEAN /\ faulted \in BOOLEAN
  /\ dialled \in 0..MaxConns /\ torn \subseteq Conns
  /\ pending \in [Conns -> Seq(Calls)] /\ sem \in [Conns -> 0..MaxInFlight]
  /\ live \in [Conns -> BOOLEAN] /\ wire \in [Conns -> Seq(Calls)]
  /\ inbox \in [Conns -> Seq(Replies)] /\ line \in [Conns -> Replies \cup {NoLine}]
  /\ reader \in [Conns -> {"off", "read", "match", "abort", "shut", "drain", "done"}]
  /\ pc \in [Calls -> {"new", "ensure", "awaitDial", "dialOver", "dial", "install",
                       "discard", "acquire", "lock", "giveBack", "write", "abort",
                       "shut", "drain", "wait", "returned"}]
  /\ mine \in [Calls -> 0..MaxConns]
  /\ ended \in [Calls -> Expiries \cup {"no"}]
  /\ result \in [Calls -> Replies \cup {NoLine, Failed}]
  /\ outcome \in [Calls -> {"none", "ok", "fault", "own"}]

At(g, ls) == {c \in Calls : mine[c] = g /\ pc[c] \in ls}

\* A token is in sem, held by a call on its way into pending, or stands for a
\* call in pending: no path loses or forges one, so the send into pending,
\* made under mu, never blocks.
TokensConserved ==
  \A g \in Conns :
    sem[g] + Len(pending[g]) + Cardinality(At(g, {"lock", "giveBack"})) = MaxInFlight

\* Queue order and wire order do not diverge before a write fails: the calls in
\* pending are those of the line being matched, the unread answers, the
\* unanswered requests and the request being written, in that order, until the
\* readLoop drains them.
QueueMatchesWire ==
  \A g \in Conns :
    (g \notin torn /\ reader[g] \notin {"drain", "done"}) =>
      pending[g] =
        (IF line[g] = NoLine THEN <<>> ELSE <<line[g].of>>)
        \o [i \in DOMAIN inbox[g] |-> inbox[g][i].of]
        \o wire[g]
        \o (IF mu # NoCall /\ mine[mu] = g THEN <<mu>> ELSE <<>>)

\* A call waiting for its result has it, or is in exactly one pending queue
\* that somebody will serve: its readLoop, or a submit that is aborting it.
\* No enqueue slips in behind the drain of a dead connection.
NoStrandedCall ==
  \A c \in Calls :
    (pc[c] = "wait" /\ result[c] = NoLine) =>
      \E g \in Conns :
        /\ Cardinality({i \in DOMAIN pending[g] : pending[g][i] = c}) = 1
        /\ \/ reader[g] \notin {"off", "done"}
           \/ At(g, {"abort", "shut", "drain"}) # {}

\* A call that succeeds returns the answer to its own request, which the code
\* does not ensure after a failed write.
AnswersAreOwn ==
  \A c \in Calls : outcome[c] = "ok" => result[c].of = c

\* It does unless a write has failed on its connection; and even then another
\* request's answer is only taken for its own if it is a bare ERR or is about
\* the same key.
MatchedResponses ==
  \A c \in Calls :
    (outcome[c] = "ok" /\ result[c].of # c) =>
      /\ mine[c] \in torn
      /\ result[c].key = "ERR" \/ KeyOf[result[c].of] = KeyOf[c]

\* At most one goroutine dials, and the others know it.
OneDialAtATime ==
  /\ Cardinality({c \in Calls : pc[c] \in {"dial", "install"}}) = (IF dialing THEN 1 ELSE 0)
  /\ \A c \in Calls : pc[c] = "awaitDial" => dialing

\* Every open socket is the current connection's or has somebody about to
\* close it: nothing is leaked by a reconnect, a lost race or close().
LiveSocketIsOwned ==
  \A g \in Conns : live[g] =>
    \/ conn = g \/ closing = g
    \/ reader[g] \in {"abort", "shut"}
    \/ At(g, {"install", "discard", "abort", "shut"}) # {}

\* A call whose own wait has not ended is failed as the shard's fault only if
\* the shard did misbehave or the client was closed: a caller with a tighter
\* budget does not fail the other callers' calls.
BlameIsDeserved ==
  \A c \in Calls : outcome[c] = "fault" => faulted \/ closed

\* Every call returns even if nobody's timeout ever fires.
EveryCallReturns == \A c \in Calls : (pc[c] # "new") ~> (pc[c] = "returned")

\* close() is definitive: in the end no socket is open and no readLoop runs.
CloseIsFinal ==
  closed ~> [](\A g \in Conns : ~live[g] /\ reader[g] \in {"off", "done"})
=============================================================================
