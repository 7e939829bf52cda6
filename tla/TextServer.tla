----------------------------- MODULE TextServer -----------------------------
(***************************************************************************)
(* server/textserver.go without what THROTTLE computes (see Wire): the     *)
(* listener raced by Close, the process of cmd/deadhorse/main.go around    *)
(* it, and the goroutine of a connection, from the bytes bufio gets out of *)
(* the socket to the answers it writes.                                    *)
(*                                                                         *)
(* A line is its command, its length in bytes, newline included, and       *)
(* whether the newline ever comes: a client may die in the middle of one.  *)
(* A client sends one of Scripts; the socket hands bufio.Reader its bytes  *)
(* in portions of any size.                                                *)
(*                                                                         *)
(* A definition under a comment that starts with "Bug:" is no part of the  *)
(* model: it is the next definition with a mistake in it, kept to show     *)
(* that some property notices.                                             *)
(***************************************************************************)
EXTENDS Integers, SequencesExt

CONSTANTS
  Conns,     \* connections clients may open
  Closers,   \* goroutines that call Close: the signal handler, or several
  Scripts,   \* what a client may send: sequences of lines
  MaxLine,   \* maxLineSize
  BufSize    \* the size of bufio.Reader's buffer

Commands == {"HELLO 1", "HELLO", "HELLO 2", "THROTTLE", "PING", "STATS", "QUIT", "other", "blank"}
Line     == [cmd : Commands, len : Nat \ {0}, ended : BOOLEAN]

\* The bytes of the first n lines of a script.
Bytes(s) == LET b[n \in 0..Len(s)] == IF n = 0 THEN 0 ELSE b[n-1] + s[n].len IN b

ASSUME TextServerAssumption ==
  /\ MaxLine \in Nat \ {0} /\ BufSize \in Nat \ {0}
  /\ Scripts \subseteq Seq(Line)
  /\ \A s \in Scripts : \A i \in DOMAIN s : i < Len(s) => s[i].ended

VARIABLES
  main,      \* where main and its ListenAndServe are
  socket,    \* the listening socket
  listener,  \* TextServer.listener # nil
  closed,    \* TextServer.closed
  closer,    \* where each caller of Close is
  done,      \* store.done is closed
  gcLoop,    \* the store's goroutine
  conn,      \* the goroutine of each connection: handleConn and readLine
  client,    \* environment: the peer reads, has stopped reading, or is gone
  broke,     \* history: net.Listen or Accept failed although nobody closed
  cut        \* history: connections ended by a deadline, the network or exit

listenVars == <<main, socket, listener, closed, closer, done, gcLoop, broke>>
connVars   == <<conn, client, cut>>
vars       == <<listenVars, connVars>>

-----------------------------------------------------------------------------
(* ListenAndServe, in the goroutine of main *)

Bind ==
  /\ main = "listen"
  /\ main' = "bound" /\ socket' = "open"
  /\ UNCHANGED <<listener, closed, closer, done, gcLoop, broke, connVars>>

BindFails ==
  /\ main = "listen"
  /\ main' = "err" /\ broke' = TRUE
  /\ UNCHANGED <<socket, listener, closed, closer, done, gcLoop, connVars>>

\* Bug: the listener is published without a look at closed.
PublishAlways ==
  /\ main = "bound"
  /\ listener' = TRUE /\ main' = "accept"
  /\ UNCHANGED <<socket, closed, closer, done, gcLoop, broke, connVars>>

\* Under listenerMu: publish the listener, unless Close has been here.
Publish ==
  /\ main = "bound"
  /\ listener' = ~closed
  /\ main' = IF closed THEN "discard" ELSE "accept"
  /\ UNCHANGED <<socket, closed, closer, done, gcLoop, broke, connVars>>

\* Bug: nil is returned with the port still bound.
DiscardKeepsPort ==
  /\ main = "discard"
  /\ main' = "nil"
  /\ UNCHANGED <<socket, listener, closed, closer, done, gcLoop, broke, connVars>>

Discard ==
  /\ main = "discard"
  /\ socket' = "closed" /\ main' = "nil"
  /\ UNCHANGED <<listener, closed, closer, done, gcLoop, broke, connVars>>

\* A connection's goroutine as it starts.
NewConn(s) ==
  [pc |-> "read", script |-> s, at |-> 1, buf |-> 0, buffered |-> 0,
   left |-> Bytes(s)[Len(s)], resp |-> "", out |-> <<>>]

Accept(c, s) ==
  /\ main = "accept" /\ socket = "open" /\ conn[c].pc = "none"
  /\ conn' = [conn EXCEPT ![c] = NewConn(s)]
  /\ UNCHANGED <<listenVars, client, cut>>

\* Accept fails because the socket was closed ...
AcceptOnClosed ==
  /\ main = "accept" /\ socket = "closed"
  /\ main' = "accept error"
  /\ UNCHANGED <<socket, listener, closed, closer, done, gcLoop, broke, connVars>>

\* ... or because something is wrong.
AcceptFails ==
  /\ main = "accept" /\ socket = "open"
  /\ main' = "accept error" /\ broke' = TRUE
  /\ UNCHANGED <<socket, listener, closed, closer, done, gcLoop, connVars>>

\* Under listenerMu: closedByUs.
JudgeError ==
  /\ main = "accept error"
  /\ main' = IF closed THEN "nil" ELSE "err"
  /\ UNCHANGED <<socket, listener, closed, closer, done, gcLoop, broke, connVars>>

-----------------------------------------------------------------------------
(* Close *)

\* Bug: closed is noted only when there is no listener to close.
CloseNotesLate(k) ==
  /\ closer[k] = "idle" /\ main # "exited"
  /\ closer' = [closer EXCEPT ![k] = IF listener THEN "closing" ELSE "done"]
  /\ closed' = (closed \/ ~listener)
  /\ UNCHANGED <<main, socket, listener, done, gcLoop, broke, connVars>>

\* Under listenerMu: read listener, set closed.
Close(k) ==
  /\ closer[k] = "idle" /\ main # "exited"
  /\ closer' = [closer EXCEPT ![k] = IF listener THEN "closing" ELSE "done"]
  /\ closed' = TRUE
  /\ UNCHANGED <<main, socket, listener, done, gcLoop, broke, connVars>>

CloseListener(k) ==
  /\ closer[k] = "closing" /\ main # "exited"
  /\ socket' = "closed"
  /\ closer' = [closer EXCEPT ![k] = "done"]
  /\ UNCHANGED <<main, listener, closed, done, gcLoop, broke, connVars>>

-----------------------------------------------------------------------------
(* The rest of main, and store.close *)

\* nil: the deferred throttler.Close closes store.done.
CloseStore ==
  /\ main = "nil"
  /\ done' = TRUE /\ main' = "returned"
  /\ UNCHANGED <<socket, listener, closed, closer, gcLoop, broke, connVars>>

GCLoopReturns ==
  /\ done /\ gcLoop = "running" /\ main # "exited"
  /\ gcLoop' = "returned"
  /\ UNCHANGED <<main, socket, listener, closed, closer, done, broke, connVars>>

\* The process ends, after main or in log.Fatalf, and takes every goroutine
\* and connection with it.
Exit ==
  /\ main \in {"err", "returned"}
  /\ main' = "exited"
  /\ cut' = cut \cup {c \in Conns : conn[c].pc \notin {"none", "closed"}}
  /\ conn' = [c \in Conns |-> IF conn[c].pc = "none" THEN conn[c]
                              ELSE [conn[c] EXCEPT !.pc = "closed"]]
  /\ UNCHANGED <<socket, listener, closed, closer, done, gcLoop, broke, client>>

-----------------------------------------------------------------------------
(* readLine over bufio.Reader.ReadSlice *)

\* bufio's buffer holds the newline of the line that is being read.
HasNewline(r) ==
  /\ r.at <= Len(r.script)
  /\ r.script[r.at].ended
  /\ r.buf + r.buffered >= r.script[r.at].len

\* ReadSlice has neither a newline nor a full buffer, and reads the socket.
Waits(c) ==
  conn[c].pc = "read" /\ ~HasNewline(conn[c]) /\ conn[c].buffered < BufSize

Fill(c, n) ==
  /\ Waits(c)
  /\ n <= conn[c].left /\ n <= BufSize - conn[c].buffered
  /\ conn' = [conn EXCEPT ![c].buffered = @ + n, ![c].left = @ - n]
  /\ UNCHANGED <<listenVars, client, cut>>

\* Bug: a line that fits exactly is too long.
FragmentOffByOne(r, n, next) ==
  [r EXCEPT !.buf = @ + n, !.buffered = @ - n,
            !.pc = IF r.buf + n >= MaxLine THEN "flush" ELSE next,
            !.resp = IF r.buf + n >= MaxLine THEN "ERROR line too long" ELSE @]

\* Bug: the limit is looked at only once the line is complete.
FragmentUnbounded(r, n, next) ==
  [r EXCEPT !.buf = @ + n, !.buffered = @ - n,
            !.pc = IF next # "read" /\ r.buf + n > MaxLine THEN "flush" ELSE next,
            !.resp = IF next # "read" /\ r.buf + n > MaxLine THEN "ERROR line too long" ELSE @]

\* ReadSlice has returned n bytes of the line: one too many, or go on at next.
Fragment(r, n, next) ==
  [r EXCEPT !.buf = @ + n, !.buffered = @ - n,
            !.pc = IF r.buf + n > MaxLine THEN "flush" ELSE next,
            !.resp = IF r.buf + n > MaxLine THEN "ERROR line too long" ELSE @]

\* Bug: the whole line is taken again, after some of it came with ErrBufferFull.
ReadWhole(c) ==
  /\ conn[c].pc = "read" /\ HasNewline(conn[c])
  /\ conn' = [conn EXCEPT ![c] = Fragment(@, @.script[@.at].len, "line")]
  /\ UNCHANGED <<listenVars, client, cut>>

\* The rest of the line ...
ReadRest(c) ==
  /\ conn[c].pc = "read" /\ HasNewline(conn[c])
  /\ conn' = [conn EXCEPT ![c] = Fragment(@, @.script[@.at].len - @.buf, "line")]
  /\ UNCHANGED <<listenVars, client, cut>>

\* ... a full buffer without its newline (bufio.ErrBufferFull) ...
ReadFull(c) ==
  /\ conn[c].pc = "read" /\ ~HasNewline(conn[c]) /\ conn[c].buffered = BufSize
  /\ conn' = [conn EXCEPT ![c] = Fragment(@, BufSize, "read")]
  /\ UNCHANGED <<listenVars, client, cut>>

\* ... or an error, with whatever there is: the peer has sent all it will ...
ReadEOF(c) ==
  /\ Waits(c) /\ client[c] = "gone" /\ conn[c].left = 0
  /\ conn' = [conn EXCEPT ![c] = Fragment(@, @.buffered, "closed")]
  /\ UNCHANGED <<listenVars, client, cut>>

\* Bug: the deadline is only looked at between two lines.
ReadDeadlineBetweenLines(c) ==
  /\ Waits(c) /\ conn[c].buf + conn[c].buffered = 0
  /\ conn' = [conn EXCEPT ![c] = Fragment(@, @.buffered, "closed")]
  /\ cut' = cut \cup {c}
  /\ UNCHANGED <<listenVars, client>>

\* ... or idleReadTimeout has passed since the line was begun, or the
\* connection broke.
ReadDeadline(c) ==
  /\ Waits(c)
  /\ conn' = [conn EXCEPT ![c] = Fragment(@, @.buffered, "closed")]
  /\ cut' = cut \cup {c}
  /\ UNCHANGED <<listenVars, client>>

-----------------------------------------------------------------------------
(* dispatch and the rest of handleConn *)

handleHello(cmd) ==
  CASE cmd = "HELLO"   -> "ERROR missing version"
    [] cmd = "HELLO 1" -> "OK 1"
    [] OTHER           -> "ERROR unsupported version"

\* The response, "" for none.
dispatch(cmd) ==
  CASE cmd \in {"HELLO", "HELLO 1", "HELLO 2"} -> handleHello(cmd)
    [] cmd = "THROTTLE" -> "RESULT"
    [] cmd = "PING"     -> "PONG"
    [] cmd = "STATS"    -> "STATS"
    [] cmd = "QUIT"     -> ""
    [] OTHER            -> "ERROR unknown command"

NextLine(r) == [r EXCEPT !.pc = "read", !.at = @ + 1, !.buf = 0, !.resp = ""]

\* Bug: a blank line is an unknown command.
DispatchBlank(c) ==
  LET cmd == conn[c].script[conn[c].at].cmd
  IN  /\ conn[c].pc = "line"
      /\ conn' = [conn EXCEPT ![c].resp = dispatch(cmd),
                              ![c].pc = IF cmd = "QUIT" THEN "closed" ELSE "flush"]
      /\ UNCHANGED <<listenVars, client, cut>>

\* A blank line is skipped; QUIT has nothing to flush and ends the connection.
Dispatch(c) ==
  LET cmd == conn[c].script[conn[c].at].cmd
  IN  /\ conn[c].pc = "line"
      /\ conn' = IF cmd = "blank" THEN [conn EXCEPT ![c] = NextLine(@)]
                 ELSE [conn EXCEPT ![c].resp = dispatch(cmd),
                                   ![c].pc = IF cmd = "QUIT" THEN "closed" ELSE "flush"]
      /\ UNCHANGED <<listenVars, client, cut>>

\* Bug: the connection goes on after too long a line, in the middle of it.
FlushAndGoOn(c) ==
  /\ conn[c].pc = "flush"
  /\ conn' = [conn EXCEPT ![c] = NextLine([conn[c] EXCEPT !.out = Append(@, conn[c].resp)])]
  /\ UNCHANGED <<listenVars, client, cut>>

\* The answer is written; too long a line was the last.
Flush(c) ==
  LET r == [conn[c] EXCEPT !.out = Append(@, conn[c].resp)]
  IN  /\ conn[c].pc = "flush"
      /\ conn' = [conn EXCEPT ![c] = IF r.buf > MaxLine THEN [r EXCEPT !.pc = "closed"]
                                     ELSE NextLine(r)]
      /\ UNCHANGED <<listenVars, client, cut>>

FlushFails(c) ==
  /\ conn[c].pc = "flush" /\ client[c] = "gone"
  /\ conn' = [conn EXCEPT ![c].pc = "closed"]
  /\ cut' = cut \cup {c}
  /\ UNCHANGED <<listenVars, client>>

\* The peer stops reading its answers, or closes its end.
PeerChanges(c, how) ==
  /\ conn[c].pc \notin {"none", "closed"} /\ client[c] = "reads"
  /\ client' = [client EXCEPT ![c] = how]
  /\ UNCHANGED <<listenVars, conn, cut>>

-----------------------------------------------------------------------------
NoConn == [NewConn(<<>>) EXCEPT !.pc = "none"]

Init ==
  /\ main = "listen" /\ socket = "none" /\ listener = FALSE /\ closed = FALSE
  /\ closer = [k \in Closers |-> "idle"]
  /\ done = FALSE /\ gcLoop = "running" /\ broke = FALSE
  /\ conn = [c \in Conns |-> NoConn]
  /\ client = [c \in Conns |-> "reads"] /\ cut = {}

MainStep == Bind \/ Publish \/ Discard \/ AcceptOnClosed \/ JudgeError \/ CloseStore

ConnStep(c) ==
  \/ ReadRest(c) \/ ReadFull(c) \/ ReadEOF(c) \/ ReadDeadline(c)
  \/ Dispatch(c) \/ FlushFails(c)

Next ==
  \/ MainStep \/ BindFails \/ AcceptFails \/ Exit \/ GCLoopReturns
  \/ \E k \in Closers : Close(k) \/ CloseListener(k)
  \/ \E c \in Conns :
       \/ ConnStep(c) \/ Flush(c)
       \/ \E n \in 1..BufSize : Fill(c, n)
       \/ \E s \in Scripts : Accept(c, s)
       \/ \E how \in {"stopped", "gone"} : PeerChanges(c, how)

Spec == Init /\ [][Next]_vars

\* Goroutines run; reads come to their deadline; a write to a peer that reads
\* ends.  Nothing is assumed of peers, of failures or of when Close is called,
\* and an embedding program may live on after ListenAndServe.
FairSpec ==
  /\ Spec /\ WF_vars(MainStep) /\ WF_vars(GCLoopReturns)
  /\ \A k \in Closers : WF_vars(CloseListener(k))
  /\ \A c \in Conns : WF_vars(ConnStep(c)) /\ WF_vars(client[c] = "reads" /\ Flush(c))

-----------------------------------------------------------------------------
TypeOK ==
  /\ main \in {"listen", "bound", "discard", "accept", "accept error", "nil",
               "err", "returned", "exited"}
  /\ socket \in {"none", "open", "closed"}
  /\ {listener, closed, done, broke} \subseteq BOOLEAN
  /\ closer \in [Closers -> {"idle", "closing", "done"}]
  /\ gcLoop \in {"running", "returned"}
  /\ client \in [Conns -> {"reads", "stopped", "gone"}] /\ cut \subseteq Conns
  /\ \A c \in Conns :
       /\ conn[c].pc \in {"none", "read", "line", "flush", "closed"}
       /\ conn[c].buffered \in 0..BufSize /\ conn[c].left \in Nat

\* After such a line the server reads no other.
Ends(l) == l.len > MaxLine \/ l.cmd = "QUIT" \/ ~l.ended

\* The answers to a line that is read: one, or none to QUIT, to a blank line and
\* to one that never ends; too long a line is told so.
AnswersTo(l) ==
  IF l.len > MaxLine THEN <<"ERROR line too long">>
  ELSE IF l.cmd \in {"QUIT", "blank"} \/ ~l.ended THEN <<>>
  ELSE <<dispatch(l.cmd)>>

\* The answers DHP/1 owes a client for the first n lines of what it sent: those
\* to each line in turn, as far as lines are read.
OwedUpTo(s) ==
  LET o[n \in 0..Len(s)] ==
        IF n = 0 THEN <<>>
        ELSE IF \E i \in 1..(n-1) : Ends(s[i]) THEN o[n-1]
        ELSE o[n-1] \o AnswersTo(s[n])
  IN  o

\* The answers to all of it.
Owed(s) == OwedUpTo(s)[Len(s)]

\* A pipelining client can match answers to lines by counting, however its
\* bytes were cut up on the way: what it has been sent is a beginning of what
\* it is owed, and all of it if the connection ended in order.
AnswersMatchLines ==
  \A c \in Conns :
    /\ IsPrefix(conn[c].out, Owed(conn[c].script))
    /\ conn[c].pc = "closed" /\ c \notin cut => conn[c].out = Owed(conn[c].script)

\* A client that never sends a newline cannot make readLine hold more than the
\* limit and one buffer.
BoundedLine == \A c \in Conns : conn[c].buf <= MaxLine + BufSize

\* ListenAndServe returns an error only for a genuine bind or accept failure,
\* whenever Close runs and however many call it.
ErrorMeansBroken == main = "err" => broke

\* Once Close was called, before, during or after ListenAndServe's start, it
\* returns, the store is closed, gcLoop ends and the port is free again, unless
\* something broke first.
ShutdownCompletes ==
  closed ~> \/ main = "exited" \/ broke
            \/ done /\ gcLoop = "returned" /\ socket = "closed"

\* A connection whose peer falls silent, in the middle of a line or between
\* two, ends; the one exception is a peer that stops reading its answers.
SilentConnectionEnds ==
  \A c \in Conns : (conn[c].pc # "none") ~> (conn[c].pc = "closed" \/ client[c] = "stopped")
=============================================================================
