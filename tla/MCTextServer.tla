---------------------------- MODULE MCTextServer ----------------------------
(* Small instances of the text server.                                       *)
EXTENDS TextServer

L(cmd, n) == [cmd |-> cmd, len |-> n, ended |-> TRUE]

\* A line whose newline never comes.
Torn(cmd, n) == [cmd |-> cmd, len |-> n, ended |-> FALSE]

\* Lines shorter and longer than the buffer, exactly at the limit, one over it
\* and far over it; blank ones, QUIT in the middle, and torn ones at both ends
\* of the limit.
MCScripts ==
  {<<L("PING", 1), L("blank", 1), L("THROTTLE", 4), L("STATS", 2)>>,
   <<L("HELLO 1", 2), L("THROTTLE", 5), L("PING", 1)>>,
   <<L("PING", 2), L("QUIT", 1), L("PING", 1)>>,
   <<L("HELLO", 1), L("HELLO 2", 3), Torn("THROTTLE", 3)>>,
   <<L("other", 4), Torn("PING", 5)>>,
   <<L("blank", 1), Torn("THROTTLE", 9)>>,
   <<L("THROTTLE", 9), L("PING", 1)>>}
=============================================================================
