----------------------------- MODULE MCShardConn -----------------------------
(* Two or three calls on one shard, over at most two connections.            *)
EXTENDS ShardConn, TLC

CONSTANTS x1, x2, x3

ThreeCalls == {x1, x2, x3}
TwoCalls   == {x1, x2}
Symmetry   == Permutations(ThreeCalls)
PairSymmetry == Permutations(TwoCalls)

AllFaults  == {"dial", "write", "read", "garbled"}

\* Distinct keys let decodeResult tell the calls apart; calls on one hot key
\* look alike to it.
DistinctKeys == [c \in ThreeCalls |-> c]
SameKey      == [c \in ThreeCalls |-> "hot"]

\* What a step can still depend on and the properties of shard_conn read.  Left
\* out: who was to blame; what is left on a connection whose readLoop is done;
\* the connection of a call that has yet to get one; and of a call that has
\* returned how its wait ended and any result but another call's.
Over(c) == pc[c] = "returned"
ConnView ==
  LET Left(s) == [g \in Conns |-> IF reader[g] = "done" THEN <<>> ELSE s[g]]
  IN  <<mu, connVars, genVars, readVars, live, Left(wire), Left(inbox), pc,
        [c \in Calls |-> IF pc[c] \in {"ensure", "awaitDial", "dialOver", "dial"}
                         THEN None ELSE mine[c]],
        [c \in Calls |-> IF Over(c) THEN "no" ELSE ended[c]],
        [c \in Calls |-> IF Over(c) /\ result[c] # NoLine /\ (outcome[c] = "ok" => result[c].of = c)
                         THEN Failed ELSE result[c]],
        [c \in Calls |-> outcome[c] = "ok"], closing, dialled, torn>>
=============================================================================
