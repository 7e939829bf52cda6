------------------------------- MODULE MCFleet -------------------------------
(* A small fleet.                                                            *)
EXTENDS Fleet, TLC

CONSTANTS q1, q2, q3

MCCalls  == {q1, q2, q3}
Symmetry == Permutations(MCCalls)

\* One limit of a burst of two that drains one unit per clock unit.
Lim == [capacity |-> 2, units |-> 1, period |-> 1]
Ask(k, n, pk) == [key |-> k, limit |-> Lim, cost |-> n, peek |-> pk]

\* Over two shards the keys hash to different ones; the tenant they share goes
\* with "org", and away from where a single shard has it.
MCHash == [k \in {"user", "org", "tenant"} |-> IF k = "user" THEN 4 ELSE 5]

\* A tenant's keys always travel under the tenant, alone or together, and are
\* peeked at.
MCRequests ==
  {[shardKey |-> "tenant", entries |-> <<Ask("user", 2, FALSE), Ask("org", 1, FALSE)>>],
   [shardKey |-> "tenant", entries |-> <<Ask("org", 2, FALSE), Ask("user", 1, TRUE)>>]}
=============================================================================
