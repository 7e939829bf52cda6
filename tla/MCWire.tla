------------------------------- MODULE MCWire -------------------------------
(* Batches for the wire conversion, over the buckets of MCLeakyBucket.       *)
EXTENDS MCLeakyBucket, Wire

Ask(key, l, c, pk) == [key |-> key, limit |-> l, cost |-> c, peek |-> pk]

\* Entries that are admitted or refused, real or peeks, with units and costs
\* left unset or negative, and limits only the server rejects.
Ordinary ==
  {Ask("k", Shape(3, 1, 2), 1, FALSE), Ask("m", Shape(3, 2, 3), 2, FALSE),
   Ask("k", Shape(3, 2, 3), 1, TRUE), Ask("k", Shape(2, -1, 2), 0, FALSE),
   Ask("m", Shape(1, 0, 1), -3, FALSE)}

Rejected ==
  {Ask("k", Shape(-1, 1, 2), 1, FALSE), Ask("m", Shape(2, 1, -1), 1, TRUE)}

Degenerate ==
  {Ask("m", Shape(0, 1, 2), 1, FALSE), Ask("k", Shape(2, 1, 0), 1, TRUE)}

Unsendable ==
  {Ask(EmptyKey, Shape(3, 1, 2), 1, FALSE), Ask(SpacedKey, Shape(3, 1, 2), 1, FALSE),
   Ask(PipedKey, Shape(3, 1, 2), 1, TRUE)}

AllEntries == Ordinary \cup Rejected \cup Degenerate \cup Unsendable

MCBatches ==
  {<<>>} \cup {<<e>> : e \in AllEntries}
  \cup {<<e, f>> : e \in AllEntries, f \in AllEntries}
  \cup {<<e, f, g>> : e \in Ordinary, f \in Rejected \cup Unsendable, g \in Ordinary}
=============================================================================
