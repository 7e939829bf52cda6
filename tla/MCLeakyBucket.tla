---------------------------- MODULE MCLeakyBucket ----------------------------
(* Small limits of every kind, and a few that overflow the word width.       *)
EXTENDS LeakyBucket

Shape(cap, u, p) == [capacity |-> cap, units |-> u, period |-> p]

\* Every small shape, nonsensical ones (no period, negative capacity), and
\* shapes near the width: an overflowing product, a high rate, a huge burst.
MCLimits ==
  {Shape(cap, u, p) : cap \in 0..3, u \in 0..4, p \in 0..3}
  \cup {Shape(-1, 1, 2), Shape(2, 1, -1), Shape(MaxInt64, 1, 2),
        Shape(MaxInt64, 2, 1), Shape(10, 3, 1), Shape(10, 1, 2),
        Shape(MaxInt64, 1, 1), Shape(MaxInt64, 3, 4)}

MCCosts == {0, 1, 2, 3, 9, MaxInt64}
=============================================================================
