------------------------- MODULE ThrottlerRefinement -------------------------
(***************************************************************************)
(* The locking, two-generation implementation of Throttler refines the     *)
(* atomic specification of AtomicThrottler.                                *)
(***************************************************************************)
EXTENDS Throttler

\* The TAT a key has: that of the bucket the store would hand out for it.
KeyTAT ==
  [k \in Keys |-> IF hot[k] # NoBucket THEN tat[hot[k]]
                  ELSE IF cold[k] # NoBucket THEN tat[cold[k]]
                  ELSE 0]

\* A group takes effect at its commit; until then its verdicts are private.
Stage ==
  [c \in Calls |-> CASE pc[c] = "idle" -> "idle"
                     [] pc[c] = "unlock" -> "done"
                     [] OTHER -> "active"]

Reply ==
  [c \in Calls |->
     [i \in DOMAIN result[c] |->
        IF entries[c][i].peek \/ pc[c] = "unlock" THEN result[c][i] ELSE NoVerdict]]

Atomic == INSTANCE AtomicThrottler
            WITH tat <- KeyTAT, stage <- Stage, stamp <- now, reply <- Reply

\* Whatever the interleaving of calls and rotations, callers see what one
\* atomic transaction per call would give them: a refused group leaves no
\* trace, a peek never sees half a group, two entries for one key chain, and
\* dropping an idle key is invisible (limits must satisfy DrainsBeforeDrop).
Linearizable == Atomic!Spec
=============================================================================
