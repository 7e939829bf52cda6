-------------------------------- MODULE Batch --------------------------------
(***************************************************************************)
(* One Throttle call of server/throttling.go as a function of the TATs it  *)
(* finds: the peeks read them, the real entries form one all-or-none       *)
(* group in which each is checked as if the ones before it had been        *)
(* applied.                                                                *)
(***************************************************************************)
EXTENDS Gcra, Sequences

\* One more entry of the group: a peek is passed over, a refused entry fails the
\* group, an admitted one is applied to the working copy.
GroupStep(g, e, s) ==
  LET v == CheckEntry(g.tats[e.key], s, e)
  IN  IF e.peek THEN g
      ELSE IF v.throttled THEN [g EXCEPT !.admitted = FALSE]
      ELSE [g EXCEPT !.tats[e.key] = v.tat]

\* The group after its first n entries, from the TATs t at instant s.
Group(es, t, s) ==
  LET g[n \in 0..Len(es)] ==
        IF n = 0 THEN [tats |-> t, admitted |-> TRUE]
        ELSE GroupStep(g[n-1], es[n], s)
  IN  g

\* What the group leaves behind: everything it did, or nothing.
Committed(es, t, s) ==
  LET g == Group(es, t, s)[Len(es)] IN IF g.admitted THEN g.tats ELSE t

\* The verdict each entry reports.
Verdicts(es, t, s) ==
  LET g == Group(es, t, s)
  IN  [i \in DOMAIN es |->
         CheckEntry(IF es[i].peek THEN t[es[i].key] ELSE g[i-1].tats[es[i].key], s, es[i])]
=============================================================================
