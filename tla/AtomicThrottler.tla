--------------------------- MODULE AtomicThrottler ---------------------------
(***************************************************************************)
(* What the Throttler contract of server/throttling.go promises, with      *)
(* neither locks nor map generations: one TAT per key, every peek one      *)
(* read, the real entries of a call one all-or-none transaction evaluated  *)
(* in order at the instant the call started, and nothing forgotten that a  *)
(* call could still tell apart from a key never seen.                      *)
(***************************************************************************)
EXTENDS Batch

CONSTANTS Calls, Keys, Requests, MaxClock, NoVerdict

VARIABLES clock, tat, stage, entries, stamp, reply

vars == <<clock, tat, stage, entries, stamp, reply>>

Init ==
  /\ clock = 1
  /\ tat = [k \in Keys |-> 0]
  /\ stage = [c \in Calls |-> "idle"]
  /\ entries = [c \in Calls |-> <<>>]
  /\ stamp = [c \in Calls |-> 0]
  /\ reply = [c \in Calls |-> <<>>]

Begin(c, r) ==
  /\ stage[c] = "idle"
  /\ stage' = [stage EXCEPT ![c] = "active"]
  /\ entries' = [entries EXCEPT ![c] = r]
  /\ stamp' = [stamp EXCEPT ![c] = clock]
  /\ reply' = [reply EXCEPT ![c] = [i \in DOMAIN r |-> NoVerdict]]
  /\ UNCHANGED <<clock, tat>>

\* A peek reads the key's committed TAT and changes nothing.
Peek(c, i) ==
  /\ stage[c] = "active" /\ entries[c][i].peek /\ reply[c][i] = NoVerdict
  /\ reply' = [reply EXCEPT ![c][i] =
                 CheckEntry(tat[entries[c][i].key], stamp[c], entries[c][i])]
  /\ UNCHANGED <<clock, tat, stage, entries, stamp>>

\* Every real entry is checked as if the ones before it had been applied; all
\* of them are applied, or none.
Transact(c) ==
  LET es == entries[c]
      g  == Group(es, tat, stamp[c])
  IN  /\ stage[c] = "active"
      /\ \A i \in DOMAIN es : es[i].peek => reply[c][i] # NoVerdict
      /\ tat' = Committed(es, tat, stamp[c])
      /\ reply' = [reply EXCEPT ![c] =
                     [i \in DOMAIN es |->
                        IF es[i].peek THEN reply[c][i]
                        ELSE CheckEntry(g[i-1].tats[es[i].key], stamp[c], es[i])]]
      /\ stage' = [stage EXCEPT ![c] = "done"]
      /\ UNCHANGED <<clock, entries, stamp>>

End(c) ==
  /\ stage[c] = "done"
  /\ stage' = [stage EXCEPT ![c] = "idle"]
  /\ entries' = [entries EXCEPT ![c] = <<>>]
  /\ stamp' = [stamp EXCEPT ![c] = 0]
  /\ reply' = [reply EXCEPT ![c] = <<>>]
  /\ UNCHANGED <<clock, tat>>

\* Idle keys are forgotten once they have drained, for the calls that are
\* still running with an earlier instant too.
Forget(K) ==
  /\ \A k \in K : /\ tat[k] <= clock
                  /\ \A c \in Calls : stage[c] # "idle" => tat[k] <= stamp[c]
  /\ tat' = [k \in Keys |-> IF k \in K THEN 0 ELSE tat[k]]
  /\ UNCHANGED <<clock, stage, entries, stamp, reply>>

Tick ==
  /\ clock < MaxClock /\ clock' = clock + 1
  /\ UNCHANGED <<tat, stage, entries, stamp, reply>>

Next ==
  \/ Tick
  \/ \E K \in SUBSET Keys : Forget(K)
  \/ \E c \in Calls :
       \/ Transact(c) \/ End(c)
       \/ \E r \in Requests : Begin(c, r)
       \/ \E i \in DOMAIN entries[c] : Peek(c, i)

Spec == Init /\ [][Next]_vars
=============================================================================
