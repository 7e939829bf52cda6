--------------------------- MODULE ShardConnProofs ---------------------------
(***************************************************************************)
(* The pipelined connection for any number of calls, of slots and of       *)
(* connections, under any faults: tokens, dials, sockets, queues, answers. *)
(***************************************************************************)
EXTENDS ShardConn, FiniteSetTheorems, SequenceTheorems, TLAPS

Labels == {"new", "ensure", "awaitDial", "dialOver", "dial", "install", "discard",
           "acquire", "lock", "giveBack", "write", "abort", "shut", "drain", "wait",
           "returned"}

\* The labels of a call that has been given a connection.
Connected == {"acquire", "lock", "giveBack", "write", "abort", "shut", "drain", "wait"}

\* A call in submit has a connection.
MineIsSet == \A c \in Calls : pc[c] \in Connected => mine[c] \in Conns

\* The calls that hold a token themselves.
Holders(g) == At(g, {"lock", "giveBack"})

\* However many calls there are, finitely many hold a token.
FewHolders == \A g \in Conns : IsFiniteSet(Holders(g))

TokenInv == TypeOK /\ MineIsSet /\ FewHolders /\ TokensConserved

\* A fresh connection has every token.
LEMMA TokenInvInit == Init => TokenInv
  <1> SUFFICES ASSUME Init PROVE TokenInv
    OBVIOUS
  <1> USE ShardConnAssumption
  <1>1. /\ mu \in Calls \cup {NoCall} /\ conn \in 0..MaxConns /\ closing \in 0..MaxConns
        /\ dialled \in 0..MaxConns /\ torn \subseteq Conns
    BY DEF Init, None
  <1>2. dialing \in BOOLEAN /\ closed \in BOOLEAN /\ faulted \in BOOLEAN
    BY DEF Init
  <1>3. /\ pending \in [Conns -> Seq(Calls)] /\ wire \in [Conns -> Seq(Calls)]
        /\ inbox \in [Conns -> Seq(Replies)]
    BY DEF Init
  <1>4. live \in [Conns -> BOOLEAN]
    BY DEF Init
  <1>5. sem \in [Conns -> 0..MaxInFlight] /\ mine \in [Calls -> 0..MaxConns]
    BY DEF Init, None
  <1>6. /\ line \in [Conns -> Replies \cup {NoLine}]
        /\ reader \in [Conns -> {"off", "read", "match", "abort", "shut", "drain", "done"}]
        /\ pc \in [Calls -> Labels] /\ ended \in [Calls -> Expiries \cup {"no"}]
        /\ result \in [Calls -> Replies \cup {NoLine, Failed}]
        /\ outcome \in [Calls -> {"none", "ok", "fault", "own"}]
    BY DEF Init, Labels
  <1>7. TypeOK
    BY <1>1, <1>2, <1>3, <1>4, <1>5, <1>6 DEF TypeOK, Labels
  <1>8. MineIsSet /\ \A g \in Conns : Holders(g) = {}
    BY DEF Init, MineIsSet, Connected, Holders, At
  <1>9. FewHolders
    BY <1>8, FS_EmptySet DEF FewHolders
  <1>10. TokensConserved
    <2> SUFFICES ASSUME NEW g \in Conns
                 PROVE  sem[g] + Len(pending[g]) + Cardinality(Holders(g)) = MaxInFlight
      BY DEF TokensConserved, Holders
    <2>1. Cardinality(Holders(g)) = 0
      BY <1>8, FS_EmptySet
    <2>2. sem[g] = MaxInFlight /\ Len(pending[g]) = 0
      BY DEF Init
    <2> QED BY <2>1, <2>2
  <1> QED BY <1>7, <1>8, <1>9, <1>10 DEF TokenInv

\* A call's way through the labels adds it to the holders or takes it out.
LEMMA HoldersStep ==
  ASSUME TokenInv, NEW g \in Conns
  PROVE  /\ Cardinality(Holders(g)) \in Nat
         /\ \A c : /\ IsFiniteSet(Holders(g) \cup {c})
                   /\ c \notin Holders(g) =>
                        Cardinality(Holders(g) \cup {c}) = Cardinality(Holders(g)) + 1
         /\ \A c : /\ IsFiniteSet(Holders(g) \ {c})
                   /\ c \in Holders(g) =>
                        Cardinality(Holders(g) \ {c}) = Cardinality(Holders(g)) - 1
  <1>1. IsFiniteSet(Holders(g))
    BY DEF TokenInv, FewHolders
  <1>2. Cardinality(Holders(g)) \in Nat
    BY <1>1, FS_CardinalityType
  <1>3. \A c : /\ IsFiniteSet(Holders(g) \cup {c})
               /\ Cardinality(Holders(g) \cup {c}) =
                    IF c \in Holders(g) THEN Cardinality(Holders(g))
                    ELSE Cardinality(Holders(g)) + 1
    BY <1>1, FS_AddElement
  <1>4. \A c : /\ IsFiniteSet(Holders(g) \ {c})
               /\ Cardinality(Holders(g) \ {c}) =
                    IF c \in Holders(g) THEN Cardinality(Holders(g)) - 1
                    ELSE Cardinality(Holders(g))
    BY <1>1, FS_RemoveElement
  <1> QED BY <1>2, <1>3, <1>4

\* Whoever holds a token, or stands in pending with one, leaves room in sem.
LEMMA RoomForToken ==
  ASSUME TokenInv, NEW g \in Conns, pending[g] # <<>> \/ Holders(g) # {}
  PROVE  sem[g] + 1 \in 0..MaxInFlight
  <1>1. /\ sem[g] \in 0..MaxInFlight /\ Len(pending[g]) \in Nat
        /\ pending[g] # <<>> => Len(pending[g]) >= 1
    BY DEF TokenInv, TypeOK
  <1>2. /\ Cardinality(Holders(g)) \in Nat
        /\ Holders(g) # {} => Cardinality(Holders(g)) >= 1
    <2>1. IsFiniteSet(Holders(g)) /\ Cardinality(Holders(g)) \in Nat
      BY HoldersStep DEF TokenInv, FewHolders
    <2> QED BY <2>1, FS_EmptySet
  <1>3. sem[g] + Len(pending[g]) + Cardinality(Holders(g)) = MaxInFlight
    BY DEF TokenInv, TokensConserved, Holders
  <1> QED BY <1>1, <1>2, <1>3, ShardConnAssumption

-----------------------------------------------------------------------------
(* Types *)

\* The two ways out of exchange.
LEMMA ReturnErrType ==
  ASSUME TypeOK, NEW c \in Calls, ReturnErr(c)
  PROVE  /\ pc' \in [Calls -> Labels] /\ pc'[c] = "returned"
         /\ \A d \in Calls \ {c} : pc'[d] = pc[d]
         /\ outcome' \in [Calls -> {"none", "ok", "fault", "own"}]
  BY DEF TypeOK, ReturnErr, Goto, Labels

\* ensureConn keeps the types and hands out a connection.
LEMMA EnsureTypes ==
  ASSUME TokenInv, NEW c \in Calls,
         \/ Begin(c) \/ EnsureClosed(c) \/ EnsureHave(c) \/ EnsureWait(c) \/ EnsureDial(c)
         \/ DialOver(c) \/ DialWaitEnds(c) \/ Dial(c) \/ DialFails(c)
         \/ Install(c) \/ Discard(c)
  PROVE  TypeOK' /\ MineIsSet'
  <1> USE ShardConnAssumption
      DEF TokenInv, connVars, genVars, readVars, netVars, callVars, envVars, Connected,
          MineIsSet, None, Conns
  <1>1. CASE Begin(c) \/ EnsureWait(c) \/ DialOver(c)
    <2>1. pc' \in [Calls -> Labels] /\ mine' = mine
      BY <1>1 DEF Begin, EnsureWait, DialOver, Goto, TypeOK, Labels
    <2>4. /\ pc'[c] \in {"ensure", "awaitDial"}
          /\ \A d \in Calls \ {c} : pc'[d] = pc[d]
      BY <1>1 DEF Begin, EnsureWait, DialOver, Goto, TypeOK
    <2>2. MineIsSet'
      BY <2>1, <2>4
    <2>3. UNCHANGED <<mu, connVars, genVars, readVars, netVars, mine, ended, result, outcome,
                      envVars>>
      BY <1>1 DEF Begin, EnsureWait, DialOver
    <2> QED BY <2>1, <2>2, <2>3 DEF TypeOK, Labels
  <1>2. CASE EnsureClosed(c) \/ DialWaitEnds(c)
    <2>1. /\ pc' \in [Calls -> Labels] /\ pc'[c] = "returned" /\ mine' = mine
          /\ \A d \in Calls \ {c} : pc'[d] = pc[d]
          /\ outcome' \in [Calls -> {"none", "ok", "fault", "own"}]
      BY <1>2, ReturnErrType DEF EnsureClosed, DialWaitEnds
    <2>2. MineIsSet'
      BY <2>1 DEF TypeOK
    <2>3. UNCHANGED <<mu, connVars, genVars, readVars, netVars, mine, ended, result, envVars>>
      BY <1>2 DEF EnsureClosed, DialWaitEnds
    <2> QED BY <2>1, <2>2, <2>3 DEF TypeOK, Labels
  <1>3. CASE EnsureHave(c)
    <2>1. conn \in Conns
      BY <1>3 DEF EnsureHave, TypeOK
    <2>2. pc' \in [Calls -> Labels] /\ mine' \in [Calls -> 0..MaxConns]
      BY <1>3 DEF EnsureHave, Goto, TypeOK, Labels
    <2>3. MineIsSet'
      BY <1>3, <2>1 DEF EnsureHave, Goto, TypeOK
    <2>4. TypeOK'
      BY <1>3, <2>2 DEF EnsureHave, TypeOK, Labels
    <2> QED BY <2>3, <2>4
  <1>4. CASE EnsureDial(c)
    <2>1. dialing' \in BOOLEAN
      BY <1>4, Zenon DEF EnsureDial
    <2> QED BY <1>4, <2>1 DEF EnsureDial, Goto, TypeOK
  <1>5. CASE Dial(c)
    <2>1. dialled' \in Conns /\ dialled + 1 \in Conns
      <3>1. dialled < MaxConns /\ dialled' = dialled + 1
        BY <1>5 DEF Dial
      <3>2. dialled \in 0..MaxConns
        BY DEF TypeOK
      <3> QED BY <3>1, <3>2
    <2>2. live' \in [Conns -> BOOLEAN]
      BY <1>5, <2>1 DEF Dial, TypeOK
    <2>3. pc' \in [Calls -> Labels] /\ mine' \in [Calls -> 0..MaxConns]
      <3>1. pc' \in [Calls -> Labels]
        BY <1>5 DEF Dial, Goto, TypeOK, Labels
      <3>2. mine' \in [Calls -> 0..MaxConns]
        <4>1. mine' = [mine EXCEPT ![c] = dialled + 1]
          BY <1>5, Zenon DEF Dial
        <4>2. dialled + 1 \in 0..MaxConns
          BY <2>1
        <4>3. mine \in [Calls -> 0..MaxConns]
          BY DEF TypeOK
        <4> QED BY <4>1, <4>2, <4>3
      <3> QED BY <3>1, <3>2
    <2>4. MineIsSet'
      BY <1>5, <2>1 DEF Dial, Goto, TypeOK
    <2>5. UNCHANGED <<mu, connVars, genVars, readVars, wire, inbox, ended, result, outcome,
                      closing, faulted, torn>>
      BY <1>5 DEF Dial
    <2>6. dialled' \in 0..MaxConns
      BY <2>1
    <2>7. TypeOK'
      BY <2>2, <2>3, <2>5, <2>6 DEF TypeOK, Labels
    <2> QED BY <2>4, <2>7
  <1>6. CASE DialFails(c)
    <2>1. faulted' \in BOOLEAN
      BY <1>6, Zenon DEF DialFails
    <2> QED BY <1>6, <2>1 DEF DialFails, Goto, TypeOK
  <1>7. CASE Install(c)
    <2>1. dialing' \in BOOLEAN
      BY <1>7, Zenon DEF Install
    <2>2. pc' \in [Calls -> Labels] /\ MineIsSet'
      BY <1>7 DEF Install, TypeOK, Labels
    <2>3. /\ conn' \in 0..MaxConns
          /\ reader' \in [Conns -> {"off", "read", "match", "abort", "shut", "drain", "done"}]
      BY <1>7 DEF Install, TypeOK
    <2> QED BY <1>7, <2>1, <2>2, <2>3 DEF Install, TypeOK, Labels
  <1>8. CASE Discard(c)
    <2>1. live' \in [Conns -> BOOLEAN]
      BY <1>8, Zenon DEF Discard
    <2> QED BY <1>8, <2>1, ReturnErrType DEF Discard, TypeOK, Labels
  <1> QED BY <1>1, <1>2, <1>3, <1>4, <1>5, <1>6, <1>7, <1>8

\* One call taken out of pending and its token put back.
LEMMA DrainOneTypes ==
  ASSUME TokenInv, NEW g \in Conns, DrainOne(g)
  PROVE  /\ pending' \in [Conns -> Seq(Calls)] /\ sem' \in [Conns -> 0..MaxInFlight]
         /\ result' \in [Calls -> Replies \cup {NoLine, Failed}]
  <1>1. sem[g] + 1 \in 0..MaxInFlight
    BY RoomForToken DEF DrainOne
  <1>2. pending[g] \in Seq(Calls) /\ pending[g] # <<>>
    BY DEF DrainOne, TokenInv, TypeOK
  <1>3. Head(pending[g]) \in Calls /\ Tail(pending[g]) \in Seq(Calls)
    BY <1>2
  <1> QED BY <1>1, <1>3 DEF DrainOne, TokenInv, TypeOK

\* submit, its abort and the wait keep the types.
LEMMA SubmitTypes ==
  ASSUME TokenInv, NEW c \in Calls,
         \/ Acquire(c) \/ AcquireWaitEnds(c) \/ Stale(c) \/ GiveBack(c) \/ Enqueue(c)
         \/ Write(c) \/ WriteFails(c)
         \/ SubmitAborts(c) \/ SubmitShuts(c) \/ SubmitDrains(c) \/ SubmitDrained(c)
         \/ Receive(c) \/ WaitEnds(c)
  PROVE  TypeOK' /\ MineIsSet'
  <1> USE ShardConnAssumption
      DEF connVars, genVars, readVars, netVars, callVars, envVars, Connected,
          MineIsSet, None
  <1>0. TypeOK /\ (pc[c] \in Connected => mine[c] \in Conns)
    BY DEF TokenInv
  <1>1. CASE Acquire(c)
    BY <1>0, <1>1 DEF Acquire, Goto, TypeOK, TokenInv
  <1>2. CASE AcquireWaitEnds(c) \/ SubmitDrained(c) \/ WaitEnds(c)
    <2>1. /\ pc' \in [Calls -> Labels] /\ pc'[c] = "returned" /\ mine' = mine
          /\ \A d \in Calls \ {c} : pc'[d] = pc[d]
          /\ outcome' \in [Calls -> {"none", "ok", "fault", "own"}]
      BY <1>0, <1>2, ReturnErrType DEF AcquireWaitEnds, SubmitDrained, WaitEnds
    <2>2. MineIsSet'
      BY <2>1 DEF TypeOK, TokenInv
    <2>3. UNCHANGED <<mu, connVars, genVars, readVars, netVars, mine, ended, result, envVars>>
      BY <1>2 DEF AcquireWaitEnds, SubmitDrained, WaitEnds
    <2> QED BY <1>0, <2>1, <2>2, <2>3 DEF TypeOK, Labels
  <1>3. CASE Stale(c)
    BY <1>3 DEF Stale, Goto, TypeOK, TokenInv
  <1>4. CASE GiveBack(c)
    <2>1. c \in Holders(mine[c])
      BY <1>4 DEF GiveBack, Holders, At
    <2>2. sem[mine[c]] + 1 \in 0..MaxInFlight
      BY <1>0, <1>4, <2>1, RoomForToken DEF GiveBack
    <2> QED BY <1>4, <2>2 DEF GiveBack, Goto, TypeOK, TokenInv
  <1>5. CASE Enqueue(c)
    <2>1. pending' \in [Conns -> Seq(Calls)]
      BY <1>0, <1>5 DEF Enqueue, TypeOK
    <2> QED BY <1>5, <2>1 DEF Enqueue, Goto, TypeOK, TokenInv
  <1>6. CASE Write(c)
    <2>1. wire' \in [Conns -> Seq(Calls)]
      BY <1>0, <1>6 DEF Write, TypeOK
    <2> QED BY <1>6, <2>1 DEF Write, Goto, TypeOK, TokenInv
  <1>7. CASE WriteFails(c)
    <2>1. faulted' \in BOOLEAN
      BY <1>7, Zenon DEF WriteFails
    <2>2. torn' \subseteq Conns
      BY <1>0, <1>7 DEF WriteFails, TypeOK
    <2> QED BY <1>7, <2>1, <2>2 DEF WriteFails, Goto, TypeOK, TokenInv
  <1>8. CASE SubmitAborts(c)
    BY <1>8 DEF SubmitAborts, ClearConn, Goto, TypeOK, TokenInv
  <1>9. CASE SubmitShuts(c)
    BY <1>9 DEF SubmitShuts, Goto, TypeOK, TokenInv
  <1>10. CASE SubmitDrains(c)
    BY <1>0, <1>10, DrainOneTypes DEF SubmitDrains, TypeOK, TokenInv
  <1>11. CASE Receive(c)
    BY <1>11 DEF Receive, Goto, TypeOK, TokenInv
  <1> QED BY <1>1, <1>2, <1>3, <1>4, <1>5, <1>6, <1>7, <1>8, <1>9, <1>10, <1>11

\* readLoop keeps the types.
LEMMA ReaderTypes ==
  ASSUME TokenInv, NEW g \in Conns, ReaderStep(g)
  PROVE  TypeOK' /\ MineIsSet'
  <1> USE DEF connVars, genVars, readVars, netVars, callVars, envVars, MineIsSet, ToReader
  <1>1. CASE ReadLine(g)
    <2>1. /\ inbox' \in [Conns -> Seq(Replies)]
          /\ line' \in [Conns -> Replies \cup {NoLine}]
      BY <1>1 DEF ReadLine, TypeOK, TokenInv
    <2> QED BY <1>1, <2>1 DEF ReadLine, TypeOK, TokenInv
  <1>2. CASE ReadFails(g)
    <2>1. faulted' \in BOOLEAN
      BY <1>2, Zenon DEF ReadFails
    <2> QED BY <1>2, <2>1 DEF ReadFails, TypeOK, TokenInv
  <1>3. CASE Deliver(g)
    <2>1. sem[g] + 1 \in 0..MaxInFlight
      BY <1>3, RoomForToken DEF Deliver
    <2>2. Head(pending[g]) \in Calls /\ Tail(pending[g]) \in Seq(Calls)
      BY <1>3 DEF Deliver, TypeOK, TokenInv
    <2> QED BY <1>3, <2>1, <2>2 DEF Deliver, TypeOK, TokenInv
  <1>4. CASE NothingPending(g)
    BY <1>4 DEF NothingPending, TypeOK, TokenInv
  <1>5. CASE ReaderAborts(g)
    BY <1>5, ShardConnAssumption DEF ReaderAborts, ClearConn, None, TypeOK, TokenInv
  <1>6. CASE ReaderShuts(g)
    BY <1>6 DEF ReaderShuts, TypeOK, TokenInv
  <1>7. CASE ReaderDrains(g)
    BY <1>7, DrainOneTypes DEF ReaderDrains, TypeOK, TokenInv
  <1>8. CASE ReaderDrained(g)
    BY <1>8 DEF ReaderDrained, TypeOK, TokenInv
  <1> QED BY <1>1, <1>2, <1>3, <1>4, <1>5, <1>6, <1>7, <1>8 DEF ReaderStep

\* What an answer may say.
LEMMA ReplyKeys ==
  ASSUME TypeOK, NEW g \in Conns, ShardStep(g)
  PROVE  /\ Head(wire[g]) \in Calls
         /\ \E k \in {KeyOf[Head(wire[g])], "ERR", "garbage"} : Reply(g, k)
         /\ \E k \in {KeyOf[c] : c \in Calls} \cup {"ERR", "garbage"} : Reply(g, k)
  <1>1. \E k \in {KeyOf[Head(wire[g])], "ERR", "garbage"} : Reply(g, k)
    BY DEF ShardStep, Answer, Garble
  <1>2. Head(wire[g]) \in Calls
    BY <1>1 DEF Reply, TypeOK
  <1> QED BY <1>1, <1>2

\* So do close(), the shard and the clock.
LEMMA OtherTypes ==
  ASSUME TokenInv,
         \/ \E c \in Calls, how \in Expiries : Expire(c, how)
         \/ \E g \in Conns : ShardStep(g)
         \/ Close \/ CloseSocket \/ UNCHANGED vars
  PROVE  TypeOK' /\ MineIsSet'
  <1> USE DEF connVars, genVars, readVars, netVars, callVars, envVars, MineIsSet, TokenInv
  <1>1. ASSUME NEW c \in Calls, NEW how \in Expiries, Expire(c, how)
        PROVE  TypeOK' /\ MineIsSet'
    <2>1. faulted' \in BOOLEAN
      BY <1>1, Zenon DEF Expire
    <2> QED BY <1>1, <2>1 DEF Expire, TypeOK
  <1>2. ASSUME NEW g \in Conns, ShardStep(g) PROVE TypeOK' /\ MineIsSet'
    <2>1. PICK k \in {KeyOf[c] : c \in Calls} \cup {"ERR", "garbage"} : Reply(g, k)
      BY <1>2, ReplyKeys
    <2>2. faulted' \in BOOLEAN
      BY <1>2 DEF ShardStep, Answer, Garble, TypeOK
    <2>3. Head(wire[g]) \in Calls /\ Tail(wire[g]) \in Seq(Calls)
      BY <2>1 DEF Reply, TypeOK
    <2>4. Response(Head(wire[g]), k) \in Replies
      BY <2>3 DEF Response, Replies
    <2>5. inbox' \in [Conns -> Seq(Replies)] /\ wire' \in [Conns -> Seq(Calls)]
      BY <2>1, <2>3, <2>4 DEF Reply, TypeOK
    <2>6. UNCHANGED <<mu, connVars, genVars, readVars, live, callVars, closing, dialled, torn>>
      BY <1>2 DEF ShardStep, Answer, Garble
    <2> QED BY <2>2, <2>5, <2>6 DEF TypeOK
  <1>3. CASE Close
    <2>1. closed' \in BOOLEAN
      BY <1>3, Zenon DEF Close
    <2> QED BY <1>3, <2>1, ShardConnAssumption DEF Close, TypeOK, None
  <1>4. CASE CloseSocket
    <2>1. closing \in Conns
      BY <1>4 DEF CloseSocket, TypeOK, None, Conns
    <2> QED BY <1>4, <2>1, ShardConnAssumption DEF CloseSocket, TypeOK, None
  <1>5. CASE UNCHANGED vars
    BY <1>5 DEF vars, TypeOK
  <1> QED BY <1>1, <1>2, <1>3, <1>4, <1>5

-----------------------------------------------------------------------------
(* Tokens *)

\* A step that leaves sem, pending and the holders alone.
LEMMA QuietKeepsTokens ==
  ASSUME TokenInv, UNCHANGED <<pending, sem>>,
         \A g \in Conns : Holders(g)' = Holders(g)
  PROVE  FewHolders' /\ TokensConserved'
  <1>1. FewHolders'
    BY DEF TokenInv, FewHolders
  <1>2. ASSUME NEW g \in Conns
        PROVE  sem'[g] + Len(pending'[g]) + Cardinality(Holders(g)') = MaxInFlight
    <2>1. sem[g] + Len(pending[g]) + Cardinality(Holders(g)) = MaxInFlight
      BY DEF TokenInv, TokensConserved, Holders
    <2> QED BY <2>1
  <1> QED BY <1>1, <1>2 DEF TokensConserved, Holders

\* A step that moves one of g's tokens: what sem and pending lose, the holders
\* gain.
LEMMA OneTokenMoves ==
  ASSUME TokenInv, NEW g \in Conns,
         \A h \in Conns \ {g} : /\ sem'[h] = sem[h] /\ pending'[h] = pending[h]
                                /\ Holders(h)' = Holders(h),
         IsFiniteSet(Holders(g)'),
         sem'[g] + Len(pending'[g]) + Cardinality(Holders(g)')
           = sem[g] + Len(pending[g]) + Cardinality(Holders(g))
  PROVE  FewHolders' /\ TokensConserved'
  <1>1. FewHolders'
    BY DEF TokenInv, FewHolders
  <1>2. ASSUME NEW h \in Conns
        PROVE  sem'[h] + Len(pending'[h]) + Cardinality(Holders(h)') = MaxInFlight
    <2>1. sem[h] + Len(pending[h]) + Cardinality(Holders(h)) = MaxInFlight
      BY DEF TokenInv, TokensConserved, Holders
    <2>2. CASE h = g
      BY <2>1, <2>2
    <2>3. CASE h # g
      BY <2>1, <2>3
    <2> QED BY <2>2, <2>3
  <1> QED BY <1>1, <1>2 DEF TokensConserved, Holders

\* Whoever takes the oldest call out of pending puts its token back.
LEMMA TakenOutTokens ==
  ASSUME TokenInv, NEW g \in Conns, pending[g] # <<>>,
         pending' = [pending EXCEPT ![g] = Tail(@)],
         sem' = [sem EXCEPT ![g] = @ + 1],
         UNCHANGED <<pc, mine>>
  PROVE  FewHolders' /\ TokensConserved'
  <1>1. \A h \in Conns : Holders(h)' = Holders(h)
    BY DEF Holders, At
  <1>2. IsFiniteSet(Holders(g)') /\ Cardinality(Holders(g)) \in Nat
    BY <1>1, HoldersStep DEF TokenInv, FewHolders
  <1>8. Holders(g)' = Holders(g)
    BY <1>1
  <1>3. pending[g] \in Seq(Calls) /\ sem[g] \in Nat
    BY DEF TokenInv, TypeOK
  <1>4. sem'[g] = sem[g] + 1 /\ pending'[g] = Tail(pending[g])
    BY DEF TokenInv, TypeOK
  <1>5. Len(pending'[g]) = Len(pending[g]) - 1 /\ Len(pending[g]) \in Nat
    <2>1. Len(Tail(pending[g])) = Len(pending[g]) - 1 /\ Len(pending[g]) \in Nat
      BY <1>3
    <2> QED BY <1>4, <2>1
  <1>6. sem'[g] + Len(pending'[g]) + Cardinality(Holders(g)')
          = sem[g] + Len(pending[g]) + Cardinality(Holders(g))
    <2>1. sem[g] \in Nat /\ sem'[g] = sem[g] + 1
      BY <1>3, <1>4
    <2>2. Cardinality(Holders(g)') = Cardinality(Holders(g))
      BY <1>8
    <2> QED BY <1>2, <1>5, <2>1, <2>2
  <1>7. \A h \in Conns \ {g} : sem'[h] = sem[h] /\ pending'[h] = pending[h]
    BY DEF TokenInv, TypeOK
  <1> QED BY <1>1, <1>2, <1>6, <1>7, OneTokenMoves

\* submit takes a token, carries it into pending, or gives it back.
LEMMA SubmitTokens ==
  ASSUME TokenInv, NEW c \in Calls, Acquire(c) \/ GiveBack(c) \/ Enqueue(c)
  PROVE  FewHolders' /\ TokensConserved'
  <1>1. PICK g \in Conns : g = mine[c]
    BY DEF Acquire, GiveBack, Enqueue, TokenInv, MineIsSet, Connected
  <1>2. /\ sem[g] \in Nat /\ Len(pending[g]) \in Nat
        /\ pending[g] \in Seq(Calls) /\ Cardinality(Holders(g)) \in Nat
    <2>1. TypeOK /\ IsFiniteSet(Holders(g)) /\ Cardinality(Holders(g)) \in Nat
      BY <1>1, HoldersStep DEF TokenInv, FewHolders
    <2>2. pending[g] \in Seq(Calls) /\ sem[g] \in 0..MaxInFlight
      BY <2>1 DEF TypeOK
    <2> QED BY <2>1, <2>2
  <1>3. mine' = mine
    BY DEF Acquire, GiveBack, Enqueue
  <1>4. \A h \in Conns \ {g} : /\ sem'[h] = sem[h] /\ pending'[h] = pending[h]
                               /\ Holders(h)' = Holders(h)
    <2> SUFFICES ASSUME NEW h \in Conns \ {g}
                 PROVE  /\ sem'[h] = sem[h] /\ pending'[h] = pending[h]
                        /\ Holders(h)' = Holders(h)
      OBVIOUS
    <2>1. sem'[h] = sem[h] /\ pending'[h] = pending[h]
      BY <1>1 DEF Acquire, GiveBack, Enqueue, genVars, TokenInv, TypeOK
    <2>2. \A d \in Calls : d # c => pc'[d] = pc[d]
      BY DEF Acquire, GiveBack, Enqueue, Goto, TokenInv, TypeOK
    <2>3. Holders(h)' = Holders(h)
      BY <1>1, <1>3, <2>2 DEF Holders, At
    <2> QED BY <2>1, <2>3
  <1>5. CASE Acquire(c)
    <2>1. Holders(g)' = Holders(g) \cup {c} /\ c \notin Holders(g)
      BY <1>1, <1>3, <1>5 DEF Acquire, Goto, Holders, At, TokenInv, TypeOK
    <2>2. IsFiniteSet(Holders(g)') /\ Cardinality(Holders(g)') = Cardinality(Holders(g)) + 1
      BY <1>1, <2>1, HoldersStep
    <2>3. sem'[g] = sem[g] - 1 /\ pending'[g] = pending[g]
      BY <1>1, <1>5 DEF Acquire, TokenInv, TypeOK
    <2>4. sem'[g] + Len(pending'[g]) + Cardinality(Holders(g)')
            = sem[g] + Len(pending[g]) + Cardinality(Holders(g))
      BY <1>2, <2>2, <2>3
    <2> QED BY <1>1, <1>4, <2>2, <2>4, OneTokenMoves
  <1>6. CASE GiveBack(c)
    <2>1. Holders(g)' = Holders(g) \ {c} /\ c \in Holders(g)
      BY <1>1, <1>3, <1>6 DEF GiveBack, Goto, Holders, At, TokenInv, TypeOK
    <2>2. IsFiniteSet(Holders(g)') /\ Cardinality(Holders(g)') = Cardinality(Holders(g)) - 1
      BY <1>1, <2>1, HoldersStep
    <2>3. sem'[g] = sem[g] + 1 /\ pending'[g] = pending[g]
      BY <1>1, <1>6 DEF GiveBack, TokenInv, TypeOK
    <2>4. sem'[g] + Len(pending'[g]) + Cardinality(Holders(g)')
            = sem[g] + Len(pending[g]) + Cardinality(Holders(g))
      BY <1>2, <2>2, <2>3
    <2> QED BY <1>1, <1>4, <2>2, <2>4, OneTokenMoves
  <1>7. CASE Enqueue(c)
    <2>1. Holders(g)' = Holders(g) \ {c} /\ c \in Holders(g)
      BY <1>1, <1>3, <1>7 DEF Enqueue, Goto, Holders, At, TokenInv, TypeOK
    <2>2. IsFiniteSet(Holders(g)') /\ Cardinality(Holders(g)') = Cardinality(Holders(g)) - 1
      BY <1>1, <2>1, HoldersStep
    <2>3. sem'[g] = sem[g] /\ pending'[g] = Append(pending[g], c)
      BY <1>1, <1>7 DEF Enqueue, TokenInv, TypeOK
    <2>4. Len(pending'[g]) = Len(pending[g]) + 1
      BY <1>2, <2>3
    <2>5. sem'[g] + Len(pending'[g]) + Cardinality(Holders(g)')
            = sem[g] + Len(pending[g]) + Cardinality(Holders(g))
      <3>1. /\ sem'[g] = sem[g] /\ sem[g] \in Nat /\ Len(pending[g]) \in Nat
            /\ Cardinality(Holders(g)) \in Nat
        BY <1>2, <2>3
      <3>2. Len(pending'[g]) + Cardinality(Holders(g)') = Len(pending[g]) + Cardinality(Holders(g))
        BY <2>2, <2>4, <3>1
      <3>3. Len(pending'[g]) \in Nat /\ Cardinality(Holders(g)') \in Int
        BY <2>2, <2>4, <3>1
      <3> QED BY <3>1, <3>2, <3>3
    <2> QED BY <1>1, <1>4, <2>2, <2>5, OneTokenMoves
  <1> QED BY <1>5, <1>6, <1>7

\* Every step keeps the tokens.
LEMMA TokenInvStep == TokenInv /\ [Next]_vars => TokenInv'
  <1> SUFFICES ASSUME TokenInv, [Next]_vars PROVE TokenInv'
    OBVIOUS
  <1> USE DEF connVars, genVars, readVars, netVars, callVars, envVars
  <1>0. TypeOK
    BY DEF TokenInv
  <1>1. ASSUME NEW c \in Calls, Begin(c) \/ CallStep(c) PROVE TokenInv'
    <2>1. TypeOK' /\ MineIsSet'
      BY <1>1, EnsureTypes, SubmitTypes DEF CallStep
    <2>2. FewHolders' /\ TokensConserved'
      <3>1. CASE Acquire(c) \/ GiveBack(c) \/ Enqueue(c)
        BY <3>1, SubmitTokens
      <3>2. CASE SubmitDrains(c)
        <4>1. mine[c] \in Conns
          BY <3>2 DEF SubmitDrains, TokenInv, MineIsSet, Connected
        <4> QED BY <3>2, <4>1, TakenOutTokens DEF SubmitDrains, DrainOne
      <3>3. CASE \/ Begin(c) \/ EnsureHave(c) \/ EnsureWait(c) \/ EnsureDial(c)
                 \/ DialOver(c) \/ Dial(c) \/ DialFails(c)
        <4>1. \A g \in Conns : Holders(g)' = Holders(g)
          BY <1>0, <3>3 DEF Begin, EnsureHave, EnsureWait, EnsureDial, DialOver, Dial,
                            DialFails, Goto, Holders, At, TypeOK
        <4> QED BY <3>3, <4>1, QuietKeepsTokens
                DEF Begin, EnsureHave, EnsureWait, EnsureDial, DialOver, Dial, DialFails
      <3>4. CASE \/ EnsureClosed(c) \/ DialWaitEnds(c) \/ Discard(c) \/ AcquireWaitEnds(c)
                 \/ SubmitDrained(c) \/ WaitEnds(c) \/ Receive(c)
        <4>1. \A g \in Conns : Holders(g)' = Holders(g)
          BY <1>0, <3>4 DEF EnsureClosed, DialWaitEnds, Discard, AcquireWaitEnds,
                            SubmitDrained, WaitEnds, Receive, ReturnErr, Goto, Holders, At,
                            TypeOK
        <4> QED BY <3>4, <4>1, QuietKeepsTokens
                DEF EnsureClosed, DialWaitEnds, Discard, AcquireWaitEnds, SubmitDrained,
                    WaitEnds, Receive
      <3>5. CASE Install(c)
        <4>1. \A g \in Conns : Holders(g)' = Holders(g)
          BY <1>0, <3>5 DEF Install, Holders, At, TypeOK
        <4> QED BY <3>5, <4>1, QuietKeepsTokens DEF Install
      <3>6. CASE Stale(c) \/ Write(c) \/ WriteFails(c) \/ SubmitAborts(c) \/ SubmitShuts(c)
        <4>1. \A g \in Conns : Holders(g)' = Holders(g)
          BY <1>0, <3>6 DEF Stale, Write, WriteFails, SubmitAborts, SubmitShuts, Goto,
                            Holders, At, TypeOK
        <4> QED BY <3>6, <4>1, QuietKeepsTokens
                DEF Stale, Write, WriteFails, SubmitAborts, SubmitShuts
      <3> QED BY <1>1, <3>1, <3>2, <3>3, <3>4, <3>5, <3>6 DEF CallStep
    <2> QED BY <2>1, <2>2 DEF TokenInv
  <1>2. ASSUME NEW g \in Conns, ReaderStep(g) PROVE TokenInv'
    <2>1. TypeOK' /\ MineIsSet'
      BY <1>2, ReaderTypes
    <2>2. UNCHANGED <<pc, mine>>
      BY <1>2 DEF ReaderStep, ReadLine, ReadFails, Deliver, NothingPending, ReaderAborts,
                  ReaderShuts, ReaderDrains, ReaderDrained
    <2>3. CASE Deliver(g) \/ ReaderDrains(g)
      BY <2>1, <2>2, <2>3, TakenOutTokens DEF Deliver, ReaderDrains, DrainOne, TokenInv
    <2>4. CASE UNCHANGED <<pending, sem>>
      <3>1. \A h \in Conns : Holders(h)' = Holders(h)
        BY <2>2 DEF Holders, At
      <3> QED BY <2>1, <2>4, <3>1, QuietKeepsTokens DEF TokenInv
    <2> QED BY <1>2, <2>3, <2>4
            DEF ReaderStep, ReadLine, ReadFails, NothingPending, ReaderAborts, ReaderShuts,
                ReaderDrained
  <1>3. CASE \/ \E c \in Calls, how \in Expiries : Expire(c, how)
             \/ \E g \in Conns : ShardStep(g)
             \/ Close \/ CloseSocket \/ UNCHANGED vars
    <2>1. TypeOK' /\ MineIsSet'
      BY <1>3, OtherTypes
    <2>2. UNCHANGED <<pc, mine, pending, sem>>
      BY <1>3 DEF Expire, ShardStep, Answer, Garble, Reply, Close, CloseSocket, vars
    <2>3. \A h \in Conns : Holders(h)' = Holders(h)
      BY <2>2 DEF Holders, At
    <2> QED BY <2>1, <2>2, <2>3, QuietKeepsTokens DEF TokenInv
  <1> QED BY <1>1, <1>2, <1>3 DEF Next

\* The fields of a shardConn, its generations and its calls keep their types.
THEOREM ConnTypeCorrect == Spec => []TypeOK
  <1>1. TokenInv => TypeOK
    BY DEF TokenInv
  <1> QED BY <1>1, TokenInvInit, TokenInvStep, PTL DEF Spec

\* No path through submit, abort, readLoop or close() loses or forges a token
\* of a generation's semaphore.
THEOREM TokensAreConserved == Spec => []TokensConserved
  <1>1. TokenInv => TokensConserved
    BY DEF TokenInv
  <1> QED BY <1>1, TokenInvInit, TokenInvStep, PTL DEF Spec

-----------------------------------------------------------------------------
(* Dials and sockets *)

Dialers == {c \in Calls : pc[c] \in {"dial", "install"}}

\* dialing stands for the one call that dials; while it does there is no
\* connection, and none is installed or taken out twice once closed.
DialInv ==
  /\ dialing => \E c \in Calls : Dialers = {c}
  /\ ~dialing => Dialers = {}
  /\ \A c \in Calls : pc[c] = "awaitDial" => dialing
  /\ dialing => conn = None
  /\ closed => conn = None
  /\ closing # None => closed

\* A step of a call that neither starts nor ends a dial.
LEMMA DialAside ==
  ASSUME TypeOK, DialInv, Dialers' = Dialers,
         \A c \in Calls : pc'[c] = "awaitDial" => pc[c] = "awaitDial",
         dialing' = dialing, closed' = closed, closing' = closing,
         conn' \in {conn, None}
  PROVE  DialInv'
  BY DEF DialInv, None

\* Every step keeps the dial to one call.
LEMMA DialInvStep == TypeOK /\ DialInv /\ [Next]_vars => DialInv'
  <1> SUFFICES ASSUME TypeOK, DialInv, [Next]_vars PROVE DialInv'
    OBVIOUS
  <1> USE DEF connVars, genVars, readVars, netVars, callVars, envVars
  <1>1. ASSUME NEW c \in Calls, EnsureWait(c) PROVE DialInv'
    <2>1. Dialers' = Dialers
      BY <1>1 DEF EnsureWait, Goto, Dialers, TypeOK
    <2>2. \A d \in Calls : pc'[d] = "awaitDial" => dialing
      BY <1>1 DEF EnsureWait, Goto, DialInv, TypeOK
    <2> QED BY <1>1, <2>1, <2>2 DEF EnsureWait, DialInv
  <1>2. ASSUME NEW c \in Calls, EnsureDial(c) PROVE DialInv'
    <2>1. Dialers' = {c}
      BY <1>2 DEF EnsureDial, Goto, Dialers, DialInv, TypeOK
    <2> QED BY <1>2, <2>1 DEF EnsureDial, DialInv
  <1>3. ASSUME NEW c \in Calls, Install(c) PROVE DialInv'
    <2>1. Dialers = {c} /\ conn = None
      BY <1>3 DEF Install, Dialers, DialInv
    <2>2. Dialers' = {} /\ \A d \in Calls : pc'[d] # "awaitDial"
      BY <1>3, <2>1 DEF Install, Dialers, TypeOK
    <2>3. /\ dialing' = FALSE /\ closed' = closed /\ closing' = closing
          /\ closed => conn' = None
      BY <1>3, <2>1 DEF Install
    <2> QED BY <2>2, <2>3 DEF DialInv
  <1>4. ASSUME NEW c \in Calls,
               \/ Begin(c) \/ EnsureHave(c) \/ DialOver(c) \/ Dial(c) \/ DialFails(c)
        PROVE  DialInv'
    <2>1. /\ Dialers' = Dialers
          /\ \A d \in Calls : pc'[d] = "awaitDial" => pc[d] = "awaitDial"
      BY <1>4 DEF Begin, EnsureHave, DialOver, Dial, DialFails, Goto, Dialers, TypeOK
    <2> QED BY <1>4, <2>1, DialAside DEF Begin, EnsureHave, DialOver, Dial, DialFails
  <1>5. ASSUME NEW c \in Calls,
               \/ EnsureClosed(c) \/ DialWaitEnds(c) \/ Discard(c) \/ AcquireWaitEnds(c)
               \/ SubmitDrained(c) \/ WaitEnds(c) \/ Receive(c)
        PROVE  DialInv'
    <2>1. /\ Dialers' = Dialers
          /\ \A d \in Calls : pc'[d] = "awaitDial" => pc[d] = "awaitDial"
      BY <1>5 DEF EnsureClosed, DialWaitEnds, Discard, AcquireWaitEnds, SubmitDrained,
                  WaitEnds, Receive, ReturnErr, Goto, Dialers, TypeOK
    <2> QED BY <1>5, <2>1, DialAside
            DEF EnsureClosed, DialWaitEnds, Discard, AcquireWaitEnds, SubmitDrained,
                WaitEnds, Receive
  <1>6. ASSUME NEW c \in Calls,
               \/ Acquire(c) \/ Stale(c) \/ GiveBack(c) \/ Enqueue(c) \/ Write(c)
               \/ WriteFails(c) \/ SubmitAborts(c) \/ SubmitShuts(c) \/ SubmitDrains(c)
        PROVE  DialInv'
    <2>1. /\ Dialers' = Dialers
          /\ \A d \in Calls : pc'[d] = "awaitDial" => pc[d] = "awaitDial"
      BY <1>6 DEF Acquire, Stale, GiveBack, Enqueue, Write, WriteFails, SubmitAborts,
                  SubmitShuts, SubmitDrains, Goto, Dialers, TypeOK
    <2> QED BY <1>6, <2>1, DialAside
            DEF Acquire, Stale, GiveBack, Enqueue, Write, WriteFails, SubmitAborts,
                SubmitShuts, SubmitDrains, ClearConn
  <1>7. CASE \/ \E c \in Calls, how \in Expiries : Expire(c, how)
             \/ \E g \in Conns : ReaderStep(g) \/ ShardStep(g)
             \/ Close \/ CloseSocket \/ UNCHANGED vars
    <2>1. pc' = pc /\ Dialers' = Dialers
      BY <1>7 DEF Expire, ReaderStep, ReadLine, ReadFails, Deliver, NothingPending,
                  ReaderAborts, ReaderShuts, ReaderDrains, ReaderDrained, ShardStep, Answer,
                  Garble, Reply,
                  Close, CloseSocket, vars, Dialers
    <2>2. CASE Close \/ CloseSocket
      <3>1. /\ dialing' = dialing /\ conn' \in {conn, None}
            /\ closed' => conn' = None
            /\ closing' # None => closed'
        BY <2>2 DEF Close, CloseSocket, DialInv
      <3> QED BY <2>1, <3>1 DEF DialInv, None
    <2> QED BY <1>7, <2>1, <2>2, DialAside
            DEF Expire, ReaderStep, ReadLine, ReadFails, Deliver, NothingPending,
                ReaderAborts, ReaderShuts, ReaderDrains, ReaderDrained, ShardStep, Answer,
                Garble, Reply,
                vars, ClearConn
  <1> QED BY <1>1, <1>2, <1>3, <1>4, <1>5, <1>6, <1>7 DEF Next, CallStep

\* Somebody has g in use or is about to close it.
Owned(g) ==
  \/ conn = g \/ closing = g \/ reader[g] \in {"abort", "shut"}
  \/ \E d \in Calls : mine[d] = g /\ pc[d] \in {"install", "discard", "abort", "shut"}

\* No step leaves an open socket without an owner.
LEMMA SocketStep ==
  TypeOK /\ DialInv /\ LiveSocketIsOwned /\ [Next]_vars => LiveSocketIsOwned'
  <1> SUFFICES ASSUME TypeOK, DialInv, LiveSocketIsOwned, [Next]_vars,
                      NEW g \in Conns, live'[g]
               PROVE  Owned(g)'
    BY DEF LiveSocketIsOwned, Owned, At
  <1>0. live[g] => Owned(g)
    BY DEF LiveSocketIsOwned, Owned, At
  <1> USE DEF connVars, genVars, readVars, netVars, callVars, envVars, Owned
  <1>1. ASSUME NEW c \in Calls, Begin(c) \/ EnsureHave(c) \/ EnsureWait(c)
                 \/ EnsureDial(c) \/ DialOver(c) \/ DialFails(c)
        PROVE  Owned(g)'
    BY <1>0, <1>1 DEF Begin, EnsureHave, EnsureWait, EnsureDial, DialOver, DialFails, Goto,
                      TypeOK
  <1>2. ASSUME NEW c \in Calls, Dial(c)
        PROVE  Owned(g)'
    <2>1. CASE g = dialled + 1
      BY <1>2, <2>1 DEF Dial, Goto, TypeOK
    <2>2. CASE g # dialled + 1
      <3>1. live[g]
        BY <1>2, <2>2 DEF Dial, TypeOK
      <3> QED BY <1>0, <1>2, <3>1 DEF Dial, Goto, TypeOK
    <2> QED BY <2>1, <2>2
  <1>3. ASSUME NEW c \in Calls, Install(c)
        PROVE  Owned(g)'
    <2>1. conn = None /\ conn # g
      BY <1>3 DEF Install, DialInv, Dialers, None, Conns
    <2>2. CASE mine[c] = g
      BY <1>3, <2>2 DEF Install, TypeOK, None, Conns
    <2>3. CASE mine[c] # g
      <3>1. reader'[g] = reader[g] /\ mine' = mine /\ closing' = closing /\ live[g]
        BY <1>3, <2>3 DEF Install, TypeOK
      <3>2. \A d \in Calls : (mine[d] = g /\ pc[d] \in {"install", "discard", "abort", "shut"})
                               => pc'[d] = pc[d]
        BY <1>3, <2>3 DEF Install, TypeOK
      <3> QED BY <1>0, <2>1, <3>1, <3>2
    <2> QED BY <2>2, <2>3
  <1>4. ASSUME NEW c \in Calls, EnsureClosed(c) \/ DialWaitEnds(c) \/ AcquireWaitEnds(c)
                 \/ SubmitDrained(c) \/ WaitEnds(c) \/ Receive(c)
        PROVE  Owned(g)'
    BY <1>0, <1>4 DEF EnsureClosed, DialWaitEnds, AcquireWaitEnds, SubmitDrained, WaitEnds,
                      Receive, ReturnErr, Goto, TypeOK
  <1>5. ASSUME NEW c \in Calls, Discard(c) \/ SubmitShuts(c)
        PROVE  Owned(g)'
    <2>1. live[g] /\ mine[c] # g
      BY <1>5 DEF Discard, SubmitShuts, TypeOK
    <2> QED BY <1>0, <1>5, <2>1 DEF Discard, SubmitShuts, ReturnErr, Goto, TypeOK
  <1>6. ASSUME NEW c \in Calls, Acquire(c) \/ Stale(c) \/ GiveBack(c) \/ Enqueue(c)
                 \/ Write(c) \/ WriteFails(c) \/ SubmitAborts(c) \/ SubmitDrains(c)
        PROVE  Owned(g)'
    BY <1>0, <1>6 DEF Acquire, Stale, GiveBack, Enqueue, Write, WriteFails, SubmitAborts,
                      SubmitDrains, ClearConn, Goto, TypeOK
  <1>7. ASSUME NEW h \in Conns, ReaderStep(h)
        PROVE  Owned(g)'
    <2>1. UNCHANGED <<pc, mine, closing>>
      BY <1>7 DEF ReaderStep, ReadLine, ReadFails, Deliver, NothingPending, ReaderAborts,
                  ReaderShuts, ReaderDrains, ReaderDrained
    <2>2. CASE ReaderShuts(h)
      <3>1. live[g] /\ h # g
        BY <2>2 DEF ReaderShuts, TypeOK
      <3> QED BY <1>0, <2>1, <2>2, <3>1 DEF ReaderShuts, ToReader, TypeOK
    <2>3. CASE ReaderAborts(h)
      BY <1>0, <2>1, <2>3 DEF ReaderAborts, ClearConn, ToReader, TypeOK
    <2>4. CASE \/ ReadLine(h) \/ ReadFails(h) \/ Deliver(h) \/ NothingPending(h)
               \/ ReaderDrains(h) \/ ReaderDrained(h)
      BY <1>0, <2>1, <2>4 DEF ReadLine, ReadFails, Deliver, NothingPending, ReaderDrains,
                              ReaderDrained, ToReader, TypeOK
    <2> QED BY <1>7, <2>2, <2>3, <2>4 DEF ReaderStep
  <1>8. CASE \/ \E c \in Calls, how \in Expiries : Expire(c, how)
             \/ \E h \in Conns : ShardStep(h)
             \/ UNCHANGED vars
    BY <1>0, <1>8 DEF Expire, ShardStep, Answer, Garble, Reply, vars
  <1>9. CASE Close \/ CloseSocket
    <2>1. closing # None => closed
      BY DEF DialInv
    <2> QED BY <1>0, <1>9, <2>1 DEF Close, CloseSocket, TypeOK, None, Conns
  <1> QED BY <1>1, <1>2, <1>3, <1>4, <1>5, <1>6, <1>7, <1>8, <1>9 DEF Next, CallStep

SocketInv == TokenInv /\ DialInv /\ LiveSocketIsOwned

\* There are neither dials nor sockets at first, and every step keeps them owned.
LEMMA SocketInvariant == Spec => []SocketInv
  <1>1. Init => SocketInv
    <2> SUFFICES ASSUME Init PROVE DialInv /\ LiveSocketIsOwned
      BY TokenInvInit DEF SocketInv
    <2>1. Dialers = {}
      BY DEF Init, Dialers
    <2> QED BY <2>1 DEF Init, DialInv, LiveSocketIsOwned, None
  <1>2. SocketInv /\ [Next]_vars => SocketInv'
    <2>1. TokenInv => TypeOK
      BY DEF TokenInv
    <2> QED BY <2>1, TokenInvStep, DialInvStep, SocketStep DEF SocketInv
  <1> QED BY <1>1, <1>2, PTL DEF Spec

\* However many calls find no connection, one of them dials, and the others
\* know it.
THEOREM DialsAreSingle == Spec => []OneDialAtATime
  <1>1. SocketInv => OneDialAtATime
    <2> SUFFICES ASSUME SocketInv PROVE OneDialAtATime
      OBVIOUS
    <2>1. Cardinality(Dialers) = IF dialing THEN 1 ELSE 0
      <3>1. CASE dialing
        <4>1. PICK c \in Calls : Dialers = {c}
          BY <3>1 DEF SocketInv, DialInv
        <4> QED BY <3>1, <4>1, FS_Singleton
      <3>2. CASE ~dialing
        <4>1. Dialers = {}
          BY <3>2 DEF SocketInv, DialInv
        <4> QED BY <3>2, <4>1, FS_EmptySet
      <3> QED BY <3>1, <3>2
    <2> QED BY <2>1 DEF OneDialAtATime, Dialers, SocketInv, DialInv
  <1> QED BY <1>1, SocketInvariant, PTL

\* Neither a reconnect, nor a dial that lost against close(), nor close()
\* itself leaks a socket.
THEOREM SocketsAreOwned == Spec => []LiveSocketIsOwned
  <1>1. SocketInv => LiveSocketIsOwned
    BY DEF SocketInv
  <1> QED BY <1>1, SocketInvariant, PTL

-----------------------------------------------------------------------------
(* Queues *)

Member(x, s) == \E i \in DOMAIN s : s[i] = x

NoRepeat(s) == \A i, j \in DOMAIN s : s[i] = s[j] => i = j

\* The labels of a call that is or was in pending.
Queued == {"write", "wait", "abort", "shut", "drain", "returned"}

\* A call is in the queue of its own connection, once, from Enqueue until it
\* has its result, and as long as a queue is not empty its readLoop runs.
QueueInv ==
  /\ \A g \in Conns : conn = g => reader[g] \in {"read", "match", "abort"}
  /\ \A g \in Conns : pending[g] # <<>> => reader[g] \notin {"off", "done"}
  /\ \A g \in Conns : reader[g] = "match" => line[g] # NoLine
  /\ \A g \in Conns : NoRepeat(pending[g])
  /\ \A g \in Conns, c \in Calls :
        Member(c, pending[g]) => mine[c] = g /\ pc[c] \in Queued
  /\ \A c \in Calls : pc[c] \in Queued \ {"returned"} =>
        result[c] # NoLine \/ Member(c, pending[mine[c]])

\* The oldest entry leaves a queue.
LEMMA TakenFromQueue ==
  ASSUME NEW S, NEW s \in Seq(S), s # <<>>, NoRepeat(s)
  PROVE  /\ NoRepeat(Tail(s))
         /\ \A x : Member(x, Tail(s)) <=> Member(x, s) /\ x # Head(s)
  <1>1. /\ Len(s) \in Nat \ {0} /\ DOMAIN s = 1..Len(s) /\ Head(s) = s[1]
        /\ DOMAIN Tail(s) = 1..(Len(s) - 1)
        /\ \A i \in 1..(Len(s) - 1) : Tail(s)[i] = s[i + 1]
    <2>1. Tail(s) \in Seq(S) /\ Len(Tail(s)) = Len(s) - 1
      OBVIOUS
    <2> QED BY <2>1
  <1>2. NoRepeat(Tail(s))
    BY <1>1 DEF NoRepeat
  <1>3. ASSUME NEW x PROVE Member(x, Tail(s)) <=> Member(x, s) /\ x # Head(s)
    <2>1. ASSUME Member(x, Tail(s)) PROVE Member(x, s) /\ x # Head(s)
      <3>1. PICK i \in 1..(Len(s) - 1) : s[i + 1] = x
        BY <1>1, <2>1 DEF Member
      <3>2. i + 1 \in DOMAIN s /\ i + 1 # 1 /\ 1 \in DOMAIN s
        BY <1>1
      <3> QED BY <1>1, <3>1, <3>2 DEF Member, NoRepeat
    <2>2. ASSUME Member(x, s), x # Head(s) PROVE Member(x, Tail(s))
      <3>1. PICK i \in DOMAIN s : s[i] = x
        BY <2>2 DEF Member
      <3>2. i - 1 \in 1..(Len(s) - 1) /\ (i - 1) + 1 = i
        BY <1>1, <2>2, <3>1
      <3>3. Tail(s)[i - 1] = x
        BY <1>1, <3>1, <3>2
      <3> QED BY <1>1, <3>2, <3>3 DEF Member
    <2> QED BY <2>1, <2>2
  <1> QED BY <1>2, <1>3

\* A new entry joins it.
LEMMA AddedToQueue ==
  ASSUME NEW S, NEW s \in Seq(S), NEW e \in S, NoRepeat(s), ~Member(e, s)
  PROVE  /\ NoRepeat(Append(s, e))
         /\ \A x : Member(x, Append(s, e)) <=> Member(x, s) \/ x = e
  <1> DEFINE t == Append(s, e)
  <1>1. /\ Len(s) \in Nat /\ DOMAIN s = 1..Len(s) /\ DOMAIN t = 1..(Len(s) + 1)
        /\ \A i \in 1..Len(s) : t[i] = s[i]
        /\ t[Len(s) + 1] = e
    BY AppendProperties, LenProperties
  <1> HIDE DEF t
  <1>2. \A i \in DOMAIN t : i \in DOMAIN s \/ i = Len(s) + 1
    BY <1>1
  <1>3. NoRepeat(t)
    BY <1>1, <1>2 DEF NoRepeat, Member
  <1>4. \A x : Member(x, t) <=> Member(x, s) \/ x = e
    <2>1. \A i \in DOMAIN s : i \in DOMAIN t
      BY <1>1
    <2>2. Len(s) + 1 \in DOMAIN t
      BY <1>1
    <2> QED BY <1>1, <1>2, <2>1, <2>2 DEF Member
  <1> QED BY <1>3, <1>4 DEF t

\* A step that leaves queues, readers and results alone, and takes no call in
\* or out of the labels of queued calls.
LEMMA QueueAside ==
  ASSUME QueueInv, UNCHANGED <<pending, reader, line, result>>, conn' \in {conn, None},
         \A d \in Calls : pc[d] \in Queued => pc'[d] \in Queued /\ mine'[d] = mine[d],
         \A d \in Calls : pc'[d] \in Queued \ {"returned"} => pc[d] \in Queued \ {"returned"}
  PROVE  QueueInv'
  BY DEF QueueInv, None, Conns

\* Whoever takes the oldest call out of a queue answers it.
LEMMA QueueTaken ==
  ASSUME TypeOK, QueueInv, NEW g \in Conns, pending[g] # <<>>,
         pending' = [pending EXCEPT ![g] = Tail(@)],
         NEW r, r # NoLine, result' = [result EXCEPT ![Head(pending[g])] = r],
         \A h \in Conns \ {g} : reader'[h] = reader[h] /\ line'[h] = line[h],
         reader'[g] \notin {"off", "done"},
         reader'[g] = "match" => line'[g] # NoLine,
         conn = g => reader'[g] \in {"read", "match", "abort"},
         UNCHANGED <<pc, mine, conn>>
  PROVE  QueueInv'
  <1>1. pending[g] \in Seq(Calls) /\ NoRepeat(pending[g]) /\ Head(pending[g]) \in Calls
    BY DEF TypeOK, QueueInv
  <1>2. /\ NoRepeat(Tail(pending[g]))
        /\ \A x : Member(x, Tail(pending[g])) <=> Member(x, pending[g]) /\ x # Head(pending[g])
    BY <1>1, TakenFromQueue
  <1>3. /\ pending'[g] = Tail(pending[g])
        /\ \A h \in Conns \ {g} : pending'[h] = pending[h]
    BY DEF TypeOK
  <1>4. /\ result'[Head(pending[g])] # NoLine
        /\ \A d \in Calls \ {Head(pending[g])} : result'[d] = result[d]
    BY <1>1 DEF TypeOK
  <1>5. \A h \in Conns : /\ conn = h => reader'[h] \in {"read", "match", "abort"}
                         /\ pending'[h] # <<>> => reader'[h] \notin {"off", "done"}
                         /\ reader'[h] = "match" => line'[h] # NoLine
    BY <1>3 DEF QueueInv
  <1>6. \A h \in Conns : NoRepeat(pending'[h])
    BY <1>2, <1>3 DEF QueueInv
  <1>7. \A h \in Conns, d \in Calls : Member(d, pending'[h]) => mine[d] = h /\ pc[d] \in Queued
    BY <1>2, <1>3 DEF QueueInv
  <1>8. ASSUME NEW d \in Calls, pc[d] \in Queued \ {"returned"}
        PROVE  result'[d] # NoLine \/ Member(d, pending'[mine[d]])
    <2>1. CASE d = Head(pending[g])
      BY <1>4, <2>1
    <2>2. CASE d # Head(pending[g])
      <3>1. result[d] # NoLine \/ Member(d, pending[mine[d]])
        BY <1>8 DEF QueueInv
      <3>2. CASE result[d] # NoLine
        BY <1>4, <2>2, <3>2
      <3>3. CASE Member(d, pending[mine[d]]) /\ mine[d] = g
        BY <1>2, <1>3, <2>2, <3>3
      <3>4. CASE Member(d, pending[mine[d]]) /\ mine[d] # g
        <4>1. pending'[mine[d]] = pending[mine[d]]
          BY <3>4 DEF TypeOK
        <4> QED BY <3>4, <4>1
      <3> QED BY <3>1, <3>2, <3>3, <3>4
    <2> QED BY <2>1, <2>2
  <1> QED BY <1>5, <1>6, <1>7, <1>8 DEF QueueInv

\* A call joins the queue of the current connection, whose readLoop runs.
LEMMA QueueJoined ==
  ASSUME TypeOK, MineIsSet, QueueInv, NEW c \in Calls, Enqueue(c)
  PROVE  QueueInv'
  <1>1. PICK g \in Conns : g = mine[c]
    BY DEF Enqueue, MineIsSet, Connected
  <1>2. ~Member(c, pending[g]) /\ pending[g] \in Seq(Calls) /\ NoRepeat(pending[g])
    BY <1>1 DEF Enqueue, QueueInv, Queued, TypeOK
  <1>3. /\ NoRepeat(Append(pending[g], c))
        /\ \A x : Member(x, Append(pending[g], c)) <=> Member(x, pending[g]) \/ x = c
    BY <1>2, AddedToQueue
  <1>4. /\ pending'[g] = Append(pending[g], c)
        /\ \A h \in Conns \ {g} : pending'[h] = pending[h]
    BY <1>1 DEF Enqueue, TypeOK
  <1>5. /\ pc'[c] = "write" /\ pc[c] = "lock" /\ \A d \in Calls \ {c} : pc'[d] = pc[d]
        /\ UNCHANGED <<conn, reader, line, result, mine>> /\ conn = g
    BY <1>1 DEF Enqueue, Goto, TypeOK, connVars, readVars
  <1>6. \A h \in Conns : /\ conn = h => reader[h] \in {"read", "match", "abort"}
                         /\ pending'[h] # <<>> => reader[h] \notin {"off", "done"}
                         /\ reader[h] = "match" => line[h] # NoLine
    BY <1>4, <1>5 DEF QueueInv
  <1>7. \A h \in Conns : NoRepeat(pending'[h])
    BY <1>3, <1>4 DEF QueueInv
  <1>8. \A h \in Conns, d \in Calls : Member(d, pending'[h]) => mine[d] = h /\ pc'[d] \in Queued
    <2>1. \A h \in Conns, d \in Calls : Member(d, pending[h]) =>
            mine[d] = h /\ pc[d] \in Queued /\ d # c
      BY <1>5 DEF QueueInv, Queued
    <2>2. \A h \in Conns, d \in Calls : Member(d, pending[h]) => mine[d] = h /\ pc'[d] \in Queued
      BY <1>5, <2>1
    <2>3. mine[c] = g /\ pc'[c] \in Queued
      BY <1>1, <1>5 DEF Queued
    <2>4. ASSUME NEW h \in Conns, NEW d \in Calls, Member(d, pending'[h])
          PROVE  mine[d] = h /\ pc'[d] \in Queued
      <3>1. CASE h = g
        BY <1>3, <1>4, <2>2, <2>3, <2>4, <3>1
      <3>2. CASE h # g
        BY <1>4, <2>2, <2>4, <3>2
      <3> QED BY <3>1, <3>2
    <2> QED BY <2>4
  <1>9. ASSUME NEW d \in Calls, pc'[d] \in Queued \ {"returned"}
        PROVE  result[d] # NoLine \/ Member(d, pending'[mine[d]])
    <2>1. CASE d = c
      BY <1>1, <1>3, <1>4, <2>1
    <2>2. CASE d # c
      <3>1. result[d] # NoLine \/ Member(d, pending[mine[d]])
        BY <1>5, <1>9, <2>2 DEF QueueInv
      <3>2. CASE mine[d] = g
        BY <1>3, <1>4, <3>1, <3>2
      <3>3. CASE mine[d] # g
        <4>1. pending'[mine[d]] = pending[mine[d]]
          BY <1>1, <3>3 DEF Enqueue, TypeOK
        <4> QED BY <3>1, <4>1
      <3> QED BY <3>2, <3>3
    <2> QED BY <2>1, <2>2
  <1>10. UNCHANGED <<conn, reader, line, result, mine>>
    BY <1>5
  <1>11. \A h \in Conns : /\ conn' = h => reader'[h] \in {"read", "match", "abort"}
                          /\ pending'[h] # <<>> => reader'[h] \notin {"off", "done"}
                          /\ reader'[h] = "match" => line'[h] # NoLine
    BY <1>6, <1>10
  <1>12. \A h \in Conns, d \in Calls : Member(d, pending'[h]) => mine'[d] = h /\ pc'[d] \in Queued
    BY <1>8, <1>10
  <1>13. \A d \in Calls : pc'[d] \in Queued \ {"returned"} =>
           result'[d] # NoLine \/ Member(d, pending'[mine'[d]])
    BY <1>9, <1>10
  <1> QED BY <1>7, <1>11, <1>12, <1>13 DEF QueueInv

\* Every step keeps the queues.
LEMMA QueueInvStep == TokenInv /\ QueueInv /\ [Next]_vars => QueueInv'
  <1> SUFFICES ASSUME TokenInv, QueueInv, [Next]_vars PROVE QueueInv'
    OBVIOUS
  <1> USE DEF connVars, genVars, readVars, netVars, callVars, envVars
  <1>0. TypeOK /\ MineIsSet
    BY DEF TokenInv
  <1>1. ASSUME NEW c \in Calls,
               \/ Begin(c) \/ EnsureHave(c) \/ EnsureWait(c) \/ EnsureDial(c)
               \/ DialOver(c) \/ Dial(c) \/ DialFails(c)
        PROVE  QueueInv'
    <2>1. /\ \A d \in Calls : pc[d] \in Queued => pc'[d] \in Queued /\ mine'[d] = mine[d]
          /\ \A d \in Calls : pc'[d] \in Queued \ {"returned"} => pc[d] \in Queued \ {"returned"}
      BY <1>0, <1>1 DEF Begin, EnsureHave, EnsureWait, EnsureDial, DialOver, Dial,
                        DialFails, Goto, Queued, TypeOK
    <2> QED BY <1>1, <2>1, QueueAside
            DEF Begin, EnsureHave, EnsureWait, EnsureDial, DialOver, Dial, DialFails
  <1>2. ASSUME NEW c \in Calls,
               \/ EnsureClosed(c) \/ DialWaitEnds(c) \/ Discard(c) \/ AcquireWaitEnds(c)
               \/ SubmitDrained(c) \/ WaitEnds(c) \/ Receive(c)
        PROVE  QueueInv'
    <2>1. /\ \A d \in Calls : pc[d] \in Queued => pc'[d] \in Queued /\ mine'[d] = mine[d]
          /\ \A d \in Calls : pc'[d] \in Queued \ {"returned"} => pc[d] \in Queued \ {"returned"}
      BY <1>0, <1>2 DEF EnsureClosed, DialWaitEnds, Discard, AcquireWaitEnds, SubmitDrained,
                        WaitEnds, Receive, ReturnErr, Goto, Queued, TypeOK
    <2> QED BY <1>2, <2>1, QueueAside
            DEF EnsureClosed, DialWaitEnds, Discard, AcquireWaitEnds, SubmitDrained,
                WaitEnds, Receive
  <1>3. ASSUME NEW c \in Calls,
               \/ Acquire(c) \/ Stale(c) \/ GiveBack(c) \/ Write(c) \/ WriteFails(c)
               \/ SubmitAborts(c) \/ SubmitShuts(c)
        PROVE  QueueInv'
    <2>1. /\ \A d \in Calls : pc[d] \in Queued => pc'[d] \in Queued /\ mine'[d] = mine[d]
          /\ \A d \in Calls : pc'[d] \in Queued \ {"returned"} => pc[d] \in Queued \ {"returned"}
      BY <1>0, <1>3 DEF Acquire, Stale, GiveBack, Write, WriteFails, SubmitAborts,
                        SubmitShuts, Goto, Queued, TypeOK
    <2> QED BY <1>3, <2>1, QueueAside
            DEF Acquire, Stale, GiveBack, Write, WriteFails, SubmitAborts, SubmitShuts,
                ClearConn
  <1>4. ASSUME NEW c \in Calls, Install(c) PROVE QueueInv'
    <2>1. /\ \A d \in Calls : pc[d] \in Queued <=> pc'[d] \in Queued
          /\ \A d \in Calls : pc'[d] \in Queued \ {"returned"} => pc[d] \in Queued \ {"returned"}
          /\ UNCHANGED <<mine, pending, line, result>>
      BY <1>0, <1>4 DEF Install, Queued, TypeOK
    <2>2. \A h \in Conns :
            /\ conn' = h => reader'[h] \in {"read", "match", "abort"}
            /\ reader'[h] \in {reader[h], "read"}
      BY <1>0, <1>4 DEF Install, QueueInv, TypeOK, Conns, None
    <2> QED BY <2>1, <2>2 DEF QueueInv
  <1>5. ASSUME NEW g \in Conns, DrainOne(g), UNCHANGED <<conn, pc, mine, reader, line>>
        PROVE  QueueInv'
    <2>1. Failed # NoLine
      BY ShardConnAssumption
    <2>2. /\ reader[g] \notin {"off", "done"}
          /\ reader[g] = "match" => line[g] # NoLine
          /\ conn = g => reader[g] \in {"read", "match", "abort"}
      BY <1>5 DEF QueueInv, DrainOne
    <2> QED BY <1>0, <1>5, <2>1, <2>2, QueueTaken DEF DrainOne
  <1>6. ASSUME NEW c \in Calls, SubmitDrains(c) PROVE QueueInv'
    <2>1. mine[c] \in Conns
      BY <1>0, <1>6 DEF SubmitDrains, MineIsSet, Connected
    <2> QED BY <1>5, <1>6, <2>1 DEF SubmitDrains
  <1>7. ASSUME NEW g \in Conns, Deliver(g) PROVE QueueInv'
    <2> DEFINE r == IF Decodes(line[g], Head(pending[g])) THEN line[g] ELSE Failed
    <2>1. r # NoLine
      BY <1>7, ShardConnAssumption DEF Deliver, QueueInv
    <2>2. /\ \A h \in Conns \ {g} : reader'[h] = reader[h] /\ line'[h] = line[h]
          /\ reader'[g] \in {"read", "abort"}
      BY <1>0, <1>7 DEF Deliver, ToReader, TypeOK
    <2>3. result' = [result EXCEPT ![Head(pending[g])] = r]
      BY <1>7 DEF Deliver
    <2>4. /\ pending[g] # <<>> /\ pending' = [pending EXCEPT ![g] = Tail(@)]
          /\ UNCHANGED <<pc, mine, conn>>
      BY <1>7 DEF Deliver
    <2> HIDE DEF r
    <2> QED BY <1>0, <2>1, <2>2, <2>3, <2>4, QueueTaken
  <1>8. ASSUME NEW g \in Conns,
               \/ ReadLine(g) \/ ReadFails(g) \/ NothingPending(g) \/ ReaderAborts(g)
               \/ ReaderShuts(g) \/ ReaderDrained(g)
        PROVE  QueueInv'
    <2>1. UNCHANGED <<pending, result, pc, mine>> /\ conn' \in {conn, None}
      BY <1>8 DEF ReadLine, ReadFails, NothingPending, ReaderAborts, ReaderShuts,
                  ReaderDrained, ClearConn
    <2>2. /\ \A h \in Conns \ {g} : reader'[h] = reader[h] /\ line'[h] = line[h]
          /\ reader'[g] = "match" => line'[g] # NoLine
      <3>1. CASE ReadLine(g)
        <4>1. Head(inbox[g]) \in Replies
          BY <1>0, <3>1 DEF ReadLine, TypeOK
        <4> QED BY <1>0, <3>1, <4>1, ShardConnAssumption DEF ReadLine, ToReader, TypeOK
      <3>2. CASE \/ ReadFails(g) \/ NothingPending(g) \/ ReaderAborts(g)
                 \/ ReaderShuts(g) \/ ReaderDrained(g)
        BY <1>0, <3>2 DEF ReadFails, NothingPending, ReaderAborts, ReaderShuts,
                          ReaderDrained, ToReader, TypeOK
      <3> QED BY <1>8, <3>1, <3>2
    <2>3. conn' = g => reader'[g] \in {"read", "match", "abort"}
      <3>1. CASE ReaderAborts(g)
        BY <1>0, <3>1 DEF ReaderAborts, ClearConn, TypeOK, None, Conns
      <3>2. CASE ReadLine(g) \/ ReadFails(g) \/ NothingPending(g)
        BY <1>0, <3>2 DEF ReadLine, ReadFails, NothingPending, ToReader, TypeOK
      <3>3. CASE ReaderShuts(g) \/ ReaderDrained(g)
        BY <1>0, <3>3 DEF ReaderShuts, ReaderDrained, QueueInv
      <3> QED BY <1>8, <3>1, <3>2, <3>3
    <2>4. pending[g] # <<>> => reader'[g] \notin {"off", "done"}
      BY <1>0, <1>8 DEF ReadLine, ReadFails, NothingPending, ReaderAborts, ReaderShuts,
                        ReaderDrained, ToReader, TypeOK
    <2>5. \A h \in Conns : /\ conn' = h => reader'[h] \in {"read", "match", "abort"}
                           /\ pending[h] # <<>> => reader'[h] \notin {"off", "done"}
                           /\ reader'[h] = "match" => line'[h] # NoLine
      BY <2>1, <2>2, <2>3, <2>4 DEF QueueInv, None, Conns
    <2>6. \A d \in Calls : pc'[d] \in Queued \ {"returned"} =>
            result'[d] # NoLine \/ Member(d, pending'[mine'[d]])
      BY <2>1 DEF QueueInv
    <2>7. \A h \in Conns : NoRepeat(pending'[h]) /\ pending'[h] = pending[h]
      BY <2>1 DEF QueueInv
    <2>8. \A h \in Conns, d \in Calls : Member(d, pending'[h]) => mine'[d] = h /\ pc'[d] \in Queued
      BY <2>1 DEF QueueInv
    <2> QED BY <2>5, <2>6, <2>7, <2>8 DEF QueueInv
  <1>9. CASE \/ \E c \in Calls, how \in Expiries : Expire(c, how)
             \/ \E h \in Conns : ShardStep(h)
             \/ Close \/ CloseSocket \/ UNCHANGED vars
    BY <1>9, QueueAside DEF Expire, ShardStep, Answer, Garble, Reply, Close, CloseSocket, vars
  <1>10. ASSUME NEW g \in Conns, ReaderDrains(g) PROVE QueueInv'
    BY <1>5, <1>10 DEF ReaderDrains
  <1>11. ASSUME NEW c \in Calls, Enqueue(c) PROVE QueueInv'
    BY <1>0, <1>11, QueueJoined
  <1> QED BY <1>1, <1>2, <1>3, <1>4, <1>6, <1>7, <1>8, <1>9, <1>10, <1>11
          DEF Next, CallStep, ReaderStep

\* A call that waits has its result or one place in a queue that its readLoop
\* or an abort will serve: no enqueue slips in behind a drain.
THEOREM CallsAreNotStranded == Spec => []NoStrandedCall
  <1> DEFINE I == TokenInv /\ QueueInv
  <1>1. Init => QueueInv
    BY DEF Init, QueueInv, NoRepeat, Member, Queued, None, Conns
  <1>2. I /\ [Next]_vars => I'
    BY TokenInvStep, QueueInvStep
  <1>3. I => NoStrandedCall
    <2> SUFFICES ASSUME I, NEW c \in Calls, pc[c] = "wait", result[c] = NoLine
                 PROVE  \E g \in Conns :
                          /\ Cardinality({i \in DOMAIN pending[g] : pending[g][i] = c}) = 1
                          /\ reader[g] \notin {"off", "done"}
      BY DEF NoStrandedCall
    <2>1. PICK g \in Conns : g = mine[c]
      BY DEF TokenInv, MineIsSet, Connected
    <2>2. Member(c, pending[g]) /\ NoRepeat(pending[g])
      BY <2>1 DEF QueueInv, Queued
    <2>3. PICK k \in DOMAIN pending[g] : pending[g][k] = c
      BY <2>2 DEF Member
    <2>4. {i \in DOMAIN pending[g] : pending[g][i] = c} = {k}
      BY <2>2, <2>3 DEF NoRepeat
    <2>5. Cardinality({k}) = 1
      BY FS_Singleton
    <2>6. pending[g] # <<>>
      BY <2>3
    <2> QED BY <2>4, <2>5, <2>6 DEF QueueInv
  <1> QED BY <1>1, <1>2, <1>3, TokenInvInit, PTL DEF Spec

\* What an answer to call c may say.
Says(c) == {"garbage", "ERR", KeyOf[c]}

\* What decodeResult goes by: a line echoes the key of its request unless it
\* is a bare ERR or garbled, and a call keeps a line that echoes another key
\* than its own only if it is a bare ERR.
EchoInv ==
  /\ \A g \in Conns : line[g] # NoLine => line[g].key \in Says(line[g].of)
  /\ \A g \in Conns : \A i \in DOMAIN inbox[g] :
        inbox[g][i].key \in Says(inbox[g][i].of)
  /\ \A c \in Calls : result[c] \in Replies =>
        result[c].key = "ERR" \/ KeyOf[result[c].of] = KeyOf[c]
  /\ \A c \in Calls : outcome[c] = "ok" => result[c] \in Replies

\* A step that touches neither lines nor results.
LEMMA EchoAside ==
  ASSUME EchoInv, UNCHANGED <<line, inbox, result>>,
         \A c \in Calls : outcome'[c] = "ok" => outcome[c] = "ok"
  PROVE  EchoInv'
  BY DEF EchoInv

\* Every step keeps the echoes.
LEMMA EchoInvStep == TokenInv /\ QueueInv /\ EchoInv /\ [Next]_vars => EchoInv'
  <1> SUFFICES ASSUME TokenInv, QueueInv, EchoInv, [Next]_vars PROVE EchoInv'
    OBVIOUS
  <1> USE DEF connVars, genVars, readVars, netVars, callVars, envVars
  <1>0. TypeOK /\ MineIsSet
    BY DEF TokenInv
  <1>1. Failed \notin Replies /\ NoLine \notin Replies /\ Failed # NoLine
    BY ShardConnAssumption DEF Failed, Replies
  <1>2. ASSUME NEW c \in Calls,
               \/ Begin(c) \/ EnsureHave(c) \/ EnsureWait(c) \/ EnsureDial(c)
               \/ DialOver(c) \/ Dial(c) \/ DialFails(c) \/ Install(c)
               \/ Acquire(c) \/ Stale(c) \/ GiveBack(c) \/ Enqueue(c) \/ Write(c)
               \/ WriteFails(c) \/ SubmitAborts(c) \/ SubmitShuts(c)
        PROVE  EchoInv'
    <2>1. UNCHANGED <<line, inbox, result, outcome>>
      BY <1>2 DEF Begin, EnsureHave, EnsureWait, EnsureDial, DialOver, Dial, DialFails,
                  Install, Acquire, Stale, GiveBack, Enqueue, Write, WriteFails,
                  SubmitAborts, SubmitShuts
    <2> QED BY <2>1, EchoAside
  <1>3. ASSUME NEW c \in Calls,
               \/ EnsureClosed(c) \/ DialWaitEnds(c) \/ Discard(c) \/ AcquireWaitEnds(c)
               \/ SubmitDrained(c) \/ WaitEnds(c)
        PROVE  EchoInv'
    <2>1. \A d \in Calls : outcome'[d] = "ok" => outcome[d] = "ok"
      BY <1>0, <1>3 DEF EnsureClosed, DialWaitEnds, Discard, AcquireWaitEnds,
                        SubmitDrained, WaitEnds, ReturnErr, TypeOK
    <2> QED BY <1>3, <2>1, EchoAside
            DEF EnsureClosed, DialWaitEnds, Discard, AcquireWaitEnds, SubmitDrained, WaitEnds
  <1>4. ASSUME NEW c \in Calls, Receive(c) PROVE EchoInv'
    <2>1. \A d \in Calls : outcome'[d] = "ok" => result[d] \in Replies
      BY <1>0, <1>4 DEF Receive, TypeOK, EchoInv
    <2> QED BY <1>4, <2>1 DEF Receive, EchoInv
  <1>5. ASSUME NEW g \in Conns, DrainOne(g), UNCHANGED <<line, inbox, outcome>> PROVE EchoInv'
    <2>1. \A d \in Calls : /\ result'[d] \in Replies => result'[d] = result[d]
                           /\ result[d] \in Replies => result'[d] = result[d]
      BY <1>0, <1>1, <1>5 DEF DrainOne, TypeOK
    <2> QED BY <1>5, <2>1 DEF EchoInv
  <1>6. ASSUME NEW c \in Calls, SubmitDrains(c) PROVE EchoInv'
    <2>1. mine[c] \in Conns
      BY <1>0, <1>6 DEF SubmitDrains, MineIsSet, Connected
    <2> QED BY <1>5, <1>6, <2>1 DEF SubmitDrains
  <1>7. ASSUME NEW g \in Conns, Deliver(g) PROVE EchoInv'
    <2>1. PICK c \in Calls : c = Head(pending[g])
      BY <1>0, <1>7 DEF Deliver, TypeOK
    <2>2. line[g] # NoLine /\ line[g].key \in Says(line[g].of)
      BY <1>7 DEF Deliver, QueueInv, EchoInv
    <2>3. result[c] = NoLine /\ \A d \in Calls \ {c} : result'[d] = result[d]
      BY <1>0, <1>7, <2>1 DEF Deliver, TypeOK
    <2>4. result'[c] = IF line[g].key \in {KeyOf[c], "ERR"} THEN line[g] ELSE Failed
      BY <1>0, <1>7, <2>1 DEF Deliver, Decodes, TypeOK
    <2>5. \A d \in Calls : result'[d] \in Replies =>
            result'[d].key = "ERR" \/ KeyOf[result'[d].of] = KeyOf[d]
      BY <1>1, <2>2, <2>3, <2>4, ShardConnAssumption DEF EchoInv, Says
    <2>6. \A d \in Calls : outcome'[d] = "ok" => result'[d] \in Replies
      BY <1>1, <1>7, <2>3 DEF Deliver, EchoInv
    <2>7. \A h \in Conns : line'[h] # NoLine => line'[h] = line[h]
      BY <1>0, <1>7 DEF Deliver, TypeOK
    <2> QED BY <1>7, <2>5, <2>6, <2>7 DEF Deliver, EchoInv
  <1>8. ASSUME NEW g \in Conns, ReadLine(g) PROVE EchoInv'
    <2>1. inbox[g] \in Seq(Replies) /\ inbox[g] # <<>>
      BY <1>0, <1>8 DEF ReadLine, TypeOK
    <2>2. /\ 1 \in DOMAIN inbox[g] /\ Head(inbox[g]) = inbox[g][1]
          /\ \A i \in DOMAIN Tail(inbox[g]) : /\ i + 1 \in DOMAIN inbox[g]
                                              /\ Tail(inbox[g])[i] = inbox[g][i + 1]
      BY <2>1
    <2>3. /\ line'[g] = Head(inbox[g]) /\ inbox'[g] = Tail(inbox[g])
          /\ \A h \in Conns \ {g} : line'[h] = line[h] /\ inbox'[h] = inbox[h]
      BY <1>0, <1>8 DEF ReadLine, TypeOK
    <2>4. line'[g].key \in Says(line'[g].of)
      BY <2>2, <2>3 DEF EchoInv
    <2>5. \A i \in DOMAIN inbox'[g] : inbox'[g][i].key \in Says(inbox'[g][i].of)
      BY <2>2, <2>3 DEF EchoInv
    <2>6. /\ \A h \in Conns : line'[h] # NoLine => line'[h].key \in Says(line'[h].of)
          /\ \A h \in Conns : \A i \in DOMAIN inbox'[h] :
               inbox'[h][i].key \in Says(inbox'[h][i].of)
      <3>1. ASSUME NEW h \in Conns, line'[h] # NoLine
            PROVE  line'[h].key \in Says(line'[h].of)
        <4>1. CASE h = g
          BY <2>4, <4>1
        <4>2. CASE h # g
          BY <2>3, <3>1, <4>2 DEF EchoInv
        <4> QED BY <4>1, <4>2
      <3>2. ASSUME NEW h \in Conns, NEW i \in DOMAIN inbox'[h]
            PROVE  inbox'[h][i].key \in Says(inbox'[h][i].of)
        <4>1. CASE h = g
          BY <2>5, <4>1
        <4>2. CASE h # g
          BY <2>3, <4>2 DEF EchoInv
        <4> QED BY <4>1, <4>2
      <3> QED BY <3>1, <3>2
    <2> QED BY <1>8, <2>6 DEF ReadLine, EchoInv
  <1>9. ASSUME NEW g \in Conns,
               ReadFails(g) \/ ReaderAborts(g) \/ ReaderShuts(g) \/ ReaderDrained(g)
        PROVE  EchoInv'
    BY <1>9, EchoAside DEF ReadFails, ReaderAborts, ReaderShuts, ReaderDrained
  <1>10. ASSUME NEW g \in Conns, NothingPending(g) PROVE EchoInv'
    <2>1. \A h \in Conns : line'[h] # NoLine => line'[h] = line[h]
      BY <1>0, <1>10 DEF NothingPending, TypeOK
    <2> QED BY <1>10, <2>1 DEF NothingPending, EchoInv
  <1>11. ASSUME NEW g \in Conns, ReaderDrains(g) PROVE EchoInv'
    BY <1>5, <1>11 DEF ReaderDrains
  <1>12. ASSUME NEW g \in Conns, ShardStep(g) PROVE EchoInv'
    <2>1. PICK c \in Calls : c = Head(wire[g])
      BY <1>0, <1>12, ReplyKeys
    <2>2. PICK k \in Says(c) : Reply(g, k)
      BY <1>0, <1>12, <2>1, ReplyKeys DEF Says
    <2>7. PICK r \in Replies : r.key \in Says(r.of) /\ r = Response(c, k)
      BY DEF Response, Replies, Says
    <2>3. /\ inbox'[g] = Append(inbox[g], r) /\ inbox[g] \in Seq(Replies)
          /\ \A h \in Conns \ {g} : inbox'[h] = inbox[h]
      BY <1>0, <2>1, <2>2, <2>7 DEF Reply, TypeOK
    <2>4. \A i \in DOMAIN inbox'[g] : \/ i \in DOMAIN inbox[g] /\ inbox'[g][i] = inbox[g][i]
                                      \/ inbox'[g][i] = r
      BY <2>3
    <2>6. \A i \in DOMAIN inbox'[g] : inbox'[g][i].key \in Says(inbox'[g][i].of)
      BY <2>7, <2>4 DEF EchoInv
    <2>5. \A h \in Conns : \A i \in DOMAIN inbox'[h] :
            inbox'[h][i].key \in Says(inbox'[h][i].of)
      <3>1. ASSUME NEW h \in Conns, NEW i \in DOMAIN inbox'[h]
            PROVE  inbox'[h][i].key \in Says(inbox'[h][i].of)
        <4>1. CASE h = g
          BY <2>6, <4>1
        <4>2. CASE h # g
          BY <2>3, <4>2 DEF EchoInv
        <4> QED BY <4>1, <4>2
      <3> QED BY <3>1
    <2> QED BY <1>12, <2>5 DEF ShardStep, Answer, Garble, Reply, EchoInv
  <1>13. CASE \/ \E c \in Calls, how \in Expiries : Expire(c, how)
              \/ Close \/ CloseSocket \/ UNCHANGED vars
    BY <1>13, EchoAside DEF Expire, Close, CloseSocket, vars
  <1> QED BY <1>2, <1>3, <1>4, <1>6, <1>7, <1>8, <1>9, <1>10, <1>11, <1>12, <1>13
          DEF Next, CallStep, ReaderStep

-----------------------------------------------------------------------------
(* The order on the wire *)

\* Nobody has used connection g yet.
Unused(g) ==
  /\ pending[g] = <<>> /\ wire[g] = <<>> /\ inbox[g] = <<>> /\ line[g] = NoLine
  /\ reader[g] = "off" /\ conn # g

\* mu outlives a step only during a write; nobody drains the current
\* connection; a connection about to be installed is its dialer's alone.
WireInv ==
  /\ \A c \in Calls : pc[c] = "write" <=> mu = c
  /\ \A g \in Conns : line[g] # NoLine => reader[g] = "match"
  /\ \A g \in Conns : conn = g => At(g, {"shut", "drain"}) = {}
  /\ \A g \in Conns : g > dialled => Unused(g) /\ \A c \in Calls : mine[c] # g
  /\ \A c \in Calls : (pc[c] = "install" /\ mine[c] # None) =>
        Unused(mine[c]) /\ \A d \in Calls \ {c} : mine[d] # mine[c]

\* How a call comes by a connection: the current one, a new one of its own, or
\* none.
LEMMA MineMoves ==
  ASSUME TypeOK, [Next]_vars, NEW c \in Calls
  PROVE  /\ pc[c] = "install" => mine'[c] = mine[c]
         /\ \/ mine'[c] = mine[c] /\ (pc'[c] = "install" => pc[c] = "install")
            \/ mine'[c] = conn /\ pc'[c] = "acquire"
            \/ mine'[c] = None /\ pc'[c] = "install"
            \/ /\ mine'[c] = dialled + 1 /\ dialled + 1 \in Conns /\ dialled' = dialled + 1
               /\ pc[c] = "dial"
               /\ \A d \in Calls \ {c} : mine'[d] = mine[d]
  <1> USE DEF connVars, genVars, readVars, netVars, callVars, envVars
  <1>1. ASSUME NEW d \in Calls, EnsureHave(d)
        PROVE  /\ mine' = [mine EXCEPT ![d] = conn] /\ pc'[d] = "acquire" /\ pc[d] = "ensure"
               /\ \A e \in Calls \ {d} : pc'[e] = pc[e]
    BY <1>1 DEF EnsureHave, Goto, TypeOK
  <1>2. ASSUME NEW d \in Calls, DialFails(d)
        PROVE  /\ mine' = [mine EXCEPT ![d] = None] /\ pc'[d] = "install" /\ pc[d] = "dial"
               /\ \A e \in Calls \ {d} : pc'[e] = pc[e]
    BY <1>2 DEF DialFails, Goto, TypeOK
  <1>3. ASSUME NEW d \in Calls, Dial(d)
        PROVE  /\ mine' = [mine EXCEPT ![d] = dialled + 1] /\ pc'[d] = "install" /\ pc[d] = "dial"
               /\ dialled' = dialled + 1 /\ dialled + 1 \in Conns
               /\ \A e \in Calls \ {d} : pc'[e] = pc[e]
    <2>1. dialled' = dialled + 1 /\ dialled + 1 \in Conns
      BY <1>3, ShardConnAssumption DEF Dial, TypeOK, Conns
    <2> QED BY <1>3, <2>1 DEF Dial, Goto, TypeOK
  <1>4. ASSUME NEW d \in Calls, Install(d)
        PROVE  mine' = mine /\ (pc'[c] = "install" => pc[c] = "install")
    BY <1>4 DEF Install, TypeOK
  <1>5. ASSUME NEW d \in Calls,
               \/ Begin(d) \/ EnsureClosed(d) \/ EnsureWait(d) \/ EnsureDial(d)
               \/ DialOver(d) \/ DialWaitEnds(d) \/ Discard(d)
               \/ Acquire(d) \/ AcquireWaitEnds(d) \/ Stale(d) \/ GiveBack(d) \/ Enqueue(d)
        PROVE  mine' = mine /\ (pc'[c] = "install" => pc[c] = "install")
    BY <1>5 DEF Begin, EnsureClosed, EnsureWait, EnsureDial, DialOver, DialWaitEnds, Discard,
                Acquire, AcquireWaitEnds, Stale, GiveBack, Enqueue, ReturnErr, Goto, TypeOK
  <1>6. ASSUME NEW d \in Calls,
               \/ Write(d) \/ WriteFails(d)
               \/ SubmitAborts(d) \/ SubmitShuts(d) \/ SubmitDrains(d) \/ SubmitDrained(d)
               \/ Receive(d) \/ WaitEnds(d)
        PROVE  mine' = mine /\ (pc'[c] = "install" => pc[c] = "install")
    BY <1>6 DEF Write, WriteFails, SubmitAborts, SubmitShuts, SubmitDrains, SubmitDrained,
                Receive, WaitEnds, ReturnErr, Goto, TypeOK
  <1>7. CASE \/ \E d \in Calls, how \in Expiries : Expire(d, how)
             \/ \E g \in Conns : ReaderStep(g) \/ ShardStep(g)
             \/ Close \/ CloseSocket \/ UNCHANGED vars
    BY <1>7 DEF Expire, ReaderStep, ReadLine, ReadFails, Deliver, NothingPending,
                ReaderAborts, ReaderShuts, ReaderDrains, ReaderDrained, ShardStep, Answer,
                Garble, Reply,
                Close, CloseSocket, vars
  <1>8. ASSUME NEW d \in Calls, EnsureHave(d) \/ DialFails(d)
        PROVE  /\ pc[c] = "install" => mine'[c] = mine[c]
               /\ \/ mine'[c] = mine[c] /\ (pc'[c] = "install" => pc[c] = "install")
                  \/ mine'[c] = conn /\ pc'[c] = "acquire"
                  \/ mine'[c] = None /\ pc'[c] = "install"
    BY <1>1, <1>2, <1>8 DEF TypeOK
  <1>9. ASSUME NEW d \in Calls, Dial(d), d # c
        PROVE  mine'[c] = mine[c] /\ pc'[c] = pc[c]
    BY <1>3, <1>9 DEF TypeOK
  <1>10. ASSUME Dial(c)
         PROVE  /\ mine'[c] = dialled + 1 /\ dialled + 1 \in Conns /\ dialled' = dialled + 1
                /\ pc[c] = "dial"
                /\ \A d \in Calls \ {c} : mine'[d] = mine[d]
    BY <1>3, <1>10 DEF TypeOK
  <1> QED BY <1>4, <1>5, <1>6, <1>7, <1>8, <1>9, <1>10 DEF Next, CallStep

\* A connection nobody has used stays so until its dialer installs it.
LEMMA UnusedStays ==
  ASSUME TypeOK, MineIsSet, [Next]_vars, NEW h \in Conns, Unused(h),
         \A c \in Calls : mine[c] = h => pc[c] = "install" /\ pc'[c] = "install"
  PROVE  Unused(h)'
  <1> USE DEF connVars, genVars, readVars, netVars, callVars, envVars
  <1>0. /\ pending[h] = <<>> /\ wire[h] = <<>> /\ inbox[h] = <<>> /\ line[h] = NoLine
        /\ reader[h] = "off" /\ conn # h /\ h # None
    BY DEF Unused, None, Conns
  <1>1. ASSUME NEW c \in Calls,
               \/ Begin(c) \/ EnsureClosed(c) \/ EnsureHave(c) \/ EnsureWait(c) \/ EnsureDial(c)
               \/ DialOver(c) \/ DialWaitEnds(c) \/ Dial(c) \/ DialFails(c) \/ Discard(c)
               \/ Acquire(c) \/ AcquireWaitEnds(c) \/ Stale(c) \/ GiveBack(c)
        PROVE  Unused(h)'
    <2>1. UNCHANGED <<pending, wire, inbox, line, reader, conn>>
      BY <1>1 DEF Begin, EnsureClosed, EnsureHave, EnsureWait, EnsureDial, DialOver,
                  DialWaitEnds, Dial, DialFails, Discard, Acquire, AcquireWaitEnds, Stale,
                  GiveBack
    <2> QED BY <1>0, <2>1 DEF Unused
  <1>2. ASSUME NEW c \in Calls, Install(c) PROVE Unused(h)'
    <2>1. mine[c] # h
      BY <1>2 DEF Install, TypeOK
    <2>2. reader'[h] = reader[h] /\ conn' # h
      BY <1>0, <1>2, <2>1 DEF Install, TypeOK
    <2> QED BY <1>0, <1>2, <2>2 DEF Install, Unused
  <1>3. ASSUME NEW c \in Calls, Enqueue(c) \/ Write(c) \/ SubmitDrains(c) PROVE Unused(h)'
    <2>1. mine[c] # h
      BY <1>3 DEF Enqueue, Write, SubmitDrains
    <2>2. pending'[h] = pending[h] /\ wire'[h] = wire[h]
      BY <1>3, <2>1 DEF Enqueue, Write, SubmitDrains, DrainOne, TypeOK
    <2> QED BY <1>0, <1>3, <2>2 DEF Enqueue, Write, SubmitDrains, Unused
  <1>4. ASSUME NEW c \in Calls,
               \/ WriteFails(c) \/ SubmitAborts(c) \/ SubmitShuts(c) \/ SubmitDrained(c)
               \/ Receive(c) \/ WaitEnds(c)
        PROVE  Unused(h)'
    <2>1. UNCHANGED <<pending, wire, inbox, line, reader>> /\ conn' \in {conn, None}
      BY <1>4 DEF WriteFails, SubmitAborts, SubmitShuts, SubmitDrained, Receive, WaitEnds,
                  ClearConn
    <2> QED BY <1>0, <2>1 DEF Unused
  <1>5. ASSUME NEW g \in Conns, ReaderStep(g) PROVE Unused(h)'
    <2>1. g # h
      BY <1>0, <1>5 DEF ReaderStep, ReadLine, ReadFails, Deliver, NothingPending,
                        ReaderAborts, ReaderShuts, ReaderDrains, ReaderDrained
    <2>2. conn' \in {conn, None} /\ wire' = wire
      BY <1>5 DEF ReaderStep, ReadLine, ReadFails, Deliver, NothingPending, ReaderAborts,
                  ReaderShuts, ReaderDrains, ReaderDrained, ClearConn
    <2>3. pending'[h] = pending[h] /\ inbox'[h] = inbox[h]
      BY <1>5, <2>1 DEF ReaderStep, ReadLine, ReadFails, Deliver, NothingPending, ReaderAborts,
                        ReaderShuts, ReaderDrains, ReaderDrained, DrainOne, TypeOK
    <2>4. reader'[h] = reader[h] /\ line'[h] = line[h]
      BY <1>5, <2>1 DEF ReaderStep, ReadLine, ReadFails, Deliver, NothingPending, ReaderAborts,
                        ReaderShuts, ReaderDrains, ReaderDrained, ToReader, TypeOK
    <2> QED BY <1>0, <2>2, <2>3, <2>4 DEF Unused
  <1>6. ASSUME NEW g \in Conns, ShardStep(g) PROVE Unused(h)'
    <2>1. g # h
      BY <1>0, <1>6 DEF ShardStep, Answer, Garble, Reply
    <2>2. inbox'[h] = inbox[h] /\ wire'[h] = wire[h]
      BY <1>6, <2>1 DEF ShardStep, Answer, Garble, Reply, TypeOK
    <2> QED BY <1>0, <1>6, <2>2 DEF ShardStep, Answer, Garble, Reply, Unused
  <1>7. CASE \/ \E c \in Calls, how \in Expiries : Expire(c, how)
             \/ Close \/ CloseSocket \/ UNCHANGED vars
    BY <1>0, <1>7 DEF Expire, Close, CloseSocket, vars, Unused
  <1> QED BY <1>1, <1>2, <1>3, <1>4, <1>5, <1>6, <1>7 DEF Next, CallStep

\* mu is held across steps by the call that writes.
LEMMA LockStep ==
  ASSUME TypeOK, WireInv, [Next]_vars
  PROVE  \A c \in Calls : pc'[c] = "write" <=> mu' = c
  <1> USE DEF connVars, genVars, readVars, netVars, callVars, envVars
  <1>0. /\ \A c \in Calls : pc[c] = "write" <=> mu = c
        /\ NoCall \notin Calls
    BY ShardConnAssumption DEF WireInv
  <1>1. ASSUME NEW c \in Calls,
               \/ Begin(c) \/ EnsureHave(c) \/ EnsureWait(c) \/ EnsureDial(c)
               \/ DialOver(c) \/ Dial(c) \/ DialFails(c) \/ Install(c)
        PROVE  \A d \in Calls : pc'[d] = "write" <=> mu' = d
    BY <1>0, <1>1 DEF Begin, EnsureHave, EnsureWait, EnsureDial, DialOver, Dial, DialFails,
                      Install, Goto, TypeOK
  <1>2. ASSUME NEW c \in Calls,
               \/ EnsureClosed(c) \/ DialWaitEnds(c) \/ Discard(c) \/ AcquireWaitEnds(c)
               \/ SubmitDrained(c) \/ WaitEnds(c) \/ Receive(c)
        PROVE  \A d \in Calls : pc'[d] = "write" <=> mu' = d
    BY <1>0, <1>2 DEF EnsureClosed, DialWaitEnds, Discard, AcquireWaitEnds, SubmitDrained,
                      WaitEnds, Receive, ReturnErr, Goto, TypeOK
  <1>3. ASSUME NEW c \in Calls,
               \/ Acquire(c) \/ Stale(c) \/ GiveBack(c) \/ Enqueue(c) \/ Write(c)
               \/ WriteFails(c) \/ SubmitAborts(c) \/ SubmitShuts(c) \/ SubmitDrains(c)
        PROVE  \A d \in Calls : pc'[d] = "write" <=> mu' = d
    BY <1>0, <1>3 DEF Acquire, Stale, GiveBack, Enqueue, Write, WriteFails, SubmitAborts,
                      SubmitShuts, SubmitDrains, Goto, Free, TypeOK
  <1>4. CASE \/ \E d \in Calls, how \in Expiries : Expire(d, how)
             \/ \E g \in Conns : ReaderStep(g) \/ ShardStep(g)
             \/ Close \/ CloseSocket \/ UNCHANGED vars
    BY <1>0, <1>4 DEF Expire, ReaderStep, ReadLine, ReadFails, Deliver, NothingPending,
                      ReaderAborts, ReaderShuts, ReaderDrains, ReaderDrained, ShardStep,
                      Answer, Garble, Reply, Close, CloseSocket, vars
  <1> QED BY <1>1, <1>2, <1>3, <1>4 DEF Next, CallStep

\* A readLoop holds a line only while it matches it.
LEMMA LineStep ==
  ASSUME TypeOK, WireInv, [Next]_vars
  PROVE  \A g \in Conns : line'[g] # NoLine => reader'[g] = "match"
  <1> USE DEF connVars, genVars, readVars, netVars, callVars, envVars
  <1>0. \A g \in Conns : line[g] # NoLine => reader[g] = "match"
    BY DEF WireInv
  <1>1. ASSUME NEW c \in Calls, Install(c)
        PROVE  \A g \in Conns : line'[g] # NoLine => reader'[g] = "match"
    <2>1. mine[c] # None => line[mine[c]] = NoLine
      BY <1>1 DEF Install, WireInv, Unused
    <2> QED BY <1>0, <1>1, <2>1 DEF Install, TypeOK
  <1>2. ASSUME NEW g \in Conns, ReaderStep(g)
        PROVE  \A h \in Conns : line'[h] # NoLine => reader'[h] = "match"
    <2>1. CASE ReadLine(g) \/ Deliver(g) \/ NothingPending(g)
      BY <1>0, <2>1 DEF ReadLine, Deliver, NothingPending, ToReader, TypeOK
    <2>2. CASE \/ ReadFails(g) \/ ReaderAborts(g) \/ ReaderShuts(g) \/ ReaderDrains(g)
               \/ ReaderDrained(g)
      BY <1>0, <2>2 DEF ReadFails, ReaderAborts, ReaderShuts, ReaderDrains, ReaderDrained,
                        ToReader, TypeOK
    <2> QED BY <1>2, <2>1, <2>2 DEF ReaderStep
  <1>3. CASE UNCHANGED <<line, reader>>
    BY <1>0, <1>3
  <1> QED BY <1>1, <1>2, <1>3
          DEF Next, CallStep, Begin, EnsureClosed, EnsureHave, EnsureWait, EnsureDial,
              DialOver, DialWaitEnds, Dial, DialFails, Discard, Acquire, AcquireWaitEnds,
              Stale, GiveBack, Enqueue, Write, WriteFails, SubmitAborts, SubmitShuts,
              SubmitDrains, SubmitDrained, Receive, WaitEnds, Expire, ShardStep, Answer, Garble,
              Reply,
              Close, CloseSocket, vars

\* Whoever closes or drains a connection has taken it out before.
LEMMA OutBeforeDrain ==
  ASSUME TypeOK, MineIsSet, WireInv, [Next]_vars
  PROVE  \A d \in Calls : (pc'[d] \in {"shut", "drain"} /\ mine'[d] \in Conns) => conn' # mine'[d]
  <1> USE DEF connVars, genVars, readVars, netVars, callVars, envVars
  <1> DEFINE Out == \A d \in Calls :
                      (pc[d] \in {"shut", "drain"} /\ mine[d] \in Conns) => conn # mine[d]
  <1>0. Out
    BY DEF WireInv, At
  <1>1. ASSUME NEW c \in Calls,
               \/ Begin(c) \/ EnsureHave(c) \/ EnsureWait(c) \/ EnsureDial(c)
               \/ DialOver(c) \/ Dial(c) \/ DialFails(c)
        PROVE  Out'
    BY <1>0, <1>1 DEF Begin, EnsureHave, EnsureWait, EnsureDial, DialOver, Dial, DialFails,
                      Goto, TypeOK
  <1>2. ASSUME NEW c \in Calls, Install(c) PROVE Out'
    <2>1. mine[c] # None => \A d \in Calls \ {c} : mine[d] # mine[c]
      BY <1>2 DEF Install, WireInv
    <2> QED BY <1>0, <1>2, <2>1 DEF Install, TypeOK
  <1>3. ASSUME NEW c \in Calls,
               \/ EnsureClosed(c) \/ DialWaitEnds(c) \/ Discard(c) \/ AcquireWaitEnds(c)
               \/ SubmitDrained(c) \/ WaitEnds(c) \/ Receive(c)
        PROVE  Out'
    BY <1>0, <1>3 DEF EnsureClosed, DialWaitEnds, Discard, AcquireWaitEnds, SubmitDrained,
                      WaitEnds, Receive, ReturnErr, Goto, TypeOK
  <1>4. ASSUME NEW c \in Calls,
               \/ Acquire(c) \/ Stale(c) \/ GiveBack(c) \/ Enqueue(c) \/ Write(c)
               \/ WriteFails(c) \/ SubmitShuts(c) \/ SubmitDrains(c)
        PROVE  Out'
    BY <1>0, <1>4 DEF Acquire, Stale, GiveBack, Enqueue, Write, WriteFails, SubmitShuts,
                      SubmitDrains, Goto, TypeOK
  <1>5. ASSUME NEW c \in Calls, SubmitAborts(c) PROVE Out'
    BY <1>0, <1>5 DEF SubmitAborts, ClearConn, Goto, TypeOK, None, Conns
  <1>6. CASE \/ \E d \in Calls, how \in Expiries : Expire(d, how)
             \/ \E g \in Conns : ReaderStep(g) \/ ShardStep(g)
             \/ Close \/ CloseSocket \/ UNCHANGED vars
    <2>1. UNCHANGED <<pc, mine>> /\ conn' \in {conn, None}
      BY <1>6 DEF Expire, ReaderStep, ReadLine, ReadFails, Deliver, NothingPending,
                  ReaderAborts, ReaderShuts, ReaderDrains, ReaderDrained, ShardStep, Answer,
                  Garble, Reply,
                  Close, CloseSocket, ClearConn, vars
    <2> QED BY <1>0, <2>1 DEF None, Conns
  <1> QED BY <1>1, <1>2, <1>3, <1>4, <1>5, <1>6 DEF Next, CallStep

\* Every step keeps mu, lines, drains and fresh connections in order.
LEMMA WireInvStep == TypeOK /\ MineIsSet /\ WireInv /\ [Next]_vars => WireInv'
  <1> SUFFICES ASSUME TypeOK, MineIsSet, WireInv, [Next]_vars PROVE WireInv'
    OBVIOUS
  <1>1. \A c \in Calls : pc'[c] = "write" <=> mu' = c
    BY LockStep
  <1>2. \A g \in Conns : line'[g] # NoLine => reader'[g] = "match"
    BY LineStep
  <1>3. \A g \in Conns : conn' = g => At(g, {"shut", "drain"})' = {}
    BY OutBeforeDrain DEF At
  <1>4. dialled \in Nat /\ dialled' \in {dialled, dialled + 1}
    <2>1. \/ \E c \in Calls : Dial(c)
          \/ dialled' = dialled
      <3> USE DEF envVars
      <3>1. ASSUME NEW c \in Calls, Begin(c) \/ CallStep(c), ~Dial(c) PROVE dialled' = dialled
        BY <3>1 DEF CallStep, Begin, EnsureClosed, EnsureHave, EnsureWait, EnsureDial,
                    DialOver, DialWaitEnds, DialFails, Install, Discard, Acquire,
                    AcquireWaitEnds, Stale, GiveBack, Enqueue, Write, WriteFails,
                    SubmitAborts, SubmitShuts, SubmitDrains, SubmitDrained, Receive, WaitEnds
      <3>2. ASSUME NEW g \in Conns, ReaderStep(g) \/ ShardStep(g) PROVE dialled' = dialled
        BY <3>2 DEF ReaderStep, ReadLine, ReadFails, Deliver, NothingPending, ReaderAborts,
                    ReaderShuts, ReaderDrains, ReaderDrained, ShardStep, Answer, Garble, Reply
      <3>3. CASE \/ \E c \in Calls, how \in Expiries : Expire(c, how)
                 \/ Close \/ CloseSocket \/ UNCHANGED vars
        BY <3>3 DEF Expire, Close, CloseSocket, vars
      <3> QED BY <3>1, <3>2, <3>3 DEF Next
    <2> QED BY <2>1 DEF Dial, TypeOK
  <1>5. ASSUME NEW h \in Conns, h > dialled
        PROVE  Unused(h)' /\ Unused(h) /\ \A c \in Calls : mine[c] # h
    BY <1>5, UnusedStays DEF WireInv
  <1>6. ASSUME NEW h \in Conns, h > dialled'
        PROVE  Unused(h)' /\ \A c \in Calls : mine'[c] # h
    <2>1. h > dialled /\ h # None /\ h \in Nat
      BY <1>4, <1>6 DEF Conns, None
    <2>2. conn # h
      BY <1>5, <2>1 DEF Unused
    <2>3. ASSUME NEW c \in Calls PROVE mine'[c] # h
      <3>1. \/ mine'[c] \in {mine[c], conn, None}
            \/ mine'[c] = dialled + 1 /\ dialled' = dialled + 1
        BY MineMoves
      <3>2. mine[c] # h
        BY <1>5, <2>1
      <3> QED BY <1>4, <1>6, <2>1, <2>2, <3>1, <3>2
    <2> QED BY <1>5, <2>1, <2>3
  <1>7. ASSUME NEW c \in Calls, pc'[c] = "install", mine'[c] # None
        PROVE  Unused(mine[c])' /\ \A d \in Calls \ {c} : mine'[d] # mine'[c]
    <2>1. CASE pc[c] = "install"
      <3>1. PICK h \in Conns : h = mine[c] /\ h = mine'[c]
        <4>1. mine'[c] = mine[c]
          BY <2>1, MineMoves
        <4> QED BY <1>7, <4>1 DEF TypeOK, None, Conns
      <3>2. Unused(h) /\ \A d \in Calls \ {c} : mine[d] # h
        BY <2>1, <3>1, <1>7 DEF WireInv
      <3>3. Unused(h)'
        BY <1>7, <2>1, <3>1, <3>2, UnusedStays
      <3>4. conn # h /\ h # None /\ h # dialled + 1
        <4>1. ~(h > dialled)
          BY <1>5, <3>1
        <4> QED BY <1>4, <3>2, <4>1 DEF Unused, None, Conns
      <3>5. ASSUME NEW d \in Calls \ {c} PROVE mine'[d] # h
        BY <3>2, <3>4, MineMoves
      <3> QED BY <3>1, <3>3, <3>5 DEF Unused
    <2>2. CASE pc[c] # "install"
      <3>1. /\ mine'[c] = dialled + 1 /\ dialled + 1 \in Conns
            /\ \A d \in Calls \ {c} : mine'[d] = mine[d]
        BY <1>7, <2>2, MineMoves
      <3>2. PICK h \in Conns : h = dialled + 1
        BY <3>1
      <3>3. Unused(h)' /\ \A d \in Calls : mine[d] # h
        BY <1>4, <1>5, <3>2
      <3> QED BY <3>1, <3>2, <3>3 DEF Unused
    <2> QED BY <2>1, <2>2
  <1> QED BY <1>1, <1>2, <1>3, <1>6, <1>7 DEF WireInv

\* The requests a list of answers stands for.
Ofs(rs) == [i \in DOMAIN rs |-> rs[i].of]

\* The calls on their way through connection g, oldest first.
LineOf(g)  == IF line[g] = NoLine THEN <<>> ELSE <<line[g].of>>
Writing(g) == IF mu # NoCall /\ mine[mu] = g THEN <<mu>> ELSE <<>>
Joined(a, b, c, d) == a \o b \o c \o d
InFront(x, s) == <<x>> \o s
AtEnd(s, x)   == Append(s, x)
Flow(g)    == Joined(LineOf(g), Ofs(inbox[g]), wire[g], Writing(g))

\* A list of answers, one more at its end, one less at its start.
LEMMA OfsProperties ==
  ASSUME NEW rs \in Seq(Replies)
  PROVE  /\ Ofs(rs) \in Seq(Calls)
         /\ \A r \in Replies : Ofs(Append(rs, r)) = Append(Ofs(rs), r.of)
         /\ rs # <<>> => Ofs(rs) = <<Head(rs).of>> \o Ofs(Tail(rs))
  <1>0. \A r \in Replies : r.of \in Calls
    BY DEF Replies
  <1>1. /\ Len(rs) \in Nat /\ DOMAIN rs = 1..Len(rs)
        /\ \A i \in 1..Len(rs) : rs[i] \in Replies /\ rs[i].of \in Calls
    BY <1>0, LenProperties, ElementOfSeq
  <1>2. ASSUME NEW ts \in Seq(Replies) PROVE Ofs(ts) \in Seq(Calls) /\ Len(Ofs(ts)) = Len(ts)
    <2>1. /\ Len(ts) \in Nat /\ DOMAIN ts = 1..Len(ts)
          /\ \A i \in 1..Len(ts) : ts[i].of \in Calls
      BY <1>0, LenProperties, ElementOfSeq
    <2>2. Ofs(ts) \in [1..Len(ts) -> Calls]
      BY <2>1 DEF Ofs
    <2>3. Ofs(ts) \in Seq(Calls)
      BY <2>1, <2>2, SeqDef
    <2> QED BY <2>1, <2>2, <2>3
  <1>3. ASSUME NEW r \in Replies PROVE Ofs(Append(rs, r)) = Append(Ofs(rs), r.of)
    <2>1. Append(rs, r) \in Seq(Replies) /\ r.of \in Calls
      BY AppendProperties DEF Replies
    <2>2. /\ Ofs(Append(rs, r)) \in Seq(Calls)
          /\ Append(Ofs(rs), r.of) \in Seq(Calls)
          /\ Len(Ofs(Append(rs, r))) = Len(rs) + 1
          /\ Len(Append(Ofs(rs), r.of)) = Len(rs) + 1
      <3>1. Ofs(Append(rs, r)) \in Seq(Calls) /\ Len(Ofs(Append(rs, r))) = Len(Append(rs, r))
        BY <1>2, <2>1
      <3>2. Len(Append(rs, r)) = Len(rs) + 1
        BY AppendProperties
      <3>3. Ofs(rs) \in Seq(Calls) /\ Len(Ofs(rs)) = Len(rs)
        BY <1>2
      <3>4. /\ Append(Ofs(rs), r.of) \in Seq(Calls)
            /\ Len(Append(Ofs(rs), r.of)) = Len(Ofs(rs)) + 1
        BY <2>1, <3>3, AppendProperties
      <3> QED BY <3>1, <3>2, <3>3, <3>4
    <2>3. ASSUME NEW i \in 1..(Len(rs) + 1)
          PROVE  Ofs(Append(rs, r))[i] = Append(Ofs(rs), r.of)[i]
      <3>1. Ofs(Append(rs, r))[i] = Append(rs, r)[i].of
        BY <1>1, <2>1 DEF Ofs
      <3>2. CASE i = Len(rs) + 1
        BY <1>2, <2>1, <3>1, <3>2, AppendProperties
      <3>3. CASE i \in 1..Len(rs)
        <4>1. Append(rs, r)[i] = rs[i] /\ Append(Ofs(rs), r.of)[i] = Ofs(rs)[i]
          BY <1>2, <2>1, <3>3, AppendProperties
        <4>2. Ofs(rs)[i] = rs[i].of
          BY <1>1, <3>3 DEF Ofs
        <4> QED BY <3>1, <4>1, <4>2
      <3>4. i = Len(rs) + 1 \/ i \in 1..Len(rs)
        BY <1>1
      <3> QED BY <3>2, <3>3, <3>4
    <2> QED BY <2>2, <2>3, SeqEqual
  <1>4. ASSUME rs # <<>> PROVE Ofs(rs) = <<Head(rs).of>> \o Ofs(Tail(rs))
    <2> DEFINE x == <<Head(rs).of>>
    <2>1. /\ Tail(rs) \in Seq(Replies) /\ Head(rs) = rs[1] /\ Head(rs).of \in Calls
          /\ Len(Tail(rs)) = Len(rs) - 1 /\ Len(rs) >= 1
          /\ \A i \in 1..(Len(rs) - 1) : Tail(rs)[i] = rs[i + 1]
      BY <1>1, <1>4, HeadTailProperties
    <2>2. x \in Seq(Calls) /\ Len(x) = 1 /\ x[1] = Head(rs).of
      BY <2>1
    <2>3. /\ x \o Ofs(Tail(rs)) \in Seq(Calls)
          /\ Len(x \o Ofs(Tail(rs))) = 1 + (Len(rs) - 1)
          /\ \A i \in 1..(1 + (Len(rs) - 1)) : (x \o Ofs(Tail(rs)))[i] =
                 IF i <= 1 THEN x[i] ELSE Ofs(Tail(rs))[i - 1]
      <3> HIDE DEF x
      <3>1. Ofs(Tail(rs)) \in Seq(Calls) /\ Len(Ofs(Tail(rs))) = Len(rs) - 1
        BY <1>2, <2>1
      <3>2. /\ x \o Ofs(Tail(rs)) \in Seq(Calls)
            /\ Len(x \o Ofs(Tail(rs))) = Len(x) + Len(Ofs(Tail(rs)))
            /\ \A i \in 1..(Len(x) + Len(Ofs(Tail(rs)))) : (x \o Ofs(Tail(rs)))[i] =
                 IF i <= Len(x) THEN x[i] ELSE Ofs(Tail(rs))[i - Len(x)]
        BY <2>2, <3>1, ConcatProperties
      <3> QED BY <2>2, <3>1, <3>2
    <2>4. \A i \in 1..(Len(rs) - 1) : Ofs(Tail(rs))[i] = rs[i + 1].of
      BY <1>1, <2>1, LenProperties DEF Ofs
    <2>5. \A i \in 1..Len(rs) : Ofs(rs)[i] = rs[i].of
      BY <1>1 DEF Ofs
    <2> HIDE DEF x
    <2>6. ASSUME NEW i \in 1..Len(rs) PROVE Ofs(rs)[i] = (x \o Ofs(Tail(rs)))[i]
      <3>1. CASE i = 1
        BY <1>1, <2>1, <2>2, <2>3, <2>5, <3>1
      <3>2. CASE i # 1
        <4>1. i - 1 \in 1..(Len(rs) - 1) /\ (i - 1) + 1 = i /\ ~(i <= 1)
              /\ i \in 1..(1 + (Len(rs) - 1))
          BY <1>1, <3>2
        <4>2. (x \o Ofs(Tail(rs)))[i] = Ofs(Tail(rs))[i - 1]
          BY <2>3, <4>1
        <4> QED BY <2>4, <2>5, <4>1, <4>2
      <3> QED BY <3>1, <3>2
    <2>8. 1 + (Len(rs) - 1) = Len(rs)
      BY <1>1
    <2>7. Len(x \o Ofs(Tail(rs))) = Len(rs)
      BY <2>3, <2>8
    <2> DEFINE a == Ofs(rs)
               b == x \o Ofs(Tail(rs))
    <2>9. a \in Seq(Calls) /\ b \in Seq(Calls) /\ Len(a) = Len(b) /\ Len(a) = Len(rs)
      BY <1>2, <2>3, <2>7
    <2>10. \A i \in 1..Len(a) : a[i] = b[i]
      BY <2>6, <2>9
    <2>11. a = b
      <3> HIDE DEF a, b
      <3> QED BY <2>9, <2>10, SeqEqual
    <2> QED BY <2>11 DEF x
  <1> QED BY <1>2, <1>3, <1>4

\* The head of a list with something put in front is what was put there.
LEMMA TailOfCons ==
  ASSUME NEW S, NEW x \in S, NEW s \in Seq(S)
  PROVE  Tail(<<x>> \o s) = s /\ Head(<<x>> \o s) = x /\ <<x>> \o s # <<>>
  <1> DEFINE t == <<x>> \o s
  <1>1. <<x>> \in Seq(S) /\ Len(<<x>>) = 1 /\ Len(s) \in Nat
    OBVIOUS
  <1>2. /\ t \in Seq(S) /\ Len(t) = Len(s) + 1
        /\ \A i \in 1..(1 + Len(s)) : t[i] = IF i <= 1 THEN <<x>>[i] ELSE s[i - 1]
    BY <1>1, ConcatProperties
  <1> HIDE DEF t
  <1>3. t # <<>> /\ Head(t) = x
    BY <1>1, <1>2
  <1>4. /\ Tail(t) \in Seq(S) /\ Len(Tail(t)) = Len(s)
        /\ \A i \in 1..Len(s) : Tail(t)[i] = t[i + 1]
    BY <1>1, <1>2, <1>3, HeadTailProperties
  <1>5. \A i \in 1..Len(s) : Tail(t)[i] = s[i]
    BY <1>1, <1>2, <1>4
  <1> QED BY <1>3, <1>4, <1>5, SeqEqual DEF t

\* The parts of the flow are lists of calls.
LEMMA FlowTypes ==
  ASSUME TypeOK, NEW g \in Conns
  PROVE  /\ LineOf(g) \in Seq(Calls) /\ Ofs(inbox[g]) \in Seq(Calls)
         /\ wire[g] \in Seq(Calls) /\ Writing(g) \in Seq(Calls)
         /\ pending[g] \in Seq(Calls) /\ inbox[g] \in Seq(Replies)
  <1>1. /\ wire[g] \in Seq(Calls) /\ pending[g] \in Seq(Calls)
        /\ inbox[g] \in Seq(Replies) /\ line[g] \in Replies \cup {NoLine}
        /\ mu \in Calls \cup {NoCall}
    BY DEF TypeOK
  <1>2. \A r \in Replies : <<r.of>> \in Seq(Calls)
    BY DEF Replies
  <1>3. LineOf(g) \in Seq(Calls)
    BY <1>1, <1>2 DEF LineOf
  <1>4. Writing(g) \in Seq(Calls)
    BY <1>1 DEF Writing
  <1> QED BY <1>1, <1>3, <1>4, OfsProperties

\* The connections QueueMatchesWire is about.
InOrder(g) == g \notin torn /\ reader[g] \notin {"drain", "done"}

\* A step that leaves everything on its way through g where it is.
LEMMA FlowAside ==
  ASSUME QueueMatchesWire, NEW g \in Conns, InOrder(g),
         pending'[g] = pending[g], line'[g] = line[g], inbox'[g] = inbox[g],
         wire'[g] = wire[g], Writing(g)' = Writing(g)
  PROVE  pending'[g] = Flow(g)'
  <1>1. pending[g] = Flow(g)
    BY DEF QueueMatchesWire, InOrder, Flow, Joined, LineOf, Ofs, Writing
  <1>2. LineOf(g)' = LineOf(g)
    BY DEF LineOf
  <1> QED BY <1>1, <1>2 DEF Flow

\* Concatenation is associative, in the form the next lemmas use.
LEMMA ConcatAssoc ==
  ASSUME NEW s \in Seq(Calls), NEW t \in Seq(Calls), NEW u \in Seq(Calls)
  PROVE  (s \o t) \o u = s \o (t \o u)
  OBVIOUS

\* A request moves into pending behind everything on its way.
LEMMA MoveIn ==
  ASSUME NEW A \in Seq(Calls), NEW B \in Seq(Calls), NEW C \in Seq(Calls), NEW x \in Calls
  PROVE  Append(Joined(A, B, C, <<>>), x) = Joined(A, B, C, <<x>>)
  <1>1. A \o B \in Seq(Calls) /\ A \o B \o C \in Seq(Calls)
    BY ConcatProperties
  <1>2. Joined(A, B, C, <<>>) = A \o B \o C
    BY <1>1, ConcatEmptySeq DEF Joined
  <1> QED BY <1>1, <1>2, AppendIsConcat DEF Joined

\* It moves from the writer onto the wire.
LEMMA MoveOut ==
  ASSUME NEW A \in Seq(Calls), NEW B \in Seq(Calls), NEW C \in Seq(Calls), NEW x \in Calls
  PROVE  Joined(A, B, C, <<x>>) = Joined(A, B, Append(C, x), <<>>)
  <1>1. /\ <<x>> \in Seq(Calls) /\ A \o B \in Seq(Calls) /\ Append(C, x) \in Seq(Calls)
    BY ConcatProperties, AppendProperties
  <1>2. A \o B \o Append(C, x) \in Seq(Calls)
    BY <1>1, ConcatProperties
  <1>3. A \o B \o Append(C, x) \o <<>> = A \o B \o (C \o <<x>>)
    BY <1>2, ConcatEmptySeq, AppendIsConcat
  <1>4. ((A \o B) \o C) \o <<x>> = (A \o B) \o (C \o <<x>>)
    BY <1>1, ConcatAssoc
  <1> QED BY <1>3, <1>4 DEF Joined

\* It comes back from the shard as an answer.
LEMMA MoveBack ==
  ASSUME NEW A \in Seq(Calls), NEW B \in Seq(Calls), NEW C \in Seq(Calls),
         NEW D \in Seq(Calls), NEW x \in Calls
  PROVE  Joined(A, B, InFront(x, C), D) = Joined(A, AtEnd(B, x), C, D)
  <1>1. <<x>> \in Seq(Calls) /\ A \o B \in Seq(Calls)
    BY ConcatProperties
  <1>2. Append(B, x) = B \o <<x>>
    BY AppendIsConcat
  <1>3. A \o (B \o <<x>>) = (A \o B) \o <<x>>
    BY <1>1, ConcatAssoc
  <1>4. ((A \o B) \o <<x>>) \o C = (A \o B) \o (<<x>> \o C)
    BY <1>1, ConcatAssoc
  <1> QED BY <1>2, <1>3, <1>4 DEF Joined, InFront, AtEnd

\* The reader takes the oldest answer for its line.
LEMMA MoveToReader ==
  ASSUME NEW B \in Seq(Calls), NEW C \in Seq(Calls), NEW D \in Seq(Calls), NEW x \in Calls
  PROVE  Joined(<<>>, <<x>> \o B, C, D) = Joined(<<x>>, B, C, D)
  <1>1. <<x>> \o B \in Seq(Calls)
    BY ConcatProperties
  <1> QED BY <1>1, ConcatEmptySeq DEF Joined

\* The line stands for the oldest pending call.
LEMMA LineIsHead ==
  ASSUME NEW B \in Seq(Calls), NEW C \in Seq(Calls), NEW D \in Seq(Calls), NEW x \in Calls
  PROVE  Head(Joined(<<x>>, B, C, D)) = x
  <1>1. /\ <<x>> \in Seq(Calls) /\ B \o C \in Seq(Calls) /\ B \o C \o D \in Seq(Calls)
    BY ConcatProperties
  <1>2. (<<x>> \o B) \o C = <<x>> \o (B \o C)
    BY <1>1, ConcatAssoc
  <1>3. (<<x>> \o (B \o C)) \o D = <<x>> \o (B \o C \o D)
    BY <1>1, ConcatAssoc
  <1>4. Joined(<<x>>, B, C, D) = <<x>> \o (B \o C \o D)
    BY <1>2, <1>3 DEF Joined
  <1> QED BY <1>1, <1>4, TailOfCons

\* The line goes to the oldest pending call, of which there is one.
LEMMA MoveToCall ==
  ASSUME NEW B \in Seq(Calls), NEW C \in Seq(Calls), NEW D \in Seq(Calls), NEW x \in Calls
  PROVE  /\ Joined(<<x>>, B, C, D) # <<>>
         /\ Tail(Joined(<<x>>, B, C, D)) = Joined(<<>>, B, C, D)
  <1>1. /\ <<x>> \in Seq(Calls) /\ B \o C \in Seq(Calls) /\ B \o C \o D \in Seq(Calls)
    BY ConcatProperties
  <1>2. (<<x>> \o B) \o C = <<x>> \o (B \o C)
    BY <1>1, ConcatAssoc
  <1>3. (<<x>> \o (B \o C)) \o D = <<x>> \o (B \o C \o D)
    BY <1>1, ConcatAssoc
  <1>4. Joined(<<x>>, B, C, D) = <<x>> \o (B \o C \o D)
    BY <1>2, <1>3 DEF Joined
  <1>5. /\ Joined(<<x>>, B, C, D) # <<>>
        /\ Tail(Joined(<<x>>, B, C, D)) = B \o C \o D
    BY <1>1, <1>4, TailOfCons
  <1> QED BY <1>5, ConcatEmptySeq DEF Joined

\* Whoever aborts a connection in submit has failed to write on it.
TornInv == \A c \in Calls : pc[c] \in {"abort", "shut", "drain"} => mine[c] \in torn

\* A call on its way to an answer stays on its connection, and a failed write
\* is not forgotten.
LEMMA Settled ==
  ASSUME TypeOK, [Next]_vars
  PROVE  /\ torn \subseteq torn'
         /\ \A c \in Calls : pc[c] \in Queued => pc'[c] \in Queued /\ mine'[c] = mine[c]
  <1> USE DEF connVars, genVars, readVars, netVars, callVars, envVars
  <1> DEFINE Stays == /\ torn \subseteq torn'
                      /\ \A c \in Calls : pc[c] \in Queued =>
                            pc'[c] \in Queued /\ mine'[c] = mine[c]
  <1>1. ASSUME NEW d \in Calls,
               \/ Begin(d) \/ EnsureHave(d) \/ EnsureWait(d) \/ EnsureDial(d)
               \/ DialOver(d) \/ Dial(d) \/ DialFails(d) \/ Install(d)
        PROVE  Stays
    BY <1>1 DEF Begin, EnsureHave, EnsureWait, EnsureDial, DialOver, Dial, DialFails,
                Install, Goto, Queued, TypeOK
  <1>2. ASSUME NEW d \in Calls,
               \/ EnsureClosed(d) \/ DialWaitEnds(d) \/ Discard(d) \/ AcquireWaitEnds(d)
               \/ SubmitDrained(d) \/ WaitEnds(d) \/ Receive(d)
        PROVE  Stays
    BY <1>2 DEF EnsureClosed, DialWaitEnds, Discard, AcquireWaitEnds, SubmitDrained,
                WaitEnds, Receive, ReturnErr, Goto, Queued, TypeOK
  <1>3. ASSUME NEW d \in Calls,
               \/ Acquire(d) \/ Stale(d) \/ GiveBack(d) \/ Enqueue(d) \/ Write(d)
               \/ WriteFails(d) \/ SubmitAborts(d) \/ SubmitShuts(d) \/ SubmitDrains(d)
        PROVE  Stays
    BY <1>3 DEF Acquire, Stale, GiveBack, Enqueue, Write, WriteFails, SubmitAborts,
                SubmitShuts, SubmitDrains, Goto, Queued, TypeOK
  <1>4. CASE \/ \E d \in Calls, how \in Expiries : Expire(d, how)
             \/ \E g \in Conns : ReaderStep(g) \/ ShardStep(g)
             \/ Close \/ CloseSocket \/ UNCHANGED vars
    <2>1. UNCHANGED <<pc, mine, torn>>
      BY <1>4 DEF Expire, ReaderStep, ReadLine, ReadFails, Deliver, NothingPending,
                  ReaderAborts, ReaderShuts, ReaderDrains, ReaderDrained, ShardStep, Answer,
                  Garble, Reply, Close, CloseSocket, vars
    <2> QED BY <2>1
  <1> QED BY <1>1, <1>2, <1>3, <1>4 DEF Next, CallStep

\* Every step leaves aborts to connections with a failed write.
LEMMA TornInvStep == TypeOK /\ TornInv /\ [Next]_vars => TornInv'
  <1> SUFFICES ASSUME TypeOK, TornInv, [Next]_vars, NEW c \in Calls,
                      pc'[c] \in {"abort", "shut", "drain"}
               PROVE  mine'[c] \in torn'
    BY DEF TornInv
  <1> USE DEF connVars, genVars, readVars, netVars, callVars, envVars
  <1>1. pc[c] \in {"abort", "shut", "drain"} \/ WriteFails(c)
    <2>1. ASSUME NEW d \in Calls, Begin(d) \/ CallStep(d), ~WriteFails(c)
          PROVE  pc[c] \in {"abort", "shut", "drain"}
      BY <2>1 DEF CallStep, Begin, EnsureClosed, EnsureHave, EnsureWait, EnsureDial,
                  DialOver, DialWaitEnds, Dial, DialFails, Install, Discard, Acquire,
                  AcquireWaitEnds, Stale, GiveBack, Enqueue, Write, WriteFails,
                  SubmitAborts, SubmitShuts, SubmitDrains, SubmitDrained, Receive, WaitEnds,
                  ReturnErr, Goto, TypeOK
    <2>2. CASE UNCHANGED pc
      BY <2>2
    <2> QED BY <2>1, <2>2
            DEF Next, Expire, ReaderStep, ReadLine, ReadFails, Deliver, NothingPending,
                ReaderAborts, ReaderShuts, ReaderDrains, ReaderDrained, ShardStep, Answer,
                Garble, Reply, Close, CloseSocket, vars
  <1>2. CASE WriteFails(c)
    BY <1>2 DEF WriteFails
  <1>3. CASE pc[c] \in {"abort", "shut", "drain"}
    BY <1>3, Settled DEF TornInv, Queued
  <1> QED BY <1>1, <1>2, <1>3

\* A connection is in order only if it was.
LEMMA InOrderBefore ==
  ASSUME TypeOK, WireInv, [Next]_vars, NEW g \in Conns, InOrder(g)'
  PROVE  InOrder(g)
  <1> USE DEF connVars, genVars, readVars, netVars, callVars, envVars
  <1>1. reader[g] \in {"drain", "done"} => reader'[g] \in {"drain", "done"}
    <2>1. ASSUME NEW c \in Calls, Install(c), reader[g] \in {"drain", "done"}
          PROVE  reader'[g] = reader[g]
      <3>1. g # mine[c]
        BY <2>1 DEF Install, WireInv, Unused, None, Conns
      <3> QED BY <2>1, <3>1 DEF Install, TypeOK
    <2>2. ASSUME NEW h \in Conns, ReaderStep(h), reader[g] \in {"drain", "done"}
          PROVE  reader'[g] \in {"drain", "done"}
      BY <2>2 DEF ReaderStep, ReadLine, ReadFails, Deliver, NothingPending, ReaderAborts,
                  ReaderShuts, ReaderDrains, ReaderDrained, ToReader, TypeOK
    <2>3. CASE UNCHANGED reader
      BY <2>3
    <2> QED BY <2>1, <2>2, <2>3
            DEF Next, CallStep, Begin, EnsureClosed, EnsureHave, EnsureWait, EnsureDial,
                DialOver, DialWaitEnds, Dial, DialFails, Discard, Acquire, AcquireWaitEnds,
                Stale, GiveBack, Enqueue, Write, WriteFails, SubmitAborts, SubmitShuts,
                SubmitDrains, SubmitDrained, Receive, WaitEnds, Expire, ShardStep, Answer,
                Garble, Reply, Close, CloseSocket, vars
  <1> QED BY <1>1, Settled DEF InOrder

\* Every step keeps queue and wire in the same order.
LEMMA QueueWireStep ==
  ASSUME TypeOK, MineIsSet, QueueInv, WireInv, TornInv, QueueMatchesWire, [Next]_vars
  PROVE  QueueMatchesWire'
  <1> SUFFICES ASSUME NEW g \in Conns, InOrder(g)'
               PROVE  pending'[g] = Flow(g)'
    BY DEF QueueMatchesWire, InOrder, Flow, Joined, LineOf, Ofs, Writing
  <1> USE DEF connVars, genVars, readVars, netVars, callVars, envVars
  <1>0. /\ \A c \in Calls : pc[c] = "write" <=> mu = c
        /\ NoCall \notin Calls /\ mu \in Calls \cup {NoCall} /\ g # None
    BY ShardConnAssumption DEF WireInv, TypeOK, None, Conns
  <1>14. /\ LineOf(g) \in Seq(Calls) /\ Ofs(inbox[g]) \in Seq(Calls)
         /\ wire[g] \in Seq(Calls) /\ Writing(g) \in Seq(Calls)
    BY FlowTypes
  <1>15. ASSUME NEW x \in Calls
         PROVE  /\ Joined(<<x>>, Ofs(inbox[g]), wire[g], Writing(g)) # <<>>
                /\ Tail(Joined(<<x>>, Ofs(inbox[g]), wire[g], Writing(g)))
                     = Joined(<<>>, Ofs(inbox[g]), wire[g], Writing(g))
    BY <1>14, MoveToCall, Zenon
  <1>16. InOrder(g)
    BY InOrderBefore
  <1>1. pending[g] = Flow(g)
    BY <1>16 DEF QueueMatchesWire, InOrder, Flow, Joined, LineOf, Ofs, Writing
  <1>2. ASSUME NEW c \in Calls,
               \/ Begin(c) \/ EnsureHave(c) \/ EnsureWait(c) \/ EnsureDial(c)
               \/ DialOver(c) \/ Dial(c) \/ DialFails(c) \/ Acquire(c) \/ Stale(c)
               \/ GiveBack(c) \/ SubmitShuts(c)
        PROVE  pending'[g] = Flow(g)'
    <2>1. UNCHANGED <<pending, line, inbox, wire, mu>>
      BY <1>2 DEF Begin, EnsureHave, EnsureWait, EnsureDial, DialOver, Dial, DialFails,
                  Acquire, Stale, GiveBack, SubmitShuts
    <2>2. mu # NoCall => mine'[mu] = mine[mu]
      BY <1>0, <1>2 DEF Begin, EnsureHave, EnsureWait, EnsureDial, DialOver, Dial,
                        DialFails, Acquire, Stale, GiveBack, SubmitShuts, TypeOK
    <2>3. Writing(g)' = Writing(g)
      BY <2>1, <2>2 DEF Writing
    <2> QED BY <1>16, <2>1, <2>3, FlowAside
  <1>3. ASSUME NEW c \in Calls,
               \/ EnsureClosed(c) \/ DialWaitEnds(c) \/ Discard(c) \/ AcquireWaitEnds(c)
               \/ SubmitDrained(c) \/ WaitEnds(c) \/ Receive(c) \/ SubmitAborts(c)
        PROVE  pending'[g] = Flow(g)'
    <2>1. UNCHANGED <<pending, line, inbox, wire, mu, mine>>
      BY <1>3 DEF EnsureClosed, DialWaitEnds, Discard, AcquireWaitEnds, SubmitDrained,
                  WaitEnds, Receive, SubmitAborts
    <2>2. Writing(g)' = Writing(g)
      BY <2>1 DEF Writing
    <2> QED BY <1>16, <2>1, <2>2, FlowAside
  <1>5. ASSUME NEW c \in Calls, Install(c) PROVE pending'[g] = Flow(g)'
    <2>1. UNCHANGED <<pending, line, inbox, wire, mu, mine>>
      BY <1>5 DEF Install
    <2>2. Writing(g)' = Writing(g)
      BY <2>1 DEF Writing
    <2> QED BY <1>16, <2>1, <2>2, FlowAside
  <1>6. ASSUME NEW c \in Calls, Enqueue(c) PROVE pending'[g] = Flow(g)'
    <2>1. UNCHANGED <<line, inbox, wire, mine>> /\ mu = NoCall /\ mu' = c
      BY <1>6 DEF Enqueue, Free
    <2>2. CASE mine[c] = g
      <3>1. pending'[g] = Append(pending[g], c)
        BY <1>6, <2>2 DEF Enqueue, TypeOK
      <3>2. Writing(g) = <<>> /\ Writing(g)' = <<c>> /\ LineOf(g)' = LineOf(g)
        BY <1>0, <2>1, <2>2 DEF Writing, LineOf
      <3>3. pending[g] = Joined(LineOf(g), Ofs(inbox[g]), wire[g], <<>>)
        BY <1>1, <3>2 DEF Flow
      <3>4. pending'[g] = Joined(LineOf(g), Ofs(inbox[g]), wire[g], <<c>>)
        <4>1. Append(Joined(LineOf(g), Ofs(inbox[g]), wire[g], <<>>), c)
                = Joined(LineOf(g), Ofs(inbox[g]), wire[g], <<c>>)
          BY <1>14, MoveIn, Zenon
        <4> QED BY <3>1, <3>3, <4>1, Zenon
      <3> QED BY <2>1, <3>2, <3>4 DEF Flow
    <2>3. CASE mine[c] # g
      <3>1. Writing(g)' = Writing(g) /\ pending'[g] = pending[g]
        BY <1>0, <1>6, <2>1, <2>3 DEF Enqueue, Writing, TypeOK
      <3> QED BY <1>16, <2>1, <3>1, FlowAside
    <2> QED BY <2>2, <2>3
  <1>7. ASSUME NEW c \in Calls, Write(c) PROVE pending'[g] = Flow(g)'
    <2>1. /\ UNCHANGED <<pending, line, inbox, mine>> /\ mu = c /\ mu' = NoCall
      BY <1>0, <1>7 DEF Write
    <2>2. CASE mine[c] = g
      <3>1. Writing(g) = <<c>> /\ Writing(g)' = <<>> /\ LineOf(g)' = LineOf(g)
        BY <1>0, <2>1, <2>2 DEF Writing, LineOf
      <3>2. wire'[g] = Append(wire[g], c)
        BY <1>7, <2>2 DEF Write, TypeOK
      <3>3. pending[g] = Joined(LineOf(g), Ofs(inbox[g]), wire[g], <<c>>)
        BY <1>1, <3>1 DEF Flow
      <3>4. pending[g] = Joined(LineOf(g), Ofs(inbox[g]), Append(wire[g], c), <<>>)
        BY <1>14, <3>3, MoveOut
      <3> QED BY <2>1, <3>1, <3>2, <3>4 DEF Flow
    <2>3. CASE mine[c] # g
      <3>1. Writing(g)' = Writing(g) /\ wire'[g] = wire[g]
        BY <1>0, <1>7, <2>1, <2>3 DEF Write, Writing, TypeOK
      <3> QED BY <1>16, <2>1, <3>1, FlowAside
    <2> QED BY <2>2, <2>3
  <1>8. ASSUME NEW c \in Calls, WriteFails(c) PROVE pending'[g] = Flow(g)'
    <2>1. /\ UNCHANGED <<pending, line, inbox, wire, mine>> /\ mu = c /\ mu' = NoCall
      BY <1>0, <1>8 DEF WriteFails
    <2>2. mine[c] # g
      BY <1>8 DEF WriteFails, InOrder
    <2>3. Writing(g)' = Writing(g)
      BY <2>1, <2>2 DEF Writing
    <2> QED BY <1>16, <2>1, <2>3, FlowAside
  <1>9. ASSUME NEW c \in Calls, SubmitDrains(c) PROVE pending'[g] = Flow(g)'
    <2>1. UNCHANGED <<line, inbox, wire, mine, mu>>
      BY <1>9 DEF SubmitDrains
    <2>2. mine[c] # g
      BY <1>9, <1>16 DEF SubmitDrains, TornInv, InOrder
    <2>3. pending'[g] = pending[g]
      BY <1>9, <2>2 DEF SubmitDrains, DrainOne, TypeOK
    <2>4. Writing(g)' = Writing(g)
      BY <2>1 DEF Writing
    <2> QED BY <1>16, <2>1, <2>3, <2>4, FlowAside
  <1>10. ASSUME NEW h \in Conns, ReaderStep(h) PROVE pending'[g] = Flow(g)'
    <2>1. UNCHANGED <<wire, mine, mu>>
      BY <1>10 DEF ReaderStep, ReadLine, ReadFails, Deliver, NothingPending,
                   ReaderAborts, ReaderShuts, ReaderDrains, ReaderDrained
    <2>2. Writing(g)' = Writing(g)
      BY <2>1 DEF Writing
    <2>4. CASE h # g
      <3>1. /\ pending'[g] = pending[g] /\ line'[g] = line[g] /\ inbox'[g] = inbox[g]
        BY <1>10, <2>4 DEF ReaderStep, ReadLine, ReadFails, Deliver, NothingPending,
                           ReaderAborts, ReaderShuts, ReaderDrains, ReaderDrained, DrainOne,
                           TypeOK
      <3> QED BY <1>16, <2>1, <2>2, <3>1, FlowAside
    <2>5. CASE h = g /\ (ReadFails(h) \/ ReaderAborts(h) \/ ReaderShuts(h) \/ ReaderDrained(h))
      BY <1>16, <2>1, <2>2, <2>5, FlowAside
         DEF ReadFails, ReaderAborts, ReaderShuts, ReaderDrained
    <2>6. ~(h = g /\ ReaderDrains(h))
      BY <1>16 DEF ReaderDrains, InOrder
    <2>7. CASE h = g /\ ReadLine(h)
      <3>1. line[g] = NoLine
        BY <2>7 DEF ReadLine, WireInv
      <3>2. /\ line'[g] = Head(inbox[g]) /\ inbox'[g] = Tail(inbox[g]) /\ inbox[g] # <<>>
            /\ pending'[g] = pending[g]
        BY <2>7 DEF ReadLine, TypeOK
      <3>3. /\ inbox[g] \in Seq(Replies) /\ Head(inbox[g]) \in Replies
            /\ Tail(inbox[g]) \in Seq(Replies)
        BY <3>2, FlowTypes
      <3>4. PICK x \in Calls : x = Head(inbox[g]).of
        BY <3>3 DEF Replies
      <3>5. LineOf(g) = <<>> /\ LineOf(g)' = <<x>>
        BY <3>1, <3>2, <3>3, <3>4, ShardConnAssumption DEF LineOf
      <3>6. Ofs(inbox[g]) = <<x>> \o Ofs(Tail(inbox[g])) /\ Ofs(Tail(inbox[g])) \in Seq(Calls)
        BY <3>2, <3>3, <3>4, OfsProperties
      <3>7. pending[g] = Joined(<<>>, <<x>> \o Ofs(Tail(inbox[g])), wire[g], Writing(g))
        BY <1>1, <3>5, <3>6 DEF Flow
      <3>8. pending[g] = Joined(<<x>>, Ofs(Tail(inbox[g])), wire[g], Writing(g))
        BY <1>14, <3>6, <3>7, MoveToReader
      <3> QED BY <2>1, <2>2, <3>2, <3>5, <3>8 DEF Flow
    <2>8. ASSUME h = g, reader[g] = "match"
          PROVE  \E x \in Calls :
                   /\ LineOf(g) = <<x>>
                   /\ pending[g] = Joined(<<x>>, Ofs(inbox[g]), wire[g], Writing(g))
      <3>1. line[g] # NoLine /\ line[g] \in Replies
        BY <2>8 DEF QueueInv, TypeOK
      <3>2. line[g].of \in Calls
        BY <3>1 DEF Replies
      <3> QED BY <1>1, <3>1, <3>2 DEF LineOf, Flow
    <2>9. CASE h = g /\ Deliver(h)
      <3>1. PICK x \in Calls : pending[g] = Joined(<<x>>, Ofs(inbox[g]), wire[g], Writing(g))
        BY <2>8, <2>9 DEF Deliver
      <3>2. /\ pending'[g] = Tail(pending[g]) /\ inbox' = inbox /\ line'[g] = NoLine
        BY <2>9 DEF Deliver, TypeOK
      <3>3. LineOf(g)' = <<>>
        BY <3>2 DEF LineOf
      <3>4. Tail(pending[g]) = Joined(<<>>, Ofs(inbox[g]), wire[g], Writing(g))
        <4>1. Tail(Joined(<<x>>, Ofs(inbox[g]), wire[g], Writing(g)))
                = Joined(<<>>, Ofs(inbox[g]), wire[g], Writing(g))
          BY <1>15, Zenon
        <4> QED BY <3>1, <4>1, Zenon
      <3> QED BY <2>1, <2>2, <3>2, <3>3, <3>4 DEF Flow
    <2>10. ~(h = g /\ NothingPending(h))
      <3> SUFFICES ASSUME h = g, NothingPending(h) PROVE FALSE
        OBVIOUS
      <3>1. PICK x \in Calls : pending[g] = Joined(<<x>>, Ofs(inbox[g]), wire[g], Writing(g))
        BY <2>8 DEF NothingPending
      <3>2. pending[g] # <<>>
        <4>1. Joined(<<x>>, Ofs(inbox[g]), wire[g], Writing(g)) # <<>>
          BY <1>15, Zenon
        <4> QED BY <3>1, <4>1, Zenon
      <3> QED BY <3>2 DEF NothingPending
    <2> QED BY <1>10, <2>4, <2>5, <2>6, <2>7, <2>9, <2>10 DEF ReaderStep
  <1>11. ASSUME NEW h \in Conns, ShardStep(h) PROVE pending'[g] = Flow(g)'
    <2>1. UNCHANGED <<pending, line, mine, mu>>
      BY <1>11 DEF ShardStep, Answer, Garble
    <2>2. Writing(g)' = Writing(g) /\ LineOf(g)' = LineOf(g)
      BY <2>1 DEF Writing, LineOf
    <2>3. PICK k \in {KeyOf[c] : c \in Calls} \cup {"ERR", "garbage"} : Reply(h, k)
      BY <1>11, ReplyKeys
    <2>4. CASE h # g
      <3>1. inbox'[g] = inbox[g] /\ wire'[g] = wire[g]
        BY <2>3, <2>4 DEF Reply, TypeOK
      <3> QED BY <1>16, <2>1, <2>2, <3>1, FlowAside
    <2>5. CASE h = g
      <3>1. wire[g] \in Seq(Calls) /\ wire[g] # <<>> /\ wire'[g] = Tail(wire[g])
        BY <2>3, <2>5 DEF Reply, TypeOK
      <3>2. PICK x \in Calls : x = Head(wire[g])
        BY <3>1
      <3>3. PICK r \in Replies : r.of = x /\ r = Response(x, k)
        BY DEF Response, Replies
      <3>4. inbox'[g] = Append(inbox[g], r)
        BY <2>3, <2>5, <3>2, <3>3 DEF Reply, TypeOK
      <3>5. Ofs(inbox'[g]) = Append(Ofs(inbox[g]), x)
        BY <3>3, <3>4, FlowTypes, OfsProperties
      <3>6. wire[g] = <<x>> \o wire'[g]
        BY <3>1, <3>2
      <3>7. wire'[g] \in Seq(Calls)
        BY <3>1
      <3>8. Joined(LineOf(g), Ofs(inbox[g]), wire[g], Writing(g))
              = Joined(LineOf(g), Ofs(inbox'[g]), wire'[g], Writing(g))
        <4>1. wire[g] = InFront(x, wire'[g]) /\ Ofs(inbox'[g]) = AtEnd(Ofs(inbox[g]), x)
          BY <3>5, <3>6 DEF InFront, AtEnd
        <4> QED BY <1>14, <3>7, <4>1, MoveBack
      <3> QED BY <1>1, <2>1, <2>2, <3>8 DEF Flow
    <2> QED BY <2>4, <2>5
  <1>12. CASE \/ \E c \in Calls, how \in Expiries : Expire(c, how)
              \/ Close \/ CloseSocket \/ UNCHANGED vars
    <2>1. UNCHANGED <<pending, line, inbox, wire, mine, mu>>
      BY <1>12 DEF Expire, Close, CloseSocket, vars
    <2>2. Writing(g)' = Writing(g)
      BY <2>1 DEF Writing
    <2> QED BY <1>16, <2>1, <2>2, FlowAside
  <1> QED BY <1>2, <1>3, <1>5, <1>6, <1>7, <1>8, <1>9, <1>10, <1>11, <1>12
          DEF Next, CallStep

\* Order on the connections and everything it rests on.
FlowInv == TokenInv /\ QueueInv /\ WireInv /\ TornInv /\ QueueMatchesWire

LEMMA FlowInvariant == Spec => []FlowInv
  <1>1. Init => FlowInv
    <2>1. Init => QueueInv
      BY DEF Init, QueueInv, NoRepeat, Member, Queued, None, Conns
    <2>2. Init => WireInv /\ TornInv
      BY ShardConnAssumption DEF Init, WireInv, Unused, TornInv, None, Conns
    <2>3. Init => QueueMatchesWire
      BY DEF Init, QueueMatchesWire, None, Conns
    <2> QED BY <2>1, <2>2, <2>3, TokenInvInit DEF FlowInv
  <1>2. FlowInv /\ [Next]_vars => FlowInv'
    <2>1. TokenInv => TypeOK /\ MineIsSet
      BY DEF TokenInv
    <2> QED BY <2>1, TokenInvStep, QueueInvStep, WireInvStep, TornInvStep, QueueWireStep
            DEF FlowInv
  <1> QED BY <1>1, <1>2, PTL DEF Spec

\* Queue order and wire order do not diverge before a write fails: a readLoop
\* that pairs the oldest pending call with the next line pairs it with its own
\* answer.
THEOREM QueueAndWireAgree == Spec => []QueueMatchesWire
  <1>1. FlowInv => QueueMatchesWire
    BY DEF FlowInv
  <1> QED BY <1>1, FlowInvariant, PTL

\* A call that has a line has been through the queue, and the line is its own
\* unless a write has failed on its connection.
OwnInv ==
  \A c \in Calls : result[c] \in Replies =>
    pc[c] \in Queued /\ (result[c].of = c \/ mine[c] \in torn)

\* Every step keeps lines with their calls.
LEMMA OwnInvStep ==
  ASSUME FlowInv, OwnInv, [Next]_vars
  PROVE  OwnInv'
  <1> USE DEF connVars, genVars, readVars, netVars, callVars, envVars
  <1>0. TypeOK /\ QueueInv
    BY DEF FlowInv, TokenInv
  <1>1. Failed \notin Replies /\ NoLine \notin Replies
    BY ShardConnAssumption DEF Failed, Replies
  <1>2. ASSUME \A c \in Calls : result'[c] \in Replies => result'[c] = result[c]
        PROVE  OwnInv'
    BY <1>0, <1>2, Settled DEF OwnInv
  <1>3. ASSUME NEW g \in Conns, DrainOne(g) PROVE OwnInv'
    <2>1. \A c \in Calls : result'[c] \in Replies => result'[c] = result[c]
      BY <1>0, <1>1, <1>3 DEF DrainOne, TypeOK
    <2> QED BY <1>2, <2>1
  <1>4. ASSUME NEW c \in Calls, SubmitDrains(c) PROVE OwnInv'
    <2>1. mine[c] \in Conns
      BY <1>4 DEF SubmitDrains, FlowInv, TokenInv, MineIsSet, Connected
    <2> QED BY <1>3, <1>4, <2>1 DEF SubmitDrains
  <1>5. ASSUME NEW g \in Conns, Deliver(g) PROVE OwnInv'
    <2>1. PICK c \in Calls : c = Head(pending[g])
      BY <1>0, <1>5 DEF Deliver, TypeOK
    <2>2. /\ result'[c] \in {line[g], Failed}
          /\ \A d \in Calls \ {c} : result'[d] = result[d]
      BY <1>0, <1>5, <2>1 DEF Deliver, TypeOK
    <2>3. mine[c] = g /\ pc[c] \in Queued
      <3>1. pending[g] \in Seq(Calls) /\ pending[g] # <<>>
        BY <1>0, <1>5 DEF Deliver, TypeOK
      <3>2. Member(c, pending[g])
        BY <2>1, <3>1 DEF Member
      <3> QED BY <1>0, <3>2 DEF QueueInv
    <2>4. line[g] \in Replies
      BY <1>0, <1>5 DEF Deliver, QueueInv, TypeOK
    <2>5. g \notin torn => line[g].of = c
      <3> SUFFICES ASSUME g \notin torn PROVE line[g].of = c
        OBVIOUS
      <3>1. PICK x \in Calls : x = line[g].of
        BY <2>4 DEF Replies
      <3>2. LineOf(g) = <<x>>
        BY <1>1, <2>4, <3>1 DEF LineOf
      <3>3. pending[g] = Joined(<<x>>, Ofs(inbox[g]), wire[g], Writing(g))
        <4>1. reader[g] = "match"
          BY <1>5 DEF Deliver
        <4> QED BY <3>2, <4>1
                DEF FlowInv, QueueMatchesWire, Flow, Joined, LineOf, Ofs, Writing
      <3>4. Head(pending[g]) = x
        <4>1. /\ Ofs(inbox[g]) \in Seq(Calls) /\ wire[g] \in Seq(Calls)
              /\ Writing(g) \in Seq(Calls)
          BY <1>0, FlowTypes
        <4>2. Head(Joined(<<x>>, Ofs(inbox[g]), wire[g], Writing(g))) = x
          BY <4>1, LineIsHead, Zenon
        <4> QED BY <3>3, <4>2, Zenon
      <3> QED BY <2>1, <3>1, <3>4
    <2>6. UNCHANGED <<pc, mine, torn>>
      BY <1>5 DEF Deliver
    <2> QED BY <1>1, <2>2, <2>3, <2>5, <2>6 DEF OwnInv
  <1>6. CASE UNCHANGED result
    BY <1>2, <1>6
  <1>7. ASSUME NEW g \in Conns, ReaderDrains(g) PROVE OwnInv'
    BY <1>3, <1>7 DEF ReaderDrains
  <1>8. ASSUME NEW c \in Calls, Begin(c) \/ CallStep(c), ~SubmitDrains(c)
        PROVE  UNCHANGED result
    BY <1>8 DEF CallStep, Begin, EnsureClosed, EnsureHave, EnsureWait, EnsureDial, DialOver,
                DialWaitEnds, Dial, DialFails, Install, Discard, Acquire, AcquireWaitEnds,
                Stale, GiveBack, Enqueue, Write, WriteFails, SubmitAborts, SubmitShuts,
                SubmitDrained, Receive, WaitEnds
  <1>9. ASSUME NEW g \in Conns, ReaderStep(g) \/ ShardStep(g), ~Deliver(g), ~ReaderDrains(g)
        PROVE  UNCHANGED result
    BY <1>9 DEF ReaderStep, ReadLine, ReadFails, NothingPending, ReaderAborts, ReaderShuts,
                ReaderDrained, ShardStep, Answer, Garble
  <1>10. CASE \/ \E c \in Calls, how \in Expiries : Expire(c, how)
              \/ Close \/ CloseSocket \/ UNCHANGED vars
    BY <1>6, <1>10 DEF Expire, Close, CloseSocket, vars
  <1> QED BY <1>4, <1>5, <1>6, <1>7, <1>8, <1>9, <1>10 DEF Next

\* A call that succeeds returns the answer to its own request unless a write
\* has failed on its connection, and even then only a bare ERR or an answer
\* about the same key is taken for its own, whatever is lost, garbled, aborted
\* or drained on the way.
THEOREM AnswersReachTheirCalls == Spec => []MatchedResponses
  <1> DEFINE I == FlowInv /\ EchoInv /\ OwnInv
  <1>1. Init => EchoInv /\ OwnInv
    BY ShardConnAssumption DEF Init, EchoInv, OwnInv
  <1>2. I /\ [Next]_vars => EchoInv' /\ OwnInv'
    BY EchoInvStep, OwnInvStep DEF FlowInv
  <1>3. I => MatchedResponses
    BY DEF EchoInv, OwnInv, MatchedResponses
  <1> QED BY <1>1, <1>2, <1>3, FlowInvariant, PTL DEF Spec
=============================================================================
