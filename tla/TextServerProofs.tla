-------------------------- MODULE TextServerProofs --------------------------
(***************************************************************************)
(* The text server for any number of connections and of callers of Close,  *)
(* any scripts, any line limit and any buffer size.                        *)
(***************************************************************************)
EXTENDS TextServer, FiniteSetTheorems, TLAPS

-----------------------------------------------------------------------------
(* The listener *)

\* Whoever makes Accept fail on purpose has set closed before.
ListenInv ==
  /\ \A k \in Closers : closer[k] # "idle" => closed
  /\ main = "discard" => closed
  /\ socket = "closed" => closed
  /\ main = "accept error" => closed \/ broke
  /\ ErrorMeansBroken

\* Nothing is closed or broken at first.
LEMMA ListenInvInit == Init => ListenInv
  BY DEF Init, ListenInv, ErrorMeansBroken

\* Every step keeps that order; connections have no part in it.
LEMMA ListenInvStep == ListenInv /\ [Next]_vars => ListenInv'
  <1> SUFFICES ASSUME ListenInv, [Next]_vars PROVE ListenInv'
    OBVIOUS
  <1> USE DEF ListenInv, ErrorMeansBroken
  <1>1. CASE Bind \/ BindFails \/ Publish \/ Discard
    BY <1>1 DEF Bind, BindFails, Publish, Discard
  <1>2. CASE AcceptOnClosed \/ AcceptFails \/ JudgeError \/ CloseStore
    BY <1>2 DEF AcceptOnClosed, AcceptFails, JudgeError, CloseStore
  <1>3. CASE Exit \/ GCLoopReturns
    BY <1>3 DEF Exit, GCLoopReturns
  <1>4. ASSUME NEW k \in Closers, Close(k) \/ CloseListener(k) PROVE ListenInv'
    BY <1>4 DEF Close, CloseListener
  <1>5. CASE UNCHANGED listenVars
    BY <1>5 DEF listenVars
  <1> QED BY <1>1, <1>2, <1>3, <1>4, <1>5
          DEF Next, MainStep, ConnStep, Accept, Fill, ReadRest, ReadFull, ReadEOF,
              ReadDeadline, Dispatch, Flush, FlushFails, PeerChanges, vars

\* ListenAndServe returns an error only if net.Listen or Accept failed by
\* itself, wherever Close falls and however many call it.
THEOREM ErrorsAreGenuine == Spec => []ErrorMeansBroken
  <1>1. ListenInv => ErrorMeansBroken
    BY DEF ListenInv
  <1> QED BY <1>1, ListenInvInit, ListenInvStep, PTL DEF Spec

-----------------------------------------------------------------------------
(* Scripts, line by line *)

\* A line has at least its newline or one byte.
LEMMA LineLength ==
  ASSUME NEW s \in Seq(Line), NEW i \in Nat \ {0}, i <= Len(s)
  PROVE  s[i] \in Line /\ s[i].len \in Nat \ {0}
  <1>1. s[i] \in Line
    OBVIOUS
  <1> QED BY <1>1 DEF Line

\* Induction up to a bound: a set that holds 0 and, below m, the successor of
\* each of its members holds 0..m.  Of the initial segments that end outside of
\* it one would be smallest, for strict inclusion of finite sets is well-founded.
LEMMA LineInduction ==
  ASSUME NEW m \in Nat, NEW P, 0 \in P, \A n \in 1..m : n - 1 \in P => n \in P
  PROVE  0..m \subseteq P
  <1> DEFINE R == StrictSubsetOrdering(Nat)
             U == {0..n : n \in {k \in 0..m : k \notin P}}
  <1> SUFFICES ASSUME NEW z \in 0..m, z \notin P PROVE FALSE
    OBVIOUS
  <1>1. IsWellFoundedOn(R, FiniteSubsetsOf(Nat))
    BY FS_StrictSubsetOrderingWellFounded
  <1>2. U \subseteq FiniteSubsetsOf(Nat) /\ 0..z \in U
    <2>1. ASSUME NEW n \in 0..m PROVE 0..n \subseteq Nat /\ IsFiniteSet(0..n)
      BY FS_Interval
    <2> QED BY <2>1 DEF FiniteSubsetsOf
  <1>3. PICK X \in U : \A Y \in U : ~(<<Y, X>> \in R)
    <2>1. U # {}
      BY <1>2
    <2> HIDE DEF R, U
    <2> QED BY <1>1, <1>2, <2>1, WFMin
  <1>4. PICK k \in 0..m : k \notin P /\ X = 0..k
    BY <1>3
  <1>5. k \in 1..m /\ k - 1 \in 0..m
    BY <1>4
  <1>6. k - 1 \notin P
    BY <1>4, <1>5
  <1>7. 0..(k-1) \in U
    BY <1>5, <1>6
  <1>8. 0..(k-1) \in SUBSET Nat /\ 0..k \in SUBSET Nat /\ 0..(k-1) \subseteq 0..k /\ 0..(k-1) # 0..k
    <2>1. k \in 0..k /\ k \notin 0..(k-1)
      BY <1>5
    <2> QED BY <1>5, <2>1
  <1>9. <<0..(k-1), 0..k>> \in R
    BY <1>8 DEF StrictSubsetOrdering
  <1> QED BY <1>3, <1>4, <1>7, <1>9

\* h counts the bytes of the first m lines of s.
IsBytes(s, m, h) == h = [n \in 0..m |-> IF n = 0 THEN 0 ELSE h[n-1] + s[n].len]

\* The recursion of Bytes has a solution.
LEMMA BytesExist ==
  ASSUME NEW s, NEW m \in Nat
  PROVE  \E h : IsBytes(s, m, h)
  <1> DEFINE P == {k \in Nat : \E h : IsBytes(s, k, h)}
  <1>1. 0 \in P
    <2> DEFINE h == [n \in 0..0 |-> 0]
    <2>1. h = [n \in 0..0 |-> IF n = 0 THEN 0 ELSE h[n-1] + s[n].len]
      OBVIOUS
    <2>2. IsBytes(s, 0, h)
      BY <2>1 DEF IsBytes
    <2> QED BY <2>2
  <1>2. ASSUME NEW k \in 1..m, k - 1 \in P PROVE k \in P
    <2>1. PICK p : IsBytes(s, k-1, p)
      BY <1>2
    <2> DEFINE h == [n \in 0..k |-> IF n = k THEN p[n-1] + s[n].len ELSE p[n]]
    <2>2. ASSUME NEW n \in 0..k
          PROVE  h[n] = IF n = 0 THEN 0 ELSE h[n-1] + s[n].len
      <3>1. CASE n = 0
        <4>1. n \in 0..(k-1) /\ n # k
          BY <3>1
        <4>2. p[n] = 0
          BY <2>1, <3>1, <4>1 DEF IsBytes
        <4> QED BY <3>1, <4>1, <4>2
      <3>2. CASE n # 0
        <4>1. h[n-1] = p[n-1]
          BY <3>2
        <4>2. CASE n = k
          BY <3>2, <4>1, <4>2
        <4>3. CASE n # k
          <5>1. n \in 0..(k-1)
            BY <4>3
          <5>2. p[n] = p[n-1] + s[n].len
            BY <2>1, <3>2, <5>1 DEF IsBytes
          <5> QED BY <3>2, <4>1, <4>3, <5>2
        <4> QED BY <4>2, <4>3
      <3> QED BY <3>1, <3>2
    <2>3. IsBytes(s, k, h)
      <3>1. h = [n \in 0..k |-> h[n]]
        OBVIOUS
      <3> HIDE DEF h
      <3>2. h = [n \in 0..k |-> IF n = 0 THEN 0 ELSE h[n-1] + s[n].len]
        BY <2>2, <3>1
      <3> QED BY <3>2 DEF IsBytes
    <2> HIDE DEF h
    <2> QED BY <2>3
  <1>3. 0..m \subseteq P
    <2> HIDE DEF P
    <2> QED BY <1>1, <1>2, LineInduction
  <1> QED BY <1>3

\* Bytes unfolds line by line.
LEMMA BytesUnfold ==
  ASSUME NEW s \in Seq(Line)
  PROVE  Bytes(s)[0] = 0 /\ \A n \in 1..Len(s) : Bytes(s)[n] = Bytes(s)[n-1] + s[n].len
  <1> DEFINE b == Bytes(s)
  <1>0. Len(s) \in Nat
    OBVIOUS
  <1>1. b = CHOOSE h : IsBytes(s, Len(s), h)
    BY DEF Bytes, IsBytes
  <1>2. IsBytes(s, Len(s), b)
    BY <1>0, <1>1, BytesExist
  <1> HIDE DEF b
  <1>3. b = [n \in 0..Len(s) |-> IF n = 0 THEN 0 ELSE b[n-1] + s[n].len]
    BY <1>2 DEF IsBytes
  <1>4. b[0] = 0 /\ \A n \in 1..Len(s) : b[n] = b[n-1] + s[n].len
    BY <1>0, <1>3
  <1> QED BY <1>4 DEF b

\* They are natural numbers.
LEMMA BytesType ==
  ASSUME NEW s \in Seq(Line)
  PROVE  \A n \in 0..Len(s) : Bytes(s)[n] \in Nat
  <1> DEFINE b == Bytes(s)
             P == {n \in Nat : b[n] \in Nat}
  <1>1. b[0] = 0 /\ \A n \in 1..Len(s) : b[n] = b[n-1] + s[n].len
    BY BytesUnfold
  <1>2. Len(s) \in Nat /\ \A n \in 1..Len(s) : s[n].len \in Nat
    BY LineLength
  <1> HIDE DEF b
  <1>3. 0 \in P
    BY <1>1
  <1>4. ASSUME NEW n \in 1..Len(s), n - 1 \in P PROVE n \in P
    BY <1>1, <1>2, <1>4
  <1>5. 0..Len(s) \subseteq P
    <2> HIDE DEF P
    <2> QED BY <1>2, <1>3, <1>4, LineInduction
  <1> QED BY <1>5 DEF b

\* More lines have no fewer bytes.
LEMMA BytesGrow ==
  ASSUME NEW s \in Seq(Line), NEW m \in 0..Len(s)
  PROVE  Bytes(s)[m] <= Bytes(s)[Len(s)]
  <1> DEFINE b == Bytes(s)
             d == Len(s) - m
             P == {j \in Nat : b[m] <= b[m + j]}
  <1>1. \A n \in 1..Len(s) : b[n] = b[n-1] + s[n].len
    BY BytesUnfold
  <1>2. \A n \in 0..Len(s) : b[n] \in Nat
    BY BytesType
  <1>3. Len(s) \in Nat /\ \A n \in 1..Len(s) : s[n].len \in Nat
    BY LineLength
  <1> HIDE DEF b
  <1>4. 0 \in P /\ d \in Nat
    BY <1>2, <1>3
  <1>5. ASSUME NEW j \in 1..d, j - 1 \in P PROVE j \in P
    <2>1. m + j \in 1..Len(s) /\ m + (j - 1) = (m + j) - 1 /\ m + (j - 1) \in 0..Len(s)
      BY <1>3
    <2>2. b[m + j] = b[m + (j - 1)] + s[m + j].len
      BY <1>1, <2>1
    <2>3. s[m + j].len \in Nat /\ b[m + (j - 1)] \in Nat /\ b[m + j] \in Nat /\ b[m] \in Nat
      BY <1>2, <1>3, <2>1
    <2>4. b[m] <= b[m + (j - 1)]
      BY <1>5
    <2>5. b[m] <= b[m + j]
      BY <2>2, <2>3, <2>4
    <2> QED BY <2>5
  <1>6. d \in P
    <2>1. 0..d \subseteq P
      <3> HIDE DEF P, d
      <3> QED BY <1>4, <1>5, LineInduction
    <2>2. d \in 0..d
      BY <1>4
    <2> HIDE DEF P, d
    <2> QED BY <2>1, <2>2
  <1>7. m + d = Len(s)
    BY <1>3
  <1> QED BY <1>6, <1>7 DEF b

Answers ==
  {"", "ERROR line too long", "ERROR missing version", "OK 1", "ERROR unsupported version",
   "RESULT", "PONG", "STATS", "ERROR unknown command"}

\* Every command has its answer.
LEMMA DispatchType == ASSUME NEW cmd PROVE dispatch(cmd) \in Answers
  <1>1. CASE cmd \in {"HELLO", "HELLO 1", "HELLO 2"}
    BY <1>1 DEF dispatch, handleHello, Answers
  <1>2. CASE cmd \in {"THROTTLE", "PING", "STATS"}
    BY <1>2 DEF dispatch, Answers
  <1>3. CASE cmd \notin {"HELLO", "HELLO 1", "HELLO 2", "THROTTLE", "PING", "STATS"}
    BY <1>3 DEF dispatch, Answers
  <1> QED BY <1>1, <1>2, <1>3

\* h lists the answers owed for the first m lines of s.
IsOwed(s, m, h) ==
  h = [n \in 0..m |-> IF n = 0 THEN <<>>
                      ELSE IF \E i \in 1..(n-1) : Ends(s[i]) THEN h[n-1]
                      ELSE h[n-1] \o AnswersTo(s[n])]

\* One more line.
OwedStep(s, n, p) == IF \E i \in 1..(n-1) : Ends(s[i]) THEN p ELSE p \o AnswersTo(s[n])

\* The recursion of OwedUpTo has a solution.
LEMMA OwedExists ==
  ASSUME NEW s, NEW m \in Nat
  PROVE  \E h : IsOwed(s, m, h)
  <1> DEFINE P == {k \in Nat : \E h : IsOwed(s, k, h)}
  <1>1. 0 \in P
    <2> DEFINE h == [n \in 0..0 |-> <<>>]
    <2>1. h = [n \in 0..0 |-> IF n = 0 THEN <<>> ELSE OwedStep(s, n, h[n-1])]
      OBVIOUS
    <2>2. IsOwed(s, 0, h)
      BY <2>1 DEF IsOwed, OwedStep
    <2> QED BY <2>2
  <1>2. ASSUME NEW k \in 1..m, k - 1 \in P PROVE k \in P
    <2>1. PICK p : IsOwed(s, k-1, p)
      BY <1>2
    <2> DEFINE h == [n \in 0..k |-> IF n = k THEN OwedStep(s, n, p[n-1]) ELSE p[n]]
    <2>2. ASSUME NEW n \in 0..k
          PROVE  h[n] = IF n = 0 THEN <<>> ELSE OwedStep(s, n, h[n-1])
      <3>1. CASE n = 0
        <4>1. n \in 0..(k-1) /\ n # k
          BY <3>1
        <4>2. p[n] = <<>>
          BY <2>1, <3>1, <4>1 DEF IsOwed
        <4> QED BY <3>1, <4>1, <4>2
      <3>2. CASE n # 0
        <4>1. h[n-1] = p[n-1]
          BY <3>2
        <4>2. CASE n = k
          BY <3>2, <4>1, <4>2
        <4>3. CASE n # k
          <5>1. n \in 0..(k-1)
            BY <4>3
          <5>2. p[n] = OwedStep(s, n, p[n-1])
            BY <2>1, <3>2, <5>1 DEF IsOwed, OwedStep
          <5> QED BY <3>2, <4>1, <4>3, <5>2
        <4> QED BY <4>2, <4>3
      <3> QED BY <3>1, <3>2
    <2>3. IsOwed(s, k, h)
      <3>1. h = [n \in 0..k |-> h[n]]
        OBVIOUS
      <3> HIDE DEF h
      <3>2. h = [n \in 0..k |-> IF n = 0 THEN <<>> ELSE OwedStep(s, n, h[n-1])]
        BY <2>2, <3>1
      <3> QED BY <3>2 DEF IsOwed, OwedStep
    <2> HIDE DEF h
    <2> QED BY <2>3
  <1>3. 0..m \subseteq P
    <2> HIDE DEF P
    <2> QED BY <1>1, <1>2, LineInduction
  <1> QED BY <1>3

\* OwedUpTo unfolds line by line.
LEMMA OwedUnfolds ==
  ASSUME NEW s \in Seq(Line)
  PROVE  /\ OwedUpTo(s)[0] = <<>>
         /\ \A n \in 1..Len(s) : OwedUpTo(s)[n] = OwedStep(s, n, OwedUpTo(s)[n-1])
  <1> DEFINE o == OwedUpTo(s)
  <1>0. Len(s) \in Nat
    OBVIOUS
  <1>1. o = CHOOSE h : IsOwed(s, Len(s), h)
    BY DEF OwedUpTo, IsOwed
  <1>2. IsOwed(s, Len(s), o)
    BY <1>0, <1>1, OwedExists
  <1> HIDE DEF o
  <1>3. o = [n \in 0..Len(s) |-> IF n = 0 THEN <<>> ELSE OwedStep(s, n, o[n-1])]
    BY <1>2 DEF IsOwed, OwedStep
  <1>4. o[0] = <<>> /\ \A n \in 1..Len(s) : o[n] = OwedStep(s, n, o[n-1])
    BY <1>0, <1>3
  <1> QED BY <1>4 DEF o

\* A line has at most one answer.
LEMMA AnswersToType ==
  ASSUME NEW l
  PROVE  AnswersTo(l) \in Seq(Answers)
  <1>1. <<>> \in Seq(Answers) /\ \A a \in Answers : <<a>> \in Seq(Answers)
    OBVIOUS
  <1>2. "ERROR line too long" \in Answers /\ dispatch(l.cmd) \in Answers
    BY DispatchType DEF Answers
  <1> QED BY <1>1, <1>2 DEF AnswersTo

\* So they are lists of answers.
LEMMA OwedType ==
  ASSUME NEW s \in Seq(Line)
  PROVE  \A n \in 0..Len(s) : OwedUpTo(s)[n] \in Seq(Answers)
  <1> DEFINE o == OwedUpTo(s)
             P == {n \in Nat : o[n] \in Seq(Answers)}
  <1>1. o[0] = <<>> /\ \A n \in 1..Len(s) : o[n] = OwedStep(s, n, o[n-1])
    BY OwedUnfolds
  <1> HIDE DEF o
  <1>2. 0 \in P /\ Len(s) \in Nat
    <2>1. o[0] \in Seq(Answers)
      BY <1>1
    <2> QED BY <2>1
  <1>3. ASSUME NEW n \in 1..Len(s), n - 1 \in P PROVE n \in P
    <2>1. AnswersTo(s[n]) \in Seq(Answers) /\ o[n-1] \in Seq(Answers)
      BY <1>3, AnswersToType
    <2>2. o[n-1] \o AnswersTo(s[n]) \in Seq(Answers)
      BY <2>1
    <2>3. OwedStep(s, n, o[n-1]) \in Seq(Answers)
      BY <2>1, <2>2 DEF OwedStep
    <2> QED BY <1>1, <2>3
  <1>4. 0..Len(s) \subseteq P
    <2> HIDE DEF P
    <2> QED BY <1>2, <1>3, LineInduction
  <1> QED BY <1>4 DEF o

\* q goes on where p ends.
Begins(p, q) == Len(p) <= Len(q) /\ \A i \in 1..Len(p) : p[i] = q[i]

\* More lines are owed the same answers first.
LEMMA OwedGrows ==
  ASSUME NEW s \in Seq(Line), NEW m \in 0..Len(s)
  PROVE  Begins(OwedUpTo(s)[m], Owed(s))
  <1> DEFINE o == OwedUpTo(s)
             d == Len(s) - m
             P == {j \in Nat : Begins(o[m], o[m + j])}
  <1>1. \A n \in 1..Len(s) : o[n] = OwedStep(s, n, o[n-1])
    BY OwedUnfolds
  <1>2. \A n \in 0..Len(s) : o[n] \in Seq(Answers)
    BY OwedType
  <1>3. Len(s) \in Nat
    OBVIOUS
  <1> HIDE DEF o
  <1>4. 0 \in P /\ d \in Nat
    BY <1>2, <1>3 DEF Begins
  <1>5. ASSUME NEW j \in 1..d, j - 1 \in P PROVE j \in P
    <2> DEFINE n == m + j
               x == o[m + (j - 1)]
               a == AnswersTo(s[n])
    <2>1. n \in 1..Len(s) /\ m + (j - 1) = n - 1 /\ m + (j - 1) \in 0..Len(s)
      BY <1>3
    <2>2. o[n] = OwedStep(s, n, x)
      BY <1>1, <2>1
    <2>3. x \in Seq(Answers) /\ a \in Seq(Answers) /\ o[m] \in Seq(Answers)
      BY <1>2, <2>1, AnswersToType
    <2>4. Begins(o[m], x)
      BY <1>5
    <2> HIDE DEF x, a
    <2>5. Begins(o[m], x \o a)
      BY <2>3, <2>4 DEF Begins
    <2>6. Begins(o[m], o[n])
      BY <2>2, <2>4, <2>5 DEF OwedStep, a
    <2> QED BY <2>6
  <1>6. d \in P
    <2>1. 0..d \subseteq P
      <3> HIDE DEF P, d
      <3> QED BY <1>4, <1>5, LineInduction
    <2>2. d \in 0..d
      BY <1>4
    <2> HIDE DEF P, d
    <2> QED BY <2>1, <2>2
  <1>7. m + d = Len(s)
    BY <1>3
  <1> QED BY <1>6, <1>7 DEF o, Owed

\* A list that begins another one is a prefix of it.
LEMMA BeginsPrefix ==
  ASSUME NEW p \in Seq(Answers), NEW q \in Seq(Answers), Begins(p, q)
  PROVE  IsPrefix(p, q)
  <1>1. SubSeq(p, 1, Len(p)) = SubSeq(q, 1, Len(p))
    BY DEF Begins
  <1> QED BY <1>1 DEF Begins, IsPrefix

\* After a line that ends the connection nothing more is owed.
LEMMA OwedStops ==
  ASSUME NEW s \in Seq(Line), NEW m \in 1..Len(s), Ends(s[m])
  PROVE  Owed(s) = OwedUpTo(s)[m]
  <1> DEFINE o == OwedUpTo(s)
             d == Len(s) - m
             P == {j \in Nat : o[m + j] = o[m]}
  <1>1. \A n \in 1..Len(s) : o[n] = OwedStep(s, n, o[n-1])
    BY OwedUnfolds
  <1>2. Len(s) \in Nat
    OBVIOUS
  <1> HIDE DEF o
  <1>3. 0 \in P /\ d \in Nat
    BY <1>2
  <1>4. ASSUME NEW j \in 1..d, j - 1 \in P PROVE j \in P
    <2> DEFINE n == m + j
    <2>1. n \in 1..Len(s) /\ m + (j - 1) = n - 1 /\ m \in 1..(n-1)
      BY <1>2
    <2>2. o[n] = OwedStep(s, n, o[n-1])
      BY <1>1, <2>1
    <2>3. OwedStep(s, n, o[n-1]) = o[n-1]
      BY <2>1 DEF OwedStep
    <2>4. o[n-1] = o[m]
      BY <1>4, <2>1
    <2> QED BY <2>2, <2>3, <2>4
  <1>5. d \in P
    <2>1. 0..d \subseteq P
      <3> HIDE DEF P, d
      <3> QED BY <1>3, <1>4, LineInduction
    <2>2. d \in 0..d
      BY <1>3
    <2> HIDE DEF P, d
    <2> QED BY <2>1, <2>2
  <1>6. m + d = Len(s)
    BY <1>2
  <1> QED BY <1>5, <1>6 DEF o, Owed

-----------------------------------------------------------------------------
(* The connections *)

Pcs == {"none", "read", "line", "flush", "closed"}

Connection ==
  [pc : Pcs, script : Seq(Line), at : Nat \ {0}, buf : Nat, buffered : 0..BufSize,
   left : Nat, resp : Answers, out : Seq(Answers)]

\* What has been taken of the line that is being read is within the limit and
\* short of its newline.
InLine(r) ==
  /\ r.buf <= MaxLine
  /\ (r.at <= Len(r.script) /\ r.script[r.at].ended) => r.buf < r.script[r.at].len

Good(r) ==
  /\ r \in Connection
  /\ r.buf <= MaxLine + BufSize
  /\ r.pc = "read" => InLine(r)

ConnInv == conn \in [Conns -> Connection] /\ \A c \in Conns : Good(conn[c])

\* A line read up to a fragment of n bytes of bufio's buffer.
LEMMA FragmentIsGood ==
  ASSUME NEW r, Good(r), r.pc = "read", NEW n \in 0..r.buffered, NEW next \in Pcs,
         next = "read" => ~HasNewline(r) /\ n = r.buffered
  PROVE  Good(Fragment(r, n, next))
  <1> DEFINE f == Fragment(r, n, next)
  <1>1. /\ r \in Connection /\ r.buf \in Nat /\ r.buffered \in 0..BufSize /\ n \in Nat
        /\ BufSize \in Nat /\ MaxLine \in Nat /\ r.buf <= MaxLine
    BY TextServerAssumption DEF Good, InLine, Connection
  <1>2. /\ f.buf = r.buf + n /\ f.buffered = r.buffered - n
        /\ f.pc = (IF r.buf + n > MaxLine THEN "flush" ELSE next)
        /\ f.script = r.script /\ f.at = r.at
    BY <1>1 DEF Fragment, Connection
  <1>3. r.buf + n \in Nat /\ r.buffered - n \in 0..BufSize /\ r.buf + n <= MaxLine + BufSize
    BY <1>1
  <1>4. f \in Connection
    <2> DEFINE p == IF r.buf + n > MaxLine THEN "flush" ELSE next
               a == IF r.buf + n > MaxLine THEN "ERROR line too long" ELSE r.resp
    <2>1. p \in Pcs
      BY DEF Pcs
    <2>2. a \in Answers
      BY <1>1 DEF Answers, Connection
    <2>3. f = [r EXCEPT !.buf = r.buf + n, !.buffered = r.buffered - n, !.pc = p, !.resp = a]
      BY DEF Fragment
    <2> HIDE DEF p, a, f
    <2> QED BY <1>1, <1>3, <2>1, <2>2, <2>3 DEF Connection
  <1>5. ASSUME f.pc = "read" PROVE InLine(f)
    <2>1. ~(r.buf + n > MaxLine) /\ next = "read"
      BY <1>2, <1>5
    <2>2. (r.at <= Len(r.script) /\ r.script[r.at].ended) =>
            ~(r.buf + n >= r.script[r.at].len)
      BY <2>1 DEF HasNewline
    <2>3. r.at <= Len(r.script) => r.script[r.at].len \in Nat
      BY <1>1, LineLength DEF Connection
    <2>4. f.buf <= MaxLine
      BY <1>1, <1>2, <1>3, <2>1
    <2>5. (r.at <= Len(r.script) /\ r.script[r.at].ended) => r.buf + n < r.script[r.at].len
      BY <1>3, <2>2, <2>3
    <2> HIDE DEF f
    <2> QED BY <1>2, <2>4, <2>5 DEF InLine
  <1> QED BY <1>2, <1>3, <1>4, <1>5 DEF Good

\* A line begun has nothing of it taken.
LEMMA NextLineIsGood ==
  ASSUME NEW r, Good(r)
  PROVE  Good(NextLine(r))
  <1> DEFINE f == NextLine(r)
  <1>1. /\ r \in Connection /\ BufSize \in Nat /\ MaxLine \in Nat
    BY TextServerAssumption DEF Good
  <1>2. f.buf = 0 /\ f.script = r.script /\ f.at = r.at + 1 /\ r.at + 1 \in Nat \ {0}
    BY <1>1 DEF NextLine, Connection
  <1>3. f \in Connection
    <2>1. "read" \in Pcs /\ "" \in Answers
      BY DEF Pcs, Answers
    <2> QED BY <1>1, <1>2, <2>1 DEF NextLine, Connection
  <1>4. f.at <= Len(f.script) => f.script[f.at].len \in Nat \ {0}
    BY <1>1, <1>2, LineLength DEF Connection
  <1> QED BY <1>1, <1>2, <1>3, <1>4 DEF Good, InLine

\* A connection as it starts, whatever it will be sent.
LEMMA NewConnType ==
  ASSUME NEW s \in Seq(Line), NEW b \in Nat, NEW p \in Pcs
  PROVE  [pc |-> p, script |-> s, at |-> 1, buf |-> 0, buffered |-> 0, left |-> b,
          resp |-> "", out |-> <<>>] \in Connection
  <1>1. 0 \in 0..BufSize /\ "" \in Answers /\ <<>> \in Seq(Answers) /\ 1 \in Nat \ {0} /\ 0 \in Nat
    BY TextServerAssumption DEF Answers
  <1>2. \A a \in Answers, o \in Seq(Answers), i \in Nat \ {0}, z \in Nat, y \in 0..BufSize :
          [pc |-> p, script |-> s, at |-> i, buf |-> z, buffered |-> y, left |-> b,
           resp |-> a, out |-> o] \in Connection
    BY DEF Connection
  <1> QED BY <1>1, <1>2

\* One connection changes to a good one.
LEMMA OneConnChanges ==
  ASSUME ConnInv, NEW c \in Conns, NEW r, Good(r), conn' = [conn EXCEPT ![c] = r]
  PROVE  ConnInv'
  BY DEF ConnInv, Good

\* Every step of the listener, a reader, a writer or a peer keeps connections
\* good.
LEMMA ConnInvStep == ConnInv /\ [Next]_vars => ConnInv'
  <1> SUFFICES ASSUME ConnInv, [Next]_vars PROVE ConnInv'
    OBVIOUS
  <1>0. BufSize \in Nat \ {0} /\ MaxLine \in Nat \ {0}
    BY TextServerAssumption
  <1>1. ASSUME NEW c \in Conns, NEW s \in Scripts, Accept(c, s) PROVE ConnInv'
    <2>1. Good(NewConn(s))
      <3>1. s \in Seq(Line) /\ Bytes(s)[Len(s)] \in Nat
        <4>1. s \in Seq(Line) /\ Len(s) \in 0..Len(s)
          BY TextServerAssumption
        <4> QED BY <4>1, BytesType
      <3>2. 1 <= Len(s) => s[1].len \in Nat \ {0}
        BY <3>1, LineLength
      <3>3. <<>> \in Seq(Answers) /\ "" \in Answers /\ "read" \in Pcs
        BY DEF Answers, Pcs
      <3>4. NewConn(s) \in Connection
        BY <1>0, <3>1, <3>3, NewConnType DEF NewConn
      <3>5. NewConn(s).buf = 0 /\ NewConn(s).script = s /\ NewConn(s).at = 1
        BY DEF NewConn
      <3> QED BY <1>0, <3>2, <3>4, <3>5 DEF Good, InLine
    <2> QED BY <1>1, <2>1, OneConnChanges DEF Accept
  <1>2. ASSUME NEW c \in Conns, NEW n \in 1..BufSize, Fill(c, n) PROVE ConnInv'
    <2> DEFINE r == conn[c]
               f == [r EXCEPT !.buffered = @ + n, !.left = @ - n]
    <2>1. r \in Connection /\ Good(r)
      BY DEF ConnInv
    <2>2. conn' = [conn EXCEPT ![c] = f]
      BY <1>2 DEF Fill
    <2>3. /\ r.buffered + n \in 0..BufSize /\ r.left - n \in Nat
      BY <1>0, <1>2, <2>1 DEF Fill, Connection
    <2>4. f \in Connection /\ f.buf = r.buf /\ f.pc = r.pc /\ f.at = r.at /\ f.script = r.script
      BY <2>1, <2>3 DEF Connection
    <2>5. Good(f)
      BY <2>1, <2>4 DEF Good, InLine
    <2> QED BY <2>2, <2>5, OneConnChanges
  <1>3. ASSUME NEW c \in Conns, ReadRest(c) PROVE ConnInv'
    <2> DEFINE r == conn[c]
               n == r.script[r.at].len - r.buf
    <2>1. Good(r) /\ r \in Connection /\ r.pc = "read" /\ HasNewline(r)
      BY <1>3 DEF ConnInv, ReadRest
    <2>2. r.script[r.at].len \in Nat \ {0}
      BY <2>1, LineLength DEF HasNewline, Connection
    <2>3. n \in 0..r.buffered
      BY <2>1, <2>2 DEF HasNewline, Good, InLine, Connection
    <2>4. Good(Fragment(r, n, "line"))
      BY <2>1, <2>3, FragmentIsGood DEF Pcs
    <2>5. conn' = [conn EXCEPT ![c] = Fragment(r, n, "line")]
      BY <1>3 DEF ReadRest
    <2> QED BY <2>4, <2>5, OneConnChanges
  <1>4. ASSUME NEW c \in Conns, ReadFull(c) PROVE ConnInv'
    <2>1. /\ Good(conn[c]) /\ conn[c].pc = "read" /\ ~HasNewline(conn[c])
          /\ conn[c].buffered = BufSize
      BY <1>4 DEF ConnInv, ReadFull
    <2>2. Good(Fragment(conn[c], BufSize, "read"))
      BY <1>0, <2>1, FragmentIsGood DEF Pcs
    <2>3. conn' = [conn EXCEPT ![c] = Fragment(conn[c], BufSize, "read")]
      BY <1>4 DEF ReadFull
    <2> QED BY <2>2, <2>3, OneConnChanges
  <1>5. ASSUME NEW c \in Conns, ReadEOF(c) \/ ReadDeadline(c) PROVE ConnInv'
    <2>1. Good(conn[c]) /\ conn[c].pc = "read" /\ conn[c].buffered \in 0..conn[c].buffered
      BY <1>0, <1>5 DEF ConnInv, ReadEOF, ReadDeadline, Waits, Connection
    <2>2. Good(Fragment(conn[c], conn[c].buffered, "closed"))
      BY <2>1, FragmentIsGood DEF Pcs
    <2>3. conn' = [conn EXCEPT ![c] = Fragment(conn[c], conn[c].buffered, "closed")]
      BY <1>5 DEF ReadEOF, ReadDeadline
    <2> QED BY <2>2, <2>3, OneConnChanges
  <1>6. ASSUME NEW c \in Conns, Dispatch(c) PROVE ConnInv'
    <2> DEFINE r   == conn[c]
               cmd == r.script[r.at].cmd
               p   == IF cmd = "QUIT" THEN "closed" ELSE "flush"
               f   == [r EXCEPT !.resp = dispatch(cmd), !.pc = p]
    <2>1. Good(r) /\ r \in Connection
      BY DEF ConnInv
    <2>2. CASE cmd = "blank"
      <3>1. conn' = [conn EXCEPT ![c] = NextLine(r)]
        BY <1>6, <2>2 DEF Dispatch
      <3> QED BY <2>1, <3>1, NextLineIsGood, OneConnChanges
    <2>3. CASE cmd # "blank"
      <3>1. conn' = [conn EXCEPT ![c] = f]
        BY <1>6, <2>3 DEF Dispatch
      <3>2. dispatch(cmd) \in Answers /\ p \in Pcs /\ p # "read"
        BY DispatchType DEF Pcs
      <3>3. f \in Connection /\ f.buf = r.buf /\ f.pc = p
        BY <2>1, <3>2 DEF Connection
      <3>4. Good(f)
        BY <2>1, <3>2, <3>3 DEF Good
      <3> QED BY <3>1, <3>4, OneConnChanges
    <2> QED BY <2>2, <2>3
  <1>7. ASSUME NEW c \in Conns, Flush(c) PROVE ConnInv'
    <2> DEFINE r == conn[c]
               w == [r EXCEPT !.out = Append(@, r.resp)]
               z == [w EXCEPT !.pc = "closed"]
    <2>1. Good(r) /\ r \in Connection /\ r.pc = "flush"
      BY <1>7 DEF ConnInv, Flush
    <2>2. w \in Connection /\ w.buf = r.buf /\ w.pc = "flush"
      <3>1. Append(r.out, r.resp) \in Seq(Answers)
        BY <2>1 DEF Connection
      <3>2. w = [r EXCEPT !.out = Append(r.out, r.resp)]
        OBVIOUS
      <3> HIDE DEF w
      <3> QED BY <2>1, <3>1, <3>2 DEF Connection
    <2>3. Good(w)
      BY <2>1, <2>2 DEF Good
    <2>4. z \in Connection /\ z.buf = r.buf /\ z.pc = "closed"
      BY <2>2 DEF Connection, Pcs
    <2>5. Good(z)
      BY <2>1, <2>4 DEF Good
    <2>6. conn' = [conn EXCEPT ![c] = IF w.buf > MaxLine THEN z ELSE NextLine(w)]
      BY <1>7 DEF Flush
    <2>7. Good(IF w.buf > MaxLine THEN z ELSE NextLine(w))
      BY <2>3, <2>5, NextLineIsGood
    <2> QED BY <2>6, <2>7, OneConnChanges
  <1>8. ASSUME NEW c \in Conns, FlushFails(c) PROVE ConnInv'
    <2> DEFINE z == [conn[c] EXCEPT !.pc = "closed"]
    <2>1. Good(conn[c]) /\ conn[c] \in Connection
      BY DEF ConnInv
    <2>2. z \in Connection /\ z.buf = conn[c].buf /\ z.pc = "closed"
      BY <2>1 DEF Connection, Pcs
    <2>3. Good(z)
      BY <2>1, <2>2 DEF Good
    <2>4. conn' = [conn EXCEPT ![c] = z]
      BY <1>8 DEF FlushFails
    <2> QED BY <2>3, <2>4, OneConnChanges
  <1>9. CASE Exit
    <2>1. ASSUME NEW c \in Conns PROVE conn'[c] \in Connection /\ Good(conn'[c])
      <3> DEFINE z == [conn[c] EXCEPT !.pc = "closed"]
      <3>1. Good(conn[c]) /\ conn[c] \in Connection
        BY DEF ConnInv
      <3>2. z \in Connection /\ z.buf = conn[c].buf /\ z.pc = "closed"
        BY <3>1 DEF Connection, Pcs
      <3>3. Good(z)
        BY <3>1, <3>2 DEF Good
      <3>4. conn'[c] = IF conn[c].pc = "none" THEN conn[c] ELSE z
        BY <1>9 DEF Exit
      <3> QED BY <3>1, <3>2, <3>3, <3>4
    <2>2. conn' \in [Conns -> Connection]
      BY <1>9, <2>1 DEF Exit
    <2> QED BY <2>1, <2>2 DEF ConnInv
  <1>10. CASE UNCHANGED conn
    BY <1>10 DEF ConnInv
  <1> QED BY <1>1, <1>2, <1>3, <1>4, <1>5, <1>6, <1>7, <1>8, <1>9, <1>10
          DEF Next, MainStep, ConnStep, Bind, BindFails, Publish, Discard, AcceptOnClosed,
              AcceptFails, JudgeError, CloseStore, GCLoopReturns, Close, CloseListener,
              PeerChanges, vars, connVars

\* No connection has been accepted yet.
LEMMA ConnInvInit == Init => ConnInv
  <1> SUFFICES ASSUME Init PROVE ConnInv
    OBVIOUS
  <1>1. NewConn(<<>>) \in Connection
    <2>1. <<>> \in Seq(Line) /\ Bytes(<<>>)[Len(<<>>)] \in Nat /\ "read" \in Pcs
      <3>1. <<>> \in Seq(Line) /\ Len(<<>>) \in 0..Len(<<>>)
        OBVIOUS
      <3> QED BY <3>1, BytesType DEF Pcs
    <2> QED BY <2>1, NewConnType DEF NewConn
  <1>2. NewConn(<<>>).buf = 0
    BY DEF NewConn
  <1>3. NoConn \in Connection /\ NoConn.buf = 0 /\ NoConn.pc = "none"
    BY <1>1, <1>2 DEF NoConn, Connection, Pcs
  <1>4. Good(NoConn)
    BY <1>3, TextServerAssumption DEF Good
  <1> QED BY <1>3, <1>4 DEF Init, ConnInv

\* Whatever is sent without a newline, readLine holds at most the limit and one
\* buffer of it.
THEOREM LinesAreBounded == Spec => []BoundedLine
  <1>1. ConnInv => BoundedLine
    BY DEF ConnInv, Good, BoundedLine
  <1> QED BY <1>1, ConnInvInit, ConnInvStep, PTL DEF Spec

-----------------------------------------------------------------------------
(* Types *)

ProcessType ==
  /\ main \in {"listen", "bound", "discard", "accept", "accept error", "nil",
               "err", "returned", "exited"}
  /\ socket \in {"none", "open", "closed"}
  /\ listener \in BOOLEAN /\ closed \in BOOLEAN /\ done \in BOOLEAN /\ broke \in BOOLEAN
  /\ closer \in [Closers -> {"idle", "closing", "done"}]
  /\ gcLoop \in {"running", "returned"}
  /\ client \in [Conns -> {"reads", "stopped", "gone"}] /\ cut \subseteq Conns

\* What is not a connection keeps its type, too.
LEMMA ProcessTypeStep == ProcessType /\ [Next]_vars => ProcessType'
  <1> SUFFICES ASSUME ProcessType, [Next]_vars PROVE ProcessType'
    OBVIOUS
  <1> USE DEF ProcessType
  <1>1. CASE Bind \/ BindFails \/ Publish \/ Discard
    BY <1>1 DEF Bind, BindFails, Publish, Discard, connVars
  <1>2. CASE AcceptOnClosed \/ AcceptFails \/ JudgeError \/ CloseStore
    BY <1>2 DEF AcceptOnClosed, AcceptFails, JudgeError, CloseStore, connVars
  <1>3. CASE Exit \/ GCLoopReturns
    BY <1>3 DEF Exit, GCLoopReturns, connVars
  <1>4. ASSUME NEW k \in Closers, Close(k) \/ CloseListener(k) PROVE ProcessType'
    BY <1>4 DEF Close, CloseListener, connVars
  <1>5. ASSUME NEW c \in Conns, NEW how \in {"stopped", "gone"}, PeerChanges(c, how)
        PROVE  ProcessType'
    BY <1>5 DEF PeerChanges, listenVars
  <1>6. CASE UNCHANGED <<listenVars, client, cut>>
    BY <1>6 DEF listenVars
  <1>7. ASSUME NEW c \in Conns, cut' = cut \cup {c}, UNCHANGED <<listenVars, client>>
        PROVE  ProcessType'
    BY <1>7 DEF listenVars
  <1> QED BY <1>1, <1>2, <1>3, <1>4, <1>5, <1>6, <1>7
          DEF Next, MainStep, ConnStep, Accept, Fill, ReadRest, ReadFull, ReadEOF,
              ReadDeadline, Dispatch, Flush, FlushFails, vars, connVars

\* Every variable keeps to its values.
THEOREM ServerTypeCorrect == Spec => []TypeOK
  <1>1. Init => ProcessType
    BY DEF Init, ProcessType
  <1>2. ProcessType /\ ConnInv => TypeOK
    BY DEF ProcessType, ConnInv, Connection, Pcs, TypeOK
  <1> QED BY <1>1, <1>2, ProcessTypeStep, ConnInvInit, ConnInvStep, PTL DEF Spec

-----------------------------------------------------------------------------
(* Answers *)

\* Where a connection that is open stands in its script: what has been taken of
\* the line it is at, what is buffered and what is still to come are the bytes
\* from that line on, no line before it was the last one to be read, and those
\* lines have been answered.
Progress(r) ==
  LET s == r.script
  IN  /\ s \in Scripts /\ r.at <= Len(s) + 1
      /\ \A i \in 1..(r.at - 1) : ~Ends(s[i])
      /\ Bytes(s)[r.at - 1] + r.buf + r.buffered + r.left = Bytes(s)[Len(s)]
      /\ r.out = OwedUpTo(s)[r.at - 1]

\* A line has been taken whole.
Taken(r) ==
  LET l == r.script[r.at]
  IN  r.at <= Len(r.script) /\ l.ended /\ l.len = r.buf /\ r.buf <= MaxLine

\* The answer to a line is ready, and so is the connection's end if it was too
\* long.
Ready(r) ==
  LET l == r.script[r.at]
  IN  /\ r.at <= Len(r.script) /\ AnswersTo(l) = <<r.resp>>
      /\ IF r.buf > MaxLine THEN l.len > MaxLine ELSE l.len = r.buf /\ ~Ends(l)

Faithful(r) ==
  /\ r.pc \in {"read", "line", "flush"} => Progress(r)
  /\ r.pc = "line" => Taken(r)
  /\ r.pc = "flush" => Ready(r)
  /\ IsPrefix(r.out, Owed(r.script))

AnswerInv ==
  \A c \in Conns :
    /\ Faithful(conn[c])
    /\ conn[c].pc = "closed" /\ c \notin cut => conn[c].out = Owed(conn[c].script)

\* The numbers Progress speaks of.
LEMMA ProgressType ==
  ASSUME NEW r \in Connection, Progress(r)
  PROVE  /\ r.script \in Seq(Line) /\ Len(r.script) \in Nat
         /\ r.at \in 1..(Len(r.script) + 1) /\ r.at - 1 \in 0..Len(r.script)
         /\ Bytes(r.script)[r.at - 1] \in Nat /\ Bytes(r.script)[Len(r.script)] \in Nat
         /\ r.buf \in Nat /\ r.buffered \in Nat /\ r.left \in Nat
         /\ r.out \in Seq(Answers)
         /\ \A i \in 1..Len(r.script) : i < Len(r.script) => r.script[i].ended
  <1>1. r.script \in Seq(Line) /\ r.at \in Nat \ {0} /\ r.buf \in Nat /\ r.left \in Nat
    BY DEF Connection
  <1>2. r.buffered \in Nat /\ r.out \in Seq(Answers)
    BY TextServerAssumption DEF Connection
  <1>3. Len(r.script) \in Nat /\ DOMAIN r.script = 1..Len(r.script)
    BY <1>1
  <1>4. r.at <= Len(r.script) + 1 /\ r.script \in Scripts
    BY DEF Progress
  <1>5. r.at \in 1..(Len(r.script) + 1) /\ r.at - 1 \in 0..Len(r.script)
    BY <1>1, <1>3, <1>4
  <1>6. Len(r.script) \in 0..Len(r.script)
    BY <1>3
  <1>7. \A n \in 0..Len(r.script) : Bytes(r.script)[n] \in Nat
    BY <1>1, BytesType
  <1>8. \A i \in 1..Len(r.script) : i < Len(r.script) => r.script[i].ended
    BY <1>3, <1>4, TextServerAssumption
  <1> QED BY <1>1, <1>2, <1>3, <1>5, <1>6, <1>7, <1>8

\* All of the line a connection is at has been taken, is buffered or is still to
\* come; after the last line there is nothing.
LEMMA BytesAhead ==
  ASSUME NEW r \in Connection, Progress(r)
  PROVE  /\ r.at <= Len(r.script) =>
              /\ r.script[r.at].len \in Nat
              /\ r.script[r.at].len <= r.buf + r.buffered + r.left
         /\ r.at = Len(r.script) => r.script[r.at].len = r.buf + r.buffered + r.left
         /\ r.at = Len(r.script) + 1 => r.buf + r.buffered + r.left = 0
  <1> DEFINE s == r.script
             i == r.at
             b == Bytes(s)
             x == r.buf + r.buffered + r.left
  <1>1. /\ s \in Seq(Line) /\ Len(s) \in Nat /\ i \in 1..(Len(s) + 1)
        /\ b[i - 1] \in Nat /\ b[Len(s)] \in Nat /\ x \in Nat
    BY ProgressType
  <1>2. b[i - 1] + x = b[Len(s)]
    <2>1. b[i - 1] + r.buf + r.buffered + r.left = b[Len(s)]
      BY DEF Progress
    <2> QED BY <2>1, ProgressType
  <1> HIDE DEF b, x
  <1>3. ASSUME i <= Len(s)
        PROVE  s[i].len \in Nat /\ b[i] = b[i - 1] + s[i].len /\ b[i] <= b[Len(s)]
    <2>1. i \in 1..Len(s) /\ i \in 0..Len(s)
      BY <1>1, <1>3
    <2> HIDE DEF s, i
    <2>2. s[i].len \in Nat
      BY <1>1, <2>1, LineLength
    <2> QED BY <1>1, <2>1, <2>2, BytesUnfold, BytesGrow DEF b
  <1>4. i <= Len(s) => s[i].len \in Nat /\ s[i].len <= x
    BY <1>1, <1>2, <1>3
  <1>5. i = Len(s) => s[i].len = x
    BY <1>1, <1>2, <1>3
  <1>6. i = Len(s) + 1 => x = 0
    BY <1>1, <1>2
  <1> QED BY <1>4, <1>5, <1>6 DEF x

\* The answers owed up to a line are those before it and its own.
LEMMA OwedAt ==
  ASSUME NEW r \in Connection, Progress(r), r.at <= Len(r.script)
  PROVE  OwedUpTo(r.script)[r.at] = r.out \o AnswersTo(r.script[r.at])
  <1>1. r.script \in Seq(Line) /\ r.at \in 1..Len(r.script)
    BY ProgressType
  <1>2. OwedUpTo(r.script)[r.at] = OwedStep(r.script, r.at, r.out)
    BY <1>1, OwedUnfolds DEF Progress
  <1> QED BY <1>2 DEF OwedStep, Progress

\* More than the limit is taken only of a line that is longer.
LEMMA OverLong ==
  ASSUME NEW r \in Connection, Progress(r), NEW n \in 0..r.buffered, r.buf + n > MaxLine,
         (r.at <= Len(r.script) /\ r.script[r.at].ended) => r.buf + n <= r.script[r.at].len
  PROVE  r.at <= Len(r.script) /\ r.script[r.at].len > MaxLine
  <1>1. /\ Len(r.script) \in Nat /\ r.at \in 1..(Len(r.script) + 1) /\ r.buf \in Nat
        /\ r.buffered \in Nat /\ r.left \in Nat /\ MaxLine \in Nat
        /\ \A i \in 1..Len(r.script) : i < Len(r.script) => r.script[i].ended
    BY ProgressType, TextServerAssumption
  <1>2. r.at # Len(r.script) + 1
    BY <1>1, BytesAhead
  <1>3. r.at \in 1..Len(r.script)
    BY <1>1, <1>2
  <1>4. r.script[r.at].len \in Nat /\ r.buf + n <= r.script[r.at].len
    <2>1. CASE r.script[r.at].ended
      BY <1>3, <2>1, BytesAhead
    <2>2. CASE ~r.script[r.at].ended
      <3>1. r.at = Len(r.script)
        BY <1>1, <1>3, <2>2
      <3>2. r.script[r.at].len \in Nat /\ r.script[r.at].len = r.buf + r.buffered + r.left
        BY <1>3, <3>1, BytesAhead
      <3> QED BY <1>1, <3>2
    <2> QED BY <2>1, <2>2
  <1> QED BY <1>1, <1>3, <1>4

\* readLine takes a fragment: of the line that is too long, of one that goes on,
\* or the end of one.
LEMMA FragmentIsFaithful ==
  ASSUME NEW r \in Connection, Faithful(r), r.pc = "read", NEW n \in 0..r.buffered,
         NEW next \in {"read", "line", "closed"},
         (r.at <= Len(r.script) /\ r.script[r.at].ended) => r.buf + n <= r.script[r.at].len,
         next = "line" => /\ r.at <= Len(r.script) /\ r.script[r.at].ended
                          /\ r.script[r.at].len = r.buf + n
  PROVE  Faithful(Fragment(r, n, next))
  <1> DEFINE f == Fragment(r, n, next)
  <1>1. Progress(r) /\ IsPrefix(r.out, Owed(r.script))
    BY DEF Faithful
  <1>2. r.buf \in Nat /\ r.buffered \in Nat /\ r.left \in Nat /\ MaxLine \in Nat /\ n \in Nat
    BY <1>1, ProgressType, TextServerAssumption
  <1>3. /\ f.buf = r.buf + n /\ f.buffered = r.buffered - n /\ f.left = r.left
        /\ f.pc = (IF r.buf + n > MaxLine THEN "flush" ELSE next)
        /\ f.resp = (IF r.buf + n > MaxLine THEN "ERROR line too long" ELSE r.resp)
        /\ f.script = r.script /\ f.at = r.at /\ f.out = r.out
    BY DEF Fragment, Connection
  <1> HIDE DEF f
  <1>4. Progress(f)
    <2> DEFINE B == Bytes(r.script)
    <2>1. B[r.at - 1] \in Nat
      BY <1>1, ProgressType
    <2>2. B[r.at - 1] + r.buf + r.buffered + r.left = B[Len(r.script)]
      BY <1>1 DEF Progress
    <2> HIDE DEF B
    <2>3. B[r.at - 1] + (r.buf + n) + (r.buffered - n) + r.left = B[Len(r.script)]
      BY <1>2, <2>1, <2>2
    <2> QED BY <1>1, <1>3, <2>3 DEF Progress, B
  <1>5. ASSUME f.pc = "line" PROVE Taken(f)
    <2>1. ~(r.buf + n > MaxLine) /\ next = "line"
      BY <1>3, <1>5
    <2>2. r.at <= Len(r.script) /\ r.script[r.at].ended /\ r.script[r.at].len = r.buf + n
      BY <2>1
    <2>3. r.buf + n <= MaxLine
      BY <1>2, <2>1
    <2> QED BY <1>3, <2>2, <2>3 DEF Taken
  <1>6. ASSUME f.pc = "flush" PROVE Ready(f)
    <2>1. r.buf + n > MaxLine
      BY <1>3, <1>6
    <2>2. r.at <= Len(r.script) /\ r.script[r.at].len > MaxLine
      BY <1>1, <2>1, OverLong
    <2>3. AnswersTo(r.script[r.at]) = <<f.resp>>
      BY <1>3, <2>1, <2>2 DEF AnswersTo
    <2> QED BY <1>3, <2>1, <2>2, <2>3 DEF Ready
  <1> QED BY <1>1, <1>3, <1>4, <1>5, <1>6 DEF Faithful, f

\* What has been sent up to a line is a beginning of what is owed.
LEMMA OwedSoFar ==
  ASSUME NEW s \in Seq(Line), NEW n \in 0..Len(s)
  PROVE  IsPrefix(OwedUpTo(s)[n], Owed(s))
  <1>1. Len(s) \in 0..Len(s)
    OBVIOUS
  <1>2. OwedUpTo(s)[n] \in Seq(Answers) /\ Owed(s) \in Seq(Answers)
    BY <1>1, OwedType DEF Owed
  <1> QED BY <1>2, OwedGrows, BeginsPrefix

\* On to the next line, when this one is taken, was not the last and is answered.
LEMMA NextLineIsFaithful ==
  ASSUME NEW r \in Connection, Progress(r), NEW w \in Connection,
         r.at <= Len(r.script), ~Ends(r.script[r.at]), r.script[r.at].len = r.buf,
         w.script = r.script, w.at = r.at, w.buffered = r.buffered, w.left = r.left,
         w.out = OwedUpTo(r.script)[r.at]
  PROVE  Faithful(NextLine(w))
  <1> DEFINE f == NextLine(w)
             s == r.script
             i == r.at
             b == Bytes(s)
  <1>1. /\ s \in Seq(Line) /\ Len(s) \in Nat /\ i \in 1..(Len(s) + 1)
        /\ b[i - 1] \in Nat /\ b[Len(s)] \in Nat
        /\ r.buf \in Nat /\ r.buffered \in Nat /\ r.left \in Nat
    BY ProgressType
  <1>2. i \in 1..Len(s) /\ i \in 0..Len(s) /\ (i + 1) - 1 = i /\ i + 1 <= Len(s) + 1
    BY <1>1
  <1>3. /\ f.pc = "read" /\ f.script = s /\ f.at = i + 1 /\ f.buf = 0
        /\ f.buffered = r.buffered /\ f.left = r.left /\ f.out = OwedUpTo(s)[i]
    BY DEF NextLine, Connection
  <1>4. b[i] + 0 + r.buffered + r.left = b[Len(s)]
    <2>1. b[i] = b[i - 1] + r.buf
      BY <1>1, <1>2, BytesUnfold
    <2>2. b[i - 1] + r.buf + r.buffered + r.left = b[Len(s)]
      BY DEF Progress
    <2> HIDE DEF b, s
    <2> QED BY <1>1, <2>1, <2>2
  <1>5. \A j \in 1..i : ~Ends(s[j])
    <2>1. ASSUME NEW j \in 1..i PROVE ~Ends(s[j])
      <3>1. CASE j = i
        BY <3>1
      <3>2. CASE j # i
        <4>1. j \in 1..(i - 1)
          BY <1>1, <3>2
        <4> QED BY <4>1 DEF Progress
      <3> QED BY <3>1, <3>2
    <2> QED BY <2>1
  <1>6. s \in Scripts
    BY DEF Progress
  <1>7. IsPrefix(OwedUpTo(s)[i], Owed(s))
    BY <1>1, <1>2, OwedSoFar
  <1> HIDE DEF f, s, i
  <1>8. Progress(f)
    BY <1>2, <1>3, <1>4, <1>5, <1>6 DEF Progress
  <1> QED BY <1>3, <1>7, <1>8 DEF Faithful, f

\* A script read to its end has been answered in full: nothing is left, and what
\* there is of a line without its newline gets no answer.
LEMMA EndOfScript ==
  ASSUME NEW r \in Connection, Progress(r), r.left = 0, ~HasNewline(r),
         ~(r.buf + r.buffered > MaxLine)
  PROVE  r.out = Owed(r.script)
  <1> DEFINE s == r.script
             i == r.at
  <1>1. /\ s \in Seq(Line) /\ Len(s) \in Nat /\ i \in 1..(Len(s) + 1)
        /\ r.buf \in Nat /\ r.buffered \in Nat /\ r.out \in Seq(Answers) /\ MaxLine \in Nat
        /\ \A j \in 1..Len(s) : j < Len(s) => s[j].ended
    BY ProgressType, TextServerAssumption
  <1>2. CASE i = Len(s) + 1
    <2>1. i - 1 = Len(s)
      BY <1>1, <1>2
    <2> QED BY <2>1 DEF Progress, Owed
  <1>3. CASE i # Len(s) + 1
    <2>1. i \in 1..Len(s) /\ i <= Len(s)
      BY <1>1, <1>3
    <2>2. s[i].len \in Nat /\ s[i].len <= r.buf + r.buffered
      BY <1>1, <2>1, BytesAhead
    <2>3. ~s[i].ended
      BY <1>1, <2>1, <2>2 DEF HasNewline
    <2>4. ~(s[i].len > MaxLine)
      BY <1>1, <2>2
    <2>5. AnswersTo(s[i]) = <<>> /\ Ends(s[i])
      BY <2>3, <2>4 DEF AnswersTo, Ends
    <2>6. OwedUpTo(s)[i] = r.out \o <<>>
      BY <2>1, <2>5, OwedAt
    <2>7. r.out \o <<>> = r.out
      BY <1>1
    <2>8. Owed(s) = OwedUpTo(s)[i]
      <3> HIDE DEF s, i
      <3> QED BY <1>1, <2>1, <2>5, OwedStops
    <2> QED BY <2>6, <2>7, <2>8
  <1> QED BY <1>2, <1>3

\* One connection changes to a faithful one, which is whole if it has ended.
LEMMA OneAnswerChanges ==
  ASSUME ConnInv, AnswerInv, NEW c \in Conns, NEW r, Faithful(r),
         conn' = [conn EXCEPT ![c] = r], \A d \in Conns : d \in cut => d \in cut',
         r.pc = "closed" => c \in cut' \/ r.out = Owed(r.script)
  PROVE  AnswerInv'
  <1>1. conn'[c] = r /\ \A d \in Conns : d # c => conn'[d] = conn[d]
    BY DEF ConnInv
  <1>2. ASSUME NEW d \in Conns
        PROVE  /\ Faithful(conn'[d])
               /\ conn'[d].pc = "closed" /\ d \notin cut' => conn'[d].out = Owed(conn'[d].script)
    <2>1. CASE d = c
      BY <1>1, <2>1
    <2>2. CASE d # c
      BY <1>1, <2>2 DEF AnswerInv
    <2> QED BY <2>1, <2>2
  <1> QED BY <1>2 DEF AnswerInv

\* A new connection is owed nothing yet.
LEMMA NewConnIsFaithful ==
  ASSUME NEW s \in Scripts, NewConn(s) \in Connection
  PROVE  Faithful(NewConn(s))
  <1> DEFINE f == NewConn(s)
  <1>1. s \in Seq(Line) /\ Len(s) \in Nat /\ 0 \in 0..Len(s) /\ Len(s) \in 0..Len(s)
    BY TextServerAssumption
  <1>2. /\ f.pc = "read" /\ f.script = s /\ f.at = 1 /\ f.buf = 0 /\ f.buffered = 0
        /\ f.left = Bytes(s)[Len(s)] /\ f.out = <<>>
    BY DEF NewConn
  <1>3. Bytes(s)[0] = 0 /\ Bytes(s)[Len(s)] \in Nat /\ OwedUpTo(s)[0] = <<>>
    BY <1>1, BytesUnfold, BytesType, OwedUnfolds
  <1>4. Bytes(s)[0] + 0 + 0 + Bytes(s)[Len(s)] = Bytes(s)[Len(s)]
    BY <1>3
  <1>5. IsPrefix(<<>>, Owed(s))
    BY <1>1, <1>3, OwedSoFar
  <1> HIDE DEF f
  <1>6. Progress(f)
    <2>1. 1 - 1 = 0 /\ 1 <= Len(s) + 1 /\ \A i \in 1..0 : ~Ends(s[i])
      BY <1>1
    <2> QED BY <1>2, <1>3, <1>4, <2>1 DEF Progress
  <1> QED BY <1>2, <1>5, <1>6 DEF Faithful, f

\* A line taken is passed over, ends the connection or has its answer ready.
LEMMA DispatchIsFaithful ==
  ASSUME ConnInv, AnswerInv, NEW c \in Conns, Dispatch(c)
  PROVE  AnswerInv'
  <1> DEFINE r   == conn[c]
             l   == r.script[r.at]
             p   == IF l.cmd = "QUIT" THEN "closed" ELSE "flush"
             f   == [r EXCEPT !.resp = dispatch(l.cmd), !.pc = p]
  <1>1. r \in Connection /\ Faithful(r) /\ r.pc = "line"
    BY DEF ConnInv, AnswerInv, Dispatch
  <1>2. Progress(r) /\ Taken(r) /\ IsPrefix(r.out, Owed(r.script)) /\ cut' = cut
    BY <1>1 DEF Faithful, Dispatch
  <1>3. /\ r.at <= Len(r.script) /\ l.ended /\ l.len = r.buf /\ ~(l.len > MaxLine)
        /\ r.script \in Seq(Line) /\ r.at \in 1..Len(r.script) /\ r.out \in Seq(Answers)
    <2>1. r.at <= Len(r.script) /\ l.ended /\ l.len = r.buf /\ r.buf <= MaxLine
      BY <1>2 DEF Taken
    <2>2. r.buf \in Nat /\ MaxLine \in Nat
      BY <1>1, <1>2, ProgressType, TextServerAssumption
    <2>3. ~(l.len > MaxLine)
      BY <2>1, <2>2
    <2>4. r.script \in Seq(Line) /\ r.at \in 1..Len(r.script) /\ r.out \in Seq(Answers)
      BY <1>1, <1>2, <2>1, ProgressType
    <2> QED BY <2>1, <2>3, <2>4
  <1>4. OwedUpTo(r.script)[r.at] = r.out \o AnswersTo(l)
    BY <1>1, <1>2, <1>3, OwedAt
  <1>5. r.out \o <<>> = r.out
    BY <1>3
  <1>6. CASE l.cmd = "blank"
    <2>1. AnswersTo(l) = <<>> /\ ~Ends(l)
      BY <1>3, <1>6 DEF AnswersTo, Ends
    <2>2. Faithful(NextLine(r))
      BY <1>1, <1>2, <1>3, <1>4, <1>5, <2>1, NextLineIsFaithful
    <2>3. conn' = [conn EXCEPT ![c] = NextLine(r)]
      BY <1>6 DEF Dispatch
    <2>4. NextLine(r).pc = "read"
      BY <1>1 DEF NextLine, Connection
    <2> QED BY <1>2, <2>2, <2>3, <2>4, OneAnswerChanges
  <1>7. CASE l.cmd # "blank"
    <2>1. conn' = [conn EXCEPT ![c] = f]
      BY <1>7 DEF Dispatch
    <2>2. /\ f.pc = p /\ f.resp = dispatch(l.cmd) /\ f.script = r.script /\ f.at = r.at
          /\ f.buf = r.buf /\ f.buffered = r.buffered /\ f.left = r.left /\ f.out = r.out
      BY <1>1 DEF Connection
    <2>3. Progress(f)
      <3> HIDE DEF f
      <3> QED BY <1>2, <2>2 DEF Progress
    <2>4. CASE l.cmd = "QUIT"
      <3>1. AnswersTo(l) = <<>> /\ Ends(l)
        BY <1>3, <2>4 DEF AnswersTo, Ends
      <3>2. Owed(r.script) = OwedUpTo(r.script)[r.at]
        BY <1>3, <3>1, OwedStops
      <3>3. r.out = Owed(r.script)
        BY <1>4, <1>5, <3>1, <3>2
      <3>4. f.pc = "closed"
        BY <2>2, <2>4
      <3>5. Faithful(f) /\ f.out = Owed(f.script)
        <4> HIDE DEF f
        <4> QED BY <1>2, <2>2, <3>3, <3>4 DEF Faithful
      <3> HIDE DEF f
      <3> QED BY <1>2, <2>1, <3>5, OneAnswerChanges
    <2>5. CASE l.cmd # "QUIT"
      <3>1. AnswersTo(l) = <<dispatch(l.cmd)>> /\ ~Ends(l)
        BY <1>3, <1>7, <2>5 DEF AnswersTo, Ends
      <3>2. f.pc = "flush"
        BY <2>2, <2>5
      <3>3. ~(r.buf > MaxLine)
        BY <1>3
      <3>4. Ready(f)
        <4> HIDE DEF f
        <4> QED BY <1>3, <2>2, <3>1, <3>3 DEF Ready
      <3>5. Faithful(f)
        <4> HIDE DEF f
        <4> QED BY <1>2, <2>2, <2>3, <3>2, <3>4 DEF Faithful
      <3> HIDE DEF f
      <3> QED BY <1>2, <2>1, <3>2, <3>5, OneAnswerChanges
    <2> QED BY <2>4, <2>5
  <1> QED BY <1>6, <1>7

\* An answer is written, and the connection goes on or has been told why not.
LEMMA FlushIsFaithful ==
  ASSUME ConnInv, AnswerInv, NEW c \in Conns, Flush(c)
  PROVE  AnswerInv'
  <1> DEFINE r == conn[c]
             l == r.script[r.at]
             w == [r EXCEPT !.out = Append(@, r.resp)]
             z == [w EXCEPT !.pc = "closed"]
  <1>1. r \in Connection /\ Faithful(r) /\ r.pc = "flush" /\ cut' = cut
    BY DEF ConnInv, AnswerInv, Flush
  <1>2. Progress(r) /\ Ready(r)
    BY <1>1 DEF Faithful
  <1>3. /\ r.script \in Seq(Line) /\ r.at \in 1..Len(r.script) /\ r.at \in 0..Len(r.script)
        /\ r.at <= Len(r.script) /\ r.out \in Seq(Answers) /\ r.resp \in Answers
    <2>1. r.at <= Len(r.script) /\ r.resp \in Answers
      BY <1>1, <1>2 DEF Ready, Connection
    <2> QED BY <1>1, <1>2, <2>1, ProgressType
  <1>4. OwedUpTo(r.script)[r.at] = Append(r.out, r.resp)
    <2>1. OwedUpTo(r.script)[r.at] = r.out \o <<r.resp>>
      BY <1>1, <1>2, <1>3, OwedAt DEF Ready
    <2>2. r.out \o <<r.resp>> = Append(r.out, r.resp)
      BY <1>3
    <2> QED BY <2>1, <2>2
  <1>5. /\ w \in Connection /\ w.script = r.script /\ w.at = r.at /\ w.buf = r.buf
        /\ w.buffered = r.buffered /\ w.left = r.left /\ w.out = Append(r.out, r.resp)
    <2>1. Append(r.out, r.resp) \in Seq(Answers)
      BY <1>3
    <2>2. w = [r EXCEPT !.out = Append(r.out, r.resp)]
      OBVIOUS
    <2> HIDE DEF w
    <2> QED BY <1>1, <2>1, <2>2 DEF Connection
  <1>6. conn' = [conn EXCEPT ![c] = IF w.buf > MaxLine THEN z ELSE NextLine(w)]
    BY DEF Flush
  <1>7. CASE r.buf > MaxLine
    <2>1. z.pc = "closed" /\ z.script = r.script /\ z.out = Append(r.out, r.resp)
      <3> HIDE DEF w
      <3> QED BY <1>5 DEF Connection
    <2>2. Ends(l)
      BY <1>2, <1>7 DEF Ready, Ends
    <2>3. Owed(r.script) = OwedUpTo(r.script)[r.at]
      BY <1>3, <2>2, OwedStops
    <2>4. z.out = Owed(z.script)
      BY <1>4, <2>1, <2>3
    <2>5. IsPrefix(z.out, Owed(z.script))
      BY <1>3, <1>4, <2>1, OwedSoFar
    <2>6. conn' = [conn EXCEPT ![c] = z]
      <3> HIDE DEF w, z
      <3> QED BY <1>5, <1>6, <1>7
    <2> HIDE DEF z
    <2>7. Faithful(z)
      BY <2>1, <2>5 DEF Faithful
    <2> QED BY <1>1, <2>4, <2>6, <2>7, OneAnswerChanges
  <1>8. CASE ~(r.buf > MaxLine)
    <2>1. l.len = r.buf /\ ~Ends(l)
      BY <1>2, <1>8 DEF Ready
    <2>2. conn' = [conn EXCEPT ![c] = NextLine(w)]
      <3> HIDE DEF w
      <3> QED BY <1>5, <1>6, <1>8
    <2> HIDE DEF w
    <2>3. Faithful(NextLine(w))
      BY <1>1, <1>2, <1>3, <1>4, <1>5, <2>1, NextLineIsFaithful
    <2>4. NextLine(w).pc = "read"
      BY <1>5 DEF NextLine, Connection
    <2> QED BY <1>1, <2>2, <2>3, <2>4, OneAnswerChanges
  <1> QED BY <1>7, <1>8

\* However the bytes arrive and whatever ends first, every step keeps the
\* answers in line with the script.
LEMMA AnswerInvStep == ConnInv /\ AnswerInv /\ [Next]_vars => AnswerInv'
  <1> SUFFICES ASSUME ConnInv, AnswerInv, [Next]_vars PROVE AnswerInv'
    OBVIOUS
  <1>0. ASSUME NEW c \in Conns PROVE conn[c] \in Connection /\ Good(conn[c]) /\ Faithful(conn[c])
    BY DEF ConnInv, AnswerInv
  <1>1. ASSUME NEW c \in Conns, NEW s \in Scripts, Accept(c, s) PROVE AnswerInv'
    <2>1. conn' = [conn EXCEPT ![c] = NewConn(s)] /\ cut' = cut /\ NewConn(s).pc = "read"
      BY <1>1 DEF Accept, NewConn
    <2>2. NewConn(s) \in Connection
      <3>1. s \in Seq(Line) /\ Len(s) \in 0..Len(s)
        BY TextServerAssumption
      <3>2. Bytes(s)[Len(s)] \in Nat /\ "read" \in Pcs
        BY <3>1, BytesType DEF Pcs
      <3> QED BY <3>1, <3>2, NewConnType DEF NewConn
    <2> QED BY <2>1, <2>2, NewConnIsFaithful, OneAnswerChanges
  <1>2. ASSUME NEW c \in Conns, NEW n \in 1..BufSize, Fill(c, n) PROVE AnswerInv'
    <2> DEFINE r == conn[c]
               f == [r EXCEPT !.buffered = @ + n, !.left = @ - n]
    <2>1. r \in Connection /\ Faithful(r) /\ r.pc = "read" /\ cut' = cut
      BY <1>0, <1>2 DEF Fill, Waits
    <2>2. Progress(r) /\ IsPrefix(r.out, Owed(r.script))
      BY <2>1 DEF Faithful
    <2>3. conn' = [conn EXCEPT ![c] = f]
      BY <1>2 DEF Fill
    <2>4. /\ f.pc = "read" /\ f.script = r.script /\ f.at = r.at /\ f.buf = r.buf
          /\ f.buffered = r.buffered + n /\ f.left = r.left - n /\ f.out = r.out
      BY <2>1 DEF Connection
    <2>5. Bytes(r.script)[r.at - 1] + r.buf + (r.buffered + n) + (r.left - n)
            = Bytes(r.script)[Len(r.script)]
      <3> DEFINE b == Bytes(r.script)[r.at - 1]
                 e == Bytes(r.script)[Len(r.script)]
      <3>1. b \in Nat /\ r.buf \in Nat /\ r.buffered \in Nat /\ r.left \in Nat /\ n \in Int
        BY <2>1, <2>2, ProgressType, TextServerAssumption
      <3>2. b + r.buf + r.buffered + r.left = e
        BY <2>2 DEF Progress
      <3> HIDE DEF b, e
      <3>3. b + r.buf + (r.buffered + n) + (r.left - n) = e
        BY <3>1, <3>2
      <3> QED BY <3>3 DEF b, e
    <2> HIDE DEF f
    <2>6. Progress(f)
      BY <2>2, <2>4, <2>5 DEF Progress
    <2>7. Faithful(f)
      BY <2>2, <2>4, <2>6 DEF Faithful
    <2> QED BY <2>1, <2>3, <2>4, <2>7, OneAnswerChanges
  <1>3. ASSUME NEW c \in Conns, ReadRest(c) PROVE AnswerInv'
    <2> DEFINE r == conn[c]
               n == r.script[r.at].len - r.buf
    <2>1. /\ Good(r) /\ r \in Connection /\ Faithful(r) /\ r.pc = "read" /\ HasNewline(r)
          /\ cut' = cut /\ conn' = [conn EXCEPT ![c] = Fragment(r, n, "line")]
      BY <1>0, <1>3 DEF ReadRest
    <2>2. r.script[r.at].len \in Nat \ {0} /\ r.buf \in Nat /\ r.buffered \in Nat
      BY <2>1, LineLength, TextServerAssumption DEF HasNewline, Connection
    <2>3. n \in 0..r.buffered /\ r.buf + n = r.script[r.at].len
      <3>1. r.buf + r.buffered >= r.script[r.at].len /\ r.buf < r.script[r.at].len
        BY <2>1 DEF HasNewline, Good, InLine
      <3> QED BY <2>2, <3>1
    <2>4. r.at <= Len(r.script) /\ r.script[r.at].ended
      BY <2>1 DEF HasNewline
    <2>5. r.buf + n <= r.script[r.at].len
      BY <2>2, <2>3
    <2> HIDE DEF n
    <2>6. Faithful(Fragment(r, n, "line"))
      BY <2>1, <2>3, <2>4, <2>5, FragmentIsFaithful
    <2>7. Fragment(r, n, "line").pc # "closed"
      BY <2>1 DEF Fragment, Connection
    <2> QED BY <2>1, <2>6, <2>7, OneAnswerChanges
  <1>4. ASSUME NEW c \in Conns, NEW next \in {"read", "closed"},
               conn[c].pc = "read", ~HasNewline(conn[c])
        PROVE  Faithful(Fragment(conn[c], conn[c].buffered, next))
    <2> DEFINE r == conn[c]
    <2>1. r \in Connection /\ Faithful(r) /\ r.buf \in Nat /\ r.buffered \in Nat
      BY <1>0, TextServerAssumption DEF Connection
    <2>2. r.buffered \in 0..r.buffered
      BY <2>1
    <2>3. ASSUME r.at <= Len(r.script), r.script[r.at].ended
          PROVE  r.buf + r.buffered <= r.script[r.at].len
      <3>1. r.script[r.at].len \in Nat
        BY <2>1, <2>3, LineLength DEF Connection
      <3> QED BY <1>4, <2>1, <2>3, <3>1 DEF HasNewline
    <2> HIDE DEF r
    <2>4. next \in {"read", "line", "closed"} /\ next # "line" /\ r.pc = "read"
      BY <1>4 DEF r
    <2>5. Faithful(Fragment(r, r.buffered, next))
      BY <2>1, <2>2, <2>3, <2>4, FragmentIsFaithful
    <2> QED BY <2>5 DEF r
  <1>5. ASSUME NEW c \in Conns, ReadFull(c) PROVE AnswerInv'
    <2> DEFINE r == conn[c]
               f == Fragment(r, r.buffered, "read")
    <2>1. Faithful(f)
      BY <1>4, <1>5 DEF ReadFull
    <2>2. conn' = [conn EXCEPT ![c] = f] /\ cut' = cut
      BY <1>5 DEF ReadFull
    <2>3. f.pc # "closed"
      BY <1>0 DEF Fragment, Connection
    <2> HIDE DEF f
    <2> QED BY <2>1, <2>2, <2>3, OneAnswerChanges
  <1>6. ASSUME NEW c \in Conns, ReadEOF(c) PROVE AnswerInv'
    <2> DEFINE r == conn[c]
               f == Fragment(r, r.buffered, "closed")
    <2>1. r.pc = "read" /\ ~HasNewline(r) /\ r.left = 0
      BY <1>6 DEF ReadEOF, Waits
    <2>2. Faithful(f)
      BY <1>4, <2>1
    <2>3. conn' = [conn EXCEPT ![c] = f] /\ cut' = cut
      BY <1>6 DEF ReadEOF
    <2>4. /\ f.pc = IF r.buf + r.buffered > MaxLine THEN "flush" ELSE "closed"
          /\ f.script = r.script /\ f.out = r.out
      BY <1>0 DEF Fragment, Connection
    <2>5. ASSUME f.pc = "closed" PROVE f.out = Owed(f.script)
      <3>1. ~(r.buf + r.buffered > MaxLine)
        BY <2>4, <2>5
      <3>2. r \in Connection /\ Progress(r)
        BY <1>0, <2>1 DEF Faithful
      <3>3. r.out = Owed(r.script)
        BY <2>1, <3>1, <3>2, EndOfScript
      <3> HIDE DEF f
      <3> QED BY <2>4, <3>3
    <2> HIDE DEF f
    <2> QED BY <2>2, <2>3, <2>5, OneAnswerChanges
  <1>7. ASSUME NEW c \in Conns, ReadDeadline(c) PROVE AnswerInv'
    <2> DEFINE f == Fragment(conn[c], conn[c].buffered, "closed")
    <2>1. conn[c].pc = "read" /\ ~HasNewline(conn[c])
      BY <1>7 DEF ReadDeadline, Waits
    <2>2. Faithful(f)
      BY <1>4, <2>1
    <2>3. conn' = [conn EXCEPT ![c] = f] /\ cut' = cut \cup {c}
      BY <1>7 DEF ReadDeadline
    <2> HIDE DEF f
    <2> QED BY <2>2, <2>3, OneAnswerChanges
  <1>8. ASSUME NEW c \in Conns, FlushFails(c) PROVE AnswerInv'
    <2> DEFINE z == [conn[c] EXCEPT !.pc = "closed"]
    <2>1. z.pc = "closed" /\ z.script = conn[c].script /\ z.out = conn[c].out
      BY <1>0 DEF Connection
    <2>2. conn' = [conn EXCEPT ![c] = z] /\ cut' = cut \cup {c}
      BY <1>8 DEF FlushFails
    <2> HIDE DEF z
    <2>3. Faithful(z)
      BY <1>0, <2>1 DEF Faithful
    <2> QED BY <2>2, <2>3, OneAnswerChanges
  <1>9. CASE Exit
    <2>1. ASSUME NEW c \in Conns
          PROVE  /\ Faithful(conn'[c])
                 /\ conn'[c].pc = "closed" /\ c \notin cut' => conn'[c].out = Owed(conn'[c].script)
      <3> DEFINE z == [conn[c] EXCEPT !.pc = "closed"]
      <3>1. z.pc = "closed" /\ z.script = conn[c].script /\ z.out = conn[c].out
        BY <1>0 DEF Connection
      <3>2. /\ conn'[c] = IF conn[c].pc = "none" THEN conn[c] ELSE z
            /\ c \notin cut' => c \notin cut /\ conn[c].pc \in {"none", "closed"}
        BY <1>9 DEF Exit
      <3> HIDE DEF z
      <3>3. Faithful(z)
        BY <1>0, <3>1 DEF Faithful
      <3>4. CASE conn[c].pc = "none"
        BY <1>0, <3>2, <3>4
      <3>5. CASE conn[c].pc # "none"
        <4>1. conn'[c] = z
          BY <3>2, <3>5
        <4>2. c \notin cut' => conn[c].out = Owed(conn[c].script)
          BY <3>2, <3>5 DEF AnswerInv
        <4> QED BY <3>1, <3>3, <4>1, <4>2
      <3> QED BY <3>4, <3>5
    <2> QED BY <2>1 DEF AnswerInv
  <1>10. ASSUME NEW c \in Conns, Dispatch(c) \/ Flush(c) PROVE AnswerInv'
    BY <1>10, DispatchIsFaithful, FlushIsFaithful
  <1>11. CASE UNCHANGED <<conn, cut>>
    BY <1>11 DEF AnswerInv
  <1> QED BY <1>1, <1>2, <1>3, <1>5, <1>6, <1>7, <1>8, <1>9, <1>10, <1>11
          DEF Next, MainStep, ConnStep, Bind, BindFails, Publish, Discard, AcceptOnClosed,
              AcceptFails, JudgeError, CloseStore, GCLoopReturns, Close, CloseListener,
              PeerChanges, vars, connVars

\* Nothing has been sent to nobody.
LEMMA AnswerInvInit == Init => AnswerInv
  <1> SUFFICES ASSUME Init, NEW c \in Conns PROVE Faithful(conn[c]) /\ conn[c].pc # "closed"
    BY DEF AnswerInv
  <1>1. conn[c] = NoConn
    BY DEF Init
  <1>2. NoConn.pc = "none" /\ NoConn.script = <<>> /\ NoConn.out = <<>>
    BY DEF NoConn, NewConn
  <1>3. <<>> \in Seq(Line) /\ 0 \in 0..Len(<<>>)
    OBVIOUS
  <1>4. OwedUpTo(<<>>)[0] = <<>> /\ IsPrefix(OwedUpTo(<<>>)[0], Owed(<<>>))
    BY <1>3, OwedUnfolds, OwedSoFar
  <1> QED BY <1>1, <1>2, <1>4 DEF Faithful

\* However its bytes are cut up on the way, a client is sent a beginning of the
\* answers it is owed, in order, and all of them if its connection ended in
\* order: handleConn and readLine skip no line and answer none twice.
THEOREM AnswersInOrder == Spec => []AnswersMatchLines
  <1>1. AnswerInv => AnswersMatchLines
    BY DEF AnswerInv, Faithful, AnswersMatchLines
  <1> QED BY <1>1, ConnInvInit, ConnInvStep, AnswerInvInit, AnswerInvStep, PTL DEF Spec
=============================================================================
