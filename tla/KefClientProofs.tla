--------------------------- MODULE KefClientProofs ---------------------------
(***************************************************************************)
(* Theorems about KefClient, for any number of operations, any streams and *)
(* any limits: connections follow one another, and the client keeps the    *)
(* promise of KefLine.                                                     *)
(***************************************************************************)
EXTENDS KefClient, KefCodecProofs

-----------------------------------------------------------------------------
(* A queue that holds nobody twice *)

Once(queue) == \A i, j \in DOMAIN queue : queue[i] = queue[j] => i = j
In(p, queue) == \E i \in DOMAIN queue : queue[i] = p

\* Who joins is last, and nobody is overtaken.
LEMMA JoinQueue ==
    ASSUME NEW S, NEW queue \in Seq(S), NEW p \in S, Once(queue), ~In(p, queue)
    PROVE  /\ Append(queue, p) \in Seq(S) /\ Once(Append(queue, p))
           /\ \A q : In(q, Append(queue, p)) <=> In(q, queue) \/ q = p
           /\ queue # <<>> => Head(Append(queue, p)) = Head(queue)
           /\ queue = <<>> => Head(Append(queue, p)) = p
           /\ Append(queue, p) # <<>>
<1> DEFINE longer == Append(queue, p)
<1>1. /\ longer \in Seq(S) /\ Len(longer) = Len(queue) + 1
      /\ \A i \in DOMAIN queue : longer[i] = queue[i]
      /\ longer[Len(queue) + 1] = p /\ DOMAIN longer = 1..(Len(queue) + 1)
      /\ DOMAIN queue = 1..Len(queue) /\ Len(queue) \in Nat
  OBVIOUS
<1> HIDE DEF longer
<1>2. Once(longer)
  BY <1>1 DEF Once, In
<1>3. ASSUME NEW q PROVE In(q, longer) <=> In(q, queue) \/ q = p
  BY <1>1 DEF In
<1>4. longer # <<>> /\ (queue # <<>> => Head(longer) = Head(queue)) /\ (queue = <<>> => Head(longer) = p)
  BY <1>1
<1> QED
  BY <1>1, <1>2, <1>3, <1>4 DEF longer

\* The first one leaves.
LEMMA LeaveFront ==
    ASSUME NEW S, NEW queue \in Seq(S), Once(queue), queue # <<>>
    PROVE  /\ Tail(queue) \in Seq(S) /\ Once(Tail(queue))
           /\ \A q : In(q, Tail(queue)) <=> In(q, queue) /\ q # Head(queue)
<1> DEFINE rest == Tail(queue)
<1>1. /\ rest \in Seq(S) /\ DOMAIN rest = 1..(Len(queue) - 1)
      /\ \A i \in DOMAIN rest : rest[i] = queue[i + 1]
      /\ DOMAIN queue = 1..Len(queue) /\ Len(queue) \in Nat /\ Len(queue) >= 1
      /\ Head(queue) = queue[1]
  OBVIOUS
<1> HIDE DEF rest
<1>2. Once(rest)
  BY <1>1 DEF Once
<1>3. ASSUME NEW q PROVE In(q, rest) <=> In(q, queue) /\ q # Head(queue)
  <2>1. ASSUME In(q, rest) PROVE In(q, queue) /\ q # Head(queue)
    BY <1>1, <2>1 DEF In, Once
  <2>2. ASSUME In(q, queue), q # Head(queue) PROVE In(q, rest)
    <3>1. PICK i \in DOMAIN queue : queue[i] = q
      BY <2>2 DEF In
    <3>2. i - 1 \in DOMAIN rest /\ rest[i - 1] = q
      BY <1>1, <2>2, <3>1
    <3> QED
      BY <3>2 DEF In
  <2> QED
    BY <2>1, <2>2
<1> QED
  BY <1>1, <1>2, <1>3 DEF rest

\* One in the middle leaves; the first one stays first.
LEMMA LeaveQueue ==
    ASSUME NEW S, NEW queue \in Seq(S), Once(queue), NEW i \in DOMAIN queue
    PROVE  /\ RemoveAt(queue, i) \in Seq(S) /\ Once(RemoveAt(queue, i))
           /\ \A q : In(q, RemoveAt(queue, i)) <=> In(q, queue) /\ q # queue[i]
           /\ queue[i] # Head(queue) => /\ RemoveAt(queue, i) # <<>>
                                        /\ Head(RemoveAt(queue, i)) = Head(queue)
<1> DEFINE n == Len(queue)
           rest == RemoveAt(queue, i)
<1>1. n \in Nat /\ i \in 1..n /\ DOMAIN queue = 1..n /\ Head(queue) = queue[1]
  OBVIOUS
<1>2. /\ rest \in Seq(S) /\ Len(rest) = n - 1 /\ DOMAIN rest = 1..(n - 1)
      /\ \A j \in 1..(n - 1) : rest[j] = IF j < i THEN queue[j] ELSE queue[j + 1]
  <2> DEFINE front == SubSeq(queue, 1, i - 1)
             back == SubSeq(queue, i + 1, n)
  <2>1. /\ front \in Seq(S) /\ Len(front) = i - 1
        /\ \A j \in 1..(i - 1) : front[j] = queue[j]
    BY <1>1
  <2>2. /\ back \in Seq(S) /\ Len(back) = n - i
        /\ \A j \in 1..(n - i) : back[j] = queue[i + j]
    BY <1>1
  <2>3. rest = front \o back
    BY DEF RemoveAt
  <2> HIDE DEF front, back, rest, n
  <2>4. /\ rest \in Seq(S) /\ Len(rest) = n - 1 /\ DOMAIN rest = 1..(n - 1)
        /\ \A j \in 1..(n - 1) : rest[j] = IF j <= i - 1 THEN front[j] ELSE back[j - (i - 1)]
    <3>1. Len(front) + Len(back) = n - 1
      BY <1>1, <2>1, <2>2
    <3>2. rest \in Seq(S) /\ Len(rest) = n - 1
      BY <2>1, <2>2, <2>3, <3>1, Concatenated
    <3>3. \A j \in 1..(n - 1) : rest[j] = IF j <= i - 1 THEN front[j] ELSE back[j - (i - 1)]
      BY <2>1, <2>2, <2>3, <3>1, Concatenated
    <3> QED
      BY <3>2, <3>3
  <2>5. ASSUME NEW j \in 1..(n - 1)
        PROVE  rest[j] = IF j < i THEN queue[j] ELSE queue[j + 1]
    <3>1. CASE j < i
      BY <1>1, <2>1, <2>4, <3>1
    <3>2. CASE ~(j < i)
      <4>1. j - (i - 1) \in 1..(n - i) /\ i + (j - (i - 1)) = j + 1 /\ ~(j <= i - 1)
        BY <1>1, <3>2
      <4> QED
        BY <2>2, <2>4, <3>2, <4>1
    <3> QED
      BY <3>1, <3>2
  <2> QED
    BY <2>4, <2>5
<1> HIDE DEF rest, n
<1>3. Once(rest)
  <2> SUFFICES ASSUME NEW j \in 1..(n - 1), NEW k \in 1..(n - 1), rest[j] = rest[k]
               PROVE  j = k
    BY <1>2 DEF Once
  <2>1. \A a, b \in 1..n : queue[a] = queue[b] => a = b
    BY <1>1 DEF Once
  <2>2. PICK a \in 1..n : rest[j] = queue[a] /\ a = IF j < i THEN j ELSE j + 1
    BY <1>1, <1>2
  <2>3. PICK b \in 1..n : rest[k] = queue[b] /\ b = IF k < i THEN k ELSE k + 1
    BY <1>1, <1>2
  <2>4. a = b
    BY <2>1, <2>2, <2>3
  <2> QED
    BY <1>1, <2>2, <2>3, <2>4
<1>4. ASSUME NEW q PROVE In(q, rest) <=> In(q, queue) /\ q # queue[i]
  <2>1. ASSUME In(q, rest) PROVE In(q, queue) /\ q # queue[i]
    BY <1>1, <1>2, <2>1 DEF In, Once
  <2>2. ASSUME In(q, queue), q # queue[i] PROVE In(q, rest)
    <3>1. PICK j \in 1..n : queue[j] = q
      BY <1>1, <2>2 DEF In
    <3>2. CASE j < i
      BY <1>1, <1>2, <3>1, <3>2 DEF In
    <3>3. CASE j > i
      <4>1. j - 1 \in 1..(n - 1) /\ ~(j - 1 < i) /\ (j - 1) + 1 = j
        BY <1>1, <3>3
      <4> QED
        BY <1>2, <3>1, <4>1 DEF In
    <3> QED
      BY <1>1, <2>2, <3>1, <3>2, <3>3
  <2> QED
    BY <2>1, <2>2
<1>5. queue[i] # Head(queue) => rest # <<>> /\ Head(rest) = Head(queue)
  <2> SUFFICES ASSUME queue[i] # Head(queue) PROVE rest # <<>> /\ Head(rest) = Head(queue)
    OBVIOUS
  <2>1. 1 < i /\ 1 \in 1..(n - 1)
    BY <1>1
  <2>2. rest[1] = queue[1] /\ Len(rest) >= 1
    BY <1>1, <1>2, <2>1
  <2> QED
    BY <1>1, <1>2, <2>2
<1> QED
  BY <1>2, <1>3, <1>4, <1>5 DEF rest

-----------------------------------------------------------------------------
(* The inductive invariant *)

ControlTypes ==
    /\ stage \in [Ops -> Stages] /\ result \in [Ops -> Result \cup {None}]
    /\ lock \in Seq(Ops \cup {Closer}) /\ closer \in {"open", "waiting", "closed"}
    /\ received \subseteq Ops

\* Who waits for the lock, or has it.
Wants(p) == IF p = Closer THEN closer = "waiting" ELSE stage[p] \in OnLine \cup {"waiting"}

Queued == Once(lock) /\ \A p \in Ops \cup {Closer} : In(p, lock) <=> Wants(p)

\* Only the holder of the lock is on the line.
Exclusive == \A o \in Ops : stage[o] \in OnLine => Holds(o)

\* A request is sent when the connection is there, and what an operation ends
\* with says so.
Sent ==
    \A o \in Ops :
        /\ stage[o] \in {"idle", "waiting", "connecting"} => o \notin received
        /\ stage[o] \in {"responding", "closing", "resting"} => o \in received
        /\ stage[o] \in {"closing", "resting", "done", "cut"} =>
               result[o] \in Result /\ (result[o].kind = "cancelled" \/ (result[o].sent <=> o \in received))

\* The speaker is busy or recovering only on behalf of somebody.
Recovering ==
    line # "free" => \E o \in Ops : stage[o] \in {"responding", "closing", "resting", "cut"}

Control == ControlTypes /\ Queued /\ Exclusive /\ Sent /\ Recovering

\* At first nobody has called and nothing is queued.
LEMMA InitControl == Init => Control
<1> SUFFICES ASSUME Init PROVE Control
  OBVIOUS
<1>1. ControlTypes
  BY DEF Init, ControlTypes, Stages
<1>2. Queued
  BY ClientAssumption DEF Init, Queued, Once, In, Wants, OnLine
<1>3. Exclusive /\ Sent /\ Recovering
  BY DEF Init, Exclusive, OnLine, Sent, Recovering
<1> QED
  BY <1>1, <1>2, <1>3 DEF Control

\* Reading goes on, or ends the exchange in one of the known ways.
LEMMA Reading ==
    ASSUME NEW o \in Ops,
           Read(o) \/ EndOfStream(o) \/ Break(o) \/ ResponseTimesOut(o) \/ CancelExchange(o)
    PROVE  /\ stage[o] = "responding" /\ UNCHANGED <<lock, closer, received>>
           /\ \/ UNCHANGED <<stage, result, line>>
              \/ \E kind \in ResultKinds : Finish(o, kind)
<1> USE DEF ResultKinds
<1>1. CASE Read(o)
  <2>1. ASSUME NEW r, NEW frame PROVE Verdict(r, frame) \in ResultKinds
    BY DEF Verdict
  <2>2. \/ UNCHANGED <<stage, result, line>>
        \/ Finish(o, "malformed")
        \/ \E frame : Finish(o, Verdict(request[o], frame))
    BY <1>1 DEF Read
  <2> QED
    BY <1>1, <2>1, <2>2 DEF Read
<1>2. CASE EndOfStream(o)
  BY <1>2 DEF EndOfStream
<1>3. CASE Break(o)
  BY <1>3 DEF Break
<1>4. CASE ResponseTimesOut(o)
  BY <1>4 DEF ResponseTimesOut
<1>5. CASE CancelExchange(o)
  BY <1>5 DEF CancelExchange
<1> QED
  BY <1>1, <1>2, <1>3, <1>4, <1>5

\* An operation that has the lock goes from one stage on the line to another.
LEMMA HolderMoves ==
    ASSUME Control, NEW o \in Ops, Holds(o), stage[o] \in OnLine \cup {"waiting"},
           NEW s \in OnLine, stage' = [stage EXCEPT ![o] = s], UNCHANGED <<lock, closer>>
    PROVE  Queued' /\ Exclusive'
<1> USE DEF Control, ControlTypes
<1>1. \A p \in Ops : stage'[p] = IF p = o THEN s ELSE stage[p]
  OBVIOUS
<1>2. Queued'
  BY <1>1, ClientAssumption DEF Queued, Wants
<1>3. Exclusive'
  BY <1>1 DEF Exclusive, Holds
<1> QED
  BY <1>2, <1>3

\* An operation ends and hands the lock on.
LEMMA HolderLeaves ==
    ASSUME Control, NEW o \in Ops, Holds(o), NEW s \in {"done", "cut"},
           stage' = [stage EXCEPT ![o] = s], lock' = Tail(lock), UNCHANGED closer
    PROVE  lock' \in Seq(Ops \cup {Closer}) /\ Queued' /\ Exclusive'
<1> USE DEF Control, ControlTypes
<1>1. \A p \in Ops : stage'[p] = IF p = o THEN s ELSE stage[p]
  OBVIOUS
<1>2. lock # <<>> /\ Head(lock) = o /\ Once(lock)
  BY DEF Holds, Queued
<1>3. /\ lock' \in Seq(Ops \cup {Closer}) /\ Once(lock')
      /\ \A p : In(p, lock') <=> In(p, lock) /\ p # o
  BY <1>2, LeaveFront
<1>4. Queued'
  BY <1>1, <1>3, ClientAssumption DEF Queued, Wants, OnLine
<1>5. Exclusive'
  <2>1. \A p \in Ops : p # o => stage[p] \notin OnLine
    BY <1>2 DEF Exclusive, Holds
  <2> QED
    BY <1>1, <2>1 DEF Exclusive, OnLine
<1> QED
  BY <1>3, <1>4, <1>5

\* An operation or async_close asks for the lock.
LEMMA Joins ==
    ASSUME Control, NEW p \in Ops \cup {Closer}, ~Wants(p), lock' = Append(lock, p),
           \/ /\ p \in Ops /\ stage' = [stage EXCEPT ![p] = "waiting"] /\ UNCHANGED closer
           \/ p = Closer /\ closer' = "waiting" /\ UNCHANGED stage
    PROVE  lock' \in Seq(Ops \cup {Closer}) /\ Queued' /\ Exclusive'
<1> USE DEF Control, ControlTypes
<1>1. Once(lock) /\ ~In(p, lock)
  BY DEF Queued
<1>2. /\ lock' \in Seq(Ops \cup {Closer}) /\ Once(lock')
      /\ \A q : In(q, lock') <=> In(q, lock) \/ q = p
      /\ lock # <<>> => lock' # <<>> /\ Head(lock') = Head(lock)
  BY <1>1, JoinQueue
<1>3. \A q \in Ops : stage'[q] = IF q = p THEN "waiting" ELSE stage[q]
  BY ClientAssumption
<1>4. Queued'
  BY <1>2, <1>3, ClientAssumption DEF Queued, Wants
<1>5. Exclusive'
  BY <1>2, <1>3 DEF Exclusive, Holds, OnLine
<1> QED
  BY <1>2, <1>4, <1>5

\* Somebody in the middle of the line, or its holder, gives up.
LEMMA GivesUp ==
    ASSUME Control, NEW o \in Ops, stage[o] \in OnLine \cup {"waiting"},
           stage' = [stage EXCEPT ![o] = "done"], lock' = Without(o), UNCHANGED closer
    PROVE  lock' \in Seq(Ops \cup {Closer}) /\ Queued' /\ Exclusive'
<1> USE DEF Control, ControlTypes
<1> DEFINE i == CHOOSE j \in DOMAIN lock : lock[j] = o
<1>1. Once(lock) /\ In(o, lock)
  BY ClientAssumption DEF Queued, Wants
<1>2. i \in DOMAIN lock /\ lock[i] = o
  BY <1>1 DEF In
<1>3. lock' = RemoveAt(lock, i)
  BY DEF Without
<1> HIDE DEF i
<1>4. /\ lock' \in Seq(Ops \cup {Closer}) /\ Once(lock')
      /\ \A q : In(q, lock') <=> In(q, lock) /\ q # o
      /\ o # Head(lock) => lock' # <<>> /\ Head(lock') = Head(lock)
  BY <1>1, <1>2, <1>3, LeaveQueue
<1>5. \A q \in Ops : stage'[q] = IF q = o THEN "done" ELSE stage[q]
  OBVIOUS
<1>6. Queued'
  BY <1>4, <1>5, ClientAssumption DEF Queued, Wants, OnLine
<1>7. Exclusive'
  BY <1>4, <1>5 DEF Exclusive, Holds, OnLine
<1> QED
  BY <1>4, <1>6, <1>7

\* What an operation sends, and ends with, fits the stage it goes to.
LEMMA OutcomeStep ==
    ASSUME Control, NEW o \in Ops, NEW s \in Stages, NEW end \in Result \cup {None},
           NEW sent \in BOOLEAN,
           stage' = [stage EXCEPT ![o] = s], result' = [result EXCEPT ![o] = end],
           received' = IF sent THEN received \cup {o} ELSE received,
           s \in {"idle", "waiting", "connecting"} => o \notin received',
           s \in {"responding", "closing", "resting"} => o \in received',
           s \in {"closing", "resting", "done", "cut"} =>
               end # None /\ (end.kind = "cancelled" \/ (end.sent <=> o \in received'))
    PROVE  /\ stage' \in [Ops -> Stages] /\ result' \in [Ops -> Result \cup {None}]
           /\ received' \subseteq Ops /\ Sent'
<1> USE DEF Control, ControlTypes
<1>1. /\ stage' \in [Ops -> Stages] /\ result' \in [Ops -> Result \cup {None}]
      /\ received' \subseteq Ops
  OBVIOUS
<1>2. stage'[o] = s /\ result'[o] = end
  OBVIOUS
<1>3. \A p \in Ops \ {o} : /\ stage'[p] = stage[p] /\ result'[p] = result[p]
                           /\ p \in received' <=> p \in received
  OBVIOUS
<1>4. Sent'
  <2>1. Sent
    OBVIOUS
  <2> HIDE DEF Control, ControlTypes
  <2> QED
    BY <1>2, <1>3, <2>1, ClientAssumption DEF Sent
<1> QED
  BY <1>1, <1>4

\* Every step of an operation keeps the invariant.
LEMMA OperationStep ==
    ASSUME Control, NEW o \in Ops, Call(o) \/ Advance(o) \/ Speaker(o) \/ Cancel(o)
    PROVE  Control'
<1>1. /\ stage \in [Ops -> Stages] /\ result \in [Ops -> Result \cup {None}]
      /\ lock \in Seq(Ops \cup {Closer}) /\ closer \in {"open", "waiting", "closed"}
      /\ received \subseteq Ops
      /\ result = [result EXCEPT ![o] = result[o]] /\ result[o] \in Result \cup {None}
  BY DEF Control, ControlTypes
<1>2. o # Closer /\ None \notin Result
  BY ClientAssumption
<1>3. stage[o] \in OnLine => Holds(o)
  BY DEF Control, Exclusive
<1>4. Sent /\ Recovering
  BY DEF Control
<1> DEFINE Outcomes == /\ stage' \in [Ops -> Stages] /\ result' \in [Ops -> Result \cup {None}]
                       /\ received' \subseteq Ops /\ Sent'
           InTurn == lock' \in Seq(Ops \cup {Closer}) /\ Queued' /\ Exclusive'
<1>5. ASSUME Outcomes, InTurn, Recovering', closer' \in {"open", "waiting", "closed"}
      PROVE  Control'
  BY <1>5 DEF Control, ControlTypes
<1>6. CASE Call(o)
  <2>1. /\ stage[o] = "idle" /\ stage' = [stage EXCEPT ![o] = "waiting"]
        /\ lock' = Append(lock, o) /\ UNCHANGED <<result, closer, line, received>>
    BY <1>6 DEF Call
  <2>2. Outcomes
    BY <1>1, <1>4, <2>1, OutcomeStep DEF Stages, Sent
  <2>3. InTurn
    BY <1>2, <2>1, Joins DEF Wants, OnLine
  <2>4. Recovering'
    BY <1>1, <1>4, <2>1 DEF Recovering
  <2> QED
    BY <1>1, <1>5, <2>1, <2>2, <2>3, <2>4
<1>7. CASE BeginConnect(o)
  <2>1. /\ stage[o] = "waiting" /\ Holds(o) /\ stage' = [stage EXCEPT ![o] = "connecting"]
        /\ UNCHANGED <<result, lock, closer, line, received>>
    BY <1>7 DEF BeginConnect
  <2>2. Outcomes
    BY <1>1, <1>4, <2>1, OutcomeStep DEF Stages, Sent
  <2>3. InTurn
    BY <1>1, <2>1, HolderMoves DEF OnLine
  <2>4. Recovering'
    BY <1>1, <1>4, <2>1 DEF Recovering
  <2> QED
    BY <1>1, <1>5, <2>1, <2>2, <2>3, <2>4
<1>8. CASE RefuseClosed(o)
  <2>1. /\ stage[o] = "waiting" /\ Holds(o) /\ stage' = [stage EXCEPT ![o] = "done"]
        /\ result' = [result EXCEPT ![o] = Ended("refused", FALSE)] /\ lock' = Tail(lock)
        /\ UNCHANGED <<closer, line, received>>
    BY <1>8 DEF RefuseClosed
  <2>2. Ended("refused", FALSE) \in Result /\ Ended("refused", FALSE).sent = FALSE
    BY DEF Ended, Result, ResultKinds
  <2>3. Outcomes
    <3>1. o \notin received
      BY <1>4, <2>1 DEF Sent
    <3>2. PICK end \in Result : end.sent = FALSE /\ result' = [result EXCEPT ![o] = end]
      BY <2>1, <2>2
    <3>3. received' = IF FALSE THEN received \cup {o} ELSE received
      BY <2>1
    <3>4. (end.sent <=> o \in received') /\ end # None
      BY <1>2, <3>1, <3>2, <3>3
    <3> QED
      BY <1>1, <2>1, <3>1, <3>2, <3>3, <3>4, OutcomeStep DEF Stages
  <2>4. InTurn
    BY <2>1, HolderLeaves
  <2>5. Recovering'
    BY <1>1, <1>4, <2>1 DEF Recovering
  <2> QED
    BY <1>1, <1>5, <2>1, <2>3, <2>4, <2>5
<1>9. CASE ConnectFails(o)
  <2>1. /\ stage[o] = "connecting" /\ stage' = [stage EXCEPT ![o] = "done"]
        /\ result' = [result EXCEPT ![o] = Ended("unconnected", FALSE)] /\ lock' = Tail(lock)
        /\ UNCHANGED <<closer, line, received>>
    BY <1>9 DEF ConnectFails
  <2>2. Ended("unconnected", FALSE) \in Result /\ Ended("unconnected", FALSE).sent = FALSE
    BY DEF Ended, Result, ResultKinds
  <2>3. Outcomes
    <3>1. o \notin received
      BY <1>4, <2>1 DEF Sent
    <3>2. PICK end \in Result : end.sent = FALSE /\ result' = [result EXCEPT ![o] = end]
      BY <2>1, <2>2
    <3>3. received' = IF FALSE THEN received \cup {o} ELSE received
      BY <2>1
    <3>4. (end.sent <=> o \in received') /\ end # None
      BY <1>2, <3>1, <3>2, <3>3
    <3> QED
      BY <1>1, <2>1, <3>1, <3>2, <3>3, <3>4, OutcomeStep DEF Stages
  <2>4. InTurn
    BY <1>3, <2>1, HolderLeaves DEF OnLine
  <2>5. Recovering'
    BY <1>1, <1>4, <2>1 DEF Recovering
  <2> QED
    BY <1>1, <1>5, <2>1, <2>3, <2>4, <2>5
<1>10. CASE Connected(o)
  <2>1. /\ stage[o] = "connecting" /\ stage' = [stage EXCEPT ![o] = "responding"]
        /\ received' = received \cup {o} /\ UNCHANGED <<result, lock, closer>>
    BY <1>10 DEF Connected
  <2>2. Outcomes
    BY <1>1, <1>4, <2>1, OutcomeStep DEF Stages
  <2>3. InTurn
    BY <1>1, <1>3, <2>1, HolderMoves DEF OnLine
  <2>4. Recovering'
    BY <1>1, <2>1 DEF Recovering
  <2> QED
    BY <1>1, <1>5, <2>1, <2>2, <2>3, <2>4
<1>11. CASE Read(o) \/ EndOfStream(o) \/ Break(o) \/ ResponseTimesOut(o) \/ CancelExchange(o)
  <2>1. /\ stage[o] = "responding" /\ UNCHANGED <<lock, closer, received>>
        /\ \/ UNCHANGED <<stage, result, line>>
           \/ \E kind \in ResultKinds : Finish(o, kind)
    BY <1>11, Reading
  <2>2. CASE UNCHANGED <<stage, result, line>>
    BY <2>1, <2>2 DEF Control, ControlTypes, Queued, Wants, Exclusive, Holds, Sent, Recovering
  <2>3. CASE \E kind \in ResultKinds : Finish(o, kind)
    <3>1. PICK kind \in ResultKinds : /\ stage' = [stage EXCEPT ![o] = "closing"]
                                      /\ result' = [result EXCEPT ![o] = Ended(kind, TRUE)]
      BY <2>3 DEF Finish
    <3>2. Ended(kind, TRUE) \in Result /\ Ended(kind, TRUE).sent = TRUE
      BY DEF Ended, Result
    <3>3. o \in received
      BY <1>4, <2>1 DEF Sent
    <3>4. Outcomes
      BY <1>1, <1>2, <2>1, <3>1, <3>2, <3>3, OutcomeStep DEF Stages
    <3>5. InTurn
      BY <1>1, <1>3, <2>1, <3>1, HolderMoves DEF OnLine
    <3>6. Recovering'
      BY <1>1, <3>1 DEF Recovering
    <3> QED
      BY <1>1, <1>5, <2>1, <3>4, <3>5, <3>6
  <2> QED
    BY <2>1, <2>2, <2>3
<1>12. CASE WriterCloses(o)
  <2>1. /\ stage[o] = "closing" /\ stage' = [stage EXCEPT ![o] = "resting"]
        /\ UNCHANGED <<result, lock, closer, line, received>>
    BY <1>12 DEF WriterCloses
  <2>2. Outcomes
    BY <1>1, <1>2, <1>4, <2>1, OutcomeStep DEF Stages, Sent
  <2>3. InTurn
    BY <1>1, <1>3, <2>1, HolderMoves DEF OnLine
  <2>4. Recovering'
    BY <1>1, <2>1 DEF Recovering
  <2> QED
    BY <1>1, <1>5, <2>1, <2>2, <2>3, <2>4
<1>13. CASE ReconnectDelayEnds(o)
  <2>1. /\ stage[o] = "resting" /\ stage' = [stage EXCEPT ![o] = "done"]
        /\ line' = "free" /\ lock' = Tail(lock) /\ UNCHANGED <<result, closer, received>>
    BY <1>13 DEF ReconnectDelayEnds
  <2>2. Outcomes
    BY <1>1, <1>2, <1>4, <2>1, OutcomeStep DEF Stages, Sent
  <2>3. InTurn
    BY <1>3, <2>1, HolderLeaves DEF OnLine
  <2> QED
    BY <1>1, <1>5, <2>1, <2>2, <2>3 DEF Recovering
<1>14. CASE CancelEarly(o)
  <2>1. /\ stage[o] \in {"waiting", "connecting"} /\ stage' = [stage EXCEPT ![o] = "done"]
        /\ result' = [result EXCEPT ![o] = Ended("cancelled", FALSE)] /\ lock' = Without(o)
        /\ UNCHANGED <<closer, line, received>>
    BY <1>14 DEF CancelEarly
  <2>2. Ended("cancelled", FALSE) \in Result /\ Ended("cancelled", FALSE).kind = "cancelled"
    BY DEF Ended, Result, ResultKinds
  <2>3. Outcomes
    BY <1>1, <1>2, <2>1, <2>2, OutcomeStep DEF Stages
  <2>4. InTurn
    BY <2>1, GivesUp DEF OnLine
  <2>5. Recovering'
    BY <1>1, <1>4, <2>1 DEF Recovering
  <2> QED
    BY <1>1, <1>5, <2>1, <2>3, <2>4, <2>5
<1>15. CASE CancelCleanup(o)
  <2>1. /\ stage[o] \in {"closing", "resting"} /\ stage' = [stage EXCEPT ![o] = "cut"]
        /\ result' = [result EXCEPT ![o] = Ended("cancelled", TRUE)] /\ lock' = Tail(lock)
        /\ UNCHANGED <<closer, line, received>>
    BY <1>15 DEF CancelCleanup
  <2>2. Ended("cancelled", TRUE) \in Result /\ Ended("cancelled", TRUE).kind = "cancelled"
    BY DEF Ended, Result, ResultKinds
  <2>3. Outcomes
    BY <1>1, <1>2, <2>1, <2>2, OutcomeStep DEF Stages
  <2>4. InTurn
    BY <1>3, <2>1, HolderLeaves DEF OnLine
  <2>5. Recovering'
    BY <1>1, <2>1 DEF Recovering
  <2> QED
    BY <1>1, <1>5, <2>1, <2>3, <2>4, <2>5
<1>16. CASE ConnectAbandoned(o)
  <2>1. /\ stage[o] = "connecting" /\ stage' = [stage EXCEPT ![o] = "cut"]
        /\ lock' = Tail(lock) /\ line' = "closing" /\ UNCHANGED <<closer, received>>
    BY <1>16 DEF ConnectAbandoned
  <2>2. PICK kind \in {"unconnected", "cancelled"} : result' = [result EXCEPT ![o] = Ended(kind, FALSE)]
    BY <1>16 DEF ConnectAbandoned
  <2>3. Ended(kind, FALSE) \in Result /\ Ended(kind, FALSE).sent = FALSE
    BY DEF Ended, Result, ResultKinds
  <2>4. Outcomes
    <3>1. o \notin received
      BY <1>4, <2>1 DEF Sent
    <3>2. PICK end \in Result : end.sent = FALSE /\ result' = [result EXCEPT ![o] = end]
      BY <2>2, <2>3
    <3>3. received' = IF FALSE THEN received \cup {o} ELSE received
      BY <2>1
    <3>4. (end.sent <=> o \in received') /\ end # None
      BY <1>2, <3>1, <3>2, <3>3
    <3> QED
      BY <1>1, <2>1, <3>1, <3>2, <3>3, <3>4, OutcomeStep DEF Stages
  <2>5. InTurn
    BY <1>3, <2>1, HolderLeaves DEF OnLine
  <2>6. Recovering'
    BY <1>1, <2>1 DEF Recovering
  <2> QED
    BY <1>1, <1>5, <2>1, <2>4, <2>5, <2>6
<1> QED
  BY <1>6, <1>7, <1>8, <1>9, <1>10, <1>11, <1>12, <1>13, <1>14, <1>15, <1>16
     DEF Advance, Speaker, Cancel

\* Every step keeps the control of the line.
LEMMA ControlStep == Control /\ [Next]_vars => Control'
<1> SUFFICES ASSUME Control, [Next]_vars PROVE Control'
  OBVIOUS
<1>1. CASE \E o \in Ops : Call(o) \/ Advance(o) \/ Speaker(o) \/ Cancel(o)
  BY <1>1, OperationStep
<1>2. CASE LineRecovers
  BY <1>2 DEF LineRecovers, Control, ControlTypes, Queued, Wants, Exclusive, Holds, Sent, Recovering
<1>3. CASE CallClose
  <2>1. /\ closer = "open" /\ closer' = "waiting" /\ lock' = Append(lock, Closer)
        /\ UNCHANGED <<stage, result, line, received>>
    BY <1>3 DEF CallClose
  <2>2. lock' \in Seq(Ops \cup {Closer}) /\ Queued' /\ Exclusive'
    BY <2>1, Joins DEF Wants
  <2> QED
    BY <2>1, <2>2 DEF Control, ControlTypes, Sent, Recovering
<1>4. CASE Close
  <2>1. /\ lock # <<>> /\ Head(lock) = Closer /\ closer' = "closed" /\ lock' = Tail(lock)
        /\ UNCHANGED <<stage, result, line, received>>
    BY <1>4 DEF Close, Holds
  <2>2. /\ lock' \in Seq(Ops \cup {Closer}) /\ Once(lock')
        /\ \A q : In(q, lock') <=> In(q, lock) /\ q # Closer
    BY <2>1, LeaveFront DEF Control, ControlTypes, Queued
  <2>3. Queued'
    BY <2>1, <2>2, ClientAssumption DEF Control, Queued, Wants
  <2>4. Exclusive'
    BY <2>1, ClientAssumption DEF Control, Exclusive, Holds
  <2> QED
    BY <2>1, <2>2, <2>3, <2>4 DEF Control, ControlTypes, Sent, Recovering
<1>5. CASE UNCHANGED vars
  BY <1>5 DEF vars, Control, ControlTypes, Queued, Wants, Exclusive, Holds, Sent, Recovering
<1> QED
  BY <1>1, <1>2, <1>3, <1>4, <1>5 DEF Next

\* The control of the line is an invariant.
LEMMA ControlHolds == Spec => []Control
BY InitControl, ControlStep, PTL DEF Spec

-----------------------------------------------------------------------------
(* Theorems *)

\* An operation connects only when the speaker has recovered from the connection
\* before, unless a cleanup was itself cancelled or an operation was given up in the
\* moment it connected, for any number of operations.
THEOREM ConnectionsFollow == Spec => []OneConnection
<1>1. Control => OneConnection
  <2> SUFFICES ASSUME Control, NEW o \in Ops, stage[o] = "connecting", line # "free"
               PROVE  \E p \in Ops : stage[p] = "cut"
    BY DEF OneConnection
  <2>1. PICK p \in Ops : stage[p] \in {"responding", "closing", "resting", "cut"}
    BY DEF Control, Recovering
  <2>2. stage[p] \in OnLine => p = o
    BY DEF Control, Exclusive, OnLine, Holds
  <2> QED
    BY <2>1, <2>2 DEF OnLine
<1> QED
  BY <1>1, ControlHolds, PTL

-----------------------------------------------------------------------------
(* The promise of KefLine is kept *)

\* The line belongs to the operation that is beyond the lock.
LEMMA UserIsOnLine ==
    ASSUME Control
    PROVE  /\ \A o \in Ops : User = o <=> stage[o] \in OnLine
           /\ User \in Ops \cup {None}
BY ClientAssumption DEF Control, Exclusive, Holds, User

\* An operation that goes from stage to stage without ending: the line is taken,
\* or the request sent, or nothing happens that KefLine knows of.
LEMMA GoingOn ==
    ASSUME Control, Control', NEW o \in Ops, NEW s \in Stages \ {"done", "cut"},
           stage[o] \notin {"done", "cut"}, stage' = [stage EXCEPT ![o] = s],
           \A p \in Ops \ {o} : result'[p] = result[p],
           UNCHANGED closer,
           s \in OnLine /\ stage[o] \notin OnLine => closer # "closed",
           stage[o] \in OnLine => s \in OnLine,
           \/ UNCHANGED received
           \/ stage[o] \in OnLine /\ o \notin received /\ received' = received \cup {o}
    PROVE  Line!LineNext \/ UNCHANGED Line!lineVars
<1>1. \A p \in Ops : stage'[p] = IF p = o THEN s ELSE stage[p]
  BY DEF Control, ControlTypes
<1>2. Outcome' = Outcome /\ Outcome[o] = None
  BY <1>1 DEF Outcome
<1>3. /\ \A p \in Ops : User = p <=> stage[p] \in OnLine
      /\ User \in Ops \cup {None}
  BY UserIsOnLine
<1>4. /\ \A p \in Ops : User' = p <=> stage'[p] \in OnLine
      /\ User' \in Ops \cup {None}
  BY ClientAssumption DEF Control, Exclusive, Holds, User
<1>5. CASE stage[o] \in OnLine /\ o \notin received /\ received' = received \cup {o}
  <2>1. User = o /\ User' = o
    BY <1>1, <1>3, <1>4, <1>5
  <2>2. Line!SendRequest(o)
    BY <1>2, <1>5, <2>1 DEF Line!SendRequest
  <2> QED
    BY <2>2 DEF Line!LineNext
<1>6. CASE s \in OnLine /\ stage[o] \notin OnLine
  <2>1. User = None
    BY <1>1, <1>3, <1>4, <1>6
  <2>2. Line!TakeLine(o)
    BY <1>1, <1>2, <1>3, <1>4, <1>6, <2>1 DEF Line!TakeLine
  <2> QED
    BY <2>2 DEF Line!LineNext
<1>7. CASE (s \in OnLine <=> stage[o] \in OnLine) /\ UNCHANGED received
  <2>1. \A p \in Ops : User' = p <=> User = p
    BY <1>1, <1>3, <1>4, <1>7
  <2>2. User' = User
    BY <1>3, <1>4, <2>1
  <2> QED
    BY <1>2, <1>7, <2>2 DEF Line!lineVars
<1> QED
  BY <1>5, <1>6, <1>7

\* An operation that ends: it gives the line back, or ends without it, and says
\* the truth about its request.
LEMMA Ending ==
    ASSUME Control, Control', NEW o \in Ops, NEW s \in {"done", "cut"},
           stage[o] \in OnLine \cup {"waiting"}, stage' = [stage EXCEPT ![o] = s],
           \A p \in Ops \ {o} : result'[p] = result[p],
           UNCHANGED <<closer, received>>,
           stage[o] \notin OnLine =>
               \/ result'[o].kind = "cancelled"
               \/ closer = "closed" /\ result'[o] = Ended("refused", FALSE)
    PROVE  Line!LineNext
<1> DEFINE end == Ended(EndKind(result'[o].kind), result'[o].sent)
<1>1. \A p \in Ops : stage'[p] = IF p = o THEN s ELSE stage[p]
  BY DEF Control, ControlTypes
<1>2. stage[o] \notin {"done", "cut"}
  BY DEF OnLine
<1>3. Outcome' = [Outcome EXCEPT ![o] = end] /\ Outcome[o] = None
  BY <1>1, <1>2 DEF Outcome
<1>4. result'[o] \in Result /\ (result'[o].kind = "cancelled" \/ (result'[o].sent <=> o \in received'))
  BY <1>1 DEF Control, Sent
<1>5. /\ end \in Line!Ends
      /\ end.kind = EndKind(result'[o].kind) /\ end.sent = result'[o].sent
  BY <1>4 DEF Ended, EndKind, Line!Ends, Result
<1>6. /\ \A p \in Ops : User = p <=> stage[p] \in OnLine
      /\ User \in Ops \cup {None}
  BY UserIsOnLine
<1>7. /\ \A p \in Ops : User' = p <=> stage'[p] \in OnLine
      /\ User' \in Ops \cup {None}
  BY ClientAssumption DEF Control, Exclusive, Holds, User
<1> HIDE DEF end
<1>8. CASE stage[o] \in OnLine
  <2>1. User = o /\ User' = None
    BY <1>1, <1>6, <1>7, <1>8 DEF OnLine
  <2>2. Line!Truthful(end, o \in received)
    <3>1. CASE result'[o].kind = "cancelled"
      BY <1>5, <3>1 DEF Line!Truthful, EndKind
    <3>2. CASE result'[o].kind # "cancelled"
      <4>1. end.sent <=> o \in received
        BY <1>4, <1>5, <3>2
      <4>2. end.sent \in BOOLEAN /\ (o \in received) \in BOOLEAN
        BY <1>4, <1>5 DEF Result
      <4>3. end.sent = (o \in received)
        BY <4>1, <4>2
      <4>4. end.kind \in {"answered", "accepted", "rejected", "failed"}
        BY <1>5, <3>2 DEF EndKind
      <4> QED
        BY <4>3, <4>4 DEF Line!Truthful
    <3> QED
      BY <3>1, <3>2
  <2>3. Line!GiveBack(o)
    BY <1>3, <1>5, <2>1, <2>2 DEF Line!GiveBack
  <2> QED
    BY <2>3 DEF Line!LineNext
<1>9. CASE stage[o] \notin OnLine
  <2>1. User' = User /\ User # o
    <3>1. \A p \in Ops : User' = p <=> User = p
      BY <1>1, <1>6, <1>7, <1>9 DEF OnLine
    <3> QED
      BY <1>6, <1>7, <1>9, <3>1
  <2>2. end.kind = "cancelled" \/ (closer = "closed" /\ end = [kind |-> "failed", sent |-> FALSE])
    <3>1. CASE result'[o].kind = "cancelled"
      BY <1>5, <3>1 DEF EndKind
    <3>2. CASE closer = "closed" /\ result'[o] = Ended("refused", FALSE)
      <4>1. result'[o].kind = "refused" /\ result'[o].sent = FALSE
        BY <3>2 DEF Ended
      <4>2. end = Ended("failed", FALSE)
        BY <4>1 DEF end, EndKind
      <4> QED
        BY <3>2, <4>2 DEF Ended
    <3> QED
      BY <1>9, <3>1, <3>2
  <2>3. Line!EndWithoutLine(o)
    BY <1>3, <1>5, <2>1, <2>2 DEF Line!EndWithoutLine
  <2> QED
    BY <2>3 DEF Line!LineNext
<1> QED
  BY <1>8, <1>9

\* Every step of an operation is one of KefLine, or none of its business.
LEMMA OperationKeepsLine ==
    ASSUME Control, Control', NEW o \in Ops, Call(o) \/ Advance(o) \/ Speaker(o) \/ Cancel(o)
    PROVE  Line!LineNext \/ UNCHANGED Line!lineVars
<1>1. result \in [Ops -> Result \cup {None}] /\ stage \in [Ops -> Stages]
  BY DEF Control, ControlTypes
<1>2. Sent
  BY DEF Control
<1>3. CASE Call(o)
  BY <1>1, <1>3, GoingOn DEF Call, OnLine, Stages
<1>4. CASE BeginConnect(o)
  BY <1>1, <1>4, GoingOn DEF BeginConnect, OnLine, Stages
<1>5. CASE Connected(o)
  <2>1. /\ stage[o] = "connecting" /\ stage' = [stage EXCEPT ![o] = "responding"]
        /\ received' = received \cup {o} /\ UNCHANGED <<result, closer>>
    BY <1>5 DEF Connected
  <2>2. o \notin received
    BY <1>2, <2>1 DEF Sent
  <2> QED
    BY <2>1, <2>2, GoingOn DEF OnLine, Stages
<1>6. CASE Read(o) \/ EndOfStream(o) \/ Break(o) \/ ResponseTimesOut(o) \/ CancelExchange(o)
  <2>1. /\ stage[o] = "responding" /\ UNCHANGED <<lock, closer, received>>
        /\ \/ UNCHANGED <<stage, result, line>>
           \/ \E kind \in ResultKinds : Finish(o, kind)
    BY <1>6, Reading
  <2>2. CASE UNCHANGED <<stage, result, line>>
    BY <2>1, <2>2 DEF Line!lineVars, User, Outcome
  <2>3. CASE \E kind \in ResultKinds : Finish(o, kind)
    <3>1. /\ stage' = [stage EXCEPT ![o] = "closing"]
          /\ \A p \in Ops \ {o} : result'[p] = result[p]
      BY <1>1, <2>3 DEF Finish
    <3> QED
      BY <2>1, <3>1, GoingOn DEF OnLine, Stages
  <2> QED
    BY <2>1, <2>2, <2>3
<1>7. CASE WriterCloses(o)
  BY <1>1, <1>7, GoingOn DEF WriterCloses, OnLine, Stages
<1>8. CASE RefuseClosed(o)
  <2>1. /\ stage[o] = "waiting" /\ closer = "closed" /\ stage' = [stage EXCEPT ![o] = "done"]
        /\ result' = [result EXCEPT ![o] = Ended("refused", FALSE)]
        /\ UNCHANGED <<closer, received>>
    BY <1>8 DEF RefuseClosed
  <2> QED
    BY <1>1, <2>1, Ending
<1>9. CASE ConnectFails(o)
  BY <1>1, <1>9, Ending DEF ConnectFails, OnLine
<1>10. CASE ReconnectDelayEnds(o)
  BY <1>1, <1>10, Ending DEF ReconnectDelayEnds, OnLine
<1>11. CASE CancelEarly(o)
  <2>1. /\ stage[o] \in {"waiting", "connecting"} /\ stage' = [stage EXCEPT ![o] = "done"]
        /\ result' = [result EXCEPT ![o] = Ended("cancelled", FALSE)]
        /\ UNCHANGED <<closer, received>>
    BY <1>11 DEF CancelEarly
  <2>2. result'[o].kind = "cancelled"
    BY <1>1, <2>1 DEF Ended
  <2> QED
    BY <1>1, <2>1, <2>2, Ending DEF OnLine
<1>12. CASE CancelCleanup(o)
  BY <1>1, <1>12, Ending DEF CancelCleanup, OnLine
<1>13. CASE ConnectAbandoned(o)
  BY <1>1, <1>13, Ending DEF ConnectAbandoned, OnLine
<1> QED
  BY <1>3, <1>4, <1>5, <1>6, <1>7, <1>8, <1>9, <1>10, <1>11, <1>12, <1>13
     DEF Advance, Speaker, Cancel

\* Every step of the client is one of the line, or none.
LEMMA StepKeepsLine ==
    Control /\ Control' /\ [Next]_vars => Line!LineNext \/ UNCHANGED Line!lineVars
<1> SUFFICES ASSUME Control, Control', [Next]_vars
             PROVE  Line!LineNext \/ UNCHANGED Line!lineVars
  OBVIOUS
<1>1. CASE \E o \in Ops : Call(o) \/ Advance(o) \/ Speaker(o) \/ Cancel(o)
  BY <1>1, OperationKeepsLine
<1>2. CASE LineRecovers
  BY <1>2 DEF LineRecovers, Line!lineVars, User, Outcome
<1>3. CASE CallClose
  <2>1. /\ closer = "open" /\ closer' = "waiting" /\ UNCHANGED <<stage, result, received>>
    BY <1>3 DEF CallClose
  <2>2. Outcome' = Outcome
    BY <2>1 DEF Outcome
  <2>3. User' = User
    <3>1. \A p \in Ops : User' = p <=> User = p
      BY <2>1, ClientAssumption DEF Control, Exclusive, Holds, User
    <3>2. User \in Ops \cup {None} /\ User' \in Ops \cup {None}
      BY DEF User
    <3> QED
      BY <3>1, <3>2
  <2> QED
    BY <2>1, <2>2, <2>3 DEF Line!lineVars
<1>4. CASE Close
  <2>1. /\ lock # <<>> /\ Head(lock) = Closer /\ closer' = "closed"
        /\ UNCHANGED <<stage, result, received>>
    BY <1>4 DEF Close, Holds
  <2>2. Outcome' = Outcome
    BY <2>1 DEF Outcome
  <2>3. \A p \in Ops : stage[p] \notin OnLine
    BY <2>1, ClientAssumption DEF Control, Exclusive, Holds
  <2>4. User = None /\ User' = None
    BY <2>1, <2>3 DEF User
  <2>5. Line!Shut
    BY <2>1, <2>2, <2>4 DEF Line!Shut
  <2> QED
    BY <2>5 DEF Line!LineNext
<1>5. CASE UNCHANGED vars
  BY <1>5 DEF vars, Line!lineVars, User, Outcome
<1> QED
  BY <1>1, <1>2, <1>3, <1>4, <1>5 DEF Next

\* The client keeps its promise to the runtime: one operation on the line at a
\* time, one request each, truth about what was sent, silence after closing.
THEOREM PromiseKept == Spec => LineKept
<1>1. Init => Line!LineInit
  BY ClientAssumption DEF Init, Line!LineInit, User, Outcome
<1>2. Control /\ Control' /\ [Next]_vars => [Line!LineNext]_(Line!lineVars)
  BY StepKeepsLine
<1> QED
  BY <1>1, <1>2, ControlHolds, PTL DEF Spec, LineKept, Line!LineSpec
=============================================================================
