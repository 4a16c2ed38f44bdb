--------------------------- MODULE TurnQueueProofs ---------------------------
(***************************************************************************)
(* TurnQueue keeps its queue exact: what waits is what is shown, once.     *)
(***************************************************************************)
EXTENDS TurnQueue, TLAPS

IInv == NoTurn \notin Turns /\ TypeOK /\ Exact

LEMMA InitExact ==
  ASSUME NoTurn \notin Turns, Init
  PROVE  IInv
  BY DEF Init, IInv, TypeOK, Exact, Statuses

\* Taking the first message off the queue and running it, when no Turn runs.
LEMMA StartFirstExact ==
  ASSUME IInv, StartFirst, current = NoTurn \/ status[current] # "running"
  PROVE  IInv'
<1>1. /\ pending \in Seq(Turns) /\ pending # <<>>
      /\ Head(pending) = pending[1] /\ Len(pending) \in Nat \ {0}
      /\ pending[1] \in Turns /\ 1 \in DOMAIN pending
  BY DEF IInv, TypeOK, StartFirst
<1>2. /\ pending' = Tail(pending) /\ Tail(pending) \in Seq(Turns)
      /\ Len(Tail(pending)) = Len(pending) - 1
      /\ DOMAIN Tail(pending) = 1 .. Len(pending) - 1
      /\ DOMAIN pending = 1 .. Len(pending)
      /\ \A i \in 1 .. Len(pending) - 1 : Tail(pending)[i] = pending[i + 1]
  BY <1>1 DEF StartFirst
<1>3. status' = [status EXCEPT ![pending[1]] = "running"] /\ current' = pending[1]
  BY <1>1 DEF StartFirst
<1>4. TypeOK'
  BY <1>1, <1>2, <1>3 DEF IInv, TypeOK, Statuses
<1>5. \A i \in DOMAIN pending' : i + 1 \in DOMAIN pending /\ i + 1 # 1
                                 /\ pending'[i] = pending[i + 1]
  BY <1>1, <1>2
<1>6. \A t \in Turns : status'[t] = IF t = pending[1] THEN "running" ELSE status[t]
  BY <1>1, <1>3 DEF IInv, TypeOK
<1>7. \A i, j \in DOMAIN pending' : pending'[i] = pending'[j] => i = j
  BY <1>1, <1>2, <1>5 DEF IInv, Exact
<1>8. \A i \in DOMAIN pending' : status'[pending'[i]] = "queued"
  BY <1>1, <1>2, <1>5, <1>6 DEF IInv, Exact
<1>9. \A t \in Turns : status'[t] = "queued" => \E i \in DOMAIN pending' : pending'[i] = t
  <2> SUFFICES ASSUME NEW t \in Turns, status'[t] = "queued"
               PROVE  \E i \in DOMAIN pending' : pending'[i] = t
    OBVIOUS
  <2>1. t # pending[1] /\ status[t] = "queued"
    BY <1>6
  <2>2. PICK i \in DOMAIN pending : pending[i] = t
    BY <2>1 DEF IInv, Exact
  <2>3. i - 1 \in DOMAIN pending' /\ pending'[i - 1] = t
    BY <2>1, <2>2, <1>1, <1>2
  <2> QED BY <2>3
<1>10. \A t \in Turns : status'[t] = "running" => t = current'
  BY <1>3, <1>6 DEF IInv, Exact
<1> QED BY <1>4, <1>7, <1>8, <1>9, <1>10 DEF IInv, Exact

LEMMA SendLaterExact ==
  ASSUME IInv, NEW t \in Turns, SendLater(t)
  PROVE  IInv'
<1>1. /\ pending \in Seq(Turns) /\ Len(pending) \in Nat
      /\ DOMAIN pending = 1 .. Len(pending)
      /\ pending' = Append(pending, t) /\ pending' \in Seq(Turns)
      /\ DOMAIN pending' = 1 .. Len(pending) + 1
      /\ pending'[Len(pending) + 1] = t
      /\ \A i \in 1 .. Len(pending) : pending'[i] = pending[i]
  BY DEF IInv, TypeOK, SendLater
<1>2. /\ status[t] = "none" /\ current' = current
      /\ \A u \in Turns : status'[u] = IF u = t THEN "queued" ELSE status[u]
  BY DEF IInv, TypeOK, SendLater
<1>3. TypeOK'
  BY <1>1 DEF IInv, TypeOK, SendLater, Statuses
<1>4. \A i \in 1 .. Len(pending) : pending[i] \in Turns /\ pending[i] # t
  BY <1>1, <1>2 DEF IInv, Exact
<1>5. \A i, j \in DOMAIN pending' : pending'[i] = pending'[j] => i = j
  BY <1>1, <1>4 DEF IInv, Exact
<1>6. \A i \in DOMAIN pending' : status'[pending'[i]] = "queued"
  BY <1>1, <1>2, <1>4 DEF IInv, Exact
<1>7. \A u \in Turns : status'[u] = "queued" => \E i \in DOMAIN pending' : pending'[i] = u
  <2> SUFFICES ASSUME NEW u \in Turns, status'[u] = "queued"
               PROVE  \E i \in DOMAIN pending' : pending'[i] = u
    OBVIOUS
  <2>1. CASE u = t
    BY <2>1, <1>1
  <2>2. CASE u # t
    <3>1. PICK i \in DOMAIN pending : pending[i] = u
      BY <2>2, <1>2 DEF IInv, Exact
    <3> QED BY <3>1, <1>1
  <2> QED BY <2>1, <2>2
<1>8. \A u \in Turns : status'[u] = "running" => u = current'
  BY <1>2 DEF IInv, Exact
<1> QED BY <1>3, <1>5, <1>6, <1>7, <1>8 DEF IInv, Exact

LEMMA RemoveExact ==
  ASSUME IInv, NEW k \in DOMAIN pending, Remove(k)
  PROVE  IInv'
<1> DEFINE n == Len(pending)
<1>1. /\ pending \in Seq(Turns) /\ n \in Nat /\ DOMAIN pending = 1 .. n
      /\ k \in 1 .. n /\ pending[k] \in Turns
  BY DEF IInv, TypeOK
<1>2. /\ SubSeq(pending, 1, k - 1) \in Seq(Turns) /\ Len(SubSeq(pending, 1, k - 1)) = k - 1
      /\ \A i \in 1 .. k - 1 : SubSeq(pending, 1, k - 1)[i] = pending[i]
      /\ SubSeq(pending, k + 1, n) \in Seq(Turns) /\ Len(SubSeq(pending, k + 1, n)) = n - k
      /\ \A i \in 1 .. n - k : SubSeq(pending, k + 1, n)[i] = pending[k + i]
  BY <1>1
<1>3. /\ pending' \in Seq(Turns) /\ Len(pending') = n - 1 /\ DOMAIN pending' = 1 .. n - 1
      /\ \A i \in 1 .. n - 1 : i < k => pending'[i] = pending[i]
      /\ \A i \in 1 .. n - 1 : ~(i < k) => pending'[i] = pending[i + 1]
  <2> DEFINE front == SubSeq(pending, 1, k - 1)
             back == SubSeq(pending, k + 1, n)
  <2>1. pending' = front \o back
    BY DEF Remove
  <2>2. /\ front \in Seq(Turns) /\ Len(front) = k - 1
        /\ back \in Seq(Turns) /\ Len(back) = n - k
        /\ \A i \in 1 .. k - 1 : front[i] = pending[i]
        /\ \A i \in 1 .. n - k : back[i] = pending[k + i]
    BY <1>2
  <2> HIDE DEF front, back, n
  <2>3. /\ pending' \in Seq(Turns) /\ Len(pending') = n - 1 /\ DOMAIN pending' = 1 .. n - 1
        /\ \A i \in 1 .. n - 1 : pending'[i] = IF i <= k - 1 THEN front[i] ELSE back[i - (k - 1)]
    BY <2>1, <2>2, <1>1
  <2>4. \A i \in 1 .. n - 1 : i < k => pending'[i] = pending[i]
    BY <2>2, <2>3, <1>1
  <2>5. ASSUME NEW i \in 1 .. n - 1, ~(i < k)
        PROVE  pending'[i] = pending[i + 1]
    <3> DEFINE m == i - (k - 1)
    <3>1. m \in 1 .. n - k /\ k + m = i + 1
      BY <2>5, <1>1
    <3>2. pending'[i] = back[m]
      BY <2>3, <2>5, <1>1
    <3>3. back[m] = pending[k + m]
      <4> HIDE DEF m
      <4> QED BY <3>1, <2>2
    <3> QED BY <3>1, <3>2, <3>3
  <2> QED BY <2>3, <2>4, <2>5
<1>4. /\ current' = current
      /\ \A u \in Turns : status'[u] = IF u = pending[k] THEN "cancelled" ELSE status[u]
  BY <1>1 DEF IInv, TypeOK, Remove
<1>5. TypeOK'
  BY <1>3 DEF IInv, TypeOK, Remove, Statuses
<1>6. ASSUME NEW i \in DOMAIN pending'
      PROVE  \E m \in DOMAIN pending : /\ m # k /\ pending'[i] = pending[m]
                                       /\ i = IF m < k THEN m ELSE m - 1
  <2>1. CASE i < k
    BY <2>1, <1>1, <1>3
  <2>2. CASE ~(i < k)
    BY <2>2, <1>1, <1>3
  <2> QED BY <2>1, <2>2
<1>7. \A i, j \in DOMAIN pending' : pending'[i] = pending'[j] => i = j
  BY <1>6 DEF IInv, Exact
<1>8. \A i \in DOMAIN pending' : status'[pending'[i]] = "queued"
  BY <1>1, <1>4, <1>6 DEF IInv, Exact
<1>9. \A u \in Turns : status'[u] = "queued" => \E i \in DOMAIN pending' : pending'[i] = u
  <2> SUFFICES ASSUME NEW u \in Turns, status'[u] = "queued"
               PROVE  \E i \in DOMAIN pending' : pending'[i] = u
    OBVIOUS
  <2>1. u # pending[k] /\ status[u] = "queued"
    BY <1>4
  <2>2. PICK i \in DOMAIN pending : pending[i] = u
    BY <2>1 DEF IInv, Exact
  <2>3. CASE i < k
    BY <2>2, <2>3, <1>1, <1>3
  <2>4. CASE i > k
    <3>1. i - 1 \in DOMAIN pending' /\ pending'[i - 1] = u
      BY <2>2, <2>4, <1>1, <1>3
    <3> QED BY <3>1
  <2> QED BY <2>1, <2>2, <2>3, <2>4, <1>1
<1>10. \A u \in Turns : status'[u] = "running" => u = current'
  BY <1>4 DEF IInv, Exact
<1> QED BY <1>5, <1>7, <1>8, <1>9, <1>10 DEF IInv, Exact

LEMMA ReorderExact ==
  ASSUME IInv, Reorder
  PROVE  IInv'
<1> DEFINE D == DOMAIN pending
<1>1. PICK f \in [D -> D] :
        /\ \A i, j \in D : f[i] = f[j] => i = j
        /\ \A j \in D : \E i \in D : f[i] = j
        /\ pending' = [i \in D |-> pending[f[i]]]
  BY DEF Reorder
<1>2. D = 1 .. Len(pending) /\ Len(pending) \in Nat /\ \A i \in D : pending[i] \in Turns
  BY DEF IInv, TypeOK
<1>3. pending' \in Seq(Turns) /\ DOMAIN pending' = D
  BY <1>1, <1>2
<1>4. \A i \in D : f[i] \in D /\ pending'[i] = pending[f[i]]
  BY <1>1
<1>5. status' = status /\ current' = current
  BY DEF Reorder
<1>6. TypeOK'
  BY <1>3, <1>5 DEF IInv, TypeOK
<1>7. \A i, j \in DOMAIN pending' : pending'[i] = pending'[j] => i = j
  BY <1>1, <1>3, <1>4 DEF IInv, Exact
<1>8. \A i \in DOMAIN pending' : status'[pending'[i]] = "queued"
  BY <1>3, <1>4, <1>5 DEF IInv, Exact
<1>9. \A t \in Turns : status'[t] = "queued" => \E i \in DOMAIN pending' : pending'[i] = t
  BY <1>1, <1>3, <1>4, <1>5 DEF IInv, Exact
<1> QED BY <1>5, <1>6, <1>7, <1>8, <1>9 DEF IInv, Exact

LEMMA SendNowExact ==
  ASSUME IInv, NEW t \in Turns, SendNow(t)
  PROVE  IInv'
<1>1. \A u \in Turns : status'[u] = IF u = t THEN "running" ELSE status[u]
  BY DEF SendNow, IInv, TypeOK
<1>2. \A i \in DOMAIN pending : pending[i] \in Turns /\ pending[i] # t
  BY DEF SendNow, IInv, TypeOK, Exact
<1>3. TypeOK'
  BY DEF SendNow, IInv, TypeOK, Statuses
<1> QED BY <1>1, <1>2, <1>3 DEF SendNow, IInv, Exact

LEMMA EndExact ==
  ASSUME IInv, NEW outcome \in {"completed", "terminated", "lost"}, End(outcome)
  PROVE  IInv'
<1>1. current \in Turns /\ \A u \in Turns : status'[u] = IF u = current THEN outcome ELSE status[u]
  BY DEF End, IInv, TypeOK
<1>2. \A i \in DOMAIN pending : pending[i] \in Turns /\ pending[i] # current
  BY DEF End, IInv, TypeOK, Exact
<1>3. TypeOK'
  BY DEF End, IInv, TypeOK, Statuses
<1> QED BY <1>1, <1>2, <1>3 DEF End, IInv, Exact

\* Losing a message takes it off the queue, too.
LEMMA LoseExact ==
  ASSUME IInv, LoseCurrent \/ LoseLast \/ \E t \in Turns : LoseRecord(t)
  PROVE  IInv'
<1>1. CASE LoseCurrent
  <2>1. /\ current \in Turns /\ current' = NoTurn /\ pending' = pending
        /\ \A u \in Turns : status'[u] = IF u = current THEN "lost" ELSE status[u]
    BY <1>1 DEF LoseCurrent, IInv, TypeOK
  <2>2. \A i \in DOMAIN pending : pending[i] \in Turns /\ pending[i] # current
    BY <1>1 DEF LoseCurrent, IInv, TypeOK, Exact
  <2>3. TypeOK'
    BY <1>1 DEF LoseCurrent, IInv, TypeOK, Statuses
  <2> QED
    BY <2>1, <2>2, <2>3 DEF IInv, Exact
<1>2. CASE LoseLast
  <2> DEFINE n == Len(pending)
  <2>1. /\ pending \in Seq(Turns) /\ n \in Nat \ {0} /\ DOMAIN pending = 1 .. n
        /\ pending[n] \in Turns
    BY <1>2 DEF LoseLast, IInv, TypeOK
  <2>2. /\ pending' \in Seq(Turns) /\ DOMAIN pending' = 1 .. n - 1
        /\ \A i \in 1 .. n - 1 : i \in DOMAIN pending /\ i # n /\ pending'[i] = pending[i]
    <3>1. pending' = SubSeq(pending, 1, n - 1)
      BY <1>2 DEF LoseLast
    <3> HIDE DEF n
    <3>2. SubSeq(pending, 1, n - 1) \in Seq(Turns) /\ Len(SubSeq(pending, 1, n - 1)) = n - 1
      BY <2>1
    <3>3. \A i \in 1 .. n - 1 : SubSeq(pending, 1, n - 1)[i] = pending[i] /\ i \in 1 .. n /\ i # n
      BY <2>1
    <3> QED
      BY <2>1, <3>1, <3>2, <3>3
  <2>3. /\ current' = current
        /\ \A u \in Turns : status'[u] = IF u = pending[n] THEN "lost" ELSE status[u]
    BY <1>2, <2>1 DEF LoseLast, IInv, TypeOK
  <2>4. TypeOK'
    BY <1>2, <2>1, <2>2 DEF LoseLast, IInv, TypeOK, Statuses
  <2>5. \A i, j \in DOMAIN pending' : pending'[i] = pending'[j] => i = j
    BY <2>2 DEF IInv, Exact
  <2>6. \A i \in DOMAIN pending' : status'[pending'[i]] = "queued"
    <3>1. n \in DOMAIN pending
      BY <2>1
    <3> HIDE DEF n
    <3>2. ASSUME NEW i \in DOMAIN pending' PROVE status'[pending'[i]] = "queued"
      <4>1. /\ pending'[i] = pending[i] /\ i \in DOMAIN pending /\ i # n
        BY <2>2
      <4>2. pending[i] # pending[n] /\ pending[i] \in Turns /\ status[pending[i]] = "queued"
        BY <3>1, <4>1 DEF IInv, Exact, TypeOK
      <4> QED
        BY <2>3, <4>1, <4>2
    <3> QED
      BY <3>2
  <2>7. \A u \in Turns : status'[u] = "queued" => \E i \in DOMAIN pending' : pending'[i] = u
    <3> SUFFICES ASSUME NEW u \in Turns, status'[u] = "queued"
                 PROVE  \E i \in DOMAIN pending' : pending'[i] = u
      OBVIOUS
    <3>1. u # pending[n] /\ status[u] = "queued"
      BY <2>3
    <3>2. PICK i \in DOMAIN pending : pending[i] = u
      BY <3>1 DEF IInv, Exact
    <3>3. i \in DOMAIN pending' /\ pending'[i] = u
      <4> HIDE DEF n
      <4>1. i # n /\ i \in 1 .. n - 1
        BY <2>1, <3>1, <3>2
      <4> QED
        BY <2>2, <3>2, <4>1
    <3> QED
      BY <3>3
  <2>8. \A u \in Turns : status'[u] = "running" => u = current'
    BY <2>3 DEF IInv, Exact
  <2> QED
    BY <2>4, <2>5, <2>6, <2>7, <2>8 DEF IInv, Exact
<1>3. ASSUME NEW t \in Turns, LoseRecord(t) PROVE IInv'
  <2>1. /\ status[t] = "cancelled" /\ current' = current /\ pending' = pending
        /\ \A u \in Turns : status'[u] = IF u = t THEN "lost" ELSE status[u]
    BY <1>3 DEF LoseRecord, IInv, TypeOK
  <2>2. \A i \in DOMAIN pending : pending[i] \in Turns /\ pending[i] # t
    BY <2>1 DEF IInv, TypeOK, Exact
  <2>3. TypeOK'
    BY <1>3 DEF LoseRecord, IInv, TypeOK, Statuses
  <2> QED
    BY <2>1, <2>2, <2>3 DEF IInv, Exact
<1> QED
  BY <1>1, <1>2, <1>3

LEMMA NextExact == IInv /\ [Next]_vars => IInv'
<1> SUFFICES ASSUME IInv, [Next]_vars PROVE IInv'
  OBVIOUS
<1>1. ASSUME NEW t \in Turns, SendNow(t) PROVE IInv'
  BY <1>1, SendNowExact
<1>2. ASSUME NEW t \in Turns, SendLater(t) PROVE IInv'
  BY <1>2, SendLaterExact
<1>3. CASE End("completed") \/ End("terminated") \/ End("lost")
  BY <1>3, EndExact
<1>4. CASE Advance
  <2>1. CASE StartFirst
    BY <2>1, <1>4, StartFirstExact DEF Advance
  <2>2. CASE ~StartFirst
    BY <2>2, <1>4 DEF Advance, IInv, TypeOK, Exact
  <2> QED BY <2>1, <2>2
<1>5. CASE Suspend
  BY <1>5 DEF Suspend, IInv, TypeOK, Exact
<1>6. CASE Resume
  BY <1>6, StartFirstExact DEF Resume
<1>7. ASSUME NEW i \in DOMAIN pending, Remove(i) PROVE IInv'
  BY <1>7, RemoveExact
<1>8. CASE Reorder
  BY <1>8, ReorderExact
<1>9. CASE LoseCurrent \/ LoseLast \/ \E t \in Turns : LoseRecord(t)
  BY <1>9, LoseExact
<1>10. CASE UNCHANGED vars
  BY <1>10 DEF vars, IInv, TypeOK, Exact
<1> QED BY <1>1, <1>2, <1>3, <1>4, <1>5, <1>6, <1>7, <1>8, <1>9, <1>10 DEF Next

\* Whatever the user and the Turns do, for any number of messages: the queue shows each
\* waiting message once and nothing else, and only the current Turn runs.
THEOREM QueueIsExact ==
  ASSUME NoTurn \notin Turns
  PROVE  Spec => []Exact
<1>1. Init => IInv
  BY InitExact
<1>2. IInv /\ [Next]_vars => IInv'
  BY NextExact
<1>3. IInv => Exact
  BY DEF IInv
<1> QED BY <1>1, <1>2, <1>3, PTL DEF Spec
=============================================================================
