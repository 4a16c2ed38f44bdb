-------------------------- MODULE SessionTurnsProofs --------------------------
(***************************************************************************)
(* Theorems about SessionTurns: types, one live Turn at a time, a lock     *)
(* without abandoned places, and Runs and messages that nobody loses sight *)
(* of unless somebody was cut off: for every number of Turns and of        *)
(* requests and with all the failures of Behaviours.                       *)
(***************************************************************************)
EXTENDS SessionTurns, FiniteSetTheorems, TLAPS

-------------------------------------------------------------------------------
(* The discipline of the session lock, the inductive part.  The many actions of the        *)
(* specification do few things to pc, lockQ and task: LockStep lists them.  The lemmas     *)
(* show that a LockStep keeps Discipline, and then that every action is one.               *)

LockPoints == WaitPoints \cup CriticalPoints
Users == Turns \cup Clients

\* The lock's FIFO lists exactly those that wait for it or are inside it, each once, and
\* only its head is inside.
LockInv ==
  /\ lockQ \in Seq(Users)
  /\ \A i, j \in DOMAIN lockQ : lockQ[i] = lockQ[j] => i = j
  /\ \A i \in DOMAIN lockQ : pc[lockQ[i]] \in LockPoints
  /\ \A p \in Users : pc[p] \in LockPoints => \E i \in DOMAIN lockQ : lockQ[i] = p
  /\ \A p \in Users : pc[p] \in CriticalPoints => Holds(p)

\* A live Turn is the registered one; who is about to start a Turn has seen none live.
TaskInv ==
  /\ task \in Turns \cup {NoTurn}
  /\ \A t \in Turns : Live(t) => task = t
  /\ \A p \in Users : pc[p] \in {"pop", "sendGate", "resumePop"} => \A t \in Turns : ~Live(t)

Discipline == PcTypes /\ LockInv /\ TaskInv

-------------------------------------------------------------------------------
(* What an action does to pc, lockQ and task *)

\* p goes on outside the lock, or nothing moves.
Moves(p) ==
  /\ UNCHANGED <<lockQ, task>>
  /\ \/ pc' = pc
     \/ /\ p \in Turns /\ pc[p] \in BodyPoints \cup {"created"}
        /\ \E l \in BodyPoints : Goto(p, l)
     \/ p \in Watchers /\ \E l \in WatcherPoints : Goto(p, l)
     \/ p \in Clients /\ pc[p] = "abandonList" /\ Goto(p, "idle")

\* p asks for the lock.
Asks(p) ==
  /\ \/ p \in Turns /\ pc[p] \in BodyPoints \cup {"created"} /\ WaitForLock(p, "lock")
     \/ /\ p \in Clients /\ pc[p] = "idle"
        /\ \E l \in WaitPoints \cap ClientPoints : WaitForLock(p, l)
  /\ UNCHANGED task

\* The client p gets the lock; to start a Turn it must have found none running.
Enters(p) ==
  /\ p \in Clients /\ pc[p] \in WaitPoints /\ Holds(p)
  /\ \E l \in CriticalPoints \cap ClientPoints :
       Goto(p, l) /\ (l \in {"sendGate", "resumePop"} => TaskDone(task))
  /\ UNCHANGED <<lockQ, task>>

\* The client p goes on inside the lock.
Continues(p) ==
  /\ p \in Clients /\ pc[p] \in CriticalPoints
  /\ \E l \in (CriticalPoints \cap ClientPoints) \ {"sendGate", "resumePop"} : Goto(p, l)
  /\ UNCHANGED <<lockQ, task>>

Leaves(p) ==
  /\ p \in Clients /\ pc[p] \in LockPoints /\ Holds(p)
  /\ \E l \in {"idle", "abandonList"} : Goto(p, l)
  /\ Release /\ UNCHANGED task

\* The client p waits no more.
Deserts(p) ==
  /\ p \in Clients /\ pc[p] \in WaitPoints
  /\ \E i \in DOMAIN lockQ : lockQ[i] = p /\ lockQ' = Without(lockQ, i)
  /\ Goto(p, "idle") /\ UNCHANGED task

\* p starts the Turn t, and keeps the lock only to finish.
Starts(p, t) ==
  /\ pc[p] \in {"pop", "sendGate", "resumePop"}
  /\ task' = t
  /\ \/ /\ p \in Clients /\ lockQ' = lockQ
        /\ pc' = [pc EXCEPT ![p] = "finish", ![t] = "created"]
     \/ /\ p \in Clients /\ Release
        /\ pc' = [pc EXCEPT ![p] = "idle", ![t] = "created"]
     \/ /\ p \in Turns /\ Release
        /\ pc' = [pc EXCEPT ![p] = "done", ![t] = "created"]

\* The ended Turn t gets the lock and pops the queue, or is done with it.
Advances(t) ==
  /\ t \in Turns
  /\ \/ pc[t] = "lock" /\ Holds(t) /\ Goto(t, "pop") /\ UNCHANGED <<lockQ, task>>
     \/ pc[t] \in {"lock", "pop"} /\ Holds(t) /\ Goto(t, "done") /\ Release /\ ForgetTask(t)

\* The watcher p cancels the task of t.
Cancels(p, t) == p \in Watchers /\ CancelTask(p, t)

Resets ==
  /\ lockQ' = <<>> /\ task' = NoTurn
  /\ pc' = [p \in Coroutines |-> IF p \in Turns /\ pc[p] # "idle" THEN "done" ELSE "idle"]

LockStep ==
  \/ \E p \in Coroutines :
       \/ Moves(p) \/ Asks(p) \/ Enters(p) \/ Continues(p) \/ Leaves(p) \/ Deserts(p)
       \/ Advances(p)
       \/ \E t \in Turns \cup {NoTurn} : Starts(p, t) \/ Cancels(p, t)
  \/ Resets
  \/ UNCHANGED <<pc, lockQ, task>>

-------------------------------------------------------------------------------
\* A step outside the lock keeps the discipline.
LEMMA MovesLemma ==
  ASSUME Discipline, NEW p \in Coroutines, Moves(p)
  PROVE  Discipline'
<1> USE DEF Coroutines, Watchers, TurnPoints, BodyPoints, TerminatePoints, WatcherPoints,
            ClientPoints
<1>1. PcTypes'
  BY ConstantsAssumption DEF Discipline, Moves, Goto, PcTypes
<1>2. /\ lockQ' = lockQ /\ task' = task
      /\ \A q \in Users :
           /\ pc'[q] \in LockPoints <=> pc[q] \in LockPoints
           /\ pc'[q] \in CriticalPoints <=> pc[q] \in CriticalPoints
           /\ pc'[q] \in {"pop", "sendGate", "resumePop"}
                <=> pc[q] \in {"pop", "sendGate", "resumePop"}
      /\ \A t \in Turns : Live(t)' => Live(t)
  BY ConstantsAssumption
     DEF Discipline, Moves, Goto, PcTypes, Users, Live, LockPoints, WaitPoints, CriticalPoints
<1>3. LockInv'
  BY <1>2 DEF Discipline, LockInv, Holds
<1>4. TaskInv'
  BY <1>2 DEF Discipline, TaskInv
<1> QED
  BY <1>1, <1>3, <1>4 DEF Discipline

\* Whoever asks for the lock is last in line.
LEMMA JoinLemma ==
  ASSUME LockInv, NEW p \in Users, lockQ' = Append(lockQ, p),
         pc[p] \notin LockPoints, pc'[p] \in WaitPoints,
         \A q \in Users \ {p} : pc'[q] = pc[q]
  PROVE  LockInv'
<1>1. /\ lockQ \in Seq(Users) /\ lockQ' \in Seq(Users)
      /\ Len(lockQ') = Len(lockQ) + 1 /\ lockQ'[Len(lockQ) + 1] = p
      /\ \A i \in 1 .. Len(lockQ) : lockQ'[i] = lockQ[i] /\ lockQ'[i] # p
  BY DEF LockInv
<1>2. /\ \A i, j \in DOMAIN lockQ' : lockQ'[i] = lockQ'[j] => i = j
      /\ \A i \in DOMAIN lockQ' : pc'[lockQ'[i]] \in LockPoints
  BY <1>1 DEF LockInv, LockPoints
<1>3. \A q \in Users : pc'[q] \in LockPoints => \E i \in DOMAIN lockQ' : lockQ'[i] = q
  BY <1>1 DEF LockInv
<1>4. ASSUME NEW q \in Users, pc'[q] \in CriticalPoints PROVE Holds(q)'
  <2>1. q # p /\ Holds(q)
    BY <1>4 DEF LockInv, WaitPoints, CriticalPoints
  <2> QED
    BY <1>1, <2>1 DEF Holds
<1> QED
  BY <1>1, <1>2, <1>3, <1>4 DEF LockInv

\* So does asking for the lock.
LEMMA AsksLemma ==
  ASSUME Discipline, NEW p \in Coroutines, Asks(p)
  PROVE  Discipline'
<1> USE DEF Coroutines, Watchers, TurnPoints, BodyPoints, TerminatePoints, WatcherPoints,
            ClientPoints
<1>1. PcTypes'
  BY ConstantsAssumption DEF Discipline, Asks, WaitForLock, Goto, PcTypes
<1>2. /\ p \in Users /\ lockQ' = Append(lockQ, p) /\ task' = task
      /\ pc[p] \notin LockPoints /\ pc'[p] \in WaitPoints
      /\ \A q \in Users \ {p} : pc'[q] = pc[q]
      /\ \A t \in Turns : Live(t)' => Live(t)
  BY ConstantsAssumption
     DEF Discipline, Asks, WaitForLock, Goto, PcTypes, Users, Live, LockPoints, WaitPoints,
         CriticalPoints
<1>3. LockInv'
  BY <1>2, JoinLemma DEF Discipline
<1>4. TaskInv'
  BY <1>2 DEF Discipline, TaskInv, WaitPoints
<1> QED
  BY <1>1, <1>3, <1>4 DEF Discipline

\* So does getting it, where the test of _start_turn's callers is made.
LEMMA EntersLemma ==
  ASSUME Discipline, NEW p \in Coroutines, Enters(p)
  PROVE  Discipline'
<1> USE DEF Coroutines, Watchers, TurnPoints, BodyPoints, TerminatePoints, WatcherPoints,
            ClientPoints
<1>1. PcTypes'
  BY ConstantsAssumption DEF Discipline, Enters, Goto, PcTypes
<1>2. /\ p \in Users \ Turns /\ lockQ' = lockQ /\ task' = task
      /\ Holds(p) /\ pc[p] \in LockPoints /\ pc'[p] \in LockPoints
      /\ pc'[p] \in {"pop", "sendGate", "resumePop"} => TaskDone(task)
      /\ \A q \in Users \ {p} : pc'[q] = pc[q]
      /\ \A t \in Turns : Live(t)' <=> Live(t)
  BY ConstantsAssumption
     DEF Discipline, Enters, Goto, PcTypes, Users, Live, LockPoints, WaitPoints, CriticalPoints
<1>3. LockInv'
  BY <1>2 DEF Discipline, LockInv, Holds
<1>4. TaskDone(task) => \A t \in Turns : ~Live(t)
  BY ConstantsAssumption DEF Discipline, TaskInv, TaskDone, Live
<1>5. TaskInv'
  BY <1>2, <1>4 DEF Discipline, TaskInv
<1> QED
  BY <1>1, <1>3, <1>5 DEF Discipline

\* So does an await inside the lock.
LEMMA ContinuesLemma ==
  ASSUME Discipline, NEW p \in Coroutines, Continues(p)
  PROVE  Discipline'
<1> USE DEF Coroutines, Watchers, TurnPoints, BodyPoints, TerminatePoints, WatcherPoints,
            ClientPoints
<1>1. PcTypes'
  BY ConstantsAssumption DEF Discipline, Continues, Goto, PcTypes
<1>2. /\ p \in Users \ Turns /\ lockQ' = lockQ /\ task' = task
      /\ pc[p] \in CriticalPoints /\ pc'[p] \in CriticalPoints
      /\ pc'[p] \notin {"pop", "sendGate", "resumePop"}
      /\ \A q \in Users \ {p} : pc'[q] = pc[q]
      /\ \A t \in Turns : Live(t)' <=> Live(t)
  BY ConstantsAssumption
     DEF Discipline, Continues, Goto, PcTypes, Users, Live, CriticalPoints
<1>3. LockInv'
  BY <1>2 DEF Discipline, LockInv, Holds, LockPoints
<1>4. TaskInv'
  BY <1>2 DEF Discipline, TaskInv
<1> QED
  BY <1>1, <1>3, <1>4 DEF Discipline

\* The holder leaves the FIFO and the next in line, if any, becomes the holder.
LEMMA ReleaseLemma ==
  ASSUME LockInv, NEW p \in Users, Holds(p), Release,
         pc'[p] \notin LockPoints,
         \A q \in Users \ {p} : pc[q] \in LockPoints => pc'[q] = pc[q],
         \A q \in Users \ {p} : pc'[q] \in LockPoints => pc'[q] = pc[q]
  PROVE  LockInv'
<1>1. /\ lockQ \in Seq(Users) /\ lockQ # <<>> /\ lockQ[1] = p
      /\ lockQ' \in Seq(Users) /\ Len(lockQ') = Len(lockQ) - 1
      /\ \A i \in 1 .. Len(lockQ') : lockQ'[i] = lockQ[i + 1]
  BY DEF LockInv, Holds, Release
<1>2. \A i \in DOMAIN lockQ' : lockQ'[i] = lockQ[i + 1] /\ i + 1 \in DOMAIN lockQ /\ lockQ'[i] # p
  BY <1>1 DEF LockInv
<1>3. /\ \A i, j \in DOMAIN lockQ' : lockQ'[i] = lockQ'[j] => i = j
      /\ \A i \in DOMAIN lockQ' : pc'[lockQ'[i]] \in LockPoints
  <2>1. ASSUME NEW i \in DOMAIN lockQ', NEW j \in DOMAIN lockQ', lockQ'[i] = lockQ'[j] PROVE i = j
    BY <1>1, <1>2, <2>1 DEF LockInv
  <2>2. ASSUME NEW i \in DOMAIN lockQ' PROVE pc'[lockQ'[i]] \in LockPoints
    <3>1. lockQ'[i] \in Users \ {p}
      BY <1>1, <1>2
    <3>2. pc[lockQ'[i]] \in LockPoints
      BY <1>2 DEF LockInv
    <3> QED
      BY <3>1, <3>2
  <2> QED
    BY <2>1, <2>2
<1>4. ASSUME NEW q \in Users, pc'[q] \in LockPoints PROVE \E i \in DOMAIN lockQ' : lockQ'[i] = q
  <2>1. q # p /\ pc[q] \in LockPoints
    BY <1>4
  <2>2. PICK j \in DOMAIN lockQ : lockQ[j] = q
    BY <2>1 DEF LockInv
  <2>3. j # 1 /\ j - 1 \in DOMAIN lockQ' /\ lockQ'[j - 1] = q
    BY <1>1, <2>1, <2>2
  <2> QED
    BY <2>3
<1>5. ASSUME NEW q \in Users, pc'[q] \in CriticalPoints PROVE Holds(q)'
  <2>1. q # p /\ pc[q] \in CriticalPoints
    BY <1>5 DEF LockPoints
  <2>2. Holds(q)
    BY <2>1 DEF LockInv
  <2> QED
    BY <2>1, <2>2 DEF Holds
<1> QED
  BY <1>1, <1>3, <1>4, <1>5 DEF LockInv

\* So does leaving the lock.
LEMMA LeavesLemma ==
  ASSUME Discipline, NEW p \in Coroutines, Leaves(p)
  PROVE  Discipline'
<1> USE DEF Coroutines, Watchers, TurnPoints, BodyPoints, TerminatePoints, WatcherPoints,
            ClientPoints
<1>1. PcTypes'
  BY ConstantsAssumption DEF Discipline, Leaves, Goto, PcTypes
<1>2. /\ p \in Users \ Turns /\ Holds(p) /\ Release /\ task' = task
      /\ pc'[p] \notin LockPoints /\ pc'[p] \notin {"pop", "sendGate", "resumePop"}
      /\ \A q \in Users \ {p} : pc'[q] = pc[q]
      /\ \A t \in Turns : Live(t)' <=> Live(t)
  BY ConstantsAssumption
     DEF Discipline, Leaves, Goto, PcTypes, Users, Live, LockPoints, WaitPoints, CriticalPoints
<1>3. LockInv'
  BY <1>2, ReleaseLemma DEF Discipline
<1>4. TaskInv'
  BY <1>2 DEF Discipline, TaskInv
<1> QED
  BY <1>1, <1>3, <1>4 DEF Discipline

\* So does _start_turn: whoever calls it found, under the lock, no live Turn.
LEMMA StartsLemma ==
  ASSUME Discipline, NEW p \in Coroutines, NEW t \in Turns \cup {NoTurn}, Starts(p, t)
  PROVE  Discipline'
<1> USE DEF Coroutines, Watchers, TurnPoints, BodyPoints, TerminatePoints, WatcherPoints,
            ClientPoints
<1>1. PcTypes'
  BY ConstantsAssumption DEF Discipline, Starts, PcTypes
<1>2. /\ p \in Users /\ pc[p] \in CriticalPoints /\ Holds(p)
      /\ \A u \in Turns : ~Live(u)
  BY ConstantsAssumption DEF Discipline, Starts, PcTypes, Users, LockInv, TaskInv, CriticalPoints
<1>3. \A q \in Users \ {p} : pc[q] \notin CriticalPoints
  BY <1>2 DEF Discipline, LockInv, Holds
<1>4. t \in Turns \ {p} => pc[t] \notin LockPoints
  BY <1>2, <1>3 DEF Discipline, PcTypes, Users, Live, LockPoints, WaitPoints
<1>5. /\ \A q \in Users \ {p} : pc[q] \in LockPoints => pc'[q] = pc[q]
      /\ \A q \in Users \ {p} : pc'[q] \in LockPoints => pc'[q] = pc[q]
      /\ pc'[p] \notin {"pop", "sendGate", "resumePop"}
      /\ \A u \in Turns : Live(u)' => u = t
      /\ task' = t
  BY ConstantsAssumption, <1>2, <1>4
     DEF Discipline, Starts, PcTypes, Users, Live, LockPoints, WaitPoints, CriticalPoints
<1>6. LockInv'
  <2>1. CASE Release
    <3>1. pc'[p] \notin LockPoints
      BY ConstantsAssumption, <1>2, <2>1
         DEF Discipline, Starts, PcTypes, LockInv, Release, Holds, LockPoints, WaitPoints, CriticalPoints
    <3> QED
      BY <1>2, <1>5, <2>1, <3>1, ReleaseLemma DEF Discipline
  <2>2. CASE lockQ' = lockQ
    <3>1. pc'[p] \in CriticalPoints
      BY ConstantsAssumption, <1>2, <2>2
         DEF Discipline, Starts, PcTypes, LockInv, Release, Holds, CriticalPoints
    <3> QED
      BY <1>2, <1>5, <2>2, <3>1 DEF Discipline, LockInv, Holds, LockPoints
  <2> QED
    BY <2>1, <2>2 DEF Starts
<1>7. TaskInv'
  BY <1>2, <1>3, <1>5 DEF TaskInv, LockPoints, CriticalPoints
<1> QED
  BY <1>1, <1>6, <1>7 DEF Discipline

\* So does _advance_queue.
LEMMA AdvancesLemma ==
  ASSUME Discipline, NEW t \in Coroutines, Advances(t)
  PROVE  Discipline'
<1> USE DEF Coroutines, Watchers, TurnPoints, BodyPoints, TerminatePoints, WatcherPoints,
            ClientPoints
<1>1. PcTypes'
  BY ConstantsAssumption DEF Discipline, Advances, Goto, PcTypes
<1>2. /\ t \in Turns /\ t \in Users /\ pc[t] \in LockPoints /\ Holds(t)
      /\ \A q \in Users \ {t} : pc'[q] = pc[q]
  BY ConstantsAssumption
     DEF Discipline, Advances, Goto, PcTypes, Users, LockPoints, WaitPoints, CriticalPoints
<1>3. \A u \in Turns \ {t} : ~Live(u)
  BY ConstantsAssumption DEF Discipline, Advances, TaskInv, Live, Users
<1>4. \A q \in Users \ {t} : pc[q] \notin CriticalPoints
  BY <1>2 DEF Discipline, LockInv, Holds
<1>5. CASE Goto(t, "pop") /\ UNCHANGED <<lockQ, task>>
  <2>1. pc'[t] = "pop"
    BY <1>2, <1>5 DEF Discipline, PcTypes, Goto
  <2>2. LockInv'
    BY <1>2, <1>5, <2>1 DEF Discipline, LockInv, Holds, LockPoints, CriticalPoints
  <2>3. \A u \in Turns : ~Live(u)'
    BY <1>2, <1>3, <2>1 DEF Live, Users
  <2>4. TaskInv'
    BY <1>5, <2>3 DEF Discipline, TaskInv
  <2> QED
    BY <1>1, <2>2, <2>4 DEF Discipline
<1>6. CASE Goto(t, "done") /\ Release /\ ForgetTask(t)
  <2>1. pc'[t] = "done"
    BY <1>2, <1>6 DEF Discipline, PcTypes, Goto
  <2>2. LockInv'
    <3>1. pc'[t] \notin LockPoints
      BY <2>1 DEF LockPoints, WaitPoints, CriticalPoints
    <3> QED
      BY <1>2, <1>6, <3>1, ReleaseLemma DEF Discipline
  <2>3. \A u \in Turns : ~Live(u)'
    BY <1>2, <1>3, <2>1 DEF Live, Users
  <2>4. TaskInv'
    BY <1>6, <2>3 DEF Discipline, TaskInv, ForgetTask
  <2> QED
    BY <1>1, <2>2, <2>4 DEF Discipline
<1> QED
  BY <1>5, <1>6 DEF Advances

\* A waiter that is cancelled leaves the FIFO from its middle.
LEMMA DesertLemma ==
  ASSUME LockInv, NEW t \in Users, ~Holds(t), NEW i \in DOMAIN lockQ, lockQ[i] = t,
         lockQ' = Without(lockQ, i),
         pc'[t] \notin LockPoints,
         \A q \in Users \ {t} : pc'[q] = pc[q]
  PROVE  LockInv'
<1>1. /\ lockQ \in Seq(Users) /\ Len(lockQ) \in Nat /\ i \in 2 .. Len(lockQ)
  BY DEF LockInv, Holds
<1>2. /\ lockQ' \in Seq(Users) /\ Len(lockQ') = Len(lockQ) - 1
      /\ \A j \in DOMAIN lockQ' : lockQ'[j] = IF j < i THEN lockQ[j] ELSE lockQ[j + 1]
  BY <1>1 DEF Without
<1> DEFINE from(j) == IF j < i THEN j ELSE j + 1
<1>a. \A j \in DOMAIN lockQ' :
        from(j) \in DOMAIN lockQ /\ from(j) # i /\ lockQ'[j] = lockQ[from(j)]
  BY <1>1, <1>2
<1>3. ASSUME NEW j \in DOMAIN lockQ'
      PROVE  lockQ'[j] \in Users \ {t} /\ pc'[lockQ'[j]] \in LockPoints
  <2> HIDE DEF from
  <2>1. /\ from(j) \in DOMAIN lockQ /\ from(j) # i /\ lockQ'[j] = lockQ[from(j)]
        /\ lockQ[from(j)] \in Users
    BY <1>1, <1>a
  <2>2. lockQ[from(j)] # t /\ pc[lockQ[from(j)]] \in LockPoints
    BY <2>1 DEF LockInv
  <2> QED
    BY <2>1, <2>2
<1>4. ASSUME NEW j \in DOMAIN lockQ', NEW k \in DOMAIN lockQ', lockQ'[j] = lockQ'[k] PROVE j = k
  <2>1. from(j) = from(k)
    <3> HIDE DEF from
    <3> QED
      BY <1>a, <1>4 DEF LockInv
  <2> QED
    BY <1>1, <1>2, <2>1
<1>5. ASSUME NEW q \in Users, pc'[q] \in LockPoints PROVE \E j \in DOMAIN lockQ' : lockQ'[j] = q
  <2>1. q # t /\ pc[q] \in LockPoints
    BY <1>5
  <2>2. PICK j \in DOMAIN lockQ : lockQ[j] = q
    BY <2>1 DEF LockInv
  <2>3. CASE j < i
    BY <1>1, <1>2, <2>2, <2>3
  <2>4. CASE j > i
    <3>1. j - 1 \in DOMAIN lockQ' /\ lockQ'[j - 1] = q
      BY <1>1, <1>2, <2>2, <2>4
    <3> QED
      BY <3>1
  <2> QED
    BY <1>1, <2>1, <2>2, <2>3, <2>4
<1>6. ASSUME NEW q \in Users, pc'[q] \in CriticalPoints PROVE Holds(q)'
  <2>1. Holds(q)
    BY <1>6 DEF LockInv, LockPoints
  <2>2. lockQ'[1] = lockQ[1] /\ lockQ' # <<>>
    BY <1>1, <1>2
  <2> QED
    BY <1>1, <1>2, <2>1, <2>2 DEF Holds
<1> QED
  BY <1>2, <1>3, <1>4, <1>5, <1>6 DEF LockInv

\* Tail as a function.
LEMMA TailIs ==
  ASSUME NEW S, NEW q \in Seq(S), q # <<>>
  PROVE  Tail(q) = [j \in 1 .. Len(q) - 1 |-> q[j + 1]]
<1>1. /\ Tail(q) \in Seq(S) /\ Len(Tail(q)) = Len(q) - 1
      /\ \A j \in 1 .. Len(q) - 1 : Tail(q)[j] = q[j + 1]
  OBVIOUS
<1> DEFINE r == Tail(q)
<1>2. \A s \in Seq(S) : s \in [1 .. Len(s) -> S]
  OBVIOUS
<1>3. r \in [1 .. Len(q) - 1 -> S] /\ \A j \in 1 .. Len(q) - 1 : r[j] = q[j + 1]
  BY <1>1, <1>2
<1> HIDE DEF r
<1>4. r = [j \in 1 .. Len(q) - 1 |-> q[j + 1]]
  BY <1>3
<1> QED
  BY <1>4 DEF r

\* So does a client that disconnects while it waits: the lock may be its own already.
LEMMA DesertsLemma ==
  ASSUME Discipline, NEW p \in Coroutines, Deserts(p)
  PROVE  Discipline'
<1> USE DEF Coroutines, Watchers, TurnPoints, BodyPoints, TerminatePoints, WatcherPoints,
            ClientPoints
<1>1. PcTypes'
  BY ConstantsAssumption DEF Discipline, Deserts, Goto, PcTypes
<1>2. /\ p \in Users \ Turns /\ task' = task /\ pc[p] \in LockPoints
      /\ pc'[p] \notin LockPoints /\ pc'[p] \notin {"pop", "sendGate", "resumePop"}
      /\ \A q \in Users \ {p} : pc'[q] = pc[q]
      /\ \A t \in Turns : Live(t)' <=> Live(t)
  BY ConstantsAssumption
     DEF Discipline, Deserts, Goto, PcTypes, Users, Live, LockPoints, WaitPoints, CriticalPoints
<1>3. PICK i \in DOMAIN lockQ : lockQ[i] = p /\ lockQ' = Without(lockQ, i)
  BY DEF Deserts
<1>4. LockInv'
  <2>1. CASE Holds(p)
    <3>1. lockQ \in Seq(Users) /\ lockQ # <<>> /\ i = 1
      <4>1. lockQ \in Seq(Users) /\ lockQ # <<>> /\ lockQ[1] = p /\ 1 \in DOMAIN lockQ
        BY <2>1 DEF Discipline, LockInv, Holds
      <4>2. i = 1
        BY <1>3, <4>1 DEF Discipline, LockInv
      <4> QED
        BY <4>1, <4>2
    <3>2. Release
      <4>1. Len(lockQ) \in Nat \ {0} /\ lockQ' = [j \in 1 .. Len(lockQ) - 1 |-> lockQ[j + 1]]
        BY <1>3, <3>1 DEF Without
      <4>2. Tail(lockQ) = [j \in 1 .. Len(lockQ) - 1 |-> lockQ[j + 1]]
        BY <3>1, TailIs
      <4> QED
        BY <4>1, <4>2 DEF Release
    <3> QED
      BY <1>2, <2>1, <3>2, ReleaseLemma DEF Discipline
  <2>2. CASE ~Holds(p)
    BY <1>2, <1>3, <2>2, DesertLemma DEF Discipline
  <2> QED
    BY <2>1, <2>2
<1>5. TaskInv'
  BY <1>2 DEF Discipline, TaskInv
<1> QED
  BY <1>1, <1>4, <1>5 DEF Discipline

\* So does task.cancel(), wherever the task is.
LEMMA CancelsLemma ==
  ASSUME Discipline, NEW p \in Coroutines, NEW t \in Turns \cup {NoTurn}, Cancels(p, t)
  PROVE  Discipline'
<1> USE DEF Coroutines, Watchers, TurnPoints, BodyPoints, TerminatePoints, WatcherPoints,
            ClientPoints
<1>1. PcTypes'
  BY ConstantsAssumption DEF Discipline, Cancels, CancelTask, Goto, PcTypes
<1>2. p \notin Users /\ (\A q \in Users \ {t} : pc'[q] = pc[q])
  BY ConstantsAssumption DEF Discipline, Cancels, CancelTask, Goto, PcTypes, Users
<1>3. CASE Goto(p, "idle") /\ UNCHANGED <<lockQ, task>>
  <2>1. \A q \in Users : pc'[q] = pc[q]
    BY <1>2, <1>3 DEF Discipline, PcTypes, Goto
  <2> QED
    BY <1>1, <1>3, <2>1 DEF Discipline, LockInv, TaskInv, Holds, Live, Users
<1>4. CASE /\ t # NoTurn /\ pc[t] = "created"
           /\ pc' = [pc EXCEPT ![p] = "idle", ![t] = "done"]
           /\ ForgetTask(t) /\ UNCHANGED lockQ
  <2>1. t \in Turns /\ t \in Users /\ pc'[t] = "done"
    BY <1>2, <1>4 DEF Discipline, PcTypes, Users
  <2>2. LockInv'
    <3>1. pc[t] \notin LockPoints /\ pc'[t] \notin LockPoints
      BY <1>4, <2>1 DEF LockPoints, WaitPoints, CriticalPoints
    <3>2. \A q \in Users : /\ pc'[q] \in LockPoints <=> pc[q] \in LockPoints
                           /\ pc'[q] \in CriticalPoints => pc[q] \in CriticalPoints
      BY <1>2, <3>1 DEF LockPoints
    <3>3. lockQ' = lockQ /\ \A i \in DOMAIN lockQ : lockQ[i] \in Users
      BY <1>4 DEF Discipline, LockInv
    <3>4. \A q \in Users : pc'[q] \in CriticalPoints => Holds(q)'
      BY <3>2, <3>3 DEF Discipline, LockInv, Holds
    <3> QED
      BY <3>2, <3>3, <3>4 DEF Discipline, LockInv
  <2>3. \A u \in Turns \ {t} : ~Live(u)
    BY <1>4 DEF Discipline, TaskInv, Live
  <2>4. \A u \in Turns : ~Live(u)'
    BY <1>2, <2>1, <2>3 DEF Live, Users
  <2>5. TaskInv'
    BY <1>4, <2>4 DEF Discipline, TaskInv, ForgetTask
  <2> QED
    BY <1>1, <2>2, <2>5 DEF Discipline
<1>5. CASE /\ t # NoTurn /\ pc[t] \in BodyPoints
           /\ pc' = [pc EXCEPT ![p] = "idle", ![t] = "lock"]
           /\ lockQ' = Append(lockQ, t) /\ UNCHANGED task
  <2>1. t \in Turns /\ t \in Users /\ pc'[t] = "lock"
    BY <1>2, <1>5 DEF Discipline, PcTypes, Users
  <2>2. pc[t] \notin LockPoints /\ pc'[t] \in WaitPoints
    BY <1>5, <2>1 DEF LockPoints, WaitPoints, CriticalPoints
  <2>3. LockInv'
    BY <1>2, <1>5, <2>1, <2>2, JoinLemma DEF Discipline
  <2>4. \A u \in Turns : Live(u)' => Live(u)
    BY <1>2, <1>5, <2>1 DEF Live, Users
  <2>5. TaskInv'
    BY <1>2, <1>5, <2>1, <2>4 DEF Discipline, TaskInv
  <2> QED
    BY <1>1, <2>3, <2>5 DEF Discipline
<1>6. CASE /\ t # NoTurn /\ pc[t] \in {"lock", "pop"}
           /\ pc' = [pc EXCEPT ![p] = "idle", ![t] = "done"]
           /\ ForgetTask(t)
           /\ \/ pc[t] = "lock" /\ ~Holds(t)
                   /\ \E i \in DOMAIN lockQ : lockQ[i] = t /\ lockQ' = Without(lockQ, i)
              \/ pc[t] = "pop" /\ Release
  <2>1. t \in Turns /\ t \in Users /\ pc'[t] = "done" /\ pc'[t] \notin LockPoints
    BY <1>2, <1>6 DEF Discipline, PcTypes, Users, LockPoints, WaitPoints, CriticalPoints
  <2>2. LockInv'
    <3>1. CASE pc[t] = "lock"
      BY <1>2, <1>6, <2>1, <3>1, DesertLemma DEF Discipline
    <3>2. CASE pc[t] = "pop"
      <4>1. Holds(t)
        BY <2>1, <3>2 DEF Discipline, LockInv, CriticalPoints
      <4> QED
        BY <1>2, <1>6, <2>1, <3>2, <4>1, ReleaseLemma DEF Discipline
    <3> QED
      BY <1>6, <3>1, <3>2
  <2>3. \A u \in Turns \ {t} : ~Live(u)
    BY <1>6, <2>1 DEF Discipline, TaskInv, Live
  <2>4. \A u \in Turns : ~Live(u)'
    BY <1>2, <2>1, <2>3 DEF Live, Users
  <2>5. TaskInv'
    BY <1>6, <2>4 DEF Discipline, TaskInv, ForgetTask
  <2> QED
    BY <1>1, <2>2, <2>5 DEF Discipline
<1> QED
  BY <1>3, <1>4, <1>5, <1>6 DEF Cancels, CancelTask

\* So does a restart.
LEMMA ResetsLemma ==
  ASSUME Discipline, Resets
  PROVE  Discipline'
<1>1. \A p \in Coroutines : pc'[p] = IF p \in Turns /\ pc[p] # "idle" THEN "done" ELSE "idle"
  BY DEF Resets
<1>2. PcTypes'
  <2>1. /\ DOMAIN pc' = Coroutines
        /\ \A t \in Turns : pc'[t] \in TurnPoints
        /\ \A p \in Watchers : pc'[p] \in WatcherPoints
        /\ \A c \in Clients : pc'[c] \in ClientPoints
    BY <1>1, ConstantsAssumption
       DEF Resets, Coroutines, Watchers, TurnPoints, WatcherPoints, ClientPoints
  <2>2. \A p \in Coroutines : pc'[p] \in TurnPoints \cup WatcherPoints \cup ClientPoints
    BY <2>1 DEF Coroutines
  <2>3. pc' = [p \in Coroutines |-> pc'[p]]
    BY DEF Resets
  <2> QED
    BY <2>1, <2>2, <2>3 DEF PcTypes
<1>3. \A p \in Users : pc'[p] \in {"idle", "done"}
  BY <1>1 DEF Users, Coroutines
<1>4. LockInv'
  BY <1>3 DEF Resets, LockInv, LockPoints, WaitPoints, CriticalPoints
<1>5. TaskInv'
  BY <1>3 DEF Resets, TaskInv, Live, BodyPoints, TerminatePoints, Users
<1> QED
  BY <1>2, <1>4, <1>5 DEF Discipline

\* The session lock's discipline is kept by everything an action may do to it.
LEMMA LockStepLemma ==
  ASSUME Discipline, LockStep
  PROVE  Discipline'
<1>1. CASE UNCHANGED <<pc, lockQ, task>>
  BY <1>1 DEF Discipline, PcTypes, LockInv, TaskInv, Holds, Live
<1> QED
  BY <1>1, MovesLemma, AsksLemma, EntersLemma, ContinuesLemma, LeavesLemma, DesertsLemma,
     AdvancesLemma, StartsLemma, CancelsLemma, ResetsLemma DEF LockStep

-------------------------------------------------------------------------------
USE DEF Replies

\* Everything typed but what Discipline types.
Types == DbTypes /\ MemoryTypes /\ ControlTypes /\ AgentTypes /\ HistoryTypes

\* A watcher at work is about a Turn, and a client with a message in hand has one.
ArgInv ==
  /\ \A p \in Watchers : pc[p] \notin {"idle", "reap"} => arg[p] \in Turns
  /\ \A c \in Clients : pc[c] \in HandPoints => arg[c] \in Turns

\* The inductive invariant.
IInv == Discipline /\ Types /\ ArgInv

\* A step of a _run_turn task treats the lock and the tasks as the discipline allows.
LEMMA RunTurnLock ==
  ASSUME IInv, NEW t \in Turns, RunTurn(t)
  PROVE  LockStep
<1> USE DEF Coroutines, Watchers, BodyPoints, TerminatePoints
<1> USE DEF IInv, Types, Discipline, PcTypes, memory, control
<1>1. CASE \/ TurnBegins(t) \/ TurnUnsuspends(t) \/ TurnPrepares(t) \/ PrepareFails(t)
           \/ TurnEnsuresWorker(t) \/ EnsureFails(t) \/ TurnPrompts(t) \/ PromptReturns(t)
           \/ FinalizeReturns(t) \/ FinalizeFails(t)
  <2>1. Moves(t)
    BY <1>1 DEF Moves, TurnBegins, TurnUnsuspends, TurnPrepares, PrepareFails,
       TurnEnsuresWorker, EnsureFails, TurnPrompts, PromptReturns, FinalizeReturns,
       FinalizeFails, EnterTerminate, Goto
  <2> QED
    BY <2>1 DEF LockStep
<1>2. CASE TurnCompleted(t) \/ CreateRunFails(t) \/ PreludeFails(t)
  <2>1. Asks(t)
    BY <1>2 DEF Asks, TurnCompleted, CreateRunFails, PreludeFails
  <2> QED
    BY <2>1 DEF LockStep
<1>3. CASE AdvanceTakesLock(t)
  <2>1. Advances(t)
    BY <1>3 DEF Advances, AdvanceTakesLock
  <2> QED
    BY <2>1 DEF LockStep
<1>4. CASE AdvancePopped(t)
  <2>1. CASE arg[t] # NoTurn /\ StartTurn(t, "done", arg[t])
    <3>1. Starts(t, arg[t])
      BY <1>4, <2>1 DEF AdvancePopped, Starts, StartTurn
    <3>2. arg[t] \in Turns
      BY <2>1 DEF ControlTypes
    <3> QED
      BY <3>1, <3>2 DEF LockStep
  <2>2. CASE ForgetTask(t) /\ Goto(t, "done")
    <3>0. Holds(t)
      BY <1>4 DEF AdvancePopped, LockInv, Users, CriticalPoints
    <3>1. Advances(t)
      BY <1>4, <2>2, <3>0 DEF AdvancePopped, Advances
    <3> QED
      BY <3>1 DEF LockStep
  <2> QED
    BY <1>4, <2>1, <2>2 DEF AdvancePopped
<1> QED
  BY <1>1, <1>2, <1>3, <1>4 DEF RunTurn

\* A step of a _run_turn task keeps the types.
LEMMA RunTurnTypes ==
  ASSUME IInv, NEW t \in Turns, RunTurn(t)
  PROVE  Types'
<1> USE ConstantsAssumption DEF Coroutines, Watchers, Kinds, IInv, Types, DbTypes,
        MemoryTypes, ControlTypes, AgentTypes, HistoryTypes
<1> USE DEF db, memory, control, agent, history
<1>1. CASE \/ TurnBegins(t) \/ TurnUnsuspends(t) \/ TurnPrepares(t) \/ PrepareFails(t)
           \/ TurnEnsuresWorker(t) \/ EnsureFails(t) \/ TurnPrompts(t) \/ PromptReturns(t)
           \/ FinalizeReturns(t) \/ FinalizeFails(t)
  <2>1. CASE TurnBegins(t)
    BY <2>1 DEF TurnBegins
  <2>2. CASE TurnUnsuspends(t)
    BY <2>2 DEF TurnUnsuspends
  <2>3. CASE TurnPrepares(t)
    BY <2>3 DEF TurnPrepares
  <2>4. CASE PrepareFails(t)
    BY <2>4 DEF PrepareFails, EnterTerminate, CtxTurn
  <2>5. CASE TurnEnsuresWorker(t)
    BY <2>5 DEF TurnEnsuresWorker
  <2>6. CASE EnsureFails(t)
    BY <2>6 DEF EnsureFails, EnterTerminate, CtxTurn
  <2>7. CASE TurnPrompts(t)
    <3>1. ControlTypes'
      BY <2>7 DEF TurnPrompts, EnterTerminate, CtxTurn
    <3>2. AgentTypes' /\ HistoryTypes'
      <4>1. reply' \in [Turns -> Replies]
        BY <2>7 DEF TurnPrompts
      <4>2. worker' \in {"none", "up"}
        BY <2>7 DEF TurnPrompts
      <4>3. sticky' \in BOOLEAN
        BY <2>7 DEF TurnPrompts
      <4>4. HistoryTypes'
        BY <2>7 DEF TurnPrompts
      <4> QED
        BY <4>1, <4>2, <4>3, <4>4
    <3>3. DbTypes' /\ MemoryTypes'
      BY <2>7 DEF TurnPrompts
    <3> QED
      BY <3>1, <3>2, <3>3
  <2>8. CASE PromptReturns(t)
    BY <2>8 DEF PromptReturns, KindOfReply
  <2>9. CASE FinalizeReturns(t)
    <3>1. ControlTypes'
      BY <2>9 DEF FinalizeReturns, EnterTerminate, CtxTurn
    <3>2. DbTypes'
      BY <2>9, SMTT(30) DEF FinalizeReturns
    <3>3. MemoryTypes' /\ AgentTypes' /\ HistoryTypes'
      BY <2>9 DEF FinalizeReturns
    <3> QED
      BY <3>1, <3>2, <3>3
  <2>10. CASE FinalizeFails(t)
    BY <2>10 DEF FinalizeFails, EnterTerminate, CtxTurn
  <2> QED
    BY <1>1, <2>1, <2>2, <2>3, <2>4, <2>5, <2>6, <2>7, <2>8, <2>9, <2>10
<1>2. CASE \/ TurnCompleted(t) \/ CreateRunFails(t) \/ PreludeFails(t)
           \/ AdvanceTakesLock(t) \/ AdvancePopped(t)
  <2>1. CASE TurnCompleted(t)
    BY <2>1 DEF TurnCompleted
  <2>4. CASE CreateRunFails(t) \/ PreludeFails(t)
    <3>1. HistoryTypes'
      BY <2>4 DEF CreateRunFails, PreludeFails, CutOff
    <3>2. DbTypes' /\ MemoryTypes' /\ ControlTypes' /\ AgentTypes'
      BY <2>4 DEF CreateRunFails, PreludeFails
    <3> QED
      BY <3>1, <3>2
  <2>2. CASE AdvanceTakesLock(t)
    <3>0. ASSUME queue # <<>> PROVE Head(queue) \in Turns /\ Tail(queue) \in Seq(Turns)
      BY <3>0
    <3>1. ControlTypes' /\ queue' \in Seq(Turns)
      <4>1. CASE UNCHANGED <<queue, arg>>
        BY <2>2, <4>1 DEF AdvanceTakesLock
      <4>2. CASE queue # <<>> /\ arg' = [arg EXCEPT ![t] = Head(queue)] /\ queue' = Tail(queue)
        BY <2>2, <4>2, <3>0 DEF AdvanceTakesLock
      <4> QED
        BY <2>2, <4>1, <4>2 DEF AdvanceTakesLock
    <3>2. DbTypes'
      BY <2>2, <3>1 DEF AdvanceTakesLock
    <3>3. MemoryTypes' /\ AgentTypes' /\ HistoryTypes'
      BY <2>2 DEF AdvanceTakesLock, PopActive
    <3> QED
      BY <3>1, <3>2, <3>3
  <2>3. CASE AdvancePopped(t)
    BY <2>3 DEF AdvancePopped, StartTurn
  <2> QED
    BY <1>2, <2>1, <2>2, <2>3, <2>4
<1> QED
  BY <1>1, <1>2 DEF RunTurn

\* A step of a _run_turn task leaves watchers and clients alone.
LEMMA RunTurnArgs ==
  ASSUME IInv, NEW t \in Turns, RunTurn(t)
  PROVE  ArgInv'
<1>1. \A p \in Watchers \cup Clients : pc'[p] = pc[p] /\ arg'[p] = arg[p]
  BY ConstantsAssumption DEF RunTurn, TurnBegins, TurnUnsuspends, TurnPrepares,
     CreateRunFails, PreludeFails, PrepareFails, TurnEnsuresWorker, EnsureFails, TurnPrompts,
     PromptReturns, FinalizeReturns, FinalizeFails, EnterTerminate, TurnCompleted, AdvanceTakesLock,
     AdvancePopped, WaitForLock, Goto, Watchers, Coroutines, StartTurn, IInv, Types,
     Discipline, PcTypes, ControlTypes
<1> QED
  BY <1>1 DEF IInv, ArgInv

\* A call of _terminate_run is about a Turn.
LEMMA CtxTurnLemma ==
  ASSUME IInv, NEW p \in Turns \cup Watchers, pc[p] \in TerminatePoints
  PROVE  CtxTurn(p) \in Turns
BY DEF IInv, ArgInv, CtxTurn, TerminatePoints

\* The return from _terminate_run: on to the finally, or the watcher cancels the task.
LEMMA LeaveTerminateLemma ==
  ASSUME IInv, NEW p \in Turns \cup Watchers, pc[p] \in TerminatePoints, LeaveTerminate(p)
  PROVE  /\ LockStep
         /\ queue' \in Seq(Turns)
         /\ cutOff' \in SUBSET Turns
         /\ ControlTypes'
         /\ ArgInv'
<1> USE DEF Coroutines, Watchers
<1> USE DEF IInv, Types, Discipline, PcTypes, ControlTypes
<1>1. CASE /\ p \in Turns /\ WaitForLock(p, "lock")
           /\ UNCHANGED <<task, queue, arg, captured, cutOff>>
  <2>1. Asks(p)
    BY <1>1 DEF Asks, BodyPoints
  <2>2. ArgInv'
    BY <1>1, ConstantsAssumption DEF ArgInv, WaitForLock, Goto
  <2>3. queue' \in Seq(Turns) /\ cutOff' \in SUBSET Turns /\ ControlTypes'
    BY <1>1 DEF LeaveTerminate, DbTypes, HistoryTypes
  <2> QED
    BY <2>1, <2>2, <2>3 DEF LockStep
<1>2. ASSUME NEW t \in Turns \cup {NoTurn}, p \in Watchers, CancelTask(p, t),
             arg' = [arg EXCEPT ![p] = NoTurn], captured' \in {captured, NoTurn}
      PROVE  /\ LockStep /\ queue' \in Seq(Turns) /\ cutOff' \in SUBSET Turns
             /\ ControlTypes' /\ ArgInv'
  <2>1. Cancels(p, t)
    BY <1>2 DEF Cancels
  <2>2. ArgInv'
    BY <1>2, ConstantsAssumption DEF ArgInv, CancelTask, Goto
  <2>3. queue' \in Seq(Turns)
    <3>1. ASSUME t \in Turns, arg[t] # NoTurn PROVE <<arg[t]>> \o queue \in Seq(Turns)
      BY <3>1 DEF DbTypes
    <3>2. CASE queue' = queue
      BY <3>2 DEF DbTypes
    <3> QED
      BY <1>2, <3>1, <3>2 DEF CancelTask
  <2>4. ControlTypes'
    BY <1>2 DEF LeaveTerminate
  <2>5. cutOff' \in SUBSET Turns
    <3>1. cutOff \in SUBSET Turns /\ (t # NoTurn => t \in Turns /\ arg[t] \in Turns \cup {NoTurn})
      BY DEF HistoryTypes
    <3>2. \/ cutOff' = cutOff
          \/ t # NoTurn /\ cutOff' = cutOff \cup ({t} \ {arg[p]})
          \/ t # NoTurn /\ cutOff' = cutOff \cup ({arg[t]} \ {NoTurn})
      BY <1>2 DEF CancelTask, CutOff
    <3> QED
      BY <3>1, <3>2
  <2> QED
    BY <2>1, <2>2, <2>3, <2>4, <2>5 DEF LockStep
<1> QED
  BY <1>1, <1>2 DEF LeaveTerminate, LockTypes, TaskInv

\* A step of _terminate_run, whoever called it.
LEMMA TerminateLemma ==
  ASSUME IInv, NEW p \in Turns \cup Watchers, Terminate(p)
  PROVE  LockStep /\ Types' /\ ArgInv'
<1> USE DEF Coroutines, Watchers
<1> USE DEF db, memory, control, agent, history
<1>0. pc[p] \in TerminatePoints /\ CtxTurn(p) \in Turns
  BY CtxTurnLemma DEF Terminate, TerminateGuard, TerminateClassify, TerminateMark,
     TerminateAnnounce, TerminateReturn, TerminatePoints
<1> DEFINE Leaving ==
             AlreadyEnded(seen[p]) /\ ~Untold(seen[p], CtxTurn(p))
<1>1. CASE TerminateReturn(p) \/ (TerminateGuard(p) /\ Leaving)
  <2>1. /\ LockStep /\ queue' \in Seq(Turns) /\ cutOff' \in SUBSET Turns
        /\ ControlTypes' /\ ArgInv'
    BY <1>0, <1>1, LeaveTerminateLemma DEF TerminateReturn, TerminateGuard
  <2>2. CASE TerminateReturn(p)
    BY <1>0, <2>1, <2>2 DEF TerminateReturn, IInv, Types, DbTypes, MemoryTypes, AgentTypes,
       HistoryTypes
  <2>3. CASE TerminateGuard(p) /\ Leaving
    BY <1>0, <2>1, <2>3 DEF TerminateGuard, IInv, Types, DbTypes, MemoryTypes, AgentTypes,
       HistoryTypes
  <2> QED
    BY <1>1, <2>1, <2>2, <2>3
<1>2. CASE TerminateGuard(p) /\ ~Leaving
  <2>1. Moves(p)
    BY <1>0, <1>2 DEF TerminateGuard, Claim, Moves, Goto, BodyPoints, TerminatePoints,
       WatcherPoints
  <2>2. ArgInv'
    BY <1>0, <1>2, ConstantsAssumption DEF TerminateGuard, Claim, Goto, IInv, ArgInv,
       Discipline, PcTypes
  <2>3. DbTypes' /\ MemoryTypes'
    BY <1>0, <1>2 DEF TerminateGuard, Claim, IInv, Types, DbTypes, MemoryTypes, Kinds
  <2>4. ControlTypes'
    BY <1>0, <1>2 DEF TerminateGuard, Claim, IInv, Types, ControlTypes, MemoryTypes, Kinds
  <2>5. AgentTypes' /\ HistoryTypes'
    BY <1>0, <1>2 DEF TerminateGuard, Notify, IInv, Types, AgentTypes, HistoryTypes
  <2> QED
    BY <2>1, <2>2, <2>3, <2>4, <2>5 DEF LockStep, Types
<1>3. CASE TerminateClassify(p)
  <2>1. Moves(p)
    BY <1>0, <1>3 DEF TerminateClassify, Claim, Moves, Goto, BodyPoints, TerminatePoints,
       WatcherPoints
  <2>2. ArgInv'
    BY <1>0, <1>3, ConstantsAssumption DEF TerminateClassify, Claim, Goto, IInv, ArgInv,
       Discipline, PcTypes
  <2>3. \A kind \in Classified(hint[p]) : kind \in Kinds \cup {Nothing}
    BY <1>0 DEF Classified, Kinds, IInv, Types, ControlTypes
  <2>4. Types'
    BY <1>0, <1>3, <2>3 DEF TerminateClassify, Claim, IInv, Types, DbTypes, MemoryTypes,
       ControlTypes, AgentTypes, HistoryTypes
  <2> QED
    BY <2>1, <2>2, <2>4 DEF LockStep
<1>4. CASE TerminateMark(p)
  <2>1. Moves(p)
    BY <1>0, <1>4 DEF TerminateMark, Claim, Moves, Goto, BodyPoints, TerminatePoints,
       WatcherPoints
  <2>2. ArgInv'
    BY <1>0, <1>4, ConstantsAssumption DEF TerminateMark, Goto, IInv, ArgInv, Discipline,
       PcTypes
  <2>3. Types'
    BY <1>0, <1>4, ConstantsAssumption DEF TerminateMark, IInv, Types, DbTypes, MemoryTypes,
       ControlTypes, AgentTypes, HistoryTypes, Kinds
  <2> QED
    BY <2>1, <2>2, <2>3 DEF LockStep
<1>5. CASE TerminateAnnounce(p)
  <2>1. Moves(p)
    BY <1>0, <1>5 DEF TerminateAnnounce, Moves, Goto, BodyPoints, TerminatePoints,
       WatcherPoints
  <2>2. ArgInv'
    BY <1>0, <1>5, ConstantsAssumption DEF TerminateAnnounce, Goto, IInv, ArgInv,
       Discipline, PcTypes
  <2>3. Types'
    BY <1>0, <1>5, ConstantsAssumption DEF TerminateAnnounce, Notify, IInv, Types, DbTypes,
       MemoryTypes, ControlTypes, AgentTypes, HistoryTypes, Kinds
  <2> QED
    BY <2>1, <2>2, <2>3 DEF LockStep
<1> QED
  BY <1>1, <1>2, <1>3, <1>4, <1>5 DEF Terminate

\* session/cancel keeps the types of the agent.
LEMMA NotifyCancelLemma ==
  ASSUME IInv, NotifyCancel
  PROVE  /\ reply' \in [Turns -> Replies]
         /\ sticky' \in BOOLEAN
<1>1. /\ reply \in [Turns -> Replies]
      /\ sticky \in BOOLEAN
  BY DEF IInv, Types, AgentTypes, Replies
<1>2. CASE /\ reply' = [t \in Turns |-> IF reply[t] = "working" THEN "interrupted" ELSE reply[t]]
           /\ UNCHANGED sticky
  BY <1>1, <1>2
<1>3. CASE sticky' = TRUE /\ UNCHANGED reply
  BY <1>1, <1>3
<1>4. CASE UNCHANGED <<reply, sticky>>
  BY <1>1, <1>4
<1> QED
  BY <1>2, <1>3, <1>4 DEF NotifyCancel

\* The two callers of _terminate_run_for_exceeded_budget.
LEMMA ExceedBudgetLemma ==
  ASSUME IInv, NEW p \in Watchers, NEW t \in Turns, ExceedBudget(p, t)
  PROVE  /\ LockStep /\ ArgInv'
         /\ DbTypes' /\ MemoryTypes' /\ ControlTypes' /\ AgentTypes'
<1> USE DEF Coroutines, Watchers, IInv, Types, Discipline, PcTypes
<1>1. Moves(p)
  BY DEF ExceedBudget, Moves, Goto, WatcherPoints, TerminatePoints
<1>2. ArgInv'
  BY ConstantsAssumption DEF ExceedBudget, ArgInv, Goto, ControlTypes
<1>3. DbTypes' /\ MemoryTypes' /\ ControlTypes'
  BY DEF ExceedBudget, DbTypes, db, MemoryTypes, ControlTypes, Kinds
<1>4. AgentTypes'
  BY NotifyCancelLemma DEF ExceedBudget, AgentTypes
<1> QED
  BY <1>1, <1>2, <1>3, <1>4 DEF LockStep

\* An alarm keeps the types of the history.
LEMMA AlarmLemma ==
  ASSUME IInv, Alarm
  PROVE HistoryTypes'
BY ConstantsAssumption DEF IInv, Types, HistoryTypes, Alarm

\* The crash handler turns to the active Turn, if any.
LEMMA BlameLemma ==
  ASSUME IInv, BlamesActive
  PROVE  /\ ArgInv'
         /\ intent' \in [Turns -> Kinds \cup {Nothing}]
         /\ arg' \in [Coroutines -> Turns \cup {NoTurn}]
<1> USE DEF Coroutines, Watchers, IInv, Types, Discipline, PcTypes, MemoryTypes, ControlTypes
<1>1. CASE active = NoTurn /\ Goto(Crash, "idle") /\ UNCHANGED <<intent, arg>>
  BY <1>1, ConstantsAssumption DEF Goto, ArgInv
<1>2. CASE /\ active # NoTurn
           /\ intent' = [intent EXCEPT ![active] = "error"]
           /\ arg' = [arg EXCEPT ![Crash] = active]
           /\ Goto(Crash, "grace")
  BY <1>2, ConstantsAssumption DEF Goto, ArgInv, Kinds
<1> QED
  BY <1>1, <1>2 DEF BlamesActive

\* A step of the watchdog, the step cap or the crash handler.
LEMMA WatchersLemma ==
  ASSUME IInv, WatchDuration \/ WatchSteps \/ WatchWorker
  PROVE  LockStep /\ Types' /\ ArgInv'
<1> USE DEF Coroutines, Watchers
<1> USE DEF memory, control, agent
<1> USE DEF IInv, Types, Discipline, PcTypes
<1>1. CASE SweepBegins
  <2>1. Moves(Duration)
    BY <1>1 DEF SweepBegins, Moves, Goto, WatcherPoints
  <2>2. ArgInv'
    BY <1>1, ConstantsAssumption DEF SweepBegins, Goto, ArgInv, MemoryTypes, ControlTypes
  <2>3. Types'
    BY <1>1, AlarmLemma DEF SweepBegins, DbTypes, db, MemoryTypes, ControlTypes, AgentTypes
  <2> QED
    BY <2>1, <2>2, <2>3 DEF LockStep
<1>2. CASE DurationExceeded
  <2>1. arg[Duration] \in Turns /\ ExceedBudget(Duration, arg[Duration])
    BY <1>2 DEF DurationExceeded, ArgInv
  <2> QED
    BY <1>2, <2>1, ExceedBudgetLemma DEF DurationExceeded, HistoryTypes, history
<1>3. CASE StepCapExceeded
  <2>1. active \in Turns /\ ExceedBudget(Steps, active)
    BY <1>3 DEF StepCapExceeded, MemoryTypes
  <2> QED
    BY <1>3, <2>1, ExceedBudgetLemma, AlarmLemma DEF StepCapExceeded
<1>4. CASE CancelDelivered(Duration) \/ CancelDelivered(Steps)
  <2>1. PICK p \in {Duration, Steps} : CancelDelivered(p)
    BY <1>4
  <2>0. p \in Watchers /\ pc[p] # "idle" /\ arg[p] \in Turns /\ CtxTurn(p) \in Turns
    BY <2>1, ConstantsAssumption DEF CancelDelivered, CtxTurn, ArgInv
  <2>2. Moves(p)
    BY <2>0, <2>1 DEF CancelDelivered, EnterTerminate, Moves, Goto, WatcherPoints,
       TerminatePoints
  <2>3. ArgInv'
    BY <2>0, <2>1, ConstantsAssumption DEF CancelDelivered, EnterTerminate, Goto, ArgInv,
       ControlTypes
  <2>4. Types'
    BY <2>0, <2>1 DEF CancelDelivered, EnterTerminate, DbTypes, db, MemoryTypes,
       ControlTypes, AgentTypes, HistoryTypes, history, Kinds
  <2> QED
    BY <2>2, <2>3, <2>4 DEF LockStep
<1>5. CASE WorkerExits
  <2>1. Moves(Crash)
    BY <1>5 DEF WorkerExits, BlamesActive, Moves, Goto, WatcherPoints
  <2>2. ArgInv'
    BY <1>5, BlameLemma, ConstantsAssumption DEF WorkerExits, Goto, ArgInv
  <2>3. DbTypes' /\ MemoryTypes' /\ ControlTypes'
    <3>1. DbTypes' /\ UNCHANGED <<active, endedKind, announced, seen, hint, captured>>
      BY <1>5 DEF WorkerExits, DbTypes, db
    <3>2. /\ intent' \in [Turns -> Kinds \cup {Nothing}]
          /\ arg' \in [Coroutines -> Turns \cup {NoTurn}]
      BY <1>5, BlameLemma DEF WorkerExits, MemoryTypes, ControlTypes
    <3> QED
      BY <3>1, <3>2 DEF MemoryTypes, ControlTypes
  <2>4. HistoryTypes'
    BY <1>5, AlarmLemma DEF WorkerExits
  <2>5. AgentTypes'
    <3>1. worker' = "none" /\ sticky' = FALSE
      BY <1>5 DEF WorkerExits
    <3>2. reply' \in [Turns -> Replies]
      BY <1>5 DEF WorkerExits, AgentTypes
    <3> QED
      BY <3>1, <3>2 DEF AgentTypes
  <2> QED
    BY <2>1, <2>2, <2>3, <2>4, <2>5 DEF LockStep
<1>6. CASE GraceSeesEnd \/ GraceExpires \/ CrashChecksRun \/ CrashFinalized
  <2>1. pc[Crash] # "idle" /\ arg[Crash] \in Turns /\ CtxTurn(Crash) \in Turns
    BY <1>6, ConstantsAssumption DEF GraceSeesEnd, GraceExpires, CrashChecksRun,
       CrashFinalized, CtxTurn, ArgInv
  <2>2. Moves(Crash)
    BY <1>6 DEF GraceSeesEnd, GraceExpires, CrashChecksRun, CrashFinalized, EnterTerminate,
       Moves, Goto, WatcherPoints, TerminatePoints
  <2>3. ArgInv'
    BY <1>6, <2>1, ConstantsAssumption DEF GraceSeesEnd, GraceExpires, CrashChecksRun,
       CrashFinalized, EnterTerminate, Goto, ArgInv, ControlTypes
  <2>4. ControlTypes'
    BY <1>6, <2>1 DEF GraceSeesEnd, GraceExpires, CrashChecksRun, CrashFinalized,
       EnterTerminate, ControlTypes, Kinds, DbTypes, TaskInv, LockTypes
  <2>5. DbTypes' /\ MemoryTypes' /\ AgentTypes' /\ HistoryTypes'
    BY <1>6 DEF GraceSeesEnd, GraceExpires, CrashChecksRun, CrashFinalized, DbTypes, db,
       MemoryTypes, AgentTypes, HistoryTypes, history
  <2> QED
    BY <2>2, <2>3, <2>4, <2>5 DEF LockStep
<1>7. CASE GroupReaped
  <2>1. Moves(Crash)
    BY <1>7 DEF GroupReaped, BlamesActive, Moves, Goto, WatcherPoints
  <2>2. ArgInv'
    BY <1>7, BlameLemma DEF GroupReaped
  <2>3. Types'
    BY <1>7, BlameLemma DEF GroupReaped, DbTypes, db, MemoryTypes, ControlTypes, AgentTypes,
       HistoryTypes, history
  <2> QED
    BY <2>1, <2>2, <2>3 DEF LockStep
<1> QED
  BY <1>1, <1>2, <1>3, <1>4, <1>5, <1>6, <1>7 DEF WatchDuration, WatchSteps, WatchWorker

\* A new request: it waits for the lock, or, for stop, touches only the agent.
LEMMA AskLemma ==
  ASSUME IInv, NEW c \in Clients, Ask(c)
  PROVE  LockStep /\ Types' /\ ArgInv'
<1> USE DEF Coroutines, Watchers, db, memory, control, agent, history
<1> USE DEF IInv, Types, Discipline, PcTypes
<1>1. CASE StopRequested(c)
  <2>1. Moves(c) /\ ArgInv'
    BY <1>1 DEF StopRequested, Moves, ArgInv
  <2>2. DbTypes' /\ MemoryTypes' /\ ControlTypes' /\ HistoryTypes'
    BY <1>1 DEF StopRequested, DbTypes, MemoryTypes, ControlTypes, HistoryTypes, Kinds
  <2>3. AgentTypes'
    BY <1>1, NotifyCancelLemma DEF StopRequested, AgentTypes
  <2> QED
    BY <2>1, <2>2, <2>3 DEF LockStep
<1>2. CASE \/ SendRequested(c) \/ RetryRequested(c) \/ ResumeRequested(c) \/ RemoveRequested(c)
           \/ ReorderRequested(c) \/ AbandonRequested(c)
  <2>1. PICK l \in WaitPoints \cap ClientPoints : WaitForLock(c, l)
    BY <1>2 DEF SendRequested, RetryRequested, ResumeRequested, RemoveRequested,
       ReorderRequested, AbandonRequested, WaitPoints, ClientPoints
  <2>2. /\ pc[c] = "idle"
        /\ UNCHANGED <<db, active, task, intent, endedKind, announced, seen, hint, captured,
                       agent, history>>
    BY <1>2 DEF SendRequested, RetryRequested, ResumeRequested, RemoveRequested,
       ReorderRequested, AbandonRequested, Idle
  <2>3. arg' = arg \/ \E t \in Turns : arg' = [arg EXCEPT ![c] = t]
    BY <1>2 DEF SendRequested, RetryRequested, ResumeRequested, RemoveRequested,
       ReorderRequested, AbandonRequested
  <2>4. Asks(c)
    BY <2>1, <2>2 DEF Asks
  <2>5. ArgInv' /\ ControlTypes'
    BY <2>1, <2>2, <2>3, ConstantsAssumption DEF WaitForLock, Goto, WaitPoints, ArgInv,
       HandPoints, ControlTypes
  <2>6. DbTypes' /\ MemoryTypes' /\ AgentTypes' /\ HistoryTypes'
    BY <2>2 DEF DbTypes, MemoryTypes, AgentTypes, HistoryTypes
  <2> QED
    BY <2>4, <2>5, <2>6 DEF LockStep
<1> QED
  BY <1>1, <1>2 DEF Ask

\* A request goes on: what it does to the lock and the tasks.
LEMMA ServeLock ==
  ASSUME IInv, NEW c \in Clients, Serve(c)
  PROVE  LockStep
<1> USE DEF Coroutines, Watchers, db, memory, control
<1> USE DEF IInv, Types, Discipline, PcTypes
<1>1. CASE SendTakesLock(c) \/ RemoveTakesLock(c) \/ ReorderTakesLock(c) \/ AbandonTakesLock(c)
  <2>1. Enters(c)
    BY <1>1 DEF SendTakesLock, RemoveTakesLock, ReorderTakesLock, AbandonTakesLock, Enters,
       Running, WaitPoints, CriticalPoints, ClientPoints
  <2> QED
    BY <2>1 DEF LockStep
<1>2. CASE ResumeTakesLock(c)
  <2>1. Enters(c) \/ Leaves(c)
    BY <1>2 DEF ResumeTakesLock, Enters, Leaves, Running, LockPoints, WaitPoints,
       CriticalPoints, ClientPoints
  <2> QED
    BY <2>1 DEF LockStep
<1>3. CASE RemoveCancels(c)
  <2>1. Continues(c)
    BY <1>3 DEF RemoveCancels, Continues, CriticalPoints, ClientPoints
  <2> QED
    BY <2>1 DEF LockStep
<1>0. pc[c] \in CriticalPoints => Holds(c)
  BY DEF LockInv, Users
<1>4. CASE SendEnqueues(c) \/ AbandonClears(c)
  <2>1. Continues(c)
    BY <1>4 DEF SendEnqueues, AbandonClears, Continues, CriticalPoints, ClientPoints
  <2> QED
    BY <2>1 DEF LockStep
<1>5. CASE SendQueued(c) \/ Finishes(c) \/ AbandonReleases(c)
  <2>1. Leaves(c)
    BY <1>0, <1>5 DEF SendQueued, Finishes, AbandonReleases, Leaves, LockPoints,
       CriticalPoints
  <2> QED
    BY <2>1 DEF LockStep
<1>6. CASE AbandonUnsuspends(c)
  <2>1. Moves(c)
    BY <1>6 DEF AbandonUnsuspends, Moves
  <2> QED
    BY <2>1 DEF LockStep
<1>7. CASE SendStarts(c) \/ ResumeStarts(c)
  <2>1. arg[c] \in Turns \cup {NoTurn} /\ Starts(c, arg[c])
    BY <1>7 DEF SendStarts, ResumeStarts, StartTurn, Starts, ControlTypes
  <2> QED
    BY <2>1 DEF LockStep
<1> QED
  BY <1>1, <1>2, <1>3, <1>4, <1>5, <1>6, <1>7 DEF Serve

\* A request goes on: a client about to enqueue has a Turn to enqueue.
LEMMA ServeArgs ==
  ASSUME IInv, NEW c \in Clients, Serve(c)
  PROVE  ArgInv'
<1> USE DEF Coroutines, Watchers, db, memory, control
<1> USE DEF IInv, Types, Discipline, PcTypes, ControlTypes, HandPoints
<1>0. /\ queue # <<>> => Head(queue) \in Turns
      /\ \A i \in DOMAIN queue : queue[i] \in Turns
  BY DEF DbTypes
<1>1. CASE SendStarts(c) \/ ResumeStarts(c)
  BY <1>1, ConstantsAssumption DEF SendStarts, ResumeStarts, StartTurn, ArgInv
<1>2. CASE ~(SendStarts(c) \/ ResumeStarts(c))
  <2>1. /\ \A p \in Watchers \cup Clients : p # c => pc'[p] = pc[p] /\ arg'[p] = arg[p]
        /\ pc'[c] \in HandPoints => arg'[c] \in Turns
    BY <1>0, <1>2, ConstantsAssumption DEF Serve, SendTakesLock, SendEnqueues, SendQueued,
       ResumeTakesLock, Finishes, RemoveTakesLock, RemoveCancels, ReorderTakesLock,
       AbandonTakesLock, AbandonClears, AbandonReleases, AbandonUnsuspends, Goto, Fresh
  <2> QED
    BY <2>1, ConstantsAssumption DEF ArgInv
<1> QED
  BY <1>1, <1>2

\* A sequence without one of its elements is a sequence.
LEMMA WithoutLemma ==
  ASSUME NEW S, NEW q \in Seq(S), NEW i \in DOMAIN q
  PROVE  Without(q, i) \in Seq(S)
<1>1. Len(q) \in Nat /\ i \in 1 .. Len(q) /\ \A j \in 1 .. Len(q) : q[j] \in S
  OBVIOUS
<1>2. Without(q, i) \in [1 .. Len(q) - 1 -> S]
  BY <1>1 DEF Without
<1> QED
  BY <1>1, <1>2

\* A reordered queue is a queue.
LEMMA ReorderingsLemma ==
  ASSUME NEW S, NEW q \in Seq(S), NEW r \in Reorderings(q)
  PROVE  r \in Seq(S)
<1>1. DOMAIN q = 1 .. Len(q) /\ Len(q) \in Nat /\ \A j \in DOMAIN q : q[j] \in S
  OBVIOUS
<1>2. r \in [DOMAIN q -> {q[i] : i \in DOMAIN q}]
  BY DEF Reorderings
<1>3. r \in [1 .. Len(q) -> S]
  BY <1>1, <1>2
<1> QED
  BY <1>1, <1>3

\* A request goes on: the types.
LEMMA ServeTypes ==
  ASSUME IInv, NEW c \in Clients, Serve(c)
  PROVE  Types'
<1> USE DEF Coroutines, Watchers, db, memory, control, agent, history
<1> USE DEF IInv, Types, ControlTypes
<1>1. MemoryTypes' /\ AgentTypes' /\ HistoryTypes'
  BY DEF Serve, SendTakesLock, SendEnqueues, SendQueued, SendStarts, ResumeTakesLock,
     ResumeStarts, Finishes, RemoveTakesLock, RemoveCancels, ReorderTakesLock,
     AbandonTakesLock, AbandonClears, AbandonReleases, AbandonUnsuspends, StartTurn,
     MemoryTypes, AgentTypes, HistoryTypes
<1>2. queue \in Seq(Turns) /\ \A i \in DOMAIN queue : queue[i] \in Turns
  BY DEF DbTypes
<1>3. queue # <<>> => Head(queue) \in Turns /\ Tail(queue) \in Seq(Turns)
  BY <1>2
<1>4. ControlTypes'
  BY <1>2, <1>3 DEF Serve, SendTakesLock, SendEnqueues, SendQueued, SendStarts,
     ResumeTakesLock, ResumeStarts, Finishes, RemoveTakesLock, RemoveCancels,
     ReorderTakesLock, AbandonTakesLock, AbandonClears, AbandonReleases, AbandonUnsuspends,
     Fresh
<1>5. queue' \in Seq(Turns)
  <2>1. CASE SendEnqueues(c)
    BY <1>2, <2>1 DEF SendEnqueues, ArgInv, HandPoints
  <2>2. CASE RemoveTakesLock(c)
    BY <1>2, <2>2, WithoutLemma DEF RemoveTakesLock
  <2>3. CASE ReorderTakesLock(c)
    BY <1>2, <2>3, ReorderingsLemma DEF ReorderTakesLock
  <2>4. CASE queue' = queue \/ (queue # <<>> /\ queue' = Tail(queue))
    BY <1>2, <1>3, <2>4
  <2> QED
    BY <2>1, <2>2, <2>3, <2>4 DEF Serve, SendTakesLock, SendQueued, SendStarts,
       ResumeTakesLock, ResumeStarts, Finishes, RemoveCancels, AbandonTakesLock,
       AbandonClears, AbandonReleases, AbandonUnsuspends
<1>6. /\ UNCHANGED <<runStatus, runKind>>
      /\ suspended' \in {suspended, Nothing}
      /\ \/ UNCHANGED turnStatus
         \/ \E t \in Turns \cup {NoTurn}, s \in {"queued", "running", "cancelled"} :
              turnStatus' = [turnStatus EXCEPT ![t] = s]
  BY <1>3 DEF Serve, SendTakesLock, SendEnqueues, SendQueued, SendStarts, ResumeTakesLock,
     ResumeStarts, Finishes, RemoveTakesLock, RemoveCancels, ReorderTakesLock,
     AbandonTakesLock, AbandonClears, AbandonReleases, AbandonUnsuspends, Fresh
<1>7. DbTypes'
  BY <1>5, <1>6 DEF DbTypes
<1> QED
  BY <1>1, <1>4, <1>7

\* A client disconnects: its request is cancelled at its await.
LEMMA DisconnectLemma ==
  ASSUME IInv, NEW c \in Clients, Disconnect(c) \/ DisconnectStarted(c)
  PROVE  LockStep /\ Types' /\ ArgInv'
<1> USE DEF Coroutines, Watchers, db, memory, control, agent, history
<1> USE DEF IInv, Types, Discipline, PcTypes, ControlTypes
<1>1. arg[c] \in Turns \cup {NoTurn} /\ (pc[c] \in CriticalPoints => Holds(c))
  BY DEF LockInv, Users
<1>2. CASE DisconnectStarted(c)
  <2>1. Starts(c, arg[c])
    BY <1>2 DEF DisconnectStarted, StartTurn, Starts
  <2>2. ArgInv'
    BY <1>2, ConstantsAssumption DEF DisconnectStarted, StartTurn, ArgInv, HandPoints
  <2>3. Types'
    BY <1>1, <1>2 DEF DisconnectStarted, StartTurn, DbTypes, MemoryTypes, AgentTypes,
       HistoryTypes
  <2> QED
    BY <1>1, <2>1, <2>2, <2>3 DEF LockStep
<1>3. CASE Disconnect(c)
  <2>1. Deserts(c) \/ Leaves(c) \/ Moves(c)
    BY <1>1, <1>3 DEF Disconnect, Deserts, Leaves, Moves, HandPoints, LockPoints,
       CriticalPoints
  <2>2. ArgInv'
    BY <1>3, ConstantsAssumption DEF Disconnect, Goto, ArgInv, HandPoints
  <2>3. queue' \in Seq(Turns)
    <3>1. queue' = queue \/ (queue # <<>> /\ queue' = Tail(queue))
      BY <1>3 DEF Disconnect
    <3> QED
      BY <3>1 DEF DbTypes
  <2>4. cutOff' \in SUBSET Turns
    <3>1. /\ pc[c] \in HandPoints => arg[c] \in Turns
          /\ queue # <<>> => Head(queue) \in Turns
      BY DEF ArgInv, DbTypes
    <3>2. \/ cutOff' = cutOff
          \/ pc[c] \in HandPoints /\ cutOff' = cutOff \cup {arg[c]}
          \/ queue # <<>> /\ cutOff' = cutOff \cup {Head(queue)}
      BY <1>3 DEF Disconnect, CutOff
    <3> QED
      BY <3>1, <3>2 DEF HistoryTypes
  <2>5. DbTypes' /\ MemoryTypes' /\ ControlTypes' /\ AgentTypes' /\ HistoryTypes'
    BY <1>3, <2>3, <2>4 DEF Disconnect, DbTypes, MemoryTypes, AgentTypes, HistoryTypes
  <2> QED
    BY <2>1, <2>2, <2>5 DEF LockStep
<1> QED
  BY <1>2, <1>3

\* The answers of the agent.
LEMMA AgentLemma ==
  ASSUME IInv, NEW t \in Turns, AgentAnswers(t) \/ ReadLoopEnds(t)
  PROVE  LockStep /\ Types' /\ ArgInv'
<1>1. UNCHANGED <<db, memory, control, worker, sticky, history>>
  BY DEF AgentAnswers, ReadLoopEnds
<1>2. LockStep /\ ArgInv'
  BY <1>1 DEF LockStep, memory, control, IInv, ArgInv
<1>3. reply' \in [Turns -> Replies]
  BY DEF AgentAnswers, ReadLoopEnds, IInv, Types, AgentTypes
<1>4. Types'
  BY <1>1, <1>3 DEF IInv, Types, DbTypes, MemoryTypes, ControlTypes, AgentTypes,
     HistoryTypes, db, memory, control, history
<1> QED
  BY <1>2, <1>4

\* The daemon dies and starts again.
LEMMA RestartLemma ==
  ASSUME IInv, Restart
  PROVE  LockStep /\ Types' /\ ArgInv'
<1>1. LockStep
  BY DEF LockStep, Resets, Restart
<1>2. ArgInv'
  <2>1. \A p \in Watchers \cup Clients : pc'[p] = "idle"
    BY ConstantsAssumption DEF Restart, Coroutines, Watchers
  <2> QED
    BY <2>1 DEF ArgInv, HandPoints
<1>3. DbTypes'
  BY DEF Restart, Stale, StaleTurn, IInv, Types, DbTypes, Kinds
<1>4. MemoryTypes' /\ ControlTypes'
  BY DEF Restart, MemoryTypes, ControlTypes
<1>5. AgentTypes'
  BY DEF Restart, AgentTypes, Replies
<1>6. HistoryTypes'
  BY ConstantsAssumption DEF Restart, IInv, Types, HistoryTypes
<1> QED
  BY <1>1, <1>2, <1>3, <1>4, <1>5, <1>6 DEF Types

AheadTypes == ahead \in [Coroutines -> SUBSET Coroutines]

\* The invariant holds initially.
LEMMA InitLemma == Init => IInv /\ AheadTypes
<1> SUFFICES ASSUME Init PROVE IInv /\ AheadTypes
  OBVIOUS
<1> USE DEF Init
<1>1. PcTypes
  BY ConstantsAssumption DEF PcTypes, Coroutines, Watchers, TurnPoints, WatcherPoints,
     ClientPoints
<1>2. LockInv /\ TaskInv
  BY DEF LockInv, TaskInv, LockPoints, WaitPoints, CriticalPoints, Live, BodyPoints,
     TerminatePoints, Users, Coroutines
<1>3. Types
  <2>1. DbTypes
    BY DEF DbTypes
  <2>2. MemoryTypes /\ ControlTypes
    BY DEF MemoryTypes, ControlTypes
  <2>3. AgentTypes
    BY DEF AgentTypes
  <2>4. HistoryTypes
    BY ConstantsAssumption DEF HistoryTypes
  <2> QED
    BY <2>1, <2>2, <2>3, <2>4 DEF Types
<1>4. ArgInv
  BY DEF ArgInv, HandPoints, Coroutines
<1> QED
  BY <1>1, <1>2, <1>3, <1>4 DEF IInv, Discipline, AheadTypes

\* A coroutine only waits for coroutines.
LEMMA AheadLemma ==
  ASSUME AheadTypes, [Next]_vars
  PROVE  AheadTypes'
<1> DEFINE Passed(p) ==
             ahead' = [q \in Coroutines |->
                         {r \in (IF q = p THEN Coroutines ELSE ahead[q]) \ {p} :
                            pc'[r] \in Before(pc'[q])}]
<1>1. ASSUME NEW p \in Coroutines, Passed(p) PROVE AheadTypes'
  BY <1>1 DEF AheadTypes
<1>2. CASE \E p \in Coroutines : Passed(p)
  BY <1>1, <1>2
<1>3. CASE UNCHANGED ahead
  BY <1>3 DEF AheadTypes
<1>4. CASE Restart
  BY <1>4 DEF Restart, AheadTypes
<1> HIDE DEF Passed
<1>5. Next => (\E p \in Coroutines : Passed(p)) \/ UNCHANGED ahead \/ Restart
  BY DEF Next, Step, MovesOn, Passed, Coroutines, Watchers
<1> QED
  BY <1>2, <1>3, <1>4, <1>5 DEF vars

\* Every step of the specification keeps the invariant.
LEMMA NextLemma ==
  ASSUME IInv, [Next]_vars
  PROVE  IInv'
<1>1. ASSUME LockStep /\ Types' /\ ArgInv' PROVE IInv'
  BY <1>1, LockStepLemma DEF IInv
<1>2. CASE UNCHANGED vars
  <2>1. LockStep
    BY <1>2 DEF LockStep, vars, memory, control
  <2>2. Types' /\ ArgInv'
    BY <1>2 DEF vars, db, memory, control, agent, history, IInv, Types, DbTypes,
       MemoryTypes, ControlTypes, AgentTypes, HistoryTypes, ArgInv
  <2> QED
    BY <1>1, <2>1, <2>2
<1>3. ASSUME NEW t \in Turns, RunTurn(t) PROVE IInv'
  BY <1>1, <1>3, RunTurnLock, RunTurnTypes, RunTurnArgs
<1>4. ASSUME NEW p \in Turns \cup Watchers, Terminate(p) PROVE IInv'
  BY <1>1, <1>4, TerminateLemma
<1>5. ASSUME NEW c \in Clients, Ask(c) \/ Serve(c) PROVE IInv'
  BY <1>1, <1>5, AskLemma, ServeLock, ServeTypes, ServeArgs
<1>6. CASE WatchDuration \/ WatchSteps \/ WatchWorker
  BY <1>1, <1>6, WatchersLemma
<1>7. ASSUME NEW t \in Turns, AgentAnswers(t) \/ ReadLoopEnds(t) PROVE IInv'
  BY <1>1, <1>7, AgentLemma
<1>8. CASE Restart
  BY <1>1, <1>8, RestartLemma
<1>9. ASSUME NEW c \in Clients, Disconnect(c) \/ DisconnectStarted(c) PROVE IInv'
  BY <1>1, <1>9, DisconnectLemma
<1> QED
  BY <1>2, <1>3, <1>4, <1>5, <1>6, <1>7, <1>8, <1>9 DEF Next, Step

\* Every variable of the daemon and of the database keeps its type, for every number of
\* Turns and of requests.
THEOREM TypeCorrect == Spec => []TypeOK
<1>1. Init => IInv /\ AheadTypes
  BY InitLemma
<1>2. IInv /\ AheadTypes /\ [Next]_vars => (IInv /\ AheadTypes)'
  BY NextLemma, AheadLemma
<1>3. IInv /\ AheadTypes => TypeOK
  BY DEF IInv, Discipline, Types, LockInv, TaskInv, LockTypes, Users, AheadTypes, TypeOK
<1> QED
  BY <1>1, <1>2, <1>3, PTL DEF Spec

\* The inductive invariant holds throughout.
LEMMA InvariantLemma == Spec => []IInv
<1> QED
  BY InitLemma, NextLemma, PTL DEF Spec

\* One Session runs at most one Turn at a time, however requests, terminations, cancelled
\* tasks, worker exits and restarts interleave (_session_locks, _active_turns, _turn_tasks).
THEOREM SerialTurnsAlways == Spec => []SerialTurns
<1>1. IInv => SerialTurns
  BY DEF IInv, Discipline, TaskInv, SerialTurns
<1> QED
  BY <1>1, InvariantLemma, PTL

\* The registered task is that of the Turn that runs: what stop and the budgets cancel.
THEOREM TurnIsStoppableAlways == Spec => []TurnIsStoppable
<1>1. IInv => TurnIsStoppable
  BY DEF IInv, Discipline, TaskInv, TurnIsStoppable
<1> QED
  BY <1>1, InvariantLemma, PTL

\* A cancelled _run_turn task leaves no place behind in the session lock: whatever is in its
\* FIFO is a coroutine that waits for it or is inside it, the first only.
THEOREM NoAbandonedLockAlways == Spec => []NoAbandonedLock
<1>1. ASSUME IInv PROVE NoAbandonedLock
  <2>1. /\ \A i, j \in DOMAIN lockQ : lockQ[i] = lockQ[j] => i = j
        /\ \A i \in DOMAIN lockQ : lockQ[i] \in Users /\ pc[lockQ[i]] \in LockPoints
        /\ \A i \in DOMAIN lockQ : pc[lockQ[i]] \in CriticalPoints => lockQ[i] = lockQ[1]
        /\ \A i \in DOMAIN lockQ : 1 \in DOMAIN lockQ
    BY <1>1 DEF IInv, Discipline, LockInv, Holds
  <2> QED
    BY <2>1 DEF NoAbandonedLock, LockPoints
<1> QED
  BY <1>1, InvariantLemma, PTL
-------------------------------------------------------------------------------
(* The Runs and their terminations.                                                        *)

Enders == Turns \cup Watchers
Past(t) == pc[t] \notin {"idle", "created"}

\* Who terminates a Turn, or is about to, found it past its first step: it does not start
\* again under their hands.
AboutInv ==
  /\ \A p \in Watchers : pc[p] \notin {"idle", "reap", "grace"} => Past(arg[p])
  /\ \A t \in Turns : reply[t] # "none" => Past(t)
  /\ active # NoTurn => pc[active] # "idle"

\* p has written, or read, the end of the Run it terminates.
Knows(p) ==
  \/ pc[p] \in {"mark", "announce", "reread", "reannounce"}
  \/ pc[p] \in {"getRun", "checkRun"} /\ AlreadyEnded(seen[p])

\* A Run that has ended stays so, and one that has not has its Turn's task at work.
SettledInv ==
  /\ \A p \in Enders : Knows(p) => runStatus[CtxTurn(p)] # "running"
  /\ \A t \in Turns :
       runStatus[t] = "running" => pc[t] \in BodyPoints \ {"complete"} \/ t \in cutOff

CompletedPoints == {"complete", "lock", "pop", "done"}

\* The termination of a Run has been broadcast, or its author is about to; who finds it
\* broadcast may cancel the task of an author that has not.
ToldInv ==
  /\ \A t \in announced : notices[t] > 0
  /\ \A p \in Enders : pc[p] \in {"announce", "reannounce"} => notices[CtxTurn(p)] > 0
  /\ \A t \in Turns : runStatus[t] = "terminated" =>
       \/ notices[t] > 0 \/ t \in cutOff
       \/ \E p \in Enders : pc[p] = "mark" /\ CtxTurn(p) = t
  /\ \A t \in Turns : runStatus[t] = "completed" => pc[t] \in CompletedPoints
  /\ \A p \in Enders : pc[p] \in {"getRun", "checkRun"} /\ seen[p] = "completed" =>
       pc[CtxTurn(p)] \in CompletedPoints

RunsInv == AboutInv /\ SettledInv /\ (restarts = 0 => ToldInv)

-------------------------------------------------------------------------------
(* The messages.                                                                           *)

AbandonPoints == {"abandonLock", "abandonTake", "abandonTurn"}

\* No message is queued twice, or once it runs.
QueueInv ==
  /\ \A i, j \in DOMAIN queue : queue[i] = queue[j] => i = j
  /\ \A i \in DOMAIN queue : turnStatus[queue[i]] = "queued" /\ pc[queue[i]] = "idle"

\* A message in the hands of a coroutine has not been started and is not queued; a Turn that
\* is abandoned is neither.
HandInv ==
  /\ \A p \in Users : pc[p] \in HandPoints /\ arg[p] # NoTurn =>
       /\ pc[arg[p]] = "idle"
       /\ \A i \in DOMAIN queue : queue[i] # arg[p]
       /\ turnStatus[arg[p]] = IF pc[p] = "sendGate" THEN "running" ELSE "queued"
  /\ \A c \in Clients : pc[c] \in AbandonPoints =>
       arg[c] \in Turns /\ turnStatus[arg[c]] \notin {"none", "queued"}
  /\ \A t \in Turns : turnStatus[t] = "none" => pc[t] = "idle"
  /\ \A t \in Turns : arg[t] # NoTurn => pc[t] \in {"pop", "done"}

\* No message is in no place.
KeptInv ==
  \A t \in Turns : turnStatus[t] = "queued" =>
    \/ \E i \in DOMAIN queue : queue[i] = t
    \/ \E p \in Users : arg[p] = t /\ pc[p] \in HandPoints
    \/ pc[t] = "created"
    \/ t \in cutOff

MessageInv == QueueInv /\ HandInv /\ (restarts = 0 => KeptInv)

-------------------------------------------------------------------------------
\* Nobody is both a Turn and a client, or a watcher.
LEMMA Disjoint ==
  /\ \A t \in Turns : t \notin Clients /\ t \notin Watchers /\ t # NoTurn /\ t \in Users
  /\ \A c \in Clients : c \notin Turns /\ c \notin Watchers /\ c # NoTurn /\ c \in Users
  /\ \A p \in Users : p \in Coroutines /\ (p \in Turns \/ p \in Clients)
  /\ \A p \in Watchers : p \in Coroutines
  /\ Watchers = {Duration, Steps, Crash} /\ Duration # Crash /\ Steps # Crash /\ Steps # Duration
  /\ Coroutines = Users \cup Watchers
BY ConstantsAssumption DEF Watchers, Coroutines, Users

\* The types the lemmas below use.
LEMMA Typed ==
  ASSUME IInv
  PROVE  /\ DOMAIN pc = Coroutines /\ DOMAIN arg = Coroutines
         /\ DOMAIN seen = Coroutines /\ DOMAIN hint = Coroutines
         /\ DOMAIN turnStatus = Turns /\ DOMAIN runStatus = Turns
         /\ DOMAIN endedKind = Turns /\ DOMAIN notices = Turns
         /\ \A t \in Turns : pc[t] \in TurnPoints
         /\ \A c \in Clients : pc[c] \in ClientPoints
         /\ \A p \in Coroutines : arg[p] \in Turns \cup {NoTurn}
         /\ active \in Turns \cup {NoTurn} /\ task \in Turns \cup {NoTurn}
         /\ queue \in Seq(Turns)
BY DEF IInv, Discipline, PcTypes, Types, DbTypes, MemoryTypes, ControlTypes, HistoryTypes,
   TaskInv

\* Of those who terminate a Turn, and of the Turns.
LEMMA EndersTyped ==
  ASSUME IInv
  PROVE  /\ Turns \cap Watchers = {} /\ Enders = Turns \cup Watchers
         /\ \A p \in Watchers : pc[p] \in WatcherPoints
         /\ \A p \in Watchers : pc[p] \notin {"idle", "reap"} => arg[p] \in Turns
         /\ \A t \in Turns : CtxTurn(t) = t
         /\ \A p \in Watchers : CtxTurn(p) = arg[p] /\ p \notin Turns
         /\ notices \in [Turns -> 0 .. 2] /\ DOMAIN reply = Turns
         /\ \A p \in Coroutines : seen[p] \in {"none", "running", "completed", "terminated"}
         /\ \A t \in Turns : runStatus[t] \in {"none", "running", "completed", "terminated"}
BY ConstantsAssumption DEF IInv, Discipline, PcTypes, Types, DbTypes, ControlTypes, HistoryTypes,
   AgentTypes, ArgInv, Enders, Watchers, CtxTurn

\* A step of a _run_turn task, but for the hand-off.
LEMMA RunTurnRuns ==
  ASSUME IInv, RunsInv, NEW t \in Turns, RunTurn(t), ~AdvancePopped(t)
  PROVE  RunsInv'
<1> USE Disjoint, Typed, EndersTyped
<1> USE DEF RunsInv, AboutInv, Past, SettledInv, ToldInv, Knows, AlreadyEnded, CompletedPoints,
            BodyPoints, TerminatePoints, Goto, CtxTurn, db, memory, control, agent, history
<1>1. CASE TurnBegins(t)
  BY <1>1 DEF TurnBegins
<1>2. CASE \/ TurnUnsuspends(t) \/ TurnPrepares(t) \/ TurnEnsuresWorker(t)
  BY <1>2 DEF TurnUnsuspends, TurnPrepares, TurnEnsuresWorker
<1>3. CASE PrepareFails(t) \/ EnsureFails(t) \/ FinalizeFails(t)
  BY <1>3 DEF PrepareFails, EnsureFails, FinalizeFails, EnterTerminate
<1>4. CASE TurnPrompts(t)
  <2>1. /\ UNCHANGED <<runStatus, announced, notices, restarts, cutOff, active, arg>>
        /\ pc[t] = "ensure" /\ \A u \in Turns \ {t} : reply'[u] = reply[u]
    BY <1>4 DEF TurnPrompts
  <2>2. \/ /\ Goto(t, "getRun")
           /\ seen' = [seen EXCEPT ![t] = runStatus[t]]
        \/ Goto(t, "prompt") /\ UNCHANGED seen
    BY <1>4 DEF TurnPrompts, EnterTerminate
  <2> QED
    BY <2>1, <2>2
<1>5. CASE PromptReturns(t)
  BY <1>5 DEF PromptReturns
<1>6. CASE FinalizeReturns(t)
  BY <1>6 DEF FinalizeReturns, EnterTerminate
<1>7. CASE TurnCompleted(t)
  BY <1>7 DEF TurnCompleted, WaitForLock
<1>8. CASE CreateRunFails(t) \/ PreludeFails(t)
  BY <1>8 DEF CreateRunFails, PreludeFails, WaitForLock, CutOff
<1>9. CASE AdvanceTakesLock(t)
  BY <1>9 DEF AdvanceTakesLock, PopActive
<1> QED
  BY <1>1, <1>2, <1>3, <1>4, <1>5, <1>6, <1>7, <1>8, <1>9 DEF RunTurn

\* _terminate_run returns to its caller.
Returns(p) ==
  \/ TerminateReturn(p)
  \/ TerminateGuard(p) /\ AlreadyEnded(seen[p]) /\ ~Untold(seen[p], CtxTurn(p))

\* A step of _terminate_run up to its end.
LEMMA TerminateRuns ==
  ASSUME IInv, RunsInv, NEW p \in Enders, Terminate(p), ~Returns(p)
  PROVE  RunsInv'
<1> USE Disjoint, Typed, EndersTyped
<1>0. pc[p] \in TerminatePoints /\ CtxTurn(p) \in Turns
  BY CtxTurnLemma DEF Terminate, TerminateGuard, TerminateClassify, TerminateMark,
     TerminateAnnounce, TerminateReturn, TerminatePoints
<1> USE DEF RunsInv, AboutInv, Past, SettledInv, ToldInv, Knows, AlreadyEnded, CompletedPoints,
            BodyPoints, TerminatePoints, Goto, CtxTurn, db, memory, control, agent, history
<1>1. CASE TerminateGuard(p)
  <2>1. CASE ~AlreadyEnded(seen[p])
    <3>1. /\ seen' = [seen EXCEPT ![p] = "none"]
          /\ UNCHANGED <<runStatus, notices, announced, restarts, cutOff, active, reply, arg>>
          /\ pc[p] = "getRun"
      BY <1>1, <2>1 DEF TerminateGuard
    <3>2. Goto(p, "suspend") \/ Goto(p, "lastStep")
      BY <1>1, <2>1 DEF TerminateGuard, Claim
    <3> HIDE DEF AlreadyEnded
    <3>3. CASE Goto(p, "suspend")
      BY <1>0, <3>1, <3>3
    <3>4. CASE Goto(p, "lastStep")
      BY <1>0, <3>1, <3>4
    <3> QED
      BY <3>2, <3>3, <3>4
  <2>2. CASE AlreadyEnded(seen[p]) /\ Untold(seen[p], CtxTurn(p))
    <3>1. /\ UNCHANGED <<runStatus, announced, restarts, cutOff, active, reply, arg, seen>>
          /\ pc[p] = "getRun"
          /\ \/ Goto(p, "reannounce") /\ Notify(CtxTurn(p))
             \/ Goto(p, "reread") /\ UNCHANGED notices
      BY <1>1, <2>2 DEF TerminateGuard
    <3>2. \A t \in Turns : notices[t] > 0 => notices'[t] > 0
      BY <3>1 DEF Notify
    <3>3. CASE Goto(p, "reread") /\ UNCHANGED notices
      BY <1>0, <2>2, <3>1, <3>3
    <3>4. CASE Goto(p, "reannounce") /\ Notify(CtxTurn(p))
      <4>1. notices'[CtxTurn(p)] > 0
        BY <1>0, <3>4 DEF Notify
      <4>a. AboutInv' /\ SettledInv'
        BY <1>0, <2>2, <3>1, <3>2, <3>4, <4>1
      <4>b. ASSUME restarts' = 0 PROVE ToldInv'
        <5>0. ToldInv
          BY <1>0, <2>2, <3>1, <3>2, <3>4, <4>1, <4>b
        <5>1. /\ \A t \in announced' : notices'[t] > 0
              /\ \A q \in Enders : pc'[q] \in {"announce", "reannounce"} => notices'[CtxTurn(q)'] > 0
          <6>1. \A t \in announced' : notices'[t] > 0
            BY <3>1, <3>2, <5>0 DEF IInv, Types, MemoryTypes
          <6>2. ASSUME NEW q \in Enders, pc'[q] \in {"announce", "reannounce"}
                PROVE  notices'[CtxTurn(q)'] > 0
            <7>1. CtxTurn(q)' = CtxTurn(q)
              BY <3>1
            <7>2. CASE q = p
              BY <4>1, <7>1, <7>2
            <7>3. CASE q # p
              <8>1. pc[q] = pc'[q] /\ CtxTurn(q) \in Turns
                BY <3>4, <6>2, <7>3
              <8> QED
                BY <3>2, <5>0, <6>2, <7>1, <8>1
            <7> QED
              BY <7>2, <7>3
          <6> QED
            BY <6>1, <6>2
        <5>2. \A t \in Turns : runStatus'[t] = "terminated" =>
                 \/ notices'[t] > 0 \/ t \in cutOff'
                 \/ \E q \in Enders : pc'[q] = "mark" /\ CtxTurn(q)' = t
          BY <1>0, <2>2, <3>1, <3>2, <3>4, <4>1, <4>b, <5>0
        <5>3. /\ \A t \in Turns : runStatus'[t] = "completed" => pc'[t] \in CompletedPoints
              /\ \A q \in Enders : pc'[q] \in {"getRun", "checkRun"} /\ seen'[q] = "completed" =>
                   pc'[CtxTurn(q)'] \in CompletedPoints
          BY <1>0, <2>2, <3>1, <3>2, <3>4, <4>1, <4>b, <5>0
        <5> QED
          BY <5>1, <5>2, <5>3
      <4> QED
        BY <4>a, <4>b
    <3> QED
      BY <3>1, <3>3, <3>4
  <2> QED
    BY <1>1, <2>1, <2>2 DEF TerminateGuard, Returns
<1>2. CASE TerminateClassify(p)
  BY <1>0, <1>2 DEF TerminateClassify, Claim
<1>3. CASE TerminateMark(p)
  BY <1>0, <1>3 DEF TerminateMark
<1>4. CASE TerminateAnnounce(p)
  BY <1>0, <1>4 DEF TerminateAnnounce, Notify
<1> QED
  BY <1>1, <1>2, <1>3, <1>4 DEF Terminate, Returns

\* Whoever leaves _terminate_run knows that the Run has ended, and that it was told.
LEMMA LeaveKnows ==
  ASSUME IInv, RunsInv, NEW p \in Enders, Returns(p)
  PROVE  /\ LeaveTerminate(p)
         /\ pc[p] \in {"getRun", "announce", "reannounce"} /\ CtxTurn(p) \in Turns
         /\ Past(CtxTurn(p)) \/ p \in Turns
         /\ runStatus[CtxTurn(p)] # "running"
         /\ restarts = 0 /\ pc[CtxTurn(p)] = "mark" => notices[CtxTurn(p)] > 0
         /\ UNCHANGED <<runStatus, notices, active, reply, restarts>>
         /\ announced \subseteq announced'
         /\ restarts = 0 => \A t \in announced' : notices[t] > 0
<1> USE Disjoint, Typed, EndersTyped
<1>0. pc[p] \in {"getRun", "announce", "reannounce"} /\ CtxTurn(p) \in Turns
  BY CtxTurnLemma DEF Returns, TerminateGuard, TerminateReturn, TerminatePoints
<1>1. /\ LeaveTerminate(p)
      /\ UNCHANGED <<runStatus, notices, active, reply, restarts>>
      /\ announced' = announced \cup {CtxTurn(p)} \/ announced' = announced
      /\ announced' # announced => pc[p] \in {"announce", "reannounce"}
  BY DEF Returns, TerminateReturn, TerminateGuard, agent
<1>2. /\ Knows(p)
      /\ \/ pc[p] \in {"announce", "reannounce"}
         \/ pc[p] = "getRun" /\ seen[p] = "completed"
         \/ pc[p] = "getRun" /\ CtxTurn(p) \in announced
  BY DEF Returns, TerminateReturn, TerminateGuard, Knows, AlreadyEnded, Untold
<1>3. p \notin Turns => Past(CtxTurn(p))
  BY <1>0 DEF RunsInv, AboutInv, Enders, TerminatePoints
<1>4. runStatus[CtxTurn(p)] # "running"
  BY <1>2 DEF RunsInv, SettledInv
<1>5. ASSUME restarts = 0
      PROVE  /\ pc[CtxTurn(p)] = "mark" => notices[CtxTurn(p)] > 0
             /\ \A t \in announced' : notices[t] > 0
  BY <1>1, <1>2, <1>5 DEF RunsInv, ToldInv, CompletedPoints
<1> QED
  BY <1>0, <1>1, <1>3, <1>4, <1>5

\* The return from _terminate_run: the Turn's task goes to its finally, or a watcher cancels
\* the registered task.
LEMMA ReturnRuns ==
  ASSUME IInv, RunsInv, NEW p \in Enders, Returns(p)
  PROVE  RunsInv'
<1>0. /\ LeaveTerminate(p)
      /\ pc[p] \in {"getRun", "announce", "reannounce"} /\ CtxTurn(p) \in Turns
      /\ Past(CtxTurn(p)) \/ p \in Turns
      /\ runStatus[CtxTurn(p)] # "running"
      /\ restarts = 0 /\ pc[CtxTurn(p)] = "mark" => notices[CtxTurn(p)] > 0
      /\ UNCHANGED <<runStatus, notices, active, reply, restarts>>
      /\ announced \subseteq announced'
      /\ restarts = 0 => \A t \in announced' : notices[t] > 0
  BY LeaveKnows
<1>a. p \in Watchers => NoTurn # p /\ p \notin Turns
  BY ConstantsAssumption DEF Watchers
<1> USE Disjoint, Typed, EndersTyped
<1> USE DEF RunsInv, AboutInv, Past, SettledInv, ToldInv, Knows, AlreadyEnded, CompletedPoints,
            BodyPoints, TerminatePoints, Goto, CtxTurn
<1>1. CASE p \in Turns
  <2>1. /\ arg' = arg /\ cutOff' = cutOff /\ pc' = [pc EXCEPT ![p] = "lock"]
        /\ seen' = [seen EXCEPT ![p] = "none"]
    BY <1>0, <1>1, <1>a DEF LeaveTerminate, WaitForLock
  <2>2. AboutInv'
    BY <1>0, <1>1, <2>1
  <2>3. SettledInv'
    BY <1>0, <1>1, <2>1
  <2>4. ToldInv' \/ restarts # 0
    <3>1. CASE restarts = 0
      <4>1. \A q \in Enders : pc'[q] \in {"announce", "reannounce"} => notices'[CtxTurn(q)'] > 0
        BY <1>0, <1>1, <2>1, <3>1
      <4>2. \A t \in Turns : runStatus'[t] = "terminated" =>
               \/ notices'[t] > 0 \/ t \in cutOff'
               \/ \E q \in Enders : pc'[q] = "mark" /\ CtxTurn(q)' = t
        <5> SUFFICES ASSUME NEW u \in Turns, runStatus'[u] = "terminated", ~(notices'[u] > 0), u \notin cutOff'
                     PROVE  \E q \in Enders : pc'[q] = "mark" /\ CtxTurn(q)' = u
          OBVIOUS
        <5>1. PICK q \in Enders : pc[q] = "mark" /\ CtxTurn(q) = u
          BY <1>0, <1>1, <2>1, <3>1
        <5>2. pc'[q] = "mark" /\ CtxTurn(q)' = u
          BY <1>0, <1>1, <2>1, <3>1, <5>1
        <5> QED
          BY <5>1, <5>2
      <4>3. \A t \in Turns : runStatus'[t] = "completed" => pc'[t] \in CompletedPoints
        BY <1>0, <1>1, <2>1, <3>1
      <4>4. \A q \in Enders : pc'[q] \in {"getRun", "checkRun"} /\ seen'[q] = "completed" =>
                 pc'[CtxTurn(q)'] \in CompletedPoints
        BY <1>0, <1>1, <2>1, <3>1
      <4> QED
        BY <1>0, <3>1, <4>1, <4>2, <4>3, <4>4
    <3> QED
      BY <3>1
  <2> QED
    BY <1>0, <2>2, <2>3, <2>4
<1>2. CASE p \in Watchers
  <2>1. PICK t \in Turns \cup {NoTurn} : CancelTask(p, t)
    BY <1>0, <1>2 DEF LeaveTerminate, IInv, Discipline, TaskInv, Types, ControlTypes, Enders
  <2>2. /\ arg' = [arg EXCEPT ![p] = NoTurn] /\ seen' = [seen EXCEPT ![p] = "none"]
        /\ p \in Coroutines /\ p # t
    BY <1>0, <1>2, <1>a DEF LeaveTerminate
  <2>3. CASE TaskDone(t) /\ Goto(p, "idle") /\ UNCHANGED cutOff
    <3>a. AboutInv' /\ SettledInv'
      BY <1>0, <1>2, <2>2, <2>3
    <3>b. ASSUME restarts' = 0 PROVE ToldInv'
      <4>0. ToldInv
        BY <1>0, <1>2, <2>2, <2>3, <3>b
      <4>1. /\ \A v \in announced' : notices'[v] > 0
            /\ \A q \in Enders : pc'[q] \in {"announce", "reannounce"} => notices'[CtxTurn(q)'] > 0
        BY <1>0, <1>2, <2>2, <2>3, <3>b, <4>0
      <4>2. \A v \in Turns : runStatus'[v] = "terminated" =>
               \/ notices'[v] > 0 \/ v \in cutOff'
               \/ \E q \in Enders : pc'[q] = "mark" /\ CtxTurn(q)' = v
        <5> SUFFICES ASSUME NEW u \in Turns, runStatus'[u] = "terminated", ~(notices'[u] > 0), u \notin cutOff'
                     PROVE  \E q \in Enders : pc'[q] = "mark" /\ CtxTurn(q)' = u
          OBVIOUS
        <5>1. PICK q \in Enders : pc[q] = "mark" /\ CtxTurn(q) = u
          BY <1>0, <1>2, <2>2, <2>3, <3>b, <4>0
        <5>2. pc'[q] = "mark" /\ CtxTurn(q)' = u
          BY <1>0, <1>2, <2>2, <2>3, <3>b, <4>0, <5>1
        <5> QED
          BY <5>1, <5>2
      <4>3. /\ \A v \in Turns : runStatus'[v] = "completed" => pc'[v] \in CompletedPoints
            /\ \A q \in Enders : pc'[q] \in {"getRun", "checkRun"} /\ seen'[q] = "completed" =>
                 pc'[CtxTurn(q)'] \in CompletedPoints
        BY <1>0, <1>2, <2>2, <2>3, <3>b, <4>0
      <4> QED
        BY <4>1, <4>2, <4>3
    <3> QED
      BY <3>a, <3>b
  <2>4. CASE /\ t \in Turns /\ pc[t] \in BodyPoints \cup {"created"} /\ CutOff({t} \ {arg[p]})
             /\ pc' = [pc EXCEPT ![p] = "idle", ![t] = IF pc[t] = "created" THEN "done" ELSE "lock"]
    <3>1. /\ pc'[p] = "idle" /\ pc'[t] \in {"lock", "done"} /\ pc[t] # "idle"
          /\ \A q \in Enders \ {p, t} : pc'[q] = pc[q]
          /\ cutOff \subseteq cutOff'
          /\ t \in cutOff' \/ t = CtxTurn(p)
      BY <1>2, <2>2, <2>4 DEF CutOff
    <3>2. t \notin Watchers /\ t \in Enders
      BY <2>4
    <3>3. AboutInv'
      <4>1. \A q \in Watchers : pc'[q] \notin {"idle", "reap", "grace"} => Past(arg[q])' /\ arg'[q] = arg[q]
        <5> SUFFICES ASSUME NEW q \in Watchers, pc'[q] \notin {"idle", "reap", "grace"}
                     PROVE  pc'[arg[q]] \notin {"idle", "created"} /\ arg'[q] = arg[q]
          BY <2>2, <3>1
        <5>1. pc'[q] = pc[q] /\ arg'[q] = arg[q] /\ arg[q] \in Turns
          BY <2>2, <3>1, <3>2
        <5>2. pc[arg[q]] \notin {"idle", "created"}
          BY <5>1
        <5> QED
          BY <1>2, <3>1, <5>1, <5>2
      <4>2. \A u \in Turns : reply'[u] # "none" => Past(u)'
        BY <1>0, <1>2, <3>1
      <4>3. active' # NoTurn => pc'[active'] # "idle"
        BY <1>0, <1>2, <3>1
      <4> QED
        BY <4>1, <4>2, <4>3
    <3>4. \A q \in Enders : Knows(q)' => runStatus'[CtxTurn(q)'] # "running"
      BY <1>0, <2>2, <3>1, <3>2
    <3>5. \A u \in Turns : runStatus'[u] = "running" =>
                            pc'[u] \in BodyPoints \ {"complete"} \/ u \in cutOff'
      BY <1>0, <1>2, <3>1
    <3>a. AboutInv' /\ SettledInv'
      BY <3>3, <3>4, <3>5
    <3>b. ASSUME restarts' = 0 PROVE ToldInv'
      <4>0. ToldInv
        BY <1>0, <1>2, <2>2, <3>1, <3>b
      <4>1. /\ \A v \in announced' : notices'[v] > 0
            /\ \A q \in Enders : pc'[q] \in {"announce", "reannounce"} => notices'[CtxTurn(q)'] > 0
        BY <1>0, <1>2, <2>2, <3>1, <3>b, <4>0
      <4>2. \A v \in Turns : runStatus'[v] = "terminated" =>
               \/ notices'[v] > 0 \/ v \in cutOff'
               \/ \E q \in Enders : pc'[q] = "mark" /\ CtxTurn(q)' = v
        <5> SUFFICES ASSUME NEW u \in Turns, runStatus'[u] = "terminated", ~(notices'[u] > 0), u \notin cutOff'
                     PROVE  \E q \in Enders : pc'[q] = "mark" /\ CtxTurn(q)' = u
          OBVIOUS
        <5>1. PICK q \in Enders : pc[q] = "mark" /\ CtxTurn(q) = u
          BY <1>0, <1>2, <2>2, <3>1, <3>b, <4>0
        <5>2. q # p /\ q # t
          BY <1>0, <2>4, <3>1, <3>b, <5>1
        <5>3. pc'[q] = "mark" /\ CtxTurn(q)' = u
          BY <2>2, <3>1, <5>1, <5>2
        <5> QED
          BY <5>1, <5>3
      <4>3. /\ \A v \in Turns : runStatus'[v] = "completed" => pc'[v] \in CompletedPoints
            /\ \A q \in Enders : pc'[q] \in {"getRun", "checkRun"} /\ seen'[q] = "completed" =>
                 pc'[CtxTurn(q)'] \in CompletedPoints
        BY <1>0, <1>2, <2>2, <3>1, <3>b, <4>0
      <4> QED
        BY <4>1, <4>2, <4>3
    <3> QED
      BY <3>a, <3>b
  <2>5. CASE /\ t \in Turns /\ pc[t] \in {"lock", "pop"} /\ cutOff \subseteq cutOff'
             /\ pc' = [pc EXCEPT ![p] = "idle", ![t] = "done"]
    <3>a. AboutInv' /\ SettledInv'
      BY <1>0, <1>2, <2>2, <2>5
    <3>b. ASSUME restarts' = 0 PROVE ToldInv'
      <4>0. ToldInv
        BY <1>0, <1>2, <2>2, <2>5, <3>b
      <4>1. /\ \A v \in announced' : notices'[v] > 0
            /\ \A q \in Enders : pc'[q] \in {"announce", "reannounce"} => notices'[CtxTurn(q)'] > 0
        BY <1>0, <1>2, <2>2, <2>5, <3>b, <4>0
      <4>2. \A v \in Turns : runStatus'[v] = "terminated" =>
               \/ notices'[v] > 0 \/ v \in cutOff'
               \/ \E q \in Enders : pc'[q] = "mark" /\ CtxTurn(q)' = v
        <5> SUFFICES ASSUME NEW u \in Turns, runStatus'[u] = "terminated", ~(notices'[u] > 0), u \notin cutOff'
                     PROVE  \E q \in Enders : pc'[q] = "mark" /\ CtxTurn(q)' = u
          OBVIOUS
        <5>1. PICK q \in Enders : pc[q] = "mark" /\ CtxTurn(q) = u
          BY <1>0, <1>2, <2>2, <2>5, <3>b, <4>0
        <5>2. pc'[q] = "mark" /\ CtxTurn(q)' = u
          BY <1>0, <1>2, <2>2, <2>5, <3>b, <4>0, <5>1
        <5> QED
          BY <5>1, <5>2
      <4>3. /\ \A v \in Turns : runStatus'[v] = "completed" => pc'[v] \in CompletedPoints
            /\ \A q \in Enders : pc'[q] \in {"getRun", "checkRun"} /\ seen'[q] = "completed" =>
                 pc'[CtxTurn(q)'] \in CompletedPoints
        BY <1>0, <1>2, <2>2, <2>5, <3>b, <4>0
      <4> QED
        BY <4>1, <4>2, <4>3
    <3> QED
      BY <3>a, <3>b
  <2> QED
    BY <2>1, <2>3, <2>4, <2>5 DEF CancelTask, CutOff
<1> QED
  BY <1>1, <1>2 DEF Enders

\* The hand-off, and the requests that start a Turn: p starts the Turn u.
LEMMA LaunchRuns ==
  ASSUME IInv, RunsInv, HandInv, NEW p \in Users, NEW u \in Turns,
         pc[p] \in {"pop", "sendGate", "resumePop"}, arg[p] = u,
         active' = u, pc' = [pc EXCEPT ![p] = pc'[p], ![u] = "created"],
         p \in Turns <=> pc'[p] = "done",
         arg' = [arg EXCEPT ![p] = NoTurn],
         UNCHANGED <<runStatus, announced, seen, reply, notices, restarts>>,
         cutOff \subseteq cutOff'
  PROVE  RunsInv'
<1> USE Disjoint, Typed, EndersTyped
<1>1. /\ pc[u] = "idle" /\ pc'[u] = "created" /\ u # p
      /\ p \in Turns => pc[p] = "pop" /\ pc'[p] = "done"
      /\ \A q \in Enders \ {p, u} : pc'[q] = pc[q]
      /\ \A q \in Watchers : pc'[q] = pc[q] /\ arg'[q] = arg[q]
      /\ active' = u
  BY DEF StartTurn, HandInv, HandPoints, Enders, ClientPoints, TurnPoints, BodyPoints,
     TerminatePoints
<1>2. ASSUME NEW t \in Turns, Past(t) PROVE Past(t)'
  BY <1>1, <1>2 DEF Past, Enders
<1>3. AboutInv'
  BY <1>1, <1>2 DEF RunsInv, AboutInv, Past
<1>4. ASSUME NEW q \in Enders, CtxTurn(q) \in Turns
      PROVE  /\ CtxTurn(q)' = CtxTurn(q)
             /\ pc'[q] = pc[q] \/ (q \in Turns /\ pc'[q] \in {"created", "done"} /\ pc[q] \in {"idle", "pop"})
  BY <1>1, <1>4 DEF Enders, CtxTurn
<1> USE DEF RunsInv, SettledInv, ToldInv, Knows, CompletedPoints, BodyPoints, TerminatePoints
<1>5. SettledInv'
  <2>1. ASSUME NEW q \in Enders, Knows(q)' PROVE runStatus'[CtxTurn(q)'] # "running"
    <3>1. CASE q \in Turns
      BY <1>4, <2>1, <3>1
    <3>2. CASE q \in Watchers
      <4>1. pc'[q] = pc[q] /\ arg'[q] = arg[q] /\ seen'[q] = seen[q]
        BY <1>1, <3>2
      <4> QED
        BY <2>1, <3>2, <4>1 DEF CtxTurn
    <3> QED
      BY <2>1, <3>1, <3>2 DEF Enders
  <2>2. ASSUME NEW t \in Turns, runStatus'[t] = "running"
        PROVE  pc'[t] \in BodyPoints \ {"complete"} \/ t \in cutOff'
    BY <1>1, <2>2
  <2> QED
    BY <2>1, <2>2
<1>6. ASSUME restarts' = 0 PROVE ToldInv'
  <2>0. ToldInv
    BY <1>6
  <2>1. ASSUME NEW q \in Enders, pc'[q] \in {"announce", "reannounce"} PROVE notices'[CtxTurn(q)'] > 0
    BY <1>1, <1>4, <2>0, <2>1 DEF Enders, CtxTurn
  <2>2. ASSUME NEW t \in Turns, runStatus'[t] = "terminated", ~(notices'[t] > 0), t \notin cutOff'
        PROVE  \E q \in Enders : pc'[q] = "mark" /\ CtxTurn(q)' = t
    <3>1. PICK q \in Enders : pc[q] = "mark" /\ CtxTurn(q) = t
      BY <2>0, <2>2
    <3>2. pc'[q] = "mark" /\ CtxTurn(q)' = t
      BY <1>4, <3>1
    <3> QED
      BY <3>2
  <2>3. ASSUME NEW t \in Turns, pc[t] \in CompletedPoints PROVE pc'[t] \in CompletedPoints
    BY <1>1, <2>3 DEF Enders
  <2>4. ASSUME NEW q \in Enders, pc'[q] \in {"getRun", "checkRun"}, seen'[q] = "completed"
        PROVE  pc'[CtxTurn(q)'] \in CompletedPoints
    <3>1. pc[q] = pc'[q] /\ CtxTurn(q) \in Turns
      BY <1>1, <2>4 DEF Enders, CtxTurn
    <3> QED
      BY <1>4, <2>0, <2>3, <2>4, <3>1
  <2> QED
    BY <2>0, <2>1, <2>2, <2>3, <2>4
<1> QED
  BY <1>3, <1>5, <1>6

\* A step of the watchdog, the step cap or the crash handler.
LEMMA WatchersRuns ==
  ASSUME IInv, RunsInv, WatchDuration \/ WatchSteps \/ WatchWorker
  PROVE  RunsInv'
<1> USE Disjoint, Typed, EndersTyped
<1>1. /\ UNCHANGED <<runStatus, announced, notices, restarts, cutOff, active>>
      /\ \A t \in Turns : reply'[t] # "none" => reply[t] # "none"
  BY DEF WatchDuration, WatchSteps, WatchWorker, SweepBegins, DurationExceeded, StepCapExceeded,
     CancelDelivered, WorkerExits, GroupReaped, GraceSeesEnd, GraceExpires, CrashChecksRun,
     CrashFinalized, ExceedBudget, NotifyCancel, Alarm, db, memory, agent, history
<1>2. PICK p \in Watchers :
        /\ \A q \in Enders \ {p} : pc'[q] = pc[q] /\ arg'[q] = arg[q] /\ seen'[q] = seen[q]
        /\ pc[p] # "mark" /\ pc'[p] \notin {"mark", "announce", "reread", "reannounce"}
        /\ pc'[p] \notin {"idle", "reap", "grace"} => Past(arg'[p]) /\ arg'[p] \in Turns
        /\ pc'[p] \in {"getRun", "checkRun"} => seen'[p] = runStatus[arg'[p]]
  <2> USE DEF Enders, Past, Goto, memory, control
  <2>1. CASE WatchDuration
    <3>1. CASE SweepBegins
      BY <3>1 DEF SweepBegins, MayBeOverdue, RunsInv, AboutInv
    <3>2. CASE DurationExceeded
      BY <3>2 DEF DurationExceeded, ExceedBudget, RunsInv, AboutInv
    <3>3. CASE CancelDelivered(Duration)
      BY <3>3 DEF CancelDelivered, EnterTerminate, CtxTurn, RunsInv, AboutInv
    <3> QED
      BY <2>1, <3>1, <3>2, <3>3 DEF WatchDuration
  <2>2. CASE WatchSteps
    <3>1. CASE StepCapExceeded
      BY <3>1 DEF StepCapExceeded, ExceedBudget, RunsInv, AboutInv
    <3>2. CASE CancelDelivered(Steps)
      BY <3>2 DEF CancelDelivered, EnterTerminate, CtxTurn, RunsInv, AboutInv
    <3> QED
      BY <2>2, <3>1, <3>2 DEF WatchSteps
  <2>3. CASE WatchWorker
    <3>1. CASE WorkerExits
      BY <3>1 DEF WorkerExits, BlamesActive
    <3>2. CASE GroupReaped
      BY <3>2 DEF GroupReaped, BlamesActive
    <3>3. CASE GraceSeesEnd
      BY <3>3 DEF GraceSeesEnd
    <3>4. CASE GraceExpires
      BY <3>4 DEF GraceExpires, RunsInv, AboutInv
    <3>5. CASE CrashChecksRun
      BY <3>5 DEF CrashChecksRun, RunsInv, AboutInv
    <3>6. CASE CrashFinalized
      BY <3>6 DEF CrashFinalized, EnterTerminate, CtxTurn, RunsInv, AboutInv
    <3> QED
      BY <2>3, <3>1, <3>2, <3>3, <3>4, <3>5, <3>6 DEF WatchWorker
  <2> QED
    BY <2>1, <2>2, <2>3
<1>3. AboutInv'
  BY <1>1, <1>2 DEF RunsInv, AboutInv, Past, Enders
<1>4. SettledInv'
  <2>1. ASSUME NEW q \in Enders, Knows(q)' PROVE runStatus'[CtxTurn(q)'] # "running"
    <3>1. CASE q = p
      BY <1>1, <1>2, <2>1, <3>1 DEF Knows, AlreadyEnded, CtxTurn
    <3>2. CASE q # p
      BY <1>1, <1>2, <2>1, <3>2 DEF RunsInv, SettledInv, Knows, CtxTurn
    <3> QED
      BY <3>1, <3>2
  <2>2. ASSUME NEW t \in Turns, runStatus'[t] = "running"
        PROVE  pc'[t] \in BodyPoints \ {"complete"} \/ t \in cutOff'
    BY <1>1, <1>2, <2>2 DEF RunsInv, SettledInv, Enders
  <2> QED
    BY <2>1, <2>2 DEF SettledInv
<1>5. ASSUME restarts' = 0 PROVE ToldInv'
  <2>0. ToldInv
    BY <1>1, <1>5 DEF RunsInv
  <2>1. ASSUME NEW q \in Enders, pc'[q] \in {"announce", "reannounce"} PROVE notices'[CtxTurn(q)'] > 0
    <3>1. q # p /\ pc[q] = pc'[q] /\ CtxTurn(q)' = CtxTurn(q)
      BY <1>2, <2>1 DEF CtxTurn
    <3> QED
      BY <1>1, <2>0, <2>1, <3>1 DEF ToldInv
  <2>2. ASSUME NEW t \in Turns, runStatus'[t] = "terminated", ~(notices'[t] > 0), t \notin cutOff'
        PROVE  \E q \in Enders : pc'[q] = "mark" /\ CtxTurn(q)' = t
    <3>1. PICK q \in Enders : pc[q] = "mark" /\ CtxTurn(q) = t
      BY <1>1, <2>0, <2>2 DEF ToldInv
    <3>2. pc'[q] = "mark" /\ CtxTurn(q)' = t
      BY <1>2, <3>1 DEF CtxTurn
    <3> QED
      BY <3>2
  <2>3. \A t \in Turns : runStatus[t] = "completed" => pc'[t] \in CompletedPoints
    BY <1>1, <1>2, <2>0 DEF ToldInv, Enders
  <2>4. ASSUME NEW q \in Enders, pc'[q] \in {"getRun", "checkRun"}, seen'[q] = "completed"
        PROVE  pc'[CtxTurn(q)'] \in CompletedPoints
    <3>1. CASE q = p
      <4>1. CtxTurn(q)' = arg'[p] /\ runStatus[arg'[p]] = "completed" /\ arg'[p] \in Turns
        BY <1>2, <2>4, <3>1 DEF CtxTurn
      <4> QED
        BY <2>3, <4>1
    <3>2. CASE q # p
      <4>1. CtxTurn(q)' = CtxTurn(q) /\ CtxTurn(q) \in Turns /\ pc[q] = pc'[q] /\ seen[q] = seen'[q]
        BY <1>2, <2>4, <3>2 DEF CtxTurn, Enders
      <4> QED
        BY <1>2, <2>0, <2>4, <4>1 DEF ToldInv, Enders
    <3> QED
      BY <3>1, <3>2
  <2> QED
    BY <1>1, <2>0, <2>1, <2>2, <2>3, <2>4 DEF ToldInv
<1> QED
  BY <1>3, <1>4, <1>5 DEF RunsInv

\* Requests that start no Turn, and the agent, are not concerned with Runs.
LEMMA OthersRuns ==
  ASSUME IInv, RunsInv,
         UNCHANGED <<runStatus, announced, notices, restarts, active>>,
         cutOff \subseteq cutOff',
         \A t \in Turns : reply'[t] # "none" => reply[t] # "none",
         \A q \in Enders : pc'[q] = pc[q] /\ arg'[q] = arg[q] /\ seen'[q] = seen[q]
  PROVE  RunsInv'
<1> USE Disjoint, Typed, EndersTyped
<1>0. \A q \in Enders : CtxTurn(q)' = CtxTurn(q) /\ (Knows(q)' <=> Knows(q))
  BY DEF CtxTurn, Knows
<1>1. AboutInv'
  BY DEF RunsInv, AboutInv, Past, Enders
<1>2. SettledInv'
  BY <1>0 DEF RunsInv, SettledInv, Enders
<1>3. ASSUME restarts' = 0 PROVE ToldInv'
  <2>0. ToldInv
    BY <1>3 DEF RunsInv
  <2>1. ASSUME NEW t \in Turns, runStatus'[t] = "terminated", ~(notices'[t] > 0), t \notin cutOff'
        PROVE  \E q \in Enders : pc'[q] = "mark" /\ CtxTurn(q)' = t
    BY <1>0, <2>0, <2>1 DEF ToldInv
  <2>2. ASSUME NEW q \in Enders, pc'[q] \in {"getRun", "checkRun"}, seen'[q] = "completed"
        PROVE  pc'[CtxTurn(q)'] \in CompletedPoints
    <3>1. CtxTurn(q) \in Enders
      BY <2>2 DEF Enders, CtxTurn
    <3> QED
      BY <1>0, <2>0, <2>2, <3>1 DEF ToldInv
  <2> QED
    BY <1>0, <2>0, <2>1, <2>2 DEF ToldInv, Enders
<1> QED
  BY <1>1, <1>2, <1>3 DEF RunsInv

-------------------------------------------------------------------------------
(* The queue as a sequence                                                                 *)

\* r is q without x.
Taken(q, r, x) ==
  /\ \E i \in DOMAIN q : q[i] = x
  /\ \A i \in DOMAIN r : \E j \in DOMAIN q : q[j] = r[i]
  /\ \A j \in DOMAIN q : q[j] = x \/ \E i \in DOMAIN r : r[i] = q[j]
  /\ (\A i, j \in DOMAIN q : q[i] = q[j] => i = j) =>
       /\ \A i, j \in DOMAIN r : r[i] = r[j] => i = j
       /\ \A i \in DOMAIN r : r[i] # x

\* Head and Tail take the first element.
LEMMA TailTaken ==
  ASSUME NEW S, NEW q \in Seq(S), q # <<>>
  PROVE  Head(q) \in S /\ Tail(q) \in Seq(S) /\ Taken(q, Tail(q), Head(q))
<1>1. /\ Len(q) \in Nat /\ 1 \in DOMAIN q /\ DOMAIN q = 1 .. Len(q)
      /\ Head(q) = q[1] /\ Head(q) \in S /\ Tail(q) \in Seq(S)
      /\ DOMAIN Tail(q) = 1 .. Len(q) - 1
      /\ \A i \in 1 .. Len(q) - 1 : Tail(q)[i] = q[i + 1]
  OBVIOUS
<1>2. /\ \A i \in DOMAIN Tail(q) : i + 1 \in DOMAIN q /\ i + 1 # 1 /\ Tail(q)[i] = q[i + 1]
      /\ \A j \in DOMAIN q : j # 1 => j - 1 \in DOMAIN Tail(q) /\ Tail(q)[j - 1] = q[j]
  BY <1>1
<1>3. \A i \in DOMAIN Tail(q) : \E j \in DOMAIN q : q[j] = Tail(q)[i]
  BY <1>2
<1>4. \A j \in DOMAIN q : q[j] = Head(q) \/ \E i \in DOMAIN Tail(q) : Tail(q)[i] = q[j]
  BY <1>1, <1>2
<1>5. ASSUME \A i, j \in DOMAIN q : q[i] = q[j] => i = j
      PROVE  /\ \A i, j \in DOMAIN Tail(q) : Tail(q)[i] = Tail(q)[j] => i = j
             /\ \A i \in DOMAIN Tail(q) : Tail(q)[i] # Head(q)
  BY <1>1, <1>2, <1>5
<1> QED
  BY <1>1, <1>3, <1>4, <1>5 DEF Taken

\* Without takes the element at its place.
LEMMA WithoutTaken ==
  ASSUME NEW S, NEW q \in Seq(S), NEW k \in DOMAIN q
  PROVE  Taken(q, Without(q, k), q[k])
<1> DEFINE r == Without(q, k)
<1>1. /\ Len(q) \in Nat /\ k \in 1 .. Len(q) /\ DOMAIN q = 1 .. Len(q)
      /\ DOMAIN r = 1 .. Len(q) - 1
      /\ \A i \in 1 .. Len(q) - 1 : r[i] = IF i < k THEN q[i] ELSE q[i + 1]
  BY DEF Without
<1> HIDE DEF r
<1>2. /\ \A i \in DOMAIN r : \/ i < k /\ i \in DOMAIN q /\ r[i] = q[i]
                             \/ i + 1 > k /\ i + 1 \in DOMAIN q /\ r[i] = q[i + 1]
      /\ \A j \in DOMAIN q : \/ j < k /\ j \in DOMAIN r /\ r[j] = q[j]
                             \/ j = k
                             \/ j > k /\ j - 1 \in DOMAIN r /\ r[j - 1] = q[j]
  BY <1>1
<1>3. \A i \in DOMAIN r : \E j \in DOMAIN q : q[j] = r[i]
  BY <1>2
<1>4. \A j \in DOMAIN q : q[j] = q[k] \/ \E i \in DOMAIN r : r[i] = q[j]
  BY <1>2
<1>5. ASSUME \A i, j \in DOMAIN q : q[i] = q[j] => i = j
      PROVE  /\ \A i, j \in DOMAIN r : r[i] = r[j] => i = j
             /\ \A i \in DOMAIN r : r[i] # q[k]
  BY <1>1, <1>2, <1>5
<1> QED
  BY <1>3, <1>4, <1>5 DEF Taken, r

\* Append adds one element.
LEMMA AppendGives ==
  ASSUME NEW S, NEW q \in Seq(S), NEW x \in S, \A i \in DOMAIN q : q[i] # x
  PROVE  /\ Taken(Append(q, x), q, x)
         /\ (\A i, j \in DOMAIN q : q[i] = q[j] => i = j) =>
              LET r == Append(q, x) IN \A i, j \in DOMAIN r : r[i] = r[j] => i = j
<1> DEFINE r == Append(q, x)
<1>1. /\ Len(q) \in Nat /\ DOMAIN q = 1 .. Len(q) /\ DOMAIN r = 1 .. Len(q) + 1
      /\ r[Len(q) + 1] = x
      /\ \A i \in 1 .. Len(q) : r[i] = q[i]
  OBVIOUS
<1> HIDE DEF r
<1>2. /\ \A i \in DOMAIN q : i \in DOMAIN r /\ r[i] = q[i]
      /\ \A i \in DOMAIN r : i \in DOMAIN q \/ i = Len(q) + 1
      /\ Len(q) + 1 \in DOMAIN r
  BY <1>1
<1>3. Taken(r, q, x)
  BY <1>1, <1>2 DEF Taken
<1>4. ASSUME \A i, j \in DOMAIN q : q[i] = q[j] => i = j
      PROVE  \A i, j \in DOMAIN r : r[i] = r[j] => i = j
  BY <1>1, <1>2, <1>4
<1> QED
  BY <1>3, <1>4 DEF r

\* r has the elements of q, each as often.
Rearranged(q, r) ==
  /\ \A i \in DOMAIN r : \E j \in DOMAIN q : q[j] = r[i]
  /\ \A j \in DOMAIN q : \E i \in DOMAIN r : r[i] = q[j]
  /\ (\A i, j \in DOMAIN q : q[i] = q[j] => i = j) =>
       \A i, j \in DOMAIN r : r[i] = r[j] => i = j
  /\ q = <<>> <=> r = <<>>

\* How the elements of q that r lists are placed in q.
Places(q, r) == [i \in DOMAIN q |-> CHOOSE j \in DOMAIN q : q[j] = r[i]]

\* A list of the items of the queue, of the same length, is a permutation of it.
LEMMA ReorderingsPlaces ==
  ASSUME NEW S, NEW q \in Seq(S), NEW r \in Reorderings(q),
         \A i, j \in DOMAIN q : q[i] = q[j] => i = j
  PROVE  LET f == Places(q, r)
         IN  /\ f \in [DOMAIN q -> DOMAIN q]
             /\ \A i \in DOMAIN q : q[f[i]] = r[i]
             /\ \A i, j \in DOMAIN q : f[i] = f[j] => i = j
             /\ \A j \in DOMAIN q : \E i \in DOMAIN q : f[i] = j
<1> DEFINE D == DOMAIN q
           f == Places(q, r)
<1>1. /\ r \in [D -> {q[i] : i \in D}]
      /\ \A j \in D : \E i \in D : r[i] = q[j]
  BY DEF Reorderings
<1>2. \A i \in D : \E j \in D : q[j] = r[i]
  BY <1>1
<1>3. /\ f \in [D -> D]
      /\ \A i \in D : q[f[i]] = r[i]
  BY <1>2 DEF Places
<1> HIDE DEF f
<1>4. \A j \in D : \E i \in D : f[i] = j
  BY <1>1, <1>3
<1>5. IsFiniteSet(D)
  <2>1. D = 1 .. Len(q) /\ Len(q) \in Nat
    OBVIOUS
  <2> QED
    BY <2>1, FS_Interval
<1>6. f \in Surjection(D, D)
  BY <1>3, <1>4 DEF Surjection
<1>7. f \in Injection(D, D)
  BY <1>5, <1>6, FS_SurjSameCardinalityImpliesInj
<1>8. \A i, j \in D : f[i] = f[j] => i = j
  BY <1>7 DEF Injection, IsInjective
<1> QED
  BY <1>3, <1>4, <1>8 DEF f

\* The positions a client sends keep every message, once.
LEMMA ReorderingsRearrange ==
  ASSUME NEW S, NEW q \in Seq(S), NEW r \in Reorderings(q)
  PROVE  Rearranged(q, r)
<1>1. /\ r \in [DOMAIN q -> {q[i] : i \in DOMAIN q}]
      /\ DOMAIN r = DOMAIN q
      /\ \A j \in DOMAIN q : \E i \in DOMAIN q : r[i] = q[j]
  BY DEF Reorderings
<1>2. \A i \in DOMAIN r : \E j \in DOMAIN q : q[j] = r[i]
  BY <1>1
<1>3. ASSUME \A i, j \in DOMAIN q : q[i] = q[j] => i = j
      PROVE  \A i, j \in DOMAIN r : r[i] = r[j] => i = j
  <2> DEFINE f == Places(q, r)
  <2>1. /\ f \in [DOMAIN q -> DOMAIN q]
        /\ \A i \in DOMAIN q : q[f[i]] = r[i]
        /\ \A i, j \in DOMAIN q : f[i] = f[j] => i = j
    BY <1>3, ReorderingsPlaces
  <2> HIDE DEF f
  <2> QED
    BY <1>1, <1>3, <2>1
<1>4. q = <<>> <=> r = <<>>
  <2>1. q = <<>> <=> DOMAIN q = {}
    OBVIOUS
  <2>2. r = <<>> <=> DOMAIN r = {}
    BY <1>1
  <2> QED
    BY <1>1, <2>1, <2>2
<1> QED
  BY <1>1, <1>2, <1>3, <1>4 DEF Rearranged

-------------------------------------------------------------------------------
\* One coroutine at most is inside the lock, the one that holds it.
LEMMA OneInside ==
  ASSUME IInv, NEW p \in Users, NEW q \in Users, pc[p] \in CriticalPoints,
         pc[q] \in CriticalPoints \/ Holds(q)
  PROVE  p = q
BY DEF IInv, Discipline, LockInv, Holds

\* A step that takes no message from the queue, or into or out of a coroutine's hands.
Neutral ==
  /\ queue' = queue /\ cutOff \subseteq cutOff' /\ restarts' = restarts
  /\ \A t \in Turns :
       /\ \/ turnStatus'[t] = turnStatus[t]
          \/ pc[t] # "idle" /\ turnStatus'[t] \notin {"none", "queued"}
       /\ pc'[t] = "idle" <=> pc[t] = "idle"
       /\ pc[t] = "created" =>
            pc'[t] = "created" \/ turnStatus'[t] # "queued" \/ t \in cutOff'
       /\ arg'[t] # NoTurn => arg'[t] = arg[t] /\ pc'[t] \in {"pop", "done"}
  /\ \A p \in Users :
       /\ pc[p] \in HandPoints /\ arg[p] # NoTurn => pc'[p] = pc[p] /\ arg'[p] = arg[p]
       /\ pc'[p] \in HandPoints => (pc[p] = pc'[p] /\ arg'[p] = arg[p]) \/ arg'[p] = NoTurn
  /\ \A c \in Clients : pc'[c] \in AbandonPoints =>
       \/ pc[c] \in AbandonPoints /\ arg'[c] = arg[c]
       \/ arg'[c] \in Turns /\ turnStatus[arg'[c]] = "terminated"

\* Such a step keeps the messages where they are.
LEMMA NeutralMessages ==
  ASSUME IInv, MessageInv, Neutral
  PROVE  MessageInv'
<1> USE Disjoint, Typed
<1>1. QueueInv'
  BY DEF Neutral, MessageInv, QueueInv
<1>2. HandInv'
  BY DEF Neutral, MessageInv, HandInv, HandPoints, AbandonPoints
<1>3. ASSUME restarts' = 0 PROVE KeptInv'
  <2>1. KeptInv
    BY <1>3 DEF Neutral, MessageInv
  <2> SUFFICES ASSUME NEW t \in Turns, turnStatus'[t] = "queued", t \notin cutOff', pc'[t] # "created",
                      ~\E i \in DOMAIN queue' : queue'[i] = t
               PROVE  \E p \in Users : arg'[p] = t /\ pc'[p] \in HandPoints
    BY DEF KeptInv
  <2>2. PICK p \in Users : arg[p] = t /\ pc[p] \in HandPoints
    BY <2>1 DEF Neutral, KeptInv
  <2> QED
    BY <2>2 DEF Neutral
<1> QED
  BY <1>1, <1>2, <1>3 DEF MessageInv

\* The message u is taken from the queue into the hands of p.
LEMMA TakeMessages ==
  ASSUME IInv, MessageInv, NEW p \in Users, NEW u,
         Taken(queue, queue', u), queue' \in Seq(Turns),
         pc'[p] \in {"pop", "resumePop", "removed"}, arg'[p] = u,
         p \in Clients <=> pc'[p] # "pop", pc[p] \notin HandPoints \cup {"idle", "created"},
         \A q \in Users \ {p} : pc'[q] = pc[q] /\ arg'[q] = arg[q],
         UNCHANGED <<turnStatus, cutOff, restarts>>
  PROVE  MessageInv'
<1> USE Disjoint, Typed
<1>0. /\ u \in Turns /\ u # p /\ turnStatus[u] = "queued" /\ pc[u] = "idle" /\ pc'[u] = "idle"
      /\ \A i \in DOMAIN queue' : queue'[i] # u /\ queue'[i] # p
  BY DEF Taken, MessageInv, QueueInv
<1>1. QueueInv'
  BY <1>0 DEF MessageInv, QueueInv, Taken
<1>2. HandInv'
  <2>1. ASSUME NEW q \in Users, pc'[q] \in HandPoints, arg'[q] # NoTurn
        PROVE  /\ pc'[arg'[q]] = "idle"
               /\ \A i \in DOMAIN queue' : queue'[i] # arg'[q]
               /\ turnStatus'[arg'[q]] = IF pc'[q] = "sendGate" THEN "running" ELSE "queued"
    <3>1. CASE q = p
      BY <1>0, <3>1
    <3>2. CASE q # p
      <4>1. pc[q] = pc'[q] /\ arg[q] = arg'[q] /\ arg[q] \in Turns /\ pc[arg[q]] = "idle"
        BY <2>1, <3>2 DEF MessageInv, HandInv
      <4>2. arg[q] # p /\ pc'[arg[q]] = "idle"
        BY <4>1
      <4> QED
        BY <2>1, <4>1, <4>2 DEF MessageInv, HandInv, Taken
    <3> QED
      BY <3>1, <3>2
  <2>2. ASSUME NEW c \in Clients, pc'[c] \in AbandonPoints
        PROVE  arg'[c] \in Turns /\ turnStatus'[arg'[c]] \notin {"none", "queued"}
    BY <2>2 DEF MessageInv, HandInv, AbandonPoints
  <2>3. \A t \in Turns : turnStatus'[t] = "none" => pc'[t] = "idle"
    BY DEF MessageInv, HandInv
  <2>4. \A t \in Turns : arg'[t] # NoTurn => pc'[t] \in {"pop", "done"}
    BY DEF MessageInv, HandInv
  <2> QED
    BY <2>1, <2>2, <2>3, <2>4 DEF HandInv
<1>3. ASSUME restarts' = 0 PROVE KeptInv'
  <2>1. KeptInv
    BY <1>3 DEF MessageInv
  <2> SUFFICES ASSUME NEW t \in Turns, turnStatus'[t] = "queued", t \notin cutOff', pc'[t] # "created",
                      ~\E i \in DOMAIN queue' : queue'[i] = t
               PROVE  \E q \in Users : arg'[q] = t /\ pc'[q] \in HandPoints
    BY DEF KeptInv
  <2>2. CASE \E i \in DOMAIN queue : queue[i] = t
    <3>1. t = u
      BY <2>2 DEF Taken
    <3> QED
      BY <3>1 DEF HandPoints
  <2>3. CASE ~\E i \in DOMAIN queue : queue[i] = t
    <3>1. PICK q \in Users : arg[q] = t /\ pc[q] \in HandPoints
      BY <2>1, <2>3 DEF KeptInv
    <3> QED
      BY <3>1
  <2> QED
    BY <2>2, <2>3
<1> QED
  BY <1>1, <1>2, <1>3 DEF MessageInv

\* p starts the Turn u of the message in its hands.
LEMMA LaunchMessages ==
  ASSUME IInv, MessageInv, NEW p \in Users, NEW u \in Turns,
         pc[p] \in {"pop", "sendGate", "resumePop"}, arg[p] = u,
         active' = u, pc' = [pc EXCEPT ![p] = pc'[p], ![u] = "created"],
         p \in Turns <=> pc'[p] = "done",
         pc'[p] \in {"done", "idle", "finish"}, arg' = [arg EXCEPT ![p] = NoTurn],
         UNCHANGED <<queue, turnStatus, restarts>>, cutOff \subseteq cutOff'
  PROVE  MessageInv'
<1> USE Disjoint, Typed
<1>1. /\ pc[p] \in HandPoints /\ pc[u] = "idle" /\ u # p /\ turnStatus[u] \in {"queued", "running"}
      /\ pc'[u] = "created" /\ arg'[p] = NoTurn
      /\ \A q \in Users \ {p, u} : pc'[q] = pc[q]
      /\ \A q \in Users \ {p} : arg'[q] = arg[q] /\ pc[q] \notin HandPoints
      /\ \A i \in DOMAIN queue : queue[i] # u /\ queue[i] # p
  BY OneInside DEF StartTurn, MessageInv, HandInv, QueueInv, HandPoints, CriticalPoints
<1>2. QueueInv'
  BY <1>1 DEF MessageInv, QueueInv
<1>3. HandInv'
  BY <1>1 DEF MessageInv, HandInv, HandPoints, AbandonPoints
<1>4. ASSUME restarts' = 0 PROVE KeptInv'
  BY <1>1, <1>4 DEF MessageInv, KeptInv
<1> QED
  BY <1>2, <1>3, <1>4 DEF MessageInv

\* The coroutine p lets go of the message u in its hands: it is settled, lost, or queued.
LEMMA DropMessages ==
  ASSUME IInv, MessageInv, NEW p \in Users, NEW u \in Turns,
         pc[p] \in HandPoints, arg[p] = u,
         pc'[p] \in {"done", "idle", "finish", "enqueue"}, p \in Turns <=> pc'[p] = "done",
         p \in Turns => arg'[p] \in {arg[p], NoTurn},
         \A q \in Users \ {p} : pc'[q] = pc[q] /\ arg'[q] = arg[q],
         \A t \in Turns \ {u} : turnStatus'[t] = turnStatus[t],
         restarts' = restarts,
         queue' \in Seq(Turns), cutOff \subseteq cutOff',
         \/ queue' = queue /\ u \in cutOff' /\ turnStatus'[u] = turnStatus[u]
         \/ queue' = queue /\ turnStatus'[u] = "cancelled"
         \/ Taken(queue', queue, u) /\ turnStatus'[u] = turnStatus[u] /\ pc[p] # "sendGate"
              /\ \A i, j \in DOMAIN queue' : queue'[i] = queue'[j] => i = j
  PROVE  MessageInv'
<1> USE Disjoint, Typed
<1>1. /\ pc[u] = "idle" /\ u # p /\ turnStatus[u] \in {"queued", "running"}
      /\ pc[p] # "sendGate" => turnStatus[u] = "queued"
      /\ \A q \in Users \ {p} : pc[q] \notin HandPoints
      /\ \A i \in DOMAIN queue : queue[i] # u /\ queue[i] # p
      /\ pc[p] \notin {"idle", "created"}
  BY OneInside DEF MessageInv, HandInv, QueueInv, HandPoints, CriticalPoints
<1>2. QueueInv'
  BY <1>1 DEF MessageInv, QueueInv, Taken
<1>3. HandInv'
  BY <1>1 DEF MessageInv, HandInv, HandPoints, AbandonPoints
<1>4. ASSUME restarts' = 0 PROVE KeptInv'
  BY <1>1, <1>4 DEF MessageInv, KeptInv, Taken
<1> QED
  BY <1>2, <1>3, <1>4 DEF MessageInv

\* One element in front.
LEMMA PrependGives ==
  ASSUME NEW S, NEW q \in Seq(S), NEW x \in S, \A i \in DOMAIN q : q[i] # x
  PROVE  /\ Taken(<<x>> \o q, q, x) /\ <<x>> \o q \in Seq(S)
         /\ (\A i, j \in DOMAIN q : q[i] = q[j] => i = j) =>
              LET r == <<x>> \o q IN \A i, j \in DOMAIN r : r[i] = r[j] => i = j
<1> DEFINE r == <<x>> \o q
<1>1. /\ Len(q) \in Nat /\ DOMAIN q = 1 .. Len(q) /\ DOMAIN r = 1 .. Len(q) + 1
      /\ r[1] = x /\ r \in Seq(S)
      /\ \A i \in 1 .. Len(q) : r[i + 1] = q[i]
  OBVIOUS
<1> HIDE DEF r
<1>2. \A i \in DOMAIN q : i + 1 \in DOMAIN r /\ r[i + 1] = q[i]
  BY <1>1
<1>3. \A i \in DOMAIN r : i # 1 => i - 1 \in DOMAIN q /\ r[i] = q[i - 1]
  <2>1. ASSUME NEW i \in DOMAIN r, i # 1 PROVE i - 1 \in DOMAIN q /\ r[i] = q[i - 1]
    <3>1. i - 1 \in 1 .. Len(q) /\ (i - 1) + 1 = i
      BY <1>1, <2>1
    <3> QED
      BY <1>1, <3>1
  <2> QED
    BY <2>1
<1>4. 1 \in DOMAIN r
  BY <1>1
<1>5. Taken(r, q, x)
  BY <1>1, <1>2, <1>3, <1>4 DEF Taken
<1>6. ASSUME \A i, j \in DOMAIN q : q[i] = q[j] => i = j
      PROVE  \A i, j \in DOMAIN r : r[i] = r[j] => i = j
  BY <1>1, <1>3, <1>6
<1> QED
  BY <1>1, <1>5, <1>6 DEF r

\* The message u is taken from the queue by a client and settled, or lost, at once.
LEMMA RemoveMessages ==
  ASSUME IInv, MessageInv, NEW c \in Clients, NEW u,
         Taken(queue, queue', u), queue' \in Seq(Turns),
         pc[c] = "abandonTake", pc'[c] \in {"abandonTake", "idle"},
         pc'[c] = "abandonTake" => arg'[c] = arg[c],
         \A q \in Users \ {c} : pc'[q] = pc[q] /\ arg'[q] = arg[q],
         \A t \in Turns \ {u} : turnStatus'[t] = turnStatus[t],
         cutOff \subseteq cutOff', restarts' = restarts,
         \/ turnStatus'[u] = "cancelled"
         \/ turnStatus'[u] = turnStatus[u] /\ u \in cutOff'
  PROVE  MessageInv'
<1> USE Disjoint, Typed
<1>0. /\ u \in Turns /\ turnStatus[u] = "queued" /\ pc[u] = "idle"
      /\ turnStatus'[u] # "none"
      /\ \A q \in Users : pc[q] \notin HandPoints /\ pc'[q] \notin HandPoints
      /\ \A i \in DOMAIN queue' : queue'[i] # u /\ turnStatus'[queue'[i]] = turnStatus[queue'[i]]
  BY OneInside DEF Taken, MessageInv, QueueInv, HandPoints, CriticalPoints
<1>1. QueueInv'
  BY <1>0 DEF MessageInv, QueueInv, Taken
<1>2. HandInv'
  BY <1>0 DEF MessageInv, HandInv, AbandonPoints
<1>3. ASSUME restarts' = 0 PROVE KeptInv'
  <2>1. KeptInv
    BY <1>3 DEF MessageInv
  <2> SUFFICES ASSUME NEW t \in Turns, turnStatus'[t] = "queued", t \notin cutOff', pc'[t] # "created"
               PROVE  \E i \in DOMAIN queue' : queue'[i] = t
    BY DEF KeptInv
  <2>2. t # u /\ turnStatus[t] = "queued" /\ t \notin cutOff /\ pc[t] # "created"
    BY <1>0
  <2>3. PICK j \in DOMAIN queue : queue[j] = t
    BY <1>0, <2>1, <2>2 DEF KeptInv
  <2> QED
    BY <2>2, <2>3 DEF Taken
<1> QED
  BY <1>1, <1>2, <1>3 DEF MessageInv

\* The client c creates the Turn t.
LEMMA CreateMessages ==
  ASSUME IInv, MessageInv, NEW c \in Clients, NEW t \in Turns, turnStatus[t] = "none",
         pc[c] = "sendLock", arg' = [arg EXCEPT ![c] = t],
         \/ pc' = [pc EXCEPT ![c] = "sendRow"]
              /\ turnStatus' = [turnStatus EXCEPT ![t] = "queued"]
         \/ pc' = [pc EXCEPT ![c] = "sendGate"]
              /\ turnStatus' = [turnStatus EXCEPT ![t] = "running"],
         UNCHANGED <<queue, cutOff, restarts>>
  PROVE  MessageInv'
<1> USE Disjoint, Typed
<1>0. /\ pc[t] = "idle" /\ t # c
      /\ \A i \in DOMAIN queue : queue[i] # t /\ queue[i] # c /\ queue[i] \in Turns
      /\ \A p \in Users : pc[p] \in HandPoints /\ arg[p] # NoTurn => arg[p] # t /\ p # c
  BY DEF MessageInv, HandInv, QueueInv, HandPoints
<1>1. QueueInv'
  BY <1>0 DEF MessageInv, QueueInv
<1>2. HandInv'
  BY <1>0 DEF MessageInv, HandInv, HandPoints, AbandonPoints
<1>3. ASSUME restarts' = 0 PROVE KeptInv'
  <2>1. KeptInv
    BY <1>3 DEF MessageInv
  <2> SUFFICES ASSUME NEW u \in Turns, turnStatus'[u] = "queued", u \notin cutOff', pc'[u] # "created",
                      ~\E i \in DOMAIN queue' : queue'[i] = u
               PROVE  \E p \in Users : arg'[p] = u /\ pc'[p] \in HandPoints
    BY DEF KeptInv
  <2>2. CASE u = t
    BY <2>2 DEF HandPoints
  <2>3. CASE u # t
    <3>1. PICK p \in Users : arg[p] = u /\ pc[p] \in HandPoints
      BY <1>0, <2>1, <2>3 DEF KeptInv
    <3> QED
      BY <1>0, <3>1
  <2> QED
    BY <2>2, <2>3
<1> QED
  BY <1>1, <1>2, <1>3 DEF MessageInv

\* The queue is put in another order.
LEMMA ReorderMessages ==
  ASSUME IInv, MessageInv, NEW c \in Clients, Rearranged(queue, queue'),
         pc[c] = "reorderLock", pc' = [pc EXCEPT ![c] = "finish"],
         UNCHANGED <<turnStatus, arg, cutOff, restarts>>
  PROVE  MessageInv'
<1> USE Disjoint, Typed
<1>1. QueueInv'
  BY DEF MessageInv, QueueInv, Rearranged
<1>2. HandInv'
  BY DEF MessageInv, HandInv, HandPoints, AbandonPoints, Rearranged
<1>3. ASSUME restarts' = 0 PROVE KeptInv'
  BY <1>3 DEF MessageInv, KeptInv, HandPoints, Rearranged
<1> QED
  BY <1>1, <1>2, <1>3 DEF MessageInv

-------------------------------------------------------------------------------
(* Each step keeps them.                                                                   *)

\* A step of a _run_turn task.
LEMMA RunTurnMessages ==
  ASSUME IInv, MessageInv, NEW t \in Turns, RunTurn(t)
  PROVE  MessageInv'
<1> USE Disjoint, Typed
<1>1. CASE /\ ~AdvanceTakesLock(t) /\ ~AdvancePopped(t)
  <2>1. /\ pc[t] \in BodyPoints \cup {"created"} /\ pc'[t] \in BodyPoints \cup {"lock"}
        /\ \A q \in Users \ {t} : pc'[q] = pc[q]
        /\ UNCHANGED <<queue, arg, restarts>> /\ cutOff \subseteq cutOff'
        /\ pc[t] = "created" => turnStatus'[t] # "queued" \/ t \in cutOff'
        /\ \/ turnStatus' = turnStatus
           \/ \E s \in {"running", "completed"} : turnStatus' = [turnStatus EXCEPT ![t] = s]
    <3> USE DEF BodyPoints, TerminatePoints, Goto, WaitForLock, EnterTerminate, CutOff, db, memory,
                control, history
    <3>1. CASE TurnBegins(t) \/ TurnUnsuspends(t) \/ TurnPrepares(t)
      BY <3>1 DEF TurnBegins, TurnUnsuspends, TurnPrepares
    <3>2. CASE CreateRunFails(t) \/ PreludeFails(t) \/ PrepareFails(t)
      BY <3>2 DEF CreateRunFails, PreludeFails, PrepareFails
    <3>3. CASE TurnEnsuresWorker(t) \/ EnsureFails(t) \/ PromptReturns(t)
      BY <3>3 DEF TurnEnsuresWorker, EnsureFails, PromptReturns
    <3>4. CASE TurnPrompts(t)
      BY <3>4 DEF TurnPrompts
    <3>5. CASE FinalizeReturns(t) \/ FinalizeFails(t) \/ TurnCompleted(t)
      BY <3>5 DEF FinalizeReturns, FinalizeFails, TurnCompleted
    <3> QED
      BY <1>1, <3>1, <3>2, <3>3, <3>4, <3>5 DEF RunTurn
  <2>2. pc[t] \notin HandPoints \cup {"idle", "done"} /\ pc'[t] \notin HandPoints \cup {"idle"}
    BY <2>1 DEF BodyPoints, TerminatePoints, HandPoints
  <2>3. \A u \in Turns : arg[u] # NoTurn => pc[u] \in {"pop", "done"}
    BY DEF MessageInv, HandInv
  <2>4. Neutral
    BY <2>1, <2>2, <2>3 DEF Neutral, HandPoints
  <2> QED
    BY <2>4, NeutralMessages
<1>2. CASE AdvanceTakesLock(t)
  <2>1. /\ pc[t] = "lock" /\ arg[t] = NoTurn
        /\ UNCHANGED <<turnStatus, cutOff, restarts>>
        /\ \A u \in Turns : arg[u] # NoTurn => pc[u] \in {"pop", "done"}
    BY <1>2 DEF AdvanceTakesLock, MessageInv, HandInv, history
  <2>2. CASE pc' = [pc EXCEPT ![t] = "done"] /\ UNCHANGED <<queue, arg>>
    <3>1. Neutral
      BY <2>1, <2>2 DEF Neutral, HandPoints
    <3> QED
      BY <3>1, NeutralMessages
  <2>3. CASE pc' = [pc EXCEPT ![t] = "pop"] /\ UNCHANGED <<queue, arg>>
    <3>1. Neutral
      BY <2>1, <2>3 DEF Neutral, HandPoints
    <3> QED
      BY <3>1, NeutralMessages
  <2>4. CASE /\ pc' = [pc EXCEPT ![t] = "pop"] /\ queue # <<>>
             /\ arg' = [arg EXCEPT ![t] = Head(queue)] /\ queue' = Tail(queue)
    BY <2>1, <2>4, TailTaken, TakeMessages DEF HandPoints
  <2> QED
    BY <1>2, <2>2, <2>3, <2>4 DEF AdvanceTakesLock, Goto
<1>3. CASE AdvancePopped(t)
  <2>1. /\ pc[t] = "pop" /\ arg' = [arg EXCEPT ![t] = NoTurn]
        /\ UNCHANGED <<queue, turnStatus, cutOff, restarts>>
    BY <1>3 DEF AdvancePopped, db, history
  <2>2. CASE arg[t] # NoTurn
    <3>1. pc[arg[t]] = "idle" /\ arg[t] \in Turns
      BY <2>1, <2>2 DEF MessageInv, HandInv, HandPoints
    <3>2. pc' = [pc EXCEPT ![t] = "done", ![arg[t]] = "created"] /\ active' = arg[t]
      BY <1>3, <2>2 DEF AdvancePopped, StartTurn
    <3> QED
      BY <2>1, <3>1, <3>2, LaunchMessages
  <2>3. CASE arg[t] = NoTurn
    <3>1. pc' = [pc EXCEPT ![t] = "done"]
      BY <1>3, <2>3 DEF AdvancePopped, Goto
    <3>2. Neutral
      BY <2>1, <2>3, <3>1 DEF Neutral, HandPoints, MessageInv, HandInv
    <3> QED
      BY <3>2, NeutralMessages
  <2> QED
    BY <2>2, <2>3
<1> QED
  BY <1>1, <1>2, <1>3

\* A step of _terminate_run.
LEMMA TerminateMessages ==
  ASSUME IInv, RunsInv, MessageInv, NEW p \in Enders, Terminate(p)
  PROVE  MessageInv'
<1> USE Disjoint, Typed, EndersTyped
<1>1. /\ CtxTurn(p) \in Turns /\ pc[CtxTurn(p)] # "idle"
      /\ pc[p] \in TerminatePoints
      /\ \A u \in Turns : arg[u] # NoTurn => pc[u] \in {"pop", "done"}
  BY CtxTurnLemma DEF Terminate, TerminateGuard, TerminateClassify, TerminateMark,
     TerminateAnnounce, TerminateReturn, TerminatePoints, RunsInv, AboutInv, Past, Enders,
     MessageInv, HandInv
<1>2. CASE ~Returns(p)
  <2>1. /\ pc' = [pc EXCEPT ![p] = pc'[p]] /\ pc'[p] \in TerminatePoints
        /\ UNCHANGED <<queue, arg, restarts, cutOff>>
        /\ turnStatus' = turnStatus \/ turnStatus' = [turnStatus EXCEPT ![CtxTurn(p)] = "terminated"]
    <3> USE DEF Goto, TerminatePoints, db, memory, history
    <3>1. CASE TerminateGuard(p)
      BY <1>2, <3>1 DEF TerminateGuard, Returns, Claim
    <3>2. CASE TerminateClassify(p)
      BY <3>2 DEF TerminateClassify, Claim
    <3>3. CASE TerminateMark(p)
      BY <3>3 DEF TerminateMark
    <3>4. CASE TerminateAnnounce(p)
      BY <3>4 DEF TerminateAnnounce
    <3> QED
      BY <1>2, <3>1, <3>2, <3>3, <3>4 DEF Terminate, Returns
  <2>2. \A q \in Users : pc'[q] = pc[q] \/ q = p
    BY <2>1
  <2>3. Neutral
    BY <1>1, <2>1, <2>2 DEF Neutral, HandPoints, TerminatePoints
  <2> QED
    BY <2>3, NeutralMessages
<1>3. CASE Returns(p) /\ p \in Turns
  <2>1. /\ pc' = [pc EXCEPT ![p] = "lock"] /\ pc[p] # "created"
        /\ UNCHANGED <<queue, arg, restarts, cutOff, turnStatus>>
    BY <1>1, <1>3 DEF Returns, TerminateGuard, TerminateReturn, LeaveTerminate, WaitForLock, Goto,
       TerminatePoints
  <2>2. Neutral
    BY <1>1, <2>1 DEF Neutral, HandPoints, TerminatePoints
  <2> QED
    BY <2>2, NeutralMessages
<1>4. CASE Returns(p) /\ p \in Watchers
  <2>1. PICK t \in Turns \cup {NoTurn} : CancelTask(p, t)
    BY <1>4 DEF Returns, TerminateGuard, TerminateReturn, LeaveTerminate, IInv, Types, ControlTypes
  <2>2. /\ arg' = [arg EXCEPT ![p] = NoTurn]
        /\ UNCHANGED <<restarts, turnStatus>>
    BY <1>4 DEF Returns, TerminateGuard, TerminateReturn, LeaveTerminate
  <2>3. \A q \in Users : arg'[q] = arg[q] /\ q # p
    BY <1>4, <2>2
  <2>4. CASE TaskDone(t) /\ Goto(p, "idle") /\ UNCHANGED <<queue, cutOff>>
    <3>1. Neutral
      BY <1>1, <2>2, <2>3, <2>4 DEF Neutral, Goto
    <3> QED
      BY <3>1, NeutralMessages
  <2>5. CASE /\ t \in Turns /\ pc[t] \in BodyPoints \cup {"created"} /\ queue' = queue
             /\ pc' = [pc EXCEPT ![p] = "idle", ![t] = IF pc[t] = "created" THEN "done" ELSE "lock"]
             /\ CutOff({t} \ {arg[p]})
    <3>1. pc[t] = "created" => t # arg[p]
      BY <1>1, <1>4 DEF RunsInv, AboutInv, Past, TerminatePoints
    <3>2. \A q \in Users : pc'[q] = pc[q] \/ q = t
      BY <2>5, <2>3
    <3>3. pc[t] \notin HandPoints \cup {"idle"} /\ pc'[t] \in {"lock", "done"}
      BY <2>5, <2>3 DEF BodyPoints, TerminatePoints, HandPoints
    <3>4. Neutral
      <4>1. ASSUME NEW u \in Turns
            PROVE  /\ pc'[u] = "idle" <=> pc[u] = "idle"
                   /\ pc[u] = "created" => pc'[u] = "created" \/ u \in cutOff'
                   /\ arg'[u] # NoTurn => arg'[u] = arg[u] /\ pc'[u] \in {"pop", "done"}
        BY <1>1, <2>3, <2>5, <3>1, <3>2, <3>3 DEF CutOff, HandPoints, BodyPoints, TerminatePoints
      <4>2. cutOff \subseteq cutOff'
        BY <2>5 DEF CutOff
      <4> QED
        BY <2>2, <2>3, <2>5, <3>2, <3>3, <4>1, <4>2 DEF Neutral, HandPoints
    <3> QED
      BY <3>4, NeutralMessages
  <2>6. CASE /\ t \in Turns /\ pc[t] = "lock" /\ UNCHANGED <<queue, cutOff>>
             /\ pc' = [pc EXCEPT ![p] = "idle", ![t] = "done"]
    <3>1. Neutral
      BY <1>1, <2>2, <2>3, <2>6 DEF Neutral, HandPoints
    <3> QED
      BY <3>1, NeutralMessages
  <2>7. CASE /\ t \in Turns /\ pc[t] = "pop"
             /\ pc' = [pc EXCEPT ![p] = "idle", ![t] = "done"]
             /\ \/ UNCHANGED queue /\ CutOff({arg[t]} \ {NoTurn})
                \/ arg[t] # NoTurn /\ queue' = <<arg[t]>> \o queue /\ UNCHANGED cutOff
    <3>0. \A q \in Users \ {t} : pc'[q] = pc[q] /\ arg'[q] = arg[q]
      BY <2>3, <2>7
    <3>1. CASE arg[t] = NoTurn
      <4>1. Neutral
        BY <1>1, <2>2, <2>3, <2>7, <3>0, <3>1 DEF Neutral, HandPoints, CutOff
      <4> QED
        BY <4>1, NeutralMessages
    <3>2. CASE arg[t] # NoTurn /\ UNCHANGED queue /\ CutOff({arg[t]} \ {NoTurn})
      BY <2>2, <2>3, <2>7, <3>0, <3>2, DropMessages DEF CutOff, HandPoints
    <3>3. CASE arg[t] # NoTurn /\ queue' = <<arg[t]>> \o queue /\ UNCHANGED cutOff
      <4>1. /\ \A i \in DOMAIN queue : queue[i] # arg[t]
            /\ \A i, j \in DOMAIN queue : queue[i] = queue[j] => i = j
        BY <2>7, <3>3 DEF MessageInv, HandInv, QueueInv, HandPoints
      <4>2. arg[t] \in Turns /\ queue \in Seq(Turns)
        BY <2>7, <3>3
      <4>3. /\ Taken(<<arg[t]>> \o queue, queue, arg[t]) /\ <<arg[t]>> \o queue \in Seq(Turns)
            /\ LET r == <<arg[t]>> \o queue IN \A i, j \in DOMAIN r : r[i] = r[j] => i = j
        BY <4>1, <4>2, PrependGives
      <4> QED
        BY <2>2, <2>3, <2>7, <3>0, <3>3, <4>2, <4>3, DropMessages DEF HandPoints
    <3> QED
      BY <2>7, <3>1, <3>2, <3>3
  <2> QED
    <3>1. CASE TaskDone(t) /\ Goto(p, "idle") /\ UNCHANGED <<lockQ, task, queue, cutOff>>
      BY <2>4, <3>1
    <3>2. CASE t \in Turns /\ ~(TaskDone(t) /\ Goto(p, "idle") /\ UNCHANGED <<lockQ, task, queue, cutOff>>)
      BY <2>1, <2>5, <2>6, <2>7, <3>2 DEF CancelTask, BodyPoints, TerminatePoints
    <3> QED
      BY <2>1, <3>1, <3>2 DEF CancelTask
<1> QED
  BY <1>2, <1>3, <1>4 DEF Enders

\* A step of a watcher, or of the agent.
LEMMA OutsideMessages ==
  ASSUME IInv, MessageInv,
         UNCHANGED <<queue, turnStatus, cutOff, restarts>>,
         \A q \in Users : pc'[q] = pc[q] /\ arg'[q] = arg[q]
  PROVE  MessageInv'
<1> USE Disjoint, Typed
<1>1. Neutral
  BY DEF Neutral, MessageInv, HandInv
<1> QED
  BY <1>1, NeutralMessages

LEMMA WatchersMessages ==
  ASSUME IInv, MessageInv, WatchDuration \/ WatchSteps \/ WatchWorker
  PROVE  MessageInv'
<1> USE Disjoint, Typed
<1>1. /\ UNCHANGED <<queue, turnStatus, cutOff, restarts>>
      /\ \A q \in Users : pc'[q] = pc[q] /\ arg'[q] = arg[q]
  <2> USE DEF Goto, Alarm, db, memory, control, history
  <2>1. CASE WatchDuration
    BY <2>1 DEF WatchDuration, SweepBegins, DurationExceeded, CancelDelivered, ExceedBudget,
       EnterTerminate
  <2>2. CASE WatchSteps
    BY <2>2 DEF WatchSteps, StepCapExceeded, CancelDelivered, ExceedBudget, EnterTerminate
  <2>3. CASE WatchWorker
    BY <2>3 DEF WatchWorker, WorkerExits, BlamesActive, GroupReaped, GraceSeesEnd, GraceExpires,
       CrashChecksRun, CrashFinalized, EnterTerminate
  <2> QED
    BY <2>1, <2>2, <2>3
<1> QED
  BY <1>1, OutsideMessages

\* A step of the agent.
LEMMA AgentKeeps ==
  ASSUME IInv, RunsInv, MessageInv, NEW t \in Turns, AgentAnswers(t) \/ ReadLoopEnds(t)
  PROVE  RunsInv' /\ MessageInv'
<1> USE Disjoint, Typed, EndersTyped
<1>1. /\ UNCHANGED <<db, memory, control, history>>
      /\ \A u \in Turns : reply'[u] # "none" => reply[u] # "none"
  BY DEF AgentAnswers, ReadLoopEnds
<1>2. RunsInv'
  BY <1>1, OthersRuns DEF db, memory, control, history
<1>3. MessageInv'
  BY <1>1, OutsideMessages DEF db, memory, control, history
<1> QED
  BY <1>2, <1>3

\* The arrival of a request.
LEMMA AskKeeps ==
  ASSUME IInv, RunsInv, MessageInv, NEW c \in Clients, Ask(c)
  PROVE  RunsInv' /\ MessageInv'
<1> USE Disjoint, Typed, EndersTyped
<1>1. /\ UNCHANGED <<queue, turnStatus, runStatus, active, announced, seen, history>>
      /\ \A u \in Turns : reply'[u] # "none" => reply[u] # "none"
      /\ \A q \in Coroutines \ {c} : pc'[q] = pc[q] /\ arg'[q] = arg[q]
      /\ \/ pc'[c] = pc[c] /\ arg'[c] = arg[c]
         \/ pc'[c] \in WaitPoints \ {"abandonLock"} /\ arg'[c] = arg[c]
         \/ pc'[c] = "abandonLock" /\ arg'[c] \in Turns /\ turnStatus[arg'[c]] = "terminated"
      /\ pc[c] = "idle"
  <2> USE DEF Idle, WaitForLock, Goto, WaitPoints, db, control, agent, history
  <2>1. CASE SendRequested(c) \/ RetryRequested(c)
    BY <2>1 DEF SendRequested, RetryRequested
  <2>2. CASE ResumeRequested(c) \/ RemoveRequested(c) \/ ReorderRequested(c)
    BY <2>2 DEF ResumeRequested, RemoveRequested, ReorderRequested
  <2>3. CASE StopRequested(c)
    BY <2>3 DEF StopRequested, NotifyCancel
  <2>4. CASE AbandonRequested(c)
    BY <2>4 DEF AbandonRequested
  <2> QED
    BY <2>1, <2>2, <2>3, <2>4 DEF Ask
<1>2. RunsInv'
  BY <1>1, OthersRuns DEF Enders, history
<1>3. Neutral
  BY <1>1 DEF Neutral, HandPoints, AbandonPoints, WaitPoints, MessageInv, HandInv, history
<1> QED
  BY <1>2, <1>3, NeutralMessages

\* A step of a request that leaves the Runs, the Turns' tasks and the watchers alone.
LEMMA RequestRuns ==
  ASSUME IInv, RunsInv, NEW c \in Clients,
         UNCHANGED <<runStatus, active, announced, seen, reply, notices, restarts>>,
         cutOff \subseteq cutOff',
         \A q \in Coroutines \ {c} : pc'[q] = pc[q] /\ arg'[q] = arg[q]
  PROVE  RunsInv'
<1> USE Disjoint, Typed, EndersTyped
<1>1. \A q \in Enders : pc'[q] = pc[q] /\ arg'[q] = arg[q] /\ seen'[q] = seen[q]
  BY DEF Enders
<1> QED
  BY <1>1, OthersRuns

\* A request that moves between points without a message in hand.
LEMMA RequestNeutral ==
  ASSUME IInv, MessageInv, NEW c \in Clients,
         UNCHANGED <<queue, turnStatus, restarts>>, cutOff \subseteq cutOff',
         pc[c] \notin HandPoints, pc'[c] \notin HandPoints,
         pc'[c] \in AbandonPoints => pc[c] \in AbandonPoints /\ arg'[c] = arg[c],
         \A q \in Coroutines \ {c} : pc'[q] = pc[q] /\ arg'[q] = arg[q]
  PROVE  MessageInv'
<1> USE Disjoint, Typed
<1>1. Neutral
  BY DEF Neutral, MessageInv, HandInv
<1> QED
  BY <1>1, NeutralMessages

\* The start of a Turn by a request.
LEMMA RequestStarts ==
  ASSUME IInv, RunsInv, MessageInv, NEW c \in Clients,
         SendStarts(c) \/ ResumeStarts(c) \/ DisconnectStarted(c)
  PROVE  RunsInv' /\ MessageInv'
<1> USE Disjoint, Typed
<1>1. /\ pc[c] \in {"sendGate", "resumePop"} /\ arg' = [arg EXCEPT ![c] = NoTurn]
      /\ UNCHANGED <<queue, turnStatus, runStatus, announced, seen, reply, notices, restarts, cutOff>>
      /\ active' = arg[c]
      /\ \E label \in {"idle", "finish"} : pc' = [pc EXCEPT ![c] = label, ![arg[c]] = "created"]
  BY DEF SendStarts, ResumeStarts, DisconnectStarted, StartTurn, db, agent, history
<1>2. arg[c] \in Turns /\ arg[c] # c
  BY <1>1 DEF IInv, ArgInv, HandPoints
<1>3. pc'[c] \in {"idle", "finish"} /\ pc' = [pc EXCEPT ![c] = pc'[c], ![arg[c]] = "created"]
  BY <1>1, <1>2
<1>4. RunsInv'
  BY <1>1, <1>2, <1>3, LaunchRuns DEF MessageInv
<1>5. MessageInv'
  BY <1>1, <1>2, <1>3, LaunchMessages
<1> QED
  BY <1>4, <1>5

\* A step of a request.
LEMMA ServeKeeps ==
  ASSUME IInv, RunsInv, MessageInv, NEW c \in Clients, Serve(c)
  PROVE  RunsInv' /\ MessageInv'
<1> USE Disjoint, Typed
<1>1. CASE SendStarts(c) \/ ResumeStarts(c)
  BY <1>1, RequestStarts
<1>2. CASE ~(SendStarts(c) \/ ResumeStarts(c))
  <2>1. /\ UNCHANGED <<runStatus, active, announced, seen, reply, history>>
        /\ \A q \in Coroutines \ {c} : pc'[q] = pc[q] /\ arg'[q] = arg[q]
    <3> USE DEF Goto, db, memory, agent
    <3>1. CASE SendTakesLock(c) \/ SendEnqueues(c) \/ SendQueued(c)
      BY <3>1 DEF SendTakesLock, SendEnqueues, SendQueued
    <3>2. CASE ResumeTakesLock(c) \/ Finishes(c)
      BY <3>2 DEF ResumeTakesLock, Finishes
    <3>3. CASE RemoveTakesLock(c) \/ RemoveCancels(c) \/ ReorderTakesLock(c)
      BY <3>3 DEF RemoveTakesLock, RemoveCancels, ReorderTakesLock
    <3>4. CASE AbandonTakesLock(c) \/ AbandonClears(c) \/ AbandonReleases(c) \/ AbandonUnsuspends(c)
      BY <3>4 DEF AbandonTakesLock, AbandonClears, AbandonReleases, AbandonUnsuspends
    <3> QED
      BY <1>2, <3>1, <3>2, <3>3, <3>4 DEF Serve
  <2>2. RunsInv'
    BY <2>1, RequestRuns DEF history
  <2>3. MessageInv'
    <3> USE <2>1 DEF history
    <3>1. CASE SendTakesLock(c)
      <4>1. PICK t \in Turns :
              /\ turnStatus[t] = "none" /\ arg' = [arg EXCEPT ![c] = t]
              /\ turnStatus' = [turnStatus EXCEPT ![t] = IF Running THEN "queued" ELSE "running"]
        BY <3>1 DEF SendTakesLock, Fresh
      <4>2. /\ pc[c] = "sendLock" /\ queue' = queue
            /\ pc' = [pc EXCEPT ![c] = IF Running THEN "sendRow" ELSE "sendGate"]
        BY <3>1 DEF SendTakesLock, Goto
      <4> QED
        BY <4>1, <4>2, CreateMessages
    <3>2. CASE SendEnqueues(c)
      <4>1. /\ pc[c] = "sendRow" /\ queue' = Append(queue, arg[c]) /\ pc'[c] = "enqueue"
            /\ UNCHANGED turnStatus
        BY <3>2 DEF SendEnqueues, Goto
      <4>2. /\ arg[c] \in Turns /\ queue \in Seq(Turns)
            /\ \A i \in DOMAIN queue : queue[i] # arg[c]
            /\ \A i, j \in DOMAIN queue : queue[i] = queue[j] => i = j
        BY <4>1 DEF IInv, ArgInv, HandPoints, MessageInv, HandInv, QueueInv
      <4>3. /\ Taken(queue', queue, arg[c]) /\ queue' \in Seq(Turns)
            /\ \A i, j \in DOMAIN queue' : queue'[i] = queue'[j] => i = j
        BY <4>1, <4>2, AppendGives
      <4> QED
        BY <4>1, <4>2, <4>3, DropMessages DEF HandPoints
    <3>3. CASE SendQueued(c)
      BY <3>3, RequestNeutral DEF SendQueued, Goto, HandPoints, AbandonPoints, db
    <3>4. CASE ResumeTakesLock(c)
      <4>1. /\ pc[c] = "resumeLock" /\ UNCHANGED turnStatus
            /\ \/ pc'[c] \in {"idle", "finish"} /\ UNCHANGED queue
               \/ /\ pc'[c] = "resumePop" /\ queue # <<>>
                  /\ arg'[c] = Head(queue) /\ queue' = Tail(queue)
        BY <3>4 DEF ResumeTakesLock, Goto
      <4>2. CASE pc'[c] \in {"idle", "finish"} /\ UNCHANGED queue
        BY <4>1, <4>2, RequestNeutral DEF HandPoints, AbandonPoints
      <4>3. CASE /\ pc'[c] = "resumePop" /\ queue # <<>>
                 /\ arg'[c] = Head(queue) /\ queue' = Tail(queue)
        BY <4>1, <4>3, TailTaken, TakeMessages DEF HandPoints
      <4> QED
        BY <4>1, <4>2, <4>3
    <3>5. CASE Finishes(c)
      BY <3>5, RequestNeutral DEF Finishes, Goto, HandPoints, AbandonPoints, db
    <3>6. CASE RemoveTakesLock(c)
      <4>1. /\ pc[c] = "removeLock" /\ UNCHANGED turnStatus
            /\ \/ pc'[c] = "finish" /\ UNCHANGED queue
               \/ /\ pc'[c] = "removed"
                  /\ \E i \in DOMAIN queue : queue' = Without(queue, i) /\ arg'[c] = queue[i]
        BY <3>6 DEF RemoveTakesLock, Goto
      <4>2. CASE pc'[c] = "finish" /\ UNCHANGED queue
        BY <4>1, <4>2, RequestNeutral DEF HandPoints, AbandonPoints
      <4>3. CASE /\ pc'[c] = "removed"
                 /\ \E i \in DOMAIN queue : queue' = Without(queue, i) /\ arg'[c] = queue[i]
        <5>1. PICK i \in DOMAIN queue : queue' = Without(queue, i) /\ arg'[c] = queue[i]
          BY <4>3
        <5>2. Taken(queue, queue', queue[i]) /\ queue' \in Seq(Turns)
          BY <5>1, WithoutTaken, WithoutLemma
        <5> QED
          BY <4>1, <4>3, <5>1, <5>2, TakeMessages DEF HandPoints
      <4> QED
        BY <4>1, <4>2, <4>3
    <3>7. CASE RemoveCancels(c)
      <4>1. /\ pc[c] = "removed" /\ pc'[c] = "finish" /\ queue' = queue
            /\ turnStatus' = [turnStatus EXCEPT ![arg[c]] = "cancelled"]
        BY <3>7 DEF RemoveCancels, Goto
      <4>2. arg[c] \in Turns /\ pc[c] \in HandPoints
        BY <4>1 DEF IInv, ArgInv, HandPoints
      <4> QED
        BY <4>1, <4>2, DropMessages
    <3>8. CASE ReorderTakesLock(c)
      <4>1. /\ pc[c] = "reorderLock" /\ queue' \in Reorderings(queue)
            /\ pc' = [pc EXCEPT ![c] = "finish"] /\ UNCHANGED <<turnStatus, arg>>
        BY <3>8 DEF ReorderTakesLock, Goto
      <4>2. Rearranged(queue, queue')
        BY <4>1, ReorderingsRearrange
      <4> QED
        BY <4>1, <4>2, ReorderMessages
    <3>9. CASE AbandonTakesLock(c)
      BY <3>9, RequestNeutral DEF AbandonTakesLock, Goto, HandPoints, AbandonPoints, db
    <3>10. CASE AbandonClears(c)
      <4>1. CASE queue # <<>>
        <5>1. /\ pc[c] = "abandonTake" /\ pc'[c] = "abandonTake" /\ arg'[c] = arg[c]
              /\ queue' = Tail(queue)
              /\ turnStatus' = [turnStatus EXCEPT ![Head(queue)] = "cancelled"]
          BY <3>10, <4>1 DEF AbandonClears, Goto
        <5>2. /\ Taken(queue, queue', Head(queue)) /\ queue' \in Seq(Turns)
              /\ Head(queue) \in Turns
          BY <4>1, <5>1, TailTaken
        <5> QED
          BY <5>1, <5>2, RemoveMessages
      <4>2. CASE queue = <<>>
        <5>1. /\ pc[c] = "abandonTake" /\ pc' = [pc EXCEPT ![c] = "abandonTurn"] /\ arg' = arg
              /\ queue' = queue
              /\ turnStatus' = [turnStatus EXCEPT ![arg[c]] = "cancelled"]
          BY <3>10, <4>2 DEF AbandonClears, Goto
        <5>2. arg[c] \in Turns /\ turnStatus[arg[c]] \notin {"none", "queued"}
          BY <5>1 DEF MessageInv, HandInv, AbandonPoints
        <5>3. \A q \in Users : pc[q] \notin HandPoints /\ pc'[q] \notin HandPoints
          BY <5>1, OneInside DEF HandPoints, CriticalPoints
        <5>4. QueueInv'
          BY <5>1, <5>2 DEF MessageInv, QueueInv
        <5>5. HandInv'
          BY <5>1, <5>2, <5>3 DEF MessageInv, HandInv, AbandonPoints
        <5>6. restarts' = 0 => KeptInv'
          BY <5>1, <5>2, <5>3 DEF MessageInv, KeptInv
        <5> QED
          BY <5>4, <5>5, <5>6 DEF MessageInv
      <4> QED
        BY <4>1, <4>2
    <3>11. CASE AbandonReleases(c)
      BY <3>11, RequestNeutral DEF AbandonReleases, Goto, HandPoints, AbandonPoints, db
    <3>12. CASE AbandonUnsuspends(c)
      BY <3>12, RequestNeutral DEF AbandonUnsuspends, Goto, HandPoints, AbandonPoints
    <3> QED
      BY <1>2, <3>1, <3>2, <3>3, <3>4, <3>5, <3>6, <3>7, <3>8, <3>9, <3>10, <3>11, <3>12 DEF Serve
  <2> QED
    BY <2>2, <2>3
<1> QED
  BY <1>1, <1>2

\* A client goes away.
LEMMA DisconnectKeeps ==
  ASSUME IInv, RunsInv, MessageInv, NEW c \in Clients, Disconnect(c) \/ DisconnectStarted(c)
  PROVE  RunsInv' /\ MessageInv'
<1> USE Disjoint, Typed
<1>1. CASE DisconnectStarted(c)
  BY <1>1, RequestStarts
<1>2. CASE Disconnect(c)
  <2>1. /\ UNCHANGED <<runStatus, active, announced, seen, reply, turnStatus, notices, restarts>>
        /\ \A q \in Coroutines \ {c} : pc'[q] = pc[q] /\ arg'[q] = arg[q]
        /\ pc'[c] = "idle" /\ cutOff \subseteq cutOff'
    BY <1>2 DEF Disconnect, Goto, CutOff, agent
  <2>2. RunsInv'
    BY <2>1, RequestRuns
  <2>3. CASE queue' = queue /\ pc[c] \notin HandPoints
    BY <2>1, <2>2, <2>3, RequestNeutral DEF HandPoints, AbandonPoints
  <2>4. CASE pc[c] \in HandPoints /\ CutOff({arg[c]}) /\ queue' = queue
    <3>1. arg[c] \in Turns /\ arg[c] \in cutOff'
      BY <2>4 DEF IInv, ArgInv, CutOff
    <3> QED
      BY <2>1, <2>2, <2>4, <3>1, DropMessages
  <2>5. CASE /\ pc[c] = "abandonTake" /\ queue # <<>>
             /\ CutOff({Head(queue)}) /\ queue' = Tail(queue)
    <3>1. /\ Taken(queue, queue', Head(queue)) /\ queue' \in Seq(Turns)
          /\ Head(queue) \in Turns /\ Head(queue) \in cutOff'
      BY <2>5, TailTaken DEF CutOff
    <3> QED
      BY <2>1, <2>2, <2>5, <3>1, RemoveMessages
  <2> QED
    BY <1>2, <2>2, <2>3, <2>4, <2>5 DEF Disconnect, WaitPoints, HandPoints
<1> QED
  BY <1>1, <1>2

\* The hand-off.
LEMMA AdvancePoppedRuns ==
  ASSUME IInv, RunsInv, MessageInv, NEW t \in Turns, AdvancePopped(t)
  PROVE  RunsInv'
<1> USE Disjoint, Typed, EndersTyped
<1>1. /\ pc[t] = "pop" /\ arg' = [arg EXCEPT ![t] = NoTurn]
      /\ UNCHANGED <<runStatus, announced, seen, reply, notices, restarts, cutOff>>
  BY DEF AdvancePopped, db, agent, history
<1>2. CASE arg[t] # NoTurn
  <2>1. pc[arg[t]] = "idle" /\ arg[t] \in Turns
    BY <1>1, <1>2 DEF MessageInv, HandInv, HandPoints
  <2>2. pc' = [pc EXCEPT ![t] = "done", ![arg[t]] = "created"] /\ active' = arg[t]
    BY <1>2 DEF AdvancePopped, StartTurn
  <2> QED
    BY <1>1, <2>1, <2>2, LaunchRuns DEF MessageInv
<1>3. CASE arg[t] = NoTurn
  <2>1. pc' = [pc EXCEPT ![t] = "done"] /\ active' = active /\ \A q \in Coroutines : arg'[q] = arg[q]
    BY <1>1, <1>3 DEF AdvancePopped, Goto
  <2> USE DEF AboutInv, Past, SettledInv, ToldInv, Knows, CompletedPoints, BodyPoints,
              TerminatePoints, CtxTurn
  <2>2. AboutInv'
    BY <1>1, <2>1 DEF RunsInv
  <2>3. SettledInv'
    BY <1>1, <2>1 DEF RunsInv
  <2>4. ASSUME restarts' = 0 PROVE ToldInv'
    <3>0. ToldInv
      BY <1>1, <2>4 DEF RunsInv
    <3>1. ASSUME NEW u \in Turns, runStatus'[u] = "terminated", ~(notices'[u] > 0), u \notin cutOff'
          PROVE  \E q \in Enders : pc'[q] = "mark" /\ CtxTurn(q)' = u
      BY <1>1, <2>1, <3>0, <3>1
    <3>2. /\ \A u \in announced' : notices'[u] > 0
          /\ \A q \in Enders : pc'[q] \in {"announce", "reannounce"} => notices'[CtxTurn(q)'] > 0
          /\ \A u \in Turns : runStatus'[u] = "completed" => pc'[u] \in CompletedPoints
      BY <1>1, <2>1, <3>0
    <3>3. \A q \in Enders : pc'[q] \in {"getRun", "checkRun"} /\ seen'[q] = "completed" =>
            pc'[CtxTurn(q)'] \in CompletedPoints
      BY <1>1, <2>1, <3>0
    <3> QED
      BY <3>1, <3>2, <3>3
  <2> QED
    BY <2>2, <2>3, <2>4 DEF RunsInv
<1> QED
  BY <1>2, <1>3

\* A restart of the daemon.
LEMMA RestartKeeps ==
  ASSUME IInv, RunsInv, MessageInv, Restart
  PROVE  RunsInv' /\ MessageInv'
<1> USE Disjoint, Typed, EndersTyped
<1>1. /\ restarts' # 0 /\ queue' = queue /\ active' = NoTurn
      /\ \A t \in Turns : runStatus'[t] # "running" /\ reply'[t] = "none"
      /\ \A p \in Coroutines : arg'[p] = NoTurn
      /\ \A p \in Coroutines :
           pc'[p] = IF p \in Turns /\ pc[p] # "idle" THEN "done" ELSE "idle"
      /\ \A t \in Turns :
           \/ turnStatus'[t] = turnStatus[t]
           \/ turnStatus[t] = "running" /\ turnStatus'[t] = "terminated"
  BY DEF Restart, Stale, StaleTurn, IInv, Types, HistoryTypes
<1>2. RunsInv'
  <2>1. AboutInv'
    BY <1>1 DEF AboutInv, Past
  <2>2. SettledInv'
    BY <1>1 DEF SettledInv, Knows, Enders
  <2> QED
    BY <1>1, <2>1, <2>2 DEF RunsInv
<1>3. MessageInv'
  <2>1. QueueInv'
    BY <1>1 DEF MessageInv, QueueInv
  <2>2. HandInv'
    BY <1>1 DEF MessageInv, HandInv, AbandonPoints
  <2> QED
    BY <1>1, <2>1, <2>2 DEF MessageInv
<1> QED
  BY <1>2, <1>3

LEMMA RunsInit == Init => RunsInv /\ MessageInv
<1> SUFFICES ASSUME Init PROVE RunsInv /\ MessageInv
  OBVIOUS
<1> USE Disjoint DEF Init
<1>1. AboutInv
  BY DEF AboutInv, Past
<1>2. SettledInv
  BY DEF SettledInv, Knows, Enders
<1>3. ToldInv
  BY DEF ToldInv, Enders
<1>4. QueueInv /\ HandInv /\ KeptInv
  BY DEF QueueInv, HandInv, KeptInv, AbandonPoints, HandPoints
<1> QED
  BY <1>1, <1>2, <1>3, <1>4 DEF RunsInv, MessageInv

\* Every step keeps both.
LEMMA RunsNext ==
  ASSUME IInv, RunsInv, MessageInv, [Next]_vars
  PROVE  RunsInv' /\ MessageInv'
<1>1. CASE \E t \in Turns : RunTurn(t)
  BY <1>1, RunTurnRuns, AdvancePoppedRuns, RunTurnMessages
<1>2. CASE \E p \in Enders : Terminate(p)
  BY <1>2, TerminateRuns, ReturnRuns, TerminateMessages
<1>3. CASE WatchDuration \/ WatchSteps \/ WatchWorker
  BY <1>3, WatchersRuns, WatchersMessages
<1>4. CASE \E c \in Clients : Ask(c) \/ Serve(c)
  BY <1>4, AskKeeps, ServeKeeps
<1>5. CASE \E c \in Clients : Disconnect(c) \/ DisconnectStarted(c)
  BY <1>5, DisconnectKeeps
<1>6. CASE \E t \in Turns : AgentAnswers(t) \/ ReadLoopEnds(t)
  BY <1>6, AgentKeeps
<1>7. CASE Restart
  BY <1>7, RestartKeeps
<1>8. CASE UNCHANGED vars
  BY <1>8 DEF vars, db, memory, control, agent, history, RunsInv, AboutInv, Past, SettledInv,
     Knows, ToldInv, CtxTurn, MessageInv, QueueInv, HandInv, KeptInv
<1> QED
  BY <1>1, <1>2, <1>3, <1>4, <1>5, <1>6, <1>7, <1>8 DEF Next, Step, Enders

LEMMA RunsLemma == Spec => [](IInv /\ RunsInv /\ MessageInv)
<1>1. Init => RunsInv /\ MessageInv
  BY RunsInit
<1>2. IInv /\ RunsInv /\ MessageInv /\ [Next]_vars => RunsInv' /\ MessageInv'
  BY RunsNext
<1> QED
  BY <1>1, <1>2, InvariantLemma, PTL DEF Spec

\* Whatever requests, stops, faults, exits, budgets, disconnections and restarts come when:
\* a Run stored as running is owned by a coroutine that will settle it, unless its Turn was
\* cut off (_run_turn, _terminate_run, _on_worker_crash).
THEOREM ZombieWasCutOffAlways == Spec => []ZombieWasCutOff
<1>1. RunsInv => ZombieWasCutOff
  BY DEF RunsInv, SettledInv, ZombieWasCutOff, Owned, BodyPoints, TerminatePoints
<1> QED
  BY <1>1, RunsLemma, PTL

\* Until the daemon restarts, a queued message is in the queue, or in the hands of a
\* coroutine, or was cut off (send, queue_resume, queue_remove, retry, _advance_queue).
THEOREM LostWasCutOffAlways == Spec => [](restarts = 0 => LostWasCutOff)
<1>1. IInv /\ MessageInv => (restarts = 0 => LostWasCutOff)
  BY Disjoint, Typed DEF MessageInv, KeptInv, LostWasCutOff, Kept, HandPoints
<1> QED
  BY <1>1, RunsLemma, PTL

\* Until the daemon restarts, every terminated Run has been announced when all is quiet,
\* unless its Turn was cut off, whichever of its rivals recorded it (_terminate_run).
THEOREM TerminationIsToldAlways == Spec => []TerminationIsTold
<1>1. IInv /\ RunsInv => TerminationIsTold
  BY Disjoint, Typed, EndersTyped DEF RunsInv, ToldInv, TerminationIsTold, Quiet
<1> QED
  BY <1>1, RunsLemma, PTL
=============================================================================
