----------------------- MODULE SessionTurnsQueueProofs -----------------------
(***************************************************************************)
(* What a Session does with its messages, as theorems about SessionTurns:  *)
(* no queue is left stranded, and the Session implements TurnQueue.  For   *)
(* every number of Turns and of requests, with stops, edits, failures,     *)
(* faults, worker exits and clients that disconnect.                       *)
(*                                                                         *)
(* CalmInv is the inductive invariant, on top of IInv and MessageInv of    *)
(* SessionTurnsProofs.  Each action is one of the effects below: a lemma   *)
(* per effect shows that it keeps CalmInv, one that it is a step of the    *)
(* Queue, and one per group of actions that they are effects.              *)
(***************************************************************************)
EXTENDS SessionTurnsProofs, SequenceTheorems

\* Behaviours that leave every Turn to end by itself, or to be cut off: no watcher terminates
\* it from outside, nobody abandons it, and the daemon stays up.
Calm == Enabled \cap {"duration", "steps", "hang", "orphans", "restart", "abandon"} = {}

\* The watchers do no more than wait for a Turn to end.
WatchInv ==
  /\ pc[Duration] = "idle" /\ pc[Steps] = "idle" /\ pc[Crash] \in {"idle", "grace"}
  /\ \A c \in Clients : pc[c] \notin AbandonPoints \cup {"abandonList"}

\* From create_run to the write of the outcome.
RunPoints ==
  {"createRun", "unsuspend", "prepare", "ensure", "prompt", "finalize", "getRun", "lastStep",
   "suspend"}

\* From that write on.
EndPoints == {"complete", "mark", "announce", "lock", "pop", "done"}

\* The rows of a Turn and of its Run are running from the start of the Turn's task to its
\* outcome, on which they agree.
RunInv ==
  \A t \in Turns :
    /\ pc[t] \notin {"reread", "reannounce"}
    /\ pc[t] \in {"idle", "created"} => runStatus[t] = "none"
    /\ pc[t] = "created" => turnStatus[t] \in {"queued", "running"}
    /\ pc[t] \in RunPoints => runStatus[t] = "running" /\ turnStatus[t] = "running"
    /\ pc[t] \in EndPoints /\ t \notin cutOff =>
         runStatus[t] \in {"completed", "terminated"} /\ turnStatus[t] = runStatus[t]

\* A Turn that terminates itself found its Run running, and has a kind to record; it has one
\* recorded if it was terminated.
GuardInv ==
  \A t \in Turns :
    /\ pc[t] = "getRun" => seen[t] = "running"
    /\ pc[t] \in {"getRun", "lastStep"} => hint[t] # Nothing
    /\ endedKind[t] # Nothing <=> pc[t] = "suspend" \/ runStatus[t] = "terminated"

\* The Turn that is live is the active one; its task stays registered until the queue has
\* answered.
ActiveInv ==
  /\ \A t \in Turns : active = t <=> Live(t)
  /\ \A t \in Turns : task = t => Live(t) \/ pc[t] = "pop"

\* A Turn that was cut off has no outcome, and is in no place a message may be.
CutInv ==
  \A t \in Turns : t \in cutOff =>
    /\ pc[t] \in {"idle", "lock", "pop", "done"}
    /\ turnStatus[t] # "none" /\ runStatus[t] # "terminated"
    /\ \A i \in DOMAIN queue : queue[i] # t
    /\ \A p \in Users : arg[p] = t => pc[p] \notin HandPoints

\* A queue that nothing will follow is suspended.
StrandInv ==
  /\ \A t \in Turns : Live(t) /\ endedKind[t] # Nothing => suspended # Nothing
  /\ queue # <<>> => \/ suspended # Nothing
                     \/ active # NoTurn
                     \/ \E t \in Turns : pc[t] = "pop" /\ arg[t] # NoTurn
  /\ \A t \in Turns : pc[t] = "pop" /\ arg[t] = NoTurn => queue = <<>>
  /\ \A c \in Clients : pc[c] \in {"sendRow", "enqueue"} => active # NoTurn

\* The inductive invariant.
CalmInv == WatchInv /\ RunInv /\ GuardInv /\ ActiveInv /\ CutInv /\ StrandInv

\* With what every instance keeps.
Sound == IInv /\ MessageInv /\ restarts = 0

-------------------------------------------------------------------------------
(* What an action does to the Turns and their messages: every action of a Calm instance is  *)
(* one of these.                                                                            *)

\* Nobody but p is at work on a message.
Alone(p) == \A q \in Users \ {p} : pc[q] \notin HandPoints \cup {"enqueue"}

\* Only p goes on, to another await.
Only(p, label) == pc'[p] = label /\ \A q \in Coroutines \ {p} : pc'[q] = pc[q]

SameArg == \A q \in Coroutines : arg'[q] = arg[q]
NewArg(p, t) == arg'[p] = t /\ \A q \in Coroutines \ {p} : arg'[q] = arg[q]
NewStatus(t, status) ==
  turnStatus'[t] = status /\ \A u \in Turns \ {t} : turnStatus'[u] = turnStatus[u]

\* What most effects leave as it is.
Marks == <<active, task, endedKind, cutOff>>
Rows == <<turnStatus, runStatus, suspended>>
Guards == <<seen, hint>>

\* Clients wait, or ask; the watchers wait; no message moves.
Waits ==
  /\ UNCHANGED <<queue, Rows, Marks>>
  /\ \A t \in Turns : pc'[t] = pc[t] /\ arg'[t] = arg[t] /\ seen'[t] = seen[t] /\ hint'[t] = hint[t]
  /\ \A c \in Clients :
       \/ pc'[c] = pc[c] /\ arg'[c] = arg[c]
       \/ /\ pc[c] \notin HandPoints
          /\ pc'[c] \notin HandPoints \cup AbandonPoints \cup {"enqueue", "abandonList"}
  /\ WatchInv'

\* Turn t starts: its row and its Run are running.
Begins(t) ==
  /\ UNCHANGED <<queue, suspended, Marks, Guards>>
  /\ pc[t] = "created" /\ Only(t, "createRun") /\ SameArg
  /\ NewStatus(t, "running")
  /\ runStatus'[t] = "running" /\ \A u \in Turns \ {t} : runStatus'[u] = runStatus[u]

\* Turn t goes on towards its outcome, which nobody has claimed.
Runs(t) ==
  /\ UNCHANGED <<queue, turnStatus, runStatus, Marks>>
  /\ pc[t] \in RunPoints \ {"suspend"}
  /\ suspended' = suspended \/ pc[t] = "createRun"
  /\ \E l \in RunPoints \ {"suspend"} : Only(t, l)
  /\ SameArg
  /\ \A u \in Turns \ {t} : seen'[u] = seen[u] /\ hint'[u] = hint[u]
  /\ pc'[t] = "getRun" => seen'[t] = "running"
  /\ pc'[t] \in {"getRun", "lastStep"} => hint'[t] # Nothing

\* Turn t fails where nobody settles it, and asks for the lock.
Faults(t) ==
  /\ UNCHANGED <<queue, Rows, active, task, endedKind, Guards>>
  /\ pc[t] \in {"created", "createRun", "unsuspend", "prepare"} /\ Only(t, "lock") /\ SameArg
  /\ cutOff' = cutOff \cup {t}

\* Turn t is to end as terminated: the queue is suspended.
Claims(t) ==
  /\ UNCHANGED <<queue, turnStatus, runStatus, active, task, cutOff>>
  /\ pc[t] \in {"getRun", "lastStep"} /\ Only(t, "suspend") /\ SameArg
  /\ suspended' # Nothing /\ endedKind'[t] # Nothing
  /\ \A u \in Turns \ {t} : endedKind'[u] = endedKind[u] /\ seen'[u] = seen[u] /\ hint'[u] = hint[u]

\* The outcome of Turn t is written to both rows.
Settles(t, outcome) ==
  /\ UNCHANGED <<queue, suspended, Marks, Guards>>
  /\ \/ outcome = "terminated" /\ pc[t] = "suspend" /\ Only(t, "mark")
     \/ outcome = "completed" /\ pc[t] = "finalize" /\ Only(t, "complete")
  /\ SameArg
  /\ NewStatus(t, outcome)
  /\ runStatus'[t] = outcome /\ \A u \in Turns \ {t} : runStatus'[u] = runStatus[u]

\* Turn t has ended, and goes on to the lock.
Joins(t) ==
  /\ UNCHANGED <<queue, Rows, Marks>>
  /\ pc[t] \in {"complete", "mark", "announce"} /\ SameArg
  /\ Only(t, "announce") \/ Only(t, "lock")
  /\ \A u \in Turns \ {t} : seen'[u] = seen[u] /\ hint'[u] = hint[u]

\* The terminated Turn t leaves the queue as it is.
LeavesQueue(t) ==
  /\ UNCHANGED <<queue, Rows, endedKind, cutOff, Guards>>
  /\ pc[t] = "lock" /\ Alone(t) /\ Only(t, "done") /\ SameArg
  /\ active = t /\ active' = NoTurn /\ endedKind[t] # Nothing
  /\ task' = (IF task = t THEN NoTurn ELSE task)

\* Turn t, which was not terminated, finds the queue empty.
FindsNone(t) ==
  /\ UNCHANGED <<queue, Rows, task, endedKind, cutOff, Guards>>
  /\ pc[t] = "lock" /\ Alone(t) /\ Only(t, "pop") /\ SameArg /\ arg[t] = NoTurn
  /\ active = t /\ active' = NoTurn /\ endedKind[t] = Nothing
  /\ queue = <<>>

\* Turn t, which was not terminated, takes the first message, u.
TakesFirst(t, u) ==
  /\ UNCHANGED <<Rows, task, endedKind, cutOff, Guards>>
  /\ pc[t] = "lock" /\ Alone(t) /\ Only(t, "pop") /\ NewArg(t, u)
  /\ active = t /\ active' = NoTurn /\ endedKind[t] = Nothing
  /\ queue # <<>> /\ u = Head(queue) /\ queue' = Tail(queue)

\* There was no message: Turn t is forgotten.
Forgets(t) ==
  /\ UNCHANGED <<queue, Rows, active, endedKind, cutOff, Guards>>
  /\ pc[t] = "pop" /\ Alone(t) /\ Only(t, "done") /\ SameArg /\ arg[t] = NoTurn
  /\ task' = (IF task = t THEN NoTurn ELSE task)

\* p starts the Turn u of the message in its hands.
Launches(p, u) ==
  /\ UNCHANGED <<queue, turnStatus, runStatus, endedKind, cutOff, Guards>>
  /\ pc[p] \in {"pop", "sendGate", "resumePop"} /\ Alone(p)
  /\ pc'[p] \in {"done", "idle", "finish"} /\ (p \in Turns <=> pc'[p] = "done")
  /\ (p \in Turns <=> pc[p] = "pop")
  /\ arg[p] = u /\ NewArg(p, NoTurn)
  /\ pc[u] = "idle" /\ pc'[u] = "created" /\ \A q \in Coroutines \ {p, u} : pc'[q] = pc[q]
  /\ turnStatus[u] \in {"queued", "running"} /\ u \notin cutOff
  /\ \A i \in DOMAIN queue : queue[i] # u
  /\ active' = u /\ task' = u /\ \A v \in Turns : ~Live(v)

\* The client c has created the Turn t of a new message.
Creates(c, t) ==
  /\ UNCHANGED <<queue, runStatus, suspended, Marks, Guards>>
  /\ pc[c] = "sendLock" /\ Alone(c) /\ NewArg(c, t)
  /\ turnStatus[t] = "none" /\ pc[t] = "idle"
  /\ \/ active # NoTurn /\ Only(c, "sendRow") /\ NewStatus(t, "queued")
     \/ active = NoTurn /\ Only(c, "sendGate") /\ NewStatus(t, "running")

\* The client c queues the message in its hands.
Queues(c, t) ==
  /\ UNCHANGED <<Rows, Marks, Guards>>
  /\ pc[c] = "sendRow" /\ Alone(c) /\ Only(c, "enqueue") /\ SameArg
  /\ arg[c] = t /\ pc[t] = "idle" /\ turnStatus[t] = "queued"
  /\ \A i \in DOMAIN queue : queue[i] # t
  /\ queue' = Append(queue, t)

\* The client c resumes the queue with its first message, u.
Resumes(c, u) ==
  /\ UNCHANGED <<Rows, Marks, Guards>>
  /\ pc[c] = "resumeLock" /\ Alone(c) /\ Only(c, "resumePop") /\ NewArg(c, u)
  /\ active = NoTurn
  /\ queue # <<>> /\ u = Head(queue) /\ queue' = Tail(queue)

\* The client c takes the i-th message out of the queue.
Removes(c, i) ==
  /\ UNCHANGED <<Rows, Marks, Guards>>
  /\ pc[c] = "removeLock" /\ Alone(c) /\ Only(c, "removed") /\ NewArg(c, queue[i])
  /\ queue' = Without(queue, i)

\* The client c cancels the Turn of the message it has taken.
Withdraws(c, t) ==
  /\ UNCHANGED <<queue, runStatus, suspended, Marks, Guards>>
  /\ pc[c] = "removed" /\ Alone(c) /\ Only(c, "finish")
  /\ arg[c] = t /\ NewArg(c, NoTurn)
  /\ pc[t] = "idle" /\ turnStatus[t] = "queued" /\ NewStatus(t, "cancelled")
  /\ \A i \in DOMAIN queue : queue[i] # t

\* The client c rearranges the queue.
Reorders(c) ==
  /\ UNCHANGED <<Rows, Marks, Guards>>
  /\ pc[c] = "reorderLock" /\ Alone(c) /\ Only(c, "finish") /\ SameArg
  /\ queue' \in Reorderings(queue)

\* The client c disconnects with the message t in its hands.
Drops(c, t) ==
  /\ UNCHANGED <<queue, Rows, active, task, endedKind, Guards>>
  /\ pc[c] \in HandPoints \ {"pop"} /\ Alone(c) /\ Only(c, "idle")
  /\ arg[c] = t /\ NewArg(c, NoTurn)
  /\ pc[t] = "idle" /\ \A i \in DOMAIN queue : queue[i] # t
  /\ turnStatus[t] = IF pc[c] = "sendGate" THEN "running" ELSE "queued"
  /\ cutOff' = cutOff \cup {t}

\* Whoever waits disturbs nothing.
LEMMA WaitsKeeps ==
  ASSUME Sound, CalmInv, Waits
  PROVE  CalmInv'
<1>1. WatchInv' /\ RunInv' /\ GuardInv'
  BY Disjoint, Typed
  DEF Sound, CalmInv, WatchInv, RunInv, GuardInv, RunPoints, EndPoints, AbandonPoints, Rows,
      Marks, Guards, Waits
<1>2. ActiveInv'
  BY Disjoint, Typed
  DEF Sound, CalmInv, ActiveInv, Live, BodyPoints, TerminatePoints, Rows, Marks, Waits
<1>3. CutInv'
  BY Disjoint, Typed
  DEF Sound, CalmInv, CutInv, MessageInv, QueueInv, HandInv, HandPoints, RunPoints, RunInv,
      Rows, Marks, Waits
<1>4. StrandInv'
  BY Disjoint, Typed
  DEF Sound, CalmInv, StrandInv, CutInv, GuardInv, RunInv, ActiveInv, HandPoints, RunPoints,
      EndPoints, Live, BodyPoints, TerminatePoints, Rows, Marks, Waits
<1> QED
  BY <1>1, <1>2, <1>3, <1>4 DEF CalmInv

\* The start of a Turn.
LEMMA BeginsKeeps ==
  ASSUME Sound, CalmInv, NEW t \in Turns, Begins(t)
  PROVE  CalmInv'
<1>1. WatchInv' /\ RunInv' /\ GuardInv'
  BY Disjoint, Typed
  DEF Sound, CalmInv, WatchInv, RunInv, GuardInv, RunPoints, EndPoints, AbandonPoints, Rows,
      Marks, Guards, Begins, Only, SameArg, NewStatus
<1>2. ActiveInv'
  BY Disjoint, Typed
  DEF Sound, CalmInv, ActiveInv, Live, BodyPoints, TerminatePoints, Rows, Marks, Begins, Only,
      SameArg, NewStatus
<1>3. CutInv'
  BY Disjoint, Typed
  DEF Sound, CalmInv, CutInv, MessageInv, QueueInv, HandInv, HandPoints, RunPoints, RunInv,
      Rows, Marks, Begins, Only, SameArg, NewStatus
<1>4. StrandInv'
  BY Disjoint, Typed
  DEF Sound, CalmInv, StrandInv, CutInv, GuardInv, RunInv, ActiveInv, HandPoints, RunPoints,
      EndPoints, Live, BodyPoints, TerminatePoints, Rows, Marks, Begins, Only, SameArg,
      NewStatus
<1> QED
  BY <1>1, <1>2, <1>3, <1>4 DEF CalmInv

\* A Turn that goes on is stored as before.
LEMMA RunsKeeps ==
  ASSUME Sound, CalmInv, NEW t \in Turns, Runs(t)
  PROVE  CalmInv'
<1>1. WatchInv' /\ RunInv' /\ GuardInv'
  BY Disjoint, Typed
  DEF Sound, CalmInv, WatchInv, RunInv, GuardInv, RunPoints, EndPoints, AbandonPoints, Rows,
      Marks, Guards, Runs, Only, SameArg
<1>2. ActiveInv'
  <2>1. \A u \in Turns : Live(u)' <=> Live(u)
    BY Disjoint DEF Runs, Only, Live, BodyPoints, TerminatePoints, RunPoints
  <2>2. \A u \in Turns : pc[u] = "pop" => pc'[u] = "pop"
    BY Disjoint DEF Runs, Only, RunPoints
  <2> QED
    BY <2>1, <2>2 DEF CalmInv, ActiveInv, Marks, Runs
<1>3. CutInv'
  BY Disjoint, Typed
  DEF Sound, CalmInv, CutInv, MessageInv, QueueInv, HandInv, HandPoints, RunPoints, RunInv,
      Rows, Marks, Runs, Only, SameArg
<1>4. StrandInv'
  BY Disjoint, Typed
  DEF Sound, CalmInv, StrandInv, CutInv, GuardInv, RunInv, ActiveInv, HandPoints, RunPoints,
      EndPoints, Live, BodyPoints, TerminatePoints, Rows, Marks, Runs, Only, SameArg
<1> QED
  BY <1>1, <1>2, <1>3, <1>4 DEF CalmInv

\* A Turn that fails leaves its Run without an outcome.
LEMMA FaultsKeeps ==
  ASSUME Sound, CalmInv, NEW t \in Turns, Faults(t)
  PROVE  CalmInv'
<1>1. WatchInv' /\ RunInv' /\ GuardInv'
  BY Disjoint, Typed
  DEF Sound, CalmInv, WatchInv, RunInv, GuardInv, RunPoints, EndPoints, AbandonPoints, Rows,
      Marks, Guards, Faults, Only, SameArg
<1>2. ActiveInv'
  BY Disjoint, Typed
  DEF Sound, CalmInv, ActiveInv, Live, BodyPoints, TerminatePoints, Rows, Marks, Faults, Only,
      SameArg
<1>3. CutInv'
  BY Disjoint, Typed
  DEF Sound, CalmInv, CutInv, MessageInv, QueueInv, HandInv, HandPoints, RunPoints, RunInv,
      Rows, Marks, Faults, Only, SameArg
<1>4. StrandInv'
  BY Disjoint, Typed
  DEF Sound, CalmInv, StrandInv, CutInv, GuardInv, RunInv, ActiveInv, HandPoints, RunPoints,
      EndPoints, Live, BodyPoints, TerminatePoints, Rows, Marks, Faults, Only, SameArg
<1> QED
  BY <1>1, <1>2, <1>3, <1>4 DEF CalmInv

\* A Turn that is to be terminated suspends the queue.
LEMMA ClaimsKeeps ==
  ASSUME Sound, CalmInv, NEW t \in Turns, Claims(t)
  PROVE  CalmInv'
<1>1. WatchInv' /\ RunInv' /\ GuardInv'
  BY Disjoint, Typed
  DEF Sound, CalmInv, WatchInv, RunInv, GuardInv, RunPoints, EndPoints, AbandonPoints, Rows,
      Marks, Guards, Claims, Only, SameArg
<1>2. ActiveInv'
  BY Disjoint, Typed
  DEF Sound, CalmInv, ActiveInv, Live, BodyPoints, TerminatePoints, Rows, Marks, Claims, Only,
      SameArg
<1>3. CutInv'
  BY Disjoint, Typed
  DEF Sound, CalmInv, CutInv, MessageInv, QueueInv, HandInv, HandPoints, RunPoints, RunInv,
      Rows, Marks, Claims, Only, SameArg
<1>4. StrandInv'
  BY Disjoint, Typed
  DEF Sound, CalmInv, StrandInv, CutInv, GuardInv, RunInv, ActiveInv, HandPoints, RunPoints,
      EndPoints, Live, BodyPoints, TerminatePoints, Rows, Marks, Claims, Only, SameArg
<1> QED
  BY <1>1, <1>2, <1>3, <1>4 DEF CalmInv

\* The outcome is written to both rows.
LEMMA SettlesKeeps ==
  ASSUME Sound, CalmInv, NEW t \in Turns, NEW outcome \in {"completed", "terminated"}, Settles(t, outcome)
  PROVE  CalmInv'
<1>1. WatchInv' /\ RunInv' /\ GuardInv'
  BY Disjoint, Typed
  DEF Sound, CalmInv, WatchInv, RunInv, GuardInv, RunPoints, EndPoints, AbandonPoints, Rows,
      Marks, Guards, Settles, Only, SameArg, NewStatus
<1>2. ActiveInv'
  BY Disjoint, Typed
  DEF Sound, CalmInv, ActiveInv, Live, BodyPoints, TerminatePoints, Rows, Marks, Settles, Only,
      SameArg, NewStatus
<1>3. CutInv'
  BY Disjoint, Typed
  DEF Sound, CalmInv, CutInv, MessageInv, QueueInv, HandInv, HandPoints, RunPoints, RunInv,
      Rows, Marks, Settles, Only, SameArg, NewStatus
<1>4. StrandInv'
  BY Disjoint, Typed
  DEF Sound, CalmInv, StrandInv, CutInv, GuardInv, RunInv, ActiveInv, HandPoints, RunPoints,
      EndPoints, Live, BodyPoints, TerminatePoints, Rows, Marks, Settles, Only, SameArg,
      NewStatus
<1> QED
  BY <1>1, <1>2, <1>3, <1>4 DEF CalmInv

\* A Turn that has ended asks for the lock.
LEMMA JoinsKeeps ==
  ASSUME Sound, CalmInv, NEW t \in Turns, Joins(t)
  PROVE  CalmInv'
<1>1. WatchInv' /\ RunInv' /\ GuardInv'
  BY Disjoint, Typed
  DEF Sound, CalmInv, WatchInv, RunInv, GuardInv, RunPoints, EndPoints, AbandonPoints, Rows,
      Marks, Guards, Joins, Only, SameArg
<1>2. ActiveInv'
  BY Disjoint, Typed
  DEF Sound, CalmInv, ActiveInv, Live, BodyPoints, TerminatePoints, Rows, Marks, Joins, Only,
      SameArg
<1>3. CutInv'
  BY Disjoint, Typed
  DEF Sound, CalmInv, CutInv, MessageInv, QueueInv, HandInv, HandPoints, RunPoints, RunInv,
      Rows, Marks, Joins, Only, SameArg
<1>4. StrandInv'
  BY Disjoint, Typed
  DEF Sound, CalmInv, StrandInv, CutInv, GuardInv, RunInv, ActiveInv, HandPoints, RunPoints,
      EndPoints, Live, BodyPoints, TerminatePoints, Rows, Marks, Joins, Only, SameArg
<1> QED
  BY <1>1, <1>2, <1>3, <1>4 DEF CalmInv

\* The queue is kept when the Turn was terminated.
LEMMA LeavesQueueKeeps ==
  ASSUME Sound, CalmInv, NEW t \in Turns, LeavesQueue(t)
  PROVE  CalmInv'
<1>1. WatchInv' /\ RunInv' /\ GuardInv'
  BY Disjoint, Typed
  DEF Sound, CalmInv, WatchInv, RunInv, GuardInv, RunPoints, EndPoints, AbandonPoints, Rows,
      Marks, Guards, LeavesQueue, Only, SameArg, Alone
<1>2. ActiveInv'
  BY Disjoint, Typed
  DEF Sound, CalmInv, ActiveInv, Live, BodyPoints, TerminatePoints, Rows, Marks, LeavesQueue,
      Only, SameArg, Alone
<1>3. CutInv'
  BY Disjoint, Typed
  DEF Sound, CalmInv, CutInv, MessageInv, QueueInv, HandInv, HandPoints, RunPoints, RunInv,
      Rows, Marks, LeavesQueue, Only, SameArg, Alone
<1>4. StrandInv'
  BY Disjoint, Typed
  DEF Sound, CalmInv, StrandInv, CutInv, GuardInv, RunInv, ActiveInv, HandPoints, RunPoints,
      EndPoints, Live, BodyPoints, TerminatePoints, Rows, Marks, LeavesQueue, Only, SameArg,
      Alone
<1> QED
  BY <1>1, <1>2, <1>3, <1>4 DEF CalmInv

\* A Turn finds no message to follow it.
LEMMA FindsNoneKeeps ==
  ASSUME Sound, CalmInv, NEW t \in Turns, FindsNone(t)
  PROVE  CalmInv'
<1>1. WatchInv' /\ RunInv' /\ GuardInv'
  BY Disjoint, Typed
  DEF Sound, CalmInv, WatchInv, RunInv, GuardInv, RunPoints, EndPoints, AbandonPoints, Rows,
      Marks, Guards, FindsNone, Only, SameArg, Alone
<1>2. ActiveInv'
  BY Disjoint, Typed
  DEF Sound, CalmInv, ActiveInv, Live, BodyPoints, TerminatePoints, Rows, Marks, FindsNone,
      Only, SameArg, Alone
<1>3. CutInv'
  BY Disjoint, Typed
  DEF Sound, CalmInv, CutInv, MessageInv, QueueInv, HandInv, HandPoints, RunPoints, RunInv,
      Rows, Marks, FindsNone, Only, SameArg, Alone
<1>4. StrandInv'
  BY Disjoint, Typed
  DEF Sound, CalmInv, StrandInv, CutInv, GuardInv, RunInv, ActiveInv, HandPoints, RunPoints,
      EndPoints, Live, BodyPoints, TerminatePoints, Rows, Marks, FindsNone, Only, SameArg, Alone
<1> QED
  BY <1>1, <1>2, <1>3, <1>4 DEF CalmInv

\* A Turn takes the first message.
LEMMA TakesFirstKeeps ==
  ASSUME Sound, CalmInv, NEW t \in Turns, NEW u, TakesFirst(t, u)
  PROVE  CalmInv'
<1>0. u \in Turns /\ Taken(queue, queue', u)
  BY TailTaken, Typed DEF Sound, TakesFirst
<1>1. WatchInv' /\ RunInv' /\ GuardInv'
  BY <1>0, Disjoint, Typed
  DEF Sound, CalmInv, WatchInv, RunInv, GuardInv, RunPoints, EndPoints, AbandonPoints, Rows,
      Marks, Guards, TakesFirst, Only, NewArg, Alone
<1>2. ActiveInv'
  BY <1>0, Disjoint, Typed
  DEF Sound, CalmInv, ActiveInv, Live, BodyPoints, TerminatePoints, Rows, Marks, TakesFirst,
      Only, NewArg, Alone
<1>3. CutInv'
  <2>1. u \notin cutOff
    BY <1>0 DEF CalmInv, CutInv, Taken
  <2>2. \A p \in Users \ {t} : pc'[p] = pc[p] /\ arg'[p] = arg[p]
    BY Disjoint DEF TakesFirst, Only, NewArg
  <2> QED
    BY <1>0, <2>1, <2>2, Disjoint, Typed
    DEF CalmInv, CutInv, Rows, Marks, TakesFirst, Only, NewArg, Taken
<1>4. StrandInv'
  BY <1>0, Disjoint, Typed
  DEF Sound, CalmInv, StrandInv, CutInv, GuardInv, RunInv, ActiveInv, HandPoints, RunPoints,
      EndPoints, Live, BodyPoints, TerminatePoints, Rows, Marks, TakesFirst, Only, NewArg,
      Alone, Taken
<1> QED
  BY <1>1, <1>2, <1>3, <1>4 DEF CalmInv

\* The ended Turn is forgotten, and nothing follows it.
LEMMA ForgetsKeeps ==
  ASSUME Sound, CalmInv, NEW t \in Turns, Forgets(t)
  PROVE  CalmInv'
<1>1. WatchInv' /\ RunInv' /\ GuardInv'
  BY Disjoint, Typed
  DEF Sound, CalmInv, WatchInv, RunInv, GuardInv, RunPoints, EndPoints, AbandonPoints, Rows,
      Marks, Guards, Forgets, Only, SameArg, Alone
<1>2. ActiveInv'
  BY Disjoint, Typed
  DEF Sound, CalmInv, ActiveInv, Live, BodyPoints, TerminatePoints, Rows, Marks, Forgets, Only,
      SameArg, Alone
<1>3. CutInv'
  BY Disjoint, Typed
  DEF Sound, CalmInv, CutInv, MessageInv, QueueInv, HandInv, HandPoints, RunPoints, RunInv,
      Rows, Marks, Forgets, Only, SameArg, Alone
<1>4. StrandInv'
  BY Disjoint, Typed
  DEF Sound, CalmInv, StrandInv, CutInv, GuardInv, RunInv, ActiveInv, HandPoints, RunPoints,
      EndPoints, Live, BodyPoints, TerminatePoints, Rows, Marks, Forgets, Only, SameArg, Alone
<1> QED
  BY <1>1, <1>2, <1>3, <1>4 DEF CalmInv

\* A message starts as a Turn.
LEMMA LaunchesKeeps ==
  ASSUME Sound, CalmInv, NEW p \in Users, NEW u \in Turns, Launches(p, u)
  PROVE  CalmInv'
<1>1. WatchInv' /\ RunInv' /\ GuardInv'
  BY Disjoint, Typed
  DEF Sound, CalmInv, WatchInv, RunInv, GuardInv, RunPoints, EndPoints, AbandonPoints, Rows,
      Marks, Guards, Launches, NewArg, Alone
<1>2. ActiveInv'
  BY Disjoint, Typed
  DEF Sound, CalmInv, ActiveInv, Live, BodyPoints, TerminatePoints, Rows, Marks, Launches,
      NewArg, Alone
<1>3. CutInv'
  BY Disjoint, Typed
  DEF Sound, CalmInv, CutInv, MessageInv, QueueInv, HandInv, HandPoints, RunPoints, RunInv,
      Rows, Marks, Launches, NewArg, Alone
<1>4. StrandInv'
  BY Disjoint, Typed
  DEF Sound, CalmInv, StrandInv, CutInv, GuardInv, RunInv, ActiveInv, HandPoints, RunPoints,
      EndPoints, Live, BodyPoints, TerminatePoints, Rows, Marks, Launches, NewArg, Alone
<1> QED
  BY <1>1, <1>2, <1>3, <1>4 DEF CalmInv

\* send creates the Turn of a new message: in its hands until it is queued, or starts.
LEMMA CreatesKeeps ==
  ASSUME Sound, CalmInv, NEW c \in Clients, NEW t \in Turns, Creates(c, t)
  PROVE  CalmInv'
<1>1. WatchInv' /\ RunInv' /\ GuardInv'
  BY Disjoint, Typed
  DEF Sound, CalmInv, WatchInv, RunInv, GuardInv, RunPoints, EndPoints, AbandonPoints, Rows,
      Marks, Guards, Creates, Only, NewArg, NewStatus, Alone
<1>2. ActiveInv'
  BY Disjoint, Typed
  DEF Sound, CalmInv, ActiveInv, Live, BodyPoints, TerminatePoints, Rows, Marks, Creates, Only,
      NewArg, NewStatus, Alone
<1>3. CutInv'
  BY Disjoint, Typed
  DEF Sound, CalmInv, CutInv, MessageInv, QueueInv, HandInv, HandPoints, RunPoints, RunInv,
      Rows, Marks, Creates, Only, NewArg, NewStatus, Alone
<1>4. StrandInv'
  BY Disjoint, Typed
  DEF Sound, CalmInv, StrandInv, CutInv, GuardInv, RunInv, ActiveInv, HandPoints, RunPoints,
      EndPoints, Live, BodyPoints, TerminatePoints, Rows, Marks, Creates, Only, NewArg,
      NewStatus, Alone
<1> QED
  BY <1>1, <1>2, <1>3, <1>4 DEF CalmInv

\* send queues the message it has in its hands.
LEMMA QueuesKeeps ==
  ASSUME Sound, CalmInv, NEW c \in Clients, NEW t \in Turns, Queues(c, t)
  PROVE  CalmInv'
<1>0. Taken(queue', queue, t)
  BY AppendGives, Typed DEF Sound, Queues
<1>1. WatchInv' /\ RunInv' /\ GuardInv'
  BY <1>0, Disjoint, Typed
  DEF Sound, CalmInv, WatchInv, RunInv, GuardInv, RunPoints, EndPoints, AbandonPoints, Rows,
      Marks, Guards, Queues, Only, SameArg, Alone
<1>2. ActiveInv'
  BY <1>0, Disjoint, Typed
  DEF Sound, CalmInv, ActiveInv, Live, BodyPoints, TerminatePoints, Rows, Marks, Queues, Only,
      SameArg, Alone
<1>3. CutInv'
  BY <1>0, Disjoint, Typed
  DEF Sound, CalmInv, CutInv, MessageInv, QueueInv, HandInv, HandPoints, RunPoints, RunInv,
      Rows, Marks, Queues, Only, SameArg, Alone, Taken
<1>4. StrandInv'
  <2>1. \A v \in Turns : pc'[v] = pc[v] /\ arg'[v] = arg[v] /\ pc[v] # "pop"
    BY Disjoint DEF Queues, Only, SameArg, Alone, HandPoints
  <2> QED
    BY <1>0, <2>1, Disjoint, Typed
    DEF CalmInv, StrandInv, Live, Rows, Marks, Alone, HandPoints, Queues, Only, Taken
<1> QED
  BY <1>1, <1>2, <1>3, <1>4 DEF CalmInv

\* queue_resume takes the first message.
LEMMA ResumesKeeps ==
  ASSUME Sound, CalmInv, NEW c \in Clients, NEW u, Resumes(c, u)
  PROVE  CalmInv'
<1>0. u \in Turns /\ Taken(queue, queue', u)
  BY TailTaken, Typed DEF Sound, Resumes
<1>1. WatchInv' /\ RunInv' /\ GuardInv'
  BY <1>0, Disjoint, Typed
  DEF Sound, CalmInv, WatchInv, RunInv, GuardInv, RunPoints, EndPoints, AbandonPoints, Rows,
      Marks, Guards, Resumes, Only, NewArg, Alone
<1>2. ActiveInv'
  BY <1>0, Disjoint, Typed
  DEF Sound, CalmInv, ActiveInv, Live, BodyPoints, TerminatePoints, Rows, Marks, Resumes, Only,
      NewArg, Alone
<1>3. CutInv'
  <2>1. u \notin cutOff
    BY <1>0 DEF CalmInv, CutInv, Taken
  <2>2. \A p \in Users \ {c} : pc'[p] = pc[p] /\ arg'[p] = arg[p]
    BY Disjoint DEF Resumes, Only, NewArg
  <2> QED
    BY <1>0, <2>1, <2>2, Disjoint, Typed
    DEF CalmInv, CutInv, Rows, Marks, Resumes, Only, NewArg, Taken
<1>4. StrandInv'
  <2>1. \A v \in Turns : pc'[v] = pc[v] /\ arg'[v] = arg[v] /\ pc[v] # "pop"
    BY Disjoint DEF Resumes, Only, NewArg, Alone, HandPoints
  <2> QED
    BY <1>0, <2>1, Disjoint, Typed
    DEF CalmInv, StrandInv, Live, Rows, Marks, Alone, HandPoints, Resumes, Only, Taken
<1> QED
  BY <1>1, <1>2, <1>3, <1>4 DEF CalmInv

\* remove_queue_item takes one message out.
LEMMA RemovesKeeps ==
  ASSUME Sound, CalmInv, NEW c \in Clients, NEW i \in DOMAIN queue, Removes(c, i)
  PROVE  CalmInv'
<1>0. queue # <<>> /\ queue[i] \in Turns /\ Taken(queue, queue', queue[i])
  BY WithoutTaken, Typed DEF Sound, Removes
<1>1. WatchInv' /\ RunInv' /\ GuardInv'
  BY <1>0, Disjoint, Typed
  DEF Sound, CalmInv, WatchInv, RunInv, GuardInv, RunPoints, EndPoints, AbandonPoints, Rows,
      Marks, Guards, Removes, Only, NewArg, Alone
<1>2. ActiveInv'
  BY <1>0, Disjoint, Typed
  DEF Sound, CalmInv, ActiveInv, Live, BodyPoints, TerminatePoints, Rows, Marks, Removes, Only,
      NewArg, Alone
<1>3. CutInv'
  BY <1>0, Disjoint, Typed
  DEF Sound, CalmInv, CutInv, MessageInv, QueueInv, HandInv, HandPoints, RunPoints, RunInv,
      Rows, Marks, Removes, Only, NewArg, Alone, Taken
<1>4. StrandInv'
  <2>1. \A v \in Turns : pc'[v] = pc[v] /\ arg'[v] = arg[v] /\ pc[v] # "pop"
    BY Disjoint DEF Removes, Only, NewArg, Alone, HandPoints
  <2> QED
    BY <1>0, <2>1, Disjoint, Typed
    DEF CalmInv, StrandInv, Live, Rows, Marks, Alone, HandPoints, Removes, Only, Taken
<1> QED
  BY <1>1, <1>2, <1>3, <1>4 DEF CalmInv

\* and cancels its Turn.
LEMMA WithdrawsKeeps ==
  ASSUME Sound, CalmInv, NEW c \in Clients, NEW t \in Turns, Withdraws(c, t)
  PROVE  CalmInv'
<1>1. WatchInv' /\ RunInv' /\ GuardInv'
  BY Disjoint, Typed
  DEF Sound, CalmInv, WatchInv, RunInv, GuardInv, RunPoints, EndPoints, AbandonPoints, Rows,
      Marks, Guards, Withdraws, Only, NewArg, NewStatus, Alone
<1>2. ActiveInv'
  BY Disjoint, Typed
  DEF Sound, CalmInv, ActiveInv, Live, BodyPoints, TerminatePoints, Rows, Marks, Withdraws,
      Only, NewArg, NewStatus, Alone
<1>3. CutInv'
  BY Disjoint, Typed
  DEF Sound, CalmInv, CutInv, MessageInv, QueueInv, HandInv, HandPoints, RunPoints, RunInv,
      Rows, Marks, Withdraws, Only, NewArg, NewStatus, Alone
<1>4. StrandInv'
  BY Disjoint, Typed
  DEF Sound, CalmInv, StrandInv, CutInv, GuardInv, RunInv, ActiveInv, HandPoints, RunPoints,
      EndPoints, Live, BodyPoints, TerminatePoints, Rows, Marks, Withdraws, Only, NewArg,
      NewStatus, Alone
<1> QED
  BY <1>1, <1>2, <1>3, <1>4 DEF CalmInv

\* A reordering keeps every message, once.
LEMMA ReordersKeeps ==
  ASSUME Sound, CalmInv, NEW c \in Clients, Reorders(c)
  PROVE  CalmInv'
<1>0. Rearranged(queue, queue')
  BY ReorderingsRearrange, Typed DEF Sound, Reorders
<1>1. WatchInv' /\ RunInv' /\ GuardInv'
  BY <1>0, Disjoint, Typed
  DEF Sound, CalmInv, WatchInv, RunInv, GuardInv, RunPoints, EndPoints, AbandonPoints, Rows,
      Marks, Guards, Reorders, Only, SameArg, Alone
<1>2. ActiveInv'
  BY <1>0, Disjoint, Typed
  DEF Sound, CalmInv, ActiveInv, Live, BodyPoints, TerminatePoints, Rows, Marks, Reorders, Only,
      SameArg, Alone
<1>3. CutInv'
  BY <1>0, Disjoint, Typed
  DEF Sound, CalmInv, CutInv, MessageInv, QueueInv, HandInv, HandPoints, RunPoints, RunInv,
      Rows, Marks, Reorders, Only, SameArg, Alone, Rearranged
<1>4. StrandInv'
  <2>1. \A v \in Turns : pc'[v] = pc[v] /\ arg'[v] = arg[v] /\ pc[v] # "pop"
    BY Disjoint DEF Reorders, Only, SameArg, Alone, HandPoints
  <2> QED
    BY <1>0, <2>1, Disjoint, Typed
    DEF CalmInv, StrandInv, Live, Rows, Marks, Alone, HandPoints, Reorders, Only, Rearranged
<1> QED
  BY <1>1, <1>2, <1>3, <1>4 DEF CalmInv

\* A message goes with the client that held it.
LEMMA DropsKeeps ==
  ASSUME Sound, CalmInv, NEW c \in Clients, NEW t \in Turns, Drops(c, t)
  PROVE  CalmInv'
<1>1. WatchInv' /\ RunInv' /\ GuardInv'
  BY Disjoint, Typed
  DEF Sound, CalmInv, WatchInv, RunInv, GuardInv, RunPoints, EndPoints, AbandonPoints, Rows,
      Marks, Guards, Drops, Only, NewArg, Alone
<1>2. ActiveInv'
  BY Disjoint, Typed
  DEF Sound, CalmInv, ActiveInv, Live, BodyPoints, TerminatePoints, Rows, Marks, Drops, Only,
      NewArg, Alone
<1>3. CutInv'
  BY Disjoint, Typed
  DEF Sound, CalmInv, CutInv, MessageInv, QueueInv, HandInv, HandPoints, RunPoints, RunInv,
      Rows, Marks, Drops, Only, NewArg, Alone
<1>4. StrandInv'
  BY Disjoint, Typed
  DEF Sound, CalmInv, StrandInv, CutInv, GuardInv, RunInv, ActiveInv, HandPoints, RunPoints,
      EndPoints, Live, BodyPoints, TerminatePoints, Rows, Marks, Drops, Only, NewArg, Alone
<1> QED
  BY <1>1, <1>2, <1>3, <1>4 DEF CalmInv

\* The invariant holds initially.
LEMMA InitCalm ==
  ASSUME Init
  PROVE  CalmInv
<1> USE DEF Init
<1>1. WatchInv /\ RunInv /\ GuardInv
  BY Disjoint DEF WatchInv, RunInv, GuardInv, RunPoints, EndPoints, AbandonPoints
<1>2. ActiveInv
  BY Disjoint DEF ActiveInv, Live, BodyPoints, TerminatePoints
<1>3. CutInv /\ StrandInv
  BY Disjoint DEF CutInv, StrandInv, Live, BodyPoints, TerminatePoints
<1> QED
  BY <1>1, <1>2, <1>3 DEF CalmInv

-------------------------------------------------------------------------------
\* What the task of a Turn does, up to the lock.
LEMMA TurnMoves ==
  ASSUME Sound, CalmInv, NEW t \in Turns,
         \/ TurnUnsuspends(t) \/ TurnPrepares(t) \/ PrepareFails(t) \/ TurnEnsuresWorker(t)
         \/ EnsureFails(t) \/ TurnPrompts(t) \/ PromptReturns(t) \/ FinalizeFails(t)
  PROVE  Runs(t)
<1>0. IInv /\ (pc[t] \in RunPoints => runStatus[t] = "running")
  BY DEF Sound, CalmInv, RunInv
<1> USE ConstantsAssumption DEF Runs, Only, SameArg, RunPoints, Marks, EnterTerminate, CtxTurn,
        Goto, db, memory, control, history, agent
<1>1. CASE TurnUnsuspends(t)
  BY <1>0, <1>1, Typed, Disjoint DEF TurnUnsuspends
<1>2. CASE TurnPrepares(t)
  BY <1>0, <1>2, Typed, Disjoint DEF TurnPrepares
<1>3. CASE PrepareFails(t)
  BY <1>0, <1>3, Typed, Disjoint DEF PrepareFails
<1>4. CASE TurnEnsuresWorker(t)
  BY <1>0, <1>4, Typed, Disjoint DEF TurnEnsuresWorker
<1>5. CASE EnsureFails(t)
  BY <1>0, <1>5, Typed, Disjoint DEF EnsureFails
<1>6. CASE TurnPrompts(t)
  BY <1>0, <1>6, Typed, Disjoint DEF TurnPrompts
<1>7. CASE PromptReturns(t)
  BY <1>0, <1>7, Typed, Disjoint DEF PromptReturns
<1>8. CASE FinalizeFails(t)
  BY <1>0, <1>8, Typed, Disjoint DEF FinalizeFails
<1> QED
  BY <1>1, <1>2, <1>3, <1>4, <1>5, <1>6, <1>7, <1>8

\* A failure outside the inner try of _run_turn.
LEMMA FaultMoves ==
  ASSUME Sound, NEW t \in Turns, CreateRunFails(t) \/ PreludeFails(t)
  PROVE  Faults(t)
BY Typed, Disjoint DEF Sound, CreateRunFails, PreludeFails, Faults, WaitForLock, Goto, CutOff, Only,
   SameArg, Rows, Guards, db

\* The answer to the prompt is settled, or terminates the Turn.
LEMMA FinalizeMoves ==
  ASSUME Sound, CalmInv, NEW t \in Turns, FinalizeReturns(t)
  PROVE  Runs(t) \/ Settles(t, "completed")
<1>0. IInv /\ (pc[t] \in RunPoints => runStatus[t] = "running")
  BY DEF Sound, CalmInv, RunInv
<1>1. CASE hint[t] # Nothing
  BY <1>0, <1>1, Typed, Disjoint DEF FinalizeReturns, Runs, Only, SameArg, RunPoints, Marks,
     EnterTerminate, CtxTurn, Goto, memory, history
<1>2. CASE hint[t] = Nothing
  BY <1>0, <1>2, Typed, Disjoint DEF FinalizeReturns, Settles, Only, SameArg, NewStatus, Marks,
     Guards, Goto, memory, history
<1> QED
  BY <1>1, <1>2

\* What a Turn that terminates itself does: it claims the outcome, writes it, announces it
\* and asks for the lock.
LEMMA TerminateMoves ==
  ASSUME Sound, CalmInv, NEW t \in Turns, Terminate(t)
  PROVE  Runs(t) \/ Claims(t) \/ Settles(t, "terminated") \/ Joins(t)
<1>0. IInv /\ intent[t] \in Kinds \cup {Nothing} /\ hint[t] \in Kinds \cup {Nothing}
  BY Disjoint DEF Sound, IInv, Types, MemoryTypes, ControlTypes
<1> USE ConstantsAssumption DEF CtxTurn, Only, SameArg, Marks, Rows, Guards
<1>1. CASE TerminateGuard(t)
  <2>1. seen[t] = "running" /\ hint[t] # Nothing /\ pc[t] = "getRun"
    BY <1>1 DEF TerminateGuard, CalmInv, GuardInv
  <2>2. ~AlreadyEnded(seen[t])
    BY <2>1 DEF AlreadyEnded
  <2>3. ASSUME NEW kind \in Kinds, Claim(t, t, kind), TerminateGuard(t) PROVE Claims(t)
    BY <1>0, <2>1, <2>2, <2>3, Typed, Disjoint DEF TerminateGuard, Claim, Claims, Goto
  <2>4. ASSUME Goto(t, "lastStep"), UNCHANGED <<endedKind, suspended, hint>> PROVE Runs(t)
    BY <1>0, <1>1, <2>1, <2>2, <2>4, Typed, Disjoint DEF TerminateGuard, Runs, RunPoints, Goto
  <2>5. "user" \in Kinds /\ (intent[t] # Nothing => intent[t] \in Kinds)
    BY <1>0 DEF Kinds
  <2> QED
    BY <1>1, <2>2, <2>3, <2>4, <2>5 DEF TerminateGuard
<1>2. CASE TerminateClassify(t)
  <2>1. PICK kind \in Kinds : Claim(t, t, kind)
    BY <1>0, <1>2 DEF TerminateClassify, Classified, Kinds, CalmInv, GuardInv
  <2>2. kind # Nothing /\ suspended' = kind /\ pc' = [pc EXCEPT ![t] = "suspend"]
    BY <2>1 DEF Claim, Goto, Kinds
  <2> QED
    BY <1>0, <1>2, <2>1, <2>2, Typed, Disjoint DEF TerminateClassify, Claim, Claims, history
<1>3. CASE TerminateMark(t)
  <2>1. runStatus[t] = "running" /\ pc[t] = "suspend"
    BY <1>3 DEF TerminateMark, CalmInv, RunInv, RunPoints
  <2> QED
    BY <1>0, <1>3, <2>1, Typed, Disjoint DEF TerminateMark, Settles, NewStatus, Goto, memory, history
<1>4. CASE TerminateAnnounce(t)
  <2>1. pc[t] = "mark"
    BY <1>4 DEF TerminateAnnounce, CalmInv, RunInv
  <2> QED
    BY <1>0, <1>4, <2>1, Typed, Disjoint DEF TerminateAnnounce, Joins, Goto, db, memory
<1>5. CASE TerminateReturn(t)
  <2>1. pc[t] = "announce"
    BY <1>5 DEF TerminateReturn, CalmInv, RunInv
  <2> QED
    BY <1>0, <1>5, <2>1, Typed, Disjoint DEF TerminateReturn, LeaveTerminate, Joins, WaitForLock,
       Goto, history, Watchers
<1> QED
  BY <1>1, <1>2, <1>3, <1>4, <1>5 DEF Terminate

-------------------------------------------------------------------------------
\* A request that asks for the lock, or for a stop, moves no message.
LEMMA AskMoves ==
  ASSUME Calm, Sound, CalmInv, NEW c \in Clients, Ask(c)
  PROVE  Waits
<1>0. IInv /\ WatchInv
  BY DEF Sound, CalmInv
<1> USE DEF Waits, WaitForLock, Goto, Idle, db, history, WatchInv, HandPoints, AbandonPoints,
            Rows, Marks
<1>1. CASE SendRequested(c) \/ RetryRequested(c)
  BY <1>0, <1>1, Typed, Disjoint DEF SendRequested, RetryRequested
<1>2. CASE StopRequested(c)
  BY <1>0, <1>2, Typed, Disjoint DEF StopRequested, control
<1>3. CASE ResumeRequested(c)
  BY <1>0, <1>3, Typed, Disjoint DEF ResumeRequested
<1>4. CASE RemoveRequested(c)
  BY <1>0, <1>4, Typed, Disjoint DEF RemoveRequested
<1>5. CASE ReorderRequested(c)
  BY <1>0, <1>5, Typed, Disjoint DEF ReorderRequested
<1>6. ~AbandonRequested(c)
  BY DEF AbandonRequested, Calm
<1> QED
  BY <1>1, <1>2, <1>3, <1>4, <1>5, <1>6 DEF Ask

\* Inside the lock a request takes, holds, starts or gives back a message, or moves none.
LEMMA ServeMoves ==
  ASSUME Sound, CalmInv, NEW c \in Clients, Serve(c)
  PROVE  \/ Waits
         \/ SendTakesLock(c) \/ SendEnqueues(c) \/ SendStarts(c) \/ ResumeStarts(c)
         \/ ResumeTakesLock(c) /\ pc'[c] = "resumePop"
         \/ RemoveTakesLock(c) /\ pc'[c] = "removed"
         \/ RemoveCancels(c) \/ ReorderTakesLock(c)
<1>0. IInv /\ WatchInv
  BY DEF Sound, CalmInv
<1> USE DEF Waits, Goto, db, memory, history, WatchInv, HandPoints, AbandonPoints, Rows, Marks
<1>1. CASE SendQueued(c)
  BY <1>0, <1>1, Typed, Disjoint DEF SendQueued
<1>2. CASE Finishes(c)
  BY <1>0, <1>2, Typed, Disjoint DEF Finishes
<1>3. ~AbandonTakesLock(c) /\ ~AbandonClears(c) /\ ~AbandonReleases(c) /\ ~AbandonUnsuspends(c)
  BY <1>0 DEF AbandonTakesLock, AbandonClears, AbandonReleases, AbandonUnsuspends
<1>4. CASE ResumeTakesLock(c) /\ pc'[c] # "resumePop"
  BY <1>0, <1>4, Typed, Disjoint DEF ResumeTakesLock
<1>5. CASE RemoveTakesLock(c) /\ pc'[c] # "removed"
  BY <1>0, <1>5, Typed, Disjoint DEF RemoveTakesLock
<1> QED
  BY <1>1, <1>2, <1>3, <1>4, <1>5 DEF Serve

\* Who is inside the lock is alone with the messages.
LEMMA InsideAlone ==
  ASSUME Sound, NEW p \in Users, pc[p] \in CriticalPoints \/ Holds(p)
  PROVE  Alone(p)
BY OneInside DEF Sound, Alone, HandPoints, CriticalPoints

\* A message in the hands of p is nowhere else, and no Turn is live when p is to start it.
LEMMA InHand ==
  ASSUME Sound, CalmInv, NEW p \in Users, pc[p] \in HandPoints,
         p \in Clients \/ arg[p] # NoTurn
  PROVE  /\ Alone(p) /\ arg[p] \in Turns /\ arg[p] # NoTurn /\ arg[p] # p
         /\ pc[arg[p]] = "idle" /\ arg[p] \notin cutOff
         /\ \A i \in DOMAIN queue : queue[i] # arg[p]
         /\ turnStatus[arg[p]] = IF pc[p] = "sendGate" THEN "running" ELSE "queued"
         /\ pc[p] \in {"pop", "sendGate", "resumePop"} => \A v \in Turns : ~Live(v)
<1>1. IInv /\ Alone(p)
  BY InsideAlone DEF Sound, HandPoints, CriticalPoints
<1>2. arg[p] \in Turns /\ arg[p] # NoTurn
  BY <1>1, Typed, Disjoint DEF IInv, ArgInv, HandPoints
<1>3. /\ pc[arg[p]] = "idle" /\ \A i \in DOMAIN queue : queue[i] # arg[p]
      /\ turnStatus[arg[p]] = IF pc[p] = "sendGate" THEN "running" ELSE "queued"
  BY <1>2 DEF Sound, MessageInv, HandInv
<1>4. arg[p] \notin cutOff
  BY <1>2 DEF CalmInv, CutInv
<1>5. pc[p] \in {"pop", "sendGate", "resumePop"} => \A v \in Turns : ~Live(v)
  BY <1>1 DEF IInv, Discipline, TaskInv
<1> QED
  BY <1>1, <1>2, <1>3, <1>4, <1>5 DEF HandPoints

\* _advance_queue keeps the queue behind a terminated Turn, and takes its first message else.
LEMMA AdvanceMoves ==
  ASSUME Sound, CalmInv, NEW t \in Turns, AdvanceTakesLock(t)
  PROVE  LeavesQueue(t) \/ FindsNone(t) \/ TakesFirst(t, Head(queue))
<1>1. IInv /\ Alone(t) /\ pc[t] = "lock" /\ Holds(t)
  BY InsideAlone, Disjoint DEF AdvanceTakesLock, Sound
<1>2. active = t /\ arg[t] = NoTurn
  BY <1>1, Typed, Disjoint DEF CalmInv, ActiveInv, Sound, MessageInv, HandInv, Live
<1> USE DEF Rows, Guards, history
<1>3. CASE ~GoesOn
  BY <1>1, <1>2, <1>3, Typed, Disjoint DEF AdvanceTakesLock, GoesOn, PopActive, ForgetTask, Goto,
     LeavesQueue, Only, SameArg
<1>4. CASE GoesOn /\ queue = <<>>
  BY <1>1, <1>2, <1>4, Typed, Disjoint DEF AdvanceTakesLock, GoesOn, PopActive, Goto,
     FindsNone, Only, SameArg
<1>5. CASE GoesOn /\ queue # <<>>
  <2>1. Head(queue) \in Turns
    BY <1>1, <1>5, TailTaken, Typed
  <2> QED
    BY <1>1, <1>2, <1>5, <2>1, Typed, Disjoint DEF AdvanceTakesLock, GoesOn, PopActive, Goto,
       TakesFirst, Only, NewArg
<1> QED
  BY <1>3, <1>4, <1>5

\* The message that was popped starts; without one the Turn is forgotten.
LEMMA PoppedMoves ==
  ASSUME Sound, CalmInv, NEW t \in Turns, AdvancePopped(t)
  PROVE  Forgets(t) \/ \E u \in Turns : Launches(t, u)
<1>1. IInv /\ Alone(t) /\ pc[t] = "pop" /\ t \in Users /\ t # NoTurn
  BY InsideAlone, Disjoint DEF AdvancePopped, Sound, CriticalPoints
<1>2. CASE arg[t] = NoTurn
  BY <1>1, <1>2, Typed, Disjoint DEF AdvancePopped, ForgetTask, Goto, Forgets, Only, SameArg,
     Rows, Guards, db, history
<1>3. CASE arg[t] # NoTurn
  <2>1. PICK u \in Turns : arg[t] = u
    BY <1>1, <1>3, Typed, Disjoint
  <2>2. /\ pc[u] = "idle" /\ turnStatus[u] = "queued" /\ u # t /\ u \notin cutOff
        /\ \A i \in DOMAIN queue : queue[i] # u
        /\ \A v \in Turns : ~Live(v)
    BY <1>1, <1>3, <2>1, InHand DEF HandPoints
  <2>3. Launches(t, u)
    BY <1>1, <1>3, <2>1, <2>2, Typed, Disjoint DEF AdvancePopped, StartTurn, Launches, NewArg,
       Guards, db, history
  <2> QED
    BY <2>3
<1> QED
  BY <1>2, <1>3

\* A client starts the Turn of the message in its hands: send, queue_resume, or a
\* queue_resume that is cut off just then.
LEMMA StartMoves ==
  ASSUME Sound, CalmInv, NEW c \in Clients, SendStarts(c) \/ ResumeStarts(c) \/ DisconnectStarted(c)
  PROVE  \E u \in Turns : Launches(c, u)
<1>1. IInv /\ pc[c] \in {"sendGate", "resumePop"} /\ c \in Users
  BY Disjoint DEF Sound, SendStarts, ResumeStarts, DisconnectStarted
<1>2. PICK u \in Turns : arg[c] = u
  BY <1>1, InHand DEF HandPoints
<1>3. /\ pc[u] = "idle" /\ turnStatus[u] \in {"queued", "running"} /\ u \notin cutOff
      /\ Alone(c) /\ \A i \in DOMAIN queue : queue[i] # u
      /\ \A v \in Turns : ~Live(v)
  BY <1>1, <1>2, InHand DEF HandPoints
<1> USE DEF StartTurn, Launches, NewArg, Guards, db, history
<1>4. CASE SendStarts(c)
  BY <1>1, <1>2, <1>3, <1>4, Typed, Disjoint DEF SendStarts
<1>5. CASE ResumeStarts(c)
  BY <1>1, <1>2, <1>3, <1>5, Typed, Disjoint DEF ResumeStarts
<1>6. CASE DisconnectStarted(c)
  BY <1>1, <1>2, <1>3, <1>6, Typed, Disjoint DEF DisconnectStarted
<1> QED
  BY <1>4, <1>5, <1>6

\* send creates a Turn, and queues it behind another one.
LEMMA SendMoves ==
  ASSUME Sound, CalmInv, NEW c \in Clients, SendTakesLock(c) \/ SendEnqueues(c)
  PROVE  \E t \in Turns : Creates(c, t) \/ Queues(c, t)
<1>1. IInv /\ Alone(c) /\ c \in Users
  BY InsideAlone, Disjoint DEF SendTakesLock, SendEnqueues, Sound, CriticalPoints
<1>2. CASE SendTakesLock(c)
  <2>1. PICK t \in Turns :
          /\ turnStatus[t] = "none" /\ arg' = [arg EXCEPT ![c] = t]
          /\ turnStatus' = [turnStatus EXCEPT ![t] = IF Running THEN "queued" ELSE "running"]
    BY <1>2 DEF SendTakesLock, Fresh
  <2>2. pc[t] = "idle"
    BY <2>1 DEF Sound, MessageInv, HandInv
  <2>3. Running <=> active # NoTurn
    BY <1>1, <1>2, Disjoint, Typed
    DEF SendTakesLock, Running, TaskDone, CalmInv, ActiveInv, Alone, HandPoints
  <2> QED
    BY <1>1, <1>2, <2>1, <2>2, <2>3, Typed, Disjoint
    DEF SendTakesLock, Goto, Creates, Only, NewArg, NewStatus, Marks, Guards, memory, history
<1>3. CASE SendEnqueues(c)
  <2>1. PICK t \in Turns : arg[c] = t
    BY <1>1, <1>3, InHand DEF SendEnqueues, HandPoints
  <2>2. /\ pc[t] = "idle" /\ turnStatus[t] = "queued"
        /\ \A i \in DOMAIN queue : queue[i] # t
    BY <1>1, <1>3, <2>1, InHand DEF SendEnqueues, HandPoints
  <2> QED
    BY <1>1, <1>3, <2>1, <2>2, Typed, Disjoint
    DEF SendEnqueues, Goto, Queues, Only, SameArg, Rows, Marks, Guards, memory, history
<1> QED
  BY <1>2, <1>3

\* queue_resume takes the first message.
LEMMA ResumeMoves ==
  ASSUME Sound, CalmInv, NEW c \in Clients, ResumeTakesLock(c), pc'[c] = "resumePop"
  PROVE  Resumes(c, Head(queue))
<1>1. IInv /\ Alone(c) /\ c \in Users
  BY InsideAlone, Disjoint DEF ResumeTakesLock, Sound
<1>2. ~Running /\ queue # <<>>
  BY <1>1, Typed, Disjoint DEF ResumeTakesLock, Goto
<1>3. Head(queue) \in Turns /\ active = NoTurn
  BY <1>1, <1>2, TailTaken, Typed DEF Running
<1> QED
  BY <1>1, <1>2, <1>3, Typed, Disjoint
  DEF ResumeTakesLock, Goto, Resumes, Only, NewArg, Rows, Marks, Guards, history

\* remove_queue_item takes a message and cancels it; reorder_queue moves them.
LEMMA EditMoves ==
  ASSUME Sound, CalmInv, NEW c \in Clients,
         \/ RemoveTakesLock(c) /\ pc'[c] = "removed"
         \/ RemoveCancels(c) \/ ReorderTakesLock(c)
  PROVE  \/ \E i \in DOMAIN queue : Removes(c, i)
         \/ \E t \in Turns : Withdraws(c, t)
         \/ Reorders(c)
<1>1. IInv /\ Alone(c) /\ c \in Users
  BY InsideAlone, Disjoint
  DEF RemoveTakesLock, RemoveCancels, ReorderTakesLock, Sound, CriticalPoints
<1> USE DEF Rows, Marks, Guards, Goto, Only, NewArg, memory, history
<1>2. CASE RemoveTakesLock(c) /\ pc'[c] = "removed"
  <2>1. PICK i \in DOMAIN queue :
          queue' = Without(queue, i) /\ arg' = [arg EXCEPT ![c] = queue[i]] /\ Goto(c, "removed")
    BY <1>1, <1>2, Typed, Disjoint DEF RemoveTakesLock
  <2> QED
    BY <1>1, <1>2, <2>1, Typed, Disjoint DEF RemoveTakesLock, Removes
<1>3. CASE RemoveCancels(c)
  <2>1. PICK t \in Turns : arg[c] = t
    BY <1>1, <1>3, InHand DEF RemoveCancels, HandPoints
  <2>2. /\ pc[t] = "idle" /\ turnStatus[t] = "queued"
        /\ \A i \in DOMAIN queue : queue[i] # t
    BY <1>1, <1>3, <2>1, InHand DEF RemoveCancels, HandPoints
  <2> QED
    BY <1>1, <1>3, <2>1, <2>2, Typed, Disjoint DEF RemoveCancels, Withdraws, NewStatus
<1>4. CASE ReorderTakesLock(c)
  BY <1>1, <1>4, Typed, Disjoint DEF ReorderTakesLock, Reorders, SameArg
<1> QED
  BY <1>2, <1>3, <1>4

\* A client that disconnects drops the message in its hands, if any.
LEMMA DisconnectMoves ==
  ASSUME Sound, CalmInv, NEW c \in Clients, Disconnect(c)
  PROVE  Waits \/ \E t \in Turns : Drops(c, t)
<1>1. /\ IInv /\ WatchInv /\ c \in Users
      /\ pc' = [pc EXCEPT ![c] = "idle"] /\ arg' = [arg EXCEPT ![c] = NoTurn]
  BY Disjoint DEF Sound, CalmInv, Disconnect, Goto
<1>2. CASE pc[c] \notin HandPoints
  <2>1. pc[c] \notin {"abandonTake", "abandonList"}
    BY <1>1 DEF WatchInv, AbandonPoints
  <2>2. UNCHANGED <<queue, cutOff>>
    BY <1>2, <2>1 DEF Disconnect
  <2> QED
    BY <1>1, <1>2, <2>2, Typed, Disjoint
    DEF Disconnect, Waits, WatchInv, HandPoints, AbandonPoints, Rows, Marks
<1>3. CASE pc[c] \in HandPoints
  <2>1. PICK t \in Turns : arg[c] = t
    BY <1>1, <1>3, InHand
  <2>2. /\ Alone(c) /\ pc[t] = "idle" /\ \A i \in DOMAIN queue : queue[i] # t
        /\ turnStatus[t] = IF pc[c] = "sendGate" THEN "running" ELSE "queued"
    BY <1>1, <1>3, <2>1, InHand
  <2>3. pc[c] # "pop" /\ UNCHANGED queue /\ CutOff({t})
    BY <1>1, <1>3, <2>1, Typed DEF Disconnect, HandPoints, WaitPoints, ClientPoints
  <2>4. Drops(c, t)
    BY <1>1, <1>3, <2>1, <2>2, <2>3, Typed, Disjoint
    DEF Disconnect, Drops, CutOff, Only, NewArg, Rows, Guards
  <2> QED
    BY <2>4
<1> QED
  BY <1>2, <1>3

\* In a Calm instance the watchers move no message, and terminate nothing.
LEMMA WatchersWait ==
  ASSUME Calm, Sound, CalmInv, WatchDuration \/ WatchSteps \/ WatchWorker
  PROVE  Waits
<1>0. /\ IInv /\ WatchInv
      /\ {"duration", "steps", "hang", "orphans"} \cap Enabled = {}
  BY DEF Sound, CalmInv, Calm
<1>1. ~WatchDuration
  BY <1>0 DEF WatchDuration, SweepBegins, DurationExceeded, CancelDelivered, WatchInv
<1>2. ~WatchSteps
  BY <1>0 DEF WatchSteps, StepCapExceeded, CancelDelivered, WatchInv
<1>3. ~GraceExpires /\ ~CrashChecksRun /\ ~CrashFinalized /\ ~GroupReaped
  BY <1>0 DEF GraceExpires, Replaced, CrashChecksRun, CrashFinalized, GroupReaped, WatchInv
<1>4. CASE WorkerExits
  BY <1>0, <1>4, Typed, Disjoint
  DEF WorkerExits, BlamesActive, Alarm, Waits, Goto, db, WatchInv, Rows, Marks
<1>5. CASE GraceSeesEnd
  BY <1>0, <1>5, Typed, Disjoint
  DEF GraceSeesEnd, Waits, Goto, db, memory, history, WatchInv, Rows, Marks
<1> QED
  BY <1>1, <1>2, <1>3, <1>4, <1>5 DEF WatchWorker

\* The agent moves no message.
LEMMA AgentWaits ==
  ASSUME CalmInv, NEW t \in Turns, AgentAnswers(t) \/ ReadLoopEnds(t)
  PROVE  Waits
BY DEF AgentAnswers, ReadLoopEnds, Waits, db, memory, control, history, CalmInv, WatchInv,
   Rows, Marks

\* The Turns and their messages move by effects only.
Effect ==
  \/ Waits
  \/ \E t \in Turns :
       \/ Begins(t) \/ Runs(t) \/ Faults(t) \/ Claims(t) \/ Joins(t)
       \/ Settles(t, "completed") \/ Settles(t, "terminated")
       \/ LeavesQueue(t) \/ FindsNone(t) \/ TakesFirst(t, Head(queue)) \/ Forgets(t)
  \/ \E p \in Users, u \in Turns : Launches(p, u)
  \/ \E c \in Clients, u \in Turns :
       Creates(c, u) \/ Queues(c, u) \/ Withdraws(c, u) \/ Drops(c, u)
  \/ \E c \in Clients : Resumes(c, Head(queue)) \/ Reorders(c)
  \/ \E c \in Clients, i \in DOMAIN queue : Removes(c, i)

\* Every step of a Calm instance is one of the effects.
LEMMA NextMoves ==
  ASSUME Calm, Sound, CalmInv, [Next]_vars
  PROVE  Effect
<1> USE DEF Effect
<1>1. CASE UNCHANGED vars
  BY <1>1 DEF vars, db, memory, control, history, Waits, CalmInv, WatchInv, Rows, Marks
<1>2. ASSUME NEW t \in Turns, RunTurn(t) PROVE Effect
  <2>1. CASE TurnBegins(t)
    BY <2>1, Typed, Disjoint DEF Sound, TurnBegins, Begins, Goto, Only, SameArg, NewStatus, Marks,
       Guards, memory, history
  <2>2. CASE TurnCompleted(t)
    BY <2>2, Typed, Disjoint DEF Sound, TurnCompleted, Joins, Only, SameArg, Goto, WaitForLock, Rows,
       Marks, db, history
  <2> QED
    BY <1>2, <2>1, <2>2, TurnMoves, FaultMoves, FinalizeMoves, AdvanceMoves, PoppedMoves, Disjoint
    DEF RunTurn
<1>3. ASSUME NEW t \in Turns, Terminate(t) PROVE Effect
  BY <1>3, TerminateMoves
<1>4. ASSUME NEW p \in Watchers PROVE ~Terminate(p)
  BY <1>4, Disjoint DEF CalmInv, WatchInv, Terminate, TerminateGuard, TerminateClassify,
     TerminateMark, TerminateAnnounce, TerminateReturn
<1>5. CASE WatchDuration \/ WatchSteps \/ WatchWorker
  BY <1>5, WatchersWait
<1>6. ASSUME NEW c \in Clients, Ask(c) PROVE Effect
  BY <1>6, AskMoves
<1>7. ASSUME NEW c \in Clients, Serve(c) PROVE Effect
  BY <1>7, ServeMoves, SendMoves, ResumeMoves, StartMoves, EditMoves, Disjoint
<1>8. ASSUME NEW c \in Clients, Disconnect(c) \/ DisconnectStarted(c) PROVE Effect
  BY <1>8, DisconnectMoves, StartMoves, Disjoint
<1>9. ASSUME NEW t \in Turns, AgentAnswers(t) \/ ReadLoopEnds(t) PROVE Effect
  BY <1>9, AgentWaits
<1>10. ~Restart
  BY DEF Restart, Calm
<1> QED
  BY <1>1, <1>2, <1>3, <1>4, <1>5, <1>6, <1>7, <1>8, <1>9, <1>10 DEF Next, Step

\* Every step of a Calm instance keeps the invariant.
LEMMA NextCalm ==
  ASSUME Calm, Sound, CalmInv, [Next]_vars
  PROVE  CalmInv'
BY NextMoves, WaitsKeeps, BeginsKeeps, RunsKeeps, FaultsKeeps, ClaimsKeeps, SettlesKeeps,
   JoinsKeeps, LeavesQueueKeeps, FindsNoneKeeps, TakesFirstKeeps, ForgetsKeeps, LaunchesKeeps,
   CreatesKeeps, QueuesKeeps, ResumesKeeps, RemovesKeeps, WithdrawsKeeps, ReordersKeeps,
   DropsKeeps
   DEF Effect

\* A Calm daemon is never restarted.
LEMMA NeverRestarted ==
  ASSUME Calm
  PROVE  Spec => [](restarts = 0)
<1>1. Init => restarts = 0
  BY DEF Init
<1>2. restarts = 0 /\ [Next]_vars => (restarts = 0)'
  <2> SUFFICES ASSUME restarts = 0, [Next]_vars PROVE restarts' = 0
    OBVIOUS
  <2>1. ~Restart
    BY DEF Restart, Calm
  <2>2. ASSUME NEW t \in Turns, RunTurn(t) PROVE restarts' = restarts
    BY <2>2 DEF RunTurn, TurnBegins, TurnUnsuspends, TurnPrepares, CreateRunFails, PreludeFails,
       PrepareFails, TurnEnsuresWorker, EnsureFails, TurnPrompts, PromptReturns, FinalizeReturns,
       FinalizeFails, TurnCompleted, AdvanceTakesLock, AdvancePopped, history
  <2>3. ASSUME NEW p, Terminate(p) PROVE restarts' = restarts
    BY <2>3 DEF Terminate, TerminateGuard, TerminateClassify, TerminateMark, TerminateAnnounce,
       TerminateReturn, history
  <2>4. ASSUME WatchDuration \/ WatchSteps \/ WatchWorker PROVE restarts' = restarts
    BY <2>4 DEF WatchDuration, WatchSteps, WatchWorker, SweepBegins, DurationExceeded,
       CancelDelivered, StepCapExceeded, WorkerExits, GroupReaped, GraceSeesEnd, GraceExpires,
       CrashChecksRun, CrashFinalized, Alarm, history
  <2>5. ASSUME NEW c \in Clients, Ask(c) PROVE restarts' = restarts
    BY <2>5 DEF Ask, SendRequested, RetryRequested, StopRequested, ResumeRequested,
       RemoveRequested, ReorderRequested, AbandonRequested, history
  <2>6. ASSUME NEW c \in Clients, Serve(c) PROVE restarts' = restarts
    BY <2>6 DEF Serve, SendTakesLock, SendEnqueues, SendQueued, SendStarts, ResumeTakesLock,
       ResumeStarts, Finishes, RemoveTakesLock, RemoveCancels, ReorderTakesLock,
       AbandonTakesLock, AbandonClears, AbandonReleases, AbandonUnsuspends, history
  <2>7. ASSUME NEW c \in Clients, Disconnect(c) \/ DisconnectStarted(c) PROVE restarts' = restarts
    BY <2>7 DEF Disconnect, DisconnectStarted, history
  <2>8. ASSUME NEW t \in Turns, AgentAnswers(t) \/ ReadLoopEnds(t) PROVE restarts' = restarts
    BY <2>8 DEF AgentAnswers, ReadLoopEnds, history
  <2>9. CASE UNCHANGED vars
    BY <2>9 DEF vars, history
  <2> QED
    BY <2>1, <2>2, <2>3, <2>4, <2>5, <2>6, <2>7, <2>8, <2>9 DEF Next, Step
<1> QED
  BY <1>1, <1>2, PTL DEF Spec

\* The invariants of a Calm instance hold throughout.
LEMMA CalmAlways ==
  ASSUME Calm
  PROVE  Spec => [](Sound /\ CalmInv)
<1>1. Spec => []Sound
  BY RunsLemma, NeverRestarted, PTL DEF Sound
<1>2. Init => CalmInv
  BY InitCalm
<1>3. Sound /\ CalmInv /\ [Next]_vars => CalmInv'
  BY NextCalm
<1> QED
  BY <1>1, <1>2, <1>3, PTL DEF Spec

-------------------------------------------------------------------------------
\* A pending message is followed by a Turn, or the queue is suspended for the user to go on,
\* whichever Turns fail and whichever clients go away (service.py _advance_queue,
\* queue_resume).
THEOREM NoStrandedQueueAlways ==
  ASSUME Calm
  PROVE  Spec => []NoStrandedQueue
<1>1. Sound /\ CalmInv => NoStrandedQueue
  BY Typed DEF Sound, CalmInv, StrandInv, ActiveInv, Live, BodyPoints, TerminatePoints,
     NoStrandedQueue, Quiet
<1> QED
  BY <1>1, CalmAlways, PTL

-------------------------------------------------------------------------------
(* SessionTurns implements TurnQueue: what an effect does to the Queue it stands for.        *)

\* Of the coroutines that hold a message only one can be inside the lock.
Mapped ==
  /\ active # NoTurn => Current = active
  /\ active = NoTurn /\ Starting = {} => Current = NoTurn
  /\ active = NoTurn => \A p \in Starting : Current = arg[p]
  /\ Enqueuing = {} => Pending = queue
  /\ \A c \in Enqueuing : Pending = Append(queue, arg[c])

\* What the mapping makes of a state is what the code has in hand ...
LEMMA MappedHolds == IInv => Mapped
<1> SUFFICES ASSUME IInv PROVE Mapped
  OBVIOUS
<1>1. \A p, q \in Starting : p = q
  BY OneInside DEF Starting, Users, CriticalPoints
<1>2. \A c, d \in Enqueuing : c = d
  BY OneInside DEF Enqueuing, Users, CriticalPoints
<1>3. Starting # {} => (CHOOSE p \in Starting : TRUE) \in Starting
  OBVIOUS
<1>4. Enqueuing # {} => (CHOOSE c \in Enqueuing : TRUE) \in Enqueuing
  OBVIOUS
<1>5. active = NoTurn => \A p \in Starting : Current = arg[p]
  BY <1>1, <1>3 DEF Current
<1>6. \A c \in Enqueuing : Pending = Append(queue, arg[c])
  BY <1>2, <1>4 DEF Pending
<1> QED
  BY <1>5, <1>6 DEF Mapped, Current, Pending

\* ... and so of the state after a step.
LEMMA MappedNext == IInv' => Mapped'
BY MappedHolds, PTL

\* Two mappings of the states before and after a step agree when their Turns do.
LEMMA StatusSame ==
  ASSUME \A t \in Turns : Status'[t] = Status[t]
  PROVE  Status' = Status
<1> DEFINE F == [t \in Turns |-> Status[t]]
<1>1. Status = F
  BY DEF Status
<1>2. Status' = [t \in Turns |-> Status'[t]]
  BY DEF Status
<1> QED
  BY <1>1, <1>2

\* They differ in one Turn when only that one's status does.
LEMMA StatusSet ==
  ASSUME NEW u \in Turns, \A t \in Turns \ {u} : Status'[t] = Status[t]
  PROVE  Status' = [Status EXCEPT ![u] = Status'[u]]
<1>1. DOMAIN Status = Turns
  BY DEF Status
<1>2. Status' = [t \in Turns |-> Status'[t]]
  BY DEF Status
<1> QED
  BY <1>1, <1>2

\* Only p may hold a message, when it is alone with them.
LEMMA AloneHolds ==
  ASSUME NEW p, Alone(p)
  PROVE  Starting \subseteq {p} /\ Enqueuing \subseteq {p} /\ Removing \subseteq {p}
BY DEF Alone, Starting, Enqueuing, Removing, HandPoints, Users

\* The messages a client is removing wait, and their Turns have no task.
LEMMA RemovedWait ==
  ASSUME Sound, CalmInv, NEW c \in Removing
  PROVE  /\ c \in Clients /\ arg[c] \in Turns /\ arg[c] # active
         /\ pc[arg[c]] = "idle" /\ turnStatus[arg[c]] = "queued"
<1>1. c \in Clients /\ c \in Users /\ pc[c] = "removed" /\ pc[c] \in HandPoints
  BY Disjoint DEF Removing, HandPoints
<1>2. /\ arg[c] \in Turns /\ pc[arg[c]] = "idle" /\ turnStatus[arg[c]] = "queued"
  BY <1>1, InHand
<1> QED
  BY <1>1, <1>2 DEF CalmInv, ActiveInv, Live, BodyPoints, TerminatePoints

\* The state of the Queue.
QueueVars == <<Status, Pending, Current>>

\* What moves no message is not seen.
LEMMA StillStutters ==
  ASSUME Sound, IInv', UNCHANGED <<queue, turnStatus, active, cutOff>>,
         Starting' = Starting, Enqueuing' = Enqueuing, Removing' = Removing,
         \A p \in Starting \cup Enqueuing \cup Removing : arg'[p] = arg[p]
  PROVE  UNCHANGED QueueVars
<1>1. Current' = Current
  BY MappedHolds, MappedNext DEF Mapped, Sound
<1>2. Pending' = Pending
  BY MappedHolds, MappedNext DEF Mapped, Sound
<1>3. Status' = Status
  BY <1>1, StatusSame DEF Status
<1> QED
  BY <1>1, <1>2, <1>3 DEF QueueVars

\* A step after which the same coroutines hold the same messages.
LEMMA HandsStill ==
  ASSUME NEW p \in Coroutines, NEW l, Only(p, l), SameArg,
         {pc[p], l} \cap (HandPoints \cup {"enqueue"}) = {}
  PROVE  /\ Starting' = Starting /\ Enqueuing' = Enqueuing /\ Removing' = Removing
         /\ \A q \in Starting \cup Enqueuing \cup Removing : arg'[q] = arg[q]
<1>1. \A q \in Users : arg'[q] = arg[q]
  BY Disjoint DEF SameArg
<1>2. \A q \in Users : pc'[q] = pc[q] \/ (pc[q] \notin HandPoints /\ pc'[q] \notin HandPoints)
  BY Disjoint DEF Only
<1> QED
  BY <1>1, <1>2 DEF Starting, Enqueuing, Removing, Users, HandPoints

\* Requests that wait, and a Turn on its way, move no message.
LEMMA WaitingStutters ==
  ASSUME Sound, IInv', CalmInv, Waits
  PROVE  UNCHANGED QueueVars
<1>1. \A c \in Clients : \/ pc'[c] = pc[c] /\ arg'[c] = arg[c]
                         \/ pc[c] \notin HandPoints /\ pc'[c] \notin HandPoints
  BY DEF Waits
<1>2. Starting' = Starting /\ Enqueuing' = Enqueuing /\ Removing' = Removing
  BY <1>1, Disjoint DEF Waits, Starting, Enqueuing, Removing, HandPoints
<1>3. \A p \in Starting \cup Enqueuing \cup Removing : arg'[p] = arg[p]
  BY <1>1, Disjoint DEF Waits, Starting, Enqueuing, Removing, HandPoints
<1> QED
  BY <1>2, <1>3, StillStutters DEF Waits, Rows, Marks

\* A Turn that works on its own Run is none of the queue's business.
LEMMA RunningStutters ==
  ASSUME Sound, IInv', CalmInv, NEW t \in Turns, Runs(t) \/ Claims(t) \/ Joins(t)
  PROVE  UNCHANGED QueueVars
<1>1. PICK l \in TurnPoints \ (HandPoints \cup {"enqueue"}) :
        /\ Only(t, l) /\ SameArg /\ pc[t] \notin HandPoints \cup {"enqueue"}
        /\ UNCHANGED <<queue, turnStatus, active, cutOff>>
  BY DEF Runs, Claims, Joins, Rows, Marks, RunPoints, TurnPoints, BodyPoints, TerminatePoints,
     HandPoints
<1> QED
  BY <1>1, HandsStill, StillStutters, Disjoint

\* A Turn that was taken from the queue, or sent while none ran, was running already.
LEMMA BeginsStutters ==
  ASSUME Sound, IInv', CalmInv, NEW t \in Turns, Begins(t)
  PROVE  UNCHANGED QueueVars
<1>1. /\ active = t /\ active' = t /\ turnStatus[t] \in {"queued", "running"} /\ pc[t] = "created"
      /\ turnStatus'[t] = "running" /\ cutOff' = cutOff
      /\ \A u \in Turns \ {t} : turnStatus'[u] = turnStatus[u]
  BY DEF Begins, NewStatus, Marks, CalmInv, RunInv, ActiveInv, Live
<1>2. /\ Starting' = Starting /\ Enqueuing' = Enqueuing /\ Removing' = Removing
      /\ \A q \in Starting \cup Enqueuing \cup Removing : arg'[q] = arg[q]
      /\ queue' = queue
  BY HandsStill, Disjoint DEF Begins, HandPoints
<1>3. Current = t /\ Current' = t /\ Pending' = Pending
  BY <1>1, <1>2, MappedHolds, MappedNext, Disjoint DEF Mapped, Sound
<1>4. \A c \in Removing : arg[c] # t /\ arg'[c] = arg[c]
  BY <1>1, <1>2, RemovedWait
<1>5. \A u \in Turns : Status'[u] = Status[u]
  BY <1>1, <1>2, <1>3, <1>4 DEF Status
<1> QED
  BY <1>3, <1>5, StatusSame DEF QueueVars

\* A message starts: it was the current one already.
LEMMA LaunchesStutters ==
  ASSUME Sound, IInv', CalmInv, NEW p \in Users, NEW u \in Turns, Launches(p, u)
  PROVE  UNCHANGED QueueVars
<1>1. /\ active = NoTurn /\ active' = u /\ p \in Starting /\ arg[p] = u
      /\ queue' = queue /\ turnStatus' = turnStatus /\ cutOff' = cutOff
  BY Typed, Disjoint DEF Sound, Launches, Starting, Users, CalmInv, ActiveInv
<1>2. Enqueuing = {} /\ Removing = {}
  BY AloneHolds DEF Launches, Enqueuing, Removing
<1>3. Enqueuing' = {} /\ Removing' = {}
  BY <1>2, Disjoint DEF Launches, Enqueuing, Removing
<1>4. Current = u /\ Current' = u /\ Pending' = Pending
  BY <1>1, <1>2, <1>3, MappedHolds, MappedNext, Disjoint DEF Mapped, Sound
<1>5. \A v \in Turns : Status'[v] = Status[v]
  BY <1>1, <1>2, <1>3, <1>4 DEF Status
<1> QED
  BY <1>4, <1>5, StatusSame DEF QueueVars

\* An ended Turn that nothing follows is forgotten.
LEMMA ForgetsStutters ==
  ASSUME Sound, IInv', CalmInv, NEW t \in Turns, Forgets(t)
  PROVE  UNCHANGED QueueVars
<1>1. Starting = {} /\ Enqueuing = {} /\ Removing = {}
  BY AloneHolds, Disjoint DEF Forgets, Starting, Enqueuing, Removing
<1>2. Starting' = {} /\ Enqueuing' = {} /\ Removing' = {}
  BY <1>1, Disjoint DEF Forgets, Only, SameArg, Starting, Enqueuing, Removing, Users
<1> QED
  BY <1>1, <1>2, StillStutters DEF Forgets, Rows

\* A new message was at the end of the queue before its row was.
LEMMA QueuesStutters ==
  ASSUME Sound, IInv', CalmInv, NEW c \in Clients, NEW t \in Turns, Queues(c, t)
  PROVE  UNCHANGED QueueVars
<1>1. /\ c \in Enqueuing /\ arg[c] = t /\ queue' = Append(queue, t)
      /\ turnStatus' = turnStatus /\ active' = active /\ cutOff' = cutOff
  BY DEF Queues, Rows, Marks, Enqueuing
<1>2. Starting = {} /\ Removing = {}
  BY AloneHolds DEF Queues, Starting, Removing
<1>3. Starting' = {} /\ Removing' = {} /\ Enqueuing' = {}
  BY <1>2, AloneHolds, Disjoint
  DEF Queues, Only, SameArg, Starting, Enqueuing, Removing, Users
<1>4. Current' = Current
  BY <1>1, <1>2, <1>3, MappedHolds, MappedNext DEF Mapped, Sound
<1>5. Pending' = Pending
  BY <1>1, <1>3, MappedHolds, MappedNext DEF Mapped, Sound
<1>6. \A v \in Turns : Status'[v] = Status[v]
  BY <1>1, <1>2, <1>3, <1>4 DEF Status
<1> QED
  BY <1>4, <1>5, <1>6, StatusSame DEF QueueVars

\* A message taken back was cancelled already.
LEMMA WithdrawsStutters ==
  ASSUME Sound, IInv', CalmInv, NEW c \in Clients, NEW t \in Turns, Withdraws(c, t)
  PROVE  UNCHANGED QueueVars
<1>1. /\ c \in Removing /\ arg[c] = t /\ queue' = queue /\ active' = active /\ active # t
      /\ turnStatus'[t] = "cancelled" /\ \A v \in Turns \ {t} : turnStatus'[v] = turnStatus[v]
      /\ cutOff' = cutOff
  BY RemovedWait DEF Withdraws, NewStatus, Removing, Marks
<1>2. Starting = {} /\ Enqueuing = {} /\ Removing = {c}
  BY <1>1, AloneHolds DEF Withdraws, Starting, Enqueuing
<1>3. Starting' = {} /\ Enqueuing' = {} /\ Removing' = {}
  BY <1>2, Disjoint DEF Withdraws, Only, NewArg, Starting, Enqueuing, Removing, Users
<1>4. Current' = Current /\ Current # t /\ Pending' = Pending
  BY <1>1, <1>2, <1>3, MappedHolds, MappedNext, Disjoint DEF Mapped, Sound
<1>5. \A v \in Turns : Status'[v] = Status[v]
  BY <1>1, <1>2, <1>3, <1>4 DEF Status
<1> QED
  BY <1>4, <1>5, StatusSame DEF QueueVars

\* The outcome of the Turn that runs is recorded.
LEMMA SettlesEnds ==
  ASSUME Sound, IInv', CalmInv, NEW t \in Turns, NEW outcome \in {"completed", "terminated"},
         Settles(t, outcome)
  PROVE  Queue!End(outcome)
<1>1. /\ active = t /\ active' = t /\ queue' = queue /\ pc[t] \in {"suspend", "finalize"}
      /\ turnStatus[t] = "running" /\ turnStatus'[t] = outcome
      /\ \A u \in Turns \ {t} : turnStatus'[u] = turnStatus[u]
      /\ cutOff' = cutOff /\ t \notin cutOff
  BY DEF Settles, NewStatus, Marks, CalmInv, CutInv, RunInv, RunPoints, ActiveInv, Live,
     BodyPoints, TerminatePoints
<1>2. /\ Starting' = Starting /\ Enqueuing' = Enqueuing /\ Removing' = Removing
      /\ \A q \in Starting \cup Enqueuing \cup Removing : arg'[q] = arg[q]
  BY HandsStill, Disjoint DEF Settles, HandPoints
<1>3. Current = t /\ Current' = t /\ Pending' = Pending
  BY <1>1, <1>2, MappedHolds, MappedNext, Disjoint DEF Mapped, Sound
<1>4. \A c \in Removing : arg[c] # t /\ arg'[c] = arg[c]
  BY <1>1, <1>2, RemovedWait
<1>5. /\ Status[t] = "running" /\ Status'[t] = outcome
      /\ \A u \in Turns \ {t} : Status'[u] = Status[u]
  BY <1>1, <1>2, <1>3, <1>4 DEF Status
<1>6. Status' = [Status EXCEPT ![t] = outcome]
  BY <1>5, StatusSet
<1> QED
  BY <1>3, <1>5, <1>6, Disjoint DEF Queue!End

\* What the lock keeps to itself: with p alone and nothing in its hands, the Queue is as stored.
LEMMA HandsFree ==
  ASSUME Sound, NEW p \in Users, Alone(p),
         pc[p] \notin HandPoints \/ (p \in Turns /\ arg[p] = NoTurn)
  PROVE  /\ Starting = {} /\ Enqueuing = {} /\ Removing = {}
         /\ Current = active /\ Pending = queue
<1>1. Starting = {} /\ Enqueuing = {} /\ Removing = {}
  BY AloneHolds, Disjoint DEF Starting, Enqueuing, Removing, HandPoints
<1> QED
  BY <1>1, MappedHolds DEF Mapped, Sound

\* A terminated Turn has left the queue behind.
LEMMA LeavesQueueSuspends ==
  ASSUME Sound, IInv', CalmInv, NEW t \in Turns, LeavesQueue(t)
  PROVE  Queue!Suspend
<1>1. /\ active = t /\ active' = NoTurn /\ queue' = queue /\ turnStatus' = turnStatus
      /\ turnStatus[t] = "terminated" /\ t \notin cutOff /\ cutOff' = cutOff
  BY DEF LeavesQueue, Rows, CalmInv, RunInv, GuardInv, CutInv, EndPoints
<1>2. /\ Starting = {} /\ Enqueuing = {} /\ Removing = {}
      /\ Current = t /\ Pending = queue
  BY <1>1, HandsFree, Disjoint DEF LeavesQueue, HandPoints
<1>3. Starting' = {} /\ Enqueuing' = {} /\ Removing' = {}
  BY <1>2, Disjoint DEF LeavesQueue, Only, SameArg, Starting, Enqueuing, Removing, Users
<1>4. Current' = NoTurn /\ Pending' = Pending
  BY <1>1, <1>2, <1>3, MappedNext DEF Mapped
<1>5. Status[t] = "terminated" /\ \A v \in Turns : Status'[v] = Status[v]
  BY <1>1, <1>2, <1>3, <1>4, Disjoint DEF Status
<1> QED
  BY <1>2, <1>4, <1>5, StatusSame, Disjoint DEF Queue!Suspend

\* A completed Turn is followed by the first message, or by none.
LEMMA FindsNoneAdvances ==
  ASSUME Sound, IInv', CalmInv, NEW t \in Turns, FindsNone(t)
  PROVE  Queue!Advance
<1>1. /\ active = t /\ active' = NoTurn /\ queue = <<>> /\ queue' = queue
      /\ turnStatus' = turnStatus /\ (t \in cutOff \/ turnStatus[t] = "completed")
      /\ cutOff' = cutOff
  BY DEF FindsNone, Rows, CalmInv, RunInv, GuardInv, EndPoints
<1>2. /\ Starting = {} /\ Enqueuing = {} /\ Removing = {}
      /\ Current = t /\ Pending = queue
  BY <1>1, HandsFree, Disjoint DEF FindsNone, HandPoints
<1>3. Starting' = {} /\ Enqueuing' = {} /\ Removing' = {}
  BY <1>2, Disjoint DEF FindsNone, Only, SameArg, Starting, Enqueuing, Removing, Users
<1>4. Current' = NoTurn /\ Pending' = Pending
  BY <1>1, <1>2, <1>3, MappedNext DEF Mapped
<1>5. Status[t] \in {"completed", "lost"} /\ \A v \in Turns : Status'[v] = Status[v]
  BY <1>1, <1>2, <1>3, <1>4, Disjoint DEF Status
<1> QED
  BY <1>1, <1>2, <1>4, <1>5, StatusSame, Disjoint DEF Queue!Advance

\* The first message is taken from the queue, by a Turn that completed.
LEMMA TakesFirstAdvances ==
  ASSUME Sound, IInv', CalmInv, NEW t \in Turns, TakesFirst(t, Head(queue))
  PROVE  Queue!Advance
<1> DEFINE u == Head(queue)
<1>1. /\ active = t /\ active' = NoTurn /\ queue # <<>> /\ queue' = Tail(queue)
      /\ turnStatus' = turnStatus /\ (t \in cutOff \/ turnStatus[t] = "completed")
      /\ t \in Users /\ pc'[t] = "pop" /\ arg'[t] = u /\ cutOff' = cutOff
  BY Disjoint DEF TakesFirst, Only, NewArg, Rows, CalmInv, RunInv, GuardInv, EndPoints
<1>2. /\ Starting = {} /\ Enqueuing = {} /\ Removing = {}
      /\ Current = t /\ Pending = queue
  BY <1>1, HandsFree, Disjoint DEF TakesFirst, HandPoints
<1>3. u \in Turns /\ u # NoTurn /\ turnStatus[u] = "queued" /\ u # t /\ u \notin cutOff
  <2>1. u \in Turns /\ \E i \in DOMAIN queue : queue[i] = u
    BY <1>1, TailTaken, Typed DEF Taken, Sound
  <2> QED
    BY <1>1, <2>1, Disjoint DEF TakesFirst, Sound, MessageInv, QueueInv, CalmInv, CutInv
<1>4. t \in Starting' /\ Enqueuing' = {} /\ Removing' = {}
  BY <1>1, <1>2, <1>3, Disjoint DEF TakesFirst, Only, Starting, Enqueuing, Removing, Users
<1>5. Current' = u /\ Pending' = Tail(queue)
  BY <1>1, <1>4, MappedNext DEF Mapped
<1>6. /\ Status[t] \in {"completed", "lost"} /\ Status'[u] = "running"
      /\ \A v \in Turns \ {u} : Status'[v] = Status[v]
  BY <1>1, <1>2, <1>3, <1>4, <1>5, Disjoint DEF Status
<1>7. Status' = [Status EXCEPT ![u] = "running"]
  BY <1>3, <1>6, StatusSet
<1> QED
  BY <1>1, <1>2, <1>5, <1>6, <1>7, Disjoint DEF Queue!Advance, Queue!StartFirst

\* A new message waits behind the Turn that runs, or runs.
LEMMA CreatesSends ==
  ASSUME Sound, IInv', CalmInv, NEW c \in Clients, NEW t \in Turns, Creates(c, t)
  PROVE  Queue!SendLater(t) \/ Queue!SendNow(t)
<1>1. /\ active' = active /\ queue' = queue /\ turnStatus[t] = "none" /\ active # t
      /\ pc[t] = "idle" /\ arg'[c] = t /\ t \notin cutOff /\ cutOff' = cutOff
      /\ \A v \in Turns \ {t} : turnStatus'[v] = turnStatus[v]
  BY DEF Creates, NewArg, NewStatus, Marks, CalmInv, CutInv, ActiveInv, Live, BodyPoints,
     TerminatePoints
<1>2. /\ Starting = {} /\ Enqueuing = {} /\ Removing = {}
      /\ Current = active /\ Pending = queue
  BY <1>1, HandsFree, Disjoint DEF Creates, HandPoints
<1>3. Status[t] = "none"
  BY <1>1, <1>2 DEF Status
<1>4. CASE active # NoTurn
  <2>1. pc'[c] = "sendRow" /\ turnStatus'[t] = "queued" /\ Only(c, "sendRow")
    BY <1>4 DEF Creates, Only, NewStatus
  <2>2. c \in Enqueuing' /\ Starting' = {} /\ Removing' = {}
    BY <1>2, <2>1, Disjoint DEF Creates, Only, NewArg, Starting, Enqueuing, Removing, Users
  <2>3. Current' = Current /\ Pending' = Append(Pending, t)
    BY <1>1, <1>2, <1>4, <2>2, MappedNext DEF Mapped
  <2>4. Status'[t] = "queued" /\ \A v \in Turns \ {t} : Status'[v] = Status[v]
    BY <1>1, <1>2, <2>1, <2>2, <2>3 DEF Status
  <2>5. Status' = [Status EXCEPT ![t] = "queued"]
    BY <2>4, StatusSet
  <2> QED
    BY <1>2, <1>3, <1>4, <2>3, <2>5 DEF Queue!SendLater
<1>5. CASE active = NoTurn
  <2>1. pc'[c] = "sendGate" /\ turnStatus'[t] = "running" /\ Only(c, "sendGate")
    BY <1>5 DEF Creates, Only, NewStatus
  <2>2. c \in Starting' /\ Enqueuing' = {} /\ Removing' = {}
    BY <1>1, <1>2, <2>1, Disjoint DEF Only, Starting, Enqueuing, Removing, Users
  <2>3. Current' = t /\ Pending' = Pending
    BY <1>1, <1>2, <1>5, <2>2, MappedNext DEF Mapped
  <2>4. Status'[t] = "running" /\ \A v \in Turns \ {t} : Status'[v] = Status[v]
    BY <1>1, <1>2, <1>5, <2>1, <2>2, <2>3, Disjoint DEF Status
  <2>5. Status' = [Status EXCEPT ![t] = "running"]
    BY <2>4, StatusSet
  <2> QED
    BY <1>2, <1>3, <1>5, <2>3, <2>5 DEF Queue!SendNow
<1> QED
  BY <1>4, <1>5

\* The user continues with the first message.
LEMMA ResumesResumes ==
  ASSUME Sound, IInv', CalmInv, NEW c \in Clients, Resumes(c, Head(queue))
  PROVE  Queue!Resume
<1> DEFINE u == Head(queue)
<1>1. /\ active = NoTurn /\ active' = NoTurn /\ queue # <<>> /\ queue' = Tail(queue)
      /\ turnStatus' = turnStatus /\ pc'[c] = "resumePop" /\ arg'[c] = u /\ cutOff' = cutOff
  BY DEF Resumes, Only, NewArg, Rows, Marks
<1>2. /\ Starting = {} /\ Enqueuing = {} /\ Removing = {}
      /\ Current = NoTurn /\ Pending = queue
  BY <1>1, HandsFree, Disjoint DEF Resumes, HandPoints
<1>3. u \in Turns /\ u # NoTurn /\ turnStatus[u] = "queued" /\ u \notin cutOff
  <2>1. u \in Turns /\ \E i \in DOMAIN queue : queue[i] = u
    BY <1>1, TailTaken, Typed DEF Taken, Sound
  <2> QED
    BY <2>1, Disjoint DEF Sound, MessageInv, QueueInv, CalmInv, CutInv
<1>4. c \in Starting' /\ Enqueuing' = {} /\ Removing' = {}
  BY <1>1, <1>2, <1>3, Disjoint DEF Resumes, Only, Starting, Enqueuing, Removing, Users
<1>5. Current' = u /\ Pending' = Tail(queue)
  BY <1>1, <1>4, MappedNext DEF Mapped
<1>6. Status'[u] = "running" /\ \A v \in Turns \ {u} : Status'[v] = Status[v]
  BY <1>1, <1>2, <1>3, <1>4, <1>5, Disjoint DEF Status
<1>7. Status' = [Status EXCEPT ![u] = "running"]
  BY <1>3, <1>6, StatusSet
<1> QED
  BY <1>1, <1>2, <1>5, <1>7 DEF Queue!Resume, Queue!StartFirst

\* Without leaves what is before and what is after.
LEMMA WithoutIsSubSeq ==
  ASSUME NEW S, NEW q \in Seq(S), NEW k \in DOMAIN q
  PROVE  Without(q, k) = SubSeq(q, 1, k - 1) \o SubSeq(q, k + 1, Len(q))
<1> DEFINE n == Len(q)
           a == SubSeq(q, 1, k - 1)
           b == SubSeq(q, k + 1, n)
           w == Without(q, k)
<1>1. /\ n \in Nat /\ k \in 1 .. n /\ DOMAIN q = 1 .. n /\ k - 1 \in Nat /\ n - k \in Nat
      /\ \A j \in 1 .. n : q[j] \in S
  BY LenProperties, ElementOfSeq
<1>2. /\ a \in Seq(S) /\ Len(a) = k - 1
      /\ \A j \in 1 .. k - 1 : a[j] = q[j]
  BY <1>1, SubSeqProperties
<1>3. /\ b \in Seq(S) /\ Len(b) = n - k
      /\ \A j \in 1 .. n - k : b[j] = q[k + j]
  BY <1>1, SubSeqProperties
<1>4. /\ w \in Seq(S) /\ Len(w) = n - 1
      /\ \A j \in 1 .. n - 1 : w[j] = IF j < k THEN q[j] ELSE q[j + 1]
  BY <1>1 DEF Without
<1> HIDE DEF n, a, b, w
<1>5. /\ a \o b \in Seq(S) /\ Len(a \o b) = n - 1
      /\ \A j \in 1 .. n - 1 : (a \o b)[j] = IF j <= k - 1 THEN a[j] ELSE b[j - (k - 1)]
  <2>1. Len(a) + Len(b) = n - 1
    BY <1>1, <1>2, <1>3
  <2>2. /\ a \o b \in Seq(S) /\ Len(a \o b) = Len(a) + Len(b)
        /\ \A j \in 1 .. Len(a) + Len(b) :
             (a \o b)[j] = IF j <= Len(a) THEN a[j] ELSE b[j - Len(a)]
    BY <1>2, <1>3, ConcatProperties
  <2> QED
    BY <1>2, <2>1, <2>2, Zenon
<1>6. ASSUME NEW j \in 1 .. n - 1 PROVE w[j] = (a \o b)[j]
  <2>1. CASE j < k
    BY <1>1, <1>2, <1>4, <1>5, <2>1
  <2>2. CASE ~(j < k)
    <3>1. j - (k - 1) \in 1 .. n - k /\ k + (j - (k - 1)) = j + 1 /\ ~(j <= k - 1)
      BY <1>1, <2>2
    <3> QED
      BY <1>3, <1>4, <1>5, <2>2, <3>1
  <2> QED
    BY <2>1, <2>2
<1>7. w = a \o b
  BY <1>4, <1>5, <1>6, SeqEqual
<1> QED
  BY <1>7 DEF n, a, b, w

\* The user takes a message back.
LEMMA RemovesRemoves ==
  ASSUME Sound, IInv', CalmInv, NEW c \in Clients, NEW i \in DOMAIN queue, Removes(c, i)
  PROVE  Queue!Remove(i)
<1> DEFINE u == queue[i]
<1>1. /\ active' = active /\ queue' = Without(queue, i) /\ turnStatus' = turnStatus
      /\ pc'[c] = "removed" /\ arg'[c] = u /\ Only(c, "removed")
      /\ cutOff' = cutOff /\ \A q \in Users \ {c} : arg'[q] = arg[q]
  BY Disjoint DEF Removes, Only, NewArg, Rows, Marks
<1>2. /\ Starting = {} /\ Enqueuing = {} /\ Removing = {}
      /\ Current = active /\ Pending = queue
  BY HandsFree, Disjoint DEF Removes, HandPoints
<1>3. u \in Turns /\ turnStatus[u] = "queued" /\ u # active /\ u \notin cutOff
  BY Typed
  DEF Sound, MessageInv, QueueInv, CalmInv, CutInv, ActiveInv, Live, BodyPoints, TerminatePoints
<1>4. Starting' = {} /\ Enqueuing' = {} /\ Removing' = {c}
  BY <1>1, <1>2, Disjoint DEF Only, Starting, Enqueuing, Removing, Users
<1>5. Current' = Current /\ Pending' = Without(queue, i)
  BY <1>1, <1>2, <1>4, MappedNext DEF Mapped
<1>6. Status'[u] = "cancelled" /\ \A v \in Turns \ {u} : Status'[v] = Status[v]
  BY <1>1, <1>2, <1>3, <1>4, <1>5 DEF Status
<1>7. Status' = [Status EXCEPT ![u] = "cancelled"]
  BY <1>3, <1>6, StatusSet
<1>8. Without(queue, i) = SubSeq(queue, 1, i - 1) \o SubSeq(queue, i + 1, Len(queue))
  BY WithoutIsSubSeq, Typed DEF Sound
<1> QED
  BY <1>2, <1>5, <1>7, <1>8 DEF Queue!Remove

\* The user rearranges the messages.
LEMMA ReordersReorders ==
  ASSUME Sound, IInv', CalmInv, NEW c \in Clients, Reorders(c)
  PROVE  Queue!Reorder
<1>1. /\ active' = active /\ turnStatus' = turnStatus /\ queue' \in Reorderings(queue)
      /\ Only(c, "finish") /\ SameArg /\ cutOff' = cutOff
  BY DEF Reorders, Rows, Marks
<1>2. /\ Starting = {} /\ Enqueuing = {} /\ Removing = {}
      /\ Current = active /\ Pending = queue
  BY HandsFree, Disjoint DEF Reorders, HandPoints
<1>3. Starting' = {} /\ Enqueuing' = {} /\ Removing' = {}
  BY <1>1, <1>2, Disjoint DEF Only, SameArg, Starting, Enqueuing, Removing, Users
<1>4. Current' = Current /\ Pending' = queue'
  BY <1>1, <1>2, <1>3, MappedNext DEF Mapped
<1>5. \A v \in Turns : Status'[v] = Status[v]
  BY <1>1, <1>2, <1>3, <1>4 DEF Status
<1> DEFINE f == Places(queue, queue')
<1>6. /\ f \in [DOMAIN queue -> DOMAIN queue]
      /\ \A i \in DOMAIN queue : queue[f[i]] = queue'[i]
      /\ \A i, j \in DOMAIN queue : f[i] = f[j] => i = j
      /\ \A j \in DOMAIN queue : \E i \in DOMAIN queue : f[i] = j
  BY <1>1, ReorderingsPlaces, Typed DEF Sound, MessageInv, QueueInv
<1>7. queue' = [i \in DOMAIN queue |-> queue'[i]]
  BY <1>1 DEF Reorderings
<1> HIDE DEF f
<1>8. queue' = [i \in DOMAIN queue |-> queue[f[i]]]
  BY <1>6, <1>7
<1> QED
  BY <1>2, <1>4, <1>5, <1>6, <1>8, StatusSame DEF Queue!Reorder

\* A Turn that fails where nobody settles it is lost, and followed all the same.
LEMMA FaultsEnds ==
  ASSUME Sound, IInv', CalmInv, NEW t \in Turns, Faults(t)
  PROVE  Queue!End("lost")
<1>1. /\ active = t /\ active' = t /\ queue' = queue
      /\ pc[t] \in {"created", "createRun", "unsuspend", "prepare"}
      /\ turnStatus[t] \in {"queued", "running"} /\ turnStatus' = turnStatus
      /\ t \notin cutOff /\ cutOff' = cutOff \cup {t}
  BY DEF Faults, Rows, CalmInv, CutInv, RunInv, RunPoints, ActiveInv, Live, BodyPoints
<1>2. /\ Starting' = Starting /\ Enqueuing' = Enqueuing /\ Removing' = Removing
      /\ \A q \in Starting \cup Enqueuing \cup Removing : arg'[q] = arg[q]
  BY HandsStill, Disjoint DEF Faults, HandPoints
<1>3. Current = t /\ Current' = t /\ Pending' = Pending
  BY <1>1, <1>2, MappedHolds, MappedNext, Disjoint DEF Mapped, Sound
<1>4. \A c \in Removing : arg[c] # t /\ arg'[c] = arg[c]
  BY <1>1, <1>2, RemovedWait
<1>5. /\ Status[t] = "running" /\ Status'[t] = "lost"
      /\ \A u \in Turns \ {t} : Status'[u] = Status[u]
  BY <1>1, <1>2, <1>3, <1>4 DEF Status
<1>6. Status' = [Status EXCEPT ![t] = "lost"]
  BY <1>5, StatusSet
<1> QED
  BY <1>3, <1>5, <1>6, Disjoint DEF Queue!End

\* A client that goes away loses the message in its hands, and no other: the current one, the
\* last, or the record of one it took back.
LEMMA DropsLoses ==
  ASSUME Sound, IInv', CalmInv, NEW c \in Clients, NEW t \in Turns, Drops(c, t)
  PROVE  Queue!LoseCurrent \/ Queue!LoseLast \/ Queue!LoseRecord(t)
<1>1. /\ active' = active /\ active # t /\ queue' = queue /\ turnStatus' = turnStatus
      /\ cutOff' = cutOff \cup {t} /\ c \in Users /\ arg[c] = t /\ t # NoTurn
      /\ Only(c, "idle") /\ pc'[c] = "idle"
      /\ \A q \in Users \ {c} : pc'[q] = pc[q] /\ arg'[q] = arg[q]
  BY Disjoint
  DEF Drops, Only, NewArg, Rows, CalmInv, ActiveInv, Live, BodyPoints, TerminatePoints
<1>2. /\ t \notin cutOff
      /\ pc[c] \in {"pop", "sendGate", "resumePop"} => active = NoTurn
  BY <1>1, InHand, Typed DEF Drops, Sound, CalmInv, ActiveInv
<1>3. Starting \subseteq {c} /\ Enqueuing \subseteq {c} /\ Removing \subseteq {c}
  BY AloneHolds DEF Drops
<1>4. Starting' = {} /\ Enqueuing' = {} /\ Removing' = {}
  BY <1>1, <1>3, Disjoint DEF Starting, Enqueuing, Removing, Users
<1>5. Current' = active /\ Pending' = queue
  BY <1>1, <1>4, MappedNext DEF Mapped
<1>6. CASE pc[c] \in {"sendGate", "resumePop"}
  <2>1. c \in Starting /\ Enqueuing = {} /\ Removing = {} /\ active = NoTurn
    BY <1>1, <1>2, <1>3, <1>6 DEF Starting, Enqueuing, Removing, Users
  <2>2. Current = t /\ Pending = queue /\ Current' = NoTurn
    BY <1>1, <1>5, <2>1, MappedHolds DEF Mapped, Sound
  <2>3. /\ Status[t] = "running" /\ Status'[t] = "lost"
        /\ \A u \in Turns \ {t} : Status'[u] = Status[u]
    BY <1>1, <1>2, <1>4, <1>6, <2>1, <2>2, Disjoint DEF Status, Drops
  <2>4. Status' = [Status EXCEPT ![t] = "lost"]
    BY <2>3, StatusSet
  <2> QED
    BY <1>1, <1>5, <2>2, <2>3, <2>4 DEF Queue!LoseCurrent
<1>7. CASE pc[c] = "sendRow"
  <2>1. c \in Enqueuing /\ Starting = {} /\ Removing = {} /\ active # NoTurn
    BY <1>3, <1>7 DEF Starting, Enqueuing, Removing, CalmInv, StrandInv
  <2>2. Current = active /\ Pending = Append(queue, t)
    BY <1>1, <2>1, MappedHolds DEF Mapped, Sound
  <2>3. Status'[t] = "lost" /\ \A u \in Turns \ {t} : Status'[u] = Status[u]
    BY <1>1, <1>4, <1>5, <2>1, <2>2 DEF Status
  <2>4. Status' = [Status EXCEPT ![t] = "lost"]
    BY <2>3, StatusSet
  <2>5. /\ Pending # <<>> /\ Pending[Len(Pending)] = t
        /\ SubSeq(Pending, 1, Len(Pending) - 1) = queue
    <3>1. queue \in Seq(Turns)
      BY Typed DEF Sound
    <3>2. /\ Pending \in Seq(Turns) /\ Len(Pending) = Len(queue) + 1 /\ Len(queue) \in Nat
          /\ Pending[Len(queue) + 1] = t
          /\ \A i \in 1 .. Len(queue) : Pending[i] = queue[i]
      BY <2>2, <3>1, AppendProperties
    <3>3. /\ SubSeq(Pending, 1, Len(queue)) \in Seq(Turns)
          /\ Len(SubSeq(Pending, 1, Len(queue))) = Len(queue)
          /\ \A i \in 1 .. Len(queue) : SubSeq(Pending, 1, Len(queue))[i] = queue[i]
      BY <3>2, SubSeqProperties
    <3>4. SubSeq(Pending, 1, Len(queue)) = queue
      BY <3>1, <3>3, SeqEqual
    <3> QED
      BY <3>2, <3>4
  <2> QED
    BY <1>1, <1>5, <2>2, <2>4, <2>5 DEF Queue!LoseLast
<1>8. CASE pc[c] = "removed"
  <2>1. c \in Removing /\ Starting = {} /\ Enqueuing = {}
    BY <1>3, <1>8 DEF Starting, Enqueuing, Removing
  <2>2. Current = active /\ Pending = queue
    BY <2>1, MappedHolds DEF Mapped, Sound
  <2>3. /\ Status[t] = "cancelled" /\ Status'[t] = "lost"
        /\ \A u \in Turns \ {t} : Status'[u] = Status[u]
    BY <1>1, <1>2, <1>3, <1>4, <1>5, <2>1, <2>2 DEF Status
  <2>4. Status' = [Status EXCEPT ![t] = "lost"]
    BY <2>3, StatusSet
  <2> QED
    BY <1>1, <1>5, <2>2, <2>3, <2>4 DEF Queue!LoseRecord
<1> QED
  BY <1>6, <1>7, <1>8 DEF Drops, HandPoints

\* Initially there is nothing.
LEMMA InitMaps ==
  ASSUME Init
  PROVE  Queue!Init
<1>1. Starting = {} /\ Enqueuing = {} /\ Removing = {}
  BY Disjoint DEF Init, Starting, Enqueuing, Removing, Users
<1> QED
  BY <1>1 DEF Init, Queue!Init, Current, Pending, Status

\* Every effect is a step of the Queue, or none.
LEMMA EffectMaps ==
  ASSUME Sound, IInv', CalmInv, Effect
  PROVE  [Queue!Next]_(Queue!vars)
<1>1. UNCHANGED QueueVars => UNCHANGED Queue!vars
  BY DEF QueueVars, Queue!vars
<1> SUFFICES ASSUME ~UNCHANGED QueueVars PROVE Queue!Next
  BY <1>1
<1>2. ASSUME NEW t \in Turns, Settles(t, "completed") \/ Settles(t, "terminated") PROVE Queue!Next
  BY <1>2, SettlesEnds DEF Queue!Next
<1>3. ASSUME NEW t \in Turns, LeavesQueue(t) PROVE Queue!Next
  BY <1>3, LeavesQueueSuspends DEF Queue!Next
<1>4. ASSUME NEW t \in Turns, FindsNone(t) \/ TakesFirst(t, Head(queue)) PROVE Queue!Next
  BY <1>4, FindsNoneAdvances, TakesFirstAdvances DEF Queue!Next
<1>5. ASSUME NEW c \in Clients, NEW u \in Turns, Creates(c, u) PROVE Queue!Next
  BY <1>5, CreatesSends DEF Queue!Next
<1>6. ASSUME NEW c \in Clients, Resumes(c, Head(queue)) \/ Reorders(c) PROVE Queue!Next
  BY <1>6, ResumesResumes, ReordersReorders DEF Queue!Next
<1>7. ASSUME NEW c \in Clients, NEW i \in DOMAIN queue, Removes(c, i) PROVE Queue!Next
  <2>1. Pending = queue
    BY <1>7, HandsFree, Disjoint DEF Removes, HandPoints
  <2> QED
    BY <1>7, <2>1, RemovesRemoves DEF Queue!Next
<1>8. ASSUME NEW t \in Turns, Faults(t) PROVE Queue!Next
  BY <1>8, FaultsEnds DEF Queue!Next
<1>9. ASSUME NEW c \in Clients, NEW u \in Turns, Drops(c, u) PROVE Queue!Next
  BY <1>9, DropsLoses DEF Queue!Next
<1> QED
  BY <1>2, <1>3, <1>4, <1>5, <1>6, <1>7, <1>8, <1>9, WaitingStutters, RunningStutters, BeginsStutters,
     ForgetsStutters, LaunchesStutters, QueuesStutters, WithdrawsStutters DEF Effect

\* Whatever the interleaving of requests, stops, failures, worker exits and clients that go
\* away, the Session keeps the promise of TurnQueue: one message at a time, in their order;
\* none lost but by a failure that leaves nobody in charge of it, and then no other with it;
\* none after a Turn that was terminated until the user goes on (service.py send, stop,
\* _run_turn, _advance_queue, queue_resume and the edits of the queue).
THEOREM ImplementsTurnQueueAlways ==
  ASSUME Calm
  PROVE  Spec => ImplementsTurnQueue
<1>1. /\ Sound /\ CalmInv
      /\ (Sound /\ CalmInv)'
      /\ [Next]_vars
      => [Queue!Next]_(Queue!vars)
  <2> SUFFICES ASSUME Sound, CalmInv, Sound', [Next]_vars
               PROVE  [Queue!Next]_(Queue!vars)
    OBVIOUS
  <2>1. IInv'
    BY DEF Sound
  <2>2. Effect
    BY NextMoves
  <2> QED
    BY <2>1, <2>2, EffectMaps
<1>2. Init => Queue!Init
  BY InitMaps
<1> QED
  BY <1>1, <1>2, CalmAlways, PTL DEF Spec, ImplementsTurnQueue, Queue!Spec
=============================================================================
