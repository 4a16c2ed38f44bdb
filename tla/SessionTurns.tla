----------------------------- MODULE SessionTurns -----------------------------
(***************************************************************************)
(* The turn machine of one Session in SessionService                       *)
(* (daemon/sessions/service.py): sending, queueing, running, stopping,     *)
(* terminating and resuming Turns.                                         *)
(*                                                                         *)
(* The daemon is one asyncio loop, so a step of a coroutine is the code    *)
(* from one await to the next.  pc[p] names the await coroutine p is       *)
(* suspended at.  All database calls go through one single-thread          *)
(* executor: a call takes effect, and its result is fixed, in the step     *)
(* that makes it, and callers resume in the order of their calls; so do    *)
(* broadcasts, which share the subscribers' connections (ahead).           *)
(* Consecutive awaits between which no shared state is touched are one     *)
(* await here (LongPoints and the points that are no CallPoints).          *)
(*                                                                         *)
(* A coroutine is the _run_turn task of a Turn, a client request, or one   *)
(* of the three callers that terminate a Turn from outside: the duration   *)
(* watchdog, the step cap on the ACP read loop, the worker crash handler.  *)
(*                                                                         *)
(* Failures covered: of the provider, the agent and the worker; of the     *)
(* preparation of a Turn; a client that disconnects, whose request is      *)
(* cancelled at its await; a crash of the daemon.  Not covered: a database *)
(* call that fails after the preparation, or in a client's request.        *)
(***************************************************************************)
EXTENDS Sequences, FiniteSets, Integers

CONSTANTS
  Turns,        \* the Turns that may be created
  Clients,      \* concurrent RPC requests on the session
  Duration,     \* the _check_run_durations sweep of the budget watchdog
  Steps,        \* the max_steps_per_run check on the ACP read loop
  Crash,        \* _on_worker_crash
  NoTurn,
  Nothing,      \* None for kinds
  Enabled,      \* which of the optional Behaviours an instance has
  MaxAlarms,    \* bound on budget alarms and worker exits
  MaxRestarts   \* bound on daemon crashes

Behaviours ==
  {"stop", "edit", "abandon",           \* client requests: session.stop, queue edits, abandon
   "disconnect",                        \* a client goes away with its request in flight
   "error", "quota",                    \* failures of the provider or agent; one about a quota
   "fault",                             \* failures of _run_turn outside its inner try
   "crash",                             \* the worker exits
   "hang",                              \* the read loop, or a start, outlasts the crash's grace
   "orphans",                           \* descendants of a dead worker delay its report
   "duration", "sweep", "steps",        \* budgets; other sessions in the same sweep
   "restart"}                           \* the daemon dies and starts again

ASSUME ConstantsAssumption ==
  /\ Enabled \subseteq Behaviours
  /\ MaxAlarms \in Nat
  /\ MaxRestarts \in Nat
  /\ Duration # Steps /\ Steps # Crash /\ Crash # Duration
  /\ {Duration, Steps, Crash} \cap (Turns \cup Clients) = {}
  /\ Turns \cap Clients = {}
  /\ NoTurn \notin Turns \cup Clients \cup {Duration, Steps, Crash}
  /\ Nothing \notin {"user", "error", "budget"}

Watchers == {Duration, Steps, Crash}
Coroutines == Turns \cup Watchers \cup Clients
Kinds == {"user", "error", "budget"}
Replies == {"none", "working", "interrupted", "end", "cancelled", "error", "lost"}

VARIABLES
  (* the database *)
  queue,        \* queue_items in state 'pending', by position
  turnStatus,   \* turns.status, "none" before the row exists
  runStatus,    \* runs.status of the Turn's Run
  runKind,      \* runs.terminated_kind
  suspended,    \* sessions.queue_suspended_reason
  (* SessionService *)
  active,       \* _active_turns[session]
  task,         \* _turn_tasks[session]
  lockQ,        \* _session_locks[session]: the holder, then the waiters
  intent,       \* _TurnContext.termination_intent (its kind)
  endedKind,    \* _TurnContext.terminated_kind
  announced,    \* _terminated_broadcast_run_ids
  (* the coroutines *)
  pc,
  ahead,        \* those whose database call, or broadcast, was made before p's and is not over
  arg,          \* the Turn a coroutine is about: a watcher's ctx_turn, a popped item
  seen,         \* runs.status as _terminate_run's guard read it
  hint,         \* the kind _terminate_run was called with, then the one it records
  captured,     \* the task _on_worker_crash looked up
  (* the worker process and the agent in it (external) *)
  worker,       \* "none" | "up": is a worker registered for the session
  reply,        \* what the agent is doing with, or answered to, a Turn's prompt
  sticky,       \* a session/cancel reached the agent while it was idle
  (* history *)
  cutOff,       \* Turns that lost the coroutine in charge of them before it could settle them
  notices,      \* run.terminated notifications sent for a Turn, up to 2
  alarms,
  restarts

db == <<queue, turnStatus, runStatus, runKind, suspended>>
memory == <<active, task, lockQ, intent, endedKind, announced>>
control == <<pc, arg, seen, hint, captured>>
agent == <<worker, reply, sticky>>
history == <<cutOff, notices, alarms, restarts>>
vars == <<db, memory, control, ahead, agent, history>>

-------------------------------------------------------------------------------
(* State formulae *)

TerminatePoints == {"getRun", "lastStep", "suspend", "mark", "announce", "reread", "reannounce"}

\* Awaits inside the try of _run_turn: an exception here runs the finally.
BodyPoints ==
  {"createRun", "unsuspend", "prepare", "ensure", "prompt", "finalize", "complete"}
    \cup TerminatePoints

TurnPoints == BodyPoints \cup {"idle", "created", "lock", "pop", "done"}
WatcherPoints ==
  TerminatePoints \cup {"idle", "sweep", "cancelSent", "reap", "grace", "checkRun", "flush"}
ClientPoints ==
  {"idle", "sendLock", "sendRow", "sendGate", "enqueue", "resumeLock", "resumePop",
   "removeLock", "removed", "reorderLock", "abandonLock", "abandonTake", "abandonTurn",
   "abandonList", "finish"}

\* Waiting for the session lock; an await inside it.
WaitPoints == {"lock", "sendLock", "resumeLock", "removeLock", "reorderLock", "abandonLock"}
CriticalPoints ==
  {"pop", "sendRow", "sendGate", "enqueue", "resumePop", "removed", "abandonTake",
   "abandonTurn", "finish"}

\* Awaits with a message in hand: taken from the queue, or not yet in it.
HandPoints == {"sendRow", "sendGate", "pop", "resumePop", "removed"}

\* The awaits of one database call, of several of which the first is a database call,
\* and of one broadcast.
CallPoints ==
  {"createRun", "unsuspend", "complete", "getRun", "lastStep", "suspend", "mark", "reread",
   "pop", "checkRun", "sendRow", "resumePop", "removed", "abandonTake", "abandonTurn",
   "abandonList", "finish"}
LongPoints == {"sendGate", "enqueue"}
CastPoints == {"announce", "reannounce"}

\* The awaits that are over before one that began later.
Before(label) == CASE label \in CallPoints \cup LongPoints -> CallPoints
                   [] label \in CastPoints -> CastPoints
                   [] OTHER -> {}

\* asyncio.Task.done() of _turn_tasks[session]; NoTurn stands for no entry.
TaskDone(t) == t # NoTurn => pc[t] = "done"

\* The test send, queue_resume and delete_guard make under the session lock.
Running == active # NoTurn \/ ~TaskDone(task)

\* Mutant of Holds: the lock excludes nobody, as if each caller locked its own.
AsksFor(p) == \E i \in DOMAIN lockQ : lockQ[i] = p

Holds(p) == lockQ # <<>> /\ Head(lockQ) = p

\* The Turn a call of _terminate_run is about.
CtxTurn(p) == IF p \in Turns THEN p ELSE arg[p]

AgentBusy == \E t \in Turns : reply[t] \in {"working", "interrupted"}

\* max_run_duration_s is longer than the lookups before the worker is started.
MayBeOverdue(t) == pc[t] \notin {"created", "createRun", "unsuspend", "prepare"}

Fresh == {t \in Turns : turnStatus[t] = "none"}

-------------------------------------------------------------------------------
Init ==
  /\ queue = <<>>
  /\ turnStatus = [t \in Turns |-> "none"]
  /\ runStatus = [t \in Turns |-> "none"]
  /\ runKind = [t \in Turns |-> Nothing]
  /\ suspended = Nothing
  /\ active = NoTurn
  /\ task = NoTurn
  /\ lockQ = <<>>
  /\ intent = [t \in Turns |-> Nothing]
  /\ endedKind = [t \in Turns |-> Nothing]
  /\ announced = {}
  /\ pc = [p \in Coroutines |-> "idle"]
  /\ ahead = [p \in Coroutines |-> {}]
  /\ arg = [p \in Coroutines |-> NoTurn]
  /\ seen = [p \in Coroutines |-> "none"]
  /\ hint = [p \in Coroutines |-> Nothing]
  /\ captured = NoTurn
  /\ worker = "none"
  /\ reply = [t \in Turns |-> "none"]
  /\ sticky = FALSE
  /\ cutOff = {}
  /\ notices = [t \in Turns |-> 0]
  /\ alarms = 0
  /\ restarts = 0

-------------------------------------------------------------------------------
(* Steps shared by several coroutines *)

Goto(p, label) == pc' = [pc EXCEPT ![p] = label]

\* p leaves the await it was suspended at.  A coroutine it cancels waits no more.
MovesOn(p) ==
  ahead' = [q \in Coroutines |->
              {r \in (IF q = p THEN Coroutines ELSE ahead[q]) \ {p} :
                 pc'[r] \in Before(pc'[q])}]

\* A step of coroutine p, up to its next await: what it awaited is over, so is what was
\* called before it.
Step(p, action) == ahead[p] = {} /\ action /\ MovesOn(p)

\* Mutant of Without: a cancelled waiter keeps its place.
WithoutNothing(q, i) == q

\* q without its i-th element
Without(q, i) == [j \in 1 .. Len(q) - 1 |-> IF j < i THEN q[j] ELSE q[j + 1]]

\* async with self._lock: take a place in the FIFO of the lock.
WaitForLock(p, label) == Goto(p, label) /\ lockQ' = Append(lockQ, p)
\* async with self._lock: leave it.
Release == lockQ' = Tail(lockQ)

\* Mutant of StartTurn: the done callback of the task that starts its successor drops
\* whatever is registered.
StartTurnUnregistered(p, label, t) ==
  /\ active' = t
  /\ task' = IF p \in Turns THEN NoTurn ELSE t
  /\ pc' = [pc EXCEPT ![p] = label, ![t] = "created"]

\* _start_turn: one synchronous block registers the context and the task.
StartTurn(p, label, t) ==
  /\ active' = t
  /\ task' = t
  /\ pc' = [pc EXCEPT ![p] = label, ![t] = "created"]

\* The done callback of _start_turn, and _advance_queue, forget only their own task.
ForgetTask(t) == task' = IF task = t THEN NoTurn ELSE task

\* session/cancel: it interrupts the prompt in progress; an idle agent keeps it for the next.
NotifyCancel ==
  \/ worker = "up" /\ AgentBusy
       /\ reply' = [t \in Turns |-> IF reply[t] = "working" THEN "interrupted" ELSE reply[t]]
       /\ UNCHANGED sticky
  \/ worker = "up" /\ ~AgentBusy /\ sticky' = TRUE /\ UNCHANGED reply
  \/ worker = "none" /\ UNCHANGED <<reply, sticky>>

\* The Turns t1, ... that nobody will settle.
CutOff(turns) == cutOff' = cutOff \cup turns

\* task.cancel(): CancelledError is raised at the await task t is suspended at.  The caller
\* has terminated the Turn arg[p]; task t may be another one's.
CancelTask(p, t) ==
  \/ /\ TaskDone(t)
     /\ Goto(p, "idle")
     /\ UNCHANGED <<lockQ, task, queue, cutOff>>
  \/ \* not yet run: the body, and its finally, never execute
     /\ t # NoTurn /\ pc[t] = "created"
     /\ pc' = [pc EXCEPT ![p] = "idle", ![t] = "done"]
     /\ ForgetTask(t)
     /\ CutOff({t} \ {arg[p]})
     /\ UNCHANGED <<lockQ, queue>>
  \/ \* in the try: on to the finally, which calls _advance_queue
     /\ t # NoTurn /\ pc[t] \in BodyPoints
     /\ pc' = [pc EXCEPT ![p] = "idle", ![t] = "lock"]
     /\ lockQ' = Append(lockQ, t)
     /\ CutOff({t} \ {arg[p]})
     /\ UNCHANGED <<task, queue>>
  \/ \* waiting for the lock in _advance_queue; a free lock is taken without an await
     /\ t # NoTurn /\ pc[t] = "lock" /\ ~Holds(t)
     /\ pc' = [pc EXCEPT ![p] = "idle", ![t] = "done"]
     /\ \E i \in DOMAIN lockQ : lockQ[i] = t /\ lockQ' = Without(lockQ, i)
     /\ ForgetTask(t)
     /\ UNCHANGED <<queue, cutOff>>
  \/ \* in pop_next_queue_item: the executor may have run it or not
     /\ t # NoTurn /\ pc[t] = "pop"
     /\ pc' = [pc EXCEPT ![p] = "idle", ![t] = "done"]
     /\ Release
     /\ ForgetTask(t)
     /\ \/ UNCHANGED queue /\ CutOff({arg[t]} \ {NoTurn})
        \/ arg[t] # NoTurn /\ queue' = <<arg[t]>> \o queue /\ UNCHANGED cutOff

-------------------------------------------------------------------------------
(* _terminate_run *)

\* The call: up to the await of get_run, whose result is kept.
EnterTerminate(p, kind) ==
  /\ Goto(p, "getRun")
  /\ seen' = [seen EXCEPT ![p] = runStatus[CtxTurn(p)]]
  /\ hint' = [hint EXCEPT ![p] = kind]

\* Back in the caller: _run_turn reaches its finally, the watchers cancel the task.
LeaveTerminate(p) ==
  /\ seen' = [seen EXCEPT ![p] = "none"]
  /\ hint' = [hint EXCEPT ![p] = Nothing]
  /\ \/ p \in Turns /\ WaitForLock(p, "lock") /\ UNCHANGED <<task, queue, arg, captured, cutOff>>
     \/ p \in {Duration, Steps} /\ CancelTask(p, task)
          /\ arg' = [arg EXCEPT ![p] = NoTurn] /\ UNCHANGED captured
     \/ p = Crash /\ CancelTask(p, captured)
          /\ arg' = [arg EXCEPT ![p] = NoTurn] /\ captured' = NoTurn

\* Mutant of Claim: the suspension is not persisted.
ClaimUnsuspended(p, t, kind) ==
  /\ endedKind' = [endedKind EXCEPT ![t] = kind]
  /\ hint' = [hint EXCEPT ![p] = kind]
  /\ Goto(p, "suspend")
  /\ UNCHANGED suspended

\* ctx_turn.terminated_kind := kind, then the await of set_queue_suspended_reason.
Claim(p, t, kind) ==
  /\ endedKind' = [endedKind EXCEPT ![t] = kind]
  /\ suspended' = kind
  /\ hint' = [hint EXCEPT ![p] = kind]
  /\ Goto(p, "suspend")

\* broadcast of run.terminated
Notify(t) == notices' = [notices EXCEPT ![t] = IF @ = 2 THEN 2 ELSE @ + 1]

\* Mutant of AlreadyEnded: any row counts.
RunExists(status) == status # "none"

\* The Run that get_run returned is no longer running.
AlreadyEnded(status) == status \in {"completed", "terminated"}

\* A write that landed without the broadcast of its author.
Untold(status, t) == status = "terminated" /\ t \notin announced

\* The idempotency guard, and the choice of the kind to record.
TerminateGuard(p) ==
  LET t == CtxTurn(p) IN
  /\ pc[p] = "getRun"
  /\ \/ /\ ~AlreadyEnded(seen[p])
        /\ seen' = [seen EXCEPT ![p] = "none"]
        /\ \/ intent[t] # Nothing /\ Claim(p, t, intent[t])
           \/ intent[t] = Nothing /\ hint[p] = "user" /\ Claim(p, t, "user")
           \/ /\ intent[t] = Nothing /\ hint[p] # "user"
              /\ Goto(p, "lastStep") /\ UNCHANGED <<endedKind, suspended, hint>>
        /\ UNCHANGED <<notices, lockQ, task, queue, arg, captured, cutOff>>
     \/ /\ AlreadyEnded(seen[p]) /\ Untold(seen[p], t)
        /\ \/ runKind[t] = "user" /\ Goto(p, "reannounce") /\ Notify(t)
           \/ runKind[t] # "user" /\ Goto(p, "reread") /\ UNCHANGED notices
        /\ UNCHANGED <<endedKind, suspended, lockQ, task, queue, arg, seen, hint, captured, cutOff>>
     \/ /\ AlreadyEnded(seen[p]) /\ ~Untold(seen[p], t)
        /\ LeaveTerminate(p)
        /\ UNCHANGED <<endedKind, suspended, notices>>
  /\ UNCHANGED <<turnStatus, runStatus, runKind, active, intent, announced, agent,
                 alarms, restarts>>

\* terminated_kind_for: the text of an error may be about a quota, which is a budget.
Classified(kind) == IF kind = "error" /\ "quota" \in Enabled THEN {"error", "budget"} ELSE {kind}

\* _last_step_for_run has answered: classify and claim.
TerminateClassify(p) ==
  /\ pc[p] = "lastStep"
  /\ \E kind \in Classified(hint[p]) : Claim(p, CtxTurn(p), kind)
  /\ UNCHANGED <<queue, turnStatus, runStatus, runKind, active, task, lockQ, intent, announced,
                 arg, seen, captured, agent, history>>

\* mark_run_terminated: an UPDATE without a condition on the status.
TerminateMark(p) ==
  LET t == CtxTurn(p) IN
  /\ pc[p] = "suspend"
  /\ Goto(p, "mark")
  /\ turnStatus' = [turnStatus EXCEPT ![t] = "terminated"]
  /\ runStatus' = [runStatus EXCEPT ![t] = IF @ = "none" THEN @ ELSE "terminated"]
  /\ runKind' = [runKind EXCEPT ![t] = IF runStatus[t] = "none" THEN @ ELSE hint[p]]
  /\ UNCHANGED <<queue, suspended, memory, arg, seen, hint, captured, agent, history>>

\* Mutant of TerminateAnnounce: only the end of the active Turn is broadcast.
TerminateAnnounceActive(p) ==
  /\ \/ pc[p] = "mark" /\ Goto(p, "announce")
     \/ pc[p] = "reread" /\ Goto(p, "reannounce")
  /\ IF active = CtxTurn(p) THEN Notify(CtxTurn(p)) ELSE UNCHANGED notices
  /\ UNCHANGED <<db, memory, arg, seen, hint, captured, agent, cutOff,
                 alarms, restarts>>

\* The broadcast of the write, or of a write whose author never announced it.
TerminateAnnounce(p) ==
  /\ \/ pc[p] = "mark" /\ Goto(p, "announce")
     \/ pc[p] = "reread" /\ Goto(p, "reannounce")
  /\ Notify(CtxTurn(p))
  /\ UNCHANGED <<db, memory, arg, seen, hint, captured, agent, cutOff,
                 alarms, restarts>>

TerminateReturn(p) ==
  /\ pc[p] \in {"announce", "reannounce"}
  /\ announced' = announced \cup {CtxTurn(p)}
  /\ LeaveTerminate(p)
  /\ UNCHANGED <<turnStatus, runStatus, runKind, suspended, active, intent, endedKind, agent,
                 notices, alarms, restarts>>

-------------------------------------------------------------------------------
(* _run_turn: the task of Turn t *)

\* mark_turn_started, then the await of create_run.
TurnBegins(t) ==
  /\ pc[t] = "created"
  /\ Goto(t, "createRun")
  /\ runStatus' = [runStatus EXCEPT ![t] = "running"]
  /\ turnStatus' = [turnStatus EXCEPT ![t] = "running"]
  /\ UNCHANGED <<queue, runKind, suspended, memory, arg, seen, hint, captured, agent, history>>

\* set_queue_suspended_reason(None): a running Turn means the queue is not suspended.
TurnUnsuspends(t) ==
  /\ pc[t] = "createRun"
  /\ Goto(t, "unsuspend")
  /\ suspended' = Nothing
  /\ UNCHANGED <<queue, turnStatus, runStatus, runKind, memory, arg, seen, hint, captured,
                 agent, history>>

\* Snapshot, turn.started, settings, model, provider and MCP lookups, one await here.
TurnPrepares(t) ==
  /\ pc[t] = "unsuspend"
  /\ Goto(t, "prepare")
  /\ UNCHANGED <<db, memory, arg, seen, hint, captured, agent, history>>

\* The provider lookup failed, or any other exception of the preparation in the inner try.
PrepareFails(t) ==
  /\ "error" \in Enabled
  /\ pc[t] = "prepare"
  /\ EnterTerminate(t, "error")
  /\ UNCHANGED <<db, memory, arg, captured, agent, history>>

\* create_run raised, in the outer try, which has no except: on to the finally.
CreateRunFails(t) ==
  /\ "fault" \in Enabled
  /\ pc[t] = "created"
  /\ WaitForLock(t, "lock")
  /\ CutOff({t})
  /\ UNCHANGED <<db, active, task, intent, endedKind, announced, arg, seen, hint, captured,
                 agent, notices, alarms, restarts>>

\* The same for what follows create_run, up to the inner try.
PreludeFails(t) ==
  /\ "fault" \in Enabled
  /\ pc[t] \in {"createRun", "unsuspend", "prepare"}
  /\ WaitForLock(t, "lock")
  /\ CutOff({t})
  /\ UNCHANGED <<db, active, task, intent, endedKind, announced, arg, seen, hint, captured,
                 agent, notices, alarms, restarts>>

TurnEnsuresWorker(t) ==
  /\ pc[t] = "prepare"
  /\ Goto(t, "ensure")
  /\ UNCHANGED <<db, memory, arg, seen, hint, captured, agent, history>>

\* WorkerStartupError
EnsureFails(t) ==
  /\ "error" \in Enabled
  /\ pc[t] = "ensure"
  /\ EnterTerminate(t, "error")
  /\ UNCHANGED <<db, memory, arg, captured, agent, history>>

\* ensure_started returned: a pinned intent is honoured before the agent is ever prompted.
TurnPrompts(t) ==
  /\ pc[t] = "ensure"
  /\ worker' = "up"
  /\ \/ /\ intent[t] # Nothing
        /\ EnterTerminate(t, intent[t])
        /\ UNCHANGED <<reply, sticky>>
     \/ /\ intent[t] = Nothing
        /\ Goto(t, "prompt")
        /\ IF sticky
             THEN /\ reply' = [reply EXCEPT ![t] = "end"]
                  /\ sticky' = FALSE
             ELSE /\ reply' = [reply EXCEPT ![t] = "working"]
                  /\ UNCHANGED sticky
        /\ UNCHANGED <<seen, hint>>
  /\ UNCHANGED <<db, memory, arg, captured, history>>

\* Mutant of KindOfReply: the stop reason is recorded as the kind.
StopReasonAsKind(r) == IF r = "end" THEN Nothing ELSE r

\* The kind _run_turn terminates the Run with, Nothing for a normal end.
KindOfReply(r) == CASE r = "end" -> Nothing [] r = "cancelled" -> "user" [] r = "error" -> "error"

\* The answer, or AcpError, reached the prompt() await; streamed messages are finalized first.
PromptReturns(t) ==
  /\ pc[t] = "prompt"
  /\ reply[t] \in {"end", "cancelled", "error"}
  /\ Goto(t, "finalize")
  /\ hint' = [hint EXCEPT ![t] = KindOfReply(reply[t])]
  /\ reply' = [reply EXCEPT ![t] = "none"]
  /\ UNCHANGED <<db, memory, arg, seen, captured, worker, sticky, history>>

\* _finalize_turn_success, or the error branch of _run_turn.
FinalizeReturns(t) ==
  /\ pc[t] = "finalize"
  /\ \/ /\ hint[t] # Nothing
        /\ EnterTerminate(t, hint[t])
        /\ UNCHANGED <<runStatus, turnStatus>>
     \/ /\ hint[t] = Nothing
        /\ Goto(t, "complete")
        /\ runStatus' = [runStatus EXCEPT ![t] = "completed"]
        /\ turnStatus' = [turnStatus EXCEPT ![t] = "completed"]
        /\ UNCHANGED <<seen, hint>>
  /\ UNCHANGED <<queue, runKind, suspended, memory, arg, captured, agent, history>>

\* Persisting or announcing the streamed messages raised: the catch-all of _run_turn.
FinalizeFails(t) ==
  /\ "error" \in Enabled
  /\ pc[t] = "finalize"
  /\ EnterTerminate(t, "error")
  /\ UNCHANGED <<db, memory, arg, captured, agent, history>>

\* mark_run_completed is done: the finally of _run_turn.
TurnCompleted(t) ==
  /\ pc[t] = "complete"
  /\ WaitForLock(t, "lock")
  /\ UNCHANGED <<db, active, task, intent, endedKind, announced, arg, seen, hint, captured,
                 agent, history>>

\* Mutant of GoesOn: only a stop by the user suspends the queue.
GoesOnUnlessUser == active = NoTurn \/ endedKind[active] # "user"

\* The finished Turn was not terminated: the queue advances.
GoesOn == active = NoTurn \/ endedKind[active] = Nothing

\* _active_turns.pop(session_id, None)
PopActive == active' = NoTurn

\* _advance_queue with the lock: forget the Turn; go on only if it was not terminated.
AdvanceTakesLock(t) ==
  /\ pc[t] = "lock" /\ Holds(t)
  /\ PopActive
  /\ \/ /\ ~GoesOn
        /\ ForgetTask(t)
        /\ Release
        /\ Goto(t, "done")
        /\ UNCHANGED <<queue, arg>>
     \/ /\ GoesOn
        /\ Goto(t, "pop")
        /\ IF queue = <<>>
             THEN UNCHANGED <<queue, arg>>
             ELSE arg' = [arg EXCEPT ![t] = Head(queue)] /\ queue' = Tail(queue)
        /\ UNCHANGED <<task, lockQ>>
  /\ UNCHANGED <<turnStatus, runStatus, runKind, suspended, intent, endedKind, announced,
                 seen, hint, captured, agent, history>>

\* pop_next_queue_item has answered: start the item, or forget the task.
AdvancePopped(t) ==
  /\ pc[t] = "pop"
  /\ Release
  /\ arg' = [arg EXCEPT ![t] = NoTurn]
  /\ \/ /\ arg[t] # NoTurn
        /\ StartTurn(t, "done", arg[t])
     \/ /\ arg[t] = NoTurn
        /\ ForgetTask(t)
        /\ Goto(t, "done")
        /\ UNCHANGED active
  /\ UNCHANGED <<db, intent, endedKind, announced, seen, hint, captured, agent, history>>

RunTurn(t) ==
  \/ TurnBegins(t) \/ TurnUnsuspends(t) \/ TurnPrepares(t)
  \/ CreateRunFails(t) \/ PreludeFails(t) \/ PrepareFails(t)
  \/ TurnEnsuresWorker(t) \/ EnsureFails(t) \/ TurnPrompts(t) \/ PromptReturns(t)
  \/ FinalizeReturns(t) \/ FinalizeFails(t) \/ TurnCompleted(t)
  \/ AdvanceTakesLock(t) \/ AdvancePopped(t)

Terminate(p) ==
  \/ TerminateGuard(p) \/ TerminateClassify(p) \/ TerminateMark(p)
  \/ TerminateAnnounce(p) \/ TerminateReturn(p)

-------------------------------------------------------------------------------
(* The watchers *)

Alarm ==
  /\ alarms < MaxAlarms
  /\ alarms' = alarms + 1
  /\ UNCHANGED <<cutOff, notices, restarts>>

\* _terminate_run_for_exceeded_budget: pin the intent, cancel the prompt, terminate.
ExceedBudget(p, t) ==
  /\ intent' = [intent EXCEPT ![t] = "budget"]
  /\ arg' = [arg EXCEPT ![p] = t]
  /\ NotifyCancel
  /\ \/ worker = "up" /\ Goto(p, "cancelSent") /\ UNCHANGED <<seen, hint>>
     \/ /\ worker = "none"
        /\ Goto(p, "getRun")
        /\ seen' = [seen EXCEPT ![p] = runStatus[t]]
        /\ hint' = [hint EXCEPT ![p] = "budget"]
  /\ UNCHANGED <<db, active, task, lockQ, endedKind, announced, captured, worker>>

\* _check_run_durations: the list of active Turns, taken before the sweep awaits anything.
SweepBegins ==
  /\ "duration" \in Enabled
  /\ pc[Duration] = "idle" /\ active # NoTurn
  /\ MayBeOverdue(active)
  /\ Alarm
  /\ Goto(Duration, "sweep")
  /\ arg' = [arg EXCEPT ![Duration] = active]
  /\ UNCHANGED <<db, memory, seen, hint, captured, agent>>

\* The sweep reaches this session's entry; only other sessions' terminations await before it.
DurationExceeded ==
  /\ pc[Duration] = "sweep"
  /\ "sweep" \in Enabled \/ active = arg[Duration]
  /\ ExceedBudget(Duration, arg[Duration])
  /\ UNCHANGED history

\* A tool call of the active Turn's prompt is past max_steps_per_run; runs on the read loop.
StepCapExceeded ==
  /\ "steps" \in Enabled
  /\ pc[Steps] = "idle" /\ active # NoTurn
  /\ reply[active] \in {"working", "interrupted"}
  /\ Alarm
  /\ ExceedBudget(Steps, active)

CancelDelivered(p) ==
  /\ pc[p] = "cancelSent"
  /\ EnterTerminate(p, "budget")
  /\ UNCHANGED <<db, memory, arg, captured, agent, history>>

\* _on_worker_crash, up to its first await: pin the crash on the Turn that is active now.
BlamesActive ==
  \/ active = NoTurn /\ Goto(Crash, "idle") /\ UNCHANGED <<intent, arg>>
  \/ /\ active # NoTurn
     /\ intent' = [intent EXCEPT ![active] = "error"]
     /\ arg' = [arg EXCEPT ![Crash] = active]
     /\ Goto(Crash, "grace")

\* The process exits: _watch_exit drops the worker; it calls _on_worker_crash at once, or
\* after it has ended what is left of the process group.
WorkerExits ==
  /\ "crash" \in Enabled
  /\ worker = "up" /\ pc[Crash] = "idle"
  /\ Alarm
  /\ worker' = "none" /\ sticky' = FALSE
  /\ reply' = [t \in Turns |-> CASE reply[t] \in {"working", "interrupted"} /\ pc[t] = "prompt"
                                      -> "lost"
                                 [] reply[t] \in {"working", "interrupted"} /\ pc[t] # "prompt"
                                      -> "none"
                                 [] OTHER -> reply[t]]
  /\ \/ BlamesActive
     \/ "orphans" \in Enabled /\ Goto(Crash, "reap") /\ UNCHANGED <<intent, arg>>
  /\ UNCHANGED <<db, active, task, lockQ, endedKind, announced, seen, hint, captured>>

\* _reap_process_group is done.
GroupReaped ==
  /\ pc[Crash] = "reap"
  /\ BlamesActive
  /\ UNCHANGED <<db, active, task, lockQ, endedKind, announced, seen, hint, captured, agent,
                 history>>

\* A poll of the grace period finds another Turn, or none, in _active_turns.
GraceSeesEnd ==
  /\ pc[Crash] = "grace" /\ active # arg[Crash]
  /\ Goto(Crash, "idle")
  /\ arg' = [arg EXCEPT ![Crash] = NoTurn]
  /\ UNCHANGED <<db, memory, seen, hint, captured, agent, history>>

\* The Turn has a worker of its own, as it may when the report of the old one's exit was late.
Replaced(t) == "orphans" \in Enabled /\ pc[t] \in {"ensure", "prompt"} /\ reply[t] # "lost"

\* _WORKER_CRASH_GRACE_S is over and the Turn is still active: read its Run.  The loop has
\* started a task created before the crash by then.
GraceExpires ==
  /\ pc[Crash] = "grace" /\ active = arg[Crash]
  /\ "hang" \in Enabled \/ Replaced(active)
  /\ pc[active] # "created"
  /\ Goto(Crash, "checkRun")
  /\ seen' = [seen EXCEPT ![Crash] = runStatus[arg[Crash]]]
  /\ UNCHANGED <<db, memory, arg, hint, captured, agent, history>>

\* Look the task up at once, then finalize the streamed messages.
CrashChecksRun ==
  /\ pc[Crash] = "checkRun"
  /\ \/ /\ ~AlreadyEnded(seen[Crash])
        /\ captured' = task
        /\ Goto(Crash, "flush")
        /\ UNCHANGED <<arg, seen>>
     \/ /\ AlreadyEnded(seen[Crash])
        /\ Goto(Crash, "idle")
        /\ arg' = [arg EXCEPT ![Crash] = NoTurn]
        /\ seen' = [seen EXCEPT ![Crash] = "none"]
        /\ UNCHANGED captured
  /\ UNCHANGED <<db, memory, hint, agent, history>>

CrashFinalized ==
  /\ pc[Crash] = "flush"
  /\ EnterTerminate(Crash, "error")
  /\ UNCHANGED <<db, memory, arg, captured, agent, history>>

WatchDuration == SweepBegins \/ DurationExceeded \/ CancelDelivered(Duration)
WatchSteps == StepCapExceeded \/ CancelDelivered(Steps)
WatchWorker ==
  \/ WorkerExits \/ GroupReaped \/ GraceSeesEnd \/ GraceExpires \/ CrashChecksRun
  \/ CrashFinalized

-------------------------------------------------------------------------------
(* The agent behind the worker (external) *)

\* The answer to a prompt; the read loop delivers nothing while it runs the step cap.
AgentAnswers(t) ==
  /\ pc[Steps] = "idle"
  /\ \/ reply[t] = "working" /\ \E r \in {"end"} \cup ({"error"} \cap Enabled) :
          reply' = [reply EXCEPT ![t] = r]
     \/ reply[t] = "interrupted" /\ \E r \in {"cancelled", "end"} \cup ({"error"} \cap Enabled) :
          reply' = [reply EXCEPT ![t] = r]
  /\ UNCHANGED <<db, memory, control, worker, sticky, history>>

\* The read loop meets the end of a dead worker's output and fails the pending prompt().
ReadLoopEnds(t) ==
  /\ pc[Steps] = "idle"
  /\ reply[t] = "lost"
  /\ reply' = [reply EXCEPT ![t] = "error"]
  /\ UNCHANGED <<db, memory, control, worker, sticky, history>>

-------------------------------------------------------------------------------
(* Client requests *)

Idle(c) == pc[c] = "idle"

\* send has read the session and asks for the lock; it will create one Turn.
SendRequested(c) ==
  /\ Idle(c)
  /\ Cardinality(Fresh) > Cardinality({d \in Clients : pc[d] = "sendLock"})
  /\ WaitForLock(c, "sendLock")
  /\ UNCHANGED <<db, active, task, intent, endedKind, announced, arg, seen, hint, captured,
                 agent, history>>

\* create_turn_and_user_message: 'queued' behind a running Turn, else 'running' at once.
SendTakesLock(c) ==
  /\ pc[c] = "sendLock" /\ Holds(c)
  /\ \E t \in Fresh :
       /\ arg' = [arg EXCEPT ![c] = t]
       /\ turnStatus' = [turnStatus EXCEPT ![t] = IF Running THEN "queued" ELSE "running"]
  /\ Goto(c, IF Running THEN "sendRow" ELSE "sendGate")
  /\ UNCHANGED <<queue, runStatus, runKind, suspended, memory, seen, hint, captured,
                 agent, history>>

SendEnqueues(c) ==
  /\ pc[c] = "sendRow"
  /\ queue' = Append(queue, arg[c])
  /\ Goto(c, "enqueue")
  /\ UNCHANGED <<turnStatus, runStatus, runKind, suspended, memory, arg, seen, hint, captured,
                 agent, history>>

\* The queue is listed and broadcast; send returns.
SendQueued(c) ==
  /\ pc[c] = "enqueue"
  /\ Release
  /\ Goto(c, "idle")
  /\ arg' = [arg EXCEPT ![c] = NoTurn]
  /\ UNCHANGED <<db, active, task, intent, endedKind, announced, seen, hint, captured,
                 agent, history>>

\* The gate configuration is written; the Turn starts and send returns.
SendStarts(c) ==
  /\ pc[c] = "sendGate"
  /\ StartTurn(c, "idle", arg[c])
  /\ Release
  /\ arg' = [arg EXCEPT ![c] = NoTurn]
  /\ UNCHANGED <<db, intent, endedKind, announced, seen, hint, captured, agent, history>>

\* stop, up to its last await: pin the intent on the active Turn, then session/cancel.
StopRequested(c) ==
  /\ "stop" \in Enabled
  /\ Idle(c) /\ ~TaskDone(task)
  /\ IF active = NoTurn
       THEN UNCHANGED intent
       ELSE intent' = [intent EXCEPT ![active] = "user"]
  /\ NotifyCancel
  /\ UNCHANGED <<db, active, task, lockQ, endedKind, announced, control, worker, history>>

ResumeRequested(c) ==
  /\ Idle(c)
  /\ WaitForLock(c, "resumeLock")
  /\ UNCHANGED <<db, active, task, intent, endedKind, announced, arg, seen, hint, captured,
                 agent, history>>

\* INVALID_STATE while a Turn runs, else the first pending item is popped, if any.
ResumeTakesLock(c) ==
  /\ pc[c] = "resumeLock" /\ Holds(c)
  /\ \/ /\ Running
        /\ Goto(c, "idle") /\ Release
        /\ UNCHANGED <<queue, arg>>
     \/ /\ ~Running /\ queue = <<>>
        /\ Goto(c, "finish")
        /\ UNCHANGED <<queue, arg, lockQ>>
     \/ /\ ~Running /\ queue # <<>>
        /\ Goto(c, "resumePop")
        /\ arg' = [arg EXCEPT ![c] = Head(queue)]
        /\ queue' = Tail(queue)
        /\ UNCHANGED lockQ
  /\ UNCHANGED <<turnStatus, runStatus, runKind, suspended, active, task, intent, endedKind,
                 announced, seen, hint, captured, agent, history>>

\* _start_turn, then set_queue_suspended_reason(None) still under the lock.
ResumeStarts(c) ==
  /\ pc[c] = "resumePop"
  /\ StartTurn(c, "finish", arg[c])
  /\ suspended' = Nothing
  /\ arg' = [arg EXCEPT ![c] = NoTurn]
  /\ UNCHANGED <<queue, turnStatus, runStatus, runKind, lockQ, intent, endedKind, announced,
                 seen, hint, captured, agent, history>>

\* The last database call under the lock has answered: release it and return, or raise.
\* The list and the broadcast that follow touch nothing.
Finishes(c) ==
  /\ pc[c] = "finish"
  /\ Release
  /\ Goto(c, "idle")
  /\ UNCHANGED <<db, active, task, intent, endedKind, announced, arg, seen, hint, captured,
                 agent, history>>

\* retry(action="retry") re-sends the text of a Turn it found 'terminated'.
RetryRequested(c) ==
  /\ \E t \in Turns : turnStatus[t] = "terminated"
  /\ SendRequested(c)

RemoveRequested(c) ==
  /\ "edit" \in Enabled
  /\ Idle(c)
  /\ WaitForLock(c, "removeLock")
  /\ UNCHANGED <<db, active, task, intent, endedKind, announced, arg, seen, hint, captured,
                 agent, history>>

\* remove_queue_item: NOT_FOUND unless the item is still pending.
RemoveTakesLock(c) ==
  /\ pc[c] = "removeLock" /\ Holds(c)
  /\ \/ Goto(c, "finish") /\ UNCHANGED <<queue, arg>>
     \/ \E i \in DOMAIN queue :
          /\ queue' = Without(queue, i)
          /\ arg' = [arg EXCEPT ![c] = queue[i]]
          /\ Goto(c, "removed")
  /\ UNCHANGED <<turnStatus, runStatus, runKind, suspended, memory, seen, hint, captured,
                 agent, history>>

RemoveCancels(c) ==
  /\ pc[c] = "removed"
  /\ turnStatus' = [turnStatus EXCEPT ![arg[c]] = "cancelled"]
  /\ Goto(c, "finish")
  /\ arg' = [arg EXCEPT ![c] = NoTurn]
  /\ UNCHANGED <<queue, runStatus, runKind, suspended, memory, seen, hint, captured,
                 agent, history>>

ReorderRequested(c) ==
  /\ "edit" \in Enabled
  /\ Idle(c)
  /\ WaitForLock(c, "reorderLock")
  /\ UNCHANGED <<db, active, task, intent, endedKind, announced, arg, seen, hint, captured,
                 agent, history>>

\* Mutant of Reorderings: an item the client does not name is dropped.
ReorderingsOfSome(q) ==
  UNION {[1 .. n -> {q[i] : i \in DOMAIN q}] : n \in {0, Len(q)}}

\* The positions are renumbered by the ids the client sent: the same items in some order.
Reorderings(q) ==
  LET items == {q[i] : i \in DOMAIN q}
  IN {r \in [DOMAIN q -> items] : {r[i] : i \in DOMAIN r} = items}

ReorderTakesLock(c) ==
  /\ pc[c] = "reorderLock" /\ Holds(c)
  /\ queue' \in Reorderings(queue)
  /\ Goto(c, "finish")
  /\ UNCHANGED <<turnStatus, runStatus, runKind, suspended, memory, arg, seen, hint,
                 captured, agent, history>>

\* retry(action="abandon"), once _fetch_turn found the Turn 'terminated'.
AbandonRequested(c) ==
  /\ "abandon" \in Enabled
  /\ Idle(c)
  /\ \E t \in Turns : turnStatus[t] = "terminated" /\ arg' = [arg EXCEPT ![c] = t]
  /\ WaitForLock(c, "abandonLock")
  /\ UNCHANGED <<db, active, task, intent, endedKind, announced, seen, hint, captured,
                 agent, history>>

\* list_queue_items, under the lock.
AbandonTakesLock(c) ==
  /\ pc[c] = "abandonLock" /\ Holds(c)
  /\ Goto(c, "abandonTake")
  /\ UNCHANGED <<db, memory, arg, seen, hint, captured, agent, history>>

\* Remove and cancel every pending item, then cancel the Turn itself.
AbandonClears(c) ==
  /\ pc[c] = "abandonTake"
  /\ \/ /\ queue # <<>>
        /\ queue' = Tail(queue)
        /\ turnStatus' = [turnStatus EXCEPT ![Head(queue)] = "cancelled"]
        /\ Goto(c, "abandonTake")
     \/ /\ queue = <<>>
        /\ turnStatus' = [turnStatus EXCEPT ![arg[c]] = "cancelled"]
        /\ Goto(c, "abandonTurn")
        /\ UNCHANGED queue
  /\ UNCHANGED <<runStatus, runKind, suspended, memory, arg, seen, hint, captured,
                 agent, history>>

AbandonReleases(c) ==
  /\ pc[c] = "abandonTurn"
  /\ Release
  /\ Goto(c, "abandonList")
  /\ arg' = [arg EXCEPT ![c] = NoTurn]
  /\ UNCHANGED <<db, active, task, intent, endedKind, announced, seen, hint, captured,
                 agent, history>>

\* list_queue_items has answered: clear the suspension, without the lock.
AbandonUnsuspends(c) ==
  /\ pc[c] = "abandonList"
  /\ suspended' = Nothing
  /\ Goto(c, "idle")
  /\ UNCHANGED <<queue, turnStatus, runStatus, runKind, memory, arg, seen, hint, captured,
                 agent, history>>

\* The connection of c's client is gone: the server cancels its handlers in flight, each at
\* its await (rpc/server.py).  A database call that has not run yet never does: that leaves
\* what a cut at the await before it leaves.
Disconnect(c) ==
  /\ "disconnect" \in Enabled /\ ~Idle(c)
  /\ \/ /\ pc[c] \in WaitPoints
        /\ \E i \in DOMAIN lockQ : lockQ[i] = c /\ lockQ' = Without(lockQ, i)
        /\ UNCHANGED <<queue, cutOff>>
     \/ /\ pc[c] \in CriticalPoints \ HandPoints
        /\ Release
        /\ UNCHANGED <<queue, cutOff>>
     \/ \* the message in its hands goes with it
        /\ pc[c] \in HandPoints
        /\ Release
        /\ CutOff({arg[c]})
        /\ UNCHANGED queue
     \/ \* between remove_queue_item and cancel_turn
        /\ pc[c] = "abandonTake" /\ queue # <<>>
        /\ Release
        /\ CutOff({Head(queue)})
        /\ queue' = Tail(queue)
     \/ /\ pc[c] = "abandonList"
        /\ UNCHANGED <<lockQ, queue, cutOff>>
  /\ Goto(c, "idle")
  /\ arg' = [arg EXCEPT ![c] = NoTurn]
  /\ UNCHANGED <<turnStatus, runStatus, runKind, suspended, active, task, intent, endedKind,
                 announced, seen, hint, captured, agent, notices, alarms, restarts>>

\* Cut off after _start_turn, before set_queue_suspended_reason(None) has run.
DisconnectStarted(c) ==
  /\ "disconnect" \in Enabled
  /\ pc[c] = "resumePop"
  /\ StartTurn(c, "idle", arg[c])
  /\ Release
  /\ arg' = [arg EXCEPT ![c] = NoTurn]
  /\ UNCHANGED <<db, intent, endedKind, announced, seen, hint, captured, agent, history>>

Ask(c) ==
  \/ SendRequested(c) \/ RetryRequested(c) \/ StopRequested(c) \/ ResumeRequested(c)
  \/ RemoveRequested(c) \/ ReorderRequested(c) \/ AbandonRequested(c)

Serve(c) ==
  \/ SendTakesLock(c) \/ SendEnqueues(c) \/ SendQueued(c) \/ SendStarts(c)
  \/ ResumeTakesLock(c) \/ ResumeStarts(c) \/ Finishes(c)
  \/ RemoveTakesLock(c) \/ RemoveCancels(c) \/ ReorderTakesLock(c)
  \/ AbandonTakesLock(c) \/ AbandonClears(c) \/ AbandonReleases(c) \/ AbandonUnsuspends(c)

-------------------------------------------------------------------------------
\* What interrupt_stale_runs terminates: Runs, and Turns even without a Run.
Stale(t) == runStatus[t] = "running"

\* Mutant of StaleTurn: only the Turns of stale Runs.
StaleTurnWithRun(t) == Stale(t)

StaleTurn(t) == turnStatus[t] = "running"

\* The daemon dies and starts again: only the database survives, and startup runs
\* interrupt_stale_runs over it.
Restart ==
  /\ "restart" \in Enabled /\ restarts < MaxRestarts
  /\ restarts' = restarts + 1
  /\ runKind' = [t \in Turns |-> IF Stale(t) THEN "error" ELSE runKind[t]]
  /\ suspended' = IF \E t \in Turns : Stale(t) THEN "error" ELSE suspended
  /\ runStatus' = [t \in Turns |-> IF Stale(t) THEN "terminated" ELSE runStatus[t]]
  /\ turnStatus' = [t \in Turns |-> IF StaleTurn(t) THEN "terminated" ELSE turnStatus[t]]
  /\ active' = NoTurn /\ task' = NoTurn /\ lockQ' = <<>>
  /\ ahead' = [p \in Coroutines |-> {}]
  /\ intent' = [t \in Turns |-> Nothing]
  /\ endedKind' = [t \in Turns |-> Nothing]
  /\ announced' = {}
  /\ pc' = [p \in Coroutines |-> IF p \in Turns /\ pc[p] # "idle" THEN "done" ELSE "idle"]
  /\ arg' = [p \in Coroutines |-> NoTurn]
  /\ seen' = [p \in Coroutines |-> "none"]
  /\ hint' = [p \in Coroutines |-> Nothing]
  /\ captured' = NoTurn
  /\ worker' = "none" /\ sticky' = FALSE
  /\ reply' = [t \in Turns |-> "none"]
  /\ UNCHANGED <<queue, cutOff, notices, alarms>>

Next ==
  \/ \E t \in Turns : Step(t, RunTurn(t)) \/ Step(t, Terminate(t))
  \/ \E p \in Watchers : Step(p, Terminate(p))
  \/ Step(Duration, WatchDuration) \/ Step(Steps, WatchSteps) \/ Step(Crash, WatchWorker)
  \/ \E c \in Clients : Step(c, Ask(c)) \/ Step(c, Serve(c))
  \/ \E c \in Clients : (Disconnect(c) \/ DisconnectStarted(c)) /\ MovesOn(c)
  \/ \E t \in Turns : (AgentAnswers(t) \/ ReadLoopEnds(t)) /\ UNCHANGED ahead
  \/ Restart

Spec == Init /\ [][Next]_vars

\* The event loop resumes every coroutine that can run, the lock is FIFO, the database
\* answers, and an agent that was prompted answers some day.  Requests, failures,
\* disconnections, alarms, exits and restarts need not happen; a dead worker's read loop may
\* hang.
Fairness ==
  /\ \A t \in Turns :
       /\ WF_vars(Step(t, RunTurn(t)))
       /\ WF_vars(AgentAnswers(t) /\ UNCHANGED ahead)
       /\ "hang" \in Enabled \/ WF_vars(ReadLoopEnds(t) /\ UNCHANGED ahead)
  /\ \A p \in Turns \cup Watchers : WF_vars(Step(p, Terminate(p)))
  /\ \A p \in Clients : WF_vars(Step(p, Serve(p)))
  /\ WF_vars(Step(Duration, DurationExceeded \/ CancelDelivered(Duration)))
  /\ WF_vars(Step(Steps, CancelDelivered(Steps)))
  /\ WF_vars(Step(Crash, GroupReaped \/ GraceSeesEnd \/ GraceExpires \/ CrashChecksRun \/ CrashFinalized))

FairSpec == Spec /\ Fairness

-------------------------------------------------------------------------------
(* Properties *)

DbTypes ==
  /\ queue \in Seq(Turns)
  /\ turnStatus \in
       [Turns -> {"none", "queued", "running", "completed", "terminated", "cancelled"}]
  /\ runStatus \in [Turns -> {"none", "running", "completed", "terminated"}]
  /\ runKind \in [Turns -> Kinds \cup {Nothing}]
  /\ suspended \in Kinds \cup {Nothing}

MemoryTypes ==
  /\ active \in Turns \cup {NoTurn}
  /\ intent \in [Turns -> Kinds \cup {Nothing}]
  /\ endedKind \in [Turns -> Kinds \cup {Nothing}]
  /\ announced \in SUBSET Turns

LockTypes == lockQ \in Seq(Turns \cup Clients) /\ task \in Turns \cup {NoTurn}

PcTypes ==
  /\ pc \in [Coroutines -> TurnPoints \cup WatcherPoints \cup ClientPoints]
  /\ \A t \in Turns : pc[t] \in TurnPoints
  /\ \A p \in Watchers : pc[p] \in WatcherPoints
  /\ \A c \in Clients : pc[c] \in ClientPoints

ControlTypes ==
  /\ arg \in [Coroutines -> Turns \cup {NoTurn}]
  /\ seen \in [Coroutines -> {"none", "running", "completed", "terminated"}]
  /\ hint \in [Coroutines -> Kinds \cup {Nothing}]
  /\ captured \in Turns \cup {NoTurn}

AgentTypes ==
  /\ worker \in {"none", "up"}
  /\ reply \in [Turns -> Replies]
  /\ sticky \in BOOLEAN

HistoryTypes ==
  /\ cutOff \in SUBSET Turns
  /\ notices \in [Turns -> 0 .. 2]
  /\ alarms \in 0 .. MaxAlarms
  /\ restarts \in 0 .. MaxRestarts

TypeOK ==
  /\ DbTypes /\ MemoryTypes /\ LockTypes /\ PcTypes /\ ControlTypes /\ AgentTypes /\ HistoryTypes
  /\ ahead \in [Coroutines -> SUBSET Coroutines]

\* No coroutine of the daemon is at work on the session.
Quiet ==
  /\ \A t \in Turns : pc[t] \in {"idle", "done"}
  /\ \A p \in Watchers \cup Clients : pc[p] = "idle"

Live(t) == pc[t] \in BodyPoints \cup {"created", "lock"}

\* One Session runs at most one Turn at a time (_session_locks, _active_turns and
\* _turn_tasks together), however requests, watchers and restarts interleave.
SerialTurns == \A t, u \in Turns : Live(t) /\ Live(u) => t = u

\* The task registered for the session (_turn_tasks) is the one of the Turn that runs, so
\* that stop, the budgets and the guard of a deletion find it.
TurnIsStoppable == \A t \in Turns : Live(t) => task = t

\* Only a coroutine that waits for the session lock, or is inside it, is in the lock's FIFO:
\* a cancelled _run_turn task leaves no place behind (async with self._lock).
NoAbandonedLock ==
  \A i \in DOMAIN lockQ : pc[lockQ[i]] \in IF i = 1 THEN WaitPoints \cup CriticalPoints
                                                  ELSE WaitPoints

\* A pending message is never left without a Turn to follow and without the suspension
\* flag that offers the user to continue (set_queue_suspended_reason).
NoStrandedQueue == Quiet /\ queue # <<>> => suspended # Nothing

\* A coroutine will settle the Run of t.
Owned(t) ==
  \/ pc[t] \notin {"idle", "done"}
  \/ \E p \in Watchers : arg[p] = t /\ pc[p] # "idle"

\* Whatever is stored as running has a coroutine that will settle it: no failure is "a
\* silently-dropped task" (the catch-all of _run_turn).  Violated: a watchdog's late lookup,
\* and what cutOff records.
NoZombieRun == \A t \in Turns : runStatus[t] = "running" => Owned(t)

\* It is so for every Turn that was not cut off: no other interleaving of requests, stops,
\* failures, exits and hand-offs leaves a Run running that nobody will settle.
ZombieWasCutOff ==
  \A t \in Turns : runStatus[t] = "running" => Owned(t) \/ t \in cutOff

\* The message of t is pending, or in the hands of a coroutine.
Kept(t) ==
  \/ \E i \in DOMAIN queue : queue[i] = t
  \/ \E p \in Coroutines : arg[p] = t /\ pc[p] \notin {"idle", "done"}
  \/ pc[t] \notin {"idle", "done"}

\* A message is either settled, pending, or owned by a coroutine: none is popped and then
\* gone, "silently dropping a queued user message" (_on_worker_crash).  Violated by what
\* cutOff records, and by a restart.
NoLostMessage == \A t \in Turns : turnStatus[t] = "queued" => Kept(t)

\* Only a message whose coroutine was cut off with it in hand is lost: no interleaving of
\* edits, resumes, hand-offs and disconnections elsewhere drops one.
LostWasCutOff == \A t \in Turns : turnStatus[t] = "queued" => Kept(t) \/ t \in cutOff

\* Once all is quiet, each terminated Run has been announced at least once, by whoever came
\* last of those that terminated it ("guaranteeing at least one broadcast", R-N1).
TerminationIsTold ==
  Quiet /\ restarts = 0 =>
    \A t \in Turns : runStatus[t] = "terminated" => notices[t] > 0 \/ t \in cutOff

\* A Run that has ended keeps the outcome first recorded ("writing over it again would be the
\* actual bug", _terminate_run).  Violated: the guard is older than the write.
OutcomeFinal ==
  [][\A t \in Turns : runStatus[t] \in {"completed", "terminated"}
       => runStatus'[t] = runStatus[t] /\ runKind'[t] = runKind[t]]_vars

\* A session/cancel interrupts the prompt of the Turn it was sent for, which has a termination
\* intent by then ("still targets THIS Turn's own worker/session by id").  Violated: the
\* sweep's list is older than its cancel.
CancelHitsItsTurn == \A t \in Turns : reply[t] = "interrupted" => intent[t] # Nothing

\* What ends a Turn for the exit of a worker is the exit of its own worker: not of an earlier
\* one, while the agent works on the Turn's prompt (_on_worker_crash, N07).  Violated: the
\* exit is reported after the group is reaped.
CrashSparesTheLiving ==
  pc[Crash] = "flush" => ~(worker = "up" /\ reply[arg[Crash]] \in {"working", "interrupted"})

\* N07: when the worker dies under a Turn, its Run does not stay 'running', even if the
\* read loop never reports the death (_on_worker_crash), unless a fault had cut it off.
CrashSettlesRun ==
  \A t \in Turns :
    pc[Crash] = "grace" /\ arg[Crash] = t ~> runStatus[t] # "running" \/ t \in cutOff

\* Every request is answered: no deadlock on the session lock.
RequestsAnswered == \A c \in Clients : pc[c] # "idle" ~> pc[c] = "idle"

\* A Turn that is running ends, or is cut off, whatever fails on the way.
RunningTurnEnds ==
  \A t \in Turns : turnStatus[t] = "running" ~> turnStatus[t] # "running" \/ t \in cutOff

-------------------------------------------------------------------------------
(* The refinement of TurnQueue *)

\* Clients whose send is between the creation of a queued Turn and its queue row.
Enqueuing == {c \in Clients : pc[c] = "sendRow"}

\* Coroutines that hold the lock with a Turn they are about to start.
Starting ==
  {p \in Turns \cup Clients : arg[p] # NoTurn /\ pc[p] \in {"pop", "sendGate", "resumePop"}}

\* Clients that removed a queue item whose Turn they have not cancelled yet.
Removing == {c \in Clients : pc[c] = "removed"}

Current ==
  IF active # NoTurn THEN active
  ELSE IF Starting # {} THEN arg[CHOOSE p \in Starting : TRUE]
  ELSE NoTurn

Pending == IF Enqueuing = {} THEN queue ELSE Append(queue, arg[CHOOSE c \in Enqueuing : TRUE])

\* A Turn taken from the queue runs, although create_run has not said so yet.
Status ==
  [t \in Turns |->
     IF t \in cutOff THEN "lost"
     ELSE IF t = Current /\ turnStatus[t] = "queued" THEN "running"
     ELSE IF \E c \in Removing : arg[c] = t THEN "cancelled"
     ELSE turnStatus[t]]

Queue == INSTANCE TurnQueue WITH status <- Status, pending <- Pending, current <- Current

\* Whatever the interleaving of requests, Turns and worker exits, the Session keeps the
\* promise of TurnQueue.
ImplementsTurnQueue == Queue!Spec
=============================================================================
