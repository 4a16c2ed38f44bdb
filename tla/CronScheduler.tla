--------------------------- MODULE CronScheduler ---------------------------
(***************************************************************************)
(* The cron scheduler (daemon/scheduler/service.py, queries.py): the timer *)
(* loop, edits by clients, the dispatch of a due cron into a child session,*)
(* the watch on its Run, and what its outcome does to the cron.            *)
(*                                                                         *)
(* A step is the code from one await to the next.  A dispatch is one       *)
(* coroutine with the child session it creates; the Run of the child and   *)
(* the person in front of it are the environment.  Instants are UTC        *)
(* minutes, and the clock takes those of a few that matter.                *)
(***************************************************************************)
EXTENDS CronExpr

CONSTANTS
  Crons, MaxDispatches, None,
  Exprs, Fields,     \* names of cron expressions, and their five fields
  Instants,          \* the instants the clock takes
  Shift, Before, After,     \* the local time's offset changes at Shift
  MaxEdits, MaxRunNow, MaxFaults,     \* bounds on what clients do and on what goes wrong
  Profiles           \* sets of optional Behaviours; a behaviour of the model has one of them

Behaviours == {"edit", "delete", "run now", "crash", "disconnect", "child", "fault"}
Dispatches == 1..MaxDispatches
FailureThreshold == 3

ASSUME CronAssumption ==
  /\ MaxDispatches \in Nat
  /\ None \notin 1..MaxDispatches
  /\ IsFiniteSet(Instants) /\ Instants # {} /\ Instants \subseteq Nat
  /\ {MaxEdits, MaxRunNow, MaxFaults, Before, After, Shift} \subseteq Int
  /\ \A t \in Instants : {t + Before, t + After} \subseteq Nat
  /\ \A e \in Exprs : Fields[e] \in Expressions
  /\ Profiles \subseteq SUBSET Behaviours

VARIABLES
  clock,
  cron,        \* the crons table
  task,        \* the status of the tasks row of a dispatch
  loop,        \* _loop_tick: where it is, the rows in its hands, its deadline
  wake,        \* _wake
  returning,   \* upserts and deletes that have written and not yet set _wake
  inflight,    \* _in_flight, with the dispatch for the child session's id
  disp,        \* the dispatches
  child,       \* the newest Turn of the child session of a dispatch
  daemon,
  edits, faults, profile,
  (* history *)
  asOf,        \* the instant next_run_at was computed from
  booted,      \* the instant of the last restart
  stale,       \* crons whose next_run_at comes from an expression they no longer have
  unwatched,   \* dispatches whose watch gave up on a Run that goes on
  reopened,    \* crons whose guard was released while another dispatch held it
  unwoken      \* crons whose edit was cut off before it woke the loop

vars == <<clock, cron, task, loop, wake, returning, inflight, disp, child, daemon, edits,
          faults, profile, asOf, booted, stale, unwatched, reopened, unwoken>>

-----------------------------------------------------------------------------
(* Local time.                                                              *)

\* What astimezone() adds at an instant (external).
Offset(t) == IF t < Shift THEN Before ELSE After

\* _next_after_local: the offset of now serves both ways.
NextAfterLocal(e, t) ==
  LET n == NextAfter(Parse(e), t + Offset(t))
  IN IF n = NoTime THEN NoTime ELSE n - Offset(t)

\* ... for each expression and instant.
NextRun == [e \in Exprs |-> [t \in Instants |-> NextAfterLocal(Fields[e], t)]]

\* The instant of IsNext, for each of them, of those NextRun can be.
FirstAfter ==
  [e \in Exprs |-> [t \in Instants |->
     IF NextRun[e][t] # NoTime /\ IsNext(Fields[e], t + Offset(t), NextRun[e][t] + Offset(t))
     THEN NextRun[e][t] ELSE NoTime]]

-----------------------------------------------------------------------------
NoCron == [state |-> "none", expr |-> None, enabled |-> FALSE, next |-> NoTime, fails |-> 0]

\* The row upsert writes.
Created(e, enabled, t) ==
  [state |-> "there", expr |-> e, enabled |-> enabled, fails |-> 0,
   next |-> IF enabled THEN NextRun[e][t] ELSE NoTime]

Schedulable(t) == {e \in Exprs : NextRun[e][t] # NoTime}

NoDispatch == [pc |-> "idle", cron |-> None, expr |-> None, client |-> FALSE, due |-> NoTime,
               quiet |-> FALSE, tasked |-> FALSE, watched |-> FALSE, success |-> FALSE]

LoopAt(pc, due, until) == [pc |-> pc, due |-> due, until |-> until]

\* What a cron has failed before, where failures are of interest.
Failures == IF "fault" \in profile THEN FailureThreshold - 1 ELSE 0

Init ==
  /\ profile \in Profiles
  /\ clock = Min(Instants)
  /\ cron \in [Crons -> {NoCron} \cup {Created(e, FALSE, clock) : e \in Exprs}
                            \cup {[Created(e, TRUE, clock) EXCEPT !.fails = Failures] :
                                    e \in Schedulable(clock)}]
  /\ task = [d \in Dispatches |-> "none"]
  /\ loop = LoopAt("tick", {}, NoTime)
  /\ wake = FALSE
  /\ returning = {}
  /\ inflight = [c \in Crons |-> None]
  /\ disp = [d \in Dispatches |-> NoDispatch]
  /\ child = [d \in Dispatches |-> "none"]
  /\ daemon = "up"
  /\ edits = 0
  /\ faults = 0
  /\ asOf = [c \in Crons |-> clock]
  /\ booted = NoTime
  /\ stale = {}
  /\ unwatched = {}
  /\ reopened = {}
  /\ unwoken = {}

There(c) == cron[c].state = "there"

\* The dispatch to be used next, if one is left.
NextDispatch ==
  {d \in Dispatches : disp[d].pc = "idle" /\ \A e \in 1..(d - 1) : disp[e].pc # "idle"}

\* Bound: the dispatches left once those the loop owes are made.
Due == {c \in Crons : cron[c].enabled /\ cron[c].next # NoTime /\ cron[c].next <= clock}
Spare ==
  Cardinality({d \in Dispatches : disp[d].pc = "idle"})
    - Cardinality(Due \cup {r.cron : r \in loop.due})

\* The next of the moments the model looks at.
Tick ==
  /\ Spare >= Cardinality(Crons)
  /\ \E t \in Instants :
       /\ t > clock
       /\ \A u \in Instants : u > clock => u >= t
       /\ clock' = t
  /\ UNCHANGED <<cron, task, loop, wake, returning, inflight, disp, child, daemon, edits, faults,
                 profile, asOf, booted, stale, unwatched, reopened, unwoken>>

-----------------------------------------------------------------------------
(* Edits.                                                                   *)

\* upsert: an expression without a next occurrence is an error for an enabled cron only.
Upsert(c, e, enabled) ==
  /\ "edit" \in profile
  /\ daemon # "down"
  /\ edits < MaxEdits
  /\ cron[c].state # "deleted"
  /\ enabled => e \in Schedulable(clock)
  /\ cron' = [cron EXCEPT ![c] = Created(e, enabled, clock)]
  /\ edits' = edits + 1
  /\ returning' = returning \cup {[cron |-> c, deleted |-> FALSE]}
  /\ asOf' = [asOf EXCEPT ![c] = clock]
  /\ stale' = stale \ {c}
  /\ UNCHANGED <<clock, task, loop, wake, inflight, disp, child, daemon, faults, profile,
                 booted, unwatched, reopened, unwoken>>

Delete(c) ==
  /\ "delete" \in profile
  /\ daemon # "down"
  /\ edits < MaxEdits
  /\ There(c)
  /\ cron' = [cron EXCEPT ![c] = [NoCron EXCEPT !.state = "deleted"]]
  /\ edits' = edits + 1
  /\ returning' = returning \cup {[cron |-> c, deleted |-> TRUE]}
  /\ stale' = stale \ {c}
  /\ UNCHANGED <<clock, task, loop, wake, inflight, disp, child, daemon, faults, profile, asOf,
                 booted, unwatched, reopened, unwoken>>

\* Mutant of Returns: the loop is not woken.
ReturnsQuietly(r) ==
  /\ r \in returning
  /\ returning' = returning \ {r}
  /\ inflight' = IF r.deleted THEN [inflight EXCEPT ![r.cron] = None] ELSE inflight
  /\ UNCHANGED <<clock, cron, task, loop, wake, disp, child, daemon, edits, faults, profile, asOf,
                 booted, stale, unwatched, reopened, unwoken>>

\* The write is back: a deleted cron is no longer tracked, and the loop is woken.
Returns(r) ==
  /\ r \in returning
  /\ returning' = returning \ {r}
  /\ inflight' = IF r.deleted THEN [inflight EXCEPT ![r.cron] = None] ELSE inflight
  /\ wake' = TRUE
  /\ UNCHANGED <<clock, cron, task, loop, disp, child, daemon, edits, faults, profile, asOf,
                 booted, stale, unwatched, reopened, unwoken>>

\* Its client disconnects and the handler is cancelled at the await: the thread's write
\* stands, and what was to follow it does not happen.
EditCut(r) ==
  /\ "disconnect" \in profile
  /\ r \in returning
  /\ returning' = returning \ {r}
  /\ unwoken' = unwoken \cup {r.cron}
  /\ UNCHANGED <<clock, cron, task, loop, wake, inflight, disp, child, daemon, edits, faults,
                 profile, asOf, booted, stale, unwatched, reopened>>

-----------------------------------------------------------------------------
(* The schedule moves on.                                                   *)

\* _advance_schedule for the row in hand, whatever the table says by now: next_run_at of
\* the row's expression, from now on.
AdvanceSchedule(c, e) ==
  /\ cron' = IF There(c) THEN [cron EXCEPT ![c].next = NextRun[e][clock]] ELSE cron
  /\ asOf' = [asOf EXCEPT ![c] = clock]
  /\ stale' = IF There(c) /\ cron[c].expr # e THEN stale \cup {c} ELSE stale

\* record_cron_failure: the third failure in a row disables.
Failed(row) ==
  [row EXCEPT !.fails = @ + 1,
              !.enabled = @ /\ row.fails + 1 < FailureThreshold]

-----------------------------------------------------------------------------
(* The timer loop.                                                          *)

LoopUnchanged == UNCHANGED <<clock, task, returning, inflight, child, daemon, edits, profile,
                             booted, unwatched, reopened>>

\* _loop_tick clears the event before it reads the table.
LoopTick ==
  /\ loop.pc = "tick"
  /\ wake' = FALSE
  /\ loop' = LoopAt("list", {}, NoTime)
  /\ unwoken' = {}
  /\ UNCHANGED <<cron, disp, faults, asOf, stale>>
  /\ LoopUnchanged

Rows == {[cron |-> c, expr |-> cron[c].expr, due |-> cron[c].next] :
           c \in {c \in Crons : cron[c].enabled /\ cron[c].next # NoTime}}

\* Some are due: one after the other.  None is: wait for the nearest, or for ever.
LoopList ==
  LET due == {r \in Rows : r.due <= clock}
  IN /\ loop.pc = "list"
     /\ loop' = CASE due # {} -> LoopAt("mark", due, NoTime)
                  [] due = {} /\ Rows = {} -> LoopAt("park", {}, NoTime)
                  [] OTHER -> LoopAt("park", {}, Min({r.due : r \in Rows}))
     /\ UNCHANGED <<cron, wake, disp, faults, asOf, stale, unwoken>>
     /\ LoopUnchanged

LoopWakes ==
  /\ loop.pc = "park"
  /\ wake \/ (loop.until # NoTime /\ loop.until <= clock)
  /\ loop' = LoopAt("tick", {}, NoTime)
  /\ UNCHANGED <<cron, wake, disp, faults, asOf, stale, unwoken>>
  /\ LoopUnchanged

\* The schedule of a due cron is moved on, and only then is it dispatched.
LoopMark(r) ==
  /\ loop.pc = "mark"
  /\ r \in loop.due
  /\ AdvanceSchedule(r.cron, r.expr)
  /\ \E d \in NextDispatch :
       disp' = [disp EXCEPT ![d] = [NoDispatch EXCEPT !.pc = "body", !.cron = r.cron,
                                                       !.expr = r.expr, !.due = r.due]]
  /\ loop' = IF loop.due = {r} THEN LoopAt("tick", {}, NoTime)
             ELSE LoopAt("mark", loop.due \ {r}, NoTime)
  /\ UNCHANGED <<wake, faults, unwoken>>
  /\ LoopUnchanged

\* An unexpected error backs the loop off, and it starts over; one between the write and
\* the dispatch (the runtime snapshot reads the table again) loses the trigger.
LoopFails ==
  /\ "fault" \in profile
  /\ faults < MaxFaults
  /\ loop.pc \in {"list", "mark"}
  /\ faults' = faults + 1
  /\ loop' = LoopAt("tick", {}, NoTime)
  /\ \/ UNCHANGED <<cron, asOf, stale>>
     \/ \E r \in loop.due : AdvanceSchedule(r.cron, r.expr)
  /\ UNCHANGED <<wake, disp, unwoken>>
  /\ LoopUnchanged

-----------------------------------------------------------------------------
(* A dispatch.                                                              *)

Goto(d, pc) == disp' = [disp EXCEPT ![d].pc = pc]

\* The coroutine is over; what it was and dispatched for is remembered.
Over(d, pc) == [NoDispatch EXCEPT !.pc = pc, !.cron = disp[d].cron, !.client = disp[d].client,
                                  !.due = disp[d].due]
Ends(d, pc) == disp' = [disp EXCEPT ![d] = Over(d, pc)]

\* A failure, which an RpcError handler or the watch records ...
ToRecord(d) == disp' = [disp EXCEPT ![d].pc = "record", ![d].success = FALSE]

\* ... or the general handler does, which has no task at hand.
ToReport(d) == disp' = [disp EXCEPT ![d].pc = "report", ![d].tasked = FALSE]

Release(c) == inflight' = [inflight EXCEPT ![c] = None]

DispatchUnchanged ==
  UNCHANGED <<clock, loop, wake, returning, daemon, edits, profile, booted, unwoken>>

\* run_now has read its row.
RunNow(c, d) ==
  /\ "run now" \in profile
  /\ daemon # "down"
  /\ There(c)
  /\ d \in NextDispatch
  /\ Spare > 0
  /\ Cardinality({e \in Dispatches : disp[e].client}) < MaxRunNow
  /\ disp' = [disp EXCEPT ![d] = [NoDispatch EXCEPT !.pc = "advance", !.cron = c, !.client = TRUE,
                                                    !.expr = cron[c].expr]]
  /\ UNCHANGED <<cron, task, inflight, child, faults, asOf, stale, unwatched, reopened>>
  /\ DispatchUnchanged

\* An expression that never occurs counts as a failure of its cron.
Advance(d) ==
  /\ disp[d].pc = "advance"
  /\ AdvanceSchedule(disp[d].cron, disp[d].expr)
  /\ Goto(d, IF NextRun[disp[d].expr][clock] = NoTime THEN "strike" ELSE "body")
  /\ UNCHANGED <<task, inflight, child, faults, unwatched, reopened>>
  /\ DispatchUnchanged

Strike(d) ==
  /\ disp[d].pc = "strike"
  /\ cron' = IF There(disp[d].cron) THEN [cron EXCEPT ![disp[d].cron] = Failed(@)] ELSE cron
  /\ Goto(d, "body")
  /\ UNCHANGED <<task, inflight, child, faults, asOf, stale, unwatched, reopened>>
  /\ DispatchUnchanged

\* Mutant of Claim: the guard is set once the child session is known.
ClaimLater(d) ==
  /\ disp[d].pc = "body"
  /\ IF inflight[disp[d].cron] = None THEN Goto(d, "create") ELSE Ends(d, "done")
  /\ UNCHANGED <<cron, task, inflight, child, faults, asOf, stale, unwatched, reopened>>
  /\ DispatchUnchanged

\* _dispatch_body: the test and the claim are one stretch.
Claim(d) ==
  /\ disp[d].pc = "body"
  /\ IF inflight[disp[d].cron] = None
     THEN inflight' = [inflight EXCEPT ![disp[d].cron] = d] /\ Goto(d, "create")
     ELSE UNCHANGED inflight /\ Ends(d, "done")
  /\ UNCHANGED <<cron, task, child, faults, asOf, stale, unwatched, reopened>>
  /\ DispatchUnchanged

\* The main session and then the child session exist; the guard now holds its id, also if a deletion took it away.
CreateChild(d) ==
  /\ disp[d].pc = "create"
  /\ child' = [child EXCEPT ![d] = "created"]
  /\ inflight' = [inflight EXCEPT ![disp[d].cron] = d]
  /\ Goto(d, "task")
  /\ UNCHANGED <<cron, task, faults, asOf, stale, unwatched, reopened>>
  /\ DispatchUnchanged

\* create_cron_task; the row's foreign keys need the cron and the child.
CreateTask(d) ==
  /\ disp[d].pc = "task"
  /\ IF There(disp[d].cron) /\ child[d] # "gone"
     THEN /\ task' = [task EXCEPT ![d] = "running"]
          /\ disp' = [disp EXCEPT ![d].pc = "send", ![d].tasked = TRUE]
          /\ UNCHANGED inflight
     ELSE ToReport(d) /\ Release(disp[d].cron) /\ UNCHANGED task
  /\ UNCHANGED <<cron, child, faults, asOf, stale, unwatched, reopened>>
  /\ DispatchUnchanged

\* send has started the Turn, and the watch takes over; or the child is gone.
Send(d) ==
  /\ disp[d].pc = "send"
  /\ IF child[d] # "gone"
     THEN /\ child' = [child EXCEPT ![d] = "running"]
          /\ disp' = [disp EXCEPT ![d].pc = "poll", ![d].watched = TRUE]
          /\ UNCHANGED inflight
     ELSE ToRecord(d) /\ Release(disp[d].cron) /\ UNCHANGED child
  /\ UNCHANGED <<cron, task, faults, asOf, stale, unwatched, reopened>>
  /\ DispatchUnchanged

\* Mutant of DispatchFails: the guard stays.
DispatchFailsHolding(d) ==
  /\ "fault" \in profile
  /\ faults < MaxFaults
  /\ \/ disp[d].pc \in {"create", "send"} /\ ToRecord(d)
     \/ disp[d].pc \in {"create", "task", "send"} /\ ToReport(d)
  /\ faults' = faults + 1
  /\ UNCHANGED <<cron, task, inflight, child, asOf, stale, unwatched, reopened>>
  /\ DispatchUnchanged

\* create or send raises an RpcError, or anything raises something else.
DispatchFails(d) ==
  /\ "fault" \in profile
  /\ faults < MaxFaults
  /\ \/ disp[d].pc \in {"create", "send"} /\ ToRecord(d)
     \/ disp[d].pc \in {"create", "task", "send"} /\ ToReport(d)
  /\ faults' = faults + 1
  /\ Release(disp[d].cron)
  /\ UNCHANGED <<cron, task, child, asOf, stale, unwatched, reopened>>
  /\ DispatchUnchanged

\* The client of run_now disconnects: the server cancels the handler, which no except
\* clause catches; a send may have gone through.
Disconnect(d) ==
  /\ "disconnect" \in profile
  /\ disp[d].client
  /\ ~disp[d].watched
  /\ disp[d].pc \notin {"idle", "done", "cut"}
  /\ \/ UNCHANGED child
     \/ disp[d].pc = "send" /\ child[d] # "gone" /\ child' = [child EXCEPT ![d] = "running"]
  /\ Ends(d, "cut")
  /\ UNCHANGED <<cron, task, inflight, faults, asOf, stale, unwatched, reopened>>
  /\ DispatchUnchanged

-----------------------------------------------------------------------------
(* The watch on a Run.                                                      *)

Live == {"running", "waiting", "retaken"}

\* _poll_until_done: a pending approval moves the deadline.
Poll(d) ==
  /\ disp[d].pc = "poll"
  /\ disp' = [disp EXCEPT ![d].pc = "look", ![d].quiet = child[d] # "waiting"]
  /\ UNCHANGED <<cron, task, inflight, child, faults, asOf, stale, unwatched, reopened>>
  /\ DispatchUnchanged

\* The newest Turn of the child is over, or is another one, or the child is gone.
Settled(d) ==
  /\ disp[d].pc = "look"
  /\ child[d] \notin Live
  /\ disp' = [disp EXCEPT ![d].pc = "record", ![d].success = child[d] = "completed"]
  /\ UNCHANGED <<cron, task, inflight, child, faults, asOf, stale, unwatched, reopened>>
  /\ DispatchUnchanged

\* It is not: after a silence of max_run_wait_seconds the watch gives up ...
GivesUp(d) ==
  /\ disp[d].pc = "look"
  /\ child[d] \in Live
  /\ disp[d].quiet
  /\ ToRecord(d)
  /\ unwatched' = unwatched \cup {d}
  /\ UNCHANGED <<cron, task, inflight, child, faults, asOf, stale, reopened>>
  /\ DispatchUnchanged

\* ... and until then it looks again.
Sleeps(d) ==
  /\ disp[d].pc = "look"
  /\ child[d] \in Live
  /\ Goto(d, "poll")
  /\ UNCHANGED <<cron, task, inflight, child, faults, asOf, stale, unwatched, reopened>>
  /\ DispatchUnchanged

\* _watch_and_report: whatever else goes wrong while it polls is a failure too.
WatchFails(d) ==
  /\ "fault" \in profile
  /\ faults < MaxFaults
  /\ disp[d].pc \in {"poll", "look"}
  /\ faults' = faults + 1
  /\ ToRecord(d)
  /\ unwatched' = unwatched \cup {d}
  /\ UNCHANGED <<cron, task, inflight, child, asOf, stale, reopened>>
  /\ DispatchUnchanged

\* _record_outcome writes the failure count, then the task, then a message to the main
\* session, each in a transaction of its own.
CountIt(d) ==
  LET c == disp[d].cron
  IN cron' = CASE ~There(c) -> cron
               [] There(c) /\ disp[d].success -> [cron EXCEPT ![c].fails = 0]
               [] OTHER -> [cron EXCEPT ![c] = Failed(@)]

MarkTask(d) ==
  task' = IF disp[d].tasked /\ task[d] # "none"
          THEN [task EXCEPT ![d] = IF disp[d].success THEN "completed" ELSE "failed"]
          ELSE task

RecordOutcome(d) ==
  /\ disp[d].pc \in {"record", "report"}
  /\ CountIt(d)
  /\ MarkTask(d)
  /\ IF disp[d].watched THEN Goto(d, "end") ELSE Ends(d, "done")
  /\ UNCHANGED <<inflight, child, faults, asOf, stale, unwatched, reopened>>
  /\ DispatchUnchanged

\* It fails on the way.  In an RpcError handler, which has released the guard, the general
\* handler takes over and releases it again, whoever holds it by now; the general handler
\* itself gives up, and a watch is over.
RecordFails(d) ==
  LET c == disp[d].cron
      rpcError == disp[d].pc = "record" /\ ~disp[d].watched
  IN /\ "fault" \in profile
     /\ faults < MaxFaults
     /\ disp[d].pc \in {"record", "report"}
     /\ faults' = faults + 1
     /\ \/ UNCHANGED <<cron, task>>
        \/ CountIt(d) /\ (UNCHANGED task \/ MarkTask(d))
     /\ CASE rpcError -> ToReport(d) /\ Release(c)
          [] disp[d].watched -> Goto(d, "end") /\ UNCHANGED inflight
          [] OTHER -> Ends(d, "done") /\ UNCHANGED inflight
     /\ reopened' = IF rpcError /\ inflight[c] # None THEN reopened \cup {c} ELSE reopened
     /\ UNCHANGED <<child, asOf, stale, unwatched>>
     /\ DispatchUnchanged

\* The done callback of a watch releases the guard, whoever holds it.
WatchEnds(d) ==
  /\ disp[d].pc = "end"
  /\ Release(disp[d].cron)
  /\ Ends(d, "done")
  /\ UNCHANGED <<cron, task, child, faults, asOf, stale, unwatched, reopened>>
  /\ DispatchUnchanged

-----------------------------------------------------------------------------
(* The child session (external to the scheduler).                           *)

ChildUnchanged ==
  UNCHANGED <<clock, cron, loop, wake, returning, inflight, disp, daemon, edits, faults,
              profile, asOf, booted, stale, unwatched, reopened, unwoken>>

\* Its Run asks for an approval, gets it, or ends.
RunGoesOn(d) ==
  /\ \/ child[d] = "running" /\ \E k \in {"waiting", "completed", "terminated"} :
                                  child' = [child EXCEPT ![d] = k]
     \/ child[d] = "waiting" /\ \E k \in {"running", "terminated"} :
                                  child' = [child EXCEPT ![d] = k]
  /\ UNCHANGED task
  /\ ChildUnchanged

\* Its user sends a message of their own, whose Turn ends; or deletes it, and with it the
\* row of its task.
UserMeddles(d) ==
  /\ "child" \in profile
  /\ \/ child[d] \in {"completed", "terminated"} /\ child' = [child EXCEPT ![d] = "retaken"]
        /\ UNCHANGED task
     \/ child[d] = "retaken" /\ child' = [child EXCEPT ![d] = "mismatched"] /\ UNCHANGED task
     \/ /\ child[d] \in {"created", "completed", "terminated", "mismatched"}
        /\ child' = [child EXCEPT ![d] = "gone"]
        /\ task' = [task EXCEPT ![d] = "none"]
  /\ ChildUnchanged

-----------------------------------------------------------------------------
(* The daemon ends, and starts again.                                       *)

Crash ==
  /\ "crash" \in profile
  /\ daemon = "up"
  /\ daemon' = "down"
  /\ loop' = LoopAt("off", {}, NoTime)
  /\ returning' = {}
  /\ inflight' = [c \in Crons |-> None]
  /\ disp' = [d \in Dispatches |->
                IF disp[d].pc \in {"idle", "done"} THEN disp[d]
                ELSE Over(d, "cut")]
  /\ UNCHANGED <<clock, cron, task, wake, child, edits, faults, profile, asOf, booted,
                 stale, unwatched, reopened, unwoken>>

\* Mutant of Reconciled: only a cron that was never scheduled is rescheduled.
ReconciledUnset(row) ==
  IF row.enabled /\ row.next = NoTime THEN [row EXCEPT !.next = NextRun[row.expr][clock]] ELSE row

\* The row _reconcile_on_startup leaves: what was missed is not made up for.
Reconciled(row) ==
  IF row.enabled /\ (row.next = NoTime \/ row.next <= clock)
  THEN [row EXCEPT !.next = NextRun[row.expr][clock]]
  ELSE row

\* The Runs of the last process are terminated before the scheduler starts.
Boot ==
  /\ daemon = "down"
  /\ daemon' = "again"
  /\ cron' = [c \in Crons |-> Reconciled(cron[c])]
  /\ asOf' = [c \in Crons |-> IF Reconciled(cron[c]) = cron[c] THEN asOf[c] ELSE clock]
  /\ stale' = {c \in stale : Reconciled(cron[c]) = cron[c]}
  /\ child' = [d \in Dispatches |-> IF child[d] \in Live THEN "terminated" ELSE child[d]]
  /\ loop' = LoopAt("tick", {}, NoTime)
  /\ wake' = FALSE
  /\ booted' = clock
  /\ reopened' = {}
  /\ unwoken' = {}
  /\ UNCHANGED <<clock, task, returning, inflight, disp, edits, faults, profile, unwatched>>

-----------------------------------------------------------------------------
Loop == LoopTick \/ LoopList \/ LoopWakes \/ \E r \in loop.due : LoopMark(r)

Proceeds(d) ==
  \/ Advance(d) \/ Strike(d) \/ Claim(d) \/ CreateChild(d)
  \/ CreateTask(d) \/ Send(d) \/ Poll(d) \/ Sleeps(d) \/ Settled(d) \/ RecordOutcome(d) \/ WatchEnds(d)

Next ==
  \/ Tick
  \/ \E c \in Crons :
       \/ \E e \in Exprs, enabled \in BOOLEAN : Upsert(c, e, enabled)
       \/ Delete(c)
       \/ \E d \in Dispatches : RunNow(c, d)
  \/ \E r \in returning : Returns(r) \/ EditCut(r)
  \/ Loop \/ LoopFails
  \/ \E d \in Dispatches :
       \/ Proceeds(d) \/ GivesUp(d) \/ WatchFails(d) \/ Disconnect(d)
       \/ DispatchFails(d) \/ RecordFails(d)
       \/ RunGoesOn(d) \/ UserMeddles(d)
  \/ Crash \/ Boot

Spec == Init /\ [][Next]_vars

\* The event loop runs what is ready, and the wall clock reaches the ceiling of a watch
\* that is not moved; the Run need not end, nor the user decide.
Fairness ==
  /\ WF_vars(Loop)
  /\ WF_vars(\E r \in returning : Returns(r))
  /\ \A d \in Dispatches : WF_vars(Proceeds(d)) /\ SF_vars(GivesUp(d))

FairSpec == Spec /\ Fairness

-----------------------------------------------------------------------------
TypeOK ==
  /\ clock \in Instants
  /\ cron \in [Crons -> [state : {"none", "there", "deleted"}, expr : Exprs \cup {None},
                         enabled : BOOLEAN, next : Int, fails : Nat]]
  /\ task \in [Dispatches -> {"none", "running", "completed", "failed"}]
  /\ loop \in [pc : {"tick", "list", "mark", "park", "off"},
               due : SUBSET [cron : Crons, expr : Exprs, due : Int], until : Int]
  /\ wake \in BOOLEAN
  /\ returning \subseteq [cron : Crons, deleted : BOOLEAN]
  /\ inflight \in [Crons -> Dispatches \cup {None}]
  /\ disp \in [Dispatches ->
       [pc : {"idle", "advance", "strike", "body", "create", "task", "send", "poll",
              "look", "record", "report", "end", "done", "cut"},
        cron : Crons \cup {None}, expr : Exprs \cup {None}, client : BOOLEAN, due : Int,
        quiet : BOOLEAN, tasked : BOOLEAN, watched : BOOLEAN, success : BOOLEAN]]
  /\ child \in [Dispatches -> {"none", "created", "running", "waiting", "completed",
                               "terminated", "retaken", "mismatched", "gone"}]
  /\ daemon \in {"up", "down", "again"}
  /\ edits \in 0..MaxEdits
  /\ faults \in 0..MaxFaults
  /\ profile \in Profiles
  /\ asOf \in [Crons -> Int]
  /\ booted \in Int
  /\ stale \subseteq Crons
  /\ unwatched \subseteq Dispatches
  /\ {reopened, unwoken} \subseteq SUBSET Crons

\* Two Runs of one cron work side by side.
Doubled(c) ==
  \E d, e \in Dispatches \ unwatched :
    /\ d # e
    /\ {child[d], child[e]} \subseteq {"running", "waiting"}
    /\ c = disp[d].cron /\ c = disp[e].cron

\* They never do, whoever triggers the cron and however that interleaves with edits, a
\* deletion, failures and the end of an earlier Run; the exceptions are a Run its watch
\* gave up on, and ...
OneRunPerCron == \A c \in Crons : ~Doubled(c)

\* ... a cron whose guard the general handler released under another dispatch (559): no
\* other way leads to two Runs.
OneRunUnlessReopened == \A c \in Crons \ reopened : ~Doubled(c)

\* next_run_at of an enabled cron is the first occurrence of its own expression, in local
\* time, after the instant it was computed at, so that no trigger is skipped; the exception
\* is an edit while the loop or run_now held the row (service.py:464, 500).
NextFitsExpr ==
  \A c \in Crons :
    cron[c].enabled /\ cron[c].next # NoTime /\ c \notin stale =>
      FirstAfter[cron[c].expr][asOf[c]] = cron[c].next

\* What the scheduler's documentation promises: the fields of an expression mean the
\* machine's local time, so a cron fires when the local clock shows what they say.
FiresInLocalTime ==
  \A d \in Dispatches :
    disp[d].pc = "body" /\ ~disp[d].client =>
      Matches(Fields[disp[d].expr], disp[d].due + Offset(disp[d].due))

\* A trigger the loop dispatches is later than every one it dispatched before, and than the
\* last restart: none is dispatched twice, and none that was missed is made up for.
TriggersMoveOn ==
  [][\A d \in Dispatches :
       disp[d].pc = "idle" /\ disp'[d].pc = "body" =>
         /\ disp'[d].due > booted
         /\ \A e \in Dispatches :
              disp[e].cron = disp'[d].cron => disp[e].due < disp'[d].due]_vars

\* An enabled cron does not stay due, whatever is edited while the loop reads the table or
\* waits, ...
DueIsHandled ==
  \A c \in Crons : []<>(daemon = "down" \/ c \notin Due)

\* ... unless its own edit was cut off before it woke the loop, and the loop still waits:
\* the one way to stay due, and it lasts no longer than that wait.
DueOrUnwoken ==
  \A c \in Crons : []<>(daemon = "down" \/ c \notin Due \/ c \in unwoken)

\* A Run does not hold the guard of its cron for ever, unless its user is asked for an
\* approval again and again, or the client that ran it went away (server.py:311).
GuardReleased ==
  \A c \in Crons, d \in Dispatches :
    []<>(inflight[c] # d \/ child[d] = "waiting" \/ disp[d].pc = "cut")
=============================================================================
