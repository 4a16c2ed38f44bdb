----------------------------- MODULE WorkerPool -----------------------------
(***************************************************************************)
(* The worker manager (daemon/workers/manager.py): one Hermes process per  *)
(* Session, from the spawn through the startup self-check to its death,    *)
(* against the Session's Turns, the idle reaper, deletion of the Session,  *)
(* the exit watcher, the fallback that reaps what a stopped Turn leaves    *)
(* behind, and the shutdown of the daemon.                                 *)
(*                                                                         *)
(* A step is the code from one await to the next.  A worker is a process   *)
(* id, used once; `kids' are the processes its tools start, each in a      *)
(* session of its own, so that a signal to the worker's process group does *)
(* not reach it.  Timers fire whenever they may.                           *)
(***************************************************************************)
EXTENDS Naturals, FiniteSets

CONSTANTS
  Sessions, Workers, Kids,
  Foreign,     \* kids the daemon may not signal (a sudo child)
  Stops,       \* background reap_stop_orphans tasks
  None,
  MaxTurns,    \* bound on the Turns of a session
  Profiles     \* sets of optional Behaviours; a behaviour of the model has one of them

Behaviours ==
  {"cancel", "delete", "shutdown", "exit", "idle", "kids",
   "disconnect"} \* the client that asked for a deletion is gone

ASSUME PoolAssumption ==
  /\ Foreign \subseteq Kids
  /\ None \notin Sessions \cup Workers
  /\ MaxTurns \in Nat
  /\ Profiles \subseteq SUBSET Behaviours

VARIABLES
  (* the manager *)
  reg,         \* _workers
  busy, gen, base,      \* Worker.busy, turn_generation, descendant_baseline
  teardown,    \* how far _terminate is with a worker
  watcher,     \* how far _watch_exit is
  sweep,       \* _reap_idle_loop: the worker being stopped, the sessions left
  daemon,      \* whether stop() has begun, or ended, and what it still has to stop
  (* the startup of a worker *)
  stage,       \* how far _spawn_and_check is
  probe,       \* _probe_second_layer
  snapshot,    \* jones_tools.json exists in a session's HERMES_HOME
  (* the callers, in sessions/service.py *)
  phase,       \* how far a session's Turn is
  turn,        \* its Turns so far
  using,       \* the worker of its Turn
  reap,        \* each reap_stop_orphans
  (* the operating system *)
  proc, group, \* the worker itself; some member of its process group
  owner,       \* the session a worker was spawned for
  kid,
  profile,
  (* history *)
  loaded,      \* workers whose plugin wrote jones_tools.json
  lost,        \* workers whose coroutine was cancelled while it held them
  stray,       \* workers let go otherwise: their start broke, or the daemon went down
  crashes,     \* how often on_worker_crash was called for a worker
  stopped,     \* workers somebody stopped on purpose
  hits         \* kids a reap signalled, with the reap

lifecycle == <<stage, probe, snapshot, loaded>>
os == <<proc, group, owner, kid>>
callers == <<phase, turn, using>>
marks == <<busy, gen, base>>
ownerless == <<lost, stray>>
vars == <<reg, marks, teardown, watcher, sweep, daemon, lifecycle, callers, reap, os,
          ownerless, crashes, stopped, hits, profile>>

NoReap == [pc |-> "idle", session |-> None, worker |-> None, turn |-> 0, begun |-> FALSE,
           gen |-> 0, base |-> {}, found |-> {}]

Init ==
  /\ reg = [s \in Sessions |-> None]
  /\ busy = [w \in Workers |-> FALSE]
  /\ gen = [w \in Workers |-> 0]
  /\ base = [w \in Workers |-> {}]
  /\ teardown = [w \in Workers |-> "no"]
  /\ watcher = [w \in Workers |-> "none"]
  /\ sweep = [worker |-> None, left |-> {}]
  /\ daemon = [state |-> "up", left |-> {}, worker |-> None]
  /\ stage = [w \in Workers |-> "unborn"]
  /\ probe = [w \in Workers |-> "none"]
  /\ snapshot = [s \in Sessions |-> FALSE]
  /\ loaded = {}
  /\ phase = [s \in Sessions |-> "none"]
  /\ turn = [s \in Sessions |-> 0]
  /\ using = [s \in Sessions |-> None]
  /\ reap = [r \in Stops |-> NoReap]
  /\ proc = [w \in Workers |-> "unborn"]
  /\ group = [w \in Workers |-> FALSE]
  /\ owner = [w \in Workers |-> None]
  /\ kid = [k \in Kids |-> [state |-> "unborn", worker |-> None, born |-> 0]]
  /\ profile \in Profiles
  /\ lost = {}
  /\ stray = {}
  /\ crashes = [w \in Workers |-> 0]
  /\ stopped = {}
  /\ hits = {}

-----------------------------------------------------------------------------
(* What several operations share.                                           *)

Alive(k) == kid[k].state \in {"child", "adrift"}

\* snapshot_worker_descendants: what the process tree shows.  A kid whose parent
\* died is adrift: alive, and no longer in anybody's tree.
Descendants(w) == {k \in Kids : kid[k].worker = w /\ kid[k].state = "child"}

\* mark_turn_started
MarkTurnStarted(w) ==
  /\ base' = [base EXCEPT ![w] = Descendants(w)]
  /\ gen' = [gen EXCEPT ![w] = @ + 1]

\* mark_busy, which does nothing for a session without a worker
MarkBusy(s, value) ==
  busy' = IF reg[s] = None THEN busy ELSE [busy EXCEPT ![reg[s]] = value]

\* stop_worker, up to the first await of _terminate
StopWorker(s) ==
  /\ reg' = [reg EXCEPT ![s] = None]
  /\ teardown' = [teardown EXCEPT ![reg[s]] = "term"]
  /\ stopped' = stopped \cup {reg[s]}

\* Mutant of FreshHome: the file of an earlier process stays.
StaleHome(s) == UNCHANGED snapshot

\* _prepare_hermes_home: a jones_tools.json of an earlier process is removed.
FreshHome(s) == snapshot' = [snapshot EXCEPT ![s] = FALSE]

\* _reap_process_group: TERM, poll the group (not the worker), KILL what is left of it.
ReapGroup(w) == group' = [group EXCEPT ![w] = FALSE]

\* Mutant of KillBatch: a signal that is not permitted ends the batch.
KillBatchOrRaise(batch) ==
  kid' = [k \in Kids |-> IF k \in batch /\ batch \cap Foreign = {}
                         THEN [kid[k] EXCEPT !.state = "dead", !.worker = None]
                         ELSE kid[k]]

\* _signal_pid for each of a batch: one that may not be signalled does not end the batch.
KillBatch(batch) ==
  kid' = [k \in Kids |-> IF k \in batch \ Foreign
                         THEN [kid[k] EXCEPT !.state = "dead", !.worker = None]
                         ELSE kid[k]]

\* Somebody is going to end the worker, as long as the daemon is there.
Held(w) ==
  /\ owner[w] # None
  /\ \/ reg[owner[w]] = w
     \/ phase[owner[w]] = "starting" /\ using[owner[w]] = w
     \/ teardown[w] = "term"
     \/ watcher[w] = "reaping"

\* What the updates of the probe prompt can amount to (_probe_event_verdict): the reserved
\* tool "ran", or nothing shows that it did; or the prompt itself failed.
Verdicts == {"ran", "quiet", "error"}

\* The worker's process ends (external); its kids are reparented.
ProcessEnds(w, survivors) ==
  /\ proc' = [proc EXCEPT ![w] = "dead"]
  /\ group' = [group EXCEPT ![w] = survivors]
  /\ kid' = [k \in Kids |-> IF k \in Descendants(w)
                            THEN [kid[k] EXCEPT !.state = "adrift", !.worker = None]
                            ELSE kid[k]]

-----------------------------------------------------------------------------
(* A Turn of the session (sessions/service.py).                             *)

\* Mutant of NewTurn: one Turn too many.
NewTurnUnbounded(s) ==
  /\ phase[s] = "none"
  /\ turn[s] <= MaxTurns
  /\ daemon.state # "down"
  /\ phase' = [phase EXCEPT ![s] = "created"]
  /\ turn' = [turn EXCEPT ![s] = @ + 1]
  /\ UNCHANGED <<reg, marks, teardown, watcher, sweep, daemon, lifecycle, using, reap, os,
                 ownerless, crashes, stopped, hits, profile>>

\* The Turn's task is created; its first line has not run.
NewTurn(s) ==
  /\ phase[s] = "none"
  /\ turn[s] < MaxTurns
  /\ daemon.state # "down"
  /\ phase' = [phase EXCEPT ![s] = "created"]
  /\ turn' = [turn EXCEPT ![s] = @ + 1]
  /\ UNCHANGED <<reg, marks, teardown, watcher, sweep, daemon, lifecycle, using, reap, os,
                 ownerless, crashes, stopped, hits, profile>>

\* The first line of _run_turn: baseline the descendants, if there is a worker.
TurnBegins(s) ==
  /\ phase[s] = "created"
  /\ phase' = [phase EXCEPT ![s] = "begun"]
  /\ IF reg[s] = None THEN UNCHANGED <<base, gen>> ELSE MarkTurnStarted(reg[s])
  /\ UNCHANGED <<reg, busy, teardown, watcher, sweep, daemon, lifecycle, turn, using, reap,
                 os, ownerless, crashes, stopped, hits, profile>>

TurnBusy(s) ==
  /\ phase[s] = "begun"
  /\ phase' = [phase EXCEPT ![s] = "busy"]
  /\ MarkBusy(s, TRUE)
  /\ UNCHANGED <<reg, base, gen, teardown, watcher, sweep, daemon, lifecycle, turn, using, reap,
                 os, ownerless, crashes, stopped, hits, profile>>

\* ensure_started returns the registered worker, without an await; it is baselined again.
Reuse(s) ==
  /\ phase[s] = "busy"
  /\ reg[s] # None
  /\ phase' = [phase EXCEPT ![s] = "running"]
  /\ using' = [using EXCEPT ![s] = reg[s]]
  /\ MarkTurnStarted(reg[s])
  /\ UNCHANGED <<reg, busy, teardown, watcher, sweep, daemon, lifecycle, turn, reap, os,
                 ownerless, crashes, stopped, hits, profile>>

\* ensure_started, no worker: HERMES_HOME is prepared (and an old jones_tools.json
\* removed), the process spawned, initialize sent.
Spawn(s, w) ==
  /\ phase[s] = "busy"
  /\ reg[s] = None
  /\ proc[w] = "unborn"
  /\ phase' = [phase EXCEPT ![s] = "starting"]
  /\ using' = [using EXCEPT ![s] = w]
  /\ stage' = [stage EXCEPT ![w] = "handshake"]
  /\ proc' = [proc EXCEPT ![w] = "up"]
  /\ group' = [group EXCEPT ![w] = TRUE]
  /\ owner' = [owner EXCEPT ![w] = s]
  /\ FreshHome(s)
  /\ stray' = IF daemon.state = "down" THEN stray \cup {w} ELSE stray
  /\ UNCHANGED <<reg, marks, teardown, watcher, sweep, daemon, probe, loaded, turn, reap,
                 kid, lost, crashes, stopped, hits, profile>>

-----------------------------------------------------------------------------
(* _spawn_and_check and the two layers of the self-check.                   *)

Starting(s, w) == phase[s] = "starting" /\ using[s] = w /\ teardown[w] = "no"

StartUnchanged ==
  UNCHANGED <<reg, marks, watcher, sweep, daemon, turn, using, reap, os, ownerless, crashes,
              stopped, hits, profile>>

\* initialize and session/new were answered, in mode "default": the probe prompt is sent.
Handshake(s, w) ==
  /\ Starting(s, w)
  /\ stage[w] = "handshake"
  /\ stage' = [stage EXCEPT ![w] = "check"]
  /\ probe' = [probe EXCEPT ![w] = "sent"]
  /\ UNCHANGED <<snapshot, loaded, teardown, phase>>
  /\ StartUnchanged

\* The plugin's on_session_start hook, which the probe prompt triggers (external).
WriteSnapshot(w) ==
  /\ proc[w] = "up"
  /\ probe[w] # "none"
  /\ w \notin loaded
  /\ snapshot' = [snapshot EXCEPT ![owner[w]] = TRUE]
  /\ loaded' = loaded \cup {w}
  /\ UNCHANGED <<stage, probe, teardown, phase>>
  /\ StartUnchanged

\* The probe prompt is answered, or cancelled after its budget, and the updates seen so
\* far are judged.  An error of the prompt returns before anything is judged.
ProbeEnds(w, verdict) ==
  /\ probe[w] = "sent"
  /\ verdict = "ran" => proc[w] = "up"
  /\ probe' = [probe EXCEPT ![w] = verdict]
  /\ UNCHANGED <<stage, snapshot, loaded, teardown, phase>>
  /\ StartUnchanged

\* _wait_for_tools_snapshot
SnapshotSeen(s) == snapshot[s]

\* Both layers are through and the process lives: ask for a second ACP session, one
\* that no session/cancel has touched.
CheckPasses(s, w) ==
  /\ Starting(s, w)
  /\ stage[w] = "check"
  /\ SnapshotSeen(s)
  /\ probe[w] \notin {"sent", "ran"}
  /\ proc[w] = "up"
  /\ stage' = [stage EXCEPT ![w] = "again"]
  /\ UNCHANGED <<probe, snapshot, loaded, teardown, phase>>
  /\ StartUnchanged

\* Mutant of StartFails: a failed startup leaves the process alone.
StartFailsLeavingIt(s, w) ==
  /\ Starting(s, w)
  /\ stage[w] \in {"handshake", "check", "again"}
  /\ stage' = [stage EXCEPT ![w] = "refused"]
  /\ probe' = [probe EXCEPT ![w] = IF @ = "sent" THEN "dropped" ELSE @]
  /\ teardown' = [teardown EXCEPT ![w] = "done"]
  /\ UNCHANGED <<snapshot, loaded, phase>>
  /\ StartUnchanged

\* Some await of the startup times out or fails: the probe is cancelled with the check.
StartFails(s, w) ==
  /\ Starting(s, w)
  /\ stage[w] \in {"handshake", "check", "again"}
  /\ stage' = [stage EXCEPT ![w] = "refused"]
  /\ probe' = [probe EXCEPT ![w] = IF @ = "sent" THEN "dropped" ELSE @]
  /\ teardown' = [teardown EXCEPT ![w] = "term"]
  /\ UNCHANGED <<snapshot, loaded, phase>>
  /\ StartUnchanged

\* The worker has died, and a write to its pipe raises ConnectionResetError, which is not
\* among the exceptions that lead to _terminate either.  In the check it is the probe's
\* prompt or cancel, awaited when the snapshot is there.
StartBreaks(s, w) ==
  /\ Starting(s, w)
  /\ proc[w] = "dead"
  /\ stage[w] \in {"handshake", "check", "again"}
  /\ stage[w] = "check" => SnapshotSeen(s)
  /\ phase' = [phase EXCEPT ![s] = "none"]
  /\ stage' = [stage EXCEPT ![w] = "refused"]
  /\ probe' = [probe EXCEPT ![w] = IF @ = "sent" THEN "dropped" ELSE @]
  /\ stray' = stray \cup {w}
  /\ UNCHANGED <<reg, marks, teardown, watcher, sweep, daemon, snapshot, loaded, turn, using,
                 reap, os, lost, crashes, stopped, hits, profile>>

\* _terminate is through, and WorkerStartupError ends the Turn.
StartRefused(s, w) ==
  /\ phase[s] = "starting"
  /\ using[s] = w
  /\ stage[w] = "refused"
  /\ teardown[w] = "done"
  /\ phase' = [phase EXCEPT ![s] = "none"]
  /\ UNCHANGED <<lifecycle, teardown>>
  /\ StartUnchanged

\* The second session exists: the production handlers are bound, the worker registered
\* and watched, and, with no await between, baselined for the Turn.
Deliver(s, w) ==
  /\ Starting(s, w)
  /\ stage[w] = "again"
  /\ stage' = [stage EXCEPT ![w] = "ready"]
  /\ reg' = [reg EXCEPT ![s] = w]
  /\ watcher' = [watcher EXCEPT ![w] = "watching"]
  /\ phase' = [phase EXCEPT ![s] = "running"]
  /\ MarkTurnStarted(w)
  /\ UNCHANGED <<busy, teardown, sweep, daemon, probe, snapshot, loaded, turn, using,
                 reap, os, ownerless, crashes, stopped, hits, profile>>

\* The Turn's task is cancelled inside ensure_started: CancelledError is not among the
\* exceptions that lead to _terminate.
CancelStart(s, w) ==
  /\ "cancel" \in profile
  /\ phase[s] = "starting"
  /\ using[s] = w
  /\ phase' = [phase EXCEPT ![s] = "none"]
  /\ stage' = [stage EXCEPT ![w] = "refused"]
  /\ teardown' = [teardown EXCEPT ![w] = IF @ = "term" THEN "cut" ELSE @]
  /\ probe' = [probe EXCEPT ![w] = IF @ = "sent" THEN "dropped" ELSE @]
  /\ lost' = lost \cup {w}
  /\ UNCHANGED <<reg, marks, watcher, sweep, daemon, snapshot, loaded, turn, using, reap, os,
                 stray, crashes, stopped, hits, profile>>

-----------------------------------------------------------------------------
(* A running Turn: its tools, its end, and a stop.                          *)

\* The last Turn of a session whose first line has run.
Begun(s) == IF phase[s] = "created" THEN turn[s] - 1 ELSE turn[s]

\* A tool of the agent starts a process (external).
StartKid(s, k) ==
  /\ "kids" \in profile
  /\ phase[s] = "running"
  /\ proc[using[s]] = "up"
  /\ kid[k].state = "unborn"
  /\ kid' = [kid EXCEPT ![k] = [state |-> "child", worker |-> using[s], born |-> Begun(s)]]
  /\ UNCHANGED <<reg, marks, teardown, watcher, sweep, daemon, lifecycle, callers, reap, proc,
                 group, owner, ownerless, crashes, stopped, hits, profile>>

\* A kid forks, also while its Turn is being stopped or after it (external).
Fork(k, parent) ==
  /\ kid[parent].state = "child"
  /\ kid[k].state = "unborn"
  /\ kid' = [kid EXCEPT ![k] = [kid[parent] EXCEPT !.born = Begun(owner[kid[parent].worker])]]
  /\ UNCHANGED <<reg, marks, teardown, watcher, sweep, daemon, lifecycle, callers, reap, proc,
                 group, owner, ownerless, crashes, stopped, hits, profile>>

\* A kid exits, or is reparented by Hermes's own clean-up (external).
KidLeaves(k, state) ==
  /\ Alive(k)
  /\ state # kid[k].state
  /\ kid' = [kid EXCEPT ![k].state = state, ![k].worker = None]
  /\ UNCHANGED <<reg, marks, teardown, watcher, sweep, daemon, lifecycle, callers, reap, proc,
                 group, owner, ownerless, crashes, stopped, hits, profile>>

\* _advance_queue: the Turn is over, because its prompt returned or raised (the client
\* of a stopped worker fails it), or because it never came to one.
TurnEnds(s) ==
  /\ phase[s] \in {"begun", "busy", "running"}
  /\ phase' = [phase EXCEPT ![s] = "none"]
  /\ using' = [using EXCEPT ![s] = None]
  /\ MarkBusy(s, FALSE)
  /\ UNCHANGED <<reg, base, gen, teardown, watcher, sweep, daemon, lifecycle, turn, reap, os,
                 ownerless, crashes, stopped, hits, profile>>

\* SessionService.stop: the snapshot is taken before session/cancel is sent; the reap is
\* scheduled if it holds anything the Turn's baseline does not.
Stop(s, r) ==
  /\ phase[s] \in {"created", "begun", "busy", "starting", "running"}
  /\ reap[r].pc = "idle"
  /\ reg[s] # None
  /\ Descendants(reg[s]) \ base[reg[s]] # {}
  /\ reap' = [reap EXCEPT ![r] =
       [pc |-> "grace", session |-> s, worker |-> reg[s], turn |-> turn[s],
        begun |-> phase[s] # "created", gen |-> gen[reg[s]], base |-> base[reg[s]],
        found |-> Descendants(reg[s])]]
  /\ UNCHANGED <<reg, marks, teardown, watcher, sweep, daemon, lifecycle, callers, os, ownerless,
                 crashes, stopped, hits, profile>>

\* Mutant of ReapTerm: a later Turn of the same worker is not noticed.
ReapTermAnyTurn(r) ==
  LET now == reap[r].worker
      again == IF reg[reap[r].session] = now THEN Descendants(now) ELSE {}
      survivors == {k \in (reap[r].found \cup again) \ reap[r].base : Alive(k)}
  IN /\ reap[r].pc = "grace"
     /\ reap' = [reap EXCEPT ![r].pc = IF survivors = {} THEN "done" ELSE "term",
                             ![r].found = survivors]
     /\ hits' = hits \cup {[kid |-> k, reap |-> r] : k \in survivors}
     /\ UNCHANGED <<reg, marks, teardown, watcher, sweep, daemon, lifecycle, callers, os, ownerless,
                    crashes, stopped, profile>>

\* reap_stop_orphans after Hermes's own grace period: look again, unless the worker is
\* another one or a later Turn has been marked; SIGTERM what survives.
ReapTerm(r) ==
  LET now == reap[r].worker
      same == reg[reap[r].session] = now /\ gen[now] = reap[r].gen
      again == IF same THEN Descendants(now) ELSE {}
      survivors == {k \in (reap[r].found \cup again) \ reap[r].base : Alive(k)}
  IN /\ reap[r].pc = "grace"
     /\ reap' = [reap EXCEPT ![r].pc = IF survivors = {} THEN "done" ELSE "term",
                             ![r].found = survivors]
     /\ hits' = hits \cup {[kid |-> k, reap |-> r] : k \in survivors}
     /\ UNCHANGED <<reg, marks, teardown, watcher, sweep, daemon, lifecycle, callers, os, ownerless,
                    crashes, stopped, profile>>

\* ... and SIGKILL what did not go.  A signal that is not permitted is noted and the rest
\* of the batch carries on.
ReapKill(r) ==
  /\ reap[r].pc = "term"
  /\ reap' = [reap EXCEPT ![r].pc = "done"]
  /\ KillBatch(reap[r].found)
  /\ UNCHANGED <<reg, marks, teardown, watcher, sweep, daemon, lifecycle, callers, proc, group,
                 owner, ownerless, crashes, stopped, hits, profile>>

-----------------------------------------------------------------------------
(* The death of a worker.                                                   *)

\* The worker exits by itself, with or without leaving members of its group (external).
Exit(w, survivors) ==
  /\ "exit" \in profile
  /\ proc[w] = "up"
  /\ ProcessEnds(w, survivors)
  /\ UNCHANGED <<reg, marks, teardown, watcher, sweep, daemon, lifecycle, callers, reap, owner,
                 ownerless, crashes, stopped, hits, profile>>

\* Mutant of WatchExit: it does not ask whether the worker is still the registered one.
WatchExitUnasked(w) ==
  /\ watcher[w] = "watching"
  /\ proc[w] = "dead"
  /\ reg' = [reg EXCEPT ![owner[w]] = None]
  /\ watcher' = [watcher EXCEPT ![w] = "reaping"]
  /\ UNCHANGED <<marks, teardown, sweep, daemon, lifecycle, callers, reap, os, ownerless, crashes,
                 stopped, hits, profile>>

\* _watch_exit wakes: a worker that is no longer registered was stopped on purpose.
WatchExit(w) ==
  /\ watcher[w] = "watching"
  /\ proc[w] = "dead"
  /\ IF reg[owner[w]] = w
     THEN /\ reg' = [reg EXCEPT ![owner[w]] = None]
          /\ watcher' = [watcher EXCEPT ![w] = "reaping"]
     ELSE /\ watcher' = [watcher EXCEPT ![w] = "over"]
          /\ UNCHANGED reg
  /\ UNCHANGED <<marks, teardown, sweep, daemon, lifecycle, callers, reap, os, ownerless, crashes,
                 stopped, hits, profile>>

\* Mutant of ReportCrash: nobody is told.
ReportCrashSilently(w) ==
  /\ watcher[w] = "reaping"
  /\ watcher' = [watcher EXCEPT ![w] = "over"]
  /\ ReapGroup(w)
  /\ UNCHANGED <<reg, marks, teardown, sweep, daemon, lifecycle, callers, reap, proc, owner, kid,
                 ownerless, crashes, stopped, hits, profile>>

\* The group is reaped, TERM before KILL; then the sessions are told.
ReportCrash(w) ==
  /\ watcher[w] = "reaping"
  /\ watcher' = [watcher EXCEPT ![w] = "over"]
  /\ ReapGroup(w)
  /\ crashes' = [crashes EXCEPT ![w] = @ + 1]
  /\ UNCHANGED <<reg, marks, teardown, sweep, daemon, lifecycle, callers, reap, proc, owner, kid,
                 ownerless, stopped, hits, profile>>

\* _terminate has closed the client; _reap_process_group sends TERM, polls the group, and
\* sends KILL to what is left of it.
TeardownEnds(w) ==
  /\ teardown[w] = "term"
  /\ teardown' = [teardown EXCEPT ![w] = "done"]
  /\ IF proc[w] = "up" THEN ProcessEnds(w, FALSE)
     ELSE ReapGroup(w) /\ UNCHANGED <<proc, kid>>
  /\ UNCHANGED <<reg, marks, watcher, sweep, daemon, lifecycle, callers, reap, owner, ownerless,
                 crashes, stopped, hits, profile>>

-----------------------------------------------------------------------------
(* Who stops workers on purpose.                                            *)

\* The last use of a worker that is not busy may be any time ago.
Idle == {s \in Sessions : reg[s] # None /\ ~busy[reg[s]]}

\* _reap_idle_loop wakes, lists the workers idle for too long and stops the first.
SweepScan(s) ==
  /\ "idle" \in profile
  /\ daemon.state = "up"
  /\ sweep.worker = None
  /\ s \in Idle
  /\ \E others \in SUBSET (Idle \ {s}) : sweep' = [worker |-> reg[s], left |-> others]
  /\ StopWorker(s)
  /\ UNCHANGED <<marks, watcher, daemon, lifecycle, callers, reap, os, ownerless, crashes, hits,
                 profile>>

\* The last one is down: the next of the list, which is not looked at again.
SweepNext ==
  /\ daemon.state = "up"
  /\ sweep.worker # None
  /\ teardown[sweep.worker] = "done"
  /\ \/ \E s \in sweep.left :
          /\ reg[s] # None
          /\ sweep' = [worker |-> reg[s], left |-> sweep.left \ {s}]
          /\ StopWorker(s)
     \/ /\ \A s \in sweep.left : reg[s] = None
        /\ sweep' = [worker |-> None, left |-> {}]
        /\ UNCHANGED <<reg, teardown, stopped>>
  /\ UNCHANGED <<marks, watcher, daemon, lifecycle, callers, reap, os, ownerless, crashes, hits,
                 profile>>

\* delete_guard: under the session's lock, when no Turn runs.
Delete(s) ==
  /\ "delete" \in profile
  /\ phase[s] = "none"
  /\ IF reg[s] = None THEN UNCHANGED <<reg, teardown, stopped, using>>
     ELSE StopWorker(s) /\ using' = [using EXCEPT ![s] = reg[s]]
  /\ phase' = [phase EXCEPT ![s] = IF reg[s] = None THEN "deleted" ELSE "deleting"]
  /\ UNCHANGED <<marks, watcher, sweep, daemon, lifecycle, turn, reap, os, ownerless, crashes, hits,
                 profile>>

Deleted(s) ==
  /\ phase[s] = "deleting"
  /\ teardown[using[s]] = "done"
  /\ phase' = [phase EXCEPT ![s] = "deleted"]
  /\ UNCHANGED <<reg, marks, teardown, watcher, sweep, daemon, lifecycle, turn, using, reap, os,
                 ownerless, crashes, stopped, hits, profile>>

\* The client is gone, and session.delete with it: _terminate is cut short, and the
\* worker is not registered any more.
DeleteCut(s) ==
  /\ "disconnect" \in profile
  /\ phase[s] = "deleting"
  /\ phase' = [phase EXCEPT ![s] = "none"]
  /\ teardown' = [teardown EXCEPT ![using[s]] = IF @ = "term" THEN "cut" ELSE @]
  /\ stray' = stray \cup {using[s]}
  /\ UNCHANGED <<reg, marks, watcher, sweep, daemon, lifecycle, turn, using, reap, os, lost,
                 crashes, stopped, hits, profile>>

\* stop(): the idle reaper is cancelled, also when it is about to stop a worker, and the
\* registered workers are listed.
Shutdown ==
  /\ "shutdown" \in profile
  /\ daemon.state = "up"
  /\ daemon' = [state |-> "stopping", left |-> {s \in Sessions : reg[s] # None}, worker |-> None]
  /\ sweep' = [worker |-> None, left |-> {}]
  /\ IF sweep.worker # None /\ teardown[sweep.worker] = "term"
     THEN /\ teardown' = [teardown EXCEPT ![sweep.worker] = "cut"]
          /\ lost' = lost \cup {sweep.worker}
     ELSE UNCHANGED <<teardown, lost>>
  /\ UNCHANGED <<reg, marks, watcher, lifecycle, callers, reap, os, stray, crashes, stopped,
                 hits, profile>>

\* stop() stops one listed worker after the other, and cancels the background tasks:
\* a watcher that was reaping the group of a dead worker is cut short.  Nobody waits for a
\* worker that is being started or taken down by others, or was delivered since the list.
ShutdownStep ==
  /\ daemon.state = "stopping"
  /\ daemon.worker # None => teardown[daemon.worker] = "done"
  /\ \/ \E s \in daemon.left :
          /\ reg[s] # None
          /\ daemon' = [daemon EXCEPT !.left = @ \ {s}, !.worker = reg[s]]
          /\ StopWorker(s)
          /\ UNCHANGED <<watcher, ownerless>>
     \/ /\ \A s \in daemon.left : reg[s] = None
        /\ daemon' = [state |-> "down", left |-> {}, worker |-> None]
        /\ lost' = lost \cup {w \in Workers : watcher[w] = "reaping"}
        /\ stray' = stray \cup {w \in Workers : Held(w)}
        /\ watcher' = [w \in Workers |-> "over"]
        /\ UNCHANGED <<reg, teardown, stopped>>
  /\ UNCHANGED <<marks, sweep, lifecycle, callers, reap, os, crashes, hits,
                 profile>>

-----------------------------------------------------------------------------
StartStep(s, w) ==
  \/ Handshake(s, w) \/ CheckPasses(s, w) \/ StartFails(s, w) \/ StartBreaks(s, w)
  \/ StartRefused(s, w) \/ Deliver(s, w)

TurnStep(s) ==
  \/ TurnBegins(s) \/ TurnBusy(s) \/ Reuse(s)
  \/ \E w \in Workers : Spawn(s, w) \/ StartStep(s, w)

Environment ==
  \/ \E w \in Workers :
       \/ WriteSnapshot(w)
       \/ \E survivors \in BOOLEAN : Exit(w, survivors)
  \/ \E k \in Kids :
       \/ \E s \in Sessions : StartKid(s, k)
       \/ \E parent \in Kids : Fork(k, parent)
       \/ \E state \in {"adrift", "dead"} : KidLeaves(k, state)

Manager ==
  \/ \E w \in Workers :
       \/ TeardownEnds(w) \/ WatchExit(w) \/ ReportCrash(w)
       \/ \E verdict \in Verdicts : ProbeEnds(w, verdict)
  \/ \E r \in Stops : ReapTerm(r) \/ ReapKill(r)
  \/ SweepNext \/ ShutdownStep

Next ==
  \/ \E s \in Sessions :
       \/ NewTurn(s) \/ TurnStep(s) \/ TurnEnds(s) \/ SweepScan(s) \/ Delete(s) \/ Deleted(s)
       \/ DeleteCut(s)
       \/ \E w \in Workers : CancelStart(s, w)
       \/ \E r \in Stops : Stop(s, r)
  \/ Manager
  \/ Environment
  \/ Shutdown

Spec == Init /\ [][Next]_vars

\* Timers fire: whatever the manager awaits, it goes on, at the latest by a timeout.  The
\* worker need answer nothing, Turns need not end, and nobody need ask for anything.
Fairness ==
  /\ \A s \in Sessions :
       WF_vars(\E w \in Workers : StartFails(s, w) \/ StartBreaks(s, w) \/ StartRefused(s, w))
  /\ \A w \in Workers :
       WF_vars(TeardownEnds(w) \/ WatchExit(w) \/ ReportCrash(w) \/ ProbeEnds(w, "quiet"))
  /\ \A r \in Stops : WF_vars(ReapTerm(r) \/ ReapKill(r))
  /\ WF_vars(SweepNext \/ ShutdownStep)

FairSpec == Spec /\ Fairness

-----------------------------------------------------------------------------
TypeOK ==
  /\ reg \in [Sessions -> Workers \cup {None}]
  /\ busy \in [Workers -> BOOLEAN]
  /\ gen \in [Workers -> Nat]
  /\ base \in [Workers -> SUBSET Kids]
  /\ teardown \in [Workers -> {"no", "term", "cut", "done"}]
  /\ watcher \in [Workers -> {"none", "watching", "reaping", "over"}]
  /\ sweep \in [worker : Workers \cup {None}, left : SUBSET Sessions]
  /\ daemon \in [state : {"up", "stopping", "down"}, left : SUBSET Sessions,
                 worker : Workers \cup {None}]
  /\ stage \in [Workers -> {"unborn", "handshake", "check", "again", "ready", "refused"}]
  /\ probe \in [Workers -> {"none", "sent", "quiet", "ran", "error", "dropped"}]
  /\ snapshot \in [Sessions -> BOOLEAN]
  /\ loaded \subseteq Workers
  /\ phase \in [Sessions -> {"none", "created", "begun", "busy", "starting", "running",
                             "deleting", "deleted"}]
  /\ turn \in [Sessions -> 0..MaxTurns]
  /\ using \in [Sessions -> Workers \cup {None}]
  /\ reap \in [Stops -> [pc : {"idle", "grace", "term", "done"},
                         session : Sessions \cup {None}, worker : Workers \cup {None},
                         turn : Nat, begun : BOOLEAN, gen : Nat, base : SUBSET Kids,
                         found : SUBSET Kids]]
  /\ proc \in [Workers -> {"unborn", "up", "dead"}]
  /\ group \in [Workers -> BOOLEAN]
  /\ owner \in [Workers -> Sessions \cup {None}]
  /\ kid \in [Kids -> [state : {"unborn", "child", "adrift", "dead"},
                       worker : Workers \cup {None}, born : Nat]]
  /\ profile \in Profiles
  /\ lost \subseteq Workers
  /\ stray \subseteq Workers
  /\ crashes \in [Workers -> Nat]
  /\ stopped \subseteq Workers
  /\ hits \subseteq [kid : Kids, reap : Stops]

\* No Hermes process outlives everybody who would end it: while the daemon is there, what
\* lives of a worker's group belongs to the registered worker, to one being started, or to
\* one being taken down, and nothing lives on without the daemon.  Violated.
NoOrphanWorker ==
  \A w \in Workers : group[w] \/ proc[w] = "up" => Held(w) /\ daemon.state # "down"

\* Where the code keeps it: whatever stops, exits, sweeps and starts interleave, a process
\* without an owner is one whose start, stop or report was cut short, whose start met a
\* broken pipe, or that the daemon did not wait for when it went down.
OrphanWasLetGo ==
  \A w \in Workers :
    group[w] \/ proc[w] = "up" =>
      (Held(w) /\ daemon.state # "down") \/ w \in lost \cup stray

\* A worker is delivered only if its own plugin proved to be loaded, its probe is not in
\* flight any more and was not seen to run by the time it was judged: a file left by an
\* earlier process of the session never vouches for it.  Only a worker that was lost in its
\* startup can still write to the same HERMES_HOME.
DeliveredIsVetted ==
  \A w \in Workers :
    stage[w] = "ready" =>
      /\ w \in loaded \/ \E v \in lost : owner[v] = owner[w] /\ v \in loaded
      /\ probe[w] \notin {"sent", "ran"}

\* on_worker_crash is called once for a worker that dies by itself, and never for one that
\* somebody stopped, however its exit and the stop interleave.
CrashMeansCrash ==
  \A w \in Workers : crashes[w] <= 1 /\ (crashes[w] = 1 => w \notin stopped)

\* What a stop has signalled did not exist when the stopped Turn began, and is not of a
\* later Turn either: servers and background terminals of other Turns survive.  The
\* exception is a stop that comes before the first line of the Turn (service.py:1652).
InnocentSpared ==
  \A h \in hits : reap[h.reap].begun => kid[h.kid].born = reap[h.reap].turn

\* What the documents promise: the idle reaper stops no worker in the middle of a Turn.
BusyNeverReaped ==
  [][\A w \in Workers :
       sweep'.worker = w /\ sweep.worker # w => phase[owner[w]] # "running"]_vars

\* A registered worker that dies is reported, or was stopped, or the daemon shuts down.
CrashIsTold ==
  \A w \in Workers :
    stage[w] = "ready" /\ proc[w] = "dead"
      ~> (crashes[w] = 1 \/ w \in stopped \/ daemon.state = "down")

\* What was alive of a stopped Turn when it was stopped is gone some day, except what the
\* daemon may not signal, and one process it may not signal does not save the others.
StopLeavesNothing ==
  \A r \in Stops, k \in Kids \ Foreign :
    reap[r].pc = "grace" /\ k \in reap[r].found \ reap[r].base ~> ~Alive(k)
=============================================================================
