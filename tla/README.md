# Jones Agent in TLA+

Jones Agent runs an autonomous agent on the user's machine. An Electron shell talks JSON-RPC over
a local socket to a Python daemon (`daemon/src/jones_daemon`), which keeps Sessions, Turns, Runs
and a message queue in SQLite and drives one Hermes worker process per Session over ACP (stdio).
This directory models the parts of the daemon whose correctness depends on the order of events,
checks them with TLC, and proves what TLC can only check on small instances.

## 1. Inventory

Everything in the daemon runs on **one asyncio loop**; database calls go through **one
single-thread executor** (`store/db.py`). So the unit of atomicity is the code from one `await`
to the next, and each hazard below is something that happens *at* an await. One thing can happen at any await
of a client's request: the client disconnects, and `rpc/server.py:310-314` cancels its handlers where they
are, while the database thread goes on with what it was given. Every component with handlers has this as an
action.

| component | state it keeps | operations | interacts with |
|---|---|---|---|
| Turn machine (`sessions/service.py`, `queries.py`) | `_active_turns`, `_turn_tasks`, `_session_locks`, `_TurnContext`; rows of `turns`, `runs`, `queue_items`, `sessions.queue_suspended_reason` | send, stop, retry, abandon, queue edit / resume, `_run_turn`, `_terminate_run`, `_advance_queue`, watchdogs, crash handler, startup | workers (prompt, cancel), RPC clients (broadcasts), database |
| User gate (`sessions/service.py`) | `_pending_permissions`, rows of `permission_decisions` | request, decide, timeout, stop, crash | Hermes read loop, clients |
| Review and terminal gate (`permissions/review.py`) | none (pure) | classify a tool call | user gate |
| Rule gate (`kernel/plugin/jones_gate`) | a config snapshot on disk | hard deny, policy, rules, transparency | written by the daemon, read in Hermes |
| Workers (`workers/manager.py`) | registry of processes, busy flags, generations | ensure_started, stop_worker, idle reaper, exit watcher, orphan reaping | Turn machine |
| ACP client (`kernel/acp_client.py`) | pending futures, read loop | prompt, cancel, permission callback | worker process |
| Cron scheduler (`scheduler/`) | `_in_flight`, rows of `crons` | tick, dispatch, watch, record outcome, upsert, delete | Turn machine (child sessions) |
| RPC server (`rpc/server.py`) | connections, subscriptions, in-flight counters | dispatch, broadcast, close, cancel a lost client's handlers | desktop, every component with handlers |
| Store (`store/`) | schema version, user data on disk | migrate, delete / export session, project, all | vault, files |
| Replay (`replay/`) | prompt snapshots on disk | write, retention sweep | Turn machine |
| Errors (`errors/classify.py`) | none (pure) | classify, redact | Turn machine |
| Config, projects, agents, providers, skills, capabilities | JSON files, rows, Chrome process | CRUD and look-ups | Turn machine, RPC |
| Desktop main (`main/rpcClient.ts`, `daemonLifecycle.ts`) | socket, pending calls, back-off, one recovery | connect, call, heartbeat, recover | daemon |
| Desktop renderer (`store/chatStore.ts`, `replayStore.ts`) | messages, queue, run state per session | load snapshot, apply notification | desktop main |

What is hard, per component, and at which line, is the `hazards` list of `PROJECT.json`; it names
the property that would catch each one, or why none does yet.

## 2. Modules

| module | what it is |
|---|---|
| `SessionTurns` | the Turn machine of one Session, at the granularity of awaits |
| `TurnQueue` | what a Session promises about messages, with no coroutine, lock, worker or database; `SessionTurns` implements it |
| `MCSessionTurns` | values and symmetry for TLC |
| `SessionTurnsProofs` | the lock discipline of `SessionTurns`, what becomes of Runs and messages, and its theorems |
| `SessionTurnsQueueProofs` | that no queue is stranded, and that `SessionTurns` implements `TurnQueue`; extends `SessionTurnsProofs` |
| `TurnQueueProofs` | the promise itself is sound |
| `UserGate` | the permission requests of one Session's agent and everything that may answer them |
| `MCUserGate`, `UserGateProofs` | its values for TLC; its inductive invariants and theorems |
| `WorkerPool`, `MCWorkerPool` | the worker processes of Sessions, from spawn and start-up check to their reaping, over a process table |
| `CronExpr` | cron expressions and their next occurrence over a calendar; no state |
| `CronScheduler`, `MCCronScheduler` | the timer loop, dispatches and watches of the scheduler; extends `CronExpr` |
| `WorkerPoolProofs`, `CronSchedulerProofs` | the inductive invariants and theorems of `WorkerPool` and `CronScheduler` |
| `CommandRisk` | what the gates tell of a command line or a tool call by looking at it; no state |
| `RuleGate`, `MCRuleGate`, `RuleGateProofs` | how a call comes to run without the user: daemon, configuration file and plugin composed; extends `CommandRisk`; its theorems |
| `Maintenance`, `MCMaintenance` | deletions and exports next to Turns, payload writers and the retention sweep |
| `MaintenanceProofs` | its inductive invariants and theorems |

The modules meet where the code does: `worker` of `SessionTurns` and of `Maintenance` abstracts the
registration of `WorkerPool`; the Turns of `UserGate`, `WorkerPool`, `RuleGate` and `Maintenance` are
`SessionTurns` reduced to what the other side can see of a Turn; a request `RuleGate` hands to the user is
one of `UserGate`'s; the child session of a dispatch in `CronScheduler` is a Session of its own, of which
only the newest Turn and its end are seen.

### SessionTurns

A coroutine is one of: the `_run_turn` task of a Turn; an RPC request of a client; the
`_check_run_durations` sweep (`Duration`); the step cap on the ACP read loop (`Steps`);
`_on_worker_crash` (`Crash`). `pc[p]` names the await `p` is suspended at, and an action is the code
from that await to the next one, so the interleavings of these coroutines at their awaits are
behaviours, a client's disconnection at any of its awaits included. What is left out is listed below. The
variables keep the source's names where they have one:

| variable | code |
|---|---|
| `queue`, `turnStatus`, `runStatus`, `runKind`, `suspended` | `queue_items`, `turns.status`, `runs.status`, `runs.terminated_kind`, `sessions.queue_suspended_reason` |
| `active`, `task`, `lockQ` | `_active_turns`, `_turn_tasks`, and holder and waiters of `_session_locks` |
| `intent`, `endedKind`, `announced` | `_TurnContext.termination_intent`, `.terminated_kind`, `_terminated_broadcast_run_ids` |
| `pc`, `ahead`, `arg`, `seen`, `hint`, `captured` | where each coroutine is, and the locals it carries across an await |
| `worker`, `reply`, `sticky` | external: is a worker registered, what the agent does with a prompt, an interrupt kept by an idle agent |
| `cutOff` | history: Turns that lost the coroutine in charge of them before it could settle them |
| `notices`, `alarms`, `restarts` | history, for properties and bounds |

How awaits are modelled:

- *Database.* One executor thread serves calls in order. A call takes effect in the step that makes
  it, and `ahead[p]` holds the coroutines whose calls precede `p`'s and are not over, so `p` resumes
  after them. Broadcasts are ordered the same way: they share the subscribers' connections.
- *Lock.* `asyncio.Lock` is FIFO. `lockQ` holds the holder and the waiters; a free lock is taken
  without an await, so a cancellation at `"lock"` hits only a coroutine that really waits.
- *Cancellation.* `task.cancel()` raises at the await the task is suspended at. Before the first step
  the body, and its `finally`, never run (`_start_turn`); in the body the `finally` runs
  `_advance_queue`; inside it, a waiter leaves the FIFO, and a cancelled pop may or may not have been
  executed. Other cancelled database calls have been.
- *Disconnection.* `Disconnect` and `DisconnectStarted` cancel a client's handler at its await: a waiter leaves
  the lock's FIFO; what was handed to the database thread is done (a row created, a message popped or removed)
  and the rest is not; a Turn whose task was created goes on.
- *Failures before the prompt.* `CreateRunFails` and `PreludeFails` are errors of `_run_turn` outside its inner
  try (1653-1714): the `finally` advances the queue, and nobody terminates the Run. `PrepareFails` is one inside
  (from 1715), which does.
- *Worker exit.* `WorkerExits` takes the worker off the table, `GroupReaped` reports the crash after
  `_reap_process_group` (`manager.py:1355`): with descendants (`"orphans"`) other steps come in between.
- *Merged awaits.* Consecutive awaits between which no shared state is touched are one (the settings,
  model and MCP look-ups are `"prepare"`; list and broadcast of the queue are part of the last step).
- *Agent.* Hermes is external. From the comment at `sessions/service.py:1838-1863`: a cancel
  interrupts the prompt in progress, an idle agent keeps it and returns `end_turn` for the next one.
  `session/cancel` is an await in the watchdogs because `_send` takes the write lock and drains.

Left out: the mode and model-override snapshots, `delete_guard` as an action (its test is `Running`),
prompt snapshots, tokens and steps as data, messages, the reading of the session row on entry; errors of the
database past the preparation of a Turn, in `_terminate_run`, in `_advance_queue` and in a client's request. The
approval timeout, a further caller of `_terminate_run` (line 3196), is in `UserGate`. Tool calls past
the step cap come from the active Turn's own prompt; a budget's duration is longer than the look-ups that precede the worker
(`MayBeOverdue`); without `"hang"` the crash grace period is longer than the loop needs to start a task
(`GraceExpires`); one worker exit is handled at a time. Names in `Enabled` switch optional behaviours on, so
that runs stay small: the theorems hold for every value of it, but for two that say so.

`TurnQueue` is the promise: one Turn at a time, messages in order, a completed Turn followed by the next and a
terminated one not. It has a status `"lost"` for what a fault or a disconnection drops: a step of its own,
which takes no other message with it and lets the queue go on. The refinement maps `cutOff` to it.

### UserGate

A request is answered by a task of its own (`_answer_request_permission`), so that the read loop never
waits for a human. `pc[r]` is the await of that task: reading the session (`"session"`), writing the row
(`"insert"`), writing the decision of a rule (`"ruled"`), broadcasting and reading the settings
(`"requested"`), waiting without or with a deadline (`"wait"`, `"timedWait"`), woken by the timer
(`"expired"`), writing and announcing the denial and terminating the Turn (`"timedOut"`).

| variable | code |
|---|---|
| `decision`, `decidedBy` | `permission_decisions.decision`, `.decided_by` |
| `pending`, `future` | `_pending_permissions`, `_PendingPermission.future` |
| `ctx`, `active` | the `ctx_turn` a request captured, `_active_turns[session]` |
| `route` | what the review or terminal gate says: ask the user, or allow or deny by rule |
| `target`, `choice` | `permission.decide` calls between their database write and `set_result` |
| `stopping`, `stopCut` | a `stop` between its `session/cancel` and `_resolve_pending_permissions`; history: one was cut off there |
| `terminated` | Turns that a timeout passed to `_terminate_run` |
| `asking`, `answer` | external: the call the agent is blocked on, and what it was told |
| `consent` | history: requests a client ever decided to allow |

Here awaits that only read or broadcast are merged with their neighbours, and the database does not
order the coroutines: the model has more interleavings than the code, so what holds in it holds in the
code, and the disagreements named in section 3 do not depend on the order. `DecisionCut` and `StopCut` are
the disconnection of a client, the latter also where `cancel` drains. A timeout records the Turn as terminated
and tells the agent the denial; what the agent does then is its own affair. Turns are reduced to their number and to
whether one is active; `SessionTurns` has the rest. The agent makes one tool call at a time (the comment
at `service.py:3028-3052`), but a request it gave up, or that outlived its Turn or its worker, remains
on display beside a later one. Left out: `remember`, the mode and gate-config snapshots, the review
rules themselves (any route is possible), the diff attached to a step, `permission.pending`.

### WorkerPool

A worker is a process id, used once. `proc[w]` says whether the process runs, `group[w]` whether anybody is
left in its process group, and a kid is a process one of its tools starts, in a session of its own, so that
`killpg` does not reach it; a kid in `Foreign` is one the daemon may not signal. These and the worker's
behaviour are external; everything else is the manager's.

| variable | code |
|---|---|
| `reg` | `WorkerManager._workers` |
| `busy`, `gen`, `base` | `Worker.busy`, `.turn_generation`, `.descendant_baseline` |
| `stage`, `probe`, `snapshot` | `_spawn_and_check` with its retry, `_probe_second_layer`, `jones_tools.json` |
| `watcher`, `teardown` | `_watch_exit`, `_terminate`, per worker |
| `sweep`, `daemon` | `_reap_idle_loop` and `stop()`, with the worker each is stopping |
| `phase`, `turn`, `using` | the callers in `sessions/service.py`: where the Turn of a session is, its worker |
| `reap` | each `reap_stop_orphans` task with its scan, its baseline and its generation |
| `lost`, `stray` | history: workers whose coroutine was cancelled while it held them; workers let go when their start broke or the daemon went down |
| `loaded`, `crashes`, `stopped`, `hits` | history |

A step ends at an await, so a Turn, a deletion, the reaper, the watcher and the shutdown meet a registration
in any order. `StartFails` is a failure `_spawn_and_check` handles, and terminates the process; `StartBreaks` one
it does not (a pipe that breaks under `AcpClient._send`, `acp_client.py:264-265`), and leaves it; `DeleteCut` is a
client that disconnects while its deletion stops the worker. Timers may fire whenever they are armed. Left out: stderr, the environment a worker is given,
the text of its errors, logging.

### CronExpr and CronScheduler

`CronExpr` is `cron_expr.py`: `Parse` gives the five sets of a schedule, `NextAfter` the search over days with
its bound. `IsNext` is the reference: the first minute that matches, by definition. An instant is a number of
minutes, over a calendar with leap years. Of a field, the text is abstracted to its set of ranges and steps.

`CronScheduler` has `cron` and `task` for the tables, `loop` for `_loop_tick` (listing the due rows, marking
them, parked until a deadline or `_wake`), `inflight` for the overlap guard, and one record of `disp` per
dispatch: its `pc` goes through claiming, advancing `next_run_at`, creating the child Session, the task row
and the message (which fails if the user deleted the child meanwhile), polling the child's Run until it ends or the watch gives up, recording the outcome and the
failure count. `Upsert` and `Delete` write, and `Returns` sets `_wake` when the database has answered, unless the
client has disconnected (`EditCut`); `Disconnect` cancels a `run_now`. `DispatchFails` is the refusal of the child
or of its message, with the failure recorded; `RecordFails` is recording that failure failing too: the guard
was popped before, and the general handler (549-559) pops it again, whoever holds it (`reopened`). `Crash` and
`Boot` are the daemon's, with the reconciliation of task rows. The child's Run (`RunGoesOn`) and the user
in front of it (`UserMeddles`) are the environment. The clock takes the few instants of `Instants`. History:
`stale`, `unwatched`, `reopened`, `unwoken` (crons whose edit was cut off before it woke the loop). A
`_advance_schedule` that raises in `run_now` leaves what a disconnection there leaves, and is not told apart.

### CommandRisk and RuleGate

A command is a sequence of tokens, a token the sequence of words between its quotes, over the words the
patterns of the code can tell apart. `CommandRisk` translates the hard denials of `_hard_deny.py`, the
transparency of `_transparency.py` and the levels of `permissions/review.py` and `defaults.py`; what is known of a
path or URL is the constant `Place` and `Hosts`. A command is matched by its text, as in the code: `Mentions` is a
needle (`_hard_deny.py:148, 214-231`), so `../.jones/x` is caught because it says `.jones`, and
`./permissions.json` of the project is not, although it leads to Jones's own data; an edit tool's path is
resolved, and denied when it cannot be (562-565). Letter case and nesting of quotes are left out.

`RuleGate` composes the three parties. The daemon: `mode`, `perms` (two `permissions.json`, some of which do
not parse), `lists` (tool whitelists along the chain of agents), `remembered` rules, `snapshot`
(`_turn_mode_snapshot`), and `sender`, the coroutine of `send` with what it read before its awaits. The file:
`file`, with the number of its version. The plugin: `cache` with the version it is a copy of, and `call`, the
tool call on its way through hard deny, policy, rules and transparency in the plugin, review in the daemon and
the user. `charter` is history: what the user had configured when the file was written, the session's mode of that moment
included, and in `charter.read` the mode `send` had read before it waited for the lock (`service.py:839`). A fault
makes the file unreadable or its refresh fail; a client that disconnects ends its `send` (`SendCut`), also between
the writing of the file and the start of the Turn.

### Maintenance

One Session with its Runs, home and Project. `status`, `refs`, `session`, `project` are rows; `disk` the
directories; `export` how durable the exported file is; `writer[r]` a background write of a Step payload
(`_handle_tool_call_update`), `sweep` the retention sweep, `turn` and `worker` what the rest of the daemon does
meanwhile. `call[c]` is a client's request with what it still has to remove, and `thread` the one database
thread, which a deletion keeps from its first query to its last file. `unflushed` are items deleted in the
write-ahead log only; `reported` and `warned` are history: what an answer, or a `daemon.error`, named as left
behind. `died`, `late`, `unheard`, `raised` are history too, what nobody was told of: since the daemon died, since
a payload was still being written when its Run was deleted, since the client had disconnected and its handler
with it while the database thread went on, since the checkpoint raised another error than `CheckpointBusyError`.
The last three are disagreements with the code's own rule that a deletion has two outcomes (section 3).

Left out: the cache directory, backups; the redaction
self-check (which remembers how far it scanned a log before it has scanned it); which of
the refusals by foreign rows (children, agents, goals, crons, the main Session) applies is left to chance; the
directory entry of a project that was just made, which the export does not sync (`maintenance.py:485`).

## 3. Runs

Deadlock is checked in every run of `SessionTurns`; in the others it is not, because requests, Turns,
processes, dispatches and calls are bounded and run out. Symmetry, only in runs without liveness: of Turns and
of clients in `SessionTurns`, of requests in `Gate`. `MaxAlarms` bounds budget alarms and worker exits together,
`MaxRestarts` daemon crashes, `MaxFaults` failures and deaths together.

| run | instance | shows |
|---|---|---|
| `TurnsQueue` | 3 Turns, 2 clients; stop, edits, disconnections, errors and faults of a Turn (%TQ%) | `SerialTurns`, `NoStrandedQueue`; a Run that nobody will settle, or a message in no place, was cut off (`ZombieWasCutOff`, `LostWasCutOff`); `TypeOK`; refinement of `TurnQueue` |
| `TurnsWatchers` | 2 Turns, 1 client; quota, abandon, 2 alarms: durations (with other sessions in the sweep), steps, or worker exits reported late (%TW%) | `TurnIsStoppable`, `NoAbandonedLock`, `TerminationIsTold` while watchdogs cancel tasks everywhere |
| `TurnsRecovery` | 2 Turns, 1 client; stop, disconnection, faults, 1 worker exit with a read loop that may hang, 1 restart (%TR%), fair | `CrashSettlesRun`, `RunningTurnEnds`, `RequestsAnswered` |
| `TurnsLateCancel` | violation of `NoZombieRun` with the duration watchdog | finding 1 |
| `Gate` | 2 requests, 1 client, 2 Turns; everything but rules and budgets, which `GateProgress` has (%G%) | `AllowNeedsConsent`, `TimeoutDenies`, `TypeOK` |
| `GateProgress` | 1 request, 2 clients, 2 Turns; everything (%GP%), fair | `TimedRequestEnds`, `StopReleasesPending` |
| `Pool` | 1 Session, 2 workers, 2 kids of which one is foreign, 1 reap, 2 Turns; three profiles (%P%), fair | a worker outlives its owners through named windows only (`OrphanWasLetGo`), none is used unvetted (`DeliveredIsVetted`), a stop is no crash and a crash is told (`CrashMeansCrash`, `CrashIsTold`), the reap spares what is not its own (`InnocentSpared`) and leaves nothing it may kill (`StopLeavesNothing`) |
| `PoolIdle` | violation of `BusyNeverReaped` with nothing but the idle reaper | finding 2 |
| `Cron` | 1 cron, 2 dispatches, 3 expressions over the leap day of 2028; five profiles (%C%), fair | `OneRunUnlessReopened`, `NextFitsExpr`, `TriggersMoveOn`, `DueOrUnwoken`, `GuardReleased` |
| `CronShift` | violation of `FiresInLocalTime` on the last Sunday of March | finding 3 |
| `Rules` | 28 calls, 10 words to go on with, 2 agents, 4 set-ups, 2 messages, 1 event (%R%) | `HardDenyAbsolute`, `SilentRunsFitTheirMessage`, `MoreIsNeverSafer`, `TurnKeepsItsMode` |
| `Store` | 2 Runs, 2 clients, 2 calls, 1 failure or death (%S%), fair | `RefsResolve`, `LiveTurnKept`, `LeftoversAreKnown`, `ExportFirst`, `DanglingIsCleared` |

Five of these properties name an exemption: `cutOff`, `stray` with `lost`, `reopened`, `unwoken`, and the four sets
of `LeftoversAreKnown`. Each is a history variable that only the named actions set, so the property says
that these windows are the only ones. What happens in the windows is a disagreement with what the code
says of itself; the stronger properties are below.

Why the bounds are enough:

- *SessionTurns.* Three Turns give one that ends, one that follows and one behind it, which is what
  suspension, reordering and the hand-over need; two clients give a holder and a waiter of the lock besides
  the Turn's own `_advance_queue`; two alarms let a second watchdog act while the first is between its awaits.
  Worker exits are in the two runs with watchers; in `TurnsQueue` they would only be one more way to fail a prompt.
- *UserGate.* Two requests and two Turns give a live request beside one that nobody waits for any more, of
  this Turn or of an earlier one; a client may decide again while it waits for nothing, and the timeout, a
  stop and the crash handler are its rivals.
- *WorkerPool.* Sessions share no state but the sweep's and the shutdown's lists, so one Session suffices for
  the safety of a registration. The second worker is the successor that a stale coroutine of the first might
  hit; the second Turn moves `turn_generation` under a reap; of the two kids one may be signalled and one
  not, and either may leave the group or outlive its parent.
- *CronScheduler.* The guard is per cron. Two dispatches are the one that runs and the one that must not; the
  three expressions are one that skips years, one with steps and a month's end, and one that never fires; the
  instants lie before, at and after a trigger. A profile turns on the behaviours that interfere with
  each other, and the instance has them all. A guard can only
  be released under another dispatch with three dispatches and two faults, so in `Cron` nothing is `reopened` and
  `OneRunUnlessReopened` is as strong as `OneRunPerCron`; the theorem has the larger instances.
- *RuleGate.* Commands and tools lie on both sides of every line the gates draw; two messages let a mode, a
  rule or a list change between `send`'s read and its write, and between one Turn and the next.
- *Maintenance.* Two Runs are one deleted with the Session and one deleted, swept or written by itself; two
  calls are a deletion and its rival; the one fault may hit any step, and disconnections and late payloads are
  not counted among the faults, so they combine with it. The theorems of section 4 lift all of these bounds.

Each property of a passing run is broken by a mutant of the code named in `PROJECT.json`.

**Fairness.** Each specification is fair to what the event loop, the database thread and timers drive, and to
nothing else.

- `TurnsRecovery`: the event loop resumes each coroutine that can run, the database answers, and an agent that
  was prompted answers some day. Requests, alarms, worker exits and restarts are never forced. With `"hang"`
  the read loop of a dead worker may stay silent forever: that is the case the crash handler's grace period
  exists for, and `CrashSettlesRun` shows that it is enough.
- `GateProgress`: the request's task, a decision that has begun and a stop that has begun go on when they can,
  and timers fire; nobody need ask, decide, stop, crash or end a Turn.
- `Pool`: whatever the manager awaits ends, at the latest by its timeout (start-up, the grace of
  a signal, the two phases of a reap); a worker need not answer, and nobody need start, stop or delete.
- `Cron`: the loop's coroutine, the edits and the dispatches that can go on do, though a client may go first; a watch gives up when its ceiling is
  reached again and again (strong fairness: a person in front of the child's approval moves the
  ceiling, and only so often). Runs need not end.
- `Store`: requests go on, the sweep wakes every hour and does its work when its directory does go; a sweep
  that fails or dies need not succeed the first time, and Turns, writers and time need not move.

### Findings

1. *Late lookup.* `_terminate_run_for_exceeded_budget` reads `_turn_tasks` after its awaits
   (`service.py:2648`). If the Turn has ended meanwhile and the queue has advanced, it cancels the
   next Turn before that one's body runs: the Run's row, or the Turn's, stays without an owner. The
   crash handler's comment (3296-3306) describes the same pattern as a bug, and captures the task early.
2. *Idle in its first Turn.* `_run_turn` marks the worker busy (`service.py:1706`) before it starts it (1813).
   A Session that has no worker yet marks nobody, and the reaper may stop the new worker in the middle
   of its first Turn.
3. *An hour off.* `_next_after_local` carries the offset of now over a change to or from summer time
   (`scheduler/service.py:211`): the one trigger that is computed before the change and comes after it is an
   hour late or early.

### Known disagreements

These properties are stated in the modules, and the code violates them where the text quoted would have it
otherwise; no run claims them. TLC finds each counterexample in seconds with the instance named: the constants
of the run of that module, reduced to what the table says, and the property added to its cfg.

| property | instance | what the code does | what it says |
|---|---|---|---|
| `NoZombieRun` (`SessionTurns`) | `FaultBehaviours` | an exception between `create_run` and the inner try (`service.py:1653-1714`) goes to the `finally`: nobody terminates the Run | 1892-1900: "never a silently-dropped task" |
| `NoLostMessage` | `DisconnectBehaviours` | `queue_resume` (1315) cancelled by a disconnection has popped the message; a `send` cut between its row and `enqueue` has queued it nowhere | 3280-3283: "silently dropping a queued user message" is what to avoid |
| `NoLostMessage` | `RestartBehaviours` | pop (2369) and `create_run` are separate transactions; a death between them loses the message | PRD 222: unexecuted items are restored |
| `CrashSparesTheLiving` | `OrphanBehaviours` | the exit is reported after `_reap_process_group` (`manager.py:1355`), and the Turn blamed is whichever is active by then, though its own worker lives | 3248: the worker of the Run has exited |
| `CancelHitsItsTurn` | `SweepBehaviours` | the sweep (2692) walks a list older than its awaits, and its `session/cancel` reaches the next Turn's prompt | 2596-2598: "still targets THIS Turn's own worker/session" |
| `OutcomeFinal` | `DurationBehaviours`, as a PROPERTY, without symmetry | the guard of `_terminate_run` (2074) is read before an await, `mark_run_terminated` has no condition | 2096-2100: "writing over it again would be the actual bug" |
| `NoStrandedQueue` | `{"abandon", "stop"}` | `abandon` (1214) clears the suspension flag after it released the lock | the same flag is cleared under the lock elsewhere |
| `TimeoutStopsAgent` (`UserGate`) | 2 requests, 1 Turn, `{"timeout"}` | the timeout calls `_terminate_run` alone (3196): the agent gets a denial and goes on | PRD 245: denies *and terminates*; 2539-2549 |
| `TimeoutStands` | 1 request, `{"timeout"}` | `permission_decide` writes its row (1459) before it looks at the future: the agent was told deny, the record says allow | 3124-3129 |
| `StopReleasesAgent` | 1 request, `{"stop"}`, fair | `stop` answers registered requests only; one that awaits the database (3004) registers itself afterwards and blocks the agent | 697-708, 1045-1051 |
| `NoOrphanWorker` (`WorkerPool`) | `OnlyExit` | a pipe that breaks in the start-up (`acp_client.py:264-265`) is not among the exceptions of `manager.py:987`: no `_terminate` | `service.py:1023-1032`; `manager.py:905-920` (G09) |
| `NoOrphanWorker` | `OnlyShutdown` | `stop()` (`manager.py:552`) walks registered workers only | `service.py:678-689` |
| `NoOrphanWorker` | `OnlyDelete` | a deletion cut off while it stops the worker (`service.py:1131`) leaves it, out of the table, to nobody | 1098-1104 |
| `OneRunPerCron` (`CronScheduler`) | 3 dispatches, 3 `run_now`, 2 faults, `OnlyNine`, `Faulty` | the general handler (`scheduler/service.py:559`) pops a guard that was popped before, and another dispatch holds now | 77-80: "The overlap-skip check is now atomic" |
| `DueIsHandled` | `Edited`, fair | an `upsert` or `delete` cut at its await (395, 410) is committed, and `_wake` is never set | 14-16: "takes effect immediately" |
| `SilentRunsAreCovered` (`RuleGate`) | that of `Rules` | `send` reads the mode (`service.py:839`) before it waits for the lock: a `set_mode` in between is not in the file of the Turn that starts then | 885-889: "CURRENT mode"; PRD 215 |
| `DegradedNeverWidens` | that of `Rules` | the review in the daemon (2904) does not notice a `permissions.json` it cannot read: its deny rules are gone | `config/resolver.py:64-71`: callers must check |
| `NothingComesBack` (`Maintenance`) | no fault | a payload written in the background (`service.py:2780`) makes the directory of a deleted Run anew | `maintenance.py:261-266`; `methods.py:41-44` |
| `FailureIsTold` | 1 fault | a deletion whose client has disconnected goes on in the thread; its `PartialDeleteError` is raised to nobody | `maintenance.py:46-50` |
| `CheckpointIsTold` | 1 fault | `maintenance.py:243` translates `CheckpointBusyError` only | `methods.py:77-83` |

Also seen while translating: where the workspace of a Session is not known, the project's `permissions.json` is
not covered by the hard denial, though the comment at `service.py:928-932` says the check fails closed.

## 4. Proofs

All theorems are for every value of the constants that the named assumptions allow: every set of Turns,
clients, workers, crons or Runs, every choice of optional behaviours and every bound. The two of
`SessionTurnsQueueProofs` restrict the behaviours, as said there.

- `TypeCorrect`, `SerialTurnsAlways`, `TurnIsStoppableAlways`, `NoAbandonedLockAlways`
  (`SessionTurnsProofs`). None is inductive alone: that only one Turn is live depends on who may
  start one, which depends on the lock and on the two dictionaries. The inductive invariant is
  `IInv == Discipline /\ Types /\ ArgInv`. `Discipline` says who may be in the lock's
  FIFO at which await (`LockInv`), and that a live Turn is the registered task and that a coroutine about
  to start a Turn holds the lock with no other Turn live (`TaskInv`). `LockStep` lists what any action may
  do to `pc`, `lockQ` and `task`, so that the discipline is proved once per kind of step; each action
  is then shown to be such a step. `ArgInv` says where a coroutine has a Turn in hand.
- `ZombieWasCutOffAlways`, `LostWasCutOffAlways`, `TerminationIsToldAlways` (`SessionTurnsProofs`), with every
  behaviour enabled; the second until a restart. On top of `IInv`, `RunsInv` says that who terminates a Turn found it past its first
  step (`AboutInv`), that a Run that has not ended has its Turn's task at work in the body or was cut off
  (`SettledInv`), and that the termination on record was broadcast or has its author before the broadcast
  (`ToldInv`); `MessageInv` says in which one place a message is (`QueueInv`, `HandInv`, `KeptInv`). The
  theorem about `LostWasCutOff` is the place to see what a disconnection costs: every action that cancels a
  handler either puts the message back where the executor left it, or adds it to `cutOff`.
- `NoStrandedQueueAlways` and `ImplementsTurnQueueAlways` (`SessionTurnsQueueProofs`) assume `Calm`: no budget
  watchdog, no read loop that hangs, no late report of an exit, no restart, no abandon. Stops, edits, errors,
  faults, worker exits and disconnections are in. With a watchdog the promise itself is broken (finding 1: the
  successor is cancelled before it runs, and its outcome is never written); an `abandon` strands a queue (the
  table above); with the others the Turn and a watcher both settle one Run, and only the order of the database
  thread, `ahead`, which the invariants do not follow, keeps them apart. `CalmInv` says which rows go with the
  place a Turn is at (`RunInv`, `GuardInv`), that the live Turn is the active one (`ActiveInv`), that who was cut off
  is in no place a message may be (`CutInv`), and how the recorded outcome, the suspension and the queue agree
  (`StrandInv`). Each action is shown to be one of a list of effects; per effect one lemma keeps the invariant and
  one maps it to a step of `TurnQueue` or a stutter. The mapping picks the message between two transactions out
  of the hands of a coroutine (`Status`, `Pending`, `Current`), which the lock makes unique.
- `QueueIsExact` (`TurnQueueProofs`): what `TurnQueue` allows keeps the queue free of duplicates and
  equal to the set of waiting messages, and only the current Turn runs.

- `UserGateProofs`: `GateTypes`, `ConsentPrecedesAllow`, `TimeoutIsDenial`. That an allow has a consent behind it
  follows the value from the client's call to the
  future to the agent (`Consents`); it needs that a request settled by a rule never has a registration, a
  future or a client (`Routes`), and that the row of a timeout is of a future already denied (`Timeouts`).

- `WorkerPoolProofs`: `OrphanWasLetGoAlways`, `CrashIsACrash`. A process may only be left by whoever ends it, or
  through one of the windows `lost` and `stray` record, so the
  invariant says of each holder what it holds: a registration is of a delivered worker that nobody stopped
  (`Registered`), a start-up has a process of its own session, which has no other (`Startup`), a watcher that
  reaps has a dead worker without a registration (`Watchers`), a teardown that is through left nothing
  (`Processes`). Stopping a worker is one lemma (`StopKeeps`) for the sweep and the shutdown.
  `TypesAlways`, `VettedAlways` and `InnocentAlways` have invariants of their own. `VetInv` follows
  `jones_tools.json`: a start-up that has passed a check has a file its own plugin wrote (`Fresh`), or one of
  a worker lost in its start-up, and whoever has not passed is not registered (`Unready`). `SpareInv` follows a
  reap: a child of the registered worker is in its Turn's baseline or was born in that Turn (`Baselined`), so
  what a reap found outside its baseline is of the Turn it stops (`GraceInv`); a later Turn of the worker moves
  its generation, and the reap, which compares it before it signals, lets its finds go (`HitsInv`).

- `CronSchedulerProofs`: `OneRunAlways`, of `OneRunUnlessReopened`. The guard alone does not give it: a deletion drops the guard under a
  Run that works, and the callback of a watch releases it whoever holds it. The invariant follows a dispatch from
  its claim (`Held`: the guard is its own unless the cron was deleted, or `reopened`); a deleted cron gets no further
  task row, and so no further Run (`Known`, `Apart`); a coroutine does not outlive its process (`Dead`).
  Nothing in it is about calendars, so `NextRun` stays opaque.
  `NextAfterIsNext` is about the pure part: for every expression, instant and calendar `NextAfter` returns
  the first matching minute on the days it searches, or none if there is none. Its two nested minima exist
  because the naturals are well founded (`MinIsLeast`, from the library's facts about `IsWellFoundedOn`); the
  rest is that an instant and its day, hour and minute determine each other (`InstantOf`, `PartsOf`).
  `NextFitsAlways` and `MovesOnAlways` put it into the scheduler. `PlanInv` says that a next run is that of the
  expression at the instant it was computed (`Computed`), and later than the last restart and than whatever was
  dispatched for the cron (`Ahead`), as is a row in the loop's hands, which are never two of one cron
  (`InHand`). A step keeps a cron's next run, computes it anew, or disables the cron (`Fated`);
  and a dispatch goes on, is triggered by the loop, which moves the schedule in the same step, or is made
  by a client without a trigger (`Driven`).

- `MaintenanceProofs`: `StoreTypes`, `ReferencesResolve`, `LiveTurnIsKept`, `ExportPrecedes`. The inductive
  invariant adds to them who may be where: a call past its guard keeps Turns away, and past its second step the
  worker (`Locking`); whoever is between its first query and its last file has the database thread to itself;
  a call about to delete after an export has a durable one (`Exporting`); what a call has still to remove has
  no row any more (`Purging`); a Run that may be swept has no Turn and no writer left that would refer
  to its payload (`Payloads`). One lemma per action.
- `DeletionIsHonest` (`MaintenanceProofs`): `LeftoversAreKnown`. On top of the invariant above it
  follows each item from the transaction that deletes its row: onto the list of the call (`SetToSeq` leaves
  nothing out, by a counting argument on finite sets), and from there into the answer, the `daemon.error`, or
  one of the four sets of what nobody was told of. A step that deletes nothing and touches no list is dealt with
  once (`QuietStep`).

- `RuleGateProofs`: `HardDenyAlways`, `SilentRunsAlways`, `ModeKeptAlways`, `NeverSaferAlways`. The file and
  the plugin's copy of it may differ, so `GateInv` ties each to its origin: what a readable file holds was built
  from the charter, and the copy is the same when its version is (`FileInv`); a call that was let
  through carries the configuration it was decided by, and that one's charter (`CallInv`); a message being
  sent holds the mode it read (`SendInv`). `HardDenyAlways` is against a definition of its own of what a line
  starts and what destroys (`Wrappers`, `Started`, `Destroys`, in `RuleGate`, from PRD 5.7), which shares
  with the code's scan what a program's name and a recursive flag are and the splitting of nested shells: any program behind a wrapper, an operator or a shell in a
  shell. Forced pushes, which the scan denies too, are not in the reference. `NeverSaferAlways` is about command lines of any length: a word more
  keeps what the patterns found in the line (`LongerExtends`), and so does each level of the classification
  (`OpaqueStaysOpaque`, `HighStaysHigh`, `MediumStaysMedium`). Where the plugin's checks overlap, the first
  one decides: `Decide` takes `Blocks` before everything else, as the hook returns.

Assumptions: the named `ConstantsAssumption` (coroutines of different kinds are different, `Enabled` is
a subset of `Behaviours`, bounds are naturals), `GateAssumption` (the like for `UserGate`),
`MaintenanceAssumption` (the same, and that the Runs of a Session are finitely many), `PoolAssumption` (what
the constants are), `CronAssumption` (the same; expressions are what the parser makes of five fields, and no
instant lies before the calendar's first day in local time), `PlaceAssumption` and `RuleGateAssumption` (the
same; the commands of calls are lines of tokens, and the sentinel of an empty list is no tool's name) and, for
`QueueIsExact`, `NoTurn \notin Turns`. TLC evaluates them in the runs.

The strengthened invariants were checked by TLC on small instances before they were proved. Every safety
property that a passing run checks, and the refinement, is also proved. Only model-checked are the liveness
properties (`CrashSettlesRun`, `RunningTurnEnds`, `RequestsAnswered`, `TimedRequestEnds`,
`StopReleasesPending`, `CrashIsTold`, `StopLeavesNothing`, `DueOrUnwoken`, `GuardReleased`,
`DanglingIsCleared`), which are out of reach of TLAPS.

## 5. Plan

What is left, in order:

1. `DesktopLink` and `ChatView` — the RPC server's connections, the reconnecting client with its pending calls,
   heartbeat and recovery; the snapshot a view loads against the notifications around it.
2. `UserGate`, the rest — announcements and the desktop's list of open requests, and an abstract promise (one
   question, one final answer, silence never allows) that it implements.
3. The shared Chrome of `capabilities/browser.py`.
4. Proofs: the refinement with watchers, which needs the order of the database thread (`ahead`) in the
   invariant; the refinement until the first restart; what the new modules bring.

### Not modelled

- Migrations: one crash window (`migrator.py:174`), which is about the implicit commit of `executescript`.
- CRUD of agents, projects, providers and skills: one call, one row, no shared state across an await.
- Presentation components, the launchd installation, texts of errors and summaries, redaction.
