---------------------------- MODULE Maintenance ----------------------------
(* Deletion and export of what a Session leaves behind (store/maintenance.py), over the    *)
(* database, the payload directories of its Runs, the home of its worker and the directory *)
(* of its Project, next to the things that write there: Turns, the background writes of    *)
(* Step payloads, and the sweep of expired payloads (replay/retention.py).                 *)
(*                                                                                         *)
(* All SQL runs in one thread (store/db.py), which a deletion or an export keeps from its  *)
(* first query to its last file; payloads are written and swept in other threads.  Files   *)
(* may refuse to go, a checkpoint may stay busy or fail, a client may vanish, its handler  *)
(* with it but not what the thread does for it, and the daemon may die between any two     *)
(* steps; a commit survives that.                                                          *)
EXTENDS Naturals, FiniteSets, SequencesExt

CONSTANTS
  Runs,        \* the Runs one Session may have
  Clients,
  NoRun, Nobody,
  MaxCalls,    \* bound on the calls of the clients
  MaxFaults    \* bound on failures and deaths together

ASSUME MaintenanceAssumption ==
  /\ NoRun \notin Runs /\ Nobody \notin Clients
  /\ {"home", "attachments"} \cap Runs = {}
  /\ IsFiniteSet(Runs)
  /\ MaxCalls \in Nat /\ MaxFaults \in Nat

VARIABLES
  status,     \* [Runs -> ...] rows of runs; "expired" ended longer ago than the retention
  refs,       \* Runs with a payload_ref or prompt_snapshot_ref that is not NULL
  session,    \* whether the Session's row is there
  project,    \* whether the Project's row is there
  disk,       \* [Items -> ...] the directories
  export,     \* the exported file: written, in place, in place for good
  worker,     \* whether the Session has a worker process
  turn,       \* the active Turn
  writer,     \* [Runs -> ...] background write of a Step payload
  call,       \* [Clients -> the request in progress]
  thread,     \* whose call holds the database thread
  sweep,      \* the retention sweep
  unflushed,  \* items whose rows are deleted in the write-ahead log only
  reported,   \* history: items an answer named as left behind
  warned,     \* history: items of calls a daemon.error told of
  died, late, unheard, raised,  \* history: items nobody was told of, since the daemon died,
              \* a payload came late, the client was gone, or the checkpoint failed
  by,         \* history: the kind of call that deleted the Session
  calls, faults

rows == <<status, refs, session, project>>
untold == <<died, late, unheard, raised>>
history == <<reported, warned, untold, by>>
vars == <<rows, disk, export, worker, turn, writer, call, thread, sweep, unflushed,
          history, calls, faults>>

Items == Runs \cup {"home", "attachments"}
Guarded == {"session", "exportDelete"}
Idle == [pc |-> "idle", kind |-> "none", run |-> NoRun, items |-> {}, todo |-> <<>>,
         heard |-> TRUE]

\* The lock of the Session, which delete_guard holds to the end of its handler.
Locked ==
  \E c \in Clients :
    call[c].kind \in Guarded /\ call[c].pc \notin {"idle", "guard"} /\ call[c].heard

Init ==
  /\ status = [r \in Runs |-> "none"]
  /\ refs = {}
  /\ session = TRUE
  /\ project = TRUE
  /\ disk = [i \in Items |-> IF i = "attachments" THEN "whole" ELSE "gone"]
  /\ export = "none"
  /\ worker = FALSE
  /\ turn = [pc |-> "idle", run |-> NoRun]
  /\ writer = [r \in Runs |-> "none"]
  /\ call = [c \in Clients |-> Idle]
  /\ thread = Nobody
  /\ sweep = [pc |-> "sleeps", todo |-> {}, run |-> NoRun]
  /\ unflushed = {} /\ reported = {} /\ warned = {}
  /\ died = {} /\ late = {} /\ unheard = {} /\ raised = {}
  /\ by = "nobody"
  /\ calls = 0 /\ faults = 0

Fault == faults < MaxFaults /\ faults' = faults + 1

-----------------------------------------------------------------------------
(* Turns, and what they write *)

\* send, under the lock of the Session.
TurnStarts(r) ==
  /\ session /\ ~Locked
  /\ turn.pc = "idle"
  /\ status[r] = "none" /\ thread = Nobody
  /\ turn' = [pc |-> "starting", run |-> r]
  /\ UNCHANGED <<rows, disk, export, worker, writer, call, thread, sweep, unflushed,
                 history, calls, faults>>

\* _run_turn: the Run's row, then a worker with its home.
TurnRuns ==
  /\ turn.pc = "starting" /\ thread = Nobody
  /\ turn' = [turn EXCEPT !.pc = "running"]
  /\ status' = [status EXCEPT ![turn.run] = "running"]
  /\ worker' = TRUE
  /\ disk' = [disk EXCEPT !["home"] = "whole"]
  /\ UNCHANGED <<refs, session, project, export, writer, call, thread, sweep, unflushed,
                 history, calls, faults>>

\* The Run is settled before the Turn leaves the Session's dictionaries.
TurnSettles ==
  /\ turn.pc = "running" /\ thread = Nobody
  /\ turn' = [turn EXCEPT !.pc = "ending"]
  /\ status' = [status EXCEPT ![turn.run] = "ended"]
  /\ UNCHANGED <<refs, session, project, disk, export, worker, writer, call, thread, sweep,
                 unflushed, history, calls, faults>>

TurnEnds ==
  /\ turn.pc = "ending"
  /\ ~Locked
  /\ turn' = [pc |-> "idle", run |-> NoRun]
  /\ UNCHANGED <<rows, disk, export, worker, writer, call, thread, sweep, unflushed,
                 history, calls, faults>>

\* The idle reaper.
WorkerStops ==
  /\ worker /\ turn.pc = "idle"
  /\ worker' = FALSE
  /\ UNCHANGED <<rows, disk, export, turn, writer, call, thread, sweep, unflushed,
                 history, calls, faults>>

\* _handle_tool_call_update schedules the write of a payload, and does not wait for it...
WriteBegins ==
  /\ turn.pc = "running"
  /\ writer[turn.run] = "none"
  /\ writer' = [writer EXCEPT ![turn.run] = "writes"]
  /\ UNCHANGED <<rows, disk, export, worker, turn, call, thread, sweep, unflushed,
                 history, calls, faults>>

\* ...which makes the Run's directory if it has to...
WriteFile(r) ==
  /\ writer[r] = "writes"
  /\ disk' = [disk EXCEPT ![r] = "whole"]
  /\ writer' = [writer EXCEPT ![r] = "refers"]
  /\ late' = IF status[r] = "deleted" THEN late \cup {r} ELSE late
  /\ UNCHANGED <<rows, export, worker, turn, call, thread, sweep, unflushed, reported,
                 warned, died, unheard, raised, by, calls, faults>>

\* ...and refers to it afterwards, in a row that may be gone.
WriteRef(r) ==
  /\ writer[r] = "refers" /\ thread = Nobody
  /\ refs' = IF status[r] = "deleted" THEN refs ELSE refs \cup {r}
  /\ writer' = [writer EXCEPT ![r] = "none"]
  /\ UNCHANGED <<status, session, project, disk, export, worker, turn, call, thread, sweep,
                 unflushed, history, calls, faults>>

\* Time passes.
Expires(r) ==
  /\ status[r] = "ended"
  /\ turn.run # r /\ writer[r] = "none"
  /\ status' = [status EXCEPT ![r] = "expired"]
  /\ UNCHANGED <<refs, session, project, disk, export, worker, turn, writer, call, thread,
                 sweep, unflushed, history, calls, faults>>

-----------------------------------------------------------------------------
(* replay/retention.py *)

\* Mutant of SweepList: the date of the end is not looked at.
SweepListAll ==
  /\ sweep.pc = "sleeps" /\ thread = Nobody
  /\ refs # {}
  /\ sweep' = [pc |-> "next", todo |-> {r \in refs : status[r] # "running"}, run |-> NoRun]
  /\ UNCHANGED <<rows, disk, export, worker, turn, writer, call, thread, unflushed,
                 history, calls, faults>>

\* list_runs_with_payload_before.
SweepList ==
  /\ sweep.pc = "sleeps" /\ thread = Nobody
  /\ \E r \in refs : status[r] = "expired"
  /\ sweep' = [pc |-> "next", todo |-> {r \in refs : status[r] = "expired"}, run |-> NoRun]
  /\ UNCHANGED <<rows, disk, export, worker, turn, writer, call, thread, unflushed,
                 history, calls, faults>>

\* Mutant of SweepPurge: a directory that is gone already is passed over.
SweepPurgeIfThere(r) ==
  /\ sweep.pc = "next" /\ r \in sweep.todo
  /\ disk' = [disk EXCEPT ![r] = "gone"]
  /\ sweep' = IF disk[r] = "gone" THEN [sweep EXCEPT !.todo = @ \ {r}]
              ELSE [pc |-> "clears", todo |-> sweep.todo \ {r}, run |-> r]
  /\ UNCHANGED <<rows, export, worker, turn, writer, call, thread, unflushed, history,
                 calls, faults>>

\* purge_run, which has nothing to do when the directory is gone.
SweepPurge(r) ==
  /\ sweep.pc = "next" /\ r \in sweep.todo
  /\ disk' = [disk EXCEPT ![r] = "gone"]
  /\ sweep' = [pc |-> "clears", todo |-> sweep.todo \ {r}, run |-> r]
  /\ UNCHANGED <<rows, export, worker, turn, writer, call, thread, unflushed, history,
                 calls, faults>>

\* A directory that does not go keeps its references, and the sweep goes on.
SweepPurgeFails(r) ==
  /\ Fault
  /\ sweep.pc = "next" /\ r \in sweep.todo
  /\ disk[r] # "gone"
  /\ disk' = [disk EXCEPT ![r] = "part"]
  /\ sweep' = [sweep EXCEPT !.todo = @ \ {r}]
  /\ UNCHANGED <<rows, export, worker, turn, writer, call, thread, unflushed, history, calls>>

\* clear_run_payload_refs.
SweepClear ==
  /\ sweep.pc = "clears" /\ thread = Nobody
  /\ refs' = refs \ {sweep.run}
  /\ sweep' = [sweep EXCEPT !.pc = "next", !.run = NoRun]
  /\ UNCHANGED <<status, session, project, disk, export, worker, turn, writer, call, thread,
                 unflushed, history, calls, faults>>

SweepSleeps ==
  /\ sweep.pc = "next" /\ sweep.todo = {}
  /\ sweep' = [sweep EXCEPT !.pc = "sleeps"]
  /\ UNCHANGED <<rows, disk, export, worker, turn, writer, call, thread, unflushed,
                 history, calls, faults>>

-----------------------------------------------------------------------------
(* Requests: session.delete, session.export, run.delete, project.delete *)

Calls(c, kind, r) ==
  /\ calls < MaxCalls
  /\ call[c].pc = "idle"
  /\ (kind = "run") = (r # NoRun)
  /\ call' = [call EXCEPT ![c] = [Idle EXCEPT !.pc = IF kind \in Guarded THEN "guard"
                                                     ELSE "ready", !.kind = kind, !.run = r]]
  /\ calls' = calls + 1
  /\ UNCHANGED <<rows, disk, export, worker, turn, writer, thread, sweep, unflushed,
                 history, faults>>

\* Mutant of Guard: only the status of the Runs counts, not the Turn in memory.
GuardByRows(c) ==
  /\ call[c].pc = "guard" /\ ~Locked
  /\ call' = [call EXCEPT ![c] =
                IF \E r \in Runs : status[r] = "running" THEN Idle ELSE [@ EXCEPT !.pc = "stops"]]
  /\ UNCHANGED <<rows, disk, export, worker, turn, writer, thread, sweep, unflushed,
                 history, calls, faults>>

\* delete_guard refuses while a Turn is active...
Guard(c) ==
  /\ call[c].pc = "guard" /\ ~Locked
  /\ call' = [call EXCEPT ![c] = IF turn.pc # "idle" THEN Idle ELSE [@ EXCEPT !.pc = "stops"]]
  /\ UNCHANGED <<rows, disk, export, worker, turn, writer, thread, sweep, unflushed,
                 history, calls, faults>>

\* ...and stops the worker before it lets the deletion begin.
StopWorker(c) ==
  /\ call[c].pc = "stops"
  /\ worker' = FALSE
  /\ call' = [call EXCEPT ![c].pc = "ready"]
  /\ UNCHANGED <<rows, disk, export, turn, writer, thread, sweep, unflushed, history,
                 calls, faults>>

\* The call is answered: done, or refused, with nothing to tell.
Answers(c) ==
  /\ call' = [call EXCEPT ![c] = Idle]
  /\ thread' = Nobody

\* The rows are deleted in one transaction, and what has to go from the disk is known.
Commits(c, items, todo) ==
  /\ call' = [call EXCEPT ![c] = [@ EXCEPT !.pc = "purges", !.items = items, !.todo = todo]]
  /\ thread' = c
  /\ unflushed' = unflushed \cup items

\* The database thread is free, or the call's own since its export.
Begins(c) ==
  \/ call[c].pc = "ready" /\ thread = Nobody
  \/ call[c].pc = "deletes" /\ thread = c

HasRow(r) == status[r] \notin {"none", "deleted"}

\* delete_session refuses a Session that is gone, that runs, or that is the main one or has
\* children of its own, which is left to chance here.
DeleteSession(c) ==
  LET mine == {r \in Runs : HasRow(r)} IN
  /\ call[c].kind = "session" \/ call[c].pc = "deletes"
  /\ Begins(c)
  /\ \/ /\ Answers(c)
        /\ UNCHANGED <<rows, unflushed, by>>
     \/ /\ session
        /\ \A r \in mine : status[r] # "running"
        /\ Commits(c, mine \cup {"home"}, SetToSeq(mine) \o <<"home">>)
        /\ session' = FALSE
        /\ status' = [r \in Runs |-> "deleted"]
        /\ refs' = {}
        /\ by' = call[c].kind
        /\ UNCHANGED project
  /\ UNCHANGED <<disk, export, worker, turn, writer, sweep, reported, warned, untold,
                 calls, faults>>

\* delete_run, which takes no lock.
DeleteRun(c) ==
  LET r == call[c].run IN
  /\ call[c].kind = "run"
  /\ Begins(c)
  /\ IF ~HasRow(r) \/ status[r] = "running"
     THEN Answers(c) /\ UNCHANGED <<rows, unflushed>>
     ELSE /\ Commits(c, {r}, <<r>>)
          /\ status' = [status EXCEPT ![r] = "deleted"]
          /\ refs' = refs \ {r}
          /\ UNCHANGED <<session, project>>
  /\ UNCHANGED <<disk, export, worker, turn, writer, sweep, history, calls, faults>>

\* delete_project: not while a Session refers to it, or an Agent, a goal or a cron, which
\* are left to chance.
DeleteProject(c) ==
  /\ call[c].kind = "project"
  /\ Begins(c)
  /\ \/ /\ Answers(c)
        /\ UNCHANGED <<rows, unflushed>>
     \/ /\ project /\ ~session
        /\ Commits(c, {"attachments"}, <<"attachments">>)
        /\ project' = FALSE
        /\ UNCHANGED <<status, refs, session>>
  /\ UNCHANGED <<disk, export, worker, turn, writer, sweep, history, calls, faults>>

\* purge_run, and shutil.rmtree of the two other directories.
Purge(c) ==
  /\ call[c].pc = "purges" /\ call[c].todo # <<>>
  /\ disk' = [disk EXCEPT ![Head(call[c].todo)] = "gone"]
  /\ export' = IF Head(call[c].todo) = "attachments" THEN "none" ELSE export
  /\ call' = [call EXCEPT ![c].todo = Tail(@)]
  /\ UNCHANGED <<rows, worker, turn, writer, thread, sweep, unflushed, history, calls, faults>>

\* The error of the thread reaches the handler, and all clients: these items are named to
\* the caller - or there is no handler any more, and the error is dropped.
Tells(c, named) ==
  IF call[c].heard
  THEN /\ reported' = reported \cup named
       /\ warned' = warned \cup call[c].items
       /\ UNCHANGED <<died, late, unheard, raised>>
  ELSE /\ unheard' = unheard \cup call[c].items
       /\ UNCHANGED <<reported, warned, died, late, raised>>

\* Mutant of PurgeFails: the directory that failed is missing in the list of what remains.
PurgeFailsListingRest(c) ==
  /\ Fault
  /\ call[c].pc = "purges" /\ call[c].todo # <<>>
  /\ disk[Head(call[c].todo)] # "gone"
  /\ disk' = [disk EXCEPT ![Head(call[c].todo)] = "part"]
  /\ Tells(c, Range(Tail(call[c].todo)) \cap Runs)
  /\ Answers(c)
  /\ UNCHANGED <<rows, export, worker, turn, writer, sweep, unflushed, by, calls>>

\* PartialDeleteError: the directory that failed and the Runs not tried yet are named; of
\* the home behind them only the stage of the deletion tells.
PurgeFails(c) ==
  /\ Fault
  /\ call[c].pc = "purges" /\ call[c].todo # <<>>
  /\ disk[Head(call[c].todo)] # "gone"
  /\ disk' = [disk EXCEPT ![Head(call[c].todo)] = "part"]
  /\ Tells(c, {Head(call[c].todo)} \cup (Range(call[c].todo) \cap Runs))
  /\ Answers(c)
  /\ UNCHANGED <<rows, export, worker, turn, writer, sweep, unflushed, by, calls>>

\* checkpoint_truncate_or_raise moves the whole log into the database file...
Flush(c) ==
  /\ call[c].pc = "purges" /\ call[c].todo = <<>>
  /\ unflushed' = {}
  /\ Answers(c)
  /\ UNCHANGED <<rows, disk, export, worker, turn, writer, sweep, history, calls, faults>>

\* ...or is busy five times: the answer is success all the same, with a daemon.error...
FlushBusy(c) ==
  /\ Fault
  /\ call[c].pc = "purges" /\ call[c].todo = <<>>
  /\ Tells(c, {})
  /\ Answers(c)
  /\ UNCHANGED <<rows, disk, export, worker, turn, writer, sweep, unflushed, by, calls>>

\* ...or raises an error of sqlite3, which nothing translates: the caller, if he is there,
\* gets an internal error, and nobody else is told.
FlushRaises(c) ==
  /\ Fault
  /\ call[c].pc = "purges" /\ call[c].todo = <<>>
  /\ raised' = raised \cup call[c].items
  /\ Answers(c)
  /\ UNCHANGED <<rows, disk, export, worker, turn, writer, sweep, unflushed, reported,
                 warned, died, late, unheard, by, calls>>

\* export_session: the document goes to a temporary file and is synced...
ExportWrites(c) ==
  /\ call[c].kind \in {"export", "exportDelete"}
  /\ call[c].pc = "ready" /\ thread = Nobody
  /\ IF session
     THEN /\ thread' = c
          /\ call' = [call EXCEPT ![c].pc = "renames"]
     ELSE Answers(c)
  /\ UNCHANGED <<rows, disk, export, worker, turn, writer, sweep, unflushed, history,
                 calls, faults>>

\* ...renamed, which a loss of power may undo...
ExportRenames(c) ==
  /\ call[c].pc = "renames"
  /\ export' = "renamed"
  /\ call' = [call EXCEPT ![c].pc = "syncs"]
  /\ UNCHANGED <<rows, disk, worker, turn, writer, thread, sweep, unflushed, history,
                 calls, faults>>

\* Mutant of ExportSyncs: the directory is not synced, as after Path.write_text.
ExportSyncsNothing(c) ==
  /\ call[c].pc = "syncs"
  /\ IF call[c].kind = "export" THEN Answers(c)
     ELSE call' = [call EXCEPT ![c].pc = "deletes"] /\ UNCHANGED thread
  /\ UNCHANGED <<rows, disk, export, worker, turn, writer, sweep, unflushed, history, calls,
                 faults>>

\* ...until the directory is synced.  Only then may the Session go.
ExportSyncs(c) ==
  /\ call[c].pc = "syncs"
  /\ export' = "durable"
  /\ IF call[c].kind = "export" THEN Answers(c)
     ELSE call' = [call EXCEPT ![c].pc = "deletes"] /\ UNCHANGED thread
  /\ UNCHANGED <<rows, disk, worker, turn, writer, sweep, unflushed, history, calls, faults>>

\* A write that fails leaves the Session alone, and the export as far as it got.
ExportFails(c) ==
  /\ Fault
  /\ call[c].pc \in {"renames", "syncs"}
  /\ Answers(c)
  /\ UNCHANGED <<rows, disk, export, worker, turn, writer, sweep, unflushed, history, calls>>

\* The client is gone and its handler cancelled, the lock with it.  What the database thread
\* was asked for and has not begun is not done; what it has begun goes on.
Disconnect(c) ==
  /\ call[c].pc # "idle" /\ call[c].heard
  /\ call' = [call EXCEPT ![c] = IF thread = c THEN [@ EXCEPT !.heard = FALSE] ELSE Idle]
  /\ UNCHANGED <<rows, disk, export, worker, turn, writer, thread, sweep, unflushed,
                 history, calls, faults>>

-----------------------------------------------------------------------------
\* The daemon dies, its worker with it; the next one settles the Runs it finds running.
Crash ==
  /\ Fault
  /\ status' = [r \in Runs |-> IF status[r] = "running" THEN "ended" ELSE status[r]]
  /\ worker' = FALSE
  /\ turn' = [pc |-> "idle", run |-> NoRun]
  /\ writer' = [r \in Runs |-> "none"]
  /\ call' = [c \in Clients |-> Idle]
  /\ thread' = Nobody
  /\ sweep' = [pc |-> "sleeps", todo |-> {}, run |-> NoRun]
  /\ died' = died \cup UNION {call[c].items : c \in Clients}
  /\ UNCHANGED <<refs, session, project, disk, export, unflushed, reported, warned, late,
                 unheard, raised, by, calls>>

Work(c) ==
  \/ Guard(c) \/ StopWorker(c)
  \/ DeleteSession(c) \/ DeleteRun(c) \/ DeleteProject(c)
  \/ Purge(c) \/ Flush(c)
  \/ ExportWrites(c) \/ ExportRenames(c) \/ ExportSyncs(c)

Next ==
  \/ \E r \in Runs : TurnStarts(r) \/ WriteFile(r) \/ WriteRef(r) \/ Expires(r)
  \/ TurnRuns \/ TurnSettles \/ TurnEnds \/ WorkerStops \/ WriteBegins
  \/ SweepList \/ SweepClear \/ SweepSleeps
  \/ \E r \in Runs : SweepPurge(r) \/ SweepPurgeFails(r)
  \/ \E c \in Clients, kind \in {"session", "exportDelete", "run", "project", "export"},
        r \in Runs \cup {NoRun} : Calls(c, kind, r)
  \/ \E c \in Clients : Work(c) \/ PurgeFails(c) \/ FlushBusy(c) \/ FlushRaises(c)
                        \/ ExportFails(c) \/ Disconnect(c)
  \/ Crash

Spec == Init /\ [][Next]_vars

\* The sweep wakes every hour, and the database thread serves the calls it has begun.
FairSpec ==
  /\ Spec
  /\ \A c \in Clients : WF_vars(Work(c))
  /\ WF_vars(SweepList) /\ WF_vars(SweepClear) /\ WF_vars(SweepSleeps)
  /\ \A r \in Runs : WF_vars(SweepPurge(r))

-----------------------------------------------------------------------------
Requests ==
  [pc : {"idle", "guard", "stops", "ready", "renames", "syncs", "deletes", "purges"},
   kind : {"none", "session", "exportDelete", "run", "project", "export"},
   run : Runs \cup {NoRun}, items : SUBSET Items, todo : Seq(Items),
   heard : BOOLEAN]

TypeOK ==
  /\ status \in [Runs -> {"none", "running", "ended", "expired", "deleted"}]
  /\ refs \subseteq Runs
  /\ session \in BOOLEAN
  /\ project \in BOOLEAN
  /\ disk \in [Items -> {"gone", "part", "whole"}]
  /\ export \in {"none", "renamed", "durable"}
  /\ worker \in BOOLEAN
  /\ turn \in [pc : {"idle", "starting", "running", "ending"}, run : Runs \cup {NoRun}]
  /\ writer \in [Runs -> {"none", "writes", "refers"}]
  /\ call \in [Clients -> Requests]
  /\ thread \in Clients \cup {Nobody}
  /\ sweep \in [pc : {"sleeps", "next", "clears"}, todo : SUBSET Runs,
                run : Runs \cup {NoRun}]

\* What the database refers to can be read, whoever writes, sweeps or deletes meanwhile,
\* and wherever the daemon dies; only a Run past its retention may have lost its payload.
RefsResolve == \A r \in refs : disk[r] = "whole" \/ status[r] = "expired"

\* A deletion never pulls the rows, or the worker's home, from under a live Turn, though
\* the database learns of a Turn only after it has begun (delete_guard).
LiveTurnKept ==
  /\ turn.pc # "idle" => session
  /\ turn.pc = "running" => status[turn.run] = "running"
  /\ worker => disk["home"] = "whole"

Deleted(i) ==
  CASE i = "home" -> ~session
    [] i = "attachments" -> ~project
    [] OTHER -> status[i] = "deleted"

\* Two outcomes only: a deletion is complete, on the disk and in the database file, or a
\* daemon.error said what is left (ruling R-O1), the home by the stage; but for some items.
TwoOutcomes(excused) ==
  /\ \A i \in Items :
       Deleted(i) /\ disk[i] # "gone" =>
         \/ i \in reported \cup excused \cup UNION {Range(call[c].todo) : c \in Clients}
         \/ i = "home" /\ i \in warned
  /\ unflushed \subseteq warned \cup excused \cup UNION {call[c].items : c \in Clients}

\* Nothing else leaves anything behind in silence than the death of the daemon in the middle,
\* a payload that was being written while its Run was deleted, a client that was gone before
\* its deletion failed, and a checkpoint that failed otherwise than by being busy.
LeftoversAreKnown == TwoOutcomes(died \cup late \cup unheard \cup raised)

\* A payload that is still being written does not survive the deletion of its Run
\* (delete_run: the rows and the payload directory).  Violated, like the next two.
NothingComesBack == TwoOutcomes(died \cup unheard \cup raised)

\* Whoever is gone, a deletion that fails halfway is told of (PartialDeleteError: "never
\* pretend it was done").
FailureIsTold == TwoOutcomes(died \cup late \cup raised)

\* A checkpoint that fails, however it does, is told of (_run_delete_honestly).
CheckpointIsTold == TwoOutcomes(died \cup late \cup unheard)

\* A Session deleted after its export is not gone before the export is there to stay.
ExportFirst == by = "exportDelete" /\ project => export = "durable"

\* References to payloads that are gone - the daemon died, or failed, between the two - are
\* cleared by a later sweep: again and again there is none.
DanglingIsCleared == []<>(\A r \in refs : disk[r] # "gone")
=============================================================================
