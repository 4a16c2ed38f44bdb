--------------------------- MODULE WorkerPoolProofs ---------------------------
(***************************************************************************)
(* Theorems about WorkerPool, for any sessions, workers, kids, stops and   *)
(* profiles: which workers can come to have nobody who would end them, a   *)
(* stop is never told as a crash, no worker is delivered that nothing      *)
(* vouches for, and a stop signals nothing but what its Turn started.      *)
(***************************************************************************)
EXTENDS WorkerPool, TLAPS

\* Who is to be stopped next.
Lists ==
  /\ sweep.worker \in Workers \cup {None}
  /\ sweep.left \subseteq Sessions
  /\ daemon \in [state : {"up", "stopping", "down"}, left : SUBSET Sessions,
                 worker : Workers \cup {None}]

\* What the arguments below need of the types.
Types ==
  /\ reg \in [Sessions -> Workers \cup {None}]
  /\ teardown \in [Workers -> {"no", "term", "cut", "done"}]
  /\ watcher \in [Workers -> {"none", "watching", "reaping", "over"}]
  /\ Lists
  /\ stage \in [Workers -> {"unborn", "handshake", "check", "again", "ready", "refused"}]
  /\ phase \in [Sessions -> {"none", "created", "begun", "busy", "starting", "running",
                             "deleting", "deleted"}]
  /\ using \in [Sessions -> Workers \cup {None}]
  /\ proc \in [Workers -> {"unborn", "up", "dead"}]
  /\ group \in [Workers -> BOOLEAN]
  /\ owner \in [Workers -> Sessions \cup {None}]
  /\ lost \subseteq Workers
  /\ stray \subseteq Workers
  /\ crashes \in [Workers -> Nat]
  /\ stopped \subseteq Workers

\* A registration is of a worker delivered for the session, which nobody stopped and whose
\* end nobody was told of.
Registered ==
  \A s \in Sessions :
    reg[s] # None =>
      /\ owner[reg[s]] = s /\ stage[reg[s]] = "ready"
      /\ crashes[reg[s]] = 0 /\ reg[s] \notin stopped

\* While a Turn starts a worker, its session has no other; a deletion that waits has one.
Startup ==
  \A s \in Sessions :
    /\ phase[s] = "starting" =>
         /\ reg[s] = None /\ using[s] \in Workers
         /\ owner[using[s]] = s /\ stage[using[s]] \notin {"unborn", "ready"}
    /\ phase[s] = "deleting" => using[s] \in Workers

\* A process from before its spawn to after its teardown.
Processes ==
  \A w \in Workers :
    /\ proc[w] = "unborn" => stage[w] = "unborn" /\ ~group[w] /\ teardown[w] = "no"
    /\ proc[w] # "unborn" => owner[w] \in Sessions
    /\ teardown[w] = "done" => proc[w] = "dead" /\ ~group[w]

\* A watcher reaps a worker that has died unstopped, and tells of it once.
Watchers ==
  \A w \in Workers :
    /\ watcher[w] = "reaping" =>
         proc[w] = "dead" /\ w \notin stopped /\ \A s \in Sessions : reg[s] # w
    /\ watcher[w] \in {"watching", "reaping"} => stage[w] = "ready"
    /\ watcher[w] # "over" => crashes[w] = 0
    /\ stage[w] # "ready" => crashes[w] = 0 /\ w \notin stopped

\* The inductive invariant.
IInv ==
  Types /\ Registered /\ Startup /\ Processes /\ Watchers /\ OrphanWasLetGo /\ CrashMeansCrash

USE PoolAssumption

-----------------------------------------------------------------------------
\* The invariant holds when no worker was ever started.
LEMMA InitIInv == Init => IInv
<1> SUFFICES ASSUME Init PROVE IInv
  OBVIOUS
<1> USE DEF Init
<1>1. Types
  BY SMT DEF Types, Lists
<1>2. Registered /\ Startup
  BY SMT DEF Registered, Startup
<1>3. Processes /\ Watchers
  BY SMT DEF Processes, Watchers
<1>4. OrphanWasLetGo /\ CrashMeansCrash
  BY SMT DEF OrphanWasLetGo, Held, CrashMeansCrash
<1> QED
  BY <1>1, <1>2, <1>3, <1>4 DEF IInv

\* A Turn is created.
LEMMA NewTurnKeeps ==
  ASSUME IInv, NEW s \in Sessions, NewTurn(s)
  PROVE  IInv'
<1> USE DEF IInv, NewTurn, lifecycle, callers, os, ownerless
<1>1. Types'
  BY SMT DEF Types, Lists
<1>2. Registered' /\ Startup' /\ Processes'
  BY SMT DEF Registered, Startup, Processes
<1>3. Watchers' /\ OrphanWasLetGo' /\ CrashMeansCrash'
  BY SMT DEF Watchers, OrphanWasLetGo, Held, CrashMeansCrash
<1> QED
  BY <1>1, <1>2, <1>3, Zenon

\* Its first line runs.
LEMMA TurnBeginsKeeps ==
  ASSUME IInv, NEW s \in Sessions, TurnBegins(s)
  PROVE  IInv'
<1> USE DEF IInv, TurnBegins, lifecycle, callers, os, ownerless
<1>1. Types'
  BY SMT DEF Types, Lists
<1>2. Registered' /\ Startup' /\ Processes'
  BY SMT DEF Registered, Startup, Processes
<1>3. Watchers' /\ OrphanWasLetGo' /\ CrashMeansCrash'
  BY SMT DEF Watchers, OrphanWasLetGo, Held, CrashMeansCrash
<1> QED
  BY <1>1, <1>2, <1>3, Zenon

\* Its session's worker, if there is one, is marked.
LEMMA TurnBusyKeeps ==
  ASSUME IInv, NEW s \in Sessions, TurnBusy(s)
  PROVE  IInv'
<1> USE DEF IInv, TurnBusy, lifecycle, callers, os, ownerless
<1>1. Types'
  BY SMT DEF Types, Lists
<1>2. Registered' /\ Startup' /\ Processes'
  BY SMT DEF Registered, Startup, Processes
<1>3. Watchers' /\ OrphanWasLetGo' /\ CrashMeansCrash'
  BY SMT DEF Watchers, OrphanWasLetGo, Held, CrashMeansCrash
<1> QED
  BY <1>1, <1>2, <1>3, Zenon

\* A Turn uses the registered worker.
LEMMA ReuseKeeps ==
  ASSUME IInv, NEW s \in Sessions, Reuse(s)
  PROVE  IInv'
<1> USE DEF IInv, Reuse, lifecycle, callers, os, ownerless
<1>1. Types'
  BY SMT DEF Types, Lists
<1>2. Registered' /\ Startup' /\ Processes'
  BY SMT DEF Registered, Startup, Processes
<1>3. Watchers' /\ OrphanWasLetGo' /\ CrashMeansCrash'
  BY SMT DEF Watchers, OrphanWasLetGo, Held, CrashMeansCrash
<1> QED
  BY <1>1, <1>2, <1>3, Zenon

\* A process is spawned for a session that has none.
LEMMA SpawnKeeps ==
  ASSUME IInv, NEW s \in Sessions, NEW w \in Workers, Spawn(s, w)
  PROVE  IInv'
<1> USE DEF IInv, Spawn, lifecycle, callers, os, ownerless
<1>1. Types'
  BY SMT DEF Types, Lists
<1>2. Registered'
  BY SMT DEF Types, Registered, Processes
<1>3. Startup'
  BY SMT DEF Types, Startup, Processes
<1>4. Processes'
  BY SMT DEF Types, Processes
<1>5. Watchers'
  BY SMT DEF Types, Processes, Watchers
<1>6. OrphanWasLetGo'
  BY SMT DEF Types, OrphanWasLetGo, Held
<1>7. CrashMeansCrash'
  BY SMT DEF CrashMeansCrash
<1> QED
  BY <1>1, <1>2, <1>3, <1>4, <1>5, <1>6, <1>7, Zenon

\* The start-up goes on.
LEMMA HandshakeKeeps ==
  ASSUME IInv, NEW s \in Sessions, NEW w \in Workers, Handshake(s, w)
  PROVE  IInv'
<1> USE DEF IInv, Handshake, lifecycle, callers, os, ownerless, Starting, StartUnchanged
<1>1. Types'
  BY SMT DEF Types, Lists
<1>2. Registered' /\ Startup' /\ Processes'
  BY SMT DEF Registered, Startup, Processes
<1>3. Watchers' /\ OrphanWasLetGo' /\ CrashMeansCrash'
  BY SMT DEF Watchers, OrphanWasLetGo, Held, CrashMeansCrash
<1> QED
  BY <1>1, <1>2, <1>3, Zenon

\* The start-up goes on.
LEMMA CheckPassesKeeps ==
  ASSUME IInv, NEW s \in Sessions, NEW w \in Workers, CheckPasses(s, w)
  PROVE  IInv'
<1> USE DEF IInv, CheckPasses, lifecycle, callers, os, ownerless, Starting, StartUnchanged
<1>1. Types'
  BY SMT DEF Types, Lists
<1>2. Registered' /\ Startup' /\ Processes'
  BY SMT DEF Registered, Startup, Processes
<1>3. Watchers' /\ OrphanWasLetGo' /\ CrashMeansCrash'
  BY SMT DEF Watchers, OrphanWasLetGo, Held, CrashMeansCrash
<1> QED
  BY <1>1, <1>2, <1>3, Zenon

\* The start-up fails, and the process is taken down.
LEMMA StartFailsKeeps ==
  ASSUME IInv, NEW s \in Sessions, NEW w \in Workers, StartFails(s, w)
  PROVE  IInv'
<1> USE DEF IInv, StartFails, lifecycle, callers, os, ownerless, Starting, StartUnchanged
<1>1. Types'
  BY SMT DEF Types, Lists
<1>2. Registered' /\ Startup' /\ Processes'
  BY SMT DEF Registered, Startup, Processes
<1>3. Watchers' /\ OrphanWasLetGo' /\ CrashMeansCrash'
  BY SMT DEF Watchers, OrphanWasLetGo, Held, CrashMeansCrash
<1> QED
  BY <1>1, <1>2, <1>3, Zenon

\* The start-up breaks, and nobody has the process.
LEMMA StartBreaksKeeps ==
  ASSUME IInv, NEW s \in Sessions, NEW w \in Workers, StartBreaks(s, w)
  PROVE  IInv'
<1> USE DEF IInv, StartBreaks, lifecycle, callers, os, ownerless, Starting
<1>1. Types'
  BY SMT DEF Types, Lists
<1>2. Registered'
  BY SMT DEF Types, Registered, Startup
<1>3. Startup' /\ OrphanWasLetGo' /\ CrashMeansCrash'
  BY SMT DEF Startup, OrphanWasLetGo, Held, CrashMeansCrash
<1>4. Processes'
  BY SMT DEF Types, Startup, Processes
<1>5. Watchers'
  BY SMT DEF Types, Startup, Watchers
<1> QED
  BY <1>1, <1>2, <1>3, <1>4, <1>5, Zenon

\* It is down, and the Turn ends.
LEMMA StartRefusedKeeps ==
  ASSUME IInv, NEW s \in Sessions, NEW w \in Workers, StartRefused(s, w)
  PROVE  IInv'
<1> USE DEF IInv, StartRefused, lifecycle, callers, os, ownerless, StartUnchanged
<1>1. Types'
  BY SMT DEF Types, Lists
<1>2. Registered' /\ Startup' /\ Processes'
  BY SMT DEF Registered, Startup, Processes
<1>3. Watchers' /\ CrashMeansCrash'
  BY SMT DEF Watchers, CrashMeansCrash
<1>4. OrphanWasLetGo'
  BY SMT DEF Types, Processes, OrphanWasLetGo, Held
<1> QED
  BY <1>1, <1>2, <1>3, <1>4, Zenon

\* The worker is registered.
LEMMA DeliverKeeps ==
  ASSUME IInv, NEW s \in Sessions, NEW w \in Workers, Deliver(s, w)
  PROVE  IInv'
<1> USE DEF IInv, Deliver, lifecycle, callers, os, ownerless, Starting
<1>1. Types'
  BY SMT DEF Types, Lists
<1>2. Registered'
  BY SMT DEF Types, Registered, Startup, Processes, Watchers
<1>3. Startup'
  BY SMT DEF Types, Startup
<1>4. Processes' /\ CrashMeansCrash'
  BY SMT DEF Processes, CrashMeansCrash
<1>5. Watchers'
  BY SMT DEF Types, Watchers
<1>6. OrphanWasLetGo'
  BY SMT DEF Types, Startup, OrphanWasLetGo, Held
<1> QED
  BY <1>1, <1>2, <1>3, <1>4, <1>5, <1>6, Zenon

\* A cancelled start-up loses its worker.
LEMMA CancelStartKeeps ==
  ASSUME IInv, NEW s \in Sessions, NEW w \in Workers, CancelStart(s, w)
  PROVE  IInv'
<1> USE DEF IInv, CancelStart, lifecycle, callers, os, ownerless
<1>1. Types'
  BY SMT DEF Types, Lists
<1>2. Registered'
  BY SMT DEF Types, Registered, Startup
<1>3. Startup' /\ OrphanWasLetGo' /\ CrashMeansCrash'
  BY SMT DEF Startup, OrphanWasLetGo, Held, CrashMeansCrash
<1>4. Processes'
  BY SMT DEF Types, Startup, Processes
<1>5. Watchers'
  BY SMT DEF Types, Startup, Watchers
<1> QED
  BY <1>1, <1>2, <1>3, <1>4, <1>5, Zenon

\* A Turn is over.
LEMMA TurnEndsKeeps ==
  ASSUME IInv, NEW s \in Sessions, TurnEnds(s)
  PROVE  IInv'
<1> USE DEF IInv, TurnEnds, lifecycle, callers, os, ownerless
<1>1. Types'
  BY SMT DEF Types, Lists
<1>2. Registered' /\ Startup' /\ Processes'
  BY SMT DEF Registered, Startup, Processes
<1>3. Watchers' /\ OrphanWasLetGo' /\ CrashMeansCrash'
  BY SMT DEF Watchers, OrphanWasLetGo, Held, CrashMeansCrash
<1> QED
  BY <1>1, <1>2, <1>3, Zenon

\* The idle reaper stops a worker.
LEMMA SweepScanKeeps ==
  ASSUME IInv, NEW s \in Sessions, SweepScan(s)
  PROVE  IInv'
<1> USE DEF IInv, SweepScan, lifecycle, callers, os, ownerless, StopWorker, Idle
<1>1. Types'
  BY SMT DEF Types, Lists
<1>2. Registered'
  BY SMT DEF Types, Registered
<1>3. Startup'
  BY SMT DEF Startup
<1>4. Processes'
  BY SMT DEF Types, Registered, Processes
<1>5. Watchers'
  BY SMT DEF Types, Registered, Watchers
<1>6. OrphanWasLetGo'
  BY SMT DEF Types, OrphanWasLetGo, Held
<1>7. CrashMeansCrash'
  BY SMT DEF Types, Registered, CrashMeansCrash
<1> QED
  BY <1>1, <1>2, <1>3, <1>4, <1>5, <1>6, <1>7, Zenon

\* The deletion of a session stops its worker.
LEMMA DeleteKeeps ==
  ASSUME IInv, NEW s \in Sessions, Delete(s)
  PROVE  IInv'
<1> USE DEF IInv, Delete, lifecycle, callers, os, ownerless, StopWorker
<1>1. Types'
  BY SMT DEF Types, Lists
<1>2. Registered'
  BY SMT DEF Types, Registered
<1>3. Startup'
  BY SMT DEF Types, Startup
<1>4. Processes'
  BY SMT DEF Types, Registered, Processes
<1>5. Watchers'
  BY SMT DEF Types, Registered, Watchers
<1>6. OrphanWasLetGo'
  BY SMT DEF Types, Processes, OrphanWasLetGo, Held
<1>7. CrashMeansCrash'
  BY SMT DEF Types, Registered, CrashMeansCrash
<1> QED
  BY <1>1, <1>2, <1>3, <1>4, <1>5, <1>6, <1>7, Zenon

\* The worker of a deleted session is down.
LEMMA DeletedKeeps ==
  ASSUME IInv, NEW s \in Sessions, Deleted(s)
  PROVE  IInv'
<1> USE DEF IInv, Deleted, lifecycle, callers, os, ownerless
<1>1. Types'
  BY SMT DEF Types, Lists
<1>2. Registered' /\ Startup' /\ Processes'
  BY SMT DEF Registered, Startup, Processes
<1>3. Watchers' /\ OrphanWasLetGo' /\ CrashMeansCrash'
  BY SMT DEF Watchers, OrphanWasLetGo, Held, CrashMeansCrash
<1> QED
  BY <1>1, <1>2, <1>3, Zenon

\* The deletion is given up, and nobody has the worker.
LEMMA DeleteCutKeeps ==
  ASSUME IInv, NEW s \in Sessions, DeleteCut(s)
  PROVE  IInv'
<1> USE DEF IInv, DeleteCut, lifecycle, callers, os, ownerless
<1>1. Types'
  BY SMT DEF Types, Lists, Startup
<1>2. Registered' /\ Startup'
  BY SMT DEF Registered, Startup
<1>3. OrphanWasLetGo' /\ CrashMeansCrash'
  BY SMT DEF Types, OrphanWasLetGo, Held, CrashMeansCrash
<1>4. Processes'
  BY SMT DEF Types, Processes
<1>5. Watchers'
  BY SMT DEF Watchers
<1> QED
  BY <1>1, <1>2, <1>3, <1>4, <1>5, Zenon

\* A dead worker loses its registration, if it still has it.
LEMMA WatchExitKeeps ==
  ASSUME IInv, NEW w \in Workers, WatchExit(w)
  PROVE  IInv'
<1> USE DEF IInv, WatchExit, lifecycle, callers, os, ownerless
<1>1. Types'
  BY SMT DEF Types, Lists
<1>2. Registered'
  BY SMT DEF Types, Registered
<1>3. Startup'
  BY SMT DEF Types, Startup
<1>4. Processes' /\ CrashMeansCrash'
  BY SMT DEF Processes, CrashMeansCrash
<1>5. Watchers'
  BY SMT DEF Types, Registered, Processes, Watchers
<1>6. OrphanWasLetGo'
  BY SMT DEF Types, Processes, OrphanWasLetGo, Held
<1> QED
  BY <1>1, <1>2, <1>3, <1>4, <1>5, <1>6, Zenon

\* The daemon stops; the reaper is cut short.
LEMMA ShutdownStarts ==
  ASSUME IInv, Shutdown
  PROVE  IInv'
<1> USE DEF IInv, Shutdown, lifecycle, callers, os, ownerless
<1>1. Types'
  BY SMT DEF Types, Lists
<1>2. Registered' /\ Startup' /\ Watchers' /\ CrashMeansCrash'
  BY SMT DEF Registered, Startup, Watchers, CrashMeansCrash
<1>3. Processes'
  BY SMT DEF Types, Processes
<1>4. OrphanWasLetGo'
  BY SMT DEF Types, OrphanWasLetGo, Held
<1> QED
  BY <1>1, <1>2, <1>3, <1>4, Zenon

\* A step that changes nothing the invariant is about, but perhaps the reaper's list.
LEMMA QuietKeeps ==
  ASSUME IInv, Lists',
         daemon'.state = daemon.state,
         UNCHANGED <<reg, teardown, watcher, stage, phase, using, proc, group, owner, ownerless,
                     crashes, stopped>>
  PROVE  IInv'
<1> USE DEF IInv, ownerless
<1>1. Types' /\ Registered' /\ Startup'
  BY SMT DEF Types, Registered, Startup
<1>2. Processes' /\ Watchers'
  BY SMT DEF Processes, Watchers
<1>3. OrphanWasLetGo' /\ CrashMeansCrash'
  BY SMT DEF OrphanWasLetGo, Held, CrashMeansCrash
<1> QED
  BY <1>1, <1>2, <1>3, Zenon

\* One worker is stopped, by whoever it is.
LEMMA StopKeeps ==
  ASSUME IInv, NEW s \in Sessions, reg[s] # None, StopWorker(s),
         Lists', daemon'.state = daemon.state,
         UNCHANGED <<watcher, stage, phase, using, proc, group, owner, ownerless, crashes>>
  PROVE  IInv'
<1> USE DEF IInv, StopWorker, ownerless
<1>1. Types'
  BY SMT DEF Types
<1>2. Registered' /\ Startup'
  BY SMT DEF Types, Registered, Startup
<1>3. Processes'
  BY SMT DEF Types, Registered, Processes
<1>4. Watchers'
  BY SMT DEF Types, Registered, Watchers
<1>5. OrphanWasLetGo'
  BY SMT DEF Types, Registered, OrphanWasLetGo, Held
<1>6. CrashMeansCrash'
  BY SMT DEF Types, Registered, CrashMeansCrash
<1> QED
  BY <1>1, <1>2, <1>3, <1>4, <1>5, <1>6, Zenon

\* The idle reaper stops the next of its list, or is through with it.
LEMMA SweepNextKeeps ==
  ASSUME IInv, SweepNext
  PROVE  IInv'
<1>0. UNCHANGED <<watcher, daemon, stage, phase, using, proc, group, owner, ownerless, crashes>>
  BY Zenon DEF SweepNext, lifecycle, callers, os, ownerless
<1>1. ASSUME NEW s \in sweep.left, reg[s] # None, StopWorker(s),
             sweep' = [worker |-> reg[s], left |-> sweep.left \ {s}]
      PROVE  IInv'
  <2>1. s \in Sessions /\ reg[s] \in Workers \cup {None}
    BY SMT DEF IInv, Types, Lists
  <2>2. sweep'.worker = reg[s] /\ sweep'.left = sweep.left \ {s} /\ daemon' = daemon
    BY <1>0, <1>1
  <2>3. Lists'
    BY <2>1, <2>2, SMT DEF IInv, Types, Lists
  <2> QED
    BY <1>0, <1>1, <2>1, <2>3, StopKeeps
<1>2. ASSUME UNCHANGED <<reg, teardown, stopped>>, sweep' = [worker |-> None, left |-> {}]
      PROVE  IInv'
  <2>1. Lists'
    BY <1>0, <1>2, SMT DEF IInv, Types, Lists
  <2> QED
    BY <1>0, <1>2, <2>1, QuietKeeps
<1> QED
  BY <1>1, <1>2 DEF SweepNext

\* The daemon stops one worker after the other, and ends its watchers with itself.
LEMMA ShutdownKeeps ==
  ASSUME IInv, ShutdownStep
  PROVE  IInv'
<1>0. UNCHANGED <<sweep, stage, phase, using, proc, group, owner, crashes>>
  BY Zenon DEF ShutdownStep, lifecycle, callers, os, ownerless
<1>1. ASSUME NEW s \in daemon.left, reg[s] # None, StopWorker(s), UNCHANGED <<watcher, ownerless>>,
             daemon' = [daemon EXCEPT !.left = @ \ {s}, !.worker = reg[s]]
      PROVE  IInv'
  <2>1. s \in Sessions /\ reg[s] \in Workers
    BY <1>1, SMT DEF IInv, Types, Lists
  <2>2. /\ daemon \in [state : {"up", "stopping", "down"}, left : SUBSET Sessions,
                     worker : Workers \cup {None}]
        /\ daemon' = [daemon EXCEPT !.left = daemon.left \ {s}, !.worker = reg[s]]
    BY <1>1, Zenon DEF IInv, Types, Lists
  <2>3. /\ daemon' \in [state : {"up", "stopping", "down"}, left : SUBSET Sessions,
                      worker : Workers \cup {None}]
        /\ daemon'.state = daemon.state
    BY <2>1, <2>2
  <2>4. Lists'
    BY <1>0, <2>3, Zenon DEF IInv, Types, Lists
  <2> QED
    BY <1>0, <1>1, <2>1, <2>3, <2>4, StopKeeps
<1>2. ASSUME UNCHANGED <<reg, teardown, stopped>>,
             lost' = lost \cup {w \in Workers : watcher[w] = "reaping"},
             stray' = stray \cup {w \in Workers : Held(w)},
             watcher' = [w \in Workers |-> "over"],
             daemon' = [state |-> "down", left |-> {}, worker |-> None]
      PROVE  IInv'
  <2> USE <1>0, <1>2 DEF IInv
  <2>1. Types'
    BY SMT DEF Types, Lists
  <2>2. Registered' /\ Startup' /\ Processes'
    BY SMT DEF Types, Registered, Startup, Processes
  <2>3. Watchers' /\ CrashMeansCrash'
    BY SMT DEF Types, Watchers, CrashMeansCrash
  <2>4. OrphanWasLetGo'
    BY SMT DEF Types, OrphanWasLetGo, Held
  <2> QED
    BY <2>1, <2>2, <2>3, <2>4, Zenon
<1> QED
  BY <1>1, <1>2, Zenon DEF ShutdownStep

\* A teardown leaves no process and no group.
LEMMA TeardownEndsKeeps ==
  ASSUME IInv, NEW w \in Workers, TeardownEnds(w)
  PROVE  IInv'
<1>1. /\ teardown[w] = "term"
      /\ teardown' = [teardown EXCEPT ![w] = "done"]
      /\ group' = [group EXCEPT ![w] = FALSE]
      /\ proc' = IF proc[w] = "up" THEN [proc EXCEPT ![w] = "dead"] ELSE proc
  BY Zenon DEF TeardownEnds, ProcessEnds, ReapGroup
<1>2. UNCHANGED <<reg, watcher, sweep, daemon, stage, phase, using, owner, ownerless, crashes, stopped>>
  BY Zenon DEF TeardownEnds, lifecycle, callers
<1> USE <1>1, <1>2 DEF IInv, ownerless
<1>3. Types'
  BY SMT DEF Types, Lists
<1>4. Registered' /\ Startup'
  BY Zenon DEF Registered, Startup
<1>5. Processes'
  BY SMT DEF Types, Processes
<1>6. Watchers' /\ CrashMeansCrash'
  BY SMT DEF Types, Watchers, CrashMeansCrash
<1>7. OrphanWasLetGo'
  BY SMT DEF Types, Processes, OrphanWasLetGo, Held
<1> QED
  BY <1>3, <1>4, <1>5, <1>6, <1>7, Zenon

\* A worker dies by itself; what is left of its group is still somebody's to end.
LEMMA ExitKeeps ==
  ASSUME IInv, NEW w \in Workers, NEW survivors \in BOOLEAN, Exit(w, survivors)
  PROVE  IInv'
<1>1. /\ proc[w] = "up"
      /\ group' = [group EXCEPT ![w] = survivors]
      /\ proc' = [proc EXCEPT ![w] = "dead"]
  BY Zenon DEF Exit, ProcessEnds
<1>2. UNCHANGED <<reg, teardown, watcher, sweep, daemon, stage, phase, using, owner, ownerless, crashes,
                  stopped>>
  BY Zenon DEF Exit, lifecycle, callers
<1> USE <1>1, <1>2 DEF IInv, ownerless
<1>3. Types'
  <2>1. group' \in [Workers -> BOOLEAN]
    BY Zenon DEF Types
  <2>2. proc' \in [Workers -> {"unborn", "up", "dead"}]
    BY SMT DEF Types
  <2> QED
    BY <2>1, <2>2, Zenon DEF Types, Lists
<1>4. Registered' /\ Startup'
  BY Zenon DEF Registered, Startup
<1>5. Processes'
  BY SMT DEF Types, Processes
<1>6. Watchers' /\ CrashMeansCrash'
  BY SMT DEF Types, Watchers, CrashMeansCrash
<1>7. OrphanWasLetGo'
  BY SMT DEF Types, OrphanWasLetGo, Held
<1> QED
  BY <1>3, <1>4, <1>5, <1>6, <1>7, Zenon

\* A watcher reaps the group of its dead worker and tells the sessions.
LEMMA ReportCrashKeeps ==
  ASSUME IInv, NEW w \in Workers, ReportCrash(w)
  PROVE  IInv'
<1>1. /\ watcher[w] = "reaping"
      /\ watcher' = [watcher EXCEPT ![w] = "over"]
      /\ group' = [group EXCEPT ![w] = FALSE]
      /\ crashes' = [crashes EXCEPT ![w] = @ + 1]
      /\ UNCHANGED <<reg, teardown, sweep, daemon, stage, phase, using, proc, owner, ownerless,
                     stopped>>
  BY Zenon DEF ReportCrash, ReapGroup, lifecycle, callers
<1>2. /\ proc[w] = "dead" /\ crashes[w] = 0 /\ stage[w] = "ready" /\ w \notin stopped
      /\ \A s \in Sessions : reg[s] # w
  BY <1>1, SMT DEF IInv, Types, Watchers
<1>3. crashes'[w] = 1 /\ \A v \in Workers : v # w => crashes'[v] = crashes[v]
  BY <1>1, <1>2, SMT DEF IInv, Types
<1>4. watcher'[w] = "over" /\ \A v \in Workers : v # w => watcher'[v] = watcher[v]
  BY <1>1, SMT DEF IInv, Types
<1> USE DEF IInv, ownerless
<1>5. Types'
  BY <1>1, SMT DEF Types, Lists
<1>6. Registered'
  BY <1>1, <1>2, <1>3, SMT DEF Types, Registered
<1>7. Startup' /\ Processes'
  BY <1>1, SMT DEF Types, Startup, Processes
<1>8. Watchers'
  BY <1>1, <1>2, <1>3, <1>4, SMT DEF Types, Watchers
<1>9. CrashMeansCrash'
  BY <1>1, <1>2, <1>3, SMT DEF Types, CrashMeansCrash
<1>10. OrphanWasLetGo'
  BY <1>1, <1>2, <1>4, SMT DEF Types, OrphanWasLetGo, Held
<1> QED
  BY <1>5, <1>6, <1>7, <1>8, <1>9, <1>10, Zenon

\* The probe changes nothing the invariant is about.
LEMMA ProbeKeeps ==
  ASSUME IInv, NEW w \in Workers,
         WriteSnapshot(w) \/ \E verdict \in Verdicts : ProbeEnds(w, verdict)
  PROVE  IInv'
<1>1. UNCHANGED <<reg, teardown, watcher, stage, phase, using, proc, group, owner, ownerless,
                  crashes, stopped, sweep, daemon>>
  BY Zenon DEF WriteSnapshot, ProbeEnds, StartUnchanged, os
<1> QED
  BY <1>1, QuietKeeps DEF IInv, Types, Lists

\* Nor do the processes of the tools, or a stop that reaps them.
LEMMA KidsKeep ==
  ASSUME IInv,
         \/ \E s \in Sessions, r \in Stops : Stop(s, r)
         \/ \E r \in Stops : ReapTerm(r) \/ ReapKill(r)
         \/ \E s \in Sessions, k \in Kids : StartKid(s, k)
         \/ \E k \in Kids : \/ \E parent \in Kids : Fork(k, parent)
                            \/ \E state \in {"adrift", "dead"} : KidLeaves(k, state)
  PROVE  IInv'
<1> DEFINE Quiet == UNCHANGED <<reg, teardown, watcher, stage, phase, using, proc, group, owner,
                                ownerless, crashes, stopped, sweep, daemon>>
<1>1. ASSUME NEW s \in Sessions, NEW r \in Stops, Stop(s, r) PROVE Quiet
  BY <1>1, Zenon DEF Stop, lifecycle, callers, os, ownerless
<1>2. ASSUME NEW r \in Stops, ReapTerm(r) PROVE Quiet
  BY <1>2, Zenon DEF ReapTerm, lifecycle, callers, os, ownerless
<1>3. ASSUME NEW r \in Stops, ReapKill(r) PROVE Quiet
  BY <1>3, Zenon DEF ReapKill, lifecycle, callers, os, ownerless
<1>4. ASSUME NEW s \in Sessions, NEW k \in Kids, StartKid(s, k) PROVE Quiet
  BY <1>4, Zenon DEF StartKid, lifecycle, callers, os, ownerless
<1>5. ASSUME NEW k \in Kids, NEW parent \in Kids, Fork(k, parent) PROVE Quiet
  BY <1>5, Zenon DEF Fork, lifecycle, callers, os, ownerless
<1>6. ASSUME NEW k \in Kids, NEW state \in {"adrift", "dead"}, KidLeaves(k, state) PROVE Quiet
  BY <1>6, Zenon DEF KidLeaves, lifecycle, callers, os, ownerless
<1>7. Quiet
  <2> HIDE DEF Quiet
  <2> QED
    BY <1>1, <1>2, <1>3, <1>4, <1>5, <1>6
<1> QED
  BY <1>7, QuietKeeps DEF IInv, Types, Lists

-----------------------------------------------------------------------------
\* Every step keeps the invariant.
LEMMA StepIInv == IInv /\ [Next]_vars => IInv'
<1> SUFFICES ASSUME IInv, [Next]_vars PROVE IInv'
  OBVIOUS
<1>1. ASSUME NEW s \in Sessions, TurnStep(s) PROVE IInv'
  <2>1. CASE TurnBegins(s) \/ TurnBusy(s) \/ Reuse(s)
    BY <2>1, TurnBeginsKeeps, TurnBusyKeeps, ReuseKeeps
  <2>2. ASSUME NEW w \in Workers, Spawn(s, w) \/ StartStep(s, w) PROVE IInv'
    <3>1. CASE Spawn(s, w)
      BY <3>1, SpawnKeeps
    <3>2. CASE StartStep(s, w)
      BY <3>2, HandshakeKeeps, CheckPassesKeeps, StartFailsKeeps, StartBreaksKeeps,
      StartRefusedKeeps, DeliverKeeps
      DEF StartStep
    <3> QED
      BY <2>2, <3>1, <3>2
  <2> QED
    BY <1>1, <2>1, <2>2 DEF TurnStep
<1>2. ASSUME NEW s \in Sessions,
             \/ NewTurn(s) \/ TurnEnds(s) \/ SweepScan(s) \/ Delete(s) \/ Deleted(s)
             \/ DeleteCut(s) \/ \E w \in Workers : CancelStart(s, w)
      PROVE  IInv'
  BY <1>2, NewTurnKeeps, TurnEndsKeeps, SweepScanKeeps, DeleteKeeps, DeletedKeeps, DeleteCutKeeps,
     CancelStartKeeps
<1>3. ASSUME NEW s \in Sessions, NEW r \in Stops, Stop(s, r) PROVE IInv'
  BY <1>3, KidsKeep
<1>4. CASE Manager
  <2>1. ASSUME NEW w \in Workers, TeardownEnds(w) \/ WatchExit(w) \/ ReportCrash(w) PROVE IInv'
    BY <2>1, TeardownEndsKeeps, WatchExitKeeps, ReportCrashKeeps
  <2>2. ASSUME NEW w \in Workers, NEW verdict \in Verdicts, ProbeEnds(w, verdict) PROVE IInv'
    BY <2>2, ProbeKeeps
  <2>3. ASSUME NEW r \in Stops, ReapTerm(r) \/ ReapKill(r) PROVE IInv'
    BY <2>3, KidsKeep
  <2>4. CASE SweepNext \/ ShutdownStep
    BY <2>4, SweepNextKeeps, ShutdownKeeps
  <2> QED
    BY <1>4, <2>1, <2>2, <2>3, <2>4 DEF Manager
<1>5. CASE Environment
  <2>1. ASSUME NEW w \in Workers, WriteSnapshot(w) PROVE IInv'
    BY <2>1, ProbeKeeps
  <2>2. ASSUME NEW w \in Workers, NEW survivors \in BOOLEAN, Exit(w, survivors) PROVE IInv'
    BY <2>2, ExitKeeps
  <2>3. ASSUME NEW k \in Kids,
               \/ \E s \in Sessions : StartKid(s, k)
               \/ \E parent \in Kids : Fork(k, parent)
               \/ \E state \in {"adrift", "dead"} : KidLeaves(k, state)
        PROVE  IInv'
    BY <2>3, KidsKeep
  <2> QED
    BY <1>5, <2>1, <2>2, <2>3 DEF Environment
<1>6. CASE Shutdown
  BY <1>6, ShutdownStarts
<1>7. CASE UNCHANGED vars
  <2>1. UNCHANGED <<reg, teardown, watcher, stage, phase, using, proc, group, owner, ownerless,
                    crashes, stopped, sweep, daemon>>
    BY <1>7, Zenon DEF vars, lifecycle, callers, os, ownerless
  <2> QED
    BY <2>1, QuietKeeps DEF IInv, Types, Lists
<1> QED
  BY <1>1, <1>2, <1>3, <1>4, <1>5, <1>6, <1>7 DEF Next

\* Whatever the interleaving of startups, stops, exits, the idle reaper, deletion and
\* shutdown, what lives of a worker's process group is registered, being started, or being
\* taken down, with the daemon there to do it (manager.py stop_worker, _watch_exit,
\* _terminate): a process without an owner was let go by a cancelled coroutine, by a start
\* that met a broken pipe, or by a daemon that did not wait for it.
THEOREM OrphanWasLetGoAlways == Spec => []OrphanWasLetGo
<1>1. IInv => OrphanWasLetGo
  BY DEF IInv
<1> QED
  BY <1>1, InitIInv, StepIInv, PTL DEF Spec

\* on_worker_crash is called at most once for a worker, and never for one that somebody
\* stopped, for any number of sessions, workers and stops (manager.py _watch_exit).
THEOREM CrashIsACrash == Spec => []CrashMeansCrash
<1>1. IInv => CrashMeansCrash
  BY DEF IInv
<1> QED
  BY <1>1, InitIInv, StepIInv, PTL DEF Spec

-----------------------------------------------------------------------------
(* The types of all variables *)

MarksOK ==
  /\ busy \in [Workers -> BOOLEAN] /\ gen \in [Workers -> Nat]
  /\ base \in [Workers -> SUBSET Kids]

StopsOK ==
  /\ sweep \in [worker : Workers \cup {None}, left : SUBSET Sessions]
  /\ daemon \in [state : {"up", "stopping", "down"}, left : SUBSET Sessions,
                 worker : Workers \cup {None}]

StartOK ==
  /\ probe \in [Workers -> {"none", "sent", "quiet", "ran", "error", "dropped"}]
  /\ snapshot \in [Sessions -> BOOLEAN]
  /\ loaded \subseteq Workers

\* A Turn that was created has been counted.
TurnsOK ==
  /\ turn \in [Sessions -> 0..MaxTurns]
  /\ \A s \in Sessions : phase[s] = "created" => turn[s] # 0

Reaps == [pc : {"idle", "grace", "term", "done"}, session : Sessions \cup {None},
          worker : Workers \cup {None}, turn : Nat, begun : BOOLEAN, gen : Nat,
          base : SUBSET Kids, found : SUBSET Kids]

ReapsOK == reap \in [Stops -> Reaps] /\ hits \subseteq [kid : Kids, reap : Stops]

KidStates == [state : {"unborn", "child", "adrift", "dead"}, worker : Workers \cup {None},
              born : Nat]

KidsOK == kid \in [Kids -> KidStates] /\ profile \in Profiles

\* A Turn runs on a worker of its session, and a child hangs on a worker.
HostsOK ==
  /\ \A s \in Sessions :
       phase[s] = "running" =>
         using[s] \in Workers /\ owner[using[s]] = s /\ proc[using[s]] # "unborn"
  /\ \A k \in Kids :
       kid[k].state = "child" => kid[k].worker \in Workers /\ proc[kid[k].worker] # "unborn"

TInv == HostsOK /\ MarksOK /\ StopsOK /\ StartOK /\ TurnsOK /\ ReapsOK /\ KidsOK

-----------------------------------------------------------------------------
(* Who vouches for a delivered worker *)

Vouched(w) == w \in loaded \/ \E v \in lost : owner[v] = owner[w] /\ v \in loaded

\* What was not spawned has written nothing and was not lost; what was is past the first
\* stage.
Spawned ==
  \A w \in Workers :
    IF proc[w] = "unborn" THEN w \notin loaded /\ w \notin lost ELSE stage[w] # "unborn"

\* From the self-check on, somebody vouches and the probe is over.
Vetted ==
  \A w \in Workers :
    stage[w] \in {"again", "ready"} => Vouched(w) /\ probe[w] \notin {"sent", "ran"}

\* A live worker that was not delivered is being started, or was lost.
Unready ==
  \A w \in Workers :
    stage[w] \notin {"unborn", "ready"} /\ proc[w] = "up" =>
      w \in lost \/ (phase[owner[w]] = "starting" /\ using[owner[w]] = w)

\* The file that is there while a worker starts is not of an earlier worker.
Fresh ==
  \A s \in Sessions : phase[s] = "starting" /\ snapshot[s] => Vouched(using[s])

VetInv == Spawned /\ Vetted /\ Unready /\ Fresh

-----------------------------------------------------------------------------
(* Whom a stop may signal *)

\* A child of the registered worker is in the baseline of its Turn, or of that Turn.
Baselined ==
  \A k \in Kids :
    LET w == kid[k].worker IN
    kid[k].state = "child" /\ reg[owner[w]] = w =>
      k \in base[w] \/ kid[k].born = Begun(owner[w])

\* What a kid is if a reap of that stop may signal it.
Guilty(k, e) == kid[k].state # "unborn" /\ (e.begun => kid[k].born = e.turn)

\* What a reap in its grace period found it may signal; and while its worker is in the same
\* Turn, the worker's baseline is the reap's, and the Turn the stopped one.
GraceInv ==
  \A r \in Stops :
    LET e == reap[r] IN
    e.pc = "grace" =>
      /\ e.session \in Sessions /\ e.worker \in Workers
      /\ owner[e.worker] = e.session /\ stage[e.worker] = "ready"
      /\ proc[e.worker] # "unborn" /\ e.gen <= gen[e.worker]
      /\ \A k \in e.found \ e.base : Guilty(k, e)
      /\ reg[e.session] = e.worker /\ gen[e.worker] = e.gen =>
           base[e.worker] = e.base /\ (e.begun => Begun(e.session) = e.turn)

\* What a reap holds has been born.
FoundInv ==
  \A r \in Stops :
    reap[r].pc \in {"grace", "term"} => \A k \in reap[r].found : kid[k].state # "unborn"

HitsInv ==
  \A h \in hits : reap[h.reap].pc \in {"term", "done"} /\ Guilty(h.kid, reap[h.reap])

SpareInv == Baselined /\ GraceInv /\ FoundInv /\ HitsInv


-----------------------------------------------------------------------------
(* Every step is one of these, and each leaves most of the state alone *)

\* The actions of Next, one by one.
LEMMA Steps ==
  ASSUME [Next]_vars
  PROVE  \/ \E s \in Sessions :
              \/ NewTurn(s) \/ TurnBegins(s) \/ TurnBusy(s) \/ Reuse(s) \/ TurnEnds(s)
              \/ SweepScan(s) \/ Delete(s) \/ Deleted(s) \/ DeleteCut(s)
         \/ \E s \in Sessions, w \in Workers :
              \/ Spawn(s, w) \/ Handshake(s, w) \/ CheckPasses(s, w) \/ StartFails(s, w) \/ StartBreaks(s, w)
              \/ StartRefused(s, w) \/ Deliver(s, w) \/ CancelStart(s, w)
         \/ \E s \in Sessions, r \in Stops : Stop(s, r)
         \/ \E s \in Sessions, k \in Kids : StartKid(s, k)
         \/ \E w \in Workers :
              \/ TeardownEnds(w) \/ WatchExit(w) \/ ReportCrash(w) \/ WriteSnapshot(w)
              \/ \E verdict \in Verdicts : ProbeEnds(w, verdict)
              \/ \E survivors \in BOOLEAN : Exit(w, survivors)
         \/ \E r \in Stops : ReapTerm(r) \/ ReapKill(r)
         \/ \E k \in Kids :
              \/ \E parent \in Kids : Fork(k, parent)
              \/ \E state \in {"adrift", "dead"} : KidLeaves(k, state)
         \/ SweepNext \/ ShutdownStep \/ Shutdown
         \/ UNCHANGED vars
  BY Zenon DEF Next, TurnStep, StartStep, Manager, Environment

\* The Turns of a worker are marked.
LEMMA WhoMarks ==
  ASSUME [Next]_vars
  PROVE  \/ UNCHANGED <<base, gen>>
         \/ \E s \in Sessions : TurnBegins(s) \/ Reuse(s)
         \/ \E s \in Sessions, w \in Workers : Deliver(s, w)
<1>1. ASSUME NEW s \in Sessions,
             \/ NewTurn(s) \/ TurnBusy(s) \/ TurnEnds(s) \/ SweepScan(s) \/ Delete(s)
             \/ Deleted(s) \/ DeleteCut(s)
      PROVE  UNCHANGED <<base, gen>>
  BY <1>1, Zenon DEF NewTurn, TurnBusy, TurnEnds, SweepScan, Delete, Deleted, DeleteCut, marks
<1>2. ASSUME NEW s \in Sessions, NEW w \in Workers,
             \/ Spawn(s, w) \/ Handshake(s, w) \/ CheckPasses(s, w) \/ StartFails(s, w) \/ StartBreaks(s, w)
             \/ StartRefused(s, w) \/ CancelStart(s, w)
      PROVE  UNCHANGED <<base, gen>>
  BY <1>2, Zenon DEF Spawn, Handshake, CheckPasses, StartFails, StartBreaks, StartRefused, CancelStart,
     marks, StartUnchanged
<1>3. ASSUME NEW s \in Sessions, NEW r \in Stops,
             Stop(s, r)
      PROVE  UNCHANGED <<base, gen>>
  BY <1>3, Zenon DEF Stop, marks
<1>4. ASSUME NEW s \in Sessions, NEW k \in Kids,
             StartKid(s, k)
      PROVE  UNCHANGED <<base, gen>>
  BY <1>4, Zenon DEF StartKid, marks
<1>5. ASSUME NEW w \in Workers,
             \/ TeardownEnds(w) \/ WatchExit(w) \/ ReportCrash(w) \/ WriteSnapshot(w)
             \/ (\E verdict \in Verdicts : ProbeEnds(w, verdict))
             \/ (\E survivors \in BOOLEAN : Exit(w, survivors))
      PROVE  UNCHANGED <<base, gen>>
  BY <1>5, Zenon DEF TeardownEnds, WatchExit, ReportCrash, WriteSnapshot, ProbeEnds, Exit,
     marks, StartUnchanged
<1>6. ASSUME NEW r \in Stops,
             ReapTerm(r) \/ ReapKill(r)
      PROVE  UNCHANGED <<base, gen>>
  BY <1>6, Zenon DEF ReapTerm, ReapKill, marks
<1>7. ASSUME NEW k \in Kids,
             \/ (\E parent \in Kids : Fork(k, parent))
             \/ (\E state \in {"adrift", "dead"} : KidLeaves(k, state))
      PROVE  UNCHANGED <<base, gen>>
  BY <1>7, Zenon DEF Fork, KidLeaves, marks
<1>8. CASE SweepNext \/ ShutdownStep \/ Shutdown \/ UNCHANGED vars
  BY <1>8, Zenon DEF SweepNext, ShutdownStep, Shutdown, vars, marks
<1> QED
  BY Steps, <1>1, <1>2, <1>3, <1>4, <1>5, <1>6, <1>7, <1>8

\* A worker is marked busy, or not.
LEMMA WhoBusy ==
  ASSUME [Next]_vars
  PROVE  \/ UNCHANGED busy
         \/ \E s \in Sessions : TurnBusy(s) \/ TurnEnds(s)
<1>1. ASSUME NEW s \in Sessions,
             \/ NewTurn(s) \/ TurnBegins(s) \/ Reuse(s) \/ SweepScan(s) \/ Delete(s)
             \/ Deleted(s) \/ DeleteCut(s)
      PROVE  UNCHANGED busy
  BY <1>1, Zenon DEF NewTurn, TurnBegins, Reuse, SweepScan, Delete, Deleted, DeleteCut, marks
<1>2. ASSUME NEW s \in Sessions, NEW w \in Workers,
             \/ Spawn(s, w) \/ Handshake(s, w) \/ CheckPasses(s, w) \/ StartFails(s, w) \/ StartBreaks(s, w)
             \/ StartRefused(s, w) \/ Deliver(s, w) \/ CancelStart(s, w)
      PROVE  UNCHANGED busy
  BY <1>2, Zenon DEF Spawn, Handshake, CheckPasses, StartFails, StartBreaks, StartRefused, Deliver,
     CancelStart, marks, StartUnchanged
<1>3. ASSUME NEW s \in Sessions, NEW r \in Stops,
             Stop(s, r)
      PROVE  UNCHANGED busy
  BY <1>3, Zenon DEF Stop, marks
<1>4. ASSUME NEW s \in Sessions, NEW k \in Kids,
             StartKid(s, k)
      PROVE  UNCHANGED busy
  BY <1>4, Zenon DEF StartKid, marks
<1>5. ASSUME NEW w \in Workers,
             \/ TeardownEnds(w) \/ WatchExit(w) \/ ReportCrash(w) \/ WriteSnapshot(w)
             \/ (\E verdict \in Verdicts : ProbeEnds(w, verdict))
             \/ (\E survivors \in BOOLEAN : Exit(w, survivors))
      PROVE  UNCHANGED busy
  BY <1>5, Zenon DEF TeardownEnds, WatchExit, ReportCrash, WriteSnapshot, ProbeEnds, Exit,
     marks, StartUnchanged
<1>6. ASSUME NEW r \in Stops,
             ReapTerm(r) \/ ReapKill(r)
      PROVE  UNCHANGED busy
  BY <1>6, Zenon DEF ReapTerm, ReapKill, marks
<1>7. ASSUME NEW k \in Kids,
             \/ (\E parent \in Kids : Fork(k, parent))
             \/ (\E state \in {"adrift", "dead"} : KidLeaves(k, state))
      PROVE  UNCHANGED busy
  BY <1>7, Zenon DEF Fork, KidLeaves, marks
<1>8. CASE SweepNext \/ ShutdownStep \/ Shutdown \/ UNCHANGED vars
  BY <1>8, Zenon DEF SweepNext, ShutdownStep, Shutdown, vars, marks
<1> QED
  BY Steps, <1>1, <1>2, <1>3, <1>4, <1>5, <1>6, <1>7, <1>8

\* Who is about to stop workers.
LEMMA WhoStops ==
  ASSUME [Next]_vars
  PROVE  \/ UNCHANGED <<sweep, daemon>>
         \/ \E s \in Sessions : SweepScan(s)
         \/ SweepNext \/ ShutdownStep \/ Shutdown
<1>1. ASSUME NEW s \in Sessions,
             \/ NewTurn(s) \/ TurnBegins(s) \/ TurnBusy(s) \/ Reuse(s) \/ TurnEnds(s)
             \/ Delete(s) \/ Deleted(s) \/ DeleteCut(s)
      PROVE  UNCHANGED <<sweep, daemon>>
  BY <1>1, Zenon DEF NewTurn, TurnBegins, TurnBusy, Reuse, TurnEnds, Delete, Deleted, DeleteCut
<1>2. ASSUME NEW s \in Sessions, NEW w \in Workers,
             \/ Spawn(s, w) \/ Handshake(s, w) \/ CheckPasses(s, w) \/ StartFails(s, w) \/ StartBreaks(s, w)
             \/ StartRefused(s, w) \/ Deliver(s, w) \/ CancelStart(s, w)
      PROVE  UNCHANGED <<sweep, daemon>>
  BY <1>2, Zenon DEF Spawn, Handshake, CheckPasses, StartFails, StartBreaks, StartRefused, Deliver,
     CancelStart, StartUnchanged
<1>3. ASSUME NEW s \in Sessions, NEW r \in Stops,
             Stop(s, r)
      PROVE  UNCHANGED <<sweep, daemon>>
  BY <1>3, Zenon DEF Stop
<1>4. ASSUME NEW s \in Sessions, NEW k \in Kids,
             StartKid(s, k)
      PROVE  UNCHANGED <<sweep, daemon>>
  BY <1>4, Zenon DEF StartKid
<1>5. ASSUME NEW w \in Workers,
             \/ TeardownEnds(w) \/ WatchExit(w) \/ ReportCrash(w) \/ WriteSnapshot(w)
             \/ (\E verdict \in Verdicts : ProbeEnds(w, verdict))
             \/ (\E survivors \in BOOLEAN : Exit(w, survivors))
      PROVE  UNCHANGED <<sweep, daemon>>
  BY <1>5, Zenon DEF TeardownEnds, WatchExit, ReportCrash, WriteSnapshot, ProbeEnds, Exit,
     StartUnchanged
<1>6. ASSUME NEW r \in Stops,
             ReapTerm(r) \/ ReapKill(r)
      PROVE  UNCHANGED <<sweep, daemon>>
  BY <1>6, Zenon DEF ReapTerm, ReapKill
<1>7. ASSUME NEW k \in Kids,
             \/ (\E parent \in Kids : Fork(k, parent))
             \/ (\E state \in {"adrift", "dead"} : KidLeaves(k, state))
      PROVE  UNCHANGED <<sweep, daemon>>
  BY <1>7, Zenon DEF Fork, KidLeaves
<1>8. CASE UNCHANGED vars
  BY <1>8, Zenon DEF vars
<1> QED
  BY Steps, <1>1, <1>2, <1>3, <1>4, <1>5, <1>6, <1>7, <1>8

\* The self-check.
LEMMA WhoStarts ==
  ASSUME [Next]_vars
  PROVE  \/ UNCHANGED <<probe, snapshot, loaded>>
         \/ \E s \in Sessions, w \in Workers :
              \/ Spawn(s, w) \/ Handshake(s, w) \/ StartFails(s, w) \/ StartBreaks(s, w)
              \/ CancelStart(s, w)
         \/ \E w \in Workers : WriteSnapshot(w)
         \/ \E w \in Workers : \E verdict \in Verdicts : ProbeEnds(w, verdict)
<1>1. ASSUME NEW s \in Sessions,
             \/ NewTurn(s) \/ TurnBegins(s) \/ TurnBusy(s) \/ Reuse(s) \/ TurnEnds(s)
             \/ SweepScan(s) \/ Delete(s) \/ Deleted(s) \/ DeleteCut(s)
      PROVE  UNCHANGED <<probe, snapshot, loaded>>
  BY <1>1, Zenon DEF NewTurn, TurnBegins, TurnBusy, Reuse, TurnEnds, SweepScan, Delete,
     Deleted, DeleteCut, lifecycle
<1>2. ASSUME NEW s \in Sessions, NEW w \in Workers,
             CheckPasses(s, w) \/ StartRefused(s, w) \/ Deliver(s, w)
      PROVE  UNCHANGED <<probe, snapshot, loaded>>
  BY <1>2, Zenon DEF CheckPasses, StartRefused, Deliver, lifecycle, StartUnchanged
<1>3. ASSUME NEW s \in Sessions, NEW r \in Stops,
             Stop(s, r)
      PROVE  UNCHANGED <<probe, snapshot, loaded>>
  BY <1>3, Zenon DEF Stop, lifecycle
<1>4. ASSUME NEW s \in Sessions, NEW k \in Kids,
             StartKid(s, k)
      PROVE  UNCHANGED <<probe, snapshot, loaded>>
  BY <1>4, Zenon DEF StartKid, lifecycle
<1>5. ASSUME NEW w \in Workers,
             \/ TeardownEnds(w) \/ WatchExit(w) \/ ReportCrash(w)
             \/ (\E survivors \in BOOLEAN : Exit(w, survivors))
      PROVE  UNCHANGED <<probe, snapshot, loaded>>
  BY <1>5, Zenon DEF TeardownEnds, WatchExit, ReportCrash, Exit, lifecycle
<1>6. ASSUME NEW r \in Stops,
             ReapTerm(r) \/ ReapKill(r)
      PROVE  UNCHANGED <<probe, snapshot, loaded>>
  BY <1>6, Zenon DEF ReapTerm, ReapKill, lifecycle
<1>7. ASSUME NEW k \in Kids,
             \/ (\E parent \in Kids : Fork(k, parent))
             \/ (\E state \in {"adrift", "dead"} : KidLeaves(k, state))
      PROVE  UNCHANGED <<probe, snapshot, loaded>>
  BY <1>7, Zenon DEF Fork, KidLeaves, lifecycle
<1>8. CASE SweepNext \/ ShutdownStep \/ Shutdown \/ UNCHANGED vars
  BY <1>8, Zenon DEF SweepNext, ShutdownStep, Shutdown, vars, lifecycle
<1> QED
  BY Steps, <1>1, <1>2, <1>3, <1>4, <1>5, <1>6, <1>7, <1>8

\* Turns are counted, and begin.
LEMMA WhoTurns ==
  ASSUME [Next]_vars
  PROVE  \/ UNCHANGED <<turn, phase>>
         \/ \E s \in Sessions :
              \/ NewTurn(s) \/ TurnBegins(s) \/ TurnBusy(s) \/ Reuse(s) \/ TurnEnds(s) \/ Delete(s)
              \/ Deleted(s) \/ DeleteCut(s)
         \/ \E s \in Sessions, w \in Workers : Spawn(s, w) \/ StartBreaks(s, w) \/ StartRefused(s, w)
                                               \/ Deliver(s, w) \/ CancelStart(s, w)
<1>1. ASSUME NEW s \in Sessions,
             SweepScan(s)
      PROVE  UNCHANGED <<turn, phase>>
  BY <1>1, Zenon DEF SweepScan, callers
<1>2. ASSUME NEW s \in Sessions, NEW w \in Workers,
             Handshake(s, w) \/ CheckPasses(s, w) \/ StartFails(s, w)
      PROVE  UNCHANGED <<turn, phase>>
  BY <1>2, Zenon DEF Handshake, CheckPasses, StartFails, callers, StartUnchanged
<1>3. ASSUME NEW s \in Sessions, NEW r \in Stops,
             Stop(s, r)
      PROVE  UNCHANGED <<turn, phase>>
  BY <1>3, Zenon DEF Stop, callers
<1>4. ASSUME NEW s \in Sessions, NEW k \in Kids,
             StartKid(s, k)
      PROVE  UNCHANGED <<turn, phase>>
  BY <1>4, Zenon DEF StartKid, callers
<1>5. ASSUME NEW w \in Workers,
             \/ TeardownEnds(w) \/ WatchExit(w) \/ ReportCrash(w) \/ WriteSnapshot(w)
             \/ (\E verdict \in Verdicts : ProbeEnds(w, verdict))
             \/ (\E survivors \in BOOLEAN : Exit(w, survivors))
      PROVE  UNCHANGED <<turn, phase>>
  BY <1>5, Zenon DEF TeardownEnds, WatchExit, ReportCrash, WriteSnapshot, ProbeEnds, Exit,
     callers, StartUnchanged
<1>6. ASSUME NEW r \in Stops,
             ReapTerm(r) \/ ReapKill(r)
      PROVE  UNCHANGED <<turn, phase>>
  BY <1>6, Zenon DEF ReapTerm, ReapKill, callers
<1>7. ASSUME NEW k \in Kids,
             \/ (\E parent \in Kids : Fork(k, parent))
             \/ (\E state \in {"adrift", "dead"} : KidLeaves(k, state))
      PROVE  UNCHANGED <<turn, phase>>
  BY <1>7, Zenon DEF Fork, KidLeaves, callers
<1>8. CASE SweepNext \/ ShutdownStep \/ Shutdown \/ UNCHANGED vars
  BY <1>8, Zenon DEF SweepNext, ShutdownStep, Shutdown, vars, callers
<1> QED
  BY Steps, <1>1, <1>2, <1>3, <1>4, <1>5, <1>6, <1>7, <1>8

\* The reaps of stopped Turns.
LEMMA WhoReaps ==
  ASSUME [Next]_vars
  PROVE  \/ UNCHANGED <<reap, hits>>
         \/ \E s \in Sessions, r \in Stops : Stop(s, r)
         \/ \E r \in Stops : ReapTerm(r) \/ ReapKill(r)
<1>1. ASSUME NEW s \in Sessions,
             \/ NewTurn(s) \/ TurnBegins(s) \/ TurnBusy(s) \/ Reuse(s) \/ TurnEnds(s)
             \/ SweepScan(s) \/ Delete(s) \/ Deleted(s) \/ DeleteCut(s)
      PROVE  UNCHANGED <<reap, hits>>
  BY <1>1, Zenon DEF NewTurn, TurnBegins, TurnBusy, Reuse, TurnEnds, SweepScan, Delete,
     Deleted, DeleteCut
<1>2. ASSUME NEW s \in Sessions, NEW w \in Workers,
             \/ Spawn(s, w) \/ Handshake(s, w) \/ CheckPasses(s, w) \/ StartFails(s, w) \/ StartBreaks(s, w)
             \/ StartRefused(s, w) \/ Deliver(s, w) \/ CancelStart(s, w)
      PROVE  UNCHANGED <<reap, hits>>
  BY <1>2, Zenon DEF Spawn, Handshake, CheckPasses, StartFails, StartBreaks, StartRefused, Deliver,
     CancelStart, StartUnchanged
<1>3. ASSUME NEW s \in Sessions, NEW k \in Kids,
             StartKid(s, k)
      PROVE  UNCHANGED <<reap, hits>>
  BY <1>3, Zenon DEF StartKid
<1>4. ASSUME NEW w \in Workers,
             \/ TeardownEnds(w) \/ WatchExit(w) \/ ReportCrash(w) \/ WriteSnapshot(w)
             \/ (\E verdict \in Verdicts : ProbeEnds(w, verdict))
             \/ (\E survivors \in BOOLEAN : Exit(w, survivors))
      PROVE  UNCHANGED <<reap, hits>>
  BY <1>4, Zenon DEF TeardownEnds, WatchExit, ReportCrash, WriteSnapshot, ProbeEnds, Exit,
     StartUnchanged
<1>5. ASSUME NEW k \in Kids,
             \/ (\E parent \in Kids : Fork(k, parent))
             \/ (\E state \in {"adrift", "dead"} : KidLeaves(k, state))
      PROVE  UNCHANGED <<reap, hits>>
  BY <1>5, Zenon DEF Fork, KidLeaves
<1>6. CASE SweepNext \/ ShutdownStep \/ Shutdown \/ UNCHANGED vars
  BY <1>6, Zenon DEF SweepNext, ShutdownStep, Shutdown, vars
<1> QED
  BY Steps, <1>1, <1>2, <1>3, <1>4, <1>5, <1>6

\* The processes of the tools.
LEMMA WhoKids ==
  ASSUME [Next]_vars
  PROVE  \/ UNCHANGED kid
         \/ \E s \in Sessions, k \in Kids : StartKid(s, k)
         \/ \E w \in Workers : TeardownEnds(w)
         \/ \E w \in Workers : \E survivors \in BOOLEAN : Exit(w, survivors)
         \/ \E r \in Stops : ReapKill(r)
         \/ \E k \in Kids : \E parent \in Kids : Fork(k, parent)
         \/ \E k \in Kids : \E state \in {"adrift", "dead"} : KidLeaves(k, state)
<1>1. ASSUME NEW s \in Sessions,
             \/ NewTurn(s) \/ TurnBegins(s) \/ TurnBusy(s) \/ Reuse(s) \/ TurnEnds(s)
             \/ SweepScan(s) \/ Delete(s) \/ Deleted(s) \/ DeleteCut(s)
      PROVE  UNCHANGED kid
  BY <1>1, Zenon DEF NewTurn, TurnBegins, TurnBusy, Reuse, TurnEnds, SweepScan, Delete,
     Deleted, DeleteCut, os
<1>2. ASSUME NEW s \in Sessions, NEW w \in Workers,
             \/ Spawn(s, w) \/ Handshake(s, w) \/ CheckPasses(s, w) \/ StartFails(s, w) \/ StartBreaks(s, w)
             \/ StartRefused(s, w) \/ Deliver(s, w) \/ CancelStart(s, w)
      PROVE  UNCHANGED kid
  BY <1>2, Zenon DEF Spawn, Handshake, CheckPasses, StartFails, StartBreaks, StartRefused, Deliver,
     CancelStart, os, StartUnchanged
<1>3. ASSUME NEW s \in Sessions, NEW r \in Stops,
             Stop(s, r)
      PROVE  UNCHANGED kid
  BY <1>3, Zenon DEF Stop, os
<1>4. ASSUME NEW w \in Workers,
             \/ WatchExit(w) \/ ReportCrash(w) \/ WriteSnapshot(w)
             \/ (\E verdict \in Verdicts : ProbeEnds(w, verdict))
      PROVE  UNCHANGED kid
  BY <1>4, Zenon DEF WatchExit, ReportCrash, WriteSnapshot, ProbeEnds, os, StartUnchanged
<1>5. ASSUME NEW r \in Stops,
             ReapTerm(r)
      PROVE  UNCHANGED kid
  BY <1>5, Zenon DEF ReapTerm, os
<1>6. CASE SweepNext \/ ShutdownStep \/ Shutdown \/ UNCHANGED vars
  BY <1>6, Zenon DEF SweepNext, ShutdownStep, Shutdown, vars, os
<1> QED
  BY Steps, <1>1, <1>2, <1>3, <1>4, <1>5, <1>6

\* Who is registered.
LEMMA WhoReg ==
  ASSUME [Next]_vars
  PROVE  \/ UNCHANGED reg
         \/ \E s \in Sessions : SweepScan(s) \/ Delete(s)
         \/ \E s \in Sessions, w \in Workers : Deliver(s, w)
         \/ \E w \in Workers : WatchExit(w)
         \/ SweepNext \/ ShutdownStep
<1>1. ASSUME NEW s \in Sessions,
             \/ NewTurn(s) \/ TurnBegins(s) \/ TurnBusy(s) \/ Reuse(s) \/ TurnEnds(s)
             \/ Deleted(s) \/ DeleteCut(s)
      PROVE  UNCHANGED reg
  BY <1>1, Zenon DEF NewTurn, TurnBegins, TurnBusy, Reuse, TurnEnds, Deleted, DeleteCut
<1>2. ASSUME NEW s \in Sessions, NEW w \in Workers,
             \/ Spawn(s, w) \/ Handshake(s, w) \/ CheckPasses(s, w) \/ StartFails(s, w) \/ StartBreaks(s, w)
             \/ StartRefused(s, w) \/ CancelStart(s, w)
      PROVE  UNCHANGED reg
  BY <1>2, Zenon DEF Spawn, Handshake, CheckPasses, StartFails, StartBreaks, StartRefused, CancelStart,
     StartUnchanged
<1>3. ASSUME NEW s \in Sessions, NEW r \in Stops,
             Stop(s, r)
      PROVE  UNCHANGED reg
  BY <1>3, Zenon DEF Stop
<1>4. ASSUME NEW s \in Sessions, NEW k \in Kids,
             StartKid(s, k)
      PROVE  UNCHANGED reg
  BY <1>4, Zenon DEF StartKid
<1>5. ASSUME NEW w \in Workers,
             \/ TeardownEnds(w) \/ ReportCrash(w) \/ WriteSnapshot(w)
             \/ (\E verdict \in Verdicts : ProbeEnds(w, verdict))
             \/ (\E survivors \in BOOLEAN : Exit(w, survivors))
      PROVE  UNCHANGED reg
  BY <1>5, Zenon DEF TeardownEnds, ReportCrash, WriteSnapshot, ProbeEnds, Exit,
     StartUnchanged
<1>6. ASSUME NEW r \in Stops,
             ReapTerm(r) \/ ReapKill(r)
      PROVE  UNCHANGED reg
  BY <1>6, Zenon DEF ReapTerm, ReapKill
<1>7. ASSUME NEW k \in Kids,
             \/ (\E parent \in Kids : Fork(k, parent))
             \/ (\E state \in {"adrift", "dead"} : KidLeaves(k, state))
      PROVE  UNCHANGED reg
  BY <1>7, Zenon DEF Fork, KidLeaves
<1>8. CASE Shutdown \/ UNCHANGED vars
  BY <1>8, Zenon DEF Shutdown, vars
<1> QED
  BY Steps, <1>1, <1>2, <1>3, <1>4, <1>5, <1>6, <1>7, <1>8

\* The process of a worker, and what it was spawned for.
LEMMA WhoProc ==
  ASSUME [Next]_vars
  PROVE  \/ UNCHANGED <<proc, owner>>
         \/ \E s \in Sessions, w \in Workers : Spawn(s, w)
         \/ \E w \in Workers : TeardownEnds(w)
         \/ \E w \in Workers : \E survivors \in BOOLEAN : Exit(w, survivors)
<1>1. ASSUME NEW s \in Sessions,
             \/ NewTurn(s) \/ TurnBegins(s) \/ TurnBusy(s) \/ Reuse(s) \/ TurnEnds(s)
             \/ SweepScan(s) \/ Delete(s) \/ Deleted(s) \/ DeleteCut(s)
      PROVE  UNCHANGED <<proc, owner>>
  BY <1>1, Zenon DEF NewTurn, TurnBegins, TurnBusy, Reuse, TurnEnds, SweepScan, Delete,
     Deleted, DeleteCut, os
<1>2. ASSUME NEW s \in Sessions, NEW w \in Workers,
             \/ Handshake(s, w) \/ CheckPasses(s, w) \/ StartFails(s, w) \/ StartBreaks(s, w)
             \/ StartRefused(s, w) \/ Deliver(s, w) \/ CancelStart(s, w)
      PROVE  UNCHANGED <<proc, owner>>
  BY <1>2, Zenon DEF Handshake, CheckPasses, StartFails, StartBreaks, StartRefused, Deliver,
     CancelStart, os, StartUnchanged
<1>3. ASSUME NEW s \in Sessions, NEW r \in Stops,
             Stop(s, r)
      PROVE  UNCHANGED <<proc, owner>>
  BY <1>3, Zenon DEF Stop, os
<1>4. ASSUME NEW s \in Sessions, NEW k \in Kids,
             StartKid(s, k)
      PROVE  UNCHANGED <<proc, owner>>
  BY <1>4, Zenon DEF StartKid, os
<1>5. ASSUME NEW w \in Workers,
             \/ WatchExit(w) \/ ReportCrash(w) \/ WriteSnapshot(w)
             \/ (\E verdict \in Verdicts : ProbeEnds(w, verdict))
      PROVE  UNCHANGED <<proc, owner>>
  BY <1>5, Zenon DEF WatchExit, ReportCrash, WriteSnapshot, ProbeEnds, os, StartUnchanged
<1>6. ASSUME NEW r \in Stops,
             ReapTerm(r) \/ ReapKill(r)
      PROVE  UNCHANGED <<proc, owner>>
  BY <1>6, Zenon DEF ReapTerm, ReapKill, os
<1>7. ASSUME NEW k \in Kids,
             \/ (\E parent \in Kids : Fork(k, parent))
             \/ (\E state \in {"adrift", "dead"} : KidLeaves(k, state))
      PROVE  UNCHANGED <<proc, owner>>
  BY <1>7, Zenon DEF Fork, KidLeaves, os
<1>8. CASE SweepNext \/ ShutdownStep \/ Shutdown \/ UNCHANGED vars
  BY <1>8, Zenon DEF SweepNext, ShutdownStep, Shutdown, vars, os
<1> QED
  BY Steps, <1>1, <1>2, <1>3, <1>4, <1>5, <1>6, <1>7, <1>8

\* How far the startup of a worker is.
LEMMA WhoStage ==
  ASSUME [Next]_vars
  PROVE  \/ UNCHANGED stage
         \/ \E s \in Sessions, w \in Workers :
              \/ Spawn(s, w) \/ Handshake(s, w) \/ CheckPasses(s, w) \/ StartFails(s, w)
              \/ StartBreaks(s, w) \/ Deliver(s, w) \/ CancelStart(s, w)
<1>1. ASSUME NEW s \in Sessions,
             \/ NewTurn(s) \/ TurnBegins(s) \/ TurnBusy(s) \/ Reuse(s) \/ TurnEnds(s)
             \/ SweepScan(s) \/ Delete(s) \/ Deleted(s) \/ DeleteCut(s)
      PROVE  UNCHANGED stage
  BY <1>1, Zenon DEF NewTurn, TurnBegins, TurnBusy, Reuse, TurnEnds, SweepScan, Delete,
     Deleted, DeleteCut, lifecycle
<1>2. ASSUME NEW s \in Sessions, NEW w \in Workers,
             StartRefused(s, w)
      PROVE  UNCHANGED stage
  BY <1>2, Zenon DEF StartRefused, lifecycle, StartUnchanged
<1>3. ASSUME NEW s \in Sessions, NEW r \in Stops,
             Stop(s, r)
      PROVE  UNCHANGED stage
  BY <1>3, Zenon DEF Stop, lifecycle
<1>4. ASSUME NEW s \in Sessions, NEW k \in Kids,
             StartKid(s, k)
      PROVE  UNCHANGED stage
  BY <1>4, Zenon DEF StartKid, lifecycle
<1>5. ASSUME NEW w \in Workers,
             \/ TeardownEnds(w) \/ WatchExit(w) \/ ReportCrash(w) \/ WriteSnapshot(w)
             \/ (\E verdict \in Verdicts : ProbeEnds(w, verdict))
             \/ (\E survivors \in BOOLEAN : Exit(w, survivors))
      PROVE  UNCHANGED stage
  BY <1>5, Zenon DEF TeardownEnds, WatchExit, ReportCrash, WriteSnapshot, ProbeEnds, Exit,
     lifecycle, StartUnchanged
<1>6. ASSUME NEW r \in Stops,
             ReapTerm(r) \/ ReapKill(r)
      PROVE  UNCHANGED stage
  BY <1>6, Zenon DEF ReapTerm, ReapKill, lifecycle
<1>7. ASSUME NEW k \in Kids,
             \/ (\E parent \in Kids : Fork(k, parent))
             \/ (\E state \in {"adrift", "dead"} : KidLeaves(k, state))
      PROVE  UNCHANGED stage
  BY <1>7, Zenon DEF Fork, KidLeaves, lifecycle
<1>8. CASE SweepNext \/ ShutdownStep \/ Shutdown \/ UNCHANGED vars
  BY <1>8, Zenon DEF SweepNext, ShutdownStep, Shutdown, vars, lifecycle
<1> QED
  BY Steps, <1>1, <1>2, <1>3, <1>4, <1>5, <1>6, <1>7, <1>8

\* The Turn of a session and its worker.
LEMMA WhoUses ==
  ASSUME [Next]_vars
  PROVE  \/ UNCHANGED <<phase, using>>
         \/ \E s \in Sessions :
              \/ NewTurn(s) \/ TurnBegins(s) \/ TurnBusy(s) \/ Reuse(s) \/ TurnEnds(s) \/ Delete(s)
              \/ Deleted(s) \/ DeleteCut(s)
         \/ \E s \in Sessions, w \in Workers : Spawn(s, w) \/ StartBreaks(s, w) \/ StartRefused(s, w)
                                               \/ Deliver(s, w) \/ CancelStart(s, w)
<1>1. ASSUME NEW s \in Sessions,
             SweepScan(s)
      PROVE  UNCHANGED <<phase, using>>
  BY <1>1, Zenon DEF SweepScan, callers
<1>2. ASSUME NEW s \in Sessions, NEW w \in Workers,
             Handshake(s, w) \/ CheckPasses(s, w) \/ StartFails(s, w)
      PROVE  UNCHANGED <<phase, using>>
  BY <1>2, Zenon DEF Handshake, CheckPasses, StartFails, callers, StartUnchanged
<1>3. ASSUME NEW s \in Sessions, NEW r \in Stops,
             Stop(s, r)
      PROVE  UNCHANGED <<phase, using>>
  BY <1>3, Zenon DEF Stop, callers
<1>4. ASSUME NEW s \in Sessions, NEW k \in Kids,
             StartKid(s, k)
      PROVE  UNCHANGED <<phase, using>>
  BY <1>4, Zenon DEF StartKid, callers
<1>5. ASSUME NEW w \in Workers,
             \/ TeardownEnds(w) \/ WatchExit(w) \/ ReportCrash(w) \/ WriteSnapshot(w)
             \/ (\E verdict \in Verdicts : ProbeEnds(w, verdict))
             \/ (\E survivors \in BOOLEAN : Exit(w, survivors))
      PROVE  UNCHANGED <<phase, using>>
  BY <1>5, Zenon DEF TeardownEnds, WatchExit, ReportCrash, WriteSnapshot, ProbeEnds, Exit,
     callers, StartUnchanged
<1>6. ASSUME NEW r \in Stops,
             ReapTerm(r) \/ ReapKill(r)
      PROVE  UNCHANGED <<phase, using>>
  BY <1>6, Zenon DEF ReapTerm, ReapKill, callers
<1>7. ASSUME NEW k \in Kids,
             \/ (\E parent \in Kids : Fork(k, parent))
             \/ (\E state \in {"adrift", "dead"} : KidLeaves(k, state))
      PROVE  UNCHANGED <<phase, using>>
  BY <1>7, Zenon DEF Fork, KidLeaves, callers
<1>8. CASE SweepNext \/ ShutdownStep \/ Shutdown \/ UNCHANGED vars
  BY <1>8, Zenon DEF SweepNext, ShutdownStep, Shutdown, vars, callers
<1> QED
  BY Steps, <1>1, <1>2, <1>3, <1>4, <1>5, <1>6, <1>7, <1>8

\* The workers nobody holds any more.
LEMMA WhoLoses ==
  ASSUME [Next]_vars
  PROVE  \/ UNCHANGED lost
         \/ \E s \in Sessions, w \in Workers : CancelStart(s, w)
         \/ ShutdownStep \/ Shutdown
<1>1. ASSUME NEW s \in Sessions,
             \/ NewTurn(s) \/ TurnBegins(s) \/ TurnBusy(s) \/ Reuse(s) \/ TurnEnds(s)
             \/ SweepScan(s) \/ Delete(s) \/ Deleted(s) \/ DeleteCut(s)
      PROVE  UNCHANGED lost
  BY <1>1, Zenon DEF NewTurn, TurnBegins, TurnBusy, Reuse, TurnEnds, SweepScan, Delete,
     Deleted, DeleteCut, ownerless
<1>2. ASSUME NEW s \in Sessions, NEW w \in Workers,
             \/ Spawn(s, w) \/ Handshake(s, w) \/ CheckPasses(s, w) \/ StartFails(s, w) \/ StartBreaks(s, w)
             \/ StartRefused(s, w) \/ Deliver(s, w)
      PROVE  UNCHANGED lost
  BY <1>2, Zenon DEF Spawn, Handshake, CheckPasses, StartFails, StartBreaks, StartRefused, Deliver,
     StartUnchanged, ownerless
<1>3. ASSUME NEW s \in Sessions, NEW r \in Stops,
             Stop(s, r)
      PROVE  UNCHANGED lost
  BY <1>3, Zenon DEF Stop, ownerless
<1>4. ASSUME NEW s \in Sessions, NEW k \in Kids,
             StartKid(s, k)
      PROVE  UNCHANGED lost
  BY <1>4, Zenon DEF StartKid, ownerless
<1>5. ASSUME NEW w \in Workers,
             \/ TeardownEnds(w) \/ WatchExit(w) \/ ReportCrash(w) \/ WriteSnapshot(w)
             \/ (\E verdict \in Verdicts : ProbeEnds(w, verdict))
             \/ (\E survivors \in BOOLEAN : Exit(w, survivors))
      PROVE  UNCHANGED lost
  BY <1>5, Zenon DEF TeardownEnds, WatchExit, ReportCrash, WriteSnapshot, ProbeEnds, Exit,
     StartUnchanged, ownerless
<1>6. ASSUME NEW r \in Stops,
             ReapTerm(r) \/ ReapKill(r)
      PROVE  UNCHANGED lost
  BY <1>6, Zenon DEF ReapTerm, ReapKill, ownerless
<1>7. ASSUME NEW k \in Kids,
             \/ (\E parent \in Kids : Fork(k, parent))
             \/ (\E state \in {"adrift", "dead"} : KidLeaves(k, state))
      PROVE  UNCHANGED lost
  BY <1>7, Zenon DEF Fork, KidLeaves, ownerless
<1>8. CASE SweepNext \/ UNCHANGED vars
  BY <1>8, Zenon DEF SweepNext, vars, ownerless
<1> QED
  BY Steps, <1>1, <1>2, <1>3, <1>4, <1>5, <1>6, <1>7, <1>8

\* A behaviour keeps its profile.
LEMMA ProfileStays ==
  ASSUME [Next]_vars
  PROVE  UNCHANGED profile
<1>1. ASSUME NEW s \in Sessions,
             \/ NewTurn(s) \/ TurnBegins(s) \/ TurnBusy(s) \/ Reuse(s) \/ TurnEnds(s)
             \/ SweepScan(s) \/ Delete(s) \/ Deleted(s) \/ DeleteCut(s)
      PROVE  UNCHANGED profile
  BY <1>1, Zenon DEF NewTurn, TurnBegins, TurnBusy, Reuse, TurnEnds, SweepScan, Delete,
     Deleted, DeleteCut
<1>2. ASSUME NEW s \in Sessions, NEW w \in Workers,
             \/ Spawn(s, w) \/ Handshake(s, w) \/ CheckPasses(s, w) \/ StartFails(s, w) \/ StartBreaks(s, w)
             \/ StartRefused(s, w) \/ Deliver(s, w) \/ CancelStart(s, w)
      PROVE  UNCHANGED profile
  BY <1>2, Zenon DEF Spawn, Handshake, CheckPasses, StartFails, StartBreaks, StartRefused, Deliver,
     CancelStart, StartUnchanged
<1>3. ASSUME NEW s \in Sessions, NEW r \in Stops,
             Stop(s, r)
      PROVE  UNCHANGED profile
  BY <1>3, Zenon DEF Stop
<1>4. ASSUME NEW s \in Sessions, NEW k \in Kids,
             StartKid(s, k)
      PROVE  UNCHANGED profile
  BY <1>4, Zenon DEF StartKid
<1>5. ASSUME NEW w \in Workers,
             \/ TeardownEnds(w) \/ WatchExit(w) \/ ReportCrash(w) \/ WriteSnapshot(w)
             \/ (\E verdict \in Verdicts : ProbeEnds(w, verdict))
             \/ (\E survivors \in BOOLEAN : Exit(w, survivors))
      PROVE  UNCHANGED profile
  BY <1>5, Zenon DEF TeardownEnds, WatchExit, ReportCrash, WriteSnapshot, ProbeEnds, Exit,
     StartUnchanged
<1>6. ASSUME NEW r \in Stops,
             ReapTerm(r) \/ ReapKill(r)
      PROVE  UNCHANGED profile
  BY <1>6, Zenon DEF ReapTerm, ReapKill
<1>7. ASSUME NEW k \in Kids,
             \/ (\E parent \in Kids : Fork(k, parent))
             \/ (\E state \in {"adrift", "dead"} : KidLeaves(k, state))
      PROVE  UNCHANGED profile
  BY <1>7, Zenon DEF Fork, KidLeaves
<1>8. CASE SweepNext \/ ShutdownStep \/ Shutdown \/ UNCHANGED vars
  BY <1>8, Zenon DEF SweepNext, ShutdownStep, Shutdown, vars
<1> QED
  BY Steps, <1>1, <1>2, <1>3, <1>4, <1>5, <1>6, <1>7, <1>8


-----------------------------------------------------------------------------
(* The types hold *)

\* The types hold at the start.
LEMMA InitTInv ==
  ASSUME Init
  PROVE  TInv
<1>1. MarksOK
  BY DEF Init, MarksOK
<1>2. StopsOK
  BY DEF Init, StopsOK
<1>3. StartOK
  BY DEF Init, StartOK
<1>4. TurnsOK
  BY PoolAssumption DEF Init, TurnsOK
<1>5. HostsOK
  BY DEF Init, HostsOK
<1>6. KidsOK
  BY DEF Init, KidsOK, KidStates
<1>7. ReapsOK
  BY DEF Init, ReapsOK, Reaps, NoReap
<1> QED
  BY <1>1, <1>2, <1>3, <1>4, <1>5, <1>6, <1>7 DEF TInv

\* A worker that was spawned stays spawned, for the same session, and one that was
\* delivered stays delivered.
LEMMA WorkersStay ==
  ASSUME IInv, [Next]_vars, NEW w \in Workers, proc[w] # "unborn"
  PROVE  /\ proc'[w] # "unborn" /\ owner'[w] = owner[w]
         /\ stage[w] = "ready" => stage'[w] = "ready"
<1>1. proc'[w] # "unborn" /\ owner'[w] = owner[w]
  <2>1. ASSUME NEW s \in Sessions, NEW v \in Workers, Spawn(s, v)
        PROVE  proc'[w] # "unborn" /\ owner'[w] = owner[w]
    BY <2>1 DEF Spawn, IInv, Types
  <2>2. ASSUME NEW v \in Workers, TeardownEnds(v)
        PROVE  proc'[w] # "unborn" /\ owner'[w] = owner[w]
    <3>1. owner' = owner /\ (proc' = proc \/ proc' = [proc EXCEPT ![v] = "dead"])
      BY <2>2, Zenon DEF TeardownEnds, ProcessEnds
    <3> QED
      BY <3>1 DEF IInv, Types
  <2>3. ASSUME NEW v \in Workers, NEW survivors \in BOOLEAN, Exit(v, survivors)
        PROVE  proc'[w] # "unborn" /\ owner'[w] = owner[w]
    BY <2>3 DEF Exit, ProcessEnds, IInv, Types
  <2> QED
    BY <2>1, <2>2, <2>3, WhoProc
<1>2. stage[w] = "ready" => stage'[w] = "ready"
  <2>1. ASSUME NEW s \in Sessions, NEW v \in Workers, Spawn(s, v)
        PROVE  stage[w] = "ready" => stage'[w] = "ready"
    BY <2>1 DEF Spawn, IInv, Types, Processes
  <2>2. ASSUME NEW s \in Sessions, NEW v \in Workers,
               \/ Handshake(s, v) \/ CheckPasses(s, v) \/ StartFails(s, v) \/ StartBreaks(s, v)
               \/ Deliver(s, v)
        PROVE  stage[w] = "ready" => stage'[w] = "ready"
    BY <2>2 DEF Handshake, CheckPasses, StartFails, StartBreaks, Deliver, IInv, Types
  <2>3. ASSUME NEW s \in Sessions, NEW v \in Workers, CancelStart(s, v)
        PROVE  stage[w] = "ready" => stage'[w] = "ready"
    BY <2>3 DEF CancelStart, IInv, Types, Startup
  <2> QED
    BY <2>1, <2>2, <2>3, WhoStage
<1> QED
  BY <1>1, <1>2

\* Baselines hold kids, generations count up.
LEMMA MarksKeep ==
  ASSUME Types, MarksOK, [Next]_vars
  PROVE  MarksOK'
<1>1. base' \in [Workers -> SUBSET Kids] /\ gen' \in [Workers -> Nat]
  <2>1. ASSUME NEW w \in Workers, MarkTurnStarted(w)
        PROVE  base' \in [Workers -> SUBSET Kids] /\ gen' \in [Workers -> Nat]
    <3>1. Descendants(w) \in SUBSET Kids
      BY DEF Descendants
    <3> QED
      BY <2>1, <3>1 DEF MarksOK, MarkTurnStarted
  <2>2. CASE UNCHANGED <<base, gen>>
    BY <2>2 DEF MarksOK
  <2> QED
    BY <2>1, <2>2, WhoMarks DEF Types, TurnBegins, Reuse, Deliver
<1>2. busy' \in [Workers -> BOOLEAN]
  BY WhoBusy, Zenon DEF MarksOK, MarkBusy, TurnBusy, TurnEnds
<1> QED
  BY <1>1, <1>2 DEF MarksOK

\* Whom the idle reaper and stop() list and wait for.
LEMMA StopsKeep ==
  ASSUME Types, StopsOK, [Next]_vars
  PROVE  StopsOK'
<1>1. ASSUME NEW s \in Sessions, SweepScan(s)
      PROVE  StopsOK'
  BY <1>1 DEF Types, StopsOK, SweepScan, Idle
<1>2. CASE SweepNext
  BY <1>2 DEF Types, StopsOK, SweepNext
<1>3. CASE Shutdown
  BY <1>3 DEF Types, StopsOK, Shutdown
<1>4. CASE ShutdownStep
  <2>1. sweep' = sweep /\ daemon.left \subseteq Sessions
    BY <1>4 DEF StopsOK, ShutdownStep
  <2>2. \/ daemon' = [state |-> "down", left |-> {}, worker |-> None]
        \/ \E s \in daemon.left : daemon' = [daemon EXCEPT !.left = @ \ {s}, !.worker = reg[s]]
    BY <1>4, Zenon DEF ShutdownStep
  <2>3. ASSUME NEW s \in daemon.left, daemon' = [daemon EXCEPT !.left = @ \ {s}, !.worker = reg[s]]
        PROVE  StopsOK'
    <3>1. reg[s] \in Workers \cup {None} /\ daemon.left \ {s} \subseteq Sessions
      BY <2>1 DEF Types
    <3> QED
      BY <2>1, <2>3, <3>1 DEF StopsOK
  <2>4. CASE daemon' = [state |-> "down", left |-> {}, worker |-> None]
    BY <2>1, <2>4 DEF StopsOK
  <2> QED
    BY <2>2, <2>3, <2>4
<1>5. CASE UNCHANGED <<sweep, daemon>>
  BY <1>5 DEF StopsOK
<1> QED
  BY <1>1, <1>2, <1>3, <1>4, <1>5, WhoStops

\* The self-check and what the plugins wrote.
LEMMA StartKeeps ==
  ASSUME Types, StartOK, [Next]_vars
  PROVE  StartOK'
<1>1. ASSUME NEW s \in Sessions, NEW w \in Workers, Spawn(s, w)
      PROVE  StartOK'
  BY <1>1 DEF StartOK, Spawn, FreshHome
<1>2. ASSUME NEW s \in Sessions, NEW w \in Workers,
             Handshake(s, w) \/ StartFails(s, w) \/ StartBreaks(s, w) \/ CancelStart(s, w)
      PROVE  StartOK'
  <2>1. snapshot' = snapshot /\ loaded' = loaded
    BY <1>2, Zenon DEF Handshake, StartFails, StartBreaks, CancelStart
  <2>2. \E p \in {"sent", "dropped", probe[w]} : probe' = [probe EXCEPT ![w] = p]
    BY <1>2 DEF Handshake, StartFails, StartBreaks, CancelStart
  <2> QED
    BY <2>1, <2>2 DEF StartOK
<1>3. ASSUME NEW w \in Workers, WriteSnapshot(w)
      PROVE  StartOK'
  BY <1>3 DEF StartOK, WriteSnapshot
<1>4. ASSUME NEW w \in Workers, NEW verdict \in Verdicts, ProbeEnds(w, verdict)
      PROVE  StartOK'
  BY <1>4 DEF StartOK, ProbeEnds, Verdicts
<1>5. CASE UNCHANGED <<probe, snapshot, loaded>>
  BY <1>5 DEF StartOK
<1> QED
  BY <1>1, <1>2, <1>3, <1>4, <1>5, WhoStarts

\* A session has at most MaxTurns Turns.
LEMMA TurnsKeep ==
  ASSUME Types, TurnsOK, [Next]_vars
  PROVE  TurnsOK'
<1>1. ASSUME NEW s \in Sessions, NewTurn(s)
      PROVE  TurnsOK'
  BY <1>1, PoolAssumption DEF Types, TurnsOK, NewTurn
<1>2. ASSUME UNCHANGED turn,
             UNCHANGED phase \/ \E s \in Sessions, p \in {"none", "begun", "busy", "running",
                                    "starting", "deleting", "deleted"} : phase' = [phase EXCEPT ![s] = p]
      PROVE  TurnsOK'
  BY <1>2 DEF Types, TurnsOK
<1>3. ASSUME NEW s \in Sessions,
             \/ TurnBegins(s) \/ TurnBusy(s) \/ Reuse(s) \/ TurnEnds(s) \/ Delete(s)
             \/ Deleted(s) \/ DeleteCut(s)
      PROVE  /\ UNCHANGED turn
             /\ \E p \in {"none", "begun", "busy", "running", "starting", "deleting",
                          "deleted"} : phase' = [phase EXCEPT ![s] = p]
  BY <1>3 DEF TurnBegins, TurnBusy, Reuse, TurnEnds, Delete, Deleted, DeleteCut
<1>4. ASSUME NEW s \in Sessions, NEW w \in Workers,
             \/ Spawn(s, w) \/ StartBreaks(s, w) \/ StartRefused(s, w) \/ Deliver(s, w)
             \/ CancelStart(s, w)
      PROVE  /\ UNCHANGED turn
             /\ \E p \in {"none", "begun", "busy", "running", "starting", "deleting",
                          "deleted"} : phase' = [phase EXCEPT ![s] = p]
  BY <1>4 DEF Spawn, StartBreaks, StartRefused, Deliver, CancelStart, StartUnchanged
<1> QED
  BY <1>1, <1>2, <1>3, <1>4, WhoTurns

\* The last Turn that began has a number.
LEMMA BegunIsNat ==
  ASSUME TurnsOK, NEW s \in Sessions
  PROVE  Begun(s) \in Nat
  BY PoolAssumption DEF TurnsOK, Begun


\* What the reaps of stops hold, and what they signalled.
LEMMA ReapsKeep ==
  ASSUME Types, MarksOK, TurnsOK, ReapsOK, [Next]_vars
  PROVE  ReapsOK'
<1>1. ASSUME NEW s \in Sessions, NEW r \in Stops, Stop(s, r)
      PROVE  ReapsOK'
  <2>1. /\ reg[s] \in Workers /\ turn[s] \in Nat /\ gen[reg[s]] \in Nat
        /\ base[reg[s]] \in SUBSET Kids /\ Descendants(reg[s]) \in SUBSET Kids
    BY <1>1, PoolAssumption DEF Types, MarksOK, TurnsOK, Stop, Descendants
  <2> DEFINE e == [pc |-> "grace", session |-> s, worker |-> reg[s], turn |-> turn[s],
                   begun |-> phase[s] # "created", gen |-> gen[reg[s]], base |-> base[reg[s]],
                   found |-> Descendants(reg[s])]
  <2>2. e \in Reaps
    BY <2>1 DEF Reaps
  <2>3. reap' = [reap EXCEPT ![r] = e] /\ hits' = hits
    BY <1>1 DEF Stop
  <2> HIDE DEF e
  <2> QED
    BY <2>2, <2>3 DEF ReapsOK
<1>2. ASSUME NEW r \in Stops, ReapTerm(r)
      PROVE  ReapsOK'
  <2>1. PICK survivors \in SUBSET Kids, p \in {"done", "term"} :
               /\ reap' = [reap EXCEPT ![r].pc = p, ![r].found = survivors]
               /\ hits' = hits \cup {[kid |-> k, reap |-> r] : k \in survivors}
    <3> DEFINE now == reap[r].worker
               same == reg[reap[r].session] = now /\ gen[now] = reap[r].gen
               again == IF same THEN Descendants(now) ELSE {}
               survivors == {k \in (reap[r].found \cup again) \ reap[r].base : Alive(k)}
               p == IF survivors = {} THEN "done" ELSE "term"
    <3>1. /\ reap' = [reap EXCEPT ![r].pc = p, ![r].found = survivors]
          /\ hits' = hits \cup {[kid |-> k, reap |-> r] : k \in survivors}
      BY <1>2, Zenon DEF ReapTerm
    <3>2. again \subseteq Kids /\ reap[r].found \subseteq Kids
      BY DEF Descendants, ReapsOK, Reaps
    <3>3. survivors \in SUBSET Kids /\ p \in {"done", "term"}
      BY <3>2
    <3> HIDE DEF survivors, p
    <3> QED
      BY <3>1, <3>3
  <2>2. reap[r] \in Reaps
    BY DEF ReapsOK
  <2>3. [reap[r] EXCEPT !.pc = p, !.found = survivors] \in Reaps
    BY <2>2 DEF Reaps
  <2>4. reap' = [reap EXCEPT ![r] = [reap[r] EXCEPT !.pc = p, !.found = survivors]]
    BY <2>1
  <2>5. reap' \in [Stops -> Reaps]
    BY <2>3, <2>4 DEF ReapsOK
  <2>6. hits' \subseteq [kid : Kids, reap : Stops]
    BY <2>1 DEF ReapsOK
  <2> QED
    BY <2>5, <2>6 DEF ReapsOK
<1>3. ASSUME NEW r \in Stops, ReapKill(r)
      PROVE  ReapsOK'
  BY <1>3 DEF ReapsOK, Reaps, ReapKill
<1>4. CASE UNCHANGED <<reap, hits>>
  BY <1>4 DEF ReapsOK
<1> QED
  BY <1>1, <1>2, <1>3, <1>4, WhoReaps

\* The kids and the profile.
LEMMA KidsTypesKeep ==
  ASSUME IInv, HostsOK, TurnsOK, KidsOK, [Next]_vars
  PROVE  KidsOK'
<1>1. ASSUME NEW s \in Sessions, NEW k \in Kids, StartKid(s, k)
      PROVE  KidsOK'
  <2>1. Begun(s) \in Nat /\ using[s] \in Workers \cup {None}
    BY BegunIsNat DEF IInv, Types
  <2>2. [state |-> "child", worker |-> using[s], born |-> Begun(s)] \in KidStates
    BY <2>1 DEF KidStates
  <2> QED
    BY <1>1, <2>2 DEF StartKid, KidsOK
<1>2. ASSUME NEW w \in Workers,
             TeardownEnds(w) \/ \E survivors \in BOOLEAN : Exit(w, survivors)
      PROVE  KidsOK'
  <2>1. profile' = profile /\ (kid' = kid \/ \E survivors \in BOOLEAN : ProcessEnds(w, survivors))
    BY <1>2, Zenon DEF TeardownEnds, Exit
  <2>2. \A k \in Kids : [kid[k] EXCEPT !.state = "adrift", !.worker = None] \in KidStates
    BY DEF KidsOK, KidStates
  <2>3. ASSUME NEW survivors \in BOOLEAN, ProcessEnds(w, survivors)
        PROVE  kid' \in [Kids -> KidStates]
    BY <2>2, <2>3 DEF ProcessEnds, KidsOK
  <2> QED
    BY <2>1, <2>3 DEF KidsOK
<1>3. ASSUME NEW r \in Stops, ReapKill(r)
      PROVE  KidsOK'
  BY <1>3 DEF ReapKill, KillBatch, KidsOK, KidStates
<1>4. ASSUME NEW k \in Kids, NEW parent \in Kids, Fork(k, parent)
      PROVE  KidsOK'
  <2>1. owner[kid[parent].worker] \in Sessions
    BY <1>4 DEF Fork, HostsOK, IInv, Processes
  <2>2. [kid[parent] EXCEPT !.born = Begun(owner[kid[parent].worker])] \in KidStates
    BY <2>1, BegunIsNat DEF KidsOK, KidStates
  <2> QED
    BY <1>4, <2>2 DEF Fork, KidsOK
<1>5. ASSUME NEW k \in Kids, NEW state \in {"adrift", "dead"}, KidLeaves(k, state)
      PROVE  KidsOK'
  BY <1>5 DEF KidLeaves, KidsOK, KidStates
<1>6. CASE UNCHANGED kid
  BY <1>6, ProfileStays DEF KidsOK
<1> QED
  BY <1>1, <1>2, <1>3, <1>4, <1>5, <1>6, WhoKids


\* A Turn comes to run on the registered worker, or on the one delivered to it; a child comes
\* from a Turn's tool or from a child.
LEMMA HostsKeep ==
  ASSUME IInv, HostsOK, KidsOK, [Next]_vars
  PROVE  HostsOK'
<1>1. ASSUME NEW s \in Sessions, phase'[s] = "running"
      PROVE  using'[s] \in Workers /\ owner'[using'[s]] = s /\ proc'[using'[s]] # "unborn"
  <2>1. CASE Reuse(s)
    <3>1. using'[s] = reg[s] /\ reg[s] \in Workers /\ owner[reg[s]] = s /\ proc[reg[s]] # "unborn"
      BY <2>1 DEF Reuse, IInv, Types, Registered, Processes
    <3> QED
      BY <3>1, WorkersStay
  <2>2. ASSUME NEW w \in Workers, Deliver(s, w)
        PROVE  using'[s] \in Workers /\ owner'[using'[s]] = s /\ proc'[using'[s]] # "unborn"
    <3>1. using'[s] = w /\ owner[w] = s /\ proc[w] # "unborn"
      BY <2>2 DEF Deliver, Starting, IInv, Types, Startup, Processes
    <3> QED
      BY <3>1, WorkersStay
  <2>3. CASE ~Reuse(s) /\ \A w \in Workers : ~Deliver(s, w)
    <3>1. phase[s] = "running" /\ using'[s] = using[s]
      <4>1. ASSUME NEW z \in Sessions,
                   \/ NewTurn(z) \/ TurnBegins(z) \/ TurnBusy(z) \/ TurnEnds(z) \/ Delete(z)
                   \/ Deleted(z) \/ DeleteCut(z)
            PROVE  phase[s] = "running" /\ using'[s] = using[s]
        <5>1. PICK p \in {"created", "begun", "busy", "none", "deleting", "deleted"} :
                     phase' = [phase EXCEPT ![z] = p]
          BY <4>1, Zenon DEF NewTurn, TurnBegins, TurnBusy, TurnEnds, Delete, Deleted, DeleteCut
        <5>2. phase[s] = "running" /\ z # s
          BY <1>1, <5>1 DEF IInv, Types
        <5>3. using' = using \/ \E v : using' = [using EXCEPT ![z] = v]
          BY <4>1, Zenon DEF NewTurn, TurnBegins, TurnBusy, TurnEnds, Delete, Deleted, DeleteCut
        <5> QED
          BY <5>2, <5>3 DEF IInv, Types
      <4>2. ASSUME NEW z \in Sessions, NEW w \in Workers,
                   Spawn(z, w) \/ StartBreaks(z, w) \/ StartRefused(z, w) \/ CancelStart(z, w)
            PROVE  phase[s] = "running" /\ using'[s] = using[s]
        BY <1>1, <4>2 DEF Spawn, StartBreaks, StartRefused, StartUnchanged, CancelStart, IInv, Types
      <4>3. ASSUME NEW z \in Sessions, z # s, Reuse(z) \/ \E w \in Workers : Deliver(z, w)
            PROVE  phase[s] = "running" /\ using'[s] = using[s]
        BY <1>1, <4>3 DEF Reuse, Deliver, IInv, Types
      <4>4. CASE UNCHANGED <<phase, using>>
        BY <1>1, <4>4
      <4> QED
        BY <2>3, <4>1, <4>2, <4>3, <4>4, WhoUses
    <3> QED
      BY <3>1, WorkersStay DEF HostsOK
  <2> QED
    BY <2>1, <2>2, <2>3
<1>2. ASSUME NEW k \in Kids, kid'[k].state = "child"
      PROVE  kid'[k].worker \in Workers /\ proc'[kid'[k].worker] # "unborn"
  <2>1. ASSUME kid[k].state = "child", kid'[k].worker = kid[k].worker
        PROVE  kid'[k].worker \in Workers /\ proc'[kid'[k].worker] # "unborn"
    BY <2>1, WorkersStay DEF HostsOK
  <2>2. ASSUME NEW s \in Sessions, NEW j \in Kids, StartKid(s, j)
        PROVE  kid'[k].worker \in Workers /\ proc'[kid'[k].worker] # "unborn"
    <3>1. CASE j = k
      <4>1. kid'[k].worker = using[s] /\ phase[s] = "running"
        BY <2>2, <3>1 DEF StartKid, KidsOK
      <4> QED
        BY <4>1, WorkersStay DEF HostsOK
    <3>2. CASE j # k
      BY <1>2, <2>1, <2>2, <3>2 DEF StartKid, KidsOK
    <3> QED
      BY <3>1, <3>2
  <2>3. ASSUME NEW j \in Kids, NEW parent \in Kids, Fork(j, parent)
        PROVE  kid'[k].worker \in Workers /\ proc'[kid'[k].worker] # "unborn"
    <3>1. CASE j = k
      <4>1. kid'[k].worker = kid[parent].worker /\ kid[parent].state = "child"
        BY <2>3, <3>1 DEF Fork, KidsOK, KidStates
      <4> QED
        BY <4>1, WorkersStay DEF HostsOK
    <3>2. CASE j # k
      BY <1>2, <2>1, <2>3, <3>2 DEF Fork, KidsOK
    <3> QED
      BY <3>1, <3>2
  <2>4. ASSUME NEW w \in Workers, NEW survivors \in BOOLEAN, ProcessEnds(w, survivors)
        PROVE  kid[k].state = "child" /\ kid'[k].worker = kid[k].worker
    BY <1>2, <2>4 DEF ProcessEnds, KidsOK, KidStates
  <2>5. ASSUME NEW r \in Stops, ReapKill(r)
        PROVE  kid[k].state = "child" /\ kid'[k].worker = kid[k].worker
    BY <1>2, <2>5 DEF ReapKill, KillBatch, KidsOK, KidStates
  <2>6. ASSUME NEW j \in Kids, NEW state \in {"adrift", "dead"}, KidLeaves(j, state)
        PROVE  kid[k].state = "child" /\ kid'[k].worker = kid[k].worker
    BY <1>2, <2>6 DEF KidLeaves, KidsOK, KidStates
  <2>7. ASSUME NEW w \in Workers, TeardownEnds(w) \/ \E survivors \in BOOLEAN : Exit(w, survivors)
        PROVE  UNCHANGED kid \/ \E survivors \in BOOLEAN : ProcessEnds(w, survivors)
    BY <2>7, Zenon DEF TeardownEnds, Exit
  <2> QED
    BY <1>2, <2>1, <2>2, <2>3, <2>4, <2>5, <2>6, <2>7, WhoKids
<1> QED
  BY <1>1, <1>2 DEF HostsOK

\* Every step keeps the types.
LEMMA StepTInv ==
  ASSUME IInv, TInv, [Next]_vars
  PROVE  TInv'
<1>1. Types
  BY DEF IInv
<1> QED
  BY <1>1, HostsKeep, MarksKeep, StopsKeep, StartKeeps, TurnsKeep, ReapsKeep, KidsTypesKeep DEF TInv

\* Every variable keeps its type, for any number of sessions, workers, kids and stops: in
\* particular a Turn is never counted beyond its bound, and a reap's books hold kids only.
THEOREM TypesAlways == Spec => []TypeOK
<1>1. Init => IInv /\ TInv
  BY InitIInv, InitTInv
<1>2. IInv /\ TInv /\ [Next]_vars => IInv' /\ TInv'
  BY StepIInv, StepTInv
<1>3. IInv /\ TInv => TypeOK
  BY DEF IInv, TInv, Types, MarksOK, StopsOK, StartOK, TurnsOK, ReapsOK, Reaps, KidsOK, KidStates,
         TypeOK
<1> QED
  BY <1>1, <1>2, <1>3, PTL DEF Spec


-----------------------------------------------------------------------------
(* Nobody is delivered whom nobody vouches for *)

\* Nobody is delivered or being started when the daemon starts.
LEMMA InitVetInv ==
  ASSUME Init
  PROVE  VetInv
  BY DEF Init, VetInv, Spawned, Vetted, Unready, Fresh

\* A worker that nobody holds stays so, and had a process.
LEMMA LostStays ==
  ASSUME IInv, [Next]_vars, NEW v \in Workers
  PROVE  /\ v \in lost => v \in lost'
         /\ v \in lost' => v \in lost \/ proc[v] # "unborn"
<1>1. ASSUME NEW s \in Sessions, NEW w \in Workers, CancelStart(s, w)
      PROVE  lost' = lost \cup {w} /\ proc[w] # "unborn"
  BY <1>1 DEF CancelStart, IInv, Types, Startup, Processes
<1>2. CASE Shutdown
  <2>1. lost' = lost \/ (lost' = lost \cup {sweep.worker} /\ teardown[sweep.worker] = "term" /\ sweep.worker # None)
    BY <1>2, Zenon DEF Shutdown
  <2>2. CASE lost' = lost \cup {sweep.worker} /\ teardown[sweep.worker] = "term" /\ sweep.worker # None
    BY <2>2 DEF IInv, Types, Lists, Processes
  <2> QED
    BY <2>1, <2>2
<1>3. CASE ShutdownStep
  <2>1. lost' = lost \/ lost' = lost \cup {w \in Workers : watcher[w] = "reaping"}
    BY <1>3, Zenon DEF ShutdownStep, ownerless
  <2> QED
    BY <2>1 DEF IInv, Watchers
<1> QED
  BY <1>1, <1>2, <1>3, WhoLoses

\* A plugin that wrote its file has written it for ever.
LEMMA LoadedStays ==
  ASSUME [Next]_vars
  PROVE  loaded' = loaded \/ \E w \in Workers : WriteSnapshot(w) /\ loaded' = loaded \cup {w}
<1>1. ASSUME NEW s \in Sessions, NEW w \in Workers,
             Spawn(s, w) \/ Handshake(s, w) \/ StartFails(s, w) \/ StartBreaks(s, w) \/ CancelStart(s, w)
      PROVE  loaded' = loaded
  BY <1>1, Zenon DEF Spawn, Handshake, StartFails, StartBreaks, CancelStart
<1>2. ASSUME NEW w \in Workers, NEW verdict \in Verdicts, ProbeEnds(w, verdict)
      PROVE  loaded' = loaded
  BY <1>2, Zenon DEF ProbeEnds
<1>3. ASSUME NEW w \in Workers, WriteSnapshot(w)
      PROVE  loaded' = loaded \cup {w}
  BY <1>3, Zenon DEF WriteSnapshot
<1> QED
  BY <1>1, <1>2, <1>3, WhoStarts, Zenon

\* What vouches for a worker goes on doing so.
LEMMA VouchedStays ==
  ASSUME IInv, Spawned, [Next]_vars, NEW w \in Workers, proc[w] # "unborn", Vouched(w)
  PROVE  Vouched(w)'
<1>1. loaded \subseteq loaded'
  BY LoadedStays
<1>2. owner'[w] = owner[w]
  BY WorkersStay
<1>3. ASSUME NEW v \in lost, owner[v] = owner[w], v \in loaded
      PROVE  v \in lost' /\ owner'[v] = owner'[w] /\ v \in loaded'
  <2>1. v \in Workers /\ proc[v] # "unborn"
    BY DEF IInv, Types, Spawned
  <2> QED
    BY <1>1, <1>2, <1>3, <2>1, WorkersStay, LostStays
<1> QED
  BY <1>1, <1>3 DEF Vouched

\* How a session comes to start a worker, and how it ceases to.
LEMMA WhoIsStarting ==
  ASSUME IInv, [Next]_vars, NEW s \in Sessions
  PROVE  /\ phase'[s] = "starting" =>
              \/ \E w \in Workers : Spawn(s, w)
              \/ phase[s] = "starting" /\ using'[s] = using[s]
         /\ phase[s] = "starting" =>
              \/ \E w \in Workers : \/ StartBreaks(s, w) \/ StartRefused(s, w) \/ Deliver(s, w)
                                  \/ CancelStart(s, w)
              \/ phase'[s] = "starting" /\ using'[s] = using[s]
<1> DEFINE Same == phase'[s] = phase[s] /\ using'[s] = using[s]
           Other == phase[s] # "starting" /\ phase'[s] # "starting"
<1>1. ASSUME NEW z \in Sessions,
             \/ NewTurn(z) \/ TurnBegins(z) \/ TurnBusy(z) \/ Reuse(z) \/ TurnEnds(z) \/ Delete(z)
             \/ Deleted(z) \/ DeleteCut(z)
      PROVE  Same \/ Other
  <2>1. /\ phase[z] # "starting"
        /\ \E p \in {"created", "begun", "busy", "running", "none", "deleting", "deleted"} :
             phase' = [phase EXCEPT ![z] = p]
    BY <1>1 DEF NewTurn, TurnBegins, TurnBusy, Reuse, TurnEnds, Delete, Deleted, DeleteCut
  <2>2. using' = using \/ \E v : using' = [using EXCEPT ![z] = v]
    BY <1>1, Zenon DEF NewTurn, TurnBegins, TurnBusy, Reuse, TurnEnds, Delete, Deleted, DeleteCut
  <2>3. CASE z = s
    BY <2>1, <2>3 DEF IInv, Types
  <2>4. CASE z # s
    BY <2>1, <2>2, <2>4 DEF IInv, Types
  <2> QED
    BY <2>3, <2>4
<1>2. ASSUME NEW z \in Sessions, NEW w \in Workers, z # s,
             \/ Spawn(z, w) \/ StartBreaks(z, w) \/ StartRefused(z, w) \/ Deliver(z, w)
             \/ CancelStart(z, w)
      PROVE  Same
  BY <1>2 DEF Spawn, StartBreaks, StartRefused, Deliver, CancelStart, StartUnchanged, IInv, Types
<1>3. ASSUME NEW w \in Workers, Spawn(s, w)
      PROVE  phase[s] # "starting"
  BY <1>3 DEF Spawn
<1>4. ASSUME NEW w \in Workers,
             StartBreaks(s, w) \/ StartRefused(s, w) \/ Deliver(s, w) \/ CancelStart(s, w)
      PROVE  phase'[s] # "starting"
  BY <1>4 DEF StartBreaks, StartRefused, Deliver, CancelStart, IInv, Types
<1>5. CASE UNCHANGED <<phase, using>>
  BY <1>5
<1> QED
  BY <1>1, <1>2, <1>3, <1>4, <1>5, WhoUses

\* A worker id is spawned once, and only then writes, fails or is lost.
LEMMA SpawnedKeeps ==
  ASSUME IInv, Spawned, [Next]_vars
  PROVE  Spawned'
<1>1. ASSUME NEW w \in Workers, proc'[w] = "unborn"
      PROVE  w \notin loaded' /\ w \notin lost'
  <2>1. proc[w] = "unborn"
    BY <1>1, WorkersStay
  <2>2. w \notin loaded' 
    BY <2>1, LoadedStays DEF Spawned, WriteSnapshot
  <2> QED
    BY <2>1, <2>2, LostStays DEF Spawned
<1>2. ASSUME NEW w \in Workers, proc'[w] # "unborn"
      PROVE  stage'[w] # "unborn"
  <2>1. ASSUME NEW s \in Sessions, NEW v \in Workers, Spawn(s, v)
        PROVE  stage'[w] # "unborn"
    BY <1>2, <2>1 DEF Spawn, IInv, Types, Spawned
  <2>2. CASE \A s \in Sessions, v \in Workers : ~Spawn(s, v)
    <3>1. proc[w] # "unborn"
      <4>1. ASSUME NEW v \in Workers, TeardownEnds(v)
            PROVE  proc[w] # "unborn"
        <5>1. proc' = proc \/ (proc[v] = "up" /\ proc' = [proc EXCEPT ![v] = "dead"])
          BY <4>1, Zenon DEF TeardownEnds, ProcessEnds
        <5> QED
          BY <1>2, <5>1 DEF IInv, Types
      <4>2. ASSUME NEW v \in Workers, NEW survivors \in BOOLEAN, Exit(v, survivors)
            PROVE  proc[w] # "unborn"
        BY <1>2, <4>2 DEF Exit, ProcessEnds, IInv, Types
      <4> QED
        BY <1>2, <2>2, <4>1, <4>2, WhoProc
    <3>2. stage[w] # "unborn"
      BY <3>1 DEF Spawned
    <3>3. stage' = stage \/ \E v \in Workers, p \in {"check", "again", "refused", "ready"} :
                              stage' = [stage EXCEPT ![v] = p]
      BY <2>2, WhoStage
      DEF Handshake, CheckPasses, StartFails, StartBreaks, Deliver, CancelStart
    <3> QED
      BY <3>2, <3>3 DEF IInv, Types
  <2> QED
    BY <2>1, <2>2
<1> QED
  BY <1>1, <1>2 DEF Spawned

\* The probe of a worker that has passed is not sent again, nor judged again.
LEMMA ProbeStays ==
  ASSUME IInv, StartOK, [Next]_vars, NEW w \in Workers, stage[w] \in {"again", "ready"},
         probe[w] \notin {"sent", "ran"}
  PROVE  probe'[w] \notin {"sent", "ran"}
<1>1. ASSUME NEW s \in Sessions, NEW v \in Workers, Spawn(s, v)
      PROVE  probe' = probe
  BY <1>1 DEF Spawn
<1>2. ASSUME NEW s \in Sessions, NEW v \in Workers, Handshake(s, v)
      PROVE  probe'[w] = probe[w]
  BY <1>2 DEF Handshake, StartOK
<1>3. ASSUME NEW s \in Sessions, NEW v \in Workers,
             StartFails(s, v) \/ StartBreaks(s, v) \/ CancelStart(s, v)
      PROVE  probe'[w] = probe[w]
  BY <1>3 DEF StartFails, StartBreaks, CancelStart, StartOK
<1>4. ASSUME NEW v \in Workers, NEW verdict \in Verdicts, ProbeEnds(v, verdict)
      PROVE  probe'[w] = probe[w]
  BY <1>4 DEF ProbeEnds, StartOK
<1>5. ASSUME NEW v \in Workers, WriteSnapshot(v)
      PROVE  probe' = probe
  BY <1>5 DEF WriteSnapshot
<1> QED
  BY <1>1, <1>2, <1>3, <1>4, <1>5, WhoStarts

\* Only a worker that passed both layers goes on to its second ACP session.
LEMMA VettedKeeps ==
  ASSUME IInv, StartOK, VetInv, [Next]_vars
  PROVE  Vetted'
<1> SUFFICES ASSUME NEW w \in Workers, stage'[w] \in {"again", "ready"}
             PROVE  Vouched(w)' /\ probe'[w] \notin {"sent", "ran"}
  BY DEF Vetted
<1>1. CASE stage[w] \in {"again", "ready"}
  <2>1. proc[w] # "unborn" /\ Vouched(w) /\ probe[w] \notin {"sent", "ran"}
    BY <1>1 DEF VetInv, Vetted, IInv, Processes
  <2> QED
    BY <1>1, <2>1, VouchedStays, ProbeStays DEF VetInv
<1>2. CASE stage[w] \notin {"again", "ready"}
  <2>1. PICK s \in Sessions : CheckPasses(s, w)
    <3>1. ASSUME NEW z \in Sessions, NEW v \in Workers,
                 \/ Spawn(z, v) \/ Handshake(z, v) \/ StartFails(z, v) \/ StartBreaks(z, v)
                 \/ CancelStart(z, v)
          PROVE  FALSE
      <4>1. \E p \in {"handshake", "check", "refused"} : stage' = [stage EXCEPT ![v] = p]
        BY <3>1 DEF Spawn, Handshake, StartFails, StartBreaks, CancelStart
      <4> QED
        BY <1>2, <4>1 DEF IInv, Types
    <3>2. ASSUME NEW z \in Sessions, NEW v \in Workers, Deliver(z, v)
          PROVE  FALSE
      BY <1>2, <3>2 DEF Deliver, IInv, Types
    <3>3. ASSUME NEW z \in Sessions, NEW v \in Workers, CheckPasses(z, v), v # w
          PROVE  FALSE
      BY <1>2, <3>3 DEF CheckPasses, IInv, Types
    <3>4. stage' # stage
      BY <1>2
    <3> QED
      BY <3>1, <3>2, <3>3, <3>4, WhoStage
  <2>2. /\ phase[s] = "starting" /\ using[s] = w /\ snapshot[s]
        /\ probe[w] \notin {"sent", "ran"} /\ probe' = probe /\ proc[w] # "unborn"
    BY <2>1 DEF CheckPasses, Starting, SnapshotSeen
  <2>3. Vouched(w)
    BY <2>2 DEF VetInv, Fresh
  <2> QED
    BY <2>2, <2>3, VouchedStays DEF VetInv
<1> QED
  BY <1>1, <1>2

\* Whoever leaves a start alone ends the worker, or is cancelled.
LEMMA UnreadyKeeps ==
  ASSUME IInv, VetInv, [Next]_vars
  PROVE  Unready'
<1> SUFFICES ASSUME NEW w \in Workers, stage'[w] \notin {"unborn", "ready"}, proc'[w] = "up",
                    w \notin lost'
             PROVE  phase'[owner'[w]] = "starting" /\ using'[owner'[w]] = w
  BY DEF Unready
<1>1. ASSUME NEW s \in Sessions, Spawn(s, w)
      PROVE  phase'[owner'[w]] = "starting" /\ using'[owner'[w]] = w
  BY <1>1 DEF Spawn, IInv, Types
<1>2. CASE \A s \in Sessions : ~Spawn(s, w)
  <2>1. proc[w] = "up"
    <3>1. ASSUME NEW s \in Sessions, NEW v \in Workers, v # w, Spawn(s, v)
          PROVE  proc[w] = "up"
      BY <3>1 DEF Spawn, IInv, Types
    <3>2. ASSUME NEW v \in Workers, TeardownEnds(v)
          PROVE  proc[w] = "up"
      <4>1. proc' = proc \/ proc' = [proc EXCEPT ![v] = "dead"]
        BY <3>2, Zenon DEF TeardownEnds, ProcessEnds
      <4> QED
        BY <4>1 DEF IInv, Types
    <3>3. ASSUME NEW v \in Workers, NEW survivors \in BOOLEAN, Exit(v, survivors)
          PROVE  proc[w] = "up"
      BY <3>3 DEF Exit, ProcessEnds, IInv, Types
    <3> QED
      BY <1>2, <3>1, <3>2, <3>3, WhoProc
  <2>2. stage[w] \notin {"unborn", "ready"} /\ owner'[w] = owner[w] /\ w \notin lost
    BY <2>1, WorkersStay, LostStays DEF VetInv, Spawned
  <2> DEFINE s == owner[w]
  <2>3. s \in Sessions /\ phase[s] = "starting" /\ using[s] = w
    BY <2>1, <2>2 DEF VetInv, Unready, IInv, Processes
  <2> HIDE DEF s
  <2>4. ASSUME NEW v \in Workers, StartRefused(s, v)
        PROVE  FALSE
    BY <2>1, <2>3, <2>4 DEF StartRefused, IInv, Processes
  <2>5. ASSUME NEW v \in Workers, Deliver(s, v)
        PROVE  FALSE
    BY <2>3, <2>5 DEF Deliver, Starting, IInv, Types
  <2>6. ASSUME NEW v \in Workers, CancelStart(s, v)
        PROVE  FALSE
    BY <2>3, <2>6 DEF CancelStart
  <2>7. ASSUME NEW v \in Workers, StartBreaks(s, v)
        PROVE  FALSE
    BY <2>1, <2>3, <2>7 DEF StartBreaks, Starting
  <2>8. phase'[s] = "starting" /\ using'[s] = using[s]
    BY <2>3, <2>4, <2>5, <2>6, <2>7, WhoIsStarting
  <2> QED
    BY <2>2, <2>3, <2>8 DEF s
<1> QED
  BY <1>1, <1>2

\* The home is fresh when a worker is spawned, and only workers of the session write to it.
LEMMA FreshKeeps ==
  ASSUME IInv, StartOK, VetInv, [Next]_vars
  PROVE  Fresh'
<1> SUFFICES ASSUME NEW s \in Sessions, phase'[s] = "starting", snapshot'[s],
                    NEW u, u = using'[s]
             PROVE  Vouched(u)'
  BY DEF Fresh, Vouched
<1>1. ASSUME NEW w \in Workers, Spawn(s, w)
      PROVE  FALSE
  BY <1>1 DEF Spawn, FreshHome, StartOK
<1>2. phase[s] = "starting" /\ using'[s] = using[s]
  BY <1>1, WhoIsStarting
<1>3. u = using[s] /\ u \in Workers /\ owner[u] = s /\ proc[u] # "unborn"
  BY <1>2 DEF IInv, Startup, Processes
<1>4. CASE Vouched(u)
  BY <1>3, <1>4, VouchedStays DEF VetInv
<1>5. CASE ~Vouched(u)
  <2>1. ~snapshot[s]
    BY <1>2, <1>3, <1>5 DEF VetInv, Fresh
  <2>2. PICK v \in Workers : WriteSnapshot(v) /\ owner[v] = s
    <3>1. ASSUME NEW z \in Sessions, NEW w \in Workers, Spawn(z, w)
          PROVE  FALSE
      BY <2>1, <3>1 DEF Spawn, FreshHome, StartOK
    <3>2. ASSUME NEW z \in Sessions, NEW w \in Workers,
                 Handshake(z, w) \/ StartFails(z, w) \/ StartBreaks(z, w) \/ CancelStart(z, w)
          PROVE  FALSE
      BY <2>1, <3>2 DEF Handshake, StartFails, StartBreaks, CancelStart
    <3>3. ASSUME NEW w \in Workers, NEW verdict \in Verdicts, ProbeEnds(w, verdict)
          PROVE  FALSE
      BY <2>1, <3>3 DEF ProbeEnds
    <3>4. ASSUME NEW w \in Workers, WriteSnapshot(w), owner[w] # s
          PROVE  FALSE
      BY <2>1, <3>4 DEF WriteSnapshot, StartOK
    <3> QED
      BY <2>1, <3>1, <3>2, <3>3, <3>4, WhoStarts
  <2>3. proc[v] = "up" /\ v \notin loaded /\ loaded' = loaded \cup {v}
    BY <2>2 DEF WriteSnapshot
  <2>4. stage[v] # "unborn"
    BY <2>3 DEF VetInv, Spawned
  <2>5. CASE v = u
    BY <2>3, <2>5 DEF Vouched
  <2>6. CASE stage[v] = "ready"
    <3>1. PICK x \in lost : owner[x] = owner[v] /\ x \in loaded
      BY <2>3, <2>6 DEF VetInv, Vetted, Vouched
    <3> QED
      BY <1>3, <1>5, <2>2, <3>1 DEF Vouched
  <2>7. CASE v # u /\ stage[v] # "ready"
    <3>1. v \in lost
      BY <1>2, <1>3, <2>2, <2>3, <2>4, <2>7 DEF VetInv, Unready
    <3>2. v \in lost' /\ owner'[v] = s /\ owner'[u] = s
      BY <1>3, <2>2, <2>3, <3>1, LostStays, WorkersStay
    <3> QED
      BY <2>3, <3>2 DEF Vouched
  <2> QED
    BY <2>5, <2>6, <2>7
<1> QED
  BY <1>4, <1>5

\* A worker is delivered only if the plugin of its own process, or of one that was lost in
\* its startup, has written the file, and its probe did not run: whatever an earlier worker
\* of the session left behind (manager.py _spawn_and_check).
THEOREM VettedAlways == Spec => []DeliveredIsVetted
<1>1. Init => IInv /\ TInv /\ VetInv
  BY InitIInv, InitTInv, InitVetInv
<1>2. IInv /\ TInv /\ VetInv /\ [Next]_vars => IInv' /\ TInv' /\ VetInv'
  BY StepIInv, StepTInv, SpawnedKeeps, VettedKeeps, UnreadyKeeps, FreshKeeps DEF TInv, VetInv
<1>3. VetInv => DeliveredIsVetted
  BY DEF VetInv, Vetted, Vouched, DeliveredIsVetted
<1> QED
  BY <1>1, <1>2, <1>3, PTL DEF Spec


-----------------------------------------------------------------------------
(* No innocent is signalled *)

\* Nothing has been signalled, and there is nothing to signal, when the daemon starts.
LEMMA InitSpareInv ==
  ASSUME Init
  PROVE  SpareInv
  BY DEF Init, SpareInv, Baselined, GraceInv, FoundInv, HitsInv, NoReap

\* A kid has one birth, in one Turn.
LEMMA KidsStay ==
  ASSUME IInv, KidsOK, [Next]_vars, NEW k \in Kids, kid[k].state # "unborn"
  PROVE  /\ kid'[k].state # "unborn" /\ kid'[k].born = kid[k].born
         /\ kid'[k].state = "child" => kid[k].state = "child" /\ kid'[k].worker = kid[k].worker
<1> DEFINE Stays == /\ kid'[k].state # "unborn" /\ kid'[k].born = kid[k].born
                    /\ kid'[k].state = "child" =>
                         kid[k].state = "child" /\ kid'[k].worker = kid[k].worker
<1>1. ASSUME NEW s \in Sessions, NEW j \in Kids, StartKid(s, j)
      PROVE  Stays
  BY <1>1 DEF StartKid, KidsOK, KidStates
<1>2. ASSUME NEW j \in Kids, NEW parent \in Kids, Fork(j, parent)
      PROVE  Stays
  BY <1>2 DEF Fork, KidsOK, KidStates
<1>3. ASSUME NEW w \in Workers, NEW survivors \in BOOLEAN, ProcessEnds(w, survivors)
      PROVE  Stays
  BY <1>3 DEF ProcessEnds, KidsOK, KidStates
<1>4. ASSUME NEW r \in Stops, ReapKill(r)
      PROVE  Stays
  BY <1>4 DEF ReapKill, KillBatch, KidsOK, KidStates
<1>5. ASSUME NEW j \in Kids, NEW state \in {"adrift", "dead"}, KidLeaves(j, state)
      PROVE  Stays
  BY <1>5 DEF KidLeaves, KidsOK, KidStates
<1>7. ASSUME UNCHANGED kid
      PROVE  Stays
  BY <1>7
<1>6. ASSUME NEW w \in Workers, TeardownEnds(w) \/ \E survivors \in BOOLEAN : Exit(w, survivors)
      PROVE  Stays
  <2>1. UNCHANGED kid \/ \E survivors \in BOOLEAN : ProcessEnds(w, survivors)
    BY <1>6, Zenon DEF TeardownEnds, Exit
  <2> HIDE DEF Stays
  <2> QED
    BY <1>3, <1>7, <2>1, Zenon
<1> HIDE DEF Stays
<1>8. Stays
  BY <1>1, <1>2, <1>3, <1>4, <1>5, <1>6, <1>7, WhoKids
<1> QED
  BY <1>8 DEF Stays

\* It is born to a worker, in the last Turn that has begun of the worker's session, by a
\* step that does nothing else.
LEMMA Births ==
  ASSUME IInv, HostsOK, KidsOK, FoundInv, [Next]_vars, NEW k \in Kids, kid[k].state = "unborn",
         kid'[k].state # "unborn"
  PROVE  /\ UNCHANGED <<reg, gen, base, phase, turn>>
         /\ kid'[k].worker \in Workers /\ owner[kid'[k].worker] \in Sessions
         /\ kid'[k].born = Begun(owner[kid'[k].worker])
<1> DEFINE Born == /\ UNCHANGED <<reg, gen, base, phase, turn>>
                   /\ kid'[k].worker \in Workers /\ owner[kid'[k].worker] \in Sessions
                   /\ kid'[k].born = Begun(owner[kid'[k].worker])
<1>1. ASSUME NEW s \in Sessions, NEW j \in Kids, StartKid(s, j)
      PROVE  Born
  <2>1. j = k
    BY <1>1 DEF StartKid, KidsOK
  <2>2. UNCHANGED <<reg, gen, base, phase, turn>> /\ phase[s] = "running"
    BY <1>1, Zenon DEF StartKid, marks, callers
  <2>3. kid'[k].worker = using[s] /\ kid'[k].born = Begun(s)
    BY <1>1, <2>1 DEF StartKid, KidsOK
  <2> QED
    BY <2>2, <2>3 DEF HostsOK
<1>2. ASSUME NEW j \in Kids, NEW parent \in Kids, Fork(j, parent)
      PROVE  Born
  <2>1. j = k
    BY <1>2 DEF Fork, KidsOK
  <2>2. UNCHANGED <<reg, gen, base, phase, turn>> /\ kid[parent].state = "child"
    BY <1>2, Zenon DEF Fork, marks, callers
  <2>3. /\ kid'[k].worker = kid[parent].worker
        /\ kid'[k].born = Begun(owner[kid[parent].worker])
    BY <1>2, <2>1 DEF Fork, KidsOK, KidStates
  <2> QED
    BY <2>2, <2>3 DEF HostsOK, IInv, Processes
<1>3. ASSUME NEW w \in Workers, NEW survivors \in BOOLEAN, ProcessEnds(w, survivors)
      PROVE  FALSE
  BY <1>3 DEF ProcessEnds, Descendants, KidsOK, KidStates
<1>4. ASSUME NEW r \in Stops, ReapKill(r)
      PROVE  FALSE
  <2>1. k \notin reap[r].found
    BY <1>4 DEF FoundInv, ReapKill
  <2> QED
    BY <1>4, <2>1 DEF ReapKill, KillBatch, KidsOK
<1>5. ASSUME NEW j \in Kids, NEW state \in {"adrift", "dead"}, KidLeaves(j, state)
      PROVE  FALSE
  BY <1>5 DEF KidLeaves, Alive, KidsOK, KidStates
<1>6. ASSUME NEW w \in Workers, TeardownEnds(w) \/ \E survivors \in BOOLEAN : Exit(w, survivors)
      PROVE  FALSE
  <2>1. UNCHANGED kid \/ \E survivors \in BOOLEAN : ProcessEnds(w, survivors)
    BY <1>6, Zenon DEF TeardownEnds, Exit
  <2> QED
    BY <1>3, <2>1, Zenon
<1> HIDE DEF Born
<1>8. Born
  BY <1>1, <1>2, <1>3, <1>4, <1>5, <1>6, WhoKids
<1> QED
  BY <1>8 DEF Born


\* A Turn's beginning is marked on the registered worker; a mark renews the baseline.
LEMMA MarksMove ==
  ASSUME IInv, MarksOK, [Next]_vars, NEW w \in Workers
  PROVE  \/ gen'[w] = gen[w] /\ base'[w] = base[w]
         \/ gen'[w] = gen[w] + 1 /\ base'[w] = Descendants(w) /\ UNCHANGED kid
<1>1. ASSUME NEW v, MarkTurnStarted(v)
      PROVE  \/ gen'[w] = gen[w] /\ base'[w] = base[w]
             \/ gen'[w] = gen[w] + 1 /\ base'[w] = Descendants(w)
  BY <1>1 DEF MarkTurnStarted, MarksOK
<1>2. ASSUME NEW s \in Sessions, TurnBegins(s) \/ Reuse(s) \/ \E v \in Workers : Deliver(s, v)
      PROVE  /\ UNCHANGED kid
             /\ UNCHANGED <<base, gen>> \/ \E v : MarkTurnStarted(v)
  BY <1>2, Zenon DEF TurnBegins, Reuse, Deliver, os
<1>3. CASE UNCHANGED <<base, gen>>
  BY <1>3
<1> QED
  BY <1>1, <1>2, <1>3, WhoMarks

\* While a worker stays registered and unmarked, so do its session's Turns.
LEMMA UnmarkedStays ==
  ASSUME IInv, MarksOK, TurnsOK, [Next]_vars, NEW s \in Sessions, NEW w \in Workers,
         reg'[s] = w, gen'[w] = gen[w]
  PROVE  reg[s] = w /\ Begun(s)' = Begun(s)
<1>1. ~ \E v \in Workers : MarkTurnStarted(w) /\ v = w
  BY DEF MarkTurnStarted, MarksOK
<1>2. reg[s] = w
  <2>1. ASSUME NEW z \in Sessions, NEW v \in Workers, Deliver(z, v)
        PROVE  reg[s] = w
    BY <1>1, <2>1 DEF Deliver, IInv, Types
  <2>2. ASSUME NEW v \in Workers, WatchExit(v)
        PROVE  reg[s] = w
    <3>1. reg' = reg \/ reg' = [reg EXCEPT ![owner[v]] = None]
      BY <2>2, Zenon DEF WatchExit
    <3> QED
      BY <3>1, PoolAssumption DEF IInv, Types
  <2>3. ASSUME NEW z, reg' = [reg EXCEPT ![z] = None]
        PROVE  reg[s] = w
    BY <2>3, PoolAssumption DEF IInv, Types
  <2>4. ASSUME NEW z \in Sessions, SweepScan(z) \/ Delete(z)
        PROVE  reg[s] = w
    <3>1. reg' = reg \/ reg' = [reg EXCEPT ![z] = None]
      BY <2>4, Zenon DEF SweepScan, Delete, StopWorker
    <3> QED
      BY <2>3, <3>1
  <2>5. CASE SweepNext \/ ShutdownStep
    <3>1. reg' = reg \/ \E z : reg' = [reg EXCEPT ![z] = None]
      BY <2>5, Zenon DEF SweepNext, ShutdownStep, StopWorker
    <3> QED
      BY <2>3, <3>1
  <2>6. CASE UNCHANGED reg
    BY <2>6
  <2> QED
    BY <2>1, <2>2, <2>4, <2>5, <2>6, WhoReg
<1>3. ~TurnBegins(s)
  BY <1>1, <1>2, PoolAssumption DEF TurnBegins
<1>4. \/ turn'[s] = turn[s] /\ (phase'[s] = "created" <=> phase[s] = "created")
      \/ turn'[s] = turn[s] + 1 /\ phase[s] # "created" /\ phase'[s] = "created"
  <2>1. ASSUME NEW z \in Sessions, NewTurn(z)
        PROVE  \/ turn'[s] = turn[s] /\ (phase'[s] = "created" <=> phase[s] = "created")
               \/ turn'[s] = turn[s] + 1 /\ phase[s] # "created" /\ phase'[s] = "created"
    BY <2>1 DEF NewTurn, IInv, Types, TurnsOK
  <2>2. ASSUME NEW z \in Sessions, z # s \/ phase[z] # "created",
               NEW p \in {"none", "begun", "busy", "running", "starting", "deleting", "deleted"},
               phase' = [phase EXCEPT ![z] = p]
        PROVE  phase'[s] = "created" <=> phase[s] = "created"
    BY <2>2 DEF IInv, Types
  <2>3. ASSUME NEW z \in Sessions,
               \/ TurnBusy(z) \/ Reuse(z) \/ TurnEnds(z) \/ Delete(z) \/ Deleted(z)
               \/ DeleteCut(z)
        PROVE  /\ UNCHANGED turn /\ phase[z] # "created"
               /\ \E p \in {"none", "begun", "busy", "running", "starting", "deleting", "deleted"} :
                    phase' = [phase EXCEPT ![z] = p]
    BY <2>3 DEF TurnBusy, Reuse, TurnEnds, Delete, Deleted, DeleteCut
  <2>4. ASSUME NEW z \in Sessions, NEW v \in Workers,
               \/ Spawn(z, v) \/ StartBreaks(z, v) \/ StartRefused(z, v) \/ Deliver(z, v)
               \/ CancelStart(z, v)
        PROVE  /\ UNCHANGED turn /\ phase[z] # "created"
               /\ \E p \in {"none", "begun", "busy", "running", "starting", "deleting", "deleted"} :
                    phase' = [phase EXCEPT ![z] = p]
    BY <2>4 DEF Spawn, StartBreaks, StartRefused, Deliver, Starting, CancelStart, StartUnchanged
  <2>5. ASSUME NEW z \in Sessions, z # s, TurnBegins(z)
        PROVE  UNCHANGED turn /\ phase' = [phase EXCEPT ![z] = "begun"]
    BY <2>5 DEF TurnBegins
  <2>6. ASSUME NEW z \in Sessions,
               \/ TurnBusy(z) \/ Reuse(z) \/ TurnEnds(z) \/ Delete(z) \/ Deleted(z)
               \/ DeleteCut(z)
               \/ \E v \in Workers : \/ Spawn(z, v) \/ StartBreaks(z, v) \/ StartRefused(z, v)
                                    \/ Deliver(z, v) \/ CancelStart(z, v)
        PROVE  turn'[s] = turn[s] /\ (phase'[s] = "created" <=> phase[s] = "created")
    BY <2>2, <2>3, <2>4, <2>6
  <2>7. ASSUME NEW z \in Sessions, TurnBegins(z)
        PROVE  turn'[s] = turn[s] /\ (phase'[s] = "created" <=> phase[s] = "created")
    BY <1>3, <2>2, <2>5, <2>7
  <2> QED
    BY <2>1, <2>6, <2>7, WhoTurns
<1> QED
  BY <1>2, <1>4 DEF Begun, TurnsOK

\* A baseline is taken when a Turn begins, and again when it gets its worker.
LEMMA BaselinedKeeps ==
  ASSUME IInv, TInv, SpareInv, [Next]_vars
  PROVE  Baselined'
<1> SUFFICES ASSUME NEW k \in Kids, kid'[k].state = "child", NEW w, w = kid'[k].worker,
                    NEW s, s = owner'[w], reg'[s] = w
             PROVE  k \in base'[w] \/ kid'[k].born = Begun(s)'
  BY DEF Baselined, Begun
<1>1. IInv' /\ HostsOK' /\ MarksOK /\ TurnsOK /\ HostsOK /\ KidsOK /\ FoundInv
  BY StepIInv, StepTInv DEF TInv, SpareInv
<1>2. w \in Workers /\ s \in Sessions
  BY <1>1 DEF HostsOK, IInv, Processes
<1>3. CASE kid[k].state = "unborn"
  <2>1. /\ UNCHANGED <<reg, gen, base, phase, turn>>
        /\ owner[w] \in Sessions /\ kid'[k].born = Begun(owner[w])
    BY <1>1, <1>3, Births
  <2>2. s = owner[w]
    BY <1>2, <2>1, PoolAssumption DEF IInv, Registered
  <2> QED
    BY <2>1, <2>2 DEF Begun
<1>4. CASE kid[k].state # "unborn"
  <2>1. kid[k].state = "child" /\ kid[k].worker = w /\ kid'[k].born = kid[k].born
    BY <1>1, <1>4, KidsStay
  <2>2. owner[w] = s
    BY <1>1, <1>2, <2>1, WorkersStay DEF HostsOK
  <2>3. CASE base'[w] = Descendants(w)
    BY <2>1, <2>3 DEF Descendants
  <2>4. CASE gen'[w] = gen[w] /\ base'[w] = base[w]
    <3>1. reg[s] = w /\ Begun(s)' = Begun(s)
      BY <1>1, <1>2, <2>4, UnmarkedStays
    <3>2. k \in base[w] \/ kid[k].born = Begun(s)
      BY <2>1, <2>2, <3>1 DEF SpareInv, Baselined
    <3> QED
      BY <2>1, <2>4, <3>1, <3>2
  <2> QED
    BY <1>1, <1>2, <2>3, <2>4, MarksMove
<1> QED
  BY <1>3, <1>4


\* A reap in its grace period has just been asked for, or is as it was.
LEMMA WhoIsInGrace ==
  ASSUME ReapsOK, [Next]_vars, NEW r \in Stops, reap'[r].pc = "grace"
  PROVE  reap'[r] = reap[r] \/ \E s \in Sessions : Stop(s, r)
<1>1. ASSUME NEW s \in Sessions, NEW q \in Stops, Stop(s, q)
      PROVE  reap'[r] = reap[r] \/ q = r
  <2>1. \E e : reap' = [reap EXCEPT ![q] = e]
    BY <1>1, Zenon DEF Stop
  <2> QED
    BY <2>1 DEF ReapsOK
<1>2. ASSUME NEW q \in Stops, ReapTerm(q)
      PROVE  reap'[r] = reap[r]
  <2>1. \E found : reap' = [reap EXCEPT ![q].pc = IF found = {} THEN "done" ELSE "term",
                                        ![q].found = found]
    BY <1>2, Zenon DEF ReapTerm
  <2> QED
    BY <2>1 DEF ReapsOK, Reaps
<1>3. ASSUME NEW q \in Stops, ReapKill(q)
      PROVE  reap'[r] = reap[r]
  BY <1>3 DEF ReapKill, ReapsOK, Reaps
<1> QED
  BY <1>1, <1>2, <1>3, WhoReaps

\* What a stop finds of the running Turn: the baseline tells it from what was there before.
LEMMA StopFinds ==
  ASSUME IInv, TInv, SpareInv, NEW s \in Sessions, NEW r \in Stops, Stop(s, r)
  PROVE  LET e == reap'[r] IN
         /\ e.pc = "grace" /\ e.session = s /\ e.worker = reg[s] /\ reg[s] \in Workers
         /\ e.gen = gen[reg[s]] /\ e.base = base[reg[s]] /\ e.found = Descendants(reg[s])
         /\ e.begun => Begun(s) = e.turn
         /\ \A k \in e.found \ e.base : Guilty(k, e)
<1> DEFINE e == [pc |-> "grace", session |-> s, worker |-> reg[s], turn |-> turn[s],
                 begun |-> phase[s] # "created", gen |-> gen[reg[s]], base |-> base[reg[s]],
                 found |-> Descendants(reg[s])]
<1>1. reap'[r] = e /\ reg[s] \in Workers
  BY DEF Stop, TInv, ReapsOK, IInv, Types
<1>2. e.begun => Begun(s) = e.turn
  BY DEF Begun
<1>3. ASSUME NEW k \in e.found \ e.base
      PROVE  Guilty(k, e)
  <2>1. k \in Kids /\ kid[k].state = "child" /\ kid[k].worker = reg[s] /\ k \notin base[reg[s]]
    BY <1>3 DEF Descendants
  <2>2. owner[reg[s]] = s
    BY <1>1, PoolAssumption DEF IInv, Registered
  <2>3. kid[k].born = Begun(s)
    BY <2>1, <2>2 DEF SpareInv, Baselined
  <2> QED
    BY <1>2, <2>1, <2>3 DEF Guilty
<1>4. /\ e.pc = "grace" /\ e.session = s /\ e.worker = reg[s]
      /\ e.gen = gen[reg[s]] /\ e.base = base[reg[s]] /\ e.found = Descendants(reg[s])
  OBVIOUS
<1> HIDE DEF e
<1> QED
  BY <1>1, <1>2, <1>3, <1>4

\* Guilt is for ever.
LEMMA GuiltStays ==
  ASSUME IInv, KidsOK, [Next]_vars, NEW k \in Kids, NEW e, Guilty(k, e)
  PROVE  Guilty(k, e)'
  BY KidsStay DEF Guilty

\* A mark of a later Turn raises the generation, so that an unchanged one is the same Turn.
LEMMA GraceKeeps ==
  ASSUME IInv, TInv, SpareInv, [Next]_vars
  PROVE  GraceInv'
<1> SUFFICES ASSUME NEW r \in Stops, NEW e, e = reap'[r], e.pc = "grace"
             PROVE  /\ e.session \in Sessions /\ e.worker \in Workers
                    /\ owner'[e.worker] = e.session /\ stage'[e.worker] = "ready"
                    /\ proc'[e.worker] # "unborn" /\ e.gen <= gen'[e.worker]
                    /\ \A k \in e.found \ e.base : Guilty(k, e)'
                    /\ reg'[e.session] = e.worker /\ gen'[e.worker] = e.gen =>
                         base'[e.worker] = e.base /\ (e.begun => Begun(e.session)' = e.turn)
  BY DEF GraceInv, Guilty, Begun
<1>1. IInv' /\ MarksOK /\ TurnsOK /\ KidsOK /\ ReapsOK /\ ReapsOK' /\ MarksOK'
  BY StepIInv, StepTInv DEF TInv
<1> DEFINE w == e.worker
           s == e.session
<1>2. CASE e = reap[r]
  <2>1. /\ s \in Sessions /\ w \in Workers /\ owner[w] = s /\ stage[w] = "ready"
        /\ proc[w] # "unborn" /\ e.gen <= gen[w] /\ \A k \in e.found \ e.base : Guilty(k, e)
        /\ reg[s] = w /\ gen[w] = e.gen =>
             base[w] = e.base /\ (e.begun => Begun(s) = e.turn)
    BY <1>2 DEF SpareInv, GraceInv
  <2>2. e.gen \in Nat /\ gen[w] \in Nat /\ e.found \subseteq Kids
    BY <1>1, <1>2, <2>1 DEF ReapsOK, Reaps, MarksOK
  <2> HIDE DEF w, s
  <2>3. owner'[w] = s /\ stage'[w] = "ready" /\ proc'[w] # "unborn"
    BY <2>1, WorkersStay
  <2>4. \A k \in e.found \ e.base : Guilty(k, e)'
    BY <1>1, <2>1, <2>2, GuiltStays
  <2>5. \/ gen'[w] = gen[w] /\ base'[w] = base[w]
        \/ gen'[w] = gen[w] + 1
    BY <1>1, <2>1, MarksMove
  <2>6. ASSUME reg'[s] = w, gen'[w] = e.gen
        PROVE  base'[w] = e.base /\ (e.begun => Begun(s)' = e.turn)
    <3>1. gen'[w] = gen[w] /\ base'[w] = base[w]
      BY <2>1, <2>2, <2>5, <2>6
    <3>2. reg[s] = w /\ Begun(s)' = Begun(s)
      BY <1>1, <2>1, <2>6, <3>1, UnmarkedStays
    <3> QED
      BY <2>1, <2>6, <3>1, <3>2
  <2> QED
    BY <2>1, <2>2, <2>3, <2>4, <2>5, <2>6 DEF w, s
<1>3. ASSUME NEW z \in Sessions, Stop(z, r)
      PROVE  /\ s \in Sessions /\ w \in Workers
             /\ owner'[w] = s /\ stage'[w] = "ready"
             /\ proc'[w] # "unborn" /\ e.gen <= gen'[w]
             /\ \A k \in e.found \ e.base : Guilty(k, e)'
             /\ base'[w] = e.base /\ (e.begun => Begun(s)' = e.turn)
  <2>1. /\ s = z /\ w = reg[z] /\ reg[z] \in Workers
        /\ e.gen = gen[w] /\ e.base = base[w] /\ e.found = Descendants(w)
        /\ e.begun => Begun(z) = e.turn
        /\ \A k \in e.found \ e.base : Guilty(k, e)
    BY <1>3, StopFinds
  <2> HIDE DEF w, s
  <2>2. /\ owner' = owner /\ stage' = stage /\ proc' = proc /\ gen' = gen /\ base' = base
        /\ phase' = phase /\ turn' = turn
    BY <1>3, Zenon DEF Stop, os, lifecycle, marks, callers
  <2>3. owner[w] = z /\ stage[w] = "ready" /\ proc[w] # "unborn"
    BY <2>1, PoolAssumption DEF IInv, Registered, Processes
  <2>4. \A k \in e.found \ e.base : Guilty(k, e)'
    <3>1. e.found \subseteq Kids
      BY <2>1 DEF Descendants
    <3> QED
      BY <1>1, <2>1, <3>1, GuiltStays
  <2>5. Begun(z)' = Begun(z)
    BY <2>2 DEF Begun
  <2>6. gen[w] \in Nat
    BY <1>1, <2>1 DEF MarksOK
  <2> QED
    BY <2>1, <2>2, <2>3, <2>4, <2>5, <2>6
<1> QED
  BY <1>1, <1>2, <1>3, WhoIsInGrace

\* The signalled kids.
Survivors(r) ==
  LET now == reap[r].worker
      same == reg[reap[r].session] = now /\ gen[now] = reap[r].gen
      again == IF same THEN Descendants(now) ELSE {}
  IN  {k \in (reap[r].found \cup again) \ reap[r].base : Alive(k)}

\* They were found by the stop, or are of the same Turn as those.
LEMMA SurvivorsAreGuilty ==
  ASSUME IInv, TInv, SpareInv, NEW r \in Stops, ReapTerm(r), NEW k \in Survivors(r)
  PROVE  k \in Kids /\ Guilty(k, reap[r])
<1> DEFINE e == reap[r]
           w == reap[r].worker
           s == reap[r].session
<1>1. /\ e.pc = "grace" /\ s \in Sessions /\ w \in Workers /\ owner[w] = s
      /\ \A j \in e.found \ e.base : Guilty(j, e)
      /\ reg[s] = w /\ gen[w] = e.gen =>
           base[w] = e.base /\ (e.begun => Begun(s) = e.turn)
      /\ e.found \subseteq Kids
  BY DEF ReapTerm, SpareInv, GraceInv, TInv, ReapsOK, Reaps
<1>2. k \in e.found \ e.base \/ (reg[s] = w /\ gen[w] = e.gen /\ k \in Descendants(w) \ e.base)
  BY DEF Survivors
<1> HIDE DEF e, w, s
<1>3. CASE k \in e.found \ e.base
  BY <1>1, <1>3 DEF e
<1>4. CASE reg[s] = w /\ gen[w] = e.gen /\ k \in Descendants(w) \ e.base
  <2>1. k \in Kids /\ kid[k].state = "child" /\ kid[k].worker = w /\ k \notin base[w]
    BY <1>1, <1>4 DEF Descendants
  <2>2. kid[k].born = Begun(s)
    BY <1>1, <1>4, <2>1 DEF SpareInv, Baselined
  <2> QED
    BY <1>1, <1>4, <2>1, <2>2 DEF Guilty, e
<1> QED
  BY <1>2, <1>3, <1>4

\* What ReapTerm does, with its survivors named.
LEMMA TermMeans ==
  ASSUME ReapsOK, NEW r \in Stops, ReapTerm(r)
  PROVE  /\ hits' = hits \cup {[kid |-> k, reap |-> r] : k \in Survivors(r)}
         /\ reap'[r].begun = reap[r].begun /\ reap'[r].turn = reap[r].turn
         /\ reap'[r].found = Survivors(r)
         /\ reap'[r].pc \in {"done", "term"} /\ kid' = kid
         /\ \A q \in Stops : q # r => reap'[q] = reap[q]
<1>1. /\ hits' = hits \cup {[kid |-> k, reap |-> r] : k \in Survivors(r)}
      /\ reap' = [reap EXCEPT ![r].pc = IF Survivors(r) = {} THEN "done" ELSE "term",
                              ![r].found = Survivors(r)]
      /\ kid' = kid
  BY Zenon DEF ReapTerm, Survivors, os
<1> QED
  BY <1>1 DEF ReapsOK, Reaps

\* A stop finds what is there, and a reap looks again for what is there.
LEMMA FoundKeeps ==
  ASSUME IInv, TInv, SpareInv, [Next]_vars
  PROVE  FoundInv'
<1> SUFFICES ASSUME NEW r \in Stops, reap'[r].pc \in {"grace", "term"}, NEW k \in reap'[r].found
             PROVE  kid'[k].state # "unborn"
  BY DEF FoundInv
<1>1. KidsOK /\ ReapsOK /\ FoundInv /\ ReapsOK'
  BY StepTInv DEF TInv, SpareInv
<1>2. k \in Kids
  BY <1>1 DEF ReapsOK, Reaps
<1>3. kid[k].state # "unborn" => kid'[k].state # "unborn"
  BY <1>1, <1>2, KidsStay
<1>4. CASE reap'[r] = reap[r]
  BY <1>1, <1>3, <1>4 DEF FoundInv
<1>5. ASSUME NEW s \in Sessions, NEW q \in Stops, Stop(s, q)
      PROVE  reap'[r] = reap[r] \/ kid[k].state # "unborn"
  <2>1. CASE q = r
    <3>1. k \in Descendants(reg[s])
      BY <1>5, <2>1, StopFinds
    <3> QED
      BY <3>1 DEF Descendants
  <2>2. CASE q # r
    BY <1>1, <1>5, <2>2 DEF Stop, ReapsOK
  <2> QED
    BY <2>1, <2>2
<1>6. ASSUME NEW q \in Stops, ReapTerm(q)
      PROVE  reap'[r] = reap[r] \/ kid[k].state # "unborn"
  <2>1. CASE q = r
    <3>1. k \in Survivors(r)
      BY <1>1, <1>6, <2>1, TermMeans
    <3> QED
      BY <1>6, <2>1, <3>1, SurvivorsAreGuilty DEF Guilty
  <2>2. CASE q # r
    BY <1>1, <1>6, <2>2, TermMeans
  <2> QED
    BY <2>1, <2>2
<1>7. ASSUME NEW q \in Stops, ReapKill(q)
      PROVE  reap'[r] = reap[r]
  BY <1>1, <1>7 DEF ReapKill, ReapsOK, Reaps
<1> QED
  BY <1>3, <1>4, <1>5, <1>6, <1>7, WhoReaps

\* Only survivors of a reap are signalled.
LEMMA HitsKeep ==
  ASSUME IInv, TInv, SpareInv, [Next]_vars
  PROVE  HitsInv'
<1> SUFFICES ASSUME NEW h \in hits', NEW e, e = reap'[h.reap]
             PROVE  e.pc \in {"term", "done"} /\ Guilty(h.kid, e)'
  BY DEF HitsInv, Guilty
<1>1. KidsOK /\ ReapsOK /\ ReapsOK'
  BY StepTInv DEF TInv
<1> DEFINE r == h.reap
           k == h.kid
<1>2. r \in Stops /\ k \in Kids /\ e = reap'[r]
  BY <1>1 DEF ReapsOK
<1> HIDE DEF r, k
<1>3. ASSUME Guilty(k, reap[r]), e.begun = reap[r].begun, e.turn = reap[r].turn
      PROVE  Guilty(k, e)'
  <2>1. Guilty(k, e)
    BY <1>3 DEF Guilty
  <2> QED
    BY <1>1, <1>2, <2>1, GuiltStays
<1>4. CASE h \in hits
  <2>1. reap[r].pc \in {"term", "done"} /\ Guilty(k, reap[r])
    BY <1>4 DEF SpareInv, HitsInv, r, k
  <2>2. /\ reap'[r].begun = reap[r].begun /\ reap'[r].turn = reap[r].turn
        /\ reap'[r].pc \in {"term", "done"}
    <3>1. ASSUME NEW s \in Sessions, NEW q \in Stops, Stop(s, q)
          PROVE  reap'[r] = reap[r]
      BY <1>1, <1>2, <2>1, <3>1 DEF Stop, ReapsOK
    <3>2. ASSUME NEW q \in Stops, ReapTerm(q)
          PROVE  reap'[r] = reap[r]
      <4>1. q # r
        BY <2>1, <3>2 DEF ReapTerm
      <4> QED
        BY <1>1, <1>2, <3>2, <4>1, TermMeans
    <3>3. ASSUME NEW q \in Stops, ReapKill(q)
          PROVE  /\ reap'[r].begun = reap[r].begun /\ reap'[r].turn = reap[r].turn
                 /\ reap'[r].pc \in {"term", "done"}
      BY <1>1, <1>2, <2>1, <3>3 DEF ReapKill, ReapsOK, Reaps
    <3> QED
      BY <2>1, <3>1, <3>2, <3>3, WhoReaps
  <2> QED
    BY <1>2, <1>3, <2>1, <2>2 DEF r, k
<1>5. CASE h \notin hits
  <2>1. ReapTerm(r) /\ k \in Survivors(r)
    <3>1. PICK q \in Stops : ReapTerm(q)
      BY <1>5, WhoReaps DEF Stop, ReapKill
    <3>2. h \in {[kid |-> j, reap |-> q] : j \in Survivors(q)}
      BY <1>1, <1>5, <3>1, TermMeans
    <3> QED
      BY <3>1, <3>2 DEF r, k
  <2>2. /\ reap'[r].begun = reap[r].begun /\ reap'[r].turn = reap[r].turn
        /\ reap'[r].pc \in {"term", "done"}
    BY <1>1, <1>2, <2>1, TermMeans
  <2>3. Guilty(k, reap[r])
    BY <1>2, <2>1, SurvivorsAreGuilty
  <2> QED
    BY <1>2, <1>3, <2>2, <2>3 DEF r, k
<1> QED
  BY <1>4, <1>5

\* A stop signals no process that was there before the stopped Turn began, and none of a
\* later Turn, whatever the tools start, fork and leave behind, whichever Turns follow while
\* the reap waits, and however often workers die and are replaced (manager.py
\* reap_stop_orphans); a stop before the first line of its Turn is the exception.
THEOREM InnocentAlways == Spec => []InnocentSpared
<1>1. Init => IInv /\ TInv /\ SpareInv
  BY InitIInv, InitTInv, InitSpareInv
<1>2. IInv /\ TInv /\ SpareInv /\ [Next]_vars => IInv' /\ TInv' /\ SpareInv'
  <2> SUFFICES ASSUME IInv, TInv, SpareInv, [Next]_vars
               PROVE  IInv' /\ TInv' /\ SpareInv'
    OBVIOUS
  <2>1. IInv' /\ TInv'
    BY StepIInv, StepTInv
  <2>2. SpareInv'
    BY BaselinedKeeps, GraceKeeps, FoundKeeps, HitsKeep DEF SpareInv
  <2> QED
    BY <2>1, <2>2
<1>3. SpareInv => InnocentSpared
  BY DEF SpareInv, HitsInv, Guilty, InnocentSpared
<1> QED
  BY <1>1, <1>2, <1>3, PTL DEF Spec
=============================================================================
