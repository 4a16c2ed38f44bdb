-------------------------- MODULE MaintenanceProofs --------------------------
(* Theorems about Maintenance, for every set of Runs and of clients: whatever is deleted,  *)
(* exported, written, swept or interrupted, references resolve, live Turns keep what they  *)
(* need, and an export that was to precede a deletion does.                                *)
EXTENDS Maintenance, FiniteSetTheorems, TLAPS

\* Where the Turn is, as the tables see it.
Turning ==
  /\ turn.pc # "idle" => turn.run \in Runs /\ session
  /\ turn.pc = "starting" => status[turn.run] = "none"
  /\ turn.pc = "running" => status[turn.run] = "running"
  /\ worker => session

\* A call that holds the lock of the Session keeps Turns and, past its second step, the
\* worker away; whoever works in the database thread has it to itself.
Locking ==
  \A c \in Clients :
    /\ call[c].pc \in {"guard", "stops", "deletes"} => call[c].kind \in Guarded
    /\ call[c].pc \in {"renames", "syncs"} => call[c].kind \in {"export", "exportDelete"}
    /\ call[c].kind \in Guarded /\ call[c].pc \notin {"idle", "guard"} => turn.pc = "idle"
    /\ call[c].kind \in Guarded /\ call[c].pc \notin {"idle", "guard", "stops"} => ~worker
    /\ call[c].kind = "run" => call[c].run \in Runs
    /\ call[c].pc \in {"renames", "syncs", "deletes", "purges"} => thread = c
    /\ thread = c => call[c].pc \in {"renames", "syncs", "deletes", "purges"}
    /\ ~call[c].heard => thread = c

\* The export of a call that goes on to delete is there to stay.
Exporting ==
  /\ by # "nobody" => ~session
  /\ \A c \in Clients :
       /\ call[c].pc \in {"renames", "syncs", "deletes"} => session
       /\ call[c].pc = "deletes" => call[c].kind = "exportDelete" /\ export = "durable"

\* What a call has still to remove has no row any more.
Purging ==
  \A c \in Clients :
    /\ \A i \in DOMAIN call[c].todo : Deleted(call[c].todo[i])
    /\ call[c].pc # "purges" => call[c].items = {} /\ call[c].todo = <<>>

\* The payload of a Run, its writer and the sweep.
Payloads ==
  \A r \in Runs :
    /\ r \in refs => status[r] \notin {"none", "deleted"}
    /\ writer[r] # "none" => status[r] \in {"running", "ended", "deleted"}
    /\ writer[r] = "refers" /\ status[r] # "deleted" => disk[r] = "whole"
    /\ r \in sweep.todo => status[r] \in {"expired", "deleted"}

\* The inductive invariant.
IInv ==
  /\ TypeOK /\ Turning /\ Locking /\ Exporting /\ Purging /\ Payloads
  /\ RefsResolve /\ LiveTurnKept /\ ExportFirst

USE MaintenanceAssumption

-----------------------------------------------------------------------------
\* SetToSeq lists a finite set.
LEMMA ListOfSet ==
  ASSUME NEW S, IsFiniteSet(S)
  PROVE  SetToSeq(S) \in Seq(S)
<1>1. /\ Cardinality(S) \in Nat
      /\ ExistsBijection(1..Cardinality(S), S)
  BY FS_CardinalityType, Zenon
<1>2. PICK f \in Bijection(1..Cardinality(S), S) : TRUE
  BY <1>1, Zenon DEF ExistsBijection
<1>3. f \in [1..Cardinality(S) -> S] /\ IsInjective(f)
  BY <1>2, Zenon DEF Bijection, Injection
<1>4. SetToSeq(S) \in [1..Cardinality(S) -> S]
  BY <1>3, Zenon DEF SetToSeq
<1> QED
  BY <1>1, <1>4, SMT

\* What delete_session has to remove: Runs of its own, then the home.
LEMMA ListOfSession ==
  ASSUME NEW S \in SUBSET Runs
  PROVE  SetToSeq(S) \o <<"home">> \in Seq(S \cup {"home"})
<1>1. SetToSeq(S) \in Seq(S)
  BY ListOfSet, FS_Subset, Zenon
<1> QED
  BY <1>1, SMT

-----------------------------------------------------------------------------
\* A request that goes on, or has one thing less to remove, is a request.
LEMMA RequestMoves ==
  ASSUME NEW q \in Requests,
         NEW pc \in {"idle", "guard", "stops", "ready", "renames", "syncs", "deletes", "purges"}
  PROVE  /\ [q EXCEPT !.pc = pc] \in Requests
         /\ [q EXCEPT !.pc = pc].pc = pc /\ [q EXCEPT !.pc = pc].kind = q.kind
         /\ [q EXCEPT !.pc = pc].run = q.run /\ [q EXCEPT !.pc = pc].items = q.items
         /\ [q EXCEPT !.pc = pc].todo = q.todo /\ [q EXCEPT !.pc = pc].heard = q.heard
BY SMT DEF Requests

\* No request.
LEMMA IdleRequest == Idle \in Requests
<1>1. <<>> \in Seq(Items)
  BY SMT
<1> QED
  BY <1>1, Zenon DEF Idle, Requests

\* A request that has just come.
LEMMA NewRequest ==
  ASSUME NEW r \in Runs \cup {NoRun}, NEW pc \in {"guard", "ready"},
         NEW kind \in {"session", "exportDelete", "run", "project", "export"}
  PROVE  [Idle EXCEPT !.pc = pc, !.kind = kind, !.run = r] \in Requests
<1>1. <<>> \in Seq(Items)
  BY SMT
<1> QED
  BY <1>1, Zenon DEF Idle, Requests

\* A call gets a list of what to remove, or has one thing less on it.
LEMMA RequestPurges ==
  ASSUME NEW q \in Requests, NEW items \in SUBSET Items, NEW todo \in Seq(Items)
  PROVE  /\ [q EXCEPT !.todo = todo] \in Requests
         /\ [q EXCEPT !.pc = "purges", !.items = items, !.todo = todo] \in Requests
<1> DEFINE T == Seq(Items)
           I == SUBSET Items
           R == Runs \cup {NoRun}
           P == {"idle", "guard", "stops", "ready", "renames", "syncs", "deletes", "purges"}
           K == {"none", "session", "exportDelete", "run", "project", "export"}
<1>1. /\ Requests = [pc : P, kind : K, run : R, items : I, todo : T, heard : BOOLEAN]
      /\ todo \in T /\ items \in I /\ "purges" \in P
  BY DEF Requests
<1> HIDE DEF T, I, R, P, K
<1>2. ASSUME NEW p \in Requests PROVE [p EXCEPT !.todo = todo] \in Requests
  BY <1>1, SMT
<1>3. ASSUME NEW p \in Requests PROVE [p EXCEPT !.items = items] \in Requests
  BY <1>1, SMT
<1>4. [q EXCEPT !.pc = "purges"] \in Requests
  BY RequestMoves
<1>5. [[q EXCEPT !.pc = "purges"] EXCEPT !.items = items] \in Requests
  BY <1>3, <1>4
<1>6. [[[q EXCEPT !.pc = "purges"] EXCEPT !.items = items] EXCEPT !.todo = todo] \in Requests
  BY <1>2, <1>5
<1> QED
  BY <1>2, <1>6

\* A call whose client is gone.
LEMMA RequestUnheard ==
  ASSUME NEW q \in Requests
  PROVE  LET u == [q EXCEPT !.heard = FALSE] IN
         /\ u \in Requests
         /\ u.pc = q.pc /\ u.kind = q.kind /\ u.run = q.run
         /\ u.items = q.items /\ u.todo = q.todo
<1> DEFINE T == Seq(Items)
           I == SUBSET Items
           R == Runs \cup {NoRun}
           P == {"idle", "guard", "stops", "ready", "renames", "syncs", "deletes", "purges"}
           K == {"none", "session", "exportDelete", "run", "project", "export"}
           B == BOOLEAN
           no == FALSE
<1>1. Requests = [pc : P, kind : K, run : R, items : I, todo : T, heard : B] /\ no \in B
  BY DEF Requests
<1> HIDE DEF T, I, R, P, K, B, no
<1>2. [q EXCEPT !.heard = no] \in Requests
  BY <1>1, SMT
<1>3. LET u == [q EXCEPT !.heard = no] IN
      u.pc = q.pc /\ u.kind = q.kind /\ u.run = q.run /\ u.items = q.items /\ u.todo = q.todo
  BY <1>1, SMT
<1> QED
  BY <1>2, <1>3 DEF no

\* A call that goes on leaves the calls well typed.
LEMMA CallMoves ==
  ASSUME call \in [Clients -> Requests], NEW c \in Clients,
         NEW pc \in {"idle", "guard", "stops", "ready", "renames", "syncs", "deletes", "purges"},
         call' = [call EXCEPT ![c].pc = pc]
  PROVE  call' \in [Clients -> Requests]
<1>1. [call[c] EXCEPT !.pc = pc] \in Requests
  BY RequestMoves, Zenon
<1> QED
  BY <1>1, SMT

\* The sweep goes on to the next Run.
LEMMA SweepMoves ==
  ASSUME NEW s \in [pc : {"sleeps", "next", "clears"}, todo : SUBSET Runs,
                    run : Runs \cup {NoRun}]
  PROVE  [s EXCEPT !.pc = "next", !.run = NoRun]
           \in [pc : {"sleeps", "next", "clears"}, todo : SUBSET Runs,
                run : Runs \cup {NoRun}]
<1> DEFINE T == SUBSET Runs
           R == Runs \cup {NoRun}
           S == [pc : {"sleeps", "next", "clears"}, todo : T, run : R]
<1>1. NoRun \in R /\ s \in S
  OBVIOUS
<1> HIDE DEF T, R
<1>2. ASSUME NEW p \in S PROVE [p EXCEPT !.run = NoRun] \in S
  BY <1>1, SMT
<1>3. [s EXCEPT !.pc = "next"] \in S
  BY <1>1, SMT
<1>4. [[s EXCEPT !.pc = "next"] EXCEPT !.run = NoRun] \in S
  BY <1>2, <1>3, Zenon
<1> QED
  BY <1>4 DEF T, R

\* The invariant holds when the database is empty.
LEMMA InitIInv == Init => IInv
<1> SUFFICES ASSUME Init PROVE IInv
  OBVIOUS
<1> USE DEF Init
<1>1. TypeOK
  <2>1. call \in [Clients -> Requests]
    BY IdleRequest, SMT
  <2>2. session \in BOOLEAN /\ project \in BOOLEAN /\ worker \in BOOLEAN
    BY Zenon
  <2> QED
    BY <2>1, <2>2, SMT DEF TypeOK, Items
<1>2. Turning /\ Locking /\ Exporting /\ Payloads
  BY SMT DEF Turning, Locking, Exporting, Payloads, Guarded, Idle
<1>3. Purging
  BY SMT DEF Purging, Idle
<1>4. RefsResolve /\ LiveTurnKept /\ ExportFirst
  BY SMT DEF RefsResolve, LiveTurnKept, ExportFirst
<1> QED
  BY <1>1, <1>2, <1>3, <1>4, Zenon DEF IInv

\* A Turn begins only in a Session that is there and not locked.
LEMMA TurnStartsStep ==
  ASSUME IInv, NEW r \in Runs, TurnStarts(r)
  PROVE  IInv'
<1> USE DEF IInv, TurnStarts, rows, history, untold
<1>1. TypeOK'
  BY SMT DEF TypeOK, Turning, Items, Locked
<1>2. Turning'
  BY SMT DEF TypeOK, Requests, Turning, Locking, Exporting, Purging, Payloads,
     RefsResolve, LiveTurnKept, ExportFirst, Deleted, Guarded, Items, Locked
<1>3. Locking'
  BY SMT DEF TypeOK, Requests, Turning, Locking, Exporting, Purging, Payloads,
     RefsResolve, LiveTurnKept, ExportFirst, Deleted, Guarded, Items, Locked
<1>4. Exporting'
  BY SMT DEF TypeOK, Requests, Turning, Locking, Exporting, Purging, Payloads,
     RefsResolve, LiveTurnKept, ExportFirst, Deleted, Guarded, Items, Locked
<1>5. Purging'
  BY SMT DEF TypeOK, Requests, Turning, Locking, Exporting, Purging, Payloads,
     RefsResolve, LiveTurnKept, ExportFirst, Deleted, Guarded, Items, Locked
<1>6. Payloads'
  BY SMT DEF TypeOK, Requests, Turning, Locking, Exporting, Purging, Payloads,
     RefsResolve, LiveTurnKept, ExportFirst, Deleted, Guarded, Items, Locked
<1>7. RefsResolve'
  BY SMT DEF TypeOK, Requests, Turning, Locking, Exporting, Purging, Payloads,
     RefsResolve, LiveTurnKept, ExportFirst, Deleted, Guarded, Items, Locked
<1>8. LiveTurnKept'
  BY SMT DEF TypeOK, Requests, Turning, Locking, Exporting, Purging, Payloads,
     RefsResolve, LiveTurnKept, ExportFirst, Deleted, Guarded, Items, Locked
<1>9. ExportFirst'
  BY SMT DEF TypeOK, Requests, Turning, Locking, Exporting, Purging, Payloads,
     RefsResolve, LiveTurnKept, ExportFirst, Deleted, Guarded, Items, Locked
<1> QED
  BY <1>1, <1>2, <1>3, <1>4, <1>5, <1>6, <1>7, <1>8, <1>9, Zenon

\* A late payload may bring a directory back, which takes nothing from a live Turn.
LEMMA WriteFileStep ==
  ASSUME IInv, NEW r \in Runs, WriteFile(r)
  PROVE  IInv'
<1> USE DEF IInv, WriteFile, rows, history, untold
<1>1. TypeOK'
  BY SMT DEF TypeOK, Turning, Items
<1>2. Turning'
  BY SMT DEF TypeOK, Requests, Turning, Locking, Exporting, Purging, Payloads,
     RefsResolve, LiveTurnKept, ExportFirst, Deleted, Guarded, Items
<1>3. Locking'
  BY SMT DEF TypeOK, Requests, Turning, Locking, Exporting, Purging, Payloads,
     RefsResolve, LiveTurnKept, ExportFirst, Deleted, Guarded, Items
<1>4. Exporting'
  BY SMT DEF TypeOK, Requests, Turning, Locking, Exporting, Purging, Payloads,
     RefsResolve, LiveTurnKept, ExportFirst, Deleted, Guarded, Items
<1>5. Purging'
  BY SMT DEF TypeOK, Requests, Turning, Locking, Exporting, Purging, Payloads,
     RefsResolve, LiveTurnKept, ExportFirst, Deleted, Guarded, Items
<1>6. Payloads'
  BY SMT DEF TypeOK, Requests, Turning, Locking, Exporting, Purging, Payloads,
     RefsResolve, LiveTurnKept, ExportFirst, Deleted, Guarded, Items
<1>7. RefsResolve'
  BY SMT DEF TypeOK, Requests, Turning, Locking, Exporting, Purging, Payloads,
     RefsResolve, LiveTurnKept, ExportFirst, Deleted, Guarded, Items
<1>8. LiveTurnKept'
  BY SMT DEF TypeOK, Requests, Turning, Locking, Exporting, Purging, Payloads,
     RefsResolve, LiveTurnKept, ExportFirst, Deleted, Guarded, Items
<1>9. ExportFirst'
  BY SMT DEF TypeOK, Requests, Turning, Locking, Exporting, Purging, Payloads,
     RefsResolve, LiveTurnKept, ExportFirst, Deleted, Guarded, Items
<1> QED
  BY <1>1, <1>2, <1>3, <1>4, <1>5, <1>6, <1>7, <1>8, <1>9, Zenon

\* The reference comes after the file, which nobody took in between.
LEMMA WriteRefStep ==
  ASSUME IInv, NEW r \in Runs, WriteRef(r)
  PROVE  IInv'
<1> USE DEF IInv, WriteRef, rows, history, untold
<1>1. TypeOK'
  BY SMT DEF TypeOK, Turning, Items
<1>2. Turning'
  BY SMT DEF TypeOK, Requests, Turning, Locking, Exporting, Purging, Payloads,
     RefsResolve, LiveTurnKept, ExportFirst, Deleted, Guarded, Items
<1>3. Locking'
  BY SMT DEF TypeOK, Requests, Turning, Locking, Exporting, Purging, Payloads,
     RefsResolve, LiveTurnKept, ExportFirst, Deleted, Guarded, Items
<1>4. Exporting'
  BY SMT DEF TypeOK, Requests, Turning, Locking, Exporting, Purging, Payloads,
     RefsResolve, LiveTurnKept, ExportFirst, Deleted, Guarded, Items
<1>5. Purging'
  BY SMT DEF TypeOK, Requests, Turning, Locking, Exporting, Purging, Payloads,
     RefsResolve, LiveTurnKept, ExportFirst, Deleted, Guarded, Items
<1>6. Payloads'
  BY SMT DEF TypeOK, Requests, Turning, Locking, Exporting, Purging, Payloads,
     RefsResolve, LiveTurnKept, ExportFirst, Deleted, Guarded, Items
<1>7. RefsResolve'
  BY SMT DEF TypeOK, Requests, Turning, Locking, Exporting, Purging, Payloads,
     RefsResolve, LiveTurnKept, ExportFirst, Deleted, Guarded, Items
<1>8. LiveTurnKept'
  BY SMT DEF TypeOK, Requests, Turning, Locking, Exporting, Purging, Payloads,
     RefsResolve, LiveTurnKept, ExportFirst, Deleted, Guarded, Items
<1>9. ExportFirst'
  BY SMT DEF TypeOK, Requests, Turning, Locking, Exporting, Purging, Payloads,
     RefsResolve, LiveTurnKept, ExportFirst, Deleted, Guarded, Items
<1> QED
  BY <1>1, <1>2, <1>3, <1>4, <1>5, <1>6, <1>7, <1>8, <1>9, Zenon

\* A Run expires when its Turn and its writer are done with it.
LEMMA ExpiresStep ==
  ASSUME IInv, NEW r \in Runs, Expires(r)
  PROVE  IInv'
<1> USE DEF IInv, Expires, rows, history, untold
<1>1. TypeOK'
  BY SMT DEF TypeOK, Turning, Items
<1>2. Turning'
  BY SMT DEF TypeOK, Requests, Turning, Locking, Exporting, Purging, Payloads,
     RefsResolve, LiveTurnKept, ExportFirst, Deleted, Guarded, Items
<1>3. Locking'
  BY SMT DEF TypeOK, Requests, Turning, Locking, Exporting, Purging, Payloads,
     RefsResolve, LiveTurnKept, ExportFirst, Deleted, Guarded, Items
<1>4. Exporting'
  BY SMT DEF TypeOK, Requests, Turning, Locking, Exporting, Purging, Payloads,
     RefsResolve, LiveTurnKept, ExportFirst, Deleted, Guarded, Items
<1>5. Purging'
  BY SMT DEF TypeOK, Requests, Turning, Locking, Exporting, Purging, Payloads,
     RefsResolve, LiveTurnKept, ExportFirst, Deleted, Guarded, Items
<1>6. Payloads'
  BY SMT DEF TypeOK, Requests, Turning, Locking, Exporting, Purging, Payloads,
     RefsResolve, LiveTurnKept, ExportFirst, Deleted, Guarded, Items
<1>7. RefsResolve'
  BY SMT DEF TypeOK, Requests, Turning, Locking, Exporting, Purging, Payloads,
     RefsResolve, LiveTurnKept, ExportFirst, Deleted, Guarded, Items
<1>8. LiveTurnKept'
  BY SMT DEF TypeOK, Requests, Turning, Locking, Exporting, Purging, Payloads,
     RefsResolve, LiveTurnKept, ExportFirst, Deleted, Guarded, Items
<1>9. ExportFirst'
  BY SMT DEF TypeOK, Requests, Turning, Locking, Exporting, Purging, Payloads,
     RefsResolve, LiveTurnKept, ExportFirst, Deleted, Guarded, Items
<1> QED
  BY <1>1, <1>2, <1>3, <1>4, <1>5, <1>6, <1>7, <1>8, <1>9, Zenon

\* The sweep removes the payload of expired or deleted Runs only.
LEMMA SweepPurgeStep ==
  ASSUME IInv, NEW r \in Runs, SweepPurge(r)
  PROVE  IInv'
<1> USE DEF IInv, SweepPurge, rows, history, untold
<1>1. TypeOK'
  BY SMT DEF TypeOK, Turning, Items
<1>2. Turning'
  BY SMT DEF TypeOK, Requests, Turning, Locking, Exporting, Purging, Payloads,
     RefsResolve, LiveTurnKept, ExportFirst, Deleted, Guarded, Items
<1>3. Locking'
  BY SMT DEF TypeOK, Requests, Turning, Locking, Exporting, Purging, Payloads,
     RefsResolve, LiveTurnKept, ExportFirst, Deleted, Guarded, Items
<1>4. Exporting'
  BY SMT DEF TypeOK, Requests, Turning, Locking, Exporting, Purging, Payloads,
     RefsResolve, LiveTurnKept, ExportFirst, Deleted, Guarded, Items
<1>5. Purging'
  BY SMT DEF TypeOK, Requests, Turning, Locking, Exporting, Purging, Payloads,
     RefsResolve, LiveTurnKept, ExportFirst, Deleted, Guarded, Items
<1>6. Payloads'
  BY SMT DEF TypeOK, Requests, Turning, Locking, Exporting, Purging, Payloads,
     RefsResolve, LiveTurnKept, ExportFirst, Deleted, Guarded, Items
<1>7. RefsResolve'
  BY SMT DEF TypeOK, Requests, Turning, Locking, Exporting, Purging, Payloads,
     RefsResolve, LiveTurnKept, ExportFirst, Deleted, Guarded, Items
<1>8. LiveTurnKept'
  BY SMT DEF TypeOK, Requests, Turning, Locking, Exporting, Purging, Payloads,
     RefsResolve, LiveTurnKept, ExportFirst, Deleted, Guarded, Items
<1>9. ExportFirst'
  BY SMT DEF TypeOK, Requests, Turning, Locking, Exporting, Purging, Payloads,
     RefsResolve, LiveTurnKept, ExportFirst, Deleted, Guarded, Items
<1> QED
  BY <1>1, <1>2, <1>3, <1>4, <1>5, <1>6, <1>7, <1>8, <1>9, Zenon

\* Half a payload is left only of an expired or a deleted Run.
LEMMA SweepPurgeFailsStep ==
  ASSUME IInv, NEW r \in Runs, SweepPurgeFails(r)
  PROVE  IInv'
<1> USE DEF IInv, SweepPurgeFails, rows, history, untold
<1>1. TypeOK'
  BY SMT DEF TypeOK, Turning, Items, Fault
<1>2. Turning'
  BY SMT DEF TypeOK, Requests, Turning, Locking, Exporting, Purging, Payloads,
     RefsResolve, LiveTurnKept, ExportFirst, Deleted, Guarded, Items, Fault
<1>3. Locking'
  BY SMT DEF TypeOK, Requests, Turning, Locking, Exporting, Purging, Payloads,
     RefsResolve, LiveTurnKept, ExportFirst, Deleted, Guarded, Items, Fault
<1>4. Exporting'
  BY SMT DEF TypeOK, Requests, Turning, Locking, Exporting, Purging, Payloads,
     RefsResolve, LiveTurnKept, ExportFirst, Deleted, Guarded, Items, Fault
<1>5. Purging'
  BY SMT DEF TypeOK, Requests, Turning, Locking, Exporting, Purging, Payloads,
     RefsResolve, LiveTurnKept, ExportFirst, Deleted, Guarded, Items, Fault
<1>6. Payloads'
  BY SMT DEF TypeOK, Requests, Turning, Locking, Exporting, Purging, Payloads,
     RefsResolve, LiveTurnKept, ExportFirst, Deleted, Guarded, Items, Fault
<1>7. RefsResolve'
  BY SMT DEF TypeOK, Requests, Turning, Locking, Exporting, Purging, Payloads,
     RefsResolve, LiveTurnKept, ExportFirst, Deleted, Guarded, Items, Fault
<1>8. LiveTurnKept'
  BY SMT DEF TypeOK, Requests, Turning, Locking, Exporting, Purging, Payloads,
     RefsResolve, LiveTurnKept, ExportFirst, Deleted, Guarded, Items, Fault
<1>9. ExportFirst'
  BY SMT DEF TypeOK, Requests, Turning, Locking, Exporting, Purging, Payloads,
     RefsResolve, LiveTurnKept, ExportFirst, Deleted, Guarded, Items, Fault
<1> QED
  BY <1>1, <1>2, <1>3, <1>4, <1>5, <1>6, <1>7, <1>8, <1>9, Zenon

\* The Run's row is written and the home made in a Session that is still there.
LEMMA TurnRunsStep ==
  ASSUME IInv, TurnRuns
  PROVE  IInv'
<1> USE DEF IInv, TurnRuns, rows, history, untold
<1>1. TypeOK'
  BY SMT DEF TypeOK, Turning, Items
<1>2. Turning'
  BY SMT DEF TypeOK, Requests, Turning, Locking, Exporting, Purging, Payloads,
     RefsResolve, LiveTurnKept, ExportFirst, Deleted, Guarded, Items
<1>3. Locking'
  BY SMT DEF TypeOK, Requests, Turning, Locking, Exporting, Purging, Payloads,
     RefsResolve, LiveTurnKept, ExportFirst, Deleted, Guarded, Items
<1>4. Exporting'
  BY SMT DEF TypeOK, Requests, Turning, Locking, Exporting, Purging, Payloads,
     RefsResolve, LiveTurnKept, ExportFirst, Deleted, Guarded, Items
<1>5. Purging'
  BY SMT DEF TypeOK, Requests, Turning, Locking, Exporting, Purging, Payloads,
     RefsResolve, LiveTurnKept, ExportFirst, Deleted, Guarded, Items
<1>6. Payloads'
  BY SMT DEF TypeOK, Requests, Turning, Locking, Exporting, Purging, Payloads,
     RefsResolve, LiveTurnKept, ExportFirst, Deleted, Guarded, Items
<1>7. RefsResolve'
  BY SMT DEF TypeOK, Requests, Turning, Locking, Exporting, Purging, Payloads,
     RefsResolve, LiveTurnKept, ExportFirst, Deleted, Guarded, Items
<1>8. LiveTurnKept'
  BY SMT DEF TypeOK, Requests, Turning, Locking, Exporting, Purging, Payloads,
     RefsResolve, LiveTurnKept, ExportFirst, Deleted, Guarded, Items
<1>9. ExportFirst'
  BY SMT DEF TypeOK, Requests, Turning, Locking, Exporting, Purging, Payloads,
     RefsResolve, LiveTurnKept, ExportFirst, Deleted, Guarded, Items
<1> QED
  BY <1>1, <1>2, <1>3, <1>4, <1>5, <1>6, <1>7, <1>8, <1>9, Zenon

\* The Run is settled while the Turn is still in memory.
LEMMA TurnSettlesStep ==
  ASSUME IInv, TurnSettles
  PROVE  IInv'
<1> USE DEF IInv, TurnSettles, rows, history, untold
<1>1. TypeOK'
  BY SMT DEF TypeOK, Turning, Items
<1>2. Turning'
  BY SMT DEF TypeOK, Requests, Turning, Locking, Exporting, Purging, Payloads,
     RefsResolve, LiveTurnKept, ExportFirst, Deleted, Guarded, Items
<1>3. Locking'
  BY SMT DEF TypeOK, Requests, Turning, Locking, Exporting, Purging, Payloads,
     RefsResolve, LiveTurnKept, ExportFirst, Deleted, Guarded, Items
<1>4. Exporting'
  BY SMT DEF TypeOK, Requests, Turning, Locking, Exporting, Purging, Payloads,
     RefsResolve, LiveTurnKept, ExportFirst, Deleted, Guarded, Items
<1>5. Purging'
  BY SMT DEF TypeOK, Requests, Turning, Locking, Exporting, Purging, Payloads,
     RefsResolve, LiveTurnKept, ExportFirst, Deleted, Guarded, Items
<1>6. Payloads'
  BY SMT DEF TypeOK, Requests, Turning, Locking, Exporting, Purging, Payloads,
     RefsResolve, LiveTurnKept, ExportFirst, Deleted, Guarded, Items
<1>7. RefsResolve'
  BY SMT DEF TypeOK, Requests, Turning, Locking, Exporting, Purging, Payloads,
     RefsResolve, LiveTurnKept, ExportFirst, Deleted, Guarded, Items
<1>8. LiveTurnKept'
  BY SMT DEF TypeOK, Requests, Turning, Locking, Exporting, Purging, Payloads,
     RefsResolve, LiveTurnKept, ExportFirst, Deleted, Guarded, Items
<1>9. ExportFirst'
  BY SMT DEF TypeOK, Requests, Turning, Locking, Exporting, Purging, Payloads,
     RefsResolve, LiveTurnKept, ExportFirst, Deleted, Guarded, Items
<1> QED
  BY <1>1, <1>2, <1>3, <1>4, <1>5, <1>6, <1>7, <1>8, <1>9, Zenon

\* A Turn leaves when nobody holds the lock.
LEMMA TurnEndsStep ==
  ASSUME IInv, TurnEnds
  PROVE  IInv'
<1> USE DEF IInv, TurnEnds, rows, history, untold
<1>1. TypeOK'
  BY SMT DEF TypeOK, Turning, Items
<1>2. Turning'
  BY SMT DEF TypeOK, Requests, Turning, Locking, Exporting, Purging, Payloads,
     RefsResolve, LiveTurnKept, ExportFirst, Deleted, Guarded, Items
<1>3. Locking'
  BY SMT DEF TypeOK, Requests, Turning, Locking, Exporting, Purging, Payloads,
     RefsResolve, LiveTurnKept, ExportFirst, Deleted, Guarded, Items
<1>4. Exporting'
  BY SMT DEF TypeOK, Requests, Turning, Locking, Exporting, Purging, Payloads,
     RefsResolve, LiveTurnKept, ExportFirst, Deleted, Guarded, Items
<1>5. Purging'
  BY SMT DEF TypeOK, Requests, Turning, Locking, Exporting, Purging, Payloads,
     RefsResolve, LiveTurnKept, ExportFirst, Deleted, Guarded, Items
<1>6. Payloads'
  BY SMT DEF TypeOK, Requests, Turning, Locking, Exporting, Purging, Payloads,
     RefsResolve, LiveTurnKept, ExportFirst, Deleted, Guarded, Items
<1>7. RefsResolve'
  BY SMT DEF TypeOK, Requests, Turning, Locking, Exporting, Purging, Payloads,
     RefsResolve, LiveTurnKept, ExportFirst, Deleted, Guarded, Items
<1>8. LiveTurnKept'
  BY SMT DEF TypeOK, Requests, Turning, Locking, Exporting, Purging, Payloads,
     RefsResolve, LiveTurnKept, ExportFirst, Deleted, Guarded, Items
<1>9. ExportFirst'
  BY SMT DEF TypeOK, Requests, Turning, Locking, Exporting, Purging, Payloads,
     RefsResolve, LiveTurnKept, ExportFirst, Deleted, Guarded, Items
<1> QED
  BY <1>1, <1>2, <1>3, <1>4, <1>5, <1>6, <1>7, <1>8, <1>9, Zenon

\* The idle reaper.
LEMMA WorkerStopsStep ==
  ASSUME IInv, WorkerStops
  PROVE  IInv'
<1> USE DEF IInv, WorkerStops, rows, history, untold
<1>1. TypeOK'
  <2>1. worker' \in BOOLEAN
    BY Zenon
  <2> QED
    BY <2>1, SMT DEF TypeOK, Turning, Items
<1>2. Turning'
  BY SMT DEF TypeOK, Requests, Turning, Locking, Exporting, Purging, Payloads,
     RefsResolve, LiveTurnKept, ExportFirst, Deleted, Guarded, Items
<1>3. Locking'
  BY SMT DEF TypeOK, Requests, Turning, Locking, Exporting, Purging, Payloads,
     RefsResolve, LiveTurnKept, ExportFirst, Deleted, Guarded, Items
<1>4. Exporting'
  BY SMT DEF TypeOK, Requests, Turning, Locking, Exporting, Purging, Payloads,
     RefsResolve, LiveTurnKept, ExportFirst, Deleted, Guarded, Items
<1>5. Purging'
  BY SMT DEF TypeOK, Requests, Turning, Locking, Exporting, Purging, Payloads,
     RefsResolve, LiveTurnKept, ExportFirst, Deleted, Guarded, Items
<1>6. Payloads'
  BY SMT DEF TypeOK, Requests, Turning, Locking, Exporting, Purging, Payloads,
     RefsResolve, LiveTurnKept, ExportFirst, Deleted, Guarded, Items
<1>7. RefsResolve'
  BY SMT DEF TypeOK, Requests, Turning, Locking, Exporting, Purging, Payloads,
     RefsResolve, LiveTurnKept, ExportFirst, Deleted, Guarded, Items
<1>8. LiveTurnKept'
  BY SMT DEF TypeOK, Requests, Turning, Locking, Exporting, Purging, Payloads,
     RefsResolve, LiveTurnKept, ExportFirst, Deleted, Guarded, Items
<1>9. ExportFirst'
  BY SMT DEF TypeOK, Requests, Turning, Locking, Exporting, Purging, Payloads,
     RefsResolve, LiveTurnKept, ExportFirst, Deleted, Guarded, Items
<1> QED
  BY <1>1, <1>2, <1>3, <1>4, <1>5, <1>6, <1>7, <1>8, <1>9, Zenon

\* The write of a payload begins in a Turn that runs.
LEMMA WriteBeginsStep ==
  ASSUME IInv, WriteBegins
  PROVE  IInv'
<1> USE DEF IInv, WriteBegins, rows, history, untold
<1>1. TypeOK'
  BY SMT DEF TypeOK, Turning, Items
<1>2. Turning'
  BY SMT DEF TypeOK, Requests, Turning, Locking, Exporting, Purging, Payloads,
     RefsResolve, LiveTurnKept, ExportFirst, Deleted, Guarded, Items
<1>3. Locking'
  BY SMT DEF TypeOK, Requests, Turning, Locking, Exporting, Purging, Payloads,
     RefsResolve, LiveTurnKept, ExportFirst, Deleted, Guarded, Items
<1>4. Exporting'
  BY SMT DEF TypeOK, Requests, Turning, Locking, Exporting, Purging, Payloads,
     RefsResolve, LiveTurnKept, ExportFirst, Deleted, Guarded, Items
<1>5. Purging'
  BY SMT DEF TypeOK, Requests, Turning, Locking, Exporting, Purging, Payloads,
     RefsResolve, LiveTurnKept, ExportFirst, Deleted, Guarded, Items
<1>6. Payloads'
  BY SMT DEF TypeOK, Requests, Turning, Locking, Exporting, Purging, Payloads,
     RefsResolve, LiveTurnKept, ExportFirst, Deleted, Guarded, Items
<1>7. RefsResolve'
  BY SMT DEF TypeOK, Requests, Turning, Locking, Exporting, Purging, Payloads,
     RefsResolve, LiveTurnKept, ExportFirst, Deleted, Guarded, Items
<1>8. LiveTurnKept'
  BY SMT DEF TypeOK, Requests, Turning, Locking, Exporting, Purging, Payloads,
     RefsResolve, LiveTurnKept, ExportFirst, Deleted, Guarded, Items
<1>9. ExportFirst'
  BY SMT DEF TypeOK, Requests, Turning, Locking, Exporting, Purging, Payloads,
     RefsResolve, LiveTurnKept, ExportFirst, Deleted, Guarded, Items
<1> QED
  BY <1>1, <1>2, <1>3, <1>4, <1>5, <1>6, <1>7, <1>8, <1>9, Zenon

\* The sweep takes Runs that have expired.
LEMMA SweepListStep ==
  ASSUME IInv, SweepList
  PROVE  IInv'
<1> USE DEF IInv, SweepList, rows, history, untold
<1>1. TypeOK'
  BY SMT DEF TypeOK, Turning, Items
<1>2. Turning'
  BY SMT DEF TypeOK, Requests, Turning, Locking, Exporting, Purging, Payloads,
     RefsResolve, LiveTurnKept, ExportFirst, Deleted, Guarded, Items
<1>3. Locking'
  BY SMT DEF TypeOK, Requests, Turning, Locking, Exporting, Purging, Payloads,
     RefsResolve, LiveTurnKept, ExportFirst, Deleted, Guarded, Items
<1>4. Exporting'
  BY SMT DEF TypeOK, Requests, Turning, Locking, Exporting, Purging, Payloads,
     RefsResolve, LiveTurnKept, ExportFirst, Deleted, Guarded, Items
<1>5. Purging'
  BY SMT DEF TypeOK, Requests, Turning, Locking, Exporting, Purging, Payloads,
     RefsResolve, LiveTurnKept, ExportFirst, Deleted, Guarded, Items
<1>6. Payloads'
  BY SMT DEF TypeOK, Requests, Turning, Locking, Exporting, Purging, Payloads,
     RefsResolve, LiveTurnKept, ExportFirst, Deleted, Guarded, Items
<1>7. RefsResolve'
  BY SMT DEF TypeOK, Requests, Turning, Locking, Exporting, Purging, Payloads,
     RefsResolve, LiveTurnKept, ExportFirst, Deleted, Guarded, Items
<1>8. LiveTurnKept'
  BY SMT DEF TypeOK, Requests, Turning, Locking, Exporting, Purging, Payloads,
     RefsResolve, LiveTurnKept, ExportFirst, Deleted, Guarded, Items
<1>9. ExportFirst'
  BY SMT DEF TypeOK, Requests, Turning, Locking, Exporting, Purging, Payloads,
     RefsResolve, LiveTurnKept, ExportFirst, Deleted, Guarded, Items
<1> QED
  BY <1>1, <1>2, <1>3, <1>4, <1>5, <1>6, <1>7, <1>8, <1>9, Zenon

\* The sweep clears the references of the Run it purged.
LEMMA SweepClearStep ==
  ASSUME IInv, SweepClear
  PROVE  IInv'
<1> USE DEF IInv, SweepClear, rows, history, untold
<1>1. TypeOK'
  <2>1. refs' \subseteq Runs
    BY SMT DEF TypeOK
  <2>2. sweep' \in [pc : {"sleeps", "next", "clears"}, todo : SUBSET Runs,
                   run : Runs \cup {NoRun}]
    BY SweepMoves DEF TypeOK
  <2> QED
    BY <2>1, <2>2, SMT DEF TypeOK
<1>2. Turning'
  BY SMT DEF TypeOK, Requests, Turning, Locking, Exporting, Purging, Payloads,
     RefsResolve, LiveTurnKept, ExportFirst, Deleted, Guarded, Items
<1>3. Locking'
  BY SMT DEF TypeOK, Requests, Turning, Locking, Exporting, Purging, Payloads,
     RefsResolve, LiveTurnKept, ExportFirst, Deleted, Guarded, Items
<1>4. Exporting'
  BY SMT DEF TypeOK, Requests, Turning, Locking, Exporting, Purging, Payloads,
     RefsResolve, LiveTurnKept, ExportFirst, Deleted, Guarded, Items
<1>5. Purging'
  BY SMT DEF TypeOK, Requests, Turning, Locking, Exporting, Purging, Payloads,
     RefsResolve, LiveTurnKept, ExportFirst, Deleted, Guarded, Items
<1>6. Payloads'
  BY SMT DEF TypeOK, Requests, Turning, Locking, Exporting, Purging, Payloads,
     RefsResolve, LiveTurnKept, ExportFirst, Deleted, Guarded, Items
<1>7. RefsResolve'
  BY SMT DEF TypeOK, Requests, Turning, Locking, Exporting, Purging, Payloads,
     RefsResolve, LiveTurnKept, ExportFirst, Deleted, Guarded, Items
<1>8. LiveTurnKept'
  BY SMT DEF TypeOK, Requests, Turning, Locking, Exporting, Purging, Payloads,
     RefsResolve, LiveTurnKept, ExportFirst, Deleted, Guarded, Items
<1>9. ExportFirst'
  BY SMT DEF TypeOK, Requests, Turning, Locking, Exporting, Purging, Payloads,
     RefsResolve, LiveTurnKept, ExportFirst, Deleted, Guarded, Items
<1> QED
  BY <1>1, <1>2, <1>3, <1>4, <1>5, <1>6, <1>7, <1>8, <1>9, Zenon

\* The sweep is over.
LEMMA SweepSleepsStep ==
  ASSUME IInv, SweepSleeps
  PROVE  IInv'
<1> USE DEF IInv, SweepSleeps, rows, history, untold
<1>1. TypeOK'
  BY SMT DEF TypeOK, Turning, Items
<1>2. Turning'
  BY SMT DEF TypeOK, Requests, Turning, Locking, Exporting, Purging, Payloads,
     RefsResolve, LiveTurnKept, ExportFirst, Deleted, Guarded, Items
<1>3. Locking'
  BY SMT DEF TypeOK, Requests, Turning, Locking, Exporting, Purging, Payloads,
     RefsResolve, LiveTurnKept, ExportFirst, Deleted, Guarded, Items
<1>4. Exporting'
  BY SMT DEF TypeOK, Requests, Turning, Locking, Exporting, Purging, Payloads,
     RefsResolve, LiveTurnKept, ExportFirst, Deleted, Guarded, Items
<1>5. Purging'
  BY SMT DEF TypeOK, Requests, Turning, Locking, Exporting, Purging, Payloads,
     RefsResolve, LiveTurnKept, ExportFirst, Deleted, Guarded, Items
<1>6. Payloads'
  BY SMT DEF TypeOK, Requests, Turning, Locking, Exporting, Purging, Payloads,
     RefsResolve, LiveTurnKept, ExportFirst, Deleted, Guarded, Items
<1>7. RefsResolve'
  BY SMT DEF TypeOK, Requests, Turning, Locking, Exporting, Purging, Payloads,
     RefsResolve, LiveTurnKept, ExportFirst, Deleted, Guarded, Items
<1>8. LiveTurnKept'
  BY SMT DEF TypeOK, Requests, Turning, Locking, Exporting, Purging, Payloads,
     RefsResolve, LiveTurnKept, ExportFirst, Deleted, Guarded, Items
<1>9. ExportFirst'
  BY SMT DEF TypeOK, Requests, Turning, Locking, Exporting, Purging, Payloads,
     RefsResolve, LiveTurnKept, ExportFirst, Deleted, Guarded, Items
<1> QED
  BY <1>1, <1>2, <1>3, <1>4, <1>5, <1>6, <1>7, <1>8, <1>9, Zenon

\* delete_guard takes the lock only when no Turn is in memory.
LEMMA GuardStep ==
  ASSUME IInv, NEW c \in Clients, Guard(c)
  PROVE  IInv'
<1> USE DEF IInv, Guard, rows, history, untold
<1>1. TypeOK'
  <2>1. call' \in [Clients -> Requests]
    <3>1. Idle \in Requests
      BY IdleRequest
    <3>2. [call[c] EXCEPT !.pc = "stops"] \in Requests
      BY RequestMoves DEF TypeOK
    <3> QED
      BY <3>1, <3>2, SMT DEF TypeOK
  <2> QED
    BY <2>1, SMT DEF TypeOK, Turning, Items, Locked
<1>2. Turning'
  BY SMT DEF TypeOK, Requests, Turning, Locking, Exporting, Purging, Payloads,
     RefsResolve, LiveTurnKept, ExportFirst, Deleted, Guarded, Items, Locked, Idle
<1>3. Locking'
  BY SMT DEF TypeOK, Requests, Turning, Locking, Exporting, Purging, Payloads,
     RefsResolve, LiveTurnKept, ExportFirst, Deleted, Guarded, Items, Locked, Idle
<1>4. Exporting'
  BY SMT DEF TypeOK, Requests, Turning, Locking, Exporting, Purging, Payloads,
     RefsResolve, LiveTurnKept, ExportFirst, Deleted, Guarded, Items, Locked, Idle
<1>5. Purging'
  BY SMT DEF TypeOK, Requests, Turning, Locking, Exporting, Purging, Payloads,
     RefsResolve, LiveTurnKept, ExportFirst, Deleted, Guarded, Items, Locked, Idle
<1>6. Payloads'
  BY SMT DEF TypeOK, Requests, Turning, Locking, Exporting, Purging, Payloads,
     RefsResolve, LiveTurnKept, ExportFirst, Deleted, Guarded, Items, Locked, Idle
<1>7. RefsResolve'
  BY SMT DEF TypeOK, Requests, Turning, Locking, Exporting, Purging, Payloads,
     RefsResolve, LiveTurnKept, ExportFirst, Deleted, Guarded, Items, Locked, Idle
<1>8. LiveTurnKept'
  BY SMT DEF TypeOK, Requests, Turning, Locking, Exporting, Purging, Payloads,
     RefsResolve, LiveTurnKept, ExportFirst, Deleted, Guarded, Items, Locked, Idle
<1>9. ExportFirst'
  BY SMT DEF TypeOK, Requests, Turning, Locking, Exporting, Purging, Payloads,
     RefsResolve, LiveTurnKept, ExportFirst, Deleted, Guarded, Items, Locked, Idle
<1> QED
  BY <1>1, <1>2, <1>3, <1>4, <1>5, <1>6, <1>7, <1>8, <1>9, Zenon

\* The guard stops the worker, so that a deletion meets none.
LEMMA StopWorkerStep ==
  ASSUME IInv, NEW c \in Clients, StopWorker(c)
  PROVE  IInv'
<1> USE DEF IInv, StopWorker, rows, history, untold
<1>1. TypeOK'
  <2>1. call' \in [Clients -> Requests]
    BY CallMoves DEF TypeOK
  <2>2. worker' \in BOOLEAN
    BY Zenon
  <2> QED
    BY <2>1, <2>2, SMT DEF TypeOK, Turning, Items
<1>2. Turning'
  BY SMT DEF TypeOK, Requests, Turning, Locking, Exporting, Purging, Payloads,
     RefsResolve, LiveTurnKept, ExportFirst, Deleted, Guarded, Items
<1>3. Locking'
  BY SMT DEF TypeOK, Requests, Turning, Locking, Exporting, Purging, Payloads,
     RefsResolve, LiveTurnKept, ExportFirst, Deleted, Guarded, Items
<1>4. Exporting'
  BY SMT DEF TypeOK, Requests, Turning, Locking, Exporting, Purging, Payloads,
     RefsResolve, LiveTurnKept, ExportFirst, Deleted, Guarded, Items
<1>5. Purging'
  BY SMT DEF TypeOK, Requests, Turning, Locking, Exporting, Purging, Payloads,
     RefsResolve, LiveTurnKept, ExportFirst, Deleted, Guarded, Items
<1>6. Payloads'
  BY SMT DEF TypeOK, Requests, Turning, Locking, Exporting, Purging, Payloads,
     RefsResolve, LiveTurnKept, ExportFirst, Deleted, Guarded, Items
<1>7. RefsResolve'
  BY SMT DEF TypeOK, Requests, Turning, Locking, Exporting, Purging, Payloads,
     RefsResolve, LiveTurnKept, ExportFirst, Deleted, Guarded, Items
<1>8. LiveTurnKept'
  BY SMT DEF TypeOK, Requests, Turning, Locking, Exporting, Purging, Payloads,
     RefsResolve, LiveTurnKept, ExportFirst, Deleted, Guarded, Items
<1>9. ExportFirst'
  BY SMT DEF TypeOK, Requests, Turning, Locking, Exporting, Purging, Payloads,
     RefsResolve, LiveTurnKept, ExportFirst, Deleted, Guarded, Items
<1> QED
  BY <1>1, <1>2, <1>3, <1>4, <1>5, <1>6, <1>7, <1>8, <1>9, Zenon

\* A call answered with nothing changed but itself.
LEMMA AnswerStep ==
  ASSUME IInv, NEW c \in Clients, thread \in {c, Nobody}, Answers(c),
         UNCHANGED <<rows, disk, export, worker, turn, writer, sweep, by>>
  PROVE  IInv'
<1> USE DEF IInv, Answers, rows
<1>1. TypeOK'
  <2>1. call' \in [Clients -> Requests]
    BY IdleRequest, SMT DEF TypeOK
  <2> QED
    BY <2>1, SMT DEF TypeOK
<1>2. Turning' /\ Payloads' /\ RefsResolve' /\ LiveTurnKept' /\ ExportFirst'
  BY SMT DEF Turning, Payloads, RefsResolve, LiveTurnKept, ExportFirst
<1>3. Locking'
  BY SMT DEF Locking, TypeOK, Guarded, Idle
<1>4. Exporting'
  BY SMT DEF Exporting, TypeOK, Idle
<1>5. Purging'
  BY SMT DEF Purging, Deleted, TypeOK, Idle
<1> QED
  BY <1>1, <1>2, <1>3, <1>4, <1>5, Zenon

\* The transaction of a deletion: rows go, and what was theirs is to be removed.
LEMMA CommitCall ==
  ASSUME IInv, NEW c \in Clients, NEW items \in SUBSET Items, NEW todo \in Seq(Items),
         Commits(c, items, todo), Begins(c)
  PROVE  /\ call' \in [Clients -> Requests]
         /\ thread' = c
         /\ call'[c].pc = "purges" /\ call'[c].kind = call[c].kind
         /\ call'[c].run = call[c].run /\ call'[c].todo = todo
         /\ call'[c].heard = call[c].heard
         /\ \A d \in Clients \ {c} :
              /\ call'[d] = call[d]
              /\ call[d].pc \notin {"renames", "syncs", "deletes", "purges"}
<1> USE DEF IInv, Commits, Begins
<1>1. call' \in [Clients -> Requests]
  <2>1. [call[c] EXCEPT !.pc = "purges", !.items = items, !.todo = todo] \in Requests
    BY RequestPurges DEF TypeOK
  <2> QED
    BY <2>1, SMT DEF TypeOK
<1>2. /\ thread' = c
      /\ call'[c].pc = "purges" /\ call'[c].kind = call[c].kind
      /\ call'[c].run = call[c].run /\ call'[c].todo = todo
      /\ call'[c].heard = call[c].heard
      /\ \A d \in Clients \ {c} : call'[d] = call[d]
  BY SMT DEF TypeOK, Requests
<1>3. \A d \in Clients \ {c} : call[d].pc \notin {"renames", "syncs", "deletes", "purges"}
  BY SMT DEF Locking
<1> QED
  BY <1>1, <1>2, <1>3, Zenon

\* session.delete, of whichever kind of call.
LEMMA DeleteSessionStep ==
  ASSUME IInv, NEW c \in Clients, DeleteSession(c)
  PROVE  IInv'
<1> DEFINE mine == {r \in Runs : HasRow(r)}
           items == mine \cup {"home"}
           todo == SetToSeq(mine) \o <<"home">>
<1>1. CASE Answers(c) /\ UNCHANGED <<rows, by>>
  BY <1>1, AnswerStep, SMT DEF DeleteSession, Begins, IInv, TypeOK
<1>2. CASE /\ session
           /\ Commits(c, items, todo)
           /\ session' = FALSE
           /\ status' = [r \in Runs |-> "deleted"]
           /\ refs' = {}
           /\ by' = call[c].kind
           /\ UNCHANGED project
  <2> USE DEF IInv
  <2>1. todo \in Seq(items) /\ todo \in Seq(Items) /\ items \in SUBSET Items
    <3>1. todo \in Seq(items)
      BY ListOfSession, Zenon
    <3> QED
      BY <3>1, SMT DEF Items
  <2>2. UNCHANGED <<disk, export, worker, turn, writer, sweep>>
    BY DEF DeleteSession
  <2>3. Begins(c) /\ (call[c].kind = "session" \/ call[c].pc = "deletes")
    BY DEF DeleteSession
  <2> HIDE DEF mine, items, todo
  <2>4. /\ call' \in [Clients -> Requests]
        /\ thread' = c
        /\ call'[c].pc = "purges" /\ call'[c].kind = call[c].kind
        /\ call'[c].run = call[c].run /\ call'[c].todo = todo
        /\ \A d \in Clients \ {c} :
             /\ call'[d] = call[d]
             /\ call[d].pc \notin {"renames", "syncs", "deletes", "purges"}
    BY <1>2, <2>1, <2>3, CommitCall
  <2>5. turn.pc = "idle" /\ ~worker
    BY <2>3, SMT DEF Locking, Begins, Guarded
  <2>6. TypeOK'
    <3>1. session' \in BOOLEAN
      BY <1>2, Zenon
    <3> QED
      BY <1>2, <2>2, <2>4, <3>1, SMT DEF TypeOK
  <2>7. Turning' /\ LiveTurnKept'
    BY <2>2, <2>5, SMT DEF Turning, LiveTurnKept
  <2>8. Locking'
    BY <2>2, <2>4, <2>5, SMT DEF Locking, Guarded
  <2>9. Exporting' /\ ExportFirst'
    BY <1>2, <2>2, <2>3, <2>4, SMT DEF Exporting, ExportFirst, Begins
  <2>10. Purging'
    <3>1. \A i \in DOMAIN todo : todo[i] = "home" \/ todo[i] \in Runs
      BY <2>1, SMT DEF items, mine
    <3>2. \A x \in Runs \cup {"home"} : Deleted(x)'
      BY <1>2, SMT DEF Deleted
    <3>3. \A d \in Clients \ {c} : call[d].todo = <<>> /\ call[d].items = {}
      BY <2>4, SMT DEF Purging
    <3> QED
      BY <2>4, <3>1, <3>2, <3>3, SMT DEF Purging
  <2>11. Payloads' /\ RefsResolve'
    BY <1>2, <2>2, SMT DEF Payloads, RefsResolve
  <2> QED
    BY <2>6, <2>7, <2>8, <2>9, <2>10, <2>11, Zenon
<1> QED
  BY <1>1, <1>2, Zenon DEF DeleteSession

\* run.delete, which never meets the Turn of its Run.
LEMMA DeleteRunStep ==
  ASSUME IInv, NEW c \in Clients, DeleteRun(c)
  PROVE  IInv'
<1> DEFINE r == call[c].run
<1>1. CASE Answers(c) /\ UNCHANGED <<rows, unflushed>>
  BY <1>1, AnswerStep, SMT DEF DeleteRun, Begins, IInv, TypeOK, history, untold
<1>2. CASE /\ HasRow(r) /\ status[r] # "running"
           /\ Commits(c, {r}, <<r>>)
           /\ status' = [status EXCEPT ![r] = "deleted"]
           /\ refs' = refs \ {r}
           /\ UNCHANGED <<session, project>>
  <2> USE DEF IInv
  <2>1. call[c].kind = "run" /\ r \in Runs
    BY SMT DEF DeleteRun, Locking
  <2>2. UNCHANGED <<disk, export, worker, turn, writer, sweep, by>>
    BY DEF DeleteRun, history, untold
  <2>3. Begins(c)
    BY DEF DeleteRun
  <2> HIDE DEF r
  <2>4. /\ call' \in [Clients -> Requests]
        /\ thread' = c
        /\ call'[c].pc = "purges" /\ call'[c].kind = call[c].kind
        /\ call'[c].run = call[c].run /\ call'[c].todo = <<r>>
        /\ \A d \in Clients \ {c} :
             /\ call'[d] = call[d]
             /\ call[d].pc \notin {"renames", "syncs", "deletes", "purges"}
    <3>1. {r} \in SUBSET Items /\ <<r>> \in Seq(Items)
      BY <2>1, SMT DEF Items
    <3> QED
      BY <1>2, <2>3, <3>1, CommitCall
  <2>5. TypeOK'
    BY <1>2, <2>1, <2>2, <2>4, SMT DEF TypeOK
  <2>6. Turning' /\ LiveTurnKept'
    BY <1>2, <2>1, <2>2, SMT DEF Turning, LiveTurnKept, HasRow, TypeOK
  <2>7. Locking'
    BY <2>1, <2>2, <2>4, SMT DEF Locking, Guarded
  <2>8. Exporting' /\ ExportFirst'
    BY <1>2, <2>2, <2>4, SMT DEF Exporting, ExportFirst
  <2>9. Purging'
    <3>1. \A d \in Clients \ {c} : call[d].todo = <<>> /\ call[d].items = {}
      BY <2>4, SMT DEF Purging
    <3>2. \A x \in Runs : x = r => Deleted(x)'
      BY <1>2, <2>1, SMT DEF Deleted, TypeOK
    <3> QED
      BY <2>1, <2>4, <3>1, <3>2, SMT DEF Purging
  <2>10. Payloads' /\ RefsResolve'
    BY <1>2, <2>1, <2>2, SMT DEF Payloads, RefsResolve, TypeOK, HasRow
  <2> QED
    BY <2>5, <2>6, <2>7, <2>8, <2>9, <2>10, Zenon
<1> QED
  BY <1>1, <1>2, Zenon DEF DeleteRun

\* project.delete, in a Project without a Session.
LEMMA DeleteProjectStep ==
  ASSUME IInv, NEW c \in Clients, DeleteProject(c)
  PROVE  IInv'
<1>1. CASE Answers(c) /\ UNCHANGED <<rows, unflushed>>
  BY <1>1, AnswerStep, SMT DEF DeleteProject, Begins, IInv, TypeOK, history, untold
<1>2. CASE /\ ~session
           /\ Commits(c, {"attachments"}, <<"attachments">>)
           /\ project' = FALSE
           /\ UNCHANGED <<status, refs, session>>
  <2> USE DEF IInv
  <2>1. UNCHANGED <<disk, export, worker, turn, writer, sweep, by>>
    BY DEF DeleteProject, history, untold
  <2>2. Begins(c) /\ call[c].kind = "project"
    BY DEF DeleteProject
  <2>3. /\ call' \in [Clients -> Requests]
        /\ thread' = c
        /\ call'[c].pc = "purges" /\ call'[c].kind = call[c].kind
        /\ call'[c].run = call[c].run /\ call'[c].todo = <<"attachments">>
        /\ \A d \in Clients \ {c} :
             /\ call'[d] = call[d]
             /\ call[d].pc \notin {"renames", "syncs", "deletes", "purges"}
    <3>1. {"attachments"} \in SUBSET Items /\ <<"attachments">> \in Seq(Items)
      BY SMT DEF Items
    <3> QED
      BY <1>2, <2>2, <3>1, CommitCall
  <2>4. TypeOK'
    <3>1. project' \in BOOLEAN
      BY <1>2, Zenon
    <3> QED
      BY <1>2, <2>1, <2>3, <3>1, SMT DEF TypeOK
  <2>5. Turning' /\ LiveTurnKept'
    BY <1>2, <2>1, SMT DEF Turning, LiveTurnKept
  <2>6. Locking'
    BY <2>1, <2>2, <2>3, SMT DEF Locking, Guarded
  <2>7. Exporting' /\ ExportFirst'
    BY <1>2, <2>1, <2>3, SMT DEF Exporting, ExportFirst
  <2>8. Purging'
    <3>1. \A d \in Clients \ {c} : call[d].todo = <<>> /\ call[d].items = {}
      BY <2>3, SMT DEF Purging
    <3>2. Deleted("attachments")'
      BY <1>2, SMT DEF Deleted
    <3> QED
      BY <2>3, <3>1, <3>2, SMT DEF Purging
  <2>9. Payloads' /\ RefsResolve'
    BY <1>2, <2>1, SMT DEF Payloads, RefsResolve
  <2> QED
    BY <2>4, <2>5, <2>6, <2>7, <2>8, <2>9, Zenon
<1> QED
  BY <1>1, <1>2, Zenon DEF DeleteProject

\* The first thing to remove, and what is left to remove after it.
LEMMA NextToPurge ==
  ASSUME IInv, NEW c \in Clients, call[c].todo # <<>>
  PROVE  /\ Head(call[c].todo) \in Items
         /\ Deleted(Head(call[c].todo))
         /\ Tail(call[c].todo) \in Seq(Items)
         /\ \A i \in DOMAIN Tail(call[c].todo) : Deleted(Tail(call[c].todo)[i])
<1> DEFINE s == call[c].todo
<1>1. s \in Seq(Items) /\ s # <<>> /\ \A i \in DOMAIN s : Deleted(s[i])
  BY SMT DEF IInv, TypeOK, Requests, Purging
<1> HIDE DEF s
<1>2. /\ Head(s) = s[1] /\ 1 \in DOMAIN s
      /\ Tail(s) \in Seq(Items)
      /\ \A i \in DOMAIN Tail(s) : i + 1 \in DOMAIN s /\ Tail(s)[i] = s[i + 1]
  BY <1>1, SMT
<1>3. /\ Head(s) \in Items /\ Deleted(Head(s)) /\ Tail(s) \in Seq(Items)
      /\ \A i \in DOMAIN Tail(s) : Deleted(Tail(s)[i])
  BY <1>1, <1>2, SMT
<1> QED
  BY <1>3, Zenon DEF s

\* One directory of a deletion is removed.
LEMMA PurgeStep ==
  ASSUME IInv, NEW c \in Clients, Purge(c)
  PROVE  IInv'
<1> DEFINE i0 == Head(call[c].todo)
           rest == Tail(call[c].todo)
<1> USE DEF IInv
<1>1. /\ i0 \in Items /\ Deleted(i0) /\ rest \in Seq(Items)
      /\ \A i \in DOMAIN rest : Deleted(rest[i])
  BY NextToPurge, Zenon DEF Purge
<1>2. /\ call[c].pc = "purges"
      /\ disk' = [disk EXCEPT ![i0] = "gone"]
      /\ export' = IF i0 = "attachments" THEN "none" ELSE export
      /\ call' = [call EXCEPT ![c].todo = rest]
      /\ UNCHANGED <<rows, worker, turn, writer, thread, sweep, by>>
  BY DEF Purge, history, untold
<1> HIDE DEF i0, rest
<1>3. TypeOK'
  <2>1. [call[c] EXCEPT !.todo = rest] \in Requests
    BY <1>1, RequestPurges DEF TypeOK
  <2>2. call' \in [Clients -> Requests]
    BY <1>2, <2>1, SMT DEF TypeOK
  <2> QED
    BY <1>1, <1>2, <2>2, SMT DEF TypeOK, rows
<1>4. Turning' /\ LiveTurnKept'
  BY <1>1, <1>2, SMT DEF Turning, LiveTurnKept, rows, Deleted, TypeOK
<1>5. Locking' /\ Exporting' /\ ExportFirst'
  <2>1. \A d \in Clients :
          /\ call'[d].pc = call[d].pc /\ call'[d].kind = call[d].kind
          /\ call'[d].run = call[d].run /\ call'[d].heard = call[d].heard
    BY <1>2, SMT DEF TypeOK, Requests
  <2>2. i0 = "attachments" => ~project
    BY <1>1, SMT DEF Deleted
  <2>3. Locking'
    BY <1>2, <2>1, SMT DEF Locking, rows
  <2>4. Exporting'
    BY <1>2, <2>1, SMT DEF Exporting, Locking, rows
  <2>5. ExportFirst'
    BY <1>2, <2>2, SMT DEF ExportFirst, rows
  <2> QED
    BY <2>3, <2>4, <2>5
<1>6. Purging'
  <2>1. \A x \in Items : Deleted(x) => Deleted(x)'
    BY <1>2, SMT DEF Deleted, rows
  <2>2. \A d \in Clients \ {c} : call'[d] = call[d]
    BY <1>2, SMT DEF TypeOK
  <2>3. call'[c].pc = "purges" /\ call'[c].todo = rest
    BY <1>2, SMT DEF TypeOK, Requests
  <2> QED
    <3>1. \A d \in Clients : call[d].todo \in Seq(Items)
      BY SMT DEF TypeOK, Requests
    <3> QED
      BY <1>1, <1>2, <2>1, <2>2, <2>3, <3>1, SMT DEF Purging
<1>7. Payloads' /\ RefsResolve'
  BY <1>1, <1>2, SMT DEF Payloads, RefsResolve, Deleted, TypeOK, rows
<1> QED
  BY <1>3, <1>4, <1>5, <1>6, <1>7, Zenon

\* A directory of a deletion cannot be removed.
LEMMA PurgeFailsStep ==
  ASSUME IInv, NEW c \in Clients, PurgeFails(c)
  PROVE  IInv'
<1> DEFINE i0 == Head(call[c].todo)
<1> USE DEF IInv, Answers, Idle
<1>1. i0 \in Items /\ Deleted(i0)
  BY NextToPurge, Zenon DEF PurgeFails
<1>2. /\ call[c].pc = "purges"
      /\ disk' = [disk EXCEPT ![i0] = "part"]
      /\ Answers(c)
      /\ UNCHANGED <<rows, export, worker, turn, writer, sweep, by>>
  BY DEF PurgeFails
<1> HIDE DEF i0
<1>3. TypeOK'
  <2>1. Idle \in Requests
    BY IdleRequest
  <2> QED
    BY <1>1, <1>2, <2>1, SMT DEF TypeOK, rows
<1>4. Turning' /\ LiveTurnKept'
  BY <1>1, <1>2, SMT DEF Turning, LiveTurnKept, rows, Deleted, TypeOK
<1>5. Locking'
  BY <1>2, SMT DEF Locking, TypeOK, Guarded, rows
<1>6. Exporting' /\ ExportFirst'
  BY <1>2, SMT DEF Exporting, ExportFirst, TypeOK, rows
<1>7. Purging'
  BY <1>2, SMT DEF Purging, Deleted, TypeOK, rows
<1>8. Payloads' /\ RefsResolve'
  BY <1>1, <1>2, SMT DEF Payloads, RefsResolve, Deleted, TypeOK, rows
<1> QED
  BY <1>3, <1>4, <1>5, <1>6, <1>7, <1>8, Zenon

\* An export is written, or its Session is gone.
LEMMA ExportWritesStep ==
  ASSUME IInv, NEW c \in Clients, ExportWrites(c)
  PROVE  IInv'
<1> USE DEF IInv, rows, history, untold
<1>1. CASE Answers(c)
  BY <1>1, AnswerStep, SMT DEF ExportWrites
<1>2. CASE session /\ thread' = c /\ call' = [call EXCEPT ![c].pc = "renames"]
  <2>1. /\ call[c].kind \in {"export", "exportDelete"} /\ call[c].pc = "ready"
        /\ thread = Nobody
        /\ UNCHANGED <<rows, disk, export, worker, turn, writer, sweep, by>>
    BY DEF ExportWrites
  <2>2. /\ call' \in [Clients -> Requests]
        /\ call'[c].pc = "renames" /\ call'[c].kind = call[c].kind
        /\ call'[c].run = call[c].run /\ call'[c].todo = call[c].todo
        /\ call'[c].items = call[c].items
        /\ \A d \in Clients \ {c} : call'[d] = call[d]
    <3>1. call'[c] = [call[c] EXCEPT !.pc = "renames"]
      BY <1>2, SMT DEF TypeOK
    <3>2. \A d \in Clients \ {c} : call'[d] = call[d]
      BY <1>2, SMT DEF TypeOK
    <3>3. call' \in [Clients -> Requests]
      BY <1>2, CallMoves DEF TypeOK
    <3> QED
      BY <3>1, <3>2, <3>3, SMT DEF TypeOK, Requests
  <2>3. TypeOK'
    BY <1>2, <2>1, <2>2, SMT DEF TypeOK
  <2>4. Turning' /\ Payloads' /\ RefsResolve' /\ LiveTurnKept' /\ ExportFirst'
    BY <2>1, SMT DEF Turning, Payloads, RefsResolve, LiveTurnKept, ExportFirst
  <2>5. Locking'
    BY <1>2, <2>1, <2>2, SMT DEF Locking, Guarded
  <2>6. Exporting'
    BY <1>2, <2>1, <2>2, SMT DEF Exporting, Locking
  <2>7. Purging'
    <3>1. \A x \in Items : Deleted(x) => Deleted(x)'
      BY <2>1, SMT DEF Deleted
    <3>2. \A d \in Clients : call[d].todo \in Seq(Items)
      BY SMT DEF TypeOK, Requests
    <3> QED
      BY <2>1, <2>2, <3>1, <3>2, SMT DEF Purging
  <2> QED
    BY <2>3, <2>4, <2>5, <2>6, <2>7, Zenon
<1> QED
  BY <1>1, <1>2, Zenon DEF ExportWrites

\* An export is synced: the call ends, or goes on to delete.
LEMMA ExportSyncsStep ==
  ASSUME IInv, NEW c \in Clients, ExportSyncs(c)
  PROVE  IInv'
<1> USE DEF IInv, rows, history, untold
<1>1. CASE Answers(c)
  <2>1. call[c].pc = "syncs" /\ export' = "durable" /\ thread = c
    BY SMT DEF ExportSyncs, Locking
  <2>2. UNCHANGED <<rows, disk, worker, turn, writer, sweep, by>>
    BY DEF ExportSyncs
  <2>3. TypeOK'
    <3>1. Idle \in Requests
      BY IdleRequest
    <3> QED
      BY <1>1, <2>1, <2>2, <3>1, SMT DEF TypeOK, Answers
  <2>4. Turning' /\ Payloads' /\ RefsResolve' /\ LiveTurnKept' /\ ExportFirst'
    BY <2>1, <2>2, SMT DEF Turning, Payloads, RefsResolve, LiveTurnKept, ExportFirst
  <2>5. Locking'
    BY <1>1, <2>1, <2>2, SMT DEF Locking, TypeOK, Guarded, Answers, Idle
  <2>6. Exporting'
    BY <1>1, <2>1, <2>2, SMT DEF Exporting, TypeOK, Answers, Idle
  <2>7. Purging'
    BY <1>1, <2>2, SMT DEF Purging, Deleted, TypeOK, Answers, Idle
  <2> QED
    BY <2>3, <2>4, <2>5, <2>6, <2>7, Zenon
<1>2. CASE /\ call[c].kind # "export" /\ call' = [call EXCEPT ![c].pc = "deletes"]
           /\ UNCHANGED thread
  <2>1. /\ call[c].pc = "syncs" /\ export' = "durable" /\ thread = c
        /\ call[c].kind = "exportDelete"
        /\ UNCHANGED <<rows, disk, worker, turn, writer, sweep, by>>
    BY <1>2, SMT DEF ExportSyncs, Locking
  <2>2. /\ call' \in [Clients -> Requests]
        /\ call'[c].pc = "deletes" /\ call'[c].kind = call[c].kind
        /\ call'[c].run = call[c].run /\ call'[c].todo = call[c].todo
        /\ call'[c].items = call[c].items
        /\ \A d \in Clients \ {c} : call'[d] = call[d]
    <3>1. call'[c] = [call[c] EXCEPT !.pc = "deletes"]
      BY <1>2, SMT DEF TypeOK
    <3>2. \A d \in Clients \ {c} : call'[d] = call[d]
      BY <1>2, SMT DEF TypeOK
    <3>3. call' \in [Clients -> Requests]
      BY <1>2, CallMoves DEF TypeOK
    <3> QED
      BY <3>1, <3>2, <3>3, SMT DEF TypeOK, Requests
  <2>3. TypeOK'
    BY <1>2, <2>1, <2>2, SMT DEF TypeOK
  <2>4. Turning' /\ Payloads' /\ RefsResolve' /\ LiveTurnKept' /\ ExportFirst'
    BY <2>1, SMT DEF Turning, Payloads, RefsResolve, LiveTurnKept, ExportFirst
  <2>5. Locking'
    BY <1>2, <2>1, <2>2, SMT DEF Locking, Guarded
  <2>6. Exporting'
    BY <1>2, <2>1, <2>2, SMT DEF Exporting, Locking
  <2>7. Purging'
    <3>1. \A x \in Items : Deleted(x) => Deleted(x)'
      BY <2>1, SMT DEF Deleted
    <3>2. \A d \in Clients : call[d].todo \in Seq(Items)
      BY SMT DEF TypeOK, Requests
    <3> QED
      BY <2>1, <2>2, <3>1, <3>2, SMT DEF Purging
  <2> QED
    BY <2>3, <2>4, <2>5, <2>6, <2>7, Zenon
<1> QED
  BY <1>1, <1>2, Zenon DEF ExportSyncs

\* A deletion is done.
LEMMA FlushStep ==
  ASSUME IInv, NEW c \in Clients, Flush(c)
  PROVE  IInv'
<1> USE DEF IInv, Flush, rows, history, untold
<1>1. TypeOK'
  <2>1. call' \in [Clients -> Requests]
    BY IdleRequest, SMT DEF TypeOK, Answers
  <2> QED
    BY <2>1, SMT DEF TypeOK, Turning, Items, Answers
<1>2. Turning'
  BY SMT DEF TypeOK, Requests, Turning, Locking, Exporting, Purging, Payloads,
     RefsResolve, LiveTurnKept, ExportFirst, Deleted, Guarded, Items, Answers, Idle
<1>3. Locking'
  BY SMT DEF TypeOK, Requests, Turning, Locking, Exporting, Purging, Payloads,
     RefsResolve, LiveTurnKept, ExportFirst, Deleted, Guarded, Items, Answers, Idle
<1>4. Exporting'
  BY SMT DEF TypeOK, Requests, Turning, Locking, Exporting, Purging, Payloads,
     RefsResolve, LiveTurnKept, ExportFirst, Deleted, Guarded, Items, Answers, Idle
<1>5. Purging'
  BY SMT DEF TypeOK, Requests, Turning, Locking, Exporting, Purging, Payloads,
     RefsResolve, LiveTurnKept, ExportFirst, Deleted, Guarded, Items, Answers, Idle
<1>6. Payloads'
  BY SMT DEF TypeOK, Requests, Turning, Locking, Exporting, Purging, Payloads,
     RefsResolve, LiveTurnKept, ExportFirst, Deleted, Guarded, Items, Answers, Idle
<1>7. RefsResolve'
  BY SMT DEF TypeOK, Requests, Turning, Locking, Exporting, Purging, Payloads,
     RefsResolve, LiveTurnKept, ExportFirst, Deleted, Guarded, Items, Answers, Idle
<1>8. LiveTurnKept'
  BY SMT DEF TypeOK, Requests, Turning, Locking, Exporting, Purging, Payloads,
     RefsResolve, LiveTurnKept, ExportFirst, Deleted, Guarded, Items, Answers, Idle
<1>9. ExportFirst'
  BY SMT DEF TypeOK, Requests, Turning, Locking, Exporting, Purging, Payloads,
     RefsResolve, LiveTurnKept, ExportFirst, Deleted, Guarded, Items, Answers, Idle
<1> QED
  BY <1>1, <1>2, <1>3, <1>4, <1>5, <1>6, <1>7, <1>8, <1>9, Zenon

\* The export gets its name.
LEMMA ExportRenamesStep ==
  ASSUME IInv, NEW c \in Clients, ExportRenames(c)
  PROVE  IInv'
<1> USE DEF IInv, ExportRenames, rows, history, untold
<1>1. TypeOK'
  <2>1. call' \in [Clients -> Requests]
    BY CallMoves DEF TypeOK
  <2> QED
    BY <2>1, SMT DEF TypeOK, Turning, Items
<1>2. Turning'
  BY SMT DEF TypeOK, Requests, Turning, Locking, Exporting, Purging, Payloads,
     RefsResolve, LiveTurnKept, ExportFirst, Deleted, Guarded, Items
<1>3. Locking'
  BY SMT DEF TypeOK, Requests, Turning, Locking, Exporting, Purging, Payloads,
     RefsResolve, LiveTurnKept, ExportFirst, Deleted, Guarded, Items
<1>4. Exporting'
  BY SMT DEF TypeOK, Requests, Turning, Locking, Exporting, Purging, Payloads,
     RefsResolve, LiveTurnKept, ExportFirst, Deleted, Guarded, Items
<1>5. Purging'
  BY SMT DEF TypeOK, Requests, Turning, Locking, Exporting, Purging, Payloads,
     RefsResolve, LiveTurnKept, ExportFirst, Deleted, Guarded, Items
<1>6. Payloads'
  BY SMT DEF TypeOK, Requests, Turning, Locking, Exporting, Purging, Payloads,
     RefsResolve, LiveTurnKept, ExportFirst, Deleted, Guarded, Items
<1>7. RefsResolve'
  BY SMT DEF TypeOK, Requests, Turning, Locking, Exporting, Purging, Payloads,
     RefsResolve, LiveTurnKept, ExportFirst, Deleted, Guarded, Items
<1>8. LiveTurnKept'
  BY SMT DEF TypeOK, Requests, Turning, Locking, Exporting, Purging, Payloads,
     RefsResolve, LiveTurnKept, ExportFirst, Deleted, Guarded, Items
<1>9. ExportFirst'
  BY SMT DEF TypeOK, Requests, Turning, Locking, Exporting, Purging, Payloads,
     RefsResolve, LiveTurnKept, ExportFirst, Deleted, Guarded, Items
<1> QED
  BY <1>1, <1>2, <1>3, <1>4, <1>5, <1>6, <1>7, <1>8, <1>9, Zenon

\* A deletion is done but for its log, whoever is told.
LEMMA LogStaysStep ==
  ASSUME IInv, NEW c \in Clients, FlushBusy(c) \/ FlushRaises(c)
  PROVE  IInv'
<1>1. /\ thread \in {c, Nobody} /\ Answers(c)
      /\ UNCHANGED <<rows, disk, export, worker, turn, writer, sweep, by>>
  <2>1. call[c].pc = "purges" /\ Answers(c)
    BY Zenon DEF FlushBusy, FlushRaises
  <2>2. UNCHANGED <<rows, disk, export, worker, turn, writer, sweep, by>>
    BY Zenon DEF FlushBusy, FlushRaises
  <2> QED
    BY <2>1, <2>2, SMT DEF IInv, Locking
<1> QED
  BY <1>1, AnswerStep

\* The client is gone: the call is over, or nobody hears the end of it.
LEMMA DisconnectStep ==
  ASSUME IInv, NEW c \in Clients, Disconnect(c)
  PROVE  IInv'
<1> USE DEF IInv
<1>1. /\ call[c].pc # "idle"
      /\ UNCHANGED <<rows, disk, export, worker, turn, writer, thread, sweep, by>>
  BY DEF Disconnect, history
<1>2. CASE thread = c
  <2>1. call' = [call EXCEPT ![c].heard = FALSE]
    BY <1>2 DEF Disconnect
  <2>2. /\ call' \in [Clients -> Requests]
        /\ \A d \in Clients :
             /\ call'[d].pc = call[d].pc /\ call'[d].kind = call[d].kind
             /\ call'[d].run = call[d].run
             /\ call'[d].items = call[d].items /\ call'[d].todo = call[d].todo
             /\ d # c => call'[d] = call[d]
    <3> DEFINE u == [call[c] EXCEPT !.heard = FALSE]
    <3>1. /\ u \in Requests
          /\ u.pc = call[c].pc /\ u.kind = call[c].kind /\ u.run = call[c].run
          /\ u.items = call[c].items /\ u.todo = call[c].todo
      BY RequestUnheard DEF TypeOK
    <3>2. call' = [call EXCEPT ![c] = u]
      BY <2>1
    <3> HIDE DEF u
    <3> QED
      BY <3>1, <3>2, SMT DEF TypeOK
  <2>3. TypeOK'
    BY <1>1, <2>2, SMT DEF TypeOK, rows
  <2>4. Turning' /\ Payloads' /\ RefsResolve' /\ LiveTurnKept' /\ ExportFirst'
    BY <1>1, SMT DEF Turning, Payloads, RefsResolve, LiveTurnKept, ExportFirst, rows
  <2>5. Locking'
    BY <1>1, <1>2, <2>2, SMT DEF Locking, rows
  <2>6. Exporting'
    BY <1>1, <2>2, SMT DEF Exporting, rows
  <2>7. Purging'
    <3>1. \A x \in Items : Deleted(x) => Deleted(x)'
      BY <1>1, SMT DEF Deleted, rows
    <3>2. \A d \in Clients : call[d].todo \in Seq(Items)
      BY SMT DEF TypeOK, Requests
    <3> QED
      BY <2>2, <3>1, <3>2, SMT DEF Purging
  <2> QED
    BY <2>3, <2>4, <2>5, <2>6, <2>7, Zenon
<1>3. CASE thread # c
  <2>1. call' = [call EXCEPT ![c] = Idle]
    BY <1>3 DEF Disconnect
  <2>2. /\ call' \in [Clients -> Requests] /\ call'[c] = Idle
        /\ \A d \in Clients \ {c} : call'[d] = call[d]
    BY <2>1, IdleRequest, SMT DEF TypeOK
  <2>3. TypeOK'
    BY <1>1, <2>2, SMT DEF TypeOK, rows
  <2>4. Turning' /\ Payloads' /\ RefsResolve' /\ LiveTurnKept' /\ ExportFirst'
    BY <1>1, SMT DEF Turning, Payloads, RefsResolve, LiveTurnKept, ExportFirst, rows
  <2>5. Locking'
    BY <1>1, <1>3, <2>2, SMT DEF Locking, Guarded, Idle, rows
  <2>6. Exporting'
    BY <1>1, <2>2, SMT DEF Exporting, Idle, rows
  <2>7. Purging'
    <3>1. \A x \in Items : Deleted(x) => Deleted(x)'
      BY <1>1, SMT DEF Deleted, rows
    <3>2. \A d \in Clients : call[d].todo \in Seq(Items)
      BY SMT DEF TypeOK, Requests
    <3> QED
      BY <2>2, <3>1, <3>2, SMT DEF Purging, Idle
  <2> QED
    BY <2>3, <2>4, <2>5, <2>6, <2>7, Zenon
<1> QED
  BY <1>2, <1>3

\* An export fails and deletes nothing.
LEMMA ExportFailsStep ==
  ASSUME IInv, NEW c \in Clients, ExportFails(c)
  PROVE  IInv'
<1> USE DEF IInv, ExportFails, rows, history, untold
<1>1. TypeOK'
  <2>1. call' \in [Clients -> Requests]
    BY IdleRequest, SMT DEF TypeOK, Fault, Answers
  <2> QED
    BY <2>1, SMT DEF TypeOK, Turning, Items, Fault, Answers
<1>2. Turning'
  BY SMT DEF TypeOK, Requests, Turning, Locking, Exporting, Purging, Payloads,
     RefsResolve, LiveTurnKept, ExportFirst, Deleted, Guarded, Items, Fault, Answers,
     Idle
<1>3. Locking'
  BY SMT DEF TypeOK, Requests, Turning, Locking, Exporting, Purging, Payloads,
     RefsResolve, LiveTurnKept, ExportFirst, Deleted, Guarded, Items, Fault, Answers,
     Idle
<1>4. Exporting'
  BY SMT DEF TypeOK, Requests, Turning, Locking, Exporting, Purging, Payloads,
     RefsResolve, LiveTurnKept, ExportFirst, Deleted, Guarded, Items, Fault, Answers,
     Idle
<1>5. Purging'
  BY SMT DEF TypeOK, Requests, Turning, Locking, Exporting, Purging, Payloads,
     RefsResolve, LiveTurnKept, ExportFirst, Deleted, Guarded, Items, Fault, Answers,
     Idle
<1>6. Payloads'
  BY SMT DEF TypeOK, Requests, Turning, Locking, Exporting, Purging, Payloads,
     RefsResolve, LiveTurnKept, ExportFirst, Deleted, Guarded, Items, Fault, Answers,
     Idle
<1>7. RefsResolve'
  BY SMT DEF TypeOK, Requests, Turning, Locking, Exporting, Purging, Payloads,
     RefsResolve, LiveTurnKept, ExportFirst, Deleted, Guarded, Items, Fault, Answers,
     Idle
<1>8. LiveTurnKept'
  BY SMT DEF TypeOK, Requests, Turning, Locking, Exporting, Purging, Payloads,
     RefsResolve, LiveTurnKept, ExportFirst, Deleted, Guarded, Items, Fault, Answers,
     Idle
<1>9. ExportFirst'
  BY SMT DEF TypeOK, Requests, Turning, Locking, Exporting, Purging, Payloads,
     RefsResolve, LiveTurnKept, ExportFirst, Deleted, Guarded, Items, Fault, Answers,
     Idle
<1> QED
  BY <1>1, <1>2, <1>3, <1>4, <1>5, <1>6, <1>7, <1>8, <1>9, Zenon

\* The daemon dies: Turns, calls, writers and the sweep are gone together.
LEMMA CrashStep ==
  ASSUME IInv, Crash
  PROVE  IInv'
<1> USE DEF IInv, Crash, rows, history, untold
<1>1. TypeOK'
  <2>1. call' \in [Clients -> Requests]
    BY IdleRequest, SMT DEF TypeOK, Fault
  <2>2. worker' \in BOOLEAN
    BY Zenon
  <2> QED
    BY <2>1, <2>2, SMT DEF TypeOK, Turning, Items, Fault
<1>2. Turning'
  BY SMT DEF TypeOK, Requests, Turning, Locking, Exporting, Purging, Payloads,
     RefsResolve, LiveTurnKept, ExportFirst, Deleted, Guarded, Items, Fault, Idle
<1>3. Locking'
  BY SMT DEF TypeOK, Requests, Turning, Locking, Exporting, Purging, Payloads,
     RefsResolve, LiveTurnKept, ExportFirst, Deleted, Guarded, Items, Fault, Idle
<1>4. Exporting'
  BY SMT DEF TypeOK, Requests, Turning, Locking, Exporting, Purging, Payloads,
     RefsResolve, LiveTurnKept, ExportFirst, Deleted, Guarded, Items, Fault, Idle
<1>5. Purging'
  BY SMT DEF TypeOK, Requests, Turning, Locking, Exporting, Purging, Payloads,
     RefsResolve, LiveTurnKept, ExportFirst, Deleted, Guarded, Items, Fault, Idle
<1>6. Payloads'
  BY SMT DEF TypeOK, Requests, Turning, Locking, Exporting, Purging, Payloads,
     RefsResolve, LiveTurnKept, ExportFirst, Deleted, Guarded, Items, Fault, Idle
<1>7. RefsResolve'
  BY SMT DEF TypeOK, Requests, Turning, Locking, Exporting, Purging, Payloads,
     RefsResolve, LiveTurnKept, ExportFirst, Deleted, Guarded, Items, Fault, Idle
<1>8. LiveTurnKept'
  BY SMT DEF TypeOK, Requests, Turning, Locking, Exporting, Purging, Payloads,
     RefsResolve, LiveTurnKept, ExportFirst, Deleted, Guarded, Items, Fault, Idle
<1>9. ExportFirst'
  BY SMT DEF TypeOK, Requests, Turning, Locking, Exporting, Purging, Payloads,
     RefsResolve, LiveTurnKept, ExportFirst, Deleted, Guarded, Items, Fault, Idle
<1> QED
  BY <1>1, <1>2, <1>3, <1>4, <1>5, <1>6, <1>7, <1>8, <1>9, Zenon

\* A request arrives.
LEMMA CallsStep ==
  ASSUME IInv, NEW c \in Clients, NEW r \in Runs \cup {NoRun},
         NEW kind \in {"session", "exportDelete", "run", "project", "export"}, Calls(c, kind, r)
  PROVE  IInv'
<1> USE DEF IInv, Calls, rows, history, untold
<1>1. TypeOK'
  <2>1. call' \in [Clients -> Requests]
    <3> DEFINE pc == IF kind \in Guarded THEN "guard" ELSE "ready"
               q == [Idle EXCEPT !.pc = pc, !.kind = kind, !.run = r]
    <3>1. q \in Requests
      <4>1. pc \in {"guard", "ready"}
        OBVIOUS
      <4> HIDE DEF pc
      <4> QED
        BY <4>1, NewRequest, Zenon
    <3>2. call' = [call EXCEPT ![c] = q]
      BY DEF Guarded
    <3> HIDE DEF q
    <3> QED
      BY <3>1, <3>2, SMT DEF TypeOK
  <2> QED
    BY <2>1, SMT DEF TypeOK, Turning, Items
<1>2. Turning'
  BY SMT DEF TypeOK, Requests, Turning, Locking, Exporting, Purging, Payloads,
     RefsResolve, LiveTurnKept, ExportFirst, Deleted, Guarded, Items, Idle
<1>3. Locking'
  BY SMT DEF TypeOK, Requests, Turning, Locking, Exporting, Purging, Payloads,
     RefsResolve, LiveTurnKept, ExportFirst, Deleted, Guarded, Items, Idle
<1>4. Exporting'
  BY SMT DEF TypeOK, Requests, Turning, Locking, Exporting, Purging, Payloads,
     RefsResolve, LiveTurnKept, ExportFirst, Deleted, Guarded, Items, Idle
<1>5. Purging'
  BY SMT DEF TypeOK, Requests, Turning, Locking, Exporting, Purging, Payloads,
     RefsResolve, LiveTurnKept, ExportFirst, Deleted, Guarded, Items, Idle
<1>6. Payloads'
  BY SMT DEF TypeOK, Requests, Turning, Locking, Exporting, Purging, Payloads,
     RefsResolve, LiveTurnKept, ExportFirst, Deleted, Guarded, Items, Idle
<1>7. RefsResolve'
  BY SMT DEF TypeOK, Requests, Turning, Locking, Exporting, Purging, Payloads,
     RefsResolve, LiveTurnKept, ExportFirst, Deleted, Guarded, Items, Idle
<1>8. LiveTurnKept'
  BY SMT DEF TypeOK, Requests, Turning, Locking, Exporting, Purging, Payloads,
     RefsResolve, LiveTurnKept, ExportFirst, Deleted, Guarded, Items, Idle
<1>9. ExportFirst'
  BY SMT DEF TypeOK, Requests, Turning, Locking, Exporting, Purging, Payloads,
     RefsResolve, LiveTurnKept, ExportFirst, Deleted, Guarded, Items, Idle
<1> QED
  BY <1>1, <1>2, <1>3, <1>4, <1>5, <1>6, <1>7, <1>8, <1>9, Zenon

-----------------------------------------------------------------------------
\* Nothing happens.
LEMMA StutterIInv ==
  ASSUME IInv, UNCHANGED vars
  PROVE  IInv'
<1> USE DEF IInv, vars, rows, history, untold
<1>1. TypeOK' /\ Turning' /\ Payloads'
  BY Zenon DEF TypeOK, Turning, Payloads
<1>2. Locking' /\ Exporting'
  BY Zenon DEF Locking, Exporting
<1>3. Purging'
  <2>1. \A x \in Items : Deleted(x) => Deleted(x)'
    BY SMT DEF Deleted
  <2>2. \A d \in Clients : call[d].todo \in Seq(Items)
    BY SMT DEF TypeOK, Requests
  <2> QED
    BY <2>1, <2>2, SMT DEF Purging
<1>4. RefsResolve' /\ LiveTurnKept' /\ ExportFirst'
  BY Zenon DEF RefsResolve, LiveTurnKept, ExportFirst
<1> QED
  BY <1>1, <1>2, <1>3, <1>4, Zenon

\* The inductive step: one case for each action.
LEMMA StepIInv == IInv /\ [Next]_vars => IInv'
<1> SUFFICES ASSUME IInv, [Next]_vars PROVE IInv'
  OBVIOUS
<1>1. CASE \E r \in Runs : TurnStarts(r) \/ WriteFile(r) \/ WriteRef(r) \/ Expires(r)
  BY <1>1, TurnStartsStep, WriteFileStep, WriteRefStep, ExpiresStep, Zenon
<1>2. CASE TurnRuns \/ TurnSettles \/ TurnEnds \/ WorkerStops \/ WriteBegins
  BY <1>2, TurnRunsStep, TurnSettlesStep, TurnEndsStep, WorkerStopsStep, WriteBeginsStep, Zenon
<1>3. CASE \/ SweepList \/ SweepClear \/ SweepSleeps
           \/ \E r \in Runs : SweepPurge(r) \/ SweepPurgeFails(r)
  BY <1>3, SweepListStep, SweepClearStep, SweepSleepsStep, SweepPurgeStep,
     SweepPurgeFailsStep, Zenon
<1>4. CASE \E c \in Clients, kind \in {"session", "exportDelete", "run", "project", "export"},
              r \in Runs \cup {NoRun} : Calls(c, kind, r)
  BY <1>4, CallsStep, Zenon
<1>5. ASSUME NEW c \in Clients,
             \/ Work(c) \/ PurgeFails(c) \/ FlushBusy(c) \/ FlushRaises(c)
             \/ ExportFails(c) \/ Disconnect(c)
      PROVE  IInv'
  <2>1. CASE Guard(c) \/ StopWorker(c) \/ DeleteSession(c) \/ DeleteRun(c) \/ DeleteProject(c)
    BY <2>1, GuardStep, StopWorkerStep, DeleteSessionStep, DeleteRunStep,
       DeleteProjectStep, Zenon
  <2>2. CASE \/ Purge(c) \/ Flush(c) \/ ExportWrites(c) \/ ExportRenames(c) \/ ExportSyncs(c)
    BY <2>2, PurgeStep, FlushStep, ExportWritesStep, ExportRenamesStep, ExportSyncsStep, Zenon
  <2>3. CASE \/ PurgeFails(c) \/ FlushBusy(c) \/ FlushRaises(c) \/ ExportFails(c)
             \/ Disconnect(c)
    BY <2>3, PurgeFailsStep, LogStaysStep, ExportFailsStep, DisconnectStep, Zenon
  <2> QED
    BY <1>5, <2>1, <2>2, <2>3, Zenon DEF Work
<1>6. CASE Crash
  BY <1>6, CrashStep
<1>7. CASE UNCHANGED vars
  BY <1>7, StutterIInv
<1> QED
  BY <1>1, <1>2, <1>3, <1>4, <1>5, <1>6, <1>7, Zenon DEF Next

\* The invariant holds in every reachable state.
LEMMA StoreInvariance == Spec => []IInv
BY InitIInv, StepIInv, PTL DEF Spec

\* Whatever is deleted, written, swept or interrupted, the tables, the directories and the
\* calls under way have their types (sessions/service.py, store/maintenance.py).
THEOREM StoreTypes == Spec => []TypeOK
<1>1. IInv => TypeOK
  BY DEF IInv
<1> QED
  BY <1>1, StoreInvariance, PTL

\* A payload reference in the Run table leads to the payload, unless the Run has expired and
\* its sweep was interrupted: writer, sweep and deletions may come in any order.
THEOREM ReferencesResolve == Spec => []RefsResolve
<1>1. IInv => RefsResolve
  BY DEF IInv
<1> QED
  BY <1>1, StoreInvariance, PTL

\* No deletion takes the rows or the home of a Turn that lives, not even in the moment
\* between send and the Run's row: delete_guard holds the lock and looks at the memory.
THEOREM LiveTurnIsKept == Spec => []LiveTurnKept
<1>1. IInv => LiveTurnKept
  BY DEF IInv
<1> QED
  BY <1>1, StoreInvariance, PTL

\* export-then-delete: the transaction that deletes the Session finds its export renamed and
\* synced, for any number of clients exporting and deleting at once.
THEOREM ExportPrecedes == Spec => []ExportFirst
<1>1. IInv => ExportFirst
  BY DEF IInv
<1> QED
  BY <1>1, StoreInvariance, PTL

-------------------------------------------------------------------------------
(* LeftoversAreKnown: what a deletion leaves behind is on somebody's list.                        *)

\* Items nobody was told of, for whichever reason.
forgotten == died \cup late \cup unheard \cup raised

\* Somebody knows that i is still there: an answer named it, a call will remove it...
Known(i) ==
  \/ i \in reported \cup forgotten
  \/ \E c \in Clients : \E k \in DOMAIN call[c].todo : call[c].todo[k] = i
  \/ (i = "home" /\ i \in warned)

\* What is deleted and still there is known.
LeftIsKnown == \A i \in Items : Deleted(i) /\ disk[i] # "gone" => Known(i)

\* What is deleted in the log only is known.
LogIsKnown ==
  \A i \in unflushed : i \in warned \cup forgotten \/ \E c \in Clients : i \in call[c].items

\* The list of a call is part of what it deleted; attachments are deleted by themselves.
Lists ==
  \A c \in Clients : \A k \in DOMAIN call[c].todo :
    /\ call[c].todo[k] \in call[c].items
    /\ call[c].todo[k] = "attachments" => call[c].todo = <<"attachments">>

\* A Run that has not begun has no directory.
NoneIsGone == \A r \in Runs : status[r] = "none" => disk[r] = "gone"

\* With IInv, the inductive invariant of LeftoversAreKnown.
OInv == LeftIsKnown /\ LogIsKnown /\ Lists /\ NoneIsGone

USE MaintenanceAssumption

-----------------------------------------------------------------------------
\* OInv is what LeftoversAreKnown says.
LEMMA OutcomesFollow == OInv => LeftoversAreKnown
<1> SUFFICES ASSUME OInv PROVE LeftoversAreKnown
  OBVIOUS
<1>1. ASSUME NEW i \in Items, Deleted(i), disk[i] # "gone"
      PROVE  \/ i \in reported \cup forgotten \cup UNION {Range(call[c].todo) : c \in Clients}
             \/ (i = "home" /\ i \in warned)
  <2>1. Known(i)
    BY <1>1 DEF OInv, LeftIsKnown
  <2>2. ASSUME NEW c \in Clients, NEW k \in DOMAIN call[c].todo, call[c].todo[k] = i
        PROVE  i \in UNION {Range(call[d].todo) : d \in Clients}
    <3>1. i \in Range(call[c].todo)
      BY <2>2, Zenon DEF Range
    <3> QED
      BY <3>1, Zenon
  <2> QED
    BY <2>1, <2>2, Zenon DEF Known
<1>2. unflushed \subseteq warned \cup forgotten \cup UNION {call[c].items : c \in Clients}
  BY Zenon DEF OInv, LogIsKnown
<1> QED
  BY <1>1, <1>2, Zenon DEF TwoOutcomes, LeftoversAreKnown, forgotten

\* SetToSeq leaves nothing out.
LEMMA ListIsWhole ==
  ASSUME NEW S, IsFiniteSet(S)
  PROVE  \A x \in S : \E k \in DOMAIN SetToSeq(S) : SetToSeq(S)[k] = x
<1> DEFINE n == Cardinality(S)
<1>1. n \in Nat /\ ExistsBijection(1..n, S)
  BY FS_CardinalityType, Zenon
<1>2. PICK f \in Bijection(1..n, S) : TRUE
  BY <1>1, Zenon DEF ExistsBijection
<1>3. f \in [1..n -> S] /\ IsInjective(f)
  BY <1>2, Zenon DEF Bijection, Injection
<1>4. SetToSeq(S) \in [1..n -> S] /\ IsInjective(SetToSeq(S))
  BY <1>3, Zenon DEF SetToSeq
<1>5. SetToSeq(S) \in Injection(1..n, S)
  BY <1>4, Zenon DEF Injection, IsInjective
<1>6. Cardinality(1..n) = n
  BY <1>1, FS_Interval, SMT
<1>7. SetToSeq(S) \in Surjection(1..n, S)
  BY <1>5, <1>6, FS_Injection, Zenon
<1> QED
  BY <1>4, <1>7, Zenon DEF Surjection

-----------------------------------------------------------------------------
\* Nothing is deleted at first.
LEMMA InitOInv == Init => OInv
<1> SUFFICES ASSUME Init PROVE OInv
  OBVIOUS
<1>1. LeftIsKnown
  <2> SUFFICES ASSUME NEW i \in Items, Deleted(i), disk[i] # "gone" PROVE FALSE
    BY DEF LeftIsKnown
  <2>1. i = "attachments"
    BY SMT DEF Init
  <2> QED
    BY <2>1, SMT DEF Init, Deleted
<1>2. LogIsKnown /\ Lists
  BY SMT DEF Init, LogIsKnown, Lists, Idle
<1>3. NoneIsGone
  BY SMT DEF Init, NoneIsGone, Items
<1> QED
  BY <1>1, <1>2, <1>3 DEF OInv

\* A step that deletes nothing, makes no directory of something deleted, and leaves the
\* lists of the calls alone.
LEMMA QuietStep ==
  ASSUME OInv,
         \A c \in Clients : call'[c].todo = call[c].todo /\ call'[c].items = call[c].items,
         \A i \in Items : Deleted(i)' => Deleted(i),
         \A i \in Items : Deleted(i) /\ disk[i] = "gone" => disk'[i] = "gone",
         \A r \in Runs : status'[r] = "none" => status[r] = "none" /\ disk'[r] = disk[r],
         UNCHANGED <<reported, warned, forgotten, unflushed>>
  PROVE  OInv'
<1> USE DEF OInv
<1>1. ASSUME NEW i \in Items, Deleted(i)', disk'[i] # "gone"
      PROVE  Known(i)'
  <2>1. Known(i)
    BY <1>1 DEF LeftIsKnown
  <2> QED
    BY <2>1, SMT DEF Known
<1>2. LogIsKnown'
  BY SMT DEF LogIsKnown
<1>3. Lists'
  BY SMT DEF Lists
<1>4. NoneIsGone'
  BY SMT DEF NoneIsGone
<1> QED
  BY <1>1, <1>2, <1>3, <1>4 DEF LeftIsKnown

\* A call that is answered when it has nothing to remove loses nothing.
LEMMA IdleCalls ==
  ASSUME IInv, NEW c \in Clients, call[c].pc # "purges", call' = [call EXCEPT ![c] = Idle]
  PROVE  \A d \in Clients : call'[d].todo = call[d].todo /\ call'[d].items = call[d].items
<1>1. call[c].todo = <<>> /\ call[c].items = {}
  BY Zenon DEF IInv, Purging
<1>2. call'[c] = Idle /\ \A d \in Clients \ {c} : call'[d] = call[d]
  BY SMT DEF IInv, TypeOK
<1>3. Idle.todo = <<>> /\ Idle.items = {}
  BY SMT DEF Idle
<1> QED
  BY <1>1, <1>2, <1>3, Zenon

\* A call that goes on keeps its lists.
LEMMA MovingCalls ==
  ASSUME IInv, NEW c \in Clients, NEW pc, call' = [call EXCEPT ![c].pc = pc]
  PROVE  \A d \in Clients : call'[d].todo = call[d].todo /\ call'[d].items = call[d].items
BY SMT DEF IInv, TypeOK, Requests

\* Turns delete nothing.
LEMMA TurnsOInv ==
  ASSUME IInv, OInv,
         \/ \E r \in Runs : TurnStarts(r) \/ WriteRef(r) \/ Expires(r)
         \/ TurnRuns \/ TurnSettles \/ TurnEnds \/ WorkerStops \/ WriteBegins
  PROVE  OInv'
<1> USE DEF rows, history, untold, forgotten
<1>1. CASE \/ \E r \in Runs : TurnStarts(r) \/ WriteRef(r)
           \/ TurnEnds \/ WorkerStops \/ WriteBegins
  <2>1. UNCHANGED <<status, session, project, disk, call, reported, warned, forgotten, unflushed>>
    BY <1>1, Zenon DEF TurnStarts, WriteRef, TurnEnds, WorkerStops, WriteBegins
  <2>2. \A i \in Items : Deleted(i)' => Deleted(i)
    BY <2>1, SMT DEF Deleted
  <2> QED
    BY <2>1, <2>2, QuietStep
<1>2. ASSUME NEW r \in Runs, Expires(r) PROVE OInv'
  <2>1. /\ status[r] = "ended" /\ status' = [status EXCEPT ![r] = "expired"]
        /\ UNCHANGED <<session, project, disk, call, reported, warned, forgotten, unflushed>>
    BY <1>2 DEF Expires
  <2>2. \A i \in Items : Deleted(i)' => Deleted(i)
    BY <2>1, SMT DEF Deleted, IInv, TypeOK, Items
  <2>3. \A x \in Runs : status'[x] = "none" => status[x] = "none"
    BY <2>1, SMT DEF IInv, TypeOK
  <2> QED
    BY <2>1, <2>2, <2>3, QuietStep
<1>3. CASE TurnSettles
  <2>1. /\ turn.run \in Runs /\ status[turn.run] = "running"
        /\ status' = [status EXCEPT ![turn.run] = "ended"]
        /\ UNCHANGED <<session, project, disk, call, reported, warned, forgotten, unflushed>>
    BY <1>3, SMT DEF TurnSettles, IInv, Turning
  <2>2. \A i \in Items : Deleted(i)' => Deleted(i)
    BY <2>1, SMT DEF Deleted, IInv, TypeOK, Items
  <2>3. \A x \in Runs : status'[x] = "none" => status[x] = "none"
    BY <2>1, SMT DEF IInv, TypeOK
  <2> QED
    BY <2>1, <2>2, <2>3, QuietStep
<1>4. CASE TurnRuns
  <2>1. /\ turn.run \in Runs /\ status[turn.run] = "none" /\ session
        /\ status' = [status EXCEPT ![turn.run] = "running"]
        /\ disk' = [disk EXCEPT !["home"] = "whole"]
        /\ UNCHANGED <<session, project, call, reported, warned, forgotten, unflushed>>
    BY <1>4, SMT DEF TurnRuns, IInv, Turning
  <2>2. \A i \in Items : Deleted(i)' => Deleted(i)
    BY <2>1, SMT DEF Deleted, IInv, TypeOK, Items
  <2>3. \A x \in Runs : status'[x] = "none" => status[x] = "none" /\ disk'[x] = disk[x]
    BY <2>1, SMT DEF IInv, TypeOK, Items
  <2>4. \A i \in Items : Deleted(i) /\ disk[i] = "gone" => disk'[i] = "gone"
    BY <2>1, SMT DEF Deleted, IInv, TypeOK
  <2> QED
    BY <2>1, <2>2, <2>3, <2>4, QuietStep
<1> QED
  BY <1>1, <1>2, <1>3, <1>4, Zenon

\* The sweep brings nothing back.
LEMMA SweepOInv ==
  ASSUME IInv, OInv,
         \/ SweepList \/ SweepClear \/ SweepSleeps
         \/ \E r \in Runs : SweepPurge(r) \/ SweepPurgeFails(r)
  PROVE  OInv'
<1> USE DEF rows, history, untold, forgotten
<1>1. UNCHANGED <<status, session, project, call, reported, warned, forgotten, unflushed>>
  BY Zenon DEF SweepList, SweepClear, SweepSleeps, SweepPurge, SweepPurgeFails
<1>2. \A i \in Items : Deleted(i)' => Deleted(i)
  BY <1>1, SMT DEF Deleted
<1>3. \A i \in Items : disk[i] = "gone" => disk'[i] = "gone"
  <2>1. CASE SweepList \/ SweepClear \/ SweepSleeps
    BY <2>1, Zenon DEF SweepList, SweepClear, SweepSleeps
  <2>2. ASSUME NEW r \in Runs, SweepPurge(r) \/ SweepPurgeFails(r)
        PROVE  \A i \in Items : disk[i] = "gone" => disk'[i] = "gone"
    BY <2>2, SMT DEF SweepPurge, SweepPurgeFails, IInv, TypeOK
  <2> QED
    BY <2>1, <2>2, Zenon
<1>4. \A r \in Runs : status'[r] = "none" => status[r] = "none"
  BY <1>1
<1>5. \A r \in Runs : status[r] = "none" => disk'[r] = disk[r]
  <2>1. \A r \in sweep.todo : status[r] # "none"
    BY SMT DEF IInv, Payloads, TypeOK
  <2>2. CASE SweepList \/ SweepClear \/ SweepSleeps
    BY <2>2, Zenon DEF SweepList, SweepClear, SweepSleeps
  <2>3. ASSUME NEW r \in Runs, SweepPurge(r) \/ SweepPurgeFails(r)
        PROVE  \A x \in Runs : status[x] = "none" => disk'[x] = disk[x]
    BY <2>1, <2>3, SMT DEF SweepPurge, SweepPurgeFails, IInv, TypeOK, Items
  <2> QED
    BY <2>2, <2>3, Zenon
<1> QED
  BY <1>1, <1>2, <1>3, <1>4, <1>5, QuietStep

\* The late write of a payload is remembered.
LEMMA WriteFileOInv ==
  ASSUME IInv, OInv, NEW r \in Runs, WriteFile(r)
  PROVE  OInv'
<1>1. /\ writer[r] = "writes"
      /\ disk' = [disk EXCEPT ![r] = "whole"]
      /\ forgotten' = IF status[r] = "deleted" THEN forgotten \cup {r} ELSE forgotten
      /\ UNCHANGED <<status, session, project, call, reported, warned, unflushed>>
  <2>1. late' = IF status[r] = "deleted" THEN late \cup {r} ELSE late
    BY DEF WriteFile
  <2>2. UNCHANGED <<died, unheard, raised>>
    BY DEF WriteFile
  <2>3. forgotten' = IF status[r] = "deleted" THEN forgotten \cup {r} ELSE forgotten
    BY <2>1, <2>2, SMT DEF forgotten
  <2> QED
    BY <2>3 DEF WriteFile, rows
<1>2. forgotten \subseteq forgotten' /\ (status[r] = "deleted" => r \in forgotten')
  BY <1>1, Zenon
<1>3. r # "home" /\ r # "attachments" /\ status[r] # "none"
  BY <1>1, SMT DEF IInv, Payloads
<1>4. LeftIsKnown'
  <2> SUFFICES ASSUME NEW i \in Items, Deleted(i)', disk'[i] # "gone" PROVE Known(i)'
    BY DEF LeftIsKnown
  <2>1. CASE i = r
    BY <1>1, <1>2, <1>3, <2>1, SMT DEF Known, Deleted
  <2>2. CASE i # r
    <3>1. Deleted(i) /\ disk[i] # "gone"
      BY <1>1, <2>2, SMT DEF Deleted, IInv, TypeOK
    <3>2. Known(i)
      BY <3>1 DEF OInv, LeftIsKnown
    <3> QED
      BY <1>1, <1>2, <3>2, SMT DEF Known
  <2> QED
    BY <2>1, <2>2
<1>5. LogIsKnown' /\ Lists'
  BY <1>1, <1>2, SMT DEF OInv, LogIsKnown, Lists
<1>6. NoneIsGone'
  BY <1>1, <1>3, SMT DEF OInv, NoneIsGone, IInv, TypeOK, Items
<1> QED
  BY <1>4, <1>5, <1>6 DEF OInv

-----------------------------------------------------------------------------
\* The steps of a call that delete nothing.
LEMMA CallsOInv ==
  ASSUME IInv, OInv, NEW c \in Clients,
         \/ \E kind \in {"session", "exportDelete", "run", "project", "export"},
               r \in Runs \cup {NoRun} : Calls(c, kind, r)
         \/ Guard(c) \/ StopWorker(c) \/ ExportWrites(c) \/ ExportRenames(c)
         \/ ExportSyncs(c) \/ ExportFails(c) \/ Disconnect(c)
  PROVE  OInv'
<1> USE DEF rows, history, untold, forgotten
<1>1. UNCHANGED <<status, session, project, disk, reported, warned, forgotten, unflushed>>
  BY Zenon DEF Calls, Guard, StopWorker, ExportWrites, ExportRenames, ExportSyncs, ExportFails,
     Disconnect
<1>2. \A d \in Clients : call'[d].todo = call[d].todo /\ call'[d].items = call[d].items
  <2>1. ASSUME NEW kind \in {"session", "exportDelete", "run", "project", "export"},
               NEW r \in Runs \cup {NoRun}, Calls(c, kind, r)
        PROVE  \A d \in Clients : call'[d].todo = call[d].todo /\ call'[d].items = call[d].items
    <3> DEFINE q == [Idle EXCEPT !.pc = IF kind \in Guarded THEN "guard" ELSE "ready",
                                 !.kind = kind, !.run = r]
    <3>1. call[c].todo = <<>> /\ call[c].items = {}
      <4>1. call[c].pc = "idle"
        BY <2>1, Zenon DEF Calls
      <4> QED
        BY <4>1, SMT DEF IInv, Purging
    <3>2. q.todo = <<>> /\ q.items = {}
      BY SMT DEF Idle
    <3>3. call' = [call EXCEPT ![c] = q]
      BY <2>1 DEF Calls
    <3> HIDE DEF q
    <3>4. call'[c] = q /\ \A d \in Clients \ {c} : call'[d] = call[d]
      BY <3>3, SMT DEF IInv, TypeOK
    <3> QED
      BY <3>1, <3>2, <3>4, Zenon
  <2>2. CASE Guard(c)
    <3>1. call[c].pc = "guard"
      BY <2>2 DEF Guard
    <3>2. CASE turn.pc # "idle"
      <4>1. call[c].pc # "purges" /\ call' = [call EXCEPT ![c] = Idle]
        BY <2>2, <3>2, SMT DEF Guard
      <4> QED
        BY <4>1, IdleCalls
    <3>3. CASE ~(turn.pc # "idle")
      BY <2>2, <3>1, <3>3, MovingCalls, SMT DEF Guard
    <3> QED
      BY <3>2, <3>3
  <2>3. CASE StopWorker(c) \/ ExportRenames(c)
    BY <2>3, MovingCalls, Zenon DEF StopWorker, ExportRenames
  <2>4. CASE ExportWrites(c)
    <3>1. CASE session
      BY <2>4, <3>1, MovingCalls, Zenon DEF ExportWrites
    <3>2. CASE ~session
      <4>1. call[c].pc # "purges" /\ call' = [call EXCEPT ![c] = Idle]
        BY <2>4, <3>2, SMT DEF ExportWrites, Answers
      <4> QED
        BY <4>1, IdleCalls
    <3> QED
      BY <3>1, <3>2
  <2>5. CASE ExportSyncs(c)
    <3>1. CASE call[c].kind = "export"
      <4>1. call[c].pc # "purges" /\ call' = [call EXCEPT ![c] = Idle]
        BY <2>5, <3>1, SMT DEF ExportSyncs, Answers
      <4> QED
        BY <4>1, IdleCalls
    <3>2. CASE call[c].kind # "export"
      BY <2>5, <3>2, MovingCalls, Zenon DEF ExportSyncs
    <3> QED
      BY <3>1, <3>2
  <2>6. CASE ExportFails(c)
    <3>1. call[c].pc # "purges" /\ call' = [call EXCEPT ![c] = Idle]
      BY <2>6, SMT DEF ExportFails, Answers
    <3> QED
      BY <3>1, IdleCalls
  <2>7. CASE Disconnect(c)
    <3>1. CASE thread = c
      <4>1. call' = [call EXCEPT ![c].heard = FALSE]
        BY <2>7, <3>1 DEF Disconnect
      <4> QED
        BY <4>1, SMT DEF IInv, TypeOK, Requests
    <3>2. CASE thread # c
      <4>1. call[c].pc # "purges"
        BY <3>2, SMT DEF IInv, Locking
      <4>2. call' = [call EXCEPT ![c] = Idle]
        BY <2>7, <3>2 DEF Disconnect
      <4> QED
        BY <4>1, <4>2, IdleCalls
    <3> QED
      BY <3>1, <3>2
  <2> QED
    BY <2>1, <2>2, <2>3, <2>4, <2>5, <2>6, <2>7, Zenon
<1>3. \A i \in Items : Deleted(i)' => Deleted(i)
  BY <1>1, SMT DEF Deleted
<1> QED
  BY <1>1, <1>2, <1>3, QuietStep

\* A deletion that is refused.
LEMMA RefusedOInv ==
  ASSUME IInv, OInv, NEW c \in Clients, Begins(c), Answers(c),
         UNCHANGED <<status, session, project, disk, reported, warned, forgotten, unflushed>>
  PROVE  OInv'
<1>1. call[c].pc # "purges" /\ call' = [call EXCEPT ![c] = Idle]
  BY SMT DEF Begins, Answers
<1>2. \A d \in Clients : call'[d].todo = call[d].todo /\ call'[d].items = call[d].items
  BY <1>1, IdleCalls
<1>3. \A i \in Items : Deleted(i)' => Deleted(i)
  BY SMT DEF Deleted
<1> QED
  BY <1>2, <1>3, QuietStep

\* The transaction of a deletion: what it deletes, and is still there, is on its list.
LEMMA CommittedOInv ==
  ASSUME IInv, OInv, NEW c \in Clients, NEW items \in SUBSET Items, NEW todo \in Seq(Items),
         Commits(c, items, todo), Begins(c),
         \A i \in Items : Deleted(i)' => \/ Deleted(i) \/ disk[i] = "gone"
                                         \/ \E k \in DOMAIN todo : todo[k] = i,
         \A k \in DOMAIN todo : /\ todo[k] \in items
                                /\ todo[k] = "attachments" => todo = <<"attachments">>,
         \A r \in Runs : status'[r] = "none" => status[r] = "none",
         UNCHANGED <<disk, reported, warned, forgotten>>
  PROVE  OInv'
<1>1. /\ call'[c].todo = todo /\ call'[c].items = items
      /\ call[c].todo = <<>> /\ call[c].items = {}
      /\ \A d \in Clients \ {c} : call'[d] = call[d]
      /\ unflushed' = unflushed \cup items
  <2>1. call[c].todo = <<>> /\ call[c].items = {}
    BY SMT DEF IInv, Purging, Begins
  <2>2. /\ call'[c] = [call[c] EXCEPT !.pc = "purges", !.items = items, !.todo = todo]
        /\ call[c] \in Requests
        /\ \A d \in Clients \ {c} : call'[d] = call[d]
    BY SMT DEF Commits, IInv, TypeOK
  <2>3. call'[c].todo = todo /\ call'[c].items = items
    BY <2>2, SMT DEF Requests
  <2> QED
    BY <2>1, <2>2, <2>3 DEF Commits
<1>2. LeftIsKnown'
  <2> SUFFICES ASSUME NEW i \in Items, Deleted(i)', disk'[i] # "gone" PROVE Known(i)'
    BY DEF LeftIsKnown
  <2>1. CASE Deleted(i)
    <3>1. Known(i)
      BY <2>1 DEF OInv, LeftIsKnown
    <3> QED
      BY <1>1, <3>1, SMT DEF Known
  <2>2. CASE \E k \in DOMAIN todo : todo[k] = i
    BY <1>1, <2>2, SMT DEF Known
  <2> QED
    BY <2>1, <2>2
<1>3. LogIsKnown'
  BY <1>1, SMT DEF OInv, LogIsKnown
<1>4. Lists'
  <2> SUFFICES ASSUME NEW d \in Clients
               PROVE  (\A k \in DOMAIN call[d].todo :
                         /\ call[d].todo[k] \in call[d].items
                         /\ call[d].todo[k] = "attachments" => call[d].todo = <<"attachments">>)'
    BY DEF Lists
  <2>1. CASE d = c
    BY <1>1, <2>1
  <2>2. CASE d # c
    BY <1>1, <2>2 DEF OInv, Lists
  <2> QED
    BY <2>1, <2>2
<1>5. NoneIsGone'
  BY SMT DEF OInv, NoneIsGone
<1> QED
  BY <1>2, <1>3, <1>4, <1>5 DEF OInv

\* session.delete lists every Run that has a row, and the home.
LEMMA DeleteSessionOInv ==
  ASSUME IInv, OInv, NEW c \in Clients, DeleteSession(c)
  PROVE  OInv'
<1> DEFINE mine == {r \in Runs : HasRow(r)}
           items == mine \cup {"home"}
           todo == SetToSeq(mine) \o <<"home">>
<1>1. Begins(c) /\ UNCHANGED <<disk, reported, warned, forgotten>>
  BY DEF DeleteSession, untold, forgotten
<1>2. CASE Answers(c) /\ UNCHANGED <<rows, unflushed, by>>
  BY <1>1, <1>2, RefusedOInv DEF rows
<1>3. CASE /\ session
           /\ Commits(c, items, todo)
           /\ session' = FALSE
           /\ status' = [r \in Runs |-> "deleted"]
           /\ UNCHANGED project
  <2>1. todo \in Seq(items) /\ todo \in Seq(Items) /\ items \in SUBSET Items
    <3>1. todo \in Seq(items)
      BY ListOfSession, Zenon
    <3> QED
      BY <3>1, SMT DEF Items
  <2>2. \A i \in items : \E k \in DOMAIN todo : todo[k] = i
    <3> DEFINE s == SetToSeq(mine)
    <3>1. IsFiniteSet(mine)
      BY FS_Subset, Zenon
    <3>2. s \in Seq(mine) /\ \A x \in mine : \E k \in DOMAIN s : s[k] = x
      BY <3>1, ListOfSet, ListIsWhole, Zenon
    <3> HIDE DEF s, mine
    <3>3. /\ Len(s) + 1 \in DOMAIN (s \o <<"home">>) /\ (s \o <<"home">>)[Len(s) + 1] = "home"
          /\ \A k \in DOMAIN s : k \in DOMAIN (s \o <<"home">>) /\ (s \o <<"home">>)[k] = s[k]
      BY <3>2, SMT
    <3> QED
      BY <3>2, <3>3, Zenon DEF s
  <2>3. \A k \in DOMAIN todo : todo[k] \in items /\ todo[k] # "attachments"
    <3> HIDE DEF todo
    <3>1. "attachments" \notin items
      BY SMT
    <3> QED
      BY <2>1, <3>1, SMT
  <2>4. \A i \in Items : Deleted(i)' => Deleted(i) \/ disk[i] = "gone" \/ i \in items
    <3>1. \A r \in Runs : \/ (status[r] = "none" /\ disk[r] = "gone")
                          \/ status[r] = "deleted" \/ HasRow(r)
      BY Zenon DEF OInv, NoneIsGone, HasRow
    <3>2. Deleted("attachments")' => Deleted("attachments")
      BY <1>3, SMT DEF Deleted
    <3>3. \A r \in Runs : status[r] = "deleted" => Deleted(r)
      BY SMT DEF Deleted
    <3> QED
      BY <3>1, <3>2, <3>3, SMT DEF Items
  <2>5. \A r \in Runs : status'[r] # "none"
    BY <1>3, SMT
  <2> HIDE DEF mine, items, todo
  <2>6. \A i \in Items : Deleted(i)' => \/ Deleted(i) \/ disk[i] = "gone"
                                       \/ \E k \in DOMAIN todo : todo[k] = i
    BY <2>2, <2>4, Zenon
  <2> QED
    BY <1>1, <1>3, <2>1, <2>3, <2>5, <2>6, CommittedOInv
<1> QED
  BY <1>2, <1>3, Zenon DEF DeleteSession

\* run.delete lists its Run.
LEMMA DeleteRunOInv ==
  ASSUME IInv, OInv, NEW c \in Clients, DeleteRun(c)
  PROVE  OInv'
<1> DEFINE r == call[c].run
<1>1. Begins(c) /\ UNCHANGED <<disk, reported, warned, forgotten>>
  BY DEF DeleteRun, history, untold, forgotten
<1>2. CASE Answers(c) /\ UNCHANGED <<rows, unflushed>>
  BY <1>1, <1>2, RefusedOInv DEF rows
<1>3. CASE /\ Commits(c, {r}, <<r>>)
           /\ status' = [status EXCEPT ![r] = "deleted"]
           /\ UNCHANGED <<session, project>>
  <2>1. r \in Runs
    BY SMT DEF DeleteRun, IInv, Locking
  <2> HIDE DEF r
  <2>2. {r} \in SUBSET Items /\ <<r>> \in Seq(Items) /\ r # "attachments"
    BY <2>1, SMT DEF Items
  <2>3. \A k \in DOMAIN <<r>> : <<r>>[k] = r
    BY SMT
  <2>4. 1 \in DOMAIN <<r>> /\ <<r>>[1] = r
    BY SMT
  <2>5. \A i \in Items : Deleted(i)' => Deleted(i) \/ i = r
    BY <1>3, <2>1, SMT DEF Deleted, IInv, TypeOK, Items
  <2>6. \A x \in Runs : status'[x] = "none" => status[x] = "none"
    BY <1>3, <2>1, SMT DEF IInv, TypeOK
  <2> DEFINE todo == <<r>>
             items == {r}
  <2>7. \A i \in Items : Deleted(i)' => \/ Deleted(i) \/ disk[i] = "gone"
                                       \/ \E k \in DOMAIN todo : todo[k] = i
    BY <2>4, <2>5, Zenon
  <2>8. \A k \in DOMAIN todo : todo[k] \in items /\ todo[k] # "attachments"
    BY <2>2, <2>3, Zenon
  <2>9. Commits(c, items, todo) /\ items \in SUBSET Items /\ todo \in Seq(Items)
    BY <1>3, <2>2
  <2> HIDE DEF todo, items
  <2> QED
    BY <1>1, <2>6, <2>7, <2>8, <2>9, CommittedOInv
<1> QED
  BY <1>2, <1>3, Zenon DEF DeleteRun

\* project.delete lists the attachments.
LEMMA DeleteProjectOInv ==
  ASSUME IInv, OInv, NEW c \in Clients, DeleteProject(c)
  PROVE  OInv'
<1>1. Begins(c) /\ UNCHANGED <<disk, reported, warned, forgotten>>
  BY DEF DeleteProject, history, untold, forgotten
<1>2. CASE Answers(c) /\ UNCHANGED <<rows, unflushed>>
  BY <1>1, <1>2, RefusedOInv DEF rows
<1>3. CASE /\ Commits(c, {"attachments"}, <<"attachments">>)
           /\ project' = FALSE
           /\ UNCHANGED <<status, refs, session>>
  <2>1. {"attachments"} \in SUBSET Items /\ <<"attachments">> \in Seq(Items)
    BY SMT DEF Items
  <2>2. \A k \in DOMAIN <<"attachments">> : <<"attachments">>[k] = "attachments"
    BY SMT
  <2>3. 1 \in DOMAIN <<"attachments">> /\ <<"attachments">>[1] = "attachments"
    BY SMT
  <2>4. \A i \in Items : Deleted(i)' => Deleted(i) \/ i = "attachments"
    BY <1>3, SMT DEF Deleted
  <2> QED
    BY <1>1, <1>3, <2>1, <2>2, <2>3, <2>4, CommittedOInv, Zenon
<1> QED
  BY <1>2, <1>3, Zenon DEF DeleteProject

-----------------------------------------------------------------------------
\* One directory less.
LEMMA PurgeOInv ==
  ASSUME IInv, OInv, NEW c \in Clients, Purge(c)
  PROVE  OInv'
<1> DEFINE s == call[c].todo
<1>1. /\ s # <<>>
      /\ disk' = [disk EXCEPT ![Head(s)] = "gone"]
      /\ call' = [call EXCEPT ![c].todo = Tail(s)]
      /\ UNCHANGED <<status, session, project, reported, warned, forgotten, unflushed>>
  BY DEF Purge, rows, history, untold, forgotten
<1>2. s \in Seq(Items) /\ call[c] \in Requests
  BY SMT DEF IInv, TypeOK, Requests
<1>3. /\ call'[c].todo = Tail(s) /\ call'[c].items = call[c].items
      /\ \A d \in Clients \ {c} : call'[d] = call[d]
  BY <1>1, <1>2, SMT DEF IInv, TypeOK, Requests
<1>4. \A k \in DOMAIN s : /\ s[k] \in call[c].items
                          /\ s[k] = "attachments" => s = <<"attachments">>
  BY DEF OInv, Lists
<1> HIDE DEF s
<1>5. /\ Head(s) \in Items
      /\ \A k \in DOMAIN s : s[k] = Head(s) \/ \E j \in DOMAIN Tail(s) : Tail(s)[j] = s[k]
      /\ \A j \in DOMAIN Tail(s) : j + 1 \in DOMAIN s /\ Tail(s)[j] = s[j + 1]
  <2>1. /\ Head(s) = s[1] /\ 1 \in DOMAIN s
        /\ \A j \in DOMAIN Tail(s) : j + 1 \in DOMAIN s /\ Tail(s)[j] = s[j + 1]
    BY <1>1, <1>2, SMT
  <2>2. ASSUME NEW k \in DOMAIN s, k # 1
        PROVE  k - 1 \in DOMAIN Tail(s) /\ Tail(s)[k - 1] = s[k]
    BY <1>1, <1>2, <2>2, SMT
  <2>3. Head(s) \in Items
    BY <1>1, <1>2, SMT
  <2>4. ASSUME NEW k \in DOMAIN s
        PROVE  s[k] = Head(s) \/ \E j \in DOMAIN Tail(s) : Tail(s)[j] = s[k]
    BY <2>1, <2>2, Zenon
  <2> QED
    BY <2>1, <2>3, <2>4
<1>6. LeftIsKnown'
  <2> SUFFICES ASSUME NEW i \in Items, Deleted(i)', disk'[i] # "gone" PROVE Known(i)'
    BY DEF LeftIsKnown
  <2>1. i # Head(s) /\ disk[i] # "gone" /\ Deleted(i)
    BY <1>1, <1>5, SMT DEF IInv, TypeOK, Deleted
  <2>2. \/ i \in reported \cup forgotten
        \/ (i = "home" /\ i \in warned)
        \/ \E d \in Clients : \E k \in DOMAIN call[d].todo : call[d].todo[k] = i
    <3>1. Known(i)
      BY <2>1 DEF OInv, LeftIsKnown
    <3> QED
      BY <3>1, SMT DEF Known
  <2>3. CASE i \in reported \cup forgotten \/ (i = "home" /\ i \in warned)
    BY <1>1, <2>3, SMT DEF Known
  <2>4. ASSUME NEW d \in Clients, NEW k \in DOMAIN call[d].todo, call[d].todo[k] = i
        PROVE  Known(i)'
    <3>1. CASE d = c
      <4>1. \E j \in DOMAIN Tail(s) : Tail(s)[j] = i
        BY <1>5, <2>1, <2>4, <3>1, Zenon DEF s
      <4> QED
        BY <1>3, <4>1, SMT DEF Known
    <3>2. CASE d # c
      BY <1>3, <2>4, <3>2, SMT DEF Known
    <3> QED
      BY <3>1, <3>2
  <2> QED
    BY <2>2, <2>3, <2>4, Zenon
<1>7. LogIsKnown'
  BY <1>1, <1>3, SMT DEF OInv, LogIsKnown
<1>8. Lists'
  <2>1. \A j \in DOMAIN Tail(s) : /\ Tail(s)[j] \in call[c].items
                                  /\ Tail(s)[j] # "attachments"
    <3>1. s = <<"attachments">> => Tail(s) = <<>>
      BY SMT
    <3> QED
      BY <1>4, <1>5, <3>1, SMT
  <2>2. \A d \in Clients \ {c} : \A k \in DOMAIN call[d].todo :
          /\ call[d].todo[k] \in call[d].items
          /\ call[d].todo[k] = "attachments" => call[d].todo = <<"attachments">>
    BY DEF OInv, Lists
  <2> SUFFICES ASSUME NEW d \in Clients, NEW k \in DOMAIN call'[d].todo
               PROVE  /\ call'[d].todo[k] \in call'[d].items
                      /\ call'[d].todo[k] = "attachments" => call'[d].todo = <<"attachments">>
    BY DEF Lists
  <2>3. CASE d = c
    BY <1>3, <2>1, <2>3
  <2>4. CASE d # c
    BY <1>3, <2>2, <2>4
  <2> QED
    BY <2>3, <2>4
<1>9. NoneIsGone'
  BY <1>1, <1>5, SMT DEF OInv, NoneIsGone, IInv, TypeOK, Items
<1> QED
  BY <1>6, <1>7, <1>8, <1>9 DEF OInv

\* Everything is removed: the log is moved into the database file, or the clients are told
\* that it is not, or nobody is.
LEMMA FlushesOInv ==
  ASSUME IInv, OInv, NEW c \in Clients, Flush(c) \/ FlushBusy(c) \/ FlushRaises(c)
  PROVE  OInv'
<1>1. /\ call[c].pc = "purges" /\ call[c].todo = <<>> /\ call' = [call EXCEPT ![c] = Idle]
      /\ UNCHANGED <<status, session, project, disk>>
  BY Zenon DEF Flush, FlushBusy, FlushRaises, Answers, rows
<1>2. /\ reported \subseteq reported' /\ warned \subseteq warned' /\ forgotten \subseteq forgotten'
      /\ \/ unflushed' = {}
         \/ unflushed' = unflushed /\ call[c].items \subseteq warned' \cup forgotten'
  <2>1. CASE Flush(c)
    <3>1. UNCHANGED <<reported, warned, forgotten>> /\ unflushed' = {}
      BY <2>1 DEF Flush, history, untold, forgotten
    <3> QED
      BY <3>1, SMT
  <2>2. CASE FlushBusy(c)
    <3>1. Tells(c, {}) /\ unflushed' = unflushed
      BY <2>2 DEF FlushBusy
    <3> QED
      BY <3>1, SMT DEF Tells, forgotten
  <2>3. CASE FlushRaises(c)
    <3>1. /\ raised' = raised \cup call[c].items /\ unflushed' = unflushed
          /\ UNCHANGED <<reported, warned, died, late, unheard>>
      BY <2>3 DEF FlushRaises
    <3> QED
      BY <3>1, SMT DEF forgotten
  <2> QED
    BY <2>1, <2>2, <2>3
<1>3. /\ call'[c].todo = <<>> /\ call'[c].items = {}
      /\ \A d \in Clients \ {c} : call'[d] = call[d]
  BY <1>1, SMT DEF IInv, TypeOK, Idle
<1>4. LeftIsKnown'
  <2> SUFFICES ASSUME NEW i \in Items, Deleted(i)', disk'[i] # "gone" PROVE Known(i)'
    BY DEF LeftIsKnown
  <2>1. Known(i)
    BY <1>1, SMT DEF OInv, LeftIsKnown, Deleted
  <2> QED
    BY <1>1, <1>2, <1>3, <2>1, SMT DEF Known
<1>5. LogIsKnown'
  BY <1>2, <1>3, SMT DEF OInv, LogIsKnown
<1>6. Lists'
  BY <1>3, SMT DEF OInv, Lists
<1>7. NoneIsGone'
  BY <1>1 DEF OInv, NoneIsGone
<1> QED
  BY <1>4, <1>5, <1>6, <1>7 DEF OInv

\* A removal that fails names what remains, to whoever is there to hear it.
LEMMA PurgeFailsOInv ==
  ASSUME IInv, OInv, NEW c \in Clients, PurgeFails(c)
  PROVE  OInv'
<1> DEFINE s == call[c].todo
           named == {Head(s)} \cup (Range(s) \cap Runs)
<1>1. /\ s # <<>> /\ call' = [call EXCEPT ![c] = Idle]
      /\ disk[Head(s)] # "gone"
      /\ disk' = [disk EXCEPT ![Head(s)] = "part"]
      /\ UNCHANGED <<status, session, project, unflushed>>
  BY DEF PurgeFails, Answers, rows
<1>2. /\ reported \subseteq reported' /\ warned \subseteq warned' /\ forgotten \subseteq forgotten'
      /\ \/ named \subseteq reported' /\ call[c].items \subseteq warned'
         \/ call[c].items \subseteq forgotten'
  <2>1. Tells(c, named)
    BY DEF PurgeFails
  <2> HIDE DEF named
  <2> QED
    BY <2>1, SMT DEF Tells, forgotten
<1>3. s \in Seq(Items)
  BY SMT DEF IInv, TypeOK, Requests
<1>4. /\ call'[c].todo = <<>> /\ call'[c].items = {}
      /\ \A d \in Clients \ {c} : call'[d] = call[d]
  BY <1>1, SMT DEF IInv, TypeOK, Idle
<1>5. \A k \in DOMAIN s : /\ s[k] \in call[c].items
                          /\ s[k] = "attachments" => s = <<"attachments">>
  BY DEF OInv, Lists
<1> HIDE DEF s
<1>6. Head(s) \in Items
  BY <1>1, <1>3, SMT
<1>7. ASSUME NEW k \in DOMAIN s
      PROVE  s[k] \in reported' \cup forgotten' \/ (s[k] = "home" /\ s[k] \in warned')
  <2>1. CASE call[c].items \subseteq forgotten'
    BY <1>5, <2>1, Zenon
  <2>2. CASE named \subseteq reported' /\ call[c].items \subseteq warned'
    <3>1. CASE s[k] \in Runs
      <4>1. s[k] \in Range(s)
        BY Zenon DEF Range
      <4> QED
        BY <2>2, <3>1, <4>1, Zenon
    <3>2. CASE s[k] = "home"
      BY <1>5, <2>2, <3>2, Zenon
    <3>3. CASE s[k] = "attachments"
      <4>1. Head(s) = "attachments"
        BY <1>5, <3>3, SMT
      <4> QED
        BY <2>2, <3>3, <4>1, Zenon
    <3> QED
      BY <1>3, <3>1, <3>2, <3>3, SMT DEF Items
  <2> QED
    BY <1>2, <2>1, <2>2
<1> HIDE DEF named
<1>8. LeftIsKnown'
  <2> SUFFICES ASSUME NEW i \in Items, Deleted(i)', disk'[i] # "gone" PROVE Known(i)'
    BY DEF LeftIsKnown
  <2>1. Deleted(i) /\ disk[i] # "gone"
    BY <1>1, <1>6, SMT DEF Deleted, IInv, TypeOK
  <2>2. \/ i \in reported \cup forgotten
        \/ (i = "home" /\ i \in warned)
        \/ \E d \in Clients : \E k \in DOMAIN call[d].todo : call[d].todo[k] = i
    <3>1. Known(i)
      BY <2>1 DEF OInv, LeftIsKnown
    <3> QED
      BY <3>1, SMT DEF Known
  <2>3. CASE i \in reported \cup forgotten \/ (i = "home" /\ i \in warned)
    BY <1>2, <2>3, SMT DEF Known
  <2>4. ASSUME NEW d \in Clients, NEW k \in DOMAIN call[d].todo, call[d].todo[k] = i
        PROVE  Known(i)'
    <3>1. CASE d = c
      BY <1>7, <2>4, <3>1, SMT DEF Known, s
    <3>2. CASE d # c
      BY <1>4, <2>4, <3>2, SMT DEF Known
    <3> QED
      BY <3>1, <3>2
  <2> QED
    BY <2>2, <2>3, <2>4, Zenon
<1>9. LogIsKnown'
  BY <1>1, <1>2, <1>4, SMT DEF OInv, LogIsKnown
<1>10. Lists'
  BY <1>4, SMT DEF OInv, Lists
<1>11. NoneIsGone'
  BY <1>1, <1>6, SMT DEF OInv, NoneIsGone, IInv, TypeOK, Items
<1> QED
  BY <1>8, <1>9, <1>10, <1>11 DEF OInv

\* The daemon dies: what its calls were about is forgotten.
LEMMA CrashOInv ==
  ASSUME IInv, OInv, Crash
  PROVE  OInv'
<1>1. /\ status' = [r \in Runs |-> IF status[r] = "running" THEN "ended" ELSE status[r]]
      /\ call' = [c \in Clients |-> Idle]
      /\ forgotten' = forgotten \cup UNION {call[c].items : c \in Clients}
      /\ UNCHANGED <<session, project, disk, unflushed, reported, warned>>
  <2>1. died' = died \cup UNION {call[c].items : c \in Clients} /\ UNCHANGED <<late, unheard, raised>>
    BY DEF Crash
  <2>2. forgotten' = forgotten \cup UNION {call[c].items : c \in Clients}
    BY <2>1, SMT DEF forgotten
  <2> QED
    BY <2>2 DEF Crash
<1>2. \A c \in Clients : call'[c].todo = <<>> /\ call'[c].items = {}
  BY <1>1, SMT DEF Idle
<1>3. forgotten \subseteq forgotten' /\ \A c \in Clients : call[c].items \subseteq forgotten'
  BY <1>1, Zenon
<1>4. LeftIsKnown'
  <2> SUFFICES ASSUME NEW i \in Items, Deleted(i)', disk'[i] # "gone" PROVE Known(i)'
    BY DEF LeftIsKnown
  <2>1. Deleted(i) /\ disk[i] # "gone"
    BY <1>1, SMT DEF Deleted, Items
  <2>2. Known(i)
    BY <2>1 DEF OInv, LeftIsKnown
  <2>3. ASSUME NEW d \in Clients, NEW k \in DOMAIN call[d].todo, call[d].todo[k] = i
        PROVE  i \in forgotten'
    BY <1>3, <2>3, Zenon DEF OInv, Lists
  <2> QED
    BY <1>1, <1>3, <2>2, <2>3, Zenon DEF Known
<1>5. LogIsKnown'
  BY <1>1, <1>3, Zenon DEF OInv, LogIsKnown
<1>6. Lists'
  BY <1>2, SMT DEF Lists
<1>7. NoneIsGone'
  BY <1>1, SMT DEF OInv, NoneIsGone
<1> QED
  BY <1>4, <1>5, <1>6, <1>7 DEF OInv

-----------------------------------------------------------------------------
\* The inductive step, IInv being given.
LEMMA StepOInv == IInv /\ OInv /\ [Next]_vars => OInv'
<1> SUFFICES ASSUME IInv, OInv, [Next]_vars PROVE OInv'
  OBVIOUS
<1>1. CASE \E r \in Runs : TurnStarts(r) \/ WriteFile(r) \/ WriteRef(r) \/ Expires(r)
  BY <1>1, TurnsOInv, WriteFileOInv, Zenon
<1>2. CASE TurnRuns \/ TurnSettles \/ TurnEnds \/ WorkerStops \/ WriteBegins
  BY <1>2, TurnsOInv, Zenon
<1>3. CASE \/ SweepList \/ SweepClear \/ SweepSleeps
           \/ \E r \in Runs : SweepPurge(r) \/ SweepPurgeFails(r)
  BY <1>3, SweepOInv, Zenon
<1>4. ASSUME NEW c \in Clients,
             \E kind \in {"session", "exportDelete", "run", "project", "export"},
                r \in Runs \cup {NoRun} : Calls(c, kind, r)
      PROVE  OInv'
  BY <1>4, CallsOInv, Zenon
<1>5. ASSUME NEW c \in Clients,
             \/ Work(c) \/ PurgeFails(c) \/ FlushBusy(c) \/ FlushRaises(c)
             \/ ExportFails(c) \/ Disconnect(c)
      PROVE  OInv'
  <2>1. CASE \/ Guard(c) \/ StopWorker(c) \/ ExportWrites(c) \/ ExportRenames(c)
             \/ ExportSyncs(c) \/ ExportFails(c) \/ Disconnect(c)
    BY <2>1, CallsOInv, Zenon
  <2>2. CASE DeleteSession(c) \/ DeleteRun(c) \/ DeleteProject(c)
    BY <2>2, DeleteSessionOInv, DeleteRunOInv, DeleteProjectOInv, Zenon
  <2>3. CASE Purge(c) \/ Flush(c) \/ PurgeFails(c) \/ FlushBusy(c) \/ FlushRaises(c)
    BY <2>3, PurgeOInv, FlushesOInv, PurgeFailsOInv, Zenon
  <2> QED
    BY <1>5, <2>1, <2>2, <2>3, Zenon DEF Work
<1>6. CASE Crash
  BY <1>6, CrashOInv
<1>7. CASE UNCHANGED vars
  <2>1. UNCHANGED <<status, session, project, disk, call, reported, warned, forgotten, unflushed>>
    BY <1>7 DEF vars, rows, history, untold, forgotten
  <2>2. \A i \in Items : Deleted(i)' => Deleted(i)
    BY <2>1, SMT DEF Deleted
  <2> QED
    BY <2>1, <2>2, QuietStep
<1> QED
  BY <1>1, <1>2, <1>3, <1>4, <1>5, <1>6, <1>7, Zenon DEF Next

\* A deletion has two outcomes (ruling R-O1 of store/maintenance.py): it is complete, in the
\* directories and in the database file, or what remains was named to the clients.  What
\* was left behind in silence is accounted for by four causes and no fifth: the daemon died
\* in the deletion, a payload came late, the client was gone before the deletion failed, or
\* the checkpoint raised an error nothing translates; for any number of Runs and calls.
THEOREM DeletionIsHonest == Spec => []LeftoversAreKnown
<1>1. OInv => LeftoversAreKnown
  BY OutcomesFollow
<1> QED
  BY <1>1, InitOInv, StepOInv, StoreInvariance, PTL DEF Spec
=============================================================================
