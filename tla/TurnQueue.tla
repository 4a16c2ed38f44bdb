------------------------------ MODULE TurnQueue ------------------------------
(***************************************************************************)
(* What a Session promises its user about messages (docs/PRD.md 9.2, 9.3): *)
(* one Turn runs at a time; messages sent meanwhile wait in a queue that   *)
(* the user may edit; a completed Turn is followed by the first of them; a *)
(* terminated Turn is not: the queue is kept until the user resumes it.    *)
(* A message may be lost, by a failure that leaves nobody in charge of it; *)
(* that is no outcome, and it keeps no other message from its turn.        *)
(*                                                                         *)
(* The specification SessionTurns implements, with none of its coroutines, *)
(* locks, workers or database calls.                                       *)
(***************************************************************************)
EXTENDS Sequences, Integers

CONSTANTS Turns, NoTurn

VARIABLES
  status,    \* of each Turn
  pending,   \* the queue
  current    \* the Turn that runs, or has ended and is not yet followed

vars == <<status, pending, current>>

Statuses == {"none", "queued", "running", "completed", "terminated", "cancelled", "lost"}

TypeOK ==
  /\ status \in [Turns -> Statuses]
  /\ pending \in Seq(Turns)
  /\ current \in Turns \cup {NoTurn}

Init ==
  /\ status = [t \in Turns |-> "none"]
  /\ pending = <<>>
  /\ current = NoTurn

\* A message sent while nothing runs starts, before those kept in a suspended queue.
SendNow(t) ==
  /\ current = NoTurn /\ status[t] = "none"
  /\ current' = t
  /\ status' = [status EXCEPT ![t] = "running"]
  /\ UNCHANGED pending

\* A message sent while a Turn runs waits at the end of the queue.
SendLater(t) ==
  /\ current # NoTurn /\ status[t] = "none"
  /\ pending' = Append(pending, t)
  /\ status' = [status EXCEPT ![t] = "queued"]
  /\ UNCHANGED current

\* The Turn that runs ends; its outcome is never revised.
End(outcome) ==
  /\ current # NoTurn /\ status[current] = "running"
  /\ status' = [status EXCEPT ![current] = outcome]
  /\ UNCHANGED <<pending, current>>

\* The failures that lose a message: the current one before it runs, the last before it is
\* queued, the record of one taken back.
LoseCurrent ==
  /\ current # NoTurn /\ status[current] = "running"
  /\ status' = [status EXCEPT ![current] = "lost"]
  /\ current' = NoTurn
  /\ UNCHANGED pending

LoseLast ==
  /\ pending # <<>>
  /\ status' = [status EXCEPT ![pending[Len(pending)]] = "lost"]
  /\ pending' = SubSeq(pending, 1, Len(pending) - 1)
  /\ UNCHANGED current

LoseRecord(t) ==
  /\ status[t] = "cancelled"
  /\ status' = [status EXCEPT ![t] = "lost"]
  /\ UNCHANGED <<pending, current>>

\* The first of the queue becomes the current Turn.
StartFirst ==
  /\ pending # <<>>
  /\ current' = Head(pending)
  /\ pending' = Tail(pending)
  /\ status' = [status EXCEPT ![Head(pending)] = "running"]

\* A Turn that was completed, or lost, is followed by the first pending message, if any.
Advance ==
  /\ current # NoTurn /\ status[current] \in {"completed", "lost"}
  /\ \/ StartFirst
     \/ pending = <<>> /\ current' = NoTurn /\ UNCHANGED <<status, pending>>

\* A terminated Turn is followed by nothing.
Suspend ==
  /\ current # NoTurn /\ status[current] = "terminated"
  /\ current' = NoTurn
  /\ UNCHANGED <<status, pending>>

\* The user continues a suspended queue.
Resume == current = NoTurn /\ StartFirst

\* The user takes a message back.
Remove(i) ==
  /\ pending' = SubSeq(pending, 1, i - 1) \o SubSeq(pending, i + 1, Len(pending))
  /\ status' = [status EXCEPT ![pending[i]] = "cancelled"]
  /\ UNCHANGED current

\* Any rearrangement of the same messages.
Reorder ==
  /\ \E f \in [DOMAIN pending -> DOMAIN pending] :
       /\ \A i, j \in DOMAIN pending : f[i] = f[j] => i = j
       /\ \A j \in DOMAIN pending : \E i \in DOMAIN pending : f[i] = j
       /\ pending' = [i \in DOMAIN pending |-> pending[f[i]]]
  /\ UNCHANGED <<status, current>>

Next ==
  \/ \E t \in Turns : SendNow(t) \/ SendLater(t)
  \/ End("completed") \/ End("terminated") \/ End("lost")
  \/ LoseCurrent \/ LoseLast \/ \E t \in Turns : LoseRecord(t)
  \/ Advance \/ Suspend \/ Resume
  \/ \E i \in DOMAIN pending : Remove(i)
  \/ Reorder

Spec == Init /\ [][Next]_vars

\* The queue holds each message that waits, once, and nothing else; only the current Turn
\* runs (what the user sees in the queue panel, docs/PRD.md 9.2).
Exact ==
  /\ \A i, j \in DOMAIN pending : pending[i] = pending[j] => i = j
  /\ \A i \in DOMAIN pending : status[pending[i]] = "queued"
  /\ \A t \in Turns : status[t] = "queued" => \E i \in DOMAIN pending : pending[i] = t
  /\ \A t \in Turns : status[t] = "running" => t = current
=============================================================================
