------------------------------ MODULE UserGate ------------------------------
(***************************************************************************)
(* The user gate of one Session (daemon/sessions/service.py): the          *)
(* permission requests of its agent, from their arrival on the ACP client  *)
(* to the answer, against decisions of clients, the approval timeout, stop *)
(* and the death or recycling of the worker.                               *)
(*                                                                         *)
(* As in SessionTurns, a step is the code from one await to the next, and  *)
(* a database call takes effect in the step that makes it.  Here awaits    *)
(* with nothing but reads or broadcasts between them are one, and they     *)
(* come back in any order: more behaviours than the single database thread *)
(* has.  What the review and terminal gates decide is a request's route.   *)
(***************************************************************************)
EXTENDS Integers

CONSTANTS
  Requests,    \* session/request_permission calls of the agent
  Clients,     \* concurrent permission.decide calls
  NoRequest,
  Enabled,     \* which of the optional Behaviours an instance has
  MaxTurns     \* bound on the Turns of the session

Behaviours ==
  {"rule",      \* requests the review or terminal gate settles by itself
   "timeout",   \* requests with an approval timeout
   "giveUp",    \* Hermes's own timeout on edit approvals
   "stop", "budget", "exit", "recycle",
   "disconnect"} \* the connection of a client is lost: its calls are cancelled

ASSUME GateAssumption ==
  /\ Enabled \subseteq Behaviours
  /\ MaxTurns \in Nat
  /\ NoRequest \notin Requests

VARIABLES
  (* permission_decisions *)
  decision,    \* of each request, "none" before the row exists
  decidedBy,
  (* the coroutines *)
  pc,          \* the await a request's coroutine is at
  route,       \* what the review gate says of a request
  ctx,         \* the Turn that was active when the request was taken up
  future,      \* _PendingPermission.future
  pending,     \* _pending_permissions
  target,      \* the request a client's permission.decide is at work on
  choice,      \* its decision
  (* the Turn and the agent *)
  active,      \* _active_turns[session], 0 for none
  turns,       \* Turns started so far
  terminated,  \* Turns an approval timeout terminated
  stopping,    \* a stop has sent session/cancel, and not yet answered the requests
  asking,      \* the request the agent waits for (external)
  answer,      \* what the agent was told, or assumed (external)
  (* history *)
  consent,     \* requests a client ever decided to allow
  stopCut      \* a stop was cut off before it answered the requests

row == <<decision, decidedBy>>
agent == <<active, turns, stopping, asking, answer>>
history == <<consent, stopCut>>
vars == <<row, pc, route, ctx, future, pending, target, choice, agent, terminated, history>>

Decisions == {"allow", "deny"}
\* The awaits of a request's coroutine.
RequestPoints ==
  {"idle", "arrived", "session", "insert", "ruled", "requested", "wait", "timedWait", "expired",
   "timedOut", "done"}

Init ==
  /\ decision = [r \in Requests |-> "none"]
  /\ decidedBy = [r \in Requests |-> "nobody"]
  /\ pc = [r \in Requests |-> "idle"]
  /\ route = [r \in Requests |-> "none"]
  /\ ctx = [r \in Requests |-> 0]
  /\ future = [r \in Requests |-> "unset"]
  /\ pending = {}
  /\ target = [c \in Clients |-> NoRequest]
  /\ choice = [c \in Clients |-> "deny"]
  /\ active = 0
  /\ turns = 0
  /\ terminated = {}
  /\ stopping = FALSE
  /\ asking = NoRequest
  /\ answer = [r \in Requests |-> "none"]
  /\ consent = {}
  /\ stopCut = FALSE

-------------------------------------------------------------------------------
(* Steps shared by several coroutines *)

Goto(r, label) == pc' = [pc EXCEPT ![r] = label]

\* decide_permission: an UPDATE without a condition on the decision.
DecidePermission(r, d, by) ==
  /\ decision' = [decision EXCEPT ![r] = d]
  /\ decidedBy' = [decidedBy EXCEPT ![r] = by]

\* Mutant of Settle: the last answer wins.
SettleAgain(R, outcome) ==
  future' = [r \in Requests |-> IF r \in R THEN outcome ELSE future[r]]

\* if not future.done(): future.set_result(...)
Settle(R, outcome) ==
  future' = [r \in Requests |-> IF r \in R /\ future[r] = "unset" THEN outcome ELSE future[r]]

\* The coroutine returns (its finally forgets the request) and the ACP client sends the
\* answer; an agent that no longer waits for it ignores it.
Return(r, outcome) ==
  /\ Goto(r, "done")
  /\ pending' = pending \ {r}
  /\ IF asking = r
       THEN asking' = NoRequest /\ answer' = [answer EXCEPT ![r] = outcome]
       ELSE UNCHANGED <<asking, answer>>

-------------------------------------------------------------------------------
(* _on_request_permission *)

\* The task of _handle_incoming_request starts: the active Turn is the request's.
Begins(r) ==
  /\ pc[r] = "arrived"
  /\ Goto(r, "session")
  /\ ctx' = [ctx EXCEPT ![r] = active]
  /\ UNCHANGED <<row, route, future, pending, target, choice, agent, terminated, history>>

\* The session is known: classify the call, and insert a row for it.
Classifies(r) ==
  /\ pc[r] = "session"
  /\ \E way \in {"user"} \cup (IF "rule" \in Enabled THEN Decisions ELSE {}) :
       route' = [route EXCEPT ![r] = way]
  /\ decision' = [decision EXCEPT ![r] = "pending"]
  /\ Goto(r, "insert")
  /\ UNCHANGED <<decidedBy, ctx, future, pending, target, choice, agent, terminated, history>>

\* decided_by = rule: nobody is asked.
DecidesByRule(r) ==
  /\ pc[r] = "insert" /\ route[r] # "user"
  /\ DecidePermission(r, route[r], "rule")
  /\ Goto(r, "ruled")
  /\ UNCHANGED <<route, ctx, future, pending, target, choice, agent, terminated, history>>

ReturnsRule(r) ==
  /\ pc[r] = "ruled"
  /\ Return(r, route[r])
  /\ UNCHANGED <<row, route, ctx, future, target, choice, active, turns, stopping, terminated,
                 history>>

\* Register the request, then broadcast permission.requested.
AsksUser(r) ==
  /\ pc[r] = "insert" /\ route[r] = "user"
  /\ pending' = pending \cup {r}
  /\ Goto(r, "requested")
  /\ UNCHANGED <<row, route, ctx, future, target, choice, agent, terminated, history>>

\* With approval_timeout_minutes, or for an edit, the wait is bounded.
Waits(r) ==
  /\ pc[r] = "requested"
  /\ \/ Goto(r, "wait")
     \/ "timeout" \in Enabled /\ Goto(r, "timedWait")
  /\ UNCHANGED <<row, route, ctx, future, pending, target, choice, agent, terminated, history>>

\* Somebody settled the future.
Returns(r) ==
  /\ pc[r] \in {"wait", "timedWait"} /\ future[r] # "unset"
  /\ Return(r, future[r])
  /\ UNCHANGED <<row, route, ctx, future, target, choice, active, turns, stopping, terminated,
                 history>>

\* The timer of asyncio.wait; the coroutine runs later.
TimerFires(r) ==
  /\ pc[r] = "timedWait" /\ future[r] = "unset"
  /\ Goto(r, "expired")
  /\ UNCHANGED <<row, route, ctx, future, pending, target, choice, agent, terminated, history>>

\* Mutant of Expires: an answer that came in at the last second is not returned.
ExpiresUnanswered(r) ==
  /\ pc[r] = "expired"
  /\ future[r] = "unset"
  /\ Settle({r}, "deny")
  /\ DecidePermission(r, "deny", "timeout")
  /\ Goto(r, "timedOut")
  /\ UNCHANGED <<pending, asking, answer>>
  /\ UNCHANGED <<route, ctx, target, choice, active, turns, stopping, terminated, history>>

\* Deny, unless an answer came in at the last second.
Expires(r) ==
  /\ pc[r] = "expired"
  /\ \/ /\ future[r] # "unset"
        /\ Return(r, future[r])
        /\ UNCHANGED <<row, future>>
     \/ /\ future[r] = "unset"
        /\ Settle({r}, "deny")
        /\ DecidePermission(r, "deny", "timeout")
        /\ Goto(r, "timedOut")
        /\ UNCHANGED <<pending, asking, answer>>
  /\ UNCHANGED <<route, ctx, target, choice, active, turns, stopping, terminated, history>>

\* Mutant of TimedOutTurn: whether the Turn still runs is not looked at.
AnyTimedOutTurn(r) == {ctx[r]}

\* The Turn the timeout terminates: the request's, if it still runs.
TimedOutTurn(r) == ({ctx[r]} \cap {active}) \ {0}

\* _terminate_run (of which this is the effect), then the answer.
EndsTurn(r) ==
  /\ pc[r] = "timedOut"
  /\ terminated' = terminated \cup TimedOutTurn(r)
  /\ Return(r, future[r])
  /\ UNCHANGED <<row, route, ctx, future, target, choice, active, turns, stopping, history>>

OnRequestPermission(r) ==
  \/ Begins(r) \/ Classifies(r) \/ DecidesByRule(r) \/ ReturnsRule(r) \/ AsksUser(r)
  \/ Waits(r) \/ Returns(r) \/ TimerFires(r) \/ Expires(r) \/ EndsTurn(r)

-------------------------------------------------------------------------------
(* permission_decide *)

\* NOT_FOUND unless the request is pending, else the row is written.
Decides(c) ==
  /\ target[c] = NoRequest
  /\ \E r \in pending, d \in Decisions :
       /\ DecidePermission(r, d, "user")
       /\ target' = [target EXCEPT ![c] = r]
       /\ choice' = [choice EXCEPT ![c] = d]
       /\ consent' = IF d = "allow" THEN consent \cup {r} ELSE consent
  /\ UNCHANGED <<pc, route, ctx, future, pending, agent, terminated, stopCut>>

\* Mutant of Resolves: the decision answers every request on display.
ResolvesAll(c) ==
  /\ target[c] # NoRequest
  /\ Settle(pending, choice[c])
  /\ target' = [target EXCEPT ![c] = NoRequest]
  /\ choice' = [choice EXCEPT ![c] = "deny"]
  /\ UNCHANGED <<row, pc, route, ctx, pending, agent, terminated, history>>

Resolves(c) ==
  /\ target[c] # NoRequest
  /\ Settle({target[c]}, choice[c])
  /\ target' = [target EXCEPT ![c] = NoRequest]
  /\ choice' = [choice EXCEPT ![c] = "deny"]
  /\ UNCHANGED <<row, pc, route, ctx, pending, agent, terminated, history>>

\* The client is gone while its decision is being written: the row stays, and nobody answers.
DecisionCut(c) ==
  /\ "disconnect" \in Enabled
  /\ target[c] # NoRequest
  /\ target' = [target EXCEPT ![c] = NoRequest]
  /\ choice' = [choice EXCEPT ![c] = "deny"]
  /\ UNCHANGED <<row, pc, route, ctx, future, pending, agent, terminated, history>>

-------------------------------------------------------------------------------
(* Turns, their ends, and the agent (external) *)

TurnStarts ==
  /\ active = 0 /\ turns < MaxTurns
  /\ turns' = turns + 1 /\ active' = turns + 1
  /\ UNCHANGED <<row, pc, route, ctx, future, pending, target, choice, stopping, asking, answer,
                 terminated, history>>

\* The agent makes one tool call at a time.
Asks(r) ==
  /\ active # 0 /\ asking = NoRequest /\ pc[r] = "idle"
  /\ asking' = r
  /\ Goto(r, "arrived")
  /\ UNCHANGED <<row, route, ctx, future, pending, target, choice, active, turns, stopping,
                 answer, terminated, history>>

\* Hermes denies an edit by itself after a minute, counted from before the daemon's.
GivesUp ==
  /\ "giveUp" \in Enabled
  /\ asking # NoRequest
  /\ asking' = NoRequest
  /\ answer' = [answer EXCEPT ![asking] = "deny"]
  /\ UNCHANGED <<row, pc, route, ctx, future, pending, target, choice, active, turns, stopping,
                 terminated, history>>

\* The prompt returns and the queue advances.
TurnEnds ==
  /\ active # 0 /\ asking = NoRequest
  /\ active' = 0
  /\ UNCHANGED <<row, pc, route, ctx, future, pending, target, choice, turns, stopping, asking,
                 answer, terminated, history>>

\* A budget ends the Turn under the agent; its pending requests are left alone.
BudgetEnds ==
  /\ "budget" \in Enabled
  /\ active # 0
  /\ active' = 0
  /\ UNCHANGED <<row, pc, route, ctx, future, pending, target, choice, turns, stopping, asking,
                 answer, terminated, history>>

\* Mutant of Resolved: nothing is answered.
NoneResolved == {}

\* What _resolve_pending_permissions answers with 'cancelled'.
Resolved == pending

\* stop: session/cancel is on its way to the agent.
StopSends ==
  /\ "stop" \in Enabled
  /\ active # 0 /\ ~stopping
  /\ stopping' = TRUE
  /\ UNCHANGED <<row, pc, route, ctx, future, pending, target, choice, active, turns, asking,
                 answer, terminated, history>>

\* It was written: every pending request of the session is answered.
StopResolves ==
  /\ stopping
  /\ stopping' = FALSE
  /\ Settle(Resolved, "cancelled")
  /\ UNCHANGED <<row, pc, route, ctx, pending, target, choice, active, turns, asking, answer,
                 terminated, history>>

\* The client is gone before the cancel was written: no request is answered.
StopCut ==
  /\ "disconnect" \in Enabled
  /\ stopping
  /\ stopping' = FALSE
  /\ stopCut' = TRUE
  /\ UNCHANGED <<row, pc, route, ctx, future, pending, target, choice, active, turns, asking,
                 answer, terminated, consent>>

\* _on_worker_crash: nobody waits for an answer any more; the ACP client is not closed.
WorkerExits ==
  /\ "exit" \in Enabled
  /\ turns > 0
  /\ Settle(Resolved, "cancelled")
  /\ asking' = NoRequest
  /\ UNCHANGED <<row, pc, route, ctx, pending, target, choice, active, turns, stopping, answer,
                 terminated, history>>

\* stop_worker of an idle session: AcpClient.close cancels the requests still open.
Recycles ==
  LET open == {r \in Requests : pc[r] \notin {"idle", "done"}} IN
  /\ "recycle" \in Enabled
  /\ active = 0 /\ open # {}
  /\ pc' = [r \in Requests |-> IF r \in open THEN "done" ELSE pc[r]]
  /\ pending' = pending \ open
  /\ asking' = NoRequest
  /\ UNCHANGED <<row, route, ctx, future, target, choice, active, turns, stopping, answer,
                 terminated, history>>

Next ==
  \/ \E r \in Requests : OnRequestPermission(r) \/ Asks(r)
  \/ \E c \in Clients : Decides(c) \/ Resolves(c) \/ DecisionCut(c)
  \/ TurnStarts \/ TurnEnds \/ GivesUp \/ BudgetEnds \/ StopSends \/ StopResolves
  \/ StopCut \/ WorkerExits \/ Recycles

Spec == Init /\ [][Next]_vars

\* The event loop resumes coroutines, timers fire and the database answers; nobody need
\* decide, stop or ask.
Fairness ==
  /\ \A r \in Requests : WF_vars(OnRequestPermission(r))
  /\ \A c \in Clients : WF_vars(Resolves(c))
  /\ WF_vars(StopResolves)

FairSpec == Spec /\ Fairness

-------------------------------------------------------------------------------
(* Properties *)

TypeOK ==
  /\ decision \in [Requests -> Decisions \cup {"none", "pending"}]
  /\ decidedBy \in [Requests -> {"nobody", "rule", "user", "timeout"}]
  /\ pc \in [Requests -> RequestPoints]
  /\ route \in [Requests -> Decisions \cup {"none", "user"}]
  /\ ctx \in [Requests -> 0 .. MaxTurns]
  /\ future \in [Requests -> Decisions \cup {"unset", "cancelled"}]
  /\ pending \in SUBSET Requests
  /\ target \in [Clients -> Requests \cup {NoRequest}]
  /\ choice \in [Clients -> Decisions]
  /\ active \in 0 .. MaxTurns
  /\ turns \in 0 .. MaxTurns
  /\ terminated \in SUBSET (1 .. MaxTurns)
  /\ stopping \in BOOLEAN
  /\ asking \in Requests \cup {NoRequest}
  /\ answer \in [Requests -> Decisions \cup {"none", "cancelled"}]
  /\ consent \in SUBSET Requests
  /\ stopCut \in BOOLEAN

\* Silence never allows: whatever times out, stops or dies, the agent is told to go on only
\* with a call a client, or a rule, allowed (docs/PRD.md 9.4; permission_decide, the timeout
\* branch and _resolve_pending_permissions).
AllowNeedsConsent ==
  \A r \in Requests : answer[r] = "allow" => r \in consent \/ route[r] = "allow"

\* What is on record as denied by timeout was not allowed at the last second, and is not
\* allowed by whoever had decided meanwhile: whatever comes second leaves the answer alone.
TimeoutDenies ==
  \A r \in Requests : decidedBy[r] = "timeout" => future[r] = "deny" /\ answer[r] # "allow"

\* The agent of a Turn that an approval timeout has terminated makes no further call in it
\* (docs/PRD.md 9.3: what is shown as dead does not go on).  Violated: it is told the denial.
TimeoutStopsAgent ==
  [][asking' # asking /\ asking' # NoRequest => active \notin terminated]_vars

\* With a timeout the agent is not blocked forever, whoever fails to decide.
TimedRequestEnds ==
  \A r \in Requests : pc[r] = "timedWait" ~> asking # r

\* A stop sets free the agent that waits for a request on display, unless its client is gone.
StopReleasesPending ==
  \A r \in Requests : asking = r /\ r \in pending /\ stopping ~> asking # r \/ stopCut

\* A stop sets free the agent, whatever its request is at (the docstring of
\* _resolve_pending_permissions).  Violated by a request that is not registered yet.
StopReleasesAgent ==
  \A r \in Requests : asking = r /\ stopping ~> asking # r

\* A request on record as timed out is never on record as allowed afterwards (the comment on
\* the edit approval timeout in _on_request_permission: no decision=allow for what the agent
\* was already denied).  Violated: a decision is written before the request is looked at.
TimeoutStands ==
  [][\A r \in Requests : decidedBy[r] = "timeout" => decision'[r] = "deny"]_vars
=============================================================================
