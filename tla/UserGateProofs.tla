---------------------------- MODULE UserGateProofs ----------------------------
(***************************************************************************)
(* Theorems about UserGate: no answer allows a call nobody allowed, and a   *)
(* timeout denies, for every number of requests, of clients and of Turns.  *)
(***************************************************************************)
EXTENDS UserGate, TLAPS

\* Before a request is registered: its wait is not there to be settled, and nobody decides it.
Unregistered(r) ==
  /\ r \notin pending
  /\ future[r] = "unset"
  /\ \A c \in Clients : target[c] # r

\* Where a request can be after its registration.
RegisteredPoints == {"requested", "wait", "timedWait", "expired", "timedOut"}

\* Requests that reached the user are requests no rule settled.
Routes ==
  \A r \in Requests :
    /\ pc[r] \in {"idle", "arrived", "session"} => Unregistered(r) /\ route[r] = "none"
    /\ route[r] # "user" => Unregistered(r)
    /\ r \in pending \/ pc[r] \in RegisteredPoints => route[r] = "user"
    /\ pc[r] \in {"insert", "ruled"} => route[r] # "none"
    /\ pc[r] = "ruled" => route[r] # "user"
    /\ pc[r] = "timedOut" => future[r] # "unset"

\* An allow on its way to the agent is a client's, or the rule's.
Consents ==
  /\ \A r \in Requests : future[r] = "allow" => r \in consent
  /\ \A c \in Clients : target[c] \in Requests /\ choice[c] = "allow" => target[c] \in consent
  /\ AllowNeedsConsent

\* A row denied by timeout comes with a future settled so, before any answer.
Timeouts ==
  \A r \in Requests :
    /\ decidedBy[r] = "timeout" => future[r] = "deny" /\ route[r] = "user"
    /\ answer[r] = "allow" => future[r] = "allow" \/ route[r] = "allow"

\* The inductive invariant.
IInv == TypeOK /\ Routes /\ Consents /\ Timeouts

USE GateAssumption DEF Decisions, row, agent, history

\* The initial state.
LEMMA InitIInv == Init => IInv
<1> SUFFICES ASSUME Init PROVE IInv
  OBVIOUS
<1> USE DEF Init
<1>1. TypeOK
  <2>1. 0 \in 0 .. MaxTurns
    OBVIOUS
  <2>2. /\ ctx \in [Requests -> 0 .. MaxTurns]
        /\ active \in 0 .. MaxTurns /\ turns \in 0 .. MaxTurns
    BY <2>1
  <2>3. target \in [Clients -> Requests \cup {NoRequest}] /\ choice \in [Clients -> Decisions]
    OBVIOUS
  <2>4. /\ decision \in [Requests -> Decisions \cup {"none", "pending"}]
        /\ decidedBy \in [Requests -> {"nobody", "rule", "user", "timeout"}]
        /\ pc \in [Requests -> RequestPoints]
        /\ route \in [Requests -> Decisions \cup {"none", "user"}]
        /\ future \in [Requests -> Decisions \cup {"unset", "cancelled"}]
        /\ answer \in [Requests -> Decisions \cup {"none", "cancelled"}]
    BY DEF RequestPoints
  <2> QED
    BY <2>2, <2>3, <2>4 DEF TypeOK
<1>2. Routes
  BY DEF Routes, Unregistered, RegisteredPoints
<1>3. Consents
  BY DEF Consents, AllowNeedsConsent
<1>4. Timeouts
  BY DEF Timeouts
<1> QED
  BY <1>1, <1>2, <1>3, <1>4 DEF IInv

\* A step of a request's coroutine.
LEMMA RequestStep ==
  ASSUME IInv, NEW r \in Requests, OnRequestPermission(r)
  PROVE  IInv'
<1> USE DEF IInv
<1>1. CASE Begins(r)
  <2>1. TypeOK'
    BY <1>1 DEF Begins, Goto, TypeOK, Routes, RequestPoints, Unregistered, RegisteredPoints
  <2>2. Routes'
    BY <1>1 DEF Begins, Goto, TypeOK, Routes, Unregistered, RegisteredPoints
  <2>3. Consents'
    BY <1>1 DEF Begins, Goto, TypeOK, Routes, Consents, AllowNeedsConsent, Unregistered,
       RegisteredPoints
  <2>4. Timeouts'
    BY <1>1 DEF Begins, Goto, TypeOK, Routes, Timeouts, Unregistered, RegisteredPoints
  <2> QED
    BY <2>1, <2>2, <2>3, <2>4
<1>2. CASE Classifies(r)
  <2>1. TypeOK'
    BY <1>2 DEF Classifies, Goto, TypeOK, Routes, RequestPoints, Unregistered, RegisteredPoints
  <2>2. Routes'
    BY <1>2 DEF Classifies, Goto, TypeOK, Routes, Unregistered, RegisteredPoints
  <2>3. Consents'
    BY <1>2 DEF Classifies, Goto, TypeOK, Routes, Consents, AllowNeedsConsent, Unregistered,
       RegisteredPoints
  <2>4. Timeouts'
    BY <1>2 DEF Classifies, Goto, TypeOK, Routes, Timeouts, Unregistered, RegisteredPoints
  <2> QED
    BY <2>1, <2>2, <2>3, <2>4
<1>3. CASE DecidesByRule(r)
  <2>1. TypeOK'
    BY <1>3 DEF DecidesByRule, Goto, DecidePermission, TypeOK, Routes, RequestPoints,
       Unregistered, RegisteredPoints
  <2>2. Routes'
    BY <1>3 DEF DecidesByRule, Goto, DecidePermission, TypeOK, Routes, Unregistered,
       RegisteredPoints
  <2>3. Consents'
    BY <1>3 DEF DecidesByRule, Goto, DecidePermission, TypeOK, Routes, Consents,
       AllowNeedsConsent, Unregistered, RegisteredPoints
  <2>4. Timeouts'
    BY <1>3 DEF DecidesByRule, Goto, DecidePermission, TypeOK, Routes, Timeouts, Unregistered,
       RegisteredPoints
  <2> QED
    BY <2>1, <2>2, <2>3, <2>4
<1>4. CASE ReturnsRule(r)
  <2>1. TypeOK'
    BY <1>4 DEF ReturnsRule, Goto, Return, TypeOK, Routes, RequestPoints, Unregistered,
       RegisteredPoints
  <2>2. Routes'
    BY <1>4 DEF ReturnsRule, Goto, Return, TypeOK, Routes, Unregistered, RegisteredPoints
  <2>3. Consents'
    BY <1>4 DEF ReturnsRule, Goto, Return, TypeOK, Routes, Consents, AllowNeedsConsent,
       Unregistered, RegisteredPoints
  <2>4. Timeouts'
    BY <1>4 DEF ReturnsRule, Goto, Return, TypeOK, Routes, Timeouts, Unregistered,
       RegisteredPoints
  <2> QED
    BY <2>1, <2>2, <2>3, <2>4
<1>5. CASE AsksUser(r)
  <2>1. TypeOK'
    BY <1>5 DEF AsksUser, Goto, TypeOK, Routes, RequestPoints, Unregistered, RegisteredPoints
  <2>2. Routes'
    BY <1>5 DEF AsksUser, Goto, TypeOK, Routes, Unregistered, RegisteredPoints
  <2>3. Consents'
    BY <1>5 DEF AsksUser, Goto, TypeOK, Routes, Consents, AllowNeedsConsent, Unregistered,
       RegisteredPoints
  <2>4. Timeouts'
    BY <1>5 DEF AsksUser, Goto, TypeOK, Routes, Timeouts, Unregistered, RegisteredPoints
  <2> QED
    BY <2>1, <2>2, <2>3, <2>4
<1>6. CASE Waits(r)
  <2>1. TypeOK'
    BY <1>6 DEF Waits, Goto, TypeOK, Routes, RequestPoints, Unregistered, RegisteredPoints
  <2>2. Routes'
    BY <1>6 DEF Waits, Goto, TypeOK, Routes, Unregistered, RegisteredPoints
  <2>3. Consents'
    BY <1>6 DEF Waits, Goto, TypeOK, Routes, Consents, AllowNeedsConsent, Unregistered,
       RegisteredPoints
  <2>4. Timeouts'
    BY <1>6 DEF Waits, Goto, TypeOK, Routes, Timeouts, Unregistered, RegisteredPoints
  <2> QED
    BY <2>1, <2>2, <2>3, <2>4
<1>7. CASE Returns(r)
  <2>1. TypeOK'
    BY <1>7 DEF Returns, Goto, Return, TypeOK, Routes, RequestPoints, Unregistered,
       RegisteredPoints
  <2>2. Routes'
    BY <1>7 DEF Returns, Goto, Return, TypeOK, Routes, Unregistered, RegisteredPoints
  <2>3. Consents'
    BY <1>7 DEF Returns, Goto, Return, TypeOK, Routes, Consents, AllowNeedsConsent,
       Unregistered, RegisteredPoints
  <2>4. Timeouts'
    BY <1>7 DEF Returns, Goto, Return, TypeOK, Routes, Timeouts, Unregistered, RegisteredPoints
  <2> QED
    BY <2>1, <2>2, <2>3, <2>4
<1>8. CASE TimerFires(r)
  <2>1. TypeOK'
    BY <1>8 DEF TimerFires, Goto, TypeOK, Routes, RequestPoints, Unregistered, RegisteredPoints
  <2>2. Routes'
    BY <1>8 DEF TimerFires, Goto, TypeOK, Routes, Unregistered, RegisteredPoints
  <2>3. Consents'
    BY <1>8 DEF TimerFires, Goto, TypeOK, Routes, Consents, AllowNeedsConsent, Unregistered,
       RegisteredPoints
  <2>4. Timeouts'
    BY <1>8 DEF TimerFires, Goto, TypeOK, Routes, Timeouts, Unregistered, RegisteredPoints
  <2> QED
    BY <2>1, <2>2, <2>3, <2>4
<1>9. CASE Expires(r)
  <2>1. TypeOK'
    BY <1>9 DEF Expires, Goto, Return, Settle, DecidePermission, TypeOK, Routes, RequestPoints,
       Unregistered, RegisteredPoints
  <2>2. Routes'
    BY <1>9 DEF Expires, Goto, Return, Settle, DecidePermission, TypeOK, Routes, Unregistered,
       RegisteredPoints
  <2>3. Consents'
    BY <1>9 DEF Expires, Goto, Return, Settle, DecidePermission, TypeOK, Routes, Consents,
       AllowNeedsConsent, Unregistered, RegisteredPoints
  <2>4. Timeouts'
    BY <1>9 DEF Expires, Goto, Return, Settle, DecidePermission, TypeOK, Routes, Timeouts,
       Unregistered, RegisteredPoints
  <2> QED
    BY <2>1, <2>2, <2>3, <2>4
<1>10. CASE EndsTurn(r)
  <2>1. TypeOK'
    BY <1>10 DEF EndsTurn, Goto, Return, TimedOutTurn, TypeOK, Routes, RequestPoints,
       Unregistered, RegisteredPoints
  <2>2. Routes'
    BY <1>10 DEF EndsTurn, Goto, Return, TimedOutTurn, TypeOK, Routes, Unregistered,
       RegisteredPoints
  <2>3. Consents'
    BY <1>10 DEF EndsTurn, Goto, Return, TimedOutTurn, TypeOK, Routes, Consents,
       AllowNeedsConsent, Unregistered, RegisteredPoints
  <2>4. Timeouts'
    BY <1>10 DEF EndsTurn, Goto, Return, TimedOutTurn, TypeOK, Routes, Timeouts, Unregistered,
       RegisteredPoints
  <2> QED
    BY <2>1, <2>2, <2>3, <2>4
<1> QED
  BY <1>1, <1>2, <1>3, <1>4, <1>5, <1>6, <1>7, <1>8, <1>9, <1>10 DEF OnRequestPermission

\* A step of a permission.decide.
LEMMA ClientStep ==
  ASSUME IInv, NEW c \in Clients, Decides(c) \/ Resolves(c) \/ DecisionCut(c)
  PROVE  IInv'
<1> USE DEF IInv
<1>1. CASE Decides(c)
  <2>1. TypeOK'
    BY <1>1 DEF Decides, DecidePermission, TypeOK, Routes, RequestPoints, Unregistered,
       RegisteredPoints
  <2>2. Routes'
    BY <1>1 DEF Decides, DecidePermission, TypeOK, Routes, Unregistered, RegisteredPoints
  <2>3. Consents'
    BY <1>1 DEF Decides, DecidePermission, TypeOK, Routes, Consents, AllowNeedsConsent,
       Unregistered, RegisteredPoints
  <2>4. Timeouts'
    BY <1>1 DEF Decides, DecidePermission, TypeOK, Routes, Timeouts, Unregistered,
       RegisteredPoints
  <2> QED
    BY <2>1, <2>2, <2>3, <2>4
<1>2. CASE Resolves(c)
  <2>1. TypeOK'
    BY <1>2 DEF Resolves, Settle, TypeOK, Routes, RequestPoints, Unregistered, RegisteredPoints
  <2>2. Routes'
    BY <1>2 DEF Resolves, Settle, TypeOK, Routes, Unregistered, RegisteredPoints
  <2>3. Consents'
    BY <1>2 DEF Resolves, Settle, TypeOK, Routes, Consents, AllowNeedsConsent, Unregistered,
       RegisteredPoints
  <2>4. Timeouts'
    BY <1>2 DEF Resolves, Settle, TypeOK, Routes, Timeouts, Unregistered, RegisteredPoints
  <2> QED
    BY <2>1, <2>2, <2>3, <2>4
<1>3. CASE DecisionCut(c)
  <2>1. TypeOK'
    BY <1>3 DEF DecisionCut, TypeOK, Routes, RequestPoints, Unregistered, RegisteredPoints
  <2>2. Routes'
    BY <1>3 DEF DecisionCut, TypeOK, Routes, Unregistered, RegisteredPoints
  <2>3. Consents'
    BY <1>3 DEF DecisionCut, TypeOK, Routes, Consents, AllowNeedsConsent, Unregistered,
       RegisteredPoints
  <2>4. Timeouts'
    BY <1>3 DEF DecisionCut, TypeOK, Routes, Timeouts, Unregistered, RegisteredPoints
  <2> QED
    BY <2>1, <2>2, <2>3, <2>4
<1> QED
  BY <1>1, <1>2, <1>3

\* A question of the agent.
LEMMA AgentStep ==
  ASSUME IInv, NEW r \in Requests, Asks(r)
  PROVE  IInv'
<1> USE DEF IInv
<1>1. CASE Asks(r)
  <2>1. TypeOK'
    BY <1>1 DEF Asks, Goto, TypeOK, Routes, RequestPoints, Unregistered, RegisteredPoints
  <2>2. Routes'
    BY <1>1 DEF Asks, Goto, TypeOK, Routes, Unregistered, RegisteredPoints
  <2>3. Consents'
    BY <1>1 DEF Asks, Goto, TypeOK, Routes, Consents, AllowNeedsConsent, Unregistered,
       RegisteredPoints
  <2>4. Timeouts'
    BY <1>1 DEF Asks, Goto, TypeOK, Routes, Timeouts, Unregistered, RegisteredPoints
  <2> QED
    BY <2>1, <2>2, <2>3, <2>4
<1> QED
  BY <1>1

\* A step of the Turn, of a stop or of the worker.
LEMMA TurnStep ==
  ASSUME IInv, TurnStarts \/ TurnEnds \/ GivesUp \/ BudgetEnds \/ StopSends
         \/ StopResolves \/ StopCut \/ WorkerExits \/ Recycles
  PROVE  IInv'
<1> USE DEF IInv
<1>1. CASE TurnStarts
  <2>1. TypeOK'
    BY <1>1 DEF TurnStarts, TypeOK, Routes, RequestPoints, Unregistered, RegisteredPoints
  <2>2. Routes'
    BY <1>1 DEF TurnStarts, TypeOK, Routes, Unregistered, RegisteredPoints
  <2>3. Consents'
    BY <1>1 DEF TurnStarts, TypeOK, Routes, Consents, AllowNeedsConsent, Unregistered,
       RegisteredPoints
  <2>4. Timeouts'
    BY <1>1 DEF TurnStarts, TypeOK, Routes, Timeouts, Unregistered, RegisteredPoints
  <2> QED
    BY <2>1, <2>2, <2>3, <2>4
<1>2. CASE TurnEnds
  <2>1. TypeOK'
    BY <1>2 DEF TurnEnds, TypeOK, Routes, RequestPoints, Unregistered, RegisteredPoints
  <2>2. Routes'
    BY <1>2 DEF TurnEnds, TypeOK, Routes, Unregistered, RegisteredPoints
  <2>3. Consents'
    BY <1>2 DEF TurnEnds, TypeOK, Routes, Consents, AllowNeedsConsent, Unregistered,
       RegisteredPoints
  <2>4. Timeouts'
    BY <1>2 DEF TurnEnds, TypeOK, Routes, Timeouts, Unregistered, RegisteredPoints
  <2> QED
    BY <2>1, <2>2, <2>3, <2>4
<1>3. CASE GivesUp
  <2>1. TypeOK'
    BY <1>3 DEF GivesUp, TypeOK, Routes, RequestPoints, Unregistered, RegisteredPoints
  <2>2. Routes'
    BY <1>3 DEF GivesUp, TypeOK, Routes, Unregistered, RegisteredPoints
  <2>3. Consents'
    BY <1>3 DEF GivesUp, TypeOK, Routes, Consents, AllowNeedsConsent, Unregistered,
       RegisteredPoints
  <2>4. Timeouts'
    BY <1>3 DEF GivesUp, TypeOK, Routes, Timeouts, Unregistered, RegisteredPoints
  <2> QED
    BY <2>1, <2>2, <2>3, <2>4
<1>4. CASE BudgetEnds
  <2>1. TypeOK'
    BY <1>4 DEF BudgetEnds, TypeOK, Routes, RequestPoints, Unregistered, RegisteredPoints
  <2>2. Routes'
    BY <1>4 DEF BudgetEnds, TypeOK, Routes, Unregistered, RegisteredPoints
  <2>3. Consents'
    BY <1>4 DEF BudgetEnds, TypeOK, Routes, Consents, AllowNeedsConsent, Unregistered,
       RegisteredPoints
  <2>4. Timeouts'
    BY <1>4 DEF BudgetEnds, TypeOK, Routes, Timeouts, Unregistered, RegisteredPoints
  <2> QED
    BY <2>1, <2>2, <2>3, <2>4
<1>5. CASE StopSends
  <2>1. TypeOK'
    BY <1>5 DEF StopSends, TypeOK, Routes, RequestPoints, Unregistered, RegisteredPoints
  <2>2. Routes'
    BY <1>5 DEF StopSends, TypeOK, Routes, Unregistered, RegisteredPoints
  <2>3. Consents'
    BY <1>5 DEF StopSends, TypeOK, Routes, Consents, AllowNeedsConsent, Unregistered,
       RegisteredPoints
  <2>4. Timeouts'
    BY <1>5 DEF StopSends, TypeOK, Routes, Timeouts, Unregistered, RegisteredPoints
  <2> QED
    BY <2>1, <2>2, <2>3, <2>4
<1>6. CASE StopResolves
  <2>1. TypeOK'
    BY <1>6 DEF StopResolves, Settle, Resolved, TypeOK, Routes, RequestPoints, Unregistered,
       RegisteredPoints
  <2>2. Routes'
    BY <1>6 DEF StopResolves, Settle, Resolved, TypeOK, Routes, Unregistered, RegisteredPoints
  <2>3. Consents'
    BY <1>6 DEF StopResolves, Settle, Resolved, TypeOK, Routes, Consents, AllowNeedsConsent,
       Unregistered, RegisteredPoints
  <2>4. Timeouts'
    BY <1>6 DEF StopResolves, Settle, Resolved, TypeOK, Routes, Timeouts, Unregistered,
       RegisteredPoints
  <2> QED
    BY <2>1, <2>2, <2>3, <2>4
<1>7. CASE WorkerExits
  <2>1. TypeOK'
    BY <1>7 DEF WorkerExits, Settle, Resolved, TypeOK, Routes, RequestPoints, Unregistered,
       RegisteredPoints
  <2>2. Routes'
    BY <1>7 DEF WorkerExits, Settle, Resolved, TypeOK, Routes, Unregistered, RegisteredPoints
  <2>3. Consents'
    BY <1>7 DEF WorkerExits, Settle, Resolved, TypeOK, Routes, Consents, AllowNeedsConsent,
       Unregistered, RegisteredPoints
  <2>4. Timeouts'
    BY <1>7 DEF WorkerExits, Settle, Resolved, TypeOK, Routes, Timeouts, Unregistered,
       RegisteredPoints
  <2> QED
    BY <2>1, <2>2, <2>3, <2>4
<1>8. CASE Recycles
  <2>1. TypeOK'
    BY <1>8 DEF Recycles, TypeOK, Routes, RequestPoints, Unregistered, RegisteredPoints
  <2>2. Routes'
    BY <1>8 DEF Recycles, TypeOK, Routes, Unregistered, RegisteredPoints
  <2>3. Consents'
    BY <1>8 DEF Recycles, TypeOK, Routes, Consents, AllowNeedsConsent, Unregistered,
       RegisteredPoints
  <2>4. Timeouts'
    BY <1>8 DEF Recycles, TypeOK, Routes, Timeouts, Unregistered, RegisteredPoints
  <2> QED
    BY <2>1, <2>2, <2>3, <2>4
<1>9. CASE StopCut
  <2>1. TypeOK'
    BY <1>9 DEF StopCut, TypeOK, Routes, RequestPoints, Unregistered, RegisteredPoints
  <2>2. Routes'
    BY <1>9 DEF StopCut, TypeOK, Routes, Unregistered, RegisteredPoints
  <2>3. Consents'
    BY <1>9 DEF StopCut, TypeOK, Routes, Consents, AllowNeedsConsent, Unregistered,
       RegisteredPoints
  <2>4. Timeouts'
    BY <1>9 DEF StopCut, TypeOK, Routes, Timeouts, Unregistered, RegisteredPoints
  <2> QED
    BY <2>1, <2>2, <2>3, <2>4
<1> QED
  BY <1>1, <1>2, <1>3, <1>4, <1>5, <1>6, <1>7, <1>8, <1>9

\* The invariant is inductive.
LEMMA StepIInv == IInv /\ [Next]_vars => IInv'
<1> SUFFICES ASSUME IInv, [Next]_vars PROVE IInv'
  OBVIOUS
<1>1. CASE Next
  BY <1>1, RequestStep, ClientStep, AgentStep, TurnStep DEF Next
<1>2. CASE UNCHANGED vars
  BY <1>2 DEF vars, IInv, TypeOK, Routes, Unregistered, Consents, AllowNeedsConsent, Timeouts
<1> QED
  BY <1>1, <1>2

\* The invariant holds always.
LEMMA Invariance == Spec => []IInv
  BY InitIInv, StepIInv, PTL DEF Spec

\* The types of the state.
THEOREM GateTypes == Spec => []TypeOK
<1>1. IInv => TypeOK
  BY DEF IInv
<1> QED
  BY <1>1, Invariance, PTL

\* Silence never allows: what the agent was allowed, a client or a rule allowed.
THEOREM ConsentPrecedesAllow == Spec => []AllowNeedsConsent
<1>1. IInv => AllowNeedsConsent
  BY DEF IInv, Consents
<1> QED
  BY <1>1, Invariance, PTL

\* A row denied by timeout is of a request the agent was not allowed.
THEOREM TimeoutIsDenial == Spec => []TimeoutDenies
<1>1. IInv => TimeoutDenies
  <2> SUFFICES ASSUME IInv, NEW r \in Requests, decidedBy[r] = "timeout"
               PROVE  future[r] = "deny" /\ answer[r] # "allow"
    BY DEF TimeoutDenies
  <2>1. future[r] = "deny" /\ route[r] = "user"
    BY DEF IInv, Timeouts
  <2>2. answer[r] # "allow"
    BY <2>1 DEF IInv, Timeouts
  <2> QED
    BY <2>1, <2>2
<1> QED
  BY <1>1, Invariance, PTL
===============================================================================
