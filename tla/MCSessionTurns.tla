---------------------------- MODULE MCSessionTurns ----------------------------
(***************************************************************************)
(* Instances of SessionTurns for TLC.  Each run enables the Behaviours its *)
(* question needs; the README says why those, and which of the sets below  *)
(* lead to a known disagreement.                                           *)
(***************************************************************************)
EXTENDS SessionTurns, TLC

Symmetry == Permutations(Turns) \cup Permutations(Clients)

QueueBehaviours == {"stop", "edit", "error", "disconnect", "fault"}
WatcherBehaviours ==
  {"abandon", "quota", "duration", "sweep", "steps", "crash", "hang", "orphans"}
RecoveryBehaviours == {"stop", "crash", "hang", "restart", "disconnect", "fault"}
DurationBehaviours == {"duration"}
SweepBehaviours == {"duration", "sweep"}
FaultBehaviours == {"fault"}
DisconnectBehaviours == {"disconnect"}
OrphanBehaviours == {"crash", "orphans"}
RestartBehaviours == {"restart"}
=============================================================================
