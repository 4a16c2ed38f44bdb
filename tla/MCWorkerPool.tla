---------------------------- MODULE MCWorkerPool ----------------------------
(***************************************************************************)
(* Instances of WorkerPool for TLC.                                        *)
(***************************************************************************)
EXTENDS WorkerPool

CONSTANTS s1, s2, w1, w2, w3, k1, k2, t1, t2

OneSession == {s1}
TwoSessions == {s1, s2}
TwoWorkers == {w1, w2}
ThreeWorkers == {w1, w2, w3}
NoKids == {}
TwoKids == {k1, k2}
OneForeign == {k2}
OneStop == {t1}
\* Who takes workers down, against each other; and the processes of the tools, on a
\* worker that lives until the session is deleted.
LifeAndReap ==
  {{"cancel", "exit", "idle"}, {"shutdown", "exit", "idle"}, {"kids", "delete", "disconnect"}}
OnlyIdle == {{"idle"}}
OnlyExit == {{"exit"}}
OnlyShutdown == {{"shutdown"}}
OnlyDelete == {{"delete", "disconnect"}}
=============================================================================
