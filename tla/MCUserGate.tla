----------------------------- MODULE MCUserGate -----------------------------
(***************************************************************************)
(* Instances of UserGate for TLC.                                          *)
(***************************************************************************)
EXTENDS UserGate, TLC

CONSTANTS r1, r2, c1, c2

TwoRequests == {r1, r2}
OneRequest == {r1}
TwoClients == {c1, c2}
OneClient == {c1}

\* The requests of one agent are alike, for the invariants.
Symmetry == Permutations(TwoRequests)
=============================================================================
