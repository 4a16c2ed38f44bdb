--------------------------- MODULE MCMaintenance ---------------------------
EXTENDS Maintenance, TLC
CONSTANTS r1, r2, c1, c2
TwoRuns == {r1, r2}
TwoClients == {c1, c2}
Alike == Permutations(TwoClients)
=============================================================================
