-------------------------- MODULE MCRefreshSession --------------------------
EXTENDS RefreshSession, TLC

CONSTANTS r1, r2, r3, r4, c1, c2

RequestSymmetry == Permutations(Requests)
=============================================================================
