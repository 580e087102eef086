---------------------------- MODULE MCDeployment ----------------------------
EXTENDS Deployment, TLC

CONSTANTS j1, j2

\* The first revision of the game, one before cosmetics, and the last one.
SomeImages == {4, 11, 14}
LastImage == {14}

\* Latitude first, longitude first, no longitude beside the latitude, no latitude.
SomeCoords == {<<45, 120>>, <<120, 45>>, <<45, 200>>, <<200, 120>>}
NoCoords == {}

JobSymmetry == Permutations(Jobs)
=============================================================================
