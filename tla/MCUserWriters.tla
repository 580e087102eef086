--------------------------- MODULE MCUserWriters ---------------------------
EXTENDS UserWriters, TLC

CONSTANTS r1, r2, series, album, badge, daily, border, frame

Claims == {ClaimOf(series)}
Purchases == {Purchase(border, "coins"), Purchase(border, "fragments"), Purchase(frame, "coins")}

\* What may be asked for together.
Mixes ==
    {Claims \cup {ClaimOf(album)}, Claims \cup {Check, Close},
     Claims \cup Purchases, Claims \cup {Open, ClaimDaily}}

OneEach == [i \in Cosmetics |-> 2]

\* Each season has begun before the one before it ends.
Starts == [n \in Seasons |-> 2 * n - 1]
Ends == [n \in Seasons |-> 2 * n + 2]

RequestSymmetry == Permutations(Requests)
=============================================================================
