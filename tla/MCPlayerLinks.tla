--------------------------- MODULE MCPlayerLinks ---------------------------
EXTENDS PlayerLinks, TLC

CONSTANTS u, v, w, s1, s2

Opens(p, by, n) == [kind |-> "login", who |-> p, of |-> by, n |-> n]
Makes(p) == [kind |-> "generate", who |-> p, of |-> p, n |-> 0]
Tries(p, owner) == [kind |-> "scan", who |-> p, of |-> owner, n |-> 0]

\* v and w open u's links, and each the other's, which is dead until the other is there;
\* v also opens a link to the account v will have, w also comes by no link.
SomeInitData == {Opens(v, u, 1), Opens(w, u, 1), Opens(v, w, 1), Opens(w, v, 1),
                 Opens(v, v, 1), Opens(w, Nobody, 1)}
\* u has a sticker made; everybody scans it.
SomeAsked == {Makes(u), Tries(u, u), Tries(v, u), Tries(w, u)}

SessionSymmetry == Permutations(Sessions)
=============================================================================
