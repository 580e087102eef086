----------------------------- MODULE RankLedger -----------------------------
(***************************************************************************)
(* What collecting an item promises (the rank rule of validations): every  *)
(* item keeps the order in which users collected it.  A user enters that   *)
(* order at most once, always at its end, and nobody is ever moved or      *)
(* removed.  The rank of a collector is its position.                      *)
(***************************************************************************)
EXTENDS Naturals, Sequences, FiniteSets

CONSTANTS Users, Items

VARIABLE ledger      \* the collectors of each item, by rank

Collectors(i) == {ledger[i][k] : k \in DOMAIN ledger[i]}

Init == ledger = [i \in Items |-> << >>]

\* User u collects item i and takes the next rank.
Collect(u, i) ==
    /\ u \notin Collectors(i)
    /\ ledger' = [ledger EXCEPT ![i] = Append(@, u)]

Next == \E u \in Users, i \in Items : Collect(u, i)

Spec == Init /\ [][Next]_ledger

=============================================================================
