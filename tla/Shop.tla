-------------------------------- MODULE Shop --------------------------------
(***************************************************************************)
(* Buying a cosmetic with coins and crafting it from fragments.  The price *)
(* is checked against the copy of the users row, and what is left of the   *)
(* copy is written back; user_cosmetics is unique.                         *)
(***************************************************************************)
EXTENDS UserRow

CONSTANTS
    Price,             \* in coins; 0 is a gift
    FragmentCost       \* in fragments; 0 is not craftable

ASSUME ShopAssumption == Price \in [Cosmetics -> Nat] /\ FragmentCost \in [Cosmetics -> Nat]

\* history: what a cosmetic of user_cosmetics was paid with, or "no" if it has no row.
VARIABLE owned

Means == {"coins", "fragments"}

ShopInit == owned = [i \in Cosmetics |-> "no"]

Purchase(i, means) == [kind |-> means, of |-> i]

Cost(i, means) == IF means = "coins" THEN Price[i] ELSE FragmentCost[i]

AskShop(r) ==
    /\ \E i \in Cosmetics, means \in Means : Begin(r, Purchase(i, means), "check shop")
    /\ UNCHANGED owned

Affordable(r) == seen[r][task[r].kind].amount >= Cost(task[r].of, task[r].kind)

\* An inactive item is an error too, as Fail is.
CheckShop(r) ==
    LET i == task[r].of  means == task[r].kind
        refused == owned[i] # "no" \/ (means = "fragments" /\ FragmentCost[i] = 0) \/ ~Affordable(r)
    IN
    /\ UNCHANGED <<row, history, owned>>
    /\ \/ Finish(r, "check shop") /\ refused
       \/ Goto(r, "check shop", "purchase") /\ ~refused /\ UNCHANGED found

\* Mutant: user_cosmetics is not unique.
BugIsOwned(i) == FALSE /\ owned[i] # "no"

\* uq_user_shop_item.
IsOwned(i) == owned[i] # "no"

\* Mutant: the price is taken off what is committed.
BugCharged(copy, i, means) ==
    [row EXCEPT ![means] = [amount |-> @.amount - Cost(i, means),
                            spent |-> [@.spent EXCEPT ![i] = @ + 1]]]

\* What is left of the copy; a gift changes no column.
Charged(copy, i, means) ==
    IF Cost(i, means) = 0 THEN row
    ELSE [row EXCEPT ![means] = [amount |-> copy[means].amount - Cost(i, means),
                                 spent |-> [copy[means].spent EXCEPT ![i] = @ + 1]]]

\* The UPDATE and the INSERT are one commit; a duplicate rolls both back.
PayShop(r) ==
    LET i == task[r].of  means == task[r].kind IN
    /\ Finish(r, "purchase")
    /\ UNCHANGED history
    /\ \/ IsOwned(i) /\ UNCHANGED <<row, owned>>
       \/ /\ ~IsOwned(i)
          /\ row' = Charged(seen[r], i, means)
          /\ owned' = [owned EXCEPT ![i] = means]

ShopStep(r) == AskShop(r) \/ CheckShop(r) \/ PayShop(r)
=============================================================================
