---------------------------- MODULE LoginChains ----------------------------
(***************************************************************************)
(* What refresh sessions promise: every login has one valid token at most. *)
(* A refresh gives a new token for the valid one and ends it; a login that *)
(* was ended (by a logout, or by the clean-up, which ends many at once)    *)
(* never has a valid token again; no token is handed out twice.            *)
(***************************************************************************)
CONSTANT Tokens

VARIABLES
    used,      \* tokens handed out so far
    live       \* the valid tokens of a login, named by its first token

vars == <<used, live>>

Init ==
    /\ used = {}
    /\ live = [login \in Tokens |-> {}]

HandOut(t) ==
    /\ t \notin used
    /\ used' = used \cup {t}

Login(t) ==
    /\ HandOut(t)
    /\ live' = [live EXCEPT ![t] = {t}]

Refresh(login, t) ==
    /\ live[login] # {}
    /\ HandOut(t)
    /\ live' = [live EXCEPT ![login] = {t}]

End(over) ==
    /\ live' = [login \in Tokens |-> IF login \in over THEN {} ELSE live[login]]
    /\ UNCHANGED used

Next ==
    \/ \E t \in Tokens : Login(t)
    \/ \E login, t \in Tokens : Refresh(login, t)
    \/ \E over \in SUBSET Tokens : End(over)

Spec == Init /\ [][Next]_vars

=============================================================================
