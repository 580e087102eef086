---------------------------- MODULE PlayerLinks ----------------------------
(***************************************************************************)
(* What links players to each other, composed: logins that bring players,  *)
(* and the stickers and scans of those who are there.                      *)
(***************************************************************************)
EXTENDS Referrals, Stickers

vars == <<playerVars, referralVars, stickerVars>>

Init == PlayersInit /\ ReferralsInit /\ StickersInit

Next ==
    \/ \E s \in Sessions : Login(s) /\ UNCHANGED stickerVars
    \/ \E s \in Sessions : Sticker(s) /\ UNCHANGED referralVars
    \/ \E p \in Players : WindowEnds(p) /\ UNCHANGED referralVars

Spec == Init /\ [][Next]_vars

-----------------------------------------------------------------------------
Invited(u) == {p \in Players : referrer[p] = u}
Scanners(u) == {p \in Players : <<p, u>> \in scans}

(***************************************************************************)
(* Whoever came by a link was rewarded once, and so was the inviter, once  *)
(* for each player the link brought, whatever logins, repeated or failed,  *)
(* met on the way; nobody has more xp than the events of it, or none.      *)
(***************************************************************************)
ReferralPaid == \A p \in Players :
    /\ signups[p] = IF referrer[p] = Nobody THEN 0 ELSE 1
    /\ bonuses[p] = Cardinality(Invited(p))
    /\ xp[p] <= signups[p] + bonuses[p]
    /\ signups[p] + bonuses[p] > 0 => xp[p] > 0

(***************************************************************************)
(* A player's scan of another one's sticker is in the outbox once for each *)
(* of the two, exactly if it is in the table, though the rate limit may    *)
(* let two requests in; a sticker that was scanned does not count more     *)
(* scans than it had, or none.                                             *)
(***************************************************************************)
ScansPaid ==
    /\ \A pair \in Pairs : /\ claims[pair] = IF pair \in scans THEN 1 ELSE 0
                           /\ incomes[pair] = claims[pair]
                           /\ pair \in scans => pair[1] # pair[2] /\ pair[2] \in stickers
    /\ \A p \in Players : /\ scanCount[p] <= Cardinality(Scanners(p))
                          /\ Scanners(p) # {} => scanCount[p] > 0

(***************************************************************************)
(* The two counters that are written back from an unlocked read, the xp of *)
(* an inviter and the scans of a sticker, lose something only if one       *)
(* request wrote them between another one's read and write.                *)
(***************************************************************************)
LostOnlyInOverlap == \A p \in Players :
    /\ <<"xp", p>> \notin raced => xp[p] = signups[p] + bonuses[p]
    /\ <<"scan_count", p>> \notin raced => scanCount[p] = Cardinality(Scanners(p))

(***************************************************************************)
(* Players who hand each other their links do not come to be each other's  *)
(* inviters: whoever follows referred_by_id from player to player ends at  *)
(* one who came by no link, or by a link to the account that was about to  *)
(* be made.  That a player is their own inviter is the only loop there is. *)
(***************************************************************************)
ReferralForest == \A S \in (SUBSET Players) \ {{}} : \E p \in S : referrer[p] \notin S \ {p}
=============================================================================
