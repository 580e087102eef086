---------------------------- MODULE RewardClaims ----------------------------
(***************************************************************************)
(* Claims of the rewards of completed collections, and of event goals,    *)
(* which go through the same steps.  Both look for the flag reward_claimed *)
(* and for an xp_events row, and both write the XP from the users row that *)
(* the request was authenticated with.  Nothing is locked: two claims may  *)
(* both find the reward unclaimed.  An event has one goal at most.         *)
(***************************************************************************)
EXTENDS UserRow

CONSTANTS
    Rewards,           \* collections and event goals with a reward
    WorthXp            \* those whose reward_xp is not zero

ASSUME RewardsAssumption == WorthXp \subseteq Rewards /\ Rewards \subseteq Sources

VARIABLES
    completed,         \* those with completed_at
    claimed            \* those with reward_claimed

rewardVars == <<completed, claimed>>

ClaimOf(s) == [kind |-> "claim", of |-> s]

RewardInit ==
    /\ completed \in SUBSET Rewards
    /\ claimed = {}

Authenticate(r) == \E s \in Rewards : Begin(r, ClaimOf(s), "check claim") /\ UNCHANGED rewardVars

\* Not completed or already claimed: an error.
CheckClaim(r) ==
    \/ /\ Finish(r, "check claim")
       /\ task[r].of \notin completed \ claimed
       /\ UNCHANGED <<row, history, rewardVars>>
    \/ /\ Goto(r, "check claim", "find event")
       /\ task[r].of \in completed \ claimed
       /\ UNCHANGED <<row, history, found, rewardVars>>

\* The xp_events row of an earlier claim.
FindEvent(r) ==
    /\ Goto(r, "find event", "pay claim")
    /\ found' = [found EXCEPT ![r] = {s \in {task[r].of} : history[s] > 0}]
    /\ UNCHANGED <<row, history, rewardVars>>

\* The XP, if it is new and not zero, and the flag, in one commit.
PayClaim(r) ==
    LET s == task[r].of IN
    /\ Finish(r, "pay claim")
    /\ IF s \notin found[r] /\ s \in WorthXp
       THEN row' = Paid(seen[r], s) /\ history' = Recorded(s)
       ELSE UNCHANGED <<row, history>>
    /\ claimed' = claimed \cup {s}
    /\ UNCHANGED completed

ClaimStep(r) == Authenticate(r) \/ CheckClaim(r) \/ FindEvent(r) \/ PayClaim(r)
=============================================================================
