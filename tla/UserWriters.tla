---------------------------- MODULE UserWriters ----------------------------
(***************************************************************************)
(* The writers of a users row together: claims of rewards, the login and   *)
(* the daily reward, the shop, the achievement worker and the season.      *)
(* They know nothing of each other, and each writes back what it has read. *)
(***************************************************************************)
EXTENDS RewardClaims, DailyReward, Shop, AchievementWorker, SeasonClose

\* The source of an xp_events row names what it is for.
ASSUME WritersAssumption ==
    /\ Rewards \cap Achievements = {}
    /\ Daily \notin Rewards \cup Achievements

vars == <<baseVars, rewardVars, dailyVars, owned, achievementVars, seasonVars>>

Steps == {"idle", "check claim", "find event", "pay claim", "record login", "claim daily",
          "check shop", "purchase", "select locked", "unlock", "announce",
          "select season", "close"}

Init ==
    /\ BaseInit
    /\ RewardInit /\ DailyInit /\ ShopInit /\ AchievementInit /\ SeasonInit

SessionStep(r) ==
    \/ ClaimStep(r) /\ UNCHANGED <<dailyVars, owned, achievementVars, seasonVars>>
    \/ DailyStep(r) /\ UNCHANGED <<rewardVars, owned, achievementVars, seasonVars>>
    \/ ShopStep(r) /\ UNCHANGED <<rewardVars, dailyVars, achievementVars, seasonVars>>
    \/ AchievementStep(r) /\ UNCHANGED <<rewardVars, dailyVars, owned, seasonVars>>
    \/ SeasonStep(r) /\ UNCHANGED <<rewardVars, dailyVars, owned, achievementVars>>
    \/ /\ Fail(r) /\ Forget(r)
       /\ UNCHANGED <<rewardVars, dailyVars, owned, achievementVars, public, active, archived, closings>>

ClockStep ==
    \/ Tick /\ UNCHANGED <<rewardVars, dailyVars, owned, achievementVars, seasonVars>>
    \/ ResetStreak /\ UNCHANGED <<rewardVars, owned, achievementVars, seasonVars>>

Next == ClockStep \/ \E r \in Requests : SessionStep(r)

Spec == Init /\ [][Next]_vars

-----------------------------------------------------------------------------
TypeOK ==
    /\ BaseTypeOK
    /\ pc \in [Requests -> Steps]
    /\ \A r \in Requests :
          /\ pc[r] = "idle" <=> task[r] = Idle
          /\ pc[r] = "idle" => found[r] = {}
          /\ closing[r] # {} => pc[r] = "close"
    /\ completed \subseteq Rewards /\ claimed \subseteq completed
    /\ loginDays \subseteq Nat /\ paidDays \subseteq Nat
    /\ owned \in [Cosmetics -> Means \cup {"no"}]
    /\ unlocked \subseteq Achievements
    /\ announced \in [Achievements -> Nat]
    /\ public \in BOOLEAN
    /\ active \subseteq Seasons /\ archived \subseteq Seasons
    /\ closing \in [Requests -> SUBSET Seasons]
    /\ closings \in [Seasons -> Nat]

\* Rewards whose row says that they were claimed, and unlocked achievements.
Flagged(claims, unlocks) == claims \cup unlocks

\* Of claims that overlap each other, season closings and other writers, the reward of a
\* collection, an event goal or an achievement is in users.xp once at most, with its flag
\* and its xp_events row, although nothing makes the xp_events rows unique.
RewardOnce ==
    \A s \in Rewards \cup Achievements :
        /\ row.xp[s] <= 1
        /\ row.xp[s] = 1 => s \in Flagged(claimed, unlocked) /\ history[s] > 0

\* A cosmetic is paid for once, in one of the two currencies, and only if it is owned:
\* buying and crafting it at the same time takes the price of one of them.
PaidOnce ==
    \A i \in Cosmetics, means \in Means :
        /\ row[means].spent[i] <= 1
        /\ row[means].spent[i] = 1 => owned[i] = means

\* Purchases at the same time, of prices that were checked against copies of the row,
\* never take more than there is.
NoOverdraft == row.coins.amount >= 0 /\ row.fragments.amount >= 0

\* Once a daily reward has been paid, the row says so for the rest of the day, whatever
\* is written back from older copies: no later request is paid.
ClaimedDayKept == Today \in paidDays => row.daily = Today

\* A streak is never longer than the days in a row with a login, up to the last one.
StreakEarned ==
    \A k \in 0 .. row.streak - 1 : Day(row.login) - k \in loginDays

\* However often the relay starts the worker, an achievement is announced once at most.
AnnouncedOnce == \A a \in Achievements : announced[a] <= 1

\* While some user stays public, overlapping runs close a season once and leave one
\* season active at most.
SeasonsInTurn ==
    public => /\ \A n \in Seasons : closings[n] <= 1
              /\ \A m, n \in active : m = n
=============================================================================
