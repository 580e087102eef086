------------------------- MODULE AchievementWorker -------------------------
(***************************************************************************)
(* process_achievement_check, which the relay starts for every scan, more  *)
(* than once if it must.  It has no row of processed_events: it relies on  *)
(* the unique index of user_achievements.                                  *)
(*                                                                         *)
(* Only this worker writes user_achievements, and always as unlocked, so   *)
(* its branch for a row that is not unlocked is never taken.               *)
(***************************************************************************)
EXTENDS UserRow

CONSTANT Achievements  \* those with conditions and with XP

ASSUME AchievementsAssumption == Achievements \subseteq Sources

VARIABLES
    unlocked,          \* rows of user_achievements
    announced          \* achievement_unlocked messages sent, by achievement

achievementVars == <<unlocked, announced>>

Check == [kind |-> "achievements", of |-> "all"]

AchievementInit ==
    /\ unlocked = {}
    /\ announced = [a \in Achievements |-> 0]

LoadUser(r) == Begin(r, Check, "select locked") /\ UNCHANGED achievementVars

\* Any of the locked achievements may have its conditions met; none ends the task.
SelectLocked(r) ==
    /\ UNCHANGED <<row, history, achievementVars>>
    /\ \E met \in SUBSET (Achievements \ unlocked) :
          \/ met = {} /\ Finish(r, "select locked")
          \/ /\ met # {} /\ Goto(r, "select locked", "unlock")
             /\ found' = [found EXCEPT ![r] = met]

\* Mutant: user_achievements is not unique.
BugIsUnlocked(r) == FALSE /\ found[r] \cap unlocked # {}

\* ux_user_achievements_user_achievement.
IsUnlocked(r) == found[r] \cap unlocked # {}

\* Achievements that have no xp_events row yet.
NewXp(r) == {a \in found[r] : history[a] = 0}

\* One commit writes the achievements, their xp_events rows and the XP, from the copy; a
\* duplicate is rolled back, and the task retried.
Unlock(r) ==
    \/ /\ IsUnlocked(r)
       /\ Finish(r, "unlock")
       /\ UNCHANGED <<row, history, achievementVars>>
    \/ /\ ~IsUnlocked(r)
       /\ Goto(r, "unlock", "announce")
       /\ unlocked' = unlocked \cup found[r]
       /\ history' = [s \in Sources |-> IF s \in NewXp(r) THEN history[s] + 1 ELSE history[s]]
       /\ row' = IF NewXp(r) = {} THEN row
                 ELSE [row EXCEPT !.xp = [s \in Sources |-> IF s \in NewXp(r) THEN seen[r].xp[s] + 1
                                                            ELSE seen[r].xp[s]]]
       /\ UNCHANGED <<found, announced>>

\* emit sends one message after another, and may fail after some.
Announce(r) ==
    /\ \E sent \in SUBSET found[r] :
          announced' = [a \in Achievements |-> IF a \in sent THEN announced[a] + 1 ELSE announced[a]]
    /\ Finish(r, "announce")
    /\ UNCHANGED <<row, history, unlocked>>

AchievementStep(r) == LoadUser(r) \/ SelectLocked(r) \/ Unlock(r) \/ Announce(r)
=============================================================================
