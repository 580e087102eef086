---------------------------- MODULE DailyReward ----------------------------
(***************************************************************************)
(* The login of the day (GET /app-state) with its streak, the daily reward *)
(* and the hourly reset of streaks.                                        *)
(*                                                                         *)
(* The two ideas of a streak differ: record_login counts calendar days,    *)
(* reset_expired_streaks measures 25 hours.                                *)
(***************************************************************************)
EXTENDS UserRow

CONSTANT Daily         \* the XP source of daily rewards

ASSUME DailyAssumption == Daily \in Sources

VARIABLES
    loginDays,         \* history: days on which a login was recorded
    paidDays           \* history: days on which a daily reward was paid

dailyVars == <<loginDays, paidDays>>

DailyInit == loginDays = {} /\ paidDays = {}

Open == [kind |-> "open", of |-> Daily]
ClaimDaily == [kind |-> "daily", of |-> Daily]

Today == Day(clock)

LoggedInToday(copy) == copy.login # 0 /\ Day(copy.login) = Today

\* Mutant: a login after a gap carries the streak on.
BugStreakAfter(copy) == copy.streak + 1

StreakAfter(copy) == IF copy.login # 0 /\ Day(copy.login) = Today - 1 THEN copy.streak + 1 ELSE 1

\* record_login, computed from the copy.  A streak that equals the copy's is not sent.
LoggedIn(copy) ==
    IF LoggedInToday(copy) THEN row
    ELSE [row EXCEPT !.login = clock,
                     !.streak = IF StreakAfter(copy) = copy.streak THEN @ ELSE StreakAfter(copy)]

OpenApp(r) ==
    /\ Begin(r, Open, "record login")
    /\ UNCHANGED dailyVars

RecordLogin(r) ==
    /\ Finish(r, "record login")
    /\ row' = LoggedIn(seen[r])
    /\ loginDays' = IF LoggedInToday(seen[r]) THEN loginDays ELSE loginDays \cup {Today}
    /\ UNCHANGED <<history, paidDays>>

AskDaily(r) ==
    /\ Begin(r, ClaimDaily, "claim daily")
    /\ UNCHANGED dailyVars

\* What can_claim looks at: a login that is written re-reads the row, else it is the copy.
Looked(r) == IF LoggedInToday(seen[r]) THEN seen[r] ELSE row

\* The login, the reward and its XP.  last_daily_claimed_at is written first and the row
\* re-read, so the XP is added to what is committed.  A second claim rolls the login back.
PayDaily(r) ==
    /\ Finish(r, "claim daily")
    /\ IF Looked(r).daily = Today
       THEN UNCHANGED <<row, history, dailyVars>>
       ELSE /\ LET after == LoggedIn(seen[r])
               IN  row' = [after EXCEPT !.daily = Today, !.xp[Daily] = @ + 1, !.coins.amount = @ + 1]
            /\ history' = Recorded(Daily)
            /\ loginDays' = IF LoggedInToday(seen[r]) THEN loginDays ELSE loginDays \cup {Today}
            /\ paidDays' = paidDays \cup {Today}

\* reset_expired_streaks: one UPDATE, 25 hours after the last login.
ResetStreak ==
    /\ row.streak > 0
    /\ row.login # 0 /\ Hour(clock) - Hour(row.login) > 25
    /\ row' = [row EXCEPT !.streak = 0]
    /\ UNCHANGED <<workload, clock, history, sessionVars, dailyVars>>

DailyStep(r) == OpenApp(r) \/ RecordLogin(r) \/ AskDaily(r) \/ PayDaily(r)
=============================================================================
