------------------------- MODULE UserWritersTypes --------------------------
(***************************************************************************)
(* Type correctness of UserWriters: every session begins, goes on or ends, *)
(* and what it writes to the users row is a row again.                     *)
(***************************************************************************)
EXTENDS UserWriters, TLAPS

-----------------------------------------------------------------------------
(* Type correctness *)

\* What a step knows of the task of its session.
TaskKnown(r) ==
    /\ pc[r] \in {"check claim", "find event", "pay claim"} => task[r].of \in Rewards
    /\ pc[r] \in {"find event", "pay claim"} => task[r].of \in completed
    /\ pc[r] \in {"check shop", "purchase"} => task[r].of \in Cosmetics /\ task[r].kind \in Means
    /\ pc[r] \in {"unlock", "announce"} => found[r] \subseteq Achievements

TypeInv == TypeOK /\ \A r \in Requests : TaskKnown(r)

\* The part of the types that belongs to the sessions.
SessionsOK ==
    /\ workload \in Workloads
    /\ task \in [Requests -> workload \cup {Idle}]
    /\ pc \in [Requests -> Steps]
    /\ seen \in [Requests -> Row]
    /\ since \in [Requests -> 0 .. MaxClock]
    /\ found \in [Requests -> SUBSET Sources]
    /\ \A r \in Requests : /\ pc[r] = "idle" <=> task[r] = Idle
                           /\ pc[r] = "idle" => found[r] = {}

\* The part that belongs to the tables.
TablesOK ==
    /\ clock \in 2 .. MaxClock
    /\ row \in Row
    /\ history \in [Sources -> Nat]
    /\ completed \subseteq Rewards /\ claimed \subseteq completed
    /\ loginDays \subseteq Nat /\ paidDays \subseteq Nat
    /\ owned \in [Cosmetics -> Means \cup {"no"}]
    /\ unlocked \subseteq Achievements
    /\ announced \in [Achievements -> Nat]
    /\ public \in BOOLEAN
    /\ active \subseteq Seasons /\ archived \subseteq Seasons
    /\ closings \in [Seasons -> Nat]

ClosingOK ==
    /\ closing \in [Requests -> SUBSET Seasons]
    /\ \A r \in Requests : closing[r] # {} => pc[r] = "close"

LEMMA TypeParts ==
  /\ TypeOK <=> SessionsOK /\ TablesOK /\ ClosingOK
  /\ TypeOK' <=> SessionsOK' /\ TablesOK' /\ ClosingOK'
BY DEF TypeOK, BaseTypeOK, SessionsOK, TablesOK, ClosingOK

LEMMA FirstRowType == FirstRow \in Row
<1>1. [amount |-> FirstCoins, spent |-> [i \in Cosmetics |-> 0]] \in Wallet
  BY UserRowAssumption DEF Wallet
<1>2. [amount |-> FirstFragments, spent |-> [i \in Cosmetics |-> 0]] \in Wallet
  BY UserRowAssumption DEF Wallet
<1> QED
  BY <1>1, <1>2 DEF FirstRow, Row

LEMMA RowFields ==
  ASSUME NEW x \in Row
  PROVE  /\ x.xp \in [Sources -> Nat] /\ x.coins \in Wallet /\ x.fragments \in Wallet
         /\ x.login \in Nat /\ x.streak \in Nat /\ x.daily \in Nat
         /\ x.coins.amount \in Int /\ x.coins.spent \in [Cosmetics -> Nat]
         /\ x.fragments.amount \in Int /\ x.fragments.spent \in [Cosmetics -> Nat]
<1>1. /\ x.xp \in [Sources -> Nat] /\ x.coins \in Wallet /\ x.fragments \in Wallet
      /\ x.login \in Nat /\ x.streak \in Nat /\ x.daily \in Nat
  BY DEF Row
<1> QED
  BY <1>1 DEF Wallet

\* A session begins with a copy of the row.
LEMMA BeginSession ==
  ASSUME TypeInv, NEW r \in Requests, NEW t \in workload, NEW step \in Steps \ {"idle"}, Begin(r, t, step)
  PROVE  /\ SessionsOK'
         /\ pc[r] = "idle" /\ pc' = [pc EXCEPT ![r] = step] /\ found' = found
         /\ task' = [task EXCEPT ![r] = t] /\ seen' = [seen EXCEPT ![r] = row]
         /\ UNCHANGED <<clock, row, history>>
<1>1. t \in workload /\ t # Idle
  BY UserRowAssumption DEF Begin, TypeInv, TypeOK, BaseTypeOK
<1>2. clock \in 0 .. MaxClock /\ row \in Row
  BY UserRowAssumption DEF TypeInv, TypeOK, BaseTypeOK
<1>3. /\ pc[r] = "idle" /\ pc' = [pc EXCEPT ![r] = step] /\ found' = found
      /\ task' = [task EXCEPT ![r] = t] /\ seen' = [seen EXCEPT ![r] = row]
      /\ since' = [since EXCEPT ![r] = clock]
      /\ UNCHANGED <<workload, clock, row, history>>
  BY DEF Begin
<1>4. SessionsOK
  BY TypeParts DEF TypeInv
<1>5. workload' \in Workloads /\ task' \in [Requests -> workload \cup {Idle}]
  BY <1>1, <1>3, <1>4 DEF SessionsOK
<1>6. /\ pc' \in [Requests -> Steps] /\ seen' \in [Requests -> Row]
      /\ since' \in [Requests -> 0 .. MaxClock] /\ found' \in [Requests -> SUBSET Sources]
  BY <1>2, <1>3, <1>4 DEF SessionsOK
<1>7. ASSUME NEW q \in Requests
      PROVE  /\ pc'[q] = "idle" <=> task'[q] = Idle
             /\ pc'[q] = "idle" => found'[q] = {}
  BY <1>1, <1>3, <1>4 DEF SessionsOK
<1>8. SessionsOK'
  BY <1>3, <1>5, <1>6, <1>7 DEF SessionsOK
<1> QED
  BY <1>3, <1>8

\* A session goes on.
LEMMA GotoSession ==
  ASSUME TypeInv, NEW r \in Requests, NEW from \in Steps \ {"idle"}, NEW to \in Steps \ {"idle"},
         Goto(r, from, to), found' \in [Requests -> SUBSET Sources],
         \A q \in Requests \ {r} : found'[q] = found[q]
  PROVE  /\ SessionsOK'
         /\ pc[r] = from /\ pc' = [pc EXCEPT ![r] = to]
         /\ UNCHANGED <<clock, task, seen>>
BY DEF Goto, TypeInv, TypeOK, BaseTypeOK, SessionsOK

\* A session ends.
LEMMA FinishSession ==
  ASSUME TypeInv, NEW r \in Requests, NEW from \in Steps \ {"idle"}, Finish(r, from)
  PROVE  /\ SessionsOK'
         /\ pc[r] = from /\ pc' = [pc EXCEPT ![r] = "idle"]
         /\ task' = [task EXCEPT ![r] = Idle] /\ seen' = [seen EXCEPT ![r] = FirstRow]
         /\ found' = [found EXCEPT ![r] = {}]
         /\ clock' = clock
<1>1. "idle" \in Steps
  BY DEF Steps
<1>2. 0 \in 0 .. MaxClock
  BY UserRowAssumption
<1> QED
  BY <1>1, <1>2, FirstRowType DEF Finish, TypeInv, TypeOK, BaseTypeOK, SessionsOK

\* What a step of one session has to show.
LEMMA OneSession ==
  ASSUME TypeInv, NEW r \in Requests, SessionsOK', TablesOK', completed' = completed,
         \A q \in Requests \ {r} : /\ pc'[q] = pc[q] /\ task'[q] = task[q]
                                   /\ found'[q] = found[q] /\ closing'[q] = closing[q],
         closing' \in [Requests -> SUBSET Seasons],
         closing'[r] # {} => pc'[r] = "close",
         TaskKnown(r)'
  PROVE  TypeInv'
<1>1. ASSUME NEW q \in Requests
      PROVE  TaskKnown(q)' /\ (closing'[q] # {} => pc'[q] = "close")
  <2>1. CASE q = r
    BY <2>1
  <2>2. CASE q # r
    <3>1. TaskKnown(q) /\ (closing[q] # {} => pc[q] = "close")
      BY DEF TypeInv, TypeOK
    <3> QED
      BY <2>2, <3>1 DEF TaskKnown
  <2> QED
    BY <2>1, <2>2
<1>2. ClosingOK'
  BY <1>1 DEF ClosingOK
<1> QED
  BY <1>1, <1>2, TypeParts DEF TypeInv

\* What the writers leave in the row.
LEMMA PaidRow ==
  ASSUME row \in Row, NEW base \in Row, NEW s \in Sources
  PROVE  /\ Paid(base, s) \in Row
         /\ Paid(base, s).xp = [base.xp EXCEPT ![s] = @ + 1]
         /\ Paid(base, s).coins = [base.coins EXCEPT !.amount = @ + 1]
         /\ Paid(base, s).fragments = row.fragments /\ Paid(base, s).daily = row.daily
         /\ Paid(base, s).login = row.login /\ Paid(base, s).streak = row.streak
<1> DEFINE xp == [base.xp EXCEPT ![s] = @ + 1]
           coins == [base.coins EXCEPT !.amount = @ + 1]
<1>1. xp \in [Sources -> Nat]
  BY RowFields
<1>2. coins \in Wallet
  BY RowFields DEF Wallet
<1>3. Paid(base, s) = [row EXCEPT !.xp = xp, !.coins = coins]
  BY DEF Paid
<1> HIDE DEF xp, coins
<1>4. /\ Paid(base, s) \in Row /\ Paid(base, s).xp = xp /\ Paid(base, s).coins = coins
      /\ Paid(base, s).fragments = row.fragments /\ Paid(base, s).daily = row.daily
      /\ Paid(base, s).login = row.login /\ Paid(base, s).streak = row.streak
  BY <1>1, <1>2, <1>3 DEF Row
<1> QED
  BY <1>4 DEF xp, coins

LEMMA LoggedInRow ==
  ASSUME row \in Row, clock \in Nat, NEW copy \in Row
  PROVE  /\ LoggedIn(copy) \in Row
         /\ LoggedIn(copy).xp = row.xp /\ LoggedIn(copy).coins = row.coins
         /\ LoggedIn(copy).fragments = row.fragments /\ LoggedIn(copy).daily = row.daily
<1>1. StreakAfter(copy) \in Nat
  BY RowFields DEF StreakAfter
<1> DEFINE streak == IF StreakAfter(copy) = copy.streak THEN row.streak ELSE StreakAfter(copy)
<1>2. streak \in Nat
  BY <1>1, RowFields
<1>3. LoggedIn(copy) = row \/ LoggedIn(copy) = [row EXCEPT !.login = clock, !.streak = streak]
  BY DEF LoggedIn
<1> HIDE DEF streak
<1> QED
  BY <1>2, <1>3 DEF Row

\* What PayDaily leaves, after the login.
DailyPaid(x, day) == [x EXCEPT !.daily = day, !.xp[Daily] = @ + 1, !.coins.amount = @ + 1]

LEMMA DailyPaidRow ==
  ASSUME NEW x \in Row, NEW day \in Nat
  PROVE  /\ DailyPaid(x, day) \in Row
         /\ DailyPaid(x, day).xp = [x.xp EXCEPT ![Daily] = @ + 1]
         /\ DailyPaid(x, day).coins = [x.coins EXCEPT !.amount = @ + 1]
         /\ DailyPaid(x, day).fragments = x.fragments /\ DailyPaid(x, day).daily = day
         /\ DailyPaid(x, day).login = x.login /\ DailyPaid(x, day).streak = x.streak
<1> DEFINE xp == [x.xp EXCEPT ![Daily] = @ + 1]
           coins == [x.coins EXCEPT !.amount = @ + 1]
<1>1. xp \in [Sources -> Nat]
  BY RowFields, DailyAssumption
<1>2. coins \in Wallet
  BY RowFields DEF Wallet
<1>3. DailyPaid(x, day) = [x EXCEPT !.daily = day, !.xp = xp, !.coins = coins]
  BY DEF DailyPaid
<1> HIDE DEF xp, coins
<1>4. /\ DailyPaid(x, day) \in Row /\ DailyPaid(x, day).xp = xp /\ DailyPaid(x, day).coins = coins
      /\ DailyPaid(x, day).fragments = x.fragments /\ DailyPaid(x, day).daily = day
      /\ DailyPaid(x, day).login = x.login /\ DailyPaid(x, day).streak = x.streak
  BY <1>1, <1>2, <1>3 DEF Row
<1> QED
  BY <1>4 DEF xp, coins

LEMMA ChargedRow ==
  ASSUME row \in Row, NEW copy \in Row, NEW i \in Cosmetics, NEW means \in Means,
         Cost(i, means) # 0
  PROVE  /\ Charged(copy, i, means) \in Row
         /\ Charged(copy, i, means)[means] =
              [amount |-> copy[means].amount - Cost(i, means),
               spent |-> [copy[means].spent EXCEPT ![i] = @ + 1]]
         /\ Charged(copy, i, means).xp = row.xp /\ Charged(copy, i, means).daily = row.daily
         /\ Charged(copy, i, means).login = row.login /\ Charged(copy, i, means).streak = row.streak
         /\ \A other \in Means \ {means} : Charged(copy, i, means)[other] = row[other]
<1> DEFINE left == [amount |-> copy[means].amount - Cost(i, means),
                    spent |-> [copy[means].spent EXCEPT ![i] = @ + 1]]
<1>1. Cost(i, means) \in Nat
  BY ShopAssumption DEF Cost
<1>2. left \in Wallet
  BY <1>1, RowFields DEF Wallet, Means
<1>3. Charged(copy, i, means) = [row EXCEPT ![means] = left]
  BY DEF Charged
<1> HIDE DEF left
<1>4. /\ Charged(copy, i, means) \in Row /\ Charged(copy, i, means)[means] = left
      /\ Charged(copy, i, means).xp = row.xp /\ Charged(copy, i, means).daily = row.daily
      /\ Charged(copy, i, means).login = row.login /\ Charged(copy, i, means).streak = row.streak
      /\ \A other \in Means \ {means} : Charged(copy, i, means)[other] = row[other]
  BY <1>2, <1>3 DEF Means, Row
<1> QED
  BY <1>4 DEF left

\* Types of a session that begins, goes on or ends; what is left is what it does to the tables.
LEMMA BeginType ==
  ASSUME TypeInv, NEW r \in Requests, NEW t \in workload, NEW step \in Steps \ {"idle"}, Begin(r, t, step),
         UNCHANGED <<completed, claimed, loginDays, paidDays, owned, unlocked, announced>>,
         UNCHANGED <<public, active, closing, archived, closings>>,
         pc'[r] = step /\ task'[r] = t => TaskKnown(r)'
  PROVE  TypeInv'
<1>1. /\ SessionsOK' /\ pc[r] = "idle" /\ pc' = [pc EXCEPT ![r] = step] /\ found' = found
      /\ task' = [task EXCEPT ![r] = t] /\ UNCHANGED <<clock, row, history>>
  BY BeginSession
<1>2. SessionsOK /\ TablesOK /\ ClosingOK
  BY TypeParts DEF TypeInv
<1>3. TablesOK'
  BY <1>1, <1>2 DEF TablesOK
<1>4. pc'[r] = step /\ task'[r] = t
  BY <1>1, <1>2 DEF SessionsOK
<1>5. TaskKnown(r)'
  BY <1>4
<1>6. closing'[r] = {} /\ closing' \in [Requests -> SUBSET Seasons]
  BY <1>1, <1>2 DEF ClosingOK
<1>7. \A q \in Requests \ {r} : /\ pc'[q] = pc[q] /\ task'[q] = task[q]
                                /\ found'[q] = found[q] /\ closing'[q] = closing[q]
  BY <1>1, <1>2 DEF SessionsOK
<1> QED
  BY <1>1, <1>3, <1>5, <1>6, <1>7, OneSession

LEMMA GotoType ==
  ASSUME TypeInv, NEW r \in Requests, NEW from \in Steps \ {"idle"}, NEW to \in Steps \ {"idle"},
         Goto(r, from, to), found' \in [Requests -> SUBSET Sources],
         \A q \in Requests \ {r} : found'[q] = found[q] /\ closing'[q] = closing[q],
         TablesOK', completed' = completed,
         closing' \in [Requests -> SUBSET Seasons],
         closing'[r] # {} => to = "close",
         pc'[r] = to => TaskKnown(r)'
  PROVE  TypeInv'
<1>1. SessionsOK' /\ pc[r] = from /\ pc' = [pc EXCEPT ![r] = to] /\ UNCHANGED <<clock, task, seen>>
  BY GotoSession
<1>2. SessionsOK
  BY TypeParts DEF TypeInv
<1>3. pc'[r] = to /\ \A q \in Requests \ {r} : pc'[q] = pc[q]
  BY <1>1, <1>2 DEF SessionsOK
<1> QED
  BY <1>1, <1>3, OneSession

LEMMA FinishType ==
  ASSUME TypeInv, NEW r \in Requests, NEW from \in Steps \ {"idle"}, Finish(r, from),
         TablesOK', completed' = completed,
         closing' \in [Requests -> SUBSET Seasons], closing'[r] = {},
         \A q \in Requests \ {r} : closing'[q] = closing[q]
  PROVE  TypeInv'
<1>1. /\ SessionsOK' /\ pc[r] = from /\ pc' = [pc EXCEPT ![r] = "idle"]
      /\ task' = [task EXCEPT ![r] = Idle] /\ found' = [found EXCEPT ![r] = {}]
  BY FinishSession
<1>2. SessionsOK
  BY TypeParts DEF TypeInv
<1>3. pc'[r] = "idle"
  BY <1>1, <1>2 DEF SessionsOK
<1>4. \A q \in Requests \ {r} : pc'[q] = pc[q] /\ task'[q] = task[q] /\ found'[q] = found[q]
  BY <1>1, <1>2 DEF SessionsOK
<1>5. TaskKnown(r)'
  BY <1>3 DEF TaskKnown
<1> QED
  BY <1>1, <1>4, <1>5, OneSession

\* A step that finds a session at any other step than "close" leaves closing alone.
LEMMA ClosingFree ==
  ASSUME TypeInv, NEW r \in Requests, pc[r] # "close", closing' = closing
  PROVE  /\ closing' \in [Requests -> SUBSET Seasons] /\ closing'[r] = {}
         /\ \A q \in Requests \ {r} : closing'[q] = closing[q]
BY DEF TypeInv, TypeOK

LEMMA Known ==
  ASSUME TypeInv
  PROVE  /\ SessionsOK /\ TablesOK /\ ClosingOK /\ clock \in Nat /\ row \in Row
         /\ \A r \in Requests : seen[r] \in Row /\ TaskKnown(r)
BY TypeParts, UserRowAssumption DEF TypeInv, SessionsOK, TablesOK

LEMMA RecordedType ==
  ASSUME history \in [Sources -> Nat], NEW s \in Sources
  PROVE  Recorded(s) \in [Sources -> Nat]
BY DEF Recorded

LEMMA ClaimType ==
  ASSUME TypeInv, NEW r \in Requests, ClaimStep(r),
         UNCHANGED <<dailyVars, owned, achievementVars, seasonVars>>
  PROVE  TypeInv'
<1>0. /\ completed' = completed
      /\ UNCHANGED <<loginDays, paidDays, owned, unlocked, announced, public, active, closing>>
      /\ UNCHANGED <<archived, closings>>
  BY DEF ClaimStep, Authenticate, CheckClaim, FindEvent, PayClaim, rewardVars,
         dailyVars, achievementVars, seasonVars
<1>1. CASE Authenticate(r)
  <2>1. PICK s \in Rewards : Begin(r, ClaimOf(s), "check claim") /\ UNCHANGED rewardVars
    BY <1>1 DEF Authenticate
  <2>2. "check claim" \in Steps \ {"idle"}
    BY DEF Steps
  <2>3. UNCHANGED <<completed, claimed>> /\ ClaimOf(s) \in workload
    BY <2>1 DEF rewardVars, Begin
  <2>4. ClaimOf(s).of \in Rewards
    BY DEF ClaimOf
  <2>5. pc'[r] = "check claim" /\ task'[r] = ClaimOf(s) => TaskKnown(r)'
    BY <2>4 DEF TaskKnown
  <2> QED
    BY <1>0, <2>1, <2>2, <2>3, <2>5, BeginType
<1>2. CASE CheckClaim(r)
  <2>1. CASE Finish(r, "check claim") /\ UNCHANGED <<row, history, rewardVars>>
    <3>1. TablesOK' /\ pc[r] = "check claim"
      BY <1>0, <2>1, Known DEF TablesOK, Finish, rewardVars
    <3>2. "check claim" \in Steps \ {"idle"}
      BY DEF Steps
    <3> QED
      BY <1>0, <2>1, <3>1, <3>2, ClosingFree, FinishType
  <2>2. CASE /\ Goto(r, "check claim", "find event") /\ task[r].of \in completed
             /\ UNCHANGED <<row, history, found, rewardVars>>
    <3>1. TablesOK' /\ pc[r] = "check claim" /\ task' = task
      BY <1>0, <2>2, Known DEF TablesOK, Goto, rewardVars
    <3>2. "check claim" \in Steps \ {"idle"} /\ "find event" \in Steps \ {"idle"}
      BY DEF Steps
    <3>3. task[r].of \in Rewards
      BY <3>1, Known DEF TaskKnown
    <3>4. pc'[r] = "find event" => TaskKnown(r)'
      BY <1>0, <2>2, <3>1, <3>3 DEF TaskKnown
    <3>5. found' = found /\ found' \in [Requests -> SUBSET Sources]
      BY <2>2, Known DEF SessionsOK
    <3> QED
      BY <1>0, <2>2, <3>1, <3>2, <3>4, <3>5, ClosingFree, GotoType
  <2> QED
    BY <1>2, <2>1, <2>2 DEF CheckClaim
<1>3. CASE FindEvent(r)
  <2>1. TablesOK' /\ pc[r] = "find event" /\ task' = task
    BY <1>0, <1>3, Known DEF TablesOK, FindEvent, Goto, rewardVars
  <2>2. "find event" \in Steps \ {"idle"} /\ "pay claim" \in Steps \ {"idle"}
    BY DEF Steps
  <2>3. task[r].of \in completed /\ task[r].of \in Rewards
    BY <2>1, Known DEF TaskKnown
  <2>4. pc'[r] = "pay claim" => TaskKnown(r)'
    BY <1>0, <2>1, <2>3 DEF TaskKnown
  <2>5. {s \in {task[r].of} : history[s] > 0} \in SUBSET Sources
    BY <2>3, RewardsAssumption
  <2>6. /\ found' \in [Requests -> SUBSET Sources]
        /\ \A q \in Requests \ {r} : found'[q] = found[q]
    BY <1>3, <2>5, Known DEF FindEvent, SessionsOK
  <2> QED
    BY <1>0, <1>3, <2>1, <2>2, <2>4, <2>6, ClosingFree, GotoType DEF FindEvent
<1>4. CASE PayClaim(r)
  <2> DEFINE s == task[r].of
  <2>1. pc[r] = "pay claim" /\ Finish(r, "pay claim") /\ clock' = clock
    BY <1>4 DEF PayClaim, Finish
  <2>2. s \in completed /\ s \in Sources
    BY <2>1, Known, RewardsAssumption DEF TaskKnown
  <2>3. /\ claimed' = claimed \cup {s}
        /\ (row' = Paid(seen[r], s) /\ history' = Recorded(s)) \/ UNCHANGED <<row, history>>
    BY <1>4 DEF PayClaim
  <2>4. Paid(seen[r], s) \in Row /\ Recorded(s) \in [Sources -> Nat]
    BY <2>2, Known, PaidRow, RecordedType DEF TablesOK
  <2> HIDE DEF s
  <2>5. row' \in Row /\ history' \in [Sources -> Nat]
    BY <2>3, <2>4, Known DEF TablesOK
  <2>6. TablesOK'
    BY <1>0, <2>1, <2>2, <2>3, <2>5, Known DEF TablesOK
  <2>7. "pay claim" \in Steps \ {"idle"}
    BY DEF Steps
  <2> QED
    BY <1>0, <2>1, <2>6, <2>7, ClosingFree, FinishType
<1> QED
  BY <1>1, <1>2, <1>3, <1>4 DEF ClaimStep

LEMMA DailyType ==
  ASSUME TypeInv, NEW r \in Requests, DailyStep(r),
         UNCHANGED <<rewardVars, owned, achievementVars, seasonVars>>
  PROVE  TypeInv'
<1>0. /\ UNCHANGED <<completed, claimed, owned, unlocked, announced, public, active, closing>>
      /\ UNCHANGED <<archived, closings>>
  BY DEF rewardVars, achievementVars, seasonVars
<1>1. ASSUME NEW t \in {Open, ClaimDaily}, NEW step \in {"record login", "claim daily"},
             Begin(r, t, step), UNCHANGED dailyVars
      PROVE  TypeInv'
  <2>1. step \in Steps \ {"idle"} /\ t \in workload
    BY <1>1 DEF Steps, Begin
  <2>2. UNCHANGED <<loginDays, paidDays>>
    BY <1>1 DEF dailyVars
  <2>3. pc'[r] = step => TaskKnown(r)'
    BY DEF TaskKnown
  <2> QED
    BY <1>0, <1>1, <2>1, <2>2, <2>3, BeginType
<1>2. CASE OpenApp(r)
  BY <1>1, <1>2 DEF OpenApp
<1>3. CASE AskDaily(r)
  BY <1>1, <1>3 DEF AskDaily
<1>4. Today \in Nat
  BY Known DEF Today, Day, Hour
<1>5. LoggedIn(seen[r]) \in Row
  BY Known, LoggedInRow
<1>6. CASE RecordLogin(r)
  <2>1. /\ Finish(r, "record login") /\ pc[r] = "record login" /\ UNCHANGED <<clock, history, paidDays>>
        /\ row' = LoggedIn(seen[r])
        /\ loginDays' = loginDays \/ loginDays' = loginDays \cup {Today}
    BY <1>6 DEF RecordLogin, Finish
  <2>2. loginDays' \subseteq Nat
    BY <1>4, <2>1, Known DEF TablesOK
  <2>3. TablesOK'
    BY <1>0, <1>5, <2>1, <2>2, Known DEF TablesOK
  <2>4. "record login" \in Steps \ {"idle"}
    BY DEF Steps
  <2> QED
    BY <1>0, <2>1, <2>3, <2>4, ClosingFree, FinishType
<1>7. CASE PayDaily(r)
  <2>1. Finish(r, "claim daily") /\ pc[r] = "claim daily" /\ UNCHANGED clock
    BY <1>7 DEF PayDaily, Finish
  <2>2. TablesOK'
    <3>1. CASE UNCHANGED <<row, history, dailyVars>>
      BY <1>0, <2>1, <3>1, Known DEF TablesOK, dailyVars
    <3>2. CASE ~UNCHANGED <<row, history, dailyVars>>
      <4>1. /\ row' = DailyPaid(LoggedIn(seen[r]), Today) /\ history' = Recorded(Daily)
            /\ loginDays' = loginDays \/ loginDays' = loginDays \cup {Today}
            /\ paidDays' = paidDays \cup {Today}
        BY <1>7, <3>2 DEF PayDaily, DailyPaid
      <4>4. row' \in Row
        BY <1>4, <1>5, <4>1, DailyPaidRow
      <4>5. history' \in [Sources -> Nat]
        BY <4>1, Known, DailyAssumption, RecordedType DEF TablesOK
      <4>6. loginDays' \subseteq Nat /\ paidDays' \subseteq Nat
        BY <1>4, <4>1, Known DEF TablesOK
      <4> QED
        BY <1>0, <2>1, <4>4, <4>5, <4>6, Known DEF TablesOK
    <3> QED
      BY <3>1, <3>2
  <2>3. "claim daily" \in Steps \ {"idle"}
    BY DEF Steps
  <2> QED
    BY <1>0, <2>1, <2>2, <2>3, ClosingFree, FinishType
<1> QED
  BY <1>2, <1>3, <1>6, <1>7 DEF DailyStep

LEMMA ChargedType ==
  ASSUME row \in Row, NEW copy \in Row, NEW i \in Cosmetics, NEW means \in Means
  PROVE  Charged(copy, i, means) \in Row
<1>1. CASE Cost(i, means) = 0
  BY <1>1 DEF Charged
<1>2. CASE Cost(i, means) # 0
  BY <1>2, ChargedRow
<1> QED
  BY <1>1, <1>2

LEMMA ShopType ==
  ASSUME TypeInv, NEW r \in Requests, ShopStep(r),
         UNCHANGED <<rewardVars, dailyVars, achievementVars, seasonVars>>
  PROVE  TypeInv'
<1>0. /\ UNCHANGED <<completed, claimed, loginDays, paidDays, unlocked, announced, public, active>>
      /\ UNCHANGED <<closing, archived, closings>>
  BY DEF rewardVars, dailyVars, achievementVars, seasonVars
<1>s. "check shop" \in Steps \ {"idle"} /\ "purchase" \in Steps \ {"idle"}
  BY DEF Steps
<1>1. CASE AskShop(r)
  <2>1. PICK i \in Cosmetics, means \in Means :
          Begin(r, Purchase(i, means), "check shop") /\ UNCHANGED owned
    BY <1>1 DEF AskShop
  <2>2. Purchase(i, means) \in workload
    BY <2>1 DEF Begin
  <2>3. Purchase(i, means).of \in Cosmetics /\ Purchase(i, means).kind \in Means
    BY DEF Purchase
  <2>4. pc'[r] = "check shop" /\ task'[r] = Purchase(i, means) => TaskKnown(r)'
    BY <2>3 DEF TaskKnown
  <2> QED
    BY <1>0, <1>s, <2>1, <2>2, <2>4, BeginType
<1>2. CASE CheckShop(r)
  <2>0. UNCHANGED <<row, history, owned>>
    BY <1>2 DEF CheckShop
  <2>1. CASE Finish(r, "check shop")
    <3>1. TablesOK' /\ pc[r] = "check shop"
      BY <1>0, <2>0, <2>1, Known DEF TablesOK, Finish
    <3> QED
      BY <1>0, <1>s, <2>1, <3>1, ClosingFree, FinishType
  <2>2. CASE Goto(r, "check shop", "purchase") /\ UNCHANGED found
    <3>1. TablesOK' /\ pc[r] = "check shop" /\ task' = task
      BY <1>0, <2>0, <2>2, Known DEF TablesOK, Goto
    <3>2. task[r].of \in Cosmetics /\ task[r].kind \in Means
      BY <3>1, Known DEF TaskKnown
    <3>3. pc'[r] = "purchase" => TaskKnown(r)'
      BY <3>1, <3>2 DEF TaskKnown
    <3>4. found' = found /\ found' \in [Requests -> SUBSET Sources]
      BY <2>2, Known DEF SessionsOK
    <3> QED
      BY <1>0, <1>s, <2>2, <3>1, <3>3, <3>4, ClosingFree, GotoType
  <2> QED
    BY <1>2, <2>1, <2>2 DEF CheckShop
<1>3. CASE PayShop(r)
  <2>1. Finish(r, "purchase") /\ pc[r] = "purchase" /\ UNCHANGED <<clock, history>>
    BY <1>3 DEF PayShop, Finish
  <2>2. task[r].of \in Cosmetics /\ task[r].kind \in Means
    BY <2>1, Known DEF TaskKnown
  <2>3. Charged(seen[r], task[r].of, task[r].kind) \in Row
    BY <2>2, Known, ChargedType
  <2>4. row' = row \/ row' = Charged(seen[r], task[r].of, task[r].kind)
    BY <1>3 DEF PayShop
  <2>5. owned' = owned \/ owned' = [owned EXCEPT ![task[r].of] = task[r].kind]
    BY <1>3 DEF PayShop
  <2>6. owned' \in [Cosmetics -> Means \cup {"no"}]
    BY <2>2, <2>5, Known DEF TablesOK
  <2>7. row' \in Row
    BY <2>3, <2>4, Known
  <2>8. TablesOK'
    BY <1>0, <2>1, <2>6, <2>7, Known DEF TablesOK
  <2> QED
    BY <1>0, <1>s, <2>1, <2>8, ClosingFree, FinishType
<1> QED
  BY <1>1, <1>2, <1>3 DEF ShopStep

LEMMA AchievementType ==
  ASSUME TypeInv, NEW r \in Requests, AchievementStep(r),
         UNCHANGED <<rewardVars, dailyVars, owned, seasonVars>>
  PROVE  TypeInv'
<1>0. /\ UNCHANGED <<completed, claimed, loginDays, paidDays, owned, public, active, closing>>
      /\ UNCHANGED <<archived, closings>>
  BY DEF rewardVars, dailyVars, seasonVars
<1>s. /\ "select locked" \in Steps \ {"idle"} /\ "unlock" \in Steps \ {"idle"}
      /\ "announce" \in Steps \ {"idle"}
  BY DEF Steps
<1>1. CASE LoadUser(r)
  <2>1. Check \in workload /\ Begin(r, Check, "select locked") /\ UNCHANGED <<unlocked, announced>>
    BY <1>1 DEF LoadUser, Begin, achievementVars
  <2>2. pc'[r] = "select locked" => TaskKnown(r)'
    BY DEF TaskKnown
  <2> QED
    BY <1>0, <1>s, <2>1, <2>2, BeginType
<1>2. CASE SelectLocked(r)
  <2>0. UNCHANGED <<row, history, unlocked, announced>>
    BY <1>2 DEF SelectLocked, achievementVars
  <2>1. CASE Finish(r, "select locked")
    <3>1. TablesOK' /\ pc[r] = "select locked"
      BY <1>0, <2>0, <2>1, Known DEF TablesOK, Finish
    <3> QED
      BY <1>0, <1>s, <2>1, <3>1, ClosingFree, FinishType
  <2>2. ASSUME NEW met \in SUBSET (Achievements \ unlocked), Goto(r, "select locked", "unlock"),
               found' = [found EXCEPT ![r] = met]
        PROVE  TypeInv'
    <3>1. TablesOK' /\ pc[r] = "select locked"
      BY <1>0, <2>0, <2>2, Known DEF TablesOK, Goto
    <3>2. /\ found' \in [Requests -> SUBSET Sources] /\ found'[r] = met
          /\ \A q \in Requests \ {r} : found'[q] = found[q]
      BY <2>2, Known, AchievementsAssumption DEF SessionsOK
    <3>3. pc'[r] = "unlock" => TaskKnown(r)'
      BY <3>2 DEF TaskKnown
    <3> QED
      BY <1>0, <1>s, <2>2, <3>1, <3>2, <3>3, ClosingFree, GotoType
  <2> QED
    BY <1>2, <2>1, <2>2 DEF SelectLocked
<1>3. CASE Unlock(r)
  <2>1. CASE Finish(r, "unlock") /\ UNCHANGED <<row, history, achievementVars>>
    <3>1. TablesOK' /\ pc[r] = "unlock"
      BY <1>0, <2>1, Known DEF TablesOK, Finish, achievementVars
    <3> QED
      BY <1>0, <1>s, <2>1, <3>1, ClosingFree, FinishType
  <2>2. CASE ~(Finish(r, "unlock") /\ UNCHANGED <<row, history, achievementVars>>)
    <3> DEFINE events == [s \in Sources |-> IF s \in NewXp(r) THEN history[s] + 1 ELSE history[s]]
               xp == [s \in Sources |-> IF s \in NewXp(r) THEN seen[r].xp[s] + 1 ELSE seen[r].xp[s]]
    <3>1. /\ Goto(r, "unlock", "announce") /\ UNCHANGED <<found, announced>>
          /\ unlocked' = unlocked \cup found[r] /\ history' = events
          /\ row' = row \/ row' = [row EXCEPT !.xp = xp]
      BY <1>3, <2>2 DEF Unlock
    <3>2. seen[r].xp \in [Sources -> Nat] /\ history \in [Sources -> Nat]
      BY Known, RowFields DEF TablesOK
    <3>3. events \in [Sources -> Nat] /\ xp \in [Sources -> Nat]
      BY <3>2
    <3> HIDE DEF events, xp
    <3>4. row' \in Row
      BY <3>1, <3>3, Known DEF Row
    <3>5. pc[r] = "unlock" /\ clock' = clock
      BY <3>1 DEF Goto
    <3>6. found[r] \subseteq Achievements
      BY <3>5, Known DEF TaskKnown
    <3>7. TablesOK'
      BY <1>0, <3>1, <3>3, <3>4, <3>5, <3>6, Known DEF TablesOK
    <3>8. /\ found' \in [Requests -> SUBSET Sources]
          /\ \A q \in Requests \ {r} : found'[q] = found[q]
      BY <3>1, Known DEF SessionsOK
    <3>9. pc'[r] = "announce" => TaskKnown(r)'
      BY <3>1, <3>6 DEF TaskKnown
    <3> QED
      BY <1>0, <1>s, <3>1, <3>5, <3>7, <3>8, <3>9, ClosingFree, GotoType
  <2> QED
    BY <2>1, <2>2
<1>4. CASE Announce(r)
  <2>1. PICK sent \in SUBSET found[r] :
          announced' = [a \in Achievements |-> IF a \in sent THEN announced[a] + 1 ELSE announced[a]]
    BY <1>4 DEF Announce
  <2>2. /\ Finish(r, "announce") /\ pc[r] = "announce"
        /\ UNCHANGED <<clock, row, history, unlocked>>
    BY <1>4 DEF Announce, Finish
  <2>3. announced' \in [Achievements -> Nat]
    BY <2>1, Known DEF TablesOK
  <2>4. TablesOK'
    BY <1>0, <2>2, <2>3, Known DEF TablesOK
  <2> QED
    BY <1>0, <1>s, <2>2, <2>4, ClosingFree, FinishType
<1> QED
  BY <1>1, <1>2, <1>3, <1>4 DEF AchievementStep

\* What a run that closes a season does to the tables.
LEMMA NextSeasonType ==
  ASSUME NEW r \in Requests, NEW n \in Seasons
  PROVE  /\ NextSeason(r, n) \subseteq Seasons
         /\ \A m, o \in NextSeason(r, n) : m = o
BY SeasonAssumption DEF NextSeason, Waiting

LEMMA SeasonType ==
  ASSUME TypeInv, NEW r \in Requests, SeasonStep(r),
         UNCHANGED <<rewardVars, dailyVars, owned, achievementVars>>
  PROVE  TypeInv'
<1>0. UNCHANGED <<completed, claimed, loginDays, paidDays, owned, unlocked, announced>>
  BY DEF rewardVars, dailyVars, achievementVars
<1>s. "select season" \in Steps \ {"idle"} /\ "close" \in Steps \ {"idle"}
  BY DEF Steps
<1>1. CASE BeginClose(r)
  <2>1. /\ Close \in workload /\ Begin(r, Close, "select season")
        /\ UNCHANGED <<public, active, closing, archived, closings>>
    BY <1>1 DEF BeginClose, Begin, seasonVars
  <2>2. pc'[r] = "select season" => TaskKnown(r)'
    BY DEF TaskKnown
  <2> QED
    BY <1>0, <1>s, <2>1, <2>2, BeginType
<1>2. CASE SelectSeason(r)
  <2>0. UNCHANGED <<row, history, public, active, archived, closings>>
    BY <1>2 DEF SelectSeason
  <2>1. CASE Finish(r, "select season") /\ UNCHANGED closing
    <3>1. TablesOK' /\ pc[r] = "select season"
      BY <1>0, <2>0, <2>1, Known DEF TablesOK, Finish
    <3> QED
      BY <1>0, <1>s, <2>1, <3>1, ClosingFree, FinishType
  <2>2. ASSUME NEW n \in active, closing' = [closing EXCEPT ![r] = {n}],
               Goto(r, "select season", "close"), UNCHANGED found
        PROVE  TypeInv'
    <3>1. TablesOK'
      BY <1>0, <2>0, <2>2, Known DEF TablesOK, Goto
    <3>2. found' \in [Requests -> SUBSET Sources] /\ \A q \in Requests \ {r} : found'[q] = found[q]
      BY <2>2, Known DEF SessionsOK
    <3>3. /\ closing' \in [Requests -> SUBSET Seasons]
          /\ \A q \in Requests \ {r} : closing'[q] = closing[q]
      BY <2>2, Known DEF ClosingOK, TablesOK
    <3>4. pc'[r] = "close" => TaskKnown(r)'
      BY DEF TaskKnown
    <3> QED
      BY <1>0, <1>s, <2>2, <3>1, <3>2, <3>3, <3>4, GotoType
  <2> QED
    BY <1>2, <2>1, <2>2 DEF SelectSeason
<1>3. CASE CloseSeason(r)
  <2>1. PICK n \in closing[r] :
          /\ Finish(r, "close") /\ Forget(r) /\ UNCHANGED <<history, public>>
          /\ \/ UNCHANGED <<row, active, archived, closings>>
             \/ /\ archived' = IF public THEN archived \cup {n} ELSE archived
                /\ row' = [row EXCEPT !.xp = [s \in Sources |-> 0]]
                /\ active' = (active \ {n}) \cup NextSeason(r, n)
                /\ closings' = [closings EXCEPT ![n] = @ + 1]
    BY <1>3 DEF CloseSeason
  <2>2. n \in Seasons /\ clock' = clock
    BY <2>1, Known DEF ClosingOK, Finish
  <2>3. [row EXCEPT !.xp = [s \in Sources |-> 0]] \in Row
    BY Known DEF Row
  <2>4. row' \in Row
    BY <2>1, <2>3, Known
  <2>5. /\ active' \subseteq Seasons /\ archived' \subseteq Seasons
        /\ closings' \in [Seasons -> Nat]
    BY <2>1, <2>2, Known, NextSeasonType DEF TablesOK
  <2>6. TablesOK'
    BY <1>0, <2>1, <2>2, <2>4, <2>5, Known DEF TablesOK
  <2>7. /\ closing' \in [Requests -> SUBSET Seasons] /\ closing'[r] = {}
        /\ \A q \in Requests \ {r} : closing'[q] = closing[q]
    BY <2>1, Known DEF Forget, ClosingOK
  <2> QED
    BY <1>0, <1>s, <2>1, <2>6, <2>7, FinishType
<1> QED
  BY <1>1, <1>2, <1>3 DEF SeasonStep

LEMMA FailType ==
  ASSUME TypeInv, NEW r \in Requests, Fail(r) /\ Forget(r),
         UNCHANGED <<rewardVars, dailyVars, owned, achievementVars, public, active, archived, closings>>
  PROVE  TypeInv'
<1>1. pc[r] \in Steps \ {"idle"} /\ Finish(r, pc[r]) /\ UNCHANGED <<row, history>>
  BY Known DEF Fail, SessionsOK
<1>2. clock' = clock /\ completed' = completed
  BY <1>1 DEF Finish, rewardVars
<1>3. TablesOK'
  BY <1>1, <1>2, Known DEF TablesOK, rewardVars, dailyVars, achievementVars
<1>4. /\ closing' \in [Requests -> SUBSET Seasons] /\ closing'[r] = {}
      /\ \A q \in Requests \ {r} : closing'[q] = closing[q]
  BY Known DEF Forget, ClosingOK
<1> QED
  BY <1>1, <1>2, <1>3, <1>4, FinishType

\* Steps of no session: only the clock, the row or the streak changes.
LEMMA StillType ==
  ASSUME TypeInv, TablesOK', UNCHANGED <<workload, sessionVars, closing, completed>>
  PROVE  TypeInv'
<1>1. UNCHANGED <<task, pc, seen, since, found>>
  BY DEF sessionVars
<1>2. SessionsOK' /\ ClosingOK'
  BY <1>1, Known DEF SessionsOK, ClosingOK
<1>3. ASSUME NEW r \in Requests
      PROVE  TaskKnown(r)'
  BY <1>1, Known DEF TaskKnown
<1> QED
  BY <1>2, <1>3, TypeParts DEF TypeInv

LEMMA ClockType ==
  ASSUME TypeInv, ClockStep
  PROVE  TypeInv'
<1>1. CASE Tick /\ UNCHANGED <<rewardVars, dailyVars, owned, achievementVars, seasonVars>>
  <2>1. clock' \in 2 .. MaxClock
    BY <1>1, Known, UserRowAssumption DEF TablesOK, Tick
  <2>2. TablesOK'
    BY <1>1, <2>1, Known DEF TablesOK, Tick, rewardVars, dailyVars, achievementVars, seasonVars
  <2> QED
    BY <1>1, <2>2, StillType DEF Tick, rewardVars, seasonVars
<1>2. CASE ResetStreak /\ UNCHANGED <<rewardVars, owned, achievementVars, seasonVars>>
  <2>1. [row EXCEPT !.streak = 0] \in Row
    BY Known DEF Row
  <2>2. row' \in Row /\ UNCHANGED <<clock, history, dailyVars>>
    BY <1>2, <2>1 DEF ResetStreak
  <2>3. TablesOK'
    BY <1>2, <2>2, Known DEF TablesOK, rewardVars, dailyVars, achievementVars, seasonVars
  <2> QED
    BY <1>2, <2>3, StillType DEF ResetStreak, rewardVars, seasonVars
<1> QED
  BY <1>1, <1>2 DEF ClockStep

LEMMA StutterType ==
  ASSUME TypeInv, UNCHANGED vars
  PROVE  TypeInv'
<1>1. UNCHANGED <<workload, clock, row, history, sessionVars, completed, claimed, loginDays, paidDays>>
  BY DEF vars, baseVars, rewardVars, dailyVars
<1>2. UNCHANGED <<owned, unlocked, announced, public, active, closing, archived, closings>>
  BY DEF vars, achievementVars, seasonVars
<1>3. TablesOK'
  BY <1>1, <1>2, Known DEF TablesOK
<1> QED
  BY <1>1, <1>2, <1>3, StillType

LEMMA SessionType ==
  ASSUME TypeInv, NEW r \in Requests, SessionStep(r)
  PROVE  TypeInv'
BY ClaimType, DailyType, ShopType, AchievementType, SeasonType, FailType DEF SessionStep

LEMMA InitType == Init => TypeInv
<1> SUFFICES ASSUME Init
             PROVE  TypeInv
  OBVIOUS
<1>1. workload \in Workloads /\ clock = 2 /\ row = FirstRow /\ history = [s \in Sources |-> 0]
  BY DEF Init, BaseInit
<1>2. /\ task = [r \in Requests |-> Idle] /\ pc = [r \in Requests |-> "idle"]
      /\ seen = [r \in Requests |-> FirstRow] /\ since = [r \in Requests |-> 0]
      /\ found = [r \in Requests |-> {}]
  BY DEF Init, BaseInit
<1>3. /\ completed \subseteq Rewards /\ claimed = {} /\ loginDays = {} /\ paidDays = {}
      /\ owned = [i \in Cosmetics |-> "no"]
      /\ unlocked = {} /\ announced = [a \in Achievements |-> 0]
  BY DEF Init, RewardInit, DailyInit, ShopInit, AchievementInit
<1>4. /\ public \in BOOLEAN /\ active \subseteq Seasons /\ closing = [r \in Requests |-> {}]
      /\ archived = {} /\ closings = [n \in Seasons |-> 0]
  BY DEF Init, SeasonInit
<1>5. SessionsOK
  BY <1>1, <1>2, FirstRowType, UserRowAssumption DEF SessionsOK, Steps
<1>6. clock \in 2 .. MaxClock
  BY <1>1, UserRowAssumption
<1>7. TablesOK
  BY <1>1, <1>3, <1>4, <1>6, FirstRowType DEF TablesOK
<1>8. ClosingOK
  BY <1>2, <1>4 DEF ClosingOK
<1>9. \A r \in Requests : TaskKnown(r)
  BY <1>2 DEF TaskKnown
<1> QED
  BY <1>5, <1>7, <1>8, <1>9, TypeParts DEF TypeInv

LEMMA TypeStep == TypeInv /\ [Next]_vars => TypeInv'
BY ClockType, SessionType, StutterType DEF Next

\* The types of all that the writers keep, and what the task of a session says at its step.
THEOREM TypeCorrect == Spec => []TypeOK
<1>1. TypeInv => TypeOK
  BY DEF TypeInv
<1> QED
  BY InitType, TypeStep, <1>1, PTL DEF Spec
=============================================================================
