------------------------- MODULE UserWritersProofs -------------------------
(***************************************************************************)
(* Proofs about UserWriters.                                               *)
(*                                                                         *)
(* What a writer puts into the users row comes from a copy of it.  So the  *)
(* properties of the row are proved of every copy as well (Good): they     *)
(* speak of flags, xp_events and user_cosmetics that are never taken back, *)
(* so a copy that was good once is good for ever, and it may be written    *)
(* back at any time.  What is left is that a writer's own addition is new: *)
(* a unique index says so, or that the flag was looked at after the copy   *)
(* was made.                                                               *)
(*                                                                         *)
(* The other invariants: what two sessions announce is disjoint            *)
(* (AnnouncedInv); the season of a run is active or archived (SeasonInv);  *)
(* no day of a reward is to come (DayInv); and since a session read the    *)
(* row less than a day ago, a streak it keeps or extends is still earned   *)
(* (StreakInv).                                                            *)
(***************************************************************************)
EXTENDS UserWritersTypes

-----------------------------------------------------------------------------
(* What a session does to the others, and to the tables *)

\* Every step of a session begins it, goes on with it or ends it.
LEMMA SessionShape ==
  ASSUME NEW r \in Requests, SessionStep(r)
  PROVE  \/ \E t, step : Begin(r, t, step)
         \/ \E from, to : Goto(r, from, to) /\ from # "idle"
         \/ \E from : Finish(r, from)
<1>0. /\ "check claim" # "idle" /\ "find event" # "idle" /\ "check shop" # "idle"
      /\ "select locked" # "idle" /\ "unlock" # "idle" /\ "select season" # "idle"
  OBVIOUS
<1>1. CASE ClaimStep(r)
  BY <1>0, <1>1 DEF ClaimStep, Authenticate, CheckClaim, FindEvent, PayClaim
<1>2. CASE DailyStep(r)
  BY <1>2 DEF DailyStep, OpenApp, RecordLogin, AskDaily, PayDaily
<1>3. CASE ShopStep(r)
  BY <1>0, <1>3 DEF ShopStep, AskShop, CheckShop, PayShop
<1>4. CASE AchievementStep(r)
  BY <1>0, <1>4 DEF AchievementStep, LoadUser, SelectLocked, Unlock, Announce
<1>5. CASE SeasonStep(r)
  BY <1>0, <1>5 DEF SeasonStep, BeginClose, SelectSeason, CloseSeason
<1>6. CASE Fail(r)
  BY <1>6 DEF Fail
<1> QED
  BY <1>1, <1>2, <1>3, <1>4, <1>5, <1>6 DEF SessionStep

\* A copy stays as it is, or it is made of the row, or it is given up.
LEMMA SessionCopies ==
  ASSUME TypeInv, NEW r \in Requests, SessionStep(r)
  PROVE  /\ seen'[r] \in {seen[r], row, FirstRow}
         /\ \A q \in Requests \ {r} : pc'[q] = pc[q] /\ task'[q] = task[q] /\ seen'[q] = seen[q]
<1>0. SessionsOK
  BY Known
<1>1. CASE \E t, step : Begin(r, t, step)
  BY <1>0, <1>1 DEF Begin, SessionsOK
<1>2. CASE \E from, to : Goto(r, from, to)
  BY <1>0, <1>2 DEF Goto, SessionsOK
<1>3. CASE \E from : Finish(r, from)
  BY <1>0, <1>3 DEF Finish, SessionsOK
<1> QED
  BY <1>1, <1>2, <1>3, SessionShape

\* Flags, xp_events and user_cosmetics are never taken back.
Grows ==
    /\ claimed \subseteq claimed' /\ unlocked \subseteq unlocked'
    /\ \A s \in Sources : history'[s] >= history[s]
    /\ \A i \in Cosmetics : owned[i] # "no" => owned'[i] = owned[i]

LEMMA RecordedGrows ==
  ASSUME history \in [Sources -> Nat], NEW s \in Sources
  PROVE  \A x \in Sources : Recorded(s)[x] >= history[x]
BY DEF Recorded

LEMMA SessionGrows ==
  ASSUME TypeInv, NEW r \in Requests, SessionStep(r)
  PROVE  Grows
<1>0. history \in [Sources -> Nat] /\ owned \in [Cosmetics -> Means \cup {"no"}]
  BY Known DEF TablesOK
<1>1. CASE ClaimStep(r) /\ UNCHANGED <<dailyVars, owned, achievementVars, seasonVars>>
  <2>1. CASE PayClaim(r)
    <3>1. task[r].of \in Sources
      BY <2>1, Known, RewardsAssumption DEF PayClaim, Finish, TaskKnown
    <3>2. history' = history \/ history' = Recorded(task[r].of)
      BY <2>1 DEF PayClaim
    <3>3. \A s \in Sources : history'[s] >= history[s]
      BY <1>0, <3>1, <3>2, RecordedGrows
    <3> QED
      BY <1>1, <2>1, <3>3 DEF PayClaim, Grows, achievementVars
  <2>2. CASE UNCHANGED <<history, rewardVars>>
    BY <1>0, <1>1, <2>2 DEF Grows, rewardVars, achievementVars
  <2> QED
    BY <1>1, <2>1, <2>2 DEF ClaimStep, Authenticate, Begin, CheckClaim, FindEvent
<1>2. CASE DailyStep(r) /\ UNCHANGED <<rewardVars, owned, achievementVars, seasonVars>>
  <2>1. history' = history \/ history' = Recorded(Daily)
    BY <1>2 DEF DailyStep, OpenApp, AskDaily, Begin, RecordLogin, PayDaily
  <2>2. \A s \in Sources : history'[s] >= history[s]
    BY <1>0, <2>1, RecordedGrows, DailyAssumption
  <2> QED
    BY <1>2, <2>2 DEF Grows, rewardVars, achievementVars
<1>3. CASE ShopStep(r) /\ UNCHANGED <<rewardVars, dailyVars, achievementVars, seasonVars>>
  <2>1. history' = history
    BY <1>3 DEF ShopStep, AskShop, Begin, CheckShop, PayShop
  <2>2. \/ owned' = owned
        \/ owned[task[r].of] = "no" /\ owned' = [owned EXCEPT ![task[r].of] = task[r].kind]
    BY <1>3 DEF ShopStep, AskShop, CheckShop, PayShop, IsOwned
  <2>3. \A i \in Cosmetics : owned[i] # "no" => owned'[i] = owned[i]
    BY <1>0, <2>2
  <2> QED
    BY <1>0, <1>3, <2>1, <2>3 DEF Grows, rewardVars, achievementVars
<1>4. CASE AchievementStep(r) /\ UNCHANGED <<rewardVars, dailyVars, owned, seasonVars>>
  <2>1. unlocked \subseteq unlocked'
    BY <1>4 DEF AchievementStep, LoadUser, SelectLocked, Unlock, Announce, achievementVars
  <2>2. \/ history' = history
        \/ history' = [s \in Sources |-> IF s \in NewXp(r) THEN history[s] + 1 ELSE history[s]]
    BY <1>4 DEF AchievementStep, LoadUser, Begin, SelectLocked, Unlock, Announce
  <2>3. \A s \in Sources : history'[s] >= history[s]
    BY <1>0, <2>2
  <2> QED
    BY <1>4, <2>1, <2>3 DEF Grows, rewardVars
<1>5. CASE SeasonStep(r) /\ UNCHANGED <<rewardVars, dailyVars, owned, achievementVars>>
  <2>1. history' = history
    BY <1>5 DEF SeasonStep, BeginClose, Begin, SelectSeason, CloseSeason
  <2> QED
    BY <1>0, <1>5, <2>1 DEF Grows, rewardVars, achievementVars
<1>6. CASE Fail(r) /\ UNCHANGED <<rewardVars, owned, achievementVars>>
  BY <1>0, <1>6 DEF Fail, Grows, rewardVars, achievementVars
<1> QED
  BY <1>1, <1>2, <1>3, <1>4, <1>5, <1>6 DEF SessionStep

-----------------------------------------------------------------------------
(* The row and its copies *)

\* The XP of a reward is in x at most once, and only with its flag and its xp_events row.
GoodXp(x, flags, events) ==
    \A s \in Rewards \cup Achievements :
        x.xp[s] <= 1 /\ (x.xp[s] = 1 => s \in flags /\ events[s] > 0)

\* A cosmetic is paid for at most once, and only if it is owned; nothing is overdrawn.
GoodPurse(purse, means, own) ==
    /\ \A i \in Cosmetics : purse.spent[i] <= 1 /\ (purse.spent[i] = 1 => own[i] = means)
    /\ purse.amount >= 0

GoodPurses(x, own) == \A means \in Means : GoodPurse(x[means], means, own)

Good(x) == GoodXp(x, Flagged(claimed, unlocked), history) /\ GoodPurses(x, owned)

\* A claim that is still to be paid is not in its copy; a purchase was checked against it.
Checked(r) ==
    /\ pc[r] \in {"find event", "pay claim"} => seen[r].xp[task[r].of] = 0
    /\ pc[r] = "purchase" => seen[r][task[r].kind].amount >= Cost(task[r].of, task[r].kind)

RowInv == TypeInv /\ Good(row) /\ \A r \in Requests : Good(seen[r]) /\ Checked(r)

\* Something good stays good.
LEMMA GoodGrows ==
  ASSUME TypeInv, TypeInv', Grows, NEW x \in Row, Good(x)
  PROVE  GoodXp(x, Flagged(claimed', unlocked'), history') /\ GoodPurses(x, owned')
<1>1. \A s \in Rewards \cup Achievements :
        s \in Sources /\ history[s] \in Nat /\ history'[s] \in Nat
  BY TypeParts, Known, RewardsAssumption, AchievementsAssumption DEF TypeInv, TablesOK
<1>2. ASSUME NEW s \in Rewards \cup Achievements
      PROVE  x.xp[s] <= 1 /\ (x.xp[s] = 1 => s \in Flagged(claimed', unlocked') /\ history'[s] > 0)
  <2>1. history'[s] >= history[s] /\ history[s] \in Nat /\ history'[s] \in Nat
    BY <1>1 DEF Grows
  <2>2. x.xp[s] = 1 => history'[s] > 0
    <3> SUFFICES ASSUME x.xp[s] = 1
                 PROVE  history'[s] > 0
      OBVIOUS
    <3>1. history[s] > 0
      BY DEF Good, GoodXp
    <3>2. history[s] >= 1
      BY <2>1, <3>1
    <3> QED
      BY <2>1, <3>2
  <2>3. x.xp[s] <= 1 /\ (x.xp[s] = 1 => s \in Flagged(claimed, unlocked))
    BY DEF Good, GoodXp
  <2>4. s \in Flagged(claimed, unlocked) => s \in Flagged(claimed', unlocked')
    BY DEF Grows, Flagged
  <2> QED
    BY <2>2, <2>3, <2>4
<1>3. ASSUME NEW means \in Means
      PROVE  GoodPurse(x[means], means, owned')
  <2>1. means # "no" /\ GoodPurse(x[means], means, owned)
    BY DEF Means, Good, GoodPurses
  <2> QED
    BY <2>1 DEF GoodPurse, Grows
<1> QED
  BY <1>2, <1>3 DEF GoodXp, GoodPurses

LEMMA GoodFirst == Good(FirstRow)
<1>1. \A s \in Rewards \cup Achievements : FirstRow.xp[s] = 0
  BY RewardsAssumption, AchievementsAssumption DEF FirstRow
<1>2. \A i \in Cosmetics, means \in Means : FirstRow[means].spent[i] = 0
  BY DEF FirstRow, Means
<1>3. \A means \in Means : FirstRow[means].amount >= 0
  BY UserRowAssumption DEF FirstRow, Means
<1> QED
  BY <1>1, <1>2, <1>3 DEF Good, GoodXp, GoodPurses, GoodPurse

\* What a step of a session has to show.
LEMMA OneWriter ==
  ASSUME RowInv, NEW r \in Requests, SessionStep(r), Good(row)', Checked(r)'
  PROVE  RowInv'
<1>1. TypeInv' /\ Grows
  BY SessionType, SessionGrows DEF RowInv
<1>2. /\ seen'[r] \in {seen[r], row, FirstRow}
      /\ \A q \in Requests \ {r} : pc'[q] = pc[q] /\ task'[q] = task[q] /\ seen'[q] = seen[q]
  BY SessionCopies DEF RowInv
<1>3. ASSUME NEW q \in Requests
      PROVE  Good(seen[q])' /\ Checked(q)'
  <2>1. seen'[q] \in {seen[q], row, FirstRow}
    BY <1>2
  <2>2. seen'[q] \in Row /\ Good(seen[q]) /\ Good(row)
    BY <1>1, Known, FirstRowType, <2>1 DEF RowInv
  <2>3. /\ GoodXp(seen[q], Flagged(claimed', unlocked'), history') /\ GoodPurses(seen[q], owned')
        /\ GoodXp(row, Flagged(claimed', unlocked'), history') /\ GoodPurses(row, owned')
        /\ GoodXp(FirstRow, Flagged(claimed', unlocked'), history') /\ GoodPurses(FirstRow, owned')
    BY <1>1, <2>2, GoodGrows, GoodFirst, FirstRowType, Known DEF RowInv
  <2>4. GoodXp(seen'[q], Flagged(claimed', unlocked'), history') /\ GoodPurses(seen'[q], owned')
    BY <2>1, <2>3
  <2>5. Good(seen[q])'
    BY <2>4 DEF Good, GoodXp, GoodPurses
  <2>6. CASE q # r
    BY <1>2, <2>5, <2>6 DEF RowInv, Checked
  <2>7. CASE q = r
    BY <2>5, <2>7
  <2> QED
    BY <2>6, <2>7
<1> QED
  BY <1>1, <1>3 DEF RowInv

\* A step that leaves the row alone.
LEMMA OneReader ==
  ASSUME RowInv, NEW r \in Requests, SessionStep(r), row' = row
  PROVE  Good(row)'
<1>1. Grows /\ TypeInv'
  BY SessionGrows, SessionType DEF RowInv
<1>2. GoodXp(row, Flagged(claimed', unlocked'), history') /\ GoodPurses(row, owned')
  BY <1>1, GoodGrows, Known DEF RowInv
<1> QED
  BY <1>2 DEF Good, GoodXp, GoodPurses

\* The flags, the xp_events and the cosmetics that a session leaves, and what is good of its copy.
LEMMA Writer ==
  ASSUME RowInv, NEW r \in Requests, SessionStep(r)
  PROVE  /\ TypeInv /\ TypeInv' /\ Grows
         /\ \A x \in {row, seen[r]} :
               /\ x \in Row /\ Good(x)
               /\ GoodXp(x, Flagged(claimed', unlocked'), history') /\ GoodPurses(x, owned')
         /\ Good(row)' <=> GoodXp(row', Flagged(claimed', unlocked'), history') /\ GoodPurses(row', owned')
<1>1. TypeInv /\ TypeInv' /\ Grows
  BY SessionType, SessionGrows DEF RowInv
<1>2. /\ row \in Row /\ seen[r] \in Row /\ Good(row) /\ Good(seen[r])
  BY Known DEF RowInv
<1>3. Good(row)' <=> GoodXp(row', Flagged(claimed', unlocked'), history') /\ GoodPurses(row', owned')
  BY DEF Good, GoodXp, GoodPurses
<1> QED
  BY <1>1, <1>2, <1>3, GoodGrows

\* Only the purses matter to GoodPurses.
LEMMA SamePurses ==
  ASSUME NEW x, NEW y, NEW own, GoodPurses(x, own),
         y.coins = x.coins, y.fragments = x.fragments
  PROVE  GoodPurses(y, own)
BY DEF GoodPurses, Means

\* An addition to a good purse.
LEMMA MorePurse ==
  ASSUME NEW purse \in Wallet, NEW means, NEW own, GoodPurse(purse, means, own)
  PROVE  GoodPurse([purse EXCEPT !.amount = @ + 1], means, own)
BY DEF GoodPurse, Wallet

LEMMA PayClaimGood ==
  ASSUME RowInv, NEW r \in Requests, SessionStep(r), PayClaim(r)
  PROVE  Good(row)'
<1> DEFINE s == task[r].of
<1>1. CASE row' = row
  BY <1>1, OneReader
<1>2. CASE row' # row
  <2>1. /\ row' = Paid(seen[r], s) /\ history' = Recorded(s) /\ pc[r] = "pay claim"
        /\ claimed' = claimed \cup {s}
    BY <1>2 DEF PayClaim, Finish
  <2>2. s \in Rewards /\ s \in Sources
    BY <2>1, Known, RewardsAssumption DEF RowInv, TaskKnown
  <2>3. seen[r].xp[s] = 0
    BY <2>1 DEF RowInv, Checked
  <2>4. row \in Row /\ seen[r] \in Row /\ seen[r].xp \in [Sources -> Nat] /\ seen[r].coins \in Wallet
    BY Writer, RowFields
  <2> HIDE DEF s
  <2>5. /\ row'.xp = [seen[r].xp EXCEPT ![s] = @ + 1]
        /\ row'.coins = [seen[r].coins EXCEPT !.amount = @ + 1]
        /\ row'.fragments = row.fragments
    BY <2>1, <2>2, <2>4, PaidRow
  <2>6. history'[s] > 0
    <3>1. history \in [Sources -> Nat]
      BY Known DEF RowInv, TablesOK
    <3>2. history'[s] = history[s] + 1 /\ history[s] \in Nat
      BY <2>1, <2>2, <3>1 DEF Recorded
    <3> QED
      BY <3>2
  <2>7. GoodXp(seen[r], Flagged(claimed', unlocked'), history')
    BY Writer
  <2>8. GoodXp(row', Flagged(claimed', unlocked'), history')
    <3>1. ASSUME NEW x \in Rewards \cup Achievements
          PROVE  row'.xp[x] <= 1 /\ (row'.xp[x] = 1 => x \in Flagged(claimed', unlocked') /\ history'[x] > 0)
      <4>1. CASE x = s
        <5>1. row'.xp[s] = 1
          BY <2>2, <2>3, <2>4, <2>5
        <5>2. s \in Flagged(claimed', unlocked')
          BY <2>1, <2>2 DEF Flagged
        <5>3. row'.xp[x] = 1 /\ x \in Flagged(claimed', unlocked') /\ history'[x] > 0
          BY <2>6, <4>1, <5>1, <5>2
        <5> QED
          BY <5>3
      <4>2. CASE x # s
        BY <2>4, <2>5, <2>7, <4>2 DEF GoodXp
      <4> QED
        BY <4>1, <4>2
    <3> QED
      BY <3>1 DEF GoodXp
  <2>9. GoodPurses(row', owned')
    <3>1. GoodPurse(seen[r].coins, "coins", owned') /\ GoodPurse(row.fragments, "fragments", owned')
      BY Writer DEF GoodPurses, Means
    <3>2. GoodPurse(row'.coins, "coins", owned') /\ GoodPurse(row'.fragments, "fragments", owned')
      BY <2>4, <2>5, <3>1, MorePurse
    <3> QED
      BY <3>2 DEF GoodPurses, Means
  <2> QED
    BY <2>8, <2>9, Writer
<1> QED
  BY <1>1, <1>2

LEMMA RecordLoginGood ==
  ASSUME RowInv, NEW r \in Requests, SessionStep(r), RecordLogin(r)
  PROVE  Good(row)'
<1>1. row' = LoggedIn(seen[r])
  BY DEF RecordLogin
<1>2. row'.xp = row.xp /\ row'.coins = row.coins /\ row'.fragments = row.fragments
  BY <1>1, LoggedInRow, Known DEF RowInv
<1>3. GoodXp(row, Flagged(claimed', unlocked'), history') /\ GoodPurses(row, owned')
  BY Writer
<1>4. GoodXp(row', Flagged(claimed', unlocked'), history')
  BY <1>2, <1>3 DEF GoodXp
<1>5. GoodPurses(row', owned')
  BY <1>2, <1>3, SamePurses
<1> QED
  BY <1>4, <1>5, Writer

LEMMA PayDailyGood ==
  ASSUME RowInv, NEW r \in Requests, SessionStep(r), PayDaily(r)
  PROVE  Good(row)'
<1>1. CASE row' = row
  BY <1>1, OneReader
<1>2. CASE row' # row
  <2> DEFINE after == LoggedIn(seen[r])
  <2>1. row' = DailyPaid(after, Today)
    BY <1>2 DEF PayDaily, DailyPaid
  <2>2. /\ after \in Row /\ after.xp = row.xp /\ after.coins = row.coins
        /\ after.fragments = row.fragments
    BY LoggedInRow, Known DEF RowInv
  <2>3. Today \in Nat /\ row.xp \in [Sources -> Nat] /\ row.coins \in Wallet
    BY Known, RowFields DEF RowInv, Today, Day, Hour
  <2> HIDE DEF after
  <2>4. /\ row'.xp = [row.xp EXCEPT ![Daily] = @ + 1]
        /\ row'.coins = [row.coins EXCEPT !.amount = @ + 1]
        /\ row'.fragments = row.fragments
    BY <2>1, <2>2, <2>3, DailyPaidRow
  <2>5. GoodXp(row, Flagged(claimed', unlocked'), history') /\ GoodPurses(row, owned')
    BY Writer
  <2>6. GoodXp(row', Flagged(claimed', unlocked'), history')
    BY <2>3, <2>4, <2>5, WritersAssumption DEF GoodXp
  <2>7. GoodPurse(row'.coins, "coins", owned') /\ GoodPurse(row'.fragments, "fragments", owned')
    BY <2>3, <2>4, <2>5, MorePurse DEF GoodPurses, Means
  <2>8. GoodPurses(row', owned')
    BY <2>7 DEF GoodPurses, Means
  <2> QED
    BY <2>6, <2>8, Writer
<1> QED
  BY <1>1, <1>2

LEMMA PayShopGood ==
  ASSUME RowInv, NEW r \in Requests, SessionStep(r), PayShop(r)
  PROVE  Good(row)'
<1> DEFINE i == task[r].of
           means == task[r].kind
<1>1. CASE row' = row
  BY <1>1, OneReader
<1>2. CASE row' # row
  <2>1. /\ owned[i] = "no" /\ row' = Charged(seen[r], i, means)
        /\ owned' = [owned EXCEPT ![i] = means] /\ pc[r] = "purchase" /\ Cost(i, means) # 0
    BY <1>2 DEF PayShop, IsOwned, Finish, Charged
  <2>2. i \in Cosmetics /\ means \in Means
    BY <2>1, Known DEF RowInv, TaskKnown
  <2>3. seen[r][means].amount >= Cost(i, means)
    BY <2>1 DEF RowInv, Checked
  <2> HIDE DEF i, means
  <2>4. row \in Row /\ seen[r] \in Row /\ Cost(i, means) \in Nat
    BY <2>2, Writer, ShopAssumption DEF Cost
  <2>5. /\ row'[means] = [amount |-> seen[r][means].amount - Cost(i, means),
                          spent |-> [seen[r][means].spent EXCEPT ![i] = @ + 1]]
        /\ row'.xp = row.xp
        /\ \A other \in Means \ {means} : row'[other] = row[other]
    BY <2>1, <2>2, <2>4, ChargedRow
  <2>6. owned' \in [Cosmetics -> Means \cup {"no"}] /\ owned'[i] = means
    BY <2>1, <2>2, Known DEF RowInv, TablesOK
  <2>7. /\ seen[r][means].spent \in [Cosmetics -> Nat] /\ seen[r][means].amount \in Int
        /\ GoodPurse(seen[r][means], means, owned)
        /\ GoodPurse(seen[r][means], means, owned')
    BY <2>2, <2>4, RowFields, Writer DEF Good, GoodPurses, Means
  <2>8. seen[r][means].spent[i] = 0
    <3>1. means # "no" /\ seen[r][means].spent[i] \in Nat
      BY <2>2, <2>7 DEF Means
    <3> QED
      BY <2>1, <2>2, <2>7, <3>1 DEF GoodPurse
  <2> DEFINE purse == seen[r][means]
  <2>9. row'[means].spent = [purse.spent EXCEPT ![i] = @ + 1]
        /\ row'[means].amount = purse.amount - Cost(i, means)
    BY <2>5
  <2> HIDE DEF purse
  <2>10. GoodPurse(row'[means], means, owned')
    <3>1. row'[means].amount >= 0
      BY <2>3, <2>4, <2>7, <2>9 DEF purse
    <3>2. ASSUME NEW j \in Cosmetics
          PROVE  row'[means].spent[j] <= 1 /\ (row'[means].spent[j] = 1 => owned'[j] = means)
      <4>1. purse.spent \in [Cosmetics -> Nat] /\ purse.spent[i] = 0 /\ GoodPurse(purse, means, owned')
        BY <2>7, <2>8 DEF purse
      <4>2. CASE j = i
        <5>1. row'[means].spent[i] = 1
          BY <2>2, <2>9, <4>1
        <5> QED
          BY <2>6, <4>2, <5>1
      <4>3. CASE j # i
        <5>1. row'[means].spent[j] = purse.spent[j]
          BY <2>9, <4>1, <4>3
        <5> QED
          BY <4>1, <5>1 DEF GoodPurse
      <4> QED
        BY <4>2, <4>3
    <3> QED
      BY <3>1, <3>2 DEF GoodPurse
  <2>11. GoodXp(row, Flagged(claimed', unlocked'), history') /\ GoodPurses(row, owned')
    BY Writer
  <2>12. GoodPurses(row', owned')
    BY <2>5, <2>10, <2>11 DEF GoodPurses
  <2>13. GoodXp(row', Flagged(claimed', unlocked'), history')
    BY <2>5, <2>11 DEF GoodXp
  <2> QED
    BY <2>12, <2>13, Writer
<1> QED
  BY <1>1, <1>2

LEMMA UnlockGood ==
  ASSUME RowInv, NEW r \in Requests, SessionStep(r), Unlock(r),
         claimed' = claimed
  PROVE  Good(row)'
<1>1. CASE row' = row
  BY <1>1, OneReader
<1>2. CASE row' # row
  <2> DEFINE events == [s \in Sources |-> IF s \in NewXp(r) THEN history[s] + 1 ELSE history[s]]
             xp == [s \in Sources |-> IF s \in NewXp(r) THEN seen[r].xp[s] + 1 ELSE seen[r].xp[s]]
  <2>1. /\ found[r] \cap unlocked = {} /\ unlocked' = unlocked \cup found[r]
        /\ history' = events /\ row' = [row EXCEPT !.xp = xp] /\ pc[r] = "unlock"
    BY <1>2 DEF Unlock, IsUnlocked, Goto
  <2>2. row \in Row /\ seen[r].xp \in [Sources -> Nat] /\ history \in [Sources -> Nat]
    BY Writer, RowFields, Known DEF RowInv, TablesOK
  <2>3. NewXp(r) \subseteq found[r] /\ NewXp(r) \subseteq Achievements
    BY <2>1, Known DEF RowInv, TaskKnown, NewXp, TablesOK
  <2>4. \A s \in Sources :
          /\ events[s] = IF s \in NewXp(r) THEN history[s] + 1 ELSE history[s]
          /\ xp[s] = IF s \in NewXp(r) THEN seen[r].xp[s] + 1 ELSE seen[r].xp[s]
    OBVIOUS
  <2> HIDE DEF events, xp
  <2>5. row'.xp = xp /\ row'.coins = row.coins /\ row'.fragments = row.fragments
    BY <2>1, <2>2 DEF Row
  <2>6. GoodXp(seen[r], Flagged(claimed, unlocked), history)
        /\ GoodXp(seen[r], Flagged(claimed', unlocked'), history') /\ GoodPurses(row, owned')
    BY Writer DEF Good
  <2>7. ASSUME NEW s \in Rewards \cup Achievements
        PROVE  xp[s] <= 1 /\ (xp[s] = 1 => s \in Flagged(claimed', unlocked') /\ history'[s] > 0)
    <3>1. s \in Sources
      BY RewardsAssumption, AchievementsAssumption
    <3>2. CASE s \in NewXp(r)
      <4>1. s \notin Flagged(claimed, unlocked) /\ s \in unlocked'
        <5>1. claimed \subseteq Rewards
          BY Known DEF RowInv, TablesOK
        <5> QED
          BY <2>1, <2>3, <3>2, <5>1, WritersAssumption DEF Flagged
      <4>2. seen[r].xp[s] = 0
        BY <2>2, <2>6, <3>1, <4>1 DEF GoodXp
      <4>3. xp[s] = 1
        BY <2>4, <3>1, <3>2, <4>2
      <4>4. history'[s] > 0
        <5>1. history[s] \in Nat /\ history'[s] = history[s] + 1
          BY <2>1, <2>2, <2>4, <3>1, <3>2
        <5> QED
          BY <5>1
      <4> QED
        BY <4>1, <4>3, <4>4 DEF Flagged
    <3>3. CASE s \notin NewXp(r)
      BY <2>4, <2>6, <3>1, <3>3 DEF GoodXp
    <3> QED
      BY <3>2, <3>3
  <2>8. GoodXp(row', Flagged(claimed', unlocked'), history')
    BY <2>5, <2>7 DEF GoodXp
  <2>9. GoodPurses(row', owned')
    BY <2>5, <2>6, SamePurses
  <2> QED
    BY <2>8, <2>9, Writer
<1> QED
  BY <1>1, <1>2

LEMMA CloseSeasonGood ==
  ASSUME RowInv, NEW r \in Requests, SessionStep(r), CloseSeason(r)
  PROVE  Good(row)'
<1>1. CASE row' = row
  BY <1>1, OneReader
<1>2. CASE row' = [row EXCEPT !.xp = [s \in Sources |-> 0]]
  <2>1. row \in Row
    BY Writer
  <2>2. /\ row'.xp = [s \in Sources |-> 0] /\ row'.coins = row.coins
        /\ row'.fragments = row.fragments
    BY <1>2, <2>1 DEF Row
  <2>3. GoodXp(row', Flagged(claimed', unlocked'), history')
    BY <2>2, RewardsAssumption, AchievementsAssumption DEF GoodXp
  <2>4. GoodPurses(row, owned')
    BY Writer
  <2>5. GoodPurses(row', owned')
    BY <2>2, <2>4, SamePurses
  <2> QED
    BY <2>3, <2>5, Writer
<1> QED
  BY <1>1, <1>2 DEF CloseSeason

\* Only three steps lead to where something has been checked.
LEMMA Unchecked ==
  ASSUME NEW r \in Requests, pc'[r] \notin {"find event", "pay claim", "purchase"}
  PROVE  Checked(r)'
BY DEF Checked

LEMMA EndUnchecked ==
  ASSUME TypeInv, NEW r \in Requests, NEW from, Finish(r, from)
  PROVE  Checked(r)'
<1>1. pc'[r] = "idle"
  BY Known DEF Finish, SessionsOK
<1> QED
  BY <1>1, Unchecked

LEMMA BeginUnchecked ==
  ASSUME TypeInv, NEW r \in Requests, NEW t, NEW step, Begin(r, t, step),
         step \notin {"find event", "pay claim", "purchase"}
  PROVE  Checked(r)' /\ row' = row
<1>1. pc'[r] = step
  BY Known DEF Begin, SessionsOK
<1> QED
  BY <1>1, Unchecked DEF Begin

LEMMA GotoUnchecked ==
  ASSUME TypeInv, NEW r \in Requests, NEW from, NEW to, Goto(r, from, to),
         to \notin {"find event", "pay claim", "purchase"}
  PROVE  Checked(r)'
<1>1. pc'[r] = to
  BY Known DEF Goto, SessionsOK
<1> QED
  BY <1>1, Unchecked

LEMMA ClaimRow ==
  ASSUME RowInv, NEW r \in Requests, SessionStep(r), ClaimStep(r)
  PROVE  Good(row)' /\ Checked(r)'
<1>t. TypeInv /\ SessionsOK /\ TablesOK /\ TaskKnown(r) /\ seen[r] \in Row /\ Good(seen[r]) /\ Checked(r)
  BY Known DEF RowInv
<1>1. CASE Authenticate(r)
  BY <1>t, <1>1, BeginUnchecked, OneReader DEF Authenticate
<1>2. CASE CheckClaim(r)
  <2>0. row' = row
    BY <1>2 DEF CheckClaim
  <2>1. CASE Finish(r, "check claim")
    BY <1>t, <2>0, <2>1, EndUnchecked, OneReader
  <2>2. CASE Goto(r, "check claim", "find event") /\ task[r].of \in completed \ claimed
    <3>1. pc'[r] = "find event" /\ UNCHANGED <<task, seen>>
      BY <1>t, <2>2 DEF Goto, SessionsOK
    <3>2. task[r].of \in Rewards /\ task[r].of \notin Flagged(claimed, unlocked)
      <4>1. task[r].of \in Rewards /\ unlocked \subseteq Achievements
        BY <1>t, <2>2 DEF TablesOK, TaskKnown, Goto
      <4> QED
        BY <2>2, <4>1, WritersAssumption DEF Flagged
    <3>3. seen[r].xp[task[r].of] = 0
      <4>1. seen[r].xp[task[r].of] \in Nat
        BY <1>t, <3>2, RowFields, RewardsAssumption
      <4>2. seen[r].xp[task[r].of] <= 1 /\ seen[r].xp[task[r].of] # 1
        BY <1>t, <3>2 DEF Good, GoodXp
      <4> QED
        BY <4>1, <4>2
    <3> QED
      BY <2>0, <3>1, <3>3, OneReader DEF Checked
  <2> QED
    BY <1>2, <2>1, <2>2 DEF CheckClaim
<1>3. CASE FindEvent(r)
  <2>1. pc[r] = "find event" /\ pc'[r] = "pay claim" /\ UNCHANGED <<task, seen, row>>
    BY <1>t, <1>3 DEF FindEvent, Goto, SessionsOK
  <2> QED
    BY <1>t, <2>1, OneReader DEF Checked
<1>4. CASE PayClaim(r)
  BY <1>t, <1>4, PayClaimGood, EndUnchecked DEF PayClaim
<1> QED
  BY <1>1, <1>2, <1>3, <1>4 DEF ClaimStep

LEMMA DailyRow ==
  ASSUME RowInv, NEW r \in Requests, SessionStep(r), DailyStep(r)
  PROVE  Good(row)' /\ Checked(r)'
<1>t. TypeInv
  BY DEF RowInv
<1>1. CASE OpenApp(r)
  BY <1>t, <1>1, BeginUnchecked, OneReader DEF OpenApp
<1>2. CASE AskDaily(r)
  BY <1>t, <1>2, BeginUnchecked, OneReader DEF AskDaily
<1>3. CASE RecordLogin(r)
  BY <1>t, <1>3, RecordLoginGood, EndUnchecked DEF RecordLogin
<1>4. CASE PayDaily(r)
  BY <1>t, <1>4, PayDailyGood, EndUnchecked DEF PayDaily
<1> QED
  BY <1>1, <1>2, <1>3, <1>4 DEF DailyStep

LEMMA ShopRow ==
  ASSUME RowInv, NEW r \in Requests, SessionStep(r), ShopStep(r)
  PROVE  Good(row)' /\ Checked(r)'
<1>t. TypeInv /\ SessionsOK
  BY Known DEF RowInv
<1>1. CASE AskShop(r)
  BY <1>t, <1>1, BeginUnchecked, OneReader DEF AskShop
<1>2. CASE CheckShop(r)
  <2>0. row' = row
    BY <1>2 DEF CheckShop
  <2>1. CASE Finish(r, "check shop")
    BY <1>t, <2>0, <2>1, EndUnchecked, OneReader
  <2>2. CASE Goto(r, "check shop", "purchase") /\ Affordable(r)
    <3>1. pc'[r] = "purchase" /\ UNCHANGED <<task, seen>>
      BY <1>t, <2>2 DEF Goto, SessionsOK
    <3>2. seen[r][task[r].kind].amount >= Cost(task[r].of, task[r].kind)
      BY <2>2 DEF Affordable
    <3>3. Checked(r)'
      BY <3>1, <3>2 DEF Checked, Cost
    <3> QED
      BY <2>0, <3>3, OneReader
  <2> QED
    BY <1>2, <2>1, <2>2 DEF CheckShop
<1>3. CASE PayShop(r)
  BY <1>t, <1>3, PayShopGood, EndUnchecked DEF PayShop
<1> QED
  BY <1>1, <1>2, <1>3 DEF ShopStep

LEMMA AchievementRow ==
  ASSUME RowInv, NEW r \in Requests, SessionStep(r), AchievementStep(r), claimed' = claimed
  PROVE  Good(row)' /\ Checked(r)'
<1>t. TypeInv
  BY DEF RowInv
<1>1. CASE LoadUser(r)
  BY <1>t, <1>1, BeginUnchecked, OneReader DEF LoadUser
<1>2. CASE SelectLocked(r)
  <2>1. row' = row
    BY <1>2 DEF SelectLocked
  <2>2. Checked(r)'
    BY <1>t, <1>2, EndUnchecked, GotoUnchecked DEF SelectLocked
  <2> QED
    BY <2>1, <2>2, OneReader
<1>3. CASE Unlock(r)
  <2>1. Checked(r)'
    BY <1>t, <1>3, EndUnchecked, GotoUnchecked DEF Unlock
  <2> QED
    BY <1>3, <2>1, UnlockGood
<1>4. CASE Announce(r)
  BY <1>t, <1>4, EndUnchecked, OneReader DEF Announce
<1> QED
  BY <1>1, <1>2, <1>3, <1>4 DEF AchievementStep

LEMMA SeasonRow ==
  ASSUME RowInv, NEW r \in Requests, SessionStep(r), SeasonStep(r)
  PROVE  Good(row)' /\ Checked(r)'
<1>t. TypeInv
  BY DEF RowInv
<1>1. CASE BeginClose(r)
  BY <1>t, <1>1, BeginUnchecked, OneReader DEF BeginClose
<1>2. CASE SelectSeason(r)
  <2>1. row' = row
    BY <1>2 DEF SelectSeason
  <2>2. Checked(r)'
    BY <1>t, <1>2, EndUnchecked, GotoUnchecked DEF SelectSeason
  <2> QED
    BY <2>1, <2>2, OneReader
<1>3. CASE CloseSeason(r)
  <2>1. Checked(r)'
    BY <1>t, <1>3, EndUnchecked DEF CloseSeason
  <2> QED
    BY <1>3, <2>1, CloseSeasonGood
<1> QED
  BY <1>1, <1>2, <1>3 DEF SeasonStep

LEMMA SessionRow ==
  ASSUME RowInv, NEW r \in Requests, SessionStep(r)
  PROVE  RowInv'
<1>1. CASE AchievementStep(r) /\ UNCHANGED rewardVars
  BY <1>1, AchievementRow, OneWriter DEF rewardVars
<1>2. CASE Fail(r)
  <2>1. TypeInv /\ row' = row
    BY <1>2 DEF RowInv, Fail
  <2> QED
    BY <1>2, <2>1, EndUnchecked, OneReader, OneWriter DEF Fail
<1> QED
  BY <1>1, <1>2, ClaimRow, DailyRow, ShopRow, SeasonRow, OneWriter DEF SessionStep

\* A step of no session changes neither copies nor flags, nor the XP or the purses of the row.
LEMMA StillRow ==
  ASSUME RowInv, TypeInv', UNCHANGED <<task, pc, seen, claimed, unlocked, history, owned>>,
         row'.xp = row.xp, row'.coins = row.coins, row'.fragments = row.fragments
  PROVE  RowInv'
<1>1. GoodXp(row, Flagged(claimed, unlocked), history) /\ GoodPurses(row, owned)
  BY DEF RowInv, Good
<1>2. GoodXp(row', Flagged(claimed, unlocked), history) /\ GoodPurses(row', owned)
  BY <1>1, SamePurses DEF GoodXp
<1>3. Good(row)'
  BY <1>2 DEF Good, GoodXp, GoodPurses
<1>4. ASSUME NEW r \in Requests
      PROVE  Good(seen[r])' /\ Checked(r)'
  BY DEF RowInv, Good, GoodXp, GoodPurses, Checked
<1> QED
  BY <1>3, <1>4 DEF RowInv

LEMMA RowInit == Init => RowInv
<1> SUFFICES ASSUME Init
             PROVE  RowInv
  OBVIOUS
<1>1. TypeInv
  BY InitType
<1>2. row = FirstRow /\ pc = [r \in Requests |-> "idle"] /\ seen = [r \in Requests |-> FirstRow]
  BY DEF Init, BaseInit
<1>3. \A r \in Requests : Checked(r)
  BY <1>2 DEF Checked
<1> QED
  BY <1>1, <1>2, <1>3, GoodFirst DEF RowInv

LEMMA RowStep == RowInv /\ [Next]_vars => RowInv'
<1> SUFFICES ASSUME RowInv, [Next]_vars
             PROVE  RowInv'
  OBVIOUS
<1>1. TypeInv' /\ row \in Row
  BY TypeStep, Known DEF RowInv
<1>2. CASE Tick /\ UNCHANGED <<rewardVars, owned, achievementVars>>
  BY <1>1, <1>2, StillRow DEF Tick, sessionVars, rewardVars, achievementVars
<1>3. CASE ResetStreak /\ UNCHANGED <<rewardVars, owned, achievementVars>>
  <2>1. row'.xp = row.xp /\ row'.coins = row.coins /\ row'.fragments = row.fragments
    BY <1>1, <1>3 DEF ResetStreak, Row
  <2> QED
    BY <1>1, <1>3, <2>1, StillRow DEF ResetStreak, sessionVars, rewardVars, achievementVars
<1>4. CASE \E r \in Requests : SessionStep(r)
  BY <1>4, SessionRow
<1>5. CASE UNCHANGED vars
  BY <1>1, <1>5, StillRow DEF vars, baseVars, sessionVars, rewardVars, achievementVars
<1> QED
  BY <1>2, <1>3, <1>4, <1>5 DEF Next, ClockStep

\* The reward of a collection, an event goal or an achievement is in users.xp once at most,
\* with its flag and its xp_events row.
THEOREM RewardsOnce == Spec => []RewardOnce
<1>1. RowInv => RewardOnce
  BY DEF RowInv, Good, GoodXp, RewardOnce
<1> QED
  BY RowInit, RowStep, <1>1, PTL DEF Spec

\* A cosmetic is paid for once, in one of the two currencies, and only if it is owned.
THEOREM CosmeticsPaidOnce == Spec => []PaidOnce
<1>1. RowInv => PaidOnce
  BY DEF RowInv, Good, GoodPurses, GoodPurse, PaidOnce
<1> QED
  BY RowInit, RowStep, <1>1, PTL DEF Spec

\* Purchases never take more coins or fragments than there are.
THEOREM NeverOverdrawn == Spec => []NoOverdraft
<1>1. RowInv => NoOverdraft
  BY DEF RowInv, Good, GoodPurses, GoodPurse, NoOverdraft, Means
<1> QED
  BY RowInit, RowStep, <1>1, PTL DEF Spec

-----------------------------------------------------------------------------
(* Announcements, seasons and the day of the reward *)

\* Sessions that are about to announce have unlocked different achievements.
AnnouncedInv ==
    /\ \A a \in Achievements : announced[a] <= 1 /\ (announced[a] = 1 => a \in unlocked)
    /\ \A r \in Requests : pc[r] = "announce" =>
          found[r] \subseteq unlocked /\ \A a \in found[r] : announced[a] = 0
    /\ \A q, r \in Requests :
          pc[q] = "announce" /\ pc[r] = "announce" /\ q # r => found[q] \cap found[r] = {}

\* Steps that neither unlock nor announce.
LEMMA AnnouncedStill ==
  ASSUME AnnouncedInv, UNCHANGED <<unlocked, announced>>,
         \A q \in Requests : pc'[q] = "announce" => pc[q] = "announce" /\ found'[q] = found[q]
  PROVE  AnnouncedInv'
BY DEF AnnouncedInv

LEMMA UnlockAnnounced ==
  ASSUME TypeInv, AnnouncedInv, NEW r \in Requests, Goto(r, "unlock", "announce"),
         found[r] \cap unlocked = {}, unlocked' = unlocked \cup found[r],
         UNCHANGED <<found, announced>>
  PROVE  AnnouncedInv'
<1>1. pc[r] = "unlock" /\ \A q \in Requests \ {r} : pc'[q] = pc[q]
  BY Known DEF Goto, SessionsOK
<1>2. found[r] \subseteq Achievements /\ announced \in [Achievements -> Nat]
  BY <1>1, Known DEF TaskKnown, TablesOK
<1>3. ASSUME NEW a \in found[r]
      PROVE  announced[a] = 0
  <2>1. announced[a] \in Nat /\ announced[a] <= 1 /\ announced[a] # 1
    BY <1>2 DEF AnnouncedInv
  <2> QED
    BY <2>1
<1>4. \A q \in Requests \ {r} : pc'[q] = "announce" => found[q] \cap found[r] = {}
  BY <1>1 DEF AnnouncedInv
<1>5. \A a \in Achievements : announced'[a] <= 1 /\ (announced'[a] = 1 => a \in unlocked')
  BY DEF AnnouncedInv
<1>6. \A q \in Requests : pc'[q] = "announce" =>
          found'[q] \subseteq unlocked' /\ \A a \in found'[q] : announced'[a] = 0
  BY <1>1, <1>3 DEF AnnouncedInv
<1>7. ASSUME NEW p \in Requests, NEW q \in Requests,
             pc'[p] = "announce" /\ pc'[q] = "announce" /\ p # q
      PROVE  found'[p] \cap found'[q] = {}
  <2>1. CASE p = r
    BY <1>4, <1>7, <2>1
  <2>2. CASE q = r
    BY <1>4, <1>7, <2>2
  <2>3. CASE p # r /\ q # r
    BY <1>1, <1>7, <2>3 DEF AnnouncedInv
  <2> QED
    BY <2>1, <2>2, <2>3
<1> QED
  BY <1>5, <1>6, <1>7 DEF AnnouncedInv

LEMMA AnnounceAnnounced ==
  ASSUME TypeInv, AnnouncedInv, NEW r \in Requests, Announce(r)
  PROVE  AnnouncedInv'
<1>1. PICK sent \in SUBSET found[r] :
        announced' = [a \in Achievements |-> IF a \in sent THEN announced[a] + 1 ELSE announced[a]]
  BY DEF Announce
<1>2. /\ pc[r] = "announce" /\ pc'[r] = "idle" /\ unlocked' = unlocked
      /\ \A q \in Requests \ {r} : pc'[q] = pc[q] /\ found'[q] = found[q]
  BY Known DEF Announce, Finish, SessionsOK
<1>3. /\ announced \in [Achievements -> Nat] /\ found[r] \subseteq Achievements
      /\ found[r] \subseteq unlocked /\ \A a \in found[r] : announced[a] = 0
  BY <1>2, Known DEF TaskKnown, TablesOK, AnnouncedInv
<1>4. ASSUME NEW a \in Achievements
      PROVE  /\ announced'[a] <= 1 /\ (announced'[a] = 1 => a \in unlocked')
             /\ a \notin found[r] => announced'[a] = announced[a]
  <2>1. CASE a \in sent
    BY <1>1, <1>2, <1>3, <2>1
  <2>2. CASE a \notin sent
    BY <1>1, <1>2, <2>2 DEF AnnouncedInv
  <2> QED
    BY <2>1, <2>2
<1>5. ASSUME NEW q \in Requests, pc'[q] = "announce"
      PROVE  found'[q] \subseteq unlocked' /\ \A a \in found'[q] : announced'[a] = 0
  <2>1. q # r /\ pc[q] = "announce" /\ found'[q] = found[q]
    BY <1>2, <1>5
  <2>2. found[q] \cap found[r] = {} /\ found[q] \subseteq Achievements
    BY <1>2, <2>1, Known DEF AnnouncedInv, TaskKnown
  <2> QED
    BY <1>2, <1>4, <2>1, <2>2 DEF AnnouncedInv
<1>6. \A p, q \in Requests :
        pc'[p] = "announce" /\ pc'[q] = "announce" /\ p # q => found'[p] \cap found'[q] = {}
  BY <1>2 DEF AnnouncedInv
<1> QED
  BY <1>4, <1>5, <1>6 DEF AnnouncedInv

LEMMA SessionAnnounced ==
  ASSUME TypeInv, AnnouncedInv, NEW r \in Requests, SessionStep(r)
  PROVE  AnnouncedInv'
<1>1. CASE Unlock(r) /\ ~IsUnlocked(r)
  BY <1>1, UnlockAnnounced DEF Unlock, IsUnlocked
<1>2. CASE Announce(r)
  BY <1>2, AnnounceAnnounced
<1>0. /\ SessionsOK /\ "unlock" # "announce"
  BY Known
<1>3. ASSUME NEW t, NEW step, Begin(r, t, step), step # "announce", UNCHANGED <<unlocked, announced>>
      PROVE  AnnouncedInv'
  BY <1>0, <1>3, AnnouncedStill DEF Begin, SessionsOK
<1>4. ASSUME NEW from, NEW to, Goto(r, from, to), to # "announce", UNCHANGED <<unlocked, announced>>,
             \A q \in Requests \ {r} : found'[q] = found[q]
      PROVE  AnnouncedInv'
  BY <1>0, <1>4, AnnouncedStill DEF Goto, SessionsOK
<1>5. ASSUME NEW from, Finish(r, from), UNCHANGED <<unlocked, announced>>
      PROVE  AnnouncedInv'
  BY <1>0, <1>5, AnnouncedStill DEF Finish, SessionsOK
<1>6. CASE ClaimStep(r) /\ UNCHANGED achievementVars
  <2>1. CASE FindEvent(r)
    <3>1. \A q \in Requests \ {r} : found'[q] = found[q]
      BY <1>0, <2>1 DEF FindEvent, SessionsOK
    <3> QED
      BY <1>4, <1>6, <2>1, <3>1 DEF FindEvent, achievementVars
  <2>2. CASE CheckClaim(r)
    BY <1>4, <1>5, <1>6, <2>2 DEF CheckClaim, achievementVars
  <2>3. CASE Authenticate(r)
    BY <1>3, <1>6, <2>3 DEF Authenticate, achievementVars
  <2>4. CASE PayClaim(r)
    BY <1>5, <1>6, <2>4 DEF PayClaim, achievementVars
  <2> QED
    BY <1>6, <2>1, <2>2, <2>3, <2>4 DEF ClaimStep
<1>7. CASE DailyStep(r) /\ UNCHANGED achievementVars
  BY <1>3, <1>5, <1>7 DEF DailyStep, OpenApp, RecordLogin, AskDaily, PayDaily, achievementVars
<1>8. CASE ShopStep(r) /\ UNCHANGED achievementVars
  <2>1. CASE AskShop(r)
    BY <1>3, <1>8, <2>1 DEF AskShop, achievementVars
  <2>2. CASE CheckShop(r)
    BY <1>4, <1>5, <1>8, <2>2 DEF CheckShop, achievementVars
  <2>3. CASE PayShop(r)
    BY <1>5, <1>8, <2>3 DEF PayShop, achievementVars
  <2> QED
    BY <1>8, <2>1, <2>2, <2>3 DEF ShopStep
<1>9. CASE SeasonStep(r) /\ UNCHANGED achievementVars
  <2>1. CASE BeginClose(r)
    BY <1>3, <1>9, <2>1 DEF BeginClose, achievementVars
  <2>2. CASE SelectSeason(r)
    BY <1>4, <1>5, <1>9, <2>2 DEF SelectSeason, achievementVars
  <2>3. CASE CloseSeason(r)
    BY <1>5, <1>9, <2>3 DEF CloseSeason, achievementVars
  <2> QED
    BY <1>9, <2>1, <2>2, <2>3 DEF SeasonStep
<1>10. CASE Fail(r) /\ UNCHANGED achievementVars
  BY <1>5, <1>10 DEF Fail, achievementVars
<1>11. CASE LoadUser(r)
  BY <1>3, <1>11 DEF LoadUser, achievementVars
<1>12. CASE SelectLocked(r)
  <2>1. CASE Finish(r, "select locked")
    BY <1>5, <1>12, <2>1 DEF SelectLocked, achievementVars
  <2>2. CASE Goto(r, "select locked", "unlock") /\ \E met : found' = [found EXCEPT ![r] = met]
    <3>1. \A q \in Requests \ {r} : found'[q] = found[q]
      BY <1>0, <2>2 DEF SessionsOK
    <3> QED
      BY <1>4, <1>12, <2>2, <3>1 DEF SelectLocked, achievementVars
  <2> QED
    BY <1>12, <2>1, <2>2 DEF SelectLocked
<1>13. CASE Unlock(r) /\ IsUnlocked(r)
  BY <1>5, <1>13 DEF Unlock, achievementVars
<1> QED
  BY <1>1, <1>2, <1>6, <1>7, <1>8, <1>9, <1>10, <1>11, <1>12, <1>13
     DEF SessionStep, AchievementStep

LEMMA AnnouncedStep == TypeInv /\ AnnouncedInv /\ [Next]_vars => AnnouncedInv'
<1> SUFFICES ASSUME TypeInv, AnnouncedInv, [Next]_vars
             PROVE  AnnouncedInv'
  OBVIOUS
<1>1. CASE ClockStep \/ UNCHANGED vars
  <2>1. UNCHANGED <<pc, found, unlocked, announced>>
    BY <1>1 DEF ClockStep, Tick, ResetStreak, vars, baseVars, sessionVars, achievementVars
  <2> QED
    BY <2>1, AnnouncedStill
<1> QED
  BY <1>1, SessionAnnounced DEF Next

\* However often the relay starts the worker, an achievement is announced once at most.
THEOREM Announcements == Spec => []AnnouncedOnce
<1>1. Init => AnnouncedInv
  BY DEF Init, BaseInit, AchievementInit, AnnouncedInv
<1>2. AnnouncedInv => AnnouncedOnce
  BY DEF AnnouncedInv, AnnouncedOnce
<1> QED
  BY InitType, TypeStep, AnnouncedStep, <1>1, <1>2, PTL DEF Spec

\* While some user stays public, a season is archived before it is forgotten.
SeasonInv ==
    public =>
        /\ \A n \in Seasons : closings[n] <= 1 /\ (closings[n] = 1 => n \in archived)
        /\ \A m, n \in active : m = n
        /\ \A r \in Requests : \A n \in closing[r] : n \in active \cup archived

LEMMA CloseSeasonInTurn ==
  ASSUME TypeInv, SeasonInv, NEW r \in Requests, CloseSeason(r)
  PROVE  SeasonInv'
<1> SUFFICES ASSUME public
             PROVE  SeasonInv'
  BY DEF CloseSeason, SeasonInv
<1>1. PICK n \in closing[r] :
        /\ Forget(r)
        /\ \/ IsArchived(n) /\ UNCHANGED <<row, active, archived, closings>>
           \/ /\ ~IsArchived(n)
              /\ archived' = IF public THEN archived \cup {n} ELSE archived
              /\ active' = (active \ {n}) \cup NextSeason(r, n)
              /\ closings' = [closings EXCEPT ![n] = @ + 1]
  BY DEF CloseSeason
<1>2. /\ closing'[r] = {} /\ \A q \in Requests \ {r} : closing'[q] = closing[q]
      /\ n \in Seasons /\ closings \in [Seasons -> Nat] /\ n \in active \cup archived
  BY <1>1, Known DEF Forget, ClosingOK, TablesOK, SeasonInv
<1>3. CASE UNCHANGED <<active, archived, closings>>
  BY <1>2, <1>3 DEF SeasonInv
<1>4. CASE /\ n \notin archived /\ archived' = archived \cup {n}
           /\ active' = (active \ {n}) \cup NextSeason(r, n)
           /\ closings' = [closings EXCEPT ![n] = @ + 1]
  <2>1. active \ {n} = {}
    BY <1>2, <1>4 DEF SeasonInv
  <2>2. \A l, m \in active' : l = m
    BY <1>2, <1>4, <2>1, NextSeasonType
  <2>3. ASSUME NEW m \in Seasons
        PROVE  closings'[m] <= 1 /\ (closings'[m] = 1 => m \in archived')
    <3>1. CASE m = n
      <4>1. closings[n] \in Nat /\ closings[n] <= 1 /\ closings[n] # 1
        BY <1>2, <1>4 DEF SeasonInv
      <4>2. closings[n] = 0
        BY <4>1
      <4> QED
        BY <1>2, <1>4, <3>1, <4>2
    <3>2. CASE m # n
      BY <1>2, <1>4, <3>2 DEF SeasonInv
    <3> QED
      BY <3>1, <3>2
  <2>4. ASSUME NEW q \in Requests, NEW m \in closing'[q]
        PROVE  m \in active' \cup archived'
    <3>1. q # r /\ m \in closing[q]
      BY <1>2, <2>4
    <3>2. m \in active \cup archived
      BY <3>1 DEF SeasonInv
    <3> QED
      BY <1>4, <2>1, <3>2
  <2> QED
    BY <2>2, <2>3, <2>4 DEF SeasonInv
<1> QED
  BY <1>1, <1>3, <1>4 DEF IsArchived

LEMMA SelectSeasonInTurn ==
  ASSUME TypeInv, SeasonInv, NEW r \in Requests, SelectSeason(r)
  PROVE  SeasonInv'
<1>1. UNCHANGED <<public, active, archived, closings>>
  BY DEF SelectSeason
<1>2. closing' = closing \/ \E n \in active : closing' = [closing EXCEPT ![r] = {n}]
  BY DEF SelectSeason
<1>3. \A q \in Requests : \A n \in closing'[q] : n \in closing[q] \/ n \in active
  BY <1>2, Known DEF ClosingOK
<1> QED
  BY <1>1, <1>3 DEF SeasonInv

LEMMA SeasonsStep == TypeInv /\ SeasonInv /\ [Next]_vars => SeasonInv'
<1> SUFFICES ASSUME TypeInv, SeasonInv, [Next]_vars
             PROVE  SeasonInv'
  OBVIOUS
<1>1. CASE UNCHANGED seasonVars
  BY <1>1 DEF seasonVars, SeasonInv
<1>2. ASSUME NEW r \in Requests, Forget(r), UNCHANGED <<public, active, archived, closings>>
      PROVE  SeasonInv'
  <2>1. \A q \in Requests : \A n \in closing'[q] : n \in closing[q]
    BY <1>2, Known DEF Forget, ClosingOK
  <2> QED
    BY <1>2, <2>1 DEF SeasonInv
<1>3. ASSUME NEW r \in Requests, SeasonStep(r)
      PROVE  SeasonInv'
  BY <1>1, <1>3, CloseSeasonInTurn, SelectSeasonInTurn DEF SeasonStep, BeginClose
<1>4. ASSUME NEW r \in Requests, SessionStep(r)
      PROVE  SeasonInv'
  BY <1>1, <1>2, <1>3, <1>4 DEF SessionStep
<1>5. CASE ClockStep \/ UNCHANGED vars
  BY <1>1, <1>5 DEF ClockStep, ResetStreak, vars
<1> QED
  BY <1>4, <1>5 DEF Next

\* While some user stays public, overlapping runs close a season once and leave one active.
THEOREM SeasonsClosedInTurn == Spec => []SeasonsInTurn
<1>1. Init => SeasonInv
  BY DEF Init, BaseInit, SeasonInit, SeasonInv
<1>2. SeasonInv => SeasonsInTurn
  BY DEF SeasonInv, SeasonsInTurn
<1> QED
  BY InitType, TypeStep, SeasonsStep, <1>1, <1>2, PTL DEF Spec

\* No day of a reward is to come; today's is in the row.
DayInv ==
    /\ \A d \in paidDays : d <= Today
    /\ Today \in paidDays => row.daily = Today

LEMMA DayGoesOn ==
  ASSUME NEW t \in Nat
  PROVE  Day(t) \in Nat /\ Day(t) <= Day(t + 1)
BY DEF Day, Hour

\* The login, the streak and the day of the reward are written by two steps only.
LEMMA SessionKeeps ==
  ASSUME TypeInv, NEW r \in Requests, SessionStep(r)
  PROVE  \/ RecordLogin(r) \/ PayDaily(r)
         \/ /\ row'.login = row.login /\ row'.streak = row.streak /\ row'.daily = row.daily
            /\ UNCHANGED dailyVars
<1> DEFINE Kept == row'.login = row.login /\ row'.streak = row.streak /\ row'.daily = row.daily
<1>0. row \in Row /\ seen[r] \in Row
  BY Known
<1>1. ASSUME row' = row
      PROVE  Kept
  BY <1>1
<1>2. ASSUME NEW xp, row' = [row EXCEPT !.xp = xp]
      PROVE  Kept
  BY <1>0, <1>2 DEF Row
<1>3. ASSUME PayClaim(r)
      PROVE  Kept
  <2>1. CASE row' = Paid(seen[r], task[r].of)
    <3>1. task[r].of \in Sources
      BY <1>3, Known, RewardsAssumption DEF PayClaim, Finish, TaskKnown
    <3> QED
      BY <1>0, <2>1, <3>1, PaidRow
  <2> QED
    BY <1>1, <1>3, <2>1 DEF PayClaim
<1>4. ASSUME PayShop(r)
      PROVE  Kept
  <2>1. CASE row' = Charged(seen[r], task[r].of, task[r].kind) /\ row' # row
    <3>1. /\ task[r].of \in Cosmetics /\ task[r].kind \in Means
          /\ Cost(task[r].of, task[r].kind) # 0
      BY <1>4, <2>1, Known DEF PayShop, Finish, TaskKnown, Charged
    <3> QED
      BY <1>0, <2>1, <3>1, ChargedRow
  <2> QED
    BY <1>1, <1>4, <2>1 DEF PayShop
<1>5. ASSUME Unlock(r)
      PROVE  Kept
  BY <1>1, <1>2, <1>5 DEF Unlock
<1>6. ASSUME CloseSeason(r)
      PROVE  Kept
  BY <1>1, <1>2, <1>6 DEF CloseSeason
<1> HIDE DEF Kept
<1>7. CASE ClaimStep(r) /\ UNCHANGED dailyVars
  <2>1. Kept
    BY <1>1, <1>3, <1>7 DEF ClaimStep, Authenticate, Begin, CheckClaim, FindEvent
  <2> QED
    BY <1>7, <2>1 DEF Kept
<1>8. CASE DailyStep(r)
  <2>1. CASE RecordLogin(r) \/ PayDaily(r)
    BY <2>1
  <2>2. CASE Kept /\ UNCHANGED dailyVars
    BY <2>2 DEF Kept
  <2> QED
    BY <1>1, <1>8, <2>1, <2>2 DEF DailyStep, OpenApp, AskDaily, Begin
<1>9. CASE ShopStep(r) /\ UNCHANGED dailyVars
  <2>1. Kept
    BY <1>1, <1>4, <1>9 DEF ShopStep, AskShop, Begin, CheckShop
  <2> QED
    BY <1>9, <2>1 DEF Kept
<1>10. CASE AchievementStep(r) /\ UNCHANGED dailyVars
  <2>1. Kept
    BY <1>1, <1>5, <1>10 DEF AchievementStep, LoadUser, Begin, SelectLocked, Announce
  <2> QED
    BY <1>10, <2>1 DEF Kept
<1>11. CASE SeasonStep(r) /\ UNCHANGED dailyVars
  <2>1. Kept
    BY <1>1, <1>6, <1>11 DEF SeasonStep, BeginClose, Begin, SelectSeason
  <2> QED
    BY <1>11, <2>1 DEF Kept
<1>12. CASE Fail(r) /\ UNCHANGED dailyVars
  BY <1>1, <1>12 DEF Fail, Kept
<1> QED
  BY <1>7, <1>8, <1>9, <1>10, <1>11, <1>12 DEF SessionStep

LEMMA SessionDay ==
  ASSUME TypeInv, DayInv, NEW r \in Requests, SessionStep(r)
  PROVE  DayInv'
<1>0. clock' = clock /\ clock \in Nat /\ row \in Row /\ seen[r] \in Row
  BY SessionShape, Known DEF Begin, Goto, Finish
<1>1. Today' = Today
  BY <1>0 DEF Today
<1>2. CASE row'.daily = row.daily /\ UNCHANGED paidDays
  BY <1>1, <1>2 DEF DayInv
<1>3. CASE PayDaily(r)
  <2>1. CASE UNCHANGED <<row, history, dailyVars>>
    BY <1>2, <2>1 DEF dailyVars
  <2>2. CASE ~UNCHANGED <<row, history, dailyVars>>
    <3>1. row' = DailyPaid(LoggedIn(seen[r]), Today) /\ paidDays' = paidDays \cup {Today}
      BY <1>3, <2>2 DEF PayDaily, DailyPaid
    <3>2. LoggedIn(seen[r]) \in Row /\ Today \in Nat
      BY <1>0, LoggedInRow, DayGoesOn DEF Today
    <3>3. row'.daily = Today
      BY <3>1, <3>2, DailyPaidRow
    <3> QED
      BY <1>1, <3>1, <3>2, <3>3 DEF DayInv
  <2> QED
    BY <2>1, <2>2
<1>4. CASE RecordLogin(r)
  BY <1>0, <1>2, <1>4, LoggedInRow DEF RecordLogin
<1> QED
  BY <1>2, <1>3, <1>4, SessionKeeps DEF dailyVars

LEMMA DayStep == TypeInv /\ DayInv /\ [Next]_vars => DayInv'
<1> SUFFICES ASSUME TypeInv, DayInv, [Next]_vars
             PROVE  DayInv'
  OBVIOUS
<1>0. clock \in Nat /\ row \in Row /\ paidDays \subseteq Nat
  BY Known DEF TablesOK
<1>1. CASE Tick /\ UNCHANGED dailyVars
  <2>1. row' = row /\ paidDays' = paidDays /\ Today \in Nat /\ Today' \in Nat /\ Today <= Today'
    BY <1>0, <1>1, DayGoesOn DEF Tick, Today, dailyVars
  <2>2. \A d \in paidDays : d \in Nat /\ d <= Today
    BY <1>0 DEF DayInv
  <2>3. \A d \in paidDays' : d <= Today'
    BY <2>1, <2>2
  <2>4. ASSUME Today' \in paidDays'
        PROVE  row'.daily = Today'
    <3>1. Today' = Today
      BY <2>1, <2>2, <2>4
    <3> QED
      BY <2>1, <2>4, <3>1 DEF DayInv
  <2> QED
    BY <2>3, <2>4 DEF DayInv
<1>2. CASE ResetStreak
  <2>1. row'.daily = row.daily /\ UNCHANGED <<clock, paidDays>>
    BY <1>0, <1>2 DEF ResetStreak, Row, dailyVars
  <2> QED
    BY <2>1 DEF DayInv, Today
<1>3. CASE UNCHANGED vars
  BY <1>3 DEF vars, baseVars, dailyVars, DayInv, Today
<1> QED
  BY <1>1, <1>2, <1>3, SessionDay DEF Next, ClockStep

\* Once a daily reward has been paid, the row says so for the rest of the day.
THEOREM ClaimedDays == Spec => []ClaimedDayKept
<1>1. Init => DayInv
  BY DEF Init, BaseInit, DailyInit, DayInv
<1>2. DayInv => ClaimedDayKept
  BY DEF DayInv, ClaimedDayKept
<1> QED
  BY InitType, TypeStep, DayStep, <1>1, <1>2, PTL DEF Spec

\* A login on every day of the streak of x.
StreakDays(x, days) == \A k \in 0 .. x.streak - 1 : Day(x.login) - k \in days

\* A session is younger than a day.  Since it read the row, a login has been written to the
\* row, or none has and the streak is the copy's or reset.
Young(r) ==
    /\ clock = since[r] \/ clock = since[r] + 1
    /\ StreakDays(seen[r], loginDays)
    /\ \/ row.login >= since[r]
       \/ row.login = seen[r].login /\ row.streak \in {seen[r].streak, 0}

StreakInv ==
    /\ StreakDays(row, loginDays) /\ row.login <= clock
    /\ \A r \in Requests : pc[r] # "idle" => Young(r)

LEMMA StreakFields ==
  ASSUME TypeInv, NEW r \in Requests
  PROVE  /\ clock \in Nat /\ since[r] \in Nat /\ row \in Row /\ seen[r] \in Row
         /\ row.login \in Nat /\ row.streak \in Nat
         /\ seen[r].login \in Nat /\ seen[r].streak \in Nat
         /\ Today \in Nat /\ Today = Day(clock)
         /\ loginDays \subseteq Nat
<1>1. clock \in Nat /\ since[r] \in Nat /\ row \in Row /\ seen[r] \in Row /\ loginDays \subseteq Nat
  BY Known DEF SessionsOK, TablesOK
<1> QED
  BY <1>1, RowFields, DayGoesOn DEF Today

\* Two logins that are half a day apart are on the same day or on days in a row.
LEMMA DayNext ==
  ASSUME NEW s \in Nat, NEW t \in Nat, t = s \/ t = s + 1
  PROVE  Day(t) = Day(s) \/ Day(t) = Day(s) + 1
BY DEF Day, Hour

\* The streak that a login leaves.
LEMMA LoginStreak ==
  ASSUME TypeInv, StreakInv, NEW r \in Requests, pc[r] # "idle", ~LoggedInToday(seen[r])
  PROVE  /\ LoggedIn(seen[r]).login = clock
         /\ StreakDays(LoggedIn(seen[r]), loginDays \cup {Today})
<1> DEFINE copy == seen[r]
           streak == IF StreakAfter(copy) = copy.streak THEN row.streak ELSE StreakAfter(copy)
           days == loginDays \cup {Today}
<1>1. LoggedIn(copy) = [row EXCEPT !.login = clock, !.streak = streak]
  BY DEF LoggedIn
<1>2. /\ clock \in Nat /\ since[r] \in Nat /\ row \in Row /\ copy \in Row
      /\ row.login \in Nat /\ row.streak \in Nat /\ copy.login \in Nat /\ copy.streak \in Nat
      /\ Today \in Nat /\ Today = Day(clock) /\ Today \in days
  BY StreakFields
<1> HIDE DEF streak
<1>3. LoggedIn(copy).login = clock /\ LoggedIn(copy).streak = streak
  BY <1>1, <1>2 DEF Row
<1>4. Young(r) /\ StreakDays(row, loginDays) /\ row.login <= clock
  BY DEF StreakInv
<1> HIDE DEF copy, days
<1>5. ASSUME NEW k \in 0 .. streak - 1
      PROVE  Today - k \in days
  <2>1. CASE k = 0
    BY <1>2, <2>1
  <2>2. CASE k > 0 /\ StreakAfter(copy) # copy.streak
    <3>1. streak = StreakAfter(copy)
      BY <2>2 DEF streak
    <3>2. streak = copy.streak + 1 /\ Day(copy.login) = Today - 1
      BY <1>5, <2>2, <3>1 DEF StreakAfter
    <3>3. k - 1 \in 0 .. copy.streak - 1
      BY <1>2, <1>5, <2>2, <3>2
    <3>4. Day(copy.login) - (k - 1) \in loginDays
      BY <1>4, <3>3 DEF Young, StreakDays, copy
    <3>5. Day(copy.login) - (k - 1) = Today - k
      BY <1>2, <1>5, <3>2
    <3> QED
      BY <3>4, <3>5 DEF days
  <2>3. CASE k > 0 /\ StreakAfter(copy) = copy.streak
    <3>1. streak = row.streak
      BY <2>3 DEF streak
    <3>2. copy.streak = 1
      BY <1>2, <2>3 DEF StreakAfter
    <3>3. CASE row.login >= since[r]
      <4>1. clock = row.login \/ clock = row.login + 1
        BY <1>2, <1>4, <3>3 DEF Young
      <4>2. Today = Day(row.login) \/ Today = Day(row.login) + 1
        BY <1>2, <4>1, DayNext
      <4>3. Day(row.login) \in Nat
        BY <1>2, DayGoesOn
      <4>4. CASE Today = Day(row.login)
        <5>1. Day(row.login) - k \in loginDays
          BY <1>4, <1>5, <3>1 DEF StreakDays
        <5> QED
          BY <4>4, <5>1 DEF days
      <4>5. CASE Today = Day(row.login) + 1
        <5>1. k - 1 \in 0 .. row.streak - 1
          BY <1>2, <1>5, <2>3, <3>1
        <5>2. Day(row.login) - (k - 1) \in loginDays
          BY <1>4, <5>1 DEF StreakDays
        <5>3. Day(row.login) - (k - 1) = Today - k
          BY <1>5, <4>3, <4>5
        <5> QED
          BY <5>2, <5>3 DEF days
      <4> QED
        BY <4>2, <4>4, <4>5
    <3>4. CASE row.streak \in {copy.streak, 0}
      BY <1>5, <2>3, <3>1, <3>2, <3>4
    <3> QED
      BY <1>4, <3>3, <3>4 DEF Young, copy
  <2> QED
    BY <1>5, <2>1, <2>2, <2>3
<1> QED
  BY <1>2, <1>3, <1>5 DEF StreakDays, copy, days

LEMMA MoreDays ==
  ASSUME NEW x, NEW days, NEW more, StreakDays(x, days), days \subseteq more
  PROVE  StreakDays(x, more)
BY DEF StreakDays

\* What a step of a session leaves of the login and the streak.
LEMMA SessionLogin ==
  ASSUME TypeInv, StreakInv, NEW r \in Requests, SessionStep(r)
  PROVE  /\ clock' = clock /\ loginDays \subseteq loginDays'
         /\ \/ row'.login = row.login /\ row'.streak = row.streak
            \/ row'.login = clock /\ StreakDays(row', loginDays')
<1>0. clock' = clock
  BY SessionShape DEF Begin, Goto, Finish
<1>1. CASE RecordLogin(r)
  <2>1. pc[r] # "idle" /\ row' = LoggedIn(seen[r])
    BY <1>1 DEF RecordLogin, Finish
  <2>2. CASE LoggedInToday(seen[r])
    BY <1>0, <1>1, <2>1, <2>2 DEF RecordLogin, LoggedIn
  <2>3. CASE ~LoggedInToday(seen[r])
    <3>1. loginDays' = loginDays \cup {Today}
      BY <1>1, <2>3 DEF RecordLogin
    <3> QED
      BY <1>0, <2>1, <2>3, <3>1, LoginStreak
  <2> QED
    BY <2>2, <2>3
<1>2. CASE PayDaily(r) /\ UNCHANGED <<row, dailyVars>>
  BY <1>0, <1>2 DEF dailyVars
<1>3. CASE PayDaily(r) /\ ~UNCHANGED <<row, history, dailyVars>>
  <2>1. /\ pc[r] # "idle" /\ row' = DailyPaid(LoggedIn(seen[r]), Today)
        /\ loginDays' = IF LoggedInToday(seen[r]) THEN loginDays ELSE loginDays \cup {Today}
    BY <1>3 DEF PayDaily, Finish, DailyPaid
  <2>2. LoggedIn(seen[r]) \in Row /\ Today \in Nat
    BY StreakFields, LoggedInRow
  <2>3. row'.login = LoggedIn(seen[r]).login /\ row'.streak = LoggedIn(seen[r]).streak
    BY <2>1, <2>2, DailyPaidRow
  <2>4. CASE LoggedInToday(seen[r])
    BY <1>0, <2>1, <2>3, <2>4 DEF LoggedIn
  <2>5. CASE ~LoggedInToday(seen[r])
    <3>1. /\ LoggedIn(seen[r]).login = clock
          /\ StreakDays(LoggedIn(seen[r]), loginDays \cup {Today})
      BY <2>1, <2>5, LoginStreak
    <3>2. loginDays' = loginDays \cup {Today}
      BY <2>1, <2>5
    <3>3. StreakDays(row', loginDays')
      BY <2>3, <3>1, <3>2 DEF StreakDays
    <3> QED
      BY <1>0, <2>3, <3>1, <3>2, <3>3
  <2> QED
    BY <2>4, <2>5
<1> QED
  BY <1>0, <1>1, <1>2, <1>3, SessionKeeps DEF dailyVars

LEMMA SessionStreak ==
  ASSUME TypeInv, StreakInv, NEW r \in Requests, SessionStep(r)
  PROVE  StreakInv'
<1>1. /\ clock' = clock /\ loginDays \subseteq loginDays'
      /\ \/ row'.login = row.login /\ row'.streak = row.streak
         \/ row'.login = clock /\ StreakDays(row', loginDays')
  BY SessionLogin
<1>2. clock \in Nat /\ row.login \in Nat /\ row.login <= clock /\ StreakDays(row, loginDays)
  BY StreakFields DEF StreakInv
<1>3. StreakDays(row', loginDays') /\ row'.login <= clock'
  <2>1. CASE row'.login = row.login /\ row'.streak = row.streak
    BY <1>1, <1>2, <2>1 DEF StreakDays
  <2>2. CASE row'.login = clock /\ StreakDays(row', loginDays')
    BY <1>1, <1>2, <2>2
  <2> QED
    BY <1>1, <2>1, <2>2
\* A copy that was young stays young.
<1>4. ASSUME NEW q \in Requests, Young(q), since'[q] = since[q], seen'[q] = seen[q]
      PROVE  Young(q)'
  <2>1. since[q] \in Nat /\ since[q] <= clock
    BY <1>2, <1>4, StreakFields DEF Young
  <2>2. StreakDays(seen[q], loginDays')
    BY <1>1, <1>4, MoreDays DEF Young
  <2>3. \/ row'.login >= since'[q]
        \/ row'.login = seen'[q].login /\ row'.streak \in {seen'[q].streak, 0}
    BY <1>1, <1>4, <2>1 DEF Young
  <2>4. StreakDays(seen[q], loginDays)'
    BY <1>4, <2>2 DEF StreakDays
  <2> QED
    BY <1>1, <1>4, <2>3, <2>4 DEF Young
<1>5. ASSUME NEW q \in Requests, pc'[q] # "idle"
      PROVE  Young(q)'
  <2>0. SessionsOK
    BY Known
  <2>1. CASE q # r
    <3>1. pc'[q] = pc[q] /\ since'[q] = since[q] /\ seen'[q] = seen[q]
      BY <2>0, <2>1, SessionShape DEF Begin, Goto, Finish, SessionsOK
    <3> QED
      BY <1>4, <1>5, <3>1 DEF StreakInv
  <2>2. CASE q = r /\ \E t, step : Begin(r, t, step)
    <3>1. since'[q] = clock /\ seen'[q] = row /\ row' = row
      BY <2>0, <2>2 DEF Begin, SessionsOK
    <3>2. StreakDays(seen[q], loginDays)'
      BY <1>3, <3>1 DEF StreakDays
    <3> QED
      BY <1>1, <3>1, <3>2 DEF Young
  <2>3. CASE q = r /\ \E from, to : Goto(r, from, to) /\ from # "idle"
    <3>1. since' = since /\ seen' = seen /\ pc[q] # "idle"
      BY <2>3 DEF Goto
    <3>2. Young(q)
      BY <3>1 DEF StreakInv
    <3> QED
      BY <1>4, <3>1, <3>2
  <2>4. CASE q = r /\ \E from : Finish(r, from)
    BY <1>5, <2>0, <2>4 DEF Finish, SessionsOK
  <2> QED
    BY <2>1, <2>2, <2>3, <2>4, SessionShape
<1> QED
  BY <1>3, <1>5 DEF StreakInv

LEMMA ClockStreak ==
  ASSUME TypeInv, StreakInv, ClockStep \/ UNCHANGED vars
  PROVE  StreakInv'
<1>0. clock \in Nat /\ row \in Row /\ row.login \in Nat /\ row.login <= clock
  BY Known, RowFields DEF StreakInv
<1>1. CASE Tick /\ UNCHANGED dailyVars
  <2>1. /\ clock' = clock + 1 /\ UNCHANGED <<row, pc, seen, since, loginDays>>
        /\ \A r \in Requests : pc[r] # "idle" => since[r] = clock
    BY <1>1 DEF Tick, sessionVars, dailyVars
  <2>2. StreakDays(row, loginDays)' /\ row'.login <= clock'
    BY <1>0, <2>1 DEF StreakInv, StreakDays
  <2>3. ASSUME NEW r \in Requests, pc'[r] # "idle"
        PROVE  Young(r)'
    <3>1. Young(r) /\ since[r] = clock
      BY <2>1, <2>3 DEF StreakInv
    <3>2. StreakDays(seen[r], loginDays)'
      BY <2>1, <3>1 DEF Young, StreakDays
    <3> QED
      BY <1>0, <2>1, <3>1, <3>2 DEF Young
  <2> QED
    BY <2>2, <2>3 DEF StreakInv
<1>2. CASE ResetStreak
  <2>1. /\ row' = [row EXCEPT !.streak = 0] /\ UNCHANGED <<clock, pc, seen, since, loginDays>>
    BY <1>2 DEF ResetStreak, sessionVars, dailyVars
  <2>2. row'.login = row.login /\ row'.streak = 0
    BY <1>0, <2>1 DEF Row
  <2>3. StreakDays(row, loginDays)' /\ row'.login <= clock'
    BY <1>0, <2>1, <2>2 DEF StreakDays
  <2>4. ASSUME NEW r \in Requests, pc'[r] # "idle"
        PROVE  Young(r)'
    <3>1. Young(r)
      BY <2>1, <2>4 DEF StreakInv
    <3>2. StreakDays(seen[r], loginDays)'
      BY <2>1, <3>1 DEF Young, StreakDays
    <3> QED
      BY <2>1, <2>2, <3>1, <3>2 DEF Young
  <2> QED
    BY <2>3, <2>4 DEF StreakInv
<1>3. CASE UNCHANGED vars
  <2>1. UNCHANGED <<clock, row, pc, seen, since, loginDays>>
    BY <1>3 DEF vars, baseVars, sessionVars, dailyVars
  <2> QED
    BY <2>1 DEF StreakInv, Young, StreakDays
<1> QED
  BY <1>1, <1>2, <1>3 DEF ClockStep

LEMMA StreakStep == TypeInv /\ StreakInv /\ [Next]_vars => StreakInv'
BY SessionStreak, ClockStreak DEF Next

\* A streak is never longer than the days in a row with a login, up to the last one.
THEOREM StreaksEarned == Spec => []StreakEarned
<1>1. Init => StreakInv
  <2> SUFFICES ASSUME Init
               PROVE  StreakInv
    OBVIOUS
  <2>1. row = FirstRow /\ clock = 2 /\ pc = [r \in Requests |-> "idle"]
    BY DEF Init, BaseInit
  <2> QED
    BY <2>1 DEF StreakInv, StreakDays, FirstRow
<1>2. StreakInv => StreakEarned
  BY DEF StreakInv, StreakDays, StreakEarned
<1> QED
  BY InitType, TypeStep, StreakStep, <1>1, <1>2, PTL DEF Spec
=============================================================================
