------------------------- MODULE PlayerLinksProofs -------------------------
(***************************************************************************)
(* Proofs about PlayerLinks, for any number of sessions, any finite set of *)
(* players, and any links and scans: who is rewarded, what is lost, and    *)
(* that players and their inviters form a forest.                          *)
(***************************************************************************)
EXTENDS PlayerLinks, FiniteSetTheorems, TLAPS

-----------------------------------------------------------------------------
(* The inductive invariant *)

LoginSteps == {"find user", "insert user", "referrer", "reward"}
ScanSteps  == {"find sticker", "find scan", "record", "count"}
Holding    == {"find scan", "record", "count"}
Labels     == {"idle", "create"} \cup LoginSteps \cup ScanSteps

TypeOK ==
    /\ users \subseteq Players
    /\ job \in [Sessions -> Jobs \cup {NoJob}]
    /\ pc \in [Sessions -> Labels]
    /\ seen \in [Sessions -> Nat]
    /\ referrer \in [Players -> Players \cup {Nobody}]
    /\ xp \in [Players -> Nat] /\ signups \in [Players -> Nat] /\ bonuses \in [Players -> Nat]
    /\ stickers \subseteq Players /\ scans \subseteq Pairs
    /\ scanCount \in [Players -> Nat]
    /\ incomes \in [Pairs -> Nat] /\ claims \in [Pairs -> Nat]

\* What a session is at.
JobOK == \A s \in Sessions :
    /\ pc[s] \in LoginSteps => job[s] \in Jobs /\ job[s].kind = "login"
    /\ pc[s] = "create" => job[s] \in Jobs /\ job[s].kind = "generate" /\ job[s].of \in Players
    /\ pc[s] \in ScanSteps => job[s] \in Jobs /\ job[s].kind = "scan" /\ job[s].of \in Players

\* The unique index on tg_id, held from INSERT to commit; whoever's link it was is there,
\* or just inserted.
NewUsers == \A s \in Sessions : pc[s] \in {"referrer", "reward"} =>
    /\ job[s].who \notin users /\ job[s].of \in Named(job[s].who)
    /\ \A t \in Sessions : pc[t] \in {"referrer", "reward"} /\ job[t].who = job[s].who => t = s

FoundStickers == \A s \in Sessions : pc[s] \in Holding =>
    job[s].of \in stickers /\ job[s].of # job[s].who

\* The unique index on the pairs of a scan, held likewise.
NewScans == \A s \in Sessions : pc[s] = "count" =>
    /\ PairOf(s) \notin scans
    /\ \A t \in Sessions : pc[t] = "count" /\ PairOf(t) = PairOf(s) => t = s

Inserted == NewUsers /\ FoundStickers /\ NewScans

\* Who has no row has nothing.
Strangers == \A p \in Players \ users :
    /\ referrer[p] = Nobody /\ signups[p] = 0 /\ bonuses[p] = 0 /\ xp[p] = 0
    /\ \A q \in Players : referrer[q] # p

\* The reward a session has written itself to the row that it reads: the newcomer's, if
\* the inviter is the newcomer.
Own(j) == IF j.of = j.who THEN 1 ELSE 0

\* What was read is not more than there is, and is what there is if nobody wrote since.
SeenBy(s) ==
    /\ pc[s] = "reward" =>
         LET p == job[s].of IN /\ seen[s] <= signups[p] + bonuses[p] + Own(job[s])
                               /\ <<"xp", p>> \notin raced => seen[s] = xp[p] + Own(job[s])
    /\ pc[s] \in Holding =>
         LET p == job[s].of IN /\ seen[s] <= Cardinality(Scanners(p))
                               /\ <<"scan_count", p>> \notin raced => seen[s] = scanCount[p]

SeenOK == \A s \in Sessions : SeenBy(s)

Shared == JobOK /\ Inserted
Counters == Strangers /\ SeenOK /\ ReferralPaid /\ ScansPaid /\ LostOnlyInOverlap
LinksInv == TypeOK /\ Shared /\ Counters

-----------------------------------------------------------------------------
(* Counting *)

LEMMA FiniteSubsets == \A S \in SUBSET Players : IsFiniteSet(S) /\ Cardinality(S) \in Nat
BY PlayersAssumption, FS_Subset, FS_CardinalityType

LEMMA OneMore ==
  ASSUME NEW S \in SUBSET Players, NEW p \in Players, p \notin S
  PROVE  Cardinality(S \cup {p}) = Cardinality(S) + 1
BY FiniteSubsets, FS_AddElement

LEMMA Sizes == \A p : /\ Cardinality(Invited(p)) \in Nat /\ IsFiniteSet(Invited(p))
                      /\ Cardinality(Scanners(p)) \in Nat /\ IsFiniteSet(Scanners(p))
BY FiniteSubsets DEF Invited, Scanners

LEMMA InitLinks == Init => LinksInv
<1> SUFFICES ASSUME Init PROVE LinksInv
  OBVIOUS
<1>0. \A s \in Sessions : pc[s] = "idle"
  BY DEF Init, PlayersInit
<1>1. TypeOK
  <2>1. /\ users \subseteq Players /\ job \in [Sessions -> Jobs \cup {NoJob}]
        /\ pc \in [Sessions -> Labels] /\ seen \in [Sessions -> Nat]
    BY PlayersAssumption DEF Init, PlayersInit, Labels
  <2>2. /\ referrer \in [Players -> Players \cup {Nobody}]
        /\ xp \in [Players -> Nat] /\ signups \in [Players -> Nat] /\ bonuses \in [Players -> Nat]
    BY DEF Init, ReferralsInit
  <2>3. /\ stickers \subseteq Players /\ scans \subseteq Pairs
        /\ scanCount \in [Players -> Nat]
        /\ incomes \in [Pairs -> Nat] /\ claims \in [Pairs -> Nat]
    BY DEF Init, StickersInit
  <2> QED
    BY <2>1, <2>2, <2>3 DEF TypeOK
<1>2. Shared
  BY <1>0 DEF Shared, JobOK, Inserted, NewUsers, FoundStickers, NewScans, LoginSteps, ScanSteps,
              Holding
<1>3. \A p \in Players : referrer[p] = Nobody /\ signups[p] = 0 /\ bonuses[p] = 0 /\ xp[p] = 0
  BY DEF Init, ReferralsInit
<1>4. scans = {} /\ \A pair \in Pairs : incomes[pair] = 0 /\ claims[pair] = 0
  BY DEF Init, StickersInit
<1>5. \A p \in Players : scanCount[p] = 0
  BY DEF Init, StickersInit
<1>6. \A p \in Players : Invited(p) = {}
  BY <1>3, PlayersAssumption DEF Invited
<1>7. \A p \in Players : Scanners(p) = {}
  BY <1>4 DEF Scanners
<1>8. \A p \in Players : Cardinality(Invited(p)) = 0 /\ Cardinality(Scanners(p)) = 0
  BY <1>6, <1>7, FS_EmptySet
<1>9. Strangers
  BY <1>3, PlayersAssumption DEF Strangers
<1>10. SeenOK
  BY <1>0 DEF SeenOK, SeenBy, Holding
<1>11. ReferralPaid
  BY <1>3, <1>8 DEF ReferralPaid
<1>12. ScansPaid
  BY <1>4, <1>5, <1>7, <1>8 DEF ScansPaid
<1>13. LostOnlyInOverlap
  BY <1>3, <1>5, <1>8 DEF LostOnlyInOverlap
<1> QED
  BY <1>1, <1>2, <1>9, <1>10, <1>11, <1>12, <1>13 DEF LinksInv, Counters

-----------------------------------------------------------------------------
(* Steps that only move a session *)

Tables == <<users, raced, referrer, xp, signups, bonuses,
            stickers, scanCount, scans, incomes, claims>>

Others(s) == \A t \in Sessions \ {s} : pc'[t] = pc[t] /\ job'[t] = job[t] /\ seen'[t] = seen[t]

LEMMA TablesKept ==
  ASSUME Counters, UNCHANGED Tables
  PROVE  Strangers' /\ ReferralPaid' /\ ScansPaid' /\ LostOnlyInOverlap'
<1>1. \A p : Invited(p)' = Invited(p) /\ Scanners(p)' = Scanners(p)
  BY DEF Tables, Invited, Scanners
<1>2. Strangers'
  BY DEF Tables, Counters, Strangers
<1>3. ReferralPaid'
  BY <1>1 DEF Tables, Counters, ReferralPaid
<1>4. ScansPaid'
  BY <1>1 DEF Tables, Counters, ScansPaid, Pairs
<1>5. LostOnlyInOverlap'
  BY <1>1 DEF Tables, Counters, LostOnlyInOverlap
<1> QED
  BY <1>2, <1>3, <1>4, <1>5

\* Who stays where it is keeps what it knows, if the counters stay what they are.
LEMMA SeenStays ==
  ASSUME SeenOK, UNCHANGED <<raced, xp, signups, bonuses, scans, scanCount>>,
         NEW t \in Sessions, pc'[t] = pc[t], job'[t] = job[t], seen'[t] = seen[t]
  PROVE  SeenBy(t)'
<1>1. \A p : Scanners(p)' = Scanners(p)
  BY DEF Scanners
<1> QED
  BY <1>1 DEF SeenOK, SeenBy

\* A step of s that ends its session touches no other one's.
LEMMA SeenAfter ==
  ASSUME SeenOK, UNCHANGED <<raced, xp, signups, bonuses, scans, scanCount>>,
         NEW s \in Sessions, Others(s), pc'[s] \notin {"reward"} \cup Holding
  PROVE  SeenOK'
<1>1. ASSUME NEW t \in Sessions, t # s PROVE SeenBy(t)'
  BY <1>1, SeenStays DEF Others
<1>2. SeenBy(s)'
  BY DEF SeenBy
<1> QED
  BY <1>1, <1>2 DEF SeenOK

\* A session that holds neither a row nor a copy of a counter afterwards.
\* What nobody enters any more stays as it was.
LEMMA FoundStay ==
  ASSUME FoundStickers, stickers' = stickers,
         \A t \in Sessions : pc'[t] \in Holding => pc[t] \in Holding /\ job'[t] = job[t]
  PROVE  FoundStickers'
BY DEF FoundStickers

LEMMA ScansStay ==
  ASSUME NewScans, scans' = scans,
         \A t \in Sessions : pc'[t] = "count" => pc[t] = "count" /\ job'[t] = job[t]
  PROVE  NewScans'
<1>1. \A t \in Sessions : pc'[t] = "count" => pc[t] = "count" /\ PairOf(t)' = PairOf(t)
  BY DEF PairOf
<1>2. ASSUME NEW t \in Sessions, pc'[t] = "count" PROVE PairOf(t)' \notin scans'
  BY <1>1, <1>2 DEF NewScans
<1>3. ASSUME NEW t \in Sessions, NEW r \in Sessions, pc'[t] = "count", pc'[r] = "count",
             PairOf(r)' = PairOf(t)'
      PROVE  r = t
  BY <1>1, <1>3 DEF NewScans
<1> QED
  BY <1>2, <1>3 DEF NewScans

LEMMA QuietStep ==
  ASSUME LinksInv, NEW s \in Sessions, Others(s), UNCHANGED Tables, TypeOK', JobOK',
         pc'[s] \notin {"referrer", "reward"} \cup Holding
  PROVE  LinksInv'
<1> USE DEF LinksInv
<1>0. \A t \in Sessions : pc'[t] \in {"referrer", "reward"} \cup Holding =>
        t # s /\ pc'[t] = pc[t] /\ job'[t] = job[t]
  BY DEF Others
<1>1. Inserted'
  <2>1. users' = users /\ stickers' = stickers /\ scans' = scans
    BY DEF Tables
  <2>2. NewUsers'
    BY <1>0, <2>1 DEF Shared, Inserted, NewUsers, Named
  <2>3. FoundStickers'
    BY <1>0, <2>1, FoundStay DEF Shared, Inserted
  <2>4. NewScans'
    <3>1. \A t \in Sessions : pc'[t] = "count" => pc[t] = "count" /\ job'[t] = job[t]
      BY <1>0 DEF Holding
    <3> QED
      BY <2>1, <3>1, ScansStay DEF Shared, Inserted
  <2> QED
    BY <2>2, <2>3, <2>4 DEF Inserted
<1>2. SeenOK'
  BY SeenAfter DEF Counters, Tables
<1> QED
  BY <1>1, <1>2, TablesKept DEF Shared, Counters

LEMMA FinishTypes ==
  ASSUME TypeOK, NEW s \in Sessions, Finish(s)
  PROVE  /\ job' \in [Sessions -> Jobs \cup {NoJob}] /\ pc' \in [Sessions -> Labels]
         /\ seen' \in [Sessions -> Nat] /\ Others(s) /\ pc'[s] = "idle"
BY DEF TypeOK, Finish, Others, Labels

LEMMA FinishQuiet ==
  ASSUME LinksInv, NEW s \in Sessions, Finish(s), UNCHANGED Tables
  PROVE  LinksInv'
<1>1. TypeOK'
  BY FinishTypes DEF LinksInv, TypeOK, Tables, Pairs
<1>2. JobOK'
  BY FinishTypes DEF LinksInv, Shared, JobOK, Others, LoginSteps, ScanSteps
<1>3. Others(s) /\ pc'[s] \notin {"referrer", "reward"} \cup Holding
  BY FinishTypes DEF LinksInv, Holding
<1> QED
  BY <1>1, <1>2, <1>3, QuietStep

LEMMA AnswerQuiet ==
  ASSUME LinksInv, NEW s \in Sessions, NEW l, Answer(s, l), UNCHANGED referralVars
  PROVE  LinksInv'
BY FinishQuiet DEF Answer, Tables, referralVars, stickerVars

LEMMA BeginQuiet ==
  ASSUME LinksInv, NEW s \in Sessions, NEW j \in Jobs, NEW l \in Labels, Begin(s, j, l),
         \/ l = "find user" /\ j.kind = "login"
         \/ l = "create" /\ j.kind = "generate" /\ j.of \in Players
         \/ l = "find sticker" /\ j.kind = "scan" /\ j.of \in Players,
         UNCHANGED Tables
  PROVE  LinksInv'
<1>1. TypeOK' /\ Others(s) /\ pc'[s] = l /\ job'[s] = j
  BY DEF LinksInv, TypeOK, Begin, Others, Tables, Pairs
<1>2. JobOK'
  BY <1>1 DEF LinksInv, Shared, JobOK, Others, LoginSteps, ScanSteps
<1>3. l \notin {"referrer", "reward"} \cup Holding
  BY DEF Holding
<1> QED
  BY <1>1, <1>2, <1>3, QuietStep

\* A step of a session to another one of the same request.
LEMMA GotoTypes ==
  ASSUME LinksInv, NEW s \in Sessions, pc' \in [Sessions -> Labels],
         \A t \in Sessions \ {s} : pc'[t] = pc[t], job' = job, seen' \in [Sessions -> Nat],
         \/ pc[s] \in LoginSteps /\ pc'[s] \in LoginSteps
         \/ pc[s] \in ScanSteps /\ pc'[s] \in ScanSteps,
         UNCHANGED Tables
  PROVE  TypeOK' /\ JobOK'
<1>1. TypeOK'
  BY DEF LinksInv, TypeOK, Tables, Pairs
<1>2. JobOK'
  BY DEF LinksInv, Shared, JobOK, LoginSteps, ScanSteps
<1> QED
  BY <1>1, <1>2

-----------------------------------------------------------------------------
(* Logins *)

LEMMA InsertStep ==
  ASSUME LinksInv, NEW s \in Sessions, InsertUser(s), UNCHANGED stickerVars
  PROVE  LinksInv'
<1> DEFINE p == job[s].who  by == job[s].of
<1> USE DEF InsertUser
<1>1. CASE /\ p \in users \/ by \notin Named(p) \cup {Nobody}
           /\ Finish(s) /\ UNCHANGED <<users, raced>>
  BY <1>1, FinishQuiet DEF Tables, referralVars, stickerVars
<1>2. CASE p \notin users /\ by = Nobody /\ Finish(s) /\ users' = users \cup {p} /\ UNCHANGED raced
  <2>0. job[s] \in Jobs /\ p \in Players
    BY DEF LinksInv, Shared, JobOK, LoginSteps, Jobs
  <2>1. TypeOK'
    BY <1>2, <2>0, FinishTypes DEF LinksInv, TypeOK, referralVars, stickerVars, Pairs
  <2>2. JobOK'
    BY <1>2, FinishTypes DEF LinksInv, Shared, JobOK, Others, LoginSteps, ScanSteps
  <2>3. Inserted'
    <3>1. \A t \in Sessions : pc'[t] # "idle" =>
            t # s /\ pc'[t] = pc[t] /\ job'[t] = job[t]
      BY <1>2, FinishTypes DEF LinksInv, Others
    <3>2. \A t \in Sessions : pc[t] \in {"referrer", "reward"} => job[t].who # p
      BY DEF Inserting
    <3>3. stickers' = stickers /\ scans' = scans /\ users' = users \cup {p}
      BY <1>2 DEF stickerVars
    <3>4. NewUsers'
      <4>1. \A t \in Sessions : pc'[t] \in {"referrer", "reward"} =>
              /\ pc[t] \in {"referrer", "reward"} /\ job'[t] = job[t]
              /\ job[t].who \notin users /\ job[t].of \in Named(job[t].who) /\ job[t].who # p
        BY <3>1, <3>2 DEF LinksInv, Shared, Inserted, NewUsers
      <4>2. \A t, r \in Sessions :
            (pc'[t] \in {"referrer", "reward"} /\ pc'[r] \in {"referrer", "reward"}
             /\ job'[r].who = job'[t].who) => r = t
        <5> SUFFICES ASSUME NEW t \in Sessions, NEW r \in Sessions,
                            pc'[t] \in {"referrer", "reward"}, pc'[r] \in {"referrer", "reward"},
                            job'[r].who = job'[t].who
                     PROVE  r = t
          OBVIOUS
        <5>1. job[r].who = job[t].who /\ pc[r] \in {"referrer", "reward"}
              /\ pc[t] \in {"referrer", "reward"}
          BY <4>1
        <5> QED
          BY <5>1 DEF LinksInv, Shared, Inserted, NewUsers
      <4> QED
        BY <3>3, <4>1, <4>2 DEF NewUsers, Named
    <3>5. FoundStickers'
      BY <3>1, <3>3, FoundStay DEF LinksInv, Shared, Inserted, Holding
    <3>6. NewScans'
      BY <3>1, <3>3, ScansStay DEF LinksInv, Shared, Inserted
    <3> QED
      BY <3>4, <3>5, <3>6 DEF Inserted
  <2>4. SeenOK'
    <3>1. Others(s) /\ pc'[s] \notin {"reward"} \cup Holding
      BY <1>2, FinishTypes DEF LinksInv, Holding
    <3> QED
      BY <1>2, <3>1, SeenAfter DEF LinksInv, Counters, stickerVars, referralVars
  <2>5. Strangers'
    BY <1>2 DEF LinksInv, Counters, Strangers, referralVars
  <2>6. \A q : Invited(q)' = Invited(q) /\ Scanners(q)' = Scanners(q)
    BY <1>2 DEF Invited, Scanners, referralVars, stickerVars
  <2>7. ReferralPaid'
    BY <1>2, <2>6 DEF LinksInv, Counters, ReferralPaid, referralVars
  <2>8. LostOnlyInOverlap'
    BY <1>2, <2>6 DEF LinksInv, Counters, LostOnlyInOverlap, referralVars, stickerVars
  <2>9. ScansPaid'
    BY <1>2, <2>6 DEF LinksInv, Counters, ScansPaid, Pairs, stickerVars
  <2> QED
    BY <2>1, <2>2, <2>3, <2>4, <2>5, <2>7, <2>8, <2>9 DEF LinksInv, Shared, Counters
<1>3. CASE p \notin users /\ by \in Named(p) /\ Goto(s, "insert user", "referrer") /\ UNCHANGED seen
  <2>0. UNCHANGED Tables
    BY <1>3 DEF Tables, Goto, referralVars, stickerVars
  <2>1. TypeOK' /\ JobOK' /\ pc'[s] = "referrer" /\ \A t \in Sessions \ {s} : pc'[t] = pc[t]
    <3>1. seen' \in [Sessions -> Nat]
      BY <1>3 DEF LinksInv, TypeOK
    <3>2. /\ pc' \in [Sessions -> Labels] /\ pc[s] \in LoginSteps /\ pc'[s] \in LoginSteps
          /\ pc'[s] = "referrer" /\ \A t \in Sessions \ {s} : pc'[t] = pc[t]
      BY <1>3 DEF LinksInv, TypeOK, Goto, Labels, LoginSteps
    <3>3. job' = job
      BY <1>3 DEF Goto
    <3> QED
      BY <2>0, <3>1, <3>2, <3>3, GotoTypes
  <2>2. Inserted'
    <3>1. job' = job /\ users' = users /\ stickers' = stickers /\ scans' = scans
      BY <1>3, <2>0 DEF Goto, Tables
    <3>2. \A t \in Sessions : pc[t] \in {"referrer", "reward"} => job[t].who # p
      BY DEF Inserting
    <3>3. NewUsers'
      <4>0. NewUsers
        BY DEF LinksInv, Shared, Inserted
      <4>1. ASSUME NEW t \in Sessions, pc'[t] \in {"referrer", "reward"}
            PROVE  job[t].who \notin users /\ job[t].of \in Named(job[t].who)
        BY <1>3, <2>1, <4>0, <4>1 DEF NewUsers
      <4>2. ASSUME NEW t \in Sessions, NEW r \in Sessions, pc'[t] \in {"referrer", "reward"},
                   pc'[r] \in {"referrer", "reward"}, job[r].who = job[t].who
            PROVE  r = t
        BY <2>1, <3>2, <4>0, <4>2 DEF NewUsers
      <4> QED
        BY <3>1, <4>1, <4>2 DEF NewUsers, Named
    <3>4. \A t \in Sessions : pc'[t] \in Holding => pc'[t] = pc[t] /\ job'[t] = job[t]
      BY <2>1, <3>1 DEF Holding
    <3>5. FoundStickers'
      BY <3>1, <3>4, FoundStay DEF LinksInv, Shared, Inserted
    <3>6. NewScans'
      <4>1. \A t \in Sessions : pc'[t] = "count" => pc[t] = "count" /\ job'[t] = job[t]
        BY <3>4 DEF Holding
      <4> QED
        BY <3>1, <4>1, ScansStay DEF LinksInv, Shared, Inserted
    <3> QED
      BY <3>3, <3>5, <3>6 DEF Inserted
  <2>3. SeenOK'
    <3>1. /\ UNCHANGED <<raced, xp, signups, bonuses, scans, scanCount, job, seen>>
          /\ pc'[s] \notin {"reward"} \cup Holding
      BY <1>3, <2>0, <2>1 DEF Goto, Tables, Holding
    <3>2. Others(s)
      BY <2>1, <3>1 DEF Others
    <3> QED
      BY <3>1, <3>2, SeenAfter DEF LinksInv, Counters
  <2> QED
    BY <2>0, <2>1, <2>2, <2>3, TablesKept DEF LinksInv, Shared, Counters
<1> QED
  BY <1>1, <1>2, <1>3

LEMMA LoadStep ==
  ASSUME LinksInv, NEW s \in Sessions, LoadReferrer(s), UNCHANGED stickerVars
  PROVE  LinksInv'
<1> DEFINE read == IF job[s].of = job[s].who THEN 1 ELSE xp[job[s].of]
<1>0. UNCHANGED Tables /\ Goto(s, "referrer", "reward") /\ seen' = [seen EXCEPT ![s] = read]
  BY DEF LoadReferrer, Tables, Goto, referralVars, stickerVars
<1>1. job[s].of \in Players /\ (job[s].of = job[s].who => job[s].of \notin users)
  BY <1>0 DEF LinksInv, Shared, JobOK, Inserted, NewUsers, Named, LoginSteps, Jobs, Goto, TypeOK
<1>2. read \in Nat /\ seen' \in [Sessions -> Nat] /\ seen'[s] = read
  BY <1>0, <1>1 DEF LinksInv, TypeOK
<1>3. TypeOK' /\ JobOK' /\ pc'[s] = "reward" /\ \A t \in Sessions \ {s} : pc'[t] = pc[t]
  <2>1. /\ pc' \in [Sessions -> Labels] /\ pc[s] \in LoginSteps /\ pc'[s] \in LoginSteps
        /\ pc'[s] = "reward" /\ \A t \in Sessions \ {s} : pc'[t] = pc[t]
    BY <1>0 DEF LinksInv, TypeOK, Goto, Labels, LoginSteps
  <2>2. job' = job
    BY <1>0 DEF Goto
  <2> QED
    BY <1>0, <1>2, <2>1, <2>2, GotoTypes
<1>4. Inserted'
  <2>1. job' = job /\ users' = users /\ stickers' = stickers /\ scans' = scans /\ pc[s] = "referrer"
    BY <1>0 DEF Goto, Tables
  <2>2. NewUsers'
    BY <1>3, <2>1 DEF LinksInv, Shared, Inserted, NewUsers, Named
  <2>3. FoundStickers' /\ NewScans'
    BY <1>3, <2>1 DEF LinksInv, Shared, Inserted, FoundStickers, NewScans, PairOf, Holding
  <2> QED
    BY <2>2, <2>3 DEF Inserted
<1>5. \A t \in Sessions \ {s} : seen'[t] = seen[t]
  BY <1>0 DEF LinksInv, TypeOK
<1>6. UNCHANGED <<raced, xp, signups, bonuses, scans, scanCount, job>>
  BY <1>0 DEF Goto, Tables
<1>7. ASSUME NEW t \in Sessions, t # s PROVE SeenBy(t)'
  BY <1>3, <1>5, <1>6, <1>7, SeenStays DEF LinksInv, Counters
<1>8. SeenBy(s)'
  <2>1. /\ xp[job[s].of] <= signups[job[s].of] + bonuses[job[s].of]
        /\ xp[job[s].of] \in Nat /\ signups[job[s].of] \in Nat /\ bonuses[job[s].of] \in Nat
    BY <1>1 DEF LinksInv, TypeOK, Counters, ReferralPaid
  <2>2. read = xp[job[s].of] + Own(job[s])
    <3>1. CASE job[s].of = job[s].who
      BY <1>1, <3>1 DEF LinksInv, Counters, Strangers, Own
    <3>2. CASE job[s].of # job[s].who
      BY <2>1, <3>2 DEF Own
    <3> QED
      BY <3>1, <3>2
  <2>3. Own(job[s]) \in Nat
    BY DEF Own
  <2> QED
    BY <1>2, <1>3, <1>6, <2>1, <2>2, <2>3 DEF SeenBy, Holding
<1>9. SeenOK'
  BY <1>7, <1>8 DEF SeenOK
<1> QED
  BY <1>0, <1>3, <1>4, <1>9, TablesKept DEF LinksInv, Shared, Counters

\* What a session about to pay has read of the inviter's row.
LEMMA RewardReads ==
  ASSUME LinksInv, NEW s \in Sessions, pc[s] = "reward",
         NEW by \in Players, job[s].of = by
  PROVE  /\ seen[s] \in Nat /\ signups[by] \in Nat /\ bonuses[by] \in Nat /\ xp[by] \in Nat
         /\ seen[s] <= signups[by] + bonuses[by] + Own(job[s])
         /\ <<"xp", by>> \notin raced => seen[s] = xp[by] + Own(job[s])
<1>1. SeenBy(s)
  BY DEF LinksInv, Counters, SeenOK
<1>2. seen[s] \in Nat /\ signups[by] \in Nat /\ bonuses[by] \in Nat /\ xp[by] \in Nat
  BY DEF LinksInv, TypeOK
<1> QED
  BY <1>1, <1>2 DEF SeenBy

\* The commit of the rewards: the newcomer's row, one more player the inviter brought.
LEMMA RewardOf ==
  ASSUME LinksInv, NEW s \in Sessions, Reward(s), UNCHANGED stickerVars,
         NEW p \in Players, NEW by \in Players, job[s].who = p, job[s].of = by, p # by
  PROVE  LinksInv'
<1>1. /\ p \in Players \ users /\ by \in users /\ by \in Players /\ p # by
      /\ pc[s] = "reward" /\ seen[s] \in Nat /\ Own(job[s]) = 0
  BY DEF LinksInv, TypeOK, Shared, JobOK, Inserted, NewUsers, Named, LoginSteps, Jobs, Reward, Own
<1>2. /\ users' = users \cup {p} /\ referrer' = [referrer EXCEPT ![p] = by]
      /\ xp' = [xp EXCEPT ![p] = 1, ![by] = seen[s] + 1]
      /\ signups' = [signups EXCEPT ![p] = @ + 1] /\ bonuses' = [bonuses EXCEPT ![by] = @ + 1]
      /\ raced' = Races(s, "xp", by, {"reward"})
      /\ stickers' = stickers /\ scans' = scans /\ scanCount' = scanCount
      /\ incomes' = incomes /\ claims' = claims
  BY DEF Reward, stickerVars
<1>3. /\ job' \in [Sessions -> Jobs \cup {NoJob}] /\ pc' \in [Sessions -> Labels]
      /\ seen' \in [Sessions -> Nat] /\ Others(s) /\ pc'[s] = "idle"
  BY FinishTypes DEF LinksInv, Reward
<1>4. referrer[p] = Nobody /\ signups[p] = 0 /\ bonuses[p] = 0 /\ \A q \in Players : referrer[q] # p
  BY <1>1 DEF LinksInv, Counters, Strangers
<1>5. /\ xp'[p] = 1 /\ xp'[by] = seen[s] + 1 /\ \A q \in Players \ {p, by} : xp'[q] = xp[q]
      /\ signups'[p] = 1 /\ \A q \in Players \ {p} : signups'[q] = signups[q]
      /\ bonuses'[by] = bonuses[by] + 1 /\ \A q \in Players \ {by} : bonuses'[q] = bonuses[q]
      /\ referrer'[p] = by /\ \A q \in Players \ {p} : referrer'[q] = referrer[q]
  BY <1>1, <1>2, <1>4 DEF LinksInv, TypeOK
<1>6. TypeOK'
  <2>1. xp' \in [Players -> Nat] /\ signups' \in [Players -> Nat] /\ bonuses' \in [Players -> Nat]
    BY <1>1, <1>2 DEF LinksInv, TypeOK
  <2>2. users' \subseteq Players /\ referrer' \in [Players -> Players \cup {Nobody}]
    BY <1>1, <1>2 DEF LinksInv, TypeOK
  <2> QED
    BY <1>2, <1>3, <2>1, <2>2 DEF LinksInv, TypeOK, Pairs
<1>7. JobOK'
  BY <1>3 DEF LinksInv, Shared, JobOK, Others, LoginSteps, ScanSteps
<1>8. Inserted'
  <2>1. \A t \in Sessions : pc'[t] # "idle" => t # s /\ pc'[t] = pc[t] /\ job'[t] = job[t]
    BY <1>3 DEF Others
  <2>2. \A t \in Sessions \ {s} : pc[t] \in {"referrer", "reward"} => job[t].who # p
    BY <1>1 DEF LinksInv, Shared, Inserted, NewUsers
  <2>3. \A t \in Sessions : pc'[t] \in {"referrer", "reward"} =>
          /\ pc[t] \in {"referrer", "reward"} /\ job'[t] = job[t]
          /\ job[t].who \notin users /\ job[t].of \in Named(job[t].who) /\ job[t].who # p
    BY <2>1, <2>2 DEF LinksInv, Shared, Inserted, NewUsers
  <2>4. \A t, r \in Sessions :
            (pc'[t] \in {"referrer", "reward"} /\ pc'[r] \in {"referrer", "reward"}
             /\ job'[r].who = job'[t].who) => r = t
    <3> SUFFICES ASSUME NEW t \in Sessions, NEW r \in Sessions,
                        pc'[t] \in {"referrer", "reward"}, pc'[r] \in {"referrer", "reward"},
                        job'[r].who = job'[t].who
                 PROVE  r = t
      OBVIOUS
    <3>1. job[r].who = job[t].who /\ pc[r] \in {"referrer", "reward"} /\ pc[t] \in {"referrer", "reward"}
      BY <2>3
    <3> QED
      BY <3>1 DEF LinksInv, Shared, Inserted, NewUsers
  <2>5. NewUsers'
    <3> SUFFICES ASSUME NEW t \in Sessions, pc'[t] \in {"referrer", "reward"}
                 PROVE  /\ job'[t].who \notin users' /\ job'[t].of \in users' \cup {job'[t].who}
                        /\ \A r \in Sessions :
                              pc'[r] \in {"referrer", "reward"} /\ job'[r].who = job'[t].who
                              => r = t
      BY DEF NewUsers, Named
    <3>1. job'[t].who \notin users' /\ job'[t].of \in users' \cup {job'[t].who}
      BY <1>2, <2>3 DEF Named
    <3> QED
      BY <2>4, <3>1
  <2>6. \A t \in Sessions : pc'[t] \in Holding => pc[t] = pc'[t] /\ job'[t] = job[t]
    BY <2>1 DEF Holding
  <2>7. FoundStickers'
    BY <1>2, <2>6 DEF LinksInv, Shared, Inserted, FoundStickers
  <2>8. NewScans'
    BY <1>2, <2>1 DEF LinksInv, Shared, Inserted, NewScans, PairOf
  <2> QED
    BY <2>5, <2>7, <2>8 DEF Inserted
<1>9. Strangers'
  <2> SUFFICES ASSUME NEW q \in Players, q \notin users'
               PROVE  /\ referrer'[q] = Nobody /\ signups'[q] = 0 /\ bonuses'[q] = 0 /\ xp'[q] = 0
                      /\ \A r \in Players : referrer'[r] # q
    BY DEF Strangers
  <2>1. q \notin users /\ q # p /\ q # by
    BY <1>1, <1>2
  <2>2. /\ referrer[q] = Nobody /\ signups[q] = 0 /\ bonuses[q] = 0 /\ xp[q] = 0
        /\ \A r \in Players : referrer[r] # q
    BY <2>1 DEF LinksInv, Counters, Strangers
  <2> QED
    BY <1>1, <1>5, <2>1, <2>2
<1>10. /\ raced \subseteq raced'
       /\ \A q : q # by => (<<"xp", q>> \in raced' <=> <<"xp", q>> \in raced)
       /\ \A q : <<"scan_count", q>> \in raced' <=> <<"scan_count", q>> \in raced
       /\ <<"xp", by>> \notin raced' =>
            \A t \in Sessions \ {s} : ~(pc[t] = "reward" /\ job[t].of = by)
  BY <1>2 DEF Races
<1>11. /\ Cardinality(Invited(by)') = Cardinality(Invited(by)) + 1
       /\ \A q \in Players \ {by} : Invited(q)' = Invited(q)
  <2>1. Invited(by)' = Invited(by) \cup {p} /\ p \notin Invited(by)
    <3>1. p \notin Invited(by)
      BY <1>1, <1>4, PlayersAssumption DEF Invited
    <3>2. \A r \in Players : referrer'[r] = by <=> referrer[r] = by \/ r = p
      BY <1>5
    <3> QED
      BY <1>1, <3>1, <3>2 DEF Invited
  <2>2. \A q \in Players \ {by} : Invited(q)' = Invited(q)
    BY <1>1, <1>4, <1>5, PlayersAssumption DEF Invited
  <2> QED
    BY <1>1, <2>1, <2>2, OneMore DEF Invited
<1>12. ReferralPaid'
  <2>1. /\ seen[s] <= signups[by] + bonuses[by]
        /\ signups[by] \in Nat /\ bonuses[by] \in Nat /\ seen[s] \in Nat
    <3>1. seen[s] <= signups[by] + bonuses[by] + Own(job[s])
      BY <1>1, RewardReads
    <3>2. signups[by] \in Nat /\ bonuses[by] \in Nat /\ seen[s] \in Nat
      BY <1>1, RewardReads
    <3> QED
      BY <1>1, <3>1, <3>2
  <2>2. SUFFICES ASSUME NEW q \in Players
                 PROVE  /\ signups'[q] = IF referrer'[q] = Nobody THEN 0 ELSE 1
                        /\ bonuses'[q] = Cardinality(Invited(q)')
                        /\ xp'[q] <= signups'[q] + bonuses'[q]
                        /\ signups'[q] + bonuses'[q] > 0 => xp'[q] > 0
    BY DEF ReferralPaid
  <2>3. CASE q = p
    <3>1. bonuses'[p] = 0 /\ signups'[p] = 1 /\ xp'[p] = 1 /\ referrer'[p] # Nobody
      BY <1>1, <1>4, <1>5, PlayersAssumption
    <3>2. Cardinality(Invited(p)') = 0
      BY <1>1, <1>4, <1>11 DEF LinksInv, Counters, ReferralPaid
    <3> QED
      BY <2>3, <3>1, <3>2
  <2>4. CASE q = by
    BY <1>1, <1>5, <1>11, <2>1, <2>4 DEF LinksInv, TypeOK, Counters, ReferralPaid
  <2>5. CASE q \notin {p, by}
    BY <1>1, <1>5, <1>11, <2>5 DEF LinksInv, Counters, ReferralPaid
  <2> QED
    BY <2>3, <2>4, <2>5
<1>13. SeenOK'
  <2>1. ASSUME NEW t \in Sessions, t # s, NEW q, q = job[t].of
        PROVE  /\ pc[t] = "reward" =>
                    /\ seen[t] <= signups'[q] + bonuses'[q] + Own(job[t])
                    /\ <<"xp", q>> \notin raced' => seen[t] = xp'[q] + Own(job[t])
               /\ pc[t] \in Holding =>
                    /\ seen[t] <= Cardinality(Scanners(q)')
                    /\ <<"scan_count", q>> \notin raced' => seen[t] = scanCount'[q]
    <3>1. ASSUME pc[t] = "reward"
          PROVE  /\ seen[t] <= signups'[q] + bonuses'[q] + Own(job[t])
                 /\ <<"xp", q>> \notin raced' => seen[t] = xp'[q] + Own(job[t])
      <4>1. q \in Players /\ q # p
        BY <1>1, <2>1, <3>1
        DEF LinksInv, Shared, JobOK, Inserted, NewUsers, Named, LoginSteps, Jobs, TypeOK
      <4>2. /\ seen[t] <= signups[q] + bonuses[q] + Own(job[t])
            /\ <<"xp", q>> \notin raced => seen[t] = xp[q] + Own(job[t])
        BY <2>1, <3>1 DEF LinksInv, Counters, SeenOK, SeenBy
      <4>3. signups[q] \in Nat /\ bonuses[q] \in Nat /\ seen[t] \in Nat /\ Own(job[t]) \in Nat
        BY <4>1 DEF LinksInv, TypeOK, Own
      <4>4. CASE q = by
        <5>1. signups'[q] = signups[q] /\ bonuses'[q] = bonuses[q] + 1
          BY <1>1, <1>5, <4>4
        <5>2. <<"xp", q>> \in raced'
          BY <1>10, <2>1, <3>1, <4>4
        <5> QED
          BY <4>2, <4>3, <5>1, <5>2
      <4>5. CASE q # by
        BY <1>5, <1>10, <4>1, <4>2, <4>5
      <4> QED
        BY <4>4, <4>5
    <3>2. ASSUME pc[t] \in Holding
          PROVE  /\ seen[t] <= Cardinality(Scanners(q)')
                 /\ <<"scan_count", q>> \notin raced' => seen[t] = scanCount'[q]
      <4>1. /\ seen[t] <= Cardinality(Scanners(q))
            /\ <<"scan_count", q>> \notin raced => seen[t] = scanCount[q]
        BY <2>1, <3>2 DEF LinksInv, Counters, SeenOK, SeenBy
      <4>2. Scanners(q)' = Scanners(q)
        BY <1>2 DEF Scanners
      <4> QED
        BY <1>2, <1>10, <4>1, <4>2
    <3> QED
      BY <3>1, <3>2
  <2>2. SUFFICES ASSUME NEW t \in Sessions, t # s, NEW q, q = job'[t].of
                 PROVE  /\ pc'[t] = "reward" =>
                             /\ seen'[t] <= signups'[q] + bonuses'[q] + Own(job'[t])
                             /\ <<"xp", q>> \notin raced' => seen'[t] = xp'[q] + Own(job'[t])
                        /\ pc'[t] \in Holding =>
                             /\ seen'[t] <= Cardinality(Scanners(q)')
                             /\ <<"scan_count", q>> \notin raced' => seen'[t] = scanCount'[q]
    BY <1>3 DEF SeenOK, SeenBy, Holding, Scanners
  <2> QED
    BY <1>3, <2>1, <2>2 DEF Others
<1>14. ScansPaid'
  BY <1>2 DEF LinksInv, Counters, ScansPaid, Scanners, Pairs
<1>15. LostOnlyInOverlap'
  <2>1. <<"xp", by>> \notin raced => xp[by] = signups[by] + bonuses[by] /\ seen[s] = xp[by]
    <3>1. <<"xp", by>> \notin raced => seen[s] = xp[by] + Own(job[s])
      BY <1>1, RewardReads
    <3>2. <<"xp", by>> \notin raced => xp[by] = signups[by] + bonuses[by]
      BY <1>1 DEF LinksInv, Counters, LostOnlyInOverlap
    <3>3. xp[by] \in Nat
      BY <1>1, RewardReads
    <3> QED
      BY <1>1, <3>1, <3>2, <3>3
  <2>2. \A q \in Players : <<"xp", q>> \notin raced' => xp'[q] = signups'[q] + bonuses'[q]
    <3> SUFFICES ASSUME NEW q \in Players, <<"xp", q>> \notin raced'
                 PROVE  xp'[q] = signups'[q] + bonuses'[q]
      OBVIOUS
    <3>1. CASE q = p
      BY <1>1, <1>4, <1>5, <3>1
    <3>2. CASE q = by
      BY <1>1, <1>5, <1>10, <2>1, <3>2 DEF LinksInv, TypeOK
    <3>3. CASE q \notin {p, by}
      BY <1>5, <1>10, <3>3 DEF LinksInv, Counters, LostOnlyInOverlap
    <3> QED
      BY <3>1, <3>2, <3>3
  <2>3. \A q \in Players : <<"scan_count", q>> \notin raced' =>
                             scanCount'[q] = Cardinality(Scanners(q)')
    BY <1>2, <1>10 DEF LinksInv, Counters, LostOnlyInOverlap, Scanners
  <2> QED
    BY <2>2, <2>3 DEF LostOnlyInOverlap
<1> QED
  BY <1>6, <1>7, <1>8, <1>9, <1>12, <1>13, <1>14, <1>15 DEF LinksInv, Shared, Counters

\* The same commit if the inviter is the newcomer: both rewards are in the one row.
LEMMA RewardOfOneself ==
  ASSUME LinksInv, NEW s \in Sessions, Reward(s), UNCHANGED stickerVars,
         NEW p \in Players, job[s].who = p, job[s].of = p
  PROVE  LinksInv'
<1>1. /\ p \in Players \ users /\ pc[s] = "reward" /\ seen[s] \in Nat /\ Own(job[s]) = 1
      /\ \A t \in Sessions \ {s} : pc[t] \in {"referrer", "reward"} => job[t].who # p
  BY DEF LinksInv, TypeOK, Shared, Inserted, NewUsers, Reward, Own
<1>2. /\ users' = users \cup {p} /\ referrer' = [referrer EXCEPT ![p] = p]
      /\ xp' = [xp EXCEPT ![p] = seen[s] + 1]
      /\ signups' = [signups EXCEPT ![p] = @ + 1] /\ bonuses' = [bonuses EXCEPT ![p] = @ + 1]
      /\ raced' = Races(s, "xp", p, {"reward"})
      /\ stickers' = stickers /\ scans' = scans /\ scanCount' = scanCount
      /\ incomes' = incomes /\ claims' = claims
  BY DEF Reward, stickerVars, LinksInv, TypeOK
<1>3. /\ job' \in [Sessions -> Jobs \cup {NoJob}] /\ pc' \in [Sessions -> Labels]
      /\ seen' \in [Sessions -> Nat] /\ Others(s) /\ pc'[s] = "idle"
  BY FinishTypes DEF LinksInv, Reward
<1>4. /\ referrer[p] = Nobody /\ signups[p] = 0 /\ bonuses[p] = 0 /\ xp[p] = 0
      /\ \A q \in Players : referrer[q] # p
  BY <1>1 DEF LinksInv, Counters, Strangers
<1>5. \A t \in Sessions \ {s} : pc[t] \in {"referrer", "reward"} =>
        job[t].of \in Players /\ job[t].of # p
  BY <1>1 DEF LinksInv, Shared, JobOK, Inserted, NewUsers, Named, LoginSteps, Jobs, TypeOK
<1>6. raced' = raced
  BY <1>2, <1>5 DEF Races
<1>7. seen[s] <= 1 /\ (<<"xp", p>> \notin raced => seen[s] = 1)
  <2>1. /\ seen[s] <= signups[p] + bonuses[p] + Own(job[s])
        /\ <<"xp", p>> \notin raced => seen[s] = xp[p] + Own(job[s])
    BY <1>1, RewardReads
  <2> QED
    BY <1>1, <1>4, <2>1
<1>8. /\ xp'[p] = seen[s] + 1 /\ signups'[p] = 1 /\ bonuses'[p] = 1 /\ referrer'[p] = p
      /\ \A q \in Players \ {p} : /\ xp'[q] = xp[q] /\ signups'[q] = signups[q]
                                  /\ bonuses'[q] = bonuses[q] /\ referrer'[q] = referrer[q]
  BY <1>1, <1>2, <1>4 DEF LinksInv, TypeOK
<1>9. TypeOK'
  <2>1. xp' \in [Players -> Nat] /\ signups' \in [Players -> Nat] /\ bonuses' \in [Players -> Nat]
    BY <1>1, <1>2 DEF LinksInv, TypeOK
  <2>2. users' \subseteq Players /\ referrer' \in [Players -> Players \cup {Nobody}]
    BY <1>1, <1>2 DEF LinksInv, TypeOK
  <2> QED
    BY <1>2, <1>3, <2>1, <2>2 DEF LinksInv, TypeOK, Pairs
<1>10. JobOK'
  BY <1>3 DEF LinksInv, Shared, JobOK, Others, LoginSteps, ScanSteps
<1>11. Inserted'
  <2>1. \A t \in Sessions : pc'[t] # "idle" => t # s /\ pc'[t] = pc[t] /\ job'[t] = job[t]
    BY <1>3 DEF Others
  <2>2. \A t \in Sessions : pc'[t] \in {"referrer", "reward"} =>
          /\ pc[t] \in {"referrer", "reward"} /\ job'[t] = job[t]
          /\ job[t].who \notin users /\ job[t].of \in Named(job[t].who) /\ job[t].who # p
    BY <1>1, <2>1 DEF LinksInv, Shared, Inserted, NewUsers
  <2>3. ASSUME NEW t \in Sessions, NEW r \in Sessions,
               pc'[t] \in {"referrer", "reward"}, pc'[r] \in {"referrer", "reward"},
               job'[r].who = job'[t].who
        PROVE  r = t
    <3>1. job[r].who = job[t].who /\ pc[r] \in {"referrer", "reward"} /\ pc[t] \in {"referrer", "reward"}
      BY <2>2, <2>3
    <3> QED
      BY <3>1 DEF LinksInv, Shared, Inserted, NewUsers
  <2>4. NewUsers'
    BY <1>2, <2>2, <2>3 DEF NewUsers, Named
  <2>5. FoundStickers' /\ NewScans'
    BY <1>2, <2>1 DEF LinksInv, Shared, Inserted, FoundStickers, NewScans, PairOf, Holding
  <2> QED
    BY <2>4, <2>5 DEF Inserted
<1>12. Strangers'
  <2> SUFFICES ASSUME NEW q \in Players, q \notin users'
               PROVE  /\ referrer'[q] = Nobody /\ signups'[q] = 0 /\ bonuses'[q] = 0 /\ xp'[q] = 0
                      /\ \A r \in Players : referrer'[r] # q
    BY DEF Strangers
  <2>1. q \notin users /\ q # p
    BY <1>2
  <2> QED
    BY <1>8, <2>1 DEF LinksInv, Counters, Strangers
<1>13. /\ Cardinality(Invited(p)') = 1 /\ \A q \in Players \ {p} : Invited(q)' = Invited(q)
  <2>1. Invited(p)' = {p}
    BY <1>4, <1>8 DEF Invited
  <2>2. \A q \in Players \ {p} : Invited(q)' = Invited(q)
    BY <1>4, <1>8, PlayersAssumption DEF Invited
  <2> QED
    BY <2>1, <2>2, FS_Singleton
<1>14. ReferralPaid'
  <2> SUFFICES ASSUME NEW q \in Players
               PROVE  /\ signups'[q] = IF referrer'[q] = Nobody THEN 0 ELSE 1
                      /\ bonuses'[q] = Cardinality(Invited(q)')
                      /\ xp'[q] <= signups'[q] + bonuses'[q]
                      /\ signups'[q] + bonuses'[q] > 0 => xp'[q] > 0
    BY DEF ReferralPaid
  <2>1. CASE q = p
    BY <1>1, <1>7, <1>8, <1>13, <2>1, PlayersAssumption
  <2>2. CASE q # p
    BY <1>8, <1>13, <2>2 DEF LinksInv, Counters, ReferralPaid
  <2> QED
    BY <2>1, <2>2
<1>15. SeenOK'
  <2>1. SeenBy(s)'
    BY <1>3 DEF SeenBy, Holding
  <2>2. ASSUME NEW t \in Sessions, t # s PROVE SeenBy(t)'
    <3>1. pc'[t] = pc[t] /\ job'[t] = job[t] /\ seen'[t] = seen[t]
      BY <1>3, <2>2 DEF Others
    <3>2. \A q : Scanners(q)' = Scanners(q)
      BY <1>2 DEF Scanners
    <3> QED
      BY <1>2, <1>5, <1>6, <1>8, <2>2, <3>1, <3>2 DEF LinksInv, Counters, SeenOK, SeenBy
  <2> QED
    BY <2>1, <2>2 DEF SeenOK
<1>16. ScansPaid'
  BY <1>2 DEF LinksInv, Counters, ScansPaid, Scanners, Pairs
<1>17. LostOnlyInOverlap'
  <2>1. \A q : Scanners(q)' = Scanners(q)
    BY <1>2 DEF Scanners
  <2> SUFFICES ASSUME NEW q \in Players
               PROVE  /\ <<"xp", q>> \notin raced => xp'[q] = signups'[q] + bonuses'[q]
                      /\ <<"scan_count", q>> \notin raced => scanCount'[q] = Cardinality(Scanners(q))
    BY <1>6, <2>1 DEF LostOnlyInOverlap
  <2>2. <<"scan_count", q>> \notin raced => scanCount'[q] = Cardinality(Scanners(q))
    BY <1>2 DEF LinksInv, Counters, LostOnlyInOverlap
  <2>3. CASE q = p
    BY <1>7, <1>8, <2>2, <2>3
  <2>4. CASE q # p
    BY <1>8, <2>2, <2>4 DEF LinksInv, Counters, LostOnlyInOverlap
  <2> QED
    BY <2>3, <2>4
<1> QED
  BY <1>9, <1>10, <1>11, <1>12, <1>14, <1>15, <1>16, <1>17 DEF LinksInv, Shared, Counters

LEMMA RewardStep ==
  ASSUME LinksInv, NEW s \in Sessions, Reward(s), UNCHANGED stickerVars
  PROVE  LinksInv'
<1>1. job[s].who \in Players /\ job[s].of \in Players
  BY DEF LinksInv, TypeOK, Shared, JobOK, Inserted, NewUsers, Named, LoginSteps, Jobs, Reward
<1> QED
  BY <1>1, RewardOf, RewardOfOneself

-----------------------------------------------------------------------------
(* Stickers and their scans *)

LEMMA CreateStep ==
  ASSUME LinksInv, NEW s \in Sessions, CreateSticker(s), UNCHANGED referralVars
  PROVE  LinksInv'
<1>1. CASE Answer(s, "create") /\ job[s].of \in stickers
  BY <1>1, AnswerQuiet
<1>2. CASE pc[s] = "create" /\ job[s].of \notin stickers /\ Finish(s)
           /\ stickers' = stickers \cup {job[s].of}
           /\ UNCHANGED <<users, raced, limited, scanCount, scans, incomes, claims>>
  <2>1. /\ job' \in [Sessions -> Jobs \cup {NoJob}] /\ pc' \in [Sessions -> Labels]
        /\ seen' \in [Sessions -> Nat] /\ Others(s) /\ pc'[s] = "idle"
    BY <1>2, FinishTypes DEF LinksInv
  <2>2. job[s].of \in Players
    BY <1>2 DEF LinksInv, Shared, JobOK
  <2>3. TypeOK'
    BY <1>2, <2>1, <2>2 DEF LinksInv, TypeOK, referralVars, Pairs
  <2>4. JobOK'
    BY <2>1 DEF LinksInv, Shared, JobOK, Others, LoginSteps, ScanSteps
  <2>5. \A t \in Sessions : pc'[t] # "idle" =>
          t # s /\ pc'[t] = pc[t] /\ job'[t] = job[t] /\ seen'[t] = seen[t]
    BY <2>1 DEF Others
  <2>6. NewUsers' /\ FoundStickers'
    <3>1. NewUsers'
      BY <1>2, <2>5 DEF LinksInv, Shared, Inserted, NewUsers, Named
    <3>2. FoundStickers'
      BY <1>2, <2>5 DEF LinksInv, Shared, Inserted, FoundStickers, Holding
    <3> QED
      BY <3>1, <3>2
  <2>7. NewScans'
    BY <1>2, <2>5 DEF LinksInv, Shared, Inserted, NewScans, PairOf
  <2>8. Strangers' /\ ReferralPaid'
    <3>1. Strangers'
      BY <1>2 DEF LinksInv, Counters, Strangers, referralVars
    <3>2. \A q : Invited(q)' = Invited(q)
      BY DEF Invited, referralVars
    <3>3. ReferralPaid'
      BY <3>2 DEF LinksInv, Counters, ReferralPaid, referralVars
    <3> QED
      BY <3>1, <3>3
  <2>9. SeenOK'
    <3>1. pc'[s] \notin {"reward"} \cup Holding
      BY <2>1 DEF Holding
    <3> QED
      BY <1>2, <2>1, <3>1, SeenAfter DEF LinksInv, Counters, referralVars
  <2>10. ScansPaid' /\ LostOnlyInOverlap'
    <3>1. \A q : Scanners(q)' = Scanners(q)
      BY <1>2 DEF Scanners
    <3>2. ScansPaid'
      BY <1>2, <3>1 DEF LinksInv, Counters, ScansPaid, Pairs
    <3>3. LostOnlyInOverlap'
      BY <1>2, <3>1 DEF LinksInv, Counters, LostOnlyInOverlap, referralVars
    <3> QED
      BY <3>2, <3>3
  <2> QED
    BY <2>3, <2>4, <2>6, <2>7, <2>8, <2>9, <2>10 DEF LinksInv, Shared, Inserted, Counters
<1> QED
  BY <1>1, <1>2 DEF CreateSticker

\* The three steps of a scan before its commit.
LEMMA ScanMoves ==
  ASSUME LinksInv, NEW s \in Sessions, UNCHANGED Tables,
         NEW from \in ScanSteps, NEW to \in Holding, pc[s] = from, Goto(s, from, to),
         seen' \in [Sessions -> Nat], \A t \in Sessions \ {s} : seen'[t] = seen[t],
         \/ from = "find sticker" /\ to # "count" /\ job[s].of \in stickers \ {job[s].who}
            /\ seen'[s] = scanCount[job[s].of]
         \/ from \in Holding /\ seen'[s] = seen[s],
         to = "count" => /\ PairOf(s) \notin scans
                         /\ ~\E t \in Sessions : pc[t] = "count" /\ PairOf(t) = PairOf(s)
  PROVE  LinksInv'
<1>1. /\ pc' \in [Sessions -> Labels] /\ pc'[s] = to
      /\ \A t \in Sessions \ {s} : pc'[t] = pc[t]
  BY DEF LinksInv, TypeOK, Goto, Labels, Holding, ScanSteps
<1>2. job' = job /\ users' = users /\ stickers' = stickers /\ scans' = scans
      /\ scanCount' = scanCount /\ raced' = raced
  BY DEF Goto, Tables
<1>3. pc'[s] \in ScanSteps /\ pc[s] \in ScanSteps
  BY <1>1 DEF Holding, ScanSteps
<1>4. TypeOK' /\ JobOK'
  BY <1>1, <1>2, <1>3, GotoTypes
<1>5. NewUsers'
  BY <1>1, <1>2, <1>3 DEF LinksInv, Shared, Inserted, NewUsers, Named, ScanSteps
<1>6. FoundStickers'
  BY <1>1, <1>2 DEF LinksInv, Shared, Inserted, FoundStickers
<1>7. NewScans'
  <2>0. NewScans
    BY DEF LinksInv, Shared, Inserted
  <2>1. \A t \in Sessions : PairOf(t)' = PairOf(t)
    BY <1>2 DEF PairOf
  <2>2. CASE to # "count"
    <3>1. \A t \in Sessions : pc'[t] = "count" => pc[t] = "count" /\ job'[t] = job[t]
      BY <1>1, <1>2, <2>2
    <3> QED
      BY <1>2, <2>0, <3>1, ScansStay
  <2>3. CASE to = "count"
    <3>1. ASSUME NEW t \in Sessions, pc'[t] = "count" PROVE PairOf(t) \notin scans
      BY <1>1, <2>0, <2>3, <3>1 DEF NewScans
    <3>2. ASSUME NEW t \in Sessions, NEW r \in Sessions, pc'[t] = "count", pc'[r] = "count",
                 PairOf(r) = PairOf(t)
          PROVE  r = t
      BY <1>1, <2>0, <2>3, <3>2 DEF NewScans
    <3> QED
      BY <1>2, <2>1, <3>1, <3>2 DEF NewScans
  <2> QED
    BY <2>2, <2>3
<1>8. SeenOK'
  <2>1. \A t \in Sessions \ {s} : pc'[t] = pc[t] /\ job'[t] = job[t] /\ seen'[t] = seen[t]
    BY <1>1, <1>2
  <2>2. pc'[s] # "reward" /\ job'[s] = job[s]
    BY <1>1, <1>2 DEF Holding
  <2>3. /\ seen'[s] <= Cardinality(Scanners(job[s].of))
        /\ <<"scan_count", job[s].of>> \notin raced => seen'[s] = scanCount[job[s].of]
    <3>1. CASE from = "find sticker"
      <4>1. job[s].of \in Players /\ seen'[s] = scanCount[job[s].of]
        BY <3>1 DEF LinksInv, TypeOK, Holding
      <4> QED
        BY <4>1 DEF LinksInv, Counters, ScansPaid
    <3>2. CASE from \in Holding
      BY <3>2 DEF LinksInv, Counters, SeenOK, SeenBy, Holding
    <3> QED
      BY <3>1, <3>2
  <2>4. /\ signups' = signups /\ bonuses' = bonuses /\ xp' = xp
    BY DEF Tables
  <2> QED
    BY <1>2, <2>1, <2>2, <2>3, <2>4 DEF LinksInv, Counters, SeenOK, SeenBy, Scanners
<1> QED
  BY <1>4, <1>5, <1>6, <1>7, <1>8, TablesKept DEF LinksInv, Shared, Inserted, Counters

LEMMA FindStickerStep ==
  ASSUME LinksInv, NEW s \in Sessions, FindSticker(s), UNCHANGED referralVars
  PROVE  LinksInv'
<1>1. CASE Answer(s, "find sticker")
  BY <1>1, AnswerQuiet
<1>2. CASE /\ Goto(s, "find sticker", "find scan")
           /\ job[s].of \in stickers \ {job[s].who}
           /\ seen' = [seen EXCEPT ![s] = scanCount[job[s].of]]
           /\ UNCHANGED stickerVars
  <2>1. UNCHANGED Tables /\ pc[s] = "find sticker"
    BY <1>2 DEF Tables, Goto, referralVars, stickerVars
  <2>2. scanCount[job[s].of] \in Nat
    BY <1>2 DEF LinksInv, TypeOK
  <2>3. /\ seen' \in [Sessions -> Nat] /\ seen'[s] = scanCount[job[s].of]
        /\ \A t \in Sessions \ {s} : seen'[t] = seen[t]
    BY <1>2, <2>2 DEF LinksInv, TypeOK
  <2>4. "find sticker" \in ScanSteps /\ "find scan" \in Holding
    BY DEF ScanSteps, Holding
  <2> QED
    BY <1>2, <2>1, <2>3, <2>4, ScanMoves
<1> QED
  BY <1>1, <1>2 DEF FindSticker

LEMMA FindScanStep ==
  ASSUME LinksInv, NEW s \in Sessions, FindScan(s) \/ RecordScan(s), UNCHANGED referralVars
  PROVE  LinksInv'
<1>1. CASE Answer(s, "find scan") \/ Answer(s, "record")
  BY <1>1, AnswerQuiet
<1>2. CASE Goto(s, "find scan", "record") /\ UNCHANGED <<seen, stickerVars>>
  <2>1. UNCHANGED Tables /\ pc[s] = "find scan" /\ seen' = seen
    BY <1>2 DEF Tables, Goto, referralVars, stickerVars
  <2>2. "find scan" \in ScanSteps \cap Holding /\ "record" \in Holding
    BY DEF ScanSteps, Holding
  <2>3. seen' \in [Sessions -> Nat]
    BY <2>1 DEF LinksInv, TypeOK
  <2> QED
    BY <1>2, <2>1, <2>2, <2>3, ScanMoves
<1>3. CASE /\ Goto(s, "record", "count") /\ PairOf(s) \notin scans /\ UNCHANGED <<seen, stickerVars>>
           /\ ~\E t \in Sessions : pc[t] = "count" /\ PairOf(t) = PairOf(s)
  <2>1. UNCHANGED Tables /\ pc[s] = "record" /\ seen' = seen
    BY <1>3 DEF Tables, Goto, referralVars, stickerVars
  <2>2. "record" \in ScanSteps \cap Holding /\ "count" \in Holding
    BY DEF ScanSteps, Holding
  <2>3. seen' \in [Sessions -> Nat]
    BY <2>1 DEF LinksInv, TypeOK
  <2> QED
    BY <1>3, <2>1, <2>2, <2>3, ScanMoves
<1> QED
  BY <1>1, <1>2, <1>3 DEF FindScan, RecordScan

\* The commit of a scan: one more scan of the sticker, and its two events.
LEMMA CountOf ==
  ASSUME LinksInv, NEW s \in Sessions, CountScan(s), UNCHANGED referralVars,
         NEW p \in Players, NEW owner \in Players, job[s].who = p, job[s].of = owner
  PROVE  LinksInv'
<1>1. /\ owner \in stickers /\ owner # p /\ <<p, owner>> \notin scans /\ <<p, owner>> \in Pairs
      /\ pc[s] = "count" /\ seen[s] \in Nat
  BY DEF LinksInv, TypeOK, Shared, Inserted, FoundStickers, NewScans, PairOf, Pairs, Holding, CountScan
<1>2. /\ users' = users /\ stickers' = stickers /\ referrer' = referrer /\ xp' = xp
      /\ signups' = signups /\ bonuses' = bonuses
      /\ scans' = scans \cup {<<p, owner>>}
      /\ scanCount' = [scanCount EXCEPT ![owner] = seen[s] + 1]
      /\ incomes' = [incomes EXCEPT ![<<p, owner>>] = @ + 1]
      /\ claims' = [claims EXCEPT ![<<p, owner>>] = @ + 1]
      /\ raced' = Races(s, "scan_count", owner, Holding)
  BY DEF CountScan, PairOf, Holding, referralVars
<1>3. /\ job' \in [Sessions -> Jobs \cup {NoJob}] /\ pc' \in [Sessions -> Labels]
      /\ seen' \in [Sessions -> Nat] /\ Others(s) /\ pc'[s] = "idle"
  BY FinishTypes DEF LinksInv, CountScan
<1>4. \A t \in Sessions : pc'[t] # "idle" =>
        t # s /\ pc'[t] = pc[t] /\ job'[t] = job[t] /\ seen'[t] = seen[t]
  BY <1>3 DEF Others
<1>5. TypeOK'
  <2>1. scanCount' \in [Players -> Nat] /\ incomes' \in [Pairs -> Nat] /\ claims' \in [Pairs -> Nat]
    BY <1>1, <1>2 DEF LinksInv, TypeOK
  <2>2. scans' \subseteq Pairs
    BY <1>1, <1>2 DEF LinksInv, TypeOK
  <2> QED
    BY <1>2, <1>3, <2>1, <2>2 DEF LinksInv, TypeOK
<1>6. JobOK'
  BY <1>3 DEF LinksInv, Shared, JobOK, Others, LoginSteps, ScanSteps
<1>7. NewUsers'
  BY <1>2, <1>4 DEF LinksInv, Shared, Inserted, NewUsers, Named
<1>8. FoundStickers'
  BY <1>2, <1>4 DEF LinksInv, Shared, Inserted, FoundStickers, Holding
<1>9. NewScans'
  <2>0. NewScans /\ PairOf(s) = <<p, owner>> /\ pc[s] = "count"
    BY <1>1 DEF LinksInv, Shared, Inserted, PairOf
  <2>1. \A t \in Sessions : pc[t] = "count" /\ t # s => PairOf(t) # <<p, owner>>
    BY <2>0 DEF NewScans
  <2>2. \A t \in Sessions : pc'[t] = "count" =>
          t # s /\ pc[t] = "count" /\ PairOf(t)' = PairOf(t)
    BY <1>4 DEF PairOf
  <2>3. ASSUME NEW t \in Sessions, pc'[t] = "count" PROVE PairOf(t)' \notin scans'
    BY <1>2, <2>0, <2>1, <2>2, <2>3 DEF NewScans
  <2>4. ASSUME NEW t \in Sessions, NEW r \in Sessions, pc'[t] = "count", pc'[r] = "count",
               PairOf(r)' = PairOf(t)'
        PROVE  r = t
    BY <2>0, <2>2, <2>4 DEF NewScans
  <2> QED
    BY <2>3, <2>4 DEF NewScans
<1>10. Strangers' /\ ReferralPaid'
  BY <1>2 DEF LinksInv, Counters, Strangers, ReferralPaid, Invited
<1>11. /\ raced \subseteq raced'
       /\ \A q : q # owner => (<<"scan_count", q>> \in raced' <=> <<"scan_count", q>> \in raced)
       /\ \A q : <<"xp", q>> \in raced' <=> <<"xp", q>> \in raced
       /\ <<"scan_count", owner>> \notin raced' =>
            \A t \in Sessions \ {s} : ~(pc[t] \in Holding /\ job[t].of = owner)
  BY <1>2 DEF Races
<1>12. /\ Cardinality(Scanners(owner)') = Cardinality(Scanners(owner)) + 1
       /\ \A q \in Players \ {owner} : Scanners(q)' = Scanners(q)
  <2>1. Scanners(owner)' = Scanners(owner) \cup {p} /\ p \notin Scanners(owner)
    BY <1>1, <1>2 DEF Scanners
  <2>2. \A q \in Players \ {owner} : Scanners(q)' = Scanners(q)
    BY <1>1, <1>2 DEF Scanners
  <2> QED
    BY <2>1, <2>2, OneMore DEF Scanners
<1>13. /\ scanCount'[owner] = seen[s] + 1
       /\ \A q \in Players \ {owner} : scanCount'[q] = scanCount[q]
       /\ claims'[<<p, owner>>] = 1 /\ incomes'[<<p, owner>>] = 1
       /\ \A pair \in Pairs : pair # <<p, owner>> =>
            claims'[pair] = claims[pair] /\ incomes'[pair] = incomes[pair]
  BY <1>1, <1>2 DEF LinksInv, TypeOK, Counters, ScansPaid
<1>14. /\ seen[s] <= Cardinality(Scanners(owner))
       /\ <<"scan_count", owner>> \notin raced => seen[s] = scanCount[owner]
  BY <1>1 DEF LinksInv, Counters, SeenOK, SeenBy, Holding
<1>15. ScansPaid'
  <2>1. \A pair \in Pairs : /\ claims'[pair] = IF pair \in scans' THEN 1 ELSE 0
                            /\ incomes'[pair] = claims'[pair]
                            /\ pair \in scans' => pair[1] # pair[2] /\ pair[2] \in stickers'
    BY <1>1, <1>2, <1>13 DEF LinksInv, Counters, ScansPaid
  <2>2. ASSUME NEW q \in Players
        PROVE  /\ scanCount'[q] <= Cardinality(Scanners(q)')
               /\ Scanners(q)' # {} => scanCount'[q] > 0
    <3>1. CASE q = owner
      BY <1>1, <1>12, <1>13, <1>14, <3>1, Sizes
    <3>2. CASE q # owner
      BY <1>12, <1>13, <3>2 DEF LinksInv, Counters, ScansPaid
    <3> QED
      BY <3>1, <3>2
  <2> QED
    BY <2>1, <2>2 DEF ScansPaid, Pairs
<1>16. SeenOK'
  <2>1. ASSUME NEW t \in Sessions, t # s, NEW q, q = job[t].of
        PROVE  /\ pc[t] = "reward" =>
                    /\ seen[t] <= signups'[q] + bonuses'[q] + Own(job[t])
                    /\ <<"xp", q>> \notin raced' => seen[t] = xp'[q] + Own(job[t])
               /\ pc[t] \in Holding =>
                    /\ seen[t] <= Cardinality(Scanners(q)')
                    /\ <<"scan_count", q>> \notin raced' => seen[t] = scanCount'[q]
    <3>1. ASSUME pc[t] = "reward"
          PROVE  /\ seen[t] <= signups'[q] + bonuses'[q] + Own(job[t])
                 /\ <<"xp", q>> \notin raced' => seen[t] = xp'[q] + Own(job[t])
      BY <1>2, <1>11, <2>1, <3>1 DEF LinksInv, Counters, SeenOK, SeenBy
    <3>2. ASSUME pc[t] \in Holding
          PROVE  /\ seen[t] <= Cardinality(Scanners(q)')
                 /\ <<"scan_count", q>> \notin raced' => seen[t] = scanCount'[q]
      <4>1. /\ seen[t] <= Cardinality(Scanners(q))
            /\ <<"scan_count", q>> \notin raced => seen[t] = scanCount[q]
        BY <2>1, <3>2 DEF LinksInv, Counters, SeenOK, SeenBy
      <4>2. q \in Players /\ seen[t] \in Nat
        BY <2>1, <3>2 DEF LinksInv, TypeOK, Shared, Inserted, FoundStickers
      <4>3. CASE q = owner
        <5>1. <<"scan_count", q>> \in raced'
          BY <1>11, <2>1, <3>2, <4>3
        <5>2. Cardinality(Scanners(q)') = Cardinality(Scanners(q)) + 1
          BY <1>12, <4>3
        <5> QED
          BY <4>1, <4>2, <5>1, <5>2, Sizes
      <4>4. CASE q # owner
        BY <1>11, <1>12, <1>13, <4>1, <4>2, <4>4
      <4> QED
        BY <4>3, <4>4
    <3> QED
      BY <3>1, <3>2
  <2>2. SUFFICES ASSUME NEW t \in Sessions, t # s, NEW q, q = job'[t].of
                 PROVE  /\ pc'[t] = "reward" =>
                             /\ seen'[t] <= signups'[q] + bonuses'[q] + Own(job'[t])
                             /\ <<"xp", q>> \notin raced' => seen'[t] = xp'[q] + Own(job'[t])
                        /\ pc'[t] \in Holding =>
                             /\ seen'[t] <= Cardinality(Scanners(q)')
                             /\ <<"scan_count", q>> \notin raced' => seen'[t] = scanCount'[q]
    BY <1>3 DEF SeenOK, SeenBy, Holding, Scanners
  <2> QED
    BY <1>3, <2>1, <2>2 DEF Others
<1>17. LostOnlyInOverlap'
  <2>1. \A q \in Players : <<"xp", q>> \notin raced' => xp'[q] = signups'[q] + bonuses'[q]
    BY <1>2, <1>11 DEF LinksInv, Counters, LostOnlyInOverlap
  <2>2. ASSUME NEW q \in Players, <<"scan_count", q>> \notin raced'
        PROVE  scanCount'[q] = Cardinality(Scanners(q)')
    <3>1. CASE q = owner
      <4>1. scanCount[owner] = Cardinality(Scanners(owner)) /\ seen[s] = scanCount[owner]
        BY <1>11, <1>14, <2>2, <3>1 DEF LinksInv, Counters, LostOnlyInOverlap
      <4> QED
        BY <1>12, <1>13, <3>1, <4>1
    <3>2. CASE q # owner
      <4>1. <<"scan_count", q>> \notin raced /\ scanCount'[q] = scanCount[q]
        BY <1>11, <1>13, <2>2, <3>2
      <4>2. Scanners(q)' = Scanners(q)
        BY <1>12, <3>2
      <4> QED
        BY <4>1, <4>2 DEF LinksInv, Counters, LostOnlyInOverlap
    <3> QED
      BY <3>1, <3>2
  <2> QED
    BY <2>1, <2>2 DEF LostOnlyInOverlap
<1> QED
  BY <1>5, <1>6, <1>7, <1>8, <1>9, <1>10, <1>15, <1>16, <1>17
     DEF LinksInv, Shared, Inserted, Counters

LEMMA CountStep ==
  ASSUME LinksInv, NEW s \in Sessions, CountScan(s), UNCHANGED referralVars
  PROVE  LinksInv'
<1>1. job[s].who \in Players /\ job[s].of \in Players
  BY DEF LinksInv, Shared, JobOK, ScanSteps, Jobs, CountScan
<1> QED
  BY <1>1, CountOf

-----------------------------------------------------------------------------
(* The invariant *)

LEMMA LoginStep ==
  ASSUME LinksInv, NEW s \in Sessions, Login(s), UNCHANGED stickerVars
  PROVE  LinksInv'
<1>1. CASE EnsureNotReplayed(s)
  <2>1. PICK d \in InitData : Begin(s, d, "find user")
    BY <1>1 DEF EnsureNotReplayed
  <2>2. d \in Jobs /\ d.kind = "login" /\ "find user" \in Labels
    BY InitDataAssumption DEF Labels, LoginSteps
  <2>3. UNCHANGED Tables
    BY <1>1 DEF EnsureNotReplayed, Begin, Tables, stickerVars
  <2> QED
    BY <2>1, <2>2, <2>3, BeginQuiet
<1>2. CASE FindUser(s)
  <2>1. CASE Finish(s) /\ UNCHANGED <<users, raced>> /\ UNCHANGED referralVars
    BY <2>1, FinishQuiet DEF Tables, referralVars, stickerVars
  <2>2. CASE Goto(s, "find user", "insert user") /\ UNCHANGED seen /\ UNCHANGED referralVars
    <3>1. UNCHANGED Tables
      BY <2>2 DEF Goto, Tables, referralVars, stickerVars
    <3>2. /\ pc' \in [Sessions -> Labels] /\ pc[s] \in LoginSteps /\ pc'[s] \in LoginSteps
          /\ pc'[s] = "insert user" /\ job' = job /\ seen' = seen /\ seen' \in [Sessions -> Nat]
          /\ \A t \in Sessions \ {s} : pc'[t] = pc[t]
      BY <2>2 DEF LinksInv, TypeOK, Goto, Labels, LoginSteps
    <3>3. TypeOK' /\ JobOK'
      BY <3>1, <3>2, GotoTypes
    <3>4. Others(s) /\ pc'[s] \notin {"referrer", "reward"} \cup Holding
      BY <3>2 DEF Others, Holding
    <3> QED
      BY <3>1, <3>3, <3>4, QuietStep
  <2> QED
    BY <1>2, <2>1, <2>2 DEF FindUser
<1>3. CASE LoginFails(s)
  BY <1>3, FinishQuiet DEF LoginFails, Tables, referralVars, stickerVars
<1> QED
  BY <1>1, <1>2, <1>3, InsertStep, LoadStep, RewardStep DEF Login

LEMMA StickerStep ==
  ASSUME LinksInv, NEW s \in Sessions, Sticker(s), UNCHANGED referralVars
  PROVE  LinksInv'
<1>1. CASE LookForSticker(s)
  <2>1. PICK j \in Asked : j.kind = "generate" /\ Begin(s, j, "create") /\ UNCHANGED stickerVars
    BY <1>1 DEF LookForSticker
  <2>2. j \in Jobs /\ j.of \in Players /\ "create" \in Labels
    BY AskedAssumption DEF Labels
  <2>3. UNCHANGED Tables
    BY <2>1 DEF Begin, Tables, stickerVars, referralVars
  <2> QED
    BY <2>1, <2>2, <2>3, BeginQuiet
<1>2. CASE RateLimit(s)
  <2>1. PICK j \in Asked : j.kind = "scan" /\ Begin(s, j, "find sticker")
    BY <1>2 DEF RateLimit
  <2>2. j \in Jobs /\ j.of \in Players /\ "find sticker" \in Labels
    BY AskedAssumption DEF Labels, ScanSteps
  <2>3. UNCHANGED Tables
    BY <1>2 DEF RateLimit, Begin, Tables, referralVars
  <2> QED
    BY <2>1, <2>2, <2>3, BeginQuiet
<1>3. CASE RequestFails(s)
  BY <1>3, AnswerQuiet DEF RequestFails
<1> QED
  BY <1>1, <1>2, <1>3, CreateStep, FindStickerStep, FindScanStep, CountStep DEF Sticker, Scan

LEMMA Untouched == LinksInv /\ UNCHANGED <<Tables, sessionVars>> => LinksInv'
<1> SUFFICES ASSUME LinksInv, UNCHANGED <<Tables, sessionVars>> PROVE LinksInv'
  OBVIOUS
<1>1. UNCHANGED Tables /\ job' = job /\ pc' = pc /\ seen' = seen
  BY DEF sessionVars
<1>2. TypeOK' /\ JobOK'
  BY <1>1 DEF LinksInv, TypeOK, Shared, JobOK, Tables, Pairs
<1>3. Inserted'
  BY <1>1 DEF LinksInv, Shared, Inserted, NewUsers, Named, FoundStickers, NewScans, PairOf, Tables
<1>4. SeenOK'
  BY <1>1 DEF LinksInv, Counters, SeenOK, SeenBy, Scanners, Tables
<1> QED
  BY <1>1, <1>2, <1>3, <1>4, TablesKept DEF LinksInv, Shared, Counters

LEMMA NextLinks == LinksInv /\ [Next]_vars => LinksInv'
<1> SUFFICES ASSUME LinksInv, [Next]_vars PROVE LinksInv'
  OBVIOUS
<1>1. ASSUME NEW p \in Players, WindowEnds(p), UNCHANGED referralVars PROVE LinksInv'
  BY <1>1, Untouched DEF WindowEnds, playerVars, sessionVars, referralVars, Tables
<1>2. CASE UNCHANGED vars
  BY <1>2, Untouched DEF vars, playerVars, sessionVars, referralVars, stickerVars, Tables
<1> QED
  BY <1>1, <1>2, LoginStep, StickerStep DEF Next

LEMMA LinksAlways == Spec => []LinksInv
BY InitLinks, NextLinks, PTL DEF Spec

-----------------------------------------------------------------------------
(* Referrals form a forest.  A set of players that all came by links of    *)
(* each other cannot arise: the one who comes last refers to somebody who  *)
(* was there before, and nobody there refers to the one who comes.         *)

\* Only the commit of a login by a link sets referred_by_id, and of its newcomer only.
LEMMA LinkSet ==
  ASSUME LinksInv, [Next]_vars
  PROVE  \/ users \subseteq users' /\ referrer' = referrer
         \/ \E p \in Players \ users : \E by \in Named(p) :
              users \subseteq users' /\ referrer' = [referrer EXCEPT ![p] = by]
<1>1. ASSUME NEW s \in Sessions, Reward(s)
      PROVE  \E p \in Players \ users : \E by \in Named(p) :
               users \subseteq users' /\ referrer' = [referrer EXCEPT ![p] = by]
  <2>1. job[s].who \in Players \ users /\ job[s].of \in Named(job[s].who)
    BY <1>1 DEF LinksInv, Shared, JobOK, Inserted, NewUsers, LoginSteps, Jobs, Reward
  <2>2. users \subseteq users' /\ referrer' = [referrer EXCEPT ![job[s].who] = job[s].of]
    BY <1>1 DEF Reward
  <2> QED
    BY <2>1, <2>2
<1>2. ASSUME NEW s \in Sessions, Login(s), ~Reward(s)
      PROVE  users \subseteq users' /\ referrer' = referrer
  BY <1>2 DEF Login, EnsureNotReplayed, FindUser, InsertUser, LoadReferrer, LoginFails, Begin, Goto,
              referralVars
<1>3. ASSUME NEW s \in Sessions, Sticker(s), UNCHANGED referralVars
      PROVE  users \subseteq users' /\ referrer' = referrer
  BY <1>3 DEF Sticker, LookForSticker, CreateSticker, Scan, RateLimit, FindSticker, FindScan,
              RecordScan, CountScan, RequestFails, Answer, Begin, Goto, referralVars
<1>4. ASSUME NEW p \in Players, WindowEnds(p), UNCHANGED referralVars
      PROVE  users \subseteq users' /\ referrer' = referrer
  BY <1>4 DEF WindowEnds, playerVars, referralVars
<1>5. CASE UNCHANGED vars
  BY <1>5 DEF vars, playerVars, referralVars
<1> QED
  BY <1>1, <1>2, <1>3, <1>4, <1>5 DEF Next

LEMMA ForestGrows ==
  ASSUME LinksInv, ReferralForest, NEW p \in Players \ users, NEW by \in Named(p),
         referrer' = [referrer EXCEPT ![p] = by]
  PROVE  ReferralForest'
<1> SUFFICES ASSUME NEW S \in (SUBSET Players) \ {{}}
             PROVE  \E q \in S : referrer'[q] \notin S \ {q}
  BY DEF ReferralForest
<1>1. /\ referrer'[p] = by
      /\ \A q \in Players \ {p} : referrer'[q] = referrer[q] /\ referrer[q] # p
  BY DEF LinksInv, TypeOK, Counters, Strangers
<1>2. CASE p \notin S
  <2>1. PICK q \in S : referrer[q] \notin S \ {q}
    BY DEF ReferralForest
  <2> QED
    BY <1>1, <1>2, <2>1
<1>3. CASE p \in S /\ by \notin S \ {p}
  BY <1>1, <1>3
<1>4. CASE p \in S /\ by \in S \ {p}
  <2>1. S \ {p} \in (SUBSET Players) \ {{}}
    BY <1>4
  <2>2. PICK q \in S \ {p} : referrer[q] \notin (S \ {p}) \ {q}
    BY <2>1 DEF ReferralForest
  <2>3. referrer'[q] \notin S \ {q}
    BY <1>1, <2>2
  <2> QED
    BY <2>2, <2>3
<1> QED
  BY <1>2, <1>3, <1>4

LEMMA ForestInit == Init => ReferralForest
<1> SUFFICES ASSUME Init, NEW S \in (SUBSET Players) \ {{}}
             PROVE  \E p \in S : referrer[p] \notin S \ {p}
  BY DEF ReferralForest
<1>1. PICK p \in S : TRUE
  OBVIOUS
<1>2. referrer[p] = Nobody
  BY DEF Init, ReferralsInit
<1> QED
  BY <1>1, <1>2, PlayersAssumption

LEMMA ForestStep == LinksInv /\ ReferralForest /\ [Next]_vars => ReferralForest'
<1> SUFFICES ASSUME LinksInv, ReferralForest, [Next]_vars PROVE ReferralForest'
  OBVIOUS
<1>1. CASE referrer' = referrer
  BY <1>1 DEF ReferralForest
<1> QED
  BY <1>1, LinkSet, ForestGrows

-----------------------------------------------------------------------------
(* The theorems *)

\* ReferralPaid: whoever came by a link, and who made it, are rewarded for it exactly
\* once, whatever logins meet at the unique index (get_or_create_from_telegram_with_status,
\* authenticate).
THEOREM ReferralsPaidOnce == Spec => []ReferralPaid
<1>1. LinksInv => ReferralPaid
  BY DEF LinksInv, Counters
<1> QED
  BY <1>1, LinksAlways, PTL

\* ScansPaid: a scan of a sticker is in the table exactly if its two outbox events were
\* written, once each; scan_count is neither lost altogether nor too high (claim_scan_reward).
THEOREM ScansPaidOnce == Spec => []ScansPaid
<1>1. LinksInv => ScansPaid
  BY DEF LinksInv, Counters
<1> QED
  BY <1>1, LinksAlways, PTL

\* LostOnlyInOverlap: what an absolute write of users.xp or of scan_count loses was
\* written between the read and that write.
THEOREM NothingLostAlone == Spec => []LostOnlyInOverlap
<1>1. LinksInv => LostOnlyInOverlap
  BY DEF LinksInv, Counters
<1> QED
  BY <1>1, LinksAlways, PTL

\* ReferralForest: referred_by_id closes no cycle but the loop of a newcomer who opened the
\* link to the account about to be made, whoever's links players hand each other
\* (get_or_create_from_telegram_with_status).
THEOREM ReferralsAreAForest == Spec => []ReferralForest
BY ForestInit, ForestStep, LinksAlways, PTL DEF Spec

\* A player who is there stays, and keeps the referrer, or the lack of one, for good: no
\* later login, by whichever link, sets referred_by_id again.
THEOREM ReferrersAreForGood ==
  Spec => [][users \subseteq users' /\ \A p \in users : referrer'[p] = referrer[p]]_vars
<1>1. LinksInv /\ [Next]_vars => [users \subseteq users' /\ \A p \in users : referrer'[p] = referrer[p]]_vars
  BY LinkSet DEF LinksInv, TypeOK
<1> QED
  BY <1>1, LinksAlways, PTL DEF Spec
=============================================================================
