------------------------ MODULE QuestProgressProofs -------------------------
(***************************************************************************)
(* Proofs about QuestProgress, for any number of scans, quests, workers    *)
(* and claims, and whatever the relay and the broker do with the messages: *)
(* none of the facts below owes anything to how often a task is started.   *)
(*                                                                         *)
(* QuestInv says of everything a worker or a claim has read, and may write *)
(* back, what is to hold of the rows: progress was run for (Earned), the   *)
(* quests a worker will announce are completed (NewlyCompleted), and the   *)
(* users.xp a claim starts from has a reward only once and only of a quest *)
(* that is claimed by now (CopiesBacked).  The last one makes two claims   *)
(* of one quest harmless: the one that pays later starts from XP older     *)
(* than its look at the flag, where the reward is not in yet.              *)
(***************************************************************************)
EXTENDS QuestProgress, TLAPS

\* What a row and a copy of it owe to committed runs.
Earned ==
    /\ \A q \in Quests : row[q] # NoRow => row[q].progress <= runs[q]
    /\ \A w \in Workers, q \in Quests : seenRow[w][q] # NoRow => seenRow[w][q].progress <= runs[q]

NewlyCompleted == \A w \in Workers : \A q \in newly[w] : IsCompleted(row[q])

\* An amount of rewards in users.xp, or in a copy of it.
Backed(amount, q) == amount <= 1 /\ (amount > 0 => IsClaimed(row[q]))

CopiesBacked ==
    /\ \A q \in Quests : Backed(credit[q], q)
    /\ \A c \in Claims, q \in Quests : Backed(claimUser[c][q], q)

\* A claim that is about to pay.
Payable ==
    \A c \in Claims : claimPc[c] = "pay" =>
        IsCompleted(row[QuestOf[c]]) /\ claimUser[c][QuestOf[c]] = 0

QuestInv ==
    /\ TypeOK
    /\ Earned /\ CompletionEarned
    /\ NewlyCompleted /\ AnnouncedIsCompleted
    /\ CopiesBacked /\ Payable /\ ClaimBacked

\* What no step may take back.
Kept ==
    \A q \in Quests : /\ IsCompleted(row[q]) => IsCompleted(row'[q])
                      /\ IsClaimed(row[q]) => IsClaimed(row'[q])

-----------------------------------------------------------------------------
(* Steps that leave the rows alone *)

LEMMA InitQuest == Init => QuestInv
BY QuestAssumption
   DEF Init, QuestInv, TypeOK, Earned, CompletionEarned, NewlyCompleted, AnnouncedIsCompleted,
       CopiesBacked, Backed, Payable, ClaimBacked, IsCompleted, IsClaimed, WorkerSteps, ClaimSteps

LEMMA RelayStep ==
  ASSUME QuestInv, UNCHANGED <<questVars, claimVars>>
  PROVE  QuestInv'
BY DEF questVars, claimVars, QuestInv, TypeOK, Earned, CompletionEarned, NewlyCompleted,
       AnnouncedIsCompleted, CopiesBacked, Backed, Payable, ClaimBacked, IsCompleted, IsClaimed

\* A worker moves on, and may forget what it was to announce.
LEMMA MoveStep ==
  ASSUME QuestInv, NEW w \in Workers, NEW to \in WorkerSteps,
         pc' = [pc EXCEPT ![w] = to],
         newly' = newly \/ newly' = [newly EXCEPT ![w] = {}],
         UNCHANGED <<row, seenRow, announced, runs, claimVars>>
  PROVE  QuestInv'
<1>1. newly' \in [Workers -> SUBSET Quests] /\ pc' \in [Workers -> WorkerSteps]
  BY DEF QuestInv, TypeOK
<1>2. TypeOK'
  BY <1>1 DEF QuestInv, TypeOK, claimVars
<1>3. NewlyCompleted'
  BY DEF QuestInv, TypeOK, NewlyCompleted
<1> QED
  BY <1>2, <1>3 DEF claimVars, QuestInv, Earned, CompletionEarned, AnnouncedIsCompleted,
                    CopiesBacked, Backed, Payable, ClaimBacked, IsCompleted, IsClaimed

LEMMA StopStep ==
  ASSUME QuestInv, NEW w \in Workers, NEW from, Stop(w, from)
  PROVE  QuestInv' /\ row' = row
BY MoveStep DEF Stop, Goto, WorkerSteps

LEMMA LoadStep ==
  ASSUME QuestInv, NEW w \in Workers, Load(w)
  PROVE  QuestInv'
<1>1. /\ pc' = [pc EXCEPT ![w] = "commit"] /\ seenRow' = [seenRow EXCEPT ![w] = row]
      /\ UNCHANGED <<row, newly, announced, runs, claimVars>>
  BY DEF Load, Goto
<1>2. TypeOK'
  BY <1>1 DEF QuestInv, TypeOK, claimVars, WorkerSteps
<1>3. Earned'
  BY <1>1 DEF QuestInv, TypeOK, Earned
<1> QED
  BY <1>1, <1>2, <1>3
     DEF claimVars, QuestInv, CompletionEarned, NewlyCompleted, AnnouncedIsCompleted,
         CopiesBacked, Backed, Payable, ClaimBacked, IsCompleted, IsClaimed

-----------------------------------------------------------------------------
(* Steps that write rows *)

\* Where rows keep what they have, what was said of other variables by them stands.
LEMMA KeptStep ==
  ASSUME QuestInv, Kept
  PROVE  /\ UNCHANGED newly => NewlyCompleted'
         /\ UNCHANGED announced => AnnouncedIsCompleted'
         /\ UNCHANGED <<credit, claimUser>> => CopiesBacked'
         /\ UNCHANGED <<claimPc, claimUser>> => Payable'
<1>1. UNCHANGED newly => NewlyCompleted'
  BY DEF QuestInv, TypeOK, Kept, NewlyCompleted
<1>2. UNCHANGED announced => AnnouncedIsCompleted'
  BY DEF QuestInv, Kept, AnnouncedIsCompleted
<1>3. UNCHANGED <<credit, claimUser>> => CopiesBacked'
  BY DEF QuestInv, Kept, CopiesBacked, Backed
<1>4. UNCHANGED <<claimPc, claimUser>> => Payable'
  BY QuestAssumption DEF QuestInv, Kept, Payable
<1> QED
  BY <1>1, <1>2, <1>3, <1>4

\* The row a run writes.
LEMMA WrittenRow ==
  ASSUME QuestInv, NEW w \in Workers, NEW q \in Quests
  PROVE  /\ Written(w, q) \in Row
         /\ SeenProgress(w, q) \in Nat /\ SeenProgress(w, q) <= runs[q]
         /\ Written(w, q).progress = SeenProgress(w, q) + 1
         /\ Written(w, q).completed <=> IsCompleted(row[q]) \/ Reached(w, q)
         /\ Written(w, q).claimed <=> IsClaimed(row[q])
<1>1. /\ row[q] \in Row \cup {NoRow} /\ seenRow[w][q] \in Row \cup {NoRow} /\ runs[q] \in Nat
      /\ TargetOf[q] \in Nat
  BY QuestAssumption DEF QuestInv, TypeOK
<1>2. SeenProgress(w, q) \in Nat /\ SeenProgress(w, q) <= runs[q]
  BY <1>1 DEF SeenProgress, QuestInv, Earned, Row
<1>3. Reached(w, q) \in BOOLEAN
  BY <1>1, <1>2 DEF Reached
<1>4. IsCompleted(row[q]) \in BOOLEAN /\ IsClaimed(row[q]) \in BOOLEAN
  BY <1>1 DEF IsCompleted, IsClaimed, Row
<1> QED
  BY <1>2, <1>3, <1>4 DEF Written, Row

LEMMA CommitStep ==
  ASSUME QuestInv, NEW w \in Workers, CommitProgress(w)
  PROVE  QuestInv' /\ Kept
<1>1. CASE Stop(w, "commit")
  BY <1>1, StopStep DEF Kept
<1>2. CASE /\ Goto(w, "commit", "announce")
           /\ row' = [q \in Quests |-> IF q \in Counted(w) THEN Written(w, q) ELSE row[q]]
           /\ runs' = [q \in Quests |-> IF q \in Counted(w) THEN runs[q] + 1 ELSE runs[q]]
           /\ newly' = [newly EXCEPT ![w] = {q \in Counted(w) : Reached(w, q)}]
           /\ UNCHANGED <<relayVars, seenRow, announced, claimVars>>
  <2>1. Counted(w) \subseteq Quests
    BY DEF Counted
  <2>2. ASSUME NEW q \in Quests
        PROVE  /\ q \in Counted(w) => row'[q] = Written(w, q) /\ runs'[q] = runs[q] + 1
               /\ q \notin Counted(w) => row'[q] = row[q] /\ runs'[q] = runs[q]
               /\ row'[q] \in Row \cup {NoRow} /\ runs'[q] \in Nat
               /\ runs[q] \in Nat /\ runs[q] <= runs'[q]
    BY <1>2, WrittenRow DEF QuestInv, TypeOK
  <2>3. NoRow \notin Row
    BY QuestAssumption
  <2>4. ASSUME NEW q \in Quests, q \in Counted(w)
        PROVE  /\ IsCompleted(row'[q]) <=> IsCompleted(row[q]) \/ Reached(w, q)
               /\ IsClaimed(row'[q]) <=> IsClaimed(row[q])
    <3>1. row'[q] = Written(w, q) /\ row'[q] # NoRow
      BY <2>2, <2>3, <2>4, WrittenRow
    <3> QED
      BY <3>1, WrittenRow DEF IsCompleted, IsClaimed
  <2>5. Kept
    BY <2>2, <2>4 DEF Kept
  <2>6. TypeOK'
    <3>1. row' \in [Quests -> Row \cup {NoRow}] /\ runs' \in [Quests -> Nat]
      BY <1>2, <2>2
    <3>2. pc' \in [Workers -> WorkerSteps] /\ newly' \in [Workers -> SUBSET Quests]
      BY <1>2, <2>1 DEF Goto, WorkerSteps, QuestInv, TypeOK
    <3> QED
      BY <1>2, <3>1, <3>2 DEF claimVars, QuestInv, TypeOK
  <2>7. Earned'
    <3>1. ASSUME NEW q \in Quests, row'[q] # NoRow PROVE row'[q].progress <= runs'[q]
      <4>1. CASE q \in Counted(w)
        BY <2>2, <4>1, WrittenRow
      <4>2. CASE q \notin Counted(w)
        BY <2>2, <3>1, <4>2 DEF QuestInv, Earned
      <4> QED
        BY <4>1, <4>2
    <3>2. ASSUME NEW x \in Workers, NEW q \in Quests, seenRow[x][q] # NoRow
          PROVE  seenRow[x][q].progress <= runs'[q]
      <4>1. seenRow[x][q] \in Row
        BY <3>2 DEF QuestInv, TypeOK
      <4>2. seenRow[x][q].progress \in Nat
        BY <4>1 DEF Row
      <4>3. seenRow[x][q].progress <= runs[q]
        BY <3>2 DEF QuestInv, Earned
      <4> QED
        BY <2>2, <4>2, <4>3
    <3> QED
      BY <1>2, <3>1, <3>2 DEF Earned
  <2>8. CompletionEarned'
    <3>1. ASSUME NEW q \in Quests, IsCompleted(row'[q]) PROVE runs'[q] >= TargetOf[q]
      <4>1. TargetOf[q] \in Nat
        BY QuestAssumption
      <4>2. CASE IsCompleted(row[q])
        BY <2>2, <4>1, <4>2 DEF QuestInv, CompletionEarned
      <4>3. CASE ~IsCompleted(row[q])
        <5>1. q \in Counted(w)
          BY <2>2, <3>1, <4>3
        <5>2. Reached(w, q)
          BY <2>4, <3>1, <4>3, <5>1
        <5> QED
          BY <2>2, <4>1, <5>1, <5>2, WrittenRow DEF Reached
      <4> QED
        BY <4>2, <4>3
    <3> QED
      BY <3>1 DEF CompletionEarned
  <2>9. NewlyCompleted'
    <3>1. ASSUME NEW x \in Workers, NEW q \in newly'[x] PROVE IsCompleted(row'[q])
      <4>1. CASE x = w
        <5>1. q \in Counted(w) /\ Reached(w, q)
          BY <1>2, <3>1, <4>1 DEF QuestInv, TypeOK
        <5> QED
          BY <2>1, <2>4, <5>1
      <4>2. CASE x # w
        <5>1. q \in newly[x] /\ q \in Quests
          BY <1>2, <3>1, <4>2 DEF QuestInv, TypeOK
        <5> QED
          BY <2>5, <5>1 DEF Kept, QuestInv, NewlyCompleted
      <4> QED
        BY <4>1, <4>2
    <3> QED
      BY <3>1 DEF NewlyCompleted
  <2>10. ClaimBacked'
    <3>1. ASSUME NEW q \in Quests
          PROVE  (IsClaimed(row'[q]) => IsCompleted(row'[q])) /\ (IsClaimed(row'[q]) <=> IsClaimed(row[q]))
      BY <2>2, <2>4 DEF QuestInv, ClaimBacked
    <3> QED
      BY <1>2, <3>1 DEF claimVars, QuestInv, ClaimBacked
  <2>11. AnnouncedIsCompleted' /\ CopiesBacked' /\ Payable'
    BY <1>2, <2>5, KeptStep DEF claimVars
  <2> QED
    BY <2>5, <2>6, <2>7, <2>8, <2>9, <2>10, <2>11 DEF QuestInv
<1> QED
  BY <1>1, <1>2 DEF CommitProgress

LEMMA AnnounceStep ==
  ASSUME QuestInv, NEW w \in Workers, Announce(w)
  PROVE  QuestInv' /\ row' = row
<1>1. CASE Stop(w, "announce")
  BY <1>1, StopStep
<1>2. CASE /\ \E q \in newly[w] :
                 /\ newly' = [newly EXCEPT ![w] = @ \ {q}]
                 /\ announced' = [announced EXCEPT ![q] = @ + 1]
           /\ UNCHANGED <<relayVars, row, pc, seenRow, runs, claimVars>>
  <2>1. PICK q \in newly[w] : /\ newly' = [newly EXCEPT ![w] = @ \ {q}]
                              /\ announced' = [announced EXCEPT ![q] = @ + 1]
    BY <1>2
  <2>2. q \in Quests /\ IsCompleted(row[q])
    BY DEF QuestInv, TypeOK, NewlyCompleted
  <2>3. newly' \in [Workers -> SUBSET Quests] /\ announced' \in [Quests -> Nat]
    BY <2>1, <2>2 DEF QuestInv, TypeOK
  <2>4. TypeOK'
    BY <1>2, <2>3 DEF QuestInv, TypeOK, claimVars
  <2>5. NewlyCompleted'
    BY <1>2, <2>1 DEF QuestInv, TypeOK, NewlyCompleted
  <2>6. AnnouncedIsCompleted'
    BY <1>2, <2>1, <2>2 DEF QuestInv, TypeOK, AnnouncedIsCompleted
  <2> QED
    BY <1>2, <2>4, <2>5, <2>6
       DEF claimVars, QuestInv, Earned, CompletionEarned, CopiesBacked, Backed, Payable,
           ClaimBacked, IsCompleted, IsClaimed
<1> QED
  BY <1>1, <1>2 DEF Announce

-----------------------------------------------------------------------------
(* Steps of a claim *)

LEMMA AuthenticateStep ==
  ASSUME QuestInv, NEW c \in Claims, Authenticate(c)
  PROVE  QuestInv' /\ row' = row
<1>1. /\ claimPc' = [claimPc EXCEPT ![c] = "check"] /\ claimUser' = [claimUser EXCEPT ![c] = credit]
      /\ UNCHANGED <<questVars, credit, xpEvents>>
  BY DEF Authenticate, ClaimGoto
<1>2. UNCHANGED <<row, pc, seenRow, newly, announced, runs, credit, xpEvents>>
  BY <1>1 DEF questVars
<1>3. TypeOK'
  BY <1>1, <1>2 DEF QuestInv, TypeOK, ClaimSteps
<1>4. CopiesBacked'
  BY <1>1, <1>2 DEF QuestInv, TypeOK, CopiesBacked, Backed
<1>5. Payable'
  BY <1>1, <1>2 DEF QuestInv, TypeOK, Payable
<1> QED
  BY <1>2, <1>3, <1>4, <1>5
     DEF QuestInv, Earned, CompletionEarned, NewlyCompleted, AnnouncedIsCompleted, ClaimBacked,
         IsCompleted, IsClaimed

LEMMA CheckStep ==
  ASSUME QuestInv, NEW c \in Claims, CheckClaim(c)
  PROVE  QuestInv' /\ row' = row
<1> DEFINE to == IF MayClaim(QuestOf[c]) THEN "pay" ELSE "done"
<1>1. claimPc' = [claimPc EXCEPT ![c] = to] /\ UNCHANGED <<questVars, claimUser, credit, xpEvents>>
  BY DEF CheckClaim, ClaimGoto
<1>2. UNCHANGED <<row, pc, seenRow, newly, announced, runs, claimUser, credit, xpEvents>>
  BY <1>1 DEF questVars
<1>3. to \in ClaimSteps /\ (to = "pay" => MayClaim(QuestOf[c]))
  BY DEF ClaimSteps
<1> HIDE DEF to
<1>4. TypeOK'
  BY <1>1, <1>2, <1>3 DEF QuestInv, TypeOK
<1>5. Payable'
  <2>1. ASSUME NEW x \in Claims, claimPc'[x] = "pay"
        PROVE  IsCompleted(row[QuestOf[x]]) /\ claimUser[x][QuestOf[x]] = 0
    <3>1. CASE x = c
      <4>1. MayClaim(QuestOf[c])
        BY <1>1, <1>3, <2>1, <3>1 DEF QuestInv, TypeOK
      <4>2. claimUser[c][QuestOf[c]] \in Nat /\ Backed(claimUser[c][QuestOf[c]], QuestOf[c])
        BY QuestAssumption DEF QuestInv, TypeOK, CopiesBacked
      <4> QED
        BY <3>1, <4>1, <4>2 DEF MayClaim, Backed
    <3>2. CASE x # c
      BY <1>1, <2>1, <3>2 DEF QuestInv, TypeOK, Payable
    <3> QED
      BY <3>1, <3>2
  <2> QED
    BY <1>2, <2>1 DEF Payable
<1> QED
  BY <1>2, <1>4, <1>5
     DEF QuestInv, Earned, CompletionEarned, NewlyCompleted, AnnouncedIsCompleted, ClaimBacked,
         CopiesBacked, Backed, IsCompleted, IsClaimed

LEMMA PayStep ==
  ASSUME QuestInv, NEW c \in Claims, Pay(c)
  PROVE  QuestInv' /\ Kept
<1> DEFINE paidQuest == QuestOf[c]
<1>1. /\ claimPc[c] = "pay" /\ claimPc' = [claimPc EXCEPT ![c] = "done"]
      /\ xpEvents' = [xpEvents EXCEPT ![paidQuest] = @ + 1]
      /\ row' = [row EXCEPT ![paidQuest].claimed = TRUE]
      /\ credit' = [claimUser[c] EXCEPT ![paidQuest] = @ + 1]
      /\ UNCHANGED <<pc, seenRow, newly, announced, runs, claimUser>>
  BY DEF Pay, ClaimGoto, Paid
<1>2. paidQuest \in Quests /\ IsCompleted(row[paidQuest]) /\ claimUser[c][paidQuest] = 0
  BY <1>1, QuestAssumption DEF QuestInv, Payable
<1>3. row[paidQuest] \in Row
  BY <1>2 DEF IsCompleted, QuestInv, TypeOK
<1> HIDE DEF paidQuest
<1>4. row'[paidQuest] = [row[paidQuest] EXCEPT !.claimed = TRUE]
  BY <1>1, <1>2 DEF QuestInv, TypeOK
<1>5. /\ row'[paidQuest] \in Row
      /\ row'[paidQuest].progress = row[paidQuest].progress
      /\ row'[paidQuest].completed = row[paidQuest].completed
      /\ row'[paidQuest].claimed = TRUE
  BY <1>3, <1>4 DEF Row
<1>6. row'[paidQuest] # NoRow /\ row[paidQuest] # NoRow
  BY <1>3, <1>5, QuestAssumption
<1>7. IsCompleted(row'[paidQuest]) /\ IsClaimed(row'[paidQuest])
  BY <1>2, <1>5, <1>6 DEF IsCompleted, IsClaimed
<1>8. \A q \in Quests \ {paidQuest} : row'[q] = row[q]
  BY <1>1 DEF QuestInv, TypeOK
<1>9. Kept
  BY <1>7, <1>8 DEF Kept
<1>10. TypeOK'
  <2>1. row' \in [Quests -> Row \cup {NoRow}]
    BY <1>1, <1>2, <1>5, <1>8 DEF QuestInv, TypeOK
  <2>2. claimPc' \in [Claims -> ClaimSteps]
    BY <1>1 DEF QuestInv, TypeOK, ClaimSteps
  <2>3. xpEvents' \in [Quests -> Nat] /\ credit' \in [Quests -> Nat]
    BY <1>1, <1>2 DEF QuestInv, TypeOK
  <2> QED
    BY <1>1, <2>1, <2>2, <2>3 DEF QuestInv, TypeOK
<1>11. Earned'
  BY <1>1, <1>5, <1>6, <1>8 DEF QuestInv, Earned
<1>12. CompletionEarned'
  <2>1. ASSUME NEW q \in Quests, IsCompleted(row'[q]) PROVE IsCompleted(row[q])
    BY <1>2, <1>8, <2>1
  <2> QED
    BY <1>1, <2>1 DEF QuestInv, CompletionEarned
<1>13. CopiesBacked'
  <2>1. ASSUME NEW q \in Quests
        PROVE  credit'[q] <= 1 /\ (credit'[q] > 0 => IsClaimed(row'[q]))
    <3>1. CASE q = paidQuest
      BY <1>1, <1>2, <1>7, <3>1 DEF QuestInv, TypeOK
    <3>2. CASE q # paidQuest
      <4>1. credit'[q] = claimUser[c][q] /\ row'[q] = row[q]
        BY <1>1, <1>8, <3>2 DEF QuestInv, TypeOK
      <4>2. Backed(claimUser[c][q], q)
        BY DEF QuestInv, CopiesBacked
      <4> QED
        BY <4>1, <4>2 DEF Backed
    <3> QED
      BY <3>1, <3>2
  <2>2. ASSUME NEW x \in Claims, NEW q \in Quests
        PROVE  claimUser[x][q] <= 1 /\ (claimUser[x][q] > 0 => IsClaimed(row'[q]))
    <3>1. Backed(claimUser[x][q], q)
      BY DEF QuestInv, CopiesBacked
    <3> QED
      BY <1>9, <3>1 DEF Kept, Backed
  <2> QED
    BY <1>1, <2>1, <2>2 DEF CopiesBacked, Backed
<1>14. Payable'
  <2>1. ASSUME NEW x \in Claims, claimPc'[x] = "pay"
        PROVE  IsCompleted(row'[QuestOf[x]]) /\ claimUser'[x][QuestOf[x]] = 0
    <3>1. claimPc[x] = "pay"
      BY <1>1, <2>1 DEF QuestInv, TypeOK
    <3>2. QuestOf[x] \in Quests /\ IsCompleted(row[QuestOf[x]]) /\ claimUser[x][QuestOf[x]] = 0
      BY <3>1, QuestAssumption DEF QuestInv, Payable
    <3> QED
      BY <1>1, <1>9, <3>2 DEF Kept
  <2> QED
    BY <2>1 DEF Payable
<1>15. ClaimBacked'
  <2>1. ASSUME NEW q \in Quests
        PROVE  /\ IsClaimed(row'[q]) => IsCompleted(row'[q])
               /\ IsClaimed(row'[q]) <=> xpEvents'[q] > 0
    <3>1. CASE q = paidQuest
      <4>1. xpEvents[q] \in Nat /\ xpEvents'[q] = xpEvents[q] + 1
        BY <1>1, <1>2, <3>1 DEF QuestInv, TypeOK
      <4>2. xpEvents'[q] > 0
        BY <4>1
      <4> QED
        BY <1>7, <3>1, <4>2
    <3>2. CASE q # paidQuest
      <4>1. xpEvents'[q] = xpEvents[q] /\ row'[q] = row[q]
        BY <1>1, <1>8, <3>2 DEF QuestInv, TypeOK
      <4> QED
        BY <4>1 DEF QuestInv, ClaimBacked
    <3> QED
      BY <3>1, <3>2
  <2> QED
    BY <2>1 DEF ClaimBacked
<1>16. NewlyCompleted' /\ AnnouncedIsCompleted'
  BY <1>1, <1>9, KeptStep
<1> QED
  BY <1>9, <1>10, <1>11, <1>12, <1>13, <1>14, <1>15, <1>16 DEF QuestInv

-----------------------------------------------------------------------------
\* No step breaks the invariant or takes a completion or a claim back.
LEMMA NextQuest == QuestInv /\ [Next]_vars => QuestInv' /\ Kept
<1> SUFFICES ASSUME QuestInv, [Next]_vars PROVE QuestInv' /\ Kept
  OBVIOUS
<1>1. row' = row => Kept
  BY DEF Kept
<1>2. CASE Relay
  BY <1>1, <1>2, RelayStep DEF Relay, questVars
<1>3. ASSUME NEW w \in Workers, Start(w) \/ Run(w) \/ TaskFails(w) \/ WorkerDies(w)
      PROVE  QuestInv' /\ Kept
  <2>1. CASE Start(w)
    BY <1>1, <2>1, MoveStep DEF Start, Goto, WorkerSteps
  <2>2. CASE Load(w)
    BY <1>1, <2>2, LoadStep DEF Load
  <2>3. CASE CommitProgress(w)
    BY <2>3, CommitStep
  <2>4. CASE Announce(w)
    BY <1>1, <2>4, AnnounceStep
  <2>5. CASE TaskFails(w) \/ WorkerDies(w)
    BY <1>1, <2>5, StopStep DEF TaskFails, WorkerDies
  <2> QED
    BY <1>3, <2>1, <2>2, <2>3, <2>4, <2>5 DEF Run
<1>4. ASSUME NEW c \in Claims, Authenticate(c) \/ CheckClaim(c) \/ Pay(c)
      PROVE  QuestInv' /\ Kept
  BY <1>1, <1>4, AuthenticateStep, CheckStep, PayStep
<1>5. CASE UNCHANGED vars
  BY <1>1, <1>5, RelayStep DEF vars, questVars
<1> QED
  BY <1>2, <1>3, <1>4, <1>5 DEF Next

\* Everything read and everything written stays earned, backed and kept.
THEOREM QuestsInvariant == Spec => []QuestInv
BY InitQuest, NextQuest, PTL DEF Spec

\* The rows, their copies and the claims keep their types.
THEOREM TypeCorrect == Spec => []TypeOK
BY QuestsInvariant, PTL DEF QuestInv

\* A quest is completed by as many committed runs of the task as its target asks for,
\* although workers overwrite each other's progress and messages come twice.
THEOREM CompletionsEarned == Spec => []CompletionEarned
BY QuestsInvariant, PTL DEF QuestInv

\* A quest's reward is in users.xp once at most, however many claims of it overlap.
THEOREM QuestPaidOnce == Spec => []QuestXpOnce
<1>1. QuestInv => QuestXpOnce
  BY DEF QuestInv, CopiesBacked, Backed, QuestXpOnce
<1> QED
  BY <1>1, QuestsInvariant, PTL

\* A claimed quest was completed, and it is exactly the claimed ones that have an
\* xp_events row.
THEOREM ClaimsBacked == Spec => []ClaimBacked
BY QuestsInvariant, PTL DEF QuestInv

\* quest_completed is sent only for a completion that is committed.
THEOREM AnnouncementsTrue == Spec => []AnnouncedIsCompleted
BY QuestsInvariant, PTL DEF QuestInv

\* No write of a stale worker or claim takes completed_at or reward_claimed back.
THEOREM NothingTakenBack == Spec => NothingForgotten
<1>1. QuestInv /\ [Next]_vars =>
        [\A q \in Quests : /\ IsCompleted(row[q]) => IsCompleted(row'[q])
                           /\ IsClaimed(row[q]) => IsClaimed(row'[q])]_vars
  BY NextQuest DEF Kept
<1> QED
  BY <1>1, QuestsInvariant, PTL DEF Spec, NothingForgotten
=============================================================================
