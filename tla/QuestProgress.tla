--------------------------- MODULE QuestProgress ---------------------------
(***************************************************************************)
(* One user's quests: process_quest_progress counts the user's scans,      *)
(* POST /quests/{id}/claim pays a completed quest.                         *)
(*                                                                         *)
(* The worker loads the user_quests rows without a lock and writes         *)
(* progress as an absolute value; it has no processed_events row, so a     *)
(* message that comes twice counts twice.  quest_completed goes straight   *)
(* to the broker, after the commit.  A claim's transaction has the user    *)
(* its request was authenticated with, read earlier in a session of its    *)
(* own; users.xp is modelled by how often a quest's reward is in it.       *)
(***************************************************************************)
EXTENDS OutboxRelay

CONSTANTS
    Quests,        \* active quests whose condition_tag is the worker's "scan"
    TargetOf,      \* quests.target_count
    Claims,        \* claim requests, each sent once at most
    QuestOf,       \* the quest a claim names
    NoRow          \* no user_quests row

Task == "process_quest_progress"

Row == [progress : Nat, completed : BOOLEAN, claimed : BOOLEAN]

ASSUME QuestAssumption ==
    /\ TargetOf \in [Quests -> Nat \ {0}]
    /\ QuestOf \in [Claims -> Quests]
    /\ NoRow \notin Row

VARIABLES
    row,           \* user_quests, by quest
    pc,            \* the step a worker takes next
    seenRow,       \* user_quests as the worker loaded it
    newly,         \* quests a worker has completed and not announced yet
    announced,     \* quest_completed notifications sent, by quest
    runs,          \* history: committed runs of the task that counted for a quest
    claimPc,       \* the step a claim takes next
    claimUser,     \* the credits of users.xp as the claim's request read them
    credit,        \* times a quest's reward is in users.xp
    xpEvents       \* xp_events rows, by the quest that is their source

questVars == <<row, pc, seenRow, newly, announced, runs>>
claimVars == <<claimPc, claimUser, credit, xpEvents>>
vars == <<relayVars, questVars, claimVars>>

WorkerSteps == {"idle", "load", "commit", "announce"}
ClaimSteps == {"new", "check", "pay", "done"}

Init ==
    /\ RelayInit
    /\ row = [q \in Quests |-> NoRow]
    /\ pc = [w \in Workers |-> "idle"]
    /\ seenRow = [w \in Workers |-> [q \in Quests |-> NoRow]]
    /\ newly = [w \in Workers |-> {}]
    /\ announced = [q \in Quests |-> 0]
    /\ runs = [q \in Quests |-> 0]
    /\ claimPc = [c \in Claims |-> "new"]
    /\ claimUser = [c \in Claims |-> [q \in Quests |-> 0]]
    /\ credit = [q \in Quests |-> 0]
    /\ xpEvents = [q \in Quests |-> 0]

IsCompleted(r) == r # NoRow /\ r.completed
IsClaimed(r) == r # NoRow /\ r.claimed

Goto(w, from, to) ==
    /\ pc[w] = from
    /\ pc' = [pc EXCEPT ![w] = to]

-----------------------------------------------------------------------------
(* The worker *)

\* Leave the task: the message is acknowledged, sent again or given back.
Stop(w, from) ==
    /\ Goto(w, from, "idle")
    /\ newly' = [newly EXCEPT ![w] = {}]
    /\ UNCHANGED <<outbox, publisherVars, row, seenRow, announced, runs, claimVars>>

Start(w) ==
    /\ \E m \in Messages : m.task = Task /\ Take(w, m)
    /\ Goto(w, "idle", "load")
    /\ UNCHANGED <<outbox, publisherVars, faults, row, seenRow, newly, announced, runs, claimVars>>

\* Mutant: the completions are announced before they are committed.
BugLoad(w) ==
    /\ Goto(w, "load", "commit")
    /\ seenRow' = [seenRow EXCEPT ![w] = row]
    /\ announced' = [q \in Quests |->
          IF ~IsCompleted(row[q]) /\ TargetOf[q] <= 1 + IF row[q] = NoRow THEN 0 ELSE row[q].progress
          THEN announced[q] + 1 ELSE announced[q]]
    /\ UNCHANGED <<relayVars, row, newly, runs, claimVars>>

\* The active quests and the user's rows of them.
Load(w) ==
    /\ Goto(w, "load", "commit")
    /\ seenRow' = [seenRow EXCEPT ![w] = row]
    /\ UNCHANGED <<relayVars, row, newly, announced, runs, claimVars>>

SeenProgress(w, q) == IF seenRow[w][q] = NoRow THEN 0 ELSE seenRow[w][q].progress

\* The quests this run counts for.
Counted(w) == {q \in Quests : ~IsCompleted(seenRow[w][q])}

\* Mutant: an off-by-one.
BugReached(w, q) == SeenProgress(w, q) + 1 >= TargetOf[q] - 1

Reached(w, q) == SeenProgress(w, q) + 1 >= TargetOf[q]

\* Mutant: every column of the loaded row is written back.
BugWritten(w, q) ==
    [progress |-> SeenProgress(w, q) + 1,
     completed |-> Reached(w, q),
     claimed |-> IsClaimed(seenRow[w][q])]

\* The row after this run: the INSERT, or the UPDATE of what the run has changed.
Written(w, q) ==
    [progress |-> SeenProgress(w, q) + 1,
     completed |-> IsCompleted(row[q]) \/ Reached(w, q),
     claimed |-> IsClaimed(row[q])]

\* One commit for all quests; a row that was inserted meanwhile breaks the unique index,
\* which rolls everything back.
CommitProgress(w) ==
    \/ /\ \E q \in Counted(w) : seenRow[w][q] = NoRow /\ row[q] # NoRow
       /\ Stop(w, "commit") /\ Retry(w)
       /\ UNCHANGED faults
    \/ /\ \A q \in Counted(w) : seenRow[w][q] = NoRow => row[q] = NoRow
       /\ Goto(w, "commit", "announce")
       /\ row' = [q \in Quests |-> IF q \in Counted(w) THEN Written(w, q) ELSE row[q]]
       /\ runs' = [q \in Quests |-> IF q \in Counted(w) THEN runs[q] + 1 ELSE runs[q]]
       /\ newly' = [newly EXCEPT ![w] = {q \in Counted(w) : Reached(w, q)}]
       /\ UNCHANGED <<relayVars, seenRow, announced, claimVars>>

\* quest_completed for each new one; a failure ends in a retry of the whole task.
Announce(w) ==
    \/ /\ newly[w] = {}
       /\ Stop(w, "announce") /\ Acknowledge(w)
       /\ UNCHANGED faults
    \/ /\ pc[w] = "announce"
       /\ \E q \in newly[w] :
             /\ newly' = [newly EXCEPT ![w] = @ \ {q}]
             /\ announced' = [announced EXCEPT ![q] = @ + 1]
       /\ UNCHANGED <<relayVars, row, pc, seenRow, runs, claimVars>>
    \/ /\ newly[w] # {}
       /\ Stop(w, "announce") /\ Retry(w) /\ Fault

Run(w) == Load(w) \/ CommitProgress(w) \/ Announce(w)

TaskFails(w) ==
    /\ pc[w] \in {"load", "commit"}
    /\ Stop(w, pc[w]) /\ Retry(w) /\ Fault

WorkerDies(w) ==
    /\ pc[w] # "idle"
    /\ Stop(w, pc[w]) /\ Requeue(w) /\ Fault

-----------------------------------------------------------------------------
(* The claim *)

ClaimGoto(c, from, to) ==
    /\ claimPc[c] = from
    /\ claimPc' = [claimPc EXCEPT ![c] = to]

\* get_current_user, in its own session.
Authenticate(c) ==
    /\ ClaimGoto(c, "new", "check")
    /\ claimUser' = [claimUser EXCEPT ![c] = credit]
    /\ UNCHANGED <<relayVars, questVars, credit, xpEvents>>

\* Mutant: only the flag is looked at.
BugMayClaim(q) == row[q] # NoRow /\ ~IsClaimed(row[q])

MayClaim(q) == IsCompleted(row[q]) /\ ~IsClaimed(row[q])

\* 403 or 409, or the claim goes on.
CheckClaim(c) ==
    /\ ClaimGoto(c, "check", IF MayClaim(QuestOf[c]) THEN "pay" ELSE "done")
    /\ UNCHANGED <<relayVars, questVars, claimUser, credit, xpEvents>>

\* Mutant: the user is read again when it is paid.
BugPaid(c) == [credit EXCEPT ![QuestOf[c]] = @ + 1]

\* users.xp: what the request has read and the reward.
Paid(c) == [claimUser[c] EXCEPT ![QuestOf[c]] = @ + 1]

\* The XpEvent, the flag and the XP, in one commit.
Pay(c) ==
    /\ ClaimGoto(c, "pay", "done")
    /\ xpEvents' = [xpEvents EXCEPT ![QuestOf[c]] = @ + 1]
    /\ row' = [row EXCEPT ![QuestOf[c]].claimed = TRUE]
    /\ credit' = Paid(c)
    /\ UNCHANGED <<relayVars, pc, seenRow, newly, announced, runs, claimUser>>

-----------------------------------------------------------------------------
Relay ==
    /\ \/ \E e \in Events : Record(e)
       \/ \E p \in Publishers : Publish(p) \/ PublisherDies(p)
    /\ UNCHANGED <<questVars, claimVars>>

Next ==
    \/ Relay
    \/ \E w \in Workers : Start(w) \/ Run(w) \/ TaskFails(w) \/ WorkerDies(w)
    \/ \E c \in Claims : Authenticate(c) \/ CheckClaim(c) \/ Pay(c)

Spec == Init /\ [][Next]_vars

-----------------------------------------------------------------------------
\* The relay and the broker keep RelayTypeOK beside it.
TypeOK ==
    /\ row \in [Quests -> Row \cup {NoRow}]
    /\ pc \in [Workers -> WorkerSteps]
    /\ seenRow \in [Workers -> [Quests -> Row \cup {NoRow}]]
    /\ newly \in [Workers -> SUBSET Quests]
    /\ announced \in [Quests -> Nat]
    /\ runs \in [Quests -> Nat]
    /\ claimPc \in [Claims -> ClaimSteps]
    /\ claimUser \in [Claims -> [Quests -> Nat]]
    /\ credit \in [Quests -> Nat]
    /\ xpEvents \in [Quests -> Nat]

\* A quest is completed by as many runs of the task as its target asks for: workers that
\* overwrite each other's progress may lose scans, they never invent one.
CompletionEarned ==
    \A q \in Quests : IsCompleted(row[q]) => runs[q] >= TargetOf[q]

\* The reward is in users.xp once at most, also when two claims of the quest have both
\* seen it unclaimed: the second starts from XP as old as its look at the flag.
QuestXpOnce == \A q \in Quests : credit[q] <= 1

\* A claimed quest was completed and has its xp_events row, and nothing else has one.
ClaimBacked ==
    \A q \in Quests :
        /\ IsClaimed(row[q]) => IsCompleted(row[q])
        /\ IsClaimed(row[q]) <=> xpEvents[q] > 0

\* What a stale worker writes takes neither completed_at nor reward_claimed back.
NothingForgotten ==
    [][\A q \in Quests :
          /\ IsCompleted(row[q]) => IsCompleted(row'[q])
          /\ IsClaimed(row[q]) => IsClaimed(row'[q])]_vars

\* A user is told of a completion only after it is committed.
AnnouncedIsCompleted == \A q \in Quests : announced[q] > 0 => IsCompleted(row[q])
=============================================================================
