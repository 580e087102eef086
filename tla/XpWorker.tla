------------------------------ MODULE XpWorker ------------------------------
(***************************************************************************)
(* process_scan_claimed: the XP, coins and fragments of a scan_claimed     *)
(* outbox event reach the users row, guarded by processed_events.          *)
(*                                                                         *)
(* The users row is modelled by what it has been credited with: credit[e]  *)
(* and fragments[e] count how often the amounts of e are in its present    *)
(* values.  add_xp_and_check_level_up writes xp and level as ABSOLUTE      *)
(* values computed from the row as it was loaded, without a lock.  Its     *)
(* UPDATE locks the row until the commit, and the repository re-reads it:  *)
(* the fragments, written afterwards, start from the committed value.  But *)
(* a reward without XP changes no column, so there is no UPDATE and no     *)
(* lock, and its fragments start from an unlocked read.                    *)
(*                                                                         *)
(* The level is counted in events, too: LevelAt says with which number of  *)
(* them a user reaches a level.  A worker announces a level-up when the    *)
(* level after the re-read is higher than the one it loaded.               *)
(***************************************************************************)
EXTENDS OutboxRelay

CONSTANTS
    Users,
    UserOf,        \* the user of an event
    PaidSets,      \* the choices of events whose reward_xp is not zero
    LevelAt,       \* numbers of paid events that reach a level
    Deletable,     \* users an administrator may delete
    NoWorker       \* the holder of a free row lock

Task == "process_scan_claimed"

\* emit starts this task for every scan_claimed event, before its side effects.
ASSUME XpAssumption ==
    /\ \A e \in Events : \E k \in DOMAIN TasksOf[e] : TasksOf[e][k] = Task
    /\ UserOf \in [Events -> Users]
    /\ PaidSets \subseteq SUBSET Events
    /\ LevelAt \subseteq Nat /\ IsFiniteSet(LevelAt)
    /\ Deletable \subseteq Users
    /\ NoWorker \notin Workers

VARIABLES
    paid,          \* events whose reward_xp is not zero
    pc,            \* the step a worker takes next
    seen,          \* the users row as the worker's session has it
    loaded,        \* the level in the row the worker loaded
    reached,       \* the level in the row when the worker has re-read it
    rowLock,       \* the worker that holds the lock of a users row
    credit,        \* times the XP of an event is in its user's row
    fragments,     \* times the fragments of an event are in its user's row
    processed,     \* rows of processed_events
    settled,       \* history: events committed by this worker at some time
    level,         \* the level in a users row
    levelUps,      \* level_up outbox events written, by the event that caused them
    users          \* users that have not been deleted

sightVars == <<seen, loaded, reached>>
workerVars == <<pc, sightVars>>
rowVars == <<paid, credit, fragments, processed, settled, level, levelUps>>
vars == <<relayVars, workerVars, rowLock, rowVars, users>>

\* What a session knows of the users rows, and of none yet.
Columns == [xp : [Events -> Nat], fragments : [Events -> Nat]]
NoSight == [xp |-> [e \in Events |-> 0], fragments |-> [e \in Events |-> 0]]
Row == [xp |-> credit, fragments |-> fragments]

LevelOf(amount) == 1 + Cardinality({n \in LevelAt : n <= amount})

WorkerSteps == {"idle", "check", "load", "update", "commit", "publish"}

Init ==
    /\ RelayInit
    /\ pc = [w \in Workers |-> "idle"]
    /\ paid \in PaidSets
    /\ seen = [w \in Workers |-> NoSight]
    /\ loaded = [w \in Workers |-> 0] /\ reached = [w \in Workers |-> 0]
    /\ level = [u \in Users |-> LevelOf(0)]
    /\ rowLock = [u \in Users |-> NoWorker]
    /\ credit = [e \in Events |-> 0]
    /\ fragments = [e \in Events |-> 0]
    /\ processed = {}
    /\ settled = {}
    /\ levelUps = {}
    /\ users = Users

Event(w) == held[w].event
User(w) == UserOf[Event(w)]

Goto(w, from, to) ==
    /\ pc[w] = from
    /\ pc' = [pc EXCEPT ![w] = to]

Unlock(w) == rowLock' = [u \in Users |-> IF rowLock[u] = w THEN NoWorker ELSE rowLock[u]]

\* The session is closed: what it knew is gone.
Forget(w) ==
    /\ seen' = [seen EXCEPT ![w] = NoSight]
    /\ loaded' = [loaded EXCEPT ![w] = 0]
    /\ reached' = [reached EXCEPT ![w] = 0]

\* Leave the task with no commit of its own.
Stop(w, from) ==
    /\ Goto(w, from, "idle")
    /\ Unlock(w) /\ Forget(w)
    /\ UNCHANGED <<outbox, publisherVars, rowVars, users>>

-----------------------------------------------------------------------------
Start(w) ==
    /\ \E m \in Messages : m.task = Task /\ Take(w, m)
    /\ Goto(w, "idle", "check")
    /\ UNCHANGED <<outbox, publisherVars, faults, sightVars, rowLock, rowVars, users>>

\* Already processed: acknowledge and forget.
CheckProcessed(w) ==
    \/ /\ Event(w) \in processed
       /\ Stop(w, "check") /\ Acknowledge(w)
       /\ UNCHANGED faults
    \/ /\ Event(w) \notin processed
       /\ Goto(w, "check", "load")
       /\ UNCHANGED <<relayVars, sightVars, rowLock, rowVars, users>>

\* get_user_by_id raises for a user that is gone, which ends in a retry.
LoadUser(w) ==
    \/ /\ User(w) \notin users
       /\ Stop(w, "load") /\ Retry(w)
       /\ UNCHANGED faults
    \/ /\ User(w) \in users
       /\ Goto(w, "load", "update")
       /\ seen' = [seen EXCEPT ![w] = Row]
       /\ loaded' = [loaded EXCEPT ![w] = level[User(w)]]
       /\ UNCHANGED <<relayVars, reached, rowLock, rowVars, users>>

\* Mutant: the row is not re-read after the UPDATE.
BugReread(w) == UNCHANGED <<seen, reached>>

\* add_xp_and_check_level_up: the XP with this event's amount, and the level it reaches;
\* the level is in the UPDATE only if it changes.
Amount(w) == Cardinality({f \in Events : UserOf[f] = User(w) /\ seen[w].xp[f] > 0}) + 1
Rises(w) == Event(w) \in paid /\ LevelOf(Amount(w)) > loaded[w]
Levelled(w) == IF Rises(w) THEN [level EXCEPT ![User(w)] = LevelOf(Amount(w))] ELSE level

\* session.refresh: the fragments as they are committed; xp is what was just written.
Reread(w) ==
    /\ seen' = [seen EXCEPT ![w].fragments = fragments]
    /\ reached' = [reached EXCEPT ![w] = Levelled(w)[User(w)]]

\* The UPDATE waits for the row, then the row is re-read; without XP it is re-read only.
\* A row deleted meanwhile is an error.
UpdateUser(w) ==
    \/ /\ User(w) \notin users
       /\ Event(w) \in paid => rowLock[User(w)] = NoWorker
       /\ Stop(w, "update") /\ Retry(w)
       /\ UNCHANGED faults
    \/ /\ User(w) \in users /\ Event(w) \in paid
       /\ rowLock[User(w)] = NoWorker
       /\ Goto(w, "update", "commit")
       /\ rowLock' = [rowLock EXCEPT ![User(w)] = w]
       /\ Reread(w)
       /\ UNCHANGED <<relayVars, loaded, rowVars, users>>
    \/ /\ User(w) \in users /\ Event(w) \notin paid
       /\ Goto(w, "update", "commit")
       /\ Reread(w)
       /\ UNCHANGED <<relayVars, loaded, rowLock, rowVars, users>>

\* Mutant: the worker relies on its first look at processed_events only.
BugIsDuplicate(w) == FALSE /\ Event(w) \in processed

\* The unique index on processed_events.event_id.
IsDuplicate(w) == Event(w) \in processed

\* An absolute write: what the session has of the user's row and this event's amount.
Plus(w, column, known) ==
    [e \in Events |-> IF UserOf[e] # User(w) THEN column[e]
                      ELSE IF e = Event(w) THEN known[e] + 1 ELSE known[e]]

\* xp and level.
Credited(w) == IF Event(w) \in paid THEN Plus(w, credit, seen[w].xp) ELSE credit

WithFragments(w) == Plus(w, fragments, seen[w].fragments)

\* The UPDATE of the fragments waits for a row that is locked by another worker; then
\* INSERT INTO processed_events and COMMIT, or a duplicate: roll back and retry.
CommitXp(w) ==
    /\ rowLock[User(w)] \in {w, NoWorker}
    /\ \/ /\ IsDuplicate(w) \/ User(w) \notin users
          /\ Stop(w, "commit") /\ Retry(w)
          /\ UNCHANGED faults
       \/ /\ ~IsDuplicate(w) /\ User(w) \in users
          /\ Goto(w, "commit", "publish")
          /\ credit' = Credited(w)
          /\ fragments' = WithFragments(w)
          /\ processed' = processed \cup {Event(w)}
          /\ settled' = settled \cup {Event(w)}
          /\ level' = Levelled(w)
          /\ levelUps' = IF reached[w] > loaded[w] THEN levelUps \cup {Event(w)} ELSE levelUps
          /\ Unlock(w) /\ Forget(w)
          /\ UNCHANGED <<relayVars, paid, users>>

\* The SSE messages are best effort; then the message is acknowledged.
PublishXp(w) ==
    /\ Stop(w, "publish")
    /\ Acknowledge(w)
    /\ UNCHANGED faults

Run(w) ==
    /\ held[w] # NoMessage
    /\ \/ CheckProcessed(w) \/ LoadUser(w) \/ UpdateUser(w) \/ CommitXp(w) \/ PublishXp(w)

\* A database error rolls back and retries.
TaskFails(w) ==
    /\ pc[w] \in {"check", "load", "update", "commit"}
    /\ Stop(w, pc[w]) /\ Retry(w) /\ Fault

\* The worker process is lost; its transaction with it, if it had not committed.
WorkerDies(w) ==
    /\ pc[w] # "idle"
    /\ Stop(w, pc[w]) /\ Requeue(w) /\ Fault

\* DELETE of a user by an administrator waits for the row; bounded with the faults.
DeleteUser(u) ==
    /\ u \in users
    /\ Fault
    /\ rowLock[u] = NoWorker
    /\ users' = users \ {u}
    /\ UNCHANGED <<outbox, publisherVars, brokerVars, workerVars, rowLock, rowVars>>

\* cleanup_processed_events, after 30 days: it is assumed, and not checked by the DELETE,
\* that no copy of the message is left by then.
CleanUp(e) ==
    /\ e \in processed
    /\ outbox[e] = "PUBLISHED" /\ ~InFlight(Task, e)
    /\ \A p \in open : e \notin batch[p]
    /\ processed' = processed \ {e}
    /\ UNCHANGED <<relayVars, workerVars, rowLock, paid, credit, fragments, settled, level, levelUps, users>>

-----------------------------------------------------------------------------
RelayStep ==
    /\ \/ \E e \in Events : Record(e)
       \/ \E p \in Publishers : Publish(p) \/ PublisherDies(p)
    /\ UNCHANGED <<workerVars, rowLock, rowVars, users>>

Next ==
    \/ RelayStep
    \/ \E w \in Workers : Start(w) \/ Run(w) \/ TaskFails(w) \/ WorkerDies(w)
    \/ \E u \in Deletable : DeleteUser(u)
    \/ \E e \in Events : CleanUp(e)

\* Beat keeps starting publishers, workers keep taking messages and running them.
Fairness ==
    /\ \A p \in Publishers :
          WF_vars(Publish(p) /\ UNCHANGED <<workerVars, rowLock, rowVars, users>>)
    /\ \A w \in Workers : WF_vars(Start(w)) /\ WF_vars(Run(w))

Spec == Init /\ [][Next]_vars

FairSpec == Spec /\ Fairness

-----------------------------------------------------------------------------
TypeOK ==
    /\ RelayTypeOK
    /\ pc \in [Workers -> WorkerSteps]
    /\ \A w \in Workers : pc[w] = "idle" <=> held[w] = NoMessage
    /\ paid \subseteq Events
    /\ seen \in [Workers -> Columns]
    /\ loaded \in [Workers -> Nat] /\ reached \in [Workers -> Nat]
    /\ level \in [Users -> Nat]
    /\ rowLock \in [Users -> Workers \cup {NoWorker}]
    /\ credit \in [Events -> Nat]
    /\ fragments \in [Events -> Nat]
    /\ processed \subseteq settled
    /\ settled \subseteq Events
    /\ levelUps \subseteq settled
    /\ users \subseteq Users

\* tasks.py:40: the idempotency guard prevents a double increment.  However often a
\* message is sent, redelivered or retried, an event is credited once at most, and
\* only together with its processed_events row.
CreditedOnce ==
    \A e \in Events : credit[e] <= 1 /\ (credit[e] = 1 => e \in settled)

\* Fragments, unlike XP, are not lost to another worker that pays XP: they are written
\* to a row that is locked and re-read.  Only a worker of an event without XP, which
\* locks nothing, may overwrite them; no event ever has them twice.
FragmentsExact ==
    \A e \in Events :
        /\ fragments[e] <= 1 /\ (fragments[e] = 1 => e \in settled)
        /\ e \in settled /\ (\A f \in Events : UserOf[f] = UserOf[e] => f \in paid)
              => fragments[e] = 1

\* A user's paid events that have been processed.
Earned(u) == {e \in settled \cap paid : UserOf[e] = u}

\* A level is never higher than the rewards a user has had reach, however stale the row is
\* that a worker computes it from.  (It may well be lower: the XP of an event may be lost,
\* and a stale worker may set a level back.)
LevelEarned == \A u \in Users : level[u] <= LevelOf(Cardinality(Earned(u)))

\* A PUBLISHED event is not forgotten: its XP task is in flight, done, or was given
\* up after the last retry.
PublishedNotForgotten ==
    \A e \in Events : outbox[e] = "PUBLISHED" =>
        \/ InFlight(Task, e)
        \/ e \in settled
        \/ [task |-> Task, event |-> e] \in dropped

\* Every recorded event is settled in the end, or given up after its retries.
EventuallySettled ==
    \A e \in Events : outbox[e] = "PENDING" ~>
        (e \in settled \/ [task |-> Task, event |-> e] \in dropped)

\* tasks.py:32: user.xp is the canonical source of truth.  What has been settled is
\* in the row.
XpConserved == \A e \in settled \cap paid : credit[e] = 1
=============================================================================
