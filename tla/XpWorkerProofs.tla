--------------------------- MODULE XpWorkerProofs ---------------------------
(***************************************************************************)
(* Proofs about XpWorker: its type invariant; that however often a message *)
(* is sent, redelivered or retried, an event's XP and fragments are        *)
(* credited once at most; that the fragments are exact for a user all of   *)
(* whose events pay XP; that no level is higher than what was earned; that *)
(* no published event is lost; and that no row stays locked.               *)
(*                                                                         *)
(* Never twice rests on the unique row of processed_events, not on locks:  *)
(* a row of processed_events is deleted only when its event can no longer  *)
(* come back (Forgotten), and what a worker has read of the users row are  *)
(* amounts of events committed before (SeenOnce).  Exact rests on the row  *)
(* lock: a worker about to commit an event with XP holds it, and what it   *)
(* has re-read is still what is committed (Locked).                        *)
(***************************************************************************)
EXTENDS XpWorker, FiniteSetTheorems, TLAPS

-----------------------------------------------------------------------------
(* Type correctness *)

\* The messages' type, as the steps of a worker disturb it.
BrokerOK ==
    /\ queue \in [Messages -> Nat]
    /\ held \in [Workers -> Messages \cup {NoMessage}]
    /\ dropped \subseteq [task : TaskNames, event : Events]
    /\ pc \in [Workers -> WorkerSteps]
    /\ \A w \in Workers : pc[w] = "idle" <=> held[w] = NoMessage

\* A message given back is well typed, whatever way the worker takes.
LEMMA GiveBackType ==
  ASSUME BrokerOK, NEW w \in Workers, NEW from \in WorkerSteps \ {"idle"},
         Goto(w, from, "idle"), Acknowledge(w) \/ Requeue(w) \/ Retry(w)
  PROVE  BrokerOK'
<1>1. held[w] \in Messages
  BY DEF BrokerOK, Goto, WorkerSteps
<1>2. held' = [held EXCEPT ![w] = NoMessage] /\ pc' = [pc EXCEPT ![w] = "idle"]
  BY DEF Acknowledge, Requeue, Retry, Goto
<1>3. /\ held' \in [Workers -> Messages \cup {NoMessage}]
      /\ pc' \in [Workers -> WorkerSteps]
      /\ \A x \in Workers : pc'[x] = "idle" <=> held'[x] = NoMessage
  BY <1>2 DEF BrokerOK, WorkerSteps
<1>4. CASE Acknowledge(w)
  BY <1>3, <1>4 DEF Acknowledge, BrokerOK
<1>5. CASE Requeue(w)
  <2>1. queue[held[w]] + 1 \in Nat
    BY <1>1 DEF BrokerOK
  <2> QED
    BY <1>1, <1>3, <1>5, <2>1 DEF Requeue, BrokerOK
<1>6. CASE Retry(w)
  <2>1. CASE held[w].attempt < MaxRetries
    <3> DEFINE m == [held[w] EXCEPT !.attempt = @ + 1]
    <3>1. held[w].attempt \in Nat /\ MaxRetries \in Nat
      BY <1>1, RelayAssumption DEF Messages
    <3>2. m \in Messages
      BY <1>1, <2>1, <3>1 DEF Messages
    <3>3. queue[m] + 1 \in Nat
      BY <3>2 DEF BrokerOK
    <3>4. queue' = [queue EXCEPT ![m] = @ + 1] /\ dropped' = dropped
      BY <1>6, <2>1 DEF Retry
    <3> HIDE DEF m
    <3> QED
      BY <1>3, <3>2, <3>3, <3>4 DEF BrokerOK
  <2>2. CASE ~(held[w].attempt < MaxRetries)
    <3>1. /\ dropped' = dropped \cup {[task |-> held[w].task, event |-> held[w].event]}
          /\ queue' = queue
      BY <1>6, <2>2 DEF Retry
    <3>2. held[w].task \in TaskNames /\ held[w].event \in Events
      BY <1>1 DEF Messages
    <3> QED
      BY <1>3, <3>1, <3>2 DEF BrokerOK
  <2> QED
    BY <2>1, <2>2
<1> QED
  BY <1>4, <1>5, <1>6

LEMMA FaultType ==
  ASSUME faults \in 0 .. MaxFaults, Fault \/ UNCHANGED faults
  PROVE  faults' \in 0 .. MaxFaults
BY RelayAssumption DEF Fault

LEMMA RelayType ==
  ASSUME TypeOK, RelayStep
  PROVE  TypeOK'
<1> USE DEF TypeOK, RelayTypeOK
<1>1. UNCHANGED <<workerVars, rowLock, rowVars, users>> /\ faults' \in 0 .. MaxFaults
  BY FaultType DEF RelayStep, Record, Publish, Fetch, Emit, CommitBatch, PublisherDies,
                   brokerVars, publisherVars
<1> SUFFICES RelayTypeOK' /\ held' = held
  BY <1>1 DEF workerVars, sightVars, rowVars
<1>2. ASSUME NEW e \in Events, Record(e) PROVE RelayTypeOK' /\ held' = held
  BY <1>1, <1>2 DEF Record, publisherVars, brokerVars
<1>3. ASSUME NEW p \in Publishers, Fetch(p) PROVE RelayTypeOK' /\ held' = held
  BY <1>1, <1>3 DEF Fetch, Pending, brokerVars
<1>4. ASSUME NEW p \in Publishers, Emit(p) PROVE RelayTypeOK' /\ held' = held
  <2>1. queue' \in [Messages -> Nat]
    <3>1. ASSUME NEW e \in Events, NEW n, Send(e, n) PROVE queue' \in [Messages -> Nat]
      BY <3>1 DEF Send
    <3>2. PICK e \in batch[p] : \/ Send(e, Len(TasksOf[e]))
                                \/ \E n \in 0 .. Len(TasksOf[e]) - 1 : Send(e, n)
      BY <1>4 DEF Emit
    <3> QED
      BY <3>1, <3>2
  <2>2. /\ batch' \in [Publishers -> SUBSET Events]
        /\ emitted' \in [Publishers -> SUBSET Events]
    <3>1. PICK e \in batch[p] :
             /\ batch' = [batch EXCEPT ![p] = @ \ {e}]
             /\ emitted' = [emitted EXCEPT ![p] = @ \cup {e}] \/ emitted' = emitted
      BY <1>4 DEF Emit
    <3>2. /\ batch \in [Publishers -> SUBSET Events] /\ emitted \in [Publishers -> SUBSET Events]
          /\ e \in Events
      OBVIOUS
    <3> HIDE DEF TypeOK, RelayTypeOK
    <3> QED
      BY <3>1, <3>2
  <2> QED
    BY <1>1, <1>4, <2>1, <2>2 DEF Emit
<1>5. ASSUME NEW p \in Publishers, CommitBatch(p) PROVE RelayTypeOK' /\ held' = held
  BY <1>1, <1>5 DEF CommitBatch, brokerVars
<1>6. ASSUME NEW p \in Publishers, PublisherDies(p) PROVE RelayTypeOK' /\ held' = held
  BY <1>1, <1>6 DEF PublisherDies, brokerVars
<1> QED
  BY <1>2, <1>3, <1>4, <1>5, <1>6 DEF RelayStep, Publish

\* A busy worker's event and its user.
LEMMA BusyType ==
  ASSUME TypeOK, NEW w \in Workers, pc[w] # "idle"
  PROVE  Event(w) \in Events /\ User(w) \in Users
<1>1. held[w] \in Messages
  BY DEF TypeOK, RelayTypeOK
<1> QED
  BY <1>1, XpAssumption DEF Messages, Event, User

LEMMA ForgetType ==
  ASSUME TypeOK, NEW w \in Workers, Forget(w)
  PROVE  /\ seen' \in [Workers -> Columns]
         /\ loaded' \in [Workers -> Nat] /\ reached' \in [Workers -> Nat]
BY DEF TypeOK, Forget, NoSight, Columns

\* Leaving the task.
LEMMA StopType ==
  ASSUME TypeOK, NEW w \in Workers, NEW from \in WorkerSteps \ {"idle"},
         Stop(w, from), Acknowledge(w) \/ Requeue(w) \/ Retry(w), Fault \/ UNCHANGED faults
  PROVE  TypeOK'
<1>1. BrokerOK'
  BY GiveBackType DEF BrokerOK, TypeOK, RelayTypeOK, Stop
<1>2. rowLock' \in [Users -> Workers \cup {NoWorker}]
  BY DEF Stop, Unlock, TypeOK
<1>3. faults' \in 0 .. MaxFaults
  BY FaultType DEF TypeOK, RelayTypeOK
<1>4. /\ seen' \in [Workers -> Columns]
      /\ loaded' \in [Workers -> Nat] /\ reached' \in [Workers -> Nat]
  BY ForgetType DEF Stop
<1>5. /\ pc' \in [Workers -> WorkerSteps]
      /\ \A x \in Workers : pc'[x] = "idle" <=> held'[x] = NoMessage
  BY GiveBackType, NoMessageAssumption
     DEF Stop, Goto, Acknowledge, Requeue, Retry, TypeOK, RelayTypeOK, WorkerSteps
<1> QED
  BY <1>1, <1>2, <1>3, <1>4, <1>5 DEF Stop, TypeOK, RelayTypeOK, BrokerOK, publisherVars, rowVars

\* Going on inside the task.
LEMMA GotoType ==
  ASSUME TypeOK, NEW w \in Workers, NEW from \in WorkerSteps \ {"idle"},
         NEW to \in WorkerSteps \ {"idle"}, Goto(w, from, to), held' = held
  PROVE  /\ pc' \in [Workers -> WorkerSteps]
         /\ \A x \in Workers : pc'[x] = "idle" <=> held'[x] = NoMessage
BY DEF Goto, TypeOK

\* The level a number of events reaches, and the one a row has after a reward.
LEMMA LevelType == \A amount : LevelOf(amount) \in Nat
<1> SUFFICES ASSUME NEW amount PROVE LevelOf(amount) \in Nat
  OBVIOUS
<1>1. IsFiniteSet({n \in LevelAt : n <= amount})
  BY XpAssumption, FS_Subset
<1> QED
  BY <1>1, FS_CardinalityType DEF LevelOf

LEMMA LevelledType ==
  ASSUME TypeOK, NEW w \in Workers
  PROVE  Levelled(w) \in [Users -> Nat]
BY LevelType DEF Levelled, TypeOK

LEMMA RowType == TypeOK => Row \in Columns
BY DEF TypeOK, Row, Columns

LEMMA RereadType ==
  ASSUME TypeOK, NEW w \in Workers, Reread(w)
  PROVE  /\ seen' \in [Workers -> Columns]
         /\ User(w) \in Users => reached' \in [Workers -> Nat]
<1>1. Levelled(w) \in [Users -> Nat]
  BY LevelledType
<1> QED
  BY <1>1 DEF TypeOK, Reread, Columns

LEMMA PlusType ==
  ASSUME NEW w \in Workers, NEW column \in [Events -> Nat], NEW known \in [Events -> Nat]
  PROVE  Plus(w, column, known) \in [Events -> Nat]
BY DEF Plus

LEMMA WorkerType ==
  ASSUME TypeOK, NEW w \in Workers, Start(w) \/ Run(w) \/ TaskFails(w) \/ WorkerDies(w)
  PROVE  TypeOK'
<1>1. CASE Start(w)
  <2>1. PICK m \in Messages : Take(w, m)
    BY <1>1 DEF Start
  <2>2. queue' \in [Messages -> Nat] /\ held' = [held EXCEPT ![w] = m] /\ dropped' = dropped
    BY <2>1 DEF Take, TypeOK, RelayTypeOK
  <2>3. /\ held' \in [Workers -> Messages \cup {NoMessage}]
        /\ pc' \in [Workers -> WorkerSteps]
        /\ \A x \in Workers : pc'[x] = "idle" <=> held'[x] = NoMessage
    BY <1>1, <2>2, NoMessageAssumption DEF Start, Goto, TypeOK, RelayTypeOK, WorkerSteps
  <2> QED
    BY <1>1, <2>2, <2>3 DEF Start, TypeOK, RelayTypeOK, publisherVars, sightVars, rowVars
<1>2. CASE Run(w)
  <2>1. CASE CheckProcessed(w)
    <3>1. CASE Stop(w, "check") /\ Acknowledge(w) /\ UNCHANGED faults
      BY <3>1, StopType DEF WorkerSteps
    <3>2. CASE /\ Goto(w, "check", "load")
               /\ UNCHANGED <<relayVars, sightVars, rowLock, rowVars, users>>
      <4>1. held' = held
        BY <3>2 DEF relayVars, brokerVars
      <4> QED
        BY <3>2, <4>1, GotoType
           DEF TypeOK, RelayTypeOK, WorkerSteps, relayVars, publisherVars, brokerVars, sightVars, rowVars
    <3> QED
      BY <2>1, <3>1, <3>2 DEF CheckProcessed
  <2>2. CASE LoadUser(w)
    <3>1. CASE Stop(w, "load") /\ Retry(w) /\ UNCHANGED faults
      BY <3>1, StopType DEF WorkerSteps
    <3>2. CASE /\ Goto(w, "load", "update")
               /\ seen' = [seen EXCEPT ![w] = Row]
               /\ loaded' = [loaded EXCEPT ![w] = level[User(w)]]
               /\ UNCHANGED <<relayVars, reached, rowLock, rowVars, users>>
      <4>1. held' = held
        BY <3>2 DEF relayVars, brokerVars
      <4>2. seen' \in [Workers -> Columns] /\ loaded' \in [Workers -> Nat]
        BY <3>2, RowType, BusyType DEF TypeOK, Columns, Goto
      <4> QED
        BY <3>2, <4>1, <4>2, GotoType
           DEF TypeOK, RelayTypeOK, WorkerSteps, relayVars, publisherVars, brokerVars, rowVars, Columns
    <3> QED
      BY <2>2, <3>1, <3>2 DEF LoadUser
  <2>3. CASE UpdateUser(w)
    <3>1. CASE Stop(w, "update") /\ Retry(w) /\ UNCHANGED faults
      BY <3>1, StopType DEF WorkerSteps
    <3>2. CASE /\ Goto(w, "update", "commit")
               /\ rowLock' = [rowLock EXCEPT ![User(w)] = w] \/ rowLock' = rowLock
               /\ Reread(w)
               /\ UNCHANGED <<relayVars, loaded, rowVars, users>>
      <4>1. held' = held
        BY <3>2 DEF relayVars, brokerVars
      <4>2. rowLock' \in [Users -> Workers \cup {NoWorker}]
        BY <3>2 DEF TypeOK
      <4>3. seen' \in [Workers -> Columns] /\ reached' \in [Workers -> Nat]
        BY <3>2, RereadType, BusyType DEF Goto
      <4> QED
        BY <3>2, <4>1, <4>2, <4>3, GotoType
           DEF TypeOK, RelayTypeOK, WorkerSteps, relayVars, publisherVars, brokerVars, rowVars, Columns
    <3> QED
      BY <2>3, <3>1, <3>2 DEF UpdateUser
  <2>4. CASE CommitXp(w)
    <3>1. CASE Stop(w, "commit") /\ Retry(w) /\ UNCHANGED faults
      BY <3>1, StopType DEF WorkerSteps
    <3>2. CASE ~(Stop(w, "commit") /\ Retry(w) /\ UNCHANGED faults)
      <4>1. /\ Goto(w, "commit", "publish")
            /\ credit' = Credited(w)
            /\ fragments' = WithFragments(w)
            /\ processed' = processed \cup {Event(w)}
            /\ settled' = settled \cup {Event(w)}
            /\ levelUps' \subseteq levelUps \cup {Event(w)}
            /\ level' = Levelled(w)
            /\ Unlock(w) /\ Forget(w)
            /\ UNCHANGED <<relayVars, paid, users>>
        BY <2>4, <3>2 DEF CommitXp
      <4>2. held' = held
        BY <4>1 DEF relayVars, brokerVars
      <4>3. Event(w) \in Events
        BY <4>1, BusyType DEF Goto
      <4>4. credit' \in [Events -> Nat]
        BY <4>1, <4>3, PlusType DEF Credited, TypeOK, Columns
      <4>5. fragments' \in [Events -> Nat]
        BY <4>1, <4>3, PlusType DEF WithFragments, TypeOK, Columns
      <4>6. rowLock' \in [Users -> Workers \cup {NoWorker}]
        BY <4>1 DEF Unlock, TypeOK
      <4>7. processed' \subseteq settled' /\ settled' \subseteq Events /\ levelUps' \subseteq settled'
        BY <4>1, <4>3 DEF TypeOK
      <4>8. level' \in [Users -> Nat]
        BY <4>1, LevelledType
      <4> QED
        BY <4>1, <4>2, <4>4, <4>5, <4>6, <4>7, <4>8, GotoType, ForgetType
           DEF TypeOK, RelayTypeOK, WorkerSteps, relayVars, publisherVars, brokerVars
    <3> QED
      BY <3>1, <3>2
  <2>5. CASE PublishXp(w)
    BY <2>5, StopType DEF PublishXp, WorkerSteps
  <2> QED
    BY <1>2, <2>1, <2>2, <2>3, <2>4, <2>5 DEF Run
<1>3. CASE TaskFails(w)
  BY <1>3, StopType DEF TaskFails, WorkerSteps
<1>4. CASE WorkerDies(w)
  <2>1. pc[w] \in WorkerSteps \ {"idle"}
    BY <1>4 DEF WorkerDies, TypeOK
  <2> QED
    BY <1>4, <2>1, StopType DEF WorkerDies
<1> QED
  BY <1>1, <1>2, <1>3, <1>4

LEMMA InitType == Init => TypeOK
BY RelayAssumption, XpAssumption, LevelType
   DEF Init, RelayInit, NoSight, Columns, TypeOK, RelayTypeOK, WorkerSteps

LEMMA NextType == TypeOK /\ [Next]_vars => TypeOK'
<1> SUFFICES ASSUME TypeOK, [Next]_vars PROVE TypeOK'
  OBVIOUS
<1>1. CASE RelayStep
  BY <1>1, RelayType
<1>2. ASSUME NEW w \in Workers, Start(w) \/ Run(w) \/ TaskFails(w) \/ WorkerDies(w) PROVE TypeOK'
  BY <1>2, WorkerType
<1>3. ASSUME NEW u \in Deletable, DeleteUser(u) PROVE TypeOK'
  <2>1. faults' \in 0 .. MaxFaults
    BY <1>3, FaultType DEF DeleteUser, TypeOK, RelayTypeOK
  <2> QED
    BY <1>3, <2>1 DEF DeleteUser, TypeOK, RelayTypeOK, relayVars, publisherVars, brokerVars,
              workerVars, sightVars, rowVars
<1>4. ASSUME NEW e \in Events, CleanUp(e) PROVE TypeOK'
  BY <1>4 DEF CleanUp, TypeOK, RelayTypeOK, relayVars, publisherVars, brokerVars, workerVars, sightVars
<1>5. CASE UNCHANGED vars
  BY <1>5 DEF vars, TypeOK, RelayTypeOK, relayVars, publisherVars, brokerVars, workerVars, sightVars, rowVars
<1> QED
  BY <1>1, <1>2, <1>3, <1>4, <1>5 DEF Next

\* Every variable of the relay and of the workers keeps its type.
THEOREM TypeCorrect == Spec => []TypeOK
<1> QED
  BY InitType, NextType, PTL DEF Spec

-----------------------------------------------------------------------------
(* Credited once *)

\* A message that is held has a well-typed event, and its task is the XP task.
HoldsXp == \A w \in Workers : pc[w] # "idle" => held[w].task = Task

\* What a worker has read of the users row are credits of committed events.
Settled(column) == \A e \in Events : column[e] <= 1 /\ (column[e] = 1 => e \in settled)

SeenOnce == \A w \in Workers : Settled(seen[w].xp) /\ Settled(seen[w].fragments)

\* An event whose processed_events row is gone cannot come back: it is published, in
\* no publisher's batch, and no copy of its message is left.
Gone(e) ==
    /\ outbox[e] = "PUBLISHED"
    /\ \A p \in Publishers : e \notin batch[p]
    /\ ~InFlight(Task, e)

Forgotten == \A e \in settled \ processed : Gone(e)

\* A publisher that is not running has an empty batch.
BatchOpen == \A p \in Publishers : batch[p] # {} => p \in open

\* A worker about to commit an event with XP holds the lock of its user's row, and
\* the fragments it has re-read are still the committed ones.
HasLocked(w) ==
    /\ rowLock[User(w)] = w
    /\ \A e \in Events : UserOf[e] = User(w) => seen[w].fragments[e] = fragments[e]

Locked == \A w \in Workers : pc[w] = "commit" /\ Event(w) \in paid => HasLocked(w)

XpInv == TypeOK /\ HoldsXp /\ SeenOnce /\ Forgotten /\ BatchOpen /\ Locked
         /\ CreditedOnce /\ FragmentsExact

\* Steps that touch no credit: what is settled, processed and read stays.
LEMMA QuietRows ==
  ASSUME XpInv, UNCHANGED <<rowVars, seen>>
  PROVE  SeenOnce' /\ CreditedOnce' /\ FragmentsExact'
BY DEF XpInv, SeenOnce, Settled, CreditedOnce, FragmentsExact, rowVars

\* A session that is closed knows nothing, the others what they knew.
LEMMA ForgetSeen ==
  ASSUME XpInv, NEW w \in Workers, Forget(w), settled \subseteq settled'
  PROVE  /\ \A x \in Workers \ {w} : seen'[x] = seen[x]
         /\ SeenOnce'
<1>1. \A x \in Workers : seen'[x] = IF x = w THEN NoSight ELSE seen[x]
  BY DEF XpInv, TypeOK, Forget
<1> QED
  BY <1>1 DEF XpInv, SeenOnce, Settled, NoSight

\* Nothing that Locked speaks of changes.
LEMMA QuietLocks ==
  ASSUME Locked, UNCHANGED <<pc, held, seen, rowLock, paid, fragments>>
  PROVE  Locked'
BY DEF Locked, HasLocked, User, Event

\* A step of w leaves the locks of the others and the rows they protect alone.
LEMMA OthersLocked ==
  ASSUME XpInv, NEW w \in Workers, paid' = paid,
         \A x \in Workers \ {w} :
             /\ pc'[x] = pc[x] /\ held'[x] = held[x] /\ seen'[x] = seen[x]
             /\ \A u \in Users : rowLock[u] = x => rowLock'[u] = x,
         \A e \in Events : rowLock[UserOf[e]] \in Workers \ {w} => fragments'[e] = fragments[e],
         (pc[w] = "commit" /\ Event(w) \in paid => HasLocked(w))'
  PROVE  Locked'
<1> SUFFICES ASSUME NEW x \in Workers \ {w}, pc'[x] = "commit", Event(x)' \in paid'
             PROVE  HasLocked(x)'
  BY DEF Locked
<1>1. Event(x)' = Event(x) /\ User(x)' = User(x)
  BY DEF Event, User
<1>2. HasLocked(x)
  BY <1>1 DEF XpInv, Locked
<1>3. User(x) \in Users
  BY BusyType DEF XpInv
<1>4. rowLock'[User(x)] = x
  BY <1>2, <1>3 DEF HasLocked
<1>5. \A e \in Events : UserOf[e] = User(x) => seen'[x].fragments[e] = fragments'[e]
  BY <1>2 DEF HasLocked
<1> QED
  BY <1>1, <1>4, <1>5 DEF HasLocked

\* A worker that leaves its task gives up its own locks only.
LEMMA StopLocked ==
  ASSUME XpInv, NEW w \in Workers, NEW from \in WorkerSteps \ {"idle"},
         Stop(w, from), held' = [held EXCEPT ![w] = NoMessage]
  PROVE  Locked'
<1>1. pc' = [pc EXCEPT ![w] = "idle"] /\ UNCHANGED <<paid, settled, fragments>>
  BY DEF Stop, Goto, rowVars
<1>2. ASSUME NEW x \in Workers \ {w}
      PROVE  /\ pc'[x] = pc[x] /\ held'[x] = held[x] /\ seen'[x] = seen[x]
             /\ \A u \in Users : rowLock[u] = x => rowLock'[u] = x
  BY <1>1, ForgetSeen DEF XpInv, TypeOK, RelayTypeOK, Stop, Unlock
<1>3. pc'[w] # "commit"
  BY <1>1 DEF XpInv, TypeOK
<1> QED
  BY <1>1, <1>2, <1>3, OthersLocked

\* A worker that goes on, but not to its commit, disturbs no lock.
LEMMA GotoLocked ==
  ASSUME XpInv, NEW w \in Workers, NEW from, NEW to, to # "commit", Goto(w, from, to),
         \A x \in Workers \ {w} : held'[x] = held[x] /\ seen'[x] = seen[x],
         UNCHANGED <<rowLock, paid, fragments>>
  PROVE  Locked'
<1>1. ASSUME NEW x \in Workers \ {w} PROVE pc'[x] = pc[x]
  BY DEF XpInv, TypeOK, Goto
<1>2. pc'[w] # "commit"
  BY DEF XpInv, TypeOK, Goto
<1> QED
  BY <1>1, <1>2, OthersLocked

\* The holder of a message keeps its event in flight.
LEMMA HolderInFlight ==
  ASSUME TypeOK, HoldsXp, NEW w \in Workers, pc[w] # "idle"
  PROVE  held[w] \in Messages /\ Event(w) \in Events /\ InFlight(Task, Event(w))
<1>1. held[w] \in Messages /\ held[w] # NoMessage /\ held[w].task = Task
  BY NoMessageAssumption DEF TypeOK, RelayTypeOK, HoldsXp
<1> QED
  BY <1>1 DEF Messages, Event, InFlight

\* Giving a message back, in any way, puts no other event in flight.
LEMMA GiveBackInFlight ==
  ASSUME TypeOK, HoldsXp, NEW w \in Workers, pc[w] # "idle", pc' = [pc EXCEPT ![w] = "idle"],
         Acknowledge(w) \/ Requeue(w) \/ Retry(w)
  PROVE  HoldsXp' /\ \A e \in Events : InFlight(Task, e)' => InFlight(Task, e)
<1>1. held[w] \in Messages /\ InFlight(Task, Event(w)) /\ held[w].task = Task
  BY HolderInFlight DEF HoldsXp
<1>2. held' = [held EXCEPT ![w] = NoMessage]
  BY DEF Acknowledge, Requeue, Retry
<1>3. HoldsXp'
  BY <1>2 DEF HoldsXp, TypeOK, RelayTypeOK
<1>4. \A x \in Workers : held'[x] # NoMessage => held'[x] = held[x]
  BY <1>2 DEF TypeOK, RelayTypeOK
<1>5. \A m \in Messages : queue'[m] > 0 => queue[m] > 0 \/ m.event = Event(w)
  <2>1. CASE Acknowledge(w)
    BY <2>1 DEF Acknowledge
  <2>2. CASE Requeue(w)
    BY <1>1, <2>2 DEF Requeue, Event, TypeOK, RelayTypeOK
  <2>3. CASE Retry(w)
    <3> DEFINE n == [held[w] EXCEPT !.attempt = @ + 1]
    <3>1. queue' = [queue EXCEPT ![n] = @ + 1] \/ queue' = queue
      BY <2>3 DEF Retry
    <3>2. n.event = Event(w)
      BY <1>1 DEF Messages, Event
    <3> HIDE DEF n
    <3> QED
      BY <3>1, <3>2 DEF TypeOK, RelayTypeOK
  <2> QED
    BY <2>1, <2>2, <2>3
<1>6. ASSUME NEW e \in Events, InFlight(Task, e)' PROVE InFlight(Task, e)
  <2>1. CASE \E m \in Messages : m.task = Task /\ m.event = e /\ queue'[m] > 0
    BY <1>1, <1>5, <2>1 DEF InFlight
  <2>2. CASE \E x \in Workers : held'[x] # NoMessage /\ held'[x].task = Task /\ held'[x].event = e
    BY <1>4, <2>2 DEF InFlight
  <2> QED
    BY <1>6, <2>1, <2>2 DEF InFlight
<1> QED
  BY <1>3, <1>6

LEMMA RelayInv ==
  ASSUME XpInv, RelayStep
  PROVE  XpInv'
<1> USE DEF XpInv
<1>1. UNCHANGED <<rowVars, seen, pc>> /\ UNCHANGED <<processed, settled>>
  BY DEF RelayStep, workerVars, sightVars, rowVars
<1>2. TypeOK'
  BY RelayType
<1>3. held' = held
  BY DEF RelayStep, Record, Publish, Fetch, Emit, CommitBatch, PublisherDies, brokerVars
<1>4. HoldsXp'
  BY <1>1, <1>3 DEF HoldsXp
<1>5. BatchOpen' /\ \A e \in settled \ processed : Gone(e)'
  <2>1. ASSUME queue' = queue, NEW e \in settled \ processed, outbox'[e] = "PUBLISHED",
               \A p \in Publishers : e \notin batch'[p]
        PROVE  Gone(e)'
    BY <1>3, <2>1 DEF Gone, Forgotten, InFlight
  <2>2. CASE \E e \in Events : Record(e)
    BY <2>1, <2>2 DEF Record, Forgotten, Gone, BatchOpen, publisherVars, brokerVars, TypeOK, RelayTypeOK
  <2>3. ASSUME NEW p \in Publishers, Fetch(p) PROVE BatchOpen' /\ \A e \in settled \ processed : Gone(e)'
    BY <2>1, <2>3 DEF Fetch, Pending, Forgotten, Gone, BatchOpen, brokerVars, TypeOK, RelayTypeOK
  <2>4. ASSUME NEW p \in Publishers, Emit(p) PROVE BatchOpen' /\ \A e \in settled \ processed : Gone(e)'
    <3>1. PICK c \in batch[p] :
             /\ batch' = [batch EXCEPT ![p] = @ \ {c}]
             /\ \E n \in Nat : Send(c, n)
      <4>1. PICK c \in batch[p] :
               /\ batch' = [batch EXCEPT ![p] = @ \ {c}]
               /\ \/ Send(c, Len(TasksOf[c]))
                  \/ \E n \in 0 .. Len(TasksOf[c]) - 1 : Send(c, n)
        BY <2>4 DEF Emit
      <4>2. Len(TasksOf[c]) \in Nat
        BY RelayAssumption DEF TypeOK, RelayTypeOK
      <4>3. PICK n \in Nat : Send(c, n)
        BY <4>1, <4>2
      <4> QED
        BY <4>1, <4>3
    <3>2. outbox' = outbox /\ open' = open
      BY <2>4 DEF Emit
    <3>3. BatchOpen'
      BY <3>1, <3>2 DEF BatchOpen, TypeOK, RelayTypeOK
    <3>4. ASSUME NEW e \in settled \ processed PROVE Gone(e)'
      <4>1. Gone(e) /\ e # c
        BY DEF Forgotten, Gone
      <4>2. \A m \in Messages : m.event = e => queue'[m] = queue[m]
        BY <3>1, <4>1 DEF Send
      <4>3. ~InFlight(Task, e)'
        BY <1>3, <4>1, <4>2 DEF Gone, InFlight
      <4> QED
        BY <3>1, <3>2, <4>1, <4>3 DEF Gone, TypeOK, RelayTypeOK
    <3> QED
      BY <3>3, <3>4
  <2>5. ASSUME NEW p \in Publishers, CommitBatch(p) PROVE BatchOpen' /\ \A e \in settled \ processed : Gone(e)'
    BY <2>1, <2>5 DEF CommitBatch, Forgotten, Gone, BatchOpen, brokerVars, TypeOK, RelayTypeOK
  <2>6. ASSUME NEW p \in Publishers, PublisherDies(p) PROVE BatchOpen' /\ \A e \in settled \ processed : Gone(e)'
    BY <2>1, <2>6 DEF PublisherDies, Forgotten, Gone, BatchOpen, brokerVars, TypeOK, RelayTypeOK
  <2> QED
    BY <2>2, <2>3, <2>4, <2>5, <2>6 DEF RelayStep, Publish
<1>6. Locked'
  <2>1. UNCHANGED <<pc, held, seen, rowLock, paid, fragments>>
    BY <1>1, <1>3 DEF RelayStep, rowVars
  <2> QED
    BY <2>1, QuietLocks
<1> QED
  BY <1>1, <1>2, <1>4, <1>5, <1>6, QuietRows DEF Forgotten

\* Leaving the task leaves the invariant.
LEMMA StopInv ==
  ASSUME XpInv, NEW w \in Workers, NEW from \in WorkerSteps \ {"idle"},
         Stop(w, from), Acknowledge(w) \/ Requeue(w) \/ Retry(w), Fault \/ UNCHANGED faults
  PROVE  XpInv'
<1>1. TypeOK'
  BY StopType DEF XpInv
<1>2. pc[w] # "idle" /\ pc' = [pc EXCEPT ![w] = "idle"]
  BY DEF Stop, Goto
<1>3. HoldsXp' /\ \A e \in Events : InFlight(Task, e)' => InFlight(Task, e)
  BY <1>2, GiveBackInFlight DEF XpInv
<1>4. UNCHANGED <<outbox, publisherVars, rowVars>>
  BY DEF Stop
<1>5. Forgotten' /\ BatchOpen'
  BY <1>3, <1>4 DEF XpInv, Forgotten, Gone, BatchOpen, publisherVars, rowVars, TypeOK
<1>6. Locked'
  <2>1. held' = [held EXCEPT ![w] = NoMessage]
    BY DEF Acknowledge, Requeue, Retry
  <2> QED
    BY <2>1, StopLocked
<1>7. SeenOnce'
  BY <1>4, ForgetSeen DEF Stop, rowVars
<1>8. CreditedOnce' /\ FragmentsExact'
  BY <1>4 DEF XpInv, CreditedOnce, FragmentsExact, rowVars
<1> QED
  BY <1>1, <1>3, <1>5, <1>6, <1>7, <1>8 DEF XpInv

\* Going on without touching the broker or the rows.
LEMMA GotoInv ==
  ASSUME XpInv, TypeOK', NEW w \in Workers, NEW from \in WorkerSteps \ {"idle"},
         NEW to \in WorkerSteps, Goto(w, from, to), UNCHANGED <<relayVars, rowVars>>
  PROVE  HoldsXp' /\ Forgotten' /\ BatchOpen' /\ CreditedOnce' /\ FragmentsExact'
<1>1. HoldsXp'
  BY DEF XpInv, HoldsXp, Goto, relayVars, brokerVars, TypeOK
<1>2. Forgotten' /\ BatchOpen'
  BY DEF XpInv, Forgotten, Gone, InFlight, BatchOpen, relayVars, brokerVars, publisherVars, rowVars
<1> QED
  BY <1>1, <1>2 DEF XpInv, CreditedOnce, FragmentsExact, rowVars

\* An absolute write of settled amounts and of one new event keeps amounts settled.
LEMMA PlusSettled ==
  ASSUME NEW w \in Workers, NEW column \in [Events -> Nat], NEW known \in [Events -> Nat],
         Settled(column), Settled(known), Event(w) \in Events, Event(w) \notin settled,
         settled' = settled \cup {Event(w)}
  PROVE  \A e \in Events : Plus(w, column, known)[e] <= 1
                            /\ (Plus(w, column, known)[e] = 1 => e \in settled')
<1> SUFFICES ASSUME NEW e \in Events
             PROVE  /\ Plus(w, column, known)[e] <= 1
                    /\ Plus(w, column, known)[e] = 1 => e \in settled'
  OBVIOUS
<1>1. /\ column[e] \in Nat /\ column[e] <= 1 /\ (column[e] = 1 => e \in settled)
      /\ known[e] \in Nat /\ known[e] <= 1 /\ (known[e] = 1 => e \in settled)
  BY DEF Settled
<1>2. CASE UserOf[e] # User(w)
  BY <1>1, <1>2 DEF Plus
<1>3. CASE UserOf[e] = User(w) /\ e = Event(w)
  BY <1>1, <1>3 DEF Plus
<1>4. CASE UserOf[e] = User(w) /\ e # Event(w)
  BY <1>1, <1>4 DEF Plus
<1> QED
  BY <1>2, <1>3, <1>4

\* The commit of an event credits it for the first time.
LEMMA CommitInv ==
  ASSUME XpInv, TypeOK', NEW w \in Workers, CommitXp(w), ~(Stop(w, "commit") /\ Retry(w) /\ UNCHANGED faults)
  PROVE  XpInv'
<1>1. /\ pc[w] = "commit" /\ pc' = [pc EXCEPT ![w] = "publish"]
      /\ Event(w) \notin processed
      /\ credit' = Credited(w) /\ fragments' = WithFragments(w)
      /\ processed' = processed \cup {Event(w)} /\ settled' = settled \cup {Event(w)}
      /\ rowLock[User(w)] \in {w, NoWorker} /\ Unlock(w)
      /\ Forget(w) /\ UNCHANGED <<relayVars, paid>>
  BY DEF CommitXp, Goto, IsDuplicate
<1>2. Event(w) \in Events /\ InFlight(Task, Event(w))
  BY <1>1, HolderInFlight DEF XpInv
<1>3. Event(w) \notin settled
  BY <1>1, <1>2 DEF XpInv, Forgotten, Gone
<1>4. /\ Settled(seen[w].xp) /\ Settled(seen[w].fragments)
      /\ Settled(credit) /\ Settled(fragments)
  BY DEF XpInv, SeenOnce, CreditedOnce, FragmentsExact, Settled
<1>5. CreditedOnce'
  <2>1. seen[w].xp \in [Events -> Nat] /\ credit \in [Events -> Nat]
    BY DEF XpInv, TypeOK, Columns
  <2>2. CASE Event(w) \in paid
    <3>1. \A e \in Events : Plus(w, credit, seen[w].xp)[e] <= 1
                             /\ (Plus(w, credit, seen[w].xp)[e] = 1 => e \in settled')
      BY <1>1, <1>2, <1>3, <1>4, <2>1, <2>2, PlusSettled
    <3> QED
      BY <1>1, <2>2, <3>1 DEF Credited, Settled, CreditedOnce
  <2>3. CASE Event(w) \notin paid
    BY <1>1, <1>4, <2>3 DEF Credited, Settled, CreditedOnce
  <2> QED
    BY <2>2, <2>3
<1>6. FragmentsExact'
  <2>1. seen[w].fragments \in [Events -> Nat] /\ fragments \in [Events -> Nat]
    BY DEF XpInv, TypeOK, Columns
  <2>2. \A e \in Events : fragments'[e] <= 1 /\ (fragments'[e] = 1 => e \in settled')
    BY <1>1, <1>2, <1>3, <1>4, <2>1, PlusSettled DEF WithFragments
  <2>3. ASSUME NEW e \in Events, e \in settled', \A f \in Events : UserOf[f] = UserOf[e] => f \in paid
        PROVE  fragments'[e] = 1
    <3>1. e # Event(w) => fragments[e] = 1
      BY <1>1, <2>3 DEF XpInv, FragmentsExact
    <3>2. CASE UserOf[e] # User(w)
      BY <1>1, <3>1, <3>2 DEF WithFragments, Plus, User
    <3>3. CASE UserOf[e] = User(w)
      <4>1. Event(w) \in paid
        BY <1>2, <2>3, <3>3 DEF User
      <4>2. seen[w].fragments[e] = fragments[e]
        BY <1>1, <3>3, <4>1 DEF XpInv, Locked, HasLocked
      <4>3. fragments[Event(w)] = 0
        BY <1>2, <1>3, <1>4, <2>1 DEF Settled
      <4> QED
        BY <1>1, <3>1, <3>3, <4>2, <4>3 DEF WithFragments, Plus
    <3> QED
      BY <3>2, <3>3
  <2> QED
    BY <1>1, <2>2, <2>3 DEF FragmentsExact, Settled
<1>7. SeenOnce' /\ \A x \in Workers \ {w} : seen'[x] = seen[x]
  BY <1>1, ForgetSeen
<1>8. HoldsXp' /\ BatchOpen'
  BY <1>1 DEF XpInv, HoldsXp, BatchOpen, relayVars, brokerVars, publisherVars, TypeOK
<1>9. Forgotten'
  BY <1>1 DEF XpInv, Forgotten, Gone, InFlight, relayVars, brokerVars, publisherVars
<1>10. Locked'
  <2>1. ASSUME NEW x \in Workers \ {w}
        PROVE  /\ pc'[x] = pc[x] /\ held'[x] = held[x] /\ seen'[x] = seen[x]
               /\ \A u \in Users : rowLock[u] = x => rowLock'[u] = x
    BY <1>1, <1>7 DEF XpInv, TypeOK, Unlock, relayVars, brokerVars
  <2>2. ASSUME NEW e \in Events, rowLock[UserOf[e]] \in Workers \ {w}
        PROVE  fragments'[e] = fragments[e]
    <3>1. UserOf[e] # User(w)
      BY <1>1, <2>2, XpAssumption
    <3> QED
      BY <1>1, <3>1 DEF WithFragments, Plus
  <2>3. pc'[w] # "commit"
    BY <1>1 DEF XpInv, TypeOK
  <2> QED
    BY <1>1, <2>1, <2>2, <2>3, OthersLocked
<1> QED
  BY <1>5, <1>6, <1>7, <1>8, <1>9, <1>10 DEF XpInv

LEMMA WorkerInv ==
  ASSUME XpInv, NEW w \in Workers, Start(w) \/ Run(w) \/ TaskFails(w) \/ WorkerDies(w)
  PROVE  XpInv'
<1>1. TypeOK'
  BY WorkerType DEF XpInv
<1>2. CASE Start(w)
  <2>1. PICK m \in Messages : m.task = Task /\ Take(w, m)
    BY <1>2 DEF Start
  <2>2. /\ queue[m] > 0 /\ queue' = [queue EXCEPT ![m] = @ - 1]
        /\ held' = [held EXCEPT ![w] = m] /\ pc' = [pc EXCEPT ![w] = "check"]
        /\ UNCHANGED <<outbox, publisherVars, seen, rowVars>>
    BY <1>2, <2>1 DEF Start, Take, Goto, sightVars
  <2>3. HoldsXp'
    BY <2>1, <2>2 DEF XpInv, HoldsXp, TypeOK, RelayTypeOK
  <2>4. \A n \in Messages : queue'[n] > 0 => queue[n] > 0
    BY <2>2 DEF XpInv, TypeOK, RelayTypeOK
  <2>5. \A x \in Workers : held'[x] = held[x] \/ held'[x] = m
    BY <2>2 DEF XpInv, TypeOK, RelayTypeOK
  <2>6. \A e \in Events : InFlight(Task, e)' => InFlight(Task, e)
    BY <2>2, <2>4, <2>5 DEF InFlight
  <2>7. Forgotten' /\ BatchOpen'
    BY <2>2, <2>6 DEF XpInv, Forgotten, Gone, BatchOpen, publisherVars, rowVars, TypeOK
  <2>8. Locked'
    <3>1. Goto(w, "idle", "check") /\ UNCHANGED <<rowLock, paid, fragments>>
      BY <1>2 DEF Start, rowVars
    <3>2. \A x \in Workers \ {w} : held'[x] = held[x] /\ seen'[x] = seen[x]
      BY <2>2 DEF XpInv, TypeOK, RelayTypeOK
    <3> QED
      BY <3>1, <3>2, GotoLocked
  <2> QED
    BY <1>1, <2>2, <2>3, <2>7, <2>8, QuietRows DEF XpInv
<1>3. CASE Run(w)
  <2>1. CASE CheckProcessed(w)
    <3>1. CASE Stop(w, "check") /\ Acknowledge(w) /\ UNCHANGED faults
      BY <3>1, StopInv DEF WorkerSteps
    <3>2. CASE /\ Goto(w, "check", "load")
               /\ UNCHANGED <<relayVars, sightVars, rowLock, rowVars, users>>
      <4>1. SeenOnce'
        BY <3>2, QuietRows DEF sightVars
      <4>2. Locked'
        BY <3>2, GotoLocked DEF relayVars, brokerVars, sightVars, rowVars
      <4> QED
        BY <1>1, <3>2, <4>1, <4>2, GotoInv DEF XpInv, WorkerSteps
    <3> QED
      BY <2>1, <3>1, <3>2 DEF CheckProcessed
  <2>2. CASE LoadUser(w)
    <3>1. CASE Stop(w, "load") /\ Retry(w) /\ UNCHANGED faults
      BY <3>1, StopInv DEF WorkerSteps
    <3>2. CASE /\ Goto(w, "load", "update")
               /\ seen' = [seen EXCEPT ![w] = Row]
               /\ UNCHANGED <<relayVars, reached, rowLock, rowVars, users>>
      <4>1. \A x \in Workers : seen'[x] = IF x = w THEN Row ELSE seen[x]
        BY <3>2 DEF XpInv, TypeOK
      <4>2. SeenOnce'
        BY <3>2, <4>1 DEF XpInv, SeenOnce, Settled, CreditedOnce, FragmentsExact, Row, rowVars
      <4>3. Locked'
        BY <3>2, <4>1, GotoLocked DEF relayVars, brokerVars, rowVars
      <4> QED
        BY <1>1, <3>2, <4>2, <4>3, GotoInv DEF XpInv, WorkerSteps
    <3> QED
      BY <2>2, <3>1, <3>2 DEF LoadUser
  <2>3. CASE UpdateUser(w)
    <3>1. CASE Stop(w, "update") /\ Retry(w) /\ UNCHANGED faults
      BY <3>1, StopInv DEF WorkerSteps
    <3>2. CASE /\ Goto(w, "update", "commit") /\ Reread(w)
               /\ UNCHANGED <<relayVars, loaded, rowVars, users>>
               /\ \/ Event(w) \notin paid /\ rowLock' = rowLock
                  \/ /\ rowLock[User(w)] = NoWorker
                     /\ rowLock' = [rowLock EXCEPT ![User(w)] = w]
      <4>1. \A x \in Workers : seen'[x] = IF x = w THEN [xp |-> seen[w].xp, fragments |-> fragments]
                                                  ELSE seen[x]
        BY <3>2 DEF XpInv, TypeOK, Columns, Reread
      <4>2. SeenOnce'
        BY <3>2, <4>1 DEF XpInv, SeenOnce, Settled, FragmentsExact, rowVars
      <4>3. Locked'
        <5>1. User(w) \in Users /\ pc' = [pc EXCEPT ![w] = "commit"]
          BY <3>2, BusyType DEF XpInv, Goto
        <5>2. held' = held /\ paid' = paid /\ fragments' = fragments
          BY <3>2 DEF relayVars, brokerVars, rowVars
        <5>3. ASSUME NEW x \in Workers \ {w}
              PROVE  /\ pc'[x] = pc[x] /\ held'[x] = held[x] /\ seen'[x] = seen[x]
                     /\ \A u \in Users : rowLock[u] = x => rowLock'[u] = x
          BY <3>2, <4>1, <5>1, <5>2, XpAssumption DEF XpInv, TypeOK
        <5>4. ASSUME Event(w) \in paid PROVE HasLocked(w)'
          <6>1. rowLock'[User(w)] = w /\ User(w)' = User(w)
            BY <3>2, <5>1, <5>2, <5>4 DEF XpInv, TypeOK, User, Event
          <6> QED
            BY <4>1, <5>2, <6>1 DEF HasLocked
        <5>5. Event(w)' = Event(w)
          BY <5>2 DEF Event
        <5> QED
          BY <5>2, <5>3, <5>4, <5>5, OthersLocked
      <4> QED
        BY <1>1, <3>2, <4>2, <4>3, GotoInv DEF XpInv, WorkerSteps
    <3> QED
      BY <2>3, <3>1, <3>2 DEF UpdateUser
  <2>4. CASE CommitXp(w)
    <3>1. CASE Stop(w, "commit") /\ Retry(w) /\ UNCHANGED faults
      BY <3>1, StopInv DEF WorkerSteps
    <3>2. CASE ~(Stop(w, "commit") /\ Retry(w) /\ UNCHANGED faults)
      BY <1>1, <2>4, <3>2, CommitInv
    <3> QED
      BY <3>1, <3>2
  <2>5. CASE PublishXp(w)
    BY <2>5, StopInv DEF PublishXp, WorkerSteps
  <2> QED
    BY <1>3, <2>1, <2>2, <2>3, <2>4, <2>5 DEF Run
<1>4. CASE TaskFails(w)
  BY <1>4, StopInv DEF TaskFails, WorkerSteps
<1>5. CASE WorkerDies(w)
  <2>1. pc[w] \in WorkerSteps \ {"idle"}
    BY <1>5 DEF WorkerDies, XpInv, TypeOK
  <2> QED
    BY <1>5, <2>1, StopInv DEF WorkerDies
<1> QED
  BY <1>2, <1>3, <1>4, <1>5

LEMMA InitInv == Init => XpInv
<1> SUFFICES ASSUME Init PROVE XpInv
  OBVIOUS
<1>1. TypeOK
  BY InitType
<1>2. HoldsXp /\ Forgotten
  BY DEF Init, HoldsXp, Forgotten
<1>3. SeenOnce /\ CreditedOnce /\ FragmentsExact /\ Locked
  BY DEF Init, NoSight, SeenOnce, Settled, CreditedOnce, FragmentsExact, Locked
<1>4. BatchOpen
  BY DEF Init, RelayInit, BatchOpen
<1> QED
  BY <1>1, <1>2, <1>3, <1>4 DEF XpInv

LEMMA NextInv == XpInv /\ [Next]_vars => XpInv'
<1> SUFFICES ASSUME XpInv, [Next]_vars PROVE XpInv'
  OBVIOUS
<1>1. TypeOK'
  BY NextType DEF XpInv
<1>2. CASE RelayStep
  BY <1>2, RelayInv
<1>3. ASSUME NEW w \in Workers, Start(w) \/ Run(w) \/ TaskFails(w) \/ WorkerDies(w) PROVE XpInv'
  BY <1>3, WorkerInv
<1>4. ASSUME NEW u \in Deletable, DeleteUser(u) PROVE XpInv'
  BY <1>1, <1>4, QuietRows, QuietLocks
     DEF DeleteUser, XpInv, HoldsXp, Forgotten, Gone, InFlight, BatchOpen,
         relayVars, publisherVars, brokerVars, workerVars, sightVars, rowVars
<1>5. ASSUME NEW e \in Events, CleanUp(e) PROVE XpInv'
  <2>1. /\ UNCHANGED <<relayVars, workerVars, rowLock, paid, credit, fragments, settled>>
        /\ processed' = processed \ {e}
    BY <1>5 DEF CleanUp
  <2>2. Gone(e)
    BY <1>5 DEF CleanUp, Gone, XpInv, BatchOpen
  <2>3. \A x \in Events : Gone(x)' = Gone(x)
    BY <2>1 DEF Gone, InFlight, relayVars, publisherVars, brokerVars
  <2>4. Forgotten'
    BY <2>1, <2>2, <2>3 DEF Forgotten, XpInv, TypeOK
  <2>5. Locked'
    BY <2>1, QuietLocks DEF XpInv, relayVars, brokerVars, workerVars, sightVars
  <2> QED
    BY <1>1, <2>1, <2>4, <2>5 DEF XpInv, HoldsXp, SeenOnce, Settled, BatchOpen, CreditedOnce, FragmentsExact,
                            relayVars, publisherVars, brokerVars, workerVars, sightVars
<1>6. CASE UNCHANGED vars
  BY <1>1, <1>6, QuietRows, QuietLocks
     DEF vars, XpInv, HoldsXp, Forgotten, Gone, InFlight, BatchOpen,
         relayVars, publisherVars, brokerVars, workerVars, sightVars, rowVars
<1> QED
  BY <1>2, <1>3, <1>4, <1>5, <1>6 DEF Next

LEMMA XpInvariant == Spec => []XpInv
<1> QED
  BY InitInv, NextInv, PTL DEF Spec

\* Whatever is sent twice, redelivered, retried or cleaned up, no event's XP reaches
\* the users row twice, or without its processed_events row.
THEOREM XpCreditedOnce == Spec => []CreditedOnce
<1>1. XpInv => CreditedOnce
  BY DEF XpInv
<1> QED
  BY <1>1, XpInvariant, PTL

\* No event's fragments reach the users row twice; and when all events of a user pay
\* XP, so that every worker locks and re-reads the row, none are lost either.
THEOREM FragmentsStayExact == Spec => []FragmentsExact
<1>1. XpInv => FragmentsExact
  BY DEF XpInv
<1> QED
  BY <1>1, XpInvariant, PTL

-----------------------------------------------------------------------------
(* Levels are earned.  What a worker computes a level from are amounts of  *)
(* paid events committed before (PaidOnly, SeenOnce), and its own event,   *)
(* which it commits for the first time; so it counts no more of them than  *)
(* there are, whatever it has missed.                                      *)

PaidOnly ==
    /\ \A e \in Events : credit[e] > 0 => e \in paid
    /\ \A w \in Workers, e \in Events : seen[w].xp[e] > 0 => e \in paid

LevelInv == PaidOnly /\ IsFiniteSet(settled) /\ LevelEarned

LEMMA LevelMonotone ==
  ASSUME NEW m \in Nat, NEW n \in Nat, m <= n
  PROVE  LevelOf(m) <= LevelOf(n)
<1> DEFINE A == {k \in LevelAt : k <= m}
           B == {k \in LevelAt : k <= n}
<1>1. A \subseteq B
  <2>1. \A k \in LevelAt : k \in Nat
    BY XpAssumption
  <2>2. \A k \in LevelAt : k <= m => k <= n
    BY <2>1
  <2> QED
    BY <2>2
<1>2. IsFiniteSet(B)
  BY XpAssumption, FS_Subset
<1>3. Cardinality(A) <= Cardinality(B) /\ Cardinality(A) \in Nat /\ Cardinality(B) \in Nat
  BY <1>1, <1>2, FS_Subset, FS_CardinalityType
<1> QED
  BY <1>3 DEF LevelOf

\* What the sessions know of the XP after a step: what they knew, nothing, or the row.
LEMMA SightStep ==
  ASSUME XpInv, [Next]_vars, NEW x \in Workers
  PROVE  seen'[x].xp \in {seen[x].xp, NoSight.xp, credit}
<1> USE DEF XpInv, TypeOK, Columns
<1>1. ASSUME NEW w \in Workers, Forget(w) PROVE seen'[x].xp \in {seen[x].xp, NoSight.xp}
  BY <1>1 DEF Forget
<1>2. ASSUME NEW w \in Workers, Run(w) PROVE seen'[x].xp \in {seen[x].xp, NoSight.xp, credit}
  <2>1. CASE seen' = [seen EXCEPT ![w] = Row]
    BY <2>1 DEF Row
  <2>2. CASE Reread(w)
    BY <2>2 DEF Reread
  <2>3. CASE seen' = seen
    BY <2>3
  <2> QED
    BY <1>1, <1>2, <2>1, <2>2, <2>3
       DEF Run, CheckProcessed, LoadUser, UpdateUser, CommitXp, PublishXp, Stop, sightVars
<1>3. ASSUME NEW w \in Workers, Start(w) PROVE seen' = seen
  BY <1>3 DEF Start, sightVars
<1>4. ASSUME NEW w \in Workers, TaskFails(w) \/ WorkerDies(w) PROVE Forget(w)
  BY <1>4 DEF TaskFails, WorkerDies, Stop
<1>5. CASE RelayStep \/ (\E u \in Deletable : DeleteUser(u)) \/ (\E e \in Events : CleanUp(e))
           \/ UNCHANGED vars
  BY <1>5 DEF RelayStep, DeleteUser, CleanUp, vars, workerVars, sightVars
<1> QED
  BY <1>1, <1>2, <1>3, <1>4, <1>5 DEF Next

Commits(w) ==
    /\ Event(w) \notin processed
    /\ credit' = Credited(w) /\ settled' = settled \cup {Event(w)} /\ level' = Levelled(w)
    /\ pc[w] = "commit" /\ UNCHANGED paid

\* A step leaves XP and levels alone, or is a worker's commit.
LEMMA RowStep ==
  ASSUME [Next]_vars
  PROVE  \/ UNCHANGED <<paid, credit, settled, level>>
         \/ \E w \in Workers : Commits(w)
<1>1. ASSUME NEW w \in Workers, Run(w)
      PROVE  UNCHANGED <<paid, credit, settled, level>> \/ Commits(w)
  BY <1>1 DEF Run, CheckProcessed, LoadUser, UpdateUser, CommitXp, PublishXp, Stop, rowVars,
              Goto, IsDuplicate, Commits
<1>2. ASSUME NEW w \in Workers, Start(w) \/ TaskFails(w) \/ WorkerDies(w)
      PROVE  UNCHANGED <<paid, credit, settled, level>>
  BY <1>2 DEF Start, TaskFails, WorkerDies, Stop, rowVars
<1>3. CASE RelayStep \/ (\E u \in Deletable : DeleteUser(u)) \/ (\E e \in Events : CleanUp(e))
           \/ UNCHANGED vars
  BY <1>3 DEF RelayStep, DeleteUser, CleanUp, vars, rowVars
<1> QED
  BY <1>1, <1>2, <1>3 DEF Next

\* The level a worker is about to write is one that is reached with its own event.
LEMMA LevelledEarned ==
  ASSUME XpInv, LevelInv, NEW w \in Workers, NEW u \in Users, NEW e \in Events,
         u = User(w), e = Event(w), e \notin settled, e \in paid,
         settled' = settled \cup {e}, paid' = paid
  PROVE  LevelOf(Amount(w)) <= LevelOf(Cardinality(Earned(u)'))
<1> DEFINE S == Earned(u)
           F == {f \in Events : UserOf[f] = u /\ seen[w].xp[f] > 0}
<1>1. F \subseteq S
  <2> SUFFICES ASSUME NEW f \in F PROVE f \in S
    OBVIOUS
  <2>1. seen[w].xp[f] \in Nat /\ seen[w].xp[f] <= 1 /\ (seen[w].xp[f] = 1 => f \in settled)
    BY DEF XpInv, TypeOK, Columns, SeenOnce, Settled
  <2>2. f \in settled /\ f \in paid
    BY <2>1 DEF LevelInv, PaidOnly
  <2> QED
    BY <2>2 DEF Earned
<1>2. IsFiniteSet(S) /\ e \notin S
  BY FS_Subset DEF LevelInv, Earned
<1>3. Cardinality(F) <= Cardinality(S) /\ Cardinality(F) \in Nat /\ Cardinality(S) \in Nat
  BY <1>1, <1>2, FS_Subset, FS_CardinalityType
<1>4. Cardinality(S \cup {e}) = Cardinality(S) + 1
  BY <1>2, FS_AddElement
<1>5. Earned(u)' = S \cup {e}
  BY DEF Earned, User
<1>6. Amount(w) = Cardinality(F) + 1
  BY DEF Amount
<1> QED
  BY <1>3, <1>4, <1>5, <1>6, LevelMonotone

LEMMA LevelsStay ==
  ASSUME TypeOK, IsFiniteSet(settled), LevelEarned, settled \subseteq settled', paid' = paid,
         IsFiniteSet(settled'), NEW u \in Users, level'[u] = level[u]
  PROVE  level'[u] <= LevelOf(Cardinality(Earned(u)'))
<1>1. Earned(u) \subseteq Earned(u)'
  BY DEF Earned
<1>2. IsFiniteSet(Earned(u)')
  BY FS_Subset DEF Earned
<1>3. /\ Cardinality(Earned(u)) <= Cardinality(Earned(u)')
      /\ Cardinality(Earned(u)) \in Nat /\ Cardinality(Earned(u)') \in Nat
  BY <1>1, <1>2, FS_Subset, FS_CardinalityType
<1>4. PICK m \in Nat, n \in Nat : m = Cardinality(Earned(u)) /\ n = Cardinality(Earned(u)') /\ m <= n
  BY <1>3
<1>5. LevelOf(m) <= LevelOf(n) /\ LevelOf(m) \in Nat /\ LevelOf(n) \in Nat
  BY <1>4, LevelMonotone, LevelType
<1>6. level[u] <= LevelOf(m) /\ level[u] \in Nat
  BY <1>4 DEF LevelEarned, TypeOK
<1> QED
  BY <1>4, <1>5, <1>6

LEMMA CommitLevel ==
  ASSUME XpInv, LevelInv, NEW w \in Workers, Commits(w),
         \A x \in Workers : seen'[x].xp \in {seen[x].xp, NoSight.xp, credit}
  PROVE  LevelInv'
<1>1. PICK e \in Events, u \in Users : e = Event(w) /\ u = User(w)
  BY BusyType DEF XpInv, Commits
<1>2. InFlight(Task, e)
  BY <1>1, HolderInFlight DEF XpInv, Commits
<1>3. e \notin settled /\ u = UserOf[e]
  BY <1>1, <1>2 DEF XpInv, Forgotten, Gone, Commits, User
<1>4. settled' = settled \cup {e} /\ paid' = paid /\ credit' = Credited(w) /\ level' = Levelled(w)
  BY <1>1 DEF Commits
<1>5. PaidOnly'
  <2>1. ASSUME NEW f \in Events, credit'[f] > 0 PROVE f \in paid
    <3>1. seen[w].xp \in [Events -> Nat] /\ credit \in [Events -> Nat]
      BY DEF XpInv, TypeOK, Columns
    <3>2. CASE e \in paid
      <4>1. credit'[f] \in {credit[f], seen[w].xp[f], seen[w].xp[f] + 1}
        BY <1>1, <1>4, <3>2 DEF Credited, Plus
      <4>2. f = e \/ credit'[f] \in {credit[f], seen[w].xp[f]}
        BY <1>1, <1>4, <3>2 DEF Credited, Plus
      <4> QED
        BY <2>1, <3>2, <4>2 DEF LevelInv, PaidOnly
    <3>3. CASE e \notin paid
      BY <1>1, <1>4, <2>1, <3>3 DEF Credited, LevelInv, PaidOnly
    <3> QED
      BY <3>2, <3>3
  <2>2. ASSUME NEW x \in Workers, NEW f \in Events, seen'[x].xp[f] > 0 PROVE f \in paid
    BY <2>2 DEF LevelInv, PaidOnly, NoSight
  <2> QED
    BY <1>4, <2>1, <2>2 DEF PaidOnly
<1>6. IsFiniteSet(settled')
  BY <1>4, FS_AddElement DEF LevelInv
<1>7. LevelEarned'
  <2> SUFFICES ASSUME NEW v \in Users PROVE level'[v] <= LevelOf(Cardinality(Earned(v)'))
    BY DEF LevelEarned
  <2>1. CASE level'[v] = level[v]
    BY <1>4, <1>6, <2>1, LevelsStay DEF XpInv, LevelInv
  <2>2. CASE level'[v] # level[v]
    <3>1. v = u /\ e \in paid /\ level'[v] = LevelOf(Amount(w))
      BY <1>1, <1>4, <2>2 DEF Levelled, Rises, XpInv, TypeOK
    <3> QED
      BY <1>1, <1>3, <1>4, <3>1, LevelledEarned
  <2> QED
    BY <2>1, <2>2
<1> QED
  BY <1>5, <1>6, <1>7 DEF LevelInv

LEMMA NextLevel == XpInv /\ LevelInv /\ [Next]_vars => LevelInv'
<1> SUFFICES ASSUME XpInv, LevelInv, [Next]_vars PROVE LevelInv'
  OBVIOUS
<1>1. \A x \in Workers : seen'[x].xp \in {seen[x].xp, NoSight.xp, credit}
  BY SightStep
<1>2. CASE UNCHANGED <<paid, credit, settled, level>>
  <2>1. PaidOnly'
    BY <1>1, <1>2 DEF LevelInv, PaidOnly, NoSight
  <2>2. LevelEarned'
    BY <1>2 DEF LevelInv, LevelEarned, Earned
  <2> QED
    BY <1>2, <2>1, <2>2 DEF LevelInv
<1>3. ASSUME NEW w \in Workers, Commits(w) PROVE LevelInv'
  BY <1>1, <1>3, CommitLevel
<1> QED
  BY <1>2, <1>3, RowStep

LEMMA InitLevel == Init => LevelInv
<1> SUFFICES ASSUME Init PROVE LevelInv
  OBVIOUS
<1>1. PaidOnly
  BY DEF Init, PaidOnly, NoSight
<1>2. settled = {} /\ IsFiniteSet(settled)
  BY FS_EmptySet DEF Init
<1>3. \A u \in Users : Earned(u) = {} /\ level[u] = LevelOf(0)
  BY <1>2 DEF Init, Earned
<1>4. ASSUME NEW u \in Users PROVE level[u] <= LevelOf(Cardinality(Earned(u)))
  <2>1. Cardinality(Earned(u)) = 0
    BY <1>3, FS_EmptySet
  <2>2. level[u] = LevelOf(0) /\ LevelOf(0) \in Nat
    BY <1>3, LevelType
  <2> QED
    BY <2>1, <2>2
<1> QED
  BY <1>1, <1>2, <1>4 DEF LevelInv, LevelEarned

\* LevelEarned: whatever rows workers compute levels from, no user's level is higher than
\* the number of rewards settled for the user reaches (add_xp_and_check_level_up).
THEOREM LevelsAreEarned == Spec => []LevelEarned
<1>1. LevelInv => LevelEarned
  BY DEF LevelInv
<1> QED
  BY <1>1, InitLevel, NextLevel, XpInvariant, PTL DEF Spec

-----------------------------------------------------------------------------
(* No lock is leaked: who holds a users row has updated it and is about to *)
(* commit; whether it commits, retries, fails or dies, the row is free.    *)

HoldersCommit ==
    \A u \in Users, x \in Workers : rowLock[u] = x => pc[x] = "commit" /\ User(x) = u

OthersAtWork(w) == \A x \in Workers \ {w} : pc'[x] = pc[x] /\ held'[x] = held[x]

LEMMA HolderLeaves ==
  ASSUME TypeOK, HoldersCommit, NEW w \in Workers, Unlock(w), OthersAtWork(w)
  PROVE  HoldersCommit'
<1>1. \A u \in Users, x \in Workers : rowLock'[u] = x => x # w /\ rowLock[u] = x
  BY XpAssumption DEF Unlock
<1> QED
  BY <1>1 DEF HoldersCommit, OthersAtWork, User, Event

LEMMA HoldersStay ==
  ASSUME TypeOK, HoldersCommit, NEW w \in Workers, UNCHANGED rowLock, OthersAtWork(w),
         pc[w] # "commit"
  PROVE  HoldersCommit'
BY DEF HoldersCommit, OthersAtWork, User, Event

LEMMA RowLocked ==
  ASSUME TypeOK, HoldersCommit, NEW w \in Workers, Goto(w, "update", "commit"), UNCHANGED held,
         rowLock[User(w)] = NoWorker, rowLock' = [rowLock EXCEPT ![User(w)] = w]
  PROVE  HoldersCommit'
<1>1. pc[w] = "update" /\ pc'[w] = "commit" /\ \A x \in Workers \ {w} : pc'[x] = pc[x]
  BY DEF Goto, TypeOK
<1>2. \A u \in Users : rowLock'[u] = IF u = User(w) THEN w ELSE rowLock[u]
  BY DEF TypeOK
<1>3. \A x \in Workers : User(x)' = User(x)
  BY DEF User, Event
<1>4. ASSUME NEW u \in Users, NEW x \in Workers, rowLock'[u] = x
      PROVE  pc'[x] = "commit" /\ User(x) = u
  <2>1. CASE u = User(w)
    BY <1>1, <1>2, <1>4, <2>1
  <2>2. CASE u # User(w)
    BY <1>1, <1>2, <1>4, <2>2 DEF HoldersCommit
  <2> QED
    BY <2>1, <2>2
<1> QED
  BY <1>3, <1>4 DEF HoldersCommit

LEMMA NextHolders == TypeOK /\ HoldersCommit /\ [Next]_vars => HoldersCommit'
<1> SUFFICES ASSUME TypeOK, HoldersCommit, [Next]_vars PROVE HoldersCommit'
  OBVIOUS
<1>1. ASSUME NEW w \in Workers, NEW from, Stop(w, from), Acknowledge(w) \/ Requeue(w) \/ Retry(w)
      PROVE  HoldersCommit'
  <2>1. OthersAtWork(w)
    BY <1>1 DEF Stop, Goto, Acknowledge, Requeue, Retry, OthersAtWork, TypeOK, RelayTypeOK
  <2> QED
    BY <1>1, <2>1, HolderLeaves DEF Stop
<1>2. ASSUME NEW w \in Workers, NEW from, NEW to, Goto(w, from, to), from # "commit",
             UNCHANGED <<rowLock, held>>
      PROVE  HoldersCommit'
  <2>1. OthersAtWork(w) /\ pc[w] # "commit"
    BY <1>2 DEF Goto, OthersAtWork, TypeOK
  <2> QED
    BY <1>2, <2>1, HoldersStay
<1>3. ASSUME NEW w \in Workers, Start(w) PROVE HoldersCommit'
  <2>1. OthersAtWork(w) /\ pc[w] # "commit" /\ UNCHANGED rowLock
    BY <1>3 DEF Start, Take, Goto, OthersAtWork, TypeOK, RelayTypeOK
  <2> QED
    BY <2>1, HoldersStay
<1>4. ASSUME NEW w \in Workers, Run(w) PROVE HoldersCommit'
  <2>1. CASE CheckProcessed(w) \/ LoadUser(w) \/ PublishXp(w)
    BY <1>1, <1>2, <2>1 DEF CheckProcessed, LoadUser, PublishXp, relayVars, brokerVars
  <2>2. CASE UpdateUser(w)
    BY <1>1, <1>2, <2>2, RowLocked DEF UpdateUser, relayVars, brokerVars
  <2>3. CASE CommitXp(w)
    <3>1. CASE Stop(w, "commit") /\ Retry(w)
      BY <1>1, <3>1
    <3>2. CASE Goto(w, "commit", "publish") /\ Unlock(w) /\ UNCHANGED relayVars
      <4>1. OthersAtWork(w)
        BY <3>2 DEF Goto, OthersAtWork, relayVars, brokerVars, TypeOK
      <4> QED
        BY <3>2, <4>1, HolderLeaves
    <3> QED
      BY <2>3, <3>1, <3>2 DEF CommitXp
  <2> QED
    BY <1>4, <2>1, <2>2, <2>3 DEF Run
<1>5. ASSUME NEW w \in Workers, TaskFails(w) \/ WorkerDies(w) PROVE HoldersCommit'
  BY <1>1, <1>5 DEF TaskFails, WorkerDies
<1>6. CASE RelayStep
  <2>1. UNCHANGED <<rowLock, pc, held>>
    BY <1>6 DEF RelayStep, Record, Publish, Fetch, Emit, CommitBatch, PublisherDies, brokerVars,
                workerVars
  <2> QED
    BY <2>1 DEF HoldersCommit, User, Event
<1>7. CASE (\E u \in Deletable : DeleteUser(u)) \/ (\E e \in Events : CleanUp(e)) \/ UNCHANGED vars
  BY <1>7 DEF DeleteUser, CleanUp, vars, relayVars, brokerVars, workerVars, HoldersCommit, User, Event
<1> QED
  BY <1>3, <1>4, <1>5, <1>6, <1>7 DEF Next

\* A worker that commits, retries, fails or dies leaves no users row locked: nobody who
\* waits for a row waits for a worker that is itself waiting, or gone.
THEOREM LocksAreGivenBack == Spec => []HoldersCommit
<1>1. Init => HoldersCommit
  BY XpAssumption DEF Init, HoldersCommit
<1>2. XpInv => TypeOK
  BY DEF XpInv
<1> QED
  BY <1>1, <1>2, NextHolders, XpInvariant, PTL DEF Spec

-----------------------------------------------------------------------------
(* Not forgotten.  From the moment its XP task is sent an event is in      *)
(* flight, settled or given up, and stays so: what a worker holds it       *)
(* acknowledges only after a commit of the event (OnlySettledLeave), and   *)
(* any other way to lose the message puts it back or gives it up.  A       *)
(* publisher marks only events it has sent (MarkedSent).                   *)

GivenUp(e) == [task |-> Task, event |-> e] \in dropped

Delivered(e) == InFlight(Task, e) \/ e \in settled \/ GivenUp(e)

MarkedSent == \A p \in Publishers : \A e \in emitted[p] : Delivered(e)

PublishedSent == \A e \in Events : outbox[e] = "PUBLISHED" => Delivered(e)

OnlySettledLeave == \A w \in Workers : pc[w] = "publish" => Event(w) \in settled

DeliveryInv == XpInv /\ MarkedSent /\ PublishedSent /\ OnlySettledLeave

\* A message that stays where it is, or goes to another queue or worker.
LEMMA StaysDelivered ==
  ASSUME NEW e \in Events, Delivered(e), settled \subseteq settled', dropped \subseteq dropped',
         InFlight(Task, e) => Delivered(e)'
  PROVE  Delivered(e)'
BY DEF Delivered, GivenUp

\* Sending every task of an event puts its XP task in flight.
LEMMA SentInFlight ==
  ASSUME TypeOK, NEW e \in Events, Send(e, Len(TasksOf[e]))
  PROVE  InFlight(Task, e)'
<1>1. PICK k \in DOMAIN TasksOf[e] : TasksOf[e][k] = Task
  BY XpAssumption
<1>2. k \in 1 .. Len(TasksOf[e]) /\ Task \in TaskNames /\ 0 \in 0 .. MaxRetries
  BY <1>1, RelayAssumption DEF TaskNames
<1> DEFINE m == [task |-> Task, event |-> e, attempt |-> 0]
<1>3. m \in Messages /\ m.task = Task /\ m.event = e /\ m.attempt = 0
  BY <1>2 DEF Messages
<1> HIDE DEF m
<1>4. queue'[m] = queue[m] + 1 /\ queue[m] \in Nat
  BY <1>1, <1>2, <1>3 DEF Send, TypeOK, RelayTypeOK
<1>5. queue'[m] > 0
  BY <1>4
<1> QED
  BY <1>3, <1>5 DEF InFlight

\* Giving a message back forgets its event only if it is settled.
LEMMA GiveBackDelivered ==
  ASSUME TypeOK, HoldsXp, NEW w \in Workers, pc[w] # "idle", settled' = settled,
         \/ Acknowledge(w) /\ Event(w) \in settled
         \/ Requeue(w)
         \/ Retry(w)
  PROVE  \A e \in Events : Delivered(e) => Delivered(e)'
<1>0. PICK c \in Events : c = Event(w)
  BY HolderInFlight
<1>1. held[w] \in Messages /\ held[w].task = Task /\ held[w].event = c
  BY <1>0, HolderInFlight DEF HoldsXp, Event
<1>2. \A x \in Workers \ {w} : held'[x] = held[x]
  BY DEF Acknowledge, Requeue, Retry, TypeOK, RelayTypeOK
<1>3. /\ \A m \in Messages : queue[m] > 0 => queue'[m] > 0
      /\ dropped \subseteq dropped'
      /\ Delivered(c)'
  <2>1. CASE Acknowledge(w) /\ Event(w) \in settled
    BY <1>0, <2>1 DEF Acknowledge, Delivered
  <2>2. CASE Requeue(w)
    <3>1. queue'[held[w]] > 0 /\ \A m \in Messages : queue[m] > 0 => queue'[m] > 0
      BY <1>1, <2>2 DEF Requeue, TypeOK, RelayTypeOK
    <3> QED
      BY <1>1, <2>2, <3>1 DEF Requeue, Delivered, InFlight
  <2>3. CASE Retry(w) /\ held[w].attempt < MaxRetries
    <3> DEFINE n == [held[w] EXCEPT !.attempt = @ + 1]
    <3>1. n \in Messages /\ n.task = Task /\ n.event = c
      BY <1>1, <2>3, RelayAssumption DEF Messages
    <3>2. queue' = [queue EXCEPT ![n] = @ + 1] /\ dropped' = dropped
      BY <2>3 DEF Retry
    <3> HIDE DEF n
    <3>3. queue'[n] > 0 /\ \A m \in Messages : queue[m] > 0 => queue'[m] > 0
      BY <3>1, <3>2 DEF TypeOK, RelayTypeOK
    <3> QED
      BY <3>1, <3>2, <3>3 DEF Delivered, InFlight
  <2>4. CASE Retry(w) /\ ~(held[w].attempt < MaxRetries)
    <3>1. /\ dropped' = dropped \cup {[task |-> Task, event |-> c]} /\ queue' = queue
      BY <1>1, <2>4 DEF Retry
    <3> QED
      BY <3>1 DEF Delivered, GivenUp
  <2> QED
    BY <2>1, <2>2, <2>3, <2>4
<1>4. ASSUME NEW e \in Events, InFlight(Task, e) PROVE Delivered(e)'
  <2>1. CASE e = c
    BY <1>3, <2>1
  <2>2. CASE e # c
    <3>1. InFlight(Task, e)'
      BY <1>1, <1>2, <1>3, <1>4, <2>2 DEF InFlight
    <3> QED
      BY <3>1 DEF Delivered
  <2> QED
    BY <2>1, <2>2
<1> QED
  BY <1>3, <1>4, StaysDelivered

\* The relay only adds to what is in the broker.
LEMMA RelayDelivered ==
  ASSUME XpInv, RelayStep
  PROVE  \A e \in Events : Delivered(e) => Delivered(e)'
<1>1. /\ held' = held /\ dropped' = dropped /\ settled' = settled
      /\ \A m \in Messages : queue[m] > 0 => queue'[m] > 0
  <2>1. settled' = settled
    BY DEF RelayStep, rowVars
  <2>2. CASE queue' = queue /\ held' = held /\ dropped' = dropped
    BY <2>1, <2>2
  <2>3. ASSUME NEW p \in Publishers, Emit(p)
        PROVE  /\ held' = held /\ dropped' = dropped
               /\ \A m \in Messages : queue[m] > 0 => queue'[m] > 0
    <3>1. PICK c \in Events, n \in Nat : Send(c, n)
      <4>1. PICK c \in batch[p] : \/ Send(c, Len(TasksOf[c]))
                                  \/ \E n \in 0 .. Len(TasksOf[c]) - 1 : Send(c, n)
        BY <2>3 DEF Emit
      <4>2. c \in Events /\ Len(TasksOf[c]) \in Nat
        BY RelayAssumption DEF XpInv, TypeOK, RelayTypeOK
      <4> QED
        BY <4>1, <4>2
    <3> QED
      BY <2>3, <3>1 DEF Emit, Send, XpInv, TypeOK, RelayTypeOK
  <2> QED
    BY <2>1, <2>2, <2>3 DEF RelayStep, Record, Publish, Fetch, CommitBatch, PublisherDies, brokerVars
<1>2. ASSUME NEW e \in Events, InFlight(Task, e) PROVE InFlight(Task, e)'
  BY <1>1, <1>2 DEF InFlight
<1> QED
  BY <1>1, <1>2 DEF Delivered, GivenUp

\* A worker that leaves its task acknowledges a settled event only.
LEMMA WorkerDelivered ==
  ASSUME XpInv, OnlySettledLeave, NEW w \in Workers,
         Start(w) \/ Run(w) \/ TaskFails(w) \/ WorkerDies(w)
  PROVE  \A e \in Events : Delivered(e) => Delivered(e)'
<1>1. ASSUME NEW from \in WorkerSteps \ {"idle"}, Stop(w, from),
             \/ Acknowledge(w) /\ Event(w) \in settled
             \/ Requeue(w)
             \/ Retry(w)
      PROVE  \A e \in Events : Delivered(e) => Delivered(e)'
  <2>1. pc[w] # "idle" /\ settled' = settled
    BY <1>1 DEF Stop, Goto, rowVars
  <2> QED
    BY <1>1, <2>1, GiveBackDelivered DEF XpInv
<1>2. ASSUME UNCHANGED relayVars, settled \subseteq settled'
      PROVE  \A e \in Events : Delivered(e) => Delivered(e)'
  BY <1>2 DEF Delivered, InFlight, GivenUp, relayVars, brokerVars
<1>3. CASE Start(w)
  <2>1. PICK m \in Messages : m.task = Task /\ Take(w, m)
    BY <1>3 DEF Start
  <2>2. /\ held[w] = NoMessage /\ dropped' = dropped /\ settled' = settled
        /\ held'[w] = m /\ \A x \in Workers \ {w} : held'[x] = held[x]
        /\ \A n \in Messages \ {m} : queue'[n] = queue[n]
    BY <1>3, <2>1 DEF Start, Take, rowVars, XpInv, TypeOK, RelayTypeOK
  <2>3. ASSUME NEW e \in Events, InFlight(Task, e) PROVE InFlight(Task, e)'
    <3>1. CASE m.event = e
      BY <2>1, <2>2, <3>1, NoMessageAssumption DEF InFlight
    <3>2. CASE m.event # e
      BY <2>2, <2>3, <3>2 DEF InFlight
    <3> QED
      BY <3>1, <3>2
  <2> QED
    BY <2>2, <2>3 DEF Delivered, GivenUp
<1>4. CASE Run(w)
  <2>1. CASE CheckProcessed(w)
    <3>1. CASE Event(w) \in processed /\ Stop(w, "check") /\ Acknowledge(w)
      BY <1>1, <3>1 DEF XpInv, TypeOK, WorkerSteps
    <3>2. CASE UNCHANGED <<relayVars, rowVars>>
      BY <1>2, <3>2 DEF rowVars
    <3> QED
      BY <2>1, <3>1, <3>2 DEF CheckProcessed
  <2>2. CASE LoadUser(w) \/ UpdateUser(w)
    <3>1. \/ \E from \in {"load", "update"} : Stop(w, from) /\ Retry(w)
          \/ UNCHANGED <<relayVars, rowVars>>
      BY <2>2 DEF LoadUser, UpdateUser
    <3> QED
      BY <1>1, <1>2, <3>1 DEF WorkerSteps, rowVars
  <2>3. CASE CommitXp(w)
    <3>1. CASE Stop(w, "commit") /\ Retry(w)
      BY <1>1, <3>1 DEF WorkerSteps
    <3>2. CASE UNCHANGED relayVars /\ settled' = settled \cup {Event(w)}
      BY <1>2, <3>2
    <3> QED
      BY <2>3, <3>1, <3>2 DEF CommitXp
  <2>4. CASE PublishXp(w)
    <3>1. Event(w) \in settled
      BY <2>4 DEF PublishXp, Stop, Goto, OnlySettledLeave
    <3> QED
      BY <1>1, <2>4, <3>1 DEF PublishXp, WorkerSteps
  <2> QED
    BY <1>4, <2>1, <2>2, <2>3, <2>4 DEF Run
<1>5. CASE TaskFails(w) \/ WorkerDies(w)
  <2>1. pc[w] \in WorkerSteps \ {"idle"} /\ Stop(w, pc[w]) /\ (Retry(w) \/ Requeue(w))
    BY <1>5 DEF TaskFails, WorkerDies, WorkerSteps, XpInv, TypeOK
  <2> QED
    BY <1>1, <2>1
<1> QED
  BY <1>3, <1>4, <1>5

\* Once delivered, an event is never lost.
LEMMA NextDelivered ==
  ASSUME XpInv, OnlySettledLeave, [Next]_vars
  PROVE  \A e \in Events : Delivered(e) => Delivered(e)'
<1>1. ASSUME UNCHANGED <<brokerVars, settled>>
      PROVE  \A e \in Events : Delivered(e) => Delivered(e)'
  BY <1>1 DEF Delivered, InFlight, GivenUp, brokerVars
<1>2. ASSUME NEW w \in Workers, Start(w) \/ Run(w) \/ TaskFails(w) \/ WorkerDies(w)
      PROVE  \A e \in Events : Delivered(e) => Delivered(e)'
  BY <1>2, WorkerDelivered
<1>3. ASSUME NEW u \in Deletable, DeleteUser(u) PROVE UNCHANGED <<brokerVars, settled>>
  BY <1>3 DEF DeleteUser, rowVars
<1>4. ASSUME NEW e \in Events, CleanUp(e) PROVE UNCHANGED <<brokerVars, settled>>
  BY <1>4 DEF CleanUp, relayVars
<1>5. CASE UNCHANGED vars
  BY <1>1, <1>5 DEF vars, relayVars, rowVars
<1> QED
  BY <1>1, <1>2, <1>3, <1>4, <1>5, RelayDelivered DEF Next

\* What a publisher will mark, and what is marked, has been sent.
LEMMA NextSent ==
  ASSUME XpInv, MarkedSent, PublishedSent, [Next]_vars,
         \A e \in Events : Delivered(e) => Delivered(e)'
  PROVE  MarkedSent' /\ PublishedSent'
<1>0. /\ outbox \in [Events -> {"absent", "PENDING", "PUBLISHED"}]
      /\ batch \in [Publishers -> SUBSET Events]
      /\ emitted \in [Publishers -> SUBSET Events]
  BY DEF XpInv, TypeOK, RelayTypeOK
<1>1. ASSUME \A p \in Publishers : emitted'[p] \subseteq emitted[p],
             \A e \in Events : outbox'[e] = "PUBLISHED" =>
                 outbox[e] = "PUBLISHED" \/ \E p \in Publishers : e \in emitted[p]
      PROVE  MarkedSent' /\ PublishedSent'
  BY <1>0, <1>1 DEF MarkedSent, PublishedSent
<1>2. CASE UNCHANGED <<outbox, emitted>>
  BY <1>1, <1>2
<1>3. ASSUME NEW e \in Events, Record(e) PROVE MarkedSent' /\ PublishedSent'
  BY <1>0, <1>1, <1>3 DEF Record, publisherVars
<1>4. ASSUME NEW p \in Publishers, Emit(p) PROVE MarkedSent' /\ PublishedSent'
  <2>1. PICK c \in batch[p] :
           \/ Send(c, Len(TasksOf[c])) /\ emitted' = [emitted EXCEPT ![p] = @ \cup {c}]
           \/ emitted' = emitted
    BY <1>4 DEF Emit
  <2>2. CASE emitted' = emitted
    BY <1>2, <1>4, <2>2 DEF Emit
  <2>3. CASE Send(c, Len(TasksOf[c])) /\ emitted' = [emitted EXCEPT ![p] = @ \cup {c}]
    <3>1. c \in Events /\ InFlight(Task, c)'
      BY <1>0, <2>3, SentInFlight DEF XpInv
    <3>2. Delivered(c)'
      BY <3>1 DEF Delivered
    <3>3. ASSUME NEW q \in Publishers, NEW e \in emitted'[q] PROVE Delivered(e)'
      <4>1. e = c \/ e \in emitted[q]
        BY <1>0, <2>3
      <4>2. e \in emitted[q] => e \in Events /\ Delivered(e)
        BY <1>0 DEF MarkedSent
      <4> QED
        BY <3>2, <4>1, <4>2
    <3>4. MarkedSent'
      BY <3>3 DEF MarkedSent
    <3>5. PublishedSent'
      BY <1>4 DEF Emit, PublishedSent
    <3> QED
      BY <3>4, <3>5
  <2> QED
    BY <2>1, <2>2, <2>3
<1>5. ASSUME NEW p \in Publishers, CommitBatch(p) PROVE MarkedSent' /\ PublishedSent'
  <2>1. \A q \in Publishers : emitted'[q] \subseteq emitted[q]
    BY <1>0, <1>5 DEF CommitBatch
  <2>2. \A e \in Events : outbox'[e] = IF e \in emitted[p] THEN "PUBLISHED" ELSE outbox[e]
    BY <1>5 DEF CommitBatch
  <2> QED
    BY <1>1, <2>1, <2>2
<1>6. ASSUME NEW p \in Publishers, PublisherDies(p) PROVE MarkedSent' /\ PublishedSent'
  BY <1>0, <1>1, <1>6 DEF PublisherDies
<1>7. CASE RelayStep
  <2>1. ASSUME NEW p \in Publishers, Fetch(p) PROVE UNCHANGED <<outbox, emitted>>
    BY <2>1 DEF Fetch
  <2> QED
    BY <1>2, <1>3, <1>4, <1>5, <1>6, <1>7, <2>1 DEF RelayStep, Publish
<1>8. ASSUME NEW w \in Workers, Start(w) \/ Run(w) \/ TaskFails(w) \/ WorkerDies(w)
      PROVE  UNCHANGED <<outbox, emitted>>
  BY <1>8 DEF Start, Run, CheckProcessed, LoadUser, UpdateUser, CommitXp, PublishXp, TaskFails,
              WorkerDies, Stop, relayVars, publisherVars
<1>9. ASSUME NEW u \in Deletable, DeleteUser(u) PROVE UNCHANGED <<outbox, emitted>>
  BY <1>9 DEF DeleteUser, publisherVars
<1>10. ASSUME NEW e \in Events, CleanUp(e) PROVE UNCHANGED <<outbox, emitted>>
  BY <1>10 DEF CleanUp, relayVars, publisherVars
<1>11. CASE UNCHANGED vars
  BY <1>2, <1>11 DEF vars, relayVars, publisherVars
<1> QED
  BY <1>2, <1>7, <1>8, <1>9, <1>10, <1>11 DEF Next

\* A worker comes to its acknowledgement by committing.
LEMMA NextSettledLeave ==
  ASSUME XpInv, OnlySettledLeave, [Next]_vars
  PROVE  OnlySettledLeave'
<1>1. ASSUME settled \subseteq settled',
             \A x \in Workers : pc'[x] = "publish" => pc[x] = "publish" /\ held'[x] = held[x]
      PROVE  OnlySettledLeave'
  BY <1>1 DEF OnlySettledLeave, Event
<1>2. CASE UNCHANGED <<pc, held, settled>>
  BY <1>1, <1>2
<1>3. ASSUME NEW w \in Workers, NEW from, NEW to, to # "publish", Goto(w, from, to),
             settled' = settled, \A x \in Workers \ {w} : held'[x] = held[x]
      PROVE  OnlySettledLeave'
  BY <1>1, <1>3 DEF Goto, XpInv, TypeOK
<1>4. ASSUME NEW w \in Workers, NEW from, Stop(w, from), Acknowledge(w) \/ Requeue(w) \/ Retry(w)
      PROVE  OnlySettledLeave'
  <2>1. \A x \in Workers \ {w} : held'[x] = held[x]
    BY <1>4 DEF Acknowledge, Requeue, Retry, XpInv, TypeOK, RelayTypeOK
  <2> QED
    BY <1>3, <1>4, <2>1 DEF Stop, rowVars
<1>5. ASSUME NEW w \in Workers, Start(w) PROVE OnlySettledLeave'
  <2>1. \A x \in Workers \ {w} : held'[x] = held[x]
    BY <1>5 DEF Start, Take, XpInv, TypeOK, RelayTypeOK
  <2> QED
    BY <1>3, <1>5, <2>1 DEF Start, rowVars
<1>6. ASSUME NEW w \in Workers, Run(w) PROVE OnlySettledLeave'
  <2>1. CASE \E from : Stop(w, from) /\ (Acknowledge(w) \/ Requeue(w) \/ Retry(w))
    BY <1>4, <2>1
  <2>2. CASE \E from, to : /\ to # "publish" /\ Goto(w, from, to)
                           /\ UNCHANGED <<relayVars, rowVars>>
    BY <1>3, <2>2 DEF relayVars, brokerVars, rowVars
  <2>3. CASE /\ Goto(w, "commit", "publish") /\ UNCHANGED relayVars
             /\ settled' = settled \cup {Event(w)}
    <3>1. held' = held /\ Event(w)' = Event(w)
      BY <2>3 DEF relayVars, brokerVars, Event
    <3>2. \A x \in Workers \ {w} : pc'[x] = pc[x] /\ Event(x)' = Event(x)
      BY <2>3, <3>1 DEF Goto, Event, XpInv, TypeOK
    <3> QED
      BY <2>3, <3>1, <3>2 DEF OnlySettledLeave
  <2> QED
    BY <1>6, <2>1, <2>2, <2>3 DEF Run, CheckProcessed, LoadUser, UpdateUser, CommitXp, PublishXp
<1>7. ASSUME NEW w \in Workers, TaskFails(w) \/ WorkerDies(w) PROVE OnlySettledLeave'
  BY <1>4, <1>7 DEF TaskFails, WorkerDies
<1>8. CASE RelayStep
  BY <1>2, <1>8 DEF RelayStep, workerVars, rowVars, Record, Publish, Fetch, Emit, CommitBatch,
                    PublisherDies, brokerVars
<1>9. ASSUME NEW u \in Deletable, DeleteUser(u) PROVE OnlySettledLeave'
  BY <1>2, <1>9 DEF DeleteUser, brokerVars, workerVars, rowVars
<1>10. ASSUME NEW e \in Events, CleanUp(e) PROVE OnlySettledLeave'
  BY <1>2, <1>10 DEF CleanUp, relayVars, brokerVars, workerVars
<1>11. CASE UNCHANGED vars
  BY <1>2, <1>11 DEF vars, relayVars, brokerVars, workerVars, rowVars
<1> QED
  BY <1>5, <1>6, <1>7, <1>8, <1>9, <1>10, <1>11 DEF Next

LEMMA InitDelivery == Init => DeliveryInv
<1> SUFFICES ASSUME Init PROVE DeliveryInv
  OBVIOUS
<1>1. MarkedSent /\ PublishedSent /\ OnlySettledLeave
  BY DEF Init, RelayInit, MarkedSent, PublishedSent, OnlySettledLeave
<1> QED
  BY <1>1, InitInv DEF DeliveryInv

LEMMA NextDelivery == DeliveryInv /\ [Next]_vars => DeliveryInv'
<1> SUFFICES ASSUME DeliveryInv, [Next]_vars PROVE DeliveryInv'
  OBVIOUS
<1>1. XpInv'
  BY NextInv DEF DeliveryInv
<1>2. MarkedSent' /\ PublishedSent'
  BY NextDelivered, NextSent DEF DeliveryInv
<1>3. OnlySettledLeave'
  BY NextSettledLeave DEF DeliveryInv
<1> QED
  BY <1>1, <1>2, <1>3 DEF DeliveryInv

LEMMA DeliveryInvariant == Spec => []DeliveryInv
<1> QED
  BY InitDelivery, NextDelivery, PTL DEF Spec

\* Publishers that overlap or die, workers that die, failed tasks and retries lose no
\* published event: its task is in flight, or the event is settled, or it was given up.
THEOREM PublishedStayKnown == Spec => []PublishedNotForgotten
<1>1. DeliveryInv => PublishedNotForgotten
  BY DEF DeliveryInv, PublishedSent, PublishedNotForgotten, Delivered, GivenUp
<1> QED
  BY <1>1, DeliveryInvariant, PTL

\* Once its XP task has been sent, no step takes an event out of flight without settling
\* it or giving it up, and a row that has been settled or given up is so for good.
THEOREM DeliveredForGood == Spec => [][\A e \in Events : Delivered(e) => Delivered(e)']_vars
<1>1. DeliveryInv /\ [Next]_vars => [\A e \in Events : Delivered(e) => Delivered(e)']_vars
  BY NextDelivered DEF DeliveryInv
<1> QED
  BY <1>1, DeliveryInvariant, PTL DEF Spec
=============================================================================
