---------------------------- MODULE OutboxRelay -----------------------------
(***************************************************************************)
(* The transactional outbox and the Celery broker: publish_outbox_events,  *)
(* EventDispatcher.emit and what the Celery settings (acks late, reject on *)
(* worker lost, max_retries = 3) make of a message.                        *)
(*                                                                         *)
(* Beat starts a publisher every two seconds whether or not the last one   *)
(* has ended, so publishers overlap; a publisher reads its batch without   *)
(* locking it, sends messages one by one and marks the events it sent in   *)
(* one commit at the end.  A message is a task to run for an event; the    *)
(* broker hands messages out in any order.                                 *)
(*                                                                         *)
(* The module has the relay's actions and, for the modules that extend it, *)
(* what a worker can do with the message it holds.                         *)
(***************************************************************************)
EXTENDS Naturals, Sequences, FiniteSets

CONSTANTS
    Events,        \* outbox events that may be written
    TasksOf,       \* the tasks emit() starts for an event, in order
    Publishers,    \* runs of publish_outbox_events that may overlap
    Workers,       \* Celery worker processes
    BatchLimit,    \* LIMIT of the relay's query
    MaxRetries,    \* max_retries of the tasks
    MaxFaults,     \* bound: crashes, failed calls and deletions in a behaviour
    NoMessage      \* a worker that holds no message

TaskNames == UNION {{TasksOf[e][k] : k \in DOMAIN TasksOf[e]} : e \in Events}

ASSUME RelayAssumption ==
    /\ \A e \in Events : TasksOf[e] \in Seq(TaskNames)
    /\ BatchLimit \in Nat \ {0}
    /\ MaxRetries \in Nat /\ MaxFaults \in Nat

Messages == [task : TaskNames, event : Events, attempt : 0 .. MaxRetries]

ASSUME NoMessageAssumption == NoMessage \notin Messages

VARIABLES
    outbox,        \* status of each outbox event, "absent" before its commit
    batch,         \* events a publisher has read and not yet emitted
    emitted,       \* events a publisher will mark at its commit
    open,          \* publishers between their query and their commit
    queue,         \* copies of each message in the broker
    held,          \* the message each worker has taken and not acknowledged
    dropped,       \* tasks given up after the last retry
    faults         \* crashes, failed calls and deletions so far

publisherVars == <<batch, emitted, open>>
brokerVars == <<queue, held, dropped>>
relayVars == <<outbox, publisherVars, brokerVars, faults>>

RelayInit ==
    /\ outbox = [e \in Events |-> "absent"]
    /\ batch = [p \in Publishers |-> {}]
    /\ emitted = [p \in Publishers |-> {}]
    /\ open = {}
    /\ queue = [m \in Messages |-> 0]
    /\ held = [w \in Workers |-> NoMessage]
    /\ dropped = {}
    /\ faults = 0

RelayTypeOK ==
    /\ outbox \in [Events -> {"absent", "PENDING", "PUBLISHED"}]
    /\ batch \in [Publishers -> SUBSET Events]
    /\ emitted \in [Publishers -> SUBSET Events]
    /\ open \subseteq Publishers
    /\ queue \in [Messages -> Nat]
    /\ held \in [Workers -> Messages \cup {NoMessage}]
    /\ dropped \subseteq [task : TaskNames, event : Events]
    /\ faults \in 0 .. MaxFaults

Fault == faults < MaxFaults /\ faults' = faults + 1

-----------------------------------------------------------------------------
(* The relay *)

\* A committed business transaction leaves a PENDING event behind.
Record(e) ==
    /\ outbox[e] = "absent"
    /\ outbox' = [outbox EXCEPT ![e] = "PENDING"]
    /\ UNCHANGED <<publisherVars, brokerVars, faults>>

Pending == {e \in Events : outbox[e] = "PENDING"}

\* SELECT ... WHERE status = PENDING LIMIT: no order and no lock.
Fetch(p) ==
    /\ p \notin open
    /\ \E chosen \in SUBSET Pending :
          /\ chosen # {}
          /\ Cardinality(chosen) <= BatchLimit
          /\ chosen = Pending \/ Cardinality(chosen) = BatchLimit
          /\ batch' = [batch EXCEPT ![p] = chosen]
    /\ open' = open \cup {p}
    /\ UNCHANGED <<outbox, emitted, brokerVars, faults>>

\* The first n tasks of e are in the broker.
Send(e, n) ==
    queue' = [m \in Messages |->
                 IF m.event = e /\ m.attempt = 0 /\ \E k \in 1 .. n : TasksOf[e][k] = m.task
                 THEN queue[m] + 1 ELSE queue[m]]

\* Mutant: an event is marked although sending it failed.
BugMarkAnyway(p) ==
    /\ \E e \in batch[p] :
          /\ batch' = [batch EXCEPT ![p] = @ \ {e}]
          /\ emitted' = [emitted EXCEPT ![p] = @ \cup {e}]
          /\ \/ Send(e, Len(TasksOf[e])) /\ UNCHANGED faults
             \/ (\E n \in 0 .. Len(TasksOf[e]) - 1 : Send(e, n)) /\ Fault
    /\ UNCHANGED <<outbox, open, held, dropped>>

\* emit() starts every task of the event, or fails after some of them.
Emit(p) ==
    /\ \E e \in batch[p] :
          /\ batch' = [batch EXCEPT ![p] = @ \ {e}]
          /\ \/ /\ Send(e, Len(TasksOf[e]))
                /\ emitted' = [emitted EXCEPT ![p] = @ \cup {e}]
                /\ UNCHANGED faults
             \/ /\ \E n \in 0 .. Len(TasksOf[e]) - 1 : Send(e, n)
                /\ Fault
                /\ UNCHANGED emitted
    /\ UNCHANGED <<outbox, open, held, dropped>>

\* One commit marks what was emitted PUBLISHED.
CommitBatch(p) ==
    /\ p \in open /\ batch[p] = {}
    /\ outbox' = [e \in Events |-> IF e \in emitted[p] THEN "PUBLISHED" ELSE outbox[e]]
    /\ open' = open \ {p}
    /\ emitted' = [emitted EXCEPT ![p] = {}]
    /\ UNCHANGED <<batch, brokerVars, faults>>

\* The publisher dies before its commit: what it sent stays sent, nothing is marked.
PublisherDies(p) ==
    /\ p \in open
    /\ Fault
    /\ open' = open \ {p}
    /\ batch' = [batch EXCEPT ![p] = {}]
    /\ emitted' = [emitted EXCEPT ![p] = {}]
    /\ UNCHANGED <<outbox, brokerVars>>

Publish(p) == Fetch(p) \/ Emit(p) \/ CommitBatch(p)

-----------------------------------------------------------------------------
(* What a worker does with messages *)

Take(w, m) ==
    /\ held[w] = NoMessage
    /\ queue[m] > 0
    /\ queue' = [queue EXCEPT ![m] = @ - 1]
    /\ held' = [held EXCEPT ![w] = m]
    /\ UNCHANGED dropped

Acknowledge(w) ==
    /\ held' = [held EXCEPT ![w] = NoMessage]
    /\ UNCHANGED <<queue, dropped>>

\* Mutant: messages are acknowledged when they are taken (no acks_late).
BugEarlyAck(w) == Acknowledge(w)

\* A worker process that is lost has not acknowledged: the broker requeues.
Requeue(w) ==
    /\ queue' = [queue EXCEPT ![held[w]] = @ + 1]
    /\ held' = [held EXCEPT ![w] = NoMessage]
    /\ UNCHANGED dropped

\* self.retry(): a new message with the next attempt, or none after the last one.
Retry(w) ==
    /\ held' = [held EXCEPT ![w] = NoMessage]
    /\ IF held[w].attempt < MaxRetries
       THEN /\ queue' = [queue EXCEPT ![[held[w] EXCEPT !.attempt = @ + 1]] = @ + 1]
            /\ UNCHANGED dropped
       ELSE /\ dropped' = dropped \cup {[task |-> held[w].task, event |-> held[w].event]}
            /\ UNCHANGED queue

\* Somewhere a copy of the task is still to be run for e.
InFlight(task, e) ==
    \/ \E m \in Messages : m.task = task /\ m.event = e /\ queue[m] > 0
    \/ \E w \in Workers : held[w] # NoMessage /\ held[w].task = task /\ held[w].event = e
=============================================================================
