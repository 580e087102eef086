------------------------------ MODULE UserRow ------------------------------
(***************************************************************************)
(* The users row of one player, and the requests and tasks that write it.  *)
(*                                                                         *)
(* Each of them works on a copy of the row that it read earlier, often in  *)
(* another session (get_current_user), and writes ABSOLUTE values back.    *)
(* BaseRepository.update sends only the columns that differ from the copy, *)
(* and the row is locked from that UPDATE to the commit, so a transaction  *)
(* whose reads are over by then is one step.                               *)
(*                                                                         *)
(* xp is modelled by what it contains: xp[s] is how often the XP of source *)
(* s is in it.  An amount of coins or fragments is a number, beside what   *)
(* has been spent of it on each cosmetic.                                  *)
(***************************************************************************)
EXTENDS Integers

CONSTANTS
    Requests,          \* sessions of requests and tasks that may overlap
    Sources,           \* the sources of XP, as xp_events names them
    Cosmetics,         \* the items of the shop
    FirstCoins,        \* what the player has at first
    FirstFragments,
    Workloads,         \* the choices of tasks that are asked for
    Idle,              \* the task of a session with nothing to do
    MaxClock           \* bound on the clock

ASSUME UserRowAssumption ==
    /\ FirstCoins \in Nat /\ FirstFragments \in Nat
    /\ MaxClock \in Nat \ {0, 1}
    /\ \A tasks \in Workloads : Idle \notin tasks

VARIABLES
    workload,          \* the tasks that are asked for, any number of times
    clock,             \* time, in half days
    row,               \* the committed users row
    history,           \* rows of xp_events, by source
    task,              \* what a session does
    pc,                \* its next step
    seen,              \* its copy of the users row
    since,             \* when it was read
    found              \* sources it has found in another table

sessionVars == <<task, pc, seen, since, found>>
baseVars == <<workload, clock, row, history, sessionVars>>

Hour(t) == 12 * t
Day(t) == Hour(t) \div 24

Wallet == [amount : Int, spent : [Cosmetics -> Nat]]
Row == [xp : [Sources -> Nat], coins : Wallet, fragments : Wallet,
        login : Nat, streak : Nat, daily : Nat]

\* Day 0 stands for "never": the clock starts on day 1.
FirstRow ==
    [xp |-> [s \in Sources |-> 0],
     coins |-> [amount |-> FirstCoins, spent |-> [i \in Cosmetics |-> 0]],
     fragments |-> [amount |-> FirstFragments, spent |-> [i \in Cosmetics |-> 0]],
     login |-> 0, streak |-> 0, daily |-> 0]

BaseInit ==
    /\ workload \in Workloads
    /\ clock = 2
    /\ row = FirstRow
    /\ history = [s \in Sources |-> 0]
    /\ task = [r \in Requests |-> Idle]
    /\ pc = [r \in Requests |-> "idle"]
    /\ seen = [r \in Requests |-> FirstRow]
    /\ since = [r \in Requests |-> 0]
    /\ found = [r \in Requests |-> {}]

-----------------------------------------------------------------------------
\* get_current_user, or get_user_by_id in a task: the copy of the row.
Begin(r, t, step) ==
    /\ t \in workload
    /\ pc[r] = "idle"
    /\ pc' = [pc EXCEPT ![r] = step]
    /\ task' = [task EXCEPT ![r] = t]
    /\ seen' = [seen EXCEPT ![r] = row]
    /\ since' = [since EXCEPT ![r] = clock]
    /\ UNCHANGED <<workload, clock, row, history, found>>

Goto(r, from, to) ==
    /\ pc[r] = from
    /\ pc' = [pc EXCEPT ![r] = to]
    /\ UNCHANGED <<workload, clock, task, seen, since>>

\* An answer, an error or the end of a task: the session is gone.
Finish(r, from) ==
    /\ pc[r] = from
    /\ pc' = [pc EXCEPT ![r] = "idle"]
    /\ task' = [task EXCEPT ![r] = Idle]
    /\ seen' = [seen EXCEPT ![r] = FirstRow]
    /\ since' = [since EXCEPT ![r] = 0]
    /\ found' = [found EXCEPT ![r] = {}]
    /\ UNCHANGED <<workload, clock>>

\* A crash or an error: everything is rolled back.
Fail(r) ==
    /\ pc[r] # "idle"
    /\ Finish(r, pc[r])
    /\ UNCHANGED <<row, history>>

\* Mutant: the UPDATE sends every column of the copy.
BugWholeRow(base, s) ==
    [base EXCEPT !.xp[s] = @ + 1, !.coins.amount = @ + 1]

\* Mutant: the UPDATE adds to what is committed, and loses nothing.
BugRelative(base, s) ==
    [row EXCEPT !.xp[s] = @ + 1, !.coins.amount = @ + 1]

\* add_xp_and_check_level_up: xp and coins as they were in the copy, with the reward.
Paid(base, s) ==
    [row EXCEPT !.xp = [base.xp EXCEPT ![s] = @ + 1],
                !.coins = [base.coins EXCEPT !.amount = @ + 1]]

\* A row of xp_events.
Recorded(s) == [history EXCEPT ![s] = @ + 1]

\* A session may see midnight, but it does not last for a day.
Tick ==
    /\ clock < MaxClock
    /\ \A r \in Requests : pc[r] # "idle" => since[r] = clock
    /\ clock' = clock + 1
    /\ UNCHANGED <<workload, row, history, sessionVars>>

-----------------------------------------------------------------------------
BaseTypeOK ==
    /\ workload \in Workloads
    /\ clock \in 2 .. MaxClock
    /\ row \in Row
    /\ history \in [Sources -> Nat]
    /\ task \in [Requests -> workload \cup {Idle}]
    /\ seen \in [Requests -> Row]
    /\ since \in [Requests -> 0 .. MaxClock]
    /\ found \in [Requests -> SUBSET Sources]
=============================================================================
