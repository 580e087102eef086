--------------------------- MODULE PlayerSessions ---------------------------
(***************************************************************************)
(* The requests that link players to each other, and what they share: the  *)
(* table users.  Referrals and Stickers add what each kind of request does *)
(* in its session.  A session locks nothing it reads.  Of a row it writes  *)
(* the last write and the commit are one step: until then others read the  *)
(* row as it was, and whoever writes it waits.                             *)
(***************************************************************************)
EXTENDS Integers, FiniteSets

CONSTANTS
    Sessions,      \* requests that may overlap
    Players,       \* by their Telegram ids
    FirstUsers,    \* those with a users row at first
    Nobody,
    NoJob

ASSUME PlayersAssumption ==
    /\ FirstUsers \subseteq Players /\ IsFiniteSet(Players)
    /\ Nobody \notin Players

\* A request of a player, about another one: who invited them, or whose sticker it is.
\* A link names an account by its id, that is the player who has it or will be given it.
\* A login also has the number of its initData among those of the same link.
Jobs == [kind : {"login", "generate", "scan"}, who : Players, of : Players \cup {Nobody}, n : Nat]

VARIABLES
    users,         \* the players with a users row
    job,           \* what a session does
    pc,            \* the step it takes next
    seen,          \* the counter it read and will write: users.xp or scan_count
    raced          \* history: counters that were written between another session's
                   \* read and write

sessionVars == <<job, pc, seen>>
playerVars == <<users, sessionVars, raced>>

PlayersInit ==
    /\ users = FirstUsers
    /\ job = [s \in Sessions |-> NoJob]
    /\ pc = [s \in Sessions |-> "idle"]
    /\ seen = [s \in Sessions |-> 0]
    /\ raced = {}

Begin(s, j, step) ==
    /\ pc[s] = "idle"
    /\ job' = [job EXCEPT ![s] = j]
    /\ pc' = [pc EXCEPT ![s] = step]
    /\ UNCHANGED <<users, seen, raced>>

Goto(s, from, to) ==
    /\ pc[s] = from
    /\ pc' = [pc EXCEPT ![s] = to]
    /\ UNCHANGED <<users, job, raced>>

\* The answer, or an error that rolls everything back: the session is gone.
Finish(s) ==
    /\ job' = [job EXCEPT ![s] = NoJob]
    /\ pc' = [pc EXCEPT ![s] = "idle"]
    /\ seen' = [seen EXCEPT ![s] = 0]

\* The history of a write by s of a counter of player p: was another session between
\* its read and its write?
Races(s, counter, p, steps) ==
    raced \cup {r \in {<<counter, p>>} :
                 \E t \in Sessions \ {s} : pc[t] \in steps /\ job[t].of = p}
=============================================================================
