---------------------------- MODULE SeasonClose ----------------------------
(***************************************************************************)
(* close_active_season: when the active season has ended, the XP of public *)
(* users is archived, the XP of all is reset and the next season begins.   *)
(* Two runs may overlap.  Only user_season_history is unique, and private  *)
(* users have no rows there.                                               *)
(***************************************************************************)
EXTENDS UserRow

CONSTANTS
    Seasons,           \* numbered in the order of their starts
    SeasonStart,       \* by the clock
    SeasonEnd

ASSUME SeasonAssumption ==
    /\ Seasons \subseteq Nat
    /\ SeasonStart \in [Seasons -> Nat] /\ SeasonEnd \in [Seasons -> Nat]

VARIABLES
    public,            \* some user stays public
    active,            \* seasons that are active
    closing,           \* the season a run closes
    archived,          \* seasons with rows of user_season_history
    closings           \* history: how often a season has been closed

seasonVars == <<public, active, closing, archived, closings>>

Close == [kind |-> "close", of |-> "season"]

SeasonInit ==
    /\ public \in BOOLEAN
    /\ active \in {{n} : n \in {m \in Seasons : SeasonStart[m] <= 2}}
    /\ closing = [r \in Requests |-> {}]
    /\ archived = {}
    /\ closings = [n \in Seasons |-> 0]

BeginClose(r) == Begin(r, Close, "select season") /\ UNCHANGED seasonVars

\* The first row of the active seasons: nothing to do unless it had ended when the run began.
SelectSeason(r) ==
    /\ UNCHANGED <<row, history, public, active, archived, closings>>
    /\ \/ /\ \E n \in active : SeasonEnd[n] <= since[r] /\ closing' = [closing EXCEPT ![r] = {n}]
          /\ Goto(r, "select season", "close") /\ UNCHANGED found
       \/ /\ active = {} \/ \E n \in active : SeasonEnd[n] > since[r]
          /\ Finish(r, "select season") /\ UNCHANGED closing

\* Seasons that are not active once n has ended, and the first of them that is on.
Waiting(r, n) ==
    {m \in Seasons \ (active \ {n}) : SeasonStart[m] <= since[r] /\ SeasonEnd[m] > since[r]}
NextSeason(r, n) == {m \in Waiting(r, n) : \A o \in Waiting(r, n) : m <= o}

\* Mutant: user_season_history is not unique.
BugIsArchived(n) == FALSE /\ n \in archived

\* ux_user_season.
IsArchived(n) == public /\ n \in archived

Forget(r) == closing' = [closing EXCEPT ![r] = {}]

\* Archive, reset and the change of seasons are one commit; a duplicate rolls it back.
CloseSeason(r) ==
    \E n \in closing[r] :
        /\ Finish(r, "close")
        /\ Forget(r)
        /\ UNCHANGED <<history, public>>
        /\ \/ IsArchived(n) /\ UNCHANGED <<row, active, archived, closings>>
           \/ /\ ~IsArchived(n)
              /\ archived' = IF public THEN archived \cup {n} ELSE archived
              /\ row' = [row EXCEPT !.xp = [s \in Sources |-> 0]]
              /\ active' = (active \ {n}) \cup NextSeason(r, n)
              /\ closings' = [closings EXCEPT ![n] = @ + 1]

SeasonStep(r) == BeginClose(r) \/ SelectSeason(r) \/ CloseSeason(r)
=============================================================================
