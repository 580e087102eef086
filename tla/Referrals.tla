----------------------------- MODULE Referrals -----------------------------
(***************************************************************************)
(* POST /auth/init: a login, and the rewards of a player who comes by      *)
(* another one's referral link.                                            *)
(*                                                                         *)
(* users.xp is counted in rewards of 500.  Abstracted away: the signature  *)
(* and the age of initData, the Telegram fields of users, and the tokens   *)
(* and the refresh session of the answer.                                  *)
(***************************************************************************)
EXTENDS PlayerSessions

CONSTANTS
    InitData,      \* what Telegram hands out: logins, with the inviter of the link
    MaxLapses      \* bound on the failures of the replay guard

ASSUME InitDataAssumption ==
    /\ InitData \subseteq {j \in Jobs : j.kind = "login"}
    /\ MaxLapses \in Nat

VARIABLES
    guard,         \* initData with a tg_init_data key in Redis
    lapses,        \* failures of the guard so far
    referrer,      \* users.referred_by_id
    xp,            \* users.xp
    signups,       \* xp_events of a player with source referral_signup
    bonuses        \* ... and with source referral_bonus

referralVars == <<guard, lapses, referrer, xp, signups, bonuses>>

ReferralsInit ==
    /\ guard = {} /\ lapses = 0
    /\ referrer = [p \in Players |-> Nobody]
    /\ xp = [p \in Players |-> 0]
    /\ signups = [p \in Players |-> 0]
    /\ bonuses = [p \in Players |-> 0]

\* A login has inserted the row of its newcomer and not committed it: until it ends,
\* whoever inserts the same player waits at the unique index on tg_id.
Inserting(p) == \E s \in Sessions : pc[s] \in {"referrer", "reward"} /\ job[s].who = p

-----------------------------------------------------------------------------
\* ensure_not_replayed: SET NX, before the session opens.  InitData that was used is
\* refused, unless Redis fails or has lost the key.
EnsureNotReplayed(s) == \E d \in InitData :
    /\ Begin(s, d, "find user")
    /\ \/ d \notin guard /\ guard' = guard \cup {d} /\ UNCHANGED lapses
       \/ d \in guard /\ lapses < MaxLapses /\ lapses' = lapses + 1 /\ UNCHANGED guard
    /\ UNCHANGED <<referrer, xp, signups, bonuses>>

\* A player with a row gets a session and never another referrer.
FindUser(s) ==
    /\ pc[s] = "find user"
    /\ IF job[s].who \in users THEN Finish(s) /\ UNCHANGED <<users, raced>>
                               ELSE Goto(s, "find user", "insert user") /\ UNCHANGED seen
    /\ UNCHANGED referralVars

\* The accounts the link of p's login may name.  The foreign key is checked after the
\* INSERT: the row it looks for may be the new one, if that was given the id in the link.
Named(p) == users \cup {p}

\* Mutant: the error of the unique index is taken for a row that was inserted.
BugInsertUser(s) ==
    LET p == job[s].who  by == job[s].of IN
    /\ pc[s] = "insert user"
    /\ \/ by \in Named(p) /\ Goto(s, "insert user", "referrer") /\ UNCHANGED seen
       \/ /\ by \notin Named(p) /\ Finish(s)
          /\ users' = users \cup {q \in {p} : by = Nobody} /\ UNCHANGED raced
    /\ UNCHANGED referralVars

\* The INSERT and its three ends: an error, for a player another login has inserted
\* or an inviter who does not exist; the end of a login without an inviter; and the
\* rewards of one with an inviter.
InsertUser(s) ==
    LET p == job[s].who  by == job[s].of IN
    /\ pc[s] = "insert user" /\ ~Inserting(p)
    /\ \/ /\ p \in users \/ by \notin Named(p) \cup {Nobody}
          /\ Finish(s) /\ UNCHANGED <<users, raced>>
       \/ p \notin users /\ by = Nobody /\ Finish(s) /\ users' = users \cup {p} /\ UNCHANGED raced
       \/ p \notin users /\ by \in Named(p) /\ Goto(s, "insert user", "referrer") /\ UNCHANGED seen
    /\ UNCHANGED referralVars

\* get_user_by_id of the inviter, after the newcomer's own reward: the session has that
\* reward already in the object it finds, if the newcomer came by a link to itself.
LoadReferrer(s) ==
    LET p == job[s].who  by == job[s].of IN
    /\ Goto(s, "referrer", "reward")
    /\ seen' = [seen EXCEPT ![s] = IF by = p THEN 1 ELSE xp[by]]
    /\ UNCHANGED referralVars

\* Both rewards, their events and the newcomer, in one commit.  The inviter's xp is
\* what was read of it, and the reward.
Reward(s) ==
    LET p == job[s].who  by == job[s].of IN
    /\ pc[s] = "reward" /\ Finish(s)
    /\ users' = users \cup {p}
    /\ referrer' = [referrer EXCEPT ![p] = by]
    /\ xp' = [xp EXCEPT ![p] = 1, ![by] = seen[s] + 1]
    /\ signups' = [signups EXCEPT ![p] = @ + 1]
    /\ bonuses' = [bonuses EXCEPT ![by] = @ + 1]
    /\ raced' = Races(s, "xp", by, {"reward"})
    /\ UNCHANGED <<guard, lapses>>

\* A crash or an error of the database.
LoginFails(s) ==
    /\ pc[s] # "idle" /\ job[s].kind = "login" /\ Finish(s)
    /\ UNCHANGED <<users, raced, referralVars>>

Login(s) == \/ EnsureNotReplayed(s) \/ FindUser(s) \/ InsertUser(s)
            \/ LoadReferrer(s) \/ Reward(s) \/ LoginFails(s)
=============================================================================
