--------------------------- MODULE RefreshSession ---------------------------
(***************************************************************************)
(* Refresh tokens: POST /auth/init (its refresh session), POST             *)
(* /auth/refresh and POST /auth/logout, cleanup_refresh_sessions, and the  *)
(* cookie the client keeps.                                                *)
(*                                                                         *)
(* A login starts a chain of sessions, every refresh replaces the last one *)
(* by a new one.  Tokens are numbered in the order they are issued, which  *)
(* is the order they expire in (one TTL for all).  The SELECT ... FOR      *)
(* UPDATE of a request is its first look at the row, so what it sees is    *)
(* the committed row it has locked.  Requests of one client overlap (tabs, *)
(* retries), their responses come in any order or not at all.              *)
(***************************************************************************)
EXTENDS Naturals, FiniteSets

CONSTANTS
    Requests,      \* HTTP requests, each sent once at most
    Clients,
    Browsers,      \* clients that attach a cookie to the requests under its path only
    MaxTokens,     \* bound: refresh tokens issued
    NoRequest      \* the holder of a free row lock

ASSUME SessionAssumption ==
    /\ Browsers \subseteq Clients
    /\ MaxTokens \in Nat
    /\ NoRequest \notin Requests

VARIABLES
    status,        \* the row of a token in refresh_sessions
    replacedBy,    \* refresh_sessions.replaced_by_session_id
    origin,        \* history: the token of the login that started the chain
    issued,        \* tokens issued so far
    expired,       \* tokens whose lifetime is over
    rowLock,       \* the request that has locked the row of a token
    cookie,        \* the refresh cookie of a client
    job,           \* endpoint and client of a request
    pc,            \* the step a request takes next
    held,          \* history: the client's cookie when it sent the request
    token,         \* the token that came with the request
    fresh,         \* the token the request has issued
    answer         \* the response

dbVars == <<status, replacedBy, origin, issued>>
requestVars == <<job, held, token>>
vars == <<dbVars, expired, rowLock, cookie, requestVars, pc, fresh, answer>>

Tokens == 1 .. MaxTokens
NoToken == 0

Kinds == {"login", "refresh", "logout"}
Steps == {"new", "insert", "lock", "rotate", "revoke", "reply", "done"}
Answers == {"none", "ok", "missing", "invalid", "expired", "revoked", "reuse", "failed", "lost"}

Init ==
    /\ status = [t \in Tokens |-> "absent"]
    /\ replacedBy = [t \in Tokens |-> NoToken]
    /\ origin = [t \in Tokens |-> NoToken]
    /\ issued = 0
    /\ expired = 0
    /\ rowLock = [t \in Tokens |-> NoRequest]
    /\ cookie = [c \in Clients |-> NoToken]
    /\ job \in [Requests -> [kind : Kinds, client : Clients]]
    /\ pc = [r \in Requests |-> "new"]
    /\ held = [r \in Requests |-> NoToken]
    /\ token = [r \in Requests |-> NoToken]
    /\ fresh = [r \in Requests |-> NoToken]
    /\ answer = [r \in Requests |-> "none"]

Kind(r) == job[r].kind
Client(r) == job[r].client

-----------------------------------------------------------------------------
Goto(r, from, to) ==
    /\ pc[r] = from
    /\ pc' = [pc EXCEPT ![r] = to]

Unlock(r) == rowLock' = [t \in Tokens |-> IF rowLock[t] = r THEN NoRequest ELSE rowLock[t]]

\* The request ends with an error (or a logout that changes nothing).
Leave(r, from, what) ==
    /\ Goto(r, from, "done")
    /\ answer' = [answer EXCEPT ![r] = what]
    /\ Unlock(r)
    /\ UNCHANGED <<dbVars, expired, cookie, fresh>>

\* The cookie's path is /api/v1/auth/refresh: a browser keeps it from /auth/logout.
Attached(r) ==
    IF Client(r) \in Browsers /\ Kind(r) # "refresh" THEN NoToken ELSE cookie[Client(r)]

\* The client sends the request; a token that is missing or expired stops a refresh,
\* a missing one ends a logout before it has cleared any cookie.
Send(r) ==
    /\ token' = [token EXCEPT ![r] = Attached(r)]
    /\ held' = [held EXCEPT ![r] = cookie[Client(r)]]
    /\ UNCHANGED job
    /\ \/ /\ Kind(r) = "login"
          /\ Goto(r, "new", "insert")
          /\ UNCHANGED <<dbVars, expired, rowLock, cookie, fresh, answer>>
       \/ /\ Kind(r) = "refresh" /\ Attached(r) = NoToken
          /\ Leave(r, "new", "missing")
       \/ /\ Kind(r) = "refresh" /\ Attached(r) # NoToken /\ Attached(r) <= expired
          /\ Leave(r, "new", "expired")
       \/ /\ Kind(r) = "logout" /\ Attached(r) = NoToken
          /\ Leave(r, "new", "ok")
       \/ /\ Attached(r) # NoToken
          /\ Kind(r) = "logout" \/ (Kind(r) = "refresh" /\ Attached(r) > expired)
          /\ Goto(r, "new", "lock")
          /\ UNCHANGED <<dbVars, expired, rowLock, cookie, fresh, answer>>

\* Mutant: the number of the new token is not used up.
BugReuseJti(r) ==
    /\ issued < MaxTokens
    /\ fresh' = [fresh EXCEPT ![r] = issued + 1]
    /\ UNCHANGED issued

\* create_refresh_token and create_refresh_session: a jti that nobody had before.
IssueToken(r) ==
    /\ issued < MaxTokens
    /\ issued' = issued + 1
    /\ fresh' = [fresh EXCEPT ![r] = issued + 1]

\* Login: a session of its own.
InsertSession(r) ==
    /\ Goto(r, "insert", "reply")
    /\ IssueToken(r)
    /\ status' = [status EXCEPT ![issued + 1] = "active"]
    /\ origin' = [origin EXCEPT ![issued + 1] = issued + 1]
    /\ UNCHANGED <<replacedBy, expired, rowLock, cookie, requestVars, answer>>

\* Mutants: the row is read without a lock; every revoked session counts as replaced.
BugNoForUpdate(r) == TRUE
BugIsReplaced(t) == status[t] = "revoked"

\* The SELECT ... FOR UPDATE waits for the row.
CanLock(r) == rowLock[token[r]] = NoRequest

IsReplaced(t) == replacedBy[t] # NoToken

\* get_session_for_refresh.
LockForRefresh(r) ==
    /\ pc[r] = "lock" /\ Kind(r) = "refresh"
    /\ CanLock(r)
    /\ \/ /\ status[token[r]] = "absent"
          /\ Leave(r, "lock", "invalid")
       \/ /\ status[token[r]] = "revoked"
          /\ Leave(r, "lock", IF IsReplaced(token[r]) THEN "reuse" ELSE "revoked")
       \/ /\ status[token[r]] = "active" /\ token[r] <= expired
          /\ Leave(r, "lock", "expired")
       \/ /\ status[token[r]] = "active" /\ token[r] > expired
          /\ Goto(r, "lock", "rotate")
          /\ rowLock' = [rowLock EXCEPT ![token[r]] = r]
          /\ UNCHANGED <<dbVars, expired, cookie, fresh, answer>>
    /\ UNCHANGED requestVars

\* revoke_by_refresh_token: whatever is not active is left alone.
LockForLogout(r) ==
    /\ pc[r] = "lock" /\ Kind(r) = "logout"
    /\ CanLock(r)
    /\ \/ /\ status[token[r]] # "active"
          /\ Goto(r, "lock", "reply")
          /\ UNCHANGED rowLock
       \/ /\ status[token[r]] = "active"
          /\ Goto(r, "lock", "revoke")
          /\ rowLock' = [rowLock EXCEPT ![token[r]] = r]
    /\ UNCHANGED <<dbVars, expired, cookie, requestVars, fresh, answer>>

\* New session, old one revoked and replaced, in one commit.
Rotate(r) ==
    /\ Goto(r, "rotate", "reply")
    /\ IssueToken(r)
    /\ status' = [status EXCEPT ![token[r]] = "revoked", ![issued + 1] = "active"]
    /\ replacedBy' = [replacedBy EXCEPT ![token[r]] = issued + 1]
    /\ origin' = [origin EXCEPT ![issued + 1] = origin[token[r]]]
    /\ Unlock(r)
    /\ UNCHANGED <<expired, cookie, requestVars, answer>>

\* Mutant: logout forgets the UPDATE.
BugForgetRevoke(r) ==
    /\ Goto(r, "revoke", "reply")
    /\ Unlock(r)
    /\ UNCHANGED <<dbVars, expired, cookie, requestVars, fresh, answer>>

Revoke(r) ==
    /\ Goto(r, "revoke", "reply")
    /\ status' = [status EXCEPT ![token[r]] = "revoked"]
    /\ Unlock(r)
    /\ UNCHANGED <<replacedBy, origin, issued, expired, cookie, requestVars, fresh, answer>>

\* The response reaches the client, with its Set-Cookie, or it does not.
Reply(r) ==
    /\ Goto(r, "reply", "done")
    /\ \/ /\ answer' = [answer EXCEPT ![r] = "ok"]
          /\ cookie' = [cookie EXCEPT ![Client(r)] = fresh[r]]
       \/ /\ answer' = [answer EXCEPT ![r] = "lost"]
          /\ UNCHANGED cookie
    /\ UNCHANGED <<dbVars, expired, rowLock, requestVars, fresh>>

\* An exception or a crash before the commit rolls back.
Fail(r) ==
    /\ pc[r] \in {"insert", "lock", "rotate", "revoke"}
    /\ Leave(r, pc[r], "failed")
    /\ UNCHANGED requestVars

Expire ==
    /\ expired < issued
    /\ expired' = expired + 1
    /\ UNCHANGED <<dbVars, rowLock, cookie, requestVars, pc, fresh, answer>>

\* cleanup_refresh_sessions: the DELETE waits for locked rows; ON DELETE SET NULL.
CleanUp ==
    /\ \E t \in Tokens : t <= expired /\ status[t] # "absent"
    /\ \A t \in Tokens : t <= expired => rowLock[t] = NoRequest
    /\ status' = [t \in Tokens |-> IF t <= expired THEN "absent" ELSE status[t]]
    /\ replacedBy' = [t \in Tokens |-> IF t <= expired THEN NoToken ELSE replacedBy[t]]
    /\ UNCHANGED <<origin, issued, expired, rowLock, cookie, requestVars, pc, fresh, answer>>

-----------------------------------------------------------------------------
Step(r) ==
    \/ InsertSession(r) \/ LockForRefresh(r) \/ LockForLogout(r)
    \/ Rotate(r) \/ Revoke(r) \/ Reply(r)

Next ==
    \/ \E r \in Requests : Send(r) \/ Step(r) \/ Fail(r)
    \/ Expire
    \/ CleanUp

Spec == Init /\ [][Next]_vars

-----------------------------------------------------------------------------
TypeOK ==
    /\ status \in [Tokens -> {"absent", "active", "revoked"}]
    /\ replacedBy \in [Tokens -> Tokens \cup {NoToken}]
    /\ origin \in [Tokens -> Tokens \cup {NoToken}]
    /\ issued \in 0 .. MaxTokens
    /\ expired \in 0 .. issued
    /\ rowLock \in [Tokens -> Requests \cup {NoRequest}]
    /\ cookie \in [Clients -> 0 .. issued]
    /\ job \in [Requests -> [kind : Kinds, client : Clients]]
    /\ pc \in [Requests -> Steps]
    /\ held \in [Requests -> 0 .. issued]
    /\ token \in [Requests -> 0 .. issued]
    /\ fresh \in [Requests -> 0 .. issued]
    /\ answer \in [Requests -> Answers]

\* A login has one live session at any time, however many tabs refresh at once and
\* whatever responses are lost: the rotation never forks the chain.
OneLiveSession ==
    \A t, u \in Tokens :
        status[t] = "active" /\ status[u] = "active" /\ origin[t] = origin[u] => t = u

\* A token buys one successor: of all the requests that ever came with it, one at most
\* got a new token.
TokenRotatedOnce ==
    \A r, q \in Requests :
        /\ Kind(r) = "refresh" /\ Kind(q) = "refresh"
        /\ fresh[r] # NoToken /\ fresh[q] # NoToken
        /\ token[r] = token[q]
        => r = q

\* refresh_reuse_detected is never a false alarm: another request has rotated this
\* very token before (a token that was only logged out is answered as revoked).
ReuseIsReal ==
    \A r \in Requests : answer[r] = "reuse" =>
        \E q \in Requests \ {r} :
            Kind(q) = "refresh" /\ token[q] = token[r] /\ fresh[q] # NoToken

\* A logout that got its token and was answered has ended that session for good.
LogoutEndsSession ==
    \A r \in Requests :
        Kind(r) = "logout" /\ answer[r] = "ok" /\ token[r] # NoToken => status[token[r]] # "active"

\* BACKEND_TZ.md:2356: logout revokes the session.  The session is the one the client's
\* cookie names.
LogoutRevokes ==
    \A r \in Requests :
        Kind(r) = "logout" /\ answer[r] = "ok" /\ held[r] # NoToken => status[held[r]] # "active"

\* Sessions implement LoginChains: a request sees one valid token for a login at most, the
\* one issued last, whichever tabs refresh, log out or fail at once, and a login that was
\* ended stays ended.  A session is live as long as its row is active, expired or not: a
\* refresh that has locked the row in time may still rotate it.
Live == [login \in Tokens |-> {t \in Tokens : status[t] = "active" /\ origin[t] = login}]

Chain == INSTANCE LoginChains WITH used <- 1 .. issued, live <- Live

ImplementsChains == Chain!Spec
=============================================================================
