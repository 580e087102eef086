------------------------ MODULE RefreshSessionProofs ------------------------
(***************************************************************************)
(* Proofs about RefreshSession: whatever the number of requests, clients   *)
(* and tokens, a login has one live session, a token buys one successor,   *)
(* reuse is never a false alarm, a logout that got its token ends it, and  *)
(* all of it together is what LoginChains promises.                        *)
(*                                                                         *)
(* The argument rests on the row lock: between the look at a session and   *)
(* its revocation nobody else can revoke it (Working), so the live session *)
(* of a chain is always its newest one (LiveIsNewest).                     *)
(***************************************************************************)
EXTENDS RefreshSession, TLAPS

-----------------------------------------------------------------------------
(* The inductive invariant *)

\* What a request is at each of its steps.
Places ==
    \A r \in Requests :
        /\ pc[r] = "insert" => Kind(r) = "login"
        /\ pc[r] = "lock" => token[r] # NoToken
        /\ pc[r] = "rotate" => Kind(r) = "refresh"
        /\ pc[r] = "revoke" => Kind(r) = "logout"
        /\ fresh[r] # NoToken => pc[r] \in {"reply", "done"}
        /\ pc[r] # "done" => answer[r] = "none"

\* A request at work on a session holds its lock, and the session is live.
Working ==
    \A r \in Requests : pc[r] \in {"rotate", "revoke"} =>
        /\ token[r] # NoToken
        /\ rowLock[token[r]] = r
        /\ status[token[r]] = "active"

\* Every issued token belongs to a chain that began before it, or with it.
Chains ==
    \A t \in Tokens :
        /\ t > issued => status[t] = "absent" /\ origin[t] = NoToken
        /\ t <= issued => origin[t] \in 1 .. issued

LiveIsNewest ==
    \A t, u \in Tokens : status[t] = "active" /\ origin[u] = origin[t] => u <= t

\* A token that bought a successor is not live any more.
Rotated ==
    \A r \in Requests : Kind(r) = "refresh" /\ fresh[r] # NoToken =>
        token[r] # NoToken /\ status[token[r]] # "active"

\* A replaced session was replaced by a request.
Successors ==
    \A t \in Tokens : replacedBy[t] # NoToken =>
        \E q \in Requests : Kind(q) = "refresh" /\ token[q] = t /\ fresh[q] # NoToken

LoggedOut ==
    \A r \in Requests :
        Kind(r) = "logout" /\ token[r] # NoToken /\ (pc[r] = "reply" \/ answer[r] = "ok")
        => status[token[r]] # "active"

SessionInv ==
    /\ TypeOK /\ Places /\ Working /\ Chains /\ LiveIsNewest
    /\ Rotated /\ Successors /\ TokenRotatedOnce /\ ReuseIsReal /\ LoggedOut


-----------------------------------------------------------------------------
(* The shapes of a step *)

LEMMA UnlockFrame ==
  ASSUME TypeOK, NEW r \in Requests, Unlock(r)
  PROVE  /\ rowLock' \in [Tokens -> Requests \cup {NoRequest}]
         /\ \A t \in Tokens : rowLock[t] # r => rowLock'[t] = rowLock[t]
BY DEF Unlock, TypeOK

LEMMA GotoFrame ==
  ASSUME TypeOK, NEW r \in Requests, NEW from, NEW to \in Steps, Goto(r, from, to)
  PROVE  /\ pc[r] = from /\ pc'[r] = to
         /\ pc' \in [Requests -> Steps]
         /\ \A q \in Requests \ {r} : pc'[q] = pc[q]
BY DEF Goto, TypeOK

LEMMA SetFrame ==
  ASSUME NEW S, NEW T, NEW f \in [S -> T], NEW x \in S, NEW v \in T
  PROVE  LET g == [f EXCEPT ![x] = v]
         IN  g \in [S -> T] /\ g[x] = v /\ \A y \in S \ {x} : g[y] = f[y]
OBVIOUS

\* The token of a request was issued before.
LEMMA TokenIsKnown ==
  ASSUME TypeOK, NEW r \in Requests
  PROVE  /\ issued \in Nat /\ issued <= MaxTokens /\ token[r] <= issued
         /\ token[r] # NoToken => token[r] \in Tokens /\ token[r] # issued + 1
<1>1. issued \in 0 .. MaxTokens /\ token[r] \in 0 .. issued /\ MaxTokens \in Nat
  BY SessionAssumption DEF TypeOK
<1> QED
  BY <1>1 DEF Tokens, NoToken

\* A step of a request that leaves the sessions alone and does not start to work on one
\* (it may have a look at them, be answered, or give up).
LEMMA QuietStep ==
  ASSUME SessionInv, TypeOK', NEW r \in Requests,
         UNCHANGED <<dbVars, job, token, fresh>>,
         \A q \in Requests \ {r} : pc'[q] = pc[q] /\ answer'[q] = answer[q],
         \A q \in Requests \ {r} : \A t \in Tokens : rowLock[t] = q => rowLock'[t] = q,
         pc'[r] \in {"reply", "done"},
         pc'[r] # "done" => answer'[r] = "none",
         answer'[r] = "reuse" => pc[r] = "lock" /\ IsReplaced(token[r]) /\ token[r] \in Tokens,
         Kind(r) = "logout" /\ token[r] # NoToken /\ (pc'[r] = "reply" \/ answer'[r] = "ok")
           => status[token[r]] # "active"
  PROVE  SessionInv'
<1> USE DEF SessionInv, dbVars
<1>1. Places'
  BY DEF Places, Kind, TypeOK
<1>2. Working'
  <2> SUFFICES ASSUME NEW q \in Requests, pc'[q] \in {"rotate", "revoke"}
               PROVE  /\ token[q] # NoToken
                      /\ rowLock'[token[q]] = q
                      /\ status[token[q]] = "active"
    BY DEF Working
  <2>1. q # r /\ pc[q] \in {"rotate", "revoke"}
    OBVIOUS
  <2>2. token[q] \in Tokens
    BY <2>1, SessionAssumption DEF Working, TypeOK, Tokens, NoToken
  <2> QED
    BY <2>1, <2>2 DEF Working
<1>3. Chains' /\ LiveIsNewest' /\ Rotated' /\ Successors' /\ TokenRotatedOnce'
  BY DEF Chains, LiveIsNewest, Rotated, Successors, TokenRotatedOnce, Kind
<1>4. ReuseIsReal'
  <2> SUFFICES ASSUME NEW q \in Requests, answer'[q] = "reuse"
               PROVE  \E x \in Requests \ {q} :
                        Kind(x) = "refresh" /\ token[x] = token[q] /\ fresh[x] # NoToken
    BY DEF ReuseIsReal, Kind
  <2>1. CASE q = r
    <3>1. PICK x \in Requests :
            Kind(x) = "refresh" /\ token[x] = token[r] /\ fresh[x] # NoToken
      BY <2>1 DEF Successors, IsReplaced
    <3>2. pc[x] \in {"reply", "done"} /\ pc[r] = "lock"
      BY <2>1, <3>1 DEF Places
    <3> QED
      BY <2>1, <3>1, <3>2
  <2>2. CASE q # r
    BY <2>2 DEF ReuseIsReal
  <2> QED
    BY <2>1, <2>2
<1>5. LoggedOut'
  BY DEF LoggedOut, Kind
<1> QED
  BY <1>1, <1>2, <1>3, <1>4, <1>5

-----------------------------------------------------------------------------
(* Type correctness *)

LEMMA InitSession == Init => SessionInv
BY SessionAssumption DEF Init, SessionInv, TypeOK, Places, Working, Chains, LiveIsNewest,
   Rotated, Successors, TokenRotatedOnce, ReuseIsReal, LoggedOut, Tokens, NoToken, Kinds,
   Steps, Answers, Kind

LEMMA LeaveType ==
  ASSUME TypeOK, NEW r \in Requests, NEW from, NEW what \in Answers, Leave(r, from, what),
         UNCHANGED job, held' \in [Requests -> 0 .. issued], token' \in [Requests -> 0 .. issued]
  PROVE  TypeOK'
<1>1. rowLock' \in [Tokens -> Requests \cup {NoRequest}]
  BY UnlockFrame DEF Leave
<1>2. pc' \in [Requests -> Steps]
  BY GotoFrame DEF Leave, Steps
<1>3. answer' \in [Requests -> Answers]
  BY DEF Leave, TypeOK
<1> QED
  BY <1>1, <1>2, <1>3 DEF Leave, TypeOK, dbVars

\* The steps that issue no token and touch no session.
LEMMA LookType ==
  ASSUME TypeOK, NEW r \in Requests, LockForRefresh(r) \/ LockForLogout(r) \/ Reply(r) \/ Fail(r)
  PROVE  TypeOK'
<1>1. token[r] \in 0 .. MaxTokens /\ fresh[r] \in 0 .. issued
  BY SessionAssumption DEF TypeOK
<1>2. ASSUME rowLock' = [rowLock EXCEPT ![token[r]] = r]
      PROVE  rowLock' \in [Tokens -> Requests \cup {NoRequest}]
  BY <1>2 DEF TypeOK
<1>3. CASE LockForRefresh(r)
  <2>1. ASSUME NEW what \in Answers, Leave(r, "lock", what), UNCHANGED requestVars PROVE TypeOK'
    BY <2>1, LeaveType DEF requestVars, TypeOK
  <2>2. ASSUME Goto(r, "lock", "rotate"), rowLock' = [rowLock EXCEPT ![token[r]] = r],
               UNCHANGED <<dbVars, expired, cookie, fresh, answer, requestVars>>
        PROVE  TypeOK'
    <3>1. pc' \in [Requests -> Steps]
      BY <2>2, GotoFrame DEF Steps
    <3> QED
      BY <1>2, <2>2, <3>1 DEF TypeOK, dbVars, requestVars
  <2> QED
    BY <1>3, <2>1, <2>2 DEF LockForRefresh, Answers
<1>4. CASE LockForLogout(r)
  <2>1. pc' \in [Requests -> Steps]
    BY <1>4, GotoFrame DEF LockForLogout, Steps
  <2> QED
    BY <1>2, <1>4, <2>1 DEF LockForLogout, TypeOK, dbVars, requestVars
<1>5. CASE Reply(r)
  <2>1. pc' \in [Requests -> Steps]
    BY <1>5, GotoFrame DEF Reply, Steps
  <2>2. cookie' \in [Clients -> 0 .. issued]
    BY <1>1, <1>5 DEF Reply, TypeOK
  <2>3. answer' \in [Requests -> Answers]
    BY <1>5 DEF Reply, TypeOK, Answers
  <2> QED
    BY <1>5, <2>1, <2>2, <2>3 DEF Reply, TypeOK, dbVars, requestVars
<1>6. CASE Fail(r)
  BY <1>6, LeaveType DEF Fail, requestVars, Answers, TypeOK
<1> QED
  BY <1>3, <1>4, <1>5, <1>6

LEMMA SendType ==
  ASSUME TypeOK, NEW r \in Requests, Send(r)
  PROVE  TypeOK'
<1>1. Attached(r) \in 0 .. issued /\ cookie[Client(r)] \in 0 .. issued
  BY DEF Attached, Client, TypeOK, NoToken
<1>2. /\ token' \in [Requests -> 0 .. issued]
      /\ held' \in [Requests -> 0 .. issued]
      /\ UNCHANGED job
  BY <1>1 DEF Send, TypeOK
<1>3. ASSUME NEW what \in Answers, Leave(r, "new", what) PROVE TypeOK'
  BY <1>2, <1>3, LeaveType
<1>4. ASSUME NEW to \in Steps, Goto(r, "new", to),
             UNCHANGED <<dbVars, expired, rowLock, cookie, fresh, answer>>
      PROVE  TypeOK'
  <2>1. pc' \in [Requests -> Steps]
    BY <1>4, GotoFrame
  <2> QED
    BY <1>2, <1>4, <2>1 DEF TypeOK, dbVars
<1> QED
  BY <1>3, <1>4 DEF Send, Answers, Steps

\* The steps that write sessions.
LEMMA WriteType ==
  ASSUME TypeOK, Working, NEW r \in Requests, InsertSession(r) \/ Rotate(r) \/ Revoke(r)
  PROVE  TypeOK'
<1>1. pc' \in [Requests -> Steps]
  BY GotoFrame DEF InsertSession, Rotate, Revoke, Steps
<1>2. rowLock' \in [Tokens -> Requests \cup {NoRequest}]
  BY UnlockFrame DEF InsertSession, Rotate, Revoke, TypeOK
<1>3. ASSUME IssueToken(r)
      PROVE  /\ issued' = issued + 1 /\ issued + 1 \in Tokens
             /\ fresh' \in [Requests -> 0 .. issued'] /\ expired \in 0 .. issued'
             /\ cookie \in [Clients -> 0 .. issued']
             /\ held \in [Requests -> 0 .. issued'] /\ token \in [Requests -> 0 .. issued']
  <2>1. issued' = issued + 1 /\ issued + 1 \in Tokens /\ 0 .. issued \subseteq 0 .. issued'
    BY <1>3, SessionAssumption DEF IssueToken, TypeOK, Tokens
  <2>2. fresh' = [fresh EXCEPT ![r] = issued + 1] /\ issued + 1 \in 0 .. issued'
    BY <1>3, <2>1, SessionAssumption DEF IssueToken, TypeOK, Tokens
  <2> QED
    BY <2>1, <2>2 DEF TypeOK
<1>4. CASE InsertSession(r)
  <2>1. issued' \in 0 .. MaxTokens
    BY <1>3, <1>4, SessionAssumption DEF InsertSession, Tokens
  <2> QED
    BY <1>1, <1>2, <1>3, <1>4, <2>1 DEF InsertSession, TypeOK, requestVars
<1>5. CASE Rotate(r)
  <2>1. issued' \in 0 .. MaxTokens
    BY <1>3, <1>5, SessionAssumption DEF Rotate, Tokens
  <2>2. token[r] \in Tokens
    BY <1>5, SessionAssumption DEF Rotate, Goto, Working, TypeOK, Tokens, NoToken
  <2>3. origin' \in [Tokens -> Tokens \cup {NoToken}]
    BY <1>5, <2>2 DEF Rotate, TypeOK
  <2> QED
    BY <1>1, <1>2, <1>3, <1>5, <2>1, <2>3 DEF Rotate, TypeOK, requestVars
<1>6. CASE Revoke(r)
  BY <1>1, <1>2, <1>6 DEF Revoke, TypeOK, requestVars
<1> QED
  BY <1>4, <1>5, <1>6

LEMMA AgeType ==
  ASSUME TypeOK, Expire \/ CleanUp
  PROVE  TypeOK'
<1>1. CASE Expire
  <2>1. expired' \in 0 .. issued
    BY <1>1, SessionAssumption DEF Expire, TypeOK
  <2> QED
    BY <1>1, <2>1 DEF Expire, TypeOK, dbVars, requestVars
<1>2. CASE CleanUp
  BY <1>2 DEF CleanUp, TypeOK, requestVars
<1> QED
  BY <1>1, <1>2

-----------------------------------------------------------------------------
(* The invariant, step by step *)

\* Giving up, or ending with an error.
LEMMA LeaveInv ==
  ASSUME SessionInv, TypeOK', NEW r \in Requests, NEW from \in Steps \ {"done"},
         NEW what \in Answers, Leave(r, from, what), UNCHANGED <<job, token>>,
         what = "reuse" => from = "lock" /\ IsReplaced(token[r]) /\ token[r] \in Tokens,
         what = "ok" => token[r] = NoToken
  PROVE  SessionInv'
<1>1. pc'[r] = "done" /\ (\A q \in Requests \ {r} : pc'[q] = pc[q]) /\ pc[r] = from
  BY GotoFrame DEF Leave, SessionInv, Steps
<1>2. answer'[r] = what /\ \A q \in Requests \ {r} : answer'[q] = answer[q]
  BY DEF Leave, SessionInv, TypeOK
<1>3. \A q \in Requests \ {r} : \A t \in Tokens : rowLock[t] = q => rowLock'[t] = q
  BY UnlockFrame DEF Leave, SessionInv
<1> QED
  BY <1>1, <1>2, <1>3, QuietStep DEF Leave

LEMMA SendInv ==
  ASSUME SessionInv, TypeOK', NEW r \in Requests, Send(r)
  PROVE  SessionInv'
<1> USE DEF SessionInv
<1>1. /\ pc[r] = "new" /\ fresh[r] = NoToken /\ answer[r] = "none"
      /\ UNCHANGED <<dbVars, fresh, job>>
      /\ \A q \in Requests \ {r} : pc'[q] = pc[q] /\ token'[q] = token[q] /\ answer'[q] = answer[q]
      /\ token'[r] = Attached(r)
      /\ pc'[r] \in {"insert", "lock", "done"}
      /\ answer'[r] \in {"none", "missing", "expired", "ok"}
  BY DEF Send, Leave, Goto, Places, TypeOK, dbVars
<1>2. /\ pc'[r] = "insert" => Kind(r) = "login"
      /\ pc'[r] = "lock" => Attached(r) # NoToken
      /\ pc'[r] # "done" => answer'[r] = "none"
      /\ Kind(r) = "logout" /\ answer'[r] = "ok" => Attached(r) = NoToken
  BY <1>1 DEF Send, Leave, Goto, TypeOK, Steps, Answers
<1>3. Places'
  BY <1>1, <1>2 DEF Places, Kind
<1>4. Working'
  <2>1. \A q \in Requests \ {r} : \A t \in Tokens : rowLock[t] = q => rowLock'[t] = q
    BY UnlockFrame DEF Send, Leave
  <2> SUFFICES ASSUME NEW q \in Requests, pc'[q] \in {"rotate", "revoke"}
               PROVE  /\ token'[q] # NoToken
                      /\ rowLock'[token'[q]] = q
                      /\ status'[token'[q]] = "active"
    BY DEF Working
  <2>2. q # r
    BY <1>1
  <2>3. token[q] \in Tokens
    BY <1>1, <2>2, SessionAssumption DEF Working, TypeOK, Tokens, NoToken
  <2> QED
    BY <1>1, <2>1, <2>2, <2>3 DEF Working, dbVars
<1>5. Chains' /\ LiveIsNewest'
  BY <1>1 DEF Chains, LiveIsNewest, dbVars
<1>6. Rotated' /\ TokenRotatedOnce'
  BY <1>1 DEF Rotated, TokenRotatedOnce, Kind, dbVars
<1>7. Successors'
  <2> SUFFICES ASSUME NEW t \in Tokens, replacedBy[t] # NoToken
               PROVE  \E q \in Requests : Kind(q) = "refresh" /\ token'[q] = t /\ fresh[q] # NoToken
    BY <1>1 DEF Successors, dbVars, Kind
  <2> QED
    BY <1>1 DEF Successors
<1>8. ReuseIsReal'
  <2> SUFFICES ASSUME NEW q \in Requests, answer'[q] = "reuse"
               PROVE  \E x \in Requests \ {q} :
                        Kind(x) = "refresh" /\ token'[x] = token'[q] /\ fresh[x] # NoToken
    BY <1>1 DEF ReuseIsReal, Kind
  <2>1. q # r
    BY <1>1
  <2>2. PICK x \in Requests \ {q} :
          Kind(x) = "refresh" /\ token[x] = token[q] /\ fresh[x] # NoToken
    BY <1>1, <2>1 DEF ReuseIsReal
  <2> QED
    BY <1>1, <2>1, <2>2
<1>9. LoggedOut'
  BY <1>1, <1>2 DEF LoggedOut, Kind, dbVars
<1> QED
  BY <1>3, <1>4, <1>5, <1>6, <1>7, <1>8, <1>9

LEMMA LookInv ==
  ASSUME SessionInv, TypeOK', NEW r \in Requests,
         LockForRefresh(r) \/ LockForLogout(r) \/ Reply(r) \/ Fail(r)
  PROVE  SessionInv'
<1> USE DEF SessionInv
<1>1. pc[r] = "lock" => token[r] \in Tokens
  BY SessionAssumption DEF Places, TypeOK, Tokens, NoToken
<1>2. ASSUME NEW to \in {"rotate", "revoke"}, Goto(r, "lock", to), CanLock(r),
             to = "rotate" => Kind(r) = "refresh", to = "revoke" => Kind(r) = "logout",
             status[token[r]] = "active", rowLock' = [rowLock EXCEPT ![token[r]] = r],
             UNCHANGED <<dbVars, job, token, fresh, answer>>
      PROVE  SessionInv'
  <2>1. pc[r] = "lock" /\ pc'[r] = to /\ \A q \in Requests \ {r} : pc'[q] = pc[q]
    BY <1>2, GotoFrame DEF Steps
  <2>2. /\ rowLock'[token[r]] = r /\ rowLock[token[r]] = NoRequest
        /\ \A t \in Tokens \ {token[r]} : rowLock'[t] = rowLock[t]
    BY <1>1, <1>2, <2>1 DEF CanLock, TypeOK
  <2>3. Places'
    BY <1>2, <2>1 DEF Places, Kind
  <2>4. Working'
    <3> SUFFICES ASSUME NEW q \in Requests, pc'[q] \in {"rotate", "revoke"}
                 PROVE  /\ token[q] # NoToken
                        /\ rowLock'[token[q]] = q
                        /\ status[token[q]] = "active"
      BY <1>2 DEF Working, dbVars
    <3>1. CASE q = r
      BY <1>1, <1>2, <2>1, <2>2, <3>1 DEF Tokens, NoToken
    <3>2. CASE q # r
      <4>1. /\ token[q] # NoToken /\ rowLock[token[q]] = q /\ status[token[q]] = "active"
        BY <2>1, <3>2 DEF Working
      <4>2. token[q] \in Tokens
        BY <4>1, TokenIsKnown
      <4>3. token[q] # token[r]
        BY <2>2, <4>1, SessionAssumption
      <4> QED
        BY <2>2, <4>1, <4>2, <4>3
    <3> QED
      BY <3>1, <3>2
  <2>5. Chains' /\ LiveIsNewest' /\ Rotated' /\ Successors' /\ TokenRotatedOnce' /\ ReuseIsReal'
    BY <1>2 DEF Chains, LiveIsNewest, Rotated, Successors, TokenRotatedOnce, ReuseIsReal, Kind, dbVars
  <2>6. LoggedOut'
    BY <1>2, <2>1 DEF LoggedOut, Kind, dbVars
  <2> QED
    BY <2>3, <2>4, <2>5, <2>6
<1>3. CASE LockForRefresh(r)
  <2>1. ASSUME NEW what \in Answers \ {"ok"}, Leave(r, "lock", what), UNCHANGED requestVars,
               what = "reuse" => IsReplaced(token[r])
        PROVE  SessionInv'
    <3>1. token[r] \in Tokens
      BY <1>1, <1>3 DEF LockForRefresh
    <3> QED
      BY <2>1, <3>1, LeaveInv DEF requestVars, Steps
  <2>2. CASE status[token[r]] = "active" /\ token[r] > expired
    <3>1. token[r] \in Tokens /\ expired \in Nat
      BY <1>1, <1>3, SessionAssumption DEF LockForRefresh, TypeOK
    <3>2. /\ Goto(r, "lock", "rotate") /\ CanLock(r) /\ Kind(r) = "refresh"
          /\ rowLock' = [rowLock EXCEPT ![token[r]] = r]
          /\ UNCHANGED <<dbVars, job, token, fresh, answer>>
      BY <1>3, <2>2, <3>1 DEF LockForRefresh, requestVars, Tokens
    <3> QED
      BY <1>2, <2>2, <3>2
  <2>3. CASE ~(status[token[r]] = "active" /\ token[r] > expired)
    <3>1. PICK what \in {"invalid", "reuse", "revoked", "expired"} :
            Leave(r, "lock", what) /\ (what = "reuse" => IsReplaced(token[r]))
      BY <1>3, <2>3 DEF LockForRefresh
    <3>2. UNCHANGED requestVars
      BY <1>3 DEF LockForRefresh
    <3> QED
      BY <2>1, <3>1, <3>2 DEF Answers
  <2> QED
    BY <2>2, <2>3
<1>4. CASE LockForLogout(r)
  <2>1. CASE status[token[r]] = "active"
    BY <1>2, <1>4, <2>1 DEF LockForLogout, requestVars
  <2>2. CASE status[token[r]] # "active"
    <3>1. pc'[r] = "reply" /\ (\A q \in Requests \ {r} : pc'[q] = pc[q]) /\ pc[r] = "lock"
      BY <1>4, <2>2, GotoFrame DEF LockForLogout, Steps
    <3>2. answer'[r] = "none"
      BY <1>4, <3>1 DEF LockForLogout, Places
    <3> QED
      BY <1>4, <2>2, <3>1, <3>2, QuietStep DEF LockForLogout, requestVars
  <2> QED
    BY <2>1, <2>2
<1>5. CASE Reply(r)
  <2>1. pc'[r] = "done" /\ (\A q \in Requests \ {r} : pc'[q] = pc[q]) /\ pc[r] = "reply"
    BY <1>5, GotoFrame DEF Reply, Steps
  <2>2. answer'[r] \in {"ok", "lost"} /\ \A q \in Requests \ {r} : answer'[q] = answer[q]
    BY <1>5 DEF Reply, TypeOK
  <2>3. Kind(r) = "logout" /\ token[r] # NoToken => status[token[r]] # "active"
    BY <2>1 DEF LoggedOut
  <2> QED
    BY <1>5, <2>1, <2>2, <2>3, QuietStep DEF Reply, requestVars
<1>6. CASE Fail(r)
  BY <1>6, LeaveInv DEF Fail, requestVars, Steps, Answers
<1> QED
  BY <1>3, <1>4, <1>5, <1>6

LEMMA InsertInv ==
  ASSUME SessionInv, TypeOK', NEW r \in Requests, InsertSession(r)
  PROVE  SessionInv'
<1> USE DEF SessionInv
<1> DEFINE n == issued + 1
<1>1. /\ pc[r] = "insert" /\ pc'[r] = "reply" /\ Kind(r) = "login" /\ fresh'[r] # NoToken
      /\ \A q \in Requests \ {r} : pc'[q] = pc[q] /\ fresh'[q] = fresh[q]
      /\ UNCHANGED <<replacedBy, rowLock, job, token, answer>>
  BY GotoFrame DEF InsertSession, IssueToken, Places, TypeOK, Steps, Tokens, NoToken, requestVars
<1>2. /\ n \in Tokens /\ issued \in Nat /\ issued' = n
      /\ status'[n] = "active" /\ origin'[n] = n
      /\ \A t \in Tokens \ {n} : status'[t] = status[t] /\ origin'[t] = origin[t]
  BY SessionAssumption DEF InsertSession, IssueToken, TypeOK, Tokens
<1>4. \A q \in Requests : token[q] # NoToken => token[q] \in Tokens \ {n}
  BY TokenIsKnown
<1> HIDE DEF n
<1>5. Places'
  BY <1>1 DEF Places, Kind
<1>6. Working'
  BY <1>1, <1>2, <1>4 DEF Working
<1>7. Chains'
  <2> SUFFICES ASSUME NEW t \in Tokens
               PROVE  /\ t > issued' => status'[t] = "absent" /\ origin'[t] = NoToken
                      /\ t <= issued' => origin'[t] \in 1 .. issued'
    BY DEF Chains
  <2>1. CASE t = n
    BY <1>2, <2>1 DEF Tokens
  <2>2. CASE t # n
    BY <1>2, <2>2 DEF Chains, Tokens, n
  <2> QED
    BY <2>1, <2>2
<1>8. LiveIsNewest'
  <2> SUFFICES ASSUME NEW t \in Tokens, NEW u \in Tokens,
                      status'[t] = "active", origin'[u] = origin'[t]
               PROVE  u <= t
    BY DEF LiveIsNewest
  <2>1. ASSUME NEW x \in Tokens \ {n} PROVE origin[x] \in 0 .. issued
    BY <1>2, <2>1 DEF Chains, Tokens, NoToken
  <2>2. CASE t # n /\ u # n
    BY <1>2, <2>2 DEF LiveIsNewest
  <2>3. CASE t = n \/ u = n
    BY <1>2, <2>1, <2>3 DEF Tokens, n
  <2> QED
    BY <2>2, <2>3
<1>9. Rotated' /\ Successors' /\ TokenRotatedOnce'
  <2>1. \A q \in Requests : Kind(q) = "refresh" => fresh'[q] = fresh[q]
    BY <1>1
  <2> QED
    BY <1>1, <1>2, <1>4, <2>1 DEF Rotated, Successors, TokenRotatedOnce, Kind
<1>10. ReuseIsReal'
  BY <1>1 DEF ReuseIsReal, Kind
<1>11. LoggedOut'
  BY <1>1, <1>2, <1>4 DEF LoggedOut, Kind
<1> QED
  BY <1>5, <1>6, <1>7, <1>8, <1>9, <1>10, <1>11

LEMMA RotateInv ==
  ASSUME SessionInv, TypeOK', NEW r \in Requests, Rotate(r)
  PROVE  SessionInv'
<1> USE DEF SessionInv
<1> DEFINE n == issued + 1
           old == token[r]
<1>1. /\ pc[r] = "rotate" /\ pc'[r] = "reply" /\ Kind(r) = "refresh" /\ fresh'[r] # NoToken
      /\ \A q \in Requests \ {r} : pc'[q] = pc[q] /\ fresh'[q] = fresh[q]
      /\ UNCHANGED <<job, token, answer>>
  BY GotoFrame DEF Rotate, IssueToken, Places, TypeOK, Steps, Tokens, NoToken, requestVars
<1>2. rowLock[old] = r /\ status[old] = "active" /\ old # NoToken
  BY <1>1 DEF Working
<1>3. \A q \in Requests : token[q] # NoToken => token[q] \in Tokens \ {n} /\ token[q] <= issued
  BY TokenIsKnown
<1>4. /\ n \in Tokens /\ issued \in Nat /\ issued' = n /\ old \in Tokens \ {n} /\ old <= issued
      /\ status'[n] = "active" /\ status'[old] = "revoked" /\ origin'[n] = origin[old]
      /\ \A t \in Tokens \ {n, old} : status'[t] = status[t]
      /\ \A t \in Tokens \ {n} : origin'[t] = origin[t]
      /\ \A t \in Tokens \ {old} : replacedBy'[t] = replacedBy[t]
  BY <1>2, <1>3, SessionAssumption DEF Rotate, IssueToken, TypeOK, Tokens
<1>5. origin[old] \in 1 .. issued
  BY <1>4 DEF Chains
<1> HIDE DEF n, old
<1>6. Places'
  BY <1>1 DEF Places, Kind
<1>7. Working'
  <2> SUFFICES ASSUME NEW q \in Requests, pc'[q] \in {"rotate", "revoke"}
               PROVE  /\ token[q] # NoToken
                      /\ rowLock'[token[q]] = q
                      /\ status'[token[q]] = "active"
    BY <1>1 DEF Working
  <2>1. /\ q # r /\ token[q] # NoToken /\ rowLock[token[q]] = q /\ status[token[q]] = "active"
    BY <1>1 DEF Working
  <2>2. rowLock'[token[q]] = q
    BY <1>3, <2>1, UnlockFrame DEF Rotate
  <2> QED
    BY <1>2, <1>3, <1>4, <2>1, <2>2
<1>8. Chains'
  <2> SUFFICES ASSUME NEW t \in Tokens
               PROVE  /\ t > issued' => status'[t] = "absent" /\ origin'[t] = NoToken
                      /\ t <= issued' => origin'[t] \in 1 .. issued'
    BY DEF Chains
  <2>1. CASE t = n
    BY <1>4, <1>5, <2>1 DEF Tokens, n
  <2>2. CASE t # n
    BY <1>4, <2>2 DEF Chains, Tokens, n
  <2> QED
    BY <2>1, <2>2
<1>9. LiveIsNewest'
  <2> SUFFICES ASSUME NEW t \in Tokens, NEW u \in Tokens,
                      status'[t] = "active", origin'[u] = origin'[t]
               PROVE  u <= t
    BY DEF LiveIsNewest
  <2>1. CASE t = n
    <3>1. u > n => origin'[u] = NoToken
      BY <1>4 DEF Chains, Tokens, n
    <3> QED
      BY <1>4, <1>5, <2>1, <3>1 DEF Tokens, NoToken
  <2>2. CASE t # n /\ u = n
    <3>1. t \in Tokens \ {n, old} /\ status[t] = "active" /\ origin[t] = origin[old]
      BY <1>4, <2>2
    <3>2. old <= t /\ t <= old
      BY <1>2, <1>4, <3>1 DEF LiveIsNewest
    <3> QED
      BY <1>4, <3>1, <3>2 DEF Tokens
  <2>3. CASE t # n /\ u # n
    BY <1>2, <1>4, <2>3 DEF LiveIsNewest
  <2> QED
    BY <2>1, <2>2, <2>3
<1>10. Rotated' /\ LoggedOut'
  BY <1>1, <1>2, <1>3, <1>4 DEF Rotated, LoggedOut, Kind, old
<1>11. TokenRotatedOnce'
  <2>1. \A q \in Requests : Kind(q) = "refresh" /\ fresh[q] # NoToken => token[q] # token[r]
    BY <1>2 DEF Rotated, old
  <2> QED
    BY <1>1, <2>1 DEF TokenRotatedOnce, Kind
<1>12. Successors'
  <2> SUFFICES ASSUME NEW t \in Tokens, replacedBy'[t] # NoToken
               PROVE  \E q \in Requests : Kind(q) = "refresh" /\ token[q] = t /\ fresh'[q] # NoToken
    BY <1>1 DEF Successors, Kind
  <2>1. CASE t = old
    BY <1>1, <2>1 DEF old
  <2>2. CASE t # old
    BY <1>1, <1>4, <2>2 DEF Successors
  <2> QED
    BY <2>1, <2>2
<1>13. ReuseIsReal'
  <2> SUFFICES ASSUME NEW q \in Requests, answer[q] = "reuse"
               PROVE  \E x \in Requests \ {q} :
                        Kind(x) = "refresh" /\ token[x] = token[q] /\ fresh'[x] # NoToken
    BY <1>1 DEF ReuseIsReal, Kind
  <2> QED
    BY <1>1 DEF ReuseIsReal
<1> QED
  BY <1>6, <1>7, <1>8, <1>9, <1>10, <1>11, <1>12, <1>13

LEMMA RevokeInv ==
  ASSUME SessionInv, TypeOK', NEW r \in Requests, Revoke(r)
  PROVE  SessionInv'
<1> USE DEF SessionInv
<1>1. /\ pc[r] = "revoke" /\ pc'[r] = "reply" /\ Kind(r) = "logout"
      /\ \A q \in Requests \ {r} : pc'[q] = pc[q]
      /\ UNCHANGED <<replacedBy, origin, issued, job, token, fresh, answer>>
  BY GotoFrame DEF Revoke, Places, Steps, requestVars
<1>2. rowLock[token[r]] = r /\ token[r] # NoToken
  BY <1>1 DEF Working
<1>3. \A q \in Requests : token[q] # NoToken => token[q] \in Tokens
  BY TokenIsKnown
<1>4. /\ status'[token[r]] = "revoked"
      /\ \A t \in Tokens \ {token[r]} : status'[t] = status[t]
  BY <1>2, <1>3 DEF Revoke, TypeOK
<1>5. Places'
  BY <1>1 DEF Places, Kind
<1>6. Working'
  <2> SUFFICES ASSUME NEW q \in Requests, pc'[q] \in {"rotate", "revoke"}
               PROVE  /\ token[q] # NoToken
                      /\ rowLock'[token[q]] = q
                      /\ status'[token[q]] = "active"
    BY <1>1 DEF Working
  <2>1. /\ q # r /\ token[q] # NoToken /\ rowLock[token[q]] = q /\ status[token[q]] = "active"
    BY <1>1 DEF Working
  <2>2. rowLock'[token[q]] = q
    BY <1>3, <2>1, UnlockFrame DEF Revoke
  <2> QED
    BY <1>2, <1>3, <1>4, <2>1, <2>2
<1>7. \A t \in Tokens : /\ status'[t] = "active" => status[t] = "active"
                        /\ status[t] = "absent" => status'[t] = "absent" \/ t = token[r]
  BY <1>4
<1>8. Chains'
  <2>1. token[r] <= issued
    BY SessionAssumption DEF TypeOK
  <2>2. \A t \in Tokens : t > issued => t # token[r]
    BY <2>1, SessionAssumption DEF TypeOK, Tokens
  <2> QED
    BY <1>1, <1>4, <2>2 DEF Chains
<1>9. LiveIsNewest' /\ Rotated' /\ TokenRotatedOnce' /\ Successors' /\ ReuseIsReal'
  BY <1>1, <1>3, <1>7 DEF LiveIsNewest, Rotated, TokenRotatedOnce, Successors, ReuseIsReal, Kind
<1>10. LoggedOut'
  BY <1>1, <1>3, <1>4 DEF LoggedOut, Kind
<1> QED
  BY <1>5, <1>6, <1>8, <1>9, <1>10

LEMMA AgeInv ==
  ASSUME SessionInv, TypeOK', Expire \/ CleanUp
  PROVE  SessionInv'
<1> USE DEF SessionInv
<1>1. UNCHANGED <<origin, issued, rowLock, job, token, pc, fresh, answer>>
  BY DEF Expire, CleanUp, dbVars, requestVars
<1>2. \A t \in Tokens : /\ status'[t] \in {status[t], "absent"}
                        /\ replacedBy'[t] \in {replacedBy[t], NoToken}
                        /\ rowLock[t] # NoRequest => status'[t] = status[t]
  BY DEF Expire, CleanUp, dbVars
<1>3. \A q \in Requests : token[q] # NoToken => token[q] \in Tokens
  BY TokenIsKnown
<1>4. Places' /\ TokenRotatedOnce' /\ ReuseIsReal'
  BY <1>1 DEF Places, TokenRotatedOnce, ReuseIsReal, Kind
<1>5. Working'
  BY <1>1, <1>2, <1>3, SessionAssumption DEF Working
<1>6. Chains' /\ LiveIsNewest'
  BY <1>1, <1>2 DEF Chains, LiveIsNewest
<1>7. Rotated' /\ LoggedOut'
  BY <1>1, <1>2, <1>3 DEF Rotated, LoggedOut, Kind
<1>8. Successors'
  BY <1>1, <1>2 DEF Successors, Kind
<1> QED
  BY <1>4, <1>5, <1>6, <1>7, <1>8

LEMMA NextSession ==
  ASSUME SessionInv, [Next]_vars
  PROVE  SessionInv'
<1>1. TypeOK /\ Working
  BY DEF SessionInv
<1>2. ASSUME NEW r \in Requests, Send(r) PROVE SessionInv'
  BY <1>1, <1>2, SendType, SendInv
<1>3. ASSUME NEW r \in Requests, LockForRefresh(r) \/ LockForLogout(r) \/ Reply(r) \/ Fail(r)
      PROVE  SessionInv'
  BY <1>1, <1>3, LookType, LookInv
<1>4. ASSUME NEW r \in Requests, InsertSession(r) \/ Rotate(r) \/ Revoke(r) PROVE SessionInv'
  BY <1>1, <1>4, WriteType, InsertInv, RotateInv, RevokeInv
<1>5. CASE Expire \/ CleanUp
  BY <1>1, <1>5, AgeType, AgeInv
<1>6. CASE UNCHANGED vars
  BY <1>6 DEF SessionInv, vars, dbVars, requestVars, TypeOK, Places, Working, Chains,
     LiveIsNewest, Rotated, Successors, TokenRotatedOnce, ReuseIsReal, LoggedOut, Kind
<1> QED
  BY <1>2, <1>3, <1>4, <1>5, <1>6 DEF Next, Step

LEMMA AlwaysSessionInv == Spec => []SessionInv
BY InitSession, NextSession, PTL DEF Spec

-----------------------------------------------------------------------------
(* Sessions implement LoginChains.  A session is live while its row is     *)
(* active; by LiveIsNewest a login has one of them at most, so whatever    *)
(* ends it leaves the login with nothing.                                  *)

LEMMA LiveMember ==
  ASSUME NEW login \in Tokens
  PROVE  /\ \A t : t \in Live[login] <=> t \in Tokens /\ status[t] = "active" /\ origin[t] = login
         /\ \A t : t \in Live'[login] <=> t \in Tokens /\ status'[t] = "active" /\ origin'[t] = login
BY DEF Live

LEMMA LiveIsSingle ==
  ASSUME LiveIsNewest, NEW t \in Tokens, NEW u \in Tokens,
         status[t] = "active", status[u] = "active", origin[t] = origin[u]
  PROVE  t = u
<1>1. t <= u /\ u <= t
  BY DEF LiveIsNewest
<1> QED
  BY <1>1 DEF Tokens

\* Two states that agree on every login's live sessions outside S.
LEMMA LiveOutside ==
  ASSUME NEW S, \A login \in Tokens \ S : \A t : t \in Live'[login] <=> t \in Live[login]
  PROVE  \A login \in Tokens \ S : Live'[login] = Live[login]
<1> SUFFICES ASSUME NEW login \in Tokens \ S PROVE Live'[login] = Live[login]
  OBVIOUS
<1> QED
  BY DEF Live

LEMMA LiveIsFunction ==
  /\ Live = [login \in Tokens |-> Live[login]]
  /\ Live' = [login \in Tokens |-> Live'[login]]
BY DEF Live

LEMMA InsertChains ==
  ASSUME SessionInv, NEW r \in Requests, InsertSession(r)
  PROVE  Chain!Next
<1> DEFINE n == issued + 1
<1>1. /\ n \in Tokens /\ issued \in Nat /\ issued' = n
      /\ status'[n] = "active" /\ origin'[n] = n
      /\ \A t \in Tokens \ {n} : status'[t] = status[t] /\ origin'[t] = origin[t]
  BY SessionAssumption DEF InsertSession, IssueToken, SessionInv, TypeOK, Tokens
<1>2. n \notin 1 .. issued /\ 1 .. issued' = (1 .. issued) \cup {n}
  BY <1>1
<1>3. status[n] = "absent" /\ \A t \in Tokens \ {n} : origin[t] # n
  BY <1>1 DEF SessionInv, Chains, Tokens, NoToken
<1> HIDE DEF n
<1>4. Live'[n] = {n}
  BY <1>1, <1>3, LiveMember
<1>5. \A login \in Tokens \ {n} : Live'[login] = Live[login]
  <2>1. ASSUME NEW login \in Tokens \ {n}, NEW t \in Tokens
        PROVE  t \in Live'[login] <=> t \in Live[login]
    <3>1. CASE t = n
      BY <1>1, <1>3, <3>1, LiveMember
    <3>2. CASE t # n
      BY <1>1, <3>2, LiveMember
    <3> QED
      BY <3>1, <3>2
  <2>2. \A login \in Tokens \ {n} : \A t : t \in Live'[login] <=> t \in Live[login]
    BY <2>1, LiveMember
  <2> QED
    BY <2>2, LiveOutside
<1>6. Live' = [Live EXCEPT ![n] = {n}]
  BY <1>4, <1>5, LiveIsFunction
<1>7. Chain!Login(n)
  BY <1>2, <1>6 DEF Chain!Login, Chain!HandOut
<1> QED
  BY <1>1, <1>7 DEF Chain!Next

LEMMA RotateChains ==
  ASSUME SessionInv, NEW r \in Requests, Rotate(r)
  PROVE  Chain!Next
<1> DEFINE n == issued + 1
           old == token[r]
           chain == origin[old]
<1>1. status[old] = "active" /\ old # NoToken
  BY DEF Rotate, Goto, SessionInv, Working
<1>2. /\ n \in Tokens /\ issued \in Nat /\ issued' = n /\ old \in Tokens \ {n} /\ old <= issued
      /\ status'[n] = "active" /\ status'[old] = "revoked" /\ origin'[n] = chain
      /\ \A t \in Tokens \ {n, old} : status'[t] = status[t]
      /\ \A t \in Tokens \ {n} : origin'[t] = origin[t]
  BY <1>1, TokenIsKnown, SessionAssumption DEF Rotate, IssueToken, SessionInv, TypeOK, Tokens
<1>3. n \notin 1 .. issued /\ 1 .. issued' = (1 .. issued) \cup {n}
  BY <1>2
<1>4. chain \in Tokens /\ status[n] = "absent"
  BY <1>2, SessionAssumption DEF SessionInv, Chains, TypeOK, Tokens
<1> HIDE DEF n, old, chain
<1>5. \A t \in Tokens \ {old} : origin[t] = chain => status[t] # "active"
  BY <1>1, <1>2, LiveIsSingle DEF SessionInv, chain
<1>6. old \in Live[chain]
  BY <1>1, <1>2, <1>4, LiveMember DEF chain
<1>7. Live'[chain] = {n}
  BY <1>2, <1>4, <1>5, LiveMember
<1>8. \A login \in Tokens \ {chain} : Live'[login] = Live[login]
  <2>1. ASSUME NEW login \in Tokens \ {chain}, NEW t \in Tokens
        PROVE  t \in Live'[login] <=> t \in Live[login]
    <3>1. CASE t = n
      BY <1>2, <1>4, <3>1, LiveMember
    <3>2. CASE t = old
      BY <1>2, <3>2, LiveMember DEF chain
    <3>3. CASE t \notin {n, old}
      BY <1>2, <3>3, LiveMember
    <3> QED
      BY <3>1, <3>2, <3>3
  <2>2. \A login \in Tokens \ {chain} : \A t : t \in Live'[login] <=> t \in Live[login]
    BY <2>1, LiveMember
  <2> QED
    BY <2>2, LiveOutside
<1>9. Live' = [Live EXCEPT ![chain] = {n}]
  BY <1>4, <1>7, <1>8, LiveIsFunction
<1>10. Chain!Refresh(chain, n)
  BY <1>3, <1>6, <1>9 DEF Chain!Refresh, Chain!HandOut
<1> QED
  BY <1>2, <1>4, <1>10 DEF Chain!Next

\* A step that only ends sessions ends the logins they belong to.
LEMMA EndChains ==
  ASSUME SessionInv, UNCHANGED <<origin, issued>>,
         NEW gone \in SUBSET Tokens,
         \A t \in gone : status'[t] # "active",
         \A t \in Tokens \ gone : status'[t] = "active" <=> status[t] = "active"
  PROVE  Chain!Next
<1> DEFINE over == {login \in Tokens : \E t \in gone : t \in Live[login]}
<1>1. ASSUME NEW login \in over PROVE Live'[login] = {}
  <2>1. PICK t \in gone : t \in Live[login]
    OBVIOUS
  <2>2. ASSUME NEW u \in Live'[login] PROVE FALSE
    <3>1. u \in Tokens \ gone /\ status[u] = "active" /\ origin[u] = login
      BY <2>2, LiveMember
    <3>2. status[t] = "active" /\ origin[t] = login
      BY <2>1, LiveMember
    <3>3. u = t
      BY <3>1, <3>2, LiveIsSingle DEF SessionInv
    <3> QED
      BY <3>1, <3>3
  <2> QED
    BY <2>2
<1>2. ASSUME NEW login \in Tokens \ over PROVE \A t : t \in Live'[login] <=> t \in Live[login]
  BY <1>2, LiveMember
<1> HIDE DEF over
<1>3. \A login \in Tokens \ over : Live'[login] = Live[login]
  BY <1>2, LiveOutside
<1>4. Live' = [login \in Tokens |-> IF login \in over THEN {} ELSE Live[login]]
  BY <1>1, <1>3, LiveIsFunction
<1>5. Chain!End(over)
  BY <1>4 DEF Chain!End
<1>6. over \in SUBSET Tokens
  BY DEF over
<1> QED
  BY <1>5, <1>6 DEF Chain!Next

LEMMA ChainStep ==
  ASSUME SessionInv, [Next]_vars
  PROVE  [Chain!Next]_(Chain!vars)
<1>1. ASSUME UNCHANGED <<status, origin, issued>> PROVE UNCHANGED Chain!vars
  BY <1>1 DEF Chain!vars, Live
<1>2. ASSUME NEW r \in Requests, Send(r) \/ LockForRefresh(r) \/ LockForLogout(r) \/ Reply(r) \/ Fail(r)
      PROVE  UNCHANGED Chain!vars
  BY <1>1, <1>2 DEF Send, LockForRefresh, LockForLogout, Reply, Fail, Leave, dbVars
<1>3. ASSUME NEW r \in Requests, Revoke(r) PROVE Chain!Next
  <2> DEFINE gone == {token[r]}
  <2>1. token[r] \in Tokens
    BY <1>3, TokenIsKnown DEF SessionInv, Working, Revoke, Goto
  <2>2. /\ status'[token[r]] = "revoked"
        /\ \A t \in Tokens \ {token[r]} : status'[t] = status[t]
    BY <1>3, <2>1 DEF Revoke, SessionInv, TypeOK
  <2>3. /\ gone \in SUBSET Tokens
        /\ \A t \in gone : status'[t] # "active"
        /\ \A t \in Tokens \ gone : status'[t] = "active" <=> status[t] = "active"
    BY <2>1, <2>2
  <2>4. UNCHANGED <<origin, issued>>
    BY <1>3 DEF Revoke
  <2> HIDE DEF gone
  <2> QED
    BY <2>3, <2>4, EndChains
<1>4. ASSUME CleanUp PROVE Chain!Next
  <2> DEFINE gone == {t \in Tokens : t <= expired}
  <2>1. /\ \A t \in gone : status'[t] = "absent"
        /\ \A t \in Tokens \ gone : status'[t] = status[t]
    BY <1>4 DEF CleanUp
  <2> QED
    BY <1>4, <2>1, EndChains DEF CleanUp
<1>5. ASSUME Expire \/ UNCHANGED vars PROVE UNCHANGED Chain!vars
  BY <1>1, <1>5 DEF Expire, vars, dbVars
<1> QED
  BY <1>2, <1>3, <1>4, <1>5, InsertChains, RotateChains DEF Next, Step

LEMMA ChainInit == Init => Chain!Init
<1> SUFFICES ASSUME Init PROVE Chain!Init
  OBVIOUS
<1>1. 1 .. issued = {}
  BY DEF Init
<1>2. \A login \in Tokens : {t \in Tokens : status[t] = "active" /\ origin[t] = login} = {}
  BY DEF Init
<1> QED
  BY <1>1, <1>2 DEF Chain!Init, Live

-----------------------------------------------------------------------------
(* No lock is leaked: who holds the row of a session has found it live and *)
(* is about to replace or to revoke it, steps that wait for nothing.       *)

HoldersWork ==
    \A t \in Tokens, q \in Requests :
        rowLock[t] = q => token[q] = t /\ pc[q] \in {"rotate", "revoke"}

LEMMA HoldersStay ==
  ASSUME TypeOK, HoldersWork, NEW r \in Requests, UNCHANGED rowLock,
         \A q \in Requests \ {r} : pc'[q] = pc[q] /\ token'[q] = token[q],
         pc[r] \notin {"rotate", "revoke"}
  PROVE  HoldersWork'
BY DEF HoldersWork

LEMMA HolderLeaves ==
  ASSUME TypeOK, HoldersWork, NEW r \in Requests, Unlock(r),
         \A q \in Requests \ {r} : pc'[q] = pc[q] /\ token'[q] = token[q]
  PROVE  HoldersWork'
<1>1. \A t \in Tokens, q \in Requests : rowLock'[t] = q => q # r /\ rowLock[t] = q
  BY SessionAssumption DEF Unlock
<1> QED
  BY <1>1 DEF HoldersWork

LEMMA RowLocked ==
  ASSUME TypeOK, HoldersWork, NEW r \in Requests, NEW to \in {"rotate", "revoke"},
         Goto(r, "lock", to), CanLock(r), UNCHANGED token,
         rowLock' = [rowLock EXCEPT ![token[r]] = r]
  PROVE  HoldersWork'
<1>1. pc[r] = "lock" /\ pc'[r] = to /\ \A q \in Requests \ {r} : pc'[q] = pc[q]
  BY GotoFrame DEF Steps
<1>2. \A t \in Tokens : rowLock'[t] = IF t = token[r] THEN r ELSE rowLock[t]
  BY DEF TypeOK
<1> SUFFICES ASSUME NEW t \in Tokens, NEW q \in Requests, rowLock'[t] = q
             PROVE  token[q] = t /\ pc'[q] \in {"rotate", "revoke"}
  BY DEF HoldersWork
<1>3. CASE t = token[r]
  BY <1>1, <1>2, <1>3
<1>4. CASE t # token[r]
  <2>1. token[q] = t /\ pc[q] \in {"rotate", "revoke"}
    BY <1>2, <1>4 DEF HoldersWork
  <2> QED
    BY <1>1, <2>1
<1> QED
  BY <1>3, <1>4

LEMMA NextHolders == TypeOK /\ HoldersWork /\ [Next]_vars => HoldersWork'
<1> SUFFICES ASSUME TypeOK, HoldersWork, [Next]_vars PROVE HoldersWork'
  OBVIOUS
<1>1. ASSUME NEW r \in Requests, NEW from, NEW what, Leave(r, from, what),
             \A q \in Requests \ {r} : token'[q] = token[q]
      PROVE  HoldersWork'
  BY <1>1, HolderLeaves DEF Leave, Goto, TypeOK
<1>2. ASSUME NEW r \in Requests, NEW from, NEW to, Goto(r, from, to), UNCHANGED rowLock,
             from \notin {"rotate", "revoke"},
             \A q \in Requests \ {r} : token'[q] = token[q]
      PROVE  HoldersWork'
  BY <1>2, HoldersStay DEF Goto, TypeOK
<1>3. ASSUME NEW r \in Requests, Send(r) PROVE HoldersWork'
  <2>1. \A q \in Requests \ {r} : token'[q] = token[q]
    BY <1>3 DEF Send, TypeOK
  <2> QED
    BY <1>1, <1>2, <1>3, <2>1 DEF Send
<1>4. ASSUME NEW r \in Requests, InsertSession(r) \/ Reply(r) PROVE HoldersWork'
  BY <1>2, <1>4 DEF InsertSession, Reply, requestVars
<1>5. ASSUME NEW r \in Requests, LockForRefresh(r) PROVE HoldersWork'
  BY <1>1, <1>5, RowLocked DEF LockForRefresh, requestVars
<1>6. ASSUME NEW r \in Requests, LockForLogout(r) PROVE HoldersWork'
  BY <1>2, <1>6, RowLocked DEF LockForLogout, requestVars
<1>7. ASSUME NEW r \in Requests, Rotate(r) \/ Revoke(r) PROVE HoldersWork'
  BY <1>7, HolderLeaves DEF Rotate, Revoke, Goto, TypeOK, requestVars
<1>8. ASSUME NEW r \in Requests, Fail(r) PROVE HoldersWork'
  BY <1>1, <1>8 DEF Fail, requestVars
<1>9. CASE Expire \/ CleanUp \/ UNCHANGED vars
  BY <1>9 DEF Expire, CleanUp, vars, requestVars, HoldersWork
<1> QED
  BY <1>3, <1>4, <1>5, <1>6, <1>7, <1>8, <1>9 DEF Next, Step

-----------------------------------------------------------------------------
(* The theorems *)

\* TypeOK for every number of requests, clients and tokens: every step of login, refresh,
\* logout and clean-up keeps the variables in their types.
THEOREM TypeCorrect == Spec => []TypeOK
<1>1. SessionInv => TypeOK
  BY Zenon DEF SessionInv
<1> QED
  BY <1>1, AlwaysSessionInv, PTL

\* OneLiveSession: rotation never forks the chain of a login.
THEOREM ChainsDoNotFork == Spec => []OneLiveSession
<1>1. SessionInv => OneLiveSession
  BY DEF SessionInv, OneLiveSession, LiveIsNewest, Tokens
<1> QED
  BY <1>1, AlwaysSessionInv, PTL

\* TokenRotatedOnce: of all the requests that came with a token, one at most replaced it.
THEOREM RotationIsOnce == Spec => []TokenRotatedOnce
<1>1. SessionInv => TokenRotatedOnce
  BY Zenon DEF SessionInv
<1> QED
  BY <1>1, AlwaysSessionInv, PTL

\* ReuseIsReal: refresh_reuse_detected is raised only for a token that was rotated.
THEOREM ReuseDetectionIsSound == Spec => []ReuseIsReal
<1>1. SessionInv => ReuseIsReal
  BY Zenon DEF SessionInv
<1> QED
  BY <1>1, AlwaysSessionInv, PTL

\* LogoutEndsSession: what logout has revoked stays revoked, even by a racing refresh.
THEOREM LogoutIsFinal == Spec => []LogoutEndsSession
<1>1. SessionInv => LogoutEndsSession
  BY DEF SessionInv, LogoutEndsSession, LoggedOut
<1> QED
  BY <1>1, AlwaysSessionInv, PTL

\* ImplementsChains: every step of login, refresh, logout, expiry and clean-up is a step of
\* LoginChains or leaves the logins' valid tokens alone.
THEOREM SessionsImplementChains == Spec => ImplementsChains
<1>1. SessionInv /\ [Next]_vars => [Chain!Next]_(Chain!vars)
  BY ChainStep
<1> QED
  BY <1>1, ChainInit, AlwaysSessionInv, PTL DEF Spec, ImplementsChains, Chain!Spec

\* Whoever is refused, fails or commits gives the session's row back: the clean-up, which
\* waits for locked rows, waits only for requests that wait for nothing themselves.
THEOREM LocksAreGivenBack == Spec => []HoldersWork
<1>1. Init => HoldersWork
  BY SessionAssumption DEF Init, HoldersWork
<1>2. SessionInv => TypeOK
  BY Zenon DEF SessionInv
<1> QED
  BY <1>1, <1>2, NextHolders, AlwaysSessionInv, PTL DEF Spec
=============================================================================
