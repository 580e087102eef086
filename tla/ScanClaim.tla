----------------------------- MODULE ScanClaim ------------------------------
(***************************************************************************)
(* Collecting an item by its secret: POST /scan/claim (claim_scan_reward), *)
(* POST /items/secret (collect_item_by_secret) and the cached count of     *)
(* GET /profile/validations/count (get_validation_count), as they share    *)
(* the tables items, item_secrets, validations, xp_events, outbox_events   *)
(* and two kinds of Redis keys.                                            *)
(*                                                                         *)
(* A request is one database transaction at READ COMMITTED: a statement    *)
(* sees what others committed before it, its own writes are visible to     *)
(* others at its commit.  An action is one statement (or one Redis call)   *)
(* with the code that follows it.  The SELECT ... FOR UPDATE of the item   *)
(* locks the row, but the session already holds the Item object, loaded    *)
(* without a lock by the catalog query, and keeps its attributes: the      *)
(* count a request adds one to is the one read BEFORE it had the lock.     *)
(* A request can fail at any step (error, crash, lost connection): the     *)
(* database rolls it back and releases its lock, Redis keeps what was      *)
(* done to it.                                                             *)
(***************************************************************************)
EXTENDS Naturals, FiniteSets

CONSTANTS
    Requests,      \* HTTP requests, each served once
    Users, Items, Secrets,
    ItemOf,        \* item_secrets.item_id
    RewardXp,      \* item_secrets.reward_xp times the multiplier of its rarity
    Kinds,         \* the endpoints called, a subset of Endpoints
    Removable,     \* secrets and items that may expire or be deactivated
    NoRequest,     \* the holder of a free row lock
    NoCount        \* a Redis key that is not set

Endpoints == {"scan", "collect", "count"}

ASSUME ScanAssumption ==
    /\ ItemOf \in [Secrets -> Items]
    /\ RewardXp \in [Secrets -> Nat]
    /\ Kinds \subseteq Endpoints
    /\ NoRequest \notin Requests
    /\ NoCount \notin Nat

VARIABLES
    validations,   \* committed rows of validations
    itemCount,     \* items.validation_count, committed
    itemLock,      \* the request that holds the row lock of an item
    secretCount,   \* item_secrets.validation_count, committed
    cooling,       \* secrets whose cooldown_until is in the future
    active,        \* secrets and items a request can still find
    events,        \* committed scan_claimed outbox events (with the xp_events row)
    window,        \* Redis: scans counted in the user's rate-limit window
    cache,         \* Redis: user:{id}:validation_count
    job,           \* the endpoint, user and secret of each request
    pc,            \* the step a request takes next
    seenSecret,    \* item_secrets.validation_count as the request read it
    seenItem,      \* items.validation_count as the request read it
    txn,           \* rows the request has written and not committed
    answer         \* the outcome the client was told

dbVars == <<validations, itemCount, secretCount, cooling, events>>
redisVars == <<window, cache>>
localVars == <<seenSecret, seenItem, txn>>
vars == <<dbVars, itemLock, active, redisVars, job, pc, localVars, answer>>

-----------------------------------------------------------------------------
Jobs == [kind : Kinds, user : Users, secret : Secrets]

Validations == [user : Users, item : Items, secret : Secrets, rank : Nat]

ScanEvents == [user : Users, secret : Secrets, xp : Nat, first : BOOLEAN]

Transactions == [rows : SUBSET Validations, events : SUBSET ScanEvents]

NoWrites == [rows |-> {}, events |-> {}]

Steps == {"limit", "lookup", "load", "lock", "check", "validate", "drop",
          "reward", "commit", "get", "select", "set", "done"}

Outcomes == {"none", "claimed", "already_collected", "not_found",
             "on_cooldown", "rate_limited", "conflict", "count", "failed"}

FirstStep(k) ==
    CASE k = "scan" -> "limit" [] k = "collect" -> "lookup" [] k = "count" -> "get"

User(r) == job[r].user
Secret(r) == job[r].secret
Item(r) == ItemOf[Secret(r)]

Collected(u) == {v \in validations : v.user = u}

Init ==
    /\ validations = {}
    /\ itemCount = [i \in Items |-> 0]
    /\ itemLock = [i \in Items |-> NoRequest]
    /\ secretCount = [s \in Secrets |-> 0]
    /\ cooling = {}
    /\ active = Secrets \cup Items
    /\ events = {}
    /\ window = [u \in Users |-> 0]
    /\ cache = [u \in Users |-> NoCount]
    /\ job \in [Requests -> Jobs]
    /\ pc = [r \in Requests |-> FirstStep(job[r].kind)]
    /\ seenSecret = [r \in Requests |-> 0]
    /\ seenItem = [r \in Requests |-> 0]
    /\ txn = [r \in Requests |-> NoWrites]
    /\ answer = [r \in Requests |-> "none"]

-----------------------------------------------------------------------------
(* Steps of a request *)

Goto(r, from, to) ==
    /\ pc[r] = from
    /\ pc' = [pc EXCEPT ![r] = to]

\* Mutant: the row lock outlives the transaction.
BugKeepLock(r) == UNCHANGED itemLock

\* The end of the transaction drops its unpublished writes and its row lock.
Unlock(r) == itemLock' = [i \in Items |-> IF itemLock[i] = r THEN NoRequest ELSE itemLock[i]]

End(r, from, outcome) ==
    /\ Goto(r, from, "done")
    /\ answer' = [answer EXCEPT ![r] = outcome]
    /\ txn' = [txn EXCEPT ![r] = NoWrites]
    /\ Unlock(r)
    /\ UNCHANGED <<seenSecret, seenItem, active, job>>

\* The request ends without a commit that matters.
Leave(r, from, outcome) ==
    /\ End(r, from, outcome)
    /\ UNCHANGED <<dbVars, redisVars>>

\* The request reads and goes on.
Proceed(r, from, to) ==
    /\ Goto(r, from, to)
    /\ UNCHANGED <<dbVars, itemLock, active, redisVars, job, txn, answer>>

\* INCR of rate_limit:scan:{user}: only the first scan of a window goes on.
RateLimit(r) ==
    /\ window' = [window EXCEPT ![User(r)] = @ + 1]
    /\ \/ /\ window'[User(r)] > 1
          /\ End(r, "limit", "rate_limited")
          /\ UNCHANGED <<dbVars, cache>>
       \/ /\ window'[User(r)] <= 1
          /\ Goto(r, "limit", "lookup")
          /\ UNCHANGED <<dbVars, itemLock, active, cache, job, localVars, answer>>

\* Mutant: a scan does not ask whether its secret is cooling down.
BugLookupSecret(r) ==
    \/ /\ Secret(r) \notin active
       /\ Leave(r, "lookup", "not_found")
    \/ /\ Secret(r) \in active
       /\ Proceed(r, "lookup", "load")
       /\ seenSecret' = [seenSecret EXCEPT ![r] = secretCount[Secret(r)]]
       /\ UNCHANGED seenItem

\* Read the secret: unknown, inactive or expired, cooling down (scans only), or usable.
LookupSecret(r) ==
    \/ /\ Secret(r) \notin active
       /\ Leave(r, "lookup", "not_found")
    \/ /\ Secret(r) \in active
       /\ job[r].kind = "scan" /\ Secret(r) \in cooling
       /\ Leave(r, "lookup", "on_cooldown")
    \/ /\ Secret(r) \in active
       /\ ~(job[r].kind = "scan" /\ Secret(r) \in cooling)
       /\ Proceed(r, "lookup", "load")
       /\ seenSecret' = [seenSecret EXCEPT ![r] = secretCount[Secret(r)]]
       /\ UNCHANGED seenItem

\* The catalog query puts the Item object, with its count, into the session.
LoadItem(r) ==
    \/ /\ Item(r) \notin active
       /\ Leave(r, "load", "not_found")
    \/ /\ Item(r) \in active
       /\ Proceed(r, "load", "lock")
       /\ seenItem' = [seenItem EXCEPT ![r] = itemCount[Item(r)]]
       /\ UNCHANGED seenSecret

\* SELECT ... FOR UPDATE waits for the row and leaves the loaded object as it is.
LockItem(r) ==
    /\ itemLock[Item(r)] = NoRequest
    /\ \/ /\ Item(r) \notin active
          /\ Leave(r, "lock", "not_found")
       \/ /\ Item(r) \in active
          /\ Goto(r, "lock", "check")
          /\ itemLock' = [itemLock EXCEPT ![Item(r)] = r]
          /\ UNCHANGED <<dbVars, active, redisVars, job, localVars, answer>>

\* Mutant: the lookup of the existing validation forgets the user.
BugAnyUser(u, i) == \E v \in validations : v.item = i

HasValidation(u, i) == \E v \in validations : v.user = u /\ v.item = i

CheckValidation(r) ==
    \/ /\ HasValidation(User(r), Item(r))
       /\ Leave(r, "check", "already_collected")
    \/ /\ ~HasValidation(User(r), Item(r))
       /\ Proceed(r, "check", "validate")
       /\ UNCHANGED <<seenSecret, seenItem>>

NewValidation(r) ==
    [user |-> User(r), item |-> Item(r), secret |-> Secret(r), rank |-> seenItem[r] + 1]

\* Mutants: no unique index on (item_id, rank); a unique index on item_id alone.
BugNoRankIndex(v) == \E w \in validations : w.item = v.item /\ w.user = v.user
BugItemIndex(v) == \E w \in validations : w.item = v.item

\* The unique indexes ux_validations_user_item and ux_validations_item_rank.
Violates(v) ==
    \E w \in validations : w.item = v.item /\ (w.user = v.user \/ w.rank = v.rank)

\* UPDATE items and INSERT INTO validations: a unique violation is a 409.
Validate(r) ==
    \/ /\ Violates(NewValidation(r))
       /\ Leave(r, "validate", "conflict")
    \/ /\ ~Violates(NewValidation(r))
       /\ Goto(r, "validate", "drop")
       /\ txn' = [txn EXCEPT ![r].rows = {NewValidation(r)}]
       /\ UNCHANGED <<dbVars, itemLock, active, redisVars, job, seenSecret, seenItem, answer>>

\* Mutant: only a scan deletes the cached count.
BugDelCount(r, answered) ==
    /\ Goto(r, "drop", IF job[r].kind = "scan" THEN "reward" ELSE "commit")
    /\ cache' = IF answered /\ job[r].kind = "scan" THEN [cache EXCEPT ![User(r)] = NoCount]
                                                    ELSE cache
    /\ UNCHANGED <<dbVars, itemLock, active, window, job, localVars, answer>>

\* Redis DEL of the cached count, inside the transaction; a Redis error is ignored.
DelCount(r, answered) ==
    /\ Goto(r, "drop", IF job[r].kind = "scan" THEN "reward" ELSE "commit")
    /\ cache' = IF answered THEN [cache EXCEPT ![User(r)] = NoCount] ELSE cache
    /\ UNCHANGED <<dbVars, itemLock, active, window, job, localVars, answer>>

DropCache(r) == \E answered \in BOOLEAN : DelCount(r, answered)

\* Mutant: first blood is decided on the count after this scan.
BugFirstBlood(r) == seenSecret[r] = 1

\* The first scan of a secret, by the count the request read, is worth five times.
IsFirstBlood(r) == seenSecret[r] = 0

RewardOf(r) == IF IsFirstBlood(r) THEN 5 * RewardXp[Secret(r)] ELSE RewardXp[Secret(r)]

NewEvent(r) ==
    [user |-> User(r), secret |-> Secret(r), xp |-> RewardOf(r), first |-> IsFirstBlood(r)]

\* Mutant: the event is written outside the claim's transaction.
BugOwnTransaction(r) ==
    /\ Goto(r, "reward", "commit")
    /\ events' = events \cup {NewEvent(r)}
    /\ UNCHANGED <<validations, itemCount, secretCount, cooling, itemLock, active,
                   redisVars, job, localVars, answer>>

\* XP history row and outbox event (none when XP, coins and fragments are all zero).
Reward(r) ==
    /\ Goto(r, "reward", "commit")
    /\ \E drop \in BOOLEAN :
          txn' = [txn EXCEPT ![r].events = IF RewardOf(r) > 0 \/ drop THEN {NewEvent(r)} ELSE {}]
    /\ UNCHANGED <<dbVars, itemLock, active, redisVars, job, seenSecret, seenItem, answer>>

\* COMMIT; the client may not hear of it.
Commit(r) ==
    /\ \E outcome \in {"claimed", "failed"} : End(r, "commit", outcome)
    /\ validations' = validations \cup txn[r].rows
    /\ itemCount' = [itemCount EXCEPT ![Item(r)] = seenItem[r] + 1]
    /\ events' = events \cup txn[r].events
    /\ IF job[r].kind = "scan"
       THEN /\ secretCount' = [secretCount EXCEPT ![Secret(r)] = seenSecret[r] + 1]
            /\ cooling' = cooling \cup {Secret(r)}
       ELSE UNCHANGED <<secretCount, cooling>>
    /\ UNCHANGED redisVars

\* GET the cached count: answer from it; without one, or on a Redis error, count.
GetCount(r) ==
    \/ /\ cache[User(r)] # NoCount
       /\ Leave(r, "get", "count")
    \/ /\ Proceed(r, "get", "select")
       /\ UNCHANGED <<seenSecret, seenItem>>

\* SELECT count(*); seenItem holds the number read.
SelectCount(r) ==
    /\ Proceed(r, "select", "set")
    /\ seenItem' = [seenItem EXCEPT ![r] = Cardinality(Collected(User(r)))]
    /\ UNCHANGED seenSecret

\* SET of the key with its 600 s life; a Redis error is ignored.
SetCount(r) ==
    /\ End(r, "set", "count")
    /\ \/ cache' = [cache EXCEPT ![User(r)] = seenItem[r]]
       \/ UNCHANGED cache
    /\ UNCHANGED <<dbVars, window>>

\* An exception or a crash before the commit.
Fail(r) ==
    /\ pc[r] # "done"
    /\ Leave(r, pc[r], "failed")

-----------------------------------------------------------------------------
(* Time and administrators *)

WindowExpires(u) ==
    /\ window[u] > 0
    /\ window' = [window EXCEPT ![u] = 0]
    /\ UNCHANGED <<dbVars, itemLock, active, cache, job, pc, localVars, answer>>

CacheExpires(u) ==
    /\ cache[u] # NoCount
    /\ cache' = [cache EXCEPT ![u] = NoCount]
    /\ UNCHANGED <<dbVars, itemLock, active, window, job, pc, localVars, answer>>

CooldownEnds(s) ==
    /\ s \in cooling
    /\ cooling' = cooling \ {s}
    /\ UNCHANGED <<validations, itemCount, secretCount, events, itemLock, active,
                   redisVars, job, pc, localVars, answer>>

\* A secret expires, or an administrator's UPDATE, which waits for the row,
\* switches a secret or an item off.
Deactivate(x) ==
    /\ x \in active
    /\ x \in Items => itemLock[x] = NoRequest
    /\ active' = active \ {x}
    /\ UNCHANGED <<dbVars, itemLock, redisVars, job, pc, localVars, answer>>

-----------------------------------------------------------------------------
Step(r) ==
    \/ RateLimit(r) \/ LookupSecret(r) \/ LoadItem(r) \/ LockItem(r)
    \/ CheckValidation(r) \/ Validate(r) \/ DropCache(r) \/ Reward(r) \/ Commit(r)
    \/ GetCount(r) \/ SelectCount(r) \/ SetCount(r)

Next ==
    \/ \E r \in Requests : Step(r) \/ Fail(r)
    \/ \E u \in Users : WindowExpires(u) \/ CacheExpires(u)
    \/ \E s \in Secrets : CooldownEnds(s)
    \/ \E x \in Removable : Deactivate(x)

\* The event loop runs every request that can run.
Fairness == \A r \in Requests : WF_vars(Step(r))

Spec == Init /\ [][Next]_vars

FairSpec == Spec /\ Fairness
-----------------------------------------------------------------------------
(* What the collection of items promises *)

TypeOK ==
    /\ validations \subseteq Validations
    /\ itemCount \in [Items -> Nat]
    /\ itemLock \in [Items -> Requests \cup {NoRequest}]
    /\ secretCount \in [Secrets -> Nat]
    /\ cooling \subseteq Secrets
    /\ active \subseteq Secrets \cup Items
    /\ events \subseteq ScanEvents
    /\ window \in [Users -> Nat]
    /\ cache \in [Users -> Nat \cup {NoCount}]
    /\ job \in [Requests -> Jobs]
    /\ pc \in [Requests -> Steps]
    /\ seenSecret \in [Requests -> Nat]
    /\ seenItem \in [Requests -> Nat]
    /\ txn \in [Requests -> Transactions]
    /\ answer \in [Requests -> Outcomes]

\* The ranks of an item are 1, 2, ... up to its validation_count, each given to one
\* validation, and a user has one of them at most: a request that counted on a
\* stale item object never commits.
RanksDense ==
    /\ \A v \in validations : v.rank \in 1 .. itemCount[v.item]
    /\ \A i \in Items : \A k \in 1 .. itemCount[i] :
          \E v \in validations : v.item = i /\ v.rank = k
    /\ \A v, w \in validations :
          v.item = w.item /\ (v.rank = w.rank \/ v.user = w.user) => v = w

\* A client that was told "claimed" or "already collected" owns the item, whatever
\* failed or raced: "claimed" with the secret it scanned and the rank it was shown.
AnswersHold ==
    \A r \in Requests :
        /\ answer[r] = "claimed" => NewValidation(r) \in validations
        /\ answer[r] = "already_collected" =>
              \E v \in validations : v.user = User(r) /\ v.item = Item(r)

\* A scan_claimed event exists only with the validation that earned it, and a user
\* has at most one per item, however many secrets, endpoints and retries are used.
EventsEarned ==
    /\ \A e \in events :
          \E v \in validations : v.user = e.user /\ v.secret = e.secret
    /\ \A e, f \in events :
          e.user = f.user /\ ItemOf[e.secret] = ItemOf[f.secret] => e = f

\* 409 validation_conflict is told only to a request that was overtaken: another
\* one collected the item after this one had loaded it.
ConflictMeansOvertaken ==
    \A r \in Requests : answer[r] = "conflict" => seenItem[r] < itemCount[Item(r)]

\* The counter of a secret, written from an unlocked read, may miss scans but never
\* counts more than were committed, and the scan that started it got first blood.
SecretCounter ==
    \A s \in Secrets :
        /\ secretCount[s] <= Cardinality({v \in validations : v.secret = s})
        /\ secretCount[s] > 0 /\ RewardXp[s] > 0 =>
              \E e \in events : e.secret = s /\ e.first

\* Collecting implements the rank order of RankLedger: the collector at position k
\* is the user of the validation with rank k.
Ledger == INSTANCE RankLedger WITH
    ledger <- [i \in Items |-> [k \in 1 .. itemCount[i] |->
                 (CHOOSE v \in validations : v.item = i /\ v.rank = k).user]]

ImplementsLedger == Ledger!Spec

\* Every request is answered: whoever dies or leaves early gives the item's lock back.
EveryRequestAnswered == \A r \in Requests : <>(pc[r] = "done")

\* BACKEND_TZ.md:1891, 2133: two users who scan one item at the same time both
\* succeed with different ranks, so no request ends in a conflict.
ConcurrentScansSucceed == \A r \in Requests : answer[r] # "conflict"
=============================================================================
