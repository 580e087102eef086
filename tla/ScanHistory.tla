---------------------------- MODULE ScanHistory ----------------------------
(***************************************************************************)
(* ScanClaim with two history variables beside its state.  No guard reads  *)
(* them and every step of ScanClaim stays possible; they only remember who *)
(* got in whose way, so that it can be said what the claims, the readers   *)
(* and the cooldown still keep where nothing locks them.                   *)
(***************************************************************************)
EXTENDS ScanClaim

VARIABLES
    overtaken,     \* requests that use what another request's commit has changed since
    crossed        \* users whose cached count met a claim, or a DEL that failed

history == <<overtaken, crossed>>

HistoryInit == Init /\ overtaken = {} /\ crossed = {}

-----------------------------------------------------------------------------
\* A scan that has read its secret, and with it cooldown_until.
PastLookup == {"load", "lock", "check", "validate", "drop", "reward", "commit"}

\* A claim that has dropped the cached count and has not committed yet.
PastDrop == {"reward", "commit"}

\* A commit of r comes too late for q: a scan that has read the same secret's cooldown,
\* a reader that has counted the same user's validations.
Overtakes(r, q) ==
    \/ /\ job[r].kind = "scan" /\ job[q].kind = "scan"
       /\ Secret(q) = Secret(r) /\ pc[q] \in PastLookup
    \/ User(q) = User(r) /\ pc[q] = "set"

Unnoted == UNCHANGED history

NotedDrop(r) ==
    \E answered \in BOOLEAN :
        /\ DelCount(r, answered)
        /\ crossed' = IF answered THEN crossed \ {User(r)} ELSE crossed \cup {User(r)}
        /\ UNCHANGED overtaken

NotedCommit(r) ==
    /\ Commit(r)
    /\ overtaken' = overtaken \cup {q \in Requests \ {r} : Overtakes(r, q)}
    /\ UNCHANGED crossed

\* The key now holds what r counted: before a commit, or between a DEL and its commit?
NotedSet(r) ==
    /\ SetCount(r)
    /\ crossed' =
         IF cache'[User(r)] # seenItem[r] THEN crossed
         ELSE IF \/ r \in overtaken
                 \/ \E q \in Requests : User(q) = User(r) /\ pc[q] \in PastDrop
              THEN crossed \cup {User(r)}
              ELSE crossed \ {User(r)}
    /\ UNCHANGED overtaken

NotedStep(r) ==
    \/ RateLimit(r) /\ Unnoted
    \/ LookupSecret(r) /\ Unnoted
    \/ LoadItem(r) /\ Unnoted
    \/ LockItem(r) /\ Unnoted
    \/ CheckValidation(r) /\ Unnoted
    \/ Validate(r) /\ Unnoted
    \/ NotedDrop(r)
    \/ Reward(r) /\ Unnoted
    \/ NotedCommit(r)
    \/ GetCount(r) /\ Unnoted
    \/ SelectCount(r) /\ Unnoted
    \/ NotedSet(r)

NotedExpiry(u) ==
    /\ CacheExpires(u)
    /\ crossed' = crossed \ {u}
    /\ UNCHANGED overtaken

NotedNext ==
    \/ \E r \in Requests : NotedStep(r)
    \/ \E r \in Requests : Fail(r) /\ Unnoted
    \/ \E u \in Users : WindowExpires(u) /\ Unnoted
    \/ \E u \in Users : NotedExpiry(u)
    \/ \E s \in Secrets : CooldownEnds(s) /\ Unnoted
    \/ \E x \in Removable : Deactivate(x) /\ Unnoted

NotedSpec == HistoryInit /\ [][NotedNext]_<<vars, history>>

FairNotedSpec == NotedSpec /\ Fairness

-----------------------------------------------------------------------------
(***************************************************************************)
(* The cached count of a user is exact or not there, unless its key was    *)
(* set by a reader that a claim of that user overlapped, or outlived a DEL *)
(* that failed: between the SELECT and the SET of a reader, and between    *)
(* the DEL and the commit of a claim, and nowhere else, a count goes stale *)
(* (get_validation_count, claim_scan_reward, collect_item_by_secret).      *)
(***************************************************************************)
StaleOnlyInOverlap ==
    \A u \in Users \ crossed : cache[u] \in {NoCount, Cardinality(Collected(u))}

(***************************************************************************)
(* A scan that commits while its secret is cooling down had read the       *)
(* secret before the scan that cools it committed: the cooldown, checked   *)
(* on an unlocked row long before the write, lets nobody in who came later *)
(* (claim_scan_reward).                                                    *)
(***************************************************************************)
CooldownKept ==
    \A r \in Requests :
        job[r].kind = "scan" /\ pc[r] = "commit" /\ Secret(r) \in cooling => r \in overtaken
=============================================================================
