-------------------------- MODULE ScanClaimProofs ---------------------------
(***************************************************************************)
(* Proofs about ScanClaim for any number of requests, users, items and     *)
(* secrets: what the rows and locks of the database keep right, that a     *)
(* secret's counter never exceeds its firsts, that collecting is what      *)
(* RankLedger promises, that no item stays locked, that a cached count is  *)
(* never ahead of the validations and stale only by an overlap, and that a *)
(* cooldown lets nobody in who came after it began.                        *)
(***************************************************************************)
EXTENDS ScanHistory, Sequences, FiniteSetTheorems, TLAPS

-----------------------------------------------------------------------------
(* Types.  Counting the rows of a user yields a number because validations *)
(* stays finite.                                                           *)

TypeInv ==
    /\ TypeOK
    /\ IsFiniteSet(validations)
    /\ \A r \in Requests : IsFiniteSet(txn[r].rows)

LEMMA NewValidationType ==
    ASSUME NEW r \in Requests, job \in [Requests -> Jobs], seenItem \in [Requests -> Nat]
    PROVE  NewValidation(r) \in Validations
BY ScanAssumption DEF NewValidation, Validations, User, Secret, Item, Jobs

LEMMA JobType ==
    ASSUME NEW r \in Requests, job \in [Requests -> Jobs]
    PROVE  User(r) \in Users /\ Secret(r) \in Secrets /\ Item(r) \in Items
BY ScanAssumption DEF User, Secret, Item, Jobs

LEMMA NewEventType ==
    ASSUME NEW r \in Requests, job \in [Requests -> Jobs], seenSecret \in [Requests -> Nat]
    PROVE  NewEvent(r) \in ScanEvents
<1>1. RewardXp[Secret(r)] \in Nat
  BY ScanAssumption DEF Secret, Jobs
<1>2. RewardOf(r) \in Nat
  BY <1>1 DEF RewardOf
<1>3. QED
  BY <1>2 DEF NewEvent, ScanEvents, User, Secret, Jobs, IsFirstBlood

\* A transaction that ends keeps the types, and so does one that only leaves.
LEMMA EndType ==
    ASSUME TypeInv, NEW r \in Requests, NEW from, NEW outcome \in Outcomes, End(r, from, outcome)
    PROVE  /\ itemLock' \in [Items -> Requests \cup {NoRequest}]
           /\ active' \subseteq Secrets \cup Items
           /\ job' \in [Requests -> Jobs]
           /\ pc' \in [Requests -> Steps]
           /\ seenSecret' \in [Requests -> Nat]
           /\ seenItem' \in [Requests -> Nat]
           /\ txn' \in [Requests -> Transactions]
           /\ answer' \in [Requests -> Outcomes]
           /\ \A q \in Requests : IsFiniteSet(txn'[q].rows)
<1>1. NoWrites \in Transactions /\ IsFiniteSet(NoWrites.rows)
  BY FS_EmptySet DEF NoWrites, Transactions
<1>2. "done" \in Steps
  BY DEF Steps
<1>3. txn' = [txn EXCEPT ![r] = NoWrites]
  BY DEF End
<1>4. QED
  BY <1>1, <1>2, <1>3 DEF End, Goto, Unlock, TypeInv, TypeOK

LEMMA LeaveType ==
    ASSUME TypeInv, NEW r \in Requests, NEW from, NEW outcome \in Outcomes, Leave(r, from, outcome)
    PROVE  TypeInv'
<1>1. End(r, from, outcome) /\ UNCHANGED <<dbVars, redisVars>>
  BY DEF Leave
<1>2. QED
  BY <1>1, EndType DEF TypeInv, TypeOK, dbVars, redisVars

LEMMA ProceedType ==
    ASSUME TypeInv, NEW r \in Requests, NEW from, NEW to \in Steps, Proceed(r, from, to),
           seenSecret' \in [Requests -> Nat], seenItem' \in [Requests -> Nat]
    PROVE  TypeInv'
BY DEF Proceed, Goto, TypeInv, TypeOK, dbVars, redisVars

LEMMA StepType ==
    ASSUME TypeInv, NEW r \in Requests, Step(r)
    PROVE  TypeInv'
<1>a. /\ {"claimed", "already_collected", "not_found", "on_cooldown"} \subseteq Outcomes
      /\ {"rate_limited", "conflict", "count", "failed"} \subseteq Outcomes
  BY DEF Outcomes
<1>b. /\ {"lookup", "load", "lock", "check", "validate", "drop"} \subseteq Steps
      /\ {"reward", "commit", "select", "set"} \subseteq Steps
  BY DEF Steps
<1> USE <1>a, <1>b
<1>1. CASE RateLimit(r)
  <2>1. window' \in [Users -> Nat]
    <3>1. window' = [window EXCEPT ![User(r)] = @ + 1]
      BY <1>1 DEF RateLimit
    <3>2. User(r) \in Users /\ window[User(r)] + 1 \in Nat
      BY JobType DEF TypeInv, TypeOK
    <3>3. QED
      BY <3>1, <3>2 DEF TypeInv, TypeOK
  <2>2. CASE End(r, "limit", "rate_limited") /\ UNCHANGED <<dbVars, cache>>
    <3>1. "rate_limited" \in Outcomes /\ UNCHANGED <<dbVars, cache>>
      BY <2>2
    <3>2. QED
      BY <2>1, <2>2, <3>1, EndType DEF TypeInv, TypeOK, dbVars
  <2>3. CASE /\ Goto(r, "limit", "lookup")
             /\ UNCHANGED <<dbVars, itemLock, active, cache, job, localVars, answer>>
    BY <2>1, <2>3 DEF Goto, TypeInv, TypeOK, dbVars, localVars
  <2>4. QED
    BY <1>1, <2>2, <2>3 DEF RateLimit
<1>2. CASE LookupSecret(r)
  <2>1. CASE Leave(r, "lookup", "not_found")
    BY <2>1, LeaveType
  <2>2. CASE Leave(r, "lookup", "on_cooldown")
    BY <2>2, LeaveType
  <2>3. CASE /\ Proceed(r, "lookup", "load")
             /\ seenSecret' = [seenSecret EXCEPT ![r] = secretCount[Secret(r)]]
             /\ UNCHANGED seenItem
    <3>1. secretCount[Secret(r)] \in Nat
      BY DEF TypeInv, TypeOK, Jobs, Secret
    <3>2. seenSecret' \in [Requests -> Nat] /\ seenItem' \in [Requests -> Nat]
      BY <2>3, <3>1 DEF TypeInv, TypeOK
    <3>3. QED
      BY <2>3, <3>2, ProceedType
  <2>4. QED
    BY <1>2, <2>1, <2>2, <2>3 DEF LookupSecret
<1>3. CASE LoadItem(r)
  <2>1. CASE Leave(r, "load", "not_found")
    BY <2>1, LeaveType
  <2>2. CASE /\ Proceed(r, "load", "lock")
             /\ seenItem' = [seenItem EXCEPT ![r] = itemCount[Item(r)]]
             /\ UNCHANGED seenSecret
    <3>1. itemCount[Item(r)] \in Nat
      BY ScanAssumption DEF TypeInv, TypeOK, Jobs, Secret, Item
    <3>2. seenSecret' \in [Requests -> Nat] /\ seenItem' \in [Requests -> Nat]
      BY <2>2, <3>1 DEF TypeInv, TypeOK
    <3>3. QED
      BY <2>2, <3>2, ProceedType
  <2>3. QED
    BY <1>3, <2>1, <2>2 DEF LoadItem
<1>4. CASE LockItem(r)
  <2>1. CASE Leave(r, "lock", "not_found")
    BY <2>1, LeaveType
  <2>2. CASE /\ Goto(r, "lock", "check")
             /\ itemLock' = [itemLock EXCEPT ![Item(r)] = r]
             /\ UNCHANGED <<dbVars, active, redisVars, job, localVars, answer>>
    BY <2>2 DEF Goto, TypeInv, TypeOK, dbVars, redisVars, localVars
  <2>3. QED
    BY <1>4, <2>1, <2>2 DEF LockItem
<1>5. CASE CheckValidation(r)
  <2>1. CASE Leave(r, "check", "already_collected")
    BY <2>1, LeaveType
  <2>2. CASE Proceed(r, "check", "validate") /\ UNCHANGED <<seenSecret, seenItem>>
    BY <2>2, ProceedType DEF TypeInv, TypeOK
  <2>3. QED
    BY <1>5, <2>1, <2>2 DEF CheckValidation
<1>6. CASE Validate(r)
  <2>1. CASE Leave(r, "validate", "conflict")
    BY <2>1, LeaveType
  <2>2. CASE /\ Goto(r, "validate", "drop")
             /\ txn' = [txn EXCEPT ![r].rows = {NewValidation(r)}]
             /\ UNCHANGED <<dbVars, itemLock, active, redisVars, job, seenSecret,
                            seenItem, answer>>
    <3>1. {NewValidation(r)} \in SUBSET Validations /\ IsFiniteSet({NewValidation(r)})
      BY NewValidationType, FS_Singleton DEF TypeInv, TypeOK
    <3>2. txn' \in [Requests -> Transactions]
      BY <2>2, <3>1 DEF TypeInv, TypeOK, Transactions
    <3>3. \A q \in Requests : IsFiniteSet(txn'[q].rows)
      BY <2>2, <3>1 DEF TypeInv, TypeOK, Transactions
    <3>4. QED
      BY <2>2, <3>2, <3>3 DEF Goto, TypeInv, TypeOK, dbVars, redisVars
  <2>3. QED
    BY <1>6, <2>1, <2>2 DEF Validate
<1>7. CASE DropCache(r)
  <2>1. cache' \in [Users -> Nat \cup {NoCount}]
    BY <1>7 DEF DropCache, DelCount, TypeInv, TypeOK
  <2>2. pc' \in [Requests -> Steps]
    BY <1>7 DEF DropCache, DelCount, Goto, TypeInv, TypeOK
  <2>3. QED
    BY <1>7, <2>1, <2>2 DEF DropCache, DelCount, TypeInv, TypeOK, dbVars, localVars
<1>8. CASE Reward(r)
  <2>1. NewEvent(r) \in ScanEvents
    BY NewEventType DEF TypeInv, TypeOK
  <2>2. PICK drop \in BOOLEAN :
           txn' = [txn EXCEPT ![r].events = IF RewardOf(r) > 0 \/ drop THEN {NewEvent(r)} ELSE {}]
    BY <1>8 DEF Reward
  <2> DEFINE new == IF RewardOf(r) > 0 \/ drop THEN {NewEvent(r)} ELSE {}
  <2>3. new \in SUBSET ScanEvents
    BY <2>1
  <2> HIDE DEF new
  <2>4. txn' = [txn EXCEPT ![r].events = new]
    BY <2>2 DEF new
  <2>5. txn' \in [Requests -> Transactions]
    BY <2>3, <2>4 DEF TypeInv, TypeOK, Transactions
  <2>6. \A q \in Requests : txn'[q].rows = txn[q].rows
    BY <2>4 DEF TypeInv, TypeOK, Transactions
  <2>7. QED
    BY <1>8, <2>5, <2>6 DEF Reward, Goto, TypeInv, TypeOK, dbVars, redisVars
<1>9. CASE Commit(r)
  <2>1. PICK outcome \in {"claimed", "failed"} : End(r, "commit", outcome)
    BY <1>9 DEF Commit
  <2>2. txn[r].rows \subseteq Validations /\ txn[r].events \subseteq ScanEvents
    BY DEF TypeInv, TypeOK, Transactions
  <2>3. validations' \subseteq Validations /\ IsFiniteSet(validations')
    BY <1>9, <2>2, FS_Union DEF Commit, TypeInv, TypeOK
  <2>4. events' \subseteq ScanEvents
    BY <1>9, <2>2 DEF Commit, TypeInv, TypeOK
  <2>5. itemCount' \in [Items -> Nat]
    <3>1. Item(r) \in Items /\ seenItem[r] + 1 \in Nat
      BY JobType DEF TypeInv, TypeOK
    <3>2. itemCount' = [itemCount EXCEPT ![Item(r)] = seenItem[r] + 1]
      BY <1>9 DEF Commit
    <3>3. QED
      BY <3>1, <3>2 DEF TypeInv, TypeOK
  <2>6. secretCount' \in [Secrets -> Nat] /\ cooling' \subseteq Secrets
    <3>1. Secret(r) \in Secrets /\ seenSecret[r] + 1 \in Nat
      BY JobType DEF TypeInv, TypeOK
    <3>2. CASE /\ secretCount' = [secretCount EXCEPT ![Secret(r)] = seenSecret[r] + 1]
               /\ cooling' = cooling \cup {Secret(r)}
      BY <3>1, <3>2 DEF TypeInv, TypeOK
    <3>3. CASE UNCHANGED <<secretCount, cooling>>
      BY <3>3 DEF TypeInv, TypeOK
    <3>4. QED
      BY <1>9, <3>2, <3>3 DEF Commit
  <2>7. UNCHANGED redisVars
    BY <1>9 DEF Commit
  <2>8. QED
    BY <2>1, <2>3, <2>4, <2>5, <2>6, <2>7, EndType DEF TypeInv, TypeOK, redisVars
<1>10. CASE GetCount(r)
  <2>1. CASE Leave(r, "get", "count")
    BY <2>1, LeaveType
  <2>2. CASE Proceed(r, "get", "select") /\ UNCHANGED <<seenSecret, seenItem>>
    BY <2>2, ProceedType DEF TypeInv, TypeOK
  <2>3. QED
    BY <1>10, <2>1, <2>2 DEF GetCount
<1>11. CASE SelectCount(r)
  <2>1. IsFiniteSet(Collected(User(r)))
    BY FS_Subset DEF Collected, TypeInv
  <2>2. Cardinality(Collected(User(r))) \in Nat
    BY <2>1, FS_CardinalityType
  <2>3. seenSecret' \in [Requests -> Nat] /\ seenItem' \in [Requests -> Nat]
    BY <1>11, <2>2 DEF SelectCount, TypeInv, TypeOK
  <2>4. QED
    BY <1>11, <2>3, ProceedType DEF SelectCount
<1>12. CASE SetCount(r)
  <2>1. cache' \in [Users -> Nat \cup {NoCount}]
    BY <1>12 DEF SetCount, TypeInv, TypeOK
  <2>2. QED
    BY <1>12, <2>1, EndType DEF SetCount, TypeInv, TypeOK, dbVars
<1>13. QED
  BY <1>1, <1>2, <1>3, <1>4, <1>5, <1>6, <1>7, <1>8, <1>9, <1>10, <1>11, <1>12 DEF Step

LEMMA InitType == Init => TypeInv
<1> SUFFICES ASSUME Init PROVE TypeInv
  OBVIOUS
<1>1. NoWrites \in Transactions /\ IsFiniteSet(NoWrites.rows) /\ IsFiniteSet(validations)
  BY FS_EmptySet DEF NoWrites, Transactions, Init
<1>2. \A r \in Requests : FirstStep(job[r].kind) \in Steps
  BY ScanAssumption DEF Init, FirstStep, Steps, Jobs, Endpoints
<1>3. QED
  BY <1>1, <1>2 DEF Init, TypeInv, TypeOK, Outcomes

LEMMA NextType == TypeInv /\ [Next]_vars => TypeInv'
<1> SUFFICES ASSUME TypeInv, [Next]_vars PROVE TypeInv'
  OBVIOUS
<1> USE DEF TypeInv, TypeOK
<1>1. ASSUME NEW r \in Requests, Step(r) PROVE TypeInv'
  BY <1>1, StepType
<1>2. ASSUME NEW r \in Requests, Fail(r) PROVE TypeInv'
  BY <1>2, LeaveType DEF Fail, Outcomes
<1>3. ASSUME NEW u \in Users, WindowExpires(u) PROVE TypeInv'
  BY <1>3 DEF WindowExpires, dbVars, localVars
<1>4. ASSUME NEW u \in Users, CacheExpires(u) PROVE TypeInv'
  BY <1>4 DEF CacheExpires, dbVars, localVars
<1>5. ASSUME NEW s \in Secrets, CooldownEnds(s) PROVE TypeInv'
  BY <1>5 DEF CooldownEnds, redisVars, localVars
<1>6. ASSUME NEW x \in Removable, Deactivate(x) PROVE TypeInv'
  BY <1>6 DEF Deactivate, dbVars, redisVars, localVars
<1>7. CASE UNCHANGED vars
  BY <1>7 DEF vars, dbVars, redisVars, localVars
<1>8. QED
  BY <1>1, <1>2, <1>3, <1>4, <1>5, <1>6, <1>7 DEF Next

LEMMA TypeInvariant == Spec => []TypeInv
BY InitType, NextType, PTL DEF Spec

\* Every variable keeps its type, for every number of requests, users and items.
THEOREM TypeCorrect == Spec => []TypeOK
<1>1. TypeInv => TypeOK
  BY DEF TypeInv
<1>2. QED
  BY TypeInvariant, <1>1, PTL

-----------------------------------------------------------------------------
(* Ranks, events and answers.  The item's lock makes a request that passed *)
(* its insert the only one at work on the item, so the count it read is    *)
(* still the committed one and its row is the next rank.  A request that   *)
(* read an older count is caught by the rank index: the ranks being dense, *)
(* the rank it computed is taken.                                          *)

Holding == {"check", "validate", "drop", "reward", "commit"}
Counted == {"lock", "check", "validate", "drop", "reward", "commit"}
Unowned == {"validate", "drop", "reward", "commit"}
Inserted == {"drop", "reward", "commit"}

\* What holds of a request at each of its steps.
RequestInv(r) ==
    /\ pc[r] \in Holding => itemLock[Item(r)] = r
    /\ pc[r] \in Counted => seenItem[r] <= itemCount[Item(r)]
    /\ pc[r] \in Unowned => ~HasValidation(User(r), Item(r))
    /\ pc[r] \in Inserted => /\ seenItem[r] = itemCount[Item(r)]
                             /\ txn[r].rows = {NewValidation(r)}
    /\ txn[r].events \subseteq (IF pc[r] = "commit" THEN {NewEvent(r)} ELSE {})
    /\ pc[r] # "done" => answer[r] = "none"
    /\ answer[r] = "claimed" => NewValidation(r) \in validations
    /\ answer[r] = "already_collected" => HasValidation(User(r), Item(r))
    /\ answer[r] = "conflict" => seenItem[r] < itemCount[Item(r)]

\* A validation is of the item its secret belongs to.
SecretOfItem == \A v \in validations : v.item = ItemOf[v.secret]

ClaimInv ==
    /\ TypeInv
    /\ RanksDense
    /\ SecretOfItem
    /\ EventsEarned
    /\ \A r \in Requests : RequestInv(r)

\* A step of r that leaves the collected rows alone, the other requests where they
\* are and their locks in place keeps the invariant if it keeps it for r.
OthersUnmoved(r) ==
    \A q \in Requests \ {r} :
        /\ pc'[q] = pc[q] /\ answer'[q] = answer[q] /\ txn'[q] = txn[q]
        /\ seenItem'[q] = seenItem[q] /\ seenSecret'[q] = seenSecret[q]
        /\ \A i \in Items : itemLock[i] = q => itemLock'[i] = q

LEMMA QuietStep ==
    ASSUME ClaimInv, TypeInv', NEW r \in Requests, OthersUnmoved(r),
           UNCHANGED <<validations, itemCount, events, job>>, RequestInv(r)'
    PROVE  ClaimInv'
<1>1. RanksDense' /\ SecretOfItem' /\ EventsEarned'
  BY DEF ClaimInv, RanksDense, SecretOfItem, EventsEarned
<1>2. ASSUME NEW q \in Requests, q # r PROVE RequestInv(q)'
  <2>1. RequestInv(q)
    BY DEF ClaimInv
  <2>2. /\ pc'[q] = pc[q] /\ answer'[q] = answer[q] /\ txn'[q] = txn[q]
        /\ seenItem'[q] = seenItem[q] /\ seenSecret'[q] = seenSecret[q]
        /\ \A i \in Items : itemLock[i] = q => itemLock'[i] = q
    BY <1>2 DEF OthersUnmoved
  <2>3. Item(q) \in Items
    BY JobType DEF ClaimInv, TypeInv, TypeOK
  <2>4. /\ User(q)' = User(q) /\ Item(q)' = Item(q) /\ Secret(q)' = Secret(q)
        /\ NewValidation(q)' = NewValidation(q) /\ NewEvent(q)' = NewEvent(q)
        /\ HasValidation(User(q), Item(q))' = HasValidation(User(q), Item(q))
    BY <2>2 DEF User, Item, Secret, NewValidation, NewEvent, RewardOf, IsFirstBlood,
                HasValidation
  <2>5. QED
    BY <2>1, <2>2, <2>3, <2>4 DEF RequestInv
<1>3. QED
  BY <1>1, <1>2 DEF ClaimInv

LEMMA EndInv ==
    ASSUME ClaimInv, TypeInv', NEW r \in Requests, NEW from, NEW outcome \in Outcomes,
           End(r, from, outcome), UNCHANGED dbVars, outcome # "claimed",
           outcome = "already_collected" => HasValidation(User(r), Item(r)),
           outcome = "conflict" => seenItem[r] < itemCount[Item(r)]
    PROVE  ClaimInv'
<1>1. OthersUnmoved(r)
  BY DEF End, Goto, Unlock, OthersUnmoved, ClaimInv, TypeInv, TypeOK
<1>2. UNCHANGED <<validations, itemCount, events, job, seenItem, seenSecret>>
  BY DEF End, dbVars
<1>3. pc'[r] = "done" /\ answer'[r] = outcome /\ txn'[r] = NoWrites
  BY DEF End, Goto, ClaimInv, TypeInv, TypeOK
<1>4. RequestInv(r)'
  BY <1>2, <1>3 DEF RequestInv, Holding, Counted, Unowned, Inserted, NoWrites, HasValidation,
                    User, Item, Secret
<1>5. QED
  BY <1>1, <1>2, <1>4, QuietStep

LEMMA LeaveInv ==
    ASSUME ClaimInv, NEW r \in Requests, NEW from, NEW outcome \in Outcomes,
           Leave(r, from, outcome), outcome # "claimed",
           outcome = "already_collected" => HasValidation(User(r), Item(r)),
           outcome = "conflict" => seenItem[r] < itemCount[Item(r)]
    PROVE  ClaimInv'
BY LeaveType, EndInv DEF Leave, ClaimInv

\* A request that only reads: what it has read suits the step it goes to.
LEMMA ProceedInv ==
    ASSUME ClaimInv, TypeInv', NEW r \in Requests, NEW from, NEW to,
           Proceed(r, from, to), from \notin Inserted \cup {"done"},
           to \notin Inserted \cup {"done"},
           \A q \in Requests \ {r} :
               seenItem'[q] = seenItem[q] /\ seenSecret'[q] = seenSecret[q],
           to \in Counted => seenItem'[r] <= itemCount[Item(r)],
           to \in Holding => itemLock[Item(r)] = r,
           to \in Unowned => ~HasValidation(User(r), Item(r))
    PROVE  ClaimInv'
<1>1. OthersUnmoved(r)
  BY DEF Proceed, Goto, OthersUnmoved, ClaimInv, TypeInv, TypeOK
<1>2. UNCHANGED <<validations, itemCount, itemLock, events, job, txn, answer>>
  BY DEF Proceed, dbVars
<1>3. pc[r] = from /\ pc'[r] = to
  BY DEF Proceed, Goto, ClaimInv, TypeInv, TypeOK
<1>4. txn[r].events \subseteq {} /\ answer[r] = "none"
  BY <1>3 DEF ClaimInv, RequestInv, Inserted
<1>5. /\ User(r)' = User(r) /\ Item(r)' = Item(r)
      /\ HasValidation(User(r), Item(r))' = HasValidation(User(r), Item(r))
  BY <1>2 DEF User, Item, Secret, HasValidation
<1>6. RequestInv(r)'
  BY <1>2, <1>3, <1>4, <1>5 DEF RequestInv, Inserted
<1>7. QED
  BY <1>1, <1>2, <1>6, QuietStep

LEMMA CommitInv ==
    ASSUME ClaimInv, TypeInv', NEW r \in Requests, Commit(r)
    PROVE  ClaimInv'
<1> DEFINE v == NewValidation(r)
           i == Item(r)
<1>1. TypeOK
  BY DEF ClaimInv, TypeInv
<1>2. PICK outcome \in {"claimed", "failed"} : End(r, "commit", outcome)
  BY DEF Commit
<1>3. pc[r] = "commit" /\ pc'[r] = "done" /\ answer'[r] = outcome /\ txn'[r] = NoWrites
  BY <1>1, <1>2 DEF End, Goto, TypeOK
<1>4. /\ itemLock[i] = r /\ seenItem[r] = itemCount[i]
      /\ txn[r].rows = {v} /\ txn[r].events \subseteq {NewEvent(r)}
      /\ ~HasValidation(User(r), i)
  BY <1>3 DEF ClaimInv, RequestInv, Holding, Unowned, Inserted
<1>5. User(r) \in Users /\ Secret(r) \in Secrets /\ i \in Items
  BY <1>1, JobType DEF TypeOK
<1>6. v = [user |-> User(r), item |-> i, secret |-> Secret(r), rank |-> itemCount[i] + 1]
  BY <1>4 DEF NewValidation
<1>7. /\ validations' = validations \cup {v}
      /\ itemCount' = [itemCount EXCEPT ![i] = itemCount[i] + 1]
      /\ events' = events \cup txn[r].events
  BY <1>4 DEF Commit
<1>8. UNCHANGED <<job, seenItem, seenSecret>>
  BY <1>2 DEF End
<1>9. /\ itemCount'[i] = itemCount[i] + 1
      /\ \A j \in Items \ {i} : itemCount'[j] = itemCount[j]
      /\ \A j \in Items : itemCount[j] \in Nat /\ itemCount'[j] \in Nat
  BY <1>1, <1>5, <1>7 DEF TypeOK
<1> HIDE DEF v, i
<1>10. RanksDense'
  <2>1. \A w \in validations' : w.rank \in 1 .. itemCount'[w.item]
    BY <1>1, <1>5, <1>6, <1>7, <1>9 DEF ClaimInv, RanksDense, TypeOK, Validations
  <2>2. \A j \in Items : \A k \in 1 .. itemCount'[j] :
           \E w \in validations' : w.item = j /\ w.rank = k
    <3> TAKE j \in Items
    <3> TAKE k \in 1 .. itemCount'[j]
    <3>1. CASE k \in 1 .. itemCount[j]
      BY <1>7, <3>1 DEF ClaimInv, RanksDense
    <3>2. CASE k \notin 1 .. itemCount[j]
      <4>1. j = i /\ k = itemCount[i] + 1
        BY <1>9, <3>2
      <4>2. QED
        BY <4>1, <1>6, <1>7
    <3>3. QED
      BY <3>1, <3>2
  <2>3. ASSUME NEW a \in validations', NEW b \in validations', a.item = b.item,
               a.rank = b.rank \/ a.user = b.user
        PROVE  a = b
    <3>1. \A w \in validations : w.item = i => w.user # User(r) /\ w.rank # itemCount[i] + 1
      BY <1>4, <1>5, <1>9 DEF ClaimInv, RanksDense, HasValidation
    <3>2. QED
      BY <1>6, <1>7, <2>3, <3>1 DEF ClaimInv, RanksDense
  <2>4. QED
    BY <2>1, <2>2, <2>3 DEF RanksDense
<1>11. SecretOfItem'
  BY <1>6, <1>7 DEF ClaimInv, SecretOfItem, Item, i
<1>12. EventsEarned'
  <2>1. \A e \in txn[r].events : e = NewEvent(r) /\ e.user = User(r) /\ e.secret = Secret(r)
    BY <1>4 DEF NewEvent
  <2>2. \A e \in events' : \E w \in validations' : w.user = e.user /\ w.secret = e.secret
    BY <1>6, <1>7, <2>1 DEF ClaimInv, EventsEarned
  <2>3. \A e \in events : ~(e.user = User(r) /\ ItemOf[e.secret] = i)
    BY <1>4 DEF ClaimInv, EventsEarned, SecretOfItem, HasValidation
  <2>4. \A e \in txn[r].events : ItemOf[e.secret] = i
    BY <2>1 DEF Item, i
  <2>5. \A e, f \in events' :
           e.user = f.user /\ ItemOf[e.secret] = ItemOf[f.secret] => e = f
    BY <1>7, <2>1, <2>3, <2>4 DEF ClaimInv, EventsEarned
  <2>6. QED
    BY <2>2, <2>5 DEF EventsEarned
<1>13. RequestInv(r)'
  <2>1. NewValidation(r)' = v
    BY <1>8 DEF NewValidation, User, Item, Secret, v
  <2>2. QED
    BY <1>2, <1>3, <1>7, <2>1
       DEF RequestInv, Holding, Counted, Unowned, Inserted, NoWrites
<1>14. ASSUME NEW q \in Requests, q # r PROVE RequestInv(q)'
  <2>1. RequestInv(q) /\ Item(q) \in Items /\ itemCount[Item(q)] <= itemCount'[Item(q)]
    BY <1>1, <1>9, JobType DEF ClaimInv, TypeOK
  <2>2. /\ pc'[q] = pc[q] /\ answer'[q] = answer[q] /\ txn'[q] = txn[q]
        /\ itemLock[Item(q)] = q => itemLock'[Item(q)] = q
    BY <1>1, <1>2, <1>14, <2>1 DEF End, Goto, Unlock, TypeOK
  <2>3. /\ User(q)' = User(q) /\ Item(q)' = Item(q) /\ Secret(q)' = Secret(q)
        /\ NewValidation(q)' = NewValidation(q) /\ NewEvent(q)' = NewEvent(q)
        /\ seenItem'[q] = seenItem[q]
    BY <1>8 DEF User, Item, Secret, NewValidation, NewEvent, RewardOf, IsFirstBlood
  <2>4. pc[q] \in Holding => Item(q) # i
    BY <1>4, <1>14, <2>1 DEF RequestInv
  <2>5. HasValidation(User(q), Item(q)) => HasValidation(User(q), Item(q))'
    BY <1>7, <2>3 DEF HasValidation
  <2>6. pc[q] \in Holding => /\ itemCount'[Item(q)] = itemCount[Item(q)]
                            /\ HasValidation(User(q), Item(q))' = HasValidation(User(q), Item(q))
    BY <1>6, <1>7, <1>9, <2>1, <2>3, <2>4 DEF HasValidation
  <2>7. /\ pc[q] \in Unowned => pc[q] \in Holding
        /\ pc[q] \in Inserted => pc[q] \in Holding
    BY DEF Unowned, Inserted, Holding
  <2>8. seenItem[q] \in Nat /\ itemCount[Item(q)] \in Nat /\ itemCount'[Item(q)] \in Nat
    BY <1>1, <1>9, <2>1 DEF TypeOK
  <2>9. QED
    BY <1>7, <2>1, <2>2, <2>3, <2>5, <2>6, <2>7, <2>8 DEF RequestInv
<1>15. QED
  BY <1>10, <1>11, <1>12, <1>13, <1>14 DEF ClaimInv

LEMMA StepInv ==
    ASSUME ClaimInv, NEW r \in Requests, Step(r)
    PROVE  ClaimInv'
<1>a. TypeInv /\ TypeOK /\ TypeInv'
  BY StepType DEF ClaimInv, TypeInv
<1>b. User(r) \in Users /\ Item(r) \in Items
  BY <1>a, JobType DEF TypeOK
<1>c. RequestInv(r)
  BY DEF ClaimInv
<1>d. {"not_found", "on_cooldown", "already_collected", "conflict", "rate_limited", "count"}
         \subseteq Outcomes
  BY DEF Outcomes
<1> USE DEF Counted, Holding, Unowned, Inserted
<1>1. CASE RateLimit(r)
  <2>1. CASE End(r, "limit", "rate_limited") /\ UNCHANGED <<dbVars, cache>>
    BY <1>a, <1>d, <2>1, EndInv
  <2>2. CASE /\ Goto(r, "limit", "lookup")
             /\ UNCHANGED <<dbVars, itemLock, active, cache, job, localVars, answer>>
    <3>1. OthersUnmoved(r)
      BY <1>a, <2>2 DEF Goto, OthersUnmoved, TypeOK, localVars
    <3>2. pc[r] = "limit" /\ pc'[r] = "lookup"
      BY <1>a, <2>2 DEF Goto, TypeOK
    <3>3. UNCHANGED <<validations, itemCount, events, job, txn, answer>>
      BY <2>2 DEF dbVars, localVars
    <3>4. RequestInv(r)'
      BY <1>c, <3>2, <3>3 DEF RequestInv
    <3>5. QED
      BY <1>a, <3>1, <3>3, <3>4, QuietStep
  <2>3. QED
    BY <1>1, <2>1, <2>2 DEF RateLimit
<1>2. CASE LookupSecret(r)
  <2>1. CASE Leave(r, "lookup", "not_found") \/ Leave(r, "lookup", "on_cooldown")
    BY <1>d, <2>1, LeaveInv
  <2>2. CASE /\ Proceed(r, "lookup", "load")
             /\ seenSecret' = [seenSecret EXCEPT ![r] = secretCount[Secret(r)]]
             /\ UNCHANGED seenItem
    <3>1. \A q \in Requests \ {r} : seenItem'[q] = seenItem[q] /\ seenSecret'[q] = seenSecret[q]
      BY <1>a, <2>2 DEF TypeOK
    <3>2. QED
      BY <1>a, <2>2, <3>1, ProceedInv
  <2>3. QED
    BY <1>2, <2>1, <2>2 DEF LookupSecret
<1>3. CASE LoadItem(r)
  <2>1. CASE Leave(r, "load", "not_found")
    BY <1>d, <2>1, LeaveInv
  <2>2. CASE /\ Proceed(r, "load", "lock")
             /\ seenItem' = [seenItem EXCEPT ![r] = itemCount[Item(r)]]
             /\ UNCHANGED seenSecret
    <3>1. /\ \A q \in Requests \ {r} :
                seenItem'[q] = seenItem[q] /\ seenSecret'[q] = seenSecret[q]
          /\ seenItem'[r] = itemCount[Item(r)] /\ itemCount[Item(r)] \in Nat
      BY <1>a, <1>b, <2>2 DEF TypeOK
    <3>2. seenItem'[r] <= itemCount[Item(r)]
      BY <3>1
    <3>3. QED
      BY <1>a, <2>2, <3>1, <3>2, ProceedInv
  <2>3. QED
    BY <1>3, <2>1, <2>2 DEF LoadItem
<1>4. CASE LockItem(r)
  <2>1. CASE Leave(r, "lock", "not_found")
    BY <1>d, <2>1, LeaveInv
  <2>2. CASE /\ Goto(r, "lock", "check")
             /\ itemLock' = [itemLock EXCEPT ![Item(r)] = r]
             /\ UNCHANGED <<dbVars, active, redisVars, job, localVars, answer>>
    <3>1. itemLock[Item(r)] = NoRequest
      BY <1>4 DEF LockItem
    <3>2. OthersUnmoved(r)
      BY <1>a, <1>b, <2>2, <3>1, ScanAssumption DEF Goto, OthersUnmoved, TypeOK, localVars
    <3>3. pc[r] = "lock" /\ pc'[r] = "check" /\ itemLock'[Item(r)] = r
      BY <1>a, <1>b, <2>2 DEF Goto, TypeOK
    <3>4. UNCHANGED <<validations, itemCount, events, job, seenItem, txn, answer>>
      BY <2>2 DEF dbVars, localVars
    <3>5. Item(r)' = Item(r)
      BY <3>4 DEF Item, Secret
    <3>6. RequestInv(r)'
      BY <1>c, <3>3, <3>4, <3>5 DEF RequestInv
    <3>7. QED
      BY <1>a, <3>2, <3>4, <3>6, QuietStep
  <2>3. QED
    BY <1>4, <2>1, <2>2 DEF LockItem
<1>5. CASE CheckValidation(r)
  <2>1. CASE HasValidation(User(r), Item(r)) /\ Leave(r, "check", "already_collected")
    BY <1>d, <2>1, LeaveInv
  <2>2. CASE /\ ~HasValidation(User(r), Item(r))
             /\ Proceed(r, "check", "validate") /\ UNCHANGED <<seenSecret, seenItem>>
    <3>1. itemLock[Item(r)] = r /\ seenItem[r] <= itemCount[Item(r)]
      BY <1>c, <2>2 DEF Proceed, Goto, RequestInv
    <3>2. QED
      BY <1>a, <2>2, <3>1, ProceedInv
  <2>3. QED
    BY <1>5, <2>1, <2>2 DEF CheckValidation
<1>6. CASE Validate(r)
  <2>1. pc[r] = "validate"
    BY <1>6 DEF Validate, Leave, End, Goto
  <2>2. /\ itemLock[Item(r)] = r /\ ~HasValidation(User(r), Item(r))
        /\ seenItem[r] <= itemCount[Item(r)]
    BY <1>c, <2>1 DEF RequestInv
  <2>3. seenItem[r] \in Nat /\ itemCount[Item(r)] \in Nat
    BY <1>a, <1>b DEF TypeOK
  <2>4. CASE Violates(NewValidation(r)) /\ Leave(r, "validate", "conflict")
    <3>1. PICK w \in validations : w.item = Item(r) /\ w.rank = seenItem[r] + 1
      BY <2>2, <2>4 DEF Violates, NewValidation, HasValidation
    <3>2. w.rank \in 1 .. itemCount[Item(r)]
      BY <3>1 DEF ClaimInv, RanksDense
    <3>3. seenItem[r] < itemCount[Item(r)]
      BY <2>3, <3>1, <3>2
    <3>4. QED
      BY <1>d, <2>4, <3>3, LeaveInv
  <2>5. CASE /\ ~Violates(NewValidation(r))
             /\ Goto(r, "validate", "drop")
             /\ txn' = [txn EXCEPT ![r].rows = {NewValidation(r)}]
             /\ UNCHANGED <<dbVars, itemLock, active, redisVars, job, seenSecret,
                            seenItem, answer>>
    <3>1. OthersUnmoved(r)
      BY <1>a, <2>5 DEF Goto, OthersUnmoved, TypeOK
    <3>2. UNCHANGED <<validations, itemCount, itemLock, events, job, seenItem, answer>>
      BY <2>5 DEF dbVars
    <3>3. /\ pc'[r] = "drop" /\ txn'[r].rows = {NewValidation(r)}
          /\ txn'[r].events = txn[r].events
      BY <1>a, <2>5 DEF Goto, TypeOK, Transactions
    <3>4. seenItem[r] = itemCount[Item(r)]
      <4>1. SUFFICES ASSUME seenItem[r] < itemCount[Item(r)] PROVE FALSE
        BY <2>2, <2>3
      <4>2. seenItem[r] + 1 \in 1 .. itemCount[Item(r)]
        BY <2>3, <4>1
      <4>3. PICK w \in validations : w.item = Item(r) /\ w.rank = seenItem[r] + 1
        BY <1>b, <4>2 DEF ClaimInv, RanksDense
      <4>4. QED
        BY <2>5, <4>3 DEF Violates, NewValidation
    <3>5. /\ User(r)' = User(r) /\ Item(r)' = Item(r) /\ NewValidation(r)' = NewValidation(r)
          /\ HasValidation(User(r), Item(r))' = HasValidation(User(r), Item(r))
      BY <3>2 DEF User, Item, Secret, NewValidation, HasValidation
    <3>6. RequestInv(r)'
      BY <1>c, <2>1, <2>2, <2>3, <3>2, <3>3, <3>4, <3>5 DEF RequestInv
    <3>7. QED
      BY <1>a, <3>1, <3>2, <3>6, QuietStep
  <2>6. QED
    BY <1>6, <2>4, <2>5 DEF Validate
<1>7. CASE DropCache(r) \/ Reward(r)
  <2>1. /\ pc[r] \in {"drop", "reward"} /\ pc'[r] \in {"reward", "commit"}
        /\ Goto(r, pc[r], pc'[r])
    BY <1>7, <1>a DEF DropCache, DelCount, Reward, Goto, TypeOK
  <2>2. UNCHANGED <<validations, itemCount, itemLock, events, job, seenItem, seenSecret, answer>>
    BY <1>7 DEF DropCache, DelCount, Reward, dbVars, localVars
  <2>3. /\ \A q \in Requests \ {r} : txn'[q] = txn[q]
        /\ txn'[r].rows = txn[r].rows
        /\ txn'[r].events \subseteq (IF pc'[r] = "commit" THEN {NewEvent(r)} ELSE {})
    <3>1. CASE DropCache(r)
      <4>1. pc[r] = "drop" /\ UNCHANGED txn
        BY <3>1 DEF DropCache, DelCount, Goto, localVars
      <4>2. QED
        BY <1>c, <4>1 DEF RequestInv
    <3>2. CASE Reward(r)
      <4>1. PICK drop \in BOOLEAN :
               txn' = [txn EXCEPT ![r].events = IF RewardOf(r) > 0 \/ drop THEN {NewEvent(r)} ELSE {}]
        BY <3>2 DEF Reward
      <4> DEFINE new == IF RewardOf(r) > 0 \/ drop THEN {NewEvent(r)} ELSE {}
      <4>2. new \subseteq {NewEvent(r)}
        OBVIOUS
      <4> HIDE DEF new
      <4>3. txn' = [txn EXCEPT ![r].events = new]
        BY <4>1 DEF new
      <4>4. pc'[r] = "commit"
        BY <1>a, <3>2 DEF Reward, Goto, TypeOK
      <4>5. QED
        BY <1>a, <4>2, <4>3, <4>4 DEF TypeOK, Transactions
    <3>3. QED
      BY <1>7, <3>1, <3>2
  <2>4. OthersUnmoved(r)
    BY <1>a, <2>1, <2>2, <2>3 DEF Goto, OthersUnmoved, TypeOK
  <2>5. /\ User(r)' = User(r) /\ Item(r)' = Item(r) /\ NewValidation(r)' = NewValidation(r)
        /\ NewEvent(r)' = NewEvent(r)
        /\ HasValidation(User(r), Item(r))' = HasValidation(User(r), Item(r))
    BY <2>2 DEF User, Item, Secret, NewValidation, NewEvent, RewardOf, IsFirstBlood, HasValidation
  <2>6. RequestInv(r)'
    BY <1>c, <2>1, <2>2, <2>3, <2>5 DEF RequestInv
  <2>7. QED
    BY <1>a, <2>2, <2>4, <2>6, QuietStep
<1>8. CASE Commit(r)
  BY <1>a, <1>8, CommitInv
<1>9. CASE GetCount(r)
  <2>1. CASE Leave(r, "get", "count")
    BY <1>d, <2>1, LeaveInv
  <2>2. CASE Proceed(r, "get", "select") /\ UNCHANGED <<seenSecret, seenItem>>
    BY <1>a, <2>2, ProceedInv
  <2>3. QED
    BY <1>9, <2>1, <2>2 DEF GetCount
<1>10. CASE SelectCount(r)
  <2>1. \A q \in Requests \ {r} : seenItem'[q] = seenItem[q] /\ seenSecret'[q] = seenSecret[q]
    BY <1>a, <1>10 DEF SelectCount, TypeOK
  <2>2. QED
    BY <1>a, <1>10, <2>1, ProceedInv DEF SelectCount
<1>11. CASE SetCount(r)
  BY <1>a, <1>d, <1>11, EndInv DEF SetCount
<1>12. QED
  BY <1>1, <1>2, <1>3, <1>4, <1>5, <1>6, <1>7, <1>8, <1>9, <1>10, <1>11 DEF Step

LEMMA InitInv == Init => ClaimInv
<1> SUFFICES ASSUME Init PROVE ClaimInv
  OBVIOUS
<1>1. TypeInv
  BY InitType
<1>2. \A r \in Requests : pc[r] \in {"limit", "lookup", "get"}
  BY ScanAssumption DEF Init, FirstStep, Jobs, Endpoints
<1>3. RanksDense /\ SecretOfItem /\ EventsEarned
  BY DEF Init, RanksDense, SecretOfItem, EventsEarned
<1>4. \A r \in Requests : RequestInv(r)
  BY <1>2 DEF Init, RequestInv, Holding, Counted, Unowned, Inserted, NoWrites
<1>5. QED
  BY <1>1, <1>3, <1>4 DEF ClaimInv

\* Steps of time, of administrators and stuttering touch nothing the invariant reads.
LEMMA EnvironmentInv ==
    ASSUME ClaimInv, TypeInv',
           UNCHANGED <<validations, itemCount, events, itemLock, job, pc, localVars, answer>>
    PROVE  ClaimInv'
<1>1. RanksDense' /\ SecretOfItem' /\ EventsEarned'
  BY DEF ClaimInv, RanksDense, SecretOfItem, EventsEarned
<1>2. ASSUME NEW q \in Requests PROVE RequestInv(q)'
  BY DEF ClaimInv, RequestInv, User, Item, Secret, NewValidation, NewEvent, RewardOf,
         IsFirstBlood, HasValidation, localVars
<1>3. QED
  BY <1>1, <1>2 DEF ClaimInv

LEMMA NextInv == ClaimInv /\ [Next]_vars => ClaimInv'
<1> SUFFICES ASSUME ClaimInv, [Next]_vars PROVE ClaimInv'
  OBVIOUS
<1>a. TypeInv'
  BY NextType DEF ClaimInv
<1>1. ASSUME NEW r \in Requests, Step(r) PROVE ClaimInv'
  BY <1>1, StepInv
<1>2. ASSUME NEW r \in Requests, Fail(r) PROVE ClaimInv'
  BY <1>2, LeaveInv DEF Fail, Outcomes
<1>3. ASSUME NEW u \in Users, WindowExpires(u) \/ CacheExpires(u) PROVE ClaimInv'
  BY <1>a, <1>3, EnvironmentInv DEF WindowExpires, CacheExpires, dbVars
<1>4. ASSUME NEW s \in Secrets, CooldownEnds(s) PROVE ClaimInv'
  BY <1>a, <1>4, EnvironmentInv DEF CooldownEnds
<1>5. ASSUME NEW x \in Removable, Deactivate(x) PROVE ClaimInv'
  BY <1>a, <1>5, EnvironmentInv DEF Deactivate, dbVars
<1>6. CASE UNCHANGED vars
  BY <1>a, <1>6, EnvironmentInv DEF vars, dbVars
<1>7. QED
  BY <1>1, <1>2, <1>3, <1>4, <1>5, <1>6 DEF Next

LEMMA ClaimInvariant == Spec => []ClaimInv
BY InitInv, NextInv, PTL DEF Spec

\* However many requests race for an item with stale counts, fail or are rolled
\* back, its ranks stay 1 .. validation_count without gap, repetition or a user
\* who collected twice.
THEOREM RanksStayDense == Spec => []RanksDense
<1>1. ClaimInv => RanksDense
  BY DEF ClaimInv
<1>2. QED
  BY ClaimInvariant, <1>1, PTL

\* Every scan_claimed event is earned by a validation, one per user and item at most.
THEOREM EventsStayEarned == Spec => []EventsEarned
<1>1. ClaimInv => EventsEarned
  BY DEF ClaimInv
<1>2. QED
  BY ClaimInvariant, <1>1, PTL

\* What a client was told about its claim stays true of the database.
THEOREM AnswersStayTrue == Spec => []AnswersHold
<1>1. ClaimInv => AnswersHold
  BY DEF ClaimInv, RequestInv, AnswersHold, HasValidation
<1>2. QED
  BY ClaimInvariant, <1>1, PTL

\* A conflict is answered only to a request that was overtaken.
THEOREM ConflictsAreOvertaken == Spec => []ConflictMeansOvertaken
<1>1. ClaimInv => ConflictMeansOvertaken
  BY DEF ClaimInv, RequestInv, ConflictMeansOvertaken
<1>2. QED
  BY ClaimInvariant, <1>1, PTL

-----------------------------------------------------------------------------
(* The counter of a secret.  A scan writes back the number it read plus    *)
(* one: that number was never more than the rows of the secret, rows are   *)
(* never removed, and its own row is one more.  A scan that read zero has  *)
(* the first-blood event in its transaction when it commits.               *)

Rows(s) == {v \in validations : v.secret = s}

FirstBloodPaid(s) == \E e \in events : e.secret = s /\ e.first

BloodReady(r) ==
    pc[r] = "commit" /\ job[r].kind = "scan" /\ RewardXp[Secret(r)] > 0 =>
        NewEvent(r) \in txn[r].events

ReadCount(r) ==
    /\ seenSecret[r] <= Cardinality(Rows(Secret(r)))
    /\ seenSecret[r] > 0 /\ RewardXp[Secret(r)] > 0 => FirstBloodPaid(Secret(r))

StoredCount(s) ==
    /\ secretCount[s] <= Cardinality(Rows(s))
    /\ secretCount[s] > 0 /\ RewardXp[s] > 0 => FirstBloodPaid(s)

CounterInv ==
    /\ \A s \in Secrets : StoredCount(s)
    /\ \A r \in Requests : ReadCount(r) /\ BloodReady(r)

LEMMA RowsGrow ==
    ASSUME TypeInv, TypeInv', validations \subseteq validations', NEW s
    PROVE  /\ Cardinality(Rows(s)) \in Nat /\ Cardinality(Rows(s)') \in Nat
           /\ Cardinality(Rows(s)) <= Cardinality(Rows(s)')
<1>1. IsFiniteSet(Rows(s)) /\ IsFiniteSet(Rows(s)') /\ Rows(s) \subseteq Rows(s)'
  BY FS_Subset DEF Rows, TypeInv
<1>2. QED
  BY <1>1, FS_Subset, FS_CardinalityType

\* Requests that have read what was stored, and nothing committed.
LEMMA CountersStay ==
    ASSUME TypeInv, CounterInv, UNCHANGED <<validations, events, secretCount, job>>,
           \A q \in Requests :
               /\ seenSecret'[q] \in {seenSecret[q], secretCount[Secret(q)]}
               /\ BloodReady(q)'
    PROVE  CounterInv'
<1>1. \A s : Rows(s)' = Rows(s) /\ (FirstBloodPaid(s)' <=> FirstBloodPaid(s))
  BY DEF Rows, FirstBloodPaid
<1>2. ASSUME NEW s \in Secrets PROVE StoredCount(s)'
  BY <1>1 DEF CounterInv, StoredCount
<1>3. ASSUME NEW q \in Requests PROVE ReadCount(q)'
  <2>1. Secret(q) \in Secrets /\ Secret(q)' = Secret(q)
    BY JobType DEF TypeInv, TypeOK, Secret
  <2>2. ReadCount(q) /\ StoredCount(Secret(q))
    BY <2>1 DEF CounterInv
  <2>3. /\ Rows(Secret(q))' = Rows(Secret(q))
        /\ FirstBloodPaid(Secret(q))' <=> FirstBloodPaid(Secret(q))
    BY <2>1 DEF Rows, FirstBloodPaid
  <2>4. QED
    BY <2>1, <2>2, <2>3 DEF ReadCount, StoredCount
<1>4. QED
  BY <1>2, <1>3 DEF CounterInv

\* A request that does not come to its commit has nothing to make ready.
LEMMA ReadyStays ==
    ASSUME CounterInv, UNCHANGED job, NEW q \in Requests,
           pc'[q] = "commit" =>
               pc[q] = "commit" /\ txn'[q] = txn[q] /\ seenSecret'[q] = seenSecret[q]
    PROVE  BloodReady(q)'
<1>1. BloodReady(q)
  BY DEF CounterInv
<1>2. pc'[q] = "commit" => NewEvent(q)' = NewEvent(q)
  BY DEF NewEvent, RewardOf, IsFirstBlood, User, Secret
<1>3. QED
  BY <1>1, <1>2 DEF BloodReady, Secret

\* The row a commit adds is the next of its item, of a user who has none.
LEMMA CommitRow ==
    ASSUME ClaimInv, NEW r \in Requests, Commit(r)
    PROVE  /\ User(r) \in Users /\ Item(r) \in Items
           /\ ~HasValidation(User(r), Item(r))
           /\ NewValidation(r).user = User(r) /\ NewValidation(r).item = Item(r)
           /\ NewValidation(r).rank = itemCount[Item(r)] + 1
           /\ validations' = validations \cup {NewValidation(r)}
           /\ itemCount' = [itemCount EXCEPT ![Item(r)] = itemCount[Item(r)] + 1]
<1>1. pc[r] = "commit"
  BY DEF Commit, End, Goto
<1>2. /\ seenItem[r] = itemCount[Item(r)] /\ txn[r].rows = {NewValidation(r)}
      /\ ~HasValidation(User(r), Item(r))
  BY <1>1 DEF ClaimInv, RequestInv, Unowned, Inserted
<1>3. User(r) \in Users /\ Item(r) \in Items
  BY JobType DEF ClaimInv, TypeInv, TypeOK
<1>4. QED
  BY <1>2, <1>3 DEF Commit, NewValidation

LEMMA CommitCounts ==
    ASSUME ClaimInv, ClaimInv', CounterInv, NEW r \in Requests, Commit(r)
    PROVE  CounterInv'
<1>1. TypeInv /\ TypeInv' /\ TypeOK /\ Secret(r) \in Secrets
  BY JobType DEF ClaimInv, TypeInv, TypeOK
<1>2. PICK outcome \in {"claimed", "failed"} : End(r, "commit", outcome)
  BY DEF Commit
<1>3. /\ pc[r] = "commit" /\ UNCHANGED <<job, seenSecret>>
      /\ \A q \in Requests : pc'[q] = "commit" => pc[q] = "commit" /\ txn'[q] = txn[q]
  BY <1>1, <1>2 DEF End, Goto, TypeOK
<1>4. /\ validations' = validations \cup {NewValidation(r)}
      /\ NewValidation(r) \notin validations /\ NewValidation(r).secret = Secret(r)
      /\ events' = events \cup txn[r].events
  BY CommitRow DEF Commit, NewValidation, HasValidation
<1>5. ASSUME NEW s \in Secrets
      PROVE  /\ Cardinality(Rows(s)) \in Nat /\ Cardinality(Rows(s)') \in Nat
             /\ Cardinality(Rows(s)) <= Cardinality(Rows(s)')
             /\ FirstBloodPaid(s) => FirstBloodPaid(s)'
  BY <1>1, <1>4, RowsGrow DEF FirstBloodPaid
<1>6. ASSUME NEW s \in Secrets, s = Secret(r)
      PROVE  Cardinality(Rows(s)') = Cardinality(Rows(s)) + 1
  <2>1. Rows(s)' = Rows(s) \cup {NewValidation(r)} /\ NewValidation(r) \notin Rows(s)
    BY <1>4, <1>6 DEF Rows
  <2>2. IsFiniteSet(Rows(s))
    BY <1>1, FS_Subset DEF Rows, TypeInv
  <2>3. QED
    BY <2>1, <2>2, FS_AddElement
<1>7. ASSUME NEW s \in Secrets PROVE StoredCount(s)'
  <2>1. StoredCount(s) /\ secretCount[s] \in Nat
    BY <1>1 DEF CounterInv, TypeOK
  <2>2. CASE secretCount'[s] = secretCount[s]
    BY <1>5, <2>1, <2>2 DEF StoredCount
  <2>3. CASE s = Secret(r) /\ job[r].kind = "scan"
    <3>1. secretCount'[s] = seenSecret[r] + 1 /\ seenSecret[r] \in Nat
      BY <1>1, <2>3 DEF Commit, TypeOK
    <3>2. ReadCount(r) /\ BloodReady(r)
      BY DEF CounterInv
    <3>3. secretCount'[s] <= Cardinality(Rows(s)')
      BY <1>5, <1>6, <2>3, <3>1, <3>2 DEF ReadCount
    <3>4. ASSUME RewardXp[s] > 0 PROVE FirstBloodPaid(s)'
      <4>1. CASE seenSecret[r] > 0
        BY <1>5, <2>3, <3>2, <3>4, <4>1 DEF ReadCount
      <4>2. CASE seenSecret[r] = 0
        <5>1. NewEvent(r) \in events'
          BY <1>3, <1>4, <2>3, <3>2, <3>4 DEF BloodReady
        <5>2. NewEvent(r).secret = s /\ NewEvent(r).first
          BY <2>3, <4>2 DEF NewEvent, IsFirstBlood
        <5>3. QED
          BY <5>1, <5>2 DEF FirstBloodPaid
      <4>3. QED
        BY <3>1, <4>1, <4>2
    <3>5. QED
      BY <3>3, <3>4 DEF StoredCount
  <2>4. secretCount'[s] = secretCount[s] \/ (s = Secret(r) /\ job[r].kind = "scan")
    BY <1>1 DEF Commit, TypeOK
  <2>5. QED
    BY <2>2, <2>3, <2>4
<1>8. ASSUME NEW q \in Requests PROVE ReadCount(q)' /\ BloodReady(q)'
  <2>1. PICK s \in Secrets : s = Secret(q) /\ s = Secret(q)'
    BY <1>1, <1>3, JobType DEF TypeOK, Secret
  <2>2. ReadCount(q) /\ seenSecret'[q] = seenSecret[q] /\ seenSecret[q] \in Nat
    BY <1>1, <1>3 DEF CounterInv, TypeOK
  <2>3. /\ Rows(Secret(q)) = Rows(s) /\ Rows(Secret(q))' = Rows(s)'
        /\ FirstBloodPaid(Secret(q)) <=> FirstBloodPaid(s)
        /\ FirstBloodPaid(Secret(q))' <=> FirstBloodPaid(s)'
    BY <2>1 DEF Rows, FirstBloodPaid
  <2>4. ReadCount(q)'
    BY <1>5, <2>1, <2>2, <2>3 DEF ReadCount
  <2>5. QED
    BY <1>3, <2>4, ReadyStays
<1>9. QED
  BY <1>7, <1>8 DEF CounterInv

\* Steps that leave every transaction alone and bring no request to its commit.
LEMMA CountersUnread ==
    ASSUME TypeInv, CounterInv, UNCHANGED <<validations, events, secretCount, job, seenSecret>>,
           \A q \in Requests : pc'[q] = "commit" => pc[q] = "commit" /\ txn'[q] = txn[q]
    PROVE  CounterInv'
<1>1. \A q \in Requests : BloodReady(q)'
  BY ReadyStays
<1>2. QED
  BY <1>1, CountersStay

LEMMA LeaveCounts ==
    ASSUME TypeInv, CounterInv, NEW r \in Requests, NEW from, NEW outcome,
           End(r, from, outcome), UNCHANGED dbVars
    PROVE  CounterInv'
<1>1. \A q \in Requests : pc'[q] = "commit" => pc[q] = "commit" /\ txn'[q] = txn[q]
  BY DEF End, Goto, TypeInv, TypeOK
<1>2. UNCHANGED <<validations, events, secretCount, job, seenSecret>>
  BY DEF End, dbVars
<1>3. QED
  BY <1>1, <1>2, CountersUnread

\* A step of r to another place than its commit.
LEMMA MoveCounts ==
    ASSUME TypeInv, CounterInv, NEW r \in Requests, NEW from, NEW to, Goto(r, from, to),
           to # "commit", UNCHANGED <<validations, events, secretCount, job, seenSecret>>,
           \A q \in Requests \ {r} : txn'[q] = txn[q]
    PROVE  CounterInv'
<1>1. \A q \in Requests : pc'[q] = "commit" => pc[q] = "commit" /\ txn'[q] = txn[q]
  BY DEF Goto, TypeInv, TypeOK
<1>2. QED
  BY <1>1, CountersUnread

LEMMA StepCounts ==
    ASSUME ClaimInv, ClaimInv', CounterInv, NEW r \in Requests, Step(r)
    PROVE  CounterInv'
<1>a. TypeInv /\ TypeOK /\ Secret(r) \in Secrets
  BY JobType DEF ClaimInv, TypeInv, TypeOK
<1>1. CASE RateLimit(r)
  <2>1. CASE End(r, "limit", "rate_limited") /\ UNCHANGED <<dbVars, cache>>
    BY <1>a, <2>1, LeaveCounts
  <2>2. CASE /\ Goto(r, "limit", "lookup")
             /\ UNCHANGED <<dbVars, itemLock, active, cache, job, localVars, answer>>
    BY <1>a, <2>2, MoveCounts DEF dbVars, localVars
  <2>3. QED
    BY <1>1, <2>1, <2>2 DEF RateLimit
<1>2. CASE LookupSecret(r)
  <2>1. CASE \E outcome : Leave(r, "lookup", outcome)
    BY <1>a, <2>1, LeaveCounts DEF Leave
  <2>2. CASE /\ Proceed(r, "lookup", "load")
             /\ seenSecret' = [seenSecret EXCEPT ![r] = secretCount[Secret(r)]]
    <3>1. UNCHANGED <<validations, events, secretCount, job, txn>>
      BY <2>2 DEF Proceed, dbVars
    <3>2. /\ pc'[r] = "load" /\ seenSecret'[r] = secretCount[Secret(r)]
          /\ \A q \in Requests \ {r} : pc'[q] = pc[q] /\ seenSecret'[q] = seenSecret[q]
      BY <1>a, <2>2 DEF Proceed, Goto, TypeOK
    <3>3. \A q \in Requests : BloodReady(q)'
      BY <3>1, <3>2, ReadyStays
    <3>4. \A q \in Requests : seenSecret'[q] \in {seenSecret[q], secretCount[Secret(q)]}
      BY <3>2
    <3>5. QED
      BY <1>a, <3>1, <3>3, <3>4, CountersStay
  <2>3. QED
    BY <1>2, <2>1, <2>2 DEF LookupSecret
<1>3. CASE LoadItem(r) \/ CheckValidation(r) \/ GetCount(r) \/ SelectCount(r)
  <2>1. \/ \E from, outcome : Leave(r, from, outcome)
        \/ \E from, to : to # "commit" /\ Proceed(r, from, to) /\ UNCHANGED seenSecret
    BY <1>3 DEF LoadItem, CheckValidation, GetCount, SelectCount
  <2>2. CASE \E from, outcome : Leave(r, from, outcome)
    BY <1>a, <2>2, LeaveCounts DEF Leave
  <2>3. CASE \E from, to : to # "commit" /\ Proceed(r, from, to) /\ UNCHANGED seenSecret
    BY <1>a, <2>3, MoveCounts DEF Proceed, dbVars
  <2>4. QED
    BY <2>1, <2>2, <2>3
<1>4. CASE LockItem(r)
  <2>1. CASE Leave(r, "lock", "not_found")
    BY <1>a, <2>1, LeaveCounts DEF Leave
  <2>2. CASE Goto(r, "lock", "check") /\ UNCHANGED <<dbVars, job, localVars>>
    BY <1>a, <2>2, MoveCounts DEF dbVars, localVars
  <2>3. QED
    BY <1>4, <2>1, <2>2 DEF LockItem
<1>5. CASE Validate(r)
  <2>1. CASE Leave(r, "validate", "conflict")
    BY <1>a, <2>1, LeaveCounts DEF Leave
  <2>2. CASE /\ Goto(r, "validate", "drop") /\ txn' = [txn EXCEPT ![r].rows = {NewValidation(r)}]
             /\ UNCHANGED <<dbVars, job, seenSecret>>
    <3>1. \A q \in Requests \ {r} : txn'[q] = txn[q]
      BY <1>a, <2>2 DEF TypeOK
    <3>2. QED
      BY <1>a, <2>2, <3>1, MoveCounts DEF dbVars
  <2>3. QED
    BY <1>5, <2>1, <2>2 DEF Validate
<1>6. CASE DropCache(r)
  <2>1. UNCHANGED <<validations, events, secretCount, job, seenSecret, txn>>
    BY <1>6 DEF DropCache, DelCount, dbVars, localVars
  <2>2. CASE job[r].kind = "scan"
    BY <1>a, <1>6, <2>1, <2>2, MoveCounts DEF DropCache, DelCount
  <2>3. CASE job[r].kind # "scan"
    <3>1. \A q \in Requests \ {r} : pc'[q] = pc[q]
      BY <1>a, <1>6 DEF DropCache, DelCount, Goto, TypeOK
    <3>2. \A q \in Requests \ {r} : BloodReady(q)'
      BY <2>1, <3>1, ReadyStays
    <3>3. BloodReady(r)'
      BY <2>1, <2>3 DEF BloodReady
    <3>4. QED
      BY <1>a, <2>1, <3>2, <3>3, CountersStay
  <2>4. QED
    BY <2>2, <2>3
<1>7. CASE Reward(r)
  <2>1. UNCHANGED <<validations, events, secretCount, job, seenSecret>>
    BY <1>7 DEF Reward, dbVars
  <2>2. PICK drop \in BOOLEAN :
           txn' = [txn EXCEPT ![r].events = IF RewardOf(r) > 0 \/ drop THEN {NewEvent(r)} ELSE {}]
    BY <1>7 DEF Reward
  <2>3. \A q \in Requests \ {r} : pc'[q] = pc[q] /\ txn'[q] = txn[q]
    BY <1>a, <1>7, <2>2 DEF Reward, Goto, TypeOK
  <2>4. \A q \in Requests \ {r} : BloodReady(q)'
    BY <2>1, <2>3, ReadyStays
  <2>5. BloodReady(r)'
    <3>1. SUFFICES ASSUME RewardXp[Secret(r)] > 0 PROVE NewEvent(r)' \in txn'[r].events
      BY <2>1 DEF BloodReady, Secret
    <3>2. RewardXp[Secret(r)] \in Nat
      BY <1>a, ScanAssumption
    <3>3. RewardOf(r) > 0
      BY <3>1, <3>2 DEF RewardOf
    <3>4. txn'[r].events = {NewEvent(r)}
      BY <1>a, <2>2, <3>3 DEF TypeOK, Transactions
    <3>5. NewEvent(r)' = NewEvent(r)
      BY <2>1 DEF NewEvent, RewardOf, IsFirstBlood, User, Secret
    <3>6. QED
      BY <3>4, <3>5
  <2>6. QED
    BY <1>a, <2>1, <2>4, <2>5, CountersStay
<1>8. CASE Commit(r)
  BY <1>8, CommitCounts
<1>9. CASE SetCount(r)
  BY <1>a, <1>9, LeaveCounts DEF SetCount
<1>10. QED
  BY <1>1, <1>2, <1>3, <1>4, <1>5, <1>6, <1>7, <1>8, <1>9 DEF Step

LEMMA NextCounts == ClaimInv /\ ClaimInv' /\ CounterInv /\ [Next]_vars => CounterInv'
<1> SUFFICES ASSUME ClaimInv, ClaimInv', CounterInv, [Next]_vars PROVE CounterInv'
  OBVIOUS
<1>a. TypeInv
  BY DEF ClaimInv
<1>1. ASSUME NEW r \in Requests, Step(r) PROVE CounterInv'
  BY <1>1, StepCounts
<1>2. ASSUME NEW r \in Requests, Fail(r) PROVE CounterInv'
  BY <1>a, <1>2, LeaveCounts DEF Fail, Leave
<1>3. ASSUME UNCHANGED <<validations, events, secretCount, job, seenSecret, pc, txn>>
      PROVE  CounterInv'
  BY <1>a, <1>3, CountersUnread
<1>4. ASSUME NEW u \in Users, WindowExpires(u) \/ CacheExpires(u) PROVE CounterInv'
  BY <1>3, <1>4 DEF WindowExpires, CacheExpires, dbVars, localVars
<1>5. ASSUME NEW s \in Secrets, CooldownEnds(s) PROVE CounterInv'
  BY <1>3, <1>5 DEF CooldownEnds, localVars
<1>6. ASSUME NEW x \in Removable, Deactivate(x) PROVE CounterInv'
  BY <1>3, <1>6 DEF Deactivate, dbVars, localVars
<1>7. CASE UNCHANGED vars
  BY <1>3, <1>7 DEF vars, dbVars, localVars
<1>8. QED
  BY <1>1, <1>2, <1>4, <1>5, <1>6, <1>7 DEF Next

LEMMA InitCounts == Init => CounterInv
<1> SUFFICES ASSUME Init PROVE CounterInv
  OBVIOUS
<1>1. \A s : Rows(s) = {}
  BY DEF Init, Rows
<1>2. \A s : Cardinality(Rows(s)) = 0
  BY <1>1, FS_EmptySet
<1>3. \A r \in Requests : pc[r] # "commit" /\ seenSecret[r] = 0
  BY ScanAssumption DEF Init, FirstStep, Jobs, Endpoints
<1>4. \A s \in Secrets : secretCount[s] = 0
  BY DEF Init
<1>5. \A s \in Secrets : StoredCount(s)
  BY <1>2, <1>4 DEF StoredCount
<1>6. \A r \in Requests : ReadCount(r) /\ BloodReady(r)
  BY <1>2, <1>3 DEF ReadCount, BloodReady
<1>7. QED
  BY <1>5, <1>6 DEF CounterInv

\* Lost updates make the counter of a secret miss scans, never count one that did not
\* commit, and the scan that started it was paid as first blood.
THEOREM CountersNeverExceed == Spec => []SecretCounter
<1>1. CounterInv => SecretCounter
  BY DEF CounterInv, StoredCount, SecretCounter, Rows, FirstBloodPaid
<1>2. QED
  BY ClaimInvariant, InitCounts, NextCounts, <1>1, PTL DEF Spec

-----------------------------------------------------------------------------
(* No lock is leaked and no request waits for one that waits: who holds an *)
(* item's row is at work on that item, between the SELECT ... FOR UPDATE   *)
(* and the end of the transaction, where no step waits for anything.       *)

HoldersWork ==
    \A i \in Items, q \in Requests : itemLock[i] = q => Item(q) = i /\ pc[q] \in Holding

LEMMA HoldersStay ==
    ASSUME TypeOK, HoldersWork, NEW r \in Requests, UNCHANGED <<itemLock, job>>,
           \A q \in Requests \ {r} : pc'[q] = pc[q], pc[r] \in Holding => pc'[r] \in Holding
    PROVE  HoldersWork'
BY DEF HoldersWork, Item, Secret

LEMMA HolderEnds ==
    ASSUME TypeOK, HoldersWork, NEW r \in Requests, NEW from, NEW outcome, End(r, from, outcome)
    PROVE  HoldersWork'
<1>1. /\ job' = job /\ \A q \in Requests \ {r} : pc'[q] = pc[q]
      /\ \A i \in Items : itemLock'[i] = IF itemLock[i] = r THEN NoRequest ELSE itemLock[i]
  BY DEF End, Goto, Unlock, TypeOK
<1>2. \A i \in Items, q \in Requests : itemLock'[i] = q => q # r /\ itemLock[i] = q
  BY <1>1, ScanAssumption
<1>3. QED
  BY <1>1, <1>2 DEF HoldersWork, Item, Secret

LEMMA LockTaken ==
    ASSUME TypeOK, HoldersWork, NEW r \in Requests, Goto(r, "lock", "check"), UNCHANGED job,
           itemLock[Item(r)] = NoRequest, itemLock' = [itemLock EXCEPT ![Item(r)] = r]
    PROVE  HoldersWork'
<1>1. /\ \A q \in Requests \ {r} : pc'[q] = pc[q]
      /\ pc[r] = "lock" /\ pc'[r] = "check"
      /\ \A i \in Items : itemLock'[i] = IF i = Item(r) THEN r ELSE itemLock[i]
  BY JobType DEF Goto, TypeOK
<1>2. ASSUME NEW i \in Items, NEW q \in Requests, itemLock'[i] = q
      PROVE  Item(q) = i /\ pc'[q] \in Holding
  <2>1. CASE i = Item(r)
    BY <1>1, <1>2, <2>1 DEF Holding
  <2>2. CASE i # Item(r)
    <3>1. Item(q) = i /\ pc[q] \in Holding
      BY <1>1, <1>2, <2>2 DEF HoldersWork
    <3>2. QED
      BY <1>1, <3>1 DEF Holding
  <2>3. QED
    BY <2>1, <2>2
<1>3. \A q \in Requests : Item(q)' = Item(q)
  BY DEF Item, Secret
<1>4. QED
  BY <1>2, <1>3 DEF HoldersWork

LEMMA NextHolders == TypeOK /\ HoldersWork /\ [Next]_vars => HoldersWork'
<1> SUFFICES ASSUME TypeOK, HoldersWork, [Next]_vars PROVE HoldersWork'
  OBVIOUS
<1>1. ASSUME NEW r \in Requests, NEW from, NEW to, Goto(r, from, to), UNCHANGED <<itemLock, job>>,
             from \in Holding => to \in Holding
      PROVE  HoldersWork'
  BY <1>1, HoldersStay DEF Goto, TypeOK
<1>2. ASSUME NEW r \in Requests, NEW from, NEW outcome, Leave(r, from, outcome) PROVE HoldersWork'
  BY <1>2, HolderEnds DEF Leave
<1>3. ASSUME NEW r \in Requests, NEW from, NEW to, Proceed(r, from, to),
             from \in Holding => to \in Holding
      PROVE  HoldersWork'
  BY <1>1, <1>3 DEF Proceed
<1>4. ASSUME NEW r \in Requests, Step(r) PROVE HoldersWork'
  <2>1. CASE RateLimit(r) \/ LookupSecret(r) \/ LoadItem(r)
    BY <1>1, <1>2, <1>3, <2>1, HolderEnds DEF RateLimit, LookupSecret, LoadItem, Holding
  <2>2. CASE LockItem(r)
    BY <1>2, <2>2, LockTaken DEF LockItem
  <2>3. CASE CheckValidation(r) \/ Validate(r) \/ DropCache(r) \/ Reward(r)
    BY <1>1, <1>2, <1>3, <2>3 DEF CheckValidation, Validate, DropCache, DelCount, Reward, Holding
  <2>4. CASE Commit(r) \/ SetCount(r)
    BY <2>4, HolderEnds DEF Commit, SetCount
  <2>5. CASE GetCount(r) \/ SelectCount(r)
    BY <1>2, <1>3, <2>5 DEF GetCount, SelectCount, Holding
  <2>6. QED
    BY <1>4, <2>1, <2>2, <2>3, <2>4, <2>5 DEF Step
<1>5. ASSUME NEW r \in Requests, Fail(r) PROVE HoldersWork'
  BY <1>2, <1>5 DEF Fail
<1>6. ASSUME UNCHANGED <<itemLock, job, pc>> PROVE HoldersWork'
  BY <1>6 DEF HoldersWork, Item, Secret
<1>7. ASSUME NEW u \in Users, WindowExpires(u) \/ CacheExpires(u) PROVE HoldersWork'
  BY <1>6, <1>7 DEF WindowExpires, CacheExpires
<1>8. ASSUME NEW s \in Secrets, CooldownEnds(s) PROVE HoldersWork'
  BY <1>6, <1>8 DEF CooldownEnds
<1>9. ASSUME NEW x \in Removable, Deactivate(x) PROVE HoldersWork'
  BY <1>6, <1>9 DEF Deactivate
<1>10. CASE UNCHANGED vars
  BY <1>6, <1>10 DEF vars
<1>11. QED
  BY <1>4, <1>5, <1>7, <1>8, <1>9, <1>10 DEF Next

\* Whoever fails, is refused or commits gives the item's row lock back: a lock is held
\* only by a request at work on that item, never by one that waits or is over
\* (ItemService.get_by_id_for_update, session_context).
THEOREM LocksAreGivenBack == Spec => []HoldersWork
<1>1. Init => HoldersWork
  BY ScanAssumption DEF Init, HoldersWork
<1>2. TypeInv => TypeOK
  BY DEF TypeInv
<1>3. QED
  BY <1>1, <1>2, NextHolders, TypeInvariant, PTL DEF Spec

-----------------------------------------------------------------------------
(* The cached count.  Validations are never removed, so a count that was   *)
(* read, even long ago, is not more than there are now.                    *)

CacheNeverAhead ==
    \A u \in Users : cache[u] # NoCount => cache[u] <= Cardinality(Collected(u))

CountRead ==
    \A r \in Requests : pc[r] = "set" => seenItem[r] <= Cardinality(Collected(User(r)))

CacheInv == CacheNeverAhead /\ CountRead

LEMMA CollectedGrows ==
    ASSUME TypeInv, TypeInv', validations \subseteq validations', NEW u
    PROVE  /\ Cardinality(Collected(u)) \in Nat /\ Cardinality(Collected(u)') \in Nat
           /\ Cardinality(Collected(u)) <= Cardinality(Collected(u)')
<1>1. /\ IsFiniteSet(Collected(u)) /\ IsFiniteSet(Collected(u)')
      /\ Collected(u) \subseteq Collected(u)'
  BY FS_Subset DEF Collected, TypeInv
<1>2. QED
  BY <1>1, FS_Subset, FS_CardinalityType

\* A step that enters no new number, into the cache or into a request about to set it.
LEMMA CountsStay ==
    ASSUME TypeInv, TypeInv', CacheInv, validations \subseteq validations', UNCHANGED job,
           \A u \in Users : cache'[u] \in {cache[u], NoCount},
           \A q \in Requests : pc'[q] = "set" => pc[q] = "set" /\ seenItem'[q] = seenItem[q]
    PROVE  CacheInv'
<1>1. ASSUME NEW u \in Users, cache'[u] # NoCount PROVE cache'[u] <= Cardinality(Collected(u)')
  <2>1. cache'[u] = cache[u] /\ cache[u] \in Nat /\ cache[u] <= Cardinality(Collected(u))
    BY <1>1 DEF CacheInv, CacheNeverAhead, TypeInv, TypeOK
  <2>2. QED
    BY <2>1, CollectedGrows
<1>2. ASSUME NEW q \in Requests, NEW u \in Users, u = User(q), pc'[q] = "set"
      PROVE  seenItem'[q] <= Cardinality(Collected(u)')
  <2>1. seenItem'[q] = seenItem[q] /\ seenItem[q] \in Nat /\ seenItem[q] <= Cardinality(Collected(u))
    BY <1>2 DEF CacheInv, CountRead, TypeInv, TypeOK
  <2>2. QED
    BY <2>1, CollectedGrows
<1>3. CountRead'
  <2> SUFFICES ASSUME NEW q \in Requests, pc'[q] = "set"
               PROVE  seenItem'[q] <= Cardinality(Collected(User(q)))'
    BY DEF CountRead
  <2>1. PICK u \in Users : u = User(q)
    BY JobType DEF TypeInv, TypeOK
  <2>2. Collected(User(q))' = Collected(u)'
    BY <2>1 DEF Collected, User
  <2>3. QED
    BY <1>2, <2>1, <2>2
<1>4. QED
  BY <1>1, <1>3 DEF CacheInv, CacheNeverAhead

LEMMA StepCount ==
    ASSUME TypeInv, TypeInv', CacheInv, NEW r \in Requests, Step(r) \/ Fail(r)
    PROVE  CacheInv'
<1>1. UNCHANGED job /\ validations \subseteq validations'
  BY DEF Step, Fail, RateLimit, LookupSecret, LoadItem, LockItem, CheckValidation, Validate,
         DropCache, DelCount, Reward, Commit, GetCount, SelectCount, SetCount, Leave, End, Proceed, dbVars
<1>2. ASSUME NEW from, NEW outcome, End(r, from, outcome)
      PROVE  \A q \in Requests : pc'[q] = "set" => pc[q] = "set" /\ seenItem'[q] = seenItem[q]
  BY <1>2 DEF End, Goto, TypeInv, TypeOK
<1>3. ASSUME NEW from, NEW to, Goto(r, from, to), to # "set",
             \A q \in Requests \ {r} : seenItem'[q] = seenItem[q]
      PROVE  \A q \in Requests : pc'[q] = "set" => pc[q] = "set" /\ seenItem'[q] = seenItem[q]
  BY <1>3 DEF Goto, TypeInv, TypeOK
<1>4. CASE SelectCount(r)
  <2>1. PICK u \in Users : u = User(r)
    BY JobType DEF TypeInv, TypeOK
  <2>2. PICK n \in Nat : n = Cardinality(Collected(u))
    BY CollectedGrows, <1>1
  <2>3. /\ seenItem' = [seenItem EXCEPT ![r] = n] /\ pc' = [pc EXCEPT ![r] = "set"]
        /\ UNCHANGED <<validations, cache, job>>
    BY <1>4, <2>1, <2>2 DEF SelectCount, Proceed, Goto, dbVars, redisVars
  <2>4. CountRead'
    <3> SUFFICES ASSUME NEW q \in Requests, pc'[q] = "set"
                 PROVE  seenItem'[q] <= Cardinality(Collected(User(q)))
      BY <2>3 DEF CountRead, Collected, User
    <3>1. CASE q = r
      BY <2>1, <2>2, <2>3, <3>1 DEF TypeInv, TypeOK
    <3>2. CASE q # r
      BY <2>3, <3>2 DEF CacheInv, CountRead, TypeInv, TypeOK
    <3>3. QED
      BY <3>1, <3>2
  <2>5. QED
    BY <2>3, <2>4 DEF CacheInv, CacheNeverAhead, Collected
<1>5. CASE SetCount(r)
  <2>1. PICK u \in Users : u = User(r)
    BY JobType DEF TypeInv, TypeOK
  <2>2. seenItem[r] <= Cardinality(Collected(u)) /\ UNCHANGED validations
    BY <1>5, <2>1 DEF SetCount, End, Goto, CacheInv, CountRead, dbVars
  <2>3. /\ \A x \in Users \ {u} : cache'[x] = cache[x]
        /\ cache'[u] \in {cache[u], seenItem[r]}
    BY <1>5, <2>1 DEF SetCount, TypeInv, TypeOK
  <2>4. CacheNeverAhead'
    BY <2>2, <2>3 DEF CacheInv, CacheNeverAhead, Collected
  <2>5. \A q \in Requests : pc'[q] = "set" => pc[q] = "set" /\ seenItem'[q] = seenItem[q]
    BY <1>2, <1>5 DEF SetCount
  <2>6. CountRead'
    BY <1>1, <2>2, <2>5 DEF CacheInv, CountRead, Collected, User
  <2>7. QED
    BY <2>4, <2>6 DEF CacheInv
<1>6. ASSUME NEW from, NEW outcome, Leave(r, from, outcome) PROVE CacheInv'
  BY <1>1, <1>2, <1>6, CountsStay DEF Leave, redisVars
<1>7. ASSUME NEW from, NEW to, Goto(r, from, to), to # "set", UNCHANGED cache,
             \A q \in Requests \ {r} : seenItem'[q] = seenItem[q]
      PROVE  CacheInv'
  BY <1>1, <1>3, <1>7, CountsStay
<1>8. CASE RateLimit(r)
  <2>1. cache' = cache
    BY <1>8 DEF RateLimit
  <2>2. \A q \in Requests : pc'[q] = "set" => pc[q] = "set" /\ seenItem'[q] = seenItem[q]
    BY <1>2, <1>3, <1>8 DEF RateLimit, localVars
  <2>3. QED
    BY <1>1, <2>1, <2>2, CountsStay
<1>9. CASE LookupSecret(r) \/ LoadItem(r) \/ LockItem(r) \/ CheckValidation(r) \/ Validate(r)
           \/ Reward(r) \/ GetCount(r)
  BY <1>6, <1>7, <1>9 DEF LookupSecret, LoadItem, LockItem, CheckValidation, Validate, Reward,
     GetCount, Proceed, redisVars, localVars, TypeInv, TypeOK
<1>10. CASE DropCache(r)
  <2>1. \A u \in Users : cache'[u] \in {cache[u], NoCount}
    BY <1>10 DEF DropCache, DelCount, TypeInv, TypeOK
  <2>2. \A q \in Requests : pc'[q] = "set" => pc[q] = "set" /\ seenItem'[q] = seenItem[q]
    BY <1>3, <1>10 DEF DropCache, DelCount, localVars
  <2>3. QED
    BY <1>1, <2>1, <2>2, CountsStay
<1>11. CASE Commit(r)
  BY <1>1, <1>2, <1>11, CountsStay DEF Commit, redisVars
<1>12. CASE Fail(r)
  BY <1>6, <1>12 DEF Fail
<1>13. QED
  BY <1>4, <1>5, <1>8, <1>9, <1>10, <1>11, <1>12 DEF Step

LEMMA NextCache == TypeInv /\ TypeInv' /\ CacheInv /\ [Next]_vars => CacheInv'
<1> SUFFICES ASSUME TypeInv, TypeInv', CacheInv, [Next]_vars PROVE CacheInv'
  OBVIOUS
<1>1. ASSUME UNCHANGED <<validations, job, pc, seenItem>>,
             \A u \in Users : cache'[u] \in {cache[u], NoCount}
      PROVE  CacheInv'
  BY <1>1, CountsStay
<1>2. ASSUME NEW r \in Requests, Step(r) \/ Fail(r) PROVE CacheInv'
  BY <1>2, StepCount
<1>3. ASSUME NEW u \in Users, WindowExpires(u) \/ CacheExpires(u) PROVE CacheInv'
  BY <1>1, <1>3 DEF WindowExpires, CacheExpires, dbVars, localVars, TypeInv, TypeOK
<1>4. ASSUME NEW s \in Secrets, CooldownEnds(s) PROVE CacheInv'
  BY <1>1, <1>4 DEF CooldownEnds, redisVars, localVars
<1>5. ASSUME NEW x \in Removable, Deactivate(x) PROVE CacheInv'
  BY <1>1, <1>5 DEF Deactivate, dbVars, redisVars, localVars
<1>6. CASE UNCHANGED vars
  BY <1>1, <1>6 DEF vars, dbVars, redisVars, localVars
<1>7. QED
  BY <1>2, <1>3, <1>4, <1>5, <1>6 DEF Next

\* However a claim's DEL and a reader's SET interleave, the cached count of a user may be
\* behind the validations but never ahead of them (get_validation_count).
THEOREM CacheStaysBehind == Spec => []CacheNeverAhead
<1>1. Init => CacheInv
  <2>1. ASSUME Init, NEW r \in Requests PROVE pc[r] # "set"
    <3>1. job[r].kind \in {"scan", "collect", "count"} /\ pc[r] = FirstStep(job[r].kind)
      BY <2>1, ScanAssumption DEF Init, Jobs, Endpoints
    <3>2. QED
      BY <3>1 DEF FirstStep
  <2>2. QED
    BY <2>1 DEF Init, CacheInv, CacheNeverAhead, CountRead
<1>2. CacheInv => CacheNeverAhead
  BY DEF CacheInv
<1>3. QED
  BY <1>1, <1>2, NextCache, TypeInvariant, PTL DEF Spec

-----------------------------------------------------------------------------
(* Collecting implements RankLedger.  Only a commit moves the ledger: the  *)
(* ranks being dense, its row takes the position after the last one, and   *)
(* every earlier rank keeps the row it had.                                *)

RowAt(i, k) == CHOOSE v \in validations : v.item = i /\ v.rank = k

Ranked == [i \in Items |-> [k \in 1 .. itemCount[i] |-> RowAt(i, k).user]]

LEMMA RowAtRank ==
    ASSUME RanksDense, NEW i \in Items, NEW k \in 1 .. itemCount[i]
    PROVE  /\ RowAt(i, k) \in validations /\ RowAt(i, k).item = i /\ RowAt(i, k).rank = k
           /\ \A v \in validations : v.item = i /\ v.rank = k => v = RowAt(i, k)
<1>1. \E v \in validations : v.item = i /\ v.rank = k
  BY DEF RanksDense
<1>2. RowAt(i, k) \in validations /\ RowAt(i, k).item = i /\ RowAt(i, k).rank = k
  BY <1>1 DEF RowAt
<1>3. QED
  BY <1>2 DEF RanksDense

\* Adding the next row of an item appends its user to the item's collectors.
LEMMA RowAppends ==
    ASSUME TypeOK, RanksDense, RanksDense',
           NEW i \in Items, NEW u \in Users, NEW n \in Nat, NEW v,
           ~HasValidation(u, i), itemCount[i] = n,
           v.user = u, v.item = i, v.rank = n + 1,
           validations' = validations \cup {v},
           itemCount' = [itemCount EXCEPT ![i] = n + 1]
    PROVE  Ledger!Collect(u, i)
<1>1. /\ itemCount'[i] = n + 1
      /\ \A j \in Items \ {i} : itemCount'[j] = itemCount[j]
      /\ \A j \in Items : itemCount[j] \in Nat
  BY DEF TypeOK
<1>2. /\ Ranked = [j \in Items |-> [k \in 1 .. itemCount[j] |-> RowAt(j, k).user]]
      /\ Ranked' = [j \in Items |-> [k \in 1 .. itemCount'[j] |-> RowAt(j, k)'.user]]
  BY DEF Ranked
<1>3. ASSUME NEW j \in Items, NEW k \in 1 .. itemCount[j] PROVE RowAt(j, k)' = RowAt(j, k)
  <2>1. RowAt(j, k) \in validations' /\ RowAt(j, k).item = j /\ RowAt(j, k).rank = k
    BY RowAtRank
  <2>2. \A w \in validations' : w.item = j /\ w.rank = k => w = RowAt(j, k)
    BY <2>1 DEF RanksDense
  <2>3. RowAt(j, k)' \in validations' /\ RowAt(j, k)'.item = j /\ RowAt(j, k)'.rank = k
    BY <2>1 DEF RowAt
  <2>4. QED
    BY <2>2, <2>3
<1>4. RowAt(i, n + 1)'.user = u
  <2>1. RowAt(i, n + 1)' \in validations' /\ RowAt(i, n + 1)'.item = i /\ RowAt(i, n + 1)'.rank = n + 1
    BY DEF RowAt
  <2>2. QED
    BY <2>1 DEF RanksDense
<1>5. \A k \in 1 .. n : RowAt(i, k).user \in Users \ {u}
  BY RowAtRank DEF HasValidation, TypeOK, Validations
<1>6. Ranked[i] = [k \in 1 .. n |-> RowAt(i, k).user]
  BY <1>2
<1>7. Ranked[i] \in Seq(Users) /\ Len(Ranked[i]) = n
  BY <1>5, <1>6
<1>8. Ranked'[i] = Append(Ranked[i], u)
  <2>1. Ranked'[i] = [k \in 1 .. n + 1 |-> RowAt(i, k)'.user]
    BY <1>1, <1>2
  <2>2. ASSUME NEW k \in 1 .. n + 1 PROVE RowAt(i, k)'.user = Append(Ranked[i], u)[k]
    <3>1. CASE k = n + 1
      BY <1>4, <1>7, <3>1
    <3>2. CASE k \in 1 .. n
      <4>1. RowAt(i, k)'.user = Ranked[i][k]
        BY <1>3, <1>6, <3>2
      <4>2. Append(Ranked[i], u)[k] = Ranked[i][k]
        BY <1>7, <3>2
      <4>3. QED
        BY <4>1, <4>2
    <3>3. k = n + 1 \/ k \in 1 .. n
      BY <2>2
    <3>4. QED
      BY <3>1, <3>2, <3>3
  <2>3. QED
    BY <1>7, <2>1, <2>2
<1>9. Ranked' = [Ranked EXCEPT ![i] = Append(@, u)]
  <2>1. ASSUME NEW j \in Items \ {i} PROVE Ranked'[j] = Ranked[j]
    BY <1>1, <1>2, <1>3
  <2>2. Ranked = [j \in Items |-> Ranked[j]] /\ Ranked' = [j \in Items |-> Ranked'[j]]
    BY <1>2
  <2>3. QED
    BY <1>8, <2>1, <2>2
<1>10. u \notin {Ranked[i][k] : k \in DOMAIN Ranked[i]}
  BY <1>5, <1>6
<1>11. QED
  BY <1>9, <1>10 DEF Ledger!Collect, Ledger!Collectors, Ranked, RowAt

LEMMA CommitCollects ==
    ASSUME ClaimInv, RanksDense', NEW r \in Requests, Commit(r)
    PROVE  Ledger!Next
<1>1. TypeOK /\ RanksDense /\ itemCount[Item(r)] \in Nat
  BY CommitRow DEF ClaimInv, TypeInv, TypeOK
<1>2. PICK u \in Users, i \in Items, n \in Nat :
         u = User(r) /\ i = Item(r) /\ n = itemCount[i]
  BY <1>1, CommitRow
<1>3. PICK v : v = NewValidation(r)
  OBVIOUS
<1>4. /\ ~HasValidation(u, i) /\ v.user = u /\ v.item = i /\ v.rank = n + 1
      /\ validations' = validations \cup {v} /\ itemCount' = [itemCount EXCEPT ![i] = n + 1]
  BY <1>2, <1>3, CommitRow
<1>5. Ledger!Collect(u, i)
  BY <1>1, <1>2, <1>4, RowAppends
<1>6. QED
  BY <1>5 DEF Ledger!Next

\* Every step of the detailed specification is a step of the ledger or a stutter.
LEMMA LedgerStep ==
    ASSUME ClaimInv, ClaimInv', [Next]_vars
    PROVE  [Ledger!Next]_Ranked
<1>1. ASSUME UNCHANGED <<validations, itemCount>> PROVE UNCHANGED Ranked
  BY <1>1 DEF Ranked, RowAt
<1>2. ASSUME NEW r \in Requests, Commit(r) PROVE Ledger!Next
  BY <1>2, CommitCollects DEF ClaimInv
<1>3. ASSUME NEW r \in Requests, Step(r) \/ Fail(r), ~Commit(r)
      PROVE  UNCHANGED <<validations, itemCount>>
  BY <1>3 DEF Step, Fail, RateLimit, LookupSecret, LoadItem, LockItem, CheckValidation, Validate,
              DropCache, DelCount, Reward, GetCount, SelectCount, SetCount, Leave, Proceed, dbVars
<1>4. ASSUME NEW u \in Users, WindowExpires(u) \/ CacheExpires(u)
      PROVE  UNCHANGED <<validations, itemCount>>
  BY <1>4 DEF WindowExpires, CacheExpires, dbVars
<1>5. ASSUME NEW s \in Secrets, CooldownEnds(s) PROVE UNCHANGED <<validations, itemCount>>
  BY <1>5 DEF CooldownEnds
<1>6. ASSUME NEW x \in Removable, Deactivate(x) PROVE UNCHANGED <<validations, itemCount>>
  BY <1>6 DEF Deactivate, dbVars
<1>7. CASE UNCHANGED vars
  BY <1>1, <1>7 DEF vars, dbVars
<1>8. QED
  BY <1>1, <1>2, <1>3, <1>4, <1>5, <1>6, <1>7 DEF Next

LEMMA LedgerInit == Init => Ledger!Init
<1> SUFFICES ASSUME Init PROVE Ledger!Init
  OBVIOUS
<1>1. \A i \in Items : itemCount[i] = 0
  BY DEF Init
<1>2. \A i \in Items : [k \in 1 .. itemCount[i] |-> RowAt(i, k).user] = << >>
  BY <1>1
<1>3. Ranked = [i \in Items |-> << >>]
  BY <1>2 DEF Ranked
<1>4. QED
  BY <1>3 DEF Ledger!Init, Ranked, RowAt

\* Collecting by secret is the append-only order of RankLedger: users enter an item's
\* order once and at its end, and no race, failure or rollback moves or removes anybody.
THEOREM ClaimsImplementLedger == Spec => ImplementsLedger
<1>1. ClaimInv /\ ClaimInv' /\ [Next]_vars => [Ledger!Next]_Ranked
  BY LedgerStep
<1>2. QED
  BY LedgerInit, ClaimInvariant, <1>1, PTL DEF Spec, ImplementsLedger, Ledger!Spec, Ranked, RowAt
-----------------------------------------------------------------------------
(* The cooldown and the cached count, said with the history of             *)
(* ScanHistory: each of its steps is a step of ScanClaim, so what was      *)
(* proved above holds of it too.                                           *)

LEMMA NotedIsClaim == NotedSpec => Spec
<1>1. HistoryInit => Init
  BY DEF HistoryInit
<1>2. [NotedNext]_<<vars, history>> => [Next]_vars
  BY DEF NotedNext, NotedStep, NotedDrop, NotedCommit, NotedSet, NotedExpiry, DropCache, Next, Step
<1>3. QED
  BY <1>1, <1>2, PTL DEF NotedSpec, Spec

\* A scan past its lookup while its secret cools down had been there when the scan that
\* cools it committed.
CooldownInv ==
    \A r \in Requests :
        job[r].kind = "scan" /\ pc[r] \in PastLookup /\ Secret(r) \in cooling => r \in overtaken

\* A step that lets nobody past the lookup and starts no cooldown.
LEMMA CooldownStays ==
    ASSUME CooldownInv, UNCHANGED job, cooling' \subseteq cooling, overtaken' = overtaken,
           \A q \in Requests : pc'[q] \in PastLookup => pc[q] \in PastLookup
    PROVE  CooldownInv'
BY DEF CooldownInv, Secret

LEMMA StaysPast ==
    ASSUME TypeInv, NEW r \in Requests, NEW from, NEW to, Goto(r, from, to),
           to \in PastLookup => from \in PastLookup
    PROVE  \A q \in Requests : pc'[q] \in PastLookup => pc[q] \in PastLookup
BY DEF Goto, TypeInv, TypeOK

LEMMA LookupCooldown ==
    ASSUME TypeInv, CooldownInv, NEW r \in Requests, LookupSecret(r), Unnoted
    PROVE  CooldownInv'
<1>1. CASE Leave(r, "lookup", "not_found") \/ Leave(r, "lookup", "on_cooldown")
  <2>1. Goto(r, "lookup", "done") /\ "done" \notin PastLookup
    BY <1>1 DEF Leave, End, PastLookup
  <2>2. \A q \in Requests : pc'[q] \in PastLookup => pc[q] \in PastLookup
    BY <2>1, StaysPast
  <2>3. QED
    BY <1>1, <2>2, CooldownStays DEF Leave, End, Unnoted, history, dbVars
<1>2. CASE ~(job[r].kind = "scan" /\ Secret(r) \in cooling) /\ Proceed(r, "lookup", "load")
  <2>1. UNCHANGED <<job, cooling, overtaken>> /\ \A q \in Requests \ {r} : pc'[q] = pc[q]
    BY <1>2 DEF Proceed, Goto, Unnoted, history, dbVars, TypeInv, TypeOK
  <2>2. QED
    BY <1>2, <2>1 DEF CooldownInv, Secret
<1>3. QED
  BY <1>1, <1>2 DEF LookupSecret

LEMMA CommitCooldown ==
    ASSUME TypeInv, CooldownInv, NEW r \in Requests, NotedCommit(r)
    PROVE  CooldownInv'
<1>1. /\ pc' = [pc EXCEPT ![r] = "done"] /\ UNCHANGED job
      /\ cooling' = IF job[r].kind = "scan" THEN cooling \cup {Secret(r)} ELSE cooling
      /\ overtaken' = overtaken \cup {q \in Requests \ {r} : Overtakes(r, q)}
  BY DEF NotedCommit, Commit, End, Goto
<1>2. SUFFICES ASSUME NEW q \in Requests,
                      job[q].kind = "scan" /\ pc'[q] \in PastLookup /\ Secret(q) \in cooling'
               PROVE  q \in overtaken'
  BY <1>1 DEF CooldownInv, Secret
<1>3. q # r /\ pc'[q] = pc[q]
  BY <1>1, <1>2 DEF PastLookup, TypeInv, TypeOK
<1>4. CASE Secret(q) \in cooling
  BY <1>1, <1>2, <1>3, <1>4 DEF CooldownInv
<1>5. CASE job[r].kind = "scan" /\ Secret(q) = Secret(r)
  BY <1>1, <1>2, <1>3, <1>5 DEF Overtakes
<1>6. QED
  BY <1>1, <1>2, <1>4, <1>5

LEMMA StepCooldown ==
    ASSUME TypeInv, CooldownInv, NEW r \in Requests, NotedStep(r)
    PROVE  CooldownInv'
<1>1. ASSUME NEW from, NEW to, Goto(r, from, to), to \in PastLookup => from \in PastLookup,
             UNCHANGED <<job, cooling, overtaken>>
      PROVE  CooldownInv'
  BY <1>1, StaysPast, CooldownStays
<1>2. CASE RateLimit(r) /\ Unnoted
  <2>1. UNCHANGED <<job, cooling, overtaken>>
    BY <1>2 DEF RateLimit, End, Unnoted, history, dbVars
  <2>2. Goto(r, "limit", "done") \/ Goto(r, "limit", "lookup")
    BY <1>2 DEF RateLimit, End
  <2>3. QED
    BY <1>1, <2>1, <2>2 DEF PastLookup
<1>3. ASSUME NEW from, NEW outcome, Leave(r, from, outcome), Unnoted PROVE CooldownInv'
  BY <1>1, <1>3 DEF Leave, End, PastLookup, Unnoted, history, dbVars
<1>4. ASSUME NEW from, NEW to, Proceed(r, from, to), to \in PastLookup => from \in PastLookup,
             Unnoted
      PROVE  CooldownInv'
  BY <1>1, <1>4 DEF Proceed, Unnoted, history, dbVars
<1>5. CASE LoadItem(r) /\ Unnoted
  BY <1>3, <1>4, <1>5 DEF LoadItem, PastLookup
<1>6. CASE LockItem(r) /\ Unnoted
  <2>1. CASE Leave(r, "lock", "not_found")
    BY <1>3, <1>6, <2>1
  <2>2. CASE Goto(r, "lock", "check") /\ UNCHANGED <<dbVars, job>>
    BY <1>1, <1>6, <2>2 DEF PastLookup, Unnoted, history, dbVars
  <2>3. QED
    BY <1>6, <2>1, <2>2 DEF LockItem
<1>7. CASE CheckValidation(r) /\ Unnoted
  BY <1>3, <1>4, <1>7 DEF CheckValidation, PastLookup
<1>8. CASE Validate(r) /\ Unnoted
  <2>1. CASE Leave(r, "validate", "conflict")
    BY <1>3, <1>8, <2>1
  <2>2. CASE Goto(r, "validate", "drop") /\ UNCHANGED <<dbVars, job>>
    BY <1>1, <1>8, <2>2 DEF PastLookup, Unnoted, history, dbVars
  <2>3. QED
    BY <1>8, <2>1, <2>2 DEF Validate
<1>9. CASE NotedDrop(r)
  BY <1>1, <1>9 DEF NotedDrop, DelCount, PastLookup, dbVars
<1>10. CASE Reward(r) /\ Unnoted
  BY <1>1, <1>10 DEF Reward, PastLookup, Unnoted, history, dbVars
<1>11. CASE GetCount(r) /\ Unnoted
  BY <1>3, <1>4, <1>11 DEF GetCount, PastLookup
<1>12. CASE SelectCount(r) /\ Unnoted
  BY <1>4, <1>12 DEF SelectCount, PastLookup
<1>13. CASE NotedSet(r)
  BY <1>1, <1>13 DEF NotedSet, SetCount, End, PastLookup, dbVars
<1>14. QED
  BY <1>2, <1>5, <1>6, <1>7, <1>8, <1>9, <1>10, <1>11, <1>12, <1>13, LookupCooldown,
     CommitCooldown DEF NotedStep

LEMMA NextCooldown == TypeInv /\ CooldownInv /\ [NotedNext]_<<vars, history>> => CooldownInv'
<1> SUFFICES ASSUME TypeInv, CooldownInv, [NotedNext]_<<vars, history>> PROVE CooldownInv'
  OBVIOUS
<1>1. ASSUME NEW r \in Requests, NotedStep(r) PROVE CooldownInv'
  BY <1>1, StepCooldown
<1>2. ASSUME NEW r \in Requests, Fail(r) /\ Unnoted PROVE CooldownInv'
  <2>1. Goto(r, pc[r], "done") /\ UNCHANGED <<job, cooling, overtaken>>
    BY <1>2 DEF Fail, Leave, End, Unnoted, history, dbVars
  <2>2. QED
    BY <2>1, StaysPast, CooldownStays DEF PastLookup
<1>3. ASSUME UNCHANGED <<job, pc, overtaken>>, cooling' \subseteq cooling PROVE CooldownInv'
  BY <1>3, CooldownStays
<1>4. ASSUME NEW u \in Users, (WindowExpires(u) /\ Unnoted) \/ NotedExpiry(u) PROVE CooldownInv'
  BY <1>3, <1>4 DEF WindowExpires, NotedExpiry, CacheExpires, Unnoted, history, dbVars
<1>5. ASSUME NEW s \in Secrets, CooldownEnds(s) /\ Unnoted PROVE CooldownInv'
  BY <1>3, <1>5 DEF CooldownEnds, Unnoted, history
<1>6. ASSUME NEW x \in Removable, Deactivate(x) /\ Unnoted PROVE CooldownInv'
  BY <1>3, <1>6 DEF Deactivate, Unnoted, history, dbVars
<1>7. CASE UNCHANGED <<vars, history>>
  BY <1>3, <1>7 DEF vars, history, dbVars
<1>8. QED
  BY <1>1, <1>2, <1>4, <1>5, <1>6, <1>7 DEF NotedNext

\* CooldownKept: whoever commits a scan of a secret that cools down had read it before the
\* scan that cools it committed (claim_scan_reward).
THEOREM CooldownHolds == NotedSpec => []CooldownKept
<1>1. HistoryInit => CooldownInv
  BY DEF HistoryInit, Init, CooldownInv
<1>2. CooldownInv => CooldownKept
  BY DEF CooldownInv, CooldownKept, PastLookup
<1>3. QED
  BY <1>1, <1>2, NotedIsClaim, NextCooldown, TypeInvariant, PTL DEF NotedSpec

-----------------------------------------------------------------------------
(* A count goes stale in an overlap only.  A claim past its DEL has left   *)
(* no key behind, and a reader about to set one, whom no claim of the user *)
(* overtook, has the number there is.                                      *)

DropsDone ==
    \A q \in Requests : \A u \in Users \ crossed :
        User(q) = u /\ pc[q] \in PastDrop => cache[u] = NoCount

ReadsExact ==
    \A q \in Requests \ overtaken : \A u \in Users :
        User(q) = u /\ pc[q] = "set" => seenItem[q] = Cardinality(Collected(u))

StaleInv == StaleOnlyInOverlap /\ DropsDone /\ ReadsExact

\* A step that neither writes the cache nor commits nor counts.
LEMMA StaleStays ==
    ASSUME StaleInv, UNCHANGED <<validations, cache, job, history>>,
           \A q \in Requests : /\ pc'[q] \in PastDrop => pc[q] \in PastDrop
                               /\ pc'[q] = "set" => pc[q] = "set" /\ seenItem'[q] = seenItem[q]
    PROVE  StaleInv'
<1>1. \A u \in Users : Collected(u)' = Collected(u)
  BY DEF Collected
<1>2. overtaken' = overtaken /\ crossed' = crossed
  BY DEF history
<1>3. StaleOnlyInOverlap'
  BY <1>1, <1>2 DEF StaleInv, StaleOnlyInOverlap
<1>4. DropsDone'
  BY <1>2 DEF StaleInv, DropsDone, User
<1>5. ReadsExact'
  BY <1>1, <1>2 DEF StaleInv, ReadsExact, User
<1>6. QED
  BY <1>3, <1>4, <1>5 DEF StaleInv

LEMMA DropStale ==
    ASSUME TypeInv, StaleInv, NEW r \in Requests, NotedDrop(r)
    PROVE  StaleInv'
<1>1. PICK answered \in BOOLEAN :
         /\ DelCount(r, answered)
         /\ crossed' = IF answered THEN crossed \ {User(r)} ELSE crossed \cup {User(r)}
         /\ UNCHANGED overtaken
  BY DEF NotedDrop
<1>2. PICK u \in Users : u = User(r)
  BY JobType DEF TypeInv, TypeOK
<1>3. /\ UNCHANGED <<validations, job, seenItem>>
      /\ \A w \in Users \ {u} : cache'[w] = cache[w]
      /\ \A q \in Requests \ {r} : pc'[q] = pc[q]
      /\ pc'[r] # "set"
  BY <1>1, <1>2 DEF DelCount, Goto, dbVars, localVars, TypeInv, TypeOK
<1>4. u \notin crossed' => cache'[u] = NoCount
  BY <1>1, <1>2 DEF DelCount, TypeInv, TypeOK
<1>5. \A w \in Users : w \notin crossed' /\ w # u => w \notin crossed
  BY <1>1, <1>2
<1>6. \A w \in Users : Collected(w)' = Collected(w)
  BY <1>3 DEF Collected
<1>7. StaleOnlyInOverlap'
  BY <1>3, <1>4, <1>5, <1>6 DEF StaleInv, StaleOnlyInOverlap
<1>8. DropsDone'
  BY <1>2, <1>3, <1>4, <1>5 DEF StaleInv, DropsDone, User
<1>9. ReadsExact'
  BY <1>1, <1>3, <1>6 DEF StaleInv, ReadsExact, User
<1>10. QED
  BY <1>7, <1>8, <1>9 DEF StaleInv

LEMMA CommitStale ==
    ASSUME ClaimInv, StaleInv, NEW r \in Requests, NotedCommit(r)
    PROVE  StaleInv'
<1>1. /\ pc[r] = "commit" /\ pc' = [pc EXCEPT ![r] = "done"]
      /\ UNCHANGED <<job, cache, seenItem, crossed>>
      /\ overtaken' = overtaken \cup {q \in Requests \ {r} : Overtakes(r, q)}
  BY DEF NotedCommit, Commit, End, Goto, redisVars
<1>2. PICK u \in Users : u = User(r)
  BY CommitRow DEF NotedCommit
<1>3. \A q \in Requests : /\ pc'[q] \in PastDrop => pc[q] \in PastDrop
                          /\ pc'[q] = "set" => pc[q] = "set" /\ q # r
  BY <1>1 DEF PastDrop, ClaimInv, TypeInv, TypeOK
<1>4. \A w \in Users \ {u} : Collected(w)' = Collected(w)
  BY <1>2, CommitRow DEF Collected, NotedCommit
<1>5. u \notin crossed => cache[u] = NoCount
  BY <1>1, <1>2 DEF StaleInv, DropsDone, PastDrop
<1>6. StaleOnlyInOverlap'
  BY <1>1, <1>4, <1>5 DEF StaleInv, StaleOnlyInOverlap
<1>7. DropsDone'
  BY <1>1, <1>3 DEF StaleInv, DropsDone, User
<1>8. \A q \in Requests : pc'[q] = "set" /\ User(q) = u => q \in overtaken'
  BY <1>1, <1>2, <1>3 DEF Overtakes
<1>9. ReadsExact'
  <2> SUFFICES ASSUME NEW q \in Requests, q \notin overtaken', NEW w \in Users,
                      User(q) = w, pc'[q] = "set"
               PROVE  seenItem[q] = Cardinality(Collected(w)')
    BY <1>1 DEF ReadsExact, User
  <2>1. w # u /\ q \notin overtaken /\ pc[q] = "set"
    BY <1>1, <1>3, <1>8
  <2>2. QED
    BY <1>4, <2>1 DEF StaleInv, ReadsExact
<1>10. QED
  BY <1>6, <1>7, <1>9 DEF StaleInv

LEMMA SelectStale ==
    ASSUME TypeInv, StaleInv, NEW r \in Requests, SelectCount(r), Unnoted
    PROVE  StaleInv'
<1>1. PICK u \in Users : u = User(r)
  BY JobType DEF TypeInv, TypeOK
<1>2. PICK n : n = Cardinality(Collected(u))
  OBVIOUS
<1>3. /\ UNCHANGED <<validations, cache, job, crossed, overtaken>>
      /\ \A q \in Requests \ {r} : pc'[q] = pc[q] /\ seenItem'[q] = seenItem[q]
      /\ pc'[r] = "set" /\ seenItem'[r] = n
  BY <1>1, <1>2 DEF SelectCount, Proceed, Goto, Unnoted, history, dbVars, redisVars, TypeInv, TypeOK
<1>4. \A w \in Users : Collected(w)' = Collected(w)
  BY <1>3 DEF Collected
<1>5. StaleOnlyInOverlap'
  BY <1>3, <1>4 DEF StaleInv, StaleOnlyInOverlap
<1>6. DropsDone'
  BY <1>3 DEF StaleInv, DropsDone, User, PastDrop
<1>7. ReadsExact'
  BY <1>1, <1>2, <1>3, <1>4 DEF StaleInv, ReadsExact, User
<1>8. QED
  BY <1>5, <1>6, <1>7 DEF StaleInv

LEMMA SetStale ==
    ASSUME TypeInv, StaleInv, NEW r \in Requests, NotedSet(r)
    PROVE  StaleInv'
<1>1. PICK u \in Users : u = User(r)
  BY JobType DEF TypeInv, TypeOK
<1>2. /\ pc[r] = "set" /\ pc' = [pc EXCEPT ![r] = "done"]
      /\ UNCHANGED <<validations, job, seenItem, overtaken>>
      /\ cache' = [cache EXCEPT ![u] = seenItem[r]] \/ cache' = cache
  BY <1>1 DEF NotedSet, SetCount, End, Goto, dbVars
<1>3. crossed' = IF cache'[u] # seenItem[r] THEN crossed
                 ELSE IF \/ r \in overtaken
                         \/ \E q \in Requests : User(q) = u /\ pc[q] \in PastDrop
                      THEN crossed \cup {u}
                      ELSE crossed \ {u}
  BY <1>1 DEF NotedSet
<1>4. /\ \A w \in Users \ {u} : cache'[w] = cache[w] /\ (w \in crossed' <=> w \in crossed)
      /\ \A q \in Requests : /\ pc'[q] \in PastDrop => pc[q] \in PastDrop
                             /\ pc'[q] = "set" => pc[q] = "set"
      /\ \A w \in Users : Collected(w)' = Collected(w)
  BY <1>2, <1>3 DEF TypeInv, TypeOK, PastDrop, Collected
<1>5. ReadsExact'
  BY <1>2, <1>4 DEF StaleInv, ReadsExact, User
<1>6. CASE cache'[u] # seenItem[r]
  <2>1. cache' = cache /\ crossed' = crossed
    BY <1>2, <1>3, <1>6 DEF TypeInv, TypeOK
  <2>2. QED
    BY <1>2, <1>4, <1>5, <2>1 DEF StaleInv, StaleOnlyInOverlap, DropsDone, User
<1>7. CASE cache'[u] = seenItem[r]
  <2>1. u \notin crossed' => /\ seenItem[r] = Cardinality(Collected(u))
                             /\ \A q \in Requests : ~(User(q) = u /\ pc[q] \in PastDrop)
    BY <1>1, <1>2, <1>3, <1>7 DEF StaleInv, ReadsExact
  <2>2. StaleOnlyInOverlap'
    BY <1>4, <1>7, <2>1 DEF StaleInv, StaleOnlyInOverlap
  <2>3. DropsDone'
    BY <1>2, <1>4, <2>1 DEF StaleInv, DropsDone, User
  <2>4. QED
    BY <1>5, <2>2, <2>3 DEF StaleInv
<1>8. QED
  BY <1>6, <1>7

LEMMA StepStale ==
    ASSUME ClaimInv, StaleInv, NEW r \in Requests, NotedStep(r) \/ (Fail(r) /\ Unnoted)
    PROVE  StaleInv'
<1>0. TypeInv
  BY DEF ClaimInv
<1>1. ASSUME NEW from, NEW to, Goto(r, from, to), to # "set", to \in PastDrop => from \in PastDrop,
             UNCHANGED <<validations, cache, job, history>>,
             \A q \in Requests \ {r} : seenItem'[q] = seenItem[q]
      PROVE  StaleInv'
  <2>1. \A q \in Requests : /\ pc'[q] \in PastDrop => pc[q] \in PastDrop
                            /\ pc'[q] = "set" => pc[q] = "set" /\ seenItem'[q] = seenItem[q]
    BY <1>0, <1>1 DEF Goto, TypeInv, TypeOK
  <2>2. QED
    BY <1>1, <2>1, StaleStays
<1>2. ASSUME NEW from, NEW outcome, Leave(r, from, outcome), Unnoted PROVE StaleInv'
  BY <1>1, <1>2 DEF Leave, End, PastDrop, Unnoted, dbVars, redisVars
<1>3. ASSUME NEW from, NEW to, Proceed(r, from, to), to \notin PastDrop, to # "set", Unnoted,
             \A q \in Requests \ {r} : seenItem'[q] = seenItem[q]
      PROVE  StaleInv'
  BY <1>1, <1>3 DEF Proceed, Unnoted, dbVars, redisVars
<1>4. CASE RateLimit(r) /\ Unnoted
  <2>1. UNCHANGED <<validations, cache, job, history, seenItem>>
    BY <1>4 DEF RateLimit, End, Unnoted, dbVars, localVars
  <2>2. Goto(r, "limit", "done") \/ Goto(r, "limit", "lookup")
    BY <1>4 DEF RateLimit, End
  <2>3. QED
    BY <1>1, <2>1, <2>2 DEF PastDrop
<1>5. CASE (LookupSecret(r) \/ CheckValidation(r) \/ GetCount(r)) /\ Unnoted
  BY <1>2, <1>3, <1>5 DEF LookupSecret, CheckValidation, GetCount, PastDrop
<1>6. CASE LoadItem(r) /\ Unnoted
  <2>1. CASE Leave(r, "load", "not_found")
    BY <1>2, <1>6, <2>1
  <2>2. CASE Proceed(r, "load", "lock") /\ \A q \in Requests \ {r} : seenItem'[q] = seenItem[q]
    BY <1>3, <1>6, <2>2 DEF PastDrop
  <2>3. QED
    BY <1>0, <1>6, <2>1, <2>2 DEF LoadItem, TypeInv, TypeOK
<1>7. CASE LockItem(r) /\ Unnoted
  <2>1. CASE Leave(r, "lock", "not_found")
    BY <1>2, <1>7, <2>1
  <2>2. CASE Goto(r, "lock", "check") /\ UNCHANGED <<dbVars, redisVars, job, localVars>>
    BY <1>1, <1>7, <2>2 DEF PastDrop, Unnoted, dbVars, redisVars, localVars
  <2>3. QED
    BY <1>7, <2>1, <2>2 DEF LockItem
<1>8. CASE Validate(r) /\ Unnoted
  <2>1. CASE Leave(r, "validate", "conflict")
    BY <1>2, <1>8, <2>1
  <2>2. CASE Goto(r, "validate", "drop") /\ UNCHANGED <<dbVars, redisVars, job, seenItem>>
    BY <1>1, <1>8, <2>2 DEF PastDrop, Unnoted, dbVars, redisVars
  <2>3. QED
    BY <1>8, <2>1, <2>2 DEF Validate
<1>9. CASE Reward(r) /\ Unnoted
  BY <1>1, <1>9 DEF Reward, PastDrop, Unnoted, dbVars, redisVars
<1>10. CASE Fail(r) /\ Unnoted
  BY <1>2, <1>10 DEF Fail
<1>11. QED
  BY <1>0, <1>4, <1>5, <1>6, <1>7, <1>8, <1>9, <1>10, DropStale, CommitStale, SelectStale, SetStale
  DEF NotedStep

LEMMA ExpiryStale ==
    ASSUME TypeInv, StaleInv, NEW u \in Users, NotedExpiry(u)
    PROVE  StaleInv'
<1>1. /\ UNCHANGED <<validations, job, pc, seenItem, overtaken>>
      /\ crossed' = crossed \ {u} /\ cache'[u] = NoCount
      /\ \A w \in Users \ {u} : cache'[w] = cache[w]
  BY DEF NotedExpiry, CacheExpires, dbVars, localVars, TypeInv, TypeOK
<1>2. \A w \in Users : Collected(w)' = Collected(w)
  BY <1>1 DEF Collected
<1>3. StaleOnlyInOverlap'
  BY <1>1, <1>2 DEF StaleInv, StaleOnlyInOverlap
<1>4. DropsDone'
  BY <1>1 DEF StaleInv, DropsDone, User
<1>5. ReadsExact'
  BY <1>1, <1>2 DEF StaleInv, ReadsExact, User
<1>6. QED
  BY <1>3, <1>4, <1>5 DEF StaleInv

LEMMA NextStale == ClaimInv /\ StaleInv /\ [NotedNext]_<<vars, history>> => StaleInv'
<1> SUFFICES ASSUME ClaimInv, StaleInv, [NotedNext]_<<vars, history>> PROVE StaleInv'
  OBVIOUS
<1>1. ASSUME NEW r \in Requests, NotedStep(r) \/ (Fail(r) /\ Unnoted) PROVE StaleInv'
  BY <1>1, StepStale
<1>2. ASSUME NEW u \in Users, NotedExpiry(u) PROVE StaleInv'
  BY <1>2, ExpiryStale DEF ClaimInv
<1>3. ASSUME UNCHANGED <<validations, cache, job, pc, seenItem, history>> PROVE StaleInv'
  BY <1>3, StaleStays
<1>4. ASSUME NEW u \in Users, WindowExpires(u) /\ Unnoted PROVE StaleInv'
  BY <1>3, <1>4 DEF WindowExpires, Unnoted, dbVars, localVars
<1>5. ASSUME NEW s \in Secrets, CooldownEnds(s) /\ Unnoted PROVE StaleInv'
  BY <1>3, <1>5 DEF CooldownEnds, Unnoted, redisVars, localVars
<1>6. ASSUME NEW x \in Removable, Deactivate(x) /\ Unnoted PROVE StaleInv'
  BY <1>3, <1>6 DEF Deactivate, Unnoted, dbVars, redisVars, localVars
<1>7. CASE UNCHANGED <<vars, history>>
  BY <1>3, <1>7 DEF vars, dbVars, redisVars, localVars
<1>8. QED
  BY <1>1, <1>2, <1>4, <1>5, <1>6, <1>7 DEF NotedNext

\* StaleOnlyInOverlap: a count in the cache is the number of the user's validations unless
\* a claim fell between a reader's SELECT and SET, a SET between a claim's DEL and commit,
\* or a DEL failed (get_validation_count, claim_scan_reward, collect_item_by_secret).
THEOREM StaleOnlyByOverlap == NotedSpec => []StaleOnlyInOverlap
<1>1. HistoryInit => StaleInv
  <2> SUFFICES ASSUME HistoryInit PROVE StaleInv
    OBVIOUS
  <2>1. ASSUME NEW r \in Requests PROVE pc[r] # "set" /\ pc[r] \notin PastDrop
    <3>1. job[r].kind \in {"scan", "collect", "count"} /\ pc[r] = FirstStep(job[r].kind)
      BY ScanAssumption DEF HistoryInit, Init, Jobs, Endpoints
    <3>2. QED
      BY <3>1 DEF FirstStep, PastDrop
  <2>2. QED
    BY <2>1 DEF HistoryInit, Init, StaleInv, StaleOnlyInOverlap, DropsDone, ReadsExact
<1>2. StaleInv => StaleOnlyInOverlap
  BY DEF StaleInv
<1>3. QED
  BY <1>1, <1>2, NotedIsClaim, NextStale, ClaimInvariant, PTL DEF NotedSpec
=============================================================================
