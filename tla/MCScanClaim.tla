---------------------------- MODULE MCScanClaim ----------------------------
EXTENDS ScanHistory, TLC

CONSTANTS r1, r2, r3, u1, u2, s1, s2, i1, i2

\* Two secrets (stickers in two places) lead to one item.
TwoSecretsOneItem == s1 :> i1 @@ s2 :> i1

\* Every item has its own secret.
SecretPerItem == s1 :> i1 @@ s2 :> i2

OneSecret == s1 :> i1

\* One secret pays XP, the other has reward_xp = 0.
PaidAndUnpaid == s1 :> 2 @@ s2 :> 0

Paid == [s \in {s1, s2} |-> 1]

OnePaid == s1 :> 1

RequestSymmetry == Permutations(Requests)
UserSymmetry == Permutations(Requests) \cup Permutations(Users)
=============================================================================
