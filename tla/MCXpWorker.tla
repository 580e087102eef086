----------------------------- MODULE MCXpWorker -----------------------------
EXTENDS XpWorker, TLC

CONSTANTS e1, e2, u1, u2, w1, w2, p1, p2

\* The XP task of the first event is followed by another task.
MixedTasks == [e \in Events |-> IF e = e1 THEN <<"process_scan_claimed", "process_quest_progress">>
                               ELSE <<"process_scan_claimed">>]
XpOnly == [e \in Events |-> <<"process_scan_claimed">>]

SameUser == [e \in Events |-> u1]

\* Every event pays XP, or the second one has fragments only.
AllPaid == {Events}
SomePaid == {Events, Events \ {e2}}

\* Two paid events reach the second level.
SecondEvent == {2}
=============================================================================
