-------------------------- MODULE MCQuestProgress --------------------------
EXTENDS QuestProgress, TLC

CONSTANTS e1, e2, w1, w2, p1, q1, q2, c1, c2

QuestTask == [e \in Events |-> <<"process_quest_progress">>]

Targets == [q \in Quests |-> IF q = q1 THEN 2 ELSE 1]

SameQuest == [c \in Claims |-> q1]

ActorSymmetry == Permutations(Workers) \cup Permutations(Claims)
=============================================================================
