---------------------------- MODULE MCUsageRound ----------------------------
(* Instances of UsageRound. *)
EXTENDS UsageRound

\* Two copies of one rollout and a rollout of a second thread.
TwoOfOne    == [s \in Sources |-> IF s = 3 THEN 2 ELSE 1]
Sizes       == [s \in Sources |-> IF s = 3 THEN 2 ELSE 4]
ShorterRaws == {2}
LastIsBad   == {<<3, 1>>}

\* Two rollouts of two threads.
OwnThreads  == [s \in Sources |-> s]
TwoLines    == [s \in Sources |-> 4]
FirstIsBad  == {<<1, 1>>}
NoBad       == {}
==============================================================================
