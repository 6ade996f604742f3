---------------------------- MODULE MCTaskQueue ----------------------------
(* Small instances of TaskQueue for TLC.                                   *)
EXTENDS TaskQueue, TLC

Symmetric == Permutations(Tasks) \cup Permutations(Workers) \cup Permutations(Calls)
             \cup Permutations(Artifacts)

Enqueued == {t \in Tasks : task[t].state # "absent"}
Updating == {c \in Calls : call[c] # Idle}

\* Bound (an action constraint): updates overlap while there is one task, and
\* one is under way at a time once there are two.
Bounded == Cardinality(Enqueued') = 1 \/ Cardinality(Updating') <= 1

=============================================================================
