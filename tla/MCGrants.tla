------------------------------ MODULE MCGrants ------------------------------
(* Small instances of Grants for TLC.                                      *)
EXTENDS Grants, TLC

Symmetric == Permutations(GrantIds) \cup Permutations(Calls)

Present  == {g \in GrantIds : grant[g].status # "absent"}
Creating == {c \in Calls : call[c].at \in {"create", "createReferenced"}}

AllBrokered == /\ \A g \in Present : grant[g].brokered
               /\ \A c \in Creating : call[c].brokered
AllPlain == /\ \A g \in Present : ~Guarded(g)
            /\ \A c \in Creating : ~GuardedRow(call[c])
            /\ connected
AllOnce == /\ \A g \in Present : grant[g].type = "once" /\ hist[g].approved <= 1
           /\ \A c \in Calls : call[c].type = "once"

\* Bound (an action constraint): the table holds brokered grants or plain ones.
\* A continuing grant, or one that is approved again, is plain and alone.
Bounded == /\ AllBrokered' \/ AllPlain'
           /\ AllOnce' \/ (AllPlain' /\ Cardinality(Present') <= 1)

=============================================================================
