----------------------------- MODULE MCPodInbox -----------------------------
(* A small instance of PodInbox for TLC: one message, and one decision     *)
(* that waits from the start and changes at most once, in an inbox with    *)
(* room for one item and pages of one item.                                *)
EXTENDS PodInbox

CONSTANTS m1, d1

Waiting     == source = [d \in Decisions |-> 1]
WaitingInit == Init /\ Waiting
WaitingSpec == WaitingInit /\ [][Next]_vars /\ Fairness

\* Bound (an action constraint): a decision changes once, and with that change
\* one more act or fault happens, without it three of both.
Bounded == /\ Waiting \/ source' = source
           /\ acts' + faults' <= IF Waiting' THEN 3 ELSE 2

=============================================================================
