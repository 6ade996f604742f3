------------------------- MODULE MCCentralWorkspace -------------------------
(* Small instances of CentralWorkspace for TLC: one operation of another   *)
(* device and one of this desktop's owner.                                 *)
EXTENDS CentralWorkspace

CONSTANTS o1, o2

Submitted == {o \in Ops : ops[o] # "absent"}

\* Bound (an action constraint): operations, faults and changes of the data
\* are four in all.
Bounded == Cardinality(Submitted') + faults' + (content' - 1) <= 4

=============================================================================
