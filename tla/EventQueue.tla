----------------------------- MODULE EventQueue -----------------------------
(***************************************************************************)
(* What the queue of a pod's accepted events promises, whatever crashes:   *)
(* one batch is in flight at a time; what was processed stays processed;   *)
(* what failed waits again only when its delivery is repeated; and no      *)
(* input is tried more than MaxAttempts times.                             *)
(***************************************************************************)
EXTENDS Naturals

CONSTANTS Events, MaxAttempts

VARIABLES
  state,  \* of each event
  tries   \* attempts that ended without processing a pending or claimed event

States == {"absent", "pending", "claimed", "processed", "failed"}

In(x, st) == {e \in Events : st[e] = x}
Open(st)  == In("pending", st) \cup In("claimed", st)

Move(st, S, x) == [e \in Events |-> IF e \in S THEN x ELSE st[e]]

\* An attempt counts while its event is open.
Counted(count, st) == [e \in Events |-> IF e \in Open(st) THEN count[e] ELSE 0]

Init ==
  /\ state = [e \in Events |-> "absent"]
  /\ tries = [e \in Events |-> 0]

Become(st) == state' = st /\ tries' = Counted(tries, st)

\* An input arrives, or a failed one once more.
Arrive(e) ==
  /\ state[e] \in {"absent", "failed"}
  /\ Become(Move(state, {e}, "pending"))

\* The waiting inputs of one attempt are claimed together, or refused; one of
\* them may have arrived in the same step.
Take(st) ==
  \E S \in SUBSET In("pending", st), x \in {"claimed", "failed"} :
    /\ In("claimed", state) = {}
    /\ \A d, e \in S : tries[d] = tries[e]
    /\ Become(Move(st, S, x))

\* An attempt that had no input left one to wait with.
Wait(e) ==
  /\ state[e] = "absent" /\ MaxAttempts > 1
  /\ state' = Move(state, {e}, "pending")
  /\ tries' = [tries EXCEPT ![e] = 1]

\* The claimed batch is settled: some of it is processed, and the rest returned or failed.
Settle ==
  \E D \in SUBSET In("claimed", state) :
    LET left == In("claimed", state) \ D
    IN \/ Become(Move(Move(state, D, "processed"), left, "failed"))
       \/ /\ \A e \in left : tries[e] + 1 < MaxAttempts
          /\ state' = Move(Move(state, D, "processed"), left, "pending")
          /\ tries' = [e \in Events |-> IF e \in left THEN tries[e] + 1 ELSE Counted(tries, state')[e]]

Next ==
  \/ \E e \in Events : Arrive(e) \/ Wait(e)
  \/ Take(state)
  \/ \E e \in In("absent", state) : Take(Move(state, {e}, "pending"))
  \/ Settle

Spec == Init /\ [][Next]_<<state, tries>>

=============================================================================
