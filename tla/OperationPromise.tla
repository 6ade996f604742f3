-------------------------- MODULE OperationPromise --------------------------
(***************************************************************************)
(* What the central workspace promises of an owner's command, whatever is  *)
(* lost or crashes: one command is open at a time, it runs at most once    *)
(* and only while it is open, and its receipt tells the truth about that.  *)
(***************************************************************************)
EXTENDS Naturals

CONSTANTS Ops

VARIABLES
  receipt,  \* of each command
  ran       \* how often it ran

Init ==
  /\ receipt = [o \in Ops |-> "new"]
  /\ ran = [o \in Ops |-> 0]

Submit(o) ==
  /\ receipt[o] = "new"
  /\ \A p \in Ops : receipt[p] # "open"
  /\ receipt' = [receipt EXCEPT ![o] = "open"]
  /\ UNCHANGED ran

Run(o) ==
  /\ receipt[o] = "open" /\ ran[o] = 0
  /\ ran' = [ran EXCEPT ![o] = 1]
  /\ UNCHANGED receipt

\* A command that ran succeeded or failed; one that did not can only be refused.
Settle(o) ==
  /\ receipt[o] = "open"
  /\ \E x \in (IF ran[o] = 0 THEN {"unrun"} ELSE {"applied", "failed"}) :
       receipt' = [receipt EXCEPT ![o] = x]
  /\ UNCHANGED ran

Next == \E o \in Ops : Submit(o) \/ Run(o) \/ Settle(o)

Spec == Init /\ [][Next]_<<receipt, ran>>

=============================================================================
