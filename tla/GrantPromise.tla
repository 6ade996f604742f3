---------------------------- MODULE GrantPromise ----------------------------
(***************************************************************************)
(* What a brokered or referenced grant promises its owner, whatever        *)
(* handlers, retries, races and restarts happen behind it: it is granted   *)
(* at most once and only while open, spent at most once and only while     *)
(* granted, redeemed at most once and only after it was spent, and once    *)
(* void it never comes back.  Grants move independently; several may move  *)
(* in one step, as when overdue requests expire together.                  *)
(***************************************************************************)
CONSTANT GrantIds

VARIABLES
  phase,     \* where each grant is
  spent,     \* grants that were spent
  redeemed   \* grants whose single execution was confirmed

vars == <<phase, spent, redeemed>>

Phases == {"absent", "open", "granted", "spent", "void"}

TypeOK == /\ phase \in [GrantIds -> Phases]
          /\ spent \subseteq GrantIds
          /\ redeemed \subseteq GrantIds

Init == /\ phase = [g \in GrantIds |-> "absent"]
        /\ spent = {}
        /\ redeemed = {}

Kept(g) == (g \in spent' <=> g \in spent) /\ (g \in redeemed' <=> g \in redeemed)

\* The phases a grant may enter without being spent or redeemed.
Moves == [absent  |-> {"absent", "open"},
          open    |-> {"open", "granted", "void"},
          granted |-> {"granted", "void"},
          spent   |-> {"spent", "void"},
          void    |-> {"void"}]

Move(g) == phase'[g] \in Moves[phase[g]] /\ Kept(g)

\* Spending ends the permission; the same step may confirm the execution.
Spend(g) == /\ phase[g] = "granted" /\ phase'[g] = "spent"
            /\ g \notin spent /\ g \in spent'
            /\ g \notin redeemed

\* A token that spent the grant confirms its execution once.
Redeem(g) == /\ phase[g] \in {"spent", "void"} /\ phase'[g] = phase[g]
             /\ g \in spent /\ g \in spent'
             /\ g \notin redeemed /\ g \in redeemed'

Next == /\ DOMAIN phase' = GrantIds
        /\ spent' \subseteq GrantIds /\ redeemed' \subseteq GrantIds
        /\ \A g \in GrantIds : Move(g) \/ Spend(g) \/ Redeem(g)

Spec == Init /\ [][Next]_vars

=============================================================================
