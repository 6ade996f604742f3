---------------------------- MODULE GrantsProofs ----------------------------
(***************************************************************************)
(* Proofs about Grants, for any number of grants, calls and references and *)
(* any values of the times and bounds.                                     *)
(*                                                                         *)
(* The inductive invariant has two parts.  RowOK ties a row of a guarded   *)
(* grant to what was done with it and to the tokens in circulation; CallOK *)
(* says what a parked call may still rely on although the row has moved on *)
(* since it was read.  Everything CallOK relies on is monotone: it is kept *)
(* by every step of every other call.                                      *)
(***************************************************************************)
EXTENDS Grants, TLAPS

\* Steps at which a call works on an existing grant.
Targeted == Steps \ {"idle", "create", "createReferenced", "decide"}

\* Steps of a call that presents a token to /consume.
Presenting == {"expire", "introspected", "use", "claim", "mark", "brokerConsume"}

\* A row r of grant g with history h, when the tokens T are in circulation.
RowOK(r, h, T, g) ==
  /\ r.status = "absent" =>
       /\ ~GuardedRow(r)
       /\ h.approved = 0 /\ h.spent = 0 /\ h.redeemed = 0
       /\ \A t \in T : t.g # g
  /\ h.spent <= h.approved /\ (r.status = "approved" => h.spent < h.approved)
  /\ h.redeemed <= h.spent + 1 /\ (~r.consumed => h.redeemed <= h.spent)
  /\ r.status = "withdrawn" => GuardedRow(r)
  /\ GuardedRow(r) =>
       /\ r.status \in {"pending", "denied"} => h.approved = 0
       /\ r.status = "approved" => h.approved >= 1
       /\ h.approved = 0 => \A t \in T : t.g # g
       /\ (h.approved = 0 \/ r.status \in {"approved", "withdrawn"})
            => h.spent = 0 /\ h.redeemed = 0 /\ ~r.consumed
       /\ r.status = "used" => h.spent = 1
       /\ h.spent <= 1 /\ h.redeemed <= h.spent
       /\ \A t \in T : t.command /\ t.g = g /\ r.type = "once"
            => h.spent = 1 /\ h.redeemed = IF r.consumed THEN 1 ELSE 0
       /\ \A t \in T : t.g = g /\ r.type = "timed" => t.exp <= r.expires

CallOK(k) ==
  /\ k.at \in Targeted => k.g \in GrantIds /\ grant[k.g].status # "absent"
  /\ k.at = "revokeOld" => k.old \in GrantIds /\ grant[k.old].status # "absent"
  /\ k.at \in {"widen", "extend", "revokeOld"} => ~Guarded(k.g)
  /\ k.at \in {"issue", "command", "claimCommand", "mark"} /\ Guarded(k.g) => hist[k.g].approved >= 1
  /\ k.at \in {"issue", "command", "claimCommand"} /\ Guarded(k.g) => k.type = grant[k.g].type
  /\ k.at \in {"issue", "command"} /\ Guarded(k.g) => k.until = grant[k.g].expires
  /\ k.at = "claimCommand" => k.type = "once"
  /\ k.at = "mark" => k.command /\ (Guarded(k.g) => grant[k.g].type = "once")
  /\ k.at = "withdraw" => grant[k.g].ref # NoRef
  /\ k.at = "create" => k.ref = NoRef
  /\ k.at \in {"widen", "extend", "revokeOld"} => AllowExtension
  /\ k.at \in {"use", "claim", "mark"} => ~grant[k.g].brokered
  /\ k.at \in {"expire", "introspected"} /\ k.op = "use" => ~grant[k.g].brokered
  /\ k.command => /\ k.op \in {"consume", "use"} /\ k.at \in Presenting
                  /\ \E t \in tokens : t.command /\ t.g = k.g

RowsOK  == \A g \in GrantIds : RowOK(grant[g], hist[g], tokens, g)
CallsOK == \A c \in Calls : CallOK(call[c])

\* What every step keeps, so that CallOK of an unmoved call is stable.
Monotone ==
  /\ tokens \subseteq tokens'
  /\ \A g \in GrantIds :
       /\ hist'[g].approved >= hist[g].approved
       /\ grant[g].status # "absent" =>
            /\ grant'[g].status # "absent"
            /\ grant'[g].brokered = grant[g].brokered /\ grant'[g].ref = grant[g].ref
       /\ Guarded(g) /\ hist[g].approved >= 1 =>
            grant'[g].type = grant[g].type /\ grant'[g].expires = grant[g].expires

IInv == TypeOK /\ RowsOK /\ CallsOK

-----------------------------------------------------------------------------
(* Rows: what the store's writes keep of RowOK                             *)

History == [approved: Nat, spent: Nat, redeemed: Nat]

\* The sweep (expireRequests) keeps RowOK.
LEMMA ExpirePending ==
  ASSUME NEW r \in Row, NEW h \in History, NEW T \in SUBSET Token, NEW g \in GrantIds,
         RowOK(r, h, T, g), r.status = "pending"
  PROVE  /\ [r EXCEPT !.status = "expired"] \in Row
         /\ RowOK([r EXCEPT !.status = "expired"], h, T, g)
BY DEF Row, Status, History, RowOK, GuardedRow

\* A status written by updateStatus that grants nothing keeps RowOK.
LEMMA CloseRow ==
  ASSUME NEW r \in Row, NEW h \in History, NEW T \in SUBSET Token, NEW g \in GrantIds,
         RowOK(r, h, T, g), r.status # "absent",
         NEW status \in {"denied", "revoked", "expired"}, ~Refused(r, status)
  PROVE  /\ [r EXCEPT !.status = status] \in Row
         /\ RowOK([r EXCEPT !.status = status], h, T, g)
BY DEF Row, Status, History, RowOK, GuardedRow, Refused

\* Widening writes `pending' again, but only to a plain row.
LEMMA ReopenPlainRow ==
  ASSUME NEW r \in Row, NEW h \in History, NEW T \in SUBSET Token, NEW g \in GrantIds,
         RowOK(r, h, T, g), r.status # "absent", ~GuardedRow(r), ~Refused(r, "pending")
  PROVE  /\ [r EXCEPT !.status = "pending"] \in Row
         /\ RowOK([r EXCEPT !.status = "pending"], h, T, g)
BY DEF Row, Status, History, RowOK, GuardedRow, Refused

\* An approval that updateStatus does not refuse keeps RowOK: a guarded row was
\* pending, hence never approved before.
LEMMA ApproveRow ==
  ASSUME NEW r \in Row, NEW h \in History, NEW T \in SUBSET Token, NEW g \in GrantIds,
         RowOK(r, h, T, g), r.status # "absent", ~Refused(r, "approved"),
         NEW s \in Row, s.status = "approved", s.ref = r.ref, s.brokered = r.brokered,
         s.consumed = r.consumed
  PROVE  /\ [h EXCEPT !.approved = @ + 1] \in History
         /\ RowOK(s, [h EXCEPT !.approved = @ + 1], T, g)
BY DEF Row, Status, History, RowOK, GuardedRow, Refused

\* Spending an approved row (claimOnce, the broker's consume) keeps RowOK,
\* also when the same step redeems it.
LEMMA SpendRow ==
  ASSUME NEW r \in Row, NEW h \in History, NEW T \in SUBSET Token, NEW g \in GrantIds,
         RowOK(r, h, T, g), r.status = "approved"
  PROVE  /\ [r EXCEPT !.status = "used"] \in Row
         /\ [h EXCEPT !.spent = @ + 1] \in History
         /\ [h EXCEPT !.spent = @ + 1, !.redeemed = @ + 1] \in History
         /\ RowOK([r EXCEPT !.status = "used"], [h EXCEPT !.spent = @ + 1], T, g)
         /\ RowOK([r EXCEPT !.status = "used"], [h EXCEPT !.spent = @ + 1, !.redeemed = @ + 1], T, g)
<1>1. [r EXCEPT !.status = "used"] \in Row
  BY DEF Row, Status
<1>2. /\ [h EXCEPT !.spent = @ + 1] \in History
      /\ [h EXCEPT !.spent = @ + 1, !.redeemed = @ + 1] \in History
  <2>1. h.spent + 1 \in Nat /\ h.redeemed + 1 \in Nat
    BY DEF History
  <2>2. [h EXCEPT !.spent = @ + 1] \in History
    BY <2>1 DEF History
  <2>3. [h EXCEPT !.spent = @ + 1, !.redeemed = @ + 1] \in History
    BY <2>1, Zenon DEF History
  <2> QED BY <2>2, <2>3
<1>3. GuardedRow(r) => ~ \E t \in T : t.command /\ t.g = g /\ r.type = "once"
  BY DEF RowOK, History
<1>4. RowOK([r EXCEPT !.status = "used"], [h EXCEPT !.spent = @ + 1], T, g)
  BY <1>3 DEF Row, Status, History, RowOK, GuardedRow
<1>5. RowOK([r EXCEPT !.status = "used"], [h EXCEPT !.spent = @ + 1, !.redeemed = @ + 1], T, g)
  BY <1>3 DEF Row, Status, History, RowOK, GuardedRow
<1> QED BY <1>1, <1>2, <1>4, <1>5

\* The first redemption by a command token keeps RowOK.
LEMMA RedeemRow ==
  ASSUME NEW r \in Row, NEW h \in History, NEW T \in SUBSET Token, NEW g \in GrantIds,
         RowOK(r, h, T, g), r.status # "absent", ~r.consumed,
         GuardedRow(r) => r.type = "once", \E t \in T : t.command /\ t.g = g
  PROVE  /\ [r EXCEPT !.consumed = TRUE] \in Row
         /\ [h EXCEPT !.redeemed = @ + 1] \in History
         /\ RowOK([r EXCEPT !.consumed = TRUE], [h EXCEPT !.redeemed = @ + 1], T, g)
<1>0. [r EXCEPT !.consumed = TRUE] \in Row
  BY Zenon DEF Row
<1>1. [h EXCEPT !.redeemed = @ + 1] \in History
  BY DEF History
<1>2. GuardedRow(r) => /\ h.spent = 1 /\ h.redeemed = 0 /\ h.approved # 0
                       /\ r.status \notin {"approved", "withdrawn", "pending", "denied"}
  BY DEF RowOK, History
<1>3. RowOK([r EXCEPT !.consumed = TRUE], [h EXCEPT !.redeemed = @ + 1], T, g)
  BY <1>2 DEF Row, Status, History, RowOK, GuardedRow
<1> QED BY <1>0, <1>1, <1>3

\* A requester's withdrawal keeps RowOK of a referenced row.
LEMMA WithdrawRow ==
  ASSUME NEW r \in Row, NEW h \in History, NEW T \in SUBSET Token, NEW g \in GrantIds,
         RowOK(r, h, T, g), Withdrawable(r), r.ref # NoRef
  PROVE  /\ [r EXCEPT !.status = "withdrawn"] \in Row
         /\ RowOK([r EXCEPT !.status = "withdrawn"], h, T, g)
BY DEF Row, Status, History, RowOK, GuardedRow, Withdrawable

\* A token of an approved grant keeps RowOK; a command token of a guarded
\* single-use grant only if the grant was just spent and not yet redeemed.
LEMMA NewToken ==
  ASSUME NEW r \in Row, NEW h \in History, NEW T \in SUBSET Token, NEW g \in GrantIds,
         RowOK(r, h, T, g), NEW t \in Token,
         t.g = g => /\ r.status # "absent"
                    /\ GuardedRow(r) => /\ h.approved >= 1
                                        /\ r.type = "timed" => t.exp <= r.expires
                                        /\ t.command /\ r.type = "once" =>
                                             h.spent = 1 /\ h.redeemed = 0 /\ ~r.consumed
  PROVE  RowOK(r, h, T \cup {t}, g)
<1>1. CASE t.g # g
  BY <1>1 DEF RowOK
<1>2. CASE t.g = g
  BY <1>2 DEF RowOK, Row, History
<1> QED BY <1>1, <1>2

-----------------------------------------------------------------------------
(* Steps: the table after a sweep, one row written, one call moved         *)

SweepOf(rows) == rows = grant \/ \E at \in Nat : rows = expirePendingRequests(at)

\* A sweep touches only requests that are pending, and keeps RowOK.
LEMMA Sweeping ==
  ASSUME TypeOK, RowsOK, NEW rows, SweepOf(rows)
  PROVE  /\ rows \in [GrantIds -> Row]
         /\ \A g \in GrantIds :
              /\ RowOK(rows[g], hist[g], tokens, g)
              /\ rows[g].status # "expired" => rows[g] = grant[g]
              /\ rows[g].status = "absent" <=> grant[g].status = "absent"
              /\ rows[g].type = grant[g].type /\ rows[g].consumed = grant[g].consumed
              /\ rows[g].expires = grant[g].expires
              /\ rows[g].brokered = grant[g].brokered /\ rows[g].ref = grant[g].ref
<1>1. CASE rows = grant
  BY <1>1 DEF TypeOK, RowsOK
<1>2. ASSUME NEW at \in Nat, rows = expirePendingRequests(at)
      PROVE  /\ rows \in [GrantIds -> Row]
             /\ \A g \in GrantIds :
                  /\ RowOK(rows[g], hist[g], tokens, g)
                  /\ rows[g].status # "expired" => rows[g] = grant[g]
                  /\ rows[g].status = "absent" <=> grant[g].status = "absent"
                  /\ rows[g].type = grant[g].type /\ rows[g].consumed = grant[g].consumed
                  /\ rows[g].expires = grant[g].expires
                  /\ rows[g].brokered = grant[g].brokered /\ rows[g].ref = grant[g].ref
  <2>1. \A g \in GrantIds : rows[g] = IF OverdueAt(grant[g], at)
                                      THEN [grant[g] EXCEPT !.status = "expired"] ELSE grant[g]
    BY <1>2 DEF expirePendingRequests
  <2>2. ASSUME NEW g \in GrantIds
        PROVE  /\ rows[g] \in Row
               /\ RowOK(rows[g], hist[g], tokens, g)
               /\ rows[g].status # "expired" => rows[g] = grant[g]
               /\ rows[g].status = "absent" <=> grant[g].status = "absent"
               /\ rows[g].type = grant[g].type /\ rows[g].consumed = grant[g].consumed
               /\ rows[g].expires = grant[g].expires
               /\ rows[g].brokered = grant[g].brokered /\ rows[g].ref = grant[g].ref
    <3>1. grant[g] \in Row /\ hist[g] \in History /\ RowOK(grant[g], hist[g], tokens, g)
      BY DEF TypeOK, RowsOK, History
    <3>2. CASE OverdueAt(grant[g], at)
      <4>1. grant[g].status = "pending"
        BY <3>2 DEF OverdueAt
      <4>2. rows[g] = [grant[g] EXCEPT !.status = "expired"]
        BY <2>1, <3>2
      <4>3. rows[g] \in Row /\ RowOK(rows[g], hist[g], tokens, g)
        BY <3>1, <4>1, <4>2, ExpirePending DEF TypeOK
      <4> QED BY <3>1, <4>1, <4>2, <4>3 DEF Row
    <3>3. CASE ~OverdueAt(grant[g], at)
      BY <2>1, <3>1, <3>3
    <3> QED BY <3>2, <3>3
  <2>3. rows = [g \in GrantIds |-> rows[g]]
    BY <1>2 DEF expirePendingRequests
  <2> QED BY <2>2, <2>3
<1> QED BY <1>1, <1>2 DEF SweepOf

\* A finished call is a call, and relies on nothing.
\* The names of the steps.
LEMMA StepNames ==
  /\ "idle" \in Steps /\ "approveRead" \in Steps /\ "approve" \in Steps /\ "reread" \in Steps
  /\ "issue" \in Steps /\ "deny" \in Steps /\ "revoke" \in Steps /\ "withdraw" \in Steps
  /\ "expire" \in Steps /\ "introspected" \in Steps /\ "use" \in Steps /\ "claim" \in Steps
  /\ "mark" \in Steps /\ "brokerConsume" \in Steps /\ "decide" \in Steps /\ "create" \in Steps
  /\ "createReferenced" \in Steps /\ "autoApprove" \in Steps /\ "autoRead" \in Steps
  /\ "command" \in Steps /\ "claimCommand" \in Steps /\ "widen" \in Steps
  /\ "extend" \in Steps /\ "revokeOld" \in Steps
BY DEF Steps

LEMMA IdleCall == Idle \in Call /\ CallOK(Idle)
<1>1. Idle \in Call
  BY TimeAssumption, ShapeAssumption DEF Idle, Call, Steps, Types, Time
<1>2. CallOK(Idle)
  BY DEF Idle, CallOK, Targeted
<1> QED BY <1>1, <1>2

\* Monotone steps keep what a parked call relies on.
LEMMA CallStable ==
  ASSUME TypeOK, tokens' \subseteq Token, hist' \in [GrantIds -> History],
         Monotone, NEW k \in Call, CallOK(k)
  PROVE  CallOK(k)'
<1>1. CASE k.g \in GrantIds /\ grant[k.g].status # "absent"
  <2>1. /\ Guarded(k.g)' <=> Guarded(k.g)
        /\ (grant[k.g].ref # NoRef)' <=> grant[k.g].ref # NoRef
        /\ (grant[k.g].status # "absent")'
        /\ (grant[k.g].brokered)' = grant[k.g].brokered
        /\ Guarded(k.g) /\ hist[k.g].approved >= 1 =>
             /\ (hist[k.g].approved >= 1)' /\ (grant[k.g].type)' = grant[k.g].type
             /\ (grant[k.g].expires)' = grant[k.g].expires
    BY <1>1 DEF Monotone, Guarded, GuardedRow, TypeOK, History
  <2>2. k.at = "revokeOld" => k.old \in GrantIds /\ (grant[k.old].status # "absent")'
    BY DEF Monotone, CallOK
  <2>3. k.command => \E t \in tokens' : t.command /\ t.g = k.g
    BY DEF Monotone, CallOK
  <2> QED BY <1>1, <2>1, <2>2, <2>3 DEF CallOK
<1>2. CASE ~(k.g \in GrantIds /\ grant[k.g].status # "absent")
  <2>1. k.at \notin Targeted
    BY <1>2 DEF CallOK
  <2>2. k.at \notin {"revokeOld", "widen", "extend", "issue", "command", "claimCommand",
                    "mark", "withdraw", "use", "claim", "expire", "introspected"}
    BY <2>1 DEF Targeted, Steps
  <2>3. k.command => \E t \in tokens' : t.command /\ t.g = k.g
    BY DEF Monotone, CallOK
  <2> QED BY <2>1, <2>2, <2>3 DEF CallOK
<1> QED BY <1>1, <1>2

\* A step that keeps rows in order and moves one call to k keeps the invariant.
LEMMA CallStep ==
  ASSUME IInv, now' \in 0..MaxNow, connected' \in BOOLEAN, tokens' \subseteq Token,
         grant' \in [GrantIds -> Row], hist' \in [GrantIds -> History],
         RowsOK', Monotone,
         NEW c \in Calls, NEW k \in Call, CallOK(k)',
         Goto(c, k) \/ Done(c)
  PROVE  IInv'
<1>1. PICK m \in Call : CallOK(m)' /\ call' = [call EXCEPT ![c] = m]
  <2>1. CASE Done(c)
    <3>1. CallOK(Idle)'
      BY DEF Idle, CallOK, Targeted
    <3> QED BY <2>1, <3>1, IdleCall DEF Done
  <2>2. CASE Goto(c, k)
    <3>1. now \in 0..MaxNow /\ 0 \in 0..MaxNow
      BY TimeAssumption DEF IInv, TypeOK
    <3>2. PICK at \in 0..MaxNow : call' = [call EXCEPT ![c] = [k EXCEPT !.since = at]]
      BY <2>2, <3>1 DEF Goto
    <3>3. [k EXCEPT !.since = at] \in Call
      BY DEF Call
    <3>4. CallOK([k EXCEPT !.since = at])'
      BY DEF CallOK, Call
    <3> QED BY <3>2, <3>3, <3>4
  <2> QED BY <2>1, <2>2
<1>2. call' \in [Calls -> Call]
  BY <1>1 DEF IInv, TypeOK
<1>3. ASSUME NEW d \in Calls PROVE CallOK(call[d])'
  <2>1. CASE d = c
    BY <1>1, <2>1 DEF IInv, TypeOK
  <2>2. CASE d # c
    <3>1. call'[d] = call[d] /\ call[d] \in Call /\ CallOK(call[d])
      BY <1>1, <2>2 DEF IInv, TypeOK, CallsOK
    <3>2. ASSUME NEW j \in Call, CallOK(j) PROVE CallOK(j)'
      BY <3>2, CallStable DEF IInv
    <3>3. \A j \in Call : CallOK(j) => CallOK(j)'
      BY <3>2
    <3> QED BY <3>1, <3>3
  <2> QED BY <2>1, <2>2
<1>4. TypeOK'
  BY <1>2 DEF TypeOK, History
<1> QED BY <1>3, <1>4 DEF IInv, CallsOK

\* A step that writes nothing but what a sweep expires.
LEMMA QuietStep ==
  ASSUME IInv, NEW rows, SweepOf(rows), grant' = rows, Unwritten,
         NEW c \in Calls, NEW k \in Call, CallOK(k), Goto(c, k) \/ Done(c)
  PROVE  IInv'
<1>1. /\ rows \in [GrantIds -> Row]
      /\ \A g \in GrantIds :
           /\ RowOK(rows[g], hist[g], tokens, g)
           /\ rows[g].status = "absent" <=> grant[g].status = "absent"
           /\ rows[g].type = grant[g].type /\ rows[g].expires = grant[g].expires
           /\ rows[g].brokered = grant[g].brokered /\ rows[g].ref = grant[g].ref
  BY Sweeping DEF IInv
<1>2. /\ now' \in 0..MaxNow /\ connected' \in BOOLEAN /\ tokens' \subseteq Token
      /\ grant' \in [GrantIds -> Row] /\ hist' \in [GrantIds -> History]
  BY <1>1 DEF IInv, TypeOK, Unwritten, History
<1>3. Monotone
  BY <1>1 DEF Monotone, Unwritten, IInv, TypeOK
<1>4. RowsOK'
  BY <1>1 DEF RowsOK, Unwritten
<1>5. CallOK(k)'
  BY <1>2, <1>3, CallStable DEF IInv
<1> QED BY <1>2, <1>3, <1>4, <1>5, CallStep

\* One row and its history are written over a swept table.
LEMMA WriteRow ==
  ASSUME IInv, NEW rows, SweepOf(rows),
         NEW g \in GrantIds, NEW r \in Row, NEW h \in History,
         grant' = [rows EXCEPT ![g] = r], hist' = [hist EXCEPT ![g] = h], tokens' = tokens,
         RowOK(r, h, tokens, g),
         h.approved >= hist[g].approved,
         grant[g].status # "absent" =>
           r.status # "absent" /\ r.brokered = grant[g].brokered /\ r.ref = grant[g].ref,
         Guarded(g) /\ hist[g].approved >= 1 => r.type = grant[g].type /\ r.expires = grant[g].expires
  PROVE  /\ grant' \in [GrantIds -> Row] /\ hist' \in [GrantIds -> History]
         /\ RowsOK' /\ Monotone
<1>1. /\ rows \in [GrantIds -> Row]
      /\ \A o \in GrantIds :
           /\ RowOK(rows[o], hist[o], tokens, o)
           /\ rows[o].status = "absent" <=> grant[o].status = "absent"
           /\ rows[o].type = grant[o].type /\ rows[o].expires = grant[o].expires
           /\ rows[o].brokered = grant[o].brokered /\ rows[o].ref = grant[o].ref
  BY Sweeping DEF IInv
<1>2. hist \in [GrantIds -> History]
  BY DEF IInv, TypeOK, History
<1>3. grant' \in [GrantIds -> Row] /\ hist' \in [GrantIds -> History]
  BY <1>1, <1>2
<1>4. /\ grant'[g] = r /\ hist'[g] = h
      /\ \A o \in GrantIds : o # g => grant'[o] = rows[o] /\ hist'[o] = hist[o]
  BY <1>1, <1>2
<1>5. RowsOK'
  BY <1>1, <1>4 DEF RowsOK
<1>6. ASSUME NEW o \in GrantIds
      PROVE  /\ hist'[o].approved >= hist[o].approved
             /\ grant[o].status # "absent" =>
                  /\ grant'[o].status # "absent"
                  /\ grant'[o].brokered = grant[o].brokered /\ grant'[o].ref = grant[o].ref
             /\ Guarded(o) /\ hist[o].approved >= 1 =>
                  grant'[o].type = grant[o].type /\ grant'[o].expires = grant[o].expires
  <2>1. hist[o].approved >= hist[o].approved
    BY <1>2 DEF History
  <2>2. CASE o = g
    BY <1>4, <2>2
  <2>3. CASE o # g
    BY <1>1, <1>4, <2>1, <2>3
  <2> QED BY <2>2, <2>3
<1>7. Monotone
  BY <1>6 DEF Monotone
<1> QED BY <1>3, <1>5, <1>7

\* The same without a new history.
LEMMA WriteStatus ==
  ASSUME IInv, NEW rows, SweepOf(rows), Unwritten,
         NEW g \in GrantIds, NEW r \in Row, SetRow(rows, g, r),
         RowOK(r, hist[g], tokens, g),
         grant[g].status # "absent" =>
           r.status # "absent" /\ r.brokered = grant[g].brokered /\ r.ref = grant[g].ref,
         Guarded(g) /\ hist[g].approved >= 1 => r.type = grant[g].type /\ r.expires = grant[g].expires,
         NEW c \in Calls, NEW k \in Call, CallOK(k) \/ CallOK(k)', Goto(c, k) \/ Done(c)
  PROVE  IInv'
<1>1. hist[g] \in History /\ hist[g].approved >= hist[g].approved
  BY DEF IInv, TypeOK, History
<1>2. hist' = [hist EXCEPT ![g] = hist[g]]
  BY DEF Unwritten, IInv, TypeOK
<1>3. /\ grant' \in [GrantIds -> Row] /\ hist' \in [GrantIds -> History]
      /\ RowsOK' /\ Monotone
  BY <1>1, <1>2, WriteRow DEF SetRow, Unwritten
<1>4. now' \in 0..MaxNow /\ connected' \in BOOLEAN /\ tokens' \subseteq Token
  BY DEF Unwritten, IInv, TypeOK
<1>5. CallOK(k)'
  BY <1>3, <1>4, CallStable DEF IInv
<1> QED BY <1>3, <1>4, <1>5, CallStep

-----------------------------------------------------------------------------
(* The actions, one lemma each                                             *)

\* Every table a handler meets (listGrants, the sweep before a write) is a sweep.
LEMMA Sweeps ==
  ASSUME IInv, NEW c \in Calls
  PROVE  /\ SweepOf(Current) /\ SweepOf(grant)
         /\ \A rows \in Swept(c) : SweepOf(rows)
<1>1. now \in Nat /\ call[c].since \in Nat
  BY TimeAssumption DEF IInv, TypeOK, Call
<1> QED BY <1>1 DEF SweepOf, Current, Swept

\* What a handler knows of a grant it found approved.
LEMMA FoundApproved ==
  ASSUME IInv, NEW rows, SweepOf(rows), NEW g \in GrantIds, rows[g].status = "approved"
  PROVE  /\ rows[g] = grant[g] /\ rows[g].type \in Types /\ rows[g].expires \in Time
         /\ Guarded(g) => hist[g].approved >= 1
<1>1. rows[g] = grant[g]
  BY Sweeping DEF IInv
<1>2. grant[g] \in Row /\ RowOK(grant[g], hist[g], tokens, g)
  BY DEF IInv, TypeOK, RowsOK
<1>3. rows[g].type \in Types /\ rows[g].expires \in Time
  BY <1>1, <1>2 DEF Row
<1>4. Guarded(g) => hist[g].approved >= 1
  BY <1>1, <1>2 DEF RowOK, Guarded
<1> QED BY <1>1, <1>3, <1>4

\* ... and goes on to the command token of that grant.
LEMMA CommandCall ==
  ASSUME IInv, NEW rows, SweepOf(rows), NEW g \in GrantIds, rows[g].status = "approved",
         NEW k \in Call, ~k.command
  PROVE  LET m == [k EXCEPT !.at = "command", !.g = g, !.type = rows[g].type, !.until = rows[g].expires]
         IN  m \in Call /\ CallOK(m)
<1> DEFINE m == [k EXCEPT !.at = "command", !.g = g, !.type = rows[g].type, !.until = rows[g].expires]
<1>1. /\ rows[g] = grant[g] /\ rows[g].type \in Types /\ rows[g].expires \in Time
      /\ Guarded(g) => hist[g].approved >= 1
  BY FoundApproved
<1>2. m \in Call
  BY <1>1, StepNames DEF Call
<1>3. m.at = "command" /\ m.g = g /\ m.type = grant[g].type /\ m.until = grant[g].expires /\ ~m.command
  BY <1>1 DEF Call
<1>4. CallOK(m)
  <2> HIDE DEF m
  <2> QED BY <1>1, <1>3 DEF CallOK, Targeted, Steps
<1> QED BY <1>2, <1>4

\* POST /api/grants and the broker's create keep the invariant ("it" below).
LEMMA StepSubmit ==
  ASSUME IInv, NEW c \in Calls, NEW b \in Requesters, NEW t \in GrantTypes, NEW auto \in BOOLEAN,
         Submit(c, b, t, auto)
  PROVE  IInv'
<1> DEFINE k == [Idle EXCEPT !.at = "create", !.type = t, !.brokered = b,
                             !.op = IF auto THEN "submit" ELSE "none"]
<1>1. k \in Call
  BY IdleCall, ShapeAssumption, StepNames DEF Idle, Call, Types
<1>2. CallOK(k)
  BY DEF CallOK, Targeted, Idle
<1>3. grant' = Current /\ Unwritten /\ Goto(c, k)
  BY DEF Submit, Reading
<1> QED BY <1>1, <1>2, <1>3, Sweeps, QuietStep

\* Answering with the grant of a reference (requestReferencedGrant) keeps it.
LEMMA StepAnswer ==
  ASSUME IInv, NEW c \in Calls, NEW k \in Call, ~k.command,
         NEW rows, SweepOf(rows), grant' = rows, Unwritten,
         NEW g \in GrantIds, AnswerReferenced(c, k, rows, g)
  PROVE  IInv'
<1>1. CASE k.op = "authorize" /\ rows[g].status = "approved"
  <2> DEFINE m == [k EXCEPT !.at = "command", !.g = g, !.type = rows[g].type, !.until = rows[g].expires]
  <2>1. m \in Call /\ CallOK(m)
    BY <1>1, CommandCall
  <2>2. Goto(c, m)
    BY <1>1 DEF AnswerReferenced
  <2> QED BY <2>1, <2>2, QuietStep
<1>2. CASE ~(k.op = "authorize" /\ rows[g].status = "approved")
  <2>1. Done(c)
    BY <1>2 DEF AnswerReferenced
  <2> QED BY <2>1, IdleCall, QuietStep
<1> QED BY <1>1, <1>2

\* Looking a reference up (requestReferencedGrant) keeps it.
LEMMA StepFind ==
  ASSUME IInv, NEW c \in Calls, NEW k \in Call, ~k.command, FindReferenced(c, k)
  PROVE  IInv'
<1>1. grant' = Current /\ Unwritten /\ SweepOf(Current)
  BY Sweeps DEF FindReferenced, Reading
<1>2. CASE HasReference(Current, k)
  <2>1. PICK g \in GrantIds : AnswerReferenced(c, k, Current, g)
    BY <1>2 DEF FindReferenced, Referenced
  <2> QED BY <1>1, <2>1, StepAnswer
<1>3. CASE ~HasReference(Current, k)
  <2> DEFINE m == [k EXCEPT !.at = "createReferenced"]
  <2>1. Goto(c, m)
    BY <1>3 DEF FindReferenced
  <2>2. m \in Call
    BY StepNames DEF Call
  <2>3. CallOK(m)
    BY DEF CallOK, Targeted, Call
  <2> QED BY <1>1, <2>1, <2>2, <2>3, QuietStep
<1> QED BY <1>2, <1>3

\* POST /api/grants with a reference keeps it.
LEMMA StepSubmitReferenced ==
  ASSUME IInv, NEW c \in Calls, NEW b \in Requesters, NEW ref \in Refs, SubmitReferenced(c, b, ref)
  PROVE  IInv'
<1> DEFINE k == [Idle EXCEPT !.brokered = b, !.ref = ref, !.op = "submit"]
<1>1. k \in Call /\ ~k.command
  BY IdleCall, ShapeAssumption DEF Idle, Call
<1>2. FindReferenced(c, k)
  BY DEF SubmitReferenced
<1> QED BY <1>1, <1>2, StepFind

\* The row a call creates, where no grant was.
LEMMA CreatedRow ==
  ASSUME IInv, NEW k \in Call, NEW g \in GrantIds, grant[g].status = "absent"
  PROVE  /\ NewRow(k) \in Row /\ NewRow(k).status = "pending"
         /\ RowOK(NewRow(k), hist[g], tokens, g)
         /\ ~Guarded(g)
<1>1. RowOK(grant[g], hist[g], tokens, g)
  BY DEF IInv, RowsOK
<1>2. NoRow \in Row
  BY TimeAssumption DEF NoRow, Row, Status, Types, Time
<1>3. NewRow(k) \in Row
  <2>1. k.since \in Time
    BY TimeAssumption DEF Call, Time
  <2> QED BY <1>2, <2>1 DEF NewRow, Call, Row, Status
<1>4. /\ NewRow(k).status = "pending" /\ ~NewRow(k).consumed
  BY DEF NewRow, NoRow
<1>5. RowOK(NewRow(k), hist[g], tokens, g) /\ ~Guarded(g)
  <2>1. hist[g].approved = 0 /\ hist[g].spent = 0 /\ hist[g].redeemed = 0
        /\ (\A t \in tokens : t.g # g) /\ ~Guarded(g)
    BY <1>1 DEF RowOK, Guarded
  <2> QED BY <1>4, <2>1 DEF RowOK
<1> QED BY <1>3, <1>4, <1>5

\* save of a new request keeps it.
LEMMA StepCreate ==
  ASSUME IInv, NEW c \in Calls, NEW g \in GrantIds, Create(c, g)
  PROVE  IInv'
<1>0. PICK k \in Call : k = call[c]
  BY DEF IInv, TypeOK
<1>1. CallOK(k) /\ k.at = "create" /\ grant[g].status = "absent" /\ Unwritten
  BY <1>0 DEF Create, IInv, CallsOK
<1>2. PICK rows : /\ SweepOf(rows)
                  /\ IF Accepted(rows, k)
                     THEN /\ SetRow(rows, g, NewRow(k))
                          /\ IF k.op = "none" THEN Done(c)
                             ELSE Goto(c, [k EXCEPT !.at = "autoApprove", !.g = g])
                     ELSE grant' = rows /\ Done(c)
  BY <1>0, Sweeps DEF Create
<1>3. CASE Accepted(rows, k)
  <2>1. /\ NewRow(k) \in Row /\ NewRow(k).status = "pending"
        /\ RowOK(NewRow(k), hist[g], tokens, g) /\ ~Guarded(g)
    BY <1>1, CreatedRow
  <2>2. CASE k.op = "none"
    BY <1>1, <1>2, <1>3, <2>1, <2>2, IdleCall, WriteStatus
  <2>3. CASE k.op # "none"
    <3> DEFINE m == [k EXCEPT !.at = "autoApprove", !.g = g]
    <3>1. m \in Call
      BY <1>1, StepNames DEF Call
    <3>2. CallOK(m)'
      <4>1. grant'[g].status = "pending"
        BY <1>2, <1>3, <2>1, Sweeping DEF SetRow, IInv
      <4>2. ~k.command
        BY <1>1 DEF CallOK, Presenting
      <4>3. m.at = "autoApprove" /\ m.g = g /\ ~m.command
        BY <1>1, <4>2 DEF Call
      <4> HIDE DEF m
      <4> QED BY <4>1, <4>3 DEF CallOK
    <3> QED BY <1>1, <1>2, <1>3, <2>1, <2>3, <3>1, <3>2, WriteStatus
  <2> QED BY <2>2, <2>3
<1>4. CASE ~Accepted(rows, k)
  BY <1>1, <1>2, <1>4, IdleCall, QuietStep
<1> QED BY <1>3, <1>4

\* createReferenced's transaction keeps it.
LEMMA StepCreateReferenced ==
  ASSUME IInv, NEW c \in Calls, NEW g \in GrantIds, CreateReferenced(c, g)
  PROVE  IInv'
<1> DEFINE k == call[c]
<1>1. k \in Call /\ CallOK(k) /\ k.at = "createReferenced" /\ grant[g].status = "absent" /\ Unwritten
  BY DEF CreateReferenced, IInv, TypeOK, CallsOK
<1>2. ~k.command
  BY <1>1 DEF CallOK, Presenting
<1>3. PICK rows : /\ SweepOf(rows)
                  /\ \/ SetRow(rows, g, NewRow(k)) /\ Done(c)
                     \/ /\ grant' = rows
                        /\ \E old \in Referenced(rows, k) : AnswerReferenced(c, k, rows, old)
                     \/ grant' = rows /\ Done(c)
  BY Sweeps DEF CreateReferenced
<1>4. CASE SetRow(rows, g, NewRow(k)) /\ Done(c)
  <2>1. /\ NewRow(k) \in Row /\ NewRow(k).status = "pending"
        /\ RowOK(NewRow(k), hist[g], tokens, g) /\ ~Guarded(g)
    BY <1>1, CreatedRow
  <2> QED BY <1>1, <1>3, <1>4, <2>1, IdleCall, WriteStatus
<1>5. CASE grant' = rows /\ \E old \in Referenced(rows, k) : AnswerReferenced(c, k, rows, old)
  <2>1. PICK old \in GrantIds : AnswerReferenced(c, k, rows, old)
    BY <1>5 DEF Referenced
  <2> QED BY <1>1, <1>2, <1>3, <1>5, <2>1, StepAnswer
<1>6. CASE grant' = rows /\ Done(c)
  BY <1>1, <1>3, <1>6, IdleCall, QuietStep
<1> QED BY <1>3, <1>4, <1>5, <1>6

\* A request given up keeps it.
LEMMA StepCreateNone ==
  ASSUME IInv, NEW c \in Calls, CreateNone(c)
  PROVE  IInv'
BY Sweeps, IdleCall, QuietStep DEF CreateNone

\* An approval written over a swept table.
LEMMA ApproveStep ==
  ASSUME IInv, NEW rows, SweepOf(rows), NEW g \in GrantIds, grant[g].status # "absent",
         ~Refused(rows[g], "approved"),
         NEW r \in Row, SetRow(rows, g, r), r.status = "approved",
         r.brokered = grant[g].brokered, r.ref = grant[g].ref, r.consumed = grant[g].consumed,
         hist' = [hist EXCEPT ![g].approved = @ + 1], UNCHANGED <<now, connected, tokens>>,
         NEW c \in Calls, NEW k \in Call, CallOK(k), Goto(c, k) \/ Done(c)
  PROVE  IInv'
<1> DEFINE h == [hist[g] EXCEPT !.approved = @ + 1]
<1>1. /\ rows[g] \in Row /\ RowOK(rows[g], hist[g], tokens, g) /\ rows[g].status # "absent"
      /\ rows[g].brokered = grant[g].brokered /\ rows[g].ref = grant[g].ref
      /\ rows[g].consumed = grant[g].consumed
      /\ rows[g].status = "pending" => rows[g] = grant[g]
  BY Sweeping DEF IInv
<1>2. hist[g] \in History /\ tokens \in SUBSET Token
  BY DEF IInv, TypeOK, History
<1>3. h \in History /\ RowOK(r, h, tokens, g)
  BY <1>1, <1>2, ApproveRow
<1>4. h.approved >= hist[g].approved /\ hist' = [hist EXCEPT ![g] = h]
  BY <1>2 DEF History
<1>5. ~(Guarded(g) /\ hist[g].approved >= 1)
  <2>1. SUFFICES ASSUME Guarded(g), hist[g].approved >= 1 PROVE FALSE
    OBVIOUS
  <2>2. rows[g].status = "pending"
    BY <1>1, <2>1 DEF Refused, Guarded, GuardedRow
  <2>3. hist[g].approved = 0
    BY <1>1, <2>1, <2>2 DEF RowOK, Guarded
  <2> QED BY <2>1, <2>3
<1>6. /\ grant' \in [GrantIds -> Row] /\ hist' \in [GrantIds -> History]
      /\ RowsOK' /\ Monotone
  <2> HIDE DEF h
  <2> QED BY <1>3, <1>4, <1>5, WriteRow DEF SetRow
<1>7. now' \in 0..MaxNow /\ connected' \in BOOLEAN /\ tokens' \subseteq Token
  BY DEF IInv, TypeOK
<1>8. CallOK(k)'
  BY <1>6, <1>7, CallStable DEF IInv
<1> QED BY <1>6, <1>7, <1>8, CallStep

\* The approval a policy writes after save keeps it.
LEMMA StepAutoApprove ==
  ASSUME IInv, NEW c \in Calls, AutoApprove(c)
  PROVE  IInv'
<1> DEFINE k == call[c]
<1>1. /\ k \in Call /\ CallOK(k) /\ k.at = "autoApprove"
      /\ k.g \in GrantIds /\ grant[k.g].status # "absent" /\ ~k.command
  BY DEF AutoApprove, IInv, TypeOK, CallsOK, CallOK, Targeted, Steps, Presenting
<1>2. PICK rows : /\ SweepOf(rows)
                  /\ IF Refused(rows[k.g], "approved")
                     THEN grant' = rows /\ Done(c) /\ UNCHANGED hist
                     ELSE /\ SetRow(rows, k.g, [rows[k.g] EXCEPT !.status = "approved", !.decided = k.since])
                          /\ hist' = [hist EXCEPT ![k.g].approved = @ + 1]
                          /\ IF k.op = "submit" THEN Done(c) ELSE Goto(c, [k EXCEPT !.at = "autoRead"])
  BY Sweeps DEF AutoApprove
<1>3. UNCHANGED <<now, connected, tokens>>
  BY DEF AutoApprove
<1>4. CASE Refused(rows[k.g], "approved")
  BY <1>2, <1>3, <1>4, IdleCall, QuietStep DEF Unwritten
<1>5. CASE ~Refused(rows[k.g], "approved")
  <2> DEFINE r == [rows[k.g] EXCEPT !.status = "approved", !.decided = k.since]
             m == [k EXCEPT !.at = "autoRead"]
  <2>1. /\ rows[k.g] \in Row /\ rows[k.g].brokered = grant[k.g].brokered
        /\ rows[k.g].ref = grant[k.g].ref /\ rows[k.g].consumed = grant[k.g].consumed
    BY <1>1, <1>2, Sweeping DEF IInv
  <2>2. k.since \in Time
    BY <1>1, TimeAssumption DEF Call, Time
  <2>3. r \in Row
    BY <2>1, <2>2 DEF Row, Status
  <2>4. /\ r.status = "approved" /\ r.brokered = grant[k.g].brokered
        /\ r.ref = grant[k.g].ref /\ r.consumed = grant[k.g].consumed
    BY <2>1 DEF Row
  <2>5. m \in Call
    BY <1>1, StepNames DEF Call
  <2>6. m.at = "autoRead" /\ m.g = k.g /\ ~m.command
    BY <1>1 DEF Call
  <2>7. CallOK(m)
    <3> HIDE DEF m
    <3> QED BY <1>1, <2>6 DEF CallOK
  <2>8. SetRow(rows, k.g, r) /\ hist' = [hist EXCEPT ![k.g].approved = @ + 1] /\ (Done(c) \/ Goto(c, m))
    BY <1>2, <1>5
  <2> HIDE DEF r, m
  <2> QED BY <1>1, <1>2, <1>3, <1>5, <2>3, <2>4, <2>5, <2>7, <2>8, ApproveStep
<1> QED BY <1>4, <1>5

\* Reading the table and parking at a step that relies on nothing read.
LEMMA ReadStep ==
  ASSUME IInv, NEW c \in Calls, Reading, Unwritten,
         NEW k \in Call, CallOK(k), Goto(c, k) \/ Done(c)
  PROVE  IInv'
BY Sweeps, QuietStep DEF Reading

\* What a non-idle call may rely on, as a fact about its record.
LEMMA TheCall ==
  ASSUME IInv, NEW c \in Calls
  PROVE  call[c] \in Call /\ CallOK(call[c])
BY DEF IInv, TypeOK, CallsOK

\* Reading the policy-approved row back keeps it.
LEMMA StepAutoRead ==
  ASSUME IInv, NEW c \in Calls, AutoRead(c)
  PROVE  IInv'
<1> DEFINE k == call[c]
           r == Current[k.g]
           m == [k EXCEPT !.at = "command", !.type = r.type, !.until = r.expires]
<1>1. k \in Call /\ CallOK(k) /\ k.at = "autoRead" /\ Reading /\ Unwritten
  BY TheCall DEF AutoRead
<1>2. k.g \in GrantIds /\ grant[k.g].status # "absent" /\ ~k.command
  BY <1>1 DEF CallOK, Targeted, Steps, Presenting
<1>3. CASE r.status = "approved"
  <2>1. /\ r = grant[k.g] /\ r.type \in Types /\ r.expires \in Time
        /\ Guarded(k.g) => hist[k.g].approved >= 1
    BY <1>2, <1>3, Sweeps, FoundApproved
  <2>2. m \in Call
    BY <1>1, <2>1, StepNames DEF Call
  <2>3. m.at = "command" /\ m.g = k.g /\ m.type = grant[k.g].type /\ m.until = grant[k.g].expires /\ ~m.command
    BY <1>1, <1>2, <2>1 DEF Call
  <2>4. CallOK(m)
    <3> HIDE DEF m
    <3> QED BY <1>2, <2>1, <2>3 DEF CallOK
  <2>5. Goto(c, m)
    BY <1>3 DEF AutoRead
  <2> QED BY <1>1, <2>2, <2>4, <2>5, ReadStep
<1>4. CASE r.status # "approved"
  <2>1. Done(c)
    BY <1>4 DEF AutoRead
  <2> QED BY <1>1, <2>1, IdleCall, ReadStep
<1> QED BY <1>3, <1>4

\* approveGrant's read keeps it.
LEMMA StepReadToApprove ==
  ASSUME IInv, NEW c \in Calls, NEW g \in GrantIds, grant[g].status # "absent",
         NEW t \in Types, ReadToApprove(c, g, t)
  PROVE  IInv'
<1> DEFINE m == [Idle EXCEPT !.at = "approve", !.g = g, !.type = t]
<1>1. m \in Call
  BY IdleCall, StepNames DEF Idle, Call
<1>2. m.at = "approve" /\ m.g = g /\ ~m.command
  BY DEF Idle
<1>3. CallOK(m)
  <2> HIDE DEF m
  <2> QED BY <1>2 DEF CallOK
<1>4. Reading /\ Unwritten /\ (Goto(c, m) \/ Done(c))
  BY DEF ReadToApprove
<1> QED BY <1>1, <1>3, <1>4, ReadStep

\* approveGrant's updateStatus keeps it, also when the row moved meanwhile.
LEMMA StepApproveWrite ==
  ASSUME IInv, NEW c \in Calls, ApproveWrite(c)
  PROVE  IInv'
<1> DEFINE k == call[c]
<1>1. /\ k \in Call /\ CallOK(k) /\ k.at = "approve"
      /\ k.g \in GrantIds /\ grant[k.g].status # "absent" /\ ~k.command
  BY TheCall DEF ApproveWrite, CallOK, Targeted, Steps, Presenting
<1>2. PICK rows : /\ SweepOf(rows)
                  /\ IF Refused(rows[k.g], "approved")
                     THEN grant' = rows /\ Done(c) /\ UNCHANGED hist
                     ELSE /\ SetRow(rows, k.g, ApprovedRow(rows[k.g], k))
                          /\ hist' = [hist EXCEPT ![k.g].approved = @ + 1]
                          /\ Goto(c, [k EXCEPT !.at = "reread"])
  BY Sweeps DEF ApproveWrite
<1>3. UNCHANGED <<now, connected, tokens>>
  BY DEF ApproveWrite
<1>4. CASE Refused(rows[k.g], "approved")
  BY <1>2, <1>3, <1>4, IdleCall, QuietStep DEF Unwritten
<1>5. CASE ~Refused(rows[k.g], "approved")
  <2> DEFINE r == ApprovedRow(rows[k.g], k)
             m == [k EXCEPT !.at = "reread"]
  <2>1. /\ rows[k.g] \in Row /\ rows[k.g].brokered = grant[k.g].brokered
        /\ rows[k.g].ref = grant[k.g].ref /\ rows[k.g].consumed = grant[k.g].consumed
    BY <1>1, <1>2, Sweeping DEF IInv
  <2>2. k.since \in Time /\ k.since + Duration \in Time /\ k.type \in Types
    BY <1>1, TimeAssumption DEF Call, Time
  <2>3. r \in Row
    BY <2>1, <2>2 DEF ApprovedRow, Row, Status
  <2>4. /\ r.status = "approved" /\ r.brokered = grant[k.g].brokered
        /\ r.ref = grant[k.g].ref /\ r.consumed = grant[k.g].consumed
    BY <2>1 DEF ApprovedRow, Row
  <2>5. m \in Call
    BY <1>1, StepNames DEF Call
  <2>6. m.at = "reread" /\ m.g = k.g /\ ~m.command
    BY <1>1 DEF Call
  <2>7. CallOK(m)
    <3> HIDE DEF m
    <3> QED BY <1>1, <2>6 DEF CallOK
  <2>8. SetRow(rows, k.g, r) /\ hist' = [hist EXCEPT ![k.g].approved = @ + 1] /\ Goto(c, m)
    BY <1>2, <1>5
  <2> HIDE DEF r, m
  <2> QED BY <1>1, <1>2, <1>3, <1>5, <2>3, <2>4, <2>5, <2>7, <2>8, ApproveStep
<1> QED BY <1>4, <1>5

\* Reading the approved row back for its token keeps it.
LEMMA StepReread ==
  ASSUME IInv, NEW c \in Calls, Reread(c)
  PROVE  IInv'
<1> DEFINE k == call[c]
           r == Current[k.g]
           m == [k EXCEPT !.at = "issue", !.type = r.type, !.until = r.expires]
<1>1. k \in Call /\ CallOK(k) /\ k.at = "reread" /\ Reading /\ Unwritten
  BY TheCall DEF Reread
<1>2. k.g \in GrantIds /\ grant[k.g].status # "absent" /\ ~k.command
  BY <1>1 DEF CallOK, Targeted, Steps, Presenting
<1>3. CASE r.status = "approved"
  <2>1. /\ r = grant[k.g] /\ r.type \in Types /\ r.expires \in Time
        /\ Guarded(k.g) => hist[k.g].approved >= 1
    BY <1>2, <1>3, Sweeps, FoundApproved
  <2>2. m \in Call
    BY <1>1, <2>1, StepNames DEF Call
  <2>3. m.at = "issue" /\ m.g = k.g /\ m.type = grant[k.g].type /\ m.until = grant[k.g].expires /\ ~m.command
    BY <1>1, <1>2, <2>1 DEF Call
  <2>4. CallOK(m)
    <3> HIDE DEF m
    <3> QED BY <1>2, <2>1, <2>3 DEF CallOK
  <2>5. Goto(c, m)
    BY <1>3 DEF Reread
  <2> QED BY <1>1, <2>2, <2>4, <2>5, ReadStep
<1>4. CASE r.status # "approved"
  <2>1. Done(c)
    BY <1>4 DEF Reread
  <2> QED BY <1>1, <2>1, IdleCall, ReadStep
<1> QED BY <1>3, <1>4

\* The reads of denyGrant and revokeGrant keep it.
LEMMA StepReadToDecide ==
  ASSUME IInv, NEW c \in Calls, NEW g \in GrantIds, Deny(c, g) \/ Revoke(c, g)
  PROVE  IInv'
<1>1. PICK at \in {"deny", "revoke"} :
        Goto(c, [Idle EXCEPT !.at = at, !.g = g]) /\ Reading /\ Unwritten /\ grant[g].status # "absent"
  BY DEF Deny, Revoke, ReadToDecide
<1> DEFINE m == [Idle EXCEPT !.at = at, !.g = g]
<1>2. m \in Call
  BY IdleCall, StepNames DEF Idle, Call
<1>3. m.at \in {"deny", "revoke"} /\ m.g = g /\ ~m.command
  BY DEF Idle
<1>4. CallOK(m)
  <2> HIDE DEF m
  <2> QED BY <1>1, <1>3 DEF CallOK
<1> QED BY <1>1, <1>2, <1>4, ReadStep

\* updateStatus with a status that closes the grant, then any parked call.
LEMMA CloseStep ==
  ASSUME IInv, NEW c \in Calls, NEW g \in GrantIds, grant[g].status # "absent",
         NEW status \in {"denied", "revoked", "expired"},
         NEW k \in Call, CallOK(k), UpdateStatus(c, g, status, k)
  PROVE  IInv'
<1>1. Unwritten
  BY DEF UpdateStatus
<1>2. PICK rows : /\ SweepOf(rows)
                  /\ \/ grant' = rows /\ Done(c)
                     \/ /\ ~Refused(rows[g], status)
                        /\ SetStatus(rows, g, status) /\ Goto(c, k)
  BY Sweeps DEF UpdateStatus
<1>3. CASE grant' = rows /\ Done(c)
  BY <1>1, <1>2, <1>3, IdleCall, QuietStep
<1>4. CASE ~Refused(rows[g], status) /\ SetStatus(rows, g, status) /\ Goto(c, k)
  <2> DEFINE r == [rows[g] EXCEPT !.status = status]
  <2>1. /\ rows[g] \in Row /\ RowOK(rows[g], hist[g], tokens, g) /\ rows[g].status # "absent"
        /\ rows[g].type = grant[g].type /\ rows[g].expires = grant[g].expires
        /\ rows[g].brokered = grant[g].brokered /\ rows[g].ref = grant[g].ref
    BY <1>2, Sweeping DEF IInv
  <2>2. hist[g] \in History /\ tokens \in SUBSET Token
    BY DEF IInv, TypeOK, History
  <2>3. r \in Row /\ RowOK(r, hist[g], tokens, g)
    BY <1>4, <2>1, <2>2, CloseRow
  <2>4. /\ r.status # "absent" /\ r.type = grant[g].type /\ r.expires = grant[g].expires
        /\ r.brokered = grant[g].brokered /\ r.ref = grant[g].ref
    BY <2>1 DEF Row
  <2>5. SetRow(rows, g, r)
    BY <1>4 DEF SetStatus
  <2> HIDE DEF r
  <2> QED BY <1>1, <1>2, <1>4, <2>3, <2>4, <2>5, WriteStatus
<1> QED BY <1>2, <1>3, <1>4

\* The writes of denyGrant and revokeGrant keep it.
LEMMA StepDecisionWrites ==
  ASSUME IInv, NEW c \in Calls, DenyWrite(c) \/ RevokeWrite(c)
  PROVE  IInv'
<1>1. call[c].g \in GrantIds /\ grant[call[c].g].status # "absent"
  BY TheCall DEF DenyWrite, RevokeWrite, CallOK, Targeted, Steps
<1>2. PICK status \in {"denied", "revoked", "expired"} : UpdateStatus(c, call[c].g, status, Idle)
  BY DEF DenyWrite, RevokeWrite
<1> QED BY <1>1, <1>2, IdleCall, CloseStep

\* introspectGrant's write of `expired' keeps it.
LEMMA StepExpireWrite ==
  ASSUME IInv, NEW c \in Calls, ExpireWrite(c)
  PROVE  IInv'
<1> DEFINE k == call[c]
           m == [k EXCEPT !.at = "introspected"]
<1>1. k \in Call /\ CallOK(k) /\ k.at = "expire"
  BY TheCall DEF ExpireWrite
<1>2. k.g \in GrantIds /\ grant[k.g].status # "absent"
  BY <1>1 DEF CallOK, Targeted, Steps
<1>3. m \in Call
  BY <1>1, StepNames DEF Call
<1>4. m.at = "introspected" /\ m.g = k.g /\ m.command = k.command /\ m.op = k.op
  BY <1>1 DEF Call
<1>5. CallOK(m)
  <2> HIDE DEF m
  <2> QED BY <1>1, <1>2, <1>4 DEF CallOK, Presenting
<1>6. UpdateStatus(c, k.g, "expired", m)
  BY DEF ExpireWrite
<1> HIDE DEF m
<1> QED BY <1>2, <1>3, <1>5, <1>6, CloseStep

\* The first read of an approval that widens or extends keeps it.
LEMMA StepExtend ==
  ASSUME IInv, NEW c \in Calls, NEW g \in GrantIds, NEW olds \in SUBSET GrantIds,
         NEW t \in Types, Extend(c, g, olds, t)
  PROVE  IInv'
<1> DEFINE m == [Idle EXCEPT !.at = "widen", !.g = g, !.olds = olds, !.type = t]
<1>1. Reading /\ Unwritten /\ Goto(c, m)
  BY DEF Extend
<1>2. /\ Current[g] = grant[g]
      /\ grant[g].status # "absent" /\ ~Guarded(g) /\ AllowExtension
  BY Sweeps, Sweeping DEF Extend, IInv, Guarded
<1>3. m \in Call
  BY IdleCall, StepNames DEF Idle, Call
<1>4. m.at = "widen" /\ m.g = g /\ ~m.command
  BY DEF Idle
<1>5. CallOK(m)
  <2> HIDE DEF m
  <2> QED BY <1>2, <1>4 DEF CallOK
<1> QED BY <1>1, <1>3, <1>5, ReadStep

\* Rewriting the widened request keeps it.
LEMMA StepWidenWrite ==
  ASSUME IInv, NEW c \in Calls, WidenWrite(c)
  PROVE  IInv'
<1> DEFINE k == call[c]
           m == [k EXCEPT !.at = "extend"]
<1>1. k \in Call /\ CallOK(k) /\ k.at = "widen" /\ Unwritten
  BY TheCall DEF WidenWrite, UpdateStatus
<1>2. k.g \in GrantIds /\ grant[k.g].status # "absent" /\ ~Guarded(k.g) /\ ~k.command /\ AllowExtension
  BY <1>1 DEF CallOK, Targeted, Steps, Presenting
<1>3. PICK rows : /\ SweepOf(rows)
                  /\ \/ grant' = rows /\ Done(c)
                     \/ /\ ~Refused(rows[k.g], "pending")
                        /\ SetStatus(rows, k.g, "pending") /\ Goto(c, m)
  BY Sweeps DEF WidenWrite, UpdateStatus
<1>4. CASE grant' = rows /\ Done(c)
  BY <1>1, <1>3, <1>4, IdleCall, QuietStep
<1>5. CASE ~Refused(rows[k.g], "pending") /\ SetStatus(rows, k.g, "pending") /\ Goto(c, m)
  <2> DEFINE r == [rows[k.g] EXCEPT !.status = "pending"]
  <2>1. /\ rows[k.g] \in Row /\ RowOK(rows[k.g], hist[k.g], tokens, k.g)
        /\ rows[k.g].status # "absent" /\ ~GuardedRow(rows[k.g])
        /\ rows[k.g].brokered = grant[k.g].brokered /\ rows[k.g].ref = grant[k.g].ref
    BY <1>2, <1>3, Sweeping DEF IInv, Guarded, GuardedRow
  <2>2. hist[k.g] \in History /\ tokens \in SUBSET Token
    BY <1>2 DEF IInv, TypeOK, History
  <2>3. r \in Row /\ RowOK(r, hist[k.g], tokens, k.g)
    BY <1>2, <1>5, <2>1, <2>2, ReopenPlainRow
  <2>4. /\ r.status # "absent"
        /\ r.brokered = grant[k.g].brokered /\ r.ref = grant[k.g].ref
    BY <2>1 DEF Row
  <2>5. m \in Call
    BY <1>1, StepNames DEF Call
  <2>6. m.at = "extend" /\ m.g = k.g /\ ~m.command
    BY <1>1, <1>2 DEF Call
  <2>7. CallOK(m)
    <3> HIDE DEF m
    <3> QED BY <1>2, <2>6 DEF CallOK
  <2>8. SetRow(rows, k.g, r)
    BY <1>5 DEF SetStatus
  <2> HIDE DEF r, m
  <2> QED BY <1>1, <1>2, <1>3, <1>5, <2>3, <2>4, <2>5, <2>7, <2>8, WriteStatus
<1> QED BY <1>3, <1>4, <1>5

\* Reading the next old grant to revoke keeps it.
LEMMA StepExtendRead ==
  ASSUME IInv, NEW c \in Calls, NEW o \in GrantIds, ExtendRead(c, o)
  PROVE  IInv'
<1> DEFINE k == call[c]
           m == [k EXCEPT !.at = "revokeOld", !.old = o]
<1>1. k \in Call /\ CallOK(k) /\ k.at = "extend" /\ Reading /\ Unwritten
  BY TheCall DEF ExtendRead
<1>2. k.g \in GrantIds /\ grant[k.g].status # "absent" /\ ~Guarded(k.g) /\ ~k.command /\ AllowExtension
  BY <1>1 DEF CallOK, Targeted, Steps, Presenting
<1>3. CASE Current[o].status \in {"pending", "approved"}
  <2>1. grant[o].status # "absent"
    BY <1>3, Sweeps, Sweeping DEF IInv
  <2>2. m \in Call
    BY <1>1, StepNames DEF Call
  <2>3. m.at = "revokeOld" /\ m.g = k.g /\ m.old = o /\ ~m.command
    BY <1>1, <1>2 DEF Call
  <2>4. CallOK(m)
    <3> HIDE DEF m
    <3> QED BY <1>2, <2>1, <2>3 DEF CallOK
  <2>5. Goto(c, m)
    BY <1>3 DEF ExtendRead
  <2> QED BY <1>1, <2>2, <2>4, <2>5, ReadStep
<1>4. CASE Current[o].status \notin {"pending", "approved"}
  <2>1. Done(c)
    BY <1>4 DEF ExtendRead
  <2> QED BY <1>1, <2>1, IdleCall, ReadStep
<1> QED BY <1>3, <1>4

\* Revoking an old grant keeps it.
LEMMA StepExtendRevoke ==
  ASSUME IInv, NEW c \in Calls, ExtendRevoke(c)
  PROVE  IInv'
<1> DEFINE k == call[c]
           m == [k EXCEPT !.at = "extend", !.old = NoGrant, !.olds = @ \ {k.old}]
<1>1. k \in Call /\ CallOK(k) /\ k.at = "revokeOld"
  BY TheCall DEF ExtendRevoke
<1>2. /\ k.g \in GrantIds /\ grant[k.g].status # "absent" /\ ~Guarded(k.g) /\ ~k.command /\ AllowExtension
      /\ k.old \in GrantIds /\ grant[k.old].status # "absent"
  BY <1>1 DEF CallOK, Targeted, Steps, Presenting
<1>3. m \in Call
  BY <1>1, StepNames DEF Call
<1>4. m.at = "extend" /\ m.g = k.g /\ ~m.command
  BY <1>1, <1>2 DEF Call
<1>5. CallOK(m)
  <2> HIDE DEF m
  <2> QED BY <1>2, <1>4 DEF CallOK
<1>6. UpdateStatus(c, k.old, "revoked", m)
  BY DEF ExtendRevoke
<1> HIDE DEF m
<1> QED BY <1>2, <1>3, <1>5, <1>6, CloseStep

\* The approval that ends an extension keeps it.
LEMMA StepExtendApprove ==
  ASSUME IInv, NEW c \in Calls, ExtendApprove(c)
  PROVE  IInv'
<1>1. /\ call[c].g \in GrantIds /\ grant[call[c].g].status # "absent" /\ call[c].type \in Types
  BY TheCall DEF ExtendApprove, CallOK, Targeted, Steps, Call
<1> QED BY <1>1, StepReadToApprove DEF ExtendApprove

\* A call parked at a step of /consume or /token that relies only on the
\* existence of its grant, and of its command token if it presents one.
LEMMA Parked ==
  ASSUME NEW m \in Call, m.g \in GrantIds, grant[m.g].status # "absent",
         m.command => m.op \in {"consume", "use"} /\ \E t \in tokens : t.command /\ t.g = m.g,
         m.at \in {"expire", "introspected", "use", "claim", "brokerConsume"},
         m.op = "use" \/ m.at \in {"use", "claim"} => ~grant[m.g].brokered
  PROVE  CallOK(m)
BY DEF CallOK, Targeted, Steps, Presenting

\* What a call relies on after introspectGrant returned its row.
LEMMA Introspecting ==
  ASSUME IInv, NEW c \in Calls, NEW k \in Call, k.g \in GrantIds, grant[k.g].status # "absent",
         k.command => k.op \in {"consume", "use"} /\ \E t \in tokens : t.command /\ t.g = k.g,
         k.op = "use" => ~grant[k.g].brokered,
         NEW r, r = Current[k.g]
  PROVE  AfterIntrospect(k, r) \in Call /\ CallOK(AfterIntrospect(k, r))
<1>1. /\ r \in Row /\ RowOK(r, hist[k.g], tokens, k.g)
      /\ r.type = grant[k.g].type /\ r.consumed = grant[k.g].consumed
      /\ r.expires = grant[k.g].expires
      /\ r.brokered = grant[k.g].brokered /\ r.ref = grant[k.g].ref
  BY Sweeps, Sweeping DEF IInv
<1>2. hist[k.g] \in History
  BY DEF IInv, TypeOK, History
<1> DEFINE issue == [k EXCEPT !.at = "issue", !.type = r.type, !.until = r.expires]
           mark  == [k EXCEPT !.at = "mark"]
<1>3. CASE k.op = "token" /\ r.status = "approved"
  <2>1. AfterIntrospect(k, r) = issue
    BY <1>3 DEF AfterIntrospect
  <2>2. issue \in Call
    <3>1. r.type \in Types /\ r.expires \in Time
      BY <1>1 DEF Row
    <3>2. \A x \in Types, u \in Time : [k EXCEPT !.at = "issue", !.type = x, !.until = u] \in Call
      BY StepNames DEF Call
    <3> QED BY <3>1, <3>2
  <2>3. /\ issue.at = "issue" /\ issue.g = k.g /\ ~issue.command
        /\ issue.type = grant[k.g].type /\ issue.until = grant[k.g].expires
    BY <1>1, <1>3 DEF Call
  <2>4. Guarded(k.g) => hist[k.g].approved >= 1
    BY <1>1, <1>3 DEF RowOK, Guarded, GuardedRow
  <2>5. CallOK(issue)
    <3> HIDE DEF issue
    <3> QED BY <2>3, <2>4 DEF CallOK
  <2> QED BY <2>1, <2>2, <2>5
<1>4. CASE /\ AfterIntrospect(k, r) = mark
            /\ r.status = "used" /\ k.command /\ r.type = "once" /\ ~r.brokered
  <2>1. mark \in Call
    BY StepNames DEF Call
  <2>2. mark.at = "mark" /\ mark.g = k.g /\ mark.command /\ mark.op = k.op
    BY <1>4 DEF Call
  <2>3. Guarded(k.g) => hist[k.g].approved >= 1
    BY <1>1, <1>2, <1>4 DEF RowOK, Guarded, GuardedRow, History
  <2>4. CallOK(mark)
    <3> HIDE DEF mark
    <3> QED BY <1>1, <1>4, <2>2, <2>3 DEF CallOK, Presenting
  <2> QED BY <1>4, <2>1, <2>4
<1>5. CASE \E at \in {"brokerConsume", "use", "claim"} :
             /\ AfterIntrospect(k, r) = [k EXCEPT !.at = at]
             /\ k.op = "use" \/ at = "use" => ~r.brokered
             /\ at = "claim" => k.op = "use"
  <2>1. PICK at \in {"brokerConsume", "use", "claim"} :
               /\ AfterIntrospect(k, r) = [k EXCEPT !.at = at]
               /\ k.op = "use" \/ at = "use" => ~r.brokered
               /\ at = "claim" => k.op = "use"
    BY <1>5
  <2>2. PICK m \in Call : m = [k EXCEPT !.at = at]
    BY StepNames DEF Call
  <2>3. m.at = at /\ m.g = k.g /\ m.command = k.command /\ m.op = k.op
    BY <2>2 DEF Call
  <2>4. CallOK(m)
    BY <1>1, <2>1, <2>3, Parked
  <2> QED BY <2>1, <2>2, <2>4
<1>6. CASE AfterIntrospect(k, r) = Idle
  BY <1>6, IdleCall
<1>7. \/ k.op = "token" /\ r.status = "approved"
      \/ AfterIntrospect(k, r) = mark /\ r.status = "used" /\ k.command /\ r.type = "once" /\ ~r.brokered
      \/ \E at \in {"brokerConsume", "use", "claim"} :
           /\ AfterIntrospect(k, r) = [k EXCEPT !.at = at]
           /\ k.op = "use" \/ at = "use" => ~r.brokered
           /\ at = "claim" => k.op = "use"
      \/ AfterIntrospect(k, r) = Idle
  <2> HIDE DEF mark, issue
  <2> QED BY <1>1 DEF AfterIntrospect, mark
<1> QED BY <1>3, <1>4, <1>5, <1>6, <1>7

\* introspectGrant's read keeps it.
LEMMA StepIntrospect ==
  ASSUME IInv, NEW c \in Calls, NEW k \in Call, k.g \in GrantIds, grant[k.g].status # "absent",
         k.command => k.op \in {"consume", "use"} /\ \E t \in tokens : t.command /\ t.g = k.g,
         k.op = "use" => ~grant[k.g].brokered,
         introspectGrant(c, k)
  PROVE  IInv'
<1> DEFINE m == [k EXCEPT !.at = "expire"]
           n == AfterIntrospect(k, Current[k.g])
<1>1. m \in Call /\ CallOK(m)
  <2>1. m \in Call
    BY StepNames DEF Call
  <2>2. m.at = "expire" /\ m.g = k.g /\ m.command = k.command /\ m.op = k.op
    BY DEF Call
  <2> HIDE DEF m
  <2> QED BY <2>1, <2>2, Parked
<1>2. n \in Call /\ CallOK(n)
  BY Introspecting
<1>3. Reading /\ Unwritten /\ (Goto(c, m) \/ Goto(c, n))
  BY DEF introspectGrant
<1> HIDE DEF m, n
<1> QED BY <1>1, <1>2, <1>3, ReadStep

\* POST /api/grants/:id/token keeps it.
LEMMA StepRequestToken ==
  ASSUME IInv, NEW c \in Calls, NEW g \in GrantIds, RequestToken(c, g)
  PROVE  IInv'
<1> DEFINE k == [Idle EXCEPT !.g = g, !.op = "token"]
<1>1. k \in Call /\ k.g = g /\ ~k.command /\ k.op = "token"
  BY IdleCall DEF Idle, Call
<1>2. grant[g].status # "absent" /\ introspectGrant(c, k)
  BY DEF RequestToken
<1> HIDE DEF k
<1> QED BY <1>1, <1>2, StepIntrospect

\* POST /api/grants/:id/consume keeps it.
LEMMA StepConsume ==
  ASSUME IInv, NEW c \in Calls, NEW t \in tokens, Consume(c, t)
  PROVE  IInv'
<1> DEFINE k == [Idle EXCEPT !.g = t.g, !.op = "consume", !.command = t.command]
<1>1. t \in Token /\ t.g \in GrantIds /\ t.command \in BOOLEAN
  BY DEF IInv, TypeOK, Token
<1>2. grant[t.g].status # "absent"
  BY <1>1 DEF IInv, RowsOK, RowOK
<1>3. k \in Call /\ k.g = t.g /\ k.command = t.command /\ k.op = "consume"
  BY <1>1, IdleCall DEF Idle, Call
<1>4. introspectGrant(c, k)
  BY DEF Consume
<1> HIDE DEF k
<1> QED BY <1>1, <1>2, <1>3, <1>4, StepIntrospect

\* useGrant's second introspection keeps it.
LEMMA StepUseRead ==
  ASSUME IInv, NEW c \in Calls, UseRead(c)
  PROVE  IInv'
<1> DEFINE k == [call[c] EXCEPT !.op = "use"]
<1>1. call[c] \in Call /\ CallOK(call[c]) /\ call[c].at = "use"
  BY TheCall DEF UseRead
<1>2. /\ call[c].g \in GrantIds /\ grant[call[c].g].status # "absent"
      /\ ~grant[call[c].g].brokered
      /\ call[c].command => \E t \in tokens : t.command /\ t.g = call[c].g
  BY <1>1 DEF CallOK, Targeted, Steps
<1>3. k \in Call /\ k.g = call[c].g /\ k.command = call[c].command /\ k.op = "use"
  BY <1>1 DEF Call
<1>4. introspectGrant(c, k)
  BY DEF UseRead
<1> HIDE DEF k
<1> QED BY <1>2, <1>3, <1>4, StepIntrospect

\* Reading the row again after it expired keeps it.
LEMMA StepIntrospected ==
  ASSUME IInv, NEW c \in Calls, Introspected(c)
  PROVE  IInv'
<1> DEFINE k == call[c]
           n == AfterIntrospect(k, Current[k.g])
<1>1. k \in Call /\ CallOK(k) /\ k.at = "introspected" /\ Reading /\ Unwritten /\ Goto(c, n)
  BY TheCall DEF Introspected
<1>2. /\ k.g \in GrantIds /\ grant[k.g].status # "absent"
      /\ k.op = "use" => ~grant[k.g].brokered
      /\ k.command => k.op \in {"consume", "use"} /\ \E t \in tokens : t.command /\ t.g = k.g
  BY <1>1 DEF CallOK, Targeted, Steps
<1>3. n \in Call /\ CallOK(n)
  <2> HIDE DEF k
  <2> QED BY <1>1, <1>2, Introspecting
<1> HIDE DEF n
<1> QED BY <1>1, <1>3, ReadStep

\* One row and its history are written and the call ends.
LEMMA EndWrite ==
  ASSUME IInv, UNCHANGED <<now, connected, tokens>>,
         NEW g \in GrantIds, NEW r \in Row, NEW h \in History,
         SetRow(grant, g, r), hist' = [hist EXCEPT ![g] = h],
         RowOK(r, h, tokens, g), h.approved >= hist[g].approved, r.status # "absent",
         r.type = grant[g].type, r.expires = grant[g].expires,
         r.brokered = grant[g].brokered, r.ref = grant[g].ref,
         NEW c \in Calls, Done(c)
  PROVE  IInv'
<1>1. /\ grant' \in [GrantIds -> Row] /\ hist' \in [GrantIds -> History]
      /\ RowsOK' /\ Monotone
  BY WriteRow DEF SetRow, SweepOf
<1>2. now' \in 0..MaxNow /\ connected' \in BOOLEAN /\ tokens' \subseteq Token
  BY DEF IInv, TypeOK
<1>3. CallOK(Idle)'
  BY <1>1, <1>2, IdleCall, CallStable DEF IInv
<1> QED BY <1>1, <1>2, <1>3, IdleCall, CallStep

\* Nothing is written and the call ends.
LEMMA EndQuiet ==
  ASSUME IInv, Unwritten, UNCHANGED grant, NEW c \in Calls, Done(c)
  PROVE  IInv'
BY IdleCall, Sweeps, QuietStep

\* Spending an approved grant, and perhaps redeeming it, ends the call.
LEMMA EndSpend ==
  ASSUME IInv, UNCHANGED <<now, connected, tokens>>,
         NEW g \in GrantIds, grant[g].status = "approved", SetStatus(grant, g, "used"),
         hist' = [hist EXCEPT ![g].spent = @ + 1, ![g].redeemed = @ + 1],
         NEW c \in Calls, Done(c)
  PROVE  IInv'
<1> DEFINE r == [grant[g] EXCEPT !.status = "used"]
           h == [hist[g] EXCEPT !.spent = @ + 1, !.redeemed = @ + 1]
<1>1. /\ grant[g] \in Row /\ hist[g] \in History /\ tokens \in SUBSET Token
      /\ RowOK(grant[g], hist[g], tokens, g) /\ hist \in [GrantIds -> History]
  BY DEF IInv, TypeOK, RowsOK, History
<1>2. r \in Row /\ h \in History /\ RowOK(r, h, tokens, g)
  BY <1>1, SpendRow
<1>3. /\ r.status # "absent" /\ r.type = grant[g].type /\ r.expires = grant[g].expires
      /\ r.brokered = grant[g].brokered /\ r.ref = grant[g].ref
      /\ h.approved >= hist[g].approved
  BY <1>1 DEF Row, History
<1>4. hist' = [hist EXCEPT ![g] = h] /\ SetRow(grant, g, r)
  BY <1>1, Zenon DEF SetStatus, History
<1> HIDE DEF r, h
<1> QED BY <1>2, <1>3, <1>4, EndWrite

\* The first redemption by a command token ends the call.
LEMMA EndRedeem ==
  ASSUME IInv, UNCHANGED <<now, connected, tokens>>,
         NEW g \in GrantIds, grant[g].status # "absent", ~grant[g].consumed,
         Guarded(g) => grant[g].type = "once", \E t \in tokens : t.command /\ t.g = g,
         SetRow(grant, g, [grant[g] EXCEPT !.consumed = TRUE]),
         hist' = [hist EXCEPT ![g].redeemed = @ + 1],
         NEW c \in Calls, Done(c)
  PROVE  IInv'
<1> DEFINE r == [grant[g] EXCEPT !.consumed = TRUE]
           h == [hist[g] EXCEPT !.redeemed = @ + 1]
<1>1. /\ grant[g] \in Row /\ hist[g] \in History /\ tokens \in SUBSET Token
      /\ RowOK(grant[g], hist[g], tokens, g) /\ hist \in [GrantIds -> History]
  BY DEF IInv, TypeOK, RowsOK, History
<1>2. r \in Row /\ h \in History /\ RowOK(r, h, tokens, g)
  BY <1>1, RedeemRow DEF Guarded
<1>3. /\ r.status # "absent" /\ r.type = grant[g].type /\ r.expires = grant[g].expires
      /\ r.brokered = grant[g].brokered /\ r.ref = grant[g].ref
      /\ h.approved >= hist[g].approved
  BY <1>1 DEF Row, History
<1>4. hist' = [hist EXCEPT ![g] = h]
  BY <1>1 DEF History
<1> HIDE DEF h
<1> QED BY <1>2, <1>3, <1>4, EndWrite

\* A token is handed out for a grant that was approved; not a command token
\* of a guarded single-use grant.
LEMMA EndToken ==
  ASSUME IInv, UNCHANGED <<now, grant, connected, hist>>,
         NEW t \in Token, tokens' = tokens \cup {t}, grant[t.g].status # "absent",
         Guarded(t.g) => /\ hist[t.g].approved >= 1 /\ ~(t.command /\ grant[t.g].type = "once")
                         /\ grant[t.g].type = "timed" => t.exp <= grant[t.g].expires,
         NEW c \in Calls, Done(c)
  PROVE  IInv'
<1>1. /\ now' \in 0..MaxNow /\ connected' \in BOOLEAN /\ tokens' \subseteq Token
      /\ grant' \in [GrantIds -> Row] /\ hist' \in [GrantIds -> History]
  BY DEF IInv, TypeOK, History
<1>2. ASSUME NEW g \in GrantIds PROVE RowOK(grant[g], hist[g], tokens \cup {t}, g)
  <2>1. /\ grant[g] \in Row /\ hist[g] \in History /\ tokens \in SUBSET Token
        /\ RowOK(grant[g], hist[g], tokens, g)
    BY DEF IInv, TypeOK, RowsOK, History
  <2> QED BY <2>1, NewToken DEF Guarded
<1>3. RowsOK'
  BY <1>2 DEF RowsOK
<1>4. Monotone
  BY <1>1 DEF Monotone, History
<1>5. CallOK(Idle)'
  BY <1>1, <1>4, IdleCall, CallStable DEF IInv
<1> QED BY <1>1, <1>3, <1>4, <1>5, IdleCall, CallStep

\* issueAuthzJWT and recordToken keep it.
LEMMA StepIssueToken ==
  ASSUME IInv, NEW c \in Calls, IssueToken(c)
  PROVE  IInv'
<1> DEFINE k == call[c]
           exp == TokenEnd(k.type, k.until)
           t == [g |-> k.g, command |-> FALSE, exp |-> exp]
<1>1. k \in Call /\ CallOK(k) /\ k.at = "issue" /\ Done(c) /\ UNCHANGED <<now, grant, connected, hist>>
  BY TheCall DEF IssueToken
<1>2. /\ k.g \in GrantIds /\ grant[k.g].status # "absent"
      /\ Guarded(k.g) => /\ hist[k.g].approved >= 1
                         /\ grant[k.g].type = "timed" => exp = grant[k.g].expires
  BY <1>1 DEF CallOK, Targeted, Steps, TokenEnd
<1>3. exp \in Time
  <2>1. now \in 0..MaxNow /\ k.type \in Types /\ k.until \in Time
    BY <1>1 DEF IInv, TypeOK, Call
  <2>2. now + TokenLife \in Time
    BY <2>1, TimeAssumption DEF Time
  <2> QED BY <2>1, <2>2 DEF TokenEnd, Types
<1>4. CASE tokens' = tokens \cup {t}
  <2>1. t \in Token /\ t.g = k.g /\ ~t.command /\ t.exp = exp
    BY <1>2, <1>3 DEF Token
  <2>2. Guarded(t.g) /\ grant[t.g].type = "timed" => t.exp <= grant[t.g].expires
    BY <1>2, <1>3, <2>1, TimeAssumption DEF Time
  <2> HIDE DEF t, exp
  <2> QED BY <1>1, <1>2, <1>4, <2>1, <2>2, EndToken
<1>5. CASE tokens' = tokens
  BY <1>1, <1>5, EndQuiet DEF Unwritten
<1> QED BY <1>4, <1>5 DEF IssueToken

\* consume's claimOnce keeps it.
LEMMA StepClaimOnce ==
  ASSUME IInv, NEW c \in Calls, claimOnce(c)
  PROVE  IInv'
<1>1. call[c].g \in GrantIds
  BY TheCall DEF claimOnce, CallOK, Targeted, Steps
<1>2. CASE Claimable(grant[call[c].g])
  BY <1>1, <1>2, EndSpend DEF claimOnce, Claimable
<1>3. CASE ~Claimable(grant[call[c].g])
  BY <1>3, EndQuiet DEF claimOnce, Unwritten
<1> QED BY <1>2, <1>3

\* markConsumed keeps it: the presented command token proves that it spent the grant.
LEMMA StepMarkConsumed ==
  ASSUME IInv, NEW c \in Calls, markConsumed(c)
  PROVE  IInv'
<1> DEFINE g == call[c].g
<1>1. /\ g \in GrantIds /\ grant[g].status # "absent"
      /\ Guarded(g) => grant[g].type = "once"
      /\ \E t \in tokens : t.command /\ t.g = g
  BY TheCall DEF markConsumed, CallOK, Targeted, Steps
<1>2. CASE ~grant[g].consumed
  BY <1>1, <1>2, EndRedeem DEF markConsumed
<1>3. CASE grant[g].consumed
  BY <1>3, EndQuiet DEF markConsumed, Unwritten
<1> QED BY <1>2, <1>3

\* The broker store's consume transaction keeps it.
LEMMA StepBrokerConsume ==
  ASSUME IInv, NEW c \in Calls, BrokerConsume(c)
  PROVE  IInv'
<1> DEFINE k == call[c]
           r == grant[k.g]
<1>1. /\ k.at = "brokerConsume" /\ Done(c) /\ UNCHANGED <<now, connected, tokens>>
      /\ k \in Call /\ CallOK(k)
  BY TheCall DEF BrokerConsume
<1>2. k.g \in GrantIds /\ r.status # "absent" /\ (k.command => \E t \in tokens : t.command /\ t.g = k.g)
  BY <1>1 DEF CallOK, Targeted, Steps
<1>3. CASE /\ r.type = "once" /\ k.command /\ ~r.consumed
           /\ SetRow(grant, k.g, [r EXCEPT !.consumed = TRUE])
           /\ hist' = [hist EXCEPT ![k.g].redeemed = @ + 1]
  BY <1>1, <1>2, <1>3, EndRedeem
<1>4. CASE /\ r.status = "approved" /\ SetStatus(grant, k.g, "used")
           /\ hist' = [hist EXCEPT ![k.g].spent = @ + 1, ![k.g].redeemed = @ + 1]
  BY <1>1, <1>2, <1>4, EndSpend
<1>5. CASE UNCHANGED <<grant, hist>>
  BY <1>1, <1>5, EndQuiet DEF Unwritten
<1> QED BY <1>3, <1>4, <1>5 DEF BrokerConsume

\* FindReferenced or a read of the table that chooses a covering grant.
LEMMA StepDecide ==
  ASSUME IInv, NEW c \in Calls, NEW k \in Call, ~k.command,
         NEW auto \in BOOLEAN, NEW t \in GrantTypes, Decide(c, k, auto, t)
  PROVE  IInv'
<1>1. CASE k.ref # NoRef
  BY <1>1, StepFind DEF Decide
<1>2. CASE k.ref = NoRef
  <2> DEFINE rows == Current
             n == [k EXCEPT !.at = "create", !.type = t, !.op = IF auto THEN "authorize" ELSE "none"]
  <2>1. Reading /\ Unwritten /\ SweepOf(rows)
    BY <1>2, Sweeps DEF Decide
  <2>2. ASSUME NEW g \in Preferred(rows, k.brokered),
               Goto(c, [k EXCEPT !.at = "command", !.g = g, !.type = rows[g].type, !.until = rows[g].expires])
        PROVE  IInv'
    <3>1. g \in GrantIds /\ rows[g].status = "approved"
      BY DEF Preferred, Covering
    <3> HIDE DEF rows
    <3> DEFINE m == [k EXCEPT !.at = "command", !.g = g, !.type = rows[g].type, !.until = rows[g].expires]
    <3>2. m \in Call /\ CallOK(m)
      BY <2>1, <3>1, CommandCall
    <3> QED BY <2>1, <2>2, <3>2, ReadStep
  <2>3. n \in Call /\ CallOK(n)
    <3> DEFINE op == IF auto THEN "authorize" ELSE "none"
    <3>0. op \in {"authorize", "none"} /\ t \in Types
      BY ShapeAssumption DEF Types
    <3>1. n \in Call
      <4> HIDE DEF op
      <4> QED BY <3>0, StepNames DEF Call
    <3>2. n.at = "create" /\ ~n.command /\ n.ref = NoRef
      BY <1>2 DEF Call
    <3> HIDE DEF n
    <3> QED BY <3>1, <3>2 DEF CallOK, Targeted
  <2>4. \/ \E g \in Preferred(rows, k.brokered) :
             Goto(c, [k EXCEPT !.at = "command", !.g = g, !.type = rows[g].type, !.until = rows[g].expires])
        \/ Goto(c, n) \/ Done(c)
    BY <1>2 DEF Decide
  <2> HIDE DEF rows, n
  <2> QED BY <2>1, <2>2, <2>3, <2>4, ReadStep
<1> QED BY <1>1, <1>2

\* authorizeProgramCall keeps it.
LEMMA StepAuthorize ==
  ASSUME IInv, NEW c \in Calls, NEW b \in Requesters, NEW ref \in Refs \cup {NoRef},
         NEW auto \in BOOLEAN, NEW t \in GrantTypes, Authorize(c, b, ref, auto, t)
  PROVE  IInv'
<1> DEFINE k == [Idle EXCEPT !.op = "authorize", !.brokered = b, !.ref = ref]
<1>1. k \in Call /\ ~k.command
  BY IdleCall, ShapeAssumption DEF Idle, Call
<1>2. Decide(c, k, auto, t)
  BY DEF Authorize
<1> HIDE DEF k
<1> QED BY <1>1, <1>2, StepDecide

\* The retry of a lost claim keeps it.
LEMMA StepRetry ==
  ASSUME IInv, NEW c \in Calls, NEW auto \in BOOLEAN, NEW t \in GrantTypes, Retry(c, auto, t)
  PROVE  IInv'
<1> DEFINE k == [Idle EXCEPT !.op = "authorize", !.brokered = call[c].brokered, !.ref = call[c].ref,
                             !.tries = call[c].tries]
<1>1. call[c] \in Call
  BY TheCall
<1>2. k \in Call /\ ~k.command
  <2>1. call[c].brokered \in BOOLEAN /\ call[c].ref \in Refs \cup {NoRef} /\ call[c].tries \in 0..MaxTries
    BY <1>1 DEF Call
  <2>2. \A x \in Call, b \in BOOLEAN, f \in Refs \cup {NoRef}, n \in 0..MaxTries :
          [x EXCEPT !.op = "authorize", !.brokered = b, !.ref = f, !.tries = n] \in Call
    BY DEF Call
  <2>3. k \in Call
    BY <2>1, <2>2, IdleCall
  <2>4. ~k.command
    BY DEF Idle
  <2> QED BY <2>3, <2>4
<1>3. Decide(c, k, auto, t)
  BY DEF Retry
<1> HIDE DEF k
<1> QED BY <1>2, <1>3, StepDecide

\* The end of a command token lies in the range of times.
LEMMA CommandEnd ==
  ASSUME IInv, NEW k \in Call
  PROVE  /\ Earlier(now + CommandLife, k.until) \in Time
         /\ Earlier(now + CommandLife, k.until) <= k.until
<1>1. now \in 0..MaxNow /\ k.until \in Time
  BY DEF IInv, TypeOK, Call
<1>2. now + CommandLife \in Time
  BY <1>1, TimeAssumption DEF Time
<1> QED BY <1>1, <1>2, TimeAssumption DEF Earlier, Time

\* issueCommandJWT keeps it.
LEMMA StepCommand ==
  ASSUME IInv, NEW c \in Calls, Command(c)
  PROVE  IInv'
<1> DEFINE k == call[c]
           exp == Earlier(now + CommandLife, k.until)
           m == [k EXCEPT !.at = "claimCommand", !.until = exp]
           t == CommandToken(k.g, exp)
<1>1. k \in Call /\ CallOK(k) /\ k.at = "command" /\ UNCHANGED <<now, grant, connected, hist>>
  BY TheCall DEF Command
<1>2. /\ k.g \in GrantIds /\ grant[k.g].status # "absent" /\ ~k.command
      /\ Guarded(k.g) => hist[k.g].approved >= 1 /\ k.type = grant[k.g].type /\ k.until = grant[k.g].expires
  BY <1>1 DEF CallOK, Targeted, Steps, Presenting
<1>3. exp \in Time /\ exp <= k.until
  BY <1>1, CommandEnd
<1>4. CASE Done(c) /\ UNCHANGED tokens
  BY <1>1, <1>4, EndQuiet DEF Unwritten
<1>5. CASE k.type = "once" /\ Goto(c, m) /\ UNCHANGED tokens
  <2>1. m \in Call
    BY <1>1, <1>3, Zenon DEF Call, Steps
  <2>2. m.at = "claimCommand" /\ m.g = k.g /\ m.type = k.type /\ ~m.command
    BY <1>1, <1>2 DEF Call
  <2>3. CallOK(m)
    <3> HIDE DEF m
    <3> QED BY <1>2, <1>5, <2>2 DEF CallOK
  <2> HIDE DEF m
  <2> QED BY <1>1, <1>5, <2>1, <2>3, Sweeps, QuietStep DEF Unwritten
<1>6. CASE k.type # "once" /\ tokens' = tokens \cup {t} /\ Done(c)
  <2>1. t \in Token /\ t.g = k.g /\ t.exp = exp
    BY <1>2, <1>3 DEF Token, CommandToken
  <2>2. Guarded(t.g) /\ grant[t.g].type = "timed" => t.exp <= grant[t.g].expires
    BY <1>2, <1>3, <2>1
  <2>3. Guarded(t.g) => hist[t.g].approved >= 1 /\ ~(t.command /\ grant[t.g].type = "once")
    BY <1>2, <1>6, <2>1
  <2> HIDE DEF t, exp
  <2> QED BY <1>1, <1>2, <1>6, <2>1, <2>2, <2>3, EndToken
<1> QED BY <1>4, <1>5, <1>6 DEF Command

\* approvedAnswer's claimOnce and the token it returns keep it.
LEMMA StepClaimCommand ==
  ASSUME IInv, NEW c \in Calls, ClaimCommand(c)
  PROVE  IInv'
<1> DEFINE k == call[c]
           g == k.g
           t == CommandToken(g, k.until)
<1>1. k \in Call /\ CallOK(k) /\ k.at = "claimCommand" /\ UNCHANGED <<now, connected>>
  BY TheCall DEF ClaimCommand
<1>2. g \in GrantIds /\ ~k.command /\ (Guarded(g) => grant[g].type = "once")
  BY <1>1 DEF CallOK, Targeted, Steps, Presenting
<1>3. CASE Claimable(grant[g])
  <2> DEFINE r == [grant[g] EXCEPT !.status = "used"]
             h == [hist[g] EXCEPT !.spent = @ + 1]
  <2>1. /\ grant[g] \in Row /\ hist[g] \in History /\ tokens \in SUBSET Token
        /\ RowOK(grant[g], hist[g], tokens, g) /\ grant[g].status = "approved"
    BY <1>2, <1>3 DEF IInv, TypeOK, RowsOK, History, Claimable
  <2>2. r \in Row /\ h \in History /\ RowOK(r, h, tokens, g)
    BY <1>2, <2>1, SpendRow
  <2>3. /\ r.status # "absent" /\ r.type = grant[g].type /\ r.consumed = grant[g].consumed
        /\ r.expires = grant[g].expires
        /\ r.brokered = grant[g].brokered /\ r.ref = grant[g].ref
        /\ h.approved = hist[g].approved /\ h.spent = hist[g].spent + 1
        /\ h.redeemed = hist[g].redeemed
    BY <2>1 DEF Row, History
  <2>4. t \in Token /\ t.g = g
    BY <1>1, <1>2 DEF Token, CommandToken, Call
  <2>5. GuardedRow(r) => /\ h.approved >= 1 /\ h.spent = 1 /\ h.redeemed = 0 /\ ~r.consumed
                         /\ r.type = "once"
    BY <1>2, <2>1, <2>3 DEF RowOK, Guarded, GuardedRow, History
  <2>6. RowOK(r, h, tokens \cup {t}, g)
    <3> HIDE DEF r, h, t
    <3> QED BY <1>2, <2>1, <2>2, <2>3, <2>4, <2>5, NewToken
  <2>7. /\ grant' = [grant EXCEPT ![g] = r] /\ hist' = [hist EXCEPT ![g] = h]
        /\ tokens' = tokens \cup {t} /\ Done(c)
    BY <1>3 DEF ClaimCommand, SetStatus, SetRow
  <2> HIDE DEF r, h, t
  <2>8. /\ grant' \in [GrantIds -> Row] /\ hist' \in [GrantIds -> History]
        /\ now' \in 0..MaxNow /\ connected' \in BOOLEAN /\ tokens' \subseteq Token
    BY <1>1, <1>2, <2>2, <2>4, <2>7 DEF IInv, TypeOK, History
  <2>9. ASSUME NEW o \in GrantIds PROVE RowOK(grant'[o], hist'[o], tokens', o)
    <3>1. CASE o = g
      BY <1>2, <2>6, <2>7, <3>1 DEF IInv, TypeOK
    <3>2. CASE o # g
      <4>1. grant'[o] = grant[o] /\ hist'[o] = hist[o]
        BY <2>7, <3>2 DEF IInv, TypeOK
      <4>2. /\ grant[o] \in Row /\ hist[o] \in History /\ tokens \in SUBSET Token
            /\ RowOK(grant[o], hist[o], tokens, o)
        BY DEF IInv, TypeOK, RowsOK, History
      <4>3. RowOK(grant[o], hist[o], tokens \cup {t}, o)
        BY <2>4, <3>2, <4>2, NewToken
      <4> QED BY <2>7, <4>1, <4>3
    <3> QED BY <3>1, <3>2
  <2>10. RowsOK'
    BY <2>9 DEF RowsOK
  <2>11. Monotone
    <3>1. tokens \subseteq tokens'
      BY <2>7
    <3>2. ASSUME NEW o \in GrantIds
          PROVE  /\ hist'[o].approved >= hist[o].approved
                 /\ grant[o].status # "absent" =>
                      /\ grant'[o].status # "absent"
                      /\ grant'[o].brokered = grant[o].brokered /\ grant'[o].ref = grant[o].ref
                 /\ grant'[o].type = grant[o].type /\ grant'[o].expires = grant[o].expires
      <4>1. hist[o].approved \in Nat
        BY DEF IInv, TypeOK
      <4>2. CASE o = g
        BY <1>2, <2>3, <2>7, <4>1, <4>2 DEF IInv, TypeOK
      <4>3. CASE o # g
        BY <2>7, <4>1, <4>3 DEF IInv, TypeOK
      <4> QED BY <4>2, <4>3
    <3> QED BY <3>1, <3>2 DEF Monotone
  <2>12. CallOK(Idle)'
    BY <2>8, <2>11, IdleCall, CallStable DEF IInv
  <2> QED BY <2>7, <2>8, <2>10, <2>11, <2>12, IdleCall, CallStep
<1>4. CASE ~Claimable(grant[g])
  <2> DEFINE m == [k EXCEPT !.at = "decide", !.tries = @ + 1]
  <2>1. /\ UNCHANGED <<grant, hist, tokens>>
        /\ IF k.tries + 1 < MaxTries THEN Goto(c, m) ELSE Done(c)
    BY <1>4 DEF ClaimCommand
  <2>2. CASE k.tries + 1 < MaxTries
    <3>1. k.tries + 1 \in 0..MaxTries
      BY <1>1, <2>2, ShapeAssumption DEF Call
    <3>2. m \in Call
      BY <1>1, <3>1, Zenon DEF Call, Steps
    <3>3. m.at = "decide" /\ ~m.command
      BY <1>1, <1>2 DEF Call
    <3>4. CallOK(m)
      <4> HIDE DEF m
      <4> QED BY <3>3 DEF CallOK, Targeted
    <3> HIDE DEF m
    <3> QED BY <1>1, <2>1, <2>2, <3>2, <3>4, Sweeps, QuietStep DEF Unwritten
  <2>3. CASE ~(k.tries + 1 < MaxTries)
    BY <1>1, <2>1, <2>3, EndQuiet DEF Unwritten
  <2> QED BY <2>2, <2>3
<1> QED BY <1>3, <1>4

\* withdrawReferencedGrant's read keeps it.
LEMMA StepWithdraw ==
  ASSUME IInv, NEW c \in Calls, NEW b \in Requesters, NEW ref \in Refs, Withdraw(c, b, ref)
  PROVE  IInv'
<1>1. PICK g \in GrantIds : /\ Current[g].ref = ref /\ Current[g].status \in {"pending", "approved"}
                            /\ Goto(c, [Idle EXCEPT !.at = "withdraw", !.g = g])
  BY DEF Withdraw, Known
<1> DEFINE m == [Idle EXCEPT !.at = "withdraw", !.g = g]
<1>2. grant[g].status # "absent" /\ grant[g].ref = ref
  BY <1>1, Sweeps, Sweeping DEF IInv
<1>3. m \in Call
  BY IdleCall, StepNames DEF Call
<1>4. m.at = "withdraw" /\ m.g = g /\ ~m.command
  BY DEF Idle
<1>5. CallOK(m)
  <2> HIDE DEF m
  <2> QED BY <1>2, <1>4, ShapeAssumption DEF CallOK
<1> QED BY <1>1, <1>3, <1>5, ReadStep DEF Withdraw

\* withdraw's transaction keeps it.
LEMMA StepWithdrawWrite ==
  ASSUME IInv, NEW c \in Calls, WithdrawWrite(c)
  PROVE  IInv'
<1> DEFINE g == call[c].g
           r == [grant[g] EXCEPT !.status = "withdrawn"]
<1>1. g \in GrantIds /\ grant[g].status # "absent" /\ grant[g].ref # NoRef /\ Done(c) /\ Unwritten
  BY TheCall DEF WithdrawWrite, CallOK, Targeted, Steps
<1>2. CASE Withdrawable(grant[g])
  <2>1. /\ grant[g] \in Row /\ hist[g] \in History /\ tokens \in SUBSET Token
        /\ RowOK(grant[g], hist[g], tokens, g)
    BY <1>1 DEF IInv, TypeOK, RowsOK, History
  <2>2. r \in Row /\ RowOK(r, hist[g], tokens, g)
    BY <1>1, <1>2, <2>1, WithdrawRow
  <2>3. /\ r.status # "absent" /\ r.type = grant[g].type /\ r.expires = grant[g].expires
        /\ r.brokered = grant[g].brokered /\ r.ref = grant[g].ref
    BY <2>1 DEF Row
  <2>4. SetRow(grant, g, r)
    BY <1>2 DEF WithdrawWrite, SetStatus
  <2> HIDE DEF r
  <2> QED BY <1>1, <2>2, <2>3, <2>4, Sweeps, IdleCall, WriteStatus
<1>3. CASE ~Withdrawable(grant[g])
  BY <1>1, <1>3, EndQuiet DEF WithdrawWrite
<1> QED BY <1>2, <1>3

\* A write by the environment that moves no call and keeps the table's rows.
LEMMA EnvironmentStep ==
  ASSUME IInv, NEW rows, SweepOf(rows), grant' = rows, UNCHANGED <<tokens, hist, call>>,
         now' \in 0..MaxNow, connected' \in BOOLEAN
  PROVE  IInv'
<1>1. /\ rows \in [GrantIds -> Row]
      /\ \A g \in GrantIds :
           /\ RowOK(rows[g], hist[g], tokens, g)
           /\ rows[g].status = "absent" <=> grant[g].status = "absent"
           /\ rows[g].type = grant[g].type /\ rows[g].expires = grant[g].expires
           /\ rows[g].brokered = grant[g].brokered /\ rows[g].ref = grant[g].ref
  BY Sweeping DEF IInv
<1>2. TypeOK'
  BY <1>1 DEF IInv, TypeOK
<1>3. RowsOK'
  BY <1>1 DEF RowsOK
<1>4. Monotone
  BY <1>1 DEF Monotone, IInv, TypeOK
<1>5. tokens' \subseteq Token /\ hist' \in [GrantIds -> History]
  BY DEF IInv, TypeOK, History
<1>6. \A k \in Call : CallOK(k) => CallOK(k)'
  <2>1. ASSUME NEW k \in Call, CallOK(k) PROVE CallOK(k)'
    BY <1>4, <1>5, <2>1, CallStable DEF IInv
  <2> QED BY <2>1
<1>7. CallsOK'
  BY <1>6, TheCall DEF CallsOK
<1> QED BY <1>2, <1>3, <1>7 DEF IInv

\* A revoked connection, a listing and the clock keep the invariant.
LEMMA StepEnvironment ==
  ASSUME IInv, RevokeConnection \/ Poll \/ Tick
  PROVE  IInv'
<1>1. now \in Nat /\ now \in 0..MaxNow /\ connected \in BOOLEAN
  BY TimeAssumption DEF IInv, TypeOK
<1>2. SweepOf(grant) /\ SweepOf(Current)
  BY <1>1 DEF SweepOf, Current
<1>3. CASE RevokeConnection
  BY <1>1, <1>2, <1>3, EnvironmentStep DEF RevokeConnection
<1>4. CASE Poll
  BY <1>1, <1>2, <1>4, EnvironmentStep DEF Poll, Reading, Unwritten
<1>5. CASE Tick
  <2>1. now' \in 0..MaxNow
    BY <1>1, <1>5, TimeAssumption DEF Tick
  <2> QED BY <1>1, <1>2, <1>5, <2>1, EnvironmentStep DEF Tick
<1> QED BY <1>3, <1>4, <1>5

\* A restart loses the calls in progress, and what they relied on with them.
LEMMA StepCrash ==
  ASSUME IInv, Crash
  PROVE  IInv'
<1>1. call' = [c \in Calls |-> Idle] /\ UNCHANGED <<now, grant, connected, tokens, hist>>
  BY DEF Crash
<1>2. TypeOK'
  BY <1>1, IdleCall DEF IInv, TypeOK
<1>3. RowsOK'
  BY <1>1 DEF IInv, RowsOK
<1>4. CallOK(Idle)'
  BY DEF Idle, CallOK, Targeted
<1>5. CallsOK'
  BY <1>1, <1>4 DEF CallsOK
<1> QED BY <1>2, <1>3, <1>5 DEF IInv

-----------------------------------------------------------------------------
(* The invariant                                                           *)

\* An empty table and no call in progress satisfy the invariant.
LEMMA InitInvariant == Init => IInv
<1> SUFFICES ASSUME Init PROVE IInv
  OBVIOUS
<1>1. NoRow \in Row
  BY TimeAssumption DEF NoRow, Row, Status, Types, Time
<1>2. TypeOK
  BY <1>1, IdleCall, TimeAssumption DEF Init, TypeOK
<1>3. RowsOK
  BY DEF Init, RowsOK, RowOK, GuardedRow, NoRow
<1>4. CallsOK
  BY IdleCall DEF Init, CallsOK
<1> QED BY <1>2, <1>3, <1>4 DEF IInv

\* Every call a client starts keeps the invariant.
LEMMA StartInvariant ==
  ASSUME IInv, NEW c \in Calls, Start(c)
  PROVE  IInv'
<1>0. GrantTypes \subseteq Types
  BY ShapeAssumption DEF Types
<1>1. CASE \E b \in Requesters, t \in GrantTypes, auto \in BOOLEAN : Submit(c, b, t, auto)
  BY <1>1, StepSubmit
<1>2. CASE \E b \in Requesters, ref \in Refs : SubmitReferenced(c, b, ref)
  BY <1>2, StepSubmitReferenced
<1>3. CASE \E g \in GrantIds, t \in GrantTypes : Approve(c, g, t)
  BY <1>0, <1>3, StepReadToApprove DEF Approve
<1>4. CASE \E g \in GrantIds : Deny(c, g) \/ Revoke(c, g) \/ RequestToken(c, g)
  BY <1>4, StepReadToDecide, StepRequestToken
<1>5. CASE \E g \in GrantIds, olds \in SUBSET GrantIds, t \in GrantTypes : g \notin olds /\ Extend(c, g, olds, t)
  BY <1>0, <1>5, StepExtend
<1>6. CASE \E t \in tokens : Consume(c, t)
  BY <1>6, StepConsume
<1>7. CASE \E b \in Requesters, ref \in Refs \cup {NoRef}, t \in GrantTypes, auto \in BOOLEAN : Authorize(c, b, ref, auto, t)
  BY <1>7, StepAuthorize
<1>8. CASE \E b \in Requesters, ref \in Refs : Withdraw(c, b, ref)
  BY <1>8, StepWithdraw
<1> QED BY <1>1, <1>2, <1>3, <1>4, <1>5, <1>6, <1>7, <1>8 DEF Start

\* Every later await of a call keeps the invariant.
LEMMA ContinueInvariant ==
  ASSUME IInv, NEW c \in Calls, Continue(c)
  PROVE  IInv'
<1>1. CASE \E g \in GrantIds : Create(c, g) \/ CreateReferenced(c, g) \/ ExtendRead(c, g)
  BY <1>1, StepCreate, StepCreateReferenced, StepExtendRead
<1>2. CASE CreateNone(c) \/ AutoApprove(c) \/ AutoRead(c)
  BY <1>2, StepCreateNone, StepAutoApprove, StepAutoRead
<1>3. CASE ApproveWrite(c) \/ Reread(c) \/ DenyWrite(c) \/ RevokeWrite(c)
  BY <1>3, StepApproveWrite, StepReread, StepDecisionWrites
<1>4. CASE WidenWrite(c) \/ ExtendRevoke(c) \/ ExtendApprove(c)
  BY <1>4, StepWidenWrite, StepExtendRevoke, StepExtendApprove
<1>5. CASE ExpireWrite(c) \/ Introspected(c) \/ IssueToken(c) \/ UseRead(c)
  BY <1>5, StepExpireWrite, StepIntrospected, StepIssueToken, StepUseRead
<1>6. CASE claimOnce(c) \/ markConsumed(c) \/ BrokerConsume(c)
  BY <1>6, StepClaimOnce, StepMarkConsumed, StepBrokerConsume
<1>7. CASE \E auto \in BOOLEAN, t \in GrantTypes : Retry(c, auto, t)
  BY <1>7, StepRetry
<1>8. CASE Command(c) \/ ClaimCommand(c) \/ WithdrawWrite(c)
  BY <1>8, StepCommand, StepClaimCommand, StepWithdrawWrite
<1> QED BY <1>1, <1>2, <1>3, <1>4, <1>5, <1>6, <1>7, <1>8 DEF Continue

\* Every step of every call, the clock and restarts keep the invariant.
LEMMA NextInvariant == IInv /\ [Next]_vars => IInv'
<1> SUFFICES ASSUME IInv, [Next]_vars PROVE IInv'
  OBVIOUS
<1>1. CASE UNCHANGED vars
  <2>1. TypeOK' /\ RowsOK'
    BY <1>1 DEF vars, IInv, TypeOK, RowsOK
  <2>2. CallsOK'
    BY <1>1 DEF vars, IInv, CallsOK, CallOK, Guarded
  <2> QED BY <2>1, <2>2 DEF IInv
<1>2. CASE \E c \in Calls : Start(c) \/ Continue(c)
  BY <1>2, StartInvariant, ContinueInvariant
<1>3. CASE RevokeConnection \/ Poll \/ Tick
  BY <1>3, StepEnvironment
<1>4. CASE Crash
  BY <1>4, StepCrash
<1> QED BY <1>1, <1>2, <1>3, <1>4 DEF Next

\* The inductive invariant holds of every reachable state: what is stored of a
\* guarded grant agrees with its history and with the tokens in circulation,
\* and parked handlers rely only on facts that no other handler undoes.
THEOREM Invariance == Spec => []IInv
BY InitInvariant, NextInvariant, PTL DEF Spec

\* Every row, token and parked call keeps its shape; in particular no
\* expiry the handlers compute reaches the value that stands for "never".
THEOREM TypeCorrectness == Spec => []TypeOK
<1>1. IInv => TypeOK
  BY DEF IInv
<1> QED BY <1>1, Invariance, PTL

\* A brokered or referenced grant is redeemed at most once: /consume confirms
\* one execution however claimOnce, markConsumed, the broker's transaction,
\* new tokens, decisions, sweeps and restarts interleave.
THEOREM SingleUse == Spec => []GuardedSingleUse
<1>1. IInv => GuardedSingleUse
  <2> SUFFICES ASSUME IInv, NEW g \in GrantIds, Guarded(g)
               PROVE  hist[g].redeemed <= 1
    BY DEF GuardedSingleUse
  <2>1. RowOK(grant[g], hist[g], tokens, g) /\ hist[g] \in History
    BY DEF IInv, TypeOK, RowsOK, History
  <2> QED BY <2>1 DEF RowOK, Guarded, History
<1> QED BY <1>1, Invariance, PTL

\* authorize hands out the command token of a guarded single-use grant only
\* after its claimOnce spent the grant, and the grant is spent only once.
THEOREM CommandTokenSpends == Spec => []CommandTokenSpent
<1>1. IInv => CommandTokenSpent
  <2> SUFFICES ASSUME IInv, NEW t \in tokens, t.command, Guarded(t.g), grant[t.g].type = "once"
               PROVE  hist[t.g].spent = 1
    BY DEF CommandTokenSpent
  <2>1. t.g \in GrantIds
    BY DEF IInv, TypeOK, Token
  <2>2. RowOK(grant[t.g], hist[t.g], tokens, t.g)
    BY <2>1 DEF IInv, RowsOK
  <2> QED BY <2>2 DEF RowOK, Guarded
<1> QED BY <1>1, Invariance, PTL

\* A grant whose withdrawal succeeded was never spent, although consume,
\* authorize and withdraw race for it between their awaits.
THEOREM WithdrawalIsClean == Spec => []WithdrawnUnspent
<1>1. IInv => WithdrawnUnspent
  <2> SUFFICES ASSUME IInv, NEW g \in GrantIds, grant[g].status = "withdrawn"
               PROVE  hist[g].spent = 0 /\ hist[g].redeemed = 0
    BY DEF WithdrawnUnspent
  <2>1. RowOK(grant[g], hist[g], tokens, g)
    BY DEF IInv, RowsOK
  <2> QED BY <2>1 DEF RowOK
<1> QED BY <1>1, Invariance, PTL

\* A guarded grant that stands denied was never approved and has no token:
\* updateStatus refuses the second decision whichever handler writes last.
THEOREM DenialIsClean == Spec => []DeniedGrantsNothing
<1>1. IInv => DeniedGrantsNothing
  <2> SUFFICES ASSUME IInv, NEW g \in GrantIds, Guarded(g), grant[g].status = "denied"
               PROVE  hist[g].approved = 0 /\ \A t \in tokens : t.g # g
    BY DEF DeniedGrantsNothing
  <2>1. RowOK(grant[g], hist[g], tokens, g)
    BY DEF IInv, RowsOK
  <2> QED BY <2>1 DEF RowOK, Guarded
<1> QED BY <1>1, Invariance, PTL

\* Every approval buys one claim (updateStatus, claimOnce), and a command token
\* one redemption more (markConsumed): SpentWithinApprovals.
THEOREM SpendingFollowsApproval == Spec => []SpentWithinApprovals
<1>1. IInv => SpentWithinApprovals
  <2>1. ASSUME IInv, NEW g \in GrantIds
        PROVE  hist[g].spent <= hist[g].approved /\ hist[g].redeemed <= hist[g].spent + 1
    BY <2>1 DEF IInv, RowsOK, RowOK, TypeOK
  <2> QED BY <2>1 DEF SpentWithinApprovals
<1> QED BY <1>1, Invariance, PTL

\* A token of a guarded timed grant ends with it (issueAuthzJWT,
\* issueCommandJWT): TokenWithinGrant.
THEOREM TokensEndWithGrant == Spec => []TokenWithinGrant
<1>1. IInv => TokenWithinGrant
  <2>1. ASSUME IInv, NEW t \in tokens, Guarded(t.g), grant[t.g].type = "timed"
        PROVE  t.exp <= grant[t.g].expires
    <3>1. t.g \in GrantIds
      BY <2>1 DEF IInv, TypeOK, Token
    <3>2. RowOK(grant[t.g], hist[t.g], tokens, t.g)
      BY <2>1, <3>1 DEF IInv, RowsOK
    <3> QED BY <2>1, <3>2 DEF RowOK, Guarded
  <2> QED BY <2>1 DEF TokenWithinGrant
<1> QED BY <1>1, Invariance, PTL

=============================================================================
