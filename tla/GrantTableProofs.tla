-------------------------- MODULE GrantTableProofs --------------------------
(***************************************************************************)
(* Proofs about Grants that look at the grants table as a whole.           *)
(*                                                                         *)
(* TableStep says what any step of any handler may do to the table: sweep  *)
(* it, and besides open one request or move one row.  That every step of   *)
(* Next is a TableStep is proved once, action by action, from the invariant*)
(* of GrantsProofs; the theorems then speak of rows only.                  *)
(***************************************************************************)
EXTENDS GrantsProofs, FiniteSetTheorems

-----------------------------------------------------------------------------
(* What a step does to the table                                           *)

\* Row r opens a request at g over the swept table rows (save, createReferenced).
Opened(rows, g, r, h) ==
  /\ rows[g].status = "absent" /\ r.status = "pending" /\ h = hist[g]
  /\ r.brokered => Cardinality(PendingBrokered(rows)) < BrokerLimit
  /\ r.ref # NoRef => ~ \E o \in GrantIds : /\ rows[o].status # "absent" /\ rows[o].ref = r.ref
                                            /\ rows[o].brokered = r.brokered

Approved(o, h, p, i) ==
  /\ p.status = "approved" /\ ~Refused(o, "approved")
  /\ i.spent = h.spent /\ i.redeemed = h.redeemed

Closed(o, h, p, i) ==
  p.status \in {"denied", "revoked", "expired"} /\ ~Refused(o, p.status) /\ i = h

Reopened(o, h, p, i) == p.status = "pending" /\ AllowExtension /\ ~GuardedRow(o) /\ i = h

Withdrawn(o, h, p, i) == p.status = "withdrawn" /\ Withdrawable(o) /\ i = h

Spent(o, h, p, i) ==
  /\ o.status = "approved" /\ p.status = "used" /\ i.spent = h.spent + 1
  /\ \/ i.redeemed = h.redeemed
     \/ i.redeemed = h.redeemed + 1 /\ (o.brokered => connected)

Redeemed(o, h, p, i) ==
  /\ p.status = o.status /\ i.spent = h.spent /\ i.redeemed = h.redeemed + 1
  /\ o.brokered => connected
  /\ GuardedRow(o) => /\ h.spent = 1 /\ h.redeemed = 0
                      /\ o.status \notin {"absent", "pending", "approved", "denied", "withdrawn"}

\* A row o with history h becomes p with history i.
Moved(o, h, p, i) ==
  /\ o.status # "absent" /\ p.brokered = o.brokered /\ p.ref = o.ref
  /\ \/ Approved(o, h, p, i) \/ Closed(o, h, p, i) \/ Reopened(o, h, p, i)
     \/ Withdrawn(o, h, p, i) \/ Spent(o, h, p, i) \/ Redeemed(o, h, p, i)

OneRow(rows) ==
  \E g \in GrantIds, r \in Row, h \in History :
    /\ grant' = [rows EXCEPT ![g] = r] /\ hist' = [hist EXCEPT ![g] = h]
    /\ Opened(rows, g, r, h) \/ Moved(rows[g], hist[g], r, h)

TableStep == \E rows : SweepOf(rows) /\ ((grant' = rows /\ hist' = hist) \/ OneRow(rows))

-----------------------------------------------------------------------------
(* The actions                                                             *)

\* A handler that only reads sweeps the table at most (introspectGrant, authorize).
LEMMA QuietTable ==
  ASSUME IInv, UNCHANGED hist, Reading \/ UNCHANGED grant
  PROVE  TableStep
<1>1. now \in Nat
  BY TimeAssumption DEF IInv, TypeOK
<1>2. SweepOf(grant) /\ SweepOf(Current)
  BY <1>1 DEF SweepOf, Current
<1> QED BY <1>2 DEF TableStep, Reading

\* save and createReferenced open a request.
LEMMA OpenTable ==
  ASSUME IInv, NEW k \in Call, NEW g \in GrantIds, grant[g].status = "absent",
         NEW rows, SweepOf(rows), SetRow(rows, g, NewRow(k)), UNCHANGED hist,
         Accepted(rows, k), k.ref # NoRef => ~HasReference(rows, k)
  PROVE  TableStep
<1>1. NewRow(k) \in Row /\ NewRow(k).status = "pending"
  BY CreatedRow
<1>2. NewRow(k).brokered = k.brokered /\ NewRow(k).ref = k.ref
  BY DEF NewRow, NoRow
<1>3. rows[g].status = "absent" /\ hist[g] \in History
  BY Sweeping DEF IInv, TypeOK, History
<1>4. hist' = [hist EXCEPT ![g] = hist[g]]
  BY DEF IInv, TypeOK
<1>5. Opened(rows, g, NewRow(k), hist[g])
  BY <1>1, <1>2, <1>3 DEF Opened, Accepted, HasReference, Referenced
<1>6. OneRow(rows)
  BY <1>1, <1>3, <1>4, <1>5 DEF OneRow, SetRow
<1> QED BY <1>6 DEF TableStep

LEMMA CreateTable ==
  ASSUME IInv, NEW c \in Calls, NEW g \in GrantIds, Create(c, g)
  PROVE  TableStep
<1>1. PICK k \in Call : k = call[c] /\ CallOK(k)
  BY TheCall
<1>2. k.at = "create" /\ k.ref = NoRef /\ grant[g].status = "absent" /\ UNCHANGED hist
  BY <1>1 DEF Create, CallOK, Unwritten
<1>3. PICK rows : SweepOf(rows) /\ IF Accepted(rows, k) THEN SetRow(rows, g, NewRow(k)) ELSE grant' = rows
  BY <1>1, Sweeps DEF Create
<1>4. CASE Accepted(rows, k)
  BY <1>2, <1>3, <1>4, OpenTable
<1>5. CASE ~Accepted(rows, k)
  BY <1>2, <1>3, <1>5 DEF TableStep
<1> QED BY <1>4, <1>5

LEMMA CreateReferencedTable ==
  ASSUME IInv, NEW c \in Calls, NEW g \in GrantIds, CreateReferenced(c, g)
  PROVE  TableStep
<1>1. PICK k \in Call : k = call[c]
  BY TheCall
<1>2. grant[g].status = "absent" /\ UNCHANGED hist
  BY DEF CreateReferenced, Unwritten
<1>3. PICK rows : /\ SweepOf(rows)
                  /\ \/ Accepted(rows, k) /\ ~HasReference(rows, k) /\ SetRow(rows, g, NewRow(k))
                     \/ grant' = rows
  BY <1>1, Sweeps DEF CreateReferenced
<1>4. CASE Accepted(rows, k) /\ ~HasReference(rows, k) /\ SetRow(rows, g, NewRow(k))
  BY <1>2, <1>3, <1>4, OpenTable
<1>5. CASE grant' = rows
  BY <1>2, <1>3, <1>5 DEF TableStep
<1> QED BY <1>3, <1>4, <1>5
\* One row of a swept table is rewritten, and perhaps its history.
LEMMA MoveTable ==
  ASSUME IInv, NEW rows, SweepOf(rows), NEW g \in GrantIds, NEW r \in Row, NEW h \in History,
         SetRow(rows, g, r), hist' = [hist EXCEPT ![g] = h], Moved(rows[g], hist[g], r, h)
  PROVE  TableStep
<1>1. OneRow(rows)
  BY DEF OneRow, SetRow
<1> QED BY <1>1 DEF TableStep

\* An approval, by an owner or by a policy, of a row that may be approved.
LEMMA ApproveTable ==
  ASSUME IInv, NEW rows, SweepOf(rows), NEW g \in GrantIds, grant[g].status # "absent",
         ~Refused(rows[g], "approved"), NEW r \in Row, SetRow(rows, g, r), r.status = "approved",
         r.brokered = rows[g].brokered, r.ref = rows[g].ref,
         hist' = [hist EXCEPT ![g].approved = @ + 1]
  PROVE  TableStep
<1> DEFINE h == [hist[g] EXCEPT !.approved = @ + 1]
<1>1. hist[g] \in History /\ hist \in [GrantIds -> History] /\ rows[g].status # "absent"
  BY Sweeping DEF IInv, TypeOK, History
<1>2. h \in History /\ h.spent = hist[g].spent /\ h.redeemed = hist[g].redeemed
  BY <1>1 DEF History
<1>3. hist' = [hist EXCEPT ![g] = h]
  BY <1>1 DEF History
<1> HIDE DEF h
<1>4. Moved(rows[g], hist[g], r, h)
  BY <1>1, <1>2 DEF Moved, Approved
<1> QED BY <1>2, <1>3, <1>4, MoveTable

LEMMA AutoApproveTable ==
  ASSUME IInv, NEW c \in Calls, AutoApprove(c)
  PROVE  TableStep
<1>1. PICK k \in Call : k = call[c] /\ CallOK(k)
  BY TheCall
<1>2. k.g \in GrantIds /\ grant[k.g].status # "absent"
  BY <1>1 DEF AutoApprove, CallOK, Targeted, Steps
<1>3. PICK rows : /\ SweepOf(rows)
                  /\ IF Refused(rows[k.g], "approved") THEN grant' = rows /\ UNCHANGED hist
                     ELSE /\ SetRow(rows, k.g, [rows[k.g] EXCEPT !.status = "approved", !.decided = k.since])
                          /\ hist' = [hist EXCEPT ![k.g].approved = @ + 1]
  BY <1>1, Sweeps DEF AutoApprove
<1>4. CASE Refused(rows[k.g], "approved")
  BY <1>3, <1>4 DEF TableStep
<1>5. CASE ~Refused(rows[k.g], "approved")
  <2> DEFINE r == [rows[k.g] EXCEPT !.status = "approved", !.decided = k.since]
  <2>1. rows[k.g] \in Row /\ k.since \in Time
    BY <1>2, <1>3, Sweeping, TimeAssumption DEF IInv, Call, Time
  <2>2. r \in Row /\ r.status = "approved" /\ r.brokered = rows[k.g].brokered /\ r.ref = rows[k.g].ref
    BY <2>1 DEF Row, Status
  <2>3. SetRow(rows, k.g, r) /\ hist' = [hist EXCEPT ![k.g].approved = @ + 1]
    BY <1>3, <1>5
  <2> HIDE DEF r
  <2> QED BY <1>2, <1>3, <1>5, <2>2, <2>3, ApproveTable
<1> QED BY <1>4, <1>5

LEMMA ApproveWriteTable ==
  ASSUME IInv, NEW c \in Calls, ApproveWrite(c)
  PROVE  TableStep
<1>1. PICK k \in Call : k = call[c] /\ CallOK(k)
  BY TheCall
<1>2. k.g \in GrantIds /\ grant[k.g].status # "absent"
  BY <1>1 DEF ApproveWrite, CallOK, Targeted, Steps
<1>3. PICK rows : /\ SweepOf(rows)
                  /\ IF Refused(rows[k.g], "approved") THEN grant' = rows /\ UNCHANGED hist
                     ELSE /\ SetRow(rows, k.g, ApprovedRow(rows[k.g], k))
                          /\ hist' = [hist EXCEPT ![k.g].approved = @ + 1]
  BY <1>1, Sweeps DEF ApproveWrite
<1>4. CASE Refused(rows[k.g], "approved")
  BY <1>3, <1>4 DEF TableStep
<1>5. CASE ~Refused(rows[k.g], "approved")
  <2> DEFINE r == ApprovedRow(rows[k.g], k)
  <2>1. rows[k.g] \in Row /\ k.since \in Time /\ k.since + Duration \in Time /\ k.type \in Types
    BY <1>2, <1>3, Sweeping, TimeAssumption DEF IInv, Call, Time
  <2>2. r \in Row /\ r.status = "approved" /\ r.brokered = rows[k.g].brokered /\ r.ref = rows[k.g].ref
    BY <2>1 DEF ApprovedRow, Row, Status
  <2>3. SetRow(rows, k.g, r) /\ hist' = [hist EXCEPT ![k.g].approved = @ + 1]
    BY <1>3, <1>5
  <2> HIDE DEF r
  <2> QED BY <1>2, <1>3, <1>5, <2>2, <2>3, ApproveTable
<1> QED BY <1>4, <1>5

\* updateStatus as deny, revoke, expire and the writes of an extension use it.
LEMMA UpdateTable ==
  ASSUME IInv, NEW c \in Calls, NEW g \in GrantIds, grant[g].status # "absent", NEW then,
         NEW status \in {"pending", "denied", "revoked", "expired"}, UpdateStatus(c, g, status, then),
         status = "pending" => AllowExtension /\ ~Guarded(g)
  PROVE  TableStep
<1>1. UNCHANGED hist
  BY DEF UpdateStatus, Unwritten
<1>2. PICK rows : /\ SweepOf(rows)
                  /\ \/ grant' = rows
                     \/ ~Refused(rows[g], status) /\ SetRow(rows, g, [rows[g] EXCEPT !.status = status])
  BY Sweeps DEF UpdateStatus, SetStatus
<1>3. CASE grant' = rows
  BY <1>1, <1>2, <1>3 DEF TableStep
<1>4. CASE ~Refused(rows[g], status) /\ SetRow(rows, g, [rows[g] EXCEPT !.status = status])
  <2> DEFINE r == [rows[g] EXCEPT !.status = status]
  <2>1. /\ rows[g] \in Row /\ rows[g].status # "absent"
        /\ rows[g].brokered = grant[g].brokered /\ rows[g].ref = grant[g].ref
        /\ hist[g] \in History /\ hist' = [hist EXCEPT ![g] = hist[g]]
    BY <1>1, <1>2, Sweeping DEF IInv, TypeOK, History
  <2>2. r \in Row /\ r.status = status /\ r.brokered = rows[g].brokered /\ r.ref = rows[g].ref
    BY <2>1 DEF Row, Status
  <2> HIDE DEF r
  <2>3. Moved(rows[g], hist[g], r, hist[g])
    BY <1>4, <2>1, <2>2 DEF Moved, Closed, Reopened, Guarded, GuardedRow
  <2>4. SetRow(rows, g, r)
    BY <1>4 DEF r
  <2> QED BY <1>2, <2>1, <2>2, <2>3, <2>4, MoveTable
<1> QED BY <1>2, <1>3, <1>4

LEMMA StatusTable ==
  ASSUME IInv, NEW c \in Calls,
         DenyWrite(c) \/ RevokeWrite(c) \/ ExpireWrite(c) \/ WidenWrite(c) \/ ExtendRevoke(c)
  PROVE  TableStep
<1>1. CallOK(call[c])
  BY TheCall
<1>2. CASE DenyWrite(c) \/ RevokeWrite(c) \/ ExpireWrite(c)
  <2>1. call[c].g \in GrantIds /\ grant[call[c].g].status # "absent"
    BY <1>1, <1>2 DEF DenyWrite, RevokeWrite, ExpireWrite, CallOK, Targeted, Steps
  <2> QED BY <1>2, <2>1, UpdateTable DEF DenyWrite, RevokeWrite, ExpireWrite
<1>3. CASE WidenWrite(c)
  <2>1. /\ call[c].g \in GrantIds /\ grant[call[c].g].status # "absent"
        /\ AllowExtension /\ ~Guarded(call[c].g)
    BY <1>1, <1>3 DEF WidenWrite, CallOK, Targeted, Steps
  <2> QED BY <1>3, <2>1, UpdateTable DEF WidenWrite
<1>4. CASE ExtendRevoke(c)
  <2>1. call[c].old \in GrantIds /\ grant[call[c].old].status # "absent"
    BY <1>1, <1>4 DEF ExtendRevoke, CallOK
  <2> QED BY <1>4, <2>1, UpdateTable DEF ExtendRevoke
<1> QED BY <1>2, <1>3, <1>4

\* An approved row is spent, and in the same step perhaps redeemed.
LEMMA SpendTable ==
  ASSUME IInv, NEW g \in GrantIds, grant[g].status = "approved", SetStatus(grant, g, "used"),
         \/ hist' = [hist EXCEPT ![g].spent = @ + 1]
         \/ /\ hist' = [hist EXCEPT ![g].spent = @ + 1, ![g].redeemed = @ + 1]
            /\ grant[g].brokered => connected
  PROVE  TableStep
<1> DEFINE r == [grant[g] EXCEPT !.status = "used"]
<1>1. grant[g] \in Row /\ hist[g] \in History /\ hist \in [GrantIds -> History] /\ SweepOf(grant)
  BY DEF IInv, TypeOK, History, SweepOf
<1>2. r \in Row /\ r.status = "used" /\ r.brokered = grant[g].brokered /\ r.ref = grant[g].ref
  BY <1>1 DEF Row, Status
<1>3. SetRow(grant, g, r)
  BY DEF SetStatus
<1> HIDE DEF r
<1>4. PICK h \in History : /\ hist' = [hist EXCEPT ![g] = h] /\ h.spent = hist[g].spent + 1
                           /\ \/ h.redeemed = hist[g].redeemed
                              \/ h.redeemed = hist[g].redeemed + 1 /\ (grant[g].brokered => connected)
  <2> DEFINE i == [hist[g] EXCEPT !.spent = @ + 1]
             j == [hist[g] EXCEPT !.spent = @ + 1, !.redeemed = @ + 1]
  <2>1. i \in History /\ i.spent = hist[g].spent + 1 /\ i.redeemed = hist[g].redeemed
    BY <1>1 DEF History
  <2>2. hist[g].spent + 1 \in Nat /\ hist[g].redeemed + 1 \in Nat
    BY <1>1 DEF History
  <2>3. j \in History /\ j.spent = hist[g].spent + 1 /\ j.redeemed = hist[g].redeemed + 1
    BY <1>1, <2>2, Zenon DEF History
  <2>4. CASE hist' = [hist EXCEPT ![g].spent = @ + 1]
    <3>1. hist' = [hist EXCEPT ![g] = i]
      BY <1>1, <2>4 DEF History
    <3> HIDE DEF i
    <3> QED BY <2>1, <3>1
  <2>5. CASE /\ hist' = [hist EXCEPT ![g].spent = @ + 1, ![g].redeemed = @ + 1]
             /\ grant[g].brokered => connected
    <3>1. hist' = [hist EXCEPT ![g] = j]
      BY <1>1, <2>5, Zenon DEF History
    <3> HIDE DEF j
    <3> QED BY <2>3, <2>5, <3>1
  <2> QED BY <2>4, <2>5
<1>5. Moved(grant[g], hist[g], r, h)
  BY <1>2, <1>4 DEF Moved, Spent
<1> QED BY <1>1, <1>2, <1>3, <1>4, <1>5, MoveTable

\* A command token is redeemed.
LEMMA RedeemTable ==
  ASSUME IInv, NEW g \in GrantIds, grant[g].status # "absent", ~grant[g].consumed,
         Guarded(g) => grant[g].type = "once", \E t \in tokens : t.command /\ t.g = g,
         SetRow(grant, g, [grant[g] EXCEPT !.consumed = TRUE]),
         hist' = [hist EXCEPT ![g].redeemed = @ + 1], grant[g].brokered => connected
  PROVE  TableStep
<1> DEFINE r == [grant[g] EXCEPT !.consumed = TRUE]
           h == [hist[g] EXCEPT !.redeemed = @ + 1]
<1>1. /\ grant[g] \in Row /\ hist[g] \in History /\ hist \in [GrantIds -> History] /\ SweepOf(grant)
      /\ RowOK(grant[g], hist[g], tokens, g)
  BY DEF IInv, TypeOK, RowsOK, History, SweepOf
<1>2. r \in Row /\ r.status = grant[g].status /\ r.brokered = grant[g].brokered /\ r.ref = grant[g].ref
  BY <1>1, Zenon DEF Row
<1>3. h \in History /\ h.spent = hist[g].spent /\ h.redeemed = hist[g].redeemed + 1
  BY <1>1 DEF History
<1>4. hist' = [hist EXCEPT ![g] = h] /\ SetRow(grant, g, r)
  BY <1>1 DEF History
<1>5. GuardedRow(grant[g]) => /\ hist[g].spent = 1 /\ hist[g].redeemed = 0
                              /\ grant[g].status \notin {"absent", "pending", "approved", "denied", "withdrawn"}
  BY <1>1 DEF RowOK, Guarded, History
<1> HIDE DEF r, h
<1>6. Moved(grant[g], hist[g], r, h)
  BY <1>2, <1>3, <1>5 DEF Moved, Redeemed
<1> QED BY <1>1, <1>2, <1>3, <1>4, <1>6, MoveTable

LEMMA ConsumeTable ==
  ASSUME IInv, NEW c \in Calls, claimOnce(c) \/ markConsumed(c) \/ BrokerConsume(c)
  PROVE  TableStep
<1> DEFINE k == call[c]
<1>1. CallOK(k)
  BY TheCall
<1>2. k.g \in GrantIds /\ grant[k.g].status # "absent"
  BY <1>1 DEF claimOnce, markConsumed, BrokerConsume, CallOK, Targeted, Steps
<1>3. CASE claimOnce(c)
  <2>1. ~grant[k.g].brokered
    BY <1>1, <1>3 DEF claimOnce, CallOK
  <2>2. CASE Claimable(grant[k.g])
    BY <1>2, <1>3, <2>1, <2>2, SpendTable DEF claimOnce, Claimable
  <2>3. CASE ~Claimable(grant[k.g])
    BY <1>3, <2>3, QuietTable DEF claimOnce
  <2> QED BY <2>2, <2>3
<1>4. CASE markConsumed(c)
  <2>1. /\ ~grant[k.g].brokered /\ (Guarded(k.g) => grant[k.g].type = "once")
        /\ \E t \in tokens : t.command /\ t.g = k.g
    BY <1>1, <1>4 DEF markConsumed, CallOK
  <2>2. CASE ~grant[k.g].consumed
    BY <1>2, <1>4, <2>1, <2>2, RedeemTable DEF markConsumed
  <2>3. CASE grant[k.g].consumed
    BY <1>4, <2>3, QuietTable DEF markConsumed
  <2> QED BY <2>2, <2>3
<1>5. CASE BrokerConsume(c)
  <2>1. k.command => \E t \in tokens : t.command /\ t.g = k.g
    BY <1>1 DEF CallOK
  <2>2. CASE /\ connected /\ grant[k.g].type = "once" /\ k.command /\ ~grant[k.g].consumed
             /\ SetRow(grant, k.g, [grant[k.g] EXCEPT !.consumed = TRUE])
             /\ hist' = [hist EXCEPT ![k.g].redeemed = @ + 1]
    BY <1>2, <2>1, <2>2, RedeemTable
  <2>3. CASE /\ connected /\ grant[k.g].status = "approved" /\ SetStatus(grant, k.g, "used")
             /\ hist' = [hist EXCEPT ![k.g].spent = @ + 1, ![k.g].redeemed = @ + 1]
    BY <1>2, <2>3, SpendTable
  <2>4. CASE UNCHANGED <<grant, hist>>
    BY <2>4, QuietTable
  <2> QED BY <1>5, <2>2, <2>3, <2>4 DEF BrokerConsume
<1> QED BY <1>3, <1>4, <1>5

LEMMA ClaimTable ==
  ASSUME IInv, NEW c \in Calls, ClaimCommand(c)
  PROVE  TableStep
<1>1. call[c].g \in GrantIds
  BY TheCall DEF ClaimCommand, CallOK, Targeted, Steps
<1>2. CASE Claimable(grant[call[c].g])
  BY <1>1, <1>2, SpendTable DEF ClaimCommand, Claimable
<1>3. CASE ~Claimable(grant[call[c].g])
  BY <1>3, QuietTable DEF ClaimCommand
<1> QED BY <1>2, <1>3

LEMMA WithdrawTable ==
  ASSUME IInv, NEW c \in Calls, WithdrawWrite(c)
  PROVE  TableStep
<1> DEFINE g == call[c].g
           r == [grant[g] EXCEPT !.status = "withdrawn"]
<1>1. g \in GrantIds /\ grant[g].status # "absent" /\ UNCHANGED hist
  BY TheCall DEF WithdrawWrite, Unwritten, CallOK, Targeted, Steps
<1>2. CASE Withdrawable(grant[g])
  <2>1. /\ grant[g] \in Row /\ hist[g] \in History /\ SweepOf(grant)
        /\ hist' = [hist EXCEPT ![g] = hist[g]]
    BY <1>1 DEF IInv, TypeOK, History, SweepOf
  <2>2. r \in Row /\ r.status = "withdrawn" /\ r.brokered = grant[g].brokered /\ r.ref = grant[g].ref
    BY <2>1 DEF Row, Status
  <2>3. SetRow(grant, g, r)
    BY <1>2 DEF WithdrawWrite, SetStatus
  <2> HIDE DEF r
  <2>4. Moved(grant[g], hist[g], r, hist[g])
    BY <1>1, <1>2, <2>2 DEF Moved, Withdrawn
  <2> QED BY <1>1, <2>1, <2>2, <2>3, <2>4, MoveTable
<1>3. CASE ~Withdrawable(grant[g])
  BY <1>1, <1>3, QuietTable DEF WithdrawWrite
<1> QED BY <1>2, <1>3

\* Every step of every handler is a TableStep.
LEMMA EveryTableStep ==
  ASSUME IInv, [Next]_vars
  PROVE  TableStep
<1>1. CASE UNCHANGED vars
  BY <1>1, QuietTable DEF vars
<1>2. CASE RevokeConnection \/ Poll \/ Tick \/ Crash
  BY <1>2, QuietTable DEF RevokeConnection, Poll, Tick, Crash, Unwritten
<1>3. ASSUME NEW c \in Calls, Start(c) PROVE TableStep
  <2>1. ASSUME NEW b, NEW t, NEW auto, Submit(c, b, t, auto) PROVE TableStep
    BY <2>1, QuietTable DEF Submit, Unwritten
  <2>2. ASSUME NEW b, NEW ref, SubmitReferenced(c, b, ref) PROVE TableStep
    BY <2>2, QuietTable DEF SubmitReferenced, FindReferenced, Unwritten
  <2>3. ASSUME NEW g, NEW t, Approve(c, g, t) PROVE TableStep
    BY <2>3, QuietTable DEF Approve, ReadToApprove, Unwritten
  <2>4. ASSUME NEW g, Deny(c, g) \/ Revoke(c, g) \/ RequestToken(c, g) PROVE TableStep
    BY <2>4, QuietTable DEF Deny, Revoke, ReadToDecide, RequestToken, introspectGrant, Unwritten
  <2>5. ASSUME NEW g, NEW olds, NEW t, Extend(c, g, olds, t) PROVE TableStep
    BY <2>5, QuietTable DEF Extend, Unwritten
  <2>6. ASSUME NEW t, Consume(c, t) PROVE TableStep
    BY <2>6, QuietTable DEF Consume, introspectGrant, Unwritten
  <2>7. ASSUME NEW b, NEW ref, NEW auto, NEW t, Authorize(c, b, ref, auto, t) PROVE TableStep
    BY <2>7, QuietTable DEF Authorize, Decide, FindReferenced, Unwritten
  <2>8. ASSUME NEW b, NEW ref, Withdraw(c, b, ref) PROVE TableStep
    BY <2>8, QuietTable DEF Withdraw, Unwritten
  <2> QED BY <1>3, <2>1, <2>2, <2>3, <2>4, <2>5, <2>6, <2>7, <2>8 DEF Start
<1>4. ASSUME NEW c \in Calls, Continue(c) PROVE TableStep
  <2>1. ASSUME NEW g \in GrantIds, Create(c, g) \/ CreateReferenced(c, g) \/ ExtendRead(c, g)
        PROVE  TableStep
    BY <2>1, CreateTable, CreateReferencedTable, QuietTable DEF ExtendRead, Unwritten
  <2>2. CASE CreateNone(c) \/ AutoRead(c) \/ Reread(c) \/ ExtendApprove(c) \/ Introspected(c)
    BY <2>2, QuietTable DEF CreateNone, AutoRead, Reread, ExtendApprove, ReadToApprove, Introspected, Unwritten
  <2>3. CASE IssueToken(c) \/ UseRead(c) \/ Command(c)
    BY <2>3, QuietTable DEF IssueToken, UseRead, introspectGrant, Command, Unwritten
  <2>4. ASSUME NEW auto, NEW t, Retry(c, auto, t) PROVE TableStep
    BY <2>4, QuietTable DEF Retry, Decide, FindReferenced, Unwritten
  <2>5. CASE DenyWrite(c) \/ RevokeWrite(c) \/ ExpireWrite(c) \/ WidenWrite(c) \/ ExtendRevoke(c)
    BY <2>5, StatusTable
  <2>6. CASE AutoApprove(c) \/ ApproveWrite(c) \/ ClaimCommand(c) \/ WithdrawWrite(c)
    BY <2>6, AutoApproveTable, ApproveWriteTable, ClaimTable, WithdrawTable
  <2>7. CASE claimOnce(c) \/ markConsumed(c) \/ BrokerConsume(c)
    BY <2>7, ConsumeTable
  <2> QED BY <1>4, <2>1, <2>2, <2>3, <2>4, <2>5, <2>6, <2>7 DEF Continue
<1> QED BY <1>1, <1>2, <1>3, <1>4 DEF Next

-----------------------------------------------------------------------------
(* The theorems                                                            *)

\* The row a step leaves at g: what a sweep made of it, or the row written.
LEMMA RowAfter ==
  ASSUME IInv, [Next]_vars, NEW g \in GrantIds
  PROVE  \E rows : /\ SweepOf(rows) /\ rows \in [GrantIds -> Row]
                   /\ RowOK(rows[g], hist[g], tokens, g)
                   /\ rows[g].status # "expired" => rows[g] = grant[g]
                   /\ rows[g].status = "absent" <=> grant[g].status = "absent"
                   /\ rows[g].brokered = grant[g].brokered /\ rows[g].ref = grant[g].ref
                   /\ rows[g] = grant[g] \/ grant[g].status = "pending"
                   /\ \/ grant'[g] = rows[g] /\ hist'[g] = hist[g]
                      \/ Opened(rows, g, grant'[g], hist'[g])
                      \/ Moved(rows[g], hist[g], grant'[g], hist'[g])
<1>1. PICK rows : SweepOf(rows) /\ ((grant' = rows /\ hist' = hist) \/ OneRow(rows))
  BY EveryTableStep DEF TableStep
<1>2. /\ rows \in [GrantIds -> Row]
      /\ RowOK(rows[g], hist[g], tokens, g)
      /\ rows[g].status # "expired" => rows[g] = grant[g]
      /\ rows[g].status = "absent" <=> grant[g].status = "absent"
      /\ rows[g].brokered = grant[g].brokered /\ rows[g].ref = grant[g].ref
  BY <1>1, Sweeping DEF IInv
<1>3. rows[g] = grant[g] \/ grant[g].status = "pending"
  BY <1>1 DEF SweepOf, expirePendingRequests, OverdueAt
<1>4. CASE grant' = rows /\ hist' = hist
  BY <1>1, <1>2, <1>3, <1>4
<1>5. CASE OneRow(rows)
  <2>1. PICK o \in GrantIds, r \in Row, h \in History :
          /\ grant' = [rows EXCEPT ![o] = r] /\ hist' = [hist EXCEPT ![o] = h]
          /\ Opened(rows, o, r, h) \/ Moved(rows[o], hist[o], r, h)
    BY <1>5 DEF OneRow
  <2>2. hist \in [GrantIds -> History]
    BY DEF IInv, TypeOK, History
  <2>3. CASE o = g
    BY <1>1, <1>2, <1>3, <2>1, <2>2, <2>3
  <2>4. CASE o # g
    BY <1>1, <1>2, <1>3, <2>1, <2>2, <2>4
  <2> QED BY <2>3, <2>4
<1> QED BY <1>1, <1>4, <1>5

\* What expired is never approved, denied or spent by a handler that read it
\* before; only a widening approval asks again (updateStatus): ExpiredIsFinal.
THEOREM ExpiryIsFinal == Spec => ExpiredIsFinal
<1>1. IInv /\ [Next]_vars =>
        [\A g \in GrantIds : grant[g].status = "expired" =>
           \/ grant'[g].status \in {"expired", "revoked"}
           \/ AllowExtension /\ ~Guarded(g) /\ grant'[g].status = "pending"]_vars
  <2> SUFFICES ASSUME IInv, [Next]_vars, NEW g \in GrantIds, grant[g].status = "expired"
               PROVE  \/ grant'[g].status \in {"expired", "revoked"}
                      \/ AllowExtension /\ ~Guarded(g) /\ grant'[g].status = "pending"
    OBVIOUS
  <2>1. PICK rows : /\ rows[g] = grant[g] \/ grant[g].status = "pending"
                    /\ \/ grant'[g] = rows[g] /\ hist'[g] = hist[g]
                       \/ Opened(rows, g, grant'[g], hist'[g])
                       \/ Moved(rows[g], hist[g], grant'[g], hist'[g])
    BY RowAfter
  <2>2. rows[g] = grant[g]
    BY <2>1
  <2> QED BY <2>1, <2>2 DEF Opened, Moved, Approved, Closed, Reopened, Withdrawn, Spent, Redeemed,
                            Refused, Withdrawable, Guarded, GuardedRow
<1> QED BY <1>1, Invariance, PTL DEF Spec, ExpiredIsFinal

\* A brokered grant redeems nothing after its connection was revoked, whatever
\* was read or issued before (the broker store's consume): RevokedConnectionIsFinal.
THEOREM RevocationIsFinal == Spec => RevokedConnectionIsFinal
<1>1. IInv /\ [Next]_vars =>
        [\A g \in GrantIds : ~connected /\ grant[g].brokered => hist'[g].redeemed = hist[g].redeemed]_vars
  <2> SUFFICES ASSUME IInv, [Next]_vars, NEW g \in GrantIds, ~connected, grant[g].brokered
               PROVE  hist'[g].redeemed = hist[g].redeemed
    OBVIOUS
  <2>1. PICK rows : /\ rows[g].brokered = grant[g].brokered
                    /\ \/ grant'[g] = rows[g] /\ hist'[g] = hist[g]
                       \/ Opened(rows, g, grant'[g], hist'[g])
                       \/ Moved(rows[g], hist[g], grant'[g], hist'[g])
    BY RowAfter
  <2> QED BY <2>1 DEF Opened, Moved, Approved, Closed, Reopened, Withdrawn, Spent, Redeemed
<1> QED BY <1>1, Invariance, PTL DEF Spec, RevokedConnectionIsFinal

\* createReferenced looks its reference up and inserts in one transaction, so
\* two requests never share one: OneGrantPerReference.
THEOREM ReferencesAreUnique == Spec => []OneGrantPerReference
<1>1. Init => OneGrantPerReference
  BY DEF Init, OneGrantPerReference, NoRow
<1>2. IInv /\ OneGrantPerReference /\ [Next]_vars => OneGrantPerReference'
  <2> SUFFICES ASSUME IInv, OneGrantPerReference, [Next]_vars,
                      NEW g \in GrantIds, NEW h \in GrantIds,
                      grant'[g].status # "absent", grant'[h].status # "absent",
                      grant'[g].ref # NoRef, grant'[g].ref = grant'[h].ref,
                      grant'[g].brokered = grant'[h].brokered
               PROVE  g = h
    BY DEF OneGrantPerReference
  <2>1. PICK rows : SweepOf(rows) /\ ((grant' = rows /\ hist' = hist) \/ OneRow(rows))
    BY EveryTableStep DEF TableStep
  <2>2. /\ rows \in [GrantIds -> Row]
        /\ \A o \in GrantIds : /\ rows[o].status = "absent" <=> grant[o].status = "absent"
                               /\ rows[o].brokered = grant[o].brokered /\ rows[o].ref = grant[o].ref
    BY <2>1, Sweeping DEF IInv
  <2>3. \A a, b \in GrantIds : /\ rows[a].status # "absent" /\ rows[b].status # "absent"
                               /\ rows[a].ref # NoRef /\ rows[a].ref = rows[b].ref
                               /\ rows[a].brokered = rows[b].brokered
                               => a = b
    BY <2>2 DEF OneGrantPerReference
  <2>4. CASE grant' = rows
    BY <2>3, <2>4
  <2>5. CASE OneRow(rows)
    <3>1. PICK o \in GrantIds, r \in Row, i \in History :
            /\ grant' = [rows EXCEPT ![o] = r]
            /\ Opened(rows, o, r, i) \/ Moved(rows[o], hist[o], r, i)
      BY <2>5 DEF OneRow
    <3>2. grant'[o] = r /\ \A a \in GrantIds : a # o => grant'[a] = rows[a]
      BY <2>2, <3>1
    <3>3. CASE Opened(rows, o, r, i)
      <4>1. r.ref # NoRef => ~ \E a \in GrantIds : /\ rows[a].status # "absent" /\ rows[a].ref = r.ref
                                                   /\ rows[a].brokered = r.brokered
        BY <3>3 DEF Opened
      <4> QED BY <2>3, <3>2, <4>1
    <3>4. CASE Moved(rows[o], hist[o], r, i)
      <4>1. rows[o].status # "absent" /\ r.brokered = rows[o].brokered /\ r.ref = rows[o].ref
        BY <3>4 DEF Moved
      <4> QED BY <2>3, <3>2, <4>1
    <3> QED BY <3>1, <3>3, <3>4
  <2> QED BY <2>1, <2>4, <2>5
<1> QED BY <1>1, <1>2, Invariance, PTL DEF Spec

\* The inbox counts finitely many requests, and not more than its limit.
InboxInv == IsFiniteSet(PendingBrokered(grant)) /\ BrokerInboxBounded

\* Only save and createReferenced add to the owner's inbox, and they count it in
\* the transaction that inserts (BROKER_PENDING_LIMIT): BrokerInboxBounded.
THEOREM InboxIsBounded == Spec => []BrokerInboxBounded
<1>1. Init => InboxInv
  <2> SUFFICES ASSUME Init PROVE InboxInv
    OBVIOUS
  <2>1. PendingBrokered(grant) = {}
    BY DEF Init, PendingBrokered, NoRow
  <2>2. IsFiniteSet({}) /\ Cardinality({}) = 0
    BY FS_EmptySet
  <2> QED BY <2>1, <2>2, ShapeAssumption DEF InboxInv, BrokerInboxBounded
<1>2. IInv /\ InboxInv /\ [Next]_vars => InboxInv'
  <2> SUFFICES ASSUME IInv, InboxInv, [Next]_vars PROVE InboxInv'
    OBVIOUS
  <2> DEFINE P == PendingBrokered(grant)
  <2>0. IsFiniteSet(P) /\ Cardinality(P) \in Nat /\ Cardinality(P) <= BrokerLimit /\ BrokerLimit \in Nat
    BY FS_CardinalityType, ShapeAssumption DEF InboxInv, BrokerInboxBounded
  <2>1. PICK rows : SweepOf(rows) /\ ((grant' = rows /\ hist' = hist) \/ OneRow(rows))
    BY EveryTableStep DEF TableStep
  <2>2. /\ rows \in [GrantIds -> Row]
        /\ \A o \in GrantIds : /\ rows[o].status # "expired" => rows[o] = grant[o]
                               /\ rows[o].brokered = grant[o].brokered
    BY <2>1, Sweeping DEF IInv
  <2>3. PendingBrokered(rows) \subseteq P
    BY <2>2 DEF PendingBrokered
  <2>4. IsFiniteSet(PendingBrokered(rows)) /\ Cardinality(PendingBrokered(rows)) <= Cardinality(P)
    BY <2>0, <2>3, FS_Subset
  <2>5. ASSUME PendingBrokered(grant') \subseteq PendingBrokered(rows) PROVE InboxInv'
    <3>1. /\ IsFiniteSet(PendingBrokered(grant'))
          /\ Cardinality(PendingBrokered(grant')) <= Cardinality(PendingBrokered(rows))
      BY <2>4, <2>5, FS_Subset
    <3>2. Cardinality(PendingBrokered(grant')) \in Nat /\ Cardinality(PendingBrokered(rows)) \in Nat
      BY <2>4, <3>1, FS_CardinalityType
    <3> HIDE DEF P
    <3>3. Cardinality(PendingBrokered(grant')) <= BrokerLimit
      BY <2>0, <2>4, <3>1, <3>2
    <3> QED BY <3>1, <3>3 DEF InboxInv, BrokerInboxBounded, PendingBrokered
  <2>6. CASE grant' = rows
    BY <2>5, <2>6
  <2>7. CASE OneRow(rows)
    <3>1. PICK o \in GrantIds, r \in Row, i \in History :
            /\ grant' = [rows EXCEPT ![o] = r]
            /\ Opened(rows, o, r, i) \/ Moved(rows[o], hist[o], r, i)
      BY <2>7 DEF OneRow
    <3>2. grant'[o] = r /\ \A a \in GrantIds : a # o => grant'[a] = rows[a]
      BY <2>2, <3>1
    <3>3. CASE Moved(rows[o], hist[o], r, i)
      <4>1. r.status = "pending" /\ r.brokered => rows[o].status = "pending" /\ rows[o].brokered
        BY <3>3 DEF Moved, Approved, Closed, Reopened, Withdrawn, Spent, Redeemed, GuardedRow
      <4>2. PendingBrokered(grant') \subseteq PendingBrokered(rows)
        BY <3>2, <4>1 DEF PendingBrokered
      <4> QED BY <2>5, <4>2
    <3>4. CASE Opened(rows, o, r, i)
      <4>1. CASE ~r.brokered
        <5>1. PendingBrokered(grant') \subseteq PendingBrokered(rows)
          BY <3>2, <4>1 DEF PendingBrokered
        <5> QED BY <2>5, <5>1
      <4>2. CASE r.brokered
        <5>1. /\ Cardinality(PendingBrokered(rows)) < BrokerLimit
              /\ rows[o].status = "absent" /\ r.status = "pending"
          BY <3>4, <4>2 DEF Opened
        <5>2. o \notin PendingBrokered(rows)
          BY <5>1 DEF PendingBrokered
        <5>3. PendingBrokered(grant') = PendingBrokered(rows) \cup {o}
          BY <3>2, <4>2, <5>1 DEF PendingBrokered
        <5>4. /\ IsFiniteSet(PendingBrokered(grant'))
              /\ Cardinality(PendingBrokered(grant')) = Cardinality(PendingBrokered(rows)) + 1
          BY <2>4, <5>2, <5>3, FS_AddElement
        <5>5. Cardinality(PendingBrokered(rows)) \in Nat
          BY <2>4, FS_CardinalityType
        <5>6. Cardinality(PendingBrokered(grant')) <= BrokerLimit
          BY <2>0, <5>1, <5>4, <5>5
        <5> QED BY <5>4, <5>6 DEF InboxInv, BrokerInboxBounded, PendingBrokered
      <4> QED BY <4>1, <4>2
    <3> QED BY <3>1, <3>3, <3>4
  <2> QED BY <2>1, <2>6, <2>7
<1>3. InboxInv => BrokerInboxBounded
  BY DEF InboxInv
<1> QED BY <1>1, <1>2, <1>3, Invariance, PTL DEF Spec

-----------------------------------------------------------------------------
(* The handlers implement GrantPromise                                     *)

\* A guarded row's part in the promise: phase, spent and redeemed of one grant.
PhaseOf(g)  == PromisePhase(g)
WasSpent(g) == Guarded(g) /\ hist[g].spent > 0
WasRedeemed(g) == Guarded(g) /\ hist[g].redeemed > 0

\* What a step does to one grant, as GrantPromise sees it.
GrantMove(g) ==
  \/ /\ PhaseOf(g)' \in Promise!Moves[PhaseOf(g)]
     /\ WasSpent(g)' <=> WasSpent(g)
     /\ WasRedeemed(g)' <=> WasRedeemed(g)
  \/ /\ PhaseOf(g) = "granted" /\ PhaseOf(g)' = "spent"
     /\ ~WasSpent(g) /\ WasSpent(g)' /\ ~WasRedeemed(g)
  \/ /\ PhaseOf(g) \in {"spent", "void"} /\ PhaseOf(g)' = PhaseOf(g)
     /\ WasSpent(g) /\ WasSpent(g)' /\ ~WasRedeemed(g) /\ WasRedeemed(g)'

LEMMA EveryGrantMoves ==
  ASSUME IInv, [Next]_vars, NEW g \in GrantIds
  PROVE  GrantMove(g)
<1>1. PICK rows : /\ rows \in [GrantIds -> Row]
                  /\ RowOK(rows[g], hist[g], tokens, g)
                  /\ rows[g].status # "expired" => rows[g] = grant[g]
                  /\ rows[g].status = "absent" <=> grant[g].status = "absent"
                  /\ rows[g].brokered = grant[g].brokered /\ rows[g].ref = grant[g].ref
                  /\ rows[g] = grant[g] \/ grant[g].status = "pending"
                  /\ \/ grant'[g] = rows[g] /\ hist'[g] = hist[g]
                     \/ Opened(rows, g, grant'[g], hist'[g])
                     \/ Moved(rows[g], hist[g], grant'[g], hist'[g])
  BY RowAfter
<1>2. /\ hist[g] \in History /\ hist'[g] \in History /\ grant[g] \in Row /\ grant'[g] \in Row
      /\ RowOK(grant[g], hist[g], tokens, g)
  <2>1. IInv'
    BY NextInvariant
  <2> QED BY <2>1 DEF IInv, TypeOK, RowsOK, History
<1>3. Guarded(g) <=> GuardedRow(rows[g])
  BY <1>1 DEF Guarded, GuardedRow
<1>4. CASE grant'[g] = rows[g] /\ hist'[g] = hist[g]
  <2>1. /\ WasSpent(g)' <=> WasSpent(g)
        /\ WasRedeemed(g)' <=> WasRedeemed(g)
    BY <1>3, <1>4 DEF WasSpent, WasRedeemed, Guarded
  <2>2. CASE rows[g] = grant[g]
    BY <1>2, <1>4, <2>1, <2>2 DEF GrantMove, PhaseOf, PromisePhase, Guarded, Promise!Moves, Row, Status
  <2>3. CASE rows[g] # grant[g]
    <3>1. rows[g].status = "expired" /\ grant[g].status = "pending"
      BY <1>1, <2>3
    <3> QED BY <1>3, <1>4, <2>1, <3>1 DEF GrantMove, PhaseOf, PromisePhase, Guarded, Promise!Moves
  <2> QED BY <2>2, <2>3
<1>5. CASE Opened(rows, g, grant'[g], hist'[g])
  <2>1. /\ grant[g].status = "absent" /\ grant'[g].status = "pending" /\ hist'[g] = hist[g]
        /\ ~Guarded(g) /\ hist[g].spent = 0 /\ hist[g].redeemed = 0
    BY <1>1, <1>2, <1>5 DEF Opened, RowOK, Guarded
  <2>2. ~WasSpent(g) /\ ~WasSpent(g)' /\ ~WasRedeemed(g) /\ ~WasRedeemed(g)'
    BY <2>1 DEF WasSpent, WasRedeemed
  <2> QED BY <2>1, <2>2 DEF GrantMove, PhaseOf, PromisePhase, Promise!Moves
<1>6. CASE Moved(rows[g], hist[g], grant'[g], hist'[g])
  <2> DEFINE o == rows[g]
             p == grant'[g]
             h == hist[g]
             i == hist'[g]
  <2>1. Guarded(g)' <=> Guarded(g)
    BY <1>3, <1>6 DEF Moved, Guarded, GuardedRow
  <2>2. CASE ~Guarded(g)
    BY <2>1, <2>2 DEF GrantMove, PhaseOf, PromisePhase, WasSpent, WasRedeemed, Promise!Moves
  <2>3. CASE Guarded(g) /\ Approved(o, h, p, i)
    <3>1. o.status = "pending" /\ grant[g].status = "pending"
      BY <1>1, <1>3, <2>3 DEF Approved, Refused
    <3>2. (WasSpent(g)' <=> WasSpent(g)) /\ (WasRedeemed(g)' <=> WasRedeemed(g))
      BY <2>1, <2>3 DEF Approved, WasSpent, WasRedeemed
    <3> QED BY <2>1, <2>3, <3>1, <3>2 DEF Approved, GrantMove, PhaseOf, PromisePhase, Promise!Moves
  <2>4. CASE Guarded(g) /\ (Closed(o, h, p, i) \/ Withdrawn(o, h, p, i))
    <3>1. PhaseOf(g)' = "void" /\ grant[g].status # "absent"
      BY <1>1, <1>6, <2>1, <2>4 DEF Closed, Withdrawn, PhaseOf, PromisePhase, Moved
    <3>2. (WasSpent(g)' <=> WasSpent(g)) /\ (WasRedeemed(g)' <=> WasRedeemed(g))
      BY <2>1, <2>4 DEF Closed, Withdrawn, WasSpent, WasRedeemed
    <3> QED BY <2>4, <3>1, <3>2 DEF GrantMove, PhaseOf, PromisePhase, Promise!Moves
  <2>5. CASE Guarded(g) /\ Reopened(o, h, p, i)
    BY <1>3, <2>5 DEF Reopened
  <2>6. CASE Guarded(g) /\ Spent(o, h, p, i)
    <3>1. o = grant[g] /\ o.status = "approved" /\ p.status = "used"
      BY <1>1, <2>6 DEF Spent
    <3>2. h.spent = 0 /\ h.redeemed = 0 /\ i.spent = 1
      BY <1>1, <1>2, <1>3, <2>6, <3>1 DEF Spent, RowOK, History
    <3> QED BY <2>1, <2>6, <3>1, <3>2 DEF GrantMove, PhaseOf, PromisePhase, WasSpent, WasRedeemed
  <2>7. CASE Guarded(g) /\ Redeemed(o, h, p, i)
    <3>1. /\ h.spent = 1 /\ h.redeemed = 0 /\ i.spent = 1 /\ i.redeemed = 1
          /\ p.status = o.status /\ o.status \notin {"absent", "pending", "approved"}
      BY <1>3, <2>7 DEF Redeemed, History
    <3>2. CASE o = grant[g]
      BY <2>1, <2>7, <3>1, <3>2 DEF GrantMove, PhaseOf, PromisePhase, WasSpent, WasRedeemed
    <3>3. CASE o # grant[g]
      <4>1. grant[g].status = "pending"
        BY <1>1, <3>3
      <4> QED BY <1>2, <2>7, <3>1, <4>1 DEF RowOK, Guarded, History
    <3> QED BY <3>2, <3>3
  <2> QED BY <1>6, <2>2, <2>3, <2>4, <2>5, <2>6, <2>7 DEF Moved
<1> QED BY <1>1, <1>4, <1>5, <1>6

\* The state GrantPromise sees.
Phase        == [g \in GrantIds |-> PromisePhase(g)]
SpentSet     == {g \in GrantIds : Guarded(g) /\ hist[g].spent > 0}
RedeemedSet  == {g \in GrantIds : Guarded(g) /\ hist[g].redeemed > 0}

LEMMA PromiseStep == IInv /\ [Next]_vars => Promise!Next
<1> SUFFICES ASSUME IInv, [Next]_vars PROVE Promise!Next
  OBVIOUS
<1>1. ASSUME NEW g \in GrantIds
      PROVE  Promise!Move(g) \/ Promise!Spend(g) \/ Promise!Redeem(g)
  <2>1. GrantMove(g)
    BY EveryGrantMoves
  <2>2. /\ Phase[g] = PhaseOf(g) /\ Phase'[g] = PhaseOf(g)'
        /\ g \in SpentSet <=> WasSpent(g)
        /\ g \in SpentSet' <=> WasSpent(g)'
        /\ g \in RedeemedSet <=> WasRedeemed(g)
        /\ g \in RedeemedSet' <=> WasRedeemed(g)'
    BY DEF Phase, PhaseOf, SpentSet, WasSpent, RedeemedSet, WasRedeemed
  <2>3. \/ Phase'[g] \in Promise!Moves[Phase[g]] /\ (g \in SpentSet' <=> g \in SpentSet)
           /\ (g \in RedeemedSet' <=> g \in RedeemedSet)
        \/ /\ Phase[g] = "granted" /\ Phase'[g] = "spent"
           /\ g \notin SpentSet /\ g \in SpentSet' /\ g \notin RedeemedSet
        \/ /\ Phase[g] \in {"spent", "void"} /\ Phase'[g] = Phase[g]
           /\ g \in SpentSet /\ g \in SpentSet' /\ g \notin RedeemedSet /\ g \in RedeemedSet'
    BY <2>1, <2>2 DEF GrantMove
  <2> QED BY <2>3 DEF Phase, SpentSet, RedeemedSet, Promise!Move, Promise!Spend, Promise!Redeem, Promise!Kept
<1> QED BY <1>1 DEF Promise!Next

\* However handlers, retries, races and restarts interleave, brokered and
\* referenced grants behave as GrantPromise says: ImplementsPromise.
THEOREM GrantsKeepPromise == Spec => ImplementsPromise
<1>1. Init => Promise!Init
  BY DEF Init, Promise!Init, PromisePhase, Guarded, GuardedRow, NoRow
<1>2. IInv /\ [Next]_vars => Promise!Next
  BY PromiseStep
<1> QED BY <1>1, <1>2, Invariance, PTL DEF Spec, ImplementsPromise, Promise!Spec


=============================================================================
