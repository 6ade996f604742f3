------------------------------- MODULE Grants -------------------------------
(***************************************************************************)
(* The life of permission grants in the identity provider: the SQLite      *)
(* grant store (apps/openape-free-idp) and the HTTP handlers over it       *)
(* (packages/grants, modules/nuxt-auth-idp).                               *)
(*                                                                         *)
(* A handler awaits the store between reading a row and writing it, so a   *)
(* call is a small process: `call[c].at' names the await it is parked at   *)
(* and the other fields hold what it read before.  Each store operation is *)
(* one SQLite statement or one immediate transaction, hence one action.    *)
(***************************************************************************)
EXTENDS Naturals, FiniteSets

CONSTANTS
  GrantIds,       \* grant ids the run may create
  NoGrant,        \* "no grant yet" in a call
  Calls,          \* slots for HTTP calls in progress
  Refs,           \* client-chosen references
  NoRef,          \* the request carries no reference
  Requesters,     \* subset of BOOLEAN: TRUE is an identity behind a broker
  AllowPlain,     \* whether requests without a reference are made
  AllowExtension, \* whether approvals may widen or extend (plain grants)
  GrantTypes,     \* subset of {"once", "timed", "always"}
  PendingTTL,     \* PENDING_REQUEST_TTL_SECONDS
  Duration,       \* duration of a timed approval
  TokenLife,      \* lifetime of an AuthZ-JWT of a once or always grant
  CommandLife,    \* COMMAND_TOKEN_LIFETIME_SECONDS
  BrokerLimit,    \* BROKER_PENDING_LIMIT
  MaxTries,       \* attempts of authorizeProgramCall
  MaxNow,         \* bound of the clock
  MaxApprovals,   \* bound on approvals of one grant (extension can repeat)
  Never           \* expires_at is not set: later than every clock value

ASSUME TimeAssumption ==
  /\ PendingTTL \in Nat /\ Duration \in Nat \ {0} /\ TokenLife \in Nat \ {0}
  /\ CommandLife \in Nat \ {0} /\ MaxNow \in Nat /\ Never \in Nat
  /\ Never > MaxNow + PendingTTL + Duration + TokenLife + CommandLife

ASSUME ShapeAssumption ==
  /\ NoGrant \notin GrantIds /\ NoRef \notin Refs
  /\ Requesters \subseteq BOOLEAN /\ AllowPlain \in BOOLEAN /\ AllowExtension \in BOOLEAN
  /\ GrantTypes \subseteq {"once", "timed", "always"}
  /\ BrokerLimit \in Nat /\ MaxTries \in Nat /\ MaxApprovals \in Nat

VARIABLES
  now,        \* Date.now() in coarse units
  grant,      \* the grants table
  connected,  \* the broker connection is active
  tokens,     \* tokens handed to clients
  call,       \* HTTP calls in progress
  hist        \* history: approvals written, times spent, times redeemed

vars == <<now, grant, connected, tokens, call, hist>>

-----------------------------------------------------------------------------
(* Data                                                                    *)

Time   == 0..Never
Status == {"absent", "pending", "approved", "denied", "revoked", "expired", "used", "withdrawn"}
Types  == {"once", "timed", "always"}

Row == [status: Status, type: Types, brokered: BOOLEAN, ref: Refs \cup {NoRef},
        created: Time, decided: Time, expires: Time, consumed: BOOLEAN]

NoRow == [status |-> "absent", type |-> "once", brokered |-> FALSE, ref |-> NoRef,
          created |-> 0, decided |-> 0, expires |-> Never, consumed |-> FALSE]

Token == [g: GrantIds, command: BOOLEAN, exp: Time]

Steps == {"idle", "approveRead", "approve", "reread", "issue", "deny", "revoke", "withdraw",
          "expire", "introspected", "use", "claim", "mark", "brokerConsume",
          "decide", "create", "createReferenced", "autoApprove", "autoRead",
          "command", "claimCommand", "widen", "extend", "revokeOld"}

Call == [at: Steps, g: GrantIds \cup {NoGrant}, op: {"none", "token", "consume", "use", "submit", "authorize"},
         type: Types, until: Time, since: 0..MaxNow, command: BOOLEAN, brokered: BOOLEAN, ref: Refs \cup {NoRef},
         old: GrantIds \cup {NoGrant}, olds: SUBSET GrantIds, tries: 0..MaxTries]

Idle == [at |-> "idle", g |-> NoGrant, op |-> "none", type |-> "once", until |-> 0, since |-> 0,
         command |-> FALSE, brokered |-> FALSE, ref |-> NoRef,
         old |-> NoGrant, olds |-> {}, tries |-> 0]

\* Steps whose store operation begins with the sweep.
Writes == {"create", "createReferenced", "autoApprove", "approve", "deny", "revoke",
           "expire", "widen", "revokeOld"}

\* Brokered and referenced grants: the store lets them be decided only once.
GuardedRow(r) == r.brokered \/ r.ref # NoRef
Guarded(g)    == GuardedRow(grant[g])

\* Seeded fault: the command token ignores the end of its grant.
EarlierIgnored(a, b) == a

Earlier(a, b) == IF a < b THEN a ELSE b

Init ==
  /\ now = 0
  /\ grant = [g \in GrantIds |-> NoRow]
  /\ connected = TRUE
  /\ tokens = {}
  /\ call = [c \in Calls |-> Idle]
  /\ hist = [g \in GrantIds |-> [approved |-> 0, spent |-> 0, redeemed |-> 0]]

-----------------------------------------------------------------------------
(* The store                                                               *)

\* Seeded fault: the sweep compares the wrong way round.
OverdueNever(r, at) == r.status = "pending" /\ at + PendingTTL < r.created

\* Reads and guarded writes first expire what is overdue.  The cutoff is taken
\* when that sweep starts, and the statement it precedes runs later.
OverdueAt(r, at) == r.status = "pending" /\ r.created + PendingTTL < at
Overdue(r)       == OverdueAt(r, now)

expirePendingRequests(at) ==
  [g \in GrantIds |-> IF OverdueAt(grant[g], at) THEN [grant[g] EXCEPT !.status = "expired"]
                                                 ELSE grant[g]]

\* The table a read sees, and those a write may meet: its sweep started at
\* some time since the call's last step.
Current   == expirePendingRequests(now)
Swept(c)  == {expirePendingRequests(at) : at \in call[c].since..now}

\* Seeded fault: the refusal forgets that a guarded grant is decided once.
RefusedIfExpired(r, status) ==
  r.status = "withdrawn" \/ (status \in {"approved", "denied"} /\ r.status = "expired")

\* Seeded fault: the refusal forgets plain requests that expired.
RefusedIfGuarded(r, status) ==
  \/ r.status = "withdrawn"
  \/ status \in {"approved", "denied"} /\ r.status # "pending" /\ GuardedRow(r)

\* The refusals of updateStatus; every other overwrite is unconditional.
Refused(r, status) ==
  \/ r.status = "withdrawn"
  \/ /\ status \in {"approved", "denied"}
     /\ r.status # "pending"
     /\ (GuardedRow(r) \/ r.status = "expired")

isGrantExpired(r) == r.status = "approved" /\ r.type = "timed" /\ now >= r.expires

\* Seeded fault: the claim is not conditional on the status.
ClaimableAnyway(r) == TRUE

\* claimOnce updates WHERE status = 'approved'.
Claimable(r) == r.status = "approved"

\* Seeded fault: the withdrawal trusts the status read before its transaction.
WithdrawableAnyway(r) == TRUE

\* withdraw reads the status again inside its transaction.
Withdrawable(r) == r.status = "pending" \/ (r.status = "approved" /\ r.type = "once")

\* recordToken: the brokered token is audited in a transaction that checks again.
recordToken(r) == r.brokered => connected /\ r.status = "approved" /\ r.expires > now

PendingBrokered(rows) == {g \in GrantIds : rows[g].brokered /\ rows[g].status = "pending"}

Goto(c, k) == call' = [call EXCEPT ![c] = [k EXCEPT !.since = IF k.at \in Writes THEN now ELSE 0]]
Done(c)    == call' = [call EXCEPT ![c] = Idle]
Free(c)    == call[c] = Idle
Reading    == grant' = Current

SetRow(rows, g, r) == grant' = [rows EXCEPT ![g] = r]
SetStatus(rows, g, status) == SetRow(rows, g, [rows[g] EXCEPT !.status = status])

\* What a call that only reads leaves alone.
Unwritten == UNCHANGED <<now, connected, tokens, hist>>

\* updateStatus as the last step of a call, or its refusal.
UpdateStatus(c, g, status, then) ==
  /\ Unwritten
  /\ \E rows \in Swept(c) :
       \/ Refused(rows[g], status) /\ grant' = rows /\ Done(c)
       \/ ~Refused(rows[g], status) /\ SetStatus(rows, g, status) /\ Goto(c, then)

-----------------------------------------------------------------------------
(* Requests: POST /api/grants and the creating part of authorize           *)

\* Bound: requests are made while the clock can still outlive their TTL.
ClockLeft == now + PendingTTL < MaxNow

NewRow(k) == [NoRow EXCEPT !.status = "pending", !.type = k.type, !.brokered = k.brokered,
                           !.ref = k.ref, !.created = k.since]

\* A continuing grant that covers the request is returned instead of asking.
Reusable(r, b) == r.status = "approved" /\ r.type # "once" /\ r.brokered = b /\ now < r.expires

\* POST /api/grants and the broker's create: the request will be stored as
\* pending.  A standing grant or a pre-approval hook may then approve it, but
\* never for brokered or delegated requests, nor where reuse already answers.
Submit(c, b, t, auto) ==
  /\ Free(c) /\ (AllowPlain \/ b)
  /\ Reading /\ Unwritten
  /\ auto => ~b /\ ~ \E g \in GrantIds : Reusable(Current[g], b)
  /\ Goto(c, [Idle EXCEPT !.at = "create", !.type = t, !.brokered = b,
                          !.op = IF auto THEN "submit" ELSE "none"])

\* Seeded fault: the inbox check is off by one.
AcceptedOneMore(rows, k) ==
  k.brokered => connected /\ Cardinality(PendingBrokered(rows)) <= BrokerLimit

\* A brokered request needs its connection and room in the owner's inbox.
Accepted(rows, k) == k.brokered => connected /\ Cardinality(PendingBrokered(rows)) < BrokerLimit

\* save: an insert, or for a brokered grant the sweep and a transaction.
Create(c, g) ==
  LET k == call[c] IN
  /\ k.at = "create" /\ grant[g].status = "absent" /\ ClockLeft /\ Unwritten
  /\ \E rows \in IF k.brokered THEN Swept(c) ELSE {grant} :
       IF Accepted(rows, k)
       THEN /\ SetRow(rows, g, NewRow(k))
            /\ IF k.op = "none" THEN Done(c) ELSE Goto(c, [k EXCEPT !.at = "autoApprove", !.g = g])
       ELSE grant' = rows /\ Done(c)

\* No id is left, or the clock is at its bound: the call is given up.
CreateNone(c) ==
  /\ call[c].at \in {"create", "createReferenced"}
  /\ \/ \A g \in GrantIds : grant[g].status # "absent"
     \/ ~ClockLeft
  /\ Done(c) /\ UNCHANGED grant /\ Unwritten

\* Seeded fault: only an open request holds its reference.
ReferencedOpen(rows, k) ==
  {g \in GrantIds : rows[g].status = "pending" /\ rows[g].ref = k.ref /\ rows[g].brokered = k.brokered}

\* createReferenced: insert or return, in one transaction.
Referenced(rows, k) ==
  {g \in GrantIds : rows[g].status # "absent" /\ rows[g].ref = k.ref /\ rows[g].brokered = k.brokered}

HasReference(rows, k) == Referenced(rows, k) # {}

\* authorize goes on to the command token of a grant it finds approved.
AnswerReferenced(c, k, rows, g) ==
  IF k.op = "authorize" /\ rows[g].status = "approved"
  THEN Goto(c, [k EXCEPT !.at = "command", !.g = g, !.type = rows[g].type, !.until = rows[g].expires])
  ELSE Done(c)

\* requestReferencedGrant: look the reference up before creating it.
FindReferenced(c, k) ==
  /\ Reading /\ Unwritten
  /\ IF HasReference(Current, k)
     THEN \E g \in Referenced(Current, k) : AnswerReferenced(c, k, Current, g)
     ELSE Goto(c, [k EXCEPT !.at = "createReferenced"])

SubmitReferenced(c, b, ref) ==
  /\ Free(c)
  /\ FindReferenced(c, [Idle EXCEPT !.brokered = b, !.ref = ref, !.op = "submit"])

CreateReferenced(c, g) ==
  LET k == call[c] IN
  /\ k.at = "createReferenced" /\ grant[g].status = "absent" /\ ClockLeft /\ Unwritten
  /\ \E rows \in Swept(c) :
       \/ /\ Accepted(rows, k) /\ ~HasReference(rows, k)
          /\ SetRow(rows, g, NewRow(k)) /\ Done(c)
       \/ /\ k.brokered => connected
          /\ grant' = rows
          /\ \E old \in Referenced(rows, k) : AnswerReferenced(c, k, rows, old)
       \/ /\ ~Accepted(rows, k)
          /\ (k.brokered => ~connected) \/ ~HasReference(rows, k)
          /\ grant' = rows /\ Done(c)

\* The policy's approval of the request just stored leaves expires_at unset.
AutoApprove(c) ==
  LET k == call[c] IN
  /\ k.at = "autoApprove" /\ hist[k.g].approved < MaxApprovals
  /\ UNCHANGED <<now, connected, tokens>>
  /\ \E rows \in Swept(c) :
       IF Refused(rows[k.g], "approved")
       THEN grant' = rows /\ Done(c) /\ UNCHANGED hist
       ELSE /\ SetRow(rows, k.g, [rows[k.g] EXCEPT !.status = "approved", !.decided = k.since])
            /\ hist' = [hist EXCEPT ![k.g].approved = @ + 1]
            /\ IF k.op = "submit" THEN Done(c) ELSE Goto(c, [k EXCEPT !.at = "autoRead"])

\* The approved row is read back before its command token is issued.
AutoRead(c) ==
  LET k == call[c] IN
  LET r == Current[k.g] IN
  /\ k.at = "autoRead" /\ Reading /\ Unwritten
  /\ IF r.status = "approved"
     THEN Goto(c, [k EXCEPT !.at = "command", !.type = r.type, !.until = r.expires])
     ELSE Done(c)

-----------------------------------------------------------------------------
(* Decisions: approve, deny, revoke, and approvals that widen or extend    *)

\* approveGrant up to its first write: the row is read, the type settled.
ReadToApprove(c, g, t) ==
  /\ Reading /\ Unwritten
  /\ IF Current[g].status = "pending" /\ (Current[g].ref # NoRef => t = "once")
     THEN Goto(c, [Idle EXCEPT !.at = "approve", !.g = g, !.type = t])
     ELSE Done(c)

\* The owner of a broker connection approves only while it is active.
Approve(c, g, t) ==
  /\ Free(c) /\ grant[g].status # "absent"
  /\ grant[g].brokered => connected
  /\ ReadToApprove(c, g, t)

\* Seeded fault: the expiry is written in milliseconds.
ApprovedRowMillis(r, k) ==
  [r EXCEPT !.status = "approved", !.type = k.type, !.decided = k.since,
            !.expires = IF k.type = "timed" THEN 1000 * (k.since + Duration) ELSE r.expires]

ApprovedRow(r, k) ==
  [r EXCEPT !.status = "approved", !.type = k.type, !.decided = k.since,
            !.expires = IF k.type = "timed" THEN k.since + Duration ELSE r.expires]

\* Bound: a grant is approved at most MaxApprovals times.
ApproveWrite(c) ==
  LET k == call[c] IN
  /\ k.at = "approve" /\ hist[k.g].approved < MaxApprovals
  /\ UNCHANGED <<now, connected, tokens>>
  /\ \E rows \in Swept(c) :
       IF Refused(rows[k.g], "approved")
       THEN grant' = rows /\ Done(c) /\ UNCHANGED hist
       ELSE /\ SetRow(rows, k.g, ApprovedRow(rows[k.g], k))
            /\ hist' = [hist EXCEPT ![k.g].approved = @ + 1]
            /\ Goto(c, [k EXCEPT !.at = "reread"])

\* approveGrant returns the row as stored now; its token is issued from that.
Reread(c) ==
  LET k == call[c] IN
  LET r == Current[k.g] IN
  /\ k.at = "reread" /\ Reading /\ Unwritten
  /\ IF r.status = "approved"
     THEN Goto(c, [k EXCEPT !.at = "issue", !.type = r.type, !.until = r.expires])
     ELSE Done(c)

\* The first findById of a deny or revoke call checks the status it may leave.
ReadToDecide(c, g, at, from) ==
  /\ Free(c) /\ grant[g].status # "absent" /\ Reading /\ Unwritten
  /\ Current[g].status \in from
  /\ Goto(c, [Idle EXCEPT !.at = at, !.g = g])

Deny(c, g)      == ReadToDecide(c, g, "deny", {"pending"})
DenyWrite(c)    == call[c].at = "deny" /\ UpdateStatus(c, call[c].g, "denied", Idle)
Revoke(c, g)    == ReadToDecide(c, g, "revoke", {"pending", "approved"})
RevokeWrite(c)  == call[c].at = "revoke" /\ UpdateStatus(c, call[c].g, "revoked", Idle)

\* approveGrantWithWidening (olds = {}) and approveGrantWithExtension: the
\* request is rewritten, the old grants revoked one by one, then it is approved.
Extend(c, g, olds, t) ==
  /\ Free(c) /\ AllowExtension /\ Reading /\ Unwritten
  /\ Current[g].status = "pending" /\ ~GuardedRow(Current[g])
  /\ \A o \in olds : Current[o].status = "approved"
  /\ Goto(c, [Idle EXCEPT !.at = "widen", !.g = g, !.olds = olds, !.type = t])

WidenWrite(c) ==
  LET k == call[c] IN
  k.at = "widen" /\ UpdateStatus(c, k.g, "pending", [k EXCEPT !.at = "extend"])

\* revokeGrant of the next old grant; its refusal abandons the approval.
ExtendRead(c, o) ==
  LET k == call[c] IN
  /\ k.at = "extend" /\ o \in k.olds /\ Reading /\ Unwritten
  /\ IF Current[o].status \in {"pending", "approved"}
     THEN Goto(c, [k EXCEPT !.at = "revokeOld", !.old = o])
     ELSE Done(c)

ExtendRevoke(c) ==
  LET k == call[c] IN
  /\ k.at = "revokeOld"
  /\ UpdateStatus(c, k.old, "revoked",
                  [k EXCEPT !.at = "extend", !.old = NoGrant, !.olds = @ \ {k.old}])

ExtendApprove(c) ==
  /\ call[c].at = "extend" /\ call[c].olds = {}
  /\ ReadToApprove(c, call[c].g, call[c].type)

-----------------------------------------------------------------------------
(* Tokens: approve and POST /api/grants/:id/token, authorize, consume      *)

\* What a call does with the row introspectGrant returned.
AfterIntrospect(k, r) ==
  CASE k.op = "token" /\ r.status = "approved" ->
         [k EXCEPT !.at = "issue", !.type = r.type, !.until = r.expires]
    [] k.op = "consume" /\ r.brokered ->
         [k EXCEPT !.at = "brokerConsume"]
    [] k.op = "consume" /\ ~r.brokered /\ r.status = "used" /\ k.command /\ r.type = "once" ->
         [k EXCEPT !.at = "mark"]
    [] k.op = "consume" /\ ~r.brokered /\ r.status = "approved" /\ r.type = "once" ->
         [k EXCEPT !.at = "use"]
    [] k.op = "use" /\ r.status = "approved" /\ r.type = "once" ->
         [k EXCEPT !.at = "claim"]
    [] OTHER -> Idle

introspectGrant(c, k) ==
  /\ Reading /\ Unwritten
  /\ Goto(c, IF isGrantExpired(Current[k.g]) THEN [k EXCEPT !.at = "expire"]
                                             ELSE AfterIntrospect(k, Current[k.g]))

ExpireWrite(c) ==
  /\ call[c].at = "expire"
  /\ UpdateStatus(c, call[c].g, "expired", [call[c] EXCEPT !.at = "introspected"])

Introspected(c) ==
  LET k == call[c] IN
  /\ k.at = "introspected" /\ Reading /\ Unwritten
  /\ Goto(c, AfterIntrospect(k, Current[k.g]))

RequestToken(c, g) ==
  /\ Free(c) /\ grant[g].status # "absent"
  /\ grant[g].brokered => connected
  /\ introspectGrant(c, [Idle EXCEPT !.g = g, !.op = "token"])

\* issueAuthzJWT from the row read before; a brokered token must be recorded.
TokenEnd(type, expires) ==
  CASE type = "timed"  -> expires
    [] type = "once"   -> now + TokenLife
    [] type = "always" -> now + TokenLife

IssueToken(c) ==
  LET k == call[c] IN
  LET exp == TokenEnd(k.type, k.until) IN
  /\ k.at = "issue" /\ Done(c) /\ UNCHANGED <<now, grant, connected, hist>>
  /\ IF exp > now /\ exp # Never /\ recordToken(grant[k.g])
     THEN tokens' = tokens \cup {[g |-> k.g, command |-> FALSE, exp |-> exp]}
     ELSE UNCHANGED tokens

\* POST /api/grants/:id/consume with a token whose signature and exp are valid.
Consume(c, t) ==
  /\ Free(c) /\ t.exp > now
  /\ introspectGrant(c, [Idle EXCEPT !.g = t.g, !.op = "consume", !.command = t.command])

UseRead(c) == call[c].at = "use" /\ introspectGrant(c, [call[c] EXCEPT !.op = "use"])

\* claimOnce by consume: spends and redeems.
claimOnce(c) ==
  LET g == call[c].g IN
  /\ call[c].at = "claim" /\ Done(c) /\ UNCHANGED <<now, connected, tokens>>
  /\ IF Claimable(grant[g])
     THEN /\ SetStatus(grant, g, "used")
          /\ hist' = [hist EXCEPT ![g].spent = @ + 1, ![g].redeemed = @ + 1]
     ELSE UNCHANGED <<grant, hist>>

\* Seeded fault: a redemption does not check that it is the first.
markConsumedAgain(c) ==
  LET g == call[c].g IN
  /\ call[c].at = "mark" /\ Done(c) /\ UNCHANGED <<now, connected, tokens>>
  /\ SetRow(grant, g, [grant[g] EXCEPT !.consumed = TRUE])
  /\ hist' = [hist EXCEPT ![g].redeemed = @ + 1]

\* The first redemption of the command token that spent the grant.
markConsumed(c) ==
  LET g == call[c].g IN
  /\ call[c].at = "mark" /\ Done(c) /\ UNCHANGED <<now, connected, tokens>>
  /\ IF ~grant[g].consumed
     THEN /\ SetRow(grant, g, [grant[g] EXCEPT !.consumed = TRUE])
          /\ hist' = [hist EXCEPT ![g].redeemed = @ + 1]
     ELSE UNCHANGED <<grant, hist>>

\* Seeded fault: consuming forgets that the connection may be revoked.
BrokerConsumeUnconnected(c) ==
  LET k == call[c] IN
  LET r == grant[k.g] IN
  /\ k.at = "brokerConsume" /\ Done(c) /\ UNCHANGED <<now, connected, tokens>>
  /\ CASE r.status = "used" /\ r.type = "once" /\ k.command /\ ~r.consumed ->
            /\ SetRow(grant, k.g, [r EXCEPT !.consumed = TRUE])
            /\ hist' = [hist EXCEPT ![k.g].redeemed = @ + 1]
       [] r.status = "approved" /\ r.expires > now /\ r.type = "once" ->
            /\ SetStatus(grant, k.g, "used")
            /\ hist' = [hist EXCEPT ![k.g].spent = @ + 1, ![k.g].redeemed = @ + 1]
       [] OTHER -> UNCHANGED <<grant, hist>>

\* The broker store consumes in one transaction.
BrokerConsume(c) ==
  LET k == call[c] IN
  LET r == grant[k.g] IN
  /\ k.at = "brokerConsume" /\ Done(c) /\ UNCHANGED <<now, connected, tokens>>
  /\ CASE connected /\ r.status = "used" /\ r.type = "once" /\ k.command /\ ~r.consumed ->
            /\ SetRow(grant, k.g, [r EXCEPT !.consumed = TRUE])
            /\ hist' = [hist EXCEPT ![k.g].redeemed = @ + 1]
       [] connected /\ r.status = "approved" /\ r.expires > now /\ r.type = "once" ->
            /\ SetStatus(grant, k.g, "used")
            /\ hist' = [hist EXCEPT ![k.g].spent = @ + 1, ![k.g].redeemed = @ + 1]
       [] OTHER -> UNCHANGED <<grant, hist>>

\* decideProgramCall without a reference: an approved grant covers the call,
\* continuing ones first; a policy approves a new request; the newest request
\* answers for itself; otherwise a decision is requested.
Covering(rows, b) == {g \in GrantIds : /\ rows[g].status = "approved" /\ rows[g].expires > now
                                       /\ rows[g].brokered = b}

Preferred(rows, b) ==
  LET continuing == {g \in Covering(rows, b) : rows[g].type # "once"} IN
  IF continuing # {} THEN continuing ELSE Covering(rows, b)

Known(rows, b)  == {g \in GrantIds : rows[g].status # "absent" /\ rows[g].brokered = b}
Settled(rows, b) ==
  \E g \in Known(rows, b) : /\ \A o \in Known(rows, b) : rows[g].created >= rows[o].created
                            /\ rows[g].status \in {"pending", "denied", "revoked"}

Decide(c, k, auto, t) ==
  LET rows == Current IN
  IF k.ref # NoRef
  THEN FindReferenced(c, k)
  ELSE /\ Reading /\ Unwritten
       /\ auto => ~k.brokered
       /\ \/ \E g \in Preferred(rows, k.brokered) :
               Goto(c, [k EXCEPT !.at = "command", !.g = g, !.type = rows[g].type, !.until = rows[g].expires])
          \/ /\ Covering(rows, k.brokered) = {}
             /\ t # "timed"
             /\ IF auto \/ ~Settled(rows, k.brokered)
                THEN Goto(c, [k EXCEPT !.at = "create", !.type = t, !.op = IF auto THEN "authorize" ELSE "none"])
                ELSE Done(c)

Authorize(c, b, ref, auto, t) ==
  /\ Free(c) /\ (b => connected)
  /\ ref = NoRef => (AllowPlain \/ b)
  /\ Decide(c, [Idle EXCEPT !.op = "authorize", !.brokered = b, !.ref = ref], auto, t)

\* A lost race for a single-use grant decides again, a bounded number of times.
Retry(c, auto, t) ==
  /\ call[c].at = "decide"
  /\ Decide(c, [Idle EXCEPT !.op = "authorize", !.brokered = call[c].brokered, !.ref = call[c].ref,
                            !.tries = call[c].tries], auto, t)

CommandToken(g, exp) == [g |-> g, command |-> TRUE, exp |-> exp]

\* approvedAnswer: issueCommandJWT from the row read, record a brokered token;
\* the token of a single-use grant is returned only if claimOnce succeeds.
Command(c) ==
  LET k == call[c] IN
  LET exp == Earlier(now + CommandLife, k.until) IN
  /\ k.at = "command" /\ UNCHANGED <<now, grant, connected, hist>>
  /\ IF exp <= now \/ ~recordToken(grant[k.g])
     THEN Done(c) /\ UNCHANGED tokens
     ELSE IF k.type = "once"
          THEN Goto(c, [k EXCEPT !.at = "claimCommand", !.until = exp]) /\ UNCHANGED tokens
          ELSE tokens' = tokens \cup {CommandToken(k.g, exp)} /\ Done(c)

\* Seeded fault: the token is returned although the claim was lost.
ClaimCommandLost(c) ==
  LET k == call[c] IN
  /\ k.at = "claimCommand" /\ UNCHANGED <<now, connected>> /\ Done(c)
  /\ tokens' = tokens \cup {CommandToken(k.g, k.until)}
  /\ IF Claimable(grant[k.g])
     THEN SetStatus(grant, k.g, "used") /\ hist' = [hist EXCEPT ![k.g].spent = @ + 1]
     ELSE UNCHANGED <<grant, hist>>

\* claimOnce of approvedAnswer; a lost claim decides again while tries are left.
ClaimCommand(c) ==
  LET k == call[c] IN
  /\ k.at = "claimCommand" /\ UNCHANGED <<now, connected>>
  /\ IF Claimable(grant[k.g])
     THEN /\ SetStatus(grant, k.g, "used")
          /\ hist' = [hist EXCEPT ![k.g].spent = @ + 1]
          /\ tokens' = tokens \cup {CommandToken(k.g, k.until)}
          /\ Done(c)
     ELSE /\ UNCHANGED <<grant, hist, tokens>>
          /\ IF k.tries + 1 < MaxTries
             THEN Goto(c, [k EXCEPT !.at = "decide", !.tries = @ + 1])
             ELSE Done(c)

-----------------------------------------------------------------------------
(* Withdrawal by the requester, the broker connection, time, crashes       *)

Withdraw(c, b, ref) ==
  /\ Free(c) /\ (b => connected)
  /\ Reading /\ Unwritten
  /\ \E g \in Known(Current, b) :
       /\ Current[g].ref = ref /\ Current[g].status \in {"pending", "approved"}
       /\ Goto(c, [Idle EXCEPT !.at = "withdraw", !.g = g])

WithdrawWrite(c) ==
  LET g == call[c].g IN
  /\ call[c].at = "withdraw" /\ Done(c) /\ Unwritten
  /\ IF Withdrawable(grant[g]) THEN SetStatus(grant, g, "withdrawn") ELSE UNCHANGED grant

RevokeConnection ==
  /\ connected /\ connected' = FALSE
  /\ UNCHANGED <<now, grant, tokens, call, hist>>

\* GET /api/grants and the pollers: a listing expires what is overdue.
Poll ==
  /\ \E g \in GrantIds : Overdue(grant[g])
  /\ Reading /\ Unwritten /\ UNCHANGED call

Tick == now < MaxNow /\ now' = now + 1 /\ UNCHANGED <<grant, connected, tokens, call, hist>>

\* The process restarts: every call in progress is lost, the database stays.
Crash ==
  /\ \E c \in Calls : ~Free(c)
  /\ call' = [c \in Calls |-> Idle]
  /\ UNCHANGED <<now, grant, connected, tokens, hist>>

Start(c) ==
  \/ \E b \in Requesters, t \in GrantTypes, auto \in BOOLEAN : Submit(c, b, t, auto)
  \/ \E b \in Requesters, ref \in Refs : SubmitReferenced(c, b, ref)
  \/ \E g \in GrantIds, t \in GrantTypes : Approve(c, g, t)
  \/ \E g \in GrantIds : Deny(c, g) \/ Revoke(c, g) \/ RequestToken(c, g)
  \/ \E g \in GrantIds, olds \in SUBSET GrantIds, t \in GrantTypes : g \notin olds /\ Extend(c, g, olds, t)
  \/ \E t \in tokens : Consume(c, t)
  \/ \E b \in Requesters, ref \in Refs \cup {NoRef}, t \in GrantTypes, auto \in BOOLEAN : Authorize(c, b, ref, auto, t)
  \/ \E b \in Requesters, ref \in Refs : Withdraw(c, b, ref)

Continue(c) ==
  \/ \E g \in GrantIds : Create(c, g) \/ CreateReferenced(c, g) \/ ExtendRead(c, g)
  \/ CreateNone(c) \/ AutoApprove(c) \/ AutoRead(c)
  \/ ApproveWrite(c) \/ Reread(c) \/ DenyWrite(c) \/ RevokeWrite(c)
  \/ WidenWrite(c) \/ ExtendRevoke(c) \/ ExtendApprove(c)
  \/ ExpireWrite(c) \/ Introspected(c) \/ IssueToken(c)
  \/ UseRead(c) \/ claimOnce(c) \/ markConsumed(c) \/ BrokerConsume(c)
  \/ \E auto \in BOOLEAN, t \in GrantTypes : Retry(c, auto, t)
  \/ Command(c) \/ ClaimCommand(c) \/ WithdrawWrite(c)

Next ==
  \/ \E c \in Calls : Start(c) \/ Continue(c)
  \/ RevokeConnection \/ Poll \/ Tick \/ Crash

Spec == Init /\ [][Next]_vars

\* Open pages and waiting clients keep listing; the clock runs.
FairSpec == Spec /\ WF_vars(Tick) /\ WF_vars(Poll)

-----------------------------------------------------------------------------
(* Properties                                                              *)

\* Every variable keeps its shape; times stay below the value that stands
\* for "never expires" (apps/openape-free-idp/server/database/schema.ts).
TypeOK ==
  /\ now \in 0..MaxNow
  /\ grant \in [GrantIds -> Row]
  /\ connected \in BOOLEAN
  /\ tokens \subseteq Token
  /\ call \in [Calls -> Call]
  /\ hist \in [GrantIds -> [approved: Nat, spent: Nat, redeemed: Nat]]

\* A brokered or referenced grant buys at most one execution: however many of
\* its plain and command tokens are presented to /consume at the same time,
\* claimOnce, markConsumed and the broker's transaction confirm one of them.
GuardedSingleUse == \A g \in GrantIds : Guarded(g) => hist[g].redeemed <= 1

\* A command token of a guarded single-use grant exists only if its issue spent
\* the grant: authorize returns none after a lost claimOnce (approvedAnswer).
CommandTokenSpent ==
  \A t \in tokens : t.command /\ Guarded(t.g) /\ grant[t.g].type = "once" => hist[t.g].spent = 1

\* Any grant, plain ones too, is spent at most once per approval written by
\* updateStatus although overwrites of a plain grant are unconditional, and
\* redeemed at most once more than it was spent (claimOnce, markConsumed): the
\* command token of an approval that was continuing can still mark a later one.
SpentWithinApprovals ==
  \A g \in GrantIds : /\ hist[g].spent <= hist[g].approved
                       /\ hist[g].redeemed <= hist[g].spent + 1

\* A withdrawal that succeeded (GrantStore.withdraw) means that the grant was
\* never spent, although issue, consume and withdraw race for it.
WithdrawnUnspent ==
  \A g \in GrantIds : grant[g].status = "withdrawn" => hist[g].spent = 0 /\ hist[g].redeemed = 0

\* A guarded grant whose stored decision is a denial (denyGrant) was never
\* approved, and none of its tokens is in anybody's hands.
DeniedGrantsNothing ==
  \A g \in GrantIds : Guarded(g) /\ grant[g].status = "denied" =>
    hist[g].approved = 0 /\ \A t \in tokens : t.g # g

\* No token of a guarded timed grant, AuthZ-JWT or command token, outlives the
\* grant (issueAuthzJWT, issueCommandJWT), though it is computed from a row
\* read earlier.
TokenWithinGrant ==
  \A t \in tokens : Guarded(t.g) /\ grant[t.g].type = "timed" => t.exp <= grant[t.g].expires

\* Concurrent submissions of one reference make one request (createReferenced).
OneGrantPerReference ==
  \A g, h \in GrantIds :
    /\ grant[g].status # "absent" /\ grant[h].status # "absent"
    /\ grant[g].ref # NoRef /\ grant[g].ref = grant[h].ref
    /\ grant[g].brokered = grant[h].brokered
    => g = h

\* The owner's inbox never holds more brokered requests than its limit, however
\* save, createReferenced and authorize interleave (BROKER_PENDING_LIMIT).
BrokerInboxBounded == Cardinality(PendingBrokered(grant)) <= BrokerLimit

\* A request or timed grant that expired is never decided or used again, even
\* by a handler that read it before (updateStatus' refusal of `expired`); only
\* the first write of a widening approval opens it again, as a request.
ExpiredIsFinal ==
  [][\A g \in GrantIds : grant[g].status = "expired" =>
       \/ grant'[g].status \in {"expired", "revoked"}
       \/ AllowExtension /\ ~Guarded(g) /\ grant'[g].status = "pending"]_vars

\* Once its connection is revoked, a brokered grant redeems nothing more, not
\* even with a token and a consume call from before (broker store's consume).
RevokedConnectionIsFinal ==
  [][\A g \in GrantIds :
       ~connected /\ grant[g].brokered => hist'[g].redeemed = hist[g].redeemed]_vars

\* What the store promises of guarded grants (the refinement mapping).
PromisePhase(g) ==
  IF ~Guarded(g) THEN "absent"
  ELSE CASE grant[g].status = "absent"   -> "absent"
         [] grant[g].status = "pending"  -> "open"
         [] grant[g].status = "approved" -> "granted"
         [] grant[g].status = "used"     -> "spent"
         [] OTHER                        -> "void"

Promise == INSTANCE GrantPromise WITH
  phase    <- [g \in GrantIds |-> PromisePhase(g)],
  spent    <- {g \in GrantIds : Guarded(g) /\ hist[g].spent > 0},
  redeemed <- {g \in GrantIds : Guarded(g) /\ hist[g].redeemed > 0}

\* The handlers over the store implement GrantPromise for guarded grants.
ImplementsPromise == Promise!Spec

\* A request nobody answers does not stay pending: some later listing expires
\* it, also when the call that was to approve it was lost in a restart.
PendingIsSettled ==
  \A g \in GrantIds : grant[g].status = "pending" ~> grant[g].status # "pending"

\* packages/grants/src/stores.ts:29-31 of every grant: claimOnce is conditional
\* "so a single-use grant is spent once".
SpentOnce == \A g \in GrantIds : grant[g].type = "once" => hist[g].spent <= 1

=============================================================================
