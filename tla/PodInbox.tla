------------------------------ MODULE PodInbox ------------------------------
(***************************************************************************)
(* The account inbox of Pods: one desktop, the relay, and one phone.       *)
(* Messages of pod scripts wait in the worker's outbox (openape-pods       *)
(* worker/inbox/outbox.ts) until the desktop's main process has delivered  *)
(* them (main/remote/controller.ts), at least once; the decisions that     *)
(* wait for the owner are published as a whole set.  The relay (openape-   *)
(* pods-relay server/utils/inbox-store.ts) numbers every change of an item *)
(* and keeps tombstones for a while; the phone (app/inbox/client.ts) pulls *)
(* the changes after its cursor and keeps a copy on disk.                  *)
(*                                                                         *)
(* A request is answered at once, or loses its answer, or is given up and  *)
(* arrives later (`stray').  The digest of a decision is a version number, *)
(* 0 if the decision does not wait; `read' stands for both flags of an     *)
(* item, read and archived.  An event has at most one row, so its key      *)
(* stands for the id of the item.  Scripts cannot queue what the relay     *)
(* would refuse (parseNotify), so no message is `refused'.                 *)
(*                                                                         *)
(* Nothing keeps a sync from reading while the answer of a mark or load is *)
(* on its way, or the desktop from staying away until the relay forgets a  *)
(* deleted message.  The histories `crossed' and `forgotten' record when   *)
(* that has happened, for the properties.                                  *)
(***************************************************************************)
EXTENDS Integers, FiniteSets

CONSTANTS
  Messages, Decisions,  \* event ids
  Quota,           \* itemsPerOwner
  PageSize,        \* inboxLimits.page
  Retention,       \* inboxLimits.retentionMs
  Tombstone,       \* inboxLimits.tombstoneMs
  SessionLife,     \* maxAge of the inbox cookie
  MaxVersion, MaxNow, MaxActs, MaxReplies, MaxFaults  \* bounds

Keys == Messages \cup Decisions
Live == -1        \* deleted IS NULL
NoSession == -1

ASSUME InboxAssumption ==
  /\ IsFiniteSet(Keys) /\ Messages \cap Decisions = {}
  /\ Quota \in Nat /\ PageSize \in Nat \ {0} /\ Retention \in Nat
  /\ Tombstone \in Nat /\ SessionLife \in Nat /\ SessionLife <= Tombstone
  /\ MaxVersion \in Nat /\ MaxNow \in Nat /\ MaxActs \in Nat /\ MaxReplies \in Nat /\ MaxFaults \in Nat

VARIABLES
  now,
  \* the desktop
  outbox,      \* inbox_outbox.state
  source,      \* the decisions that wait: approvals and secret requests
  collecting,  \* the set publishDecisions has collected and not yet sent
  published,   \* this.decisions: the set last acknowledged, unless that is ten minutes ago
  \* the relay
  item,        \* items
  sequence,    \* meta.sequence
  \* the phone
  phone,       \* when its session began, state.items and state.cursor
  disk,        \* localStorage
  page,        \* the answer of `changes' on its way
  replies,     \* the answers of `mark' and `load' on their way
  \* the network and the bounds
  stray,       \* requests of the desktop that may still arrive
  acts, faults,
  \* histories
  stored,      \* how many items each message became
  forgotten,   \* how often its tombstone went while it could still be delivered
  crossed      \* items a sync has read past while an answer about them was on its way

desktop == <<outbox, source, collecting, published>>
relay   == <<item, sequence, stored, forgotten>>
client  == <<phone, disk, page, replies, crossed>>
bounds  == <<acts, faults>>
vars    == <<now, desktop, relay, client, stray, bounds>>

-----------------------------------------------------------------------------
(* Data                                                                    *)

States == {"none", "open", "resolved"}
Rows   == [state : States, version : Nat, read : BOOLEAN, created : Nat,
           deleted : Nat \cup {Live}, seq : Nat]
NoRow  == [state |-> "none", version |-> 0, read |-> FALSE, created |-> 0,
           deleted |-> Live, seq |-> 0]
NewRow(v) == [state |-> "open", version |-> v, read |-> FALSE, created |-> now,
              deleted |-> Live, seq |-> 0]

Exists(k) == item[k].state # "none"
Shown(k)  == Exists(k) /\ item[k].deleted = Live
Open(d)   == item[d].state = "open"

\* What a client holds of an item; it holds nothing of a tombstone.
Views   == [state : States, version : Nat, read : BOOLEAN]
Absent  == [state |-> "none", version |-> 0, read |-> FALSE]
View(k) == IF Shown(k)
           THEN [state |-> item[k].state, version |-> item[k].version, read |-> item[k].read]
           ELSE Absent

NoItems == [k \in Keys |-> Absent]
Empty   == [items |-> NoItems, cursor |-> 0]
NoPage  == [taken |-> FALSE, keys |-> {}, items |-> NoItems, cursor |-> 0, more |-> FALSE]

\* A decision set gives the version of each decision, 0 if it is not in the set.
NoSet == [d \in Decisions |-> -1]
Sets  == [Decisions -> 0..MaxVersion] \cup {NoSet}

Publish(m) == [type |-> "publish", message |-> m]
Publication(set) == [type |-> "decisions", set |-> set]
Requests == {Publish(m) : m \in Messages} \cup {Publication(set) : set \in Sets}

Init ==
  /\ now = 0 /\ outbox = [m \in Messages |-> "none"] /\ source \in [Decisions -> 0..MaxVersion]
  /\ collecting = NoSet /\ published = NoSet
  /\ item = [k \in Keys |-> NoRow] /\ sequence = 0 /\ stored = [m \in Messages |-> 0]
  /\ forgotten = [m \in Messages |-> 0] /\ crossed = {}
  /\ phone = [start |-> NoSession, items |-> NoItems, cursor |-> 0]
  /\ disk = Empty /\ page = NoPage /\ replies = {}
  /\ stray = {} /\ acts = 0 /\ faults = 0

Act   == acts < MaxActs /\ acts' = acts + 1 /\ UNCHANGED faults
Fault == faults < MaxFaults /\ faults' = faults + 1 /\ UNCHANGED acts

-----------------------------------------------------------------------------
(* The relay: one transaction for each request                             *)

Room == Quota - Cardinality({k \in Keys : Shown(k)})

\* The rows in S become those of new, each with a sequence number of its own.
Numbered(S, new) ==
  /\ \E seq \in [S -> (sequence + 1)..(sequence + Cardinality(S))] :
       /\ \A j, k \in S : seq[j] = seq[k] => j = k
       /\ item' = [k \in Keys |-> IF k \in S THEN [new[k] EXCEPT !.seq = seq[k]] ELSE item[k]]
  /\ sequence' = sequence + Cardinality(S)

\* publish: a known event is only acknowledged, deleted or not; a full inbox
\* refuses a new one for now.
Acceptable(m) == Exists(m) \/ Room > 0
\* Seeded fault: a deleted message is not recognised.
ServePublishAgain(m) ==
  IF Shown(m) THEN UNCHANGED relay
  ELSE /\ Numbered({m}, [k \in Keys |-> NewRow(0)])
       /\ stored' = [stored EXCEPT ![m] = @ + 1] /\ UNCHANGED forgotten
ServePublish(m) ==
  IF Exists(m) THEN UNCHANGED relay
  ELSE /\ Numbered({m}, [k \in Keys |-> NewRow(0)])
       /\ stored' = [stored EXCEPT ![m] = @ + 1] /\ UNCHANGED forgotten

\* syncDecisions: new decisions as far as there is room for them, changed ones,
\* and those that vanished from the set.
Added(set)    == {d \in Decisions : set[d] > 0 /\ ~Exists(d)}
Renewed(set)  == {d \in Decisions : set[d] > 0 /\ Shown(d) /\ ~(Open(d) /\ item[d].version = set[d])}
Vanished(set) == {d \in Decisions : set[d] = 0 /\ Open(d)}
Decided(set, d) ==
  IF set[d] = 0 THEN [item[d] EXCEPT !.state = "resolved"]
  ELSE IF Exists(d) THEN [item[d] EXCEPT !.state = "open", !.version = set[d]]
  ELSE NewRow(set[d])
ServeDecisions(set) ==
  /\ \E A \in SUBSET Added(set) :
       /\ A = Added(set) \/ Cardinality(A) = Room
       /\ Cardinality(A) <= Room \/ A = {}
       /\ Numbered(A \cup Renewed(set) \cup Vanished(set),
                   [k \in Keys |-> IF k \in Decisions THEN Decided(set, k) ELSE item[k]])
  /\ UNCHANGED <<stored, forgotten>>

\* mark by another device or the desktop's message view
Mark(k) ==
  /\ Act /\ Shown(k)
  /\ Numbered({k}, [item EXCEPT ![k].read = ~@])
  /\ UNCHANGED <<now, desktop, stored, forgotten, client, stray>>
Delete(k) ==
  /\ Act /\ Shown(k)
  /\ Numbered({k}, [item EXCEPT ![k].deleted = now])
  /\ UNCHANGED <<now, desktop, stored, forgotten, client, stray>>

\* Seeded fault: tombstones go with the next hourly run.
PurgeableEarly == {k \in Keys : /\ Exists(k) /\ item[k].deleted # Live /\ item[k].deleted < now
                                /\ k \in Messages \/ ~Open(k)}

\* A message the desktop may still deliver.
Unsettled(m) == outbox[m] = "pending" \/ Publish(m) \in stray

\* retain, every hour
Expirable == {k \in Keys : /\ Shown(k) /\ item[k].created < now - Retention
                           /\ k \in Messages \/ ~Open(k)}
Purgeable == {k \in Keys : /\ Exists(k) /\ item[k].deleted # Live /\ item[k].deleted < now - Tombstone
                           /\ k \in Messages \/ ~Open(k)}
Retain ==
  /\ Expirable \cup Purgeable # {}
  /\ \E seq \in [Expirable -> (sequence + 1)..(sequence + Cardinality(Expirable))] :
       /\ \A j, k \in Expirable : seq[j] = seq[k] => j = k
       /\ item' = [k \in Keys |-> IF k \in Purgeable THEN NoRow
                                  ELSE IF k \in Expirable
                                  THEN [item[k] EXCEPT !.deleted = now, !.seq = seq[k]]
                                  ELSE item[k]]
  /\ sequence' = sequence + Cardinality(Expirable)
  /\ forgotten' = [m \in Messages |-> IF m \in Purgeable /\ Unsettled(m) THEN forgotten[m] + 1 ELSE forgotten[m]]
  /\ UNCHANGED <<now, desktop, stored, client, stray, bounds>>

-----------------------------------------------------------------------------
(* The desktop: outbox, delivery every 15 s, decisions every 10 s          *)

\* InboxOutbox.queue; a repeated key is not queued twice.
Notify(m) ==
  /\ outbox[m] = "none" /\ outbox' = [outbox EXCEPT ![m] = "pending"]
  /\ UNCHANGED <<now, source, collecting, published, relay, client, stray, bounds>>

\* A decision starts to wait, changes, or is taken.
Ask(d) ==
  /\ Act /\ \E v \in 0..MaxVersion \ {source[d]} : source' = [source EXCEPT ![d] = v]
  /\ UNCHANGED <<now, outbox, collecting, published, relay, client, stray>>

\* deliverInbox; while the inbox is full the message stays pending.
Deliver(m) ==
  /\ outbox[m] = "pending" /\ Acceptable(m) /\ ServePublish(m)
  /\ outbox' = [outbox EXCEPT ![m] = "delivered"]
  /\ UNCHANGED <<now, source, collecting, published, client, stray, bounds>>

\* The answer is lost, or the request given up: the message stays pending.
DeliverUnanswered(m) ==
  /\ Fault /\ outbox[m] = "pending" /\ Acceptable(m) /\ ServePublish(m)
  /\ UNCHANGED <<now, desktop, client, stray>>
DeliverLate(m) ==
  /\ Fault /\ outbox[m] = "pending" /\ stray' = stray \cup {Publish(m)}
  /\ UNCHANGED <<now, desktop, relay, client>>

\* publishDecisions, one call at a time: the set is collected, then sent if it
\* is not the one acknowledged last.
Collect ==
  /\ collecting = NoSet /\ source # published /\ collecting' = source
  /\ UNCHANGED <<now, outbox, source, published, relay, client, stray, bounds>>
SendDecisions ==
  /\ collecting # NoSet /\ ServeDecisions(collecting)
  /\ published' = collecting /\ collecting' = NoSet
  /\ UNCHANGED <<now, outbox, source, client, stray, bounds>>
SendUnanswered ==
  /\ Fault /\ collecting # NoSet /\ ServeDecisions(collecting) /\ collecting' = NoSet
  /\ UNCHANGED <<now, outbox, source, published, client, stray>>
SendLate ==
  /\ Fault /\ collecting # NoSet
  /\ stray' = stray \cup {Publication(collecting)} /\ collecting' = NoSet
  /\ UNCHANGED <<now, outbox, source, published, relay, client>>

\* Seeded fault: an unchanged set is never published again.
OverdueChanged ==
  /\ published # NoSet /\ published # source /\ published' = NoSet
  /\ UNCHANGED <<now, outbox, source, collecting, relay, client, stray, bounds>>

\* Ten minutes after the last acknowledgement, or a restart of the desktop.
Overdue ==
  /\ published # NoSet /\ published' = NoSet
  /\ UNCHANGED <<now, outbox, source, collecting, relay, client, stray, bounds>>

Arrive(r) ==
  /\ r \in stray /\ stray' = stray \ {r}
  /\ \/ r.type = "publish" /\ IF Acceptable(r.message) THEN ServePublish(r.message) ELSE UNCHANGED relay
     \/ r.type = "decisions" /\ ServeDecisions(r.set)
  /\ UNCHANGED <<now, desktop, client, bounds>>

-----------------------------------------------------------------------------
(* The phone                                                               *)

Valid == phone.start # NoSession /\ now - phone.start <= SessionLife
Copy  == [items |-> phone.items, cursor |-> phone.cursor]

\* login clears the copy and leaves the page; the callback registers a device.
SignIn ==
  /\ ~Valid
  /\ phone' = [start |-> now, items |-> NoItems, cursor |-> 0]
  /\ disk' = Empty /\ page' = NoPage /\ replies' = {} /\ crossed' = {}
  /\ UNCHANGED <<now, desktop, relay, stray, bounds>>

\* Another device revokes this one, which learns it from the next answer: a 401
\* clears the copy (expire), as the phone's own logout does.
Revoke ==
  /\ Act /\ Valid /\ phone' = [phone EXCEPT !.start = NoSession]
  /\ UNCHANGED <<now, desktop, relay, disk, page, replies, crossed, stray>>
Expire ==
  /\ ~Valid /\ (phone # [start |-> NoSession, items |-> NoItems, cursor |-> 0] \/ disk # Empty)
  /\ phone' = [start |-> NoSession, items |-> NoItems, cursor |-> 0]
  /\ disk' = Empty /\ page' = NoPage /\ replies' = {} /\ crossed' = {}
  /\ UNCHANGED <<now, desktop, relay, stray, bounds>>

\* The app is closed and starts again from what it had stored.
Reopen ==
  /\ Fault
  /\ phone' = [phone EXCEPT !.items = disk.items, !.cursor = disk.cursor]
  /\ page' = NoPage /\ replies' = {}
  /\ UNCHANGED <<now, desktop, relay, disk, crossed, stray>>

\* Seeded fault: the change just after the cursor is skipped.
AfterNext(c) == {k \in Keys : Exists(k) /\ item[k].seq > c + 1}

\* changes: the first rows after the cursor, one page of them.
After(c) == {k \in Keys : Exists(k) /\ item[k].seq > c}
FirstPage(c) == {k \in After(c) : Cardinality({j \in After(c) : item[j].seq < item[k].seq}) < PageSize}
PageEnd(c) == IF After(c) = {} THEN c
              ELSE CHOOSE n \in {item[k].seq : k \in FirstPage(c)} : \A k \in FirstPage(c) : item[k].seq <= n
SyncRead ==
  /\ Valid /\ ~page.taken
  /\ LET c == phone.cursor IN
     page' = [taken |-> TRUE, keys |-> FirstPage(c),
              items |-> [k \in Keys |-> IF k \in FirstPage(c) THEN View(k) ELSE Absent],
              cursor |-> PageEnd(c), more |-> After(c) # FirstPage(c)]
  /\ crossed' = crossed \cup {r.key : r \in replies}
  /\ UNCHANGED <<now, desktop, relay, phone, disk, replies, stray, bounds>>

\* Seeded fault: the cursor is not stored.
PersistItems(copy) == disk' = [items |-> copy.items] /\ UNCHANGED bounds

\* persist; a copy that cannot be stored is dropped.
Persist(copy) == \/ disk' = copy /\ UNCHANGED bounds
                 \/ Fault /\ disk' = Empty

\* apply; the copy is stored after the last page.
Applied == [k \in Keys |-> IF k \in page.keys THEN page.items[k] ELSE phone.items[k]]
SyncApply ==
  /\ page.taken /\ page' = NoPage
  /\ phone' = [phone EXCEPT !.items = Applied, !.cursor = page.cursor]
  /\ IF page.more THEN UNCHANGED <<disk, bounds>>
     ELSE Persist([items |-> Applied, cursor |-> page.cursor])
  /\ UNCHANGED <<now, desktop, relay, replies, crossed, stray>>
SyncLost ==
  /\ Fault /\ page.taken /\ page' = NoPage /\ disk' = Copy
  /\ UNCHANGED <<now, desktop, relay, phone, replies, crossed, stray>>

\* The owner marks an item on the phone, or opens the link of one it has not.
PhoneMark(k) ==
  /\ Act /\ Valid /\ Shown(k) /\ phone.items[k] # Absent /\ Cardinality(replies) < MaxReplies
  /\ Numbered({k}, [item EXCEPT ![k].read = ~@])
  /\ replies' = replies \cup {[type |-> "mark", key |-> k, view |-> [View(k) EXCEPT !.read = ~@]]}
  /\ UNCHANGED <<now, desktop, stored, forgotten, phone, disk, page, crossed, stray>>
PhoneLoad(k) ==
  /\ Act /\ Valid /\ Shown(k) /\ phone.items[k] = Absent /\ Cardinality(replies) < MaxReplies
  /\ replies' = replies \cup {[type |-> "load", key |-> k, view |-> View(k)]}
  /\ UNCHANGED <<now, desktop, relay, phone, disk, page, crossed, stray>>
ReplyArrives(r) ==
  /\ r \in replies /\ replies' = replies \ {r}
  /\ phone' = [phone EXCEPT !.items[r.key] = r.view]
  /\ IF r.type = "mark" THEN Persist([items |-> phone'.items, cursor |-> phone.cursor])
     ELSE UNCHANGED <<disk, bounds>>
  /\ UNCHANGED <<now, desktop, relay, page, crossed, stray>>
ReplyLost(r) ==
  /\ Fault /\ r \in replies /\ replies' = replies \ {r}
  /\ UNCHANGED <<now, desktop, relay, phone, disk, page, crossed, stray>>

-----------------------------------------------------------------------------
Tick == now < MaxNow /\ now' = now + 1 /\ UNCHANGED <<desktop, relay, client, stray, bounds>>

Next ==
  \/ \E m \in Messages : Notify(m) \/ Deliver(m) \/ DeliverUnanswered(m) \/ DeliverLate(m)
  \/ \E d \in Decisions : Ask(d)
  \/ Collect \/ SendDecisions \/ SendUnanswered \/ SendLate \/ Overdue
  \/ \E r \in stray : Arrive(r)
  \/ \E k \in Keys : Mark(k) \/ Delete(k) \/ PhoneMark(k) \/ PhoneLoad(k)
  \/ Retain
  \/ SignIn \/ Revoke \/ Expire \/ Reopen \/ SyncRead \/ SyncApply \/ SyncLost
  \/ \E r \in replies : ReplyArrives(r) \/ ReplyLost(r)
  \/ Tick

Spec == Init /\ [][Next]_vars

\* The timers of the desktop run, and the phone is open and syncs every so often.
Fairness ==
  /\ \A m \in Messages : WF_vars(Deliver(m))
  /\ WF_vars(Collect \/ SendDecisions) /\ WF_vars(Overdue)
  /\ WF_vars(SyncRead \/ SyncApply)
  /\ WF_vars(\E r \in replies : ReplyArrives(r))
FairSpec == Spec /\ Fairness

-----------------------------------------------------------------------------
(* Properties                                                              *)

\* Every variable keeps its shape.
TypeOK ==
  /\ now \in Nat
  /\ outbox \in [Messages -> {"none", "pending", "delivered"}]
  /\ source \in [Decisions -> 0..MaxVersion] /\ collecting \in Sets /\ published \in Sets
  /\ item \in [Keys -> Rows] /\ sequence \in Nat /\ stored \in [Messages -> Nat]
  /\ phone \in [start : Nat \cup {NoSession}, items : [Keys -> Views], cursor : Nat]
  /\ disk \in [items : [Keys -> Views], cursor : Nat]
  /\ page \in [taken : BOOLEAN, keys : SUBSET Keys, items : [Keys -> Views], cursor : Nat, more : BOOLEAN]
  /\ replies \subseteq [type : {"mark", "load"}, key : Keys, view : Views]
  /\ stray \subseteq Requests /\ acts \in Nat /\ faults \in Nat
  /\ forgotten \in [Messages -> Nat] /\ crossed \subseteq Keys

\* What the phone's cursor has passed, the copy shows as the relay has it.
CopyShows(k) == item[k].seq <= phone.cursor => phone.items[k] = View(k)

\* client.ts:141 "Pulls every change after the stored cursor, tombstones
\* included, so the copy never resurrects deleted items": once the cursor has
\* passed its tombstone, a deleted item is not in the copy.
NeverResurrects ==
  Valid => \A k \in Keys : item[k].deleted # Live /\ item[k].seq <= phone.cursor => phone.items[k] = Absent

\* The copy shows what the cursor has passed across paging, lost pages, restarts
\* from disk, purged tombstones, new sessions and marks; it can be wrong only about
\* an item whose mark or load was answered after a sync (client.ts sync, mark, load).
CopyIsCurrent == Valid => \A k \in Keys \ crossed : CopyShows(k)

\* controller.ts:153 "an uncertain delivery never produces a second message".
NoSecondMessage == \A m \in Messages : stored[m] <= 1

\* A message becomes one item more than the relay has forgotten it while its
\* delivery was uncertain (deliverInbox, publish, retain), however often it is
\* sent, answered or not; and a delivered one has become an item.
MessageOnce ==
  \A m \in Messages : stored[m] <= 1 + forgotten[m] /\ (outbox[m] = "delivered" => stored[m] >= 1)

\* Again and again the inbox is what the desktop has: no message is pending and
\* no decision shown that was taken, or missing or outdated, unless it was
\* deleted or the inbox is full; also after lost answers and sets that arrive late.
Reflects(d) == /\ source[d] = 0 => ~Open(d)
               /\ source[d] # 0 => \/ Open(d) /\ item[d].version = source[d]
                                   \/ item[d].deleted # Live
                                   \/ ~Exists(d) /\ Room <= 0
DesktopIsShown ==
  []<>(/\ \A m \in Messages : outbox[m] = "pending" => ~Exists(m) /\ Room <= 0
       /\ \A d \in Decisions : Reflects(d))

\* A phone whose session lasts shows, again and again, exactly the relay's items
\* (client.ts sync), but for those CopyIsCurrent leaves out.
PhoneCatchesUp == []<>(Valid => \A k \in Keys \ crossed : phone.items[k] = View(k))

=============================================================================
