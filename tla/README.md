# OpenApe: a TLA+ model of its grants, task leases, pod runs, workspace and inbox

This directory models parts of the OpenApe repository in TLA+, checks them with
TLC on small instances and proves theorems about them with TLAPS. Paths below
are relative to the repository root unless they end in `.tla` or `.cfg`.

    tlc -workers 2 -config grants_guarded.cfg MCGrants.tla
    tlapm GrantsProofs.tla

`PROJECT.json` lists every run, the source lines each definition stands for, the
hazards, the findings and the theorems.

## 1. The system and its parts

OpenApe gives people and their software agents identities and makes an agent ask
before it acts. `MAP.md` groups the repository as follows; the table adds the
state each part keeps and what makes it hard.

| Part | State | Operations | Hard behaviour | Status |
| --- | --- | --- | --- | --- |
| Grants (`packages/grants`, grant handlers of `modules/nuxt-auth-idp`, store of `apps/openape-free-idp`) | `grants` table | request, by reference, auto-approve, approve, deny, revoke, widen, extend, withdraw, token, consume, authorize, lazy expiry | every handler awaits between reading a row and writing it; single use; retries; expiry without a timer; restarts | `Grants` |
| Brokers (`drizzle-broker-store.ts`) | connections, brokered requests, token audit | pair, revoke, recordToken, consume | a connection revoked while tokens are out; inbox limit | in `Grants` |
| Grant tokens (`authz-jwt.ts`, `program-authorize.ts`) | none on the server; tokens at clients | issue, present | issued from a row read earlier; the issue of a command token spends the grant | in `Grants` |
| Task queue (`packages/sp-tasks`) | `agent_tasks` table | enqueue, lease, resolve | leases that run out; updates checked and written in two awaits | `TaskQueue` |
| Pod runs (`apps/openape-pods/src/worker`: runs, scheduling, recovery) | accepted events, runs, run leases, execution domains; processes outside the worker | accept, tick, dispatch, finish, cancel, recover, restart, terminals | processes outlive the worker; recovery in two steps; bounded retries; an inference that must not be paid twice | `PodRuns` |
| Central workspace (`src/main/central` of the desktop, `workspace-store.ts` of the relay) | operations and the committed snapshot at the relay; four journals at the desktop | submit, begin, claim, execute, publish, complete, heartbeat, reconcile | lost, late and repeated requests; crashes between running a command and telling its outcome; background publications | `CentralWorkspace` |
| Account inbox (outbox of the worker, `main/remote`, `inbox-store.ts` of the relay, `app/inbox` of the phone) | outbox, items with sequence numbers, tombstones, sessions, a copy on the phone | notify, deliver, publish decisions, mark, delete, retain, sync, sign in | at-least-once delivery, sets that arrive late, cursors, purged tombstones, stale copies | `PodInbox` |
| Pod effect ledger (`worker/recovery/effects.ts`) | effects with their outcome | intend, complete, mark unknown | a crash between intent and completion | planned |
| Refresh tokens, code exchange (`drizzle-refresh-token-store.ts`, `packages/auth/src/idp`) | families, tokens, codes | create, consume, revoke | rotation in several awaits; reuse detection | planned |
| Shared CLI tokens (`packages/cli-auth`) | a token file | refresh | several processes refresh one file | planned |
| Standing grants, shapes, YOLO policies | their tables | match | pure matching | not modelled |
| Login, WebAuthn, recovery, federation | challenges, sessions | sign in | cryptography, one actor per challenge | not modelled |
| Work apps, evidence apps, git forge, secrets vault, proxy, CLIs, LLM gateway | rows of their own | one statement per request | little beyond their database | not modelled, reasons in `PROJECT.json` |

How they interact: an agent (through a CLI, the proxy or a pod) requests a grant
over HTTP; the owner or a policy decides it; the agent gets a token and presents
it, or asks `authorize` for a command token; the executor presents that token to
`/consume`. A broker makes such calls on behalf of an owner who revokes the
connection at will. Service agents poll the task queue of a service provider and
post back results. A pod runs scripts on the owner's Mac when events, schedules
or the owner ask for it. The desktop is the only executor of the owner's
commands, which reach it through the central workspace of the relay, whose gate
also tells the worker when it may start runs by itself. Pod scripts notify the
owner through the account inbox, which a phone mirrors; an answer the owner gives
there comes back as an operation of the central workspace. All of it happens in
Node processes over SQLite: statements and immediate transactions are atomic,
handlers are not.

What makes the modelled parts correct:

- a brokered or referenced grant is approved, spent and redeemed at most once,
  never after it was denied, withdrawn or expired, and not after its connection
  was revoked; its tokens do not outlive it; one reference is one request; the
  inbox stays bounded; no request stays pending for ever; a plain grant is spent
  at most once per approval;
- a task is held by one worker at a time; posted artifacts are kept and finished
  tasks stay finished, but for an update that was under way before; abandoned
  tasks are handed out again;
- a pod has one live script, that of the run with the lease; events are claimed by
  that run only, processed once, and tried a bounded number of times; an
  inference is not repeated; a terminal is alone; every accepted input is settled;
- a command runs at most once and its receipt tells the truth; an applied command
  is in the published snapshot; nothing new starts before what ran is reconciled;
- a notification becomes one item while the relay remembers it; the inbox comes to
  show what the desktop has, and the phone what the inbox has; a copy shows what
  its cursor has passed as the inbox does, unless an answer about it came late.

## 2. Modules

| Module | What it is |
| --- | --- |
| `Grants.tla` | store and handlers of grants, brokers and tokens |
| `GrantPromise.tla` | abstract specification: what a guarded grant promises its owner |
| `GrantsProofs.tla` | inductive invariant and theorems about single grants |
| `GrantTableProofs.tla` | theorems about the table as a whole and the refinement of `GrantPromise` |
| `TaskQueue.tla`, `TaskQueueProofs.tla` | task queue of `packages/sp-tasks`, and its theorems |
| `PodRuns.tla` | worker, run leases, guardian and script processes, recovery |
| `EventQueue.tla` | abstract specification: what the queue of accepted events promises |
| `PodRunsProofs.tla`, `PodQueueProofs.tla` | invariants of `PodRuns`; the refinement of `EventQueue` |
| `CentralWorkspace.tla` | desktop controller and relay store of the central workspace |
| `OperationPromise.tla` | abstract specification: what a command of the owner is promised |
| `CentralProofs.tla` | invariants of `CentralWorkspace` and the refinement of `OperationPromise` |
| `OutcomeProofs.tla` | until a second fault, no journaled outcome is forgotten |
| `PodInbox.tla`, `InboxProofs.tla` | outbox, relay inbox and phone; their theorems |
| `MC*.tla`, `*.cfg` | TLC instances |

Definitions under a comment "Seeded fault" are variants of the definition that
follows, each with a bug the code could plausibly have. The specifications do not
use them; substituting one for the original shows that the property it is paired
with in `PROJECT.json` can fail.

### 2.1 Grants

State. `grant[g]` is the row (status, type, brokered, reference, created_at,
decided_at, expires_at, consumed_at as a flag); `connected` is the broker
connection; `tokens` are the AuthZ-JWTs and command tokens handed out; `call[c]`
is an HTTP call parked at an await, with exactly what it read before; `hist`
counts approvals, spendings and redemptions and is read by properties, and by
the bound `MaxApprovals`, only.

Actions. A `findById`, `updateStatus`, `save`, `createReferenced`,
`claimOnce`, `markConsumed`, `withdraw` or broker transaction is one action,
because each is one SQLite statement or one immediate transaction. (`Extend` joins
the reads of the pending grant and of each old one, `grants.ts:326` and `336`, to
the handler's own: the handler is refused or goes on by what they say, and every
row they name is read or overwritten again by a later action.) A handler is
the sequence of its actions: `approve.post.ts` is `Approve`, `ApproveWrite`,
`Reread`, `IssueToken`; `consume.post.ts` is `Consume`, then `UseRead` and
`claimOnce`, or `markConsumed`, or `BrokerConsume`; `program-authorize.ts` is
`Authorize`, then `Command`, `ClaimCommand` and `Retry`, or a creation.

- Lazy expiry: nearly every store method sweeps overdue requests first. For reads
  the sweep and the select are one step (`Current`). For `updateStatus` and `save`
  the sweep is an await of its own, so the write may meet any table whose cutoff
  lies between the call's last step (`since`) and now (`Swept`). Concurrent calls
  of the store share one running sweep (`pendingExpirations`); that makes a
  cutoff slightly older than the call, which is not modelled.
- `updateStatus` refuses what `Refused` says and overwrites everything else. For
  plain grants two decisions in flight are therefore settled by the last write,
  and a revocation overwrites `used`, `denied` and `expired` for all grants.
  `WidenWrite` writes `pending` unconditionally, also over `expired`. These are
  modelled as they are, and `ExpiredIsFinal` names the last one.
- Extension revokes the old grants one at a time and then approves; a refusal in
  between leaves the old ones revoked.
- A policy (standing grant, YOLO hook) is the Boolean `auto`: it may approve any
  request it is consulted on, and nothing else about it is modelled. In
  particular the second in which a standing grant ends is not.
- `Crash` loses every call in progress and keeps the database.
- There is one requester and one permission: whether a grant *covers* a request
  is always yes, so every choice among covering grants is made between grants of
  the same scope. Delegations, batches and structured CLI permissions are left out.

The bounds are `MaxNow`, `MaxApprovals`, `MaxTries` (the code tries three times;
two go through the retry once) and the sets of ids, calls and references.

### 2.2 TaskQueue

State. `task[t]` is the row; `call[c]` is a `resolveTask` between its read and its
UPDATE, with what it read (`Seen`). `enqueueTask` and `leaseNextTask` are single
statements; `resolveTask` is `ResolveRead` (read and lease check) and
`ResolveWrite` (UPDATE by id, computed from that read). `ResolveLost` is an update
that fails after its retries or with its process. A handler takes the time before
a statement that may be retried for a while (`withBusyRetry`), so each operation
uses a clock up to `MaxLag` old (`ClockRead`). Messages in `history` are handled
exactly like artifacts and left out.

Nothing in the code ensures that an update is written before the lease it was
checked against ends, or that a worker posts one update at a time, and nothing of
the kind is assumed: updates overlap, wait and are written in any order. What the
text of `queue.ts` promises fails because of that in two ways, which
`queue_reopened` and `queue_lost` show; the properties that hold name those ways
as the only ones. The handler passes on whatever state a worker posts, `submitted`
among them; the runs post two states, the theorems hold for any.

Bounds: `MaxNow`, `MaxLag`, `MaxDeliveries`, and the sets of tasks, workers, calls
and artifacts.

### 2.3 PodRuns

State. `event`, `run` and `lease` are the tables; `exec`, `active` and `check` the
memory of the worker (the calls of `execute` in progress, the run a cancel
reaches, the runs recovery has proven stopped but not yet settled); `domain[r]`
the processes of a run: the guardian of `pods-helper.c`, the pipe that keeps it
alive, the record it writes, and the script it starts. The worker can crash at
any await; processes and tables stay.

Actions follow the code: accepting an event and manual or scheduled requests;
the tick that claims a batch and takes the lease; each await of
`RunDispatcher.execute`, through the start of the guardian, the script, the
settlement of its outcome and the closing of its shell; each step of the guardian
(`ProcessStep`); `recoverStoppedRuns`, whose proof that nothing is alive and whose
settling transaction are separate steps; restart, which fences leases and
interrupts runs; cancelling, manual recovery, terminals, changes of script and
permissions.

- Causes of failure are grouped by what recovery does with them: infrastructure,
  shutdown and plain failure may be retried; permission and authority may not; a
  run the owner cancelled isolates its inputs.
- One pod, and one execution domain per run. `blocked` and `completedWithGaps`
  behave as `failed` does. Schedules are requests that may come at any time while
  a schedule is enabled; retry delays end at some time (`WaitOver`).
- `InferenceNotRepeated` speaks of `inferred`, a history of the runs that sent a
  request to the proxy agent.

Bounds: `MaxEvents`, `MaxRuns`, `MaxAccepted`, `MaxFaults`, `MaxConf`, and
`QueueLimit` and `MaxAttempts` in place of 1000 and the five of the code.

### 2.4 CentralWorkspace

State. `ops`, `svc`, `held` and `commits` are the relay's rows; `receipt`,
`publication`, `completion` and `executing` the desktop's four journals; `pc` and
`run` say where `loop()` is and what it carries; `bg` is the background
`synchronize()`. A snapshot is the number of changes it contains, so a revision
and its hash are one number.

Actions. A request is answered at once, or its answer is lost, or it is given up
and arrives later (`stray`), each at the cost of a fault. `connect`, `claim`,
`operate`, `synchronize` and `publish` are one action per await or journal write,
so that a `Crash` or `Quit` may fall between any two. `Lapse` is the relay noticing
that heartbeats have stopped; `Reconcile` the owner settling an operation whose
outcome is unknown, truthfully. The upload of the parts of a snapshot is folded
into saving it; whether a pod is ready for a command is a refusal that may or may
not happen in `Claim`; "unrun" is `failed` with an error that says it never ran.

Three simplifications, none of which changes what a receipt can become: `Finish`
removes `completion.json` and saves the new one for an operation that never ran
(`controller.ts:247`, `253`) in one step, as a crash between them only leaves the
settlement to the next connection; a command submitted at this desktop that the
desktop gives up (`controller.ts:451`) does not arrive later, where it would end as
failed at the next `begin`; and `stray` is a set, so equal requests that were given
up count as one.

Bounds: `MaxContent` changes of the data and `MaxFaults`.

### 2.5 PodInbox

State. The worker's `outbox`; the decisions that wait (`source`), the set being
sent (`collecting`) and the one acknowledged last (`published`); the relay's
`item` rows with their sequence numbers; the phone's session and memory
(`phone`), its storage (`disk`), a page of changes and the answers of `mark` and
`load` on their way. `stored` counts how many items each message became.

Actions. One for each transaction of `InboxStore`, for each half of a delivery or
publication that may be cut, and for the phone's calls. A page is read
(`SyncRead`) and applied (`SyncApply`) in two steps, and the copy is stored only
after the last page. `retain` expires and purges in one transaction, as the code
does.

- The digest of a decision is a version number, 0 while it does not wait; `read`
  stands for both flags of an item; an event has at most one row, so its key
  stands for the item's id. `source` is what `InboxDecisions.collect` returns,
  after its caps.
- `parseNotify` enforces what the relay checks, so no message is refused.
- A session lasts 30 days without renewal (`SessionLife`), no longer than a
  tombstone; this is what keeps a phone from missing a deletion.
- Nothing keeps a sync from reading while the answer of a `mark` or `load` is on
  its way, and nothing keeps the Mac from staying away until the relay has purged
  the tombstone of a message it still means to deliver. Both happen in the model.
  Two histories record it for the properties: `crossed` the items a sync has read
  past while an answer about them was on its way (until the next sign-in),
  `forgotten` how often a message was purged that could still be delivered.
- One phone in one tab: `client.ts:151`, where another tab has replaced the
  device session, is left out.

Bounds: `MaxVersion`, `MaxNow`, `MaxActs` (what the owner does), `MaxReplies`,
`MaxFaults`.

## 3. Runs

Sizes are distinct states. Deadlock checking is off except for `CentralWorkspace`:
at the clock's or the acts' bound, with nothing pending, nobody needs to act.

| Run | Instance | Shows |
| --- | --- | --- |
| `grants_guarded` (539k) | one guarded grant, 2 calls, brokered and referenced, once and timed, clock 0..2; fair clock and listings | type invariant, single use, spent command tokens, clean withdrawals and denials, tokens within their grant, no redemption after disconnection, refinement of `GrantPromise`, no request stays pending |
| `grants_table` (1.4M) | 2 ids, 1 reference, 2 calls, brokered or plain, once and always, 2 approvals, inbox limit 1; one may replace or widen the other | one grant per reference, bounded inbox, spendings follow approvals, what expired stays expired |
| `grants_spent_once` | one plain grant, two approvals | violation: single use fails for plain grants (finding) |
| `queue_leases` (459k) | 2 tasks, 2 workers, 2 updates that may overlap and be late; fair clock and polls | type invariant; only an update under way can lose an artifact, change a finished task or take one from its holder; an abandoned task first in line is handed out again |
| `queue_reopened` | 1 task, 2 workers | violation: a finished task becomes `working` again (finding) |
| `queue_lost` | 1 task, 1 worker, 2 updates | violation: a posted artifact is lost (finding) |
| `pods_queue` (620k) | 2 events, 2 runs, 2 attempts, 1 fault, two recoveries at a time | type invariant, script and claims follow the lease, inference not repeated, refinement of `EventQueue` |
| `pods_owner` (490k) | 1 event, 2 runs, 1 fault, every act of the owner; fair | a terminal is alone; accepted inputs are settled |
| `central_loop` (917k) | 2 operations (one local), 2 changes, 2 faults; fair | type invariant, outcomes are visible, reconciled before new work, refinement of `OperationPromise`; until a second fault, a known outcome is kept until it is told and what ran is settled |
| `central_stuck` | the same, 1 change, 1 fault; fair | violation: an accepted operation is never settled (finding) |
| `inbox_sync` (731k) | 1 message, 1 decision, room for one item, pages of one, 2 versions, clock 0..2, 2 acts, 1 fault; fair | type invariant, current copy, one item per message, the inbox and the phone catch up |
| `inbox_copy` | the same | violation: a deleted item is back in the phone's copy (finding) |

Why the bounds are enough for what is asked. Races of the handlers are between a
parked one and what others do before its next await, so two calls in progress,
each of any kind and started any number of times, contain every pair; a third
actor appears as a call that starts and ends between two steps of the others.
Times are small because the code only compares them: a TTL of 0 (overdue from the
next tick), lives of one or two and a clock of two or three ticks give every order
of "before, at, after". In `pods_queue` two runs and two attempts contain a retry,
a crash in either, and a recovery that meets the next run; two recoveries overlap.
In `pods_owner` one event is enough for a settlement, which concerns one input at
a time. In `grants_table` two approvals let a grant be spent, decided again and spent
again. In the central runs two operations let one be open while the other waits,
one local and one remote; two changes let a background snapshot be older than the
effect of a command, which its generation check must notice; two faults let a
fault meet the recovery from another. In the inbox runs one message and one
decision compete for the one place, pages of one make every sync with two changes
a long one, and lives of one tick with a clock of two let sessions, messages and
tombstones all end. The safety theorems below have none of these bounds.

Four runs and `inbox_copy` bound combinations with an action constraint
(`Bounded`), stated in the MC module. `grants_table`: the table is all brokered or
all plain, and a continuing grant, or one approved twice, is plain and alone, which
leaves out mixtures that share nothing but the table. `queue_leases`: updates
overlap while there is one task; with two, one is under way at a time.
`central_loop`: operations, faults and changes are four in all. `inbox_sync`: the
decision waits from the start and changes at most once. Such a constraint removes
steps, so a liveness property could hold because the way into its violation is
cut. What is cut is new work (enqueueing, a second update, submitting, a change of
the data), faults and acts of the owner; a fair action always keeps an outcome
that is none of these, so the process it stands for still runs on.

Fairness, and why the code justifies it.

- `grants_guarded`: the clock runs and somebody keeps listing grants: the owner's
  page, and every waiting client, polls `GET /api/grants`, and a listing sweeps. No
  fairness is assumed of owners, requesters or handlers in progress.
- `queue_leases`: the clock runs and some worker polls, which is what a service
  agent does; no update need succeed. `AbandonedIsRedelivered` promises nothing to
  a task behind another one: polls take the oldest claimable task and nothing
  limits deliveries, so one that every worker drops can keep newer ones waiting.
- `pods_owner`: the scheduler ticks every second and recovery every 15 seconds,
  processes end (scripts have a time limit), the worker is restarted, delays end.
  `InputsAreSettled` is about a pod that is left alone from some time on
  (`Undisturbed`) and whose runs are not used up by the bound (`RunsSuffice`).
- `central_loop`, `central_stuck`: the desktop's loop and background
  publication go on (it connects again after a second), the relay notices missing
  heartbeats, and the owner reconciles what is asked of him. `RanIsSettled` ends
  with a second fault: with two, the service can refuse every connection
  (`controller.ts:225`, `235-240`).
- `inbox_sync`: the desktop's timers run (15 s for messages, 10 s for decisions,
  republication after ten minutes, while its workspace is online), the phone is
  open and syncs (every 30 s, on return to the foreground and on going online) and
  answers arrive. Requests may still be lost or late, once.

## 4. Proofs

All theorems hold for any value of the constants that satisfies the module's
ASSUME; none assumes more. Each component has one inductive invariant, `IInv`, to
which `OutcomeProofs` adds what holds until a second fault. All safety properties
of the runs that pass are proved.

### Grants

`GrantsProofs`: `TypeCorrectness`; `SingleUse` (a guarded grant is redeemed at most
once); `CommandTokenSpends`; `WithdrawalIsClean`; `DenialIsClean`;
`SpendingFollowsApproval`; `TokensEndWithGrant`. `IInv` adds two parts to the
types. `RowsOK` ties each row to its history and to the tokens in circulation:
not approved means no token; approved means not yet spent; used means spent once;
a command token of a single-use grant exists only after the one spending, with
`consumed_at` telling whether it was redeemed. `CallsOK` says what a parked call
may still rely on although its row may have moved on. Each of these facts is
monotone (`Monotone`: no row disappears, approval counts only grow, the type of a
guarded grant is fixed once it was approved, no token is withdrawn), so lemma
`CallStable` shows once that every other call's step keeps them. What remains is
one lemma per store write and one per action.

`SpentWithinApprovals` says spent at most as often as approved, and redeemed at
most once more than spent. Redemptions alone are not bounded by approvals: with
enough approvals a claim that read an earlier approval and a command token of an
`always` approval can both mark a later `once` approval.

`GrantTableProofs`: `TableStep` says what any step may do to the table: sweep it,
and besides open one request or move one row. That every step is a `TableStep` is
proved once, action by action. From it follow `ExpiryIsFinal`,
`RevocationIsFinal`, `ReferencesAreUnique`, `InboxIsBounded`, and
`GrantsKeepPromise`, which shows that `Grants` implements `GrantPromise`: every
step moves, spends or redeems each guarded grant as the promise allows, or leaves
it alone.

### TaskQueue

`TypeCorrectness`, `LostToOverlapsOnly`, `FinishedForNewCalls` and
`HoldersAreAlone`, for workers whose updates overlap and wait in any way. The row an
update overwrites need not be the row it read, so little is invariant of the two
together; `CallsOK` says what every update under way has seen: a task its worker
held and that was not finished. `TaskStep` says what a step may do to each task,
and the three action properties are its parts. A claim satisfies it because it
takes only leases that are over, by a clock that is never ahead.

### PodRuns

`PodRunsProofs`: `PodTypes`, `ScriptsAreLeased`, `ClaimsFollowLease`,
`InferenceIsFinal`, `TerminalsAreAlone`. Everything hangs on the lease: the run
that is executed holds it unfenced (`ExecInv`); only an executed run's guardian
still has a pipe, so only the lease's run can get a script (`DomainInv`); a run
proven stopped stays so, because nobody can give its domain a pipe again
(`CheckInv`); claimed events are the inputs of the lease's run (`EventInv`).
`PodQueueProofs`: `PodsKeepQueue`, the refinement of `EventQueue`. The queue's
`tries` are the `retry_attempt` of the run an event was last claimed by. Every step
of the pod is a step of the queue or one it does not see (`QueueStep`), and two
facts about the tables need only that (`QueueKeeps`): `AttemptsAreBounded`, a
waiting or claimed input never has `MaxAttempts` attempts behind it, and
`ProcessedIsFinal`, what was processed is never claimed, returned or refused again.

### CentralWorkspace

`CentralProofs`: `CentralTypes`, `OutcomesAreVisible`, `GateFollowsOutcomes`,
`CentralKeepsPromise`, for any number of faults. `IInv` says where the loop and
the journals agree on the operation in hand (`StepInv`), that one operation is
open at a time and receipts agree with what ran (`LedgerInv`, `OpsInv`), that
every outcome in a journal or in a request on its way is truthful (`JournalInv`)
and that no copy is ahead of the data (`CopyInv`). In the refinement submitting
maps to `Submit`, `Execute` to `Run`, and any step of the service settles at most
the one open operation. `ReceiptsTellTheTruth` and `ReceiptsAreFinal` say what an
owner can read off a receipt: it agrees with whether the command ran, it ran at
most once, and no late or repeated request changes it.

`OutcomeProofs`: `OutcomesAreKept`, for any `MaxFaults`: until a second fault
happens, an outcome in `completion.json` is removed or replaced only once the
service has settled its operation. After two the code can lose it (section 5), so
the property ends there. One fault is a request given up, its answer lost or late,
a step that fails, or the end of the desktop's process. The invariant of the
theorem is `OneInv == IInv /\ (faults <= 1 => KInv)`; faults only grow, so a step
that ends with at most one began with at most one. The parts of `KInv`:

- `Sure`: before the fault the lease the desktop holds is the only one, so nothing
  but the desktop changes the service. `SureInv` says what it then knows: the
  `state.json` hash is the service's, no operation is `started` but the one in
  hand, and a committed publication is still being recorded.
- `Last`: the one fault has happened, and no `begin`, which would end the lease
  when it arrives, is on its way; `OneFault` shows what the fault leaves behind.
- `ConnectInv`: what a connection has read of the journals, and that it tells each
  untold outcome (`Pinned`) before it is done. `LoopInv`: between connections no
  journal has an untold outcome unless the operation is in hand. `KeptInv`: a
  publication on disk contains whatever is not told yet, so sending it again loses
  nothing.

TLC checked `KInv` first, with one fault, two operations and up to two changes
(1.7M states). The proof has one lemma for each group of steps: background
publication, faults and refusals that end a session, the end of the desktop, the
steps of `connect`, of the loop and of `operate`, and those of service and owner.

### PodInbox

`InboxProofs`: `InboxTypes`, `CopiesAreCurrent`, `MessagesAreOnce`,
`PurgesLeaveNothing`. `BoundInv` keeps rows and cursors behind the sequence.
`HeldInv` is why a purge is harmless: once a tombstone is older than any session
that could still hold its item, no session holds it, in memory, on disk, or in a
page or answer on its way. `CopyInv` says that memory, disk and page agree with the
relay up to their cursors, but for items in `crossed`; `ReplyInv` that an answer is
about such an item, or up to date, or about one whose newer state no sync has read.
The page is a prefix of the changes (`PageIsPrefix`), so advancing the cursor to
its last number skips nothing. `StoredInv` ties `stored` and `forgotten` to rows,
deliveries and requests on their way. `PurgesLeaveNothing` has no exception: even
when answers overtake each other, a phone with a valid session holds no item the
relay has purged, which no later sync could remove.

### Only model-checked

The liveness properties `PendingIsSettled`, `AbandonedIsRedelivered`,
`InputsAreSettled`, `RanIsSettled`, `DesktopIsShown` and `PhoneCatchesUp`: the
installed provers do not reason about ENABLED.

## 5. Findings and other problems

Runs that show a disagreement of the code with its own text:

1. `grants_spent_once`: `packages/grants/src/stores.ts:29-31` and the README of
   the package say that a single-use grant is spent once. For plain grants an
   approval in flight overwrites `used`, and the grant is spent again.
2. `queue_reopened`: `queue.ts:119-121` says that a terminal state finalizes a
   task and that an update without a valid lease throws. The lease is checked
   before an await and the UPDATE names the row by id only.
3. `queue_lost`: `queue.ts:117-119` says that an update appends its artifact. It
   writes the whole list it read before an await, so of two overlapping updates by
   the holder itself the second drops what the first appended.
4. `central_stuck`: `controller.ts:236-255` means to settle an operation that
   never ran at the next connection. With a claim whose answer was lost and a
   background publication behind it, `connect` rebuilds the refused publication
   and is refused again, at every connection, before it gets to that check.
5. `inbox_copy`: `client.ts:141` of the phone says that its copy never resurrects
   deleted items. `load` (`client.ts:174`) and `mark` (`client.ts:183`) put the item
   they were answered with into the copy even if a sync has read its tombstone
   meanwhile, and no later sync removes it.

Problems found while modelling that no run of its own is about, because one step
shows them, they need more faults, a passing run already names them as the
exception of its property, or no document speaks of them:

- A timed grant approved by a standing grant or the pre-approval hook has no
  `expires_at` (`index.post.ts:191`) and never ends.
- A task left in `input-required` or `auth-required` is never claimed again.
- With two faults the outcome of an operation can be lost: a publication journal
  without completion is still there when an operation fails after writing
  `completion.json`; `connect` publishes the journal it finds and then removes the
  `completion.json` that journal does not contain. With one operation, two changes
  and three faults TLC finds no other step that loses an outcome.
- A background publication is committed but its answer lost, its journal is
  overwritten and refused, and as nothing has changed since, `state.json` keeps the
  old receipt (`controller.ts:304`): the next connection is refused with "explicit
  reconciliation is required" (`controller.ts:225`).
- A message whose delivery stayed uncertain is deleted by the owner; the Mac
  returns after its tombstone was purged and delivers it again, as a second
  message, against `controller.ts:153` of `main/remote` ("an uncertain delivery
  never produces a second message", `NoSecondMessage`). TLC refutes
  `NoSecondMessage` under the constants of `inbox_sync`; `MessageOnce`, which that
  run checks, allows this one exception (`forgotten`) and no other.

## 6. Not modelled

- In modelled parts: delegations, batches and structured permissions of grants;
  broker pairing; several pods of one worker; the clocks of schedules; the upload
  of snapshot parts; push notifications, approval counts and the badge of the
  inbox, and the receipts a phone keeps of its answers.
- Pure parts: matching of shapes and policies, parsing, rendering, cryptography,
  DNS discovery. One statement per request: work apps, evidence apps, the secrets
  vault. Other programs' behaviour: the git forge. `PROJECT.json` gives the reason
  for each component.

Most of the repository is user interface, parsing and single-statement handlers
of this kind; the modules are about the protocols between its processes.

## 7. Plan

Modelled so far in the order of what depends on what: `Grants`, `TaskQueue`,
`PodRuns`, `CentralWorkspace`, `PodInbox`. Worth adding next:

1. `EffectLedger`, composed with `PodRuns`: a completed effect is never sent
   again; an uncertain one may be.
2. `RefreshFamilies`: rotation and revocation in separate awaits, several clients
   of one token file; a revoked family yields no usable token afterwards.
3. Answers of the phone as operations: `PodInbox` composed with
   `CentralWorkspace` over the request id a phone repeats.
