----------------------------- MODULE TaskQueue -----------------------------
(***************************************************************************)
(* The service provider's task queue (packages/sp-tasks): tasks are leased *)
(* to polling workers, who post progress and results while they hold the   *)
(* lease.  A claim is one SQL statement.  A worker's update is two awaits, *)
(* the row read and checked first and then overwritten by its id, so it is *)
(* two steps here; `call[c]' holds what an update in progress has read.    *)
(* Nothing makes a worker wait for one update before it posts the next, or *)
(* the second step follow the first before the lease ends.                 *)
(***************************************************************************)
EXTENDS Integers, FiniteSets

CONSTANTS
  Tasks,          \* task ids the run may enqueue
  NoTask,         \* "no task" in a call
  Workers,        \* service-agent identities
  NoWorker,       \* assignee IS NULL
  Calls,          \* slots for updates in progress
  Artifacts,      \* artifacts workers may post
  ResolveStates,  \* subset of States: the states workers post
  LeaseLife,      \* leaseMs
  MaxLag,         \* bound: how long a statement runs after its clock was read
  MaxNow,         \* bound of the clock
  MaxDeliveries   \* bound on the deliveries of one task

States   == {"absent", "submitted", "working", "input-required", "auth-required",
             "completed", "failed", "canceled", "rejected"}
Terminal == {"completed", "failed", "canceled", "rejected"}

ASSUME QueueAssumption ==
  /\ NoTask \notin Tasks /\ NoWorker \notin Workers
  /\ ResolveStates \subseteq States \ {"absent"}
  /\ LeaseLife \in Nat \ {0} /\ MaxLag \in Nat /\ MaxNow \in Nat /\ MaxDeliveries \in Nat

VARIABLES
  now,    \* Date.now() in coarse units
  task,   \* the agent_tasks table
  call    \* the updates in progress

vars == <<now, task, call>>

-----------------------------------------------------------------------------
(* Data.  assignee and lease_until are NULL together: NoWorker with lease 0 *)

Row == [state: States, assignee: Workers \cup {NoWorker}, lease: Nat,
        deliveries: Nat, created: Nat, artifacts: SUBSET Artifacts]

NoRow == [state |-> "absent", assignee |-> NoWorker, lease |-> 0,
          deliveries |-> 0, created |-> 0, artifacts |-> {}]

\* What an update read of its task: the `existing' row, as far as it is used.
Seen(r) == [state |-> r.state, assignee |-> r.assignee, artifacts |-> r.artifacts]

SeenRow == [state: States, assignee: Workers \cup {NoWorker}, artifacts: SUBSET Artifacts]

Call == [w: Workers \cup {NoWorker}, t: Tasks \cup {NoTask}, at: Nat, state: States,
         new: SUBSET Artifacts, existing: SeenRow]

Idle == [w |-> NoWorker, t |-> NoTask, at |-> 0, state |-> "absent",
         new |-> {}, existing |-> Seen(NoRow)]

Init ==
  /\ now = 0
  /\ task = [t \in Tasks |-> NoRow]
  /\ call = [c \in Calls |-> Idle]

-----------------------------------------------------------------------------
(* Operations                                                              *)

\* Handlers read the clock before the statement they pass it to, which may
\* still wait for the database (withBusyRetry, busy_timeout).
ClockRead == {at \in 0..now : now - at <= MaxLag}

enqueueTask(t) ==
  /\ task[t].state = "absent"
  /\ \E at \in ClockRead : task' = [task EXCEPT ![t] = [NoRow EXCEPT !.state = "submitted", !.created = at]]
  /\ UNCHANGED <<now, call>>

\* Seeded fault: a lease counts as over at its last instant.
ClaimableEarly(r, at) == r.state = "submitted" \/ (r.state = "working" /\ r.lease <= at)

\* Seeded fault: the state of a leased task is not looked at.
ClaimableAnyState(r, at) == r.state = "submitted" \/ (r.state # "absent" /\ r.lease < at)

\* Seeded fault: only new tasks are handed out.
ClaimableNew(r, at) == r.state = "submitted"

Claimable(r, at) == r.state = "submitted" \/ (r.state = "working" /\ r.lease < at)

Oldest(ready) == {t \in ready : \A o \in ready : task[t].created <= task[o].created}

Leased(r, w, until) ==
  [r EXCEPT !.state = "working", !.assignee = w, !.lease = until, !.deliveries = @ + 1]

\* leaseNextTask, one UPDATE ... WHERE id = (SELECT ...): the oldest claimable task.
leaseNextTask(w) ==
  /\ \E at \in ClockRead :
       \E t \in Oldest({t \in Tasks : Claimable(task[t], at)}) :
         /\ task[t].deliveries < MaxDeliveries
         /\ task' = [task EXCEPT ![t] = Leased(task[t], w, at + LeaseLife)]
  /\ UNCHANGED <<now, call>>

\* resolveTask's check of the caller's lease.
Held(r, w, at) == r.assignee = w /\ at <= r.lease

\* resolveTask up to its await: getRow and the check of the lease.
ResolveRead(c, w, t, state, new) ==
  /\ call[c] = Idle
  /\ \E at \in ClockRead :
       /\ Held(task[t], w, at)
       /\ call' = [call EXCEPT ![c] = [w |-> w, t |-> t, at |-> at, state |-> state,
                                       new |-> new, existing |-> Seen(task[t])]]
  /\ UNCHANGED <<now, task>>

\* Seeded fault: the artifact replaces those before it.
AppendedAlone(k) == k.new

\* The artifact is appended to the list as it was read.
Appended(k) == k.existing.artifacts \cup k.new

\* Seeded fault: the extension is subtracted.
LeaseEndBackwards(k) == IF k.state \in Terminal THEN 0 ELSE k.at - LeaseLife

\* A progress update extends the lease, a terminal one releases it.
LeaseEnd(k) == IF k.state \in Terminal THEN 0 ELSE k.at + LeaseLife

Resolved(r, k) ==
  [r EXCEPT !.state = k.state, !.artifacts = Appended(k), !.lease = LeaseEnd(k),
            !.assignee = IF k.state \in Terminal THEN NoWorker ELSE k.w]

\* resolveTask's UPDATE ... WHERE id, without another look at the row.
ResolveWrite(c) ==
  LET k == call[c] IN
  /\ k # Idle
  /\ task' = [task EXCEPT ![k.t] = Resolved(task[k.t], k)]
  /\ call' = [call EXCEPT ![c] = Idle]
  /\ UNCHANGED now

\* The update fails: the database stays busy, or the process restarts.
ResolveLost(c) ==
  /\ call[c] # Idle
  /\ call' = [call EXCEPT ![c] = Idle]
  /\ UNCHANGED <<now, task>>

Tick == now < MaxNow /\ now' = now + 1 /\ UNCHANGED <<task, call>>

Resolve(c) ==
  \E w \in Workers, t \in Tasks, state \in ResolveStates, new \in {{}} \cup {{a} : a \in Artifacts} :
    ResolveRead(c, w, t, state, new)

Next ==
  \/ \E t \in Tasks : enqueueTask(t)
  \/ \E w \in Workers : leaseNextTask(w)
  \/ \E c \in Calls : Resolve(c) \/ ResolveWrite(c) \/ ResolveLost(c)
  \/ Tick

Spec == Init /\ [][Next]_vars

\* Some worker keeps polling, and the clock runs.
FairSpec == Spec /\ WF_vars(Tick) /\ WF_vars(\E w \in Workers : leaseNextTask(w))

-----------------------------------------------------------------------------
(* Properties                                                              *)

\* Every variable keeps its shape, and a task has a lease exactly while it is
\* assigned: enqueue, claim and resolve write the two columns together.
TypeOK ==
  /\ now \in 0..MaxNow
  /\ task \in [Tasks -> Row]
  /\ call \in [Calls -> Call]
  /\ \A t \in Tasks : task[t].assignee = NoWorker => task[t].lease = 0

\* The step overwrites task t with update c, by its id.
Overwrites(c, t) == call[c] # Idle /\ call[c].t = t /\ call'[c] = Idle /\ task'[t] # task[t]

\* queue.ts:117-119 "it appends `artifact`": what workers posted stays posted.
ArtifactsKept == [][\A t \in Tasks : task[t].artifacts \subseteq task'[t].artifacts]_vars

\* An artifact is lost in one way only: an update of resolveTask that had read
\* the list before it was appended writes back its own list.
LostToOverlapOnly ==
  [][\A t \in Tasks : \A a \in task[t].artifacts \ task'[t].artifacts :
       \E c \in Calls : Overwrites(c, t) /\ a \notin call[c].existing.artifacts]_vars

\* queue.ts:119-120 "A terminal `state` finalizes it and releases the lease": a
\* finished task stays as it is, whatever claims and updates are under way.
FinalIsFinal == [][\A t \in Tasks : task[t].state \in Terminal => task'[t] = task[t]]_vars

\* A finished task changes in one way only: by an update that passed the check
\* of resolveTask when its worker still held the unfinished task.  No claim and
\* no update that begins later touches it.
ReopenedByLateOnly ==
  [][\A t \in Tasks : task[t].state \in Terminal /\ task'[t] # task[t] =>
       \E c \in Calls : /\ Overwrites(c, t)
                        /\ call[c].existing.state \notin Terminal
                        /\ call[c].existing.assignee = call[c].w]_vars

\* A task that a worker holds passes to another one only when its lease is over,
\* when its holder has put it back, or by an update of the new holder that passed
\* the check of resolveTask when the task was his, before the present lease.
HolderIsAlone ==
  [][\A t \in Tasks :
       task[t].assignee # NoWorker /\ task'[t].assignee \notin {NoWorker, task[t].assignee} =>
         \/ task[t].lease < now \/ task[t].state = "submitted"
         \/ \E c \in Calls : Overwrites(c, t) /\ call[c].existing.assignee = task'[t].assignee]_vars

\* A working task whose worker let the lease run out does not stay like that
\* while it is the first in line: some poll hands it out again (leaseNextTask).
\* A task behind it may wait for ever, since nothing limits deliveries.
Abandoned(t) == task[t].state = "working" /\ task[t].lease < now /\ task[t].deliveries < MaxDeliveries
FirstInLine(t) ==
  \A o \in Tasks \ {t} : task[o].state \in {"submitted", "working"} => task[t].created < task[o].created
AbandonedIsRedelivered ==
  \A t \in Tasks : Abandoned(t) ~> ~Abandoned(t) \/ ~FirstInLine(t)

=============================================================================
