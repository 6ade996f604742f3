------------------------------ MODULE PodRuns ------------------------------
(***************************************************************************)
(* Runs of one pod (apps/openape-pods/src/worker): accepted events wait in *)
(* a queue, the scheduler's tick claims a batch of them for a run, the run *)
(* holds the pod's lease while its script process lives, and its end       *)
(* settles the batch: processed, failed, or returned for another attempt.  *)
(* The database survives; the worker's memory does not; the guardian and   *)
(* the script process it starts are processes of their own, which outlive  *)
(* the worker.  One pod and one execution domain per run.                  *)
(***************************************************************************)
EXTENDS Integers, FiniteSets

CONSTANTS
  MaxEvents,    \* bound of the accepted_events table
  MaxRuns,      \* bound of the runs table
  MaxAccepted,  \* bound on accepted inputs, redelivered ones and controlled starts included
  MaxAttempts,  \* maximumRecoveryAttempts
  QueueLimit,   \* open events of a pod
  MaxFaults,    \* bound on crashes and killed guardians
  MaxConf,      \* bound on changes of script or permissions
  OwnerActs,    \* what else the owner does: subset of {"pause", "schedule", "terminal"}
  Checks        \* recoverStoppedRuns calls in progress

ASSUME PodAssumption ==
  /\ MaxAttempts \in Nat \ {0} /\ MaxAccepted \in Nat /\ QueueLimit \in Nat
  /\ MaxEvents \in Nat /\ MaxRuns \in Nat /\ MaxFaults \in Nat /\ MaxConf \in Nat
  /\ OwnerActs \subseteq {"pause", "schedule", "terminal"}

NoRun  == 0
Events == 1..MaxEvents   \* in the order of accepted_events.sequence
Runs   == 1..MaxRuns     \* in the order of runs.started_at

Sources     == {"manual", "schedule", "event"}
EventStates == {"absent", "pending", "claimed", "processed", "failed"}
Causes      == {"failure", "shutdown", "non-retryable", "owner-cancelled"}

VARIABLES
  worker,    \* the worker process: "up", "stopping" or "down"
  pod,       \* the pod's row, schedule, script and permissions
  event,     \* accepted_events
  run,       \* runs, run_inputs and what run_events says of them
  lease,     \* run_leases
  exec,      \* RunDispatcher.execute: the runs this worker executes
  active,    \* RunDispatcher.active: the run cancelPod reaches
  domain,    \* execution_domains, the guardian, its record and its child
  check,     \* recoverStoppedRuns: runs proven stopped but not yet settled
  accepted,  \* inputs accepted so far
  faults,    \* faults so far
  inferred   \* history: runs that sent a request to the proxy agent

memory == <<exec, active, check>>
tables == <<event, run, lease>>
bounds == <<accepted, faults>>
vars == <<worker, pod, tables, memory, domain, bounds, inferred>>

-----------------------------------------------------------------------------
(* Data                                                                    *)

NoEvent == [source |-> "event", state |-> "absent", run |-> NoRun]

Event == [source: Sources, state: EventStates, run: Runs \cup {NoRun}]

\* `attempt' is retry_attempt; `waiting' says that retry_at is not over;
\* `settled' that a recovery event exists; `proxy' that an agent-dispatch event
\* does; `held' that an unconfirmed agent-cleanup names a host still running.
\* "over" stands for completed, failed and cancelled: a finished run with
\* unfinished inputs is settled by the transaction that ends it.
RunStates == {"absent", "running", "interrupted", "over"}

Run == [state: RunStates, inputs: SUBSET Events, attempt: Nat, conf: Nat, waiting: BOOLEAN,
        settled: BOOLEAN, proxy: BOOLEAN, held: BOOLEAN]

NewRun(S, attempt) ==
  [state |-> "running", inputs |-> S, attempt |-> attempt, conf |-> pod.conf, waiting |-> FALSE,
   settled |-> FALSE, proxy |-> FALSE, held |-> FALSE]

AbsentRun == [state |-> "absent", inputs |-> {}, attempt |-> 0, conf |-> 0, waiting |-> FALSE,
              settled |-> FALSE, proxy |-> FALSE, held |-> FALSE]

NoLease == [run |-> NoRun, fenced |-> FALSE]

\* How the script ended: `thrown' outcomes go through the catch of execute.
Ends == {"completed", "failed", "cancelled"}

Outcome == [state: Ends, cause: Causes, done: SUBSET Events, thrown: BOOLEAN]

Unknown == [state |-> "failed", cause |-> "failure", done |-> {}, thrown |-> FALSE]

Steps == {"none", "starting", "registered", "script", "settling", "closing"}

Exec == [pc: Steps, cause: Causes \cup {"none"}, out: Outcome]

NoExec == [pc |-> "none", cause |-> "none", out |-> Unknown]

Alive(r) == exec[r].pc # "none"

Guards   == {"none", "born", "recorded", "forked", "listed", "watching", "gone"}
Children == {"none", "gated", "running", "gone"}
Records  == {"none", "guardian", "child", "closed"}

Domain == [known: BOOLEAN, pipe: BOOLEAN, guard: Guards, child: Children, record: Records]

NoDomain == [known |-> FALSE, pipe |-> FALSE, guard |-> "none", child |-> "none", record |-> "none"]

Init ==
  /\ worker = "up"
  /\ pod = [paused |-> FALSE, enabled |-> TRUE, valid |-> TRUE, terminal |-> FALSE, conf |-> 0]
  /\ event = [e \in Events |-> NoEvent]
  /\ run = [r \in Runs |-> AbsentRun]
  /\ lease = NoLease
  /\ exec = [r \in Runs |-> NoExec]
  /\ active = NoRun
  /\ domain = [r \in Runs |-> NoDomain]
  /\ check = [c \in Checks |-> NoRun]
  /\ accepted = 0 /\ faults = 0
  /\ inferred = {}

-----------------------------------------------------------------------------
(* Accepting events (Scheduler.acceptEvent)                                *)

Pending(ev) == {e \in Events : ev[e].state = "pending"}
Claimed(ev) == {e \in Events : ev[e].state = "claimed"}

NextEvent(ev) == {e \in Events : ev[e].state = "absent" /\ \A o \in 1..(e - 1) : ev[o].state # "absent"}

NotFull == Cardinality(Pending(event) \cup Claimed(event)) < QueueLimit

Accept(e, source) == [event EXCEPT ![e] = [source |-> source, state |-> "pending", run |-> NoRun]]

\* An event of a reference watcher or of a delivery, its key not seen before.
AcceptEvent ==
  /\ worker = "up" /\ accepted < MaxAccepted /\ NotFull
  /\ \E e \in NextEvent(event) : event' = Accept(e, "event")
  /\ accepted' = accepted + 1
  /\ UNCHANGED <<worker, pod, run, lease, memory, domain, faults, inferred>>

\* The same key again: only an event that failed is queued once more.
Redeliver(e) ==
  /\ worker = "up" /\ accepted < MaxAccepted /\ NotFull
  /\ event[e].source = "event" /\ event[e].state = "failed"
  /\ event' = Accept(e, "event")
  /\ accepted' = accepted + 1
  /\ UNCHANGED <<worker, pod, run, lease, memory, domain, faults, inferred>>

\* requestManual: at most one manual request waits, and none while a run is active.
RequestManual ==
  /\ worker = "up" /\ accepted < MaxAccepted /\ NotFull
  /\ lease = NoLease
  /\ \A e \in Pending(event) : event[e].source # "manual"
  /\ \E e \in NextEvent(event) : event' = Accept(e, "manual")
  /\ accepted' = accepted + 1
  /\ UNCHANGED <<worker, pod, run, lease, memory, domain, faults, inferred>>

-----------------------------------------------------------------------------
(* Starting runs (Scheduler.drain, RunDispatcher.start, RunStore.reserve)  *)

NextRun == {r \in Runs : run[r].state = "absent" /\ \A o \in 1..(r - 1) : run[o].state # "absent"}

\* Seeded fault: an open terminal is not looked at.
StartableBeside == pod.valid

\* reserve refuses a pod with an open terminal or a script without validation.
Startable == pod.valid /\ ~pod.terminal

Largest(S) == CHOOSE n \in S : \A m \in S : m <= n

PreviousAttempts(ev, S) == {0} \cup {run[ev[e].run].attempt : e \in {e \in S : ev[e].run # NoRun}}

Claim(ev, S, r) ==
  [e \in Events |-> IF e \in S THEN [ev[e] EXCEPT !.state = "claimed", !.run = r] ELSE ev[e]]

\* start: the run, its lease and its claims in one transaction; then it executes.
Start(ev, S) ==
  \E r \in NextRun :
    /\ event' = Claim(ev, S, r)
    /\ run' = [run EXCEPT ![r] = NewRun(S, Largest(PreviousAttempts(ev, S)))]
    /\ lease' = [run |-> r, fenced |-> FALSE]
    /\ exec' = [exec EXCEPT ![r].pc = "starting"]
    /\ active' = r
    /\ UNCHANGED check

Refuse(ev, S) ==
  /\ event' = [e \in Events |-> IF e \in S THEN [ev[e] EXCEPT !.state = "failed"] ELSE ev[e]]
  /\ UNCHANGED <<run, lease, memory>>

Retained(ev) == {e \in Pending(ev) : ev[e].run # NoRun}

\* The run whose returned events are taken first: that of the oldest of them.
Original(ev) ==
  IF Retained(ev) = {} THEN NoRun
  ELSE ev[CHOOSE e \in Retained(ev) : \A o \in Retained(ev) : e <= o].run

Batch(ev) == {e \in Pending(ev) : Retained(ev) = {} \/ ev[e].run = Original(ev)}

Drainable(ev) ==
  /\ lease = NoLease /\ Claimed(ev) = {}
  /\ \E e \in Pending(ev) : pod.paused => ev[e].source = "manual"

OnSchedule(ev, r) == run[r].inputs # {} /\ \A e \in run[r].inputs : ev[e].source = "schedule"

Stale(r) == r # NoRun /\ run[r].conf # pod.conf

RetryReady(ev, r) ==
  r # NoRun => /\ ~pod.paused /\ ~run[r].waiting
               /\ OnSchedule(ev, r) => pod.enabled

Drain(ev) ==
  LET r == Original(ev)
      S == Batch(ev)
  IN \/ /\ ~Drainable(ev) \/ (~Stale(r) /\ ~RetryReady(ev, r))
        /\ event' = ev
        /\ UNCHANGED <<run, lease, memory>>
     \/ /\ Drainable(ev)
        /\ Stale(r) \/ (RetryReady(ev, r) /\ ~Startable)
        /\ Refuse(ev, S)
     \/ /\ Drainable(ev) /\ ~Stale(r) /\ RetryReady(ev, r) /\ Startable
        /\ Start(ev, S)

\* tick without a due schedule, and with one: an event of the schedule is
\* accepted unless one is pending or the queue is full; then drain.
Tick ==
  /\ worker = "up" /\ Pending(event) # {}
  /\ Drain(event)
  /\ UNCHANGED <<worker, pod, domain, bounds, inferred>>

TickDue ==
  /\ worker = "up" /\ pod.enabled /\ ~pod.paused
  /\ accepted < MaxAccepted /\ NotFull
  /\ \A e \in Pending(event) : event[e].source # "schedule"
  /\ \E e \in NextEvent(event) : Drain(Accept(e, "schedule"))
  /\ accepted' = accepted + 1
  /\ UNCHANGED <<worker, pod, domain, faults, inferred>>

\* startControlledRun: a run of its own, without events.
StartControlledRun ==
  /\ worker = "up" /\ lease = NoLease /\ Startable
  /\ accepted < MaxAccepted
  /\ Start(event, {})
  /\ accepted' = accepted + 1
  /\ UNCHANGED <<worker, pod, domain, faults, inferred>>

\* retry_at is over.
WaitOver(r) ==
  /\ run[r].waiting
  /\ run' = [run EXCEPT ![r].waiting = FALSE]
  /\ UNCHANGED <<worker, pod, event, lease, memory, domain, bounds, inferred>>

-----------------------------------------------------------------------------
(* The owner                                                               *)

Abortable(r) == r # NoRun /\ exec[r].pc \in {"starting", "registered", "script"} /\ exec[r].cause = "none"

\* cancelPod: the controller of the run in `active'; aborting it stops the guardian.
CancelPod(cause) ==
  IF Abortable(active)
  THEN /\ exec' = [exec EXCEPT ![active].cause = cause]
       /\ domain' = [domain EXCEPT ![active].pipe = @ /\ exec[active].pc # "script"]
  ELSE UNCHANGED <<exec, domain>>

Cancel ==
  /\ worker = "up" /\ lease.run # NoRun /\ Abortable(active)
  /\ CancelPod("owner-cancelled")
  /\ UNCHANGED <<worker, pod, tables, active, check, bounds, inferred>>

\* A new resource epoch: running work loses its authority, and the active
\* script needs another validation; most changes also pause the pod.
ChangeResources ==
  /\ worker = "up" /\ pod.conf < MaxConf
  /\ \E p \in {pod.paused, TRUE} :
       pod' = [pod EXCEPT !.conf = @ + 1, !.valid = FALSE, !.paused = p]
  /\ CancelPod("non-retryable")
  /\ UNCHANGED <<worker, tables, active, check, bounds, inferred>>

Validate ==
  /\ worker = "up" /\ ~pod.valid
  /\ pod' = [pod EXCEPT !.valid = TRUE]
  /\ UNCHANGED <<worker, tables, memory, domain, bounds, inferred>>

Pause    == "pause" \in OwnerActs /\ ~pod.paused /\ pod' = [pod EXCEPT !.paused = TRUE]
Resume   == pod.paused /\ pod' = [pod EXCEPT !.paused = FALSE]
Schedule == "schedule" \in OwnerActs /\ pod' = [pod EXCEPT !.enabled = ~@]

\* A terminal in the pod's environment takes the pod's place and pauses it.
OpenTerminal ==
  /\ "terminal" \in OwnerActs /\ lease = NoLease /\ ~pod.terminal
  /\ pod' = [pod EXCEPT !.terminal = TRUE, !.paused = TRUE]

CloseTerminal == pod.terminal /\ pod' = [pod EXCEPT !.terminal = FALSE]

Owner ==
  /\ worker = "up"
  /\ Pause \/ Resume \/ Schedule \/ OpenTerminal \/ CloseTerminal
  /\ UNCHANGED <<worker, tables, memory, domain, bounds, inferred>>

-----------------------------------------------------------------------------
(* The guardian and its child (pods-helper.c, supervise)                   *)

\* The domain after a step; the pipe of a guardian that is gone is closed.
Becomes(r, guard, child, record) ==
  domain' = [domain EXCEPT ![r] = [known |-> TRUE, pipe |-> IF guard = "gone" THEN FALSE ELSE domain[r].pipe,
                                   guard |-> guard, child |-> child, record |-> record]]

GuardianRecords(r) ==
  /\ domain[r].guard = "born"
  /\ Becomes(r, "recorded", "none", "guardian")

\* A closed lease is recorded before anything is forked.
GuardianForks(r) ==
  /\ domain[r].guard = "recorded"
  /\ IF domain[r].pipe THEN Becomes(r, "forked", "gated", "guardian") ELSE Becomes(r, "gone", "none", "closed")

GuardianLists(r) ==
  /\ domain[r].guard = "forked"
  /\ Becomes(r, "listed", "gated", "child")

\* The gate opens only while the worker still holds the other end of the pipe.
GuardianOpens(r) ==
  /\ domain[r].guard = "listed"
  /\ IF domain[r].pipe THEN Becomes(r, "watching", "running", "child") ELSE Becomes(r, "gone", "gone", "closed")

\* The child ended, the pipe closed, or no heartbeat came in time: the group
\* is terminated, and then the domain recorded as closed.
GuardianCloses(r) ==
  /\ domain[r].guard = "watching"
  /\ Becomes(r, "gone", "gone", "closed")

\* The script ends by itself; a gated child whose guardian is gone reads the end of its gate.
ChildEnds(r) ==
  /\ \/ domain[r].child = "running"
     \/ domain[r].child = "gated" /\ domain[r].guard = "gone"
  /\ Becomes(r, domain[r].guard, "gone", domain[r].record)

GuardianStep(r) ==
  \/ GuardianRecords(r) \/ GuardianForks(r) \/ GuardianLists(r)
  \/ GuardianOpens(r) \/ GuardianCloses(r) \/ ChildEnds(r)

ProcessStep(r) == GuardianStep(r) /\ UNCHANGED <<worker, pod, tables, memory, bounds, inferred>>

Processes == \E r \in Runs : ProcessStep(r)

\* Fault: the guardian is killed, or one of its system calls fails.
GuardianDies(r) ==
  /\ faults < MaxFaults
  /\ domain[r].guard \notin {"none", "gone"}
  /\ Becomes(r, "gone", domain[r].child, domain[r].record)
  /\ faults' = faults + 1
  /\ UNCHANGED <<worker, pod, tables, memory, accepted, inferred>>

-----------------------------------------------------------------------------
(* Executing a run (RunDispatcher.execute)                                 *)

HoldsLease(r) == lease = [run |-> r, fenced |-> FALSE]

\* registerDomain: stored only under the run's own lease, before anything is spawned.
RegisterDomain(r) ==
  /\ exec[r].pc = "starting" /\ exec[r].cause = "none" /\ HoldsLease(r)
  /\ domain' = [domain EXCEPT ![r].known = TRUE]
  /\ exec' = [exec EXCEPT ![r].pc = "registered"]
  /\ UNCHANGED <<worker, pod, tables, active, check, bounds, inferred>>

\* superviseProcess: the guardian is spawned; an aborted run closes its pipe at once.
Spawn(r) ==
  /\ exec[r].pc = "registered"
  /\ exec' = [exec EXCEPT ![r].pc = "script"]
  /\ domain' = [domain EXCEPT ![r] = [@ EXCEPT !.guard = "born", !.pipe = exec[r].cause = "none"]]
  /\ UNCHANGED <<worker, pod, tables, active, check, bounds, inferred>>

\* The callback around registerDomain failed: a guardian without a lease seals the record.
SealDomain(r) ==
  /\ exec[r].pc = "registered"
  /\ Becomes(r, "gone", "none", "closed")
  /\ exec' = [exec EXCEPT ![r].pc = "script"]
  /\ UNCHANGED <<worker, pod, tables, active, check, bounds, inferred>>

\* agent.run on the proxy: the dispatch is persisted before the request is sent.
PersistDispatch(r) ==
  /\ exec[r].pc = "script" /\ exec[r].cause = "none"
  /\ domain[r].child = "running" /\ HoldsLease(r)
  /\ run' = [run EXCEPT ![r].proxy = TRUE]
  /\ UNCHANGED <<worker, pod, event, lease, memory, domain, bounds, inferred>>

\* Seeded fault: the request is sent before the dispatch is persisted.
DispatchedLater(r) == TRUE

\* What must hold when the request leaves the worker.
Dispatched(r) == run[r].proxy

SendInference(r) ==
  /\ exec[r].pc = "script" /\ Dispatched(r) /\ r \notin inferred
  /\ inferred' = inferred \cup {r}
  /\ UNCHANGED <<worker, pod, tables, memory, domain, bounds>>

\* The proxy cannot confirm that a cancelled request has stopped (agent-cleanup).
CleanupUnconfirmed(r) ==
  /\ exec[r].pc = "script" /\ r \in inferred /\ ~run[r].held
  /\ run' = [run EXCEPT ![r].held = TRUE]
  /\ UNCHANGED <<worker, pod, event, lease, memory, domain, bounds, inferred>>

\* Seeded fault: an aborted run reports its script's outcome without the default cause.
OutcomesBare(r) ==
  {[state |-> "cancelled", cause |-> exec[r].cause, done |-> {}, thrown |-> TRUE]}

\* What the script or its runner can end with; an aborted run is cancelled.
Outcomes(r) ==
  IF exec[r].cause # "none"
  THEN {[state |-> "cancelled", cause |-> exec[r].cause, done |-> {}, thrown |-> TRUE]}
  ELSE {[state |-> s, cause |-> c, done |-> S, thrown |-> FALSE] :
          s \in {"completed", "failed"}, c \in {"failure", "non-retryable"}, S \in SUBSET run[r].inputs}
       \cup {[state |-> "failed", cause |-> c, done |-> {}, thrown |-> TRUE] : c \in {"failure", "non-retryable"}}

\* Nothing was started, or the guardian has exited (domain.completed).
EndScript(r) ==
  /\ \/ exec[r].pc = "starting"
     \/ exec[r].pc = "script" /\ domain[r].guard = "gone"
  /\ \E o \in Outcomes(r) :
       /\ exec[r].pc = "starting" => o.thrown
       /\ exec' = [exec EXCEPT ![r] = [pc |-> "settling", cause |-> "none", out |-> o]]
  /\ UNCHANGED <<worker, pod, tables, active, check, domain, bounds, inferred>>

\* Seeded fault: the group of a guardian that died is not looked at.
QuiescentAlone(r) == domain[r].record = "closed" \/ domain[r].guard \in {"none", "gone"}

\* inspect-domain; without a record the worker that registered it must be gone.
Quiescent(r) ==
  LET d == domain[r] IN
  CASE d.record = "closed"   -> TRUE
    [] d.record = "none"     -> ~Alive(r)
    [] d.record = "guardian" -> d.guard = "gone"
    [] d.record = "child"    -> d.guard = "gone" /\ d.child \notin {"gated", "running"}

ConfirmedStopped(r) == ~run[r].held /\ (domain[r].known => Quiescent(r))

-----------------------------------------------------------------------------
(* Settling a run (RunStore.recover, finish and interrupt)                 *)

Isolating == {"non-retryable", "owner-cancelled"}

Retries(r, cause) ==
  /\ ~run[r].proxy /\ run[r].conf = pod.conf
  /\ cause \notin Isolating
  /\ run[r].attempt + 1 < MaxAttempts

Returned(ev, r, state) ==
  [e \in Events |-> IF ev[e].state = "claimed" /\ ev[e].run = r THEN [ev[e] EXCEPT !.state = state] ELSE ev[e]]

\* A run without events that is retried gets a claimed manual event to wait with.
WithInput(ev, r, cause) ==
  IF run[r].inputs = {} /\ Retries(r, cause)
  THEN [e \in Events |-> IF e \in NextEvent(ev)
                         THEN [source |-> "manual", state |-> "claimed", run |-> r] ELSE ev[e]]
  ELSE ev

RecoverEvents(ev, r, cause) ==
  Returned(WithInput(ev, r, cause), r, IF Retries(r, cause) THEN "pending" ELSE "failed")

RecoverRun(ev, r, cause) ==
  [run[r] EXCEPT !.inputs  = IF run[r].inputs = {} /\ Retries(r, cause) THEN NextEvent(ev) ELSE @,
                 !.attempt = @ + 1, !.waiting = Retries(r, cause), !.settled = TRUE]

\* The catch path closes the run's shell before it leaves `active'.
Leave(r) ==
  /\ exec' = [exec EXCEPT ![r] = [NoExec EXCEPT !.pc = IF exec[r].out.thrown THEN "closing" ELSE "none"]]
  /\ active' = IF exec[r].out.thrown THEN active ELSE NoRun

Processed(r, S) ==
  [e \in Events |-> IF e \in S /\ event[e].state = "claimed" /\ event[e].run = r
                    THEN [event[e] EXCEPT !.state = "processed"] ELSE event[e]]

\* finish, after confirmDomainsStopped: one transaction.
Finish(r) ==
  LET o == exec[r].out
      ev == Processed(r, o.done)
      left == o.state # "completed" \/ \E e \in Claimed(ev) : ev[e].run = r
  IN /\ exec[r].pc = "settling" /\ ConfirmedStopped(r) /\ HoldsLease(r)
     /\ event' = IF left THEN RecoverEvents(ev, r, o.cause) ELSE ev
     /\ run' = [run EXCEPT ![r] = [(IF left THEN RecoverRun(ev, r, o.cause) ELSE @) EXCEPT !.state = "over"]]
     /\ lease' = NoLease
     /\ Leave(r)
     /\ UNCHANGED <<worker, pod, check, domain, bounds, inferred>>

\* The stop could not be confirmed in time: the lease stays, fenced.
Interrupt(r) ==
  /\ exec[r].pc = "settling" /\ ~ConfirmedStopped(r) /\ HoldsLease(r)
  /\ run' = [run EXCEPT ![r].state = "interrupted"]
  /\ lease' = [lease EXCEPT !.fenced = TRUE]
  /\ Leave(r)
  /\ UNCHANGED <<worker, pod, event, check, domain, bounds, inferred>>

\* Whatever run `active' holds by then is removed from it.
CloseShell(r) ==
  /\ exec[r].pc = "closing"
  /\ exec' = [exec EXCEPT ![r].pc = "none"]
  /\ active' = NoRun
  /\ UNCHANGED <<worker, pod, tables, check, domain, bounds, inferred>>

-----------------------------------------------------------------------------
(* Recovery of stopped runs (recoverStoppedRuns)                           *)

Candidate(r) ==
  /\ run[r].state \in {"interrupted", "over"} /\ ~run[r].settled
  /\ lease.run = r \/ \E e \in Claimed(event) : event[e].run = r

\* Up to the await: the run's processes are proven stopped.
RecoverProve(c, r) ==
  /\ worker = "up" /\ check[c] = NoRun
  /\ Candidate(r) /\ ConfirmedStopped(r)
  /\ check' = [check EXCEPT ![c] = r]
  /\ UNCHANGED <<worker, pod, tables, exec, active, domain, bounds, inferred>>

\* Seeded fault: the transaction does not look again.
StillOpenUnread(r) == TRUE

\* The transaction looks again: another call may have settled the run meanwhile.
StillOpen(r) == ~run[r].settled /\ \A o \in Runs : run[o].state # "running"

RecoverSettle(c) ==
  LET r == check[c] IN
     /\ worker # "down" /\ r # NoRun
     /\ IF StillOpen(r)
        THEN /\ lease' = IF lease.run = r THEN NoLease ELSE lease
             /\ event' = RecoverEvents(event, r, "shutdown")
             /\ run' = [run EXCEPT ![r] = RecoverRun(event, r, "shutdown")]
        ELSE UNCHANGED tables
     /\ check' = [check EXCEPT ![c] = NoRun]
     /\ UNCHANGED <<worker, pod, exec, active, domain, bounds, inferred>>

-----------------------------------------------------------------------------
(* The worker process                                                      *)

\* Its memory is gone, and the other ends of the guardians' pipes are closed.
WorkerGone ==
  /\ worker' = "down"
  /\ exec' = [r \in Runs |-> NoExec]
  /\ active' = NoRun
  /\ check' = [c \in Checks |-> NoRun]
  /\ domain' = [r \in Runs |-> [domain[r] EXCEPT !.pipe = FALSE]]

\* Fault: the worker dies, alone or with the application that is the proxy's host.
Crash ==
  /\ worker # "down" /\ faults < MaxFaults
  /\ WorkerGone
  /\ faults' = faults + 1
  /\ \/ UNCHANGED run
     \/ run' = [r \in Runs |-> [run[r] EXCEPT !.held = FALSE]]
  /\ UNCHANGED <<pod, event, lease, accepted, inferred>>

\* stop: the active run is aborted and awaited, then the process exits.
Stop ==
  /\ worker = "up" /\ faults < MaxFaults
  /\ worker' = "stopping" /\ faults' = faults + 1
  /\ CancelPod("shutdown")
  /\ UNCHANGED <<pod, tables, active, check, accepted, inferred>>

Exit ==
  /\ worker = "stopping" /\ active = NoRun
  /\ WorkerGone
  /\ run' = [r \in Runs |-> [run[r] EXCEPT !.held = FALSE]]
  /\ UNCHANGED <<pod, event, lease, bounds, inferred>>

\* Seeded fault: a restarted worker releases the leases it finds.
WorkerStartReleasing ==
  /\ worker = "down"
  /\ worker' = "up"
  /\ run' = [r \in Runs |-> IF run[r].state = "running" /\ lease.run = r
                            THEN [run[r] EXCEPT !.state = "interrupted"] ELSE run[r]]
  /\ lease' = NoLease
  /\ pod' = [pod EXCEPT !.terminal = FALSE]
  /\ UNCHANGED <<event, memory, domain, bounds, inferred>>

\* Seeded fault: it leaves their runs marked as running.
WorkerStartUnmarked ==
  /\ worker = "down"
  /\ worker' = "up"
  /\ lease' = IF lease = NoLease THEN NoLease ELSE [lease EXCEPT !.fenced = TRUE]
  /\ pod' = [pod EXCEPT !.terminal = FALSE]
  /\ UNCHANGED <<run, event, memory, domain, bounds, inferred>>

\* The dispatcher's constructor fences what an earlier worker left, and
\* terminals of the earlier application are released.
WorkerStart ==
  /\ worker = "down"
  /\ worker' = "up"
  /\ run' = [r \in Runs |-> IF run[r].state = "running" /\ lease.run = r
                            THEN [run[r] EXCEPT !.state = "interrupted"] ELSE run[r]]
  /\ lease' = IF lease = NoLease THEN NoLease ELSE [lease EXCEPT !.fenced = TRUE]
  /\ pod' = [pod EXCEPT !.terminal = FALSE]
  /\ UNCHANGED <<event, memory, domain, bounds, inferred>>

-----------------------------------------------------------------------------
(* Specification                                                           *)

ExecuteStep(r) ==
  \/ RegisterDomain(r) \/ Spawn(r) \/ SealDomain(r)
  \/ PersistDispatch(r) \/ SendInference(r) \/ CleanupUnconfirmed(r)
  \/ EndScript(r) \/ Finish(r) \/ Interrupt(r) \/ CloseShell(r)

Recover == \E c \in Checks : RecoverSettle(c) \/ \E r \in Runs : RecoverProve(c, r)

Next ==
  \/ AcceptEvent \/ RequestManual \/ StartControlledRun \/ Tick \/ TickDue
  \/ \E e \in Events : Redeliver(e)
  \/ Cancel \/ ChangeResources \/ Validate \/ Owner
  \/ Processes
  \/ \E r \in Runs : WaitOver(r) \/ GuardianDies(r) \/ ExecuteStep(r)
  \/ Recover
  \/ Crash \/ Stop \/ Exit \/ WorkerStart

Spec == Init /\ [][Next]_vars

\* The worker ticks every second and recovers every fifteen; processes end,
\* with the help of the script's time limit; the owner starts Pods again.
Fairness ==
  /\ WF_vars(Tick) /\ WF_vars(Recover) /\ WF_vars(Exit) /\ WF_vars(WorkerStart)
  /\ \A r \in Runs :
       /\ WF_vars(WaitOver(r)) /\ WF_vars(ExecuteStep(r)) /\ WF_vars(ProcessStep(r))

FairSpec == Spec /\ Fairness

-----------------------------------------------------------------------------
(* Properties                                                              *)

TypeOK ==
  /\ worker \in {"up", "stopping", "down"}
  /\ pod \in [paused: BOOLEAN, enabled: BOOLEAN, valid: BOOLEAN, terminal: BOOLEAN, conf: Nat]
  /\ event \in [Events -> Event]
  /\ run \in [Runs -> Run]
  /\ lease \in [run: Runs \cup {NoRun}, fenced: BOOLEAN]
  /\ exec \in [Runs -> Exec]
  /\ active \in Runs \cup {NoRun}
  /\ domain \in [Runs -> Domain]
  /\ check \in [Checks -> Runs \cup {NoRun}]
  /\ accepted \in Nat /\ faults \in Nat
  /\ inferred \subseteq Runs

\* A script process runs only for the run that holds the pod's lease.
ScriptHoldsLease == \A r \in Runs : domain[r].child = "running" => lease.run = r

\* A claimed event belongs to the run that holds the lease.
ClaimsAreLeased ==
  \A e \in Events : event[e].state = "claimed" => event[e].run # NoRun /\ lease.run = event[e].run

\* Events of a run that sent proxy inference are never returned for another attempt.
InferenceNotRepeated ==
  \A e \in Events : event[e].state = "pending" => event[e].run \notin inferred

\* While a terminal is open in the pod's environment no run holds the pod and no script runs in it.
TerminalAlone ==
  pod.terminal => lease = NoLease /\ \A r \in Runs : domain[r].child # "running"

\* The queue of accepted events keeps its promise.
Tries(e) == IF event[e].state \in {"pending", "claimed"} /\ event[e].run # NoRun
            THEN run[event[e].run].attempt ELSE 0

Queue == INSTANCE EventQueue WITH
  state <- [e \in Events |-> event[e].state], tries <- [e \in Events |-> Tries(e)]

KeepsQueue == Queue!Spec

\* Every accepted input is processed or fails, once the owner leaves the pod
\* active and no host is suspected of a run's work (and MaxRuns has room for
\* every attempt at it).
Undisturbed == ~pod.paused /\ pod.enabled /\ \A r \in Runs : ~run[r].held

RunsSuffice == accepted <= MaxRuns \div MaxAttempts

InputsAreSettled ==
  <>[](Undisturbed /\ RunsSuffice) => \A e \in Events : [](event[e].state = "pending" => <>(event[e].state \in {"processed", "failed"}))

=============================================================================
