-------------------------- MODULE TaskQueueProofs --------------------------
(***************************************************************************)
(* Proofs about TaskQueue, for any tasks, workers, artifacts and bounds.   *)
(*                                                                         *)
(* An update may be written long after its check and over any other, so    *)
(* the row it overwrites need not be the row it read.  What the queue      *)
(* still guarantees follows from what every update under way has seen:     *)
(* CallsOK says that its worker held the task, which was not finished.     *)
(***************************************************************************)
EXTENDS TaskQueue, TLAPS

\* An update under way passed its check: its worker held the task it read.
CallsOK ==
  \A c \in Calls : call[c] # Idle =>
    /\ call[c].w \in Workers /\ call[c].t \in Tasks /\ call[c].state \in ResolveStates
    /\ call[c].existing.assignee = call[c].w
    /\ call[c].existing.state \notin Terminal

\* A finished task belongs to nobody; one not enqueued yet is empty, too.
RowsOK ==
  \A t \in Tasks :
    /\ task[t].state = "absent" => task[t].assignee = NoWorker /\ task[t].artifacts = {}
    /\ task[t].state \in Terminal => task[t].assignee = NoWorker

IInv == TypeOK /\ CallsOK /\ RowsOK

\* What a step may do to each task: the three action properties in one.
TaskStep ==
  \A t \in Tasks :
    /\ \A a \in task[t].artifacts \ task'[t].artifacts :
         \E c \in Calls : Overwrites(c, t) /\ a \notin call[c].existing.artifacts
    /\ task[t].state \in Terminal /\ task'[t] # task[t] =>
         \E c \in Calls : /\ Overwrites(c, t)
                          /\ call[c].existing.state \notin Terminal
                          /\ call[c].existing.assignee = call[c].w
    /\ task[t].assignee # NoWorker /\ task'[t].assignee \notin {NoWorker, task[t].assignee} =>
         \/ task[t].lease < now \/ task[t].state = "submitted"
         \/ \E c \in Calls : Overwrites(c, t) /\ call[c].existing.assignee = task'[t].assignee

\* Handlers read the clock at a natural number no later than now.
LEMMA ClockReadNat ==
  ASSUME TypeOK, NEW at \in ClockRead
  PROVE  at \in Nat /\ at <= now
BY QueueAssumption DEF TypeOK, ClockRead

\* No task at all, and no update under way, are of the right shape.
LEMMA EmptyShapes == NoRow \in Row /\ Idle \in Call
<1>1. "absent" \in States
  BY DEF States
<1>2. NoRow \in Row
  BY <1>1, SMT DEF NoRow, Row
<1>3. Seen(NoRow) \in SeenRow
  BY <1>1, SMT DEF Seen, SeenRow, NoRow
<1>4. Idle \in Call
  BY <1>1, <1>3, Zenon DEF Idle, Call
<1> QED
  BY <1>2, <1>4

\* The empty tables satisfy the invariant.
LEMMA InitInvariant == Init => IInv
<1> SUFFICES ASSUME Init PROVE IInv
  OBVIOUS
<1>1. /\ NoRow.state = "absent" /\ NoRow.assignee = NoWorker /\ NoRow.lease = 0
      /\ NoRow.artifacts = {}
  BY SMT DEF NoRow
<1>2. TypeOK
  BY <1>1, EmptyShapes, QueueAssumption, SMT DEF Init, TypeOK
<1>3. CallsOK /\ RowsOK
  BY <1>1, SMT DEF Init, CallsOK, RowsOK, Terminal
<1> QED
  BY <1>2, <1>3 DEF IInv

\* A step that leaves the updates alone and moves one task to a row of the
\* right shape keeps the invariant.
LEMMA RowWritten ==
  ASSUME IInv, NEW t \in Tasks, NEW r \in Row,
         task' = [task EXCEPT ![t] = r], UNCHANGED <<now, call>>,
         r.assignee = NoWorker => r.lease = 0,
         r.state # "absent",
         r.state \in Terminal => r.assignee = NoWorker
  PROVE  IInv'
<1>1. /\ task' \in [Tasks -> Row] /\ task'[t] = r
      /\ \A o \in Tasks : o # t => task'[o] = task[o]
  BY DEF IInv, TypeOK
<1>2. TypeOK'
  BY <1>1 DEF IInv, TypeOK
<1>3. CallsOK' /\ RowsOK'
  BY <1>1 DEF IInv, CallsOK, RowsOK
<1> QED
  BY <1>2, <1>3 DEF IInv

\* A new task is empty and belongs to nobody.
LEMMA EnqueueStep ==
  ASSUME IInv, NEW t \in Tasks, enqueueTask(t)
  PROVE  IInv' /\ TaskStep
<1>1. PICK at \in ClockRead :
        task' = [task EXCEPT ![t] = [NoRow EXCEPT !.state = "submitted", !.created = at]]
  BY DEF enqueueTask
<1> DEFINE r == [NoRow EXCEPT !.state = "submitted", !.created = at]
<1>2. at \in Nat /\ "submitted" \in States
  BY <1>1, ClockReadNat DEF IInv, States
<1>3. /\ r \in Row /\ r.state = "submitted" /\ r.assignee = NoWorker
      /\ r.lease = 0 /\ r.artifacts = {}
  <2>1. r \in Row
    BY <1>2 DEF NoRow, Row
  <2>2. r.state = "submitted" /\ r.assignee = NoWorker /\ r.lease = 0 /\ r.artifacts = {}
    BY DEF NoRow
  <2> QED
    BY <2>1, <2>2
<1>4. task' = [task EXCEPT ![t] = r] /\ UNCHANGED <<now, call>>
  BY <1>1 DEF enqueueTask
<1> HIDE DEF r
<1>5. IInv'
  BY <1>3, <1>4, RowWritten, Zenon DEF Terminal
<1>6. /\ task[t].state \notin Terminal /\ task[t].assignee = NoWorker /\ task[t].artifacts = {}
      /\ \A o \in Tasks : o # t => task'[o] = task[o]
  BY <1>4 DEF IInv, TypeOK, RowsOK, enqueueTask, Terminal
<1> QED
  BY <1>5, <1>6 DEF TaskStep

\* Leasing writes the lease's columns and no others.
LEMMA LeasedRow ==
  ASSUME NEW r \in Row, NEW w \in Workers, NEW until \in Nat
  PROVE  /\ Leased(r, w, until) \in Row
         /\ Leased(r, w, until).state = "working" /\ Leased(r, w, until).assignee = w /\ w # NoWorker
         /\ Leased(r, w, until).artifacts = r.artifacts
<1>1. "working" \in States /\ w # NoWorker
  BY QueueAssumption DEF States
<1>2. Leased(r, w, until) \in Row
  <2>1. r.deliveries + 1 \in Nat
    BY SMT DEF Row
  <2> QED
    BY <1>1, <2>1, Zenon DEF Leased, Row
<1>3. /\ Leased(r, w, until).state = "working" /\ Leased(r, w, until).assignee = w
      /\ Leased(r, w, until).artifacts = r.artifacts
  BY SMT DEF Leased, Row
<1> QED
  BY <1>1, <1>2, <1>3

\* A claim takes a task on offer, or one whose lease is over by a clock that is
\* never ahead, and leaves its artifacts.
LEMMA ClaimStep ==
  ASSUME IInv, NEW w \in Workers, leaseNextTask(w)
  PROVE  IInv' /\ TaskStep
<1>1. PICK at \in ClockRead, t \in Tasks :
        /\ Claimable(task[t], at)
        /\ task' = [task EXCEPT ![t] = Leased(task[t], w, at + LeaseLife)]
  BY DEF leaseNextTask, Oldest
<1>2. at \in Nat /\ at <= now /\ at + LeaseLife \in Nat
  BY <1>1, ClockReadNat, QueueAssumption DEF IInv
<1> DEFINE r == Leased(task[t], w, at + LeaseLife)
<1>3. /\ task[t] \in Row /\ r \in Row
      /\ r.state = "working" /\ r.assignee = w /\ w # NoWorker
      /\ r.artifacts = task[t].artifacts
  BY <1>2, LeasedRow DEF IInv, TypeOK
<1>4. task' = [task EXCEPT ![t] = r] /\ UNCHANGED <<now, call>>
  BY <1>1 DEF leaseNextTask
<1> HIDE DEF r
<1>5. IInv'
  BY <1>3, <1>4, RowWritten, Zenon DEF Terminal
<1>6. task[t].state \notin Terminal
  BY <1>1 DEF Claimable, Terminal
<1>7. task[t].lease < now \/ task[t].state = "submitted"
  <2>1. task[t].lease \in Nat /\ now \in Nat
    BY <1>3, SMT DEF IInv, TypeOK, Row
  <2> QED
    BY <1>1, <1>2, <2>1 DEF Claimable
<1>8. task'[t] = r /\ \A o \in Tasks : o # t => task'[o] = task[o]
  BY <1>4 DEF IInv, TypeOK
<1> QED
  BY <1>3, <1>5, <1>6, <1>7, <1>8 DEF TaskStep

\* An update that was just checked has seen its worker holding the task.
LEMMA ReadStep ==
  ASSUME IInv, NEW c \in Calls, Resolve(c)
  PROVE  IInv' /\ UNCHANGED task
<1>1. PICK w \in Workers, t \in Tasks, state \in ResolveStates, new \in {{}} \cup {{a} : a \in Artifacts} :
        ResolveRead(c, w, t, state, new)
  BY DEF Resolve
<1>2. PICK at \in ClockRead :
        /\ Held(task[t], w, at)
        /\ call' = [call EXCEPT ![c] = [w |-> w, t |-> t, at |-> at, state |-> state,
                                        new |-> new, existing |-> Seen(task[t])]]
  BY <1>1 DEF ResolveRead
<1> DEFINE k == [w |-> w, t |-> t, at |-> at, state |-> state, new |-> new,
                 existing |-> Seen(task[t])]
<1>3. /\ Seen(task[t]) \in SeenRow /\ Seen(task[t]).assignee = task[t].assignee
      /\ Seen(task[t]).state = task[t].state
  <2>1. task[t] \in Row
    BY DEF IInv, TypeOK
  <2> QED
    BY <2>1, SMT DEF Seen, SeenRow, Row
<1>4. k \in Call
  <2>1. at \in Nat /\ state \in States /\ new \in SUBSET Artifacts
    BY ClockReadNat, QueueAssumption DEF IInv
  <2> QED
    BY <1>3, <2>1, Zenon DEF Call
<1>5. k.w = w /\ k.t = t /\ k.state = state /\ k.existing = Seen(task[t])
  OBVIOUS
<1>6. /\ UNCHANGED <<now, task>>
      /\ call'[c] = k /\ call' \in [Calls -> Call]
      /\ \A d \in Calls : d # c => call'[d] = call[d]
  BY <1>1, <1>2, <1>4 DEF IInv, TypeOK, ResolveRead
<1>7. task[t].assignee = w /\ task[t].state \notin Terminal
  BY <1>2, QueueAssumption DEF Held, IInv, RowsOK
<1> HIDE DEF k
<1>8. TypeOK'
  BY <1>6 DEF IInv, TypeOK
<1>9. CallsOK' /\ RowsOK'
  BY <1>3, <1>5, <1>6, <1>7 DEF IInv, CallsOK, RowsOK
<1> QED
  BY <1>6, <1>8, <1>9 DEF IInv

\* What resolveTask writes is a row again, released exactly if it is finished.
LEMMA ResolvedRow ==
  ASSUME NEW r \in Row, NEW k \in Call
  PROVE  /\ Resolved(r, k) \in Row
         /\ Resolved(r, k).state = k.state
         /\ Resolved(r, k).artifacts = k.existing.artifacts \cup k.new
         /\ k.state \in Terminal =>
              Resolved(r, k).assignee = NoWorker /\ Resolved(r, k).lease = 0
         /\ k.state \notin Terminal => Resolved(r, k).assignee = k.w
<1>1. /\ k.at \in Nat /\ k.state \in States
      /\ k.existing \in SeenRow /\ k.new \in SUBSET Artifacts
      /\ k.w \in Workers \cup {NoWorker}
  BY SMT DEF Call
<1>2. LeaseEnd(k) \in Nat /\ (k.state \in Terminal => LeaseEnd(k) = 0)
  BY <1>1, QueueAssumption, SMT DEF LeaseEnd
<1>3. Appended(k) \in SUBSET Artifacts /\ Appended(k) = k.existing.artifacts \cup k.new
  BY <1>1, SMT DEF Appended, SeenRow
<1>4. Resolved(r, k) \in Row
  <2>1. (IF k.state \in Terminal THEN NoWorker ELSE k.w) \in Workers \cup {NoWorker}
    BY <1>1
  <2> QED
    BY <1>1, <1>2, <1>3, <2>1, Zenon DEF Resolved, Row
<1>5. /\ Resolved(r, k).state = k.state
      /\ Resolved(r, k).artifacts = Appended(k)
      /\ Resolved(r, k).lease = LeaseEnd(k)
      /\ Resolved(r, k).assignee = IF k.state \in Terminal THEN NoWorker ELSE k.w
  BY SMT DEF Resolved, Row
<1> QED
  BY <1>2, <1>3, <1>4, <1>5

\* An update overwrites whatever row it finds with what it had read and added.
LEMMA WriteStep ==
  ASSUME IInv, NEW c \in Calls, ResolveWrite(c)
  PROVE  IInv' /\ TaskStep
<1> DEFINE k == call[c]
<1> DEFINE r == Resolved(task[k.t], k)
<1>1. /\ k \in Call /\ k # Idle /\ k.w \in Workers /\ k.t \in Tasks /\ k.state \in ResolveStates
      /\ k.existing.assignee = k.w /\ k.existing.state \notin Terminal
      /\ task[k.t] \in Row
  BY DEF IInv, TypeOK, CallsOK, ResolveWrite
<1>2. /\ r \in Row /\ r.state = k.state /\ r.artifacts = k.existing.artifacts \cup k.new
      /\ k.state \in Terminal => r.assignee = NoWorker /\ r.lease = 0
      /\ k.state \notin Terminal => r.assignee = k.w
      /\ k.w # NoWorker /\ k.state # "absent"
  BY <1>1, ResolvedRow, QueueAssumption
<1>3. /\ task' = [task EXCEPT ![k.t] = r]
      /\ call' = [call EXCEPT ![c] = Idle]
      /\ now' = now
  BY DEF ResolveWrite
<1>4. /\ task' \in [Tasks -> Row] /\ task'[k.t] = r
      /\ \A o \in Tasks : o # k.t => task'[o] = task[o]
  BY <1>1, <1>2, <1>3 DEF IInv, TypeOK
<1>5. /\ call' \in [Calls -> Call] /\ call'[c] = Idle
      /\ \A d \in Calls : d # c => call'[d] = call[d]
  BY <1>3, EmptyShapes DEF IInv, TypeOK
<1> HIDE DEF r
<1>6. TypeOK'
  BY <1>2, <1>3, <1>4, <1>5 DEF IInv, TypeOK
<1>7. CallsOK' /\ RowsOK'
  BY <1>2, <1>4, <1>5 DEF IInv, CallsOK, RowsOK
<1>8. task'[k.t] # task[k.t] => Overwrites(c, k.t)
  BY <1>1, <1>5 DEF Overwrites
<1>9. ASSUME NEW a \in task[k.t].artifacts \ task'[k.t].artifacts
      PROVE  Overwrites(c, k.t) /\ a \notin k.existing.artifacts
  BY <1>2, <1>4, <1>8
<1>10. task'[k.t].assignee \in {NoWorker, k.w}
  BY <1>2, <1>4
<1>11. TaskStep
  <2> SUFFICES ASSUME NEW t \in Tasks, t = k.t
               PROVE  /\ \A a \in task[t].artifacts \ task'[t].artifacts :
                           \E d \in Calls : Overwrites(d, t) /\ a \notin call[d].existing.artifacts
                      /\ task[t].state \in Terminal /\ task'[t] # task[t] =>
                           \E d \in Calls : /\ Overwrites(d, t)
                                            /\ call[d].existing.state \notin Terminal
                                            /\ call[d].existing.assignee = call[d].w
                      /\ task[t].assignee # NoWorker
                           /\ task'[t].assignee \notin {NoWorker, task[t].assignee} =>
                           \E d \in Calls : Overwrites(d, t)
                                            /\ call[d].existing.assignee = task'[t].assignee
    BY <1>4 DEF TaskStep
  <2> QED
    BY <1>1, <1>8, <1>9, <1>10
<1> QED
  BY <1>6, <1>7, <1>11 DEF IInv

\* An update that is lost changes no row.
LEMMA LostStep ==
  ASSUME IInv, NEW c \in Calls, ResolveLost(c)
  PROVE  IInv' /\ UNCHANGED task
<1>1. /\ call' \in [Calls -> Call] /\ call'[c] = Idle
      /\ \A d \in Calls : d # c => call'[d] = call[d]
      /\ UNCHANGED <<now, task>>
  BY EmptyShapes DEF IInv, TypeOK, ResolveLost
<1> QED
  BY <1>1 DEF IInv, TypeOK, CallsOK, RowsOK

\* Every step keeps the invariant and does to a task only what it may.
LEMMA StepInvariant ==
  ASSUME IInv, [Next]_vars
  PROVE  IInv' /\ TaskStep
<1>1. ASSUME UNCHANGED task PROVE TaskStep
  BY <1>1 DEF TaskStep
<1>2. ASSUME NEW c \in Calls, Resolve(c) PROVE IInv' /\ TaskStep
  BY <1>1, <1>2, ReadStep
<1>3. ASSUME NEW c \in Calls, ResolveLost(c) PROVE IInv' /\ TaskStep
  BY <1>1, <1>3, LostStep
<1>4. ASSUME Tick PROVE IInv' /\ TaskStep
  <2>1. now' \in 0..MaxNow /\ UNCHANGED <<task, call>>
    BY <1>4, QueueAssumption DEF IInv, TypeOK, Tick
  <2> QED
    BY <1>1, <2>1 DEF IInv, TypeOK, CallsOK, RowsOK
<1>5. ASSUME UNCHANGED vars PROVE IInv' /\ TaskStep
  BY <1>1, <1>5 DEF vars, IInv, TypeOK, CallsOK, RowsOK
<1> QED
  BY <1>2, <1>3, <1>4, <1>5, EnqueueStep, ClaimStep, WriteStep DEF Next

\* The queue keeps the shape of its table, and a lease only on assigned tasks,
\* whatever workers do (queue.ts writes assignee and lease_until together).
THEOREM TypeCorrectness == Spec => []TypeOK
<1>1. IInv => TypeOK
  BY DEF IInv
<1> QED
  BY <1>1, InitInvariant, StepInvariant, PTL DEF Spec

\* However workers overlap and delay their updates, an artifact can be lost only
\* to an update that read the list before it was appended (resolveTask).
THEOREM LostToOverlapsOnly == Spec => LostToOverlapOnly
<1>1. IInv /\ [Next]_vars =>
        [\A t \in Tasks : \A a \in task[t].artifacts \ task'[t].artifacts :
           \E c \in Calls : Overwrites(c, t) /\ a \notin call[c].existing.artifacts]_vars
  BY StepInvariant DEF TaskStep
<1> QED
  BY <1>1, InitInvariant, StepInvariant, PTL DEF Spec, LostToOverlapOnly

\* No claim, and no update that begins after a task was finished, changes it:
\* only one that passed resolveTask's check before can.
THEOREM FinishedForNewCalls == Spec => ReopenedByLateOnly
<1>1. IInv /\ [Next]_vars =>
        [\A t \in Tasks : task[t].state \in Terminal /\ task'[t] # task[t] =>
           \E c \in Calls : /\ Overwrites(c, t)
                            /\ call[c].existing.state \notin Terminal
                            /\ call[c].existing.assignee = call[c].w]_vars
  BY StepInvariant DEF TaskStep
<1> QED
  BY <1>1, InitInvariant, StepInvariant, PTL DEF Spec, ReopenedByLateOnly

\* A claim of leaseNextTask never takes a task whose lease is not over, although
\* its clock may lag; only an update of an earlier holder can.
THEOREM HoldersAreAlone == Spec => HolderIsAlone
<1>1. IInv /\ [Next]_vars =>
        [\A t \in Tasks :
           task[t].assignee # NoWorker /\ task'[t].assignee \notin {NoWorker, task[t].assignee} =>
             \/ task[t].lease < now \/ task[t].state = "submitted"
             \/ \E c \in Calls : Overwrites(c, t) /\ call[c].existing.assignee = task'[t].assignee]_vars
  BY StepInvariant DEF TaskStep
<1> QED
  BY <1>1, InitInvariant, StepInvariant, PTL DEF Spec, HolderIsAlone

=============================================================================
