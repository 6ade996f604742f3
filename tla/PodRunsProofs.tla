--------------------------- MODULE PodRunsProofs ---------------------------
(***************************************************************************)
(* Proofs about PodRuns, for any number of events, runs and faults.        *)
(*                                                                         *)
(* The lease is what everything hangs on: the run that is being executed   *)
(* holds it unfenced, only an executed run's guardian still has a pipe, so *)
(* only the lease's run can get a script process; and a run proven stopped *)
(* stays so, because nobody can give its domain a pipe again.              *)
(***************************************************************************)
EXTENDS PodRuns, TLAPS

\* The lease belongs to the run that is running, or interrupted and not settled.
LeaseInv ==
  /\ lease.run = NoRun => lease = NoLease
  /\ lease.run # NoRun =>
       /\ ~run[lease.run].settled
       /\ run[lease.run].state = IF lease.fenced THEN "interrupted" ELSE "running"
  /\ \A r \in Runs : run[r].state = "running" => lease.run = r
  /\ \A r \in Runs : run[r].state = "interrupted" /\ ~run[r].settled => lease.run = r

\* Only the run of an unfenced lease is executed, and nothing in a worker that is down.
Busy(r) == exec[r].pc \in {"starting", "registered", "script", "settling"}

ExecInv ==
  /\ \A r \in Runs : Busy(r) => HoldsLease(r)
  /\ worker = "down" => \A r \in Runs : exec[r] = NoExec
  /\ worker = "down" => \A c \in Checks : check[c] = NoRun
  /\ \A r \in Runs : run[r].state = "absent" => run[r] = AbsentRun /\ exec[r] = NoExec /\ domain[r] = NoDomain

\* What the guardian has recorded, and its child, at each of its steps.
Shape(d) ==
  /\ ~d.known => d = NoDomain
  /\ d.guard = "none"     => d.child = "none" /\ d.record = "none" /\ ~d.pipe
  /\ d.guard = "born"     => d.child = "none" /\ d.record = "none"
  /\ d.guard = "recorded" => d.child = "none" /\ d.record = "guardian"
  /\ d.guard = "forked"   => d.child = "gated" /\ d.record = "guardian"
  /\ d.guard = "listed"   => d.child = "gated" /\ d.record = "child"
  /\ d.guard = "watching" => d.child \in {"running", "gone"} /\ d.record = "child"
  /\ d.guard = "gone"     => /\ ~d.pipe
                             /\ d.record = "none" => d.child = "none"
                             /\ d.record = "guardian" => d.child # "running"
                             /\ d.record = "closed" => d.child \in {"none", "gone"}

\* No script runs in the domain, and no guardian can start one.
Harmless(d) == d.child # "running" /\ ~d.pipe

DomainInv ==
  \A r \in Runs :
    /\ Shape(domain[r])
    /\ domain[r].pipe => exec[r].pc = "script"
    /\ exec[r].pc \in {"starting", "registered"} => domain[r].guard = "none"
    /\ exec[r].pc = "registered" => domain[r].known
    /\ exec[r].pc = "settling" => ~domain[r].pipe /\ domain[r].guard \in {"none", "gone"}
    /\ domain[r].child = "running" => lease.run = r

\* A run proven stopped has no script; until it is settled it keeps the lease.
CheckInv ==
  \A c \in Checks : check[c] # NoRun =>
    LET r == check[c] IN
    /\ run[r].state \in {"interrupted", "over"}
    /\ Harmless(domain[r])
    /\ run[r].settled \/ lease.run = r

\* Claimed events are inputs of the lease's run; returned ones belong to a
\* settled run that sent no inference and has an attempt left.
EventInv ==
  /\ \A e \in Events : event[e].run # NoRun => run[event[e].run].state # "absent"
  /\ \A e \in Events : event[e].state = "absent" => event[e].run = NoRun
  /\ \A e \in Events : event[e].state = "claimed" =>
       event[e].run # NoRun /\ lease.run = event[e].run /\ e \in run[event[e].run].inputs
  /\ \A e \in Events : event[e].state = "pending" /\ event[e].run # NoRun =>
       /\ run[event[e].run].settled /\ ~run[event[e].run].proxy
       /\ run[event[e].run].attempt < MaxAttempts
  /\ \A r \in Runs : run[r].inputs = {} /\ ~run[r].settled => run[r].attempt = 0

InferredInv == \A r \in inferred : run[r].proxy

IInv ==
  /\ TypeOK /\ LeaseInv /\ ExecInv /\ DomainInv /\ CheckInv /\ EventInv /\ InferredInv
  /\ TerminalAlone

-----------------------------------------------------------------------------
(* Types                                                                   *)

\* The members of the enumerated sets.
LEMMA Names ==
  /\ \A x \in {"none", "born", "recorded", "forked", "listed", "watching", "gone"} : x \in Guards
  /\ \A x \in {"none", "gated", "running", "gone"} : x \in Children
  /\ \A x \in {"none", "guardian", "child", "closed"} : x \in Records
  /\ \A x \in {"completed", "failed", "cancelled"} : x \in Ends
BY DEF Guards, Children, Records, Ends

LEMMA GuardNames ==
  /\ "born" \in Guards /\ "recorded" \in Guards /\ "forked" \in Guards /\ "listed" \in Guards
  /\ "watching" \in Guards /\ "gone" \in Guards /\ "none" \in Guards
  /\ "gated" \in Children /\ "running" \in Children /\ "gone" \in Children /\ "none" \in Children
  /\ "guardian" \in Records /\ "child" \in Records /\ "closed" \in Records /\ "none" \in Records
BY Names

\* Runs are numbered from one.
LEMMA RunsAreNat == Runs \subseteq Nat /\ NoRun \notin Runs
BY PodAssumption DEF Runs, NoRun

\* The largest of zero and one natural number.
LEMMA LargestOfTwo ==
  ASSUME NEW a \in Nat
  PROVE  Largest({0}) = 0 /\ Largest({0, a}) = a
<1>1. \A n \in {0} : (\A m \in {0} : m <= n) <=> n = 0
  OBVIOUS
<1>2. \A n \in {0, a} : (\A m \in {0, a} : m <= n) <=> n = a
  OBVIOUS
<1>3. (CHOOSE n \in {0} : \A m \in {0} : m <= n) = 0
  BY <1>1
<1>4. (CHOOSE n \in {0, a} : \A m \in {0, a} : m <= n) = a
  BY <1>2
<1> QED
  BY <1>3, <1>4 DEF Largest

\* The events of a batch carry the attempts of one earlier run, or of none.
LEMMA BatchAttempts ==
  ASSUME TypeOK, NEW ev \in [Events -> Event], NEW S \in {{}, Batch(ev)}
  PROVE  /\ Largest(PreviousAttempts(ev, S)) \in Nat
         /\ \A e \in S : Largest(PreviousAttempts(ev, S)) = IF ev[e].run = NoRun THEN 0 ELSE run[ev[e].run].attempt
         /\ S = {} => Largest(PreviousAttempts(ev, S)) = 0
<1> DEFINE P == PreviousAttempts(ev, S)
<1>1. S \subseteq Pending(ev)
  BY DEF Batch
<1>2. CASE \A e \in S : ev[e].run = NoRun
  <2>1. P = {0}
    BY <1>2 DEF PreviousAttempts
  <2> QED
    BY <1>2, <2>1, LargestOfTwo
<1>3. CASE \E e \in S : ev[e].run # NoRun
  <2>1. PICK d \in S : ev[d].run # NoRun
    BY <1>3
  <2>2. d \in Events /\ S = Batch(ev) /\ d \in Retained(ev)
    BY <1>1, <2>1 DEF Pending, Retained
  <2>3. \A e \in S : ev[e].run = Original(ev)
    BY <2>2 DEF Batch
  <2>4. ev[d].run \in Runs /\ run[ev[d].run].attempt \in Nat
    BY <2>1, <2>2 DEF Event, TypeOK, Run
  <2>5. P = {0, run[ev[d].run].attempt}
    BY <2>1, <2>3 DEF PreviousAttempts
  <2> QED
    BY <2>1, <2>3, <2>4, <2>5, LargestOfTwo
<1> QED
  BY <1>2, <1>3

\* What the transactions write is well typed.
LEMMA AcceptType ==
  ASSUME TypeOK, NEW e \in Events, NEW source \in Sources
  PROVE  Accept(e, source) \in [Events -> Event]
BY DEF TypeOK, Accept, Event, EventStates

Recovered(x, I, n, w) == [x EXCEPT !.inputs = I, !.attempt = n, !.waiting = w, !.settled = TRUE]

LEMMA RecoveredType ==
  ASSUME NEW x \in Run, NEW I \in SUBSET Events, NEW n \in Nat, NEW w, w = TRUE \/ w = FALSE
  PROVE  Recovered(x, I, n, w) \in Run
<1>1. w \in BOOLEAN
  OBVIOUS
<1> QED
  BY <1>1 DEF Run, Recovered

LEMMA RecoverTypes ==
  ASSUME TypeOK, NEW ev \in [Events -> Event], NEW r \in Runs, NEW cause
  PROVE  RecoverEvents(ev, r, cause) \in [Events -> Event] /\ RecoverRun(ev, r, cause) \in Run
<1>1. WithInput(ev, r, cause) \in [Events -> Event]
  BY DEF WithInput, Event, Sources, EventStates
<1>2. RecoverEvents(ev, r, cause) \in [Events -> Event]
  <2> DEFINE w == WithInput(ev, r, cause)
  <2>1. \A e \in Events : w[e] \in Event
    BY <1>1
  <2>2. \A e \in Events, x \in {"pending", "failed"} : [w[e] EXCEPT !.state = x] \in Event
    BY <2>1 DEF Event, EventStates
  <2> HIDE DEF w
  <2>3. \A x \in {"pending", "failed"} : Returned(w, r, x) \in [Events -> Event]
    BY <2>1, <2>2 DEF Returned
  <2> QED
    BY <2>3 DEF RecoverEvents, w
<1>3. RecoverRun(ev, r, cause) \in Run
  <2>1. run[r] \in Run /\ NextEvent(ev) \subseteq Events
    BY DEF TypeOK, NextEvent
  <2> DEFINE I == IF run[r].inputs = {} /\ Retries(r, cause) THEN NextEvent(ev) ELSE run[r].inputs
             n == run[r].attempt + 1
             W == Retries(r, cause)
  <2>2. I \in SUBSET Events
    BY <2>1 DEF Run
  <2>3. W = TRUE \/ W = FALSE
    BY Zenon DEF Retries
  <2>4. RecoverRun(ev, r, cause) = Recovered(run[r], I, n, W)
    BY DEF RecoverRun, Recovered
  <2>5. n \in Nat
    BY <2>1 DEF Run
  <2> HIDE DEF I, n, W
  <2> QED
    BY <2>1, <2>2, <2>3, <2>4, <2>5, RecoveredType
<1> QED
  BY <1>2, <1>3

LEMMA StartTypes ==
  ASSUME TypeOK, NEW ev \in [Events -> Event], NEW S \in {{}, Batch(ev)}, Start(ev, S)
  PROVE  /\ event' \in [Events -> Event] /\ run' \in [Runs -> Run]
         /\ lease' \in [run: Runs \cup {NoRun}, fenced: BOOLEAN]
         /\ exec' \in [Runs -> Exec] /\ active' \in Runs \cup {NoRun}
         /\ check' \in [Checks -> Runs \cup {NoRun}]
<1>1. PICK r \in NextRun :
        /\ event' = Claim(ev, S, r)
        /\ run' = [run EXCEPT ![r] = NewRun(S, Largest(PreviousAttempts(ev, S)))]
        /\ lease' = [run |-> r, fenced |-> FALSE]
        /\ exec' = [exec EXCEPT ![r].pc = "starting"]
        /\ active' = r
        /\ UNCHANGED check
  BY DEF Start
<1>2. r \in Runs
  BY DEF NextRun
<1>3. event' \in [Events -> Event]
  BY <1>1, <1>2 DEF Claim, Event, EventStates
<1>4. NewRun(S, Largest(PreviousAttempts(ev, S))) \in Run
  BY BatchAttempts DEF NewRun, Run, RunStates, TypeOK, Batch, Pending
<1>5. run' \in [Runs -> Run]
  BY <1>1, <1>2, <1>4 DEF TypeOK
<1>6. exec' \in [Runs -> Exec]
  <2>1. exec \in [Runs -> Exec]
    BY DEF TypeOK
  <2>2. [exec[r] EXCEPT !.pc = "starting"] \in Exec
    BY <1>2, <2>1 DEF Exec, Steps
  <2>3. exec' = [exec EXCEPT ![r] = [exec[r] EXCEPT !.pc = "starting"]]
    BY <1>1
  <2> QED
    BY <1>2, <2>1, <2>2, <2>3
<1>7. /\ lease' \in [run: Runs \cup {NoRun}, fenced: BOOLEAN] /\ active' \in Runs \cup {NoRun}
      /\ check' \in [Checks -> Runs \cup {NoRun}]
  BY <1>1, <1>2 DEF TypeOK
<1> QED
  BY <1>3, <1>5, <1>6, <1>7

LEMMA DrainTypes ==
  ASSUME TypeOK, NEW ev \in [Events -> Event], Drain(ev)
  PROVE  /\ event' \in [Events -> Event] /\ run' \in [Runs -> Run]
         /\ lease' \in [run: Runs \cup {NoRun}, fenced: BOOLEAN]
         /\ exec' \in [Runs -> Exec] /\ active' \in Runs \cup {NoRun}
         /\ check' \in [Checks -> Runs \cup {NoRun}]
<1>1. CASE event' = ev /\ UNCHANGED <<run, lease, memory>>
  BY <1>1 DEF TypeOK, memory
<1>2. CASE Refuse(ev, Batch(ev))
  <2>1. \A e \in Events : ev[e] \in Event /\ [ev[e] EXCEPT !.state = "failed"] \in Event
    BY DEF Event, EventStates
  <2>2. event' \in [Events -> Event]
    BY <1>2, <2>1 DEF Refuse
  <2> QED
    BY <1>2, <2>2 DEF TypeOK, Refuse, memory
<1>3. CASE Start(ev, Batch(ev))
  BY <1>3, StartTypes
<1> QED
  BY <1>1, <1>2, <1>3 DEF Drain

\* A step of a run's execution keeps its type.
LEMMA StepTypes ==
  ASSUME TypeOK, NEW r \in Runs,
         \/ exec' = [exec EXCEPT ![r].pc = "registered"]
         \/ exec' = [exec EXCEPT ![r].pc = "script"]
         \/ exec' = [exec EXCEPT ![r].pc = "none"]
  PROVE  exec' \in [Runs -> Exec]
<1>1. exec \in [Runs -> Exec]
  BY DEF TypeOK
<1>2. \A x \in Exec : [x EXCEPT !.pc = "registered"] \in Exec
  BY DEF Exec, Steps
<1>3. \A x \in Exec : [x EXCEPT !.pc = "script"] \in Exec
  BY DEF Exec, Steps
<1>4. \A x \in Exec : [x EXCEPT !.pc = "none"] \in Exec
  BY DEF Exec, Steps
<1>5. \E y \in Exec : exec' = [exec EXCEPT ![r] = y]
  BY <1>1, <1>2, <1>3, <1>4
<1> QED
  BY <1>1, <1>5

\* What is noted about a run keeps its type.
LEMMA NoteTypes ==
  ASSUME TypeOK, NEW r \in Runs,
         \/ run' = [run EXCEPT ![r].waiting = FALSE]
         \/ run' = [run EXCEPT ![r].proxy = TRUE]
         \/ run' = [run EXCEPT ![r].held = TRUE]
         \/ run' = [run EXCEPT ![r].state = "interrupted"]
  PROVE  run' \in [Runs -> Run]
<1>1. run \in [Runs -> Run]
  BY DEF TypeOK
<1>2. \A x \in Run : [x EXCEPT !.waiting = FALSE] \in Run
  BY DEF Run
<1>3. \A x \in Run : [x EXCEPT !.proxy = TRUE] \in Run
  BY DEF Run
<1>4. \A x \in Run : [x EXCEPT !.held = TRUE] \in Run
  BY DEF Run
<1>5. \A x \in Run : [x EXCEPT !.state = "interrupted"] \in Run
  BY DEF Run, RunStates
<1>6. \E y \in Run : run' = [run EXCEPT ![r] = y]
  BY <1>1, <1>2, <1>3, <1>4, <1>5
<1> QED
  BY <1>1, <1>6

\* A cancellation leaves types alone.
LEMMA CancelTypes ==
  ASSUME TypeOK, NEW cause \in Causes, CancelPod(cause)
  PROVE  exec' \in [Runs -> Exec] /\ domain' \in [Runs -> Domain]
<1>1. CASE Abortable(active)
  <2>1. active \in Runs
    BY <1>1 DEF Abortable, TypeOK
  <2>2. exec' = [exec EXCEPT ![active].cause = cause]
    BY <1>1 DEF CancelPod
  <2> DEFINE b == domain[active].pipe /\ exec[active].pc # "script"
  <2>3. domain' = [domain EXCEPT ![active].pipe = b]
    BY <1>1 DEF CancelPod
  <2>4. b = TRUE \/ b = FALSE
    BY Zenon DEF TypeOK, Domain
  <2> HIDE DEF b
  <2>5. exec' \in [Runs -> Exec]
    BY <2>1, <2>2 DEF TypeOK, Exec
  <2>6. [domain EXCEPT ![active].pipe = TRUE] \in [Runs -> Domain] /\ [domain EXCEPT ![active].pipe = FALSE] \in [Runs -> Domain]
    BY <2>1 DEF TypeOK, Domain
  <2> QED
    BY <2>3, <2>4, <2>5, <2>6
<1>2. CASE ~Abortable(active)
  BY <1>2 DEF CancelPod, TypeOK
<1> QED
  BY <1>1, <1>2

\* What a step of a guardian or its child changes, and what it leaves alone.
LEMMA BecomesFrame ==
  ASSUME TypeOK, NEW r \in Runs, NEW g \in Guards, NEW c \in Children, NEW k \in Records, Becomes(r, g, c, k)
  PROVE  \A o \in Runs : o # r => domain'[o] = domain[o]
BY DEF Becomes, TypeOK

LEMMA BecomesFields ==
  ASSUME TypeOK, NEW r \in Runs, NEW g \in Guards, NEW c \in Children, NEW k \in Records, Becomes(r, g, c, k)
  PROVE  domain'[r].known = TRUE /\ domain'[r].guard = g /\ domain'[r].child = c /\ domain'[r].record = k
BY DEF Becomes, TypeOK

LEMMA BecomesPipe ==
  ASSUME TypeOK, NEW r \in Runs, NEW g \in Guards, NEW c \in Children, NEW k \in Records, Becomes(r, g, c, k)
  PROVE  /\ g = "gone" => ~domain'[r].pipe
         /\ domain'[r].pipe => domain[r].pipe
<1>1. CASE g = "gone"
  BY <1>1 DEF Becomes, TypeOK
<1>2. CASE g # "gone"
  BY <1>2 DEF Becomes, TypeOK
<1> QED
  BY <1>1, <1>2

\* Where a guardian's end leaves its domain.
LEMMA GoneFields ==
  ASSUME TypeOK, NEW r \in Runs, NEW c \in Children, NEW k \in Records, Becomes(r, "gone", c, k)
  PROVE  /\ domain'[r].known = TRUE /\ domain'[r].guard = "gone" /\ domain'[r].child = c
         /\ domain'[r].record = k /\ ~domain'[r].pipe
<1> DEFINE g == "gone"
<1>1. g \in Guards /\ Becomes(r, g, c, k)
  BY GuardNames
<1> HIDE DEF g
<1>2. domain'[r].known = TRUE /\ domain'[r].guard = g /\ domain'[r].child = c /\ domain'[r].record = k
  BY <1>1, BecomesFields
<1>3. g = "gone" => ~domain'[r].pipe
  BY <1>1, BecomesPipe
<1> QED BY <1>2, <1>3 DEF g

LEMMA BecomesType ==
  ASSUME TypeOK, NEW r \in Runs, NEW g \in Guards, NEW c \in Children, NEW k \in Records, Becomes(r, g, c, k)
  PROVE  domain' \in [Runs -> Domain]
<1> DEFINE p == IF g = "gone" THEN FALSE ELSE domain[r].pipe
           d == [known |-> TRUE, pipe |-> p, guard |-> g, child |-> c, record |-> k]
<1>1. domain' = [domain EXCEPT ![r] = d]
  BY DEF Becomes
<1>2. domain[r].pipe \in BOOLEAN
  BY DEF TypeOK, Domain
<1>3. p \in BOOLEAN
  BY <1>2
<1> HIDE DEF p
<1>4. d \in Domain
  BY <1>3 DEF Domain
<1> HIDE DEF d
<1> QED
  BY <1>1, <1>4 DEF TypeOK

LEMMA NextEventInEvents == \A ev : NextEvent(ev) \subseteq Events
BY DEF NextEvent

\* Sending a request, starting or stopping the worker: every step keeps the types.
LEMMA TypeStep == TypeOK /\ [Next]_vars => TypeOK'
<1> SUFFICES ASSUME TypeOK, [Next]_vars PROVE TypeOK'
  OBVIOUS
<1> USE DEF memory, tables, bounds
<1>1. ASSUME AcceptEvent \/ RequestManual PROVE TypeOK'
  <2>1. PICK e \in Events, source \in Sources : event' = Accept(e, source)
    BY <1>1, NextEventInEvents DEF AcceptEvent, RequestManual, Sources
  <2>2. accepted' \in Nat /\ UNCHANGED <<worker, pod, run, lease, memory, domain, faults, inferred>>
    BY <1>1 DEF AcceptEvent, RequestManual, TypeOK
  <2> QED
    BY <2>1, <2>2, AcceptType DEF TypeOK
<1>2. ASSUME NEW e \in Events, Redeliver(e) PROVE TypeOK'
  BY <1>2, AcceptType DEF Redeliver, TypeOK, Sources
<1>3. ASSUME Tick PROVE TypeOK'
  <2>1. Drain(event) /\ event \in [Events -> Event]
    BY <1>3 DEF Tick, TypeOK
  <2>2. UNCHANGED <<worker, pod, domain, bounds, inferred>>
    BY <1>3 DEF Tick
  <2> QED
    BY <2>1, <2>2, DrainTypes DEF TypeOK
<1>4. ASSUME TickDue PROVE TypeOK'
  <2>1. PICK e \in NextEvent(event) : Drain(Accept(e, "schedule"))
    BY <1>4 DEF TickDue
  <2>2. Accept(e, "schedule") \in [Events -> Event]
    BY AcceptType, NextEventInEvents DEF Sources
  <2>3. accepted' \in Nat /\ UNCHANGED <<worker, pod, domain, faults, inferred>>
    BY <1>4 DEF TickDue, TypeOK
  <2> QED
    BY <2>1, <2>2, <2>3, DrainTypes DEF TypeOK
<1>5. ASSUME StartControlledRun PROVE TypeOK'
  <2>1. Start(event, {}) /\ event \in [Events -> Event]
    BY <1>5 DEF StartControlledRun, TypeOK
  <2>2. accepted' \in Nat /\ UNCHANGED <<worker, pod, domain, faults, inferred>>
    BY <1>5 DEF StartControlledRun, TypeOK
  <2> QED
    BY <2>1, <2>2, StartTypes DEF TypeOK
<1>6. ASSUME NEW r \in Runs, WaitOver(r) PROVE TypeOK'
  <2>1. run' \in [Runs -> Run]
    BY <1>6, NoteTypes DEF WaitOver
  <2> QED
    BY <1>6, <2>1 DEF WaitOver, TypeOK
<1>7. ASSUME Cancel \/ ChangeResources \/ Stop PROVE TypeOK'
  <2>1. PICK cause \in Causes : CancelPod(cause)
    BY <1>7 DEF Cancel, ChangeResources, Stop, Causes
  <2>2. /\ worker' \in {"up", "stopping", "down"} /\ faults' \in Nat
        /\ UNCHANGED <<event, run, lease, active, check, accepted, inferred>>
    BY <1>7 DEF Cancel, ChangeResources, Stop, TypeOK
  <2>3. pod' \in [paused: BOOLEAN, enabled: BOOLEAN, valid: BOOLEAN, terminal: BOOLEAN, conf: Nat]
    <3>1. ASSUME ChangeResources PROVE pod' \in [paused: BOOLEAN, enabled: BOOLEAN, valid: BOOLEAN, terminal: BOOLEAN, conf: Nat]
      <4>1. \/ pod' = [pod EXCEPT !.conf = pod.conf + 1, !.valid = FALSE, !.paused = pod.paused]
            \/ pod' = [pod EXCEPT !.conf = pod.conf + 1, !.valid = FALSE, !.paused = TRUE]
        BY <3>1 DEF ChangeResources
      <4> DEFINE n == pod.conf + 1
      <4>2. n \in Nat
        BY DEF TypeOK
      <4> HIDE DEF n
      <4>3. [pod EXCEPT !.conf = n, !.valid = FALSE, !.paused = TRUE]
              \in [paused: BOOLEAN, enabled: BOOLEAN, valid: BOOLEAN, terminal: BOOLEAN, conf: Nat]
        BY <4>2 DEF TypeOK
      <4>4. [pod EXCEPT !.conf = n, !.valid = FALSE, !.paused = pod.paused]
              \in [paused: BOOLEAN, enabled: BOOLEAN, valid: BOOLEAN, terminal: BOOLEAN, conf: Nat]
        BY <4>2 DEF TypeOK
      <4> QED
        BY <4>1, <4>3, <4>4 DEF n
    <3>2. ASSUME Cancel \/ Stop PROVE pod' \in [paused: BOOLEAN, enabled: BOOLEAN, valid: BOOLEAN, terminal: BOOLEAN, conf: Nat]
      BY <3>2 DEF Cancel, Stop, TypeOK
    <3> QED
      BY <1>7, <3>1, <3>2
  <2> QED
    BY <2>1, <2>2, <2>3, CancelTypes DEF TypeOK
<1>8. ASSUME Validate PROVE TypeOK'
  BY <1>8 DEF Validate, TypeOK
<1>9. ASSUME Owner PROVE TypeOK'
  <2>1. pod' \in [paused: BOOLEAN, enabled: BOOLEAN, valid: BOOLEAN, terminal: BOOLEAN, conf: Nat]
    <3>1. ASSUME Pause \/ Resume PROVE pod' \in [paused: BOOLEAN, enabled: BOOLEAN, valid: BOOLEAN, terminal: BOOLEAN, conf: Nat]
      BY <3>1 DEF Pause, Resume, TypeOK
    <3>2. ASSUME Schedule PROVE pod' \in [paused: BOOLEAN, enabled: BOOLEAN, valid: BOOLEAN, terminal: BOOLEAN, conf: Nat]
      <4>1. pod' = [pod EXCEPT !.enabled = TRUE] \/ pod' = [pod EXCEPT !.enabled = FALSE]
        BY <3>2 DEF Schedule
      <4> QED
        BY <4>1 DEF TypeOK
    <3>3. ASSUME OpenTerminal \/ CloseTerminal PROVE pod' \in [paused: BOOLEAN, enabled: BOOLEAN, valid: BOOLEAN, terminal: BOOLEAN, conf: Nat]
      BY <3>3 DEF OpenTerminal, CloseTerminal, TypeOK
    <3> QED
      BY <1>9, <3>1, <3>2, <3>3 DEF Owner
  <2> QED
    BY <1>9, <2>1 DEF Owner, TypeOK
<1>10. ASSUME NEW r \in Runs, ProcessStep(r) \/ GuardianDies(r) PROVE TypeOK'
  <2>1. domain[r].guard \in Guards /\ domain[r].child \in Children /\ domain[r].record \in Records
    BY DEF TypeOK, Domain
  <2>2. \E g \in Guards, c \in Children, k \in Records : Becomes(r, g, c, k)
    BY <1>10, <2>1, GuardNames DEF ProcessStep, GuardianStep, GuardianRecords, GuardianForks, GuardianLists,
       GuardianOpens, GuardianCloses, ChildEnds, GuardianDies
  <2>3. domain' \in [Runs -> Domain]
    BY <2>2, BecomesType
  <2> QED
    BY <1>10, <2>3 DEF ProcessStep, GuardianDies, TypeOK
<1>11. ASSUME NEW r \in Runs, RegisterDomain(r) \/ Spawn(r) \/ SealDomain(r) PROVE TypeOK'
  <2>1. exec' \in [Runs -> Exec]
    BY <1>11, StepTypes DEF RegisterDomain, Spawn, SealDomain
  <2>2. ASSUME RegisterDomain(r) PROVE domain' \in [Runs -> Domain]
    BY <2>2 DEF RegisterDomain, TypeOK, Domain
  <2>3. ASSUME SealDomain(r) PROVE domain' \in [Runs -> Domain]
    BY <2>3, BecomesType, GuardNames DEF SealDomain
  <2>4. ASSUME Spawn(r) PROVE domain' \in [Runs -> Domain]
    <3> DEFINE b == exec[r].cause = "none"
    <3>1. domain' = [domain EXCEPT ![r] = [@ EXCEPT !.guard = "born", !.pipe = b]]
      BY <2>4 DEF Spawn
    <3>2. b \in BOOLEAN
      OBVIOUS
    <3> HIDE DEF b
    <3>3. \A d \in Domain : [d EXCEPT !.guard = "born", !.pipe = b] \in Domain
      BY <3>2, GuardNames DEF Domain
    <3> QED
      BY <3>1, <3>3 DEF TypeOK
  <2> QED
    BY <1>11, <2>1, <2>2, <2>3, <2>4 DEF RegisterDomain, Spawn, SealDomain, TypeOK
<1>12. ASSUME NEW r \in Runs, PersistDispatch(r) \/ SendInference(r) \/ CleanupUnconfirmed(r) PROVE TypeOK'
  <2>1. ASSUME PersistDispatch(r) PROVE TypeOK'
    <3>1. run' \in [Runs -> Run]
      BY <2>1, NoteTypes DEF PersistDispatch
    <3> QED
      BY <2>1, <3>1 DEF PersistDispatch, TypeOK
  <2>2. ASSUME SendInference(r) PROVE TypeOK'
    BY <2>2 DEF SendInference, TypeOK
  <2>3. ASSUME CleanupUnconfirmed(r) PROVE TypeOK'
    <3>1. run' \in [Runs -> Run]
      BY <2>3, NoteTypes DEF CleanupUnconfirmed
    <3> QED
      BY <2>3, <3>1 DEF CleanupUnconfirmed, TypeOK
  <2> QED
    BY <1>12, <2>1, <2>2, <2>3
<1>13. ASSUME NEW r \in Runs, EndScript(r) PROVE TypeOK'
  <2>1. PICK o \in Outcomes(r) : exec' = [exec EXCEPT ![r] = [pc |-> "settling", cause |-> "none", out |-> o]]
    BY <1>13 DEF EndScript
  <2>2. o \in Outcome
    <3>1. exec[r].cause # "none" => exec[r].cause \in Causes
      BY DEF TypeOK, Exec
    <3>2. run[r].inputs \subseteq Events
      BY DEF TypeOK, Run
    <3>3. CASE exec[r].cause # "none"
      <4>1. o = [state |-> "cancelled", cause |-> exec[r].cause, done |-> {}, thrown |-> TRUE]
        BY <2>1, <3>3 DEF Outcomes
      <4> QED
        BY <3>1, <3>3, <4>1, Names DEF Outcome
    <3>4. CASE exec[r].cause = "none"
      <4>1. CASE \E x \in {"completed", "failed"}, k \in {"failure", "non-retryable"}, S \in SUBSET run[r].inputs :
                   o = [state |-> x, cause |-> k, done |-> S, thrown |-> FALSE]
        BY <3>2, <4>1, Names DEF Outcome, Causes
      <4>2. CASE \E k \in {"failure", "non-retryable"} :
                   o = [state |-> "failed", cause |-> k, done |-> {}, thrown |-> TRUE]
        BY <4>2, Names DEF Outcome, Causes
      <4> QED
        BY <2>1, <3>4, <4>1, <4>2 DEF Outcomes
    <3> QED
      BY <3>3, <3>4
  <2>3. exec' \in [Runs -> Exec]
    BY <2>1, <2>2 DEF TypeOK, Exec, Steps
  <2> QED
    BY <1>13, <2>3 DEF EndScript, TypeOK
<1>14. ASSUME NEW r \in Runs, Leave(r) PROVE exec' \in [Runs -> Exec] /\ active' \in Runs \cup {NoRun}
  BY <1>14 DEF Leave, TypeOK, Exec, Steps, NoExec, Unknown, Outcome, Causes, Ends
<1>15. ASSUME NEW r \in Runs, Finish(r) PROVE TypeOK'
  <2>1. PICK ev : ev = Processed(r, exec[r].out.done)
    OBVIOUS
  <2>2. ev \in [Events -> Event]
    BY <2>1 DEF Processed, TypeOK, Event, EventStates
  <2>3. /\ event' = RecoverEvents(ev, r, exec[r].out.cause) \/ event' = ev
        /\ \E x \in {RecoverRun(ev, r, exec[r].out.cause), run[r]} : run' = [run EXCEPT ![r] = [x EXCEPT !.state = "over"]]
        /\ lease' = NoLease /\ Leave(r)
        /\ UNCHANGED <<worker, pod, check, domain, bounds, inferred>>
    BY <1>15, <2>1 DEF Finish
  <2>4. event' \in [Events -> Event]
    BY <2>2, <2>3, RecoverTypes
  <2>5. run' \in [Runs -> Run]
    <3>1. PICK x \in Run : run' = [run EXCEPT ![r] = [x EXCEPT !.state = "over"]]
      BY <2>2, <2>3, RecoverTypes DEF TypeOK
    <3>2. [x EXCEPT !.state = "over"] \in Run
      BY DEF Run, RunStates
    <3> QED
      BY <3>1, <3>2 DEF TypeOK
  <2> QED
    BY <1>14, <2>3, <2>4, <2>5 DEF TypeOK, NoLease
<1>16. ASSUME NEW r \in Runs, Interrupt(r) PROVE TypeOK'
  <2>1. run' \in [Runs -> Run]
    BY <1>16, NoteTypes DEF Interrupt
  <2>2. lease' \in [run: Runs \cup {NoRun}, fenced: BOOLEAN]
    BY <1>16 DEF Interrupt, TypeOK
  <2>3. exec' \in [Runs -> Exec] /\ active' \in Runs \cup {NoRun}
    BY <1>14, <1>16 DEF Interrupt
  <2> QED
    BY <1>16, <2>1, <2>2, <2>3 DEF Interrupt, TypeOK
<1>17. ASSUME NEW r \in Runs, CloseShell(r) PROVE TypeOK'
  <2>1. exec' \in [Runs -> Exec]
    BY <1>17, StepTypes DEF CloseShell
  <2> QED
    BY <1>17, <2>1 DEF CloseShell, TypeOK
<1>18. ASSUME NEW c \in Checks, NEW r \in Runs, RecoverProve(c, r) PROVE TypeOK'
  BY <1>18 DEF RecoverProve, TypeOK
<1>19. ASSUME NEW c \in Checks, RecoverSettle(c) PROVE TypeOK'
  <2>1. check[c] \in Runs
    BY <1>19 DEF RecoverSettle, TypeOK
  <2>2. RecoverEvents(event, check[c], "shutdown") \in [Events -> Event] /\ RecoverRun(event, check[c], "shutdown") \in Run
    BY <2>1, RecoverTypes DEF TypeOK
  <2>3. event' \in [Events -> Event] /\ run' \in [Runs -> Run] /\ lease' \in [run: Runs \cup {NoRun}, fenced: BOOLEAN]
    <3>1. CASE StillOpen(check[c])
      <4>1. /\ event' = RecoverEvents(event, check[c], "shutdown")
            /\ run' = [run EXCEPT ![check[c]] = RecoverRun(event, check[c], "shutdown")]
            /\ lease' \in {lease, NoLease}
        BY <1>19, <3>1 DEF RecoverSettle
      <4>2. event' \in [Events -> Event] /\ run' \in [Runs -> Run]
        BY <2>1, <2>2, <4>1 DEF TypeOK
      <4>3. NoLease \in [run: Runs \cup {NoRun}, fenced: BOOLEAN] /\ lease \in [run: Runs \cup {NoRun}, fenced: BOOLEAN]
        BY DEF TypeOK, NoLease
      <4> QED
        BY <4>1, <4>2, <4>3
    <3>2. CASE ~StillOpen(check[c])
      BY <1>19, <3>2 DEF RecoverSettle, TypeOK
    <3> QED
      BY <3>1, <3>2
  <2>4. check' \in [Checks -> Runs \cup {NoRun}] /\ UNCHANGED <<worker, pod, exec, active, domain, bounds, inferred>>
    BY <1>19, <2>1 DEF RecoverSettle, TypeOK
  <2> QED
    BY <2>3, <2>4 DEF TypeOK
<1>20. ASSUME Crash \/ Exit PROVE TypeOK'
  <2>1. WorkerGone /\ faults' \in Nat /\ UNCHANGED <<pod, event, lease, accepted, inferred>>
    BY <1>20 DEF Crash, Exit, TypeOK
  <2>2. run' \in [Runs -> Run]
    <3>1. \A r \in Runs : [run[r] EXCEPT !.held = FALSE] \in Run
      <4>1. \A x \in Run : [x EXCEPT !.held = FALSE] \in Run
        BY DEF Run
      <4> QED
        BY <4>1 DEF TypeOK
    <3>2. UNCHANGED run \/ run' = [r \in Runs |-> [run[r] EXCEPT !.held = FALSE]]
      BY <1>20 DEF Crash, Exit
    <3> QED
      BY <3>1, <3>2 DEF TypeOK
  <2>3. domain' \in [Runs -> Domain]
    <3>1. \A d \in Domain : [d EXCEPT !.pipe = FALSE] \in Domain
      BY DEF Domain
    <3>2. domain' = [r \in Runs |-> [domain[r] EXCEPT !.pipe = FALSE]]
      BY <2>1 DEF WorkerGone
    <3> QED
      BY <3>1, <3>2 DEF TypeOK
  <2>4. worker' = "down" /\ exec' \in [Runs -> Exec] /\ active' = NoRun /\ check' \in [Checks -> Runs \cup {NoRun}]
    BY <2>1 DEF WorkerGone, Exec, NoExec, Unknown, Outcome, Causes, Ends, Steps
  <2> QED
    BY <2>1, <2>2, <2>3, <2>4 DEF TypeOK
<1>21. ASSUME WorkerStart PROVE TypeOK'
  <2>1. run' \in [Runs -> Run]
    <3>1. \A r \in Runs : run[r] \in Run /\ [run[r] EXCEPT !.state = "interrupted"] \in Run
      BY DEF TypeOK, Run, RunStates
    <3> QED
      BY <1>21, <3>1 DEF WorkerStart
  <2>2. lease' \in [run: Runs \cup {NoRun}, fenced: BOOLEAN]
    BY <1>21 DEF WorkerStart, TypeOK, NoLease
  <2>3. pod' \in [paused: BOOLEAN, enabled: BOOLEAN, valid: BOOLEAN, terminal: BOOLEAN, conf: Nat]
    BY <1>21 DEF WorkerStart, TypeOK
  <2> QED
    BY <1>21, <2>1, <2>2, <2>3 DEF WorkerStart, TypeOK
<1>22. CASE UNCHANGED vars
  BY <1>22 DEF vars, TypeOK
<1> QED
  BY <1>1, <1>2, <1>3, <1>4, <1>5, <1>6, <1>7, <1>8, <1>9, <1>10, <1>11, <1>12, <1>13, <1>15, <1>16, <1>17,
     <1>18, <1>19, <1>20, <1>21, <1>22 DEF Next, Processes, ExecuteStep, Recover

-----------------------------------------------------------------------------
(* The inductive invariant                                                 *)

LEMMA InitInvariant == Init => IInv
<1> SUFFICES ASSUME Init PROVE IInv
  OBVIOUS
<1>1. TypeOK
  <2>1. event \in [Events -> Event]
    BY DEF Init, NoEvent, Event, Sources, EventStates
  <2>2. run \in [Runs -> Run]
    BY DEF Init, AbsentRun, Run, RunStates
  <2>3. exec \in [Runs -> Exec]
    BY DEF Init, NoExec, Unknown, Exec, Steps, Outcome, Ends, Causes
  <2>4. domain \in [Runs -> Domain]
    BY GuardNames DEF Init, NoDomain, Domain
  <2>5. lease \in [run: Runs \cup {NoRun}, fenced: BOOLEAN]
    BY DEF Init, NoLease
  <2> QED
    BY <2>1, <2>2, <2>3, <2>4, <2>5 DEF Init, TypeOK
<1>2. LeaseInv
  BY DEF Init, LeaseInv, NoLease, AbsentRun
<1>3. ExecInv
  BY DEF Init, ExecInv, Busy, NoExec
<1>4. DomainInv
  BY DEF Init, DomainInv, Shape, NoDomain, NoExec
<1>5. CheckInv /\ InferredInv
  BY DEF Init, CheckInv, InferredInv
<1>6. EventInv
  BY DEF Init, EventInv, NoEvent, AbsentRun
<1>7. TerminalAlone
  BY DEF Init, TerminalAlone
<1> QED
  BY <1>1, <1>2, <1>3, <1>4, <1>5, <1>6, <1>7 DEF IInv

\* Events as the table has them, but for inputs accepted in the same step.
WithArrivals(ev) ==
  /\ ev \in [Events -> Event]
  /\ \A e \in Events : ev[e] = event[e] \/ (ev[e].state = "pending" /\ ev[e].run = NoRun)

\* Accepting an input touches no run.
LEMMA ArrivalKeeps ==
  ASSUME IInv, TypeOK', WithArrivals(event'), UNCHANGED <<worker, pod, run, lease, exec, check, domain, inferred>>
  PROVE  IInv'
<1> USE DEF IInv
<1>1. LeaseInv'
  BY DEF LeaseInv
<1>2. ExecInv'
  BY DEF ExecInv, Busy, HoldsLease
<1>3. DomainInv' /\ CheckInv' /\ InferredInv' /\ TerminalAlone'
  BY DEF DomainInv, CheckInv, InferredInv, TerminalAlone
<1>4. EventInv'
  BY DEF EventInv, WithArrivals
<1> QED
  BY <1>1, <1>2, <1>3, <1>4

\* Starting a run takes a free lease, a fresh slot and events nobody claimed.
LEMMA StartKeeps ==
  ASSUME IInv, TypeOK', NEW ev, WithArrivals(ev), NEW S \in {{}, Batch(ev)}, Start(ev, S),
         lease = NoLease, ~pod.terminal, UNCHANGED <<worker, pod, domain, inferred>>, worker = "up"
  PROVE  IInv'
<1> USE DEF IInv
<1>1. PICK r \in NextRun :
        /\ event' = Claim(ev, S, r)
        /\ run' = [run EXCEPT ![r] = NewRun(S, Largest(PreviousAttempts(ev, S)))]
        /\ lease' = [run |-> r, fenced |-> FALSE]
        /\ exec' = [exec EXCEPT ![r].pc = "starting"]
        /\ UNCHANGED check
  BY DEF Start
<1>2. /\ r \in Runs /\ r # NoRun /\ run[r].state = "absent"
      /\ run[r] = AbsentRun /\ exec[r] = NoExec /\ domain[r] = NoDomain
  BY RunsAreNat DEF NextRun, ExecInv
<1>3. /\ run'[r].state = "running" /\ run'[r].inputs = S /\ ~run'[r].settled
      /\ run'[r].attempt = Largest(PreviousAttempts(ev, S))
      /\ \A o \in Runs : o # r => run'[o] = run[o]
  BY <1>1, <1>2 DEF NewRun, TypeOK
<1>4. exec'[r].pc = "starting" /\ \A o \in Runs : o # r => exec'[o] = exec[o]
  BY <1>1, <1>2 DEF TypeOK, Exec
<1>5. lease.run = NoRun /\ \A o \in Runs : run[o].state # "running" /\ ~Busy(o) /\ domain[o].child # "running"
  BY RunsAreNat DEF NoLease, LeaseInv, ExecInv, HoldsLease, DomainInv
<1>6. LeaseInv'
  <2>1. lease'.run = r /\ lease'.fenced = FALSE
    BY <1>1
  <2>2. \A o \in Runs : o # r => run'[o].state # "running"
    BY <1>3, <1>5
  <2>3. \A o \in Runs : o # r /\ run'[o].state = "interrupted" => run'[o].settled
    BY <1>3, <1>5, RunsAreNat DEF LeaseInv
  <2> QED
    BY <1>2, <1>3, <2>1, <2>2, <2>3 DEF LeaseInv
<1>7. ExecInv'
  <2>1. HoldsLease(r)' /\ \A o \in Runs : o # r => ~Busy(o)'
    BY <1>1, <1>4, <1>5 DEF Busy, HoldsLease
  <2>2. worker' # "down"
    BY <1>1
  <2>3. \A o \in Runs : run'[o].state = "absent" =>
          o # r /\ run'[o] = AbsentRun /\ exec'[o] = NoExec /\ domain'[o] = NoDomain
    BY <1>1, <1>3, <1>4 DEF ExecInv
  <2> QED
    BY <2>1, <2>2, <2>3 DEF ExecInv
<1>8. DomainInv'
  <2>1. \A o \in Runs : o # r => domain'[o] = domain[o] /\ exec'[o] = exec[o]
    BY <1>4
  <2> QED
    BY <1>2, <1>4, <1>5, <2>1 DEF DomainInv, NoDomain
<1>9. CheckInv'
  BY <1>1, <1>2, <1>3, <1>5 DEF CheckInv, TypeOK
<1>10. EventInv'
  <2>1. \A e \in Events : event'[e] = IF e \in S THEN [ev[e] EXCEPT !.state = "claimed", !.run = r] ELSE ev[e]
    BY <1>1 DEF Claim, WithArrivals
  <2>2. \A e \in Events : e \in S => event'[e].state = "claimed" /\ event'[e].run = r
    BY <2>1 DEF WithArrivals, Event
  <2>3. \A e \in Events : ev[e].state # "claimed"
    BY <1>5, RunsAreNat DEF WithArrivals, EventInv
  <2>4. \A e \in Events : ev[e].run # NoRun => ev[e].run \in Runs /\ ev[e].run # r /\ ev[e] = event[e]
    BY <1>2 DEF WithArrivals, EventInv, Event
  <2>5. S = {} => run'[r].attempt = 0
    BY <1>3, BatchAttempts DEF WithArrivals
  <2>6. \A e \in Events : e \notin S => event'[e] = ev[e]
    BY <2>1
  <2>7. \A e \in Events : event'[e].run # NoRun => run'[event'[e].run].state # "absent"
    BY <1>3, <2>2, <2>4, <2>6 DEF EventInv
  <2>8. \A e \in Events : event'[e].state = "absent" => event'[e].run = NoRun
    BY <2>2, <2>6 DEF EventInv, WithArrivals
  <2>9. \A e \in Events : event'[e].state = "claimed" =>
          event'[e].run # NoRun /\ lease'.run = event'[e].run /\ e \in run'[event'[e].run].inputs
    BY <1>1, <1>2, <1>3, <2>2, <2>3, <2>6
  <2>10. \A e \in Events : event'[e].state = "pending" /\ event'[e].run # NoRun =>
           /\ run'[event'[e].run].settled /\ ~run'[event'[e].run].proxy
           /\ run'[event'[e].run].attempt < MaxAttempts
    BY <1>3, <2>2, <2>4, <2>6 DEF EventInv
  <2>11. \A o \in Runs : run'[o].inputs = {} /\ ~run'[o].settled => run'[o].attempt = 0
    BY <1>3, <2>5 DEF EventInv
  <2> QED
    BY <2>7, <2>8, <2>9, <2>10, <2>11 DEF EventInv
<1>11. InferredInv'
  BY <1>2, <1>3 DEF InferredInv, AbsentRun, TypeOK
<1>12. TerminalAlone'
  BY DEF TerminalAlone
<1> QED
  BY <1>6, <1>7, <1>8, <1>9, <1>10, <1>11, <1>12

\* A tick drains the queue: nothing, or the batch is refused, or a run starts.
LEMMA DrainKeeps ==
  ASSUME IInv, TypeOK', NEW ev, WithArrivals(ev), Drain(ev), worker = "up",
         UNCHANGED <<worker, pod, domain, inferred>>
  PROVE  IInv'
<1>1. CASE event' = ev /\ UNCHANGED <<run, lease, memory>>
  BY <1>1, ArrivalKeeps DEF memory
<1>2. CASE Refuse(ev, Batch(ev))
  <2> USE DEF IInv
  <2>1. UNCHANGED <<worker, pod, run, lease, exec, check, domain, inferred>>
    BY <1>2 DEF Refuse, memory
  <2>2. \A e \in Events : event'[e] = ev[e] \/ (event'[e].state = "failed" /\ event'[e].run = ev[e].run)
    BY <1>2 DEF Refuse, WithArrivals, Event
  <2>3. LeaseInv' /\ CheckInv' /\ InferredInv' /\ TerminalAlone'
    BY <2>1 DEF LeaseInv, CheckInv, InferredInv, TerminalAlone
  <2>4. ExecInv' /\ DomainInv'
    BY <2>1 DEF ExecInv, Busy, HoldsLease, DomainInv
  <2>5. EventInv'
    BY <2>1, <2>2 DEF EventInv, WithArrivals
  <2> QED
    BY <2>3, <2>4, <2>5
<1>3. CASE Drainable(ev) /\ Startable /\ Start(ev, Batch(ev))
  BY <1>3, StartKeeps DEF Drainable, Startable
<1> QED
  BY <1>1, <1>2, <1>3 DEF Drain

\* What a guardian and its child do: only a guardian with a pipe starts a
\* script, and a guardian that is gone does nothing.
LEMMA GuardianKeeps ==
  ASSUME IInv, TypeOK', NEW r \in Runs, NEW g \in Guards, NEW c \in Children, NEW k \in Records, Becomes(r, g, c, k),
         UNCHANGED <<worker, pod, event, run, lease, exec, check, inferred>>,
         Shape(domain[r]) => Shape(domain'[r]), domain[r].guard # "none",
         domain[r].guard = "gone" => g = "gone",
         c = "running" => domain[r].child = "running" \/ domain[r].pipe
  PROVE  IInv'
<1>1. /\ domain'[r].child = c /\ domain'[r].guard = g
      /\ domain'[r].pipe => domain[r].pipe
      /\ \A o \in Runs : o # r => domain'[o] = domain[o]
  <2>1. TypeOK
    BY DEF IInv
  <2>2. domain'[r].child = c /\ domain'[r].guard = g
    BY <2>1, BecomesFields
  <2>3. domain'[r].pipe => domain[r].pipe
    BY <2>1, BecomesPipe
  <2>4. \A o \in Runs : o # r => domain'[o] = domain[o]
    BY <2>1, BecomesFrame
  <2> QED
    BY <2>2, <2>3, <2>4
<1> USE DEF IInv
<1>2. domain[r].pipe => lease.run = r
  BY DEF DomainInv, ExecInv, Busy, HoldsLease
<1>3. LeaseInv' /\ EventInv' /\ InferredInv'
  BY DEF LeaseInv, EventInv, InferredInv
<1>4. ExecInv'
  <2>1. run[r].state # "absent"
    BY DEF ExecInv, NoDomain
  <2> QED
    BY <1>1, <2>1 DEF ExecInv, Busy, HoldsLease
<1>5. DomainInv'
  <2>1. /\ Shape(domain'[r])
        /\ domain'[r].pipe => exec[r].pc = "script"
        /\ exec[r].pc \notin {"starting", "registered"}
        /\ exec[r].pc = "settling" => ~domain'[r].pipe /\ domain'[r].guard \in {"none", "gone"}
        /\ exec[r].pc # "registered"
        /\ domain'[r].child = "running" => lease.run = r
    BY <1>1, <1>2 DEF DomainInv
  <2> QED
    BY <1>1, <2>1 DEF DomainInv
<1>6. CheckInv'
  <2>1. \A x \in Checks : check[x] # NoRun => check[x] \in Runs /\ (Harmless(domain[check[x]]) => Harmless(domain'[check[x]]))
    BY <1>1 DEF Harmless, TypeOK
  <2> QED
    BY <2>1 DEF CheckInv
<1>7. TerminalAlone'
  BY <1>1, <1>5, RunsAreNat DEF TerminalAlone, DomainInv, NoLease
<1> QED
  BY <1>3, <1>4, <1>5, <1>6, <1>7

\* The shapes a guardian goes through.
LEMMA BecomesShape ==
  ASSUME TypeOK, NEW r \in Runs
  PROVE  /\ Becomes(r, "recorded", "none", "guardian") => Shape(domain'[r])
         /\ Becomes(r, "forked", "gated", "guardian") => Shape(domain'[r])
         /\ Becomes(r, "listed", "gated", "child") => Shape(domain'[r])
         /\ Becomes(r, "watching", "running", "child") => Shape(domain'[r])
         /\ Becomes(r, "gone", "gone", "closed") => Shape(domain'[r])
         /\ Becomes(r, "gone", "none", "closed") => Shape(domain'[r])
<1> DEFINE d == domain'[r]
           Is(g, c, k) == d.known = TRUE /\ d.guard = g /\ d.child = c /\ d.record = k
                          /\ (g = "gone" => ~d.pipe)
<1>1. \A g \in Guards, c \in Children, k \in Records : Becomes(r, g, c, k) => Is(g, c, k)
  BY BecomesFields, BecomesPipe
<1> HIDE DEF d
<1>2. Is("recorded", "none", "guardian") => Shape(d)
  BY DEF Shape
<1>3. Is("forked", "gated", "guardian") => Shape(d)
  BY DEF Shape
<1>4. Is("listed", "gated", "child") => Shape(d)
  BY DEF Shape
<1>5. Is("watching", "running", "child") => Shape(d)
  BY DEF Shape
<1>6. Is("gone", "gone", "closed") => Shape(d)
  BY DEF Shape
<1>7. Is("gone", "none", "closed") => Shape(d)
  BY DEF Shape
<1> HIDE DEF Is
<1> QED
  BY <1>1, <1>2, <1>3, <1>4, <1>5, <1>6, <1>7, GuardNames DEF d

LEMMA ProcessKeeps ==
  ASSUME IInv, TypeOK', NEW r \in Runs, ProcessStep(r) \/ GuardianDies(r)
  PROVE  IInv'
<1>1. TypeOK /\ Shape(domain[r]) /\ domain[r].guard \in Guards /\ domain[r].child \in Children /\ domain[r].record \in Records
  BY DEF IInv, DomainInv, TypeOK, Domain
<1>2. UNCHANGED <<worker, pod, event, run, lease, exec, check, inferred>>
  BY DEF ProcessStep, GuardianDies, tables, memory
<1>3. CASE GuardianRecords(r)
  <2>1. Becomes(r, "recorded", "none", "guardian") /\ domain[r].guard = "born"
    BY <1>3 DEF GuardianRecords
  <2>2. Shape(domain'[r])
    BY <1>1, <2>1, BecomesShape
  <2> QED
    BY <1>2, <2>1, <2>2, GuardianKeeps, GuardNames
<1>4. CASE GuardianForks(r)
  <2>1. domain[r].guard = "recorded"
    BY <1>4 DEF GuardianForks
  <2>2. CASE Becomes(r, "forked", "gated", "guardian")
    <3>1. Shape(domain'[r])
      BY <1>1, <2>2, BecomesShape
    <3> QED
      BY <1>2, <2>1, <2>2, <3>1, GuardianKeeps, GuardNames
  <2>3. CASE Becomes(r, "gone", "none", "closed")
    <3>1. Shape(domain'[r])
      BY <1>1, <2>3, BecomesShape
    <3> QED
      BY <1>2, <2>1, <2>3, <3>1, GuardianKeeps, GuardNames
  <2> QED
    BY <1>4, <2>2, <2>3 DEF GuardianForks
<1>5. CASE GuardianLists(r)
  <2>1. Becomes(r, "listed", "gated", "child") /\ domain[r].guard = "forked"
    BY <1>5 DEF GuardianLists
  <2>2. Shape(domain'[r])
    BY <1>1, <2>1, BecomesShape
  <2> QED
    BY <1>2, <2>1, <2>2, GuardianKeeps, GuardNames
<1>6. CASE GuardianOpens(r)
  <2>1. domain[r].guard = "listed"
    BY <1>6 DEF GuardianOpens
  <2>2. CASE Becomes(r, "watching", "running", "child") /\ domain[r].pipe
    <3>1. Shape(domain'[r])
      BY <1>1, <2>2, BecomesShape
    <3> QED
      BY <1>2, <2>1, <2>2, <3>1, GuardianKeeps, GuardNames
  <2>3. CASE Becomes(r, "gone", "gone", "closed")
    BY <1>1, <1>2, <2>1, <2>3, BecomesShape, GuardianKeeps, GuardNames
  <2> QED
    BY <1>6, <2>2, <2>3 DEF GuardianOpens
<1>7. CASE GuardianCloses(r)
  <2>1. Becomes(r, "gone", "gone", "closed") /\ domain[r].guard = "watching"
    BY <1>7 DEF GuardianCloses
  <2> QED
    BY <1>1, <1>2, <2>1, BecomesShape, GuardianKeeps, GuardNames
<1>8. CASE ChildEnds(r)
  <2>1. /\ Becomes(r, domain[r].guard, "gone", domain[r].record)
        /\ domain[r].child = "running" \/ (domain[r].child = "gated" /\ domain[r].guard = "gone")
    BY <1>8 DEF ChildEnds
  <2>2. /\ domain'[r].known = TRUE /\ domain'[r].guard = domain[r].guard /\ domain'[r].child = "gone"
        /\ domain'[r].record = domain[r].record
        /\ domain[r].guard = "gone" => ~domain'[r].pipe
    <3> DEFINE g == domain[r].guard
               k == domain[r].record
    <3>1. g \in Guards /\ k \in Records /\ "gone" \in Children /\ Becomes(r, g, "gone", k)
      BY <1>1, <2>1, GuardNames
    <3> HIDE DEF g, k
    <3>2. /\ domain'[r].known = TRUE /\ domain'[r].guard = g /\ domain'[r].child = "gone"
          /\ domain'[r].record = k
          /\ g = "gone" => ~domain'[r].pipe
      BY <1>1, <3>1, BecomesFields, BecomesPipe
    <3> QED
      BY <3>2 DEF g, k
  <2>3. Shape(domain'[r])
    BY <1>1, <2>1, <2>2 DEF Shape
  <2>4. domain[r].guard # "none"
    BY <1>1, <2>1 DEF Shape
  <2> QED
    BY <1>1, <1>2, <2>1, <2>3, <2>4, GuardianKeeps, GuardNames
<1>9. CASE GuardianDies(r)
  <2>1. Becomes(r, "gone", domain[r].child, domain[r].record) /\ domain[r].guard \notin {"none", "gone"}
    BY <1>9 DEF GuardianDies
  <2>2. /\ domain'[r].known = TRUE /\ domain'[r].guard = "gone" /\ domain'[r].child = domain[r].child
        /\ domain'[r].record = domain[r].record /\ ~domain'[r].pipe
    BY <1>1, <2>1, GoneFields
  <2>3. /\ domain[r].record = "none" => domain[r].child = "none"
        /\ domain[r].record = "guardian" => domain[r].child # "running"
        /\ domain[r].record # "closed"
    BY <1>1, <2>1 DEF Shape, Guards
  <2>4. Shape(domain'[r])
    BY <2>2, <2>3 DEF Shape
  <2> QED
    BY <1>1, <1>2, <2>1, <2>4, GuardianKeeps, GuardNames
<1> QED
  BY <1>3, <1>4, <1>5, <1>6, <1>7, <1>8, <1>9 DEF ProcessStep, GuardianStep

\* Notes about a run: its wait is over, its dispatch persisted, its cleanup unconfirmed.
LEMMA NoteKeeps ==
  ASSUME IInv, TypeOK', NEW r \in Runs, WaitOver(r) \/ PersistDispatch(r) \/ CleanupUnconfirmed(r)
  PROVE  IInv'
<1> USE DEF IInv
<1>1. /\ \A o \in Runs : o # r => run'[o] = run[o]
      /\ run'[r].state = run[r].state /\ run'[r].inputs = run[r].inputs
      /\ run'[r].attempt = run[r].attempt /\ run'[r].settled = run[r].settled
  BY DEF WaitOver, PersistDispatch, CleanupUnconfirmed, TypeOK, Run
<1>2. UNCHANGED <<worker, pod, event, lease, exec, active, check, domain, inferred>>
  BY DEF WaitOver, PersistDispatch, CleanupUnconfirmed, memory
<1>3. run[r].state # "absent"
  BY DEF WaitOver, PersistDispatch, CleanupUnconfirmed, ExecInv, InferredInv, AbsentRun, NoExec
<1>4. run[r].proxy => run'[r].proxy
  BY DEF WaitOver, PersistDispatch, CleanupUnconfirmed, TypeOK, Run
<1>5. run'[r].proxy => run[r].proxy \/ lease.run = r
  BY DEF WaitOver, PersistDispatch, CleanupUnconfirmed, TypeOK, Run, HoldsLease
<1>6. \A o \in Runs : /\ run'[o].state = run[o].state /\ run'[o].inputs = run[o].inputs
                      /\ run'[o].attempt = run[o].attempt /\ run'[o].settled = run[o].settled
  BY <1>1
<1>7. LeaseInv'
  BY <1>2, <1>6 DEF LeaseInv, TypeOK
<1>8. ExecInv'
  BY <1>1, <1>2, <1>3 DEF ExecInv, Busy, HoldsLease
<1>9. DomainInv' /\ TerminalAlone'
  BY <1>2 DEF DomainInv, TerminalAlone
<1>10. CheckInv'
  BY <1>2, <1>6 DEF CheckInv, TypeOK
<1>11. EventInv'
  <2>1. \A e \in Events : event[e].run # NoRun => event[e].run \in Runs
    BY DEF TypeOK, Event
  <2>2. \A e \in Events : event[e].state = "pending" /\ event[e].run # NoRun => ~run'[event[e].run].proxy
    BY <1>1, <1>5, <2>1, RunsAreNat DEF EventInv, LeaseInv
  <2> QED
    BY <1>2, <1>6, <2>1, <2>2 DEF EventInv
<1>12. InferredInv'
  BY <1>1, <1>2, <1>4 DEF InferredInv, TypeOK
<1> QED
  BY <1>7, <1>8, <1>9, <1>10, <1>11, <1>12

\* A step of one executed run, or of what cancels it.
LEMMA ExecutionKeeps ==
  ASSUME IInv, TypeOK', NEW r \in Runs,
         UNCHANGED <<event, run, lease, check, inferred>>, pod'.terminal = pod.terminal, worker' # "down",
         exec[r] # NoExec,
         \A o \in Runs : o # r => exec'[o] = exec[o] /\ domain'[o] = domain[o],
         exec'[r].pc \in {"starting", "registered", "script", "settling"} => Busy(r),
         Shape(domain'[r]),
         domain'[r].pipe => exec'[r].pc = "script",
         exec'[r].pc \in {"starting", "registered"} => domain'[r].guard = "none",
         exec'[r].pc = "registered" => domain'[r].known,
         exec'[r].pc = "settling" => ~domain'[r].pipe /\ domain'[r].guard \in {"none", "gone"},
         domain'[r].child = "running" => domain[r].child = "running"
  PROVE  IInv'
<1> USE DEF IInv
<1>1. LeaseInv' /\ EventInv' /\ InferredInv'
  BY DEF LeaseInv, EventInv, InferredInv
<1>2. run[r].state # "absent"
  BY DEF ExecInv
<1>3. ExecInv'
  BY <1>2 DEF ExecInv, Busy, HoldsLease
<1>4. DomainInv'
  BY DEF DomainInv
<1>5. CheckInv'
  <2>1. \A c \in Checks : check[c] = r => Harmless(domain'[r])
    <3>1. \A c \in Checks : check[c] = r => ~Busy(r) /\ domain[r].child # "running"
      BY RunsAreNat DEF CheckInv, ExecInv, HoldsLease, LeaseInv, Harmless
    <3>2. domain'[r].pipe => Busy(r)
      BY DEF Busy
    <3> QED
      BY <3>1, <3>2 DEF Harmless
  <2> QED
    BY <2>1 DEF CheckInv, TypeOK
<1>6. TerminalAlone'
  BY DEF TerminalAlone
<1> QED
  BY <1>1, <1>3, <1>4, <1>5, <1>6

LEMMA CancelKeeps ==
  ASSUME IInv, TypeOK', Cancel \/ ChangeResources \/ Stop
  PROVE  IInv'
<1>1. PICK cause \in Causes : CancelPod(cause)
  BY DEF Cancel, ChangeResources, Stop, Causes
<1>2. /\ UNCHANGED <<event, run, lease, active, check, inferred>>
      /\ worker # "down" /\ worker' # "down"
  BY DEF Cancel, ChangeResources, Stop, tables
<1>3. pod'.terminal = pod.terminal
  BY DEF Cancel, ChangeResources, Stop, IInv, TypeOK
<1>4. CASE Abortable(active)
  <2>1. active \in Runs /\ exec[active].pc \in {"starting", "registered", "script"}
    BY <1>4 DEF Abortable, IInv, TypeOK
  <2>2. exec' = [exec EXCEPT ![active].cause = cause]
    BY <1>1, <1>4 DEF CancelPod
  <2>3. domain' = [domain EXCEPT ![active].pipe = domain[active].pipe /\ exec[active].pc # "script"]
    BY <1>1, <1>4 DEF CancelPod
  <2>4. exec'[active].pc = exec[active].pc /\ \A o \in Runs : o # active => exec'[o] = exec[o] /\ domain'[o] = domain[o]
    BY <2>1, <2>2, <2>3 DEF IInv, TypeOK, Exec
  <2>5. /\ domain'[active].known = domain[active].known /\ domain'[active].guard = domain[active].guard
        /\ domain'[active].child = domain[active].child /\ domain'[active].record = domain[active].record
    BY <2>1, <2>3 DEF IInv, TypeOK, Domain
  <2>6. ~domain'[active].pipe
    <3>1. domain'[active].pipe = (domain[active].pipe /\ exec[active].pc # "script")
      BY <2>1, <2>3 DEF IInv, TypeOK, Domain
    <3>2. ~(domain[active].pipe /\ exec[active].pc # "script")
      BY <2>1 DEF IInv, DomainInv
    <3> QED
      BY <3>1, <3>2
  <2>7. Shape(domain'[active])
    <3>1. Shape(domain[active]) /\ domain[active] \in Domain /\ domain'[active] \in Domain
      BY <2>1 DEF IInv, DomainInv, TypeOK
    <3>2. ~domain[active].known => domain'[active] = NoDomain
      <4>1. CASE ~domain[active].known
        <5>1. domain[active].guard = "none" /\ domain[active].child = "none" /\ domain[active].record = "none"
          BY <3>1, <4>1 DEF Shape, NoDomain
        <5>2. domain'[active].known = FALSE /\ domain'[active].pipe = FALSE
          BY <2>5, <2>6, <3>1, <4>1 DEF Domain
        <5> QED
          BY <2>5, <3>1, <5>1, <5>2 DEF Domain, NoDomain
      <4> QED
        BY <4>1
    <3> QED
      BY <2>5, <2>6, <3>1, <3>2 DEF Shape
  <2>8. Busy(active) /\ exec[active] # NoExec
    BY <2>1 DEF Busy, NoExec
  <2>9. /\ exec'[active].pc \in {"starting", "registered"} => domain'[active].guard = "none"
        /\ exec'[active].pc # "settling"
        /\ exec'[active].pc = "registered" => domain'[active].known
        /\ domain'[active].child = "running" => domain[active].child = "running"
    BY <2>1, <2>4, <2>5 DEF IInv, DomainInv
  <2> QED
    BY <1>2, <1>3, <2>1, <2>4, <2>6, <2>7, <2>8, <2>9, ExecutionKeeps
<1>5. CASE ~Abortable(active)
  <2>1. UNCHANGED <<exec, domain>>
    BY <1>1, <1>5 DEF CancelPod
  <2>2. LeaseInv' /\ ExecInv'
    BY <1>2, <2>1 DEF IInv, LeaseInv, ExecInv, Busy, HoldsLease
  <2>3. DomainInv' /\ CheckInv' /\ EventInv' /\ InferredInv' /\ TerminalAlone'
    BY <1>2, <1>3, <2>1 DEF IInv, DomainInv, CheckInv, EventInv, InferredInv, TerminalAlone
  <2> QED
    BY <2>2, <2>3 DEF IInv
<1> QED
  BY <1>4, <1>5

LEMMA StepOfRunKeeps ==
  ASSUME IInv, TypeOK', NEW r \in Runs,
         RegisterDomain(r) \/ Spawn(r) \/ SealDomain(r) \/ EndScript(r) \/ CloseShell(r)
  PROVE  IInv'
<1>1. /\ UNCHANGED <<event, run, lease, check, inferred>>
      /\ UNCHANGED <<worker, pod>>
  BY DEF RegisterDomain, Spawn, SealDomain, EndScript, CloseShell, tables
<1>2. worker' # "down" /\ exec[r] # NoExec /\ pod'.terminal = pod.terminal
  BY <1>1 DEF RegisterDomain, Spawn, SealDomain, EndScript, CloseShell, NoExec, IInv, ExecInv
<1>3. exec[r] \in Exec /\ domain[r] \in Domain /\ exec \in [Runs -> Exec] /\ domain \in [Runs -> Domain] /\ TypeOK
  BY DEF IInv, TypeOK
<1>4. /\ Shape(domain[r])
      /\ domain[r].pipe => exec[r].pc = "script"
      /\ exec[r].pc \in {"starting", "registered"} => domain[r].guard = "none"
  BY DEF IInv, DomainInv
<1>5. CASE RegisterDomain(r)
  <2>1. /\ exec[r].pc = "starting" /\ exec'[r].pc = "registered"
        /\ \A o \in Runs : o # r => exec'[o] = exec[o] /\ domain'[o] = domain[o]
    BY <1>3, <1>5 DEF RegisterDomain, Exec
  <2>2. /\ domain'[r].known = TRUE /\ domain'[r].guard = domain[r].guard /\ domain'[r].child = domain[r].child
        /\ domain'[r].record = domain[r].record /\ domain'[r].pipe = domain[r].pipe
    BY <1>3, <1>5 DEF RegisterDomain, Domain
  <2>3. Shape(domain'[r])
    BY <1>4, <2>1, <2>2 DEF Shape
  <2> QED
    BY <1>1, <1>2, <1>4, <2>1, <2>2, <2>3, ExecutionKeeps DEF Busy
<1>6. CASE Spawn(r)
  <2>1. /\ exec[r].pc = "registered" /\ exec'[r].pc = "script"
        /\ \A o \in Runs : o # r => exec'[o] = exec[o] /\ domain'[o] = domain[o]
    BY <1>3, <1>6 DEF Spawn, Exec
  <2>2. /\ domain'[r].known = domain[r].known /\ domain'[r].guard = "born" /\ domain'[r].child = domain[r].child
        /\ domain'[r].record = domain[r].record
    BY <1>3, <1>6 DEF Spawn, Domain
  <2>3. domain[r].known = TRUE
    BY <1>3, <2>1 DEF IInv, DomainInv, Domain
  <2>4. Shape(domain'[r])
    BY <1>4, <2>1, <2>2, <2>3 DEF Shape
  <2> QED
    BY <1>1, <1>2, <1>4, <2>1, <2>2, <2>4, ExecutionKeeps DEF Busy
<1>7. CASE SealDomain(r)
  <2>1. /\ exec[r].pc = "registered" /\ exec'[r].pc = "script"
        /\ \A o \in Runs : o # r => exec'[o] = exec[o]
    BY <1>3, <1>7 DEF SealDomain, Exec
  <2>2. Becomes(r, "gone", "none", "closed")
    BY <1>7 DEF SealDomain
  <2>3. /\ domain'[r].known = TRUE /\ domain'[r].guard = "gone" /\ domain'[r].child = "none"
        /\ domain'[r].record = "closed" /\ ~domain'[r].pipe
        /\ \A o \in Runs : o # r => domain'[o] = domain[o]
    <3>1. TypeOK
      BY <1>3
    <3>2. \A o \in Runs : o # r => domain'[o] = domain[o]
      BY <2>2, <3>1, BecomesFrame, GuardNames
    <3>3. /\ domain'[r].known = TRUE /\ domain'[r].guard = "gone" /\ domain'[r].child = "none"
          /\ domain'[r].record = "closed" /\ ~domain'[r].pipe
      BY <2>2, <3>1, GoneFields, GuardNames
    <3> QED
      BY <3>2, <3>3
  <2>4. Shape(domain'[r])
    BY <2>3 DEF Shape
  <2> QED
    BY <1>1, <1>2, <2>1, <2>3, <2>4, ExecutionKeeps DEF Busy
<1>8. CASE EndScript(r)
  <2>1. /\ exec[r].pc = "starting" \/ (exec[r].pc = "script" /\ domain[r].guard = "gone")
        /\ exec'[r].pc = "settling" /\ UNCHANGED domain
        /\ \A o \in Runs : o # r => exec'[o] = exec[o]
    BY <1>3, <1>8 DEF EndScript
  <2>2. ~domain[r].pipe /\ domain[r].guard \in {"none", "gone"}
    BY <1>4, <2>1 DEF Shape
  <2> QED
    BY <1>1, <1>2, <1>4, <2>1, <2>2, ExecutionKeeps DEF Busy
<1>9. CASE CloseShell(r)
  <2>1. /\ exec[r].pc = "closing" /\ exec'[r].pc = "none" /\ UNCHANGED domain
        /\ \A o \in Runs : o # r => exec'[o] = exec[o]
    BY <1>3, <1>9 DEF CloseShell, Exec
  <2>2. ~domain[r].pipe
    BY <1>4, <2>1
  <2> QED
    BY <1>1, <1>2, <1>4, <2>1, <2>2, ExecutionKeeps DEF Busy
<1> QED
  BY <1>5, <1>6, <1>7, <1>8, <1>9
\* A sent request has its dispatch recorded; the owner never opens a terminal over a lease.
LEMMA SendKeeps ==
  ASSUME IInv, TypeOK', NEW r \in Runs, SendInference(r)
  PROVE  IInv'
<1> USE DEF IInv
<1>1. UNCHANGED <<worker, pod, event, run, lease, exec, check, domain>> /\ inferred' = inferred \cup {r} /\ run[r].proxy
  BY DEF SendInference, Dispatched, tables, memory
<1>2. LeaseInv' /\ ExecInv'
  BY <1>1 DEF LeaseInv, ExecInv, Busy, HoldsLease
<1>3. DomainInv' /\ CheckInv' /\ EventInv' /\ TerminalAlone'
  BY <1>1 DEF DomainInv, CheckInv, EventInv, TerminalAlone
<1>4. InferredInv'
  BY <1>1 DEF InferredInv
<1> QED
  BY <1>2, <1>3, <1>4

LEMMA OwnerKeeps ==
  ASSUME IInv, TypeOK', Owner \/ Validate
  PROVE  IInv'
<1> USE DEF IInv
<1>1. UNCHANGED <<worker, event, run, lease, exec, check, domain, inferred>>
  BY DEF Owner, Validate, tables, memory
<1>2. pod'.terminal => pod.terminal \/ lease = NoLease
  BY DEF Owner, Validate, Pause, Resume, Schedule, OpenTerminal, CloseTerminal, TypeOK
<1>3. LeaseInv' /\ ExecInv'
  BY <1>1 DEF LeaseInv, ExecInv, Busy, HoldsLease
<1>4. DomainInv' /\ CheckInv' /\ EventInv' /\ InferredInv'
  BY <1>1 DEF DomainInv, CheckInv, EventInv, InferredInv
<1>5. lease = NoLease => \A r \in Runs : domain[r].child # "running"
  BY RunsAreNat DEF DomainInv, NoLease
<1>6. TerminalAlone'
  BY <1>1, <1>2, <1>5 DEF TerminalAlone
<1> QED
  BY <1>3, <1>4, <1>6

\* Accepting an input leaves the rest of the table as it is.
LEMMA AcceptArrives ==
  ASSUME TypeOK, NEW e \in Events, NEW source \in Sources
  PROVE  WithArrivals(Accept(e, source)) /\ WithArrivals(event)
<1>1. Accept(e, source) \in [Events -> Event] /\ event \in [Events -> Event]
  BY AcceptType DEF TypeOK
<1>2. \A d \in Events : d # e => Accept(e, source)[d] = event[d]
  BY <1>1 DEF Accept
<1>3. Accept(e, source)[e].state = "pending" /\ Accept(e, source)[e].run = NoRun
  BY <1>1 DEF Accept
<1> QED
  BY <1>1, <1>2, <1>3 DEF WithArrivals

LEMMA ScheduleKeeps ==
  ASSUME IInv, TypeOK',
         AcceptEvent \/ RequestManual \/ (\E e \in Events : Redeliver(e)) \/ Tick \/ TickDue \/ StartControlledRun
  PROVE  IInv'
<1>1. TypeOK /\ event \in [Events -> Event] /\ WithArrivals(event)
  BY DEF IInv, TypeOK, WithArrivals
<1>2. CASE AcceptEvent \/ RequestManual \/ \E e \in Events : Redeliver(e)
  <2>1. PICK e \in Events, source \in Sources : event' = Accept(e, source)
    BY <1>2, NextEventInEvents DEF AcceptEvent, RequestManual, Redeliver, Sources
  <2>2. UNCHANGED <<worker, pod, run, lease, exec, check, domain, inferred>>
    BY <1>2 DEF AcceptEvent, RequestManual, Redeliver, memory
  <2> QED
    BY <1>1, <2>1, <2>2, AcceptArrives, ArrivalKeeps
<1>3. CASE Tick
  <2>1. Drain(event) /\ worker = "up" /\ UNCHANGED <<worker, pod, domain, inferred>>
    BY <1>3 DEF Tick
  <2> QED
    BY <1>1, <2>1, DrainKeeps
<1>4. CASE TickDue
  <2>1. PICK e \in Events : Drain(Accept(e, "schedule"))
    BY <1>4, NextEventInEvents DEF TickDue
  <2>2. worker = "up" /\ UNCHANGED <<worker, pod, domain, inferred>>
    BY <1>4 DEF TickDue
  <2>3. "schedule" \in Sources
    BY DEF Sources
  <2> QED
    BY <1>1, <2>1, <2>2, <2>3, AcceptArrives, DrainKeeps
<1>5. CASE StartControlledRun
  <2>1. Start(event, {}) /\ lease = NoLease /\ ~pod.terminal /\ worker = "up" /\ UNCHANGED <<worker, pod, domain, inferred>>
    BY <1>5 DEF StartControlledRun, Startable
  <2> QED
    BY <1>1, <2>1, StartKeeps
<1> QED
  BY <1>2, <1>3, <1>4, <1>5
-----------------------------------------------------------------------------
(* Settling                                                                *)

\* A domain that inspection calls quiescent can never run a script again.
LEMMA QuiescentHarmless ==
  ASSUME IInv, NEW r \in Runs, ConfirmedStopped(r)
  PROVE  Harmless(domain[r])
<1>1. Shape(domain[r]) /\ (domain[r].pipe => Alive(r)) /\ domain[r].guard \in Guards /\ domain[r].record \in Records
  BY DEF IInv, DomainInv, TypeOK, Domain, Alive
<1>2. CASE ~domain[r].known
  BY <1>1, <1>2 DEF Shape, NoDomain, Harmless
<1>3. CASE domain[r].known /\ domain[r].record = "closed"
  <2>1. domain[r].guard = "gone"
    BY <1>1, <1>3 DEF Shape, Guards
  <2> QED
    BY <1>1, <1>3, <2>1 DEF Shape, Harmless
<1>4. CASE domain[r].known /\ domain[r].record = "none"
  <2>1. ~Alive(r)
    BY <1>4 DEF ConfirmedStopped, Quiescent
  <2> QED
    BY <1>1, <1>4, <2>1 DEF Shape, Harmless, Guards
<1>5. CASE domain[r].known /\ domain[r].record \in {"guardian", "child"}
  <2>1. domain[r].guard = "gone" /\ (domain[r].record = "child" => domain[r].child \notin {"gated", "running"})
    BY <1>5 DEF ConfirmedStopped, Quiescent
  <2> QED
    BY <1>1, <1>5, <2>1 DEF Shape, Harmless
<1> QED
  BY <1>1, <1>2, <1>3, <1>4, <1>5 DEF Records

\* What recovery does to an event: it leaves it alone, returns it or fails it.
LEMMA RecoverEffect ==
  ASSUME TypeOK, NEW ev \in [Events -> Event], NEW r \in Runs, NEW cause, NEW e \in Events
  PROVE  LET new == RecoverEvents(ev, r, cause)[e] IN
         \/ new = ev[e] /\ ~(ev[e].state = "claimed" /\ ev[e].run = r)
         \/ new.run = r /\ new.state = "pending" /\ Retries(r, cause)
         \/ new.run = r /\ new.state = "failed" /\ ~Retries(r, cause)
<1> DEFINE w == WithInput(ev, r, cause)
           x == IF Retries(r, cause) THEN "pending" ELSE "failed"
<1>1. w[e] = ev[e] \/ (w[e].state = "claimed" /\ w[e].run = r)
  BY DEF WithInput
<1>2. w[e] \in Event
  BY <1>1 DEF WithInput, Event, Sources, EventStates
<1>3. RecoverEvents(ev, r, cause)[e] = IF w[e].state = "claimed" /\ w[e].run = r THEN [w[e] EXCEPT !.state = x] ELSE w[e]
  BY DEF RecoverEvents, Returned
<1> HIDE DEF w
<1>4. CASE w[e].state = "claimed" /\ w[e].run = r
  <2>1. [w[e] EXCEPT !.state = x].state = x /\ [w[e] EXCEPT !.state = x].run = r
    BY <1>2, <1>4 DEF Event
  <2> QED
    BY <1>3, <1>4, <2>1
<1>5. CASE ~(w[e].state = "claimed" /\ w[e].run = r)
  BY <1>1, <1>3, <1>5
<1> QED
  BY <1>4, <1>5

LEMMA RecoverRunEffect ==
  ASSUME TypeOK, NEW ev, NEW r \in Runs, NEW cause
  PROVE  /\ RecoverRun(ev, r, cause).state = run[r].state
         /\ RecoverRun(ev, r, cause).proxy = run[r].proxy
         /\ RecoverRun(ev, r, cause).settled = TRUE
         /\ RecoverRun(ev, r, cause).attempt = run[r].attempt + 1
<1>1. run[r] \in Run
  BY DEF TypeOK
<1> QED
  BY <1>1 DEF RecoverRun, Run

\* The run of the lease ends, and takes the lease and its claims with it.
LEMMA SettleKeeps ==
  ASSUME IInv, TypeOK', NEW r \in Runs, lease.run = r, lease' = NoLease,
         UNCHANGED <<worker, pod, domain, inferred>>, worker # "down", domain[r].child # "running",
         \A o \in Runs : o # r => run'[o] = run[o] /\ exec'[o] = exec[o],
         run'[r].state \in {"interrupted", "over"}, run'[r].state = "interrupted" => run'[r].settled,
         run'[r].proxy = run[r].proxy,
         run'[r].settled \/ (run'[r].inputs # {}) \/ run'[r].attempt = 0,
         ~(exec'[r].pc \in {"starting", "registered", "script", "settling"}), ~domain[r].pipe,
         \A c \in Checks : check'[c] \in {check[c], NoRun} /\ (check'[c] = r => run'[r].settled),
         \A e \in Events :
           \/ event'[e] = event[e] /\ ~(event[e].state = "claimed" /\ event[e].run = r)
           \/ event'[e].run = r /\ event'[e].state \in {"processed", "failed"}
           \/ /\ event'[e].run = r /\ event'[e].state = "pending"
              /\ run'[r].settled /\ ~run[r].proxy /\ run'[r].attempt < MaxAttempts
  PROVE  IInv'
<1> USE DEF IInv
<1>1. r # NoRun /\ run[r].state # "absent" /\ lease # NoLease /\ lease'.run = NoRun
  BY RunsAreNat DEF LeaseInv, NoLease
<1>2. LeaseInv'
  BY <1>1 DEF LeaseInv
<1>3. \A o \in Runs : o # r => ~Busy(o)
  BY DEF ExecInv, HoldsLease
<1>4. ExecInv'
  BY <1>3 DEF ExecInv, Busy
<1>5. \A o \in Runs : domain[o].child # "running"
  BY DEF DomainInv
<1>6. DomainInv'
  <2>1. \A o \in Runs : o # r => exec'[o] = exec[o]
    OBVIOUS
  <2>2. exec'[r].pc \notin {"starting", "registered", "script", "settling"}
    OBVIOUS
  <2> QED
    BY <1>5, <2>1, <2>2 DEF DomainInv
<1>7. CheckInv'
  <2>1. \A c \in Checks : check'[c] # NoRun => check'[c] = check[c] /\ check[c] \in Runs
    BY DEF TypeOK
  <2>2. \A c \in Checks : check'[c] # NoRun /\ check'[c] # r => run'[check'[c]] = run[check[c]] /\ run[check[c]].settled
    BY <2>1 DEF CheckInv
  <2> QED
    BY <2>1, <2>2 DEF CheckInv
<1>8. EventInv'
  <2>1. \A e \in Events : event[e].run # NoRun => event[e].run \in Runs
    BY DEF TypeOK, Event
  <2>2. \A e \in Events : event[e].state = "claimed" => event[e].run = r
    BY DEF EventInv
  <2>3. \A e \in Events : event'[e].state # "claimed"
    BY <2>2
  <2>4. run'[r].state # "absent"
    OBVIOUS
  <2>5. \A e \in Events : event'[e].run # NoRun => run'[event'[e].run].state # "absent"
    BY <2>1, <2>4 DEF EventInv
  <2>6. \A e \in Events : event'[e].state = "absent" => event'[e].run = NoRun
    BY DEF EventInv
  <2>7. \A e \in Events : event[e].state = "pending" => event[e].run # r
    BY <1>1, RunsAreNat DEF EventInv, LeaseInv
  <2>8. \A e \in Events : event'[e].state = "pending" /\ event'[e].run # NoRun =>
           /\ run'[event'[e].run].settled /\ ~run'[event'[e].run].proxy
           /\ run'[event'[e].run].attempt < MaxAttempts
    BY <2>1, <2>7 DEF EventInv
  <2>9. \A o \in Runs : run'[o].inputs = {} /\ ~run'[o].settled => run'[o].attempt = 0
    BY DEF EventInv
  <2> QED
    BY <2>3, <2>5, <2>6, <2>8, <2>9 DEF EventInv
<1>9. InferredInv'
  BY DEF InferredInv, TypeOK
<1>10. TerminalAlone'
  BY <1>5 DEF TerminalAlone
<1> QED
  BY <1>2, <1>4, <1>6, <1>7, <1>8, <1>9, <1>10
LEMMA LeaveEffect ==
  ASSUME TypeOK, NEW r \in Runs, Leave(r)
  PROVE  /\ exec'[r].pc \in {"none", "closing"}
         /\ \A o \in Runs : o # r => exec'[o] = exec[o]
<1> DEFINE x == IF exec[r].out.thrown THEN "closing" ELSE "none"
<1>1. exec' = [exec EXCEPT ![r] = [NoExec EXCEPT !.pc = x]] /\ x \in {"none", "closing"}
  BY DEF Leave
<1> HIDE DEF x
<1>2. [NoExec EXCEPT !.pc = x].pc = x
  BY DEF NoExec
<1>3. exec'[r].pc = x /\ \A o \in Runs : o # r => exec'[o] = exec[o]
  BY <1>1, <1>2 DEF TypeOK
<1> QED
  BY <1>1, <1>3

LEMMA FinishKeeps ==
  ASSUME IInv, TypeOK', NEW r \in Runs, Finish(r)
  PROVE  IInv'
<1> DEFINE cause == exec[r].out.cause
           ev == Processed(r, exec[r].out.done)
           left == exec[r].out.state # "completed" \/ \E e \in Claimed(ev) : ev[e].run = r
<1>1. /\ exec[r].pc = "settling" /\ ConfirmedStopped(r) /\ HoldsLease(r) /\ Leave(r)
      /\ event' = IF left THEN RecoverEvents(ev, r, cause) ELSE ev
      /\ run' = [run EXCEPT ![r] = [(IF left THEN RecoverRun(ev, r, cause) ELSE run[r]) EXCEPT !.state = "over"]]
      /\ lease' = NoLease
      /\ UNCHANGED <<worker, pod, check, domain, inferred>>
  BY DEF Finish
<1>2. TypeOK /\ lease.run = r /\ r # NoRun /\ ~lease.fenced /\ Busy(r)
  BY <1>1, RunsAreNat DEF IInv, HoldsLease, Busy
<1>3. run[r] \in Run /\ run[r].state = "running" /\ ~run[r].settled
  BY <1>2 DEF IInv, LeaseInv, TypeOK
<1>4. ev \in [Events -> Event]
  BY <1>2 DEF Processed, TypeOK, Event, EventStates
<1>5. \A e \in Events :
        ev[e] = event[e] \/ (ev[e].run = r /\ ev[e].state = "processed")
  BY <1>2 DEF Processed, TypeOK, Event
<1> HIDE DEF ev
<1>6. RecoverRun(ev, r, cause) \in Run
  BY <1>2, <1>4, RecoverTypes
<1>7. /\ run'[r].state = "over" /\ run'[r].proxy = run[r].proxy
      /\ left => run'[r].settled /\ run'[r].attempt = run[r].attempt + 1
      /\ ~left => run'[r].inputs = run[r].inputs /\ run'[r].attempt = run[r].attempt
      /\ \A o \in Runs : o # r => run'[o] = run[o]
  <2>1. \A o \in Runs : o # r => run'[o] = run[o]
    BY <1>1
  <2>2. CASE left
    <3>1. run'[r] = [RecoverRun(ev, r, cause) EXCEPT !.state = "over"]
      BY <1>1, <1>2, <2>2 DEF TypeOK
    <3>2. /\ [RecoverRun(ev, r, cause) EXCEPT !.state = "over"].settled = RecoverRun(ev, r, cause).settled
          /\ [RecoverRun(ev, r, cause) EXCEPT !.state = "over"].proxy = RecoverRun(ev, r, cause).proxy
          /\ [RecoverRun(ev, r, cause) EXCEPT !.state = "over"].attempt = RecoverRun(ev, r, cause).attempt
          /\ [RecoverRun(ev, r, cause) EXCEPT !.state = "over"].state = "over"
      BY <1>6 DEF Run
    <3> HIDE DEF left, cause
    <3>3. /\ RecoverRun(ev, r, cause).settled = TRUE /\ RecoverRun(ev, r, cause).proxy = run[r].proxy
          /\ RecoverRun(ev, r, cause).attempt = run[r].attempt + 1
      <4>1. TypeOK
        BY <1>2
      <4> QED
        BY <4>1, RecoverRunEffect, Zenon
    <3> QED
      BY <2>1, <2>2, <3>1, <3>2, <3>3
  <2>3. CASE ~left
    <3>1. run'[r] = [run[r] EXCEPT !.state = "over"]
      BY <1>1, <1>2, <2>3 DEF TypeOK
    <3> QED
      BY <1>3, <2>1, <2>3, <3>1 DEF Run
  <2> QED
    BY <2>2, <2>3
<1>8. run'[r].settled \/ run'[r].inputs # {} \/ run'[r].attempt = 0
  BY <1>3, <1>7 DEF IInv, EventInv
<1>9. \A e \in Events :
        \/ event'[e] = event[e] /\ ~(event[e].state = "claimed" /\ event[e].run = r)
        \/ event'[e].run = r /\ event'[e].state \in {"processed", "failed"}
        \/ /\ event'[e].run = r /\ event'[e].state = "pending"
           /\ run'[r].settled /\ ~run[r].proxy /\ run'[r].attempt < MaxAttempts
  <2>1. CASE left
    <3>1. event' = RecoverEvents(ev, r, cause)
      BY <1>1, <2>1
    <3>2. Retries(r, cause) => ~run[r].proxy /\ run'[r].attempt < MaxAttempts
      BY <1>7, <2>1 DEF Retries
    <3> HIDE DEF left
    <3> QED
      BY <1>2, <1>4, <1>5, <1>7, <2>1, <3>1, <3>2, RecoverEffect
  <2>2. CASE ~left
    <3>1. event' = ev
      BY <1>1, <2>2
    <3>2. \A e \in Events : ~(ev[e].state = "claimed" /\ ev[e].run = r)
      BY <2>2 DEF Claimed
    <3> QED
      BY <1>5, <3>1, <3>2
  <2> QED
    BY <2>1, <2>2
<1>10. worker # "down"
  BY <1>1 DEF IInv, ExecInv, NoExec
<1>11. Harmless(domain[r])
  BY <1>1, QuiescentHarmless
<1>12. \A c \in Checks : check'[c] # r
  BY <1>1, <1>2, <1>3 DEF IInv, CheckInv
<1>13. exec'[r].pc \notin {"starting", "registered", "script", "settling"} /\ \A o \in Runs : o # r => exec'[o] = exec[o]
  BY <1>1, <1>2, LeaveEffect
<1>14. \A c \in Checks : check'[c] \in {check[c], NoRun} /\ (check'[c] = r => run'[r].settled)
  BY <1>1, <1>12
<1>15. domain[r].child # "running" /\ ~domain[r].pipe
  BY <1>11 DEF Harmless
<1>16. UNCHANGED <<worker, pod, domain, inferred>> /\ lease' = NoLease
  BY <1>1
<1>17. run'[r].state = "over" /\ run'[r].proxy = run[r].proxy /\ \A o \in Runs : o # r => run'[o] = run[o]
  BY <1>7
<1> HIDE DEF left, cause
<1> QED
  BY <1>2, <1>8, <1>9, <1>10, <1>13, <1>14, <1>15, <1>16, <1>17, SettleKeeps

\* A stop that cannot be confirmed leaves the claims and the lease, fenced.
LEMMA InterruptKeeps ==
  ASSUME IInv, TypeOK', NEW r \in Runs, Interrupt(r)
  PROVE  IInv'
<1> USE DEF IInv
<1>1. /\ exec[r].pc = "settling" /\ HoldsLease(r) /\ Leave(r)
      /\ UNCHANGED <<worker, pod, event, check, domain, inferred>>
  BY DEF Interrupt
<1>2. lease.run = r /\ ~lease.fenced /\ run[r].state = "running" /\ ~run[r].settled /\ r # NoRun
  BY <1>1, RunsAreNat DEF HoldsLease, LeaseInv
<1>3. lease'.run = r /\ lease'.fenced
  BY <1>2 DEF Interrupt, TypeOK
<1>4. /\ run'[r].state = "interrupted"
      /\ run'[r].inputs = run[r].inputs /\ run'[r].attempt = run[r].attempt
      /\ run'[r].settled = run[r].settled /\ run'[r].proxy = run[r].proxy
      /\ \A o \in Runs : o # r => run'[o] = run[o]
  BY DEF Interrupt, TypeOK, Run
<1>5. exec'[r].pc \in {"none", "closing"} /\ \A o \in Runs : o # r => exec'[o] = exec[o]
  BY <1>1, LeaveEffect
<1>6. LeaseInv'
  BY <1>2, <1>3, <1>4 DEF LeaseInv
<1>7. ExecInv'
  <2>1. \A o \in Runs : o # r => ~Busy(o)
    BY <1>2 DEF ExecInv, HoldsLease
  <2>2. worker # "down"
    BY <1>1 DEF ExecInv, NoExec
  <2> QED
    BY <1>1, <1>2, <1>4, <1>5, <2>1, <2>2 DEF ExecInv, Busy
<1>8. DomainInv'
  <2>1. ~domain[r].pipe
    BY <1>1 DEF DomainInv
  <2> QED
    BY <1>1, <1>2, <1>3, <1>5, <2>1 DEF DomainInv
<1>9. CheckInv'
  <2>1. \A c \in Checks : check[c] # r
    BY <1>2 DEF CheckInv
  <2> QED
    BY <1>1, <1>2, <1>3, <1>4, <2>1 DEF CheckInv, TypeOK
<1>10. EventInv'
  <2>1. \A e \in Events : event[e].run # NoRun => event[e].run \in Runs
    BY DEF TypeOK, Event
  <2>2. \A o \in Runs : /\ run'[o].inputs = run[o].inputs /\ run'[o].attempt = run[o].attempt
                        /\ run'[o].settled = run[o].settled /\ run'[o].proxy = run[o].proxy
                        /\ run'[o].state = "absent" => run[o].state = "absent"
    BY <1>4
  <2> QED
    BY <1>1, <1>2, <1>3, <2>1, <2>2 DEF EventInv
<1>11. InferredInv'
  BY <1>1, <1>4 DEF InferredInv, TypeOK
<1>12. TerminalAlone'
  BY <1>1, <1>2 DEF TerminalAlone, NoLease
<1> QED
  BY <1>6, <1>7, <1>8, <1>9, <1>10, <1>11, <1>12

LEMMA RecoverProveKeeps ==
  ASSUME IInv, TypeOK', NEW c \in Checks, NEW r \in Runs, RecoverProve(c, r)
  PROVE  IInv'
<1> USE DEF IInv
<1>1. /\ UNCHANGED <<worker, pod, event, run, lease, exec, domain, inferred>> /\ worker = "up"
      /\ check' = [check EXCEPT ![c] = r] /\ Candidate(r) /\ ConfirmedStopped(r)
  BY DEF RecoverProve, tables
<1>2. LeaseInv' /\ DomainInv' /\ EventInv' /\ InferredInv' /\ TerminalAlone'
  BY <1>1 DEF LeaseInv, DomainInv, EventInv, InferredInv, TerminalAlone
<1>3. ExecInv'
  BY <1>1 DEF ExecInv, Busy, HoldsLease
<1>4. CheckInv'
  <2>1. run[r].state \in {"interrupted", "over"} /\ lease.run = r
    BY <1>1 DEF Candidate, Claimed, EventInv
  <2>2. Harmless(domain[r])
    BY <1>1, QuiescentHarmless
  <2>3. check'[c] = r /\ \A d \in Checks : d # c => check'[d] = check[d]
    BY <1>1 DEF TypeOK
  <2> QED
    BY <1>1, <2>1, <2>2, <2>3 DEF CheckInv
<1> QED
  BY <1>2, <1>3, <1>4

LEMMA RecoverSettleKeeps ==
  ASSUME IInv, TypeOK', NEW c \in Checks, RecoverSettle(c)
  PROVE  IInv'
<1> DEFINE r == check[c]
<1>1. /\ worker # "down" /\ r \in Runs /\ r # NoRun /\ TypeOK
      /\ check' = [check EXCEPT ![c] = NoRun]
      /\ UNCHANGED <<worker, pod, exec, domain, inferred>>
  BY DEF RecoverSettle, IInv, TypeOK
<1>2. check'[c] = NoRun /\ \A d \in Checks : d # c => check'[d] = check[d]
  BY <1>1 DEF TypeOK
<1>3. CASE ~StillOpen(r)
  <2> USE DEF IInv
  <2>1. UNCHANGED <<event, run, lease>>
    BY <1>3 DEF RecoverSettle, tables
  <2>2. LeaseInv' /\ DomainInv' /\ EventInv' /\ InferredInv' /\ TerminalAlone'
    BY <1>1, <2>1 DEF LeaseInv, DomainInv, EventInv, InferredInv, TerminalAlone
  <2>3. ExecInv' /\ CheckInv'
    BY <1>1, <1>2, <2>1 DEF ExecInv, Busy, HoldsLease, CheckInv
  <2> QED
    BY <2>2, <2>3
<1>4. CASE StillOpen(r)
  <2>1. /\ lease' = IF lease.run = r THEN NoLease ELSE lease
        /\ event' = RecoverEvents(event, r, "shutdown")
        /\ run' = [run EXCEPT ![r] = RecoverRun(event, r, "shutdown")]
    BY <1>4 DEF RecoverSettle
  <2>2. run[r].state \in {"interrupted", "over"} /\ Harmless(domain[r]) /\ lease.run = r
    BY <1>1, <1>4 DEF IInv, CheckInv, StillOpen
  <2>3. lease' = NoLease
    BY <2>1, <2>2
  <2> HIDE DEF r
  <2>4. run'[r] = RecoverRun(event, r, "shutdown") /\ \A o \in Runs : o # r => run'[o] = run[o]
    BY <1>1, <2>1 DEF TypeOK
  <2>5. /\ RecoverRun(event, r, "shutdown").state = run[r].state
        /\ RecoverRun(event, r, "shutdown").proxy = run[r].proxy
        /\ RecoverRun(event, r, "shutdown").settled = TRUE
        /\ RecoverRun(event, r, "shutdown").attempt = run[r].attempt + 1
    BY <1>1, RecoverRunEffect, Zenon
  <2>6. /\ run'[r].state \in {"interrupted", "over"} /\ run'[r].settled /\ run'[r].proxy = run[r].proxy
        /\ run'[r].attempt = run[r].attempt + 1
    BY <2>2, <2>4, <2>5
  <2>7. \A e \in Events :
           \/ event'[e] = event[e] /\ ~(event[e].state = "claimed" /\ event[e].run = r)
           \/ event'[e].run = r /\ event'[e].state \in {"processed", "failed"}
           \/ /\ event'[e].run = r /\ event'[e].state = "pending"
              /\ run'[r].settled /\ ~run[r].proxy /\ run'[r].attempt < MaxAttempts
    <3>1. event \in [Events -> Event]
      BY <1>1 DEF TypeOK
    <3>2. Retries(r, "shutdown") => ~run[r].proxy /\ run'[r].attempt < MaxAttempts
      BY <2>6 DEF Retries
    <3> QED
      BY <1>1, <2>1, <2>6, <3>1, <3>2, RecoverEffect
  <2>8. exec[r].pc \notin {"starting", "registered", "script", "settling"}
    BY <1>1, <2>2, RunsAreNat DEF IInv, ExecInv, Busy, HoldsLease, LeaseInv
  <2>9. \A d \in Checks : check'[d] \in {check[d], NoRun}
    BY <1>2
  <2>10. /\ \A o \in Runs : o # r => run'[o] = run[o] /\ exec'[o] = exec[o]
         /\ exec'[r].pc \notin {"starting", "registered", "script", "settling"}
         /\ domain[r].child # "running" /\ ~domain[r].pipe
    BY <1>1, <2>2, <2>4, <2>8 DEF Harmless
  <2> QED
    BY <1>1, <2>2, <2>3, <2>6, <2>7, <2>9, <2>10, SettleKeeps
<1> QED
  BY <1>3, <1>4

\* A worker that is gone executes nothing and has given up its guardians' pipes.
LEMMA WorkerGoneKeeps ==
  ASSUME IInv, TypeOK', Crash \/ Exit
  PROVE  IInv'
<1> USE DEF IInv
<1>1. /\ worker' = "down" /\ (\A r \in Runs : exec'[r] = NoExec) /\ (\A c \in Checks : check'[c] = NoRun)
      /\ \A r \in Runs : domain'[r] = [domain[r] EXCEPT !.pipe = FALSE]
      /\ UNCHANGED <<pod, event, lease, inferred>>
  BY DEF Crash, Exit, WorkerGone
<1>2. \A r \in Runs : run'[r] = run[r] \/ run'[r] = [run[r] EXCEPT !.held = FALSE]
  BY DEF Crash, Exit
<1>3. \A r \in Runs : /\ run'[r].state = run[r].state /\ run'[r].inputs = run[r].inputs
                      /\ run'[r].attempt = run[r].attempt /\ run'[r].settled = run[r].settled
                      /\ run'[r].proxy = run[r].proxy
  BY <1>2 DEF TypeOK, Run
<1>4. \A r \in Runs : /\ domain'[r].known = domain[r].known /\ domain'[r].guard = domain[r].guard
                      /\ domain'[r].child = domain[r].child /\ domain'[r].record = domain[r].record
                      /\ domain'[r].pipe = FALSE
                      /\ domain[r] = NoDomain => domain'[r] = NoDomain
  BY <1>1 DEF TypeOK, Domain, NoDomain
<1>5. LeaseInv'
  <2>1. lease.run # NoRun => lease.run \in Runs
    BY DEF TypeOK
  <2> QED
    BY <1>1, <1>3, <2>1 DEF LeaseInv
<1>6. ExecInv'
  <2>1. \A r \in Runs : run[r] = AbsentRun => run'[r] = AbsentRun
    BY <1>2 DEF AbsentRun
  <2> QED
    BY <1>1, <1>3, <1>4, <2>1 DEF ExecInv, Busy, NoExec
<1>7. DomainInv'
  <2>1. \A r \in Runs : Shape(domain'[r])
    BY <1>4 DEF DomainInv, Shape
  <2> QED
    BY <1>1, <1>4, <2>1 DEF DomainInv, NoExec
<1>8. CheckInv' /\ InferredInv' /\ TerminalAlone'
  BY <1>1, <1>3, <1>4 DEF CheckInv, InferredInv, TerminalAlone, TypeOK
<1>9. EventInv'
  <2>1. \A e \in Events : event[e].run # NoRun => event[e].run \in Runs
    BY DEF TypeOK, Event
  <2> QED
    BY <1>1, <1>3, <2>1 DEF EventInv
<1> QED
  BY <1>5, <1>6, <1>7, <1>8, <1>9

\* A worker that starts fences the lease it finds and marks its run.
LEMMA WorkerStartKeeps ==
  ASSUME IInv, TypeOK', WorkerStart
  PROVE  IInv'
<1> USE DEF IInv
<1>1. /\ worker = "down" /\ worker' = "up" /\ pod'.terminal = FALSE
      /\ UNCHANGED <<event, exec, check, domain, inferred>>
  BY DEF WorkerStart, memory, TypeOK
<1>2. \A r \in Runs : run'[r] = IF run[r].state = "running" /\ lease.run = r
                                THEN [run[r] EXCEPT !.state = "interrupted"] ELSE run[r]
  BY DEF WorkerStart
<1>3. \A r \in Runs : /\ run'[r].inputs = run[r].inputs /\ run'[r].attempt = run[r].attempt
                      /\ run'[r].settled = run[r].settled /\ run'[r].proxy = run[r].proxy
                      /\ run'[r].state = IF run[r].state = "running" THEN "interrupted" ELSE run[r].state
                      /\ run[r].state # "running" => run'[r] = run[r]
  BY <1>2 DEF TypeOK, Run, LeaseInv
<1>4. lease'.run = lease.run /\ (lease.run # NoRun => lease'.fenced = TRUE) /\ (lease = NoLease => lease' = NoLease)
  BY DEF WorkerStart, TypeOK, NoLease, LeaseInv
<1>5. LeaseInv'
  BY <1>3, <1>4 DEF LeaseInv, TypeOK
<1>6. ExecInv'
  BY <1>1, <1>3 DEF ExecInv, Busy, NoExec
<1>7. DomainInv'
  BY <1>1, <1>4 DEF DomainInv
<1>8. CheckInv' /\ InferredInv'
  BY <1>1, <1>3 DEF CheckInv, InferredInv, ExecInv, TypeOK
<1>9. TerminalAlone'
  BY <1>1 DEF TerminalAlone
<1>10. EventInv'
  <2>1. \A e \in Events : event[e].run # NoRun => event[e].run \in Runs
    BY DEF TypeOK, Event
  <2> QED
    BY <1>1, <1>3, <1>4, <2>1 DEF EventInv
<1> QED
  BY <1>5, <1>6, <1>7, <1>8, <1>9, <1>10

\* The invariant is inductive.
LEMMA InvariantStep == IInv /\ [Next]_vars => IInv'
<1> SUFFICES ASSUME IInv, [Next]_vars PROVE IInv'
  OBVIOUS
<1>1. TypeOK'
  BY TypeStep DEF IInv
<1>2. CASE AcceptEvent \/ RequestManual \/ StartControlledRun \/ Tick \/ TickDue \/ \E e \in Events : Redeliver(e)
  BY <1>1, <1>2, ScheduleKeeps
<1>3. CASE Cancel \/ ChangeResources \/ Stop
  BY <1>1, <1>3, CancelKeeps
<1>4. CASE Validate \/ Owner
  BY <1>1, <1>4, OwnerKeeps
<1>5. CASE Processes
  BY <1>1, <1>5, ProcessKeeps DEF Processes
<1>6. ASSUME NEW r \in Runs, WaitOver(r) \/ GuardianDies(r) \/ ExecuteStep(r) PROVE IInv'
  <2>1. CASE WaitOver(r) \/ PersistDispatch(r) \/ CleanupUnconfirmed(r)
    BY <1>1, <2>1, NoteKeeps
  <2>2. CASE GuardianDies(r)
    BY <1>1, <2>2, ProcessKeeps
  <2>3. CASE RegisterDomain(r) \/ Spawn(r) \/ SealDomain(r) \/ EndScript(r) \/ CloseShell(r)
    BY <1>1, <2>3, StepOfRunKeeps
  <2>4. CASE SendInference(r)
    BY <1>1, <2>4, SendKeeps
  <2>5. CASE Finish(r)
    BY <1>1, <2>5, FinishKeeps
  <2>6. CASE Interrupt(r)
    BY <1>1, <2>6, InterruptKeeps
  <2> QED
    BY <1>6, <2>1, <2>2, <2>3, <2>4, <2>5, <2>6 DEF ExecuteStep
<1>7. CASE Recover
  BY <1>1, <1>7, RecoverProveKeeps, RecoverSettleKeeps DEF Recover
<1>8. CASE Crash \/ Exit
  BY <1>1, <1>8, WorkerGoneKeeps
<1>9. CASE WorkerStart
  BY <1>1, <1>9, WorkerStartKeeps
<1>10. CASE UNCHANGED vars
  <2> USE <1>10 DEF vars, tables, memory
  <2>1. LeaseInv' /\ ExecInv' /\ DomainInv'
    BY DEF IInv, LeaseInv, ExecInv, Busy, HoldsLease, DomainInv
  <2>2. CheckInv' /\ EventInv' /\ InferredInv' /\ TerminalAlone'
    BY DEF IInv, CheckInv, EventInv, InferredInv, TerminalAlone
  <2> QED
    BY <1>1, <2>1, <2>2 DEF IInv
<1> QED
  BY <1>2, <1>3, <1>4, <1>5, <1>6, <1>7, <1>8, <1>9, <1>10 DEF Next

\* Every reachable state satisfies the invariant.
THEOREM Invariant == Spec => []IInv
<1>1. Init => IInv
  BY InitInvariant
<1>2. IInv /\ [Next]_vars => IInv'
  BY InvariantStep
<1> QED
  BY <1>1, <1>2, PTL DEF Spec

-----------------------------------------------------------------------------
(* What the invariant says about the code                                  *)

\* The worker's memory, its tables and the guardians' domains keep their types.
THEOREM PodTypes == Spec => []TypeOK
<1>1. IInv => TypeOK
  BY DEF IInv
<1> QED
  BY <1>1, Invariant, PTL

\* Whatever crashes, restarts or is settled meanwhile, a script process runs
\* only for the run that holds the pod's lease, so never two at a time.
THEOREM ScriptsAreLeased == Spec => []ScriptHoldsLease
<1>1. IInv => ScriptHoldsLease
  BY DEF IInv, DomainInv, ScriptHoldsLease
<1> QED
  BY <1>1, Invariant, PTL

\* A claimed event belongs to the lease's run: nothing is claimed for a run that is over.
THEOREM ClaimsFollowLease == Spec => []ClaimsAreLeased
<1>1. IInv => ClaimsAreLeased
  BY DEF IInv, EventInv, ClaimsAreLeased
<1> QED
  BY <1>1, Invariant, PTL

\* Events of a run that sent a request to the proxy agent are never tried again.
THEOREM InferenceIsFinal == Spec => []InferenceNotRepeated
<1>1. IInv => InferenceNotRepeated
  BY RunsAreNat DEF IInv, TypeOK, EventInv, InferredInv, InferenceNotRepeated
<1> QED
  BY <1>1, Invariant, PTL

\* An open terminal and a run never share the pod's environment.
THEOREM TerminalsAreAlone == Spec => []TerminalAlone
<1>1. IInv => TerminalAlone
  BY DEF IInv
<1> QED
  BY <1>1, Invariant, PTL

=============================================================================
