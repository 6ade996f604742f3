-------------------------- MODULE PodQueueProofs --------------------------
(***************************************************************************)
(* The runs of a pod implement EventQueue: every step of PodRuns is one    *)
(* step of the queue, or none.  The inductive invariant of PodRunsProofs   *)
(* supplies what the mapping needs: a claimed event is an input of the     *)
(* lease's run, and a run without inputs is on its first attempt.          *)
(***************************************************************************)
EXTENDS PodRunsProofs

\* The queue's state and tries, as they are in the tables.
State    == [e \in Events |-> event[e].state]
TriesOf  == [e \in Events |-> Tries(e)]

\* A step the queue does not see.
Unseen == UNCHANGED <<State, TriesOf>>

-----------------------------------------------------------------------------

\* An attempt counts only while its event is open.
LEMMA TriesWhileOpen ==
  ASSUME TypeOK, NEW e \in Events
  PROVE  /\ State[e] \notin {"pending", "claimed"} => TriesOf[e] = 0
         /\ event[e].run = NoRun => TriesOf[e] = 0
         /\ State[e] \in {"pending", "claimed"} /\ event[e].run # NoRun => TriesOf[e] = run[event[e].run].attempt
BY DEF State, TriesOf, Tries

LEMMA UnseenByQueue ==
  ASSUME TypeOK, TypeOK', UNCHANGED event,
         \A e \in Events : event[e].run # NoRun /\ event[e].state \in {"pending", "claimed"}
                          => run'[event[e].run].attempt = run[event[e].run].attempt
  PROVE  Unseen
BY DEF Unseen, State, TriesOf, Tries

\* One input arrives.
LEMMA ArrivalRefines ==
  ASSUME TypeOK, TypeOK', NEW e \in Events, event[e].state \in {"absent", "failed"},
         event'[e].state = "pending", event'[e].run = NoRun,
         \A d \in Events : d # e => event'[d] = event[d], UNCHANGED run
  PROVE  Queue!Arrive(e)
<1>1. State' = [d \in Events |-> IF d \in {e} THEN "pending" ELSE State[d]]
  BY DEF State
<1>2. TriesOf' = [d \in Events |-> IF State'[d] \in {"pending", "claimed"} THEN TriesOf[d] ELSE 0]
  BY <1>1 DEF State, TriesOf, Tries
<1> QED
  BY <1>1, <1>2 DEF State, TriesOf, Queue!Arrive, Queue!Become, Queue!Move, Queue!Counted, Queue!Open, Queue!In

\* A batch of `ev' is claimed for a new run or refused; `arrived' is what was
\* accepted in the same step, if anything.
LEMMA BatchRefines ==
  ASSUME IInv, TypeOK', NEW ev \in [Events -> Event], NEW arrived \in SUBSET Events,
         \A e \in arrived : event[e].state = "absent" /\ ev[e].state = "pending" /\ ev[e].run = NoRun,
         \A e \in Events \ arrived : ev[e] = event[e],
         \A d, e \in arrived : d = e,
         lease = NoLease, NEW x \in {"claimed", "failed"},
         \A e \in Batch(ev) : event'[e].state = x,
         \A e \in Events \ Batch(ev) : event'[e] = ev[e],
         \A e \in Events \ Batch(ev) : ev[e].run # NoRun => run'[ev[e].run].attempt = run[ev[e].run].attempt,
         x = "claimed" => \A e \in Batch(ev) :
            event'[e].run # NoRun /\ run'[event'[e].run].attempt = Largest(PreviousAttempts(ev, Batch(ev)))
  PROVE  Queue!Next
<1> DEFINE S == Batch(ev)
           before == [e \in Events |-> ev[e].state]
<1>1. TypeOK /\ S \subseteq Events /\ \A e \in S : ev[e].state = "pending"
  BY DEF IInv, Batch, Pending
<1>2. \A e \in Events : event[e].state # "claimed"
  BY RunsAreNat DEF IInv, EventInv, NoLease
<1>3. State' = [e \in Events |-> IF e \in S THEN x ELSE before[e]]
  BY DEF State
<1>4. TriesOf' = [e \in Events |-> IF State'[e] \in {"pending", "claimed"} THEN TriesOf[e] ELSE 0]
  <2>1. SUFFICES ASSUME NEW e \in Events
                 PROVE  Tries(e)' = IF event'[e].state \in {"pending", "claimed"} THEN Tries(e) ELSE 0
    BY DEF State, TriesOf
  <2>2. CASE e \in S /\ x = "claimed"
    <3>1. Tries(e)' = Largest(PreviousAttempts(ev, S)) /\ event'[e].state = "claimed"
      BY <2>2 DEF Tries
    <3>2. Largest(PreviousAttempts(ev, S)) = IF ev[e].run = NoRun THEN 0 ELSE run[ev[e].run].attempt
      BY <1>1, <2>2, BatchAttempts
    <3>3. ev[e].state = "pending" /\ (e \in arrived \/ ev[e] = event[e])
      BY <1>1, <2>2
    <3>4. CASE e \in arrived
      <4>1. Tries(e) = 0
        BY <3>4 DEF Tries
      <4> QED
        BY <3>1, <3>2, <3>4, <4>1
    <3>5. CASE e \notin arrived
      BY <3>1, <3>2, <3>3, <3>5 DEF Tries
    <3> QED
      BY <3>4, <3>5
  <2>3. CASE e \in S /\ x = "failed"
    BY <2>3 DEF Tries
  <2>4. CASE e \notin S /\ e \in arrived
    BY <2>4 DEF Tries
  <2>5. CASE e \notin S /\ e \notin arrived
    BY <2>5 DEF Tries
  <2> QED
    BY <2>2, <2>3, <2>4, <2>5
<1>5. \A d, e \in S : TriesOf[d] = TriesOf[e]
  <2>1. \A e \in S : TriesOf[e] = IF ev[e].run = NoRun THEN 0 ELSE run[ev[e].run].attempt
    <3> SUFFICES ASSUME NEW e \in S
                 PROVE  TriesOf[e] = IF ev[e].run = NoRun THEN 0 ELSE run[ev[e].run].attempt
      OBVIOUS
    <3>1. CASE e \in arrived
      BY <1>1, <3>1 DEF TriesOf, Tries
    <3>2. CASE e \notin arrived
      BY <1>1, <3>2 DEF TriesOf, Tries
    <3> QED
      BY <3>1, <3>2
  <2>2. \A e \in S : Largest(PreviousAttempts(ev, S)) = IF ev[e].run = NoRun THEN 0 ELSE run[ev[e].run].attempt
    BY <1>1, BatchAttempts
  <2> QED
    BY <2>1, <2>2
<1> HIDE DEF S
<1>6. \A st : st = before =>
        /\ S \in SUBSET Queue!In("pending", st)
        /\ State' = Queue!Move(st, S, x)
  BY <1>1, <1>3 DEF State, Queue!In, Queue!Move
<1>7. Queue!In("claimed", State) = {}
  BY <1>2 DEF State, Queue!In
<1>8. TriesOf' = Queue!Counted(TriesOf, State')
  BY <1>4 DEF Queue!Counted, Queue!Open, Queue!In, State
<1> HIDE DEF before
<1>9. Queue!Take(before)
  <2>1. S \in SUBSET Queue!In("pending", before) /\ State' = Queue!Move(before, S, x)
    BY <1>6
  <2>2. TriesOf' = Queue!Counted(TriesOf, Queue!Move(before, S, x))
    BY <1>8, <2>1
  <2>3. Queue!Become(Queue!Move(before, S, x))
    BY <2>1, <2>2 DEF Queue!Become, State, TriesOf
  <2>4. Queue!In("claimed", [e \in Events |-> event[e].state]) = {}
    BY <1>7 DEF State
  <2>5. \A d, e \in S : [o \in Events |-> Tries(o)][d] = [o \in Events |-> Tries(o)][e]
    BY <1>5 DEF TriesOf
  <2> QED
    BY <2>1, <2>3, <2>4, <2>5 DEF Queue!Take
<1>10. CASE arrived = {}
  <2>1. before = State
    BY <1>10 DEF State, before
  <2> QED
    BY <1>9, <2>1 DEF Queue!Next, State
<1>11. CASE arrived # {}
  <2>1. PICK e \in arrived : arrived = {e}
    BY <1>11
  <2>2. e \in Events /\ e \in Queue!In("absent", State)
    BY <2>1 DEF State, Queue!In
  <2>3. before = Queue!Move(State, {e}, "pending")
    BY <2>1 DEF State, Queue!Move, before
  <2> QED
    BY <1>9, <2>2, <2>3 DEF Queue!Next, State
<1> QED
  BY <1>10, <1>11

\* Settling the lease's run touches no other attempt: what is open and not
\* claimed belongs to no run, or to one settled before.
LEMMA OpenElsewhere ==
  ASSUME IInv, NEW r \in Runs, lease.run = r, ~run[r].settled
  PROVE  /\ \A e \in Events : event[e].state = "pending" => event[e].run # r
         /\ \A e \in Events : event[e].state = "claimed" => event[e].run = r /\ e \in run[r].inputs
         /\ \A e \in Events : event[e].run # NoRun => event[e].run \in Runs
BY RunsAreNat DEF IInv, EventInv, TypeOK, Event

LEMMA ProcessedEffect ==
  ASSUME TypeOK, NEW r \in Runs, NEW D
  PROVE  /\ Processed(r, D) \in [Events -> Event]
         /\ \A e \in Events : Processed(r, D)[e].run = event[e].run
         /\ \A e \in Events : e \in D /\ event[e].state = "claimed" /\ event[e].run = r
                              => Processed(r, D)[e].state = "processed"
         /\ \A e \in Events : ~(e \in D /\ event[e].state = "claimed" /\ event[e].run = r)
                              => Processed(r, D)[e] = event[e]
BY DEF Processed, TypeOK, Event, EventStates

\* What settles the batch with its rest failed.
LEMMA SettleFailing ==
  ASSUME NEW C, NEW D \in SUBSET C, C = Queue!In("claimed", State),
         State' = Queue!Move(Queue!Move(State, D, "processed"), C \ D, "failed"),
         TriesOf' = Queue!Counted(TriesOf, State')
  PROVE  Queue!Next
<1>1. D \in SUBSET Queue!In("claimed", State)
  OBVIOUS
<1>2. Queue!Become(Queue!Move(Queue!Move(State, D, "processed"), Queue!In("claimed", State) \ D, "failed"))
  BY DEF Queue!Become, State, TriesOf
<1>3. Queue!Settle
  BY <1>1, <1>2, Zenon DEF Queue!Settle, State
<1> QED
  BY <1>3 DEF Queue!Next

\* What settles the batch with its rest returned for another attempt.
LEMMA SettleReturning ==
  ASSUME NEW C, NEW D \in SUBSET C, C = Queue!In("claimed", State),
         State' = Queue!Move(Queue!Move(State, D, "processed"), C \ D, "pending"),
         \A e \in C \ D : TriesOf[e] + 1 < MaxAttempts,
         TriesOf' = [e \in Events |-> IF e \in C \ D THEN TriesOf[e] + 1
                                      ELSE Queue!Counted(TriesOf, State')[e]]
  PROVE  Queue!Next
<1> DEFINE Returning(B) ==
      LET left == Queue!In("claimed", State) \ B
      IN /\ \A e \in left : TriesOf[e] + 1 < MaxAttempts
         /\ State' = Queue!Move(Queue!Move(State, B, "processed"), left, "pending")
         /\ TriesOf' = [e \in Events |-> IF e \in left THEN TriesOf[e] + 1
                                         ELSE Queue!Counted(TriesOf, State')[e]]
<1>1. D \in SUBSET Queue!In("claimed", State)
  OBVIOUS
<1>2. Returning(D)
  OBVIOUS
<1>3. Queue!Settle
  BY <1>1, <1>2, Zenon DEF Queue!Settle, State, TriesOf
<1> QED
  BY <1>3 DEF Queue!Next

\* A finished run with nothing left: its whole batch is processed.
LEMMA CompletionRefines ==
  ASSUME IInv, TypeOK', NEW r \in Runs, lease.run = r, ~run[r].settled, NEW D,
         event' = Processed(r, D), \A e \in Events : ~(event'[e].state = "claimed" /\ event'[e].run = r),
         \A o \in Runs : run'[o].attempt = run[o].attempt
  PROVE  Queue!Next
<1> DEFINE C == {e \in Events : event[e].state = "claimed"}
<1>1. TypeOK
  BY DEF IInv
<1>2. \A e \in Events : IF e \in C THEN event'[e].state = "processed" ELSE event'[e] = event[e]
  BY <1>1, OpenElsewhere, ProcessedEffect
<1>3. State' = [e \in Events |-> IF e \in C THEN "processed" ELSE State[e]]
  BY <1>2 DEF State
<1>4. TriesOf' = [e \in Events |-> IF State'[e] \in {"pending", "claimed"} THEN TriesOf[e] ELSE 0]
  BY <1>2, OpenElsewhere DEF State, TriesOf, Tries
<1> HIDE DEF C
<1>5. C = Queue!In("claimed", State)
  BY DEF C, State, Queue!In
<1>6. State' = Queue!Move(Queue!Move(State, C, "processed"), C \ C, "failed")
  BY <1>3 DEF Queue!Move
<1>7. TriesOf' = Queue!Counted(TriesOf, State')
  BY <1>4 DEF Queue!Counted, Queue!Open, Queue!In, State
<1> QED
  BY <1>5, <1>6, <1>7, SettleFailing

\* A run that is recovered had a batch: what is not processed is returned or fails.
LEMMA ReturnRefines ==
  ASSUME IInv, TypeOK', NEW r \in Runs, lease.run = r, ~run[r].settled, NEW D, NEW x \in {"pending", "failed"},
         event' = Returned(Processed(r, D), r, x),
         x = "pending" => run[r].attempt + 1 < MaxAttempts,
         run'[r].attempt = run[r].attempt + 1, \A o \in Runs : o # r => run'[o] = run[o]
  PROVE  Queue!Next
<1> DEFINE C == {e \in Events : event[e].state = "claimed"}
           done == {e \in C : e \in D}
           left == C \ done
           ev == Processed(r, D)
<1>1. TypeOK /\ ev \in [Events -> Event]
  BY ProcessedEffect DEF IInv
<1>2. \A e \in Events : event'[e] = IF ev[e].state = "claimed" /\ ev[e].run = r THEN [ev[e] EXCEPT !.state = x] ELSE ev[e]
  BY DEF Returned
<1>3. \A e \in Events :
        /\ e \in done => event'[e].state = "processed"
        /\ e \in left => event'[e].state = x /\ event'[e].run = r
        /\ e \notin C => event'[e] = event[e]
  <2> SUFFICES ASSUME NEW e \in Events
               PROVE  /\ e \in done => event'[e].state = "processed"
                      /\ e \in left => event'[e].state = x /\ event'[e].run = r
                      /\ e \notin C => event'[e] = event[e]
    OBVIOUS
  <2>1. e \in C => event[e].run = r /\ event[e].state = "claimed"
    BY OpenElsewhere
  <2>2. CASE e \in done
    <3>1. ev[e].state = "processed"
      BY <1>1, <2>1, <2>2, ProcessedEffect
    <3> QED
      BY <1>2, <2>2, <3>1
  <2>3. CASE e \in left
    <3>1. ev[e] = event[e] /\ ev[e] \in Event
      BY <1>1, <2>1, <2>3, ProcessedEffect
    <3> QED
      BY <1>2, <2>1, <2>3, <3>1 DEF Event
  <2>4. CASE e \notin C
    <3>1. ev[e] = event[e]
      BY <1>1, <2>4, ProcessedEffect
    <3> QED
      BY <1>2, <2>4, <3>1
  <2> QED
    BY <2>2, <2>3, <2>4
<1> HIDE DEF ev
<1>4. State' = [e \in Events |-> IF e \in left THEN x ELSE IF e \in done THEN "processed" ELSE State[e]]
  BY <1>3 DEF State
<1>5. \A e \in C : TriesOf[e] = run[r].attempt
  BY OpenElsewhere, RunsAreNat DEF TriesOf, Tries
<1>6. \A e \in Events : e \notin left =>
        TriesOf'[e] = IF State'[e] \in {"pending", "claimed"} THEN TriesOf[e] ELSE 0
  <2> SUFFICES ASSUME NEW e \in Events, e \notin left
               PROVE  Tries(e)' = IF event'[e].state \in {"pending", "claimed"} THEN Tries(e) ELSE 0
    BY DEF State, TriesOf
  <2>1. CASE e \in done
    BY <1>3, <2>1 DEF Tries
  <2>2. CASE e \notin C
    <3>1. event'[e] = event[e] /\ (event[e].state = "pending" => event[e].run # r)
      BY <1>3, <2>2, OpenElsewhere
    <3>2. event[e].state # "claimed" /\ (event[e].run # NoRun => event[e].run \in Runs)
      BY <2>2, OpenElsewhere
    <3> QED
      BY <3>1, <3>2 DEF Tries
  <2> QED
    BY <2>1, <2>2
<1>7. \A e \in left : TriesOf'[e] = IF x = "pending" THEN TriesOf[e] + 1 ELSE 0
  <2> SUFFICES ASSUME NEW e \in left
               PROVE  TriesOf'[e] = IF x = "pending" THEN TriesOf[e] + 1 ELSE 0
    OBVIOUS
  <2>1. e \in Events /\ event'[e].state = x /\ event'[e].run = r /\ r # NoRun
    BY <1>3, RunsAreNat
  <2>2. TriesOf[e] = run[r].attempt
    BY <1>5
  <2> QED
    BY <2>1, <2>2 DEF TriesOf, Tries
<1> HIDE DEF left, done, C
<1>8. C = Queue!In("claimed", State) /\ done \in SUBSET C /\ left = C \ done /\ C \subseteq Events
  BY DEF C, State, Queue!In, done, left
<1>9. State' = Queue!Move(Queue!Move(State, done, "processed"), left, x)
  BY <1>4 DEF Queue!Move
<1>10. CASE x = "failed"
  <2>1. TriesOf' = [e \in Events |-> IF State'[e] \in {"pending", "claimed"} THEN TriesOf[e] ELSE 0]
    <3>1. \A e \in left : State'[e] = "failed"
      BY <1>4, <1>8, <1>10
    <3> QED
      BY <1>6, <1>7, <1>10, <3>1 DEF TriesOf
  <2>2. TriesOf' = Queue!Counted(TriesOf, State')
    BY <2>1 DEF Queue!Counted, Queue!Open, Queue!In, State
  <2> QED
    BY <1>8, <1>9, <1>10, <2>2, SettleFailing
<1>11. CASE x = "pending"
  <2>1. \A e \in left : TriesOf[e] + 1 < MaxAttempts
    BY <1>5, <1>8, <1>11
  <2>2. TriesOf' = [e \in Events |-> IF e \in left THEN TriesOf[e] + 1
                                     ELSE IF State'[e] \in {"pending", "claimed"} THEN TriesOf[e] ELSE 0]
    BY <1>6, <1>7, <1>11 DEF TriesOf
  <2>3. TriesOf' = [e \in Events |-> IF e \in left THEN TriesOf[e] + 1 ELSE Queue!Counted(TriesOf, State')[e]]
    BY <2>2 DEF Queue!Counted, Queue!Open, Queue!In, State
  <2> QED
    BY <1>8, <1>9, <1>11, <2>1, <2>3, SettleReturning
<1> QED
  BY <1>10, <1>11

\* Recovery of a run without inputs may give it one to wait with.
LEMMA RecoveryRefines ==
  ASSUME IInv, TypeOK', NEW r \in Runs, lease.run = r, ~run[r].settled, NEW D, NEW cause,
         event' = RecoverEvents(Processed(r, D), r, cause),
         run'[r].attempt = run[r].attempt + 1, \A o \in Runs : o # r => run'[o] = run[o]
  PROVE  Queue!Next \/ Unseen
<1> DEFINE ev == Processed(r, D)
<1>1. TypeOK /\ ev \in [Events -> Event] /\ event \in [Events -> Event] /\ r # NoRun
  BY ProcessedEffect, RunsAreNat DEF IInv, TypeOK
<1>2. CASE ~(run[r].inputs = {} /\ Retries(r, cause))
  <2> DEFINE x == IF Retries(r, cause) THEN "pending" ELSE "failed"
  <2>1. event' = Returned(Processed(r, D), r, x)
    BY <1>2 DEF RecoverEvents, WithInput
  <2>2. x = "pending" => run[r].attempt + 1 < MaxAttempts
    BY DEF Retries
  <2>3. x \in {"pending", "failed"}
    OBVIOUS
  <2> HIDE DEF x
  <2> QED
    BY <2>1, <2>2, <2>3, ReturnRefines
<1>3. CASE run[r].inputs = {} /\ Retries(r, cause)
  <2>1. \A e \in Events : event[e].state # "claimed"
    BY <1>3, OpenElsewhere
  <2>2. ev = event
    BY <1>1, <2>1, ProcessedEffect
  <2> HIDE DEF ev
  <2> DEFINE input == [source |-> "manual", state |-> "claimed", run |-> r]
             w == [e \in Events |-> IF e \in NextEvent(event) THEN input ELSE event[e]]
  <2>3. event' = Returned(w, r, "pending")
    BY <1>3, <2>2 DEF RecoverEvents, WithInput, ev
  <2>4. \A e \in Events : event'[e] = IF w[e].state = "claimed" /\ w[e].run = r THEN [w[e] EXCEPT !.state = "pending"] ELSE w[e]
    BY <2>3 DEF Returned
  <2>5. \A e \in Events : w[e] = IF e \in NextEvent(event) THEN input ELSE event[e]
    OBVIOUS
  <2>6. input.state = "claimed" /\ input.run = r /\ [input EXCEPT !.state = "pending"].state = "pending" /\ [input EXCEPT !.state = "pending"].run = r
    OBVIOUS
  <2> HIDE DEF input, w
  <2>7. \A e \in Events : IF e \in NextEvent(event) THEN event'[e].state = "pending" /\ event'[e].run = r
                                                     ELSE event'[e] = event[e]
    <3>1. ASSUME NEW e \in NextEvent(event) PROVE event'[e].state = "pending" /\ event'[e].run = r
      <4>1. e \in Events /\ w[e] = input
        BY <2>5, NextEventInEvents
      <4> QED
        BY <2>4, <2>6, <4>1
    <3>2. ASSUME NEW e \in Events, e \notin NextEvent(event) PROVE event'[e] = event[e]
      BY <2>1, <2>4, <2>5, <3>2
    <3> QED
      BY <3>1, <3>2
  <2>8. run[r].attempt = 0 /\ MaxAttempts > 1 /\ run'[r].attempt = 1
    BY <1>3 DEF IInv, EventInv, Retries
  <2>9. \A e \in Events : e \notin NextEvent(event) =>
          TriesOf'[e] = TriesOf[e] /\ State'[e] = State[e]
    <3>1. \A e \in Events : event[e].state \in {"pending", "claimed"} /\ event[e].run # NoRun
                             => run'[event[e].run] = run[event[e].run]
      BY <2>1, OpenElsewhere
    <3> QED
      BY <2>7, <3>1 DEF TriesOf, State, Tries
  <2>10. CASE NextEvent(event) = {}
    BY <2>9, <2>10 DEF Unseen, State, TriesOf
  <2>11. CASE NextEvent(event) # {}
    <3>1. PICK e \in Events : e \in NextEvent(event)
      BY <2>11, NextEventInEvents
    <3>2. \A d \in NextEvent(event) : d = e
      <4> SUFFICES ASSUME NEW d \in NextEvent(event), d # e
                   PROVE  FALSE
        OBVIOUS
      <4>1. d \in 1..MaxEvents /\ e \in 1..MaxEvents /\ event[d].state = "absent" /\ event[e].state = "absent"
        BY <3>1 DEF NextEvent, Events
      <4>2. (\A o \in 1..(e - 1) : event[o].state # "absent") /\ (\A o \in 1..(d - 1) : event[o].state # "absent")
        BY <3>1 DEF NextEvent
      <4>3. d < e \/ e < d
        BY <4>1
      <4> QED
        BY <4>1, <4>2, <4>3, PodAssumption
    <3>3. State[e] = "absent"
      BY <3>1 DEF NextEvent, State
    <3>4. State' = [d \in Events |-> IF d \in {e} THEN "pending" ELSE State[d]]
      BY <2>7, <2>9, <3>1, <3>2 DEF State
    <3>5. TriesOf' = [TriesOf EXCEPT ![e] = 1]
      <4>1. Tries(e)' = 1
        BY <1>1, <2>7, <2>8, <3>1 DEF Tries
      <4> QED
        BY <2>9, <3>1, <3>2, <4>1 DEF TriesOf
    <3>6. Queue!Wait(e)
      BY <2>8, <3>3, <3>4, <3>5 DEF Queue!Wait, Queue!Move, State, TriesOf
    <3> QED
      BY <3>6 DEF Queue!Next
  <2> QED
    BY <2>10, <2>11
<1> QED
  BY <1>2, <1>3

\* A tick, with what it accepted before it drained the queue.
LEMMA DrainRefines ==
  ASSUME IInv, TypeOK', NEW ev \in [Events -> Event], NEW arrived \in SUBSET Events,
         \A e \in arrived : event[e].state = "absent" /\ ev[e].state = "pending" /\ ev[e].run = NoRun,
         \A e \in Events \ arrived : ev[e] = event[e],
         \A d, e \in arrived : d = e,
         Drain(ev)
  PROVE  Queue!Next \/ Unseen
<1> DEFINE S == Batch(ev)
<1>1. TypeOK /\ event \in [Events -> Event] /\ S \subseteq Events
  BY DEF IInv, TypeOK, Batch, Pending
<1>2. CASE event' = ev /\ UNCHANGED <<run, lease, memory>>
  <2>1. CASE arrived = {}
    <3>1. UNCHANGED event
      BY <1>1, <1>2, <2>1
    <3> QED
      BY <1>1, <1>2, <3>1, UnseenByQueue
  <2>2. CASE arrived # {}
    <3>1. PICK e \in arrived : arrived = {e}
      BY <2>2
    <3>2. e \in Events /\ Queue!Arrive(e)
      BY <1>1, <1>2, <3>1, ArrivalRefines
    <3> QED
      BY <3>2 DEF Queue!Next
  <2> QED
    BY <2>1, <2>2
<1>3. CASE Drainable(ev) /\ Refuse(ev, S)
  <2>1. lease = NoLease /\ UNCHANGED run
    BY <1>3 DEF Drainable, Refuse
  <2>2. (\A e \in S : event'[e].state = "failed") /\ (\A e \in Events \ S : event'[e] = ev[e])
    BY <1>1, <1>3 DEF Refuse, Event
  <2> HIDE DEF S
  <2> QED
    BY <1>1, <2>1, <2>2, BatchRefines DEF S
<1>4. CASE Drainable(ev) /\ Start(ev, S)
  <2>1. PICK r \in NextRun : event' = Claim(ev, S, r) /\ run' = [run EXCEPT ![r] = NewRun(S, Largest(PreviousAttempts(ev, S)))]
    BY <1>4 DEF Start
  <2>2. lease = NoLease /\ r \in Runs /\ r # NoRun /\ run[r].state = "absent"
    BY <1>4, <2>1, RunsAreNat DEF Drainable, NextRun
  <2>3. (\A e \in S : event'[e].state = "claimed" /\ event'[e].run = r) /\ (\A e \in Events \ S : event'[e] = ev[e])
    BY <1>1, <2>1 DEF Claim, Event
  <2>4. run'[r].attempt = Largest(PreviousAttempts(ev, S)) /\ \A o \in Runs : o # r => run'[o] = run[o]
    BY <1>1, <2>1, <2>2 DEF NewRun, TypeOK
  <2>5. \A e \in Events : ev[e].run # NoRun => ev[e].run \in Runs /\ ev[e].run # r
    BY <2>2 DEF IInv, EventInv, Event
  <2>6. \A e \in Events \ S : ev[e].run # NoRun => run'[ev[e].run].attempt = run[ev[e].run].attempt
    BY <2>4, <2>5
  <2>7. \A e \in S : event'[e].run # NoRun /\ run'[event'[e].run].attempt = Largest(PreviousAttempts(ev, S))
    BY <2>2, <2>3, <2>4
  <2>8. (\A e \in S : event'[e].state = "claimed") /\ (\A e \in Events \ S : event'[e] = ev[e])
    BY <2>3
  <2> HIDE DEF S
  <2> QED
    BY <2>2, <2>6, <2>7, <2>8, BatchRefines DEF S
<1> QED
  BY <1>2, <1>3, <1>4 DEF Drain

\* A run started without events takes none.
LEMMA ControlledStartUnseen ==
  ASSUME IInv, TypeOK', StartControlledRun
  PROVE  Unseen
<1>1. PICK r \in NextRun : event' = Claim(event, {}, r) /\ run' = [run EXCEPT ![r] = NewRun({}, Largest(PreviousAttempts(event, {})))]
  BY DEF StartControlledRun, Start
<1>2. TypeOK /\ event \in [Events -> Event] /\ r \in Runs /\ run[r].state = "absent"
  BY <1>1 DEF IInv, TypeOK, NextRun
<1>3. UNCHANGED event
  BY <1>1, <1>2 DEF Claim
<1>4. \A o \in Runs : o # r => run'[o] = run[o]
  BY <1>1, <1>2 DEF TypeOK
<1>5. \A e \in Events : event[e].run # NoRun => event[e].run \in Runs /\ event[e].run # r
  BY <1>2 DEF IInv, EventInv, Event
<1> QED
  BY <1>2, <1>3, <1>4, <1>5, UnseenByQueue

\* A finished run settles its batch.
LEMMA FinishRefines ==
  ASSUME IInv, TypeOK', NEW r \in Runs, Finish(r)
  PROVE  Queue!Next \/ Unseen
<1> DEFINE cause == exec[r].out.cause
           D == exec[r].out.done
           ev == Processed(r, D)
           left == exec[r].out.state # "completed" \/ \E e \in Claimed(ev) : ev[e].run = r
<1>1. /\ HoldsLease(r)
      /\ event' = IF left THEN RecoverEvents(ev, r, cause) ELSE ev
      /\ run' = [run EXCEPT ![r] = [(IF left THEN RecoverRun(ev, r, cause) ELSE run[r]) EXCEPT !.state = "over"]]
  BY DEF Finish
<1>2. TypeOK /\ lease.run = r /\ ~run[r].settled
  BY <1>1, RunsAreNat DEF IInv, HoldsLease, LeaseInv
<1>3. \A o \in Runs : o # r => run'[o] = run[o]
  BY <1>1
<1>4. ev \in [Events -> Event]
  BY <1>2, ProcessedEffect
<1>5. CASE left
  <2>1. run' = [run EXCEPT ![r] = [RecoverRun(ev, r, cause) EXCEPT !.state = "over"]]
    BY <1>1, <1>5
  <2>2. event' = RecoverEvents(ev, r, cause)
    BY <1>1, <1>5
  <2> HIDE DEF left, cause, D, ev
  <2>3. RecoverRun(ev, r, cause) \in Run
    BY <1>2, <1>4, RecoverTypes
  <2>4. RecoverRun(ev, r, cause).attempt = run[r].attempt + 1
    <3>1. TypeOK
      BY <1>2
    <3> QED
      BY <3>1, RecoverRunEffect, Zenon
  <2>5. run'[r].attempt = run[r].attempt + 1
    BY <1>2, <2>1, <2>3, <2>4 DEF TypeOK, Run
  <2>6. event' = RecoverEvents(Processed(r, D), r, cause)
    BY <2>2 DEF ev
  <2> QED
    BY <1>2, <1>3, <2>5, <2>6, RecoveryRefines
<1>6. CASE ~left
  <2>1. event' = Processed(r, D) /\ run' = [run EXCEPT ![r] = [run[r] EXCEPT !.state = "over"]]
    BY <1>1, <1>6
  <2>2. \A e \in Events : ~(event'[e].state = "claimed" /\ event'[e].run = r)
    BY <1>6, <2>1 DEF Claimed
  <2> HIDE DEF left, cause, D, ev
  <2>3. \A o \in Runs : run'[o].attempt = run[o].attempt
    BY <1>2, <1>3, <2>1 DEF TypeOK, Run
  <2> QED
    BY <1>2, <2>1, <2>2, <2>3, CompletionRefines
<1> QED
  BY <1>5, <1>6

LEMMA RecoverSettleRefines ==
  ASSUME IInv, TypeOK', NEW c \in Checks, RecoverSettle(c)
  PROVE  Queue!Next \/ Unseen
<1> DEFINE r == check[c]
<1>1. TypeOK /\ r \in Runs /\ r # NoRun
  BY DEF RecoverSettle, IInv, TypeOK
<1>2. CASE ~StillOpen(r)
  <2>1. UNCHANGED event /\ UNCHANGED run
    BY <1>2 DEF RecoverSettle, tables
  <2> QED
    BY <1>1, <2>1, UnseenByQueue
<1>3. CASE StillOpen(r)
  <2>1. /\ event' = RecoverEvents(event, r, "shutdown")
        /\ run' = [run EXCEPT ![r] = RecoverRun(event, r, "shutdown")]
    BY <1>3 DEF RecoverSettle
  <2>2. lease.run = r /\ ~run[r].settled
    BY <1>1, <1>3 DEF IInv, CheckInv, StillOpen
  <2> HIDE DEF r
  <2>3. run'[r] = RecoverRun(event, r, "shutdown") /\ \A o \in Runs : o # r => run'[o] = run[o]
    BY <1>1, <2>1 DEF TypeOK
  <2>4. RecoverRun(event, r, "shutdown").attempt = run[r].attempt + 1
    BY <1>1, RecoverRunEffect, Zenon
  <2>5. Processed(r, {}) = event
    <3>1. event \in [Events -> Event]
      BY <1>1 DEF TypeOK
    <3> QED
      BY <1>1, <3>1, ProcessedEffect
  <2> QED
    BY <1>1, <2>1, <2>2, <2>3, <2>4, <2>5, RecoveryRefines
<1> QED
  BY <1>2, <1>3

\* Nothing else touches events, or what a run that has some counts as its attempt.
LEMMA OtherStepsUnseen ==
  ASSUME IInv, TypeOK', UNCHANGED event,
         \A r \in Runs : run'[r].attempt = run[r].attempt
  PROVE  Unseen
<1>1. TypeOK /\ \A e \in Events : event[e].run # NoRun => event[e].run \in Runs
  BY DEF IInv, TypeOK, Event
<1> QED
  BY <1>1, UnseenByQueue

LEMMA RunStepRefines ==
  ASSUME IInv, TypeOK', NEW r \in Runs, WaitOver(r) \/ GuardianDies(r) \/ ExecuteStep(r)
  PROVE  Queue!Next \/ Unseen
<1>1. CASE Finish(r)
  BY <1>1, FinishRefines
<1>2. CASE WaitOver(r) \/ PersistDispatch(r) \/ CleanupUnconfirmed(r) \/ Interrupt(r)
  <2>1. UNCHANGED event
    BY <1>2 DEF WaitOver, PersistDispatch, CleanupUnconfirmed, Interrupt
  <2>2. \/ run' = [run EXCEPT ![r].waiting = FALSE] \/ run' = [run EXCEPT ![r].proxy = TRUE]
        \/ run' = [run EXCEPT ![r].held = TRUE] \/ run' = [run EXCEPT ![r].state = "interrupted"]
    BY <1>2 DEF WaitOver, PersistDispatch, CleanupUnconfirmed, Interrupt
  <2>3. \A o \in Runs : run'[o].attempt = run[o].attempt
    <3>1. run \in [Runs -> Run]
      BY DEF IInv, TypeOK
    <3> QED
      BY <2>2, <3>1 DEF Run
  <2> QED
    BY <2>1, <2>3, OtherStepsUnseen
<1>3. CASE \/ GuardianDies(r) \/ RegisterDomain(r) \/ Spawn(r) \/ SealDomain(r) \/ SendInference(r)
           \/ EndScript(r) \/ CloseShell(r)
  <2>1. UNCHANGED <<event, run>>
    BY <1>3 DEF GuardianDies, RegisterDomain, Spawn, SealDomain, SendInference, EndScript, CloseShell, tables
  <2> QED
    BY <2>1, OtherStepsUnseen
<1> QED
  BY <1>1, <1>2, <1>3 DEF ExecuteStep

LEMMA QueueStep == IInv /\ TypeOK' /\ [Next]_vars => Queue!Next \/ Unseen
<1> SUFFICES ASSUME IInv, TypeOK', [Next]_vars PROVE Queue!Next \/ Unseen
  OBVIOUS
<1>1. TypeOK /\ event \in [Events -> Event]
  BY DEF IInv, TypeOK
<1>2. CASE AcceptEvent \/ RequestManual \/ \E e \in Events : Redeliver(e)
  <2>1. PICK e \in Events, source \in Sources : event[e].state \in {"absent", "failed"} /\ event' = Accept(e, source)
    BY <1>2, NextEventInEvents DEF AcceptEvent, RequestManual, Redeliver, Sources, NextEvent
  <2>2. event'[e].state = "pending" /\ event'[e].run = NoRun /\ \A d \in Events : d # e => event'[d] = event[d]
    BY <1>1, <2>1 DEF Accept
  <2>3. UNCHANGED run
    BY <1>2 DEF AcceptEvent, RequestManual, Redeliver
  <2>4. Queue!Arrive(e)
    BY <1>1, <2>1, <2>2, <2>3, ArrivalRefines
  <2> QED
    BY <2>4 DEF Queue!Next
<1>3. CASE Tick
  <2>1. Drain(event)
    BY <1>3 DEF Tick
  <2>2. \A e \in {} : event[e].state = "absent" /\ event[e].state = "pending" /\ event[e].run = NoRun
    OBVIOUS
  <2>3. {} \in SUBSET Events /\ (\A e \in Events \ {} : event[e] = event[e]) /\ \A d, e \in {} : d = e
    OBVIOUS
  <2> QED
    BY <1>1, <2>1, <2>2, <2>3, DrainRefines
<1>4. CASE TickDue
  <2>1. PICK e \in Events : event[e].state = "absent" /\ Drain(Accept(e, "schedule"))
    BY <1>4, NextEventInEvents DEF TickDue, NextEvent
  <2> DEFINE ev == Accept(e, "schedule")
  <2>2. ev \in [Events -> Event]
    BY <1>1, AcceptType DEF Sources
  <2>3. ev[e].state = "pending" /\ ev[e].run = NoRun /\ \A d \in Events : d # e => ev[d] = event[d]
    BY <1>1 DEF Accept
  <2>4. Drain(ev)
    BY <2>1
  <2> HIDE DEF ev
  <2>5. /\ {e} \in SUBSET Events /\ \A d \in Events \ {e} : ev[d] = event[d]
        /\ \A d \in {e} : event[d].state = "absent" /\ ev[d].state = "pending" /\ ev[d].run = NoRun
        /\ \A d, o \in {e} : d = o
    BY <2>1, <2>3
  <2> QED
    BY <2>2, <2>4, <2>5, DrainRefines
<1>5. CASE StartControlledRun
  BY <1>5, ControlledStartUnseen
<1>6. CASE \/ Cancel \/ ChangeResources \/ Stop \/ Validate \/ Owner \/ Processes \/ UNCHANGED vars
           \/ \E c \in Checks, r \in Runs : RecoverProve(c, r)
  <2>1. UNCHANGED <<event, run>>
    BY <1>6 DEF Cancel, ChangeResources, Stop, Validate, Owner, Processes, ProcessStep, RecoverProve, vars, tables
  <2> QED
    BY <2>1, OtherStepsUnseen
<1>7. ASSUME NEW r \in Runs, WaitOver(r) \/ GuardianDies(r) \/ ExecuteStep(r) PROVE Queue!Next \/ Unseen
  BY <1>7, RunStepRefines
<1>8. ASSUME NEW c \in Checks, RecoverSettle(c) PROVE Queue!Next \/ Unseen
  BY <1>8, RecoverSettleRefines
<1>9. CASE Crash \/ Exit \/ WorkerStart
  <2>1. UNCHANGED event
    BY <1>9 DEF Crash, Exit, WorkerStart
  <2>2. \A r \in Runs : \/ run'[r] = run[r] \/ run'[r] = [run[r] EXCEPT !.held = FALSE]
                        \/ run'[r] = [run[r] EXCEPT !.state = "interrupted"]
    BY <1>9 DEF Crash, Exit, WorkerStart
  <2>3. \A r \in Runs : run'[r].attempt = run[r].attempt
    BY <1>1, <2>2 DEF TypeOK, Run
  <2> QED
    BY <2>1, <2>3, OtherStepsUnseen
<1> QED
  BY <1>2, <1>3, <1>4, <1>5, <1>6, <1>7, <1>8, <1>9 DEF Next, Recover

\* Whatever order the scheduler, runs, recoveries, crashes and restarts take,
\* the accepted events of a pod keep the promise of EventQueue: no input is
\* lost, none is processed twice or tried more than MaxAttempts times.
THEOREM PodsKeepQueue == Spec => KeepsQueue
<1>1. Init => Queue!Init
  BY DEF Init, Queue!Init, Tries, NoEvent
<1>2. IInv /\ IInv' /\ [Next]_vars => [Queue!Next]_<<State, TriesOf>>
  BY QueueStep DEF IInv, Unseen
<1>3. IInv /\ IInv' /\ [Next]_vars
      => [Queue!Next]_<<[e \in Events |-> event[e].state], [e \in Events |-> Tries(e)]>>
  BY <1>2 DEF State, TriesOf
<1> QED
  BY <1>1, <1>3, Invariant, PTL DEF Spec, KeepsQueue, Queue!Spec

-----------------------------------------------------------------------------
(* What the promise gives                                                  *)

Bounded == \A e \in Events : TriesOf[e] \in 0..(MaxAttempts - 1)

\* The queue keeps what was processed, and an attempt it counts leaves one more.
LEMMA QueueKeeps ==
  ASSUME Queue!Next, Bounded
  PROVE  Bounded' /\ \A e \in Events : State[e] = "processed" => State'[e] = "processed"
<1>1. MaxAttempts \in Nat \ {0}
  BY PodAssumption
<1>2. ASSUME NEW e \in Events, Queue!Arrive(e)
      PROVE  Bounded' /\ \A d \in Events : State[d] = "processed" => State'[d] = "processed"
  <2>1. \A d \in Events : TriesOf'[d] = TriesOf[d] \/ TriesOf'[d] = 0
    BY <1>2 DEF TriesOf, Queue!Arrive, Queue!Become, Queue!Counted
  <2>2. Bounded'
    BY <1>1, <2>1 DEF Bounded
  <2>3. State[e] # "processed" /\ State' = Queue!Move(State, {e}, "pending")
    BY <1>2 DEF State, Queue!Arrive, Queue!Become
  <2> QED BY <2>2, <2>3 DEF Queue!Move
<1>3. ASSUME NEW e \in Events, Queue!Wait(e)
      PROVE  Bounded' /\ \A d \in Events : State[d] = "processed" => State'[d] = "processed"
  <2>1. TriesOf' = [TriesOf EXCEPT ![e] = 1] /\ MaxAttempts > 1
    BY <1>3 DEF Queue!Wait, TriesOf
  <2>2. \A d \in Events : TriesOf'[d] = TriesOf[d] \/ TriesOf'[d] = 1
    BY <2>1 DEF TriesOf
  <2>3. Bounded'
    BY <1>1, <2>1, <2>2 DEF Bounded
  <2> QED BY <1>3, <2>3 DEF State, Queue!Wait, Queue!Move
<1>4. ASSUME NEW arrived \in SUBSET Queue!In("absent", State),
             Queue!Take(Queue!Move(State, arrived, "pending"))
      PROVE  Bounded' /\ \A d \in Events : State[d] = "processed" => State'[d] = "processed"
  <2> DEFINE st == Queue!Move(State, arrived, "pending")
  <2>1. PICK S \in SUBSET Queue!In("pending", st), x \in {"claimed", "failed"} :
          Queue!Become(Queue!Move(st, S, x))
    BY <1>4 DEF Queue!Take
  <2>2. \A d \in Events : State[d] = "processed" => st[d] = "processed"
    BY DEF Queue!In, Queue!Move
  <2>3. \A d \in S : st[d] = "pending"
    BY DEF Queue!In
  <2> HIDE DEF st
  <2>4. State' = [d \in Events |-> IF d \in S THEN x ELSE st[d]]
    BY <2>1 DEF State, Queue!Become, Queue!Move
  <2>5. \A d \in Events : TriesOf'[d] = TriesOf[d] \/ TriesOf'[d] = 0
    BY <2>1 DEF TriesOf, Queue!Become, Queue!Counted
  <2> QED BY <1>1, <2>2, <2>3, <2>4, <2>5 DEF Bounded
<1>5. ASSUME Queue!Settle
      PROVE  Bounded' /\ \A d \in Events : State[d] = "processed" => State'[d] = "processed"
  <2>1. PICK D \in SUBSET Queue!In("claimed", State) :
          LET left == Queue!In("claimed", State) \ D
          IN \/ Queue!Become(Queue!Move(Queue!Move(State, D, "processed"), left, "failed"))
             \/ /\ \A e \in left : TriesOf[e] + 1 < MaxAttempts
                /\ State' = Queue!Move(Queue!Move(State, D, "processed"), left, "pending")
                /\ TriesOf' = [e \in Events |-> IF e \in left THEN TriesOf[e] + 1
                                                ELSE Queue!Counted(TriesOf, State')[e]]
    BY <1>5 DEF Queue!Settle, State, TriesOf
  <2> DEFINE left == Queue!In("claimed", State) \ D
  <2>2. PICK x \in {"pending", "failed"} : State' = Queue!Move(Queue!Move(State, D, "processed"), left, x)
    BY <2>1 DEF Queue!Become, State
  <2>3. \A d \in Events : State[d] = "processed" => State'[d] = "processed"
    <3>1. \A d \in left : State[d] = "claimed"
      BY DEF Queue!In
    <3> HIDE DEF left
    <3> QED BY <2>2, <3>1 DEF Queue!Move
  <2>4. \A d \in Events : \/ TriesOf'[d] = TriesOf[d] \/ TriesOf'[d] = 0
                          \/ TriesOf'[d] = TriesOf[d] + 1 /\ TriesOf[d] + 1 < MaxAttempts
    <3> HIDE DEF left
    <3> QED BY <2>1 DEF Queue!Become, Queue!Counted, TriesOf, left
  <2>5. Bounded'
    BY <1>1, <2>4 DEF Bounded
  <2> QED BY <2>3, <2>5
<1>6. Queue!Move(State, {}, "pending") = State
  BY DEF Queue!Move, State
<1>7. CASE \E e \in Events : Queue!Arrive(e) \/ Queue!Wait(e)
  BY <1>2, <1>3, <1>7
<1>8. CASE Queue!Take(State)
  <2>1. {} \in SUBSET Queue!In("absent", State)
    OBVIOUS
  <2> QED BY <1>4, <1>6, <1>8, <2>1
<1>9. CASE \E e \in Queue!In("absent", State) : Queue!Take(Queue!Move(State, {e}, "pending"))
  <2>1. PICK e \in Queue!In("absent", State) : Queue!Take(Queue!Move(State, {e}, "pending"))
    BY <1>9
  <2>2. {e} \in SUBSET Queue!In("absent", State)
    BY <2>1
  <2> QED BY <1>4, <2>1, <2>2
<1> QED BY <1>5, <1>7, <1>8, <1>9 DEF Queue!Next, State, TriesOf

\* What a step the queue does not see, or one it sees, keeps.
LEMMA StepKeeps ==
  ASSUME IInv, TypeOK', [Next]_vars, Bounded
  PROVE  Bounded' /\ \A e \in Events : event[e].state = "processed" => event'[e].state = "processed"
<1>1. \A e \in Events : State[e] = event[e].state /\ State'[e] = event'[e].state
  BY DEF State
<1>2. CASE Queue!Next
  BY <1>1, <1>2, QueueKeeps
<1>3. CASE Unseen
  BY <1>1, <1>3 DEF Unseen, Bounded
<1> QED BY <1>2, <1>3, QueueStep

\* Whichever of a run's end, an automatic recovery and a restart returns the batch a run
\* left (RunStore.recover, recoveryDecision), no waiting or claimed input ever has
\* MaxAttempts attempts behind it.
THEOREM AttemptsAreBounded == Spec => [](\A e \in Events : Tries(e) < MaxAttempts)
<1>1. Init => Bounded
  BY PodAssumption DEF Init, Bounded, TriesOf, Tries, NoEvent
<1>2. IInv /\ IInv' /\ [Next]_vars /\ Bounded => Bounded'
  BY StepKeeps DEF IInv
<1>3. Bounded => \A e \in Events : Tries(e) < MaxAttempts
  BY PodAssumption DEF Bounded, TriesOf
<1> QED BY <1>1, <1>2, <1>3, Invariant, PTL DEF Spec

\* An input a run has processed is never claimed, returned or refused again, neither by
\* the run's own end nor by a recovery of that run (RunStore.finish, RunStore.recover).
THEOREM ProcessedIsFinal ==
  Spec => [][\A e \in Events : event[e].state = "processed" => event'[e].state = "processed"]_vars
<1>1. Init => Bounded
  BY PodAssumption DEF Init, Bounded, TriesOf, Tries, NoEvent
<1>2. IInv /\ IInv' /\ [Next]_vars /\ Bounded => Bounded'
  BY StepKeeps DEF IInv
<1>3. IInv /\ IInv' /\ [Next]_vars /\ Bounded
      => [\A e \in Events : event[e].state = "processed" => event'[e].state = "processed"]_vars
  BY StepKeeps DEF IInv
<1> QED BY <1>1, <1>2, <1>3, Invariant, PTL DEF Spec

=============================================================================
