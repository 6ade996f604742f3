---------------------------- MODULE CentralProofs ----------------------------
(***************************************************************************)
(* Proofs about CentralWorkspace: its types, what it promises of a command *)
(* (the refinement of OperationPromise), that an outcome is never told     *)
(* before the snapshot shows its changes, and that nothing new starts      *)
(* while what ran has no outcome.                                          *)
(***************************************************************************)
EXTENDS CentralWorkspace, FiniteSetTheorems, TLAPS

-----------------------------------------------------------------------------
(* The inductive invariant                                                 *)

\* The steps of connect() and of the loop between two operations, and those of an
\* operation; synchronize() and publish() belong to whoever asked for them.
Between   == {"gate", "begin", "settle", "finish", "greet", "loop", "claim", "beat"}
Executing == {"claimed", "execute", "journal", "clear", "cleared"}
Copying   == {"synchronize", "publish", "receipt", "erase"}

\* The operation loop() has claimed has not run yet.
ToRun(o) == run.op = o /\ pc \in {"claimed", "execute"}

\* No other step of loop() is needed for this operation's outcome: it is in hand, or
\* the session that had it in hand is over.
Owned(o) == run.op = o \/ (pc \in {"gate", "begin", "drain", "drained"} /\ ~renew)

\* A recorded outcome can be told to the service: as long as its operation is open,
\* it tells whether the operation ran, and no step will run it any more.
Truthful(c) ==
  c # NoCompletion =>
    /\ ops[c.op] \notin {"absent", "accepted"}
    /\ ops[c.op] \in Open => /\ ~ToRun(c.op)
                             /\ c.out = "unrun" <=> executed[c.op] = 0

\* The publications that can still reach the service.
Sendable == {publication} \cup Published

\* Loop and journals agree on which operation is in hand.
StepInv ==
  /\ pc \in Between => run.op = NoOp
  /\ pc \in Executing => run.op \in Ops
  /\ pc \in Copying => (run.op \in Ops <=> run.next = "clear")
  /\ run.next = "clear" => ~run.again
  /\ pc \in Executing \cup {"loop", "claim"} => ~run.again
  /\ pc \in Copying /\ run.next = "clear" => run.done.op = run.op
  /\ pc = "publish" /\ run.next = "clear" => publication.done.op = run.op
  /\ pc \in {"receipt", "erase"} /\ run.next = "clear" => ops[run.op] \in Outcomes
  /\ pc \in {"clear", "cleared"} => ops[run.op] \in Outcomes
  /\ pc \in {"execute", "journal", "clear", "cleared"} => executing = run.op
  /\ pc \in Copying /\ run.next = "clear" => executing = run.op
  /\ pc \in {"settle", "finish"} => run.next = "finish"
  /\ pc \in Copying /\ run.next # "clear" => ~renew
  /\ pc = "execute" => ~gate
  /\ pc \in {"gate", "begin", "settle", "finish", "greet", "drained"} => ~renew
  /\ pc \notin {"loop", "claim", "drain"} => ~bg.fresh
  /\ Critical => pc \in {"loop", "claim", "drain", "drained"}

\* One operation is open at a time; its receipt agrees with how often it ran.
LedgerInv ==
  /\ \A o, p \in In(Open) : o = p
  /\ \A o \in Ops : executed[o] \in {0, 1}
  /\ \A o \in Ops : ops[o] \in {"absent", "accepted", "unrun"} => executed[o] = 0
  /\ \A o \in Ops : ops[o] \in {"applied", "failed"} => executed[o] = 1

\* What the service knows of an operation agrees with what the desktop does with it.
OpsInv ==
  /\ \A o \in Ops : ToRun(o) => /\ ops[o] \in {"started", "unknown"} /\ executed[o] = 0
                                /\ o \notin uncertain
  /\ pc = "journal" => /\ ops[run.op] \notin {"absent", "accepted"}
                       /\ run.out = "unrun" <=> executed[run.op] = 0
  /\ \A o \in uncertain \cup run.pending : ops[o] \notin {"absent", "accepted", "started"}
  /\ \A o \in Ops : executed[o] = 1 /\ ops[o] \in Open => executing = o
  /\ \A o \in Ops : executed[o] = 1 /\ ops[o] = "started" => Owned(o)

\* Every recorded outcome is truthful; a committed publication's has been told.
JournalInv ==
  /\ \A c \in {completion, run.done, run.read} : Truthful(c)
  /\ \A p \in Sendable : Truthful(p.done)
  /\ \A p \in Sendable : p.id \in commits /\ p.done # NoCompletion => ops[p.done.op] \in Outcomes
  /\ \A p, q \in Sendable : p.id = q.id => p.done = q.done
  /\ \A p \in Sendable : p.id = 0 => p.done = NoCompletion

\* No copy of the snapshot is ahead of the desktop's data, and a publication with an
\* outcome contains its operation's changes.
CopyInv ==
  /\ svc.hash <= content /\ state <= content /\ bg.hash <= content
  /\ bg.pc = "save" /\ bg.fresh => state <= bg.hash
  /\ \A o \in Ops : effect[o] <= content
  /\ \A p \in Sendable : /\ p.base <= p.hash /\ p.hash <= content
                         /\ p.done # NoCompletion => effect[p.done.op] <= p.hash

Finite == IsFiniteSet(commits) /\ IsFiniteSet(stray)

IInv ==
  /\ TypeOK /\ Finite /\ StepInv /\ LedgerInv /\ OpsInv /\ JournalInv /\ CopyInv
  /\ AppliedIsVisible /\ ReconciledFirst

-----------------------------------------------------------------------------
(* Types                                                                   *)

\* An id for a publication is always left, and no publication has it.
LEMMA NewIdIsFresh ==
  ASSUME TypeOK, Finite
  PROVE  NewId \in Nat \ UsedIds
<1> DEFINE U == UsedIds
           n == Cardinality(U)
<1>1. IsFiniteSet(U)
  <2>1. IsFiniteSet({q \in stray : q.type = "publish"})
    BY FS_Subset DEF Finite
  <2>2. IsFiniteSet({p.id : p \in Published})
    <3> DEFINE S == {q \in stray : q.type = "publish"}
               T == {p.id : p \in Published}
               f == [q \in S |-> q.publication.id]
    <3>1. f \in Surjection(S, T)
      BY DEF Surjection, Published
    <3> QED BY <2>1, <3>1, FS_Surjection
  <2>3. IsFiniteSet({publication.id, 0})
    <3>1. {publication.id, 0} = {publication.id} \cup {0}
      OBVIOUS
    <3>2. IsFiniteSet({publication.id})
      BY FS_Singleton
    <3> QED BY <3>1, <3>2, FS_AddElement
  <2> QED BY <2>2, <2>3, FS_Union DEF Finite, UsedIds
<1>2. n \in Nat
  BY <1>1, FS_CardinalityType
<1>3. \E i \in 1..(n + 1) : i \notin U
  <2> SUFFICES ASSUME 1..(n + 1) \subseteq U PROVE FALSE
    OBVIOUS
  <2>1. Cardinality(1..(n + 1)) = n + 1
    BY <1>2, FS_Interval
  <2>2. Cardinality(1..(n + 1)) <= n
    BY <1>1, FS_Subset
  <2> QED BY <1>2, <2>1, <2>2
<1>4. NewId \in 1..(n + 1) /\ NewId \notin U
  BY <1>3 DEF NewId
<1> QED BY <1>2, <1>4

\* Members of the sets of records, and what their updates are.
LEMMA Members ==
  /\ 0 \in Contents /\ 1 \in Contents
  /\ NoCompletion \in Completions /\ NoPublication \in Publications
  /\ NoRun \in Runs /\ Idle \in Backgrounds
  /\ \A o \in Ops, out \in Outcomes : [op |-> o, out |-> out] \in Completions
<1>1. 0 \in Contents /\ 1 \in Contents
  BY CentralAssumption DEF Contents
<1>2. NoCompletion \in Completions
  BY DEF Completions
<1>3. NoPublication \in Publications
  BY <1>1, <1>2 DEF NoPublication, Publications
<1>4. NoRun \in Runs
  BY <1>2 DEF NoRun, Runs, Outcomes
<1>5. Idle \in Backgrounds
  BY <1>1 DEF Idle, Backgrounds
<1>6. \A o \in Ops, out \in Outcomes : [op |-> o, out |-> out] \in Completions
  BY DEF Completions
<1> QED BY <1>1, <1>2, <1>3, <1>4, <1>5, <1>6

LEMMA Fields ==
  /\ \A c \in Completions : c.op \in Ops \cup {NoOp} /\ c.out \in Outcomes
                            /\ (c # NoCompletion => c.op \in Ops)
                            /\ (c.op \in Ops => c # NoCompletion)
  /\ \A p \in Publications : p.id \in Nat /\ p.base \in Contents /\ p.hash \in Contents
                             /\ p.done \in Completions
  /\ \A r \in Runs : r.op \in Ops \cup {NoOp} /\ r.out \in Outcomes /\ r.read \in Completions
                     /\ r.known \in Ops \cup {NoOp} /\ r.pending \subseteq Ops
                     /\ r.done \in Completions /\ r.next \in {"greet", "finish", "clear"}
  /\ \A b \in Backgrounds : b.hash \in Contents
  /\ \A s \in Rows : s.hash \in Contents /\ s.prev \in Contents
  /\ \A q \in Requests : q.type = "publish" => q.publication \in Publications
<1>1. \A c \in Completions : c.op \in Ops \cup {NoOp} /\ c.out \in Outcomes
                             /\ (c # NoCompletion => c.op \in Ops)
                             /\ (c.op \in Ops => c # NoCompletion)
  BY CentralAssumption DEF Completions, NoCompletion, Outcomes
<1>2. \A p \in Publications : p.id \in Nat /\ p.base \in Contents /\ p.hash \in Contents
                              /\ p.done \in Completions
  BY DEF Publications
<1>3. \A r \in Runs : r.op \in Ops \cup {NoOp} /\ r.out \in Outcomes /\ r.read \in Completions
                      /\ r.known \in Ops \cup {NoOp} /\ r.pending \subseteq Ops
                      /\ r.done \in Completions /\ r.next \in {"greet", "finish", "clear"}
  BY DEF Runs
<1>4. \A b \in Backgrounds : b.hash \in Contents
  BY DEF Backgrounds
<1>5. \A s \in Rows : s.hash \in Contents /\ s.prev \in Contents
  BY DEF Rows
<1>6. \A q \in Requests : q.type = "publish" => q.publication \in Publications
  BY DEF Requests
<1> QED BY <1>1, <1>2, <1>3, <1>4, <1>5, <1>6

LEMMA RunUpdates ==
  /\ \A r \in Runs : [r EXCEPT !.again = FALSE, !.recent = TRUE] \in Runs
  /\ \A r \in Runs, o \in Ops : [r EXCEPT !.op = o] \in Runs
  /\ \A r \in Runs, out \in Outcomes : [r EXCEPT !.out = out] \in Runs
  /\ \A r \in Runs, c \in Completions :
       /\ [r EXCEPT !.done = c] \in Runs
       /\ [r EXCEPT !.done = c, !.next = "greet"] \in Runs
       /\ [r EXCEPT !.done = c, !.next = "clear"] \in Runs
       /\ [r EXCEPT !.again = FALSE, !.done = c] \in Runs
  BY DEF Runs

LEMMA BackgroundUpdates ==
  \A b \in Backgrounds, h \in Contents :
    /\ [b EXCEPT !.error = FALSE] \in Backgrounds
    /\ [b EXCEPT !.fresh = FALSE] \in Backgrounds
    /\ [b EXCEPT !.pc = "snapshot", !.fresh = TRUE] \in Backgrounds
    /\ [b EXCEPT !.pc = "save", !.hash = h] \in Backgrounds
    /\ [b EXCEPT !.pc = "publish"] \in Backgrounds
    /\ [b EXCEPT !.pc = "receipt"] \in Backgrounds
    /\ [b EXCEPT !.pc = "erase"] \in Backgrounds
  BY DEF Backgrounds

LEMMA RowUpdates ==
  \A s \in Rows, h \in Contents :
    /\ [s EXCEPT !.online = TRUE] \in Rows
    /\ [s EXCEPT !.online = FALSE] \in Rows
    /\ [s EXCEPT !.prev = s.hash, !.hash = h] \in Rows
  BY DEF Rows

LEMMA PublicationRecord ==
  \A i \in Nat, b, h \in Contents, c \in Completions :
    [id |-> i, base |-> b, hash |-> h, done |-> c] \in Publications
  BY DEF Publications

LEMMA Sent ==
  /\ BeginRequest \in Requests /\ ClaimRequest \in Requests
  /\ state \in Contents => HeartbeatRequest \in Requests
  /\ \A p \in Publications : PublishRequest(p) \in Requests
<1>1. BeginRequest \in Requests /\ ClaimRequest \in Requests
  BY DEF Requests, BeginRequest, ClaimRequest
<1>2. state \in Contents => HeartbeatRequest \in Requests
  BY DEF Requests, HeartbeatRequest
<1>3. \A p \in Publications : PublishRequest(p) \in Requests
  BY DEF Requests, PublishRequest
<1> QED BY <1>1, <1>2, <1>3

LEMMA Ended ==
  ASSUME bg \in Backgrounds
  PROVE  /\ BackgroundDone(TRUE) \in Backgrounds
         /\ BackgroundDone(FALSE) \in Backgrounds
         /\ BackgroundDone(bg.fresh) \in Backgrounds
<1>1. bg.fresh \in BOOLEAN /\ bg.error \in BOOLEAN
  BY DEF Backgrounds
<1>2. \A e \in BOOLEAN : [Idle EXCEPT !.error = e] \in Backgrounds
  BY Members DEF Backgrounds
<1> QED BY <1>1, <1>2 DEF BackgroundDone

\* Types of what the parts of an action assign.
ServiceTypes ==
  ops \in [Ops -> OpStates] /\ svc \in Rows /\ held \in BOOLEAN /\ commits \subseteq Nat

LEMMA ServiceSteps ==
  ASSUME TypeOK
  PROVE  /\ UNCHANGED service => ServiceTypes'
         /\ \A mine \in BOOLEAN : ServeBegin(mine) => ServiceTypes' /\ stray' \subseteq Requests
         /\ ServeBeat => ServiceTypes'
         /\ \A o \in Ops, to \in OpStates : ServeClaim(o, to) => ServiceTypes'
         /\ \A p \in Publications : ServePublish(p) => ServiceTypes'
<1>1. UNCHANGED service => ServiceTypes'
  BY DEF TypeOK, ServiceTypes, service
<1>2. ASSUME NEW mine \in BOOLEAN, ServeBegin(mine)
      PROVE  ServiceTypes' /\ stray' \subseteq Requests
  <2>1. Disconnected \in [Ops -> OpStates]
    BY DEF TypeOK, Disconnected, OpStates, Open, Outcomes
  <2> QED BY <1>2, <2>1, RowUpdates, Fields DEF TypeOK, ServiceTypes, ServeBegin
<1>3. ServeBeat => ServiceTypes'
  BY RowUpdates, Fields DEF TypeOK, ServiceTypes, ServeBeat
<1>4. \A o \in Ops, to \in OpStates : ServeClaim(o, to) => ServiceTypes'
  BY DEF TypeOK, ServiceTypes, ServeClaim
<1>5. ASSUME NEW p \in Publications, ServePublish(p)
      PROVE  ServiceTypes'
  <2>1. CASE Prior(p)
    BY <1>1, <1>5, <2>1 DEF ServePublish
  <2>2. CASE ~Prior(p)
    <3>1. /\ svc' = IF p.hash = svc.hash THEN svc ELSE [svc EXCEPT !.prev = svc.hash, !.hash = p.hash]
          /\ ops' = [o \in Ops |-> IF o = p.done.op THEN p.done.out ELSE ops[o]]
          /\ commits' = commits \cup {p.id} /\ held' = held
      BY <1>5, <2>2 DEF ServePublish
    <3>2. ops' \in [Ops -> OpStates]
      BY <3>1, Fields DEF TypeOK, OpStates
    <3>3. svc' \in Rows
      BY <3>1, Fields, RowUpdates DEF TypeOK
    <3>4. held' \in BOOLEAN /\ commits' \subseteq Nat
      BY <3>1, Fields DEF TypeOK
    <3> QED BY <3>2, <3>3, <3>4 DEF ServiceTypes
  <2> QED BY <2>1, <2>2
<1> QED BY <1>1, <1>2, <1>3, <1>4, <1>5

LEMMA FailureSteps ==
  ASSUME TypeOK
  PROVE  /\ Throw => pc' \in Steps /\ online' \in BOOLEAN /\ gate' \in BOOLEAN
         /\ Fault => faults' \in 0..MaxFaults
         /\ \A r \in Requests : GivenUp(r) => /\ ServiceTypes' /\ stray' \subseteq Requests
                                              /\ faults' \in 0..MaxFaults
<1>1. Throw => pc' \in Steps /\ online' \in BOOLEAN /\ gate' \in BOOLEAN
  BY DEF Throw, Steps
<1>2. Fault => faults' \in 0..MaxFaults
  BY CentralAssumption DEF Fault, TypeOK
<1>3. \A r \in Requests : GivenUp(r) => ServiceTypes' /\ stray' \subseteq Requests
  BY ServiceSteps DEF GivenUp, TypeOK
<1> QED BY <1>1, <1>2, <1>3 DEF GivenUp


\* Every step leaves every variable in its type.
LEMMA TypeStep ==
  ASSUME TypeOK, Finite, StepInv, [Next]_vars
  PROVE  TypeOK'
<1>1. CASE CloseGate
  BY <1>1
     DEF CloseGate, TypeOK, journals, history, Steps, service
<1>2. CASE Begin
  <2>1. ServiceTypes' /\ stray' \subseteq Requests /\ faults' \in 0..MaxFaults
    BY <1>2, Sent, ServiceSteps, FailureSteps DEF Begin, TypeOK
  <2>2. run' \in Runs /\ state' \in Contents
    <3>1. [NoRun EXCEPT !.read = completion,
                        !.known = IF publication.done # NoCompletion
                                  THEN publication.done.op ELSE completion.op,
                        !.pending = {o \in Ops : Disconnected[o] = "unknown"},
                        !.again = publication # NoPublication,
                        !.next = "finish"] \in Runs
      <4> DEFINE k == IF publication.done # NoCompletion
                      THEN publication.done.op ELSE completion.op
                 P == {o \in Ops : Disconnected[o] = "unknown"}
                 again == publication # NoPublication
      <4>1. k \in Ops \cup {NoOp} /\ P \subseteq Ops /\ again \in BOOLEAN
        BY Fields DEF TypeOK
      <4>2. completion \in Completions /\ NoRun \in Runs
        BY Members DEF TypeOK
      <4> HIDE DEF k, P, again
      <4>3. [NoRun EXCEPT !.read = completion, !.known = k, !.pending = P,
                          !.again = again, !.next = "finish"] \in Runs
        BY <4>1, <4>2 DEF Runs
      <4> QED BY <4>3 DEF k, P, again
    <3> QED BY <1>2, <3>1, Fields DEF Begin, Connected, TypeOK
  <2>3. pc' \in Steps /\ online' \in BOOLEAN /\ gate' \in BOOLEAN
    BY <1>2, FailureSteps DEF Begin, Connected, TypeOK, Steps
  <2> QED BY <1>2, <2>1, <2>2, <2>3 DEF Begin, TypeOK, ServiceTypes, journals, history
<1>3. CASE ReadOutcome
  <2>1. run' \in Runs
    <3>1. run' = run \/ run' = [run EXCEPT !.done = run.read]
      BY <1>3 DEF ReadOutcome
    <3>2. run \in Runs /\ run.read \in Completions
      BY Fields DEF TypeOK
    <3> QED BY <3>1, <3>2, RunUpdates
  <2>2. pc' \in Steps /\ online' \in BOOLEAN /\ gate' \in BOOLEAN
    BY <1>3, FailureSteps DEF ReadOutcome, TypeOK, Steps
  <2> QED BY <1>3, <2>1, <2>2 DEF ReadOutcome, TypeOK, service, journals, history
<1>4. CASE Finish
  <2>1. run \in Runs /\ run.pending \subseteq Ops
    BY Fields DEF TypeOK
  <2>2. completion' \in Completions
    <3>1. "unrun" \in Outcomes
      BY DEF Outcomes
    <3> QED BY <1>4, <2>1, <3>1, Members DEF Finish, TypeOK
  <2>3. uncertain' \subseteq Ops
    BY <1>4, <2>1 DEF Finish
  <2>4. run' \in Runs
    <3>1. run' = run \/ run' = [run EXCEPT !.done = NoCompletion, !.next = "greet"]
      BY <1>4 DEF Finish
    <3>2. [run EXCEPT !.done = NoCompletion, !.next = "greet"] \in Runs
      BY <2>1, Members, RunUpdates
    <3> QED BY <2>1, <3>1, <3>2
  <2>5. pc' \in Steps /\ online' \in BOOLEAN /\ gate' \in BOOLEAN
    BY <1>4, FailureSteps DEF Finish, TypeOK, Steps
  <2> QED BY <1>4, <2>2, <2>3, <2>4, <2>5 DEF Finish, TypeOK, service, history
<1>5. CASE Heartbeat
  BY <1>5, Members, Sent, ServiceSteps, FailureSteps
     DEF Heartbeat, TypeOK, journals, history, Steps, ServiceTypes
<1>6. CASE Synchronize
  <2>1. publication' \in Publications
    <3>1. publication' = publication \/ publication' = NewPublication(content, run.done)
      BY <1>6 DEF Synchronize
    <3>2. NewPublication(content, run.done) \in Publications
      BY NewIdIsFresh, Fields, PublicationRecord DEF NewPublication, TypeOK
    <3> QED BY <3>1, <3>2 DEF TypeOK
  <2>2. pc' \in Steps /\ online' \in BOOLEAN /\ gate' \in BOOLEAN
    <3>1. run.next \in Steps
      BY Fields DEF TypeOK, Steps
    <3> QED BY <1>6, <3>1, FailureSteps DEF Synchronize, TypeOK, Steps
  <2> QED BY <1>6, <2>1, <2>2 DEF Synchronize, TypeOK, service, history
<1>7. CASE Publish
  <2>1. ServiceTypes' /\ stray' \subseteq Requests /\ faults' \in 0..MaxFaults
    BY <1>7, Sent, ServiceSteps, FailureSteps DEF Publish, TypeOK
  <2>2. publication' \in Publications /\ state' \in Contents
    BY <1>7, Members, Fields DEF Publish, TypeOK
  <2>3. run' \in Runs
    <3>1. run' = run \/ run' = [run EXCEPT !.again = FALSE, !.done = publication.done]
      BY <1>7 DEF Publish
    <3>2. run \in Runs /\ publication.done \in Completions
      BY Fields DEF TypeOK
    <3> QED BY <3>1, <3>2, RunUpdates
  <2>4. pc' \in Steps /\ online' \in BOOLEAN /\ gate' \in BOOLEAN
    BY <1>7, FailureSteps DEF Publish, TypeOK, Steps
  <2> QED BY <1>7, <2>1, <2>2, <2>3, <2>4 DEF Publish, TypeOK, ServiceTypes, history
<1>8. CASE SaveReceipt
  BY <1>8
     DEF SaveReceipt, TypeOK, journals, history, Steps, service
<1>9. CASE ErasePublication
  <2>1. run' \in Runs /\ publication' \in Publications
    BY <1>9, Members, RunUpdates DEF ErasePublication, TypeOK
  <2>2. pc' \in Steps
    BY <1>9, Fields DEF ErasePublication, TypeOK, Steps
  <2> QED BY <1>9, <2>1, <2>2 DEF ErasePublication, TypeOK, service, history
<1>10. CASE Loop
  BY <1>10, RunUpdates, BackgroundUpdates, FailureSteps
     DEF Loop, TypeOK, journals, history, Steps, service
<1>11. CASE Claim
  <2>1. ServiceTypes' /\ stray' \subseteq Requests /\ faults' \in 0..MaxFaults
    <3>1. "started" \in OpStates /\ "unrun" \in OpStates
      BY DEF OpStates, Open, Outcomes
    <3> QED BY <1>11, <3>1, Sent, ServiceSteps, FailureSteps DEF Claim, TypeOK, Claimable, In
  <2>2. run' \in Runs
    <3>1. run' = run \/ \E o \in Ops : run' = [run EXCEPT !.op = o]
      BY <1>11 DEF Claim, NothingClaimed, Claimable, In
    <3>2. run \in Runs
      BY DEF TypeOK
    <3>3. \A o \in Ops : [run EXCEPT !.op = o] \in Runs
      BY <3>2, RunUpdates
    <3> QED BY <3>1, <3>2, <3>3
  <2>3. bg' \in Backgrounds
    BY <1>11, BackgroundUpdates DEF Claim, NothingClaimed, TypeOK
  <2>4. pc' \in Steps /\ online' \in BOOLEAN /\ gate' \in BOOLEAN
    BY <1>11, FailureSteps DEF Claim, NothingClaimed, TypeOK, Steps
  <2> QED BY <1>11, <2>1, <2>2, <2>3, <2>4 DEF Claim, TypeOK, ServiceTypes, journals, history
<1>12. CASE SaveExecuting
  BY <1>12, Fields
     DEF SaveExecuting, TypeOK, journals, history, Steps, service
<1>13. CASE Execute
  <2>1. run' \in Runs
    <3>1. \E out \in Outcomes : run' = [run EXCEPT !.out = out]
      BY <1>13 DEF Execute, Outcomes
    <3>2. run \in Runs
      BY DEF TypeOK
    <3>3. \A out \in Outcomes : [run EXCEPT !.out = out] \in Runs
      BY <3>2, RunUpdates
    <3> QED BY <3>1, <3>3
  <2>2. /\ content' \in Contents /\ executed' \in [Ops -> Nat]
        /\ effect' \in [Ops -> Contents]
    BY <1>13 DEF Execute, TypeOK, history
  <2> QED BY <1>13, <2>1, <2>2 DEF Execute, TypeOK, service, journals, Steps
<1>14. CASE SaveCompletion
  <2>1. completion' \in Completions
    BY <1>14, Fields, Members DEF SaveCompletion, TypeOK, StepInv, Executing
  <2>2. run' \in Runs
    BY <1>14, <2>1, RunUpdates DEF SaveCompletion, TypeOK
  <2> QED BY <1>14, <2>1, <2>2 DEF SaveCompletion, TypeOK, service, history, Steps
<1>15. CASE ClearCompletion
  BY <1>15, Members
     DEF ClearCompletion, TypeOK, journals, history, Steps, service
<1>16. CASE ClearExecuting
  BY <1>16, Members
     DEF ClearExecuting, TypeOK, journals, history, Steps, service
<1>17. CASE EndRenewal
  BY <1>17, BackgroundUpdates
     DEF EndRenewal, TypeOK, journals, history, Steps, service
<1>18. CASE Reconnect
  BY <1>18, Members
     DEF Reconnect, TypeOK, journals, history, Steps, service
<1>19. CASE LocalFailure
  BY <1>19, FailureSteps
     DEF LocalFailure, TypeOK, journals, history, service
<1>20. CASE Renew
  BY <1>20, Members, Sent, ServiceSteps, FailureSteps
     DEF Renew, TypeOK, journals, history, RenewalEnds, ServiceTypes, Operating
<1>21. CASE BackgroundSnapshot
  BY <1>21, BackgroundUpdates, Ended
     DEF BackgroundSnapshot, TypeOK, journals, history, service
<1>22. CASE BackgroundSave
  <2>1. publication' \in Publications
    <3>1. publication' = publication \/ publication' = NewPublication(bg.hash, NoCompletion)
      BY <1>22 DEF BackgroundSave
    <3>2. NewPublication(bg.hash, NoCompletion) \in Publications
      BY NewIdIsFresh, Fields, Members, PublicationRecord DEF NewPublication, TypeOK
    <3> QED BY <3>1, <3>2 DEF TypeOK
  <2>2. bg' \in Backgrounds /\ online' \in BOOLEAN
    BY <1>22, BackgroundUpdates, Ended DEF BackgroundSave, TypeOK
  <2> QED BY <1>22, <2>1, <2>2 DEF BackgroundSave, TypeOK, service, history
<1>23. CASE BackgroundPublish
  BY <1>23, Fields, BackgroundUpdates, Ended, Sent, ServiceSteps, FailureSteps
     DEF BackgroundPublish, TypeOK, journals, history, ServiceTypes
<1>24. CASE BackgroundReceipt
  BY <1>24, BackgroundUpdates
     DEF BackgroundReceipt, TypeOK, journals, history, service
<1>25. CASE BackgroundErase
  BY <1>25, Members, Ended
     DEF BackgroundErase, TypeOK, journals, history, service
<1>26. CASE BackgroundFails
  BY <1>26, Ended, FailureSteps
     DEF BackgroundFails, TypeOK, journals, history, service
<1>27. CASE Work
  BY <1>27, CentralAssumption
     DEF Work, TypeOK, journals, history, Contents, service
<1>28. CASE Lapse
  BY <1>28, RowUpdates
     DEF Lapse, TypeOK, journals, history
<1>29. CASE Crash
  BY <1>29, Members, FailureSteps
     DEF Crash, TypeOK, journals, history, Forget, Steps, service
<1>30. CASE Quit
  BY <1>30, Members, RowUpdates, FailureSteps
     DEF Quit, TypeOK, journals, history, Forget, Steps
<1>31. ASSUME NEW o \in Ops, Submit(o) PROVE TypeOK'
  BY <1>31
     DEF Submit, TypeOK, journals, history, OpStates, Open
<1>32. ASSUME NEW o \in Ops, GiveUp(o) PROVE TypeOK'
  BY <1>32
     DEF GiveUp, TypeOK, journals, history, service
<1>33. ASSUME NEW o \in Ops, Reconcile(o) PROVE TypeOK'
  BY <1>33, Members
     DEF Reconcile, TypeOK, journals, history, Outcomes, service
<1>34. ASSUME NEW r \in stray, Deliver(r) PROVE TypeOK'
  <2>1. ServiceTypes' /\ stray' \subseteq Requests
    <3>1. CASE r.type = "begin"
      BY <1>34, <3>1, ServiceSteps DEF Deliver
    <3>2. CASE r.type = "heartbeat"
      BY <1>34, <3>2, ServiceSteps DEF Deliver, TypeOK
    <3>3. CASE r.type = "claim"
      BY <1>34, <3>3, ServiceSteps DEF Deliver, TypeOK, Claimable, In, OpStates, Open, Outcomes
    <3>4. CASE r.type = "publish"
      BY <1>34, <3>4, Fields, ServiceSteps DEF Deliver, TypeOK
    <3>5. r.type \in {"begin", "heartbeat", "claim", "publish"}
      BY DEF TypeOK, Requests
    <3> QED BY <3>1, <3>2, <3>3, <3>4, <3>5
  <2> QED BY <1>34, <2>1 DEF Deliver, TypeOK, ServiceTypes, journals, history
<1>35. CASE UNCHANGED vars
  BY <1>35 DEF vars, TypeOK, service, journals, history
<1> QED
  BY <1>1, <1>2, <1>3, <1>4, <1>5, <1>6, <1>7, <1>8, <1>9, <1>10, <1>11, <1>12, <1>13,
         <1>14, <1>15, <1>16, <1>17, <1>18, <1>19, <1>20, <1>21, <1>22, <1>23, <1>24,
         <1>25, <1>26, <1>27, <1>28, <1>29, <1>30, <1>31, <1>32, <1>33, <1>34, <1>35
     DEF Next, Desktop, Background

-----------------------------------------------------------------------------
(* The service                                                             *)

\* What every request may do to the operations: none is opened or opened again, and
\* what is settled is told truthfully and stays.
ServiceStep ==
  /\ \A o \in Ops :
       /\ ops'[o] \in Open => ops[o] \in Open
       /\ ops'[o] = "accepted" => ops[o] = "accepted"
       /\ ops'[o] = "started" => ops[o] \in {"accepted", "started"}
       /\ ops[o] \notin {"absent", "accepted"} => ops'[o] \notin {"absent", "accepted"}
       /\ ops'[o] = "absent" => ops[o] = "absent"
       /\ ops[o] = "absent" => ops'[o] = "absent"
       /\ ops[o] \in Outcomes => ops'[o] = ops[o]
       /\ ops[o] \in Open /\ ops'[o] \in Outcomes =>
            /\ ~ToRun(o)
            /\ ops'[o] = "unrun" <=> executed[o] = 0
            /\ ops'[o] # "unrun" => effect[o] <= svc'.hash
  /\ svc.hash <= svc'.hash /\ svc'.hash <= content

LEMMA ServiceUnchanged ==
  ASSUME IInv, UNCHANGED service
  PROVE  ServiceStep
<1>1. svc.hash \in Int /\ svc.hash <= content
  BY Fields DEF IInv, TypeOK, CopyInv, Contents
<1> QED BY <1>1 DEF IInv, TypeOK, OpStates, Open, Outcomes, service, ServiceStep

LEMMA BeginIsServiceStep ==
  ASSUME IInv, NEW mine \in BOOLEAN, ServeBegin(mine)
  PROVE  ServiceStep
<1>1. svc'.hash = svc.hash /\ svc.hash \in Int /\ svc.hash <= content
  BY Fields DEF IInv, TypeOK, CopyInv, Contents, ServeBegin, Rows
<1>2. ops' = Disconnected
  BY DEF ServeBegin
<1>3. \A o \in Ops : /\ ops[o] = "started" => ops'[o] = "unknown"
                     /\ ops[o] = "accepted" => ops'[o] = "unrun"
                     /\ ops[o] \notin {"started", "accepted"} => ops'[o] = ops[o]
  BY <1>2 DEF Disconnected
<1>4. \A o \in Ops : ops[o] = "accepted" => executed[o] = 0 /\ ~ToRun(o)
  BY DEF IInv, LedgerInv, OpsInv
<1>5. \A o \in Ops : ops[o] \in OpStates
  BY DEF IInv, TypeOK
<1> QED BY <1>1, <1>3, <1>4, <1>5 DEF OpStates, Open, Outcomes, ServiceStep

LEMMA BeatIsServiceStep ==
  ASSUME IInv, ServeBeat
  PROVE  ServiceStep
<1>1. svc'.hash = svc.hash /\ svc.hash \in Int /\ svc.hash <= content
  BY Fields DEF IInv, TypeOK, CopyInv, Contents, ServeBeat, Rows
<1> QED BY <1>1 DEF IInv, TypeOK, OpStates, Open, Outcomes, ServeBeat, ServiceStep

LEMMA ClaimIsServiceStep ==
  ASSUME IInv, NEW o \in Claimable, NEW to \in {"started", "unrun"}, ServeClaim(o, to)
  PROVE  ServiceStep
<1>1. svc'.hash = svc.hash /\ svc.hash \in Int /\ svc.hash <= content
  BY Fields DEF IInv, TypeOK, CopyInv, Contents, ServeClaim
<1>2. o \in Ops /\ ops[o] = "accepted" /\ executed[o] = 0 /\ ~ToRun(o)
  BY DEF IInv, LedgerInv, OpsInv, Claimable, In
<1>3. ops'[o] = to /\ \A p \in Ops \ {o} : ops'[p] = ops[p]
  BY <1>2 DEF ServeClaim, IInv, TypeOK
<1>4. \A p \in Ops : ops[p] \in OpStates
  BY DEF IInv, TypeOK
<1> QED BY <1>1, <1>2, <1>3, <1>4 DEF OpStates, Open, Outcomes, ServiceStep

LEMMA PublishIsServiceStep ==
  ASSUME IInv, NEW p \in Sendable, ServePublish(p)
  PROVE  /\ ServiceStep /\ p.hash <= content
         /\ commits' \subseteq commits \cup {p.id}
         /\ p.done # NoCompletion => ops'[p.done.op] \in Outcomes
<1>1. p \in Publications
  BY Fields DEF IInv, TypeOK, Sendable, Published
<1>2. /\ p.base \in Int /\ p.hash \in Int /\ p.done \in Completions
      /\ p.done # NoCompletion => p.done.op \in Ops
      /\ p.done.op \in Ops => p.done # NoCompletion
      /\ p.done.out \in Outcomes
  BY <1>1, Fields DEF Contents
<1>3. /\ Truthful(p.done) /\ p.base <= p.hash /\ p.hash <= content
      /\ p.done # NoCompletion => effect[p.done.op] <= p.hash
      /\ p.id \in commits /\ p.done # NoCompletion => ops[p.done.op] \in Outcomes
  BY DEF IInv, JournalInv, CopyInv
<1>4. CASE Prior(p)
  <2>1. UNCHANGED service
    BY <1>4 DEF ServePublish
  <2> QED BY <1>3, <1>4, <2>1, ServiceUnchanged DEF Prior, service
<1>5. CASE ~Prior(p)
  <2>1. /\ Accepted(p)
        /\ svc' = IF p.hash = svc.hash THEN svc ELSE [svc EXCEPT !.prev = svc.hash, !.hash = p.hash]
        /\ ops' = [o \in Ops |-> IF o = p.done.op THEN p.done.out ELSE ops[o]]
        /\ commits' = commits \cup {p.id}
    BY <1>5 DEF ServePublish
  <2>2. svc'.hash = p.hash /\ svc.hash = p.base
    BY <2>1 DEF Accepted, IInv, TypeOK, Rows
  <2>3. \A o \in Ops : o # p.done.op => ops'[o] = ops[o]
    BY <2>1
  <2>4. p.done # NoCompletion =>
          /\ ops'[p.done.op] = p.done.out
          /\ ops[p.done.op] \in {"started", "unknown"}
          /\ ~ToRun(p.done.op)
          /\ p.done.out = "unrun" <=> executed[p.done.op] = 0
          /\ effect[p.done.op] <= svc'.hash
    BY <1>2, <1>3, <2>1, <2>2 DEF Accepted, Truthful, Open
  <2>5. \A o \in Ops : ops[o] \in OpStates
    BY DEF IInv, TypeOK
  <2>6. ServiceStep
    BY <1>2, <1>3, <2>2, <2>3, <2>4, <2>5 DEF OpStates, Open, Outcomes, ServiceStep
  <2> QED BY <1>2, <1>3, <2>1, <2>4, <2>6
<1> QED BY <1>4, <1>5

-----------------------------------------------------------------------------
(* The journals                                                            *)

\* The publications that can reach the service after a step: those before it, none,
\* or a new one with an id of its own and an outcome that can be told.
SendableStep ==
  \A p \in Sendable' :
    \/ p \in Sendable
    \/ p = NoPublication
    \/ /\ p = publication' /\ p \in Publications
       /\ p.id \notin UsedIds \cup commits'
       /\ Truthful(p.done)
       /\ p.base <= p.hash /\ p.hash <= content
       /\ p.done # NoCompletion => effect[p.done.op] <= p.hash

\* Nothing but what was accepted is about to run that was not before.
RunStep == \A o \in Ops : ToRun(o)' => ToRun(o) \/ ops[o] = "accepted"

CommitStep ==
  \A p \in Sendable : p.id \in commits' /\ p.done # NoCompletion =>
    p.id \in commits \/ ops'[p.done.op] \in Outcomes

LEMMA TruthStays ==
  ASSUME IInv, ServiceStep, RunStep, UNCHANGED executed,
         NEW c \in Completions, Truthful(c)
  PROVE  Truthful(c)'
<1>1. c # NoCompletion => c.op \in Ops
  BY Fields
<1> QED BY <1>1 DEF ServiceStep, RunStep, Truthful, Open

LEMMA SendableTypes ==
  ASSUME IInv, NEW p \in Sendable
  PROVE  /\ p \in Publications /\ p.done \in Completions
         /\ p.id \in UsedIds
         /\ Truthful(p.done)
<1>1. p \in Publications
  BY Fields DEF IInv, TypeOK, Sendable, Published
<1>2. p.id \in UsedIds
  BY DEF Sendable, UsedIds
<1> QED BY <1>1, <1>2, Fields DEF IInv, JournalInv

LEMMA JournalStep ==
  ASSUME IInv, ServiceStep, RunStep, SendableStep, CommitStep, UNCHANGED executed,
         \A c \in {completion', run'.done, run'.read} : c \in Completions /\ Truthful(c)
  PROVE  JournalInv'
<1>1. \A c \in {completion', run'.done, run'.read} : Truthful(c)'
  BY TruthStays
<1>2. NoPublication.done = NoCompletion /\ NoPublication.id = 0
  BY DEF NoPublication
<1>3. \A p \in Sendable' : Truthful(p.done)'
  <2> SUFFICES ASSUME NEW p \in Sendable' PROVE Truthful(p.done)'
    OBVIOUS
  <2>1. CASE p \in Sendable
    BY <2>1, SendableTypes, TruthStays
  <2>2. CASE p = NoPublication
    BY <1>2, <2>2 DEF Truthful
  <2>3. CASE p \in Publications /\ Truthful(p.done)
    BY <2>3, Fields, TruthStays
  <2> QED BY <2>1, <2>2, <2>3 DEF SendableStep
<1>4. \A p \in Sendable' : p.id \in commits' /\ p.done # NoCompletion => ops'[p.done.op] \in Outcomes
  <2> SUFFICES ASSUME NEW p \in Sendable', p.id \in commits', p.done # NoCompletion
               PROVE  ops'[p.done.op] \in Outcomes
    OBVIOUS
  <2>1. p \in Sendable
    BY <1>2 DEF SendableStep
  <2>2. p.id \in commits => ops[p.done.op] \in Outcomes
    BY <2>1 DEF IInv, JournalInv
  <2>3. p.done.op \in Ops
    BY <2>1, SendableTypes, Fields
  <2> QED BY <2>1, <2>2, <2>3 DEF CommitStep, ServiceStep
<1>5. \A p \in Sendable' : p.id = 0 => p.done = NoCompletion
  <2>1. 0 \in UsedIds
    BY DEF UsedIds
  <2> QED BY <1>2, <2>1 DEF SendableStep, IInv, JournalInv
<1>6. \A p, q \in Sendable' : p.id = q.id => p.done = q.done
  <2> SUFFICES ASSUME NEW p \in Sendable', NEW q \in Sendable', p.id = q.id
               PROVE  p.done = q.done
    OBVIOUS
  <2>1. CASE p.id \in UsedIds
    <3>1. /\ p \in Sendable \/ p = NoPublication
          /\ q \in Sendable \/ q = NoPublication
      BY <2>1 DEF SendableStep
    <3> QED BY <1>2, <3>1 DEF IInv, JournalInv
  <2>2. CASE p.id \notin UsedIds
    <3>1. 0 \in UsedIds
      BY DEF UsedIds
    <3>2. p = publication' /\ q = publication'
      BY <1>2, <2>2, <3>1, SendableTypes DEF SendableStep
    <3> QED BY <3>2
  <2> QED BY <2>1, <2>2
<1> QED BY <1>1, <1>3, <1>4, <1>5, <1>6 DEF JournalInv

LEMMA CopyStep ==
  ASSUME IInv, TypeOK', ServiceStep, SendableStep, UNCHANGED effect,
         content <= content', state' <= content', bg'.hash <= content',
         bg'.pc = "save" /\ bg'.fresh => state' <= bg'.hash
  PROVE  CopyInv' /\ AppliedIsVisible'
<1>1. /\ content \in Int /\ content' \in Int /\ svc.hash \in Int /\ svc'.hash \in Int
      /\ \A o \in Ops : effect[o] \in Int
  BY Fields DEF IInv, TypeOK, Contents
<1>2. svc'.hash <= content'
  BY <1>1 DEF ServiceStep
<1>3. \A o \in Ops : effect'[o] <= content'
  BY <1>1 DEF IInv, CopyInv
<1>4. \A p \in Sendable' : /\ p.base <= p.hash /\ p.hash <= content'
                           /\ p.done # NoCompletion => effect'[p.done.op] <= p.hash
  <2> SUFFICES ASSUME NEW p \in Sendable'
               PROVE  /\ p.base <= p.hash /\ p.hash <= content'
                      /\ p.done # NoCompletion => effect'[p.done.op] <= p.hash
    OBVIOUS
  <2>1. CASE p = NoPublication
    BY <1>1, <2>1 DEF NoPublication, TypeOK, Contents
  <2>2. CASE p # NoPublication
    <3>1. /\ p \in Publications /\ p.base <= p.hash /\ p.hash <= content
          /\ p.done # NoCompletion => effect[p.done.op] <= p.hash
      BY <2>2, SendableTypes DEF SendableStep, IInv, CopyInv
    <3>2. p.hash \in Int
      BY <3>1, Fields DEF Contents
    <3> QED BY <1>1, <3>1, <3>2
  <2> QED BY <2>1, <2>2
<1>5. AppliedIsVisible'
  <2> SUFFICES ASSUME NEW o \in Ops, ops'[o] \in {"applied", "failed"}
               PROVE  svc'.hash >= effect'[o]
    BY DEF AppliedIsVisible
  <2>1. CASE ops[o] \in Outcomes
    BY <1>1, <2>1 DEF ServiceStep, IInv, AppliedIsVisible
  <2>2. CASE ops[o] \in Open
    BY <1>1, <2>2 DEF ServiceStep, Outcomes
  <2>3. ops[o] # "absent" /\ ops[o] \in OpStates
    BY DEF IInv, TypeOK, ServiceStep
  <2> QED BY <2>1, <2>2, <2>3 DEF OpStates
<1> QED BY <1>2, <1>3, <1>4, <1>5 DEF CopyInv


\* What every step but Execute and Submit does to journals, copies and receipts.
Frame ==
  /\ ServiceStep /\ RunStep /\ SendableStep /\ CommitStep /\ UNCHANGED history
  /\ \A c \in {completion', run'.done, run'.read} : Truthful(c)
  /\ content <= content' /\ state' <= content' /\ bg'.hash <= content'
  /\ bg'.pc = "save" /\ bg'.fresh => state' <= bg'.hash

LEMMA FrameKeeps ==
  ASSUME IInv, TypeOK', Frame
  PROVE  LedgerInv' /\ JournalInv' /\ CopyInv' /\ AppliedIsVisible'
<1>1. \A c \in {completion', run'.done, run'.read} : c \in Completions
  BY Fields DEF TypeOK
<1>2. JournalInv'
  BY <1>1, JournalStep DEF Frame, history
<1>3. CopyInv' /\ AppliedIsVisible'
  BY CopyStep DEF Frame, history
<1>4. \A o, p \in In(Open)' : o = p
  BY DEF Frame, ServiceStep, IInv, LedgerInv, In
<1>5. \A o \in Ops : /\ executed'[o] \in {0, 1}
                     /\ ops'[o] \in {"absent", "accepted", "unrun"} => executed'[o] = 0
                     /\ ops'[o] \in {"applied", "failed"} => executed'[o] = 1
  <2> SUFFICES ASSUME NEW o \in Ops
               PROVE  /\ executed'[o] \in {0, 1}
                      /\ ops'[o] \in {"absent", "accepted", "unrun"} => executed'[o] = 0
                      /\ ops'[o] \in {"applied", "failed"} => executed'[o] = 1
    OBVIOUS
  <2>1. ops[o] \in OpStates /\ executed'[o] = executed[o]
    BY DEF IInv, TypeOK, Frame, history
  <2>2. CASE ops[o] = "absent"
    BY <2>1, <2>2 DEF Frame, ServiceStep, IInv, LedgerInv
  <2>3. CASE ops[o] \in Outcomes
    BY <2>1, <2>3 DEF Frame, ServiceStep, IInv, LedgerInv
  <2>4. CASE ops[o] \in Open
    BY <2>1, <2>4 DEF Frame, ServiceStep, IInv, LedgerInv, Outcomes
  <2> QED BY <2>1, <2>2, <2>3, <2>4 DEF OpStates
<1> QED BY <1>2, <1>3, <1>4, <1>5 DEF LedgerInv

-----------------------------------------------------------------------------
(* What most actions leave alone                                           *)

\* What updated records hold.
LEMMA Values ==
  /\ NoRun.op = NoOp /\ ~NoRun.again /\ NoRun.next = "greet" /\ NoRun.pending = {}
  /\ NoRun.done = NoCompletion /\ NoRun.read = NoCompletion
  /\ Idle.pc = "idle" /\ Idle.hash = 0 /\ ~Idle.fresh
  /\ \A e : LET b == [Idle EXCEPT !.error = e] IN b.pc = "idle" /\ b.hash = 0 /\ ~b.fresh
  /\ \A b \in Backgrounds, h \in Contents :
       /\ LET n == [b EXCEPT !.error = FALSE]
          IN n.pc = b.pc /\ n.hash = b.hash /\ n.fresh = b.fresh
       /\ LET n == [b EXCEPT !.fresh = FALSE] IN n.pc = b.pc /\ n.hash = b.hash /\ ~n.fresh
       /\ LET n == [b EXCEPT !.pc = "snapshot", !.fresh = TRUE]
          IN n.pc = "snapshot" /\ n.hash = b.hash /\ n.fresh
       /\ LET n == [b EXCEPT !.pc = "save", !.hash = h]
          IN n.pc = "save" /\ n.hash = h /\ n.fresh = b.fresh
       /\ LET n == [b EXCEPT !.pc = "publish"]
          IN n.pc = "publish" /\ n.hash = b.hash /\ n.fresh = b.fresh
       /\ LET n == [b EXCEPT !.pc = "receipt"]
          IN n.pc = "receipt" /\ n.hash = b.hash /\ n.fresh = b.fresh
       /\ LET n == [b EXCEPT !.pc = "erase"]
          IN n.pc = "erase" /\ n.hash = b.hash /\ n.fresh = b.fresh
<1>1. /\ NoRun.op = NoOp /\ ~NoRun.again /\ NoRun.next = "greet" /\ NoRun.pending = {}
      /\ NoRun.done = NoCompletion /\ NoRun.read = NoCompletion
  BY DEF NoRun
<1>2. /\ Idle.pc = "idle" /\ Idle.hash = 0 /\ ~Idle.fresh
      /\ \A e : LET b == [Idle EXCEPT !.error = e] IN b.pc = "idle" /\ b.hash = 0 /\ ~b.fresh
  BY DEF Idle
<1>3. \A b \in Backgrounds, h \in Contents :
        /\ LET n == [b EXCEPT !.error = FALSE]
           IN n.pc = b.pc /\ n.hash = b.hash /\ n.fresh = b.fresh
        /\ LET n == [b EXCEPT !.fresh = FALSE] IN n.pc = b.pc /\ n.hash = b.hash /\ ~n.fresh
        /\ LET n == [b EXCEPT !.pc = "snapshot", !.fresh = TRUE]
           IN n.pc = "snapshot" /\ n.hash = b.hash /\ n.fresh
        /\ LET n == [b EXCEPT !.pc = "save", !.hash = h]
           IN n.pc = "save" /\ n.hash = h /\ n.fresh = b.fresh
        /\ LET n == [b EXCEPT !.pc = "publish"]
           IN n.pc = "publish" /\ n.hash = b.hash /\ n.fresh = b.fresh
        /\ LET n == [b EXCEPT !.pc = "receipt"]
           IN n.pc = "receipt" /\ n.hash = b.hash /\ n.fresh = b.fresh
        /\ LET n == [b EXCEPT !.pc = "erase"]
           IN n.pc = "erase" /\ n.hash = b.hash /\ n.fresh = b.fresh
  BY DEF Backgrounds
<1> QED BY <1>1, <1>2, <1>3

\* What updates of loop()'s values keep and change.
LEMMA RunValues ==
  \A r \in Runs, c \in Completions :
    /\ LET n == [r EXCEPT !.again = FALSE, !.recent = TRUE]
       IN n.op = r.op /\ n.read = r.read /\ n.pending = r.pending /\ n.done = r.done
          /\ n.next = r.next /\ ~n.again
    /\ \A o : LET n == [r EXCEPT !.op = o]
              IN n.op = o /\ n.read = r.read /\ n.pending = r.pending /\ n.done = r.done
                 /\ n.next = r.next /\ n.again = r.again
    /\ \A o : LET n == [r EXCEPT !.out = o]
              IN n.op = r.op /\ n.read = r.read /\ n.pending = r.pending /\ n.done = r.done
                 /\ n.next = r.next /\ n.again = r.again /\ n.out = o
    /\ LET n == [r EXCEPT !.done = c]
       IN n.op = r.op /\ n.read = r.read /\ n.pending = r.pending /\ n.done = c
          /\ n.next = r.next /\ n.again = r.again
    /\ LET n == [r EXCEPT !.done = c, !.next = "greet"]
       IN n.op = r.op /\ n.read = r.read /\ n.pending = r.pending /\ n.done = c
          /\ n.next = "greet" /\ n.again = r.again
    /\ LET n == [r EXCEPT !.done = c, !.next = "clear"]
       IN n.op = r.op /\ n.read = r.read /\ n.pending = r.pending /\ n.done = c
          /\ n.next = "clear" /\ n.again = r.again
    /\ LET n == [r EXCEPT !.again = FALSE, !.done = c]
       IN n.op = r.op /\ n.read = r.read /\ n.pending = r.pending /\ n.done = c
          /\ n.next = r.next /\ ~n.again
BY DEF Runs

\* Requests given up and erasing a publication send nothing new.
LEMMA NothingNew ==
  ASSUME publication' \in {publication, NoPublication},
         \A r \in stray' : r \in stray \/ r.type # "publish" \/ r = PublishRequest(publication)
  PROVE  SendableStep
<1>1. \A p \in Published' : p \in Sendable
  <2> SUFFICES ASSUME NEW r \in stray', r.type = "publish"
               PROVE  r.publication \in Sendable
    BY DEF Published
  <2>1. CASE r \in stray
    BY <2>1 DEF Sendable, Published
  <2>2. CASE r = PublishRequest(publication)
    BY <2>2 DEF Sendable, PublishRequest
  <2> QED BY <2>1, <2>2
<1> QED BY <1>1 DEF SendableStep, Sendable

\* Without a commit the journals learn nothing of one.
LEMMA NoCommit ==
  ASSUME UNCHANGED commits
  PROVE  CommitStep
BY DEF CommitStep

\* Steps that start no operation and finish none.
LEMMA OpsKeep ==
  ASSUME IInv, TypeOK', ServiceStep, UNCHANGED executed,
         \A o \in Ops : ToRun(o)' => ToRun(o) /\ (o \in uncertain' => o \in uncertain),
         \A o \in Ops : ops[o] = "started" /\ Owned(o) => Owned(o)',
         \A o \in Ops : executed[o] = 1 /\ ops[o] \in Open => executing' = executing,
         pc' = "journal" => pc = "journal" /\ run' = run,
         uncertain' \cup run'.pending \subseteq uncertain \cup run.pending
  PROVE  /\ OpsInv'
         /\ (gate' => gate) => ReconciledFirst'
<1>1. \A o \in Ops : ToRun(o)' => /\ ops'[o] \in {"started", "unknown"} /\ executed'[o] = 0
                                  /\ o \notin uncertain'
  <2> SUFFICES ASSUME NEW o \in Ops, ToRun(o)'
               PROVE  /\ ops'[o] \in {"started", "unknown"} /\ executed'[o] = 0
                      /\ o \notin uncertain'
    OBVIOUS
  <2>1. ToRun(o) /\ ops[o] \in {"started", "unknown"} /\ executed[o] = 0 /\ o \notin uncertain
    BY DEF IInv, OpsInv
  <2>2. ops'[o] \in OpStates
    BY DEF TypeOK
  <2> QED BY <2>1, <2>2 DEF ServiceStep, OpStates, Open
<1>2. pc' = "journal" => /\ ops'[run'.op] \notin {"absent", "accepted"}
                         /\ run'.out = "unrun" <=> executed'[run'.op] = 0
  <2>1. pc = "journal" => run.op \in Ops
    BY DEF IInv, StepInv, Executing
  <2> QED BY <2>1 DEF IInv, OpsInv, ServiceStep
<1>3. \A o \in uncertain' \cup run'.pending : ops'[o] \notin {"absent", "accepted", "started"}
  <2>1. \A o \in uncertain \cup run.pending : o \in Ops
    BY Fields DEF IInv, TypeOK
  <2> QED BY <2>1 DEF IInv, OpsInv, ServiceStep
<1>4. \A o \in Ops : executed'[o] = 1 /\ ops'[o] \in Open => executing' = o
  BY DEF IInv, OpsInv, ServiceStep
<1>5. \A o \in Ops : executed'[o] = 1 /\ ops'[o] = "started" => Owned(o)'
  BY DEF IInv, OpsInv, LedgerInv, ServiceStep
<1>6. OpsInv'
  BY <1>1, <1>2, <1>3, <1>4, <1>5 DEF OpsInv
<1>7. (gate' => gate) => ReconciledFirst'
  BY DEF IInv, ReconciledFirst, ServiceStep
<1> QED BY <1>6, <1>7

\* The service accepts a heartbeat of a session without an operation only when what
\* has run is settled.
LEMMA BeatIsReconciled ==
  ASSUME IInv, BeatAccepted(state), ServeBeat, UNCHANGED executed,
         \A o \in Ops : ~Owned(o)
  PROVE  ReconciledFirst'
<1> SUFFICES ASSUME NEW o \in Ops, executed[o] > 0
             PROVE  ops[o] \in Outcomes
  BY DEF ReconciledFirst, ServeBeat
<1>1. executed[o] = 1 /\ ops[o] \in OpStates
  BY DEF IInv, LedgerInv, TypeOK
<1>2. ops[o] # "unknown"
  BY DEF BeatAccepted, In
<1>3. ops[o] \notin {"absent", "accepted", "started"}
  BY <1>1 DEF IInv, LedgerInv, OpsInv
<1> QED BY <1>1, <1>2, <1>3 DEF OpStates, Open

\* What the invariant says of outcomes and copies before a step.
LEMMA Before ==
  ASSUME IInv
  PROVE  /\ Truthful(NoCompletion) /\ Truthful(completion) /\ Truthful(run.done)
         /\ Truthful(run.read) /\ Truthful(publication.done)
         /\ content \in Int /\ 0 <= content /\ content <= content
         /\ state \in Int /\ svc.hash \in Int /\ bg.hash \in Int
         /\ state <= content /\ svc.hash <= content /\ bg.hash <= content
         /\ bg.pc = "save" /\ bg.fresh => state <= bg.hash
         /\ publication \in Sendable /\ publication.hash <= content
         /\ run \in Runs /\ bg \in Backgrounds
<1>1. Truthful(NoCompletion)
  BY DEF Truthful
<1>2. publication \in Sendable
  BY DEF Sendable
<1>3. content \in Int /\ 0 <= content
  BY CentralAssumption DEF IInv, TypeOK, Contents
<1>4. state \in Int /\ svc.hash \in Int /\ bg.hash \in Int
  BY Fields DEF IInv, TypeOK, Contents
<1> QED BY <1>1, <1>2, <1>3, <1>4 DEF IInv, TypeOK, JournalInv, CopyInv

LEMMA Quiet ==
  ASSUME IInv, UNCHANGED <<service, stray>>, publication' \in {publication, NoPublication}
  PROVE  ServiceStep /\ SendableStep /\ CommitStep
BY ServiceUnchanged, NothingNew, NoCommit DEF service

\* What every action but Execute and Submit is shown to do.
Kept == Frame /\ StepInv' /\ OpsInv' /\ ReconciledFirst'

\* The steps that ask nothing of the service and start nothing.
LEMMA QuietSteps ==
  ASSUME IInv, TypeOK'
  PROVE  /\ CloseGate => Kept
         /\ LocalFailure => Kept
         /\ SaveReceipt => Kept
         /\ ClearCompletion => Kept
         /\ EndRenewal => Kept
         /\ BackgroundSnapshot => Kept
         /\ BackgroundReceipt => Kept
         /\ BackgroundErase => Kept
         /\ BackgroundFails => Kept
         /\ Work => Kept
         /\ Crash => Kept
         /\ ErasePublication => Kept
         /\ Loop => Kept
         /\ Reconnect => Kept
         /\ ReadOutcome => Kept
<1>1. CASE CloseGate
  <2>1. ServiceStep /\ SendableStep /\ CommitStep
    BY <1>1, Quiet DEF CloseGate, journals
  <2>2. Frame
    BY <1>1, <2>1, Before, Members, Values, RunValues DEF CloseGate, Frame, RunStep, ToRun, journals
  <2>3. OpsInv' /\ ReconciledFirst'
    BY <1>1, <2>1, Before, Members, Values, RunValues, OpsKeep DEF CloseGate, ToRun, Owned, journals, history
  <2>4. StepInv'
    BY <1>1, Before, Members, Values, RunValues
       DEF CloseGate, IInv, StepInv, Between, Executing, Copying, Critical, journals, service
  <2> QED BY <2>2, <2>3, <2>4 DEF Kept
<1>2. CASE LocalFailure
  <2>1. ServiceStep /\ SendableStep /\ CommitStep
    BY <1>2, Quiet DEF LocalFailure, Throw, journals
  <2>2. Frame
    BY <1>2, <2>1, Before, Members, Values, RunValues DEF LocalFailure, Throw, Frame, RunStep, ToRun, journals
  <2>3. OpsInv' /\ ReconciledFirst'
    BY <1>2, <2>1, Before, Members, Values, RunValues, OpsKeep DEF LocalFailure, Throw, ToRun, Owned, journals, history
  <2>4. StepInv'
    BY <1>2, Before, Members, Values, RunValues
       DEF LocalFailure, Throw, IInv, StepInv, Between, Executing, Copying, Critical, journals, service
  <2> QED BY <2>2, <2>3, <2>4 DEF Kept
<1>3. CASE SaveReceipt
  <2>1. ServiceStep /\ SendableStep /\ CommitStep
    BY <1>3, Quiet DEF SaveReceipt, journals
  <2>2. Frame
    BY <1>3, <2>1, Before, Members, Values, RunValues DEF SaveReceipt, Frame, RunStep, ToRun, journals
  <2>3. OpsInv' /\ ReconciledFirst'
    BY <1>3, <2>1, Before, Members, Values, RunValues, OpsKeep DEF SaveReceipt, ToRun, Owned, journals, history
  <2>4. StepInv'
    BY <1>3, Before, Members, Values, RunValues
       DEF SaveReceipt, IInv, StepInv, Between, Executing, Copying, Critical, journals, service
  <2> QED BY <2>2, <2>3, <2>4 DEF Kept
<1>4. CASE ClearCompletion
  <2>1. ServiceStep /\ SendableStep /\ CommitStep
    BY <1>4, Quiet DEF ClearCompletion, journals
  <2>2. Frame
    BY <1>4, <2>1, Before, Members, Values, RunValues DEF ClearCompletion, Frame, RunStep, ToRun, journals
  <2>3. OpsInv' /\ ReconciledFirst'
    BY <1>4, <2>1, Before, Members, Values, RunValues, OpsKeep DEF ClearCompletion, ToRun, Owned, journals, history
  <2>4. StepInv'
    BY <1>4, Before, Members, Values, RunValues
       DEF ClearCompletion, IInv, StepInv, Between, Executing, Copying, Critical, journals, service
  <2> QED BY <2>2, <2>3, <2>4 DEF Kept
<1>5. CASE EndRenewal
  <2>1. ServiceStep /\ SendableStep /\ CommitStep
    BY <1>5, Quiet DEF EndRenewal, journals
  <2>2. Frame
    BY <1>5, <2>1, Before, Members, Values, RunValues DEF EndRenewal, Frame, RunStep, ToRun, journals
  <2>3. OpsInv' /\ ReconciledFirst'
    BY <1>5, <2>1, Before, Members, Values, RunValues, OpsKeep DEF EndRenewal, ToRun, Owned, journals, history
  <2>4. StepInv'
    BY <1>5, Before, Members, Values, RunValues
       DEF EndRenewal, IInv, StepInv, Between, Executing, Copying, Critical, journals, service
  <2> QED BY <2>2, <2>3, <2>4 DEF Kept
<1>6. CASE BackgroundSnapshot
  <2>1. ServiceStep /\ SendableStep /\ CommitStep
    BY <1>6, Quiet DEF BackgroundSnapshot, BackgroundDone, journals
  <2>2. Frame
    BY <1>6, <2>1, Before, Members, Values, RunValues DEF BackgroundSnapshot, BackgroundDone, Frame, RunStep, ToRun, journals
  <2>3. OpsInv' /\ ReconciledFirst'
    BY <1>6, <2>1, Before, Members, Values, RunValues, OpsKeep DEF BackgroundSnapshot, BackgroundDone, ToRun, Owned, journals, history
  <2>4. StepInv'
    BY <1>6, Before, Members, Values, RunValues
       DEF BackgroundSnapshot, BackgroundDone, IInv, StepInv, Between, Executing, Copying, Critical, journals, service
  <2> QED BY <2>2, <2>3, <2>4 DEF Kept
<1>7. CASE BackgroundReceipt
  <2>1. ServiceStep /\ SendableStep /\ CommitStep
    BY <1>7, Quiet DEF BackgroundReceipt, journals
  <2>2. Frame
    BY <1>7, <2>1, Before, Members, Values, RunValues DEF BackgroundReceipt, Frame, RunStep, ToRun, journals
  <2>3. OpsInv' /\ ReconciledFirst'
    BY <1>7, <2>1, Before, Members, Values, RunValues, OpsKeep DEF BackgroundReceipt, ToRun, Owned, journals, history
  <2>4. StepInv'
    BY <1>7, Before, Members, Values, RunValues
       DEF BackgroundReceipt, IInv, StepInv, Between, Executing, Copying, Critical, journals, service
  <2> QED BY <2>2, <2>3, <2>4 DEF Kept
<1>8. CASE BackgroundErase
  <2>1. ServiceStep /\ SendableStep /\ CommitStep
    BY <1>8, Quiet DEF BackgroundErase, BackgroundDone, journals
  <2>2. Frame
    BY <1>8, <2>1, Before, Members, Values, RunValues DEF BackgroundErase, BackgroundDone, Frame, RunStep, ToRun, journals
  <2>3. OpsInv' /\ ReconciledFirst'
    BY <1>8, <2>1, Before, Members, Values, RunValues, OpsKeep DEF BackgroundErase, BackgroundDone, ToRun, Owned, journals, history
  <2>4. StepInv'
    BY <1>8, Before, Members, Values, RunValues
       DEF BackgroundErase, BackgroundDone, IInv, StepInv, Between, Executing, Copying, Critical, journals, service
  <2> QED BY <2>2, <2>3, <2>4 DEF Kept
<1>9. CASE BackgroundFails
  <2>1. ServiceStep /\ SendableStep /\ CommitStep
    BY <1>9, Quiet DEF BackgroundFails, BackgroundDone, journals
  <2>2. Frame
    BY <1>9, <2>1, Before, Members, Values, RunValues DEF BackgroundFails, BackgroundDone, Frame, RunStep, ToRun, journals
  <2>3. OpsInv' /\ ReconciledFirst'
    BY <1>9, <2>1, Before, Members, Values, RunValues, OpsKeep DEF BackgroundFails, BackgroundDone, ToRun, Owned, journals, history
  <2>4. StepInv'
    BY <1>9, Before, Members, Values, RunValues
       DEF BackgroundFails, BackgroundDone, IInv, StepInv, Between, Executing, Copying, Critical, journals, service
  <2> QED BY <2>2, <2>3, <2>4 DEF Kept
<1>10. CASE Work
  <2>1. ServiceStep /\ SendableStep /\ CommitStep
    BY <1>10, Quiet DEF Work, journals
  <2>2. Frame
    BY <1>10, <2>1, Before, Members, Values, RunValues DEF Work, Frame, RunStep, ToRun, journals
  <2>3. OpsInv' /\ ReconciledFirst'
    BY <1>10, <2>1, Before, Members, Values, RunValues, OpsKeep DEF Work, ToRun, Owned, journals, history
  <2>4. StepInv'
    BY <1>10, Before, Members, Values, RunValues
       DEF Work, IInv, StepInv, Between, Executing, Copying, Critical, journals, service
  <2> QED BY <2>2, <2>3, <2>4 DEF Kept
<1>11. CASE Crash
  <2>1. ServiceStep /\ SendableStep /\ CommitStep
    BY <1>11, Quiet DEF Crash, Forget, journals
  <2>2. Frame
    BY <1>11, <2>1, Before, Members, Values, RunValues DEF Crash, Forget, Frame, RunStep, ToRun, journals
  <2>3. OpsInv' /\ ReconciledFirst'
    BY <1>11, <2>1, Before, Members, Values, RunValues, OpsKeep DEF Crash, Forget, ToRun, Owned, journals, history
  <2>4. StepInv'
    BY <1>11, Before, Members, Values, RunValues
       DEF Crash, Forget, IInv, StepInv, Between, Executing, Copying, Critical, journals, service
  <2> QED BY <2>2, <2>3, <2>4 DEF Kept
<1>12. CASE ErasePublication
  <2>1. ServiceStep /\ SendableStep /\ CommitStep
    BY <1>12, Quiet DEF ErasePublication, journals
  <2>2. /\ run'.op = run.op /\ run'.read = run.read /\ run'.pending = run.pending
        /\ run'.done = run.done /\ run'.next = run.next /\ ~run'.again
        /\ pc' \in {"greet", "finish", "clear"}
    BY <1>12, Before, Fields, Members, Values, RunValues DEF ErasePublication
  <2>3. Frame
    BY <1>12, <2>1, <2>2, Before DEF ErasePublication, Frame, RunStep, ToRun, journals
  <2>4. OpsInv' /\ ReconciledFirst'
    BY <1>12, <2>1, <2>2, Before, OpsKeep DEF ErasePublication, ToRun, Owned, journals, history
  <2>5. StepInv'
    BY <1>12, <2>2, Before, Fields
       DEF ErasePublication, IInv, StepInv, Between, Executing, Copying, Critical, journals, service
  <2> QED BY <2>3, <2>4, <2>5 DEF Kept
<1>13. CASE Loop
  <2>1. ServiceStep /\ SendableStep /\ CommitStep
    BY <1>13, Quiet DEF Loop, Throw, journals
  <2>2. /\ bg'.pc = bg.pc /\ bg'.hash = bg.hash /\ bg'.fresh = bg.fresh
    <3>1. bg' = bg \/ bg' = [bg EXCEPT !.error = FALSE]
      BY <1>13 DEF Loop
    <3>2. CASE bg' = bg
      BY <3>2
    <3>3. CASE bg' = [bg EXCEPT !.error = FALSE]
      BY <3>3, Before, Members, Values
    <3> QED BY <3>1, <3>2, <3>3
  <2>3. pc' \in {"claim", "drain"} /\ (gate' => gate)
    BY <1>13 DEF Loop, Throw
  <2>4. Frame
    BY <1>13, <2>1, <2>2, <2>3, Before DEF Loop, Throw, Frame, RunStep, ToRun, journals
  <2>5. OpsInv' /\ ReconciledFirst'
    BY <1>13, <2>1, <2>2, <2>3, Before, OpsKeep DEF Loop, Throw, ToRun, Owned, journals, history
  <2>6. StepInv'
    BY <1>13, <2>2, <2>3, Before, Fields
       DEF Loop, Throw, IInv, StepInv, Between, Executing, Copying, Critical, journals, service
  <2> QED BY <2>4, <2>5, <2>6 DEF Kept
<1>14. CASE Reconnect
  <2>1. ServiceStep /\ SendableStep /\ CommitStep
    BY <1>14, Quiet DEF Reconnect, journals
  <2>2. /\ run'.op \notin Ops /\ run'.op = NoOp /\ ~run'.again /\ run'.next = "greet" /\ run'.pending = {}
        /\ run'.done = NoCompletion /\ run'.read = NoCompletion
        /\ bg'.pc = "idle" /\ bg'.hash = 0 /\ ~bg'.fresh
        /\ ~renew
    BY <1>14, Before, Fields, Members, Values, RunValues DEF Reconnect, IInv, StepInv
  <2>3. Frame
    BY <1>14, <2>1, <2>2, Before DEF Reconnect, Frame, RunStep, ToRun, journals
  <2>4. OpsInv' /\ ReconciledFirst'
    BY <1>14, <2>1, <2>2, Before, OpsKeep, CentralAssumption DEF Reconnect, ToRun, Owned, journals, history
  <2>5. StepInv'
    BY <1>14, <2>2, Before, Fields, CentralAssumption
       DEF Reconnect, IInv, StepInv, Between, Executing, Copying, Critical, journals, service
  <2> QED BY <2>3, <2>4, <2>5 DEF Kept
<1>15. CASE ReadOutcome
  <2>1. ServiceStep /\ SendableStep /\ CommitStep
    BY <1>15, Quiet DEF ReadOutcome, Throw, journals
  <2>2. /\ run'.op = run.op /\ run'.read = run.read /\ run'.pending = run.pending
        /\ run'.done \in {run.done, run.read} /\ run'.next = run.next /\ run'.again = run.again
    <3>1. run' = run \/ run' = [run EXCEPT !.done = run.read]
      BY <1>15 DEF ReadOutcome
    <3>2. CASE run' = run
      BY <3>2
    <3>3. CASE run' = [run EXCEPT !.done = run.read]
      BY <3>3, Before, Fields, RunValues
    <3> QED BY <3>1, <3>2, <3>3
  <2>3. pc' \in {"drain", "finish", "synchronize"} /\ (gate' => gate)
    BY <1>15 DEF ReadOutcome, Throw
  <2>4. Frame
    BY <1>15, <2>1, <2>2, <2>3, Before DEF ReadOutcome, Throw, Frame, RunStep, ToRun, journals
  <2>5. OpsInv' /\ ReconciledFirst'
    BY <1>15, <2>1, <2>2, <2>3, Before, OpsKeep, CentralAssumption DEF ReadOutcome, Throw, ToRun, Owned, journals, history
  <2>6. StepInv'
    BY <1>15, <2>2, <2>3, Before, Fields, CentralAssumption
       DEF ReadOutcome, Throw, IInv, StepInv, Between, Executing, Copying, Critical, journals, service
  <2> QED BY <2>4, <2>5, <2>6 DEF Kept
<1> QED
  BY <1>1, <1>2, <1>3, <1>4, <1>5, <1>6, <1>7, <1>8, <1>9, <1>10, <1>11, <1>12, <1>13, <1>14, <1>15

LEMMA LapseKept ==
  ASSUME IInv, TypeOK', Lapse
  PROVE  Kept
<1>1. svc'.hash = svc.hash
  BY DEF Lapse, IInv, TypeOK, Rows
<1>2. ServiceStep
  BY <1>1, Before DEF Lapse, IInv, TypeOK, OpStates, Open, Outcomes, ServiceStep
<1>3. SendableStep /\ CommitStep
  BY NothingNew, NoCommit DEF Lapse, journals
<1>4. Frame
  BY <1>2, <1>3, Before DEF Lapse, Frame, RunStep, ToRun, journals
<1>5. OpsInv' /\ ReconciledFirst'
  BY <1>2, OpsKeep DEF Lapse, ToRun, Owned, journals, history
<1>6. StepInv'
  BY DEF Lapse, IInv, StepInv, Between, Executing, Copying, Critical, journals
<1> QED BY <1>4, <1>5, <1>6 DEF Kept

LEMMA QuitKept ==
  ASSUME IInv, TypeOK', Quit
  PROVE  Kept
<1>1. svc'.hash = svc.hash
  BY DEF Quit, IInv, TypeOK, Rows
<1>2. ServiceStep
  BY <1>1, Before DEF Quit, IInv, TypeOK, OpStates, Open, Outcomes, ServiceStep
<1>3. SendableStep /\ CommitStep
  BY NothingNew, NoCommit DEF Quit, Forget, journals
<1>4. Frame
  BY <1>2, <1>3, Before, Values DEF Quit, Forget, Frame, RunStep, ToRun, journals
<1>5. OpsInv' /\ ReconciledFirst'
  BY <1>2, Values, OpsKeep DEF Quit, Forget, ToRun, Owned, journals, history
<1>6. StepInv'
  BY Values, CentralAssumption
     DEF Quit, Forget, IInv, StepInv, Between, Executing, Copying, Critical, journals
<1> QED BY <1>4, <1>5, <1>6 DEF Kept

LEMMA OwnerSteps ==
  ASSUME IInv, TypeOK', NEW o \in Ops
  PROVE  /\ GiveUp(o) => Kept
         /\ Reconcile(o) => Kept
<1>1. CASE GiveUp(o)
  <2>1. ServiceStep /\ SendableStep /\ CommitStep
    BY <1>1, Quiet DEF GiveUp, journals
  <2>2. Frame
    BY <1>1, <2>1, Before DEF GiveUp, Frame, RunStep, ToRun, journals
  <2>3. OpsInv' /\ ReconciledFirst'
    BY <1>1, <2>1, OpsKeep DEF GiveUp, ToRun, Owned, journals, history
  <2>4. StepInv'
    BY <1>1
       DEF GiveUp, IInv, StepInv, Between, Executing, Copying, Critical, journals, service
  <2> QED BY <2>2, <2>3, <2>4 DEF Kept
<1>2. CASE Reconcile(o)
  <2>1. ServiceStep /\ SendableStep /\ CommitStep
    BY <1>2, Quiet DEF Reconcile
  <2>2. /\ completion'.op = o
        /\ completion'.out = "unrun" <=> executed[o] = 0
    BY <1>2 DEF Reconcile
  <2>3. ops[o] \notin {"absent", "accepted"} /\ ~ToRun(o)
    BY <1>2 DEF Reconcile, IInv, OpsInv
  <2>4. Truthful(completion')
    <3>1. ops[completion'.op] \notin {"absent", "accepted"} /\ ~ToRun(completion'.op)
      BY <2>2, <2>3
    <3>2. completion'.out = "unrun" <=> executed[completion'.op] = 0
      BY <2>2
    <3> QED BY <3>1, <3>2 DEF Truthful
  <2>5. Frame
    BY <1>2, <2>1, <2>4, Before DEF Reconcile, Frame, RunStep, ToRun
  <2>6. OpsInv' /\ ReconciledFirst'
    BY <1>2, <2>1, OpsKeep DEF Reconcile, ToRun, Owned, history
  <2>7. StepInv'
    BY <1>2 DEF Reconcile, IInv, StepInv, Between, Executing, Copying, Critical, service
  <2> QED BY <2>5, <2>6, <2>7 DEF Kept
<1> QED BY <1>1, <1>2

\* The journals of an operation.
LEMMA JournalSteps ==
  ASSUME IInv, TypeOK'
  PROVE  /\ SaveExecuting => Kept
         /\ SaveCompletion => Kept
         /\ ClearExecuting => Kept
         /\ Finish => Kept
<1>1. CASE SaveExecuting
  <2>1. ServiceStep /\ SendableStep /\ CommitStep
    BY <1>1, Quiet DEF SaveExecuting
  <2>2. Frame
    BY <1>1, <2>1, Before DEF SaveExecuting, Frame, RunStep, ToRun
  <2>3. \A o \in Ops : ~(executed[o] = 1 /\ ops[o] \in Open)
    <3>1. run.op \in Ops /\ ToRun(run.op)
      BY <1>1 DEF SaveExecuting, IInv, StepInv, Executing, ToRun
    <3>2. run.op \in In(Open) /\ executed[run.op] = 0
      BY <3>1 DEF IInv, OpsInv, In, Open
    <3> QED BY <3>2 DEF IInv, LedgerInv, In
  <2>4. OpsInv' /\ ReconciledFirst'
    BY <1>1, <2>1, <2>3, OpsKeep DEF SaveExecuting, ToRun, Owned, history
  <2>5. StepInv'
    BY <1>1
       DEF SaveExecuting, IInv, StepInv, Between, Executing, Copying, Critical, service
  <2> QED BY <2>2, <2>4, <2>5 DEF Kept
<1>2. CASE SaveCompletion
  <2>1. ServiceStep /\ SendableStep /\ CommitStep
    BY <1>2, Quiet DEF SaveCompletion
  <2>2. run.op \in Ops /\ completion' = [op |-> run.op, out |-> run.out]
    BY <1>2 DEF SaveCompletion, IInv, StepInv, Executing
  <2>3. completion' \in Completions
    BY <2>2, Before, Fields, Members
  <2>4. /\ run'.op = run.op /\ run'.read = run.read /\ run'.pending = run.pending
        /\ run'.done = completion' /\ run'.next = "clear" /\ run'.again = run.again
    BY <1>2, <2>3, Before, RunValues DEF SaveCompletion
  <2>5. Truthful(completion')
    BY <1>2, <2>2 DEF SaveCompletion, Truthful, ToRun, IInv, OpsInv
  <2>6. Frame
    BY <1>2, <2>1, <2>4, <2>5, Before DEF SaveCompletion, Frame, RunStep, ToRun
  <2>7. OpsInv' /\ ReconciledFirst'
    BY <1>2, <2>1, <2>4, OpsKeep DEF SaveCompletion, ToRun, Owned, history
  <2>8. StepInv'
    BY <1>2, <2>2, <2>4
       DEF SaveCompletion, IInv, StepInv, Between, Executing, Copying, Critical, service
  <2> QED BY <2>6, <2>7, <2>8 DEF Kept
<1>3. CASE ClearExecuting
  <2>1. ServiceStep /\ SendableStep /\ CommitStep
    BY <1>3, Quiet DEF ClearExecuting
  <2>2. Frame
    BY <1>3, <2>1, Before, Values DEF ClearExecuting, Frame, RunStep, ToRun
  <2>3. run.op \in Ops /\ ops[run.op] \in Outcomes /\ executing = run.op
    BY <1>3 DEF ClearExecuting, IInv, StepInv, Executing
  <2>4. \A o \in Ops : ~(executed[o] = 1 /\ ops[o] \in Open)
    BY <2>3 DEF IInv, OpsInv, Open, Outcomes
  <2>5. \A o \in Ops : ops[o] = "started" /\ Owned(o) => Owned(o)'
    BY <1>3, <2>3 DEF ClearExecuting, Owned, Outcomes
  <2>6. OpsInv' /\ ReconciledFirst'
    BY <1>3, <2>1, <2>4, <2>5, Values, OpsKeep DEF ClearExecuting, ToRun, history
  <2>7. StepInv'
    BY <1>3, Values, CentralAssumption
       DEF ClearExecuting, IInv, StepInv, Between, Executing, Copying, Critical, service
  <2> QED BY <2>2, <2>6, <2>7 DEF Kept
<1>4. CASE Finish
  <2> DEFINE left == run.pending \ {run.known}
  <2>1. ServiceStep /\ SendableStep /\ CommitStep
    BY <1>4, Quiet DEF Finish
  <2>2. run' = run \/ run' = [run EXCEPT !.done = NoCompletion, !.next = "greet"]
    BY <1>4 DEF Finish
  <2>3. /\ run'.op = run.op /\ run'.read = run.read /\ run'.pending = run.pending
        /\ run'.done \in {run.done, NoCompletion} /\ run'.next \in {run.next, "greet"}
    <3>1. CASE run' = run
      BY <3>1
    <3>2. CASE run' = [run EXCEPT !.done = NoCompletion, !.next = "greet"]
      BY <3>2, Before, Members, RunValues
    <3> QED BY <2>2, <3>1, <3>2
  <2>4. uncertain' = left /\ pc' \in {"drain", "synchronize", "greet"} /\ (gate' => gate)
    BY <1>4 DEF Finish, Throw
  <2>5. pc' = "synchronize" => run'.next = "greet"
    <3>1. pc' = "synchronize" => run' = [run EXCEPT !.done = NoCompletion, !.next = "greet"]
      BY <1>4 DEF Finish, Throw
    <3>2. [run EXCEPT !.done = NoCompletion, !.next = "greet"].next = "greet"
      BY Before, Members, RunValues
    <3> QED BY <3>1, <3>2
  <2>6. Truthful(completion')
    <3>1. \/ completion' \in {NoCompletion, completion}
          \/ \E o \in left \ {executing} : completion' = [op |-> o, out |-> "unrun"]
      BY <1>4 DEF Finish
    <3>2. ASSUME NEW o \in left \ {executing}, completion' = [op |-> o, out |-> "unrun"]
          PROVE  Truthful(completion')
      <4>1. o \in Ops
        BY Before, Fields
      <4>2. ops[o] \notin {"absent", "accepted"} /\ ~ToRun(o)
        BY <1>4 DEF Finish, ToRun, IInv, OpsInv
      <4>3. ops[o] \in Open => executed[o] = 0
        BY <4>1 DEF IInv, OpsInv, LedgerInv
      <4> QED BY <3>2, <4>2, <4>3 DEF Truthful
    <3> QED BY <3>1, <3>2, Before
  <2>7. Frame
    BY <1>4, <2>1, <2>3, <2>4, <2>6, Before DEF Finish, Frame, RunStep, ToRun
  <2>8. OpsInv' /\ ReconciledFirst'
    BY <1>4, <2>1, <2>3, <2>4, OpsKeep DEF Finish, ToRun, Owned, history, IInv, StepInv, Between
  <2>9. StepInv'
    BY <1>4, <2>3, <2>4, <2>5, CentralAssumption
       DEF Finish, IInv, StepInv, Between, Executing, Copying, Critical, service
  <2> QED BY <2>7, <2>8, <2>9 DEF Kept
<1> QED BY <1>1, <1>2, <1>3, <1>4

\* A new publication has an id of its own; its outcome is true and its snapshot is
\* not ahead of the desktop's data.
LEMMA NewPublicationIsSendable ==
  ASSUME IInv, UNCHANGED <<service, stray>>, NEW h \in Contents, NEW c \in Completions,
         Truthful(c), state <= h, h <= content, c # NoCompletion => effect[c.op] <= h,
         publication' = NewPublication(h, c)
  PROVE  SendableStep /\ publication'.done = c
<1>1. /\ publication'.id = NewId /\ publication'.base = state
      /\ publication'.hash = h /\ publication'.done = c
  BY DEF NewPublication
<1>2. NewId \in Nat /\ NewId \notin UsedIds
  BY NewIdIsFresh DEF IInv
<1>3. publication' \in Publications
  BY <1>2, PublicationRecord DEF NewPublication, IInv, TypeOK
<1>4. NewId \notin commits'
  BY <1>2 DEF UsedIds, service
<1>5. \A p \in Sendable' : p \in Sendable \/ p = publication'
  BY DEF Sendable, Published
<1> QED BY <1>1, <1>2, <1>3, <1>4, <1>5 DEF SendableStep

LEMMA PublishCommits ==
  ASSUME IInv, NEW p \in Sendable, ServePublish(p)
  PROVE  CommitStep
<1> SUFFICES ASSUME NEW q \in Sendable, q.id \in commits', q.id \notin commits,
                    q.done # NoCompletion
             PROVE  ops'[q.done.op] \in Outcomes
  BY DEF CommitStep
<1>1. q.id = p.id
  BY PublishIsServiceStep
<1>2. q.done = p.done
  BY <1>1 DEF IInv, JournalInv
<1> QED BY <1>2, PublishIsServiceStep

\* The steps that prepare a publication.
LEMMA PreparingSteps ==
  ASSUME IInv, TypeOK'
  PROVE  /\ Synchronize => Kept
         /\ BackgroundSave => Kept
<1>1. CASE Synchronize
  <2>1. ServiceStep /\ CommitStep
    BY <1>1, ServiceUnchanged, NoCommit DEF Synchronize, service
  <2>2. /\ SendableStep
        /\ pc' = "publish" => publication'.done = run.done
    <3>1. CASE publication' = publication /\ pc' # "publish"
      BY <1>1, <3>1, NothingNew DEF Synchronize
    <3>2. CASE publication' = NewPublication(content, run.done)
      <4>1. content \in Contents /\ run.done \in Completions
        BY Fields DEF IInv, TypeOK
      <4>2. run.done # NoCompletion => effect[run.done.op] <= content
        BY <4>1, Fields DEF IInv, CopyInv
      <4> QED BY <1>1, <3>2, <4>1, <4>2, Before, NewPublicationIsSendable DEF Synchronize
    <3>3. run.next # "publish"
      BY Before, Fields
    <3> QED BY <1>1, <3>1, <3>2, <3>3 DEF Synchronize, Throw
  <2>3. pc' \in {"drain", "publish"} \/ (pc' = run.next /\ run.done = NoCompletion)
    BY <1>1 DEF Synchronize, Throw
  <2>4. run.next \in {"greet", "finish", "clear"} /\ (gate' => gate)
    BY <1>1, Before, Fields DEF Synchronize, Throw
  <2>5. Frame
    BY <1>1, <2>1, <2>2, <2>3, <2>4, Before DEF Synchronize, Frame, RunStep, ToRun, IInv, StepInv
  <2>6. OpsInv' /\ ReconciledFirst'
    BY <1>1, <2>1, <2>3, <2>4, OpsKeep DEF Synchronize, ToRun, Owned, history, IInv, StepInv, Copying
  <2>7. run.done = NoCompletion => run.done.op \notin Ops
    BY CentralAssumption DEF NoCompletion
  <2>8. StepInv'
    BY <1>1, <2>2, <2>3, <2>4, <2>7, Before, Fields, CentralAssumption
       DEF Synchronize, IInv, StepInv, Between, Executing, Copying, Critical, service
  <2> QED BY <2>5, <2>6, <2>8 DEF Kept
<1>2. CASE BackgroundSave
  <2>1. ServiceStep /\ CommitStep
    BY <1>2, ServiceUnchanged, NoCommit DEF BackgroundSave, service
  <2>2. SendableStep /\ (publication' = publication \/ bg.fresh)
    <3>1. CASE publication' = publication
      BY <1>2, <3>1, NothingNew DEF BackgroundSave
    <3>2. CASE bg.fresh /\ publication' = NewPublication(bg.hash, NoCompletion)
      <4>1. bg.hash \in Contents /\ NoCompletion \in Completions
        BY Members, Before, Fields
      <4> QED BY <1>2, <3>2, <4>1, Before, NewPublicationIsSendable DEF BackgroundSave
    <3> QED BY <1>2, <3>1, <3>2 DEF BackgroundSave
  <2>3. bg'.pc \in {"idle", "publish"} /\ bg'.hash <= content
    <3>1. CASE bg' = [bg EXCEPT !.pc = "publish"]
      BY <3>1, Before, Members, Values
    <3>2. CASE bg' = BackgroundDone(bg.fresh)
      BY <3>2, Before, Members, Values DEF BackgroundDone
    <3> QED BY <1>2, <3>1, <3>2 DEF BackgroundSave
  <2>4. bg'.pc = "publish" => bg.fresh /\ bg'.fresh
    <3>1. CASE bg.fresh /\ bg' = [bg EXCEPT !.pc = "publish"]
      BY <3>1, Before, Members, Values
    <3>2. CASE bg' = BackgroundDone(bg.fresh)
      BY <3>2, Before, Members, Values DEF BackgroundDone
    <3> QED BY <1>2, <3>1, <3>2 DEF BackgroundSave
  <2>5. bg'.fresh => bg.fresh
    <3>1. CASE bg.fresh
      BY <3>1
    <3>2. CASE bg' = BackgroundDone(bg.fresh)
      BY <3>2, Before, Members, Values DEF BackgroundDone
    <3> QED BY <1>2, <3>1, <3>2 DEF BackgroundSave
  <2>6. Frame
    BY <1>2, <2>1, <2>2, <2>3, Before DEF BackgroundSave, Frame, RunStep, ToRun
  <2>7. OpsInv' /\ ReconciledFirst'
    BY <1>2, <2>1, OpsKeep DEF BackgroundSave, ToRun, Owned, history
  <2>8. StepInv'
    BY <1>2, <2>2, <2>3, <2>4, <2>5
       DEF BackgroundSave, IInv, StepInv, Between, Executing, Copying, Critical, service
  <2> QED BY <2>6, <2>7, <2>8 DEF Kept
<1> QED BY <1>1, <1>2

\* Heartbeats.
LEMMA HeartbeatSteps ==
  ASSUME IInv, TypeOK'
  PROVE  /\ Heartbeat => Kept
         /\ Renew => Kept
<1>1. CASE Heartbeat
  <2>1. \A r \in stray' : r \in stray \/ r = HeartbeatRequest
    BY <1>1 DEF Heartbeat, GivenUp
  <2>2. SendableStep /\ CommitStep
    BY <1>1, <2>1, NothingNew, NoCommit
       DEF Heartbeat, GivenUp, HeartbeatRequest, journals, ServeBeat, service
  <2>3. ServiceStep
    BY <1>1, BeatIsServiceStep, ServiceUnchanged DEF Heartbeat, GivenUp
  <2>4. run' \in {run, NoRun} /\ pc' \in {"loop", "drain"} /\ (pc' = "loop" => run' = NoRun)
    BY <1>1 DEF Heartbeat, Throw, GivenUp
  <2>5. run.op = NoOp /\ NoOp \notin Ops /\ NoRun.op = NoOp
    BY <1>1, CentralAssumption, Values DEF Heartbeat, IInv, StepInv, Between
  <2>6. Frame
    BY <1>1, <2>2, <2>3, <2>4, Before, Values DEF Heartbeat, Frame, RunStep, ToRun, journals
  <2>7. \A o \in Ops : ~Owned(o)
    BY <1>1, <2>5 DEF Heartbeat, Owned
  <2>8. OpsInv' /\ ((gate' => gate) => ReconciledFirst')
    BY <1>1, <2>3, <2>4, <2>5, <2>7, Values, OpsKeep DEF Heartbeat, ToRun, journals, history
  <2>9. ReconciledFirst'
    BY <1>1, <2>7, <2>8, BeatIsReconciled DEF Heartbeat, Throw, history
  <2>10. StepInv'
    BY <1>1, <2>4, <2>5, Values
       DEF Heartbeat, Throw, IInv, StepInv, Between, Executing, Copying, Critical, journals
  <2> QED BY <2>6, <2>8, <2>9, <2>10 DEF Kept
<1>2. CASE Renew
  <2>1. \A r \in stray' : r \in stray \/ r = HeartbeatRequest
    BY <1>2 DEF Renew, GivenUp
  <2>2. SendableStep /\ CommitStep
    <3>1. HeartbeatRequest.type # "publish"
      BY DEF HeartbeatRequest
    <3>2. UNCHANGED <<commits, publication>>
      BY <1>2 DEF Renew, GivenUp, journals, ServeBeat, service
    <3> QED BY <2>1, <3>1, <3>2, NothingNew, NoCommit
  <2>3. ServiceStep
    BY <1>2, BeatIsServiceStep, ServiceUnchanged DEF Renew, GivenUp
  <2>4. Frame
    BY <1>2, <2>2, <2>3, Before DEF Renew, Frame, RunStep, ToRun, journals
  <2>5. OpsInv' /\ ((gate' => gate) => ReconciledFirst')
    BY <1>2, <2>3, OpsKeep DEF Renew, RenewalEnds, ToRun, Owned, journals, history
  <2>6. ReconciledFirst'
    <3>1. CASE ~gate'
      BY <2>5, <3>1
    <3>2. CASE gate'
      <4>1. BeatAccepted(state) /\ ServeBeat /\ run.op = NoOp
        BY <1>2, <3>2 DEF Renew, RenewalEnds, Operating
      <4>2. \A o \in Ops : ~Owned(o)
        BY <1>2, <4>1, CentralAssumption DEF Renew, Owned
      <4> QED BY <1>2, <4>1, <4>2, BeatIsReconciled DEF Renew, history
    <3> QED BY <3>1, <3>2
  <2>7. pc = "execute" => ~gate'
    BY <1>2, CentralAssumption
       DEF Renew, RenewalEnds, Operating, IInv, StepInv, Executing
  <2>8. renew' => renew
    BY <1>2 DEF Renew
  <2>9. \A o \in Ops : ops[o] \in Outcomes => ops'[o] \in Outcomes
    BY <2>3 DEF ServiceStep
  <2>10. StepInv'
    BY <1>2, <2>7, <2>8, <2>9
       DEF Renew, IInv, StepInv, Between, Executing, Copying, Critical, journals
  <2> QED BY <2>4, <2>5, <2>6, <2>10 DEF Kept
<1> QED BY <1>1, <1>2

\* connect()'s begin.
LEMMA BeginKept ==
  ASSUME IInv, TypeOK', Begin
  PROVE  Kept
<1>1. \A r \in stray' : r \in stray \/ r = BeginRequest
  BY DEF Begin, ServeBegin, GivenUp
<1>2. SendableStep /\ CommitStep
  <2>1. BeginRequest.type # "publish"
    BY DEF BeginRequest
  <2>2. UNCHANGED <<commits, publication>>
    BY DEF Begin, ServeBegin, GivenUp, journals, service
  <2> QED BY <1>1, <2>1, <2>2, NothingNew, NoCommit
<1>3. ServiceStep
  BY BeginIsServiceStep, ServiceUnchanged DEF Begin, GivenUp
<1>4. pc = "begin" /\ run.op = NoOp /\ NoOp \notin Ops /\ ~renew /\ ~bg.fresh /\ ~Critical
  BY CentralAssumption DEF Begin, IInv, StepInv, Between
<1>5. CASE Throw /\ UNCHANGED <<run, state>>
  <2>1. Frame
    BY <1>2, <1>3, <1>4, <1>5, Before DEF Begin, Throw, Frame, RunStep, ToRun, journals
  <2>2. OpsInv' /\ ReconciledFirst'
    BY <1>3, <1>4, <1>5, OpsKeep DEF Begin, Throw, ToRun, Owned, journals, history
  <2>3. StepInv'
    BY <1>4, <1>5, Before, Fields
       DEF Begin, Throw, IInv, StepInv, Between, Executing, Copying, Critical, journals
  <2> QED BY <2>1, <2>2, <2>3 DEF Kept
<1>6. CASE ServeBegin(TRUE) /\ Connected
  <2> DEFINE new == [NoRun EXCEPT !.read = completion,
                                  !.known = IF publication.done # NoCompletion
                                            THEN publication.done.op ELSE completion.op,
                                  !.pending = {o \in Ops : Disconnected[o] = "unknown"},
                                  !.again = publication # NoPublication,
                                  !.next = "finish"]
  <2>1. run' = new /\ state' = svc.hash /\ ops' = Disconnected
    BY <1>6 DEF Connected, ServeBegin
  <2>2. /\ run'.op = NoOp /\ run'.read = completion /\ run'.done = NoCompletion
        /\ run'.pending = {o \in Ops : ops'[o] = "unknown"} /\ run'.next = "finish"
    BY <2>1 DEF NoRun
  <2>3. pc' \in {"drain", "publish", "settle", "finish"} /\ (gate' => gate)
    BY <1>6 DEF Connected, Throw
  <2>4. Frame
    BY <1>2, <1>3, <1>4, <2>1, <2>2, <2>3, Before DEF Begin, Frame, RunStep, ToRun, journals
  <2>5. \A o \in Ops : ~ToRun(o)' /\ ops'[o] # "started"
    BY <1>4, <2>1, <2>2 DEF ToRun, Disconnected
  <2>6. \A o \in uncertain' \cup run'.pending : ops'[o] \notin {"absent", "accepted", "started"}
    <3>1. \A o \in uncertain : o \in Ops
      BY DEF IInv, TypeOK
    <3> QED BY <1>3, <2>2, <3>1 DEF Begin, IInv, OpsInv, ServiceStep
  <2>7. \A o \in Ops : executed'[o] = 1 /\ ops'[o] \in Open => executing' = o
    BY <1>3 DEF Begin, journals, history, IInv, OpsInv, ServiceStep
  <2>8. OpsInv'
    BY <2>3, <2>5, <2>6, <2>7 DEF OpsInv
  <2>9. ReconciledFirst'
    BY <1>3, <2>3 DEF Begin, history, IInv, ReconciledFirst, ServiceStep
  <2>10. StepInv'
    BY <1>4, <2>2, <2>3
       DEF Begin, IInv, StepInv, Between, Executing, Copying, Critical, journals
  <2> QED BY <2>4, <2>8, <2>9, <2>10 DEF Kept
<1> QED BY <1>5, <1>6 DEF Begin

\* Publications.
LEMMA PublishKept ==
  ASSUME IInv, TypeOK', Publish
  PROVE  Kept
<1>1. publication \in Publications
  BY DEF IInv, TypeOK
<1>2. CASE ServePublish(publication) /\ state' = publication.hash /\ pc' = "receipt"
           /\ UNCHANGED <<stray, publication, run, online, gate>>
  <2>1. ServiceStep /\ CommitStep
    BY <1>2, Before, PublishIsServiceStep, PublishCommits
  <2>2. SendableStep
    BY <1>2, NothingNew
  <2>3. Frame
    BY <1>2, <2>1, <2>2, Before DEF Publish, Frame, RunStep, ToRun, IInv, StepInv
  <2>4. OpsInv' /\ ReconciledFirst'
    BY <1>2, <2>1, OpsKeep DEF Publish, ToRun, Owned, history
  <2>5. run.next = "clear" => ops'[run.op] \in Outcomes
    <3>1. run.next = "clear" => run.op \in Ops /\ publication.done.op = run.op
      BY DEF Publish, IInv, StepInv, Copying
    <3>2. run.next = "clear" => publication.done # NoCompletion
      BY <1>1, <3>1, Fields
    <3> QED BY <1>2, <3>1, <3>2, Before, PublishIsServiceStep
  <2>6. StepInv'
    BY <1>2, <2>5
       DEF Publish, IInv, StepInv, Between, Executing, Copying, Critical
  <2> QED BY <2>3, <2>4, <2>6 DEF Kept
<1>3. CASE /\ run.again /\ run' = [run EXCEPT !.again = FALSE, !.done = publication.done]
           /\ publication' = NoPublication /\ pc' = "synchronize"
           /\ UNCHANGED <<service, stray, state, online, gate>>
  <2>1. ServiceStep /\ SendableStep /\ CommitStep
    BY <1>3, Quiet
  <2>2. /\ run'.op = run.op /\ run'.read = run.read /\ run'.pending = run.pending
        /\ run'.done = publication.done /\ run'.next = run.next /\ ~run'.again
    BY <1>1, <1>3, Before, Fields, RunValues
  <2>3. run.next # "clear" /\ run.op \notin Ops
    BY <1>3 DEF Publish, IInv, StepInv, Copying
  <2>4. Frame
    BY <1>3, <2>1, <2>2, Before DEF Publish, Frame, RunStep, ToRun
  <2>5. OpsInv' /\ ReconciledFirst'
    BY <1>3, <2>1, <2>2, OpsKeep DEF Publish, ToRun, Owned, history
  <2>6. StepInv'
    BY <1>3, <2>2, <2>3
       DEF Publish, IInv, StepInv, Between, Executing, Copying, Critical
  <2> QED BY <2>4, <2>5, <2>6 DEF Kept
<1>4. CASE Throw /\ UNCHANGED <<service, publication, run, state>>
           /\ (UNCHANGED stray \/ stray' = stray \cup {PublishRequest(publication)})
  <2>1. ServiceStep /\ CommitStep
    BY <1>4, ServiceUnchanged, NoCommit DEF service
  <2>2. SendableStep
    BY <1>4, NothingNew
  <2>3. Frame
    BY <1>4, <2>1, <2>2, Before DEF Publish, Throw, Frame, RunStep, ToRun
  <2>4. OpsInv' /\ ReconciledFirst'
    BY <1>4, <2>1, OpsKeep DEF Publish, Throw, ToRun, Owned, history
  <2>5. StepInv'
    BY <1>4
       DEF Publish, Throw, IInv, StepInv, Between, Executing, Copying, Critical, service
  <2> QED BY <2>3, <2>4, <2>5 DEF Kept
<1> QED BY <1>2, <1>3, <1>4 DEF Publish, GivenUp

LEMMA BackgroundPublishKept ==
  ASSUME IInv, TypeOK', BackgroundPublish
  PROVE  Kept
<1>1. UNCHANGED <<content, journals, pc, run, gate, renew, actions, uncertain, history>>
      /\ bg.pc = "publish"
  BY DEF BackgroundPublish
<1>2. CASE /\ ServePublish(publication) /\ state' = publication.hash
           /\ bg' = [bg EXCEPT !.pc = "receipt"] /\ UNCHANGED stray
  <2>1. ServiceStep /\ CommitStep
    BY <1>2, Before, PublishIsServiceStep, PublishCommits
  <2>2. SendableStep
    BY <1>1, <1>2, NothingNew DEF journals
  <2>3. bg'.pc = "receipt" /\ bg'.hash = bg.hash
    BY <1>2, Before, Members, Values
  <2>4. bg'.fresh => bg.fresh
    BY <1>2, Before, Members, Values
  <2>5. Frame
    BY <1>1, <1>2, <2>1, <2>2, <2>3, Before DEF Frame, RunStep, ToRun, journals
  <2>6. OpsInv' /\ ReconciledFirst'
    BY <1>1, <2>1, OpsKeep DEF ToRun, Owned, journals, history
  <2>7. \A o \in Ops : ops[o] \in Outcomes => ops'[o] \in Outcomes
    BY <2>1 DEF ServiceStep
  <2>8. StepInv'
    BY <1>1, <2>3, <2>4, <2>7
       DEF IInv, StepInv, Between, Executing, Copying, Critical, journals
  <2> QED BY <2>5, <2>6, <2>8 DEF Kept
<1>3. CASE /\ bg' = BackgroundDone(TRUE) /\ UNCHANGED <<service, state>>
           /\ (UNCHANGED stray \/ stray' = stray \cup {PublishRequest(publication)})
  <2>1. ServiceStep /\ CommitStep
    BY <1>3, ServiceUnchanged, NoCommit DEF service
  <2>2. SendableStep
    BY <1>1, <1>3, NothingNew DEF journals
  <2>3. bg'.pc = "idle" /\ bg'.hash = 0 /\ ~bg'.fresh
    BY <1>3, Values DEF BackgroundDone
  <2>4. Frame
    BY <1>1, <1>3, <2>1, <2>2, <2>3, Before DEF Frame, RunStep, ToRun, journals
  <2>5. OpsInv' /\ ReconciledFirst'
    BY <1>1, <2>1, OpsKeep DEF ToRun, Owned, journals, history
  <2>6. StepInv'
    BY <1>1, <1>3, <2>3
       DEF IInv, StepInv, Between, Executing, Copying, Critical, journals, service
  <2> QED BY <2>4, <2>5, <2>6 DEF Kept
<1> QED BY <1>2, <1>3 DEF BackgroundPublish, GivenUp

\* Claims.
LEMMA ClaimKept ==
  ASSUME IInv, TypeOK', Claim
  PROVE  Kept
<1>1. pc = "claim" /\ run.op = NoOp /\ NoOp \notin Ops /\ ~run.again
  BY CentralAssumption DEF Claim, IInv, StepInv, Between
<1>2. UNCHANGED <<content, journals, state, renew, actions, uncertain, history>>
  BY DEF Claim
<1>3. \A o \in Ops : ~Owned(o)
  BY <1>1 DEF Owned
<1>4. ASSUME NEW o \in Claimable, ServeClaim(o, "started"), pc' = "claimed",
             run' = [run EXCEPT !.op = o], bg' = [bg EXCEPT !.fresh = FALSE],
             UNCHANGED <<online, gate, stray, faults>>
      PROVE  Kept
  <2>1. o \in Ops /\ ops[o] = "accepted"
    BY <1>4 DEF Claimable, In
  <2>2. ServiceStep /\ SendableStep /\ CommitStep
    BY <1>2, <1>4, ClaimIsServiceStep, NothingNew, NoCommit DEF journals, ServeClaim
  <2>3. /\ run'.op = o /\ run'.read = run.read /\ run'.pending = run.pending
        /\ run'.done = run.done /\ run'.next = run.next /\ ~run'.again
    BY <1>1, <1>4, Before, Members, RunValues
  <2>4. bg'.pc = bg.pc /\ bg'.hash = bg.hash /\ ~bg'.fresh
    BY <1>4, Before, Members, Values
  <2>5. Frame
    BY <1>2, <1>4, <2>1, <2>2, <2>3, <2>4, Before DEF Frame, RunStep, ToRun, journals
  <2>6. ops'[o] = "started"
    BY <1>4, <2>1 DEF ServeClaim, IInv, TypeOK
  <2>7. executed[o] = 0
    BY <2>1 DEF IInv, LedgerInv
  <2>8. o \notin uncertain
    BY <2>1 DEF IInv, OpsInv
  <2>9. \A p \in Ops : ToRun(p)' => p = o
    BY <2>3 DEF ToRun
  <2>10. \A p \in uncertain' \cup run'.pending : ops'[p] \notin {"absent", "accepted", "started"}
    <3>1. \A p \in uncertain \cup run.pending : p \in Ops
      BY Fields DEF IInv, TypeOK
    <3> QED BY <1>2, <2>2, <2>3, <3>1 DEF IInv, OpsInv, ServiceStep
  <2>11. \A p \in Ops : executed'[p] = 1 /\ ops'[p] \in Open => executing' = p
    BY <1>2, <2>2 DEF journals, history, IInv, OpsInv, ServiceStep
  <2>12. \A p \in Ops : executed'[p] = 1 => ops'[p] # "started"
    <3>1. \A p \in Ops : executed[p] = 1 => ops[p] \notin {"accepted", "started"}
      BY <1>3 DEF IInv, OpsInv, LedgerInv
    <3> QED BY <1>2, <2>2, <3>1 DEF history, ServiceStep
  <2>13. OpsInv'
    BY <1>2, <1>4, <2>6, <2>7, <2>8, <2>9, <2>10, <2>11, <2>12 DEF OpsInv, history
  <2>14. ReconciledFirst'
    BY <1>2, <1>4, <2>2 DEF history, IInv, ReconciledFirst, ServiceStep
  <2>15. StepInv'
    BY <1>1, <1>2, <1>4, <2>1, <2>3, <2>4
       DEF Claim, IInv, StepInv, Between, Executing, Copying, Critical, journals
  <2> QED BY <2>5, <2>13, <2>14, <2>15 DEF Kept
<1>5. CASE /\ NothingClaimed /\ UNCHANGED stray
           /\ UNCHANGED service \/ \E o \in Claimable : ServeClaim(o, "unrun")
  <2>1. ServiceStep /\ SendableStep /\ CommitStep
    BY <1>2, <1>5, ServiceUnchanged, ClaimIsServiceStep, NothingNew, NoCommit
       DEF journals, ServeClaim, service
  <2>2. /\ bg'.pc \in {bg.pc, "snapshot"} /\ bg'.hash = bg.hash
        /\ bg'.pc = "save" => bg' = bg
    <3>1. CASE bg' = bg
      BY <3>1
    <3>2. CASE bg' = [bg EXCEPT !.pc = "snapshot", !.fresh = TRUE]
      BY <3>2, Before, Members, Values
    <3> QED BY <1>5, <3>1, <3>2 DEF NothingClaimed
  <2>3. pc' = "loop" /\ UNCHANGED <<run, online, gate>>
    BY <1>5 DEF NothingClaimed
  <2>4. Frame
    BY <1>2, <2>1, <2>2, <2>3, Before DEF Frame, RunStep, ToRun, journals
  <2>5. OpsInv' /\ ReconciledFirst'
    BY <1>2, <1>3, <2>1, <2>3, OpsKeep DEF ToRun, journals, history
  <2>6. StepInv'
    BY <1>1, <1>2, <2>2, <2>3
       DEF IInv, StepInv, Between, Executing, Copying, Critical, journals
  <2> QED BY <2>4, <2>5, <2>6 DEF Kept
<1>6. CASE /\ Throw /\ UNCHANGED <<service, run, bg>>
           /\ UNCHANGED stray \/ stray' = stray \cup {ClaimRequest}
  <2>1. ClaimRequest.type # "publish"
    BY DEF ClaimRequest
  <2>2. ServiceStep /\ SendableStep /\ CommitStep
    BY <1>2, <1>6, <2>1, ServiceUnchanged, NothingNew, NoCommit DEF journals, service
  <2>3. Frame
    BY <1>2, <1>6, <2>2, Before DEF Throw, Frame, RunStep, ToRun, journals
  <2>4. OpsInv' /\ ReconciledFirst'
    BY <1>2, <1>3, <1>6, <2>2, OpsKeep DEF Throw, ToRun, journals, history
  <2>5. StepInv'
    BY <1>1, <1>2, <1>6
       DEF Throw, IInv, StepInv, Between, Executing, Copying, Critical, journals, service
  <2> QED BY <2>3, <2>4, <2>5 DEF Kept
<1> QED BY <1>4, <1>5, <1>6 DEF Claim, GivenUp

\* Requests that arrive late.
LEMMA DeliverKept ==
  ASSUME IInv, TypeOK', NEW r \in stray, Deliver(r)
  PROVE  Kept
<1>1. UNCHANGED <<content, journals, pc, run, state, online, gate, renew, bg, actions, uncertain,
                  faults, history>>
  BY DEF Deliver
<1>2. r.type \in {"begin", "heartbeat", "claim", "publish"}
  BY DEF IInv, TypeOK, Requests
<1>3. stray' \subseteq stray
  BY <1>2 DEF Deliver, ServeBegin
<1>4. SendableStep
  BY <1>1, <1>3, NothingNew DEF journals
<1>5. ServiceStep /\ CommitStep
  <2>1. CASE r.type = "begin"
    BY <2>1, BeginIsServiceStep, NoCommit DEF Deliver, ServeBegin
  <2>2. CASE r.type = "heartbeat"
    BY <2>2, BeatIsServiceStep, NoCommit DEF Deliver, ServeBeat
  <2>3. CASE r.type = "claim"
    BY <2>3, ClaimIsServiceStep, NoCommit DEF Deliver, ServeClaim
  <2>4. CASE r.type = "publish"
    <3>1. r.publication \in Sendable
      BY <2>4 DEF Sendable, Published
    <3>2. ServePublish(r.publication)
      BY <2>4 DEF Deliver
    <3> QED BY <3>1, <3>2, PublishIsServiceStep, PublishCommits
  <2> QED BY <1>2, <2>1, <2>2, <2>3, <2>4
<1>6. Frame
  BY <1>1, <1>4, <1>5, Before DEF Frame, RunStep, ToRun, journals
<1>7. OpsInv' /\ ReconciledFirst'
  BY <1>1, <1>5, OpsKeep DEF ToRun, Owned, journals, history
<1>8. \A o \in Ops : ops[o] \in Outcomes => ops'[o] \in Outcomes
  BY <1>5 DEF ServiceStep
<1>9. StepInv'
  BY <1>1, <1>8
     DEF IInv, StepInv, Between, Executing, Copying, Critical, journals
<1> QED BY <1>6, <1>7, <1>9 DEF Kept

-----------------------------------------------------------------------------
(* Commands start and run                                                  *)

LEMMA SubmitKeeps ==
  ASSUME IInv, TypeOK', NEW o \in Ops, Submit(o)
  PROVE  StepInv' /\ LedgerInv' /\ OpsInv' /\ JournalInv' /\ CopyInv' /\ AppliedIsVisible'
         /\ ReconciledFirst'
<1>1. /\ ops[o] = "absent" /\ ops'[o] = "accepted" /\ \A p \in Ops \ {o} : ops'[p] = ops[p]
      /\ \A p \in Ops : ops[p] \notin Open
  BY DEF Submit, In, IInv, TypeOK
<1>2. UNCHANGED <<svc, held, commits, stray, content, journals, pc, run, state, online, gate, renew,
                  bg, uncertain, faults, history>>
  BY DEF Submit
<1>3. executed[o] = 0 /\ \A p \in Ops : ~ToRun(p)
  BY <1>1 DEF IInv, LedgerInv, OpsInv, Open
<1>4. StepInv'
  BY <1>1, <1>2 DEF IInv, StepInv, Between, Executing, Copying, Critical, journals, Outcomes
<1>5. LedgerInv'
  <2>1. \A p \in Ops : ops'[p] \in Open => p = o
    BY <1>1
  <2>2. \A p, q \in In(Open)' : p = q
    BY <2>1 DEF In
  <2>3. \A p \in Ops : executed'[p] = executed[p]
    BY <1>2 DEF history
  <2> QED BY <1>1, <1>3, <2>2, <2>3 DEF IInv, LedgerInv
<1>6. OpsInv'
  <2>1. \A p \in Ops : ~ToRun(p)'
    BY <1>2, <1>3 DEF ToRun
  <2>2. pc' = "journal" => /\ ops'[run'.op] \notin {"absent", "accepted"}
                           /\ run'.out = "unrun" <=> executed'[run'.op] = 0
    <3>1. pc = "journal" => run.op \in Ops /\ run.op # o
      BY <1>1 DEF IInv, StepInv, Executing, OpsInv
    <3> QED BY <1>1, <1>2, <3>1 DEF IInv, OpsInv, history
  <2>3. \A p \in uncertain' \cup run'.pending : ops'[p] \notin {"absent", "accepted", "started"}
    <3>1. \A p \in uncertain \cup run.pending : p \in Ops \ {o}
      BY <1>1, Fields DEF IInv, TypeOK, OpsInv
    <3> QED BY <1>1, <1>2, <3>1 DEF IInv, OpsInv
  <2>4. \A p \in Ops : ops'[p] \in Open => executed'[p] # 1 /\ ops'[p] # "started"
    BY <1>1, <1>2, <1>3 DEF history
  <2> QED BY <2>1, <2>2, <2>3, <2>4 DEF OpsInv, Open
<1>7. JournalInv'
  <2>1. ASSUME NEW c \in Completions, Truthful(c)
        PROVE  Truthful(c)'
    <3>1. c # NoCompletion => c.op \in Ops \ {o}
      BY <1>1, <2>1, Fields DEF Truthful
    <3> QED BY <1>1, <1>2, <2>1, <3>1 DEF Truthful, ToRun, history
  <2>2. /\ completion' \in Completions /\ completion' = completion
        /\ run'.done \in Completions /\ run'.done = run.done
        /\ run'.read \in Completions /\ run'.read = run.read
    BY <1>2, Before, Fields DEF IInv, TypeOK, journals
  <2>3. \A c \in {completion', run'.done, run'.read} : Truthful(c)'
    BY <2>1, <2>2, Before
  <2>4. Sendable' = Sendable
    BY <1>2 DEF Sendable, Published, journals
  <2>5. \A p \in Sendable' : Truthful(p.done)'
    BY <2>1, <2>4, SendableTypes
  <2>6. \A p \in Sendable' : p.id \in commits' /\ p.done # NoCompletion =>
                               ops'[p.done.op] \in Outcomes
    <3> SUFFICES ASSUME NEW p \in Sendable, p.id \in commits, p.done # NoCompletion
                 PROVE  ops'[p.done.op] \in Outcomes
      BY <1>2, <2>4
    <3>1. p.done.op \in Ops /\ ops[p.done.op] \in Outcomes
      BY SendableTypes, Fields DEF IInv, JournalInv
    <3> QED BY <1>1, <3>1 DEF Outcomes
  <2> QED BY <2>3, <2>4, <2>5, <2>6 DEF IInv, JournalInv
<1>8. CopyInv'
  <2>1. Sendable' = Sendable
    BY <1>2 DEF Sendable, Published, journals
  <2> QED BY <1>2, <2>1 DEF IInv, CopyInv, history
<1>9. AppliedIsVisible' /\ ReconciledFirst'
  BY <1>1, <1>2, <1>3 DEF IInv, AppliedIsVisible, ReconciledFirst, history
<1> QED BY <1>4, <1>5, <1>6, <1>7, <1>8, <1>9

LEMMA ExecuteKeeps ==
  ASSUME IInv, TypeOK', Execute
  PROVE  /\ StepInv' /\ LedgerInv' /\ OpsInv' /\ JournalInv' /\ CopyInv' /\ AppliedIsVisible'
         /\ ReconciledFirst'
<1> DEFINE o == run.op
<1>1. /\ pc = "execute" /\ pc' = "journal"
      /\ UNCHANGED <<service, stray, journals, state, online, gate, renew, bg, actions, uncertain,
                     faults>>
  BY DEF Execute
<1>2. o \in Ops /\ ToRun(o) /\ executing = o /\ ~gate
  BY <1>1 DEF IInv, StepInv, Executing, ToRun
<1>3. ops[o] \in Open /\ ops[o] \notin {"absent", "accepted"} /\ executed[o] = 0
  BY <1>2 DEF IInv, OpsInv, Open
<1>4. /\ run'.op = o /\ run'.read = run.read /\ run'.pending = run.pending
      /\ run'.done = run.done /\ run'.next = run.next /\ run'.again = run.again
  <2>1. \E out \in Outcomes : run' = [run EXCEPT !.out = out]
    BY DEF Execute, Outcomes
  <2> QED BY <2>1, Before, Members, RunValues
<1>5. /\ run'.out = "unrun" <=> executed'[o] = 0
      /\ executed'[o] \in {0, 1}
  <2>1. CASE run' = [run EXCEPT !.out = "unrun"] /\ UNCHANGED <<content, history>>
    BY <1>3, <2>1, Before, Members, RunValues DEF history
  <2>2. CASE /\ \E out \in {"applied", "failed"} : run' = [run EXCEPT !.out = out]
             /\ executed' = [executed EXCEPT ![run.op] = @ + 1]
    <3>1. run'.out # "unrun"
      BY <2>2, Before, Members, RunValues
    <3>2. executed'[o] = 1
      BY <1>2, <1>3, <2>2 DEF IInv, TypeOK
    <3> QED BY <3>1, <3>2
  <2> QED BY <2>1, <2>2 DEF Execute
<1>6. /\ content' \in Int /\ content <= content'
      /\ effect'[o] <= content'
      /\ \A p \in Ops \ {o} : executed'[p] = executed[p] /\ effect'[p] = effect[p]
  <2>1. CASE UNCHANGED <<content, history>>
    BY <1>2, <2>1, Before DEF IInv, CopyInv, history
  <2>2. CASE /\ content' \in {content, content + 1}
             /\ executed' = [executed EXCEPT ![run.op] = @ + 1]
             /\ effect' = [effect EXCEPT ![run.op] = content']
    <3>1. content' \in Int /\ content <= content'
      BY <2>2, Before
    <3>2. effect'[o] = content'
      BY <1>2, <2>2 DEF IInv, TypeOK
    <3>3. \A p \in Ops \ {o} : executed'[p] = executed[p] /\ effect'[p] = effect[p]
      BY <2>2 DEF IInv, TypeOK
    <3> QED BY <3>1, <3>2, <3>3
  <2> QED BY <2>1, <2>2 DEF Execute
<1>7. \A p \in Ops : ops'[p] = ops[p] /\ ~ToRun(p)'
  BY <1>1 DEF service, ToRun
<1>8. \A c \in Completions : Truthful(c) /\ c # NoCompletion => c.op \in Ops \ {o}
  BY <1>2, <1>3, Fields DEF Truthful
<1>9. Sendable' = Sendable
  BY <1>1 DEF Sendable, Published, journals
<1>10. StepInv'
  BY <1>1, <1>2, <1>4
     DEF IInv, StepInv, Between, Executing, Copying, Critical, journals, service
<1>11. LedgerInv'
  <2>1. \A p, q \in In(Open)' : p = q
    BY <1>1 DEF IInv, LedgerInv, In, service
  <2>2. \A p \in Ops \ {o} : /\ executed'[p] \in {0, 1}
                             /\ ops'[p] \in {"absent", "accepted", "unrun"} => executed'[p] = 0
                             /\ ops'[p] \in {"applied", "failed"} => executed'[p] = 1
    BY <1>6, <1>7 DEF IInv, LedgerInv
  <2>3. ops'[o] \notin {"absent", "accepted", "unrun", "applied", "failed"}
    BY <1>2, <1>3, <1>7 DEF Open
  <2> QED BY <1>2, <1>5, <2>1, <2>2, <2>3 DEF LedgerInv
<1>12. OpsInv'
  <2>1. /\ ops'[run'.op] \notin {"absent", "accepted"}
        /\ run'.out = "unrun" <=> executed'[run'.op] = 0
    BY <1>2, <1>3, <1>4, <1>5, <1>7
  <2>2. \A p \in uncertain' \cup run'.pending : ops'[p] \notin {"absent", "accepted", "started"}
    <3>1. \A p \in uncertain \cup run.pending : p \in Ops
      BY Before, Fields DEF IInv, TypeOK
    <3> QED BY <1>1, <1>4, <1>7, <3>1 DEF IInv, OpsInv
  <2>3. \A p \in Ops : executed'[p] = 1 /\ ops'[p] \in Open => executing' = p
    BY <1>1, <1>2, <1>6, <1>7 DEF IInv, OpsInv, journals
  <2>4. \A p \in Ops : executed'[p] = 1 /\ ops'[p] = "started" => Owned(p)'
    <3>1. \A p \in Ops : ops[p] = "started" => p = o
      BY <1>2, <1>3 DEF IInv, LedgerInv, In, Open
    <3> QED BY <1>4, <1>7, <3>1 DEF Owned
  <2> QED BY <1>7, <2>1, <2>2, <2>3, <2>4 DEF OpsInv
<1>13. JournalInv'
  <2>1. ASSUME NEW c \in Completions, Truthful(c)
        PROVE  Truthful(c)'
    BY <1>6, <1>7, <1>8, <2>1 DEF Truthful
  <2>2. /\ completion' \in Completions /\ completion' = completion
        /\ run'.done \in Completions /\ run'.done = run.done
        /\ run'.read \in Completions /\ run'.read = run.read
    BY <1>1, <1>4, Before, Fields DEF IInv, TypeOK, journals
  <2>3. \A c \in {completion', run'.done, run'.read} : Truthful(c)'
    BY <2>1, <2>2, Before
  <2>4. \A p \in Sendable' : Truthful(p.done)'
    BY <1>9, <2>1, SendableTypes
  <2> QED BY <1>1, <1>9, <2>3, <2>4 DEF IInv, JournalInv, service
<1>14. CopyInv'
  <2>1. \A p \in Sendable : p.done # NoCompletion => p.done.op \in Ops \ {o}
    BY <1>8, SendableTypes
  <2>2. \A p \in Sendable : p.hash \in Int
    BY SendableTypes, Fields DEF Contents
  <2>3. \A p \in Sendable : /\ p.base <= p.hash /\ p.hash <= content'
                            /\ p.done # NoCompletion => effect'[p.done.op] <= p.hash
    BY <1>6, <2>1, <2>2, Before DEF IInv, CopyInv
  <2>4. \A p \in Ops : effect'[p] <= content'
    <3>1. \A p \in Ops : effect[p] \in Int
      BY DEF IInv, TypeOK, Contents
    <3> QED BY <1>6, <3>1, Before DEF IInv, CopyInv
  <2>5. svc.hash <= content' /\ state <= content' /\ bg.hash <= content'
    BY <1>6, Before
  <2> QED BY <1>1, <1>9, <2>3, <2>4, <2>5 DEF IInv, CopyInv, service
<1>15. AppliedIsVisible' /\ ReconciledFirst'
  <2>1. ops[o] \notin {"applied", "failed"}
    BY <1>3 DEF Open
  <2> QED BY <1>1, <1>2, <1>6, <2>1 DEF IInv, AppliedIsVisible, ReconciledFirst, service
<1> QED BY <1>10, <1>11, <1>12, <1>13, <1>14, <1>15

-----------------------------------------------------------------------------
(* The invariant holds                                                     *)

\* Only finitely many publications and requests are on their way or committed.
LEMMA FiniteStep ==
  ASSUME IInv, [Next]_vars
  PROVE  Finite'
<1> DEFINE Sends == stray' \subseteq stray \/ \E r : stray' = stray \cup {r}
           Commits == commits' = commits \/ \E i : commits' = commits \cup {i}
<1>0. /\ UNCHANGED service => Commits
      /\ \A r : GivenUp(r) => Sends /\ Commits
      /\ \A p : ServePublish(p) => Commits
  BY DEF GivenUp, ServePublish, service
<1>1. Sends /\ Commits
  <2>1. CASE CloseGate \/ ReadOutcome \/ Finish \/ Synchronize \/ SaveReceipt \/ ErasePublication \/ Loop \/ SaveExecuting \/ Execute
    BY <2>1 DEF CloseGate, ReadOutcome, Finish, Synchronize, SaveReceipt, ErasePublication, Loop, SaveExecuting, Execute, service
  <2>2. CASE SaveCompletion \/ ClearCompletion \/ ClearExecuting \/ EndRenewal \/ Reconnect \/ LocalFailure
    BY <2>2 DEF SaveCompletion, ClearCompletion, ClearExecuting, EndRenewal, Reconnect, LocalFailure, service
  <2>3. CASE BackgroundSnapshot \/ BackgroundSave \/ BackgroundReceipt \/ BackgroundErase \/ BackgroundFails \/ Work \/ Lapse \/ Crash \/ Quit
    BY <2>3 DEF BackgroundSnapshot, BackgroundSave, BackgroundReceipt, BackgroundErase, BackgroundFails, Work, Lapse, Crash, Quit, service
  <2>4. CASE \E o \in Ops : Submit(o) \/ GiveUp(o) \/ Reconcile(o)
    BY <2>4 DEF Submit, GiveUp, Reconcile, service
  <2>5. CASE Begin \/ Heartbeat \/ Renew
    BY <1>0, <2>5 DEF Begin, ServeBegin, Heartbeat, Renew, ServeBeat
  <2>6. CASE Publish \/ BackgroundPublish
    BY <1>0, <2>6 DEF Publish, BackgroundPublish
  <2>7. CASE Claim
    BY <1>0, <2>7 DEF Claim, ServeClaim
  <2>8. CASE \E r \in stray : Deliver(r)
    <3>1. PICK r \in stray : Deliver(r)
      BY <2>8
    <3>2. r.type \in {"begin", "heartbeat", "claim", "publish"}
      BY DEF IInv, TypeOK, Requests
    <3> QED BY <1>0, <3>1, <3>2 DEF Deliver, ServeBegin, ServeBeat, ServeClaim
  <2>9. CASE UNCHANGED vars
    BY <2>9 DEF vars, service
  <2> QED BY <2>1, <2>2, <2>3, <2>4, <2>5, <2>6, <2>7, <2>8, <2>9 DEF Next, Desktop, Background
<1>2. IsFiniteSet(stray')
  BY <1>1, FS_Subset, FS_AddElement DEF IInv, Finite
<1>3. IsFiniteSet(commits')
  BY <1>1, FS_AddElement DEF IInv, Finite
<1> QED BY <1>2, <1>3 DEF Finite

LEMMA InitIInv ==
  ASSUME Init
  PROVE  IInv
<1>1. TypeOK
  <2>1. svc \in Rows
    BY Members DEF Init, Rows
  <2>2. ops \in [Ops -> OpStates] /\ effect \in [Ops -> Contents] /\ executed \in [Ops -> Nat]
    BY Members DEF Init, OpStates
  <2>3. faults \in 0..MaxFaults /\ pc \in Steps
    BY CentralAssumption DEF Init, Steps
  <2> QED BY <2>1, <2>2, <2>3, Members DEF Init, TypeOK
<1>2. Published = {}
  BY DEF Init, Published
<1>3. Finite
  BY FS_EmptySet DEF Init, Finite
<1>4. StepInv
  BY Values, CentralAssumption
     DEF Init, StepInv, Between, Executing, Copying, Critical
<1>5. LedgerInv
  BY DEF Init, LedgerInv, In, Open
<1>6. OpsInv
  BY Values, CentralAssumption DEF Init, OpsInv, ToRun, Owned, Open
<1>7. Sendable = {NoPublication} /\ NoPublication.done = NoCompletion
      /\ NoPublication.base = 0 /\ NoPublication.hash = 0
  BY <1>2 DEF Init, Sendable, NoPublication
<1>8. JournalInv
  BY <1>7, Values DEF Init, JournalInv, Truthful
<1>9. CopyInv
  BY <1>7, Values DEF Init, CopyInv
<1>10. AppliedIsVisible /\ ReconciledFirst
  BY DEF Init, AppliedIsVisible, ReconciledFirst
<1> QED BY <1>1, <1>3, <1>4, <1>5, <1>6, <1>8, <1>9, <1>10 DEF IInv

\* Every step is one of Submit and Execute, or keeps what Kept says.
LEMMA StepKept ==
  ASSUME IInv, TypeOK', [Next]_vars, ~Execute, \A o \in Ops : ~Submit(o)
  PROVE  Kept
<1>1. CASE Desktop
  BY <1>1, QuietSteps, JournalSteps, PreparingSteps, HeartbeatSteps, BeginKept, PublishKept,
     ClaimKept DEF Desktop
<1>2. CASE Background
  BY <1>2, QuietSteps, PreparingSteps, BackgroundPublishKept DEF Background
<1>3. CASE LocalFailure \/ Renew \/ BackgroundFails \/ Work \/ Lapse \/ Crash \/ Quit
  BY <1>3, QuietSteps, HeartbeatSteps, LapseKept, QuitKept
<1>4. CASE \E o \in Ops : Submit(o) \/ GiveUp(o) \/ Reconcile(o)
  BY <1>4, OwnerSteps
<1>5. CASE \E r \in stray : Deliver(r)
  BY <1>5, DeliverKept
<1>6. CASE UNCHANGED vars
  <2>1. ServiceStep /\ SendableStep /\ CommitStep
    BY <1>6, Quiet DEF vars, journals
  <2>2. Frame
    BY <1>6, <2>1, Before DEF Frame, RunStep, ToRun, vars, journals
  <2>3. OpsInv' /\ ReconciledFirst'
    BY <1>6, <2>1, OpsKeep DEF ToRun, Owned, vars, journals, history
  <2>4. StepInv'
    BY <1>6 DEF IInv, StepInv, Between, Executing, Copying, Critical, vars, journals, service
  <2> QED BY <2>2, <2>3, <2>4 DEF Kept
<1> QED BY <1>1, <1>2, <1>3, <1>4, <1>5, <1>6 DEF Next

LEMMA Inductive ==
  ASSUME IInv, [Next]_vars
  PROVE  IInv'
<1>1. TypeOK'
  BY TypeStep DEF IInv
<1>2. Finite'
  BY FiniteStep
<1>3. CASE Execute
  BY <1>1, <1>2, <1>3, ExecuteKeeps DEF IInv
<1>4. CASE \E o \in Ops : Submit(o)
  BY <1>1, <1>2, <1>4, SubmitKeeps DEF IInv
<1>5. CASE ~Execute /\ \A o \in Ops : ~Submit(o)
  BY <1>1, <1>2, <1>5, StepKept, FrameKeeps DEF IInv, Kept
<1> QED BY <1>3, <1>4, <1>5

\* The invariant the theorems below rest on: what the journals, the loop and the
\* service say of an operation agrees (controller.ts, workspace-store.ts).
THEOREM Invariance == Spec => []IInv
<1>1. Init => IInv
  BY InitIInv
<1>2. IInv /\ [Next]_vars => IInv'
  BY Inductive
<1> QED BY <1>1, <1>2, PTL DEF Spec

\* Every variable of the service and of the desktop holds a value of its kind, for any
\* operations, bounds and faults.
THEOREM CentralTypes == Spec => []TypeOK
<1>1. IInv => TypeOK
  BY DEF IInv
<1> QED BY <1>1, Invariance, PTL

\* A receipt that says applied or failed is never told before the committed snapshot
\* contains what the command changed (commitPublication).
THEOREM OutcomesAreVisible == Spec => []AppliedIsVisible
<1>1. IInv => AppliedIsVisible
  BY DEF IInv
<1> QED BY <1>1, Invariance, PTL

\* The worker starts no run by itself while a command that ran has no outcome in the
\* service (gate, heartbeat).
THEOREM GateFollowsOutcomes == Spec => []ReconciledFirst
<1>1. IInv => ReconciledFirst
  BY DEF IInv
<1> QED BY <1>1, Invariance, PTL

-----------------------------------------------------------------------------
(* The promise to the owner                                                *)

\* The receipts an owner sees.
Receipt(s) == CASE s = "absent" -> "new"
                [] s \in Open   -> "open"
                [] OTHER        -> s
Receipts == [o \in Ops |-> Receipt(ops[o])]

LEMMA ReceiptValues ==
  ASSUME IInv, NEW o \in Ops
  PROVE  /\ Receipts[o] = "new"  <=> ops[o] = "absent"
         /\ Receipts[o] = "open" <=> ops[o] \in Open
         /\ ops[o] \in Outcomes => Receipts[o] = ops[o]
BY DEF IInv, TypeOK, Receipts, Receipt, OpStates, Open, Outcomes


\* What changes for one operation only changes its receipt only.
LEMMA OneReceipt ==
  ASSUME NEW o \in Ops, NEW x, Receipt(ops'[o]) = x, \A p \in Ops \ {o} : ops'[p] = ops[p]
  PROVE  Receipts' = [Receipts EXCEPT ![o] = x]
BY DEF Receipts

\* A request settles at most the one open operation, and tells the truth.
LEMMA ServiceSettles ==
  ASSUME IInv, IInv', ServiceStep, UNCHANGED executed
  PROVE  Promise!Next \/ UNCHANGED <<Receipts, executed>>
<1>1. CASE \E o \in Ops : ops[o] \in Open /\ ops'[o] \in Outcomes
  <2>1. PICK o \in Ops : ops[o] \in Open /\ ops'[o] \in Outcomes
    BY <1>1
  <2>2. Receipts[o] = "open"
    BY <2>1, ReceiptValues
  <2>3. Receipts' = [Receipts EXCEPT ![o] = ops'[o]]
    <3>1. \A p \in Ops \ {o} : ops'[p] = ops[p]
      <4>1. \A p \in Ops \ {o} : ops[p] \notin Open
        BY <2>1 DEF IInv, LedgerInv, In
      <4> QED BY <4>1 DEF ServiceStep, IInv, TypeOK, OpStates
    <3>2. Receipt(ops'[o]) = ops'[o]
      BY <2>1 DEF Receipt, Open, Outcomes
    <3> QED BY <3>1, <3>2, OneReceipt
  <2>4. ops'[o] \in (IF executed[o] = 0 THEN {"unrun"} ELSE {"applied", "failed"})
    <3>1. ops'[o] = "unrun" <=> executed[o] = 0
      BY <2>1 DEF ServiceStep
    <3> QED BY <2>1, <3>1 DEF Outcomes
  <2>5. Promise!Settle(o)
    BY <2>2, <2>3, <2>4 DEF Promise!Settle, Receipts, Receipt
  <2> QED BY <2>5 DEF Promise!Next
<1>2. CASE \A o \in Ops : ~(ops[o] \in Open /\ ops'[o] \in Outcomes)
  <2>1. \A o \in Ops : Receipts'[o] = Receipts[o]
    <3> SUFFICES ASSUME NEW o \in Ops PROVE Receipts'[o] = Receipts[o]
      OBVIOUS
    <3>1. ops[o] \in OpStates /\ ops'[o] \in OpStates
      BY DEF IInv, TypeOK
    <3>2. CASE ops[o] \in Open
      BY <1>2, <3>1, <3>2 DEF ServiceStep, Receipts, Receipt, OpStates, Open
    <3>3. CASE ops[o] \notin Open
      BY <3>1, <3>3 DEF ServiceStep, Receipts, OpStates
    <3> QED BY <3>2, <3>3
  <2>2. Receipts' = Receipts
    BY <2>1 DEF Receipts
  <2> QED BY <2>2
<1> QED BY <1>1, <1>2

\* A command runs at most once and only while it is open, and its receipt says truly
\* whether it ran, whatever requests are lost, late or repeated and whenever the
\* desktop crashes: the central workspace implements OperationPromise.
THEOREM CentralKeepsPromise == Spec => KeepsPromise
<1>1. Init => Promise!Init
  BY DEF Init, Promise!Init, Open
<1>2. ASSUME IInv, IInv', [Next]_vars
      PROVE  Promise!Next \/ UNCHANGED <<Receipts, executed>>
  <2>1. CASE \E o \in Ops : Submit(o)
    <3>1. PICK o \in Ops : Submit(o)
      BY <2>1
    <3>2. /\ ops[o] = "absent" /\ ops' = [ops EXCEPT ![o] = "accepted"] /\ UNCHANGED executed
          /\ \A p \in Ops : ops[p] \notin Open
      BY <3>1 DEF Submit, In, history
    <3>3. Receipts' = [Receipts EXCEPT ![o] = "open"]
      <4>1. Receipt(ops'[o]) = "open" /\ \A p \in Ops \ {o} : ops'[p] = ops[p]
        BY <1>2, <3>2 DEF Receipt, Open, IInv, TypeOK
      <4> QED BY <4>1, OneReceipt
    <3>4. Receipts[o] = "new" /\ \A p \in Ops : Receipts[p] # "open"
      BY <1>2, <3>2, ReceiptValues
    <3>5. Promise!Submit(o)
      BY <3>2, <3>3, <3>4 DEF Promise!Submit, Receipts, Receipt
    <3> QED BY <3>5 DEF Promise!Next
  <2>2. CASE Execute
    <3>1. CASE UNCHANGED history
      BY <2>2, <3>1 DEF Execute, Receipts, service, history
    <3>2. CASE executed' = [executed EXCEPT ![run.op] = @ + 1]
      <4>1. run.op \in Ops /\ ops[run.op] \in Open /\ executed[run.op] = 0
        <5>1. run.op \in Ops /\ ToRun(run.op)
          BY <1>2, <2>2 DEF Execute, IInv, StepInv, Executing, ToRun
        <5> QED BY <1>2, <5>1 DEF IInv, OpsInv, Open
      <4>2. executed' = [executed EXCEPT ![run.op] = 1]
        BY <1>2, <3>2, <4>1 DEF IInv, TypeOK
      <4>3. Receipts[run.op] = "open" /\ Receipts' = Receipts
        BY <1>2, <2>2, <4>1, ReceiptValues DEF Execute, Receipts, service
      <4>4. Promise!Run(run.op)
        BY <4>1, <4>2, <4>3 DEF Promise!Run, Receipts, Receipt
      <4> QED BY <4>1, <4>4 DEF Promise!Next
    <3> QED BY <2>2, <3>1, <3>2 DEF Execute
  <2>3. CASE ~Execute /\ \A o \in Ops : ~Submit(o)
    <3>1. TypeOK'
      BY <1>2 DEF IInv
    <3>2. ServiceStep /\ UNCHANGED executed
      BY <1>2, <2>3, <3>1, StepKept DEF Kept, Frame, history
    <3> QED BY <1>2, <3>2, ServiceSettles
  <2> QED BY <2>1, <2>2, <2>3
<1> QED BY <1>1, <1>2, Invariance, PTL DEF Spec, KeepsPromise, Promise!Spec, Receipts, Receipt

\* The worker executes a command at most once, however often it is claimed, requested
\* or resumed; a command reported as not run was not, and one reported as applied or
\* failed was (operate, connect, commitPublication).
THEOREM ReceiptsTellTheTruth ==
  Spec => [](\A o \in Ops : /\ executed[o] <= 1
                            /\ ops[o] = "unrun" => executed[o] = 0
                            /\ ops[o] \in {"applied", "failed"} => executed[o] = 1)
<1>1. IInv => \A o \in Ops : /\ executed[o] <= 1
                             /\ ops[o] = "unrun" => executed[o] = 0
                             /\ ops[o] \in {"applied", "failed"} => executed[o] = 1
  BY DEF IInv, LedgerInv
<1> QED BY <1>1, Invariance, PTL

\* No retried, late or recovered publication and no reconciliation changes an outcome
\* the service once recorded (commitPublication, begin).
THEOREM ReceiptsAreFinal == Spec => [][\A o \in Ops : ops[o] \in Outcomes => ops'[o] = ops[o]]_vars
<1>1. ASSUME IInv, IInv', [Next]_vars, NEW o \in Ops, ops[o] \in Outcomes
      PROVE  ops'[o] = ops[o]
  <2>1. CASE \E p \in Ops : Submit(p)
    BY <1>1, <2>1 DEF Submit, IInv, TypeOK, Outcomes
  <2>2. CASE Execute
    BY <2>2 DEF Execute, service
  <2>3. CASE ~Execute /\ \A p \in Ops : ~Submit(p)
    <3>1. TypeOK'
      BY <1>1 DEF IInv
    <3>2. ServiceStep
      BY <1>1, <2>3, <3>1, StepKept DEF Kept, Frame
    <3> QED BY <1>1, <3>2 DEF ServiceStep
  <2> QED BY <2>1, <2>2, <2>3
<1>2. IInv /\ IInv' /\ [Next]_vars => \A o \in Ops : ops[o] \in Outcomes => ops'[o] = ops[o]
  BY <1>1
<1> QED BY <1>2, Invariance, PTL DEF Spec

=============================================================================
