-------------------------- MODULE CentralWorkspace --------------------------
(***************************************************************************)
(* The central workspace of one desktop: the service keeps the committed   *)
(* snapshot and the owner's commands (operations) with their receipts      *)
(* (apps/openape-pods-relay/server/utils/workspace-store.ts); the desktop  *)
(* is their only executor.  CentralController (apps/openape-pods/src/main/ *)
(* central/controller.ts) claims one operation at a time, runs it, and     *)
(* publishes its outcome and the new snapshot in one transaction.  Four    *)
(* journals on disk survive a crash; its memory does not; a request may be *)
(* given up and still reach the service later.                             *)
(*                                                                         *)
(* A snapshot is the number of changes it contains, 0 if there is none.    *)
(* The service's revision counts committed changes of the snapshot, so two *)
(* revisions agree exactly if their snapshots do: `hash' stands for both.  *)
(***************************************************************************)
EXTENDS Integers, FiniteSets

CONSTANTS
  Ops,         \* ids of operations
  NoOp,        \* null
  LocalOps,    \* the operations of channel `local': actions of this desktop's owner
  MaxContent,  \* bound on changes of the desktop's data
  MaxFaults    \* bound on requests given up, local failures, restarts

ASSUME CentralAssumption ==
  /\ NoOp \notin Ops /\ LocalOps \subseteq Ops
  /\ MaxContent \in Nat /\ MaxFaults \in Nat

VARIABLES
  \* the service
  ops,          \* operations.state
  svc,          \* runtimes: hash, previous_hash, and whether its heartbeat is recent
  held,         \* runtimes.lease is the desktop's
  commits,      \* ids in publications
  \* the network
  stray,        \* requests the desktop gave up that may still arrive
  \* the desktop's data and its journals in central/
  content,      \* the worker's database
  receipt,      \* state.json
  publication,  \* publication.json
  completion,   \* completion.json
  executing,    \* executing.json
  \* the desktop's memory
  pc,           \* where loop() is
  run,          \* the values loop() carries from step to step
  state,        \* this.state.hash
  online,       \* this.online
  gate,         \* gateUntil is ahead: the worker may start runs by itself
  renew,        \* the heartbeats of this session go on
  bg,           \* the background synchronize()
  actions,      \* localActions
  uncertain,    \* this.uncertain
  \* bounds and history
  faults,
  executed,     \* how often each operation ran
  effect        \* the changes there were when it had run

service == <<ops, svc, held, commits>>
journals == <<receipt, publication, completion, executing>>
history == <<executed, effect>>
vars == <<service, stray, content, journals, pc, run, state, online, gate, renew, bg, actions,
          uncertain, faults, history>>

-----------------------------------------------------------------------------
(* Data                                                                    *)

Contents == 0..(MaxContent + 1)
Open     == {"accepted", "started", "unknown"}
Outcomes == {"applied", "failed", "unrun"}   \* unrun: failed, and it never ran
OpStates == {"absent"} \cup Open \cup Outcomes

Rows == [hash : Contents, prev : Contents, online : BOOLEAN]

In(S) == {o \in Ops : ops[o] \in S}

\* A completion, and what is sent when there is none.
NoCompletion == [op |-> NoOp, out |-> "unrun"]
Completions  == [op : Ops, out : Outcomes] \cup {NoCompletion}

\* A publication: the snapshot it replaces, the new one and the outcome with it.
Publications  == [id : Nat, base : Contents, hash : Contents, done : Completions]
NoPublication == [id |-> 0, base |-> 0, hash |-> 0, done |-> NoCompletion]

Requests ==
  [type : {"begin", "claim"}]
    \cup [type : {"heartbeat"}, hash : Contents]
    \cup [type : {"publish"}, publication : Publications]

BeginRequest      == [type |-> "begin"]
ClaimRequest      == [type |-> "claim"]
HeartbeatRequest  == [type |-> "heartbeat", hash |-> state]
PublishRequest(p) == [type |-> "publish", publication |-> p]

\* The publications that may still arrive.
Published == {r.publication : r \in {q \in stray : q.type = "publish"}}

\* randomUUID: an id no publication in the service, on disk or on its way has.
UsedIds == commits \cup {publication.id, 0} \cup {p.id : p \in Published}
NewId == CHOOSE i \in 1..(Cardinality(UsedIds) + 1) : i \notin UsedIds

\* What loop() carries: the operation it executes and its outcome; of connect, the
\* completion.json it read, the operation whose outcome the journals know, the
\* session's pending operations, whether a saved publication is sent again and
\* whether one has just been published; of synchronize, its completion and where
\* it returns to.
NoRun == [op |-> NoOp, out |-> "unrun", read |-> NoCompletion, known |-> NoOp, pending |-> {},
          again |-> FALSE, recent |-> FALSE, done |-> NoCompletion, next |-> "greet"]

Steps == {"gate", "begin", "settle", "finish", "greet", "loop", "claim", "claimed", "execute",
          "journal", "synchronize", "publish", "receipt", "erase", "clear", "cleared", "beat",
          "drain", "drained"}
Runs == [op : Ops \cup {NoOp}, out : Outcomes, read : Completions, known : Ops \cup {NoOp},
         pending : SUBSET Ops, again : BOOLEAN, recent : BOOLEAN, done : Completions,
         next : {"greet", "finish", "clear"}]

\* The background synchronize(): fresh while this.generation is the one it began in.
Idle == [pc |-> "idle", hash |-> 0, fresh |-> FALSE, error |-> FALSE]
Backgrounds == [pc : {"idle", "snapshot", "save", "publish", "receipt", "erase"},
                hash : Contents, fresh : BOOLEAN, error : BOOLEAN]

\* The background synchronize() holds publicationQueue.
Critical == bg.pc \in {"publish", "receipt", "erase"}

\* A fault: the operation is in hand only while its command runs.
OperatingShort == pc = "execute"
Operating == run.op # NoOp

Init ==
  /\ ops = [o \in Ops |-> "absent"] /\ svc = [hash |-> 0, prev |-> 0, online |-> FALSE]
  /\ held = FALSE /\ commits = {} /\ stray = {}
  /\ content = 1 /\ receipt = 0 /\ publication = NoPublication
  /\ completion = NoCompletion /\ executing = NoOp
  /\ pc = "gate" /\ run = NoRun /\ state = 0 /\ online = FALSE /\ gate = FALSE
  /\ renew = FALSE /\ bg = Idle /\ actions = {} /\ uncertain = {}
  /\ faults = 0 /\ executed = [o \in Ops |-> 0] /\ effect = [o \in Ops |-> 0]

-----------------------------------------------------------------------------
(* The service: every request is one synchronous transaction               *)

\* A fault: what was started is claimed again.
DisconnectedRequeue == [o \in Ops |-> IF ops[o] = "started" THEN "accepted" ELSE ops[o]]

\* begin(): what the earlier lease started is unknown, what it accepted never runs.
Disconnected == [o \in Ops |-> CASE ops[o] = "started"  -> "unknown"
                                 [] ops[o] = "accepted" -> "unrun"
                                 [] OTHER               -> ops[o]]

\* Requests of an earlier lease are refused: nothing is left of them.
ServeBegin(mine) ==
  /\ ~svc.online
  /\ ops' = Disconnected /\ held' = mine /\ svc' = [svc EXCEPT !.online = FALSE]
  /\ stray' = {r \in stray : mine /\ r.type = "begin"}
  /\ UNCHANGED commits

BeatAccepted(h) ==
  /\ held /\ In({"unknown"}) = {}
  /\ svc.hash # 0 /\ h \in {svc.hash, svc.prev}

ServeBeat == svc' = [svc EXCEPT !.online = TRUE] /\ UNCHANGED <<ops, held, commits>>

\* ready(): the runtime's heartbeat is recent and it has a snapshot.
Ready == svc.online /\ svc.hash # 0

Claimable == {o \in In({"accepted"}) : held /\ Ready}

ServeClaim(o, to) ==
  /\ ops' = [ops EXCEPT ![o] = to]
  /\ UNCHANGED <<svc, held, commits>>

\* begunPublication() and the completion's check in commitPublication().
Prior(p) == p.id \in commits

Accepted(p) ==
  /\ svc.hash = p.base
  /\ In(IF p.done = NoCompletion THEN {"started", "unknown"} ELSE {"started"}) \subseteq {p.done.op}
  /\ p.done # NoCompletion => ops[p.done.op] \in {"started", "unknown"}

ServePublish(p) ==
  IF Prior(p)
  THEN UNCHANGED service
  ELSE /\ Accepted(p)
       /\ svc' = IF p.hash = svc.hash THEN svc ELSE [svc EXCEPT !.prev = svc.hash, !.hash = p.hash]
       /\ ops' = [o \in Ops |-> IF o = p.done.op THEN p.done.out ELSE ops[o]]
       /\ commits' = commits \cup {p.id}
       /\ UNCHANGED held

\* enqueue(): one open operation of a runtime, and only while it is online.
Submit(o) ==
  /\ ops[o] = "absent" /\ Ready /\ In(Open) = {}
  /\ ops' = [ops EXCEPT ![o] = "accepted"]
  /\ actions' = IF o \in LocalOps /\ online THEN actions \cup {o} ELSE actions
  /\ (o \in LocalOps => online)
  /\ UNCHANGED <<svc, held, commits, stray, content, journals, pc, run, state, online, gate, renew,
                 bg, uncertain, faults, history>>

\* centralLeaseMs after its last heartbeat.
Lapse ==
  /\ svc.online /\ svc' = [svc EXCEPT !.online = FALSE]
  /\ UNCHANGED <<ops, held, commits, stray, content, journals, pc, run, state, online, gate, renew,
                 bg, actions, uncertain, faults, history>>

\* A request the desktop gave up arrives, or arrived and its answer was lost.
Deliver(r) ==
  /\ r \in stray
  /\ CASE r.type = "begin" -> ServeBegin(FALSE)
       [] r.type = "heartbeat" -> BeatAccepted(r.hash) /\ ServeBeat /\ stray' = stray \ {r}
       [] r.type = "claim" ->
            /\ \E o \in Claimable, to \in {"started", "unrun"} : ServeClaim(o, to)
            /\ stray' = stray \ {r}
       [] r.type = "publish" -> ServePublish(r.publication) /\ stray' = stray \ {r}
  /\ UNCHANGED <<content, journals, pc, run, state, online, gate, renew, bg, actions, uncertain,
                 faults, history>>

-----------------------------------------------------------------------------
(* The desktop: requests, failures, and the heartbeats of a session        *)

Fault == faults < MaxFaults /\ faults' = faults + 1

\* loop()'s catch: offline(), gate(0).
Throw ==
  /\ pc' = "drain" /\ online' = FALSE /\ gate' = FALSE

\* The request is given up: its fate is open.
GivenUp(r) == Fault /\ stray' = stray \cup {r} /\ UNCHANGED service

\* A worker call, a file operation or a request without effect fails.
LocalFailure ==
  /\ pc \notin {"gate", "loop", "drain", "drained"} /\ Fault /\ Throw
  /\ UNCHANGED <<service, stray, content, journals, run, state, renew, bg, actions, uncertain,
                 history>>

RenewalEnds == gate' = FALSE /\ online' = FALSE /\ renew' = FALSE

\* A heartbeat that fails ends them: offline(), gate(0).
Renew ==
  /\ renew
  /\ \/ /\ BeatAccepted(state) /\ ServeBeat
        /\ gate' = ~Operating /\ online' = TRUE
        /\ UNCHANGED <<stray, renew, faults>>
     \/ /\ ~BeatAccepted(state) /\ RenewalEnds
        /\ UNCHANGED <<service, stray, faults>>
     \/ GivenUp(HeartbeatRequest) /\ RenewalEnds
  /\ UNCHANGED <<content, journals, pc, run, state, bg, actions, uncertain, history>>

-----------------------------------------------------------------------------
(* The desktop: connect()                                                  *)

\* gate(0): the worker starts nothing by itself.
CloseGate ==
  /\ pc = "gate" /\ pc' = "begin" /\ gate' = FALSE
  /\ UNCHANGED <<service, stray, content, journals, run, state, online, renew, bg, actions,
                 uncertain, faults, history>>

\* The journals connect() finds decide what it does first.
Connected ==
  /\ state' = svc.hash
  /\ run' = [NoRun EXCEPT !.read = completion,
                          !.known = IF publication.done # NoCompletion
                                    THEN publication.done.op ELSE completion.op,
                          !.pending = {o \in Ops : Disconnected[o] = "unknown"},
                          !.again = publication # NoPublication,
                          !.next = "finish"]
  /\ IF receipt # svc.hash /\ publication = NoPublication
     THEN Throw
     ELSE /\ pc' = CASE publication # NoPublication -> "publish"
                     [] publication = NoPublication /\ completion # NoCompletion -> "settle"
                     [] OTHER -> "finish"
          /\ UNCHANGED <<online, gate>>

Begin ==
  /\ pc = "begin"
  /\ \/ ServeBegin(TRUE) /\ Connected /\ UNCHANGED faults
     \/ /\ svc.online /\ Throw
        /\ UNCHANGED <<service, stray, run, state, faults>>
     \/ /\ GivenUp(BeginRequest) /\ Throw
        /\ UNCHANGED <<run, state>>
  /\ UNCHANGED <<content, journals, renew, bg, actions, uncertain, history>>

\* A fault: the lease alone is taken for the proof of the outcome.
ReadOutcomeTrusting ==
  /\ pc = "settle"
  /\ \/ ~held /\ Throw
     \/ held /\ pc' = "finish" /\ UNCHANGED <<online, gate>>
  /\ UNCHANGED <<service, stray, content, journals, run, state, renew, bg, actions, uncertain,
                 faults, history>>

\* A completion without a publication: is its operation settled already?
ReadOutcome ==
  /\ pc = "settle"
  /\ \/ /\ ~held /\ Throw /\ UNCHANGED run
     \/ /\ held /\ UNCHANGED <<online, gate>>
        /\ IF ops[run.read.op] \in {"applied", "failed", "unrun"}
           THEN pc' = "finish" /\ UNCHANGED run
           ELSE pc' = "synchronize" /\ run' = [run EXCEPT !.done = run.read]
  /\ UNCHANGED <<service, stray, content, journals, state, renew, bg, actions, uncertain, faults,
                 history>>

\* Removes the completion it read; what is still pending stops it, for the owner,
\* or for good if the operation never started here.
Finish ==
  /\ pc = "finish"
  /\ LET left      == run.pending \ {run.known}
         unstarted == left \ {executing}
         kept      == IF run.read # NoCompletion THEN NoCompletion ELSE completion
     IN /\ uncertain' = left
        /\ IF unstarted # {}
           THEN \E o \in unstarted : completion' = [op |-> o, out |-> "unrun"]
           ELSE completion' = kept
        /\ IF left # {}
           THEN Throw /\ UNCHANGED run
           ELSE /\ pc' \in {"synchronize"} \cup (IF run.recent THEN {"greet"} ELSE {})
                /\ run' = [run EXCEPT !.done = NoCompletion, !.next = "greet"]
                /\ UNCHANGED <<online, gate>>
  /\ UNCHANGED <<service, stray, content, receipt, publication, executing, state, renew, bg,
                 actions, faults, history>>

\* The heartbeat that ends connect(), and the one that ends operate().
Heartbeat ==
  /\ pc \in {"greet", "beat"}
  /\ \/ /\ BeatAccepted(state) /\ ServeBeat
        /\ gate' = TRUE /\ online' = TRUE /\ pc' = "loop" /\ run' = NoRun
        /\ renew' = (renew \/ pc = "greet")
        /\ UNCHANGED <<stray, faults>>
     \/ /\ ~BeatAccepted(state) /\ Throw
        /\ UNCHANGED <<service, stray, run, renew, faults>>
     \/ /\ GivenUp(HeartbeatRequest) /\ Throw
        /\ UNCHANGED <<run, renew>>
  /\ UNCHANGED <<content, journals, state, bg, actions, uncertain, history>>

-----------------------------------------------------------------------------
(* The desktop: synchronize() and publish(), of loop()                     *)

\* A fault: the base is counted from the change that follows.
NewPublicationEarlier(h, done) == [id |-> NewId, base |-> state - 1, hash |-> h, done |-> done]

NewPublication(h, done) == [id |-> NewId, base |-> state, hash |-> h, done |-> done]

\* Takes a snapshot; without a change and a completion there is nothing to do.
Synchronize ==
  /\ pc = "synchronize"
  /\ IF content = state /\ run.done = NoCompletion
     THEN /\ pc' = run.next /\ UNCHANGED <<publication, online, gate>>
     ELSE IF held
     THEN /\ publication' = NewPublication(content, run.done) /\ pc' = "publish"
          /\ UNCHANGED <<online, gate>>
     ELSE Throw /\ UNCHANGED publication
  /\ UNCHANGED <<service, stray, content, receipt, completion, executing, run, state, renew, bg,
                 actions, uncertain, faults, history>>

Committable(p) == held /\ (Prior(p) \/ Accepted(p))

\* A saved publication that is refused never committed: it is built anew.
Publish ==
  /\ pc = "publish"
  /\ \/ /\ Committable(publication) /\ ServePublish(publication)
        /\ state' = publication.hash /\ pc' = "receipt"
        /\ UNCHANGED <<stray, publication, run, online, gate, faults>>
     \/ /\ held /\ ~Committable(publication) /\ run.again
        /\ run' = [run EXCEPT !.again = FALSE, !.done = publication.done]
        /\ publication' = NoPublication /\ pc' = "synchronize"
        /\ UNCHANGED <<service, stray, state, online, gate, faults>>
     \/ /\ ~Committable(publication) /\ ~(held /\ run.again) /\ Throw
        /\ UNCHANGED <<service, stray, publication, run, state, faults>>
     \/ /\ GivenUp(PublishRequest(publication)) /\ Throw
        /\ UNCHANGED <<publication, run, state>>
  /\ UNCHANGED <<content, receipt, completion, executing, renew, bg, actions, uncertain, history>>

SaveReceipt ==
  /\ pc = "receipt" /\ receipt' = state /\ pc' = "erase"
  /\ UNCHANGED <<service, stray, content, publication, completion, executing, run, state, online,
                 gate, renew, bg, actions, uncertain, faults, history>>

ErasePublication ==
  /\ pc = "erase" /\ publication' = NoPublication /\ pc' = run.next
  /\ run' = [run EXCEPT !.again = FALSE, !.recent = TRUE]
  /\ UNCHANGED <<service, stray, content, receipt, completion, executing, state, online, gate,
                 renew, bg, actions, uncertain, faults, history>>

-----------------------------------------------------------------------------
(* The desktop: loop() and operate()                                       *)

Loop ==
  /\ pc = "loop"
  /\ IF online /\ ~bg.error
     THEN pc' = "claim" /\ UNCHANGED <<online, gate, bg>>
     ELSE Throw /\ bg' = [bg EXCEPT !.error = FALSE]
  /\ UNCHANGED <<service, stray, content, journals, run, state, renew, actions, uncertain, faults,
                 history>>

\* Nothing to do: the loop may start a background synchronize().
NothingClaimed ==
  /\ pc' = "loop"
  /\ \/ UNCHANGED bg
     \/ bg.pc = "idle" /\ bg' = [bg EXCEPT !.pc = "snapshot", !.fresh = TRUE]
  /\ UNCHANGED <<run, online, gate>>

\* Claims wait for the publication of the background synchronize(), and what it
\* has not published by then is never published.  A command can have expired, or
\* one of its pods can be unready by now.
Claim ==
  /\ pc = "claim" /\ ~Critical
  /\ \/ /\ \E o \in Claimable :
             \/ /\ ServeClaim(o, "started") /\ pc' = "claimed"
                /\ run' = [run EXCEPT !.op = o] /\ bg' = [bg EXCEPT !.fresh = FALSE]
                /\ UNCHANGED <<online, gate>>
             \/ ServeClaim(o, "unrun") /\ NothingClaimed
        /\ UNCHANGED <<stray, faults>>
     \/ /\ held /\ Ready /\ Claimable = {} /\ NothingClaimed
        /\ UNCHANGED <<service, stray, faults>>
     \/ /\ ~held \/ ~Ready \/ Claimable # {}
        /\ Throw
        /\ UNCHANGED <<service, stray, run, bg, faults>>
     \/ /\ GivenUp(ClaimRequest) /\ Throw
        /\ UNCHANGED <<run, bg>>
  /\ UNCHANGED <<content, journals, state, renew, actions, uncertain, history>>

\* executing.json is saved before any command runs.
SaveExecuting ==
  /\ pc = "claimed" /\ gate' = FALSE /\ executing' = run.op /\ pc' = "execute"
  /\ UNCHANGED <<service, stray, content, receipt, publication, completion, run, state, online,
                 renew, bg, actions, uncertain, faults, history>>

\* A local command whose action is gone fails without having run.
Execute ==
  /\ pc = "execute" /\ pc' = "journal"
  /\ IF run.op \in LocalOps \ actions
     THEN run' = [run EXCEPT !.out = "unrun"] /\ UNCHANGED <<content, history>>
     ELSE /\ \E out \in {"applied", "failed"} : run' = [run EXCEPT !.out = out]
          /\ content' \in {content, content + 1} /\ content' \in Contents
          /\ executed' = [executed EXCEPT ![run.op] = @ + 1]
          /\ effect' = [effect EXCEPT ![run.op] = content']
  /\ UNCHANGED <<service, stray, journals, state, online, gate, renew, bg, actions, uncertain,
                 faults>>

\* A fault: the outcome is saved, but not handed to synchronize().
SaveCompletionAlone ==
  /\ pc = "journal" /\ pc' = "synchronize"
  /\ completion' = [op |-> run.op, out |-> run.out]
  /\ run' = [run EXCEPT !.next = "clear"]
  /\ UNCHANGED <<service, stray, content, receipt, publication, executing, state, online, gate,
                 renew, bg, actions, uncertain, faults, history>>

SaveCompletion ==
  /\ pc = "journal" /\ pc' = "synchronize"
  /\ completion' = [op |-> run.op, out |-> run.out]
  /\ run' = [run EXCEPT !.done = completion', !.next = "clear"]
  /\ UNCHANGED <<service, stray, content, receipt, publication, executing, state, online, gate,
                 renew, bg, actions, uncertain, faults, history>>

ClearCompletion ==
  /\ pc = "clear" /\ completion' = NoCompletion /\ pc' = "cleared"
  /\ UNCHANGED <<service, stray, content, receipt, publication, executing, run, state, online,
                 gate, renew, bg, actions, uncertain, faults, history>>

ClearExecuting ==
  /\ pc = "cleared" /\ executing' = NoOp /\ pc' = "beat" /\ run' = NoRun
  /\ UNCHANGED <<service, stray, content, receipt, publication, completion, state, online, gate,
                 renew, bg, actions, uncertain, faults, history>>

\* loop()'s finally: the heartbeats end (one under way may still open the gate),
\* then the background synchronize().
EndRenewal ==
  /\ pc = "drain" /\ pc' = "drained" /\ renew' = FALSE /\ bg' = [bg EXCEPT !.fresh = FALSE]
  /\ UNCHANGED <<service, stray, content, journals, run, state, online, gate, actions, uncertain,
                 faults, history>>

Reconnect ==
  /\ pc = "drained" /\ bg.pc = "idle" /\ pc' = "gate" /\ bg' = Idle /\ run' = NoRun
  /\ UNCHANGED <<service, stray, content, journals, state, online, gate, renew, actions, uncertain,
                 faults, history>>

-----------------------------------------------------------------------------
(* The desktop: the background synchronize()                               *)

BackgroundDone(failed) == [Idle EXCEPT !.error = failed \/ bg.error]

\* One that is not fresh any more, or finds no change, ends by itself.
BackgroundSnapshot ==
  /\ bg.pc = "snapshot"
  /\ bg' = IF bg.fresh /\ content # state
           THEN [bg EXCEPT !.pc = "save", !.hash = content] ELSE BackgroundDone(FALSE)
  /\ UNCHANGED <<service, stray, content, journals, pc, run, state, online, gate, renew, actions,
                 uncertain, faults, history>>

\* A fault: what was uploaded is published although a command was claimed since.
BackgroundSaveStale ==
  /\ bg.pc = "save"
  /\ IF held
     THEN /\ publication' = NewPublication(bg.hash, NoCompletion)
          /\ bg' = [bg EXCEPT !.pc = "publish"] /\ UNCHANGED online
     ELSE /\ bg' = BackgroundDone(bg.fresh) /\ online' = (online /\ ~bg.fresh)
          /\ UNCHANGED publication
  /\ UNCHANGED <<service, stray, content, receipt, completion, executing, pc, run, state, gate,
                 renew, actions, uncertain, faults, history>>

\* After the upload of the parts; a refusal as stale ends the session.
BackgroundSave ==
  /\ bg.pc = "save"
  /\ IF bg.fresh /\ held
     THEN /\ publication' = NewPublication(bg.hash, NoCompletion)
          /\ bg' = [bg EXCEPT !.pc = "publish"] /\ UNCHANGED online
     ELSE /\ bg' = BackgroundDone(bg.fresh) /\ online' = (online /\ ~bg.fresh)
          /\ UNCHANGED publication
  /\ UNCHANGED <<service, stray, content, receipt, completion, executing, pc, run, state, gate,
                 renew, actions, uncertain, faults, history>>

BackgroundPublish ==
  /\ bg.pc = "publish"
  /\ \/ /\ Committable(publication) /\ ServePublish(publication)
        /\ state' = publication.hash /\ bg' = [bg EXCEPT !.pc = "receipt"]
        /\ UNCHANGED <<stray, online, faults>>
     \/ /\ ~Committable(publication)
        /\ bg' = BackgroundDone(TRUE) /\ online' = (online /\ held)
        /\ UNCHANGED <<service, stray, state, faults>>
     \/ /\ GivenUp(PublishRequest(publication)) /\ bg' = BackgroundDone(TRUE)
        /\ UNCHANGED <<state, online>>
  /\ UNCHANGED <<content, journals, pc, run, gate, renew, actions, uncertain, history>>

BackgroundReceipt ==
  /\ bg.pc = "receipt" /\ receipt' = state /\ bg' = [bg EXCEPT !.pc = "erase"]
  /\ UNCHANGED <<service, stray, content, publication, completion, executing, pc, run, state,
                 online, gate, renew, actions, uncertain, faults, history>>

BackgroundErase ==
  /\ bg.pc = "erase" /\ publication' = NoPublication /\ bg' = BackgroundDone(FALSE)
  /\ UNCHANGED <<service, stray, content, receipt, completion, executing, pc, run, state, online,
                 gate, renew, actions, uncertain, faults, history>>

BackgroundFails ==
  /\ bg.pc # "idle" /\ Fault /\ bg' = BackgroundDone(TRUE)
  /\ UNCHANGED <<service, stray, content, journals, pc, run, state, online, gate, renew, actions,
                 uncertain, history>>

Background ==
  \/ BackgroundSnapshot \/ BackgroundSave \/ BackgroundPublish
  \/ BackgroundReceipt \/ BackgroundErase

-----------------------------------------------------------------------------
(* The worker, the owner and the end of the desktop's process              *)

\* Programs change the desktop's data at any time.
Work ==
  /\ content < MaxContent + 1 /\ content' = content + 1
  /\ UNCHANGED <<service, stray, journals, pc, run, state, online, gate, renew, bg, actions,
                 uncertain, faults, history>>

\* submitLocal()'s deadline.
GiveUp(o) ==
  /\ o \in actions /\ actions' = actions \ {o}
  /\ UNCHANGED <<service, stray, content, journals, pc, run, state, online, gate, renew, bg,
                 uncertain, faults, history>>

\* The owner records what has become of an uncertain command.
Reconcile(o) ==
  /\ o \in uncertain /\ completion = NoCompletion
  /\ \E out \in (IF executed[o] = 0 THEN {"unrun"} ELSE {"applied", "failed"}) :
       completion' = [op |-> o, out |-> out]
  /\ UNCHANGED <<service, stray, content, receipt, publication, executing, pc, run, state, online,
                 gate, renew, bg, actions, uncertain, faults, history>>

Forget ==
  /\ pc' = "gate" /\ run' = NoRun /\ state' = 0 /\ online' = FALSE /\ gate' = FALSE
  /\ renew' = FALSE /\ bg' = Idle /\ actions' = {} /\ uncertain' = {}
  /\ UNCHANGED <<content, journals, history>>

Crash == Fault /\ Forget /\ UNCHANGED <<service, stray>>

\* stop(): the loop ends between two operations, then disconnect.
Quit ==
  /\ pc = "loop" /\ bg.pc = "idle" /\ Fault /\ Forget
  /\ svc' = IF held THEN [svc EXCEPT !.online = FALSE] ELSE svc
  /\ UNCHANGED <<ops, held, commits, stray>>

Desktop ==
  \/ CloseGate \/ Begin \/ ReadOutcome \/ Finish \/ Heartbeat
  \/ Synchronize \/ Publish \/ SaveReceipt \/ ErasePublication
  \/ Loop \/ Claim \/ SaveExecuting \/ Execute \/ SaveCompletion
  \/ ClearCompletion \/ ClearExecuting \/ EndRenewal \/ Reconnect

Next ==
  \/ Desktop \/ LocalFailure \/ Renew \/ Background \/ BackgroundFails \/ Work \/ Lapse \/ Crash \/ Quit
  \/ \E o \in Ops : Submit(o) \/ GiveUp(o) \/ Reconcile(o)
  \/ \E r \in stray : Deliver(r)

Spec == Init /\ [][Next]_vars

\* The desktop's process runs on, the owner reconciles what is asked of him, and the
\* service's lease lapses without heartbeats.
FairSpec ==
  /\ Spec
  /\ WF_vars(Desktop) /\ WF_vars(Background) /\ WF_vars(Lapse /\ ~renew)
  /\ \A o \in Ops : WF_vars(Reconcile(o))

-----------------------------------------------------------------------------
(* Properties                                                              *)

\* Every variable holds a value of its kind; the desktop is in a step of its loop
\* (controller.ts) and the service's rows are in a state of its schema.
TypeOK ==
  /\ ops \in [Ops -> OpStates]
  /\ svc \in Rows
  /\ held \in BOOLEAN /\ commits \subseteq Nat /\ stray \subseteq Requests
  /\ content \in Contents /\ receipt \in Contents
  /\ publication \in Publications /\ completion \in Completions /\ executing \in Ops \cup {NoOp}
  /\ pc \in Steps /\ run \in Runs /\ state \in Contents
  /\ online \in BOOLEAN /\ gate \in BOOLEAN /\ renew \in BOOLEAN /\ bg \in Backgrounds
  /\ actions \subseteq Ops /\ uncertain \subseteq Ops /\ faults \in 0..MaxFaults
  /\ executed \in [Ops -> Nat] /\ effect \in [Ops -> Contents]

\* What an owner may rely on, whatever is lost or crashes.
Promise == INSTANCE OperationPromise WITH
  receipt <- [o \in Ops |-> CASE ops[o] = "absent" -> "new"
                              [] ops[o] \in Open   -> "open"
                              [] OTHER             -> ops[o]],
  ran <- executed
KeepsPromise == Promise!Spec

\* Once a command's receipt says it was applied, the committed snapshot shows its
\* changes, and goes on to: outcome and snapshot commit together (commitPublication),
\* and a background snapshot taken before it is not published after it (generation).
AppliedIsVisible ==
  \A o \in Ops : ops[o] \in {"applied", "failed"} => svc.hash >= effect[o]

\* While the gate lets the worker start runs by itself, every command that ran
\* has its outcome in the service: "its progress is reconciled before new work".
ReconciledFirst ==
  gate => \A o \in Ops : executed[o] > 0 => ops[o] \in Outcomes

\* The outcome of a command that ran reaches the service (the journals, connect,
\* reconcile), unless a second fault happens: with two, the service may refuse
\* every connection (the refusals of connect, controller.ts:225 and 235-240).
RanIsSettled ==
  \A o \in Ops : executed[o] > 0 ~> ops[o] \in Outcomes \/ faults > 1

\* Until a second fault happens, a journaled outcome is removed only once the service
\* has settled its operation: the owner is not asked for what the desktop knew
\* (connect, operate).  Two faults can lose it: connect() publishes the journal it
\* finds, then removes a completion.json that journal does not contain.
OutcomeKept ==
  [][faults' <= 1 /\ completion # NoCompletion /\ completion' # completion
       => ops[completion.op] \in Outcomes]_vars

\* A command that was accepted is settled (claim, connect, reconcile).
OperationSettles ==
  \A o \in Ops : ops[o] = "accepted" ~> ops[o] \in Outcomes

=============================================================================
