---------------------------- MODULE OutcomeProofs ----------------------------
(***************************************************************************)
(* Proof that CentralWorkspace forgets no outcome before a second fault: a *)
(* journaled completion is removed or replaced only once the service has   *)
(* settled its operation.                                                  *)
(***************************************************************************)
EXTENDS CentralProofs

-----------------------------------------------------------------------------
(* The inductive invariant                                                 *)

\* The service knows the operation's outcome.
Told(o) == ops[o] \in Outcomes

\* The steps outside a session.
Silent == {"gate", "begin", "drain", "drained"}

\* connect() works off the journals it has found.
Connecting == pc \in {"settle", "finish"} \cup Copying /\ run.next = "finish"

\* operate() has the outcome of its operation in completion.json.
InHand == pc = "clear" \/ (pc \in Copying /\ run.next = "clear")

\* operate() has not published yet.
Started == pc \in {"claimed", "execute", "journal"} \/ (pc = "synchronize" /\ run.next = "clear")

\* connect() is done with the journals, and operate() has written none.
Serving ==
  \/ pc \in {"greet", "loop", "claim", "claimed", "execute", "journal", "cleared", "beat"}
  \/ (pc \in Copying /\ run.next = "greet")

\* No publication is on disk.
Clean ==
  \/ pc \in {"settle", "finish", "greet", "clear", "cleared", "beat"}
  \/ (pc = "synchronize" /\ run.next # "clear")

\* The one fault has happened, and it leaves no begin() on its way: the lease stays.
Last == faults = 1 /\ \A r \in stray : r.type # "begin"

\* Nothing but the desktop itself changes the service.
Sure == held /\ ~Last

\* connect() sees to it that this operation's outcome is told.
Pinned(o) ==
  \/ pc = "synchronize" /\ run.done.op = o
  \/ pc = "publish" /\ publication.done.op = o

\* One request is given up at most.
StrayInv ==
  /\ stray # {} => faults = 1
  /\ \A q, r \in stray : q = r

\* What connect() knows of the journals and of the operations that are still open.
ConnectInv ==
  Connecting =>
    /\ run.read # NoCompletion => completion = run.read
    /\ run.read = NoCompletion /\ completion # NoCompletion => completion.op \in uncertain
    /\ run.read # NoCompletion => Told(run.read.op) \/ run.read.op = run.known
    /\ run.known \in Ops =>
         \/ Told(run.known) \/ Pinned(run.known)
         \/ pc = "settle" /\ run.known = run.read.op
    /\ \A o \in uncertain : ops[o] \in Open => o \in run.pending
    /\ \A o, p \in run.pending : o = p
    /\ pc = "settle" => run.read # NoCompletion
    /\ pc = "synchronize" => \A o \in uncertain : ops[o] \in Open => run.done.op = o

\* What the loop leaves in the journals.
LoopInv ==
  /\ InHand => completion # NoCompletion /\ completion.op = run.op
  /\ Serving \/ InHand \/ bg.fresh \/ Critical => uncertain = {}
  /\ (Serving \/ bg.fresh \/ Critical) /\ completion # NoCompletion => Told(completion.op)
  /\ Clean => publication = NoPublication
  /\ Started /\ publication # NoPublication => Last /\ held
  /\ pc \in {"loop", "claim"} /\ publication # NoPublication /\ ~Critical => Last \/ ~held
  /\ pc = "publish" \/ bg.pc = "publish" => publication # NoPublication

\* What the desktop knows of the service while nothing else changes it.
SureInv ==
  /\ ~Last /\ publication # NoPublication /\ publication.id \in commits =>
       pc \in {"receipt", "erase"} \/ bg.pc \in {"receipt", "erase"}
  /\ Sure /\ pc \notin Silent =>
       state = svc.hash /\ \A o \in Ops : ops[o] = "started" => run.op = o
  /\ Sure /\ (pc \in {"loop", "claim"} \/ bg.fresh) =>
       state = svc.hash /\ \A o \in Ops : ops[o] \notin {"started", "unknown"}
  /\ Sure /\ bg.pc = "publish" =>
       /\ publication.base = svc.hash /\ publication.done = NoCompletion
       /\ \A o \in Ops : ops[o] \notin {"started", "unknown"}

\* The publication on disk contains what is not told yet.
KeptInv ==
  /\ \A o \in uncertain : publication # NoPublication /\ ~Told(o) => publication.done.op = o
  /\ completion # NoCompletion /\ publication # NoPublication =>
       \/ Told(completion.op) \/ publication.done.op = completion.op
       \/ pc = "synchronize" /\ run.next = "clear"

KInv == IInv /\ StrayInv /\ ConnectInv /\ LoopInv /\ SureInv /\ KeptInv

-----------------------------------------------------------------------------
(* Faults                                                                  *)

LEMMA NoFault ==
  ASSUME StrayInv, UNCHANGED <<stray, faults>>
  PROVE  StrayInv' /\ (Last <=> Last')
BY DEF StrayInv, Last

\* The only fault is the last one; what it leaves behind is one request.
LEMMA OneFault ==
  ASSUME faults' <= 1, IInv, StrayInv, Fault
  PROVE  /\ ~Last /\ faults' = 1
         /\ stray' = stray => StrayInv' /\ Last'
         /\ \A r : stray' = stray \cup {r} => StrayInv' /\ (r.type # "begin" => Last')
<1>1. faults' = faults + 1 /\ faults \in Nat
  BY CentralAssumption DEF Fault, IInv, TypeOK
<1>2. faults # 1 /\ faults' = 1
  BY <1>1
<1>3. stray = {}
  BY <1>2 DEF StrayInv
<1>4. stray' = stray => StrayInv' /\ Last'
  BY <1>2, <1>3 DEF StrayInv, Last
<1>5. \A r : stray' = stray \cup {r} => StrayInv' /\ (r.type # "begin" => Last')
  BY <1>2, <1>3 DEF StrayInv, Last
<1> QED BY <1>2, <1>4, <1>5 DEF Last

-----------------------------------------------------------------------------
(* Steps that change nothing the invariant looks at, or end the session    *)

\* Outcomes stay.
Tells == \A o \in Ops : Told(o) => Told(o)'

LEMMA ServiceTells ==
  ASSUME IInv, ServiceStep
  PROVE  /\ Tells
         /\ \A o \in Ops : ops'[o] \in Open => ops[o] \in Open
         /\ \A o \in uncertain : o \in Ops
         /\ \A o \in Ops : ops[o] \in OpStates
<1>1. Tells
  BY DEF Tells, Told, ServiceStep
<1> QED BY <1>1 DEF ServiceStep, IInv, TypeOK

LEMMA Standing ==
  ASSUME KInv, IInv', StrayInv', Last => Last',
         UNCHANGED <<pc, run, bg, completion, publication, uncertain, state>>, Tells,
         \A o \in uncertain : ops'[o] \in Open => ops[o] \in Open,
         Last /\ held => held',
         ~Last' => /\ UNCHANGED <<held, commits>> /\ svc'.hash = svc.hash
                   /\ \A o \in Ops : ops'[o] \in {"started", "unknown"} => ops'[o] = ops[o]
  PROVE  KInv'
<1>1. /\ completion # NoCompletion => completion.op \in Ops
      /\ run.read # NoCompletion => run.read.op \in Ops
      /\ uncertain \subseteq Ops
  BY Before, Fields DEF KInv, IInv, TypeOK
<1>2. Sure' => Sure
  BY DEF Sure
<1>3. ConnectInv'
  BY <1>1 DEF KInv, ConnectInv, Connecting, Pinned, Tells, Told
<1>4. LoopInv'
  BY <1>1 DEF KInv, LoopInv, InHand, Serving, Started, Clean, Critical, Tells, Told
<1>5. SureInv'
  BY <1>2 DEF KInv, SureInv, Sure
<1>6. KeptInv'
  BY <1>1 DEF KInv, KeptInv, Tells, Told
<1> QED BY <1>3, <1>4, <1>5, <1>6 DEF KInv

LEMMA Ending ==
  ASSUME KInv, IInv', StrayInv', Last => Last',
         pc' \in Silent, UNCHANGED <<publication, ops>>,
         bg'.fresh => bg.fresh, bg'.pc \in {bg.pc, "idle"},
         \/ completion' = completion /\ uncertain' \subseteq uncertain
         \/ publication = NoPublication /\ ~bg'.fresh /\ ~Critical',
         ~Last' => /\ UNCHANGED <<held, commits>> /\ svc'.hash = svc.hash
                   /\ bg'.pc = bg.pc \/ bg.pc \notin {"receipt", "erase"}
                   /\ pc \notin {"receipt", "erase"} /\ (state' = state \/ ~bg'.fresh),
         publication # NoPublication => ~(pc = "synchronize" /\ run.next = "clear")
  PROVE  KInv'
<1>1. Sure' => Sure
  BY DEF Sure
<1>2. Critical' => Critical
  BY DEF Critical
<1>3. ConnectInv'
  BY DEF ConnectInv, Connecting, Silent, Copying
<1>4. LoopInv'
  <2>1. ~InHand' /\ ~Serving' /\ ~Clean' /\ ~Started' /\ pc' \notin {"loop", "claim", "publish"}
    BY DEF InHand, Serving, Clean, Started, Silent, Copying
  <2>2. ASSUME bg'.fresh \/ Critical'
        PROVE  uncertain' = {} /\ (completion' # NoCompletion => Told(completion.op)')
    <3>1. uncertain = {} /\ (completion # NoCompletion => Told(completion.op))
      BY <1>2, <2>2 DEF KInv, LoopInv
    <3>2. completion' = completion /\ uncertain' \subseteq uncertain
      BY <2>2
    <3> QED BY <3>1, <3>2 DEF Told
  <2>3. bg'.pc = "publish" => publication' # NoPublication
    BY DEF KInv, LoopInv
  <2>4. /\ InHand' => completion' # NoCompletion /\ completion'.op = run'.op
        /\ Serving' \/ InHand' \/ bg'.fresh \/ Critical' => uncertain' = {}
        /\ (Serving' \/ bg'.fresh \/ Critical') /\ completion' # NoCompletion =>
             Told(completion.op)'
    BY <2>1, <2>2
  <2>5. /\ Clean' => publication' = NoPublication
        /\ Started' /\ publication' # NoPublication => Last' /\ held'
        /\ pc' \in {"loop", "claim"} /\ publication' # NoPublication /\ ~Critical' =>
             Last' \/ ~held'
        /\ pc' = "publish" \/ bg'.pc = "publish" => publication' # NoPublication
    BY <2>1, <2>3
  <2> QED BY <2>4, <2>5 DEF LoopInv
<1>5. SureInv'
  <2>1. pc' \notin {"loop", "claim", "receipt", "erase"}
    BY DEF Silent
  <2>2. /\ ~Last' /\ publication' # NoPublication /\ publication'.id \in commits' =>
             bg'.pc \in {"receipt", "erase"}
        /\ Sure' /\ bg'.fresh =>
             state' = svc'.hash /\ \A o \in Ops : ops'[o] \notin {"started", "unknown"}
        /\ Sure' /\ bg'.pc = "publish" =>
             /\ publication'.base = svc'.hash /\ publication'.done = NoCompletion
             /\ \A o \in Ops : ops'[o] \notin {"started", "unknown"}
    BY <1>1 DEF KInv, SureInv, Sure
  <2> QED BY <2>1, <2>2 DEF SureInv
<1>6. KeptInv'
  BY DEF KInv, KeptInv, Told
<1> QED BY <1>3, <1>4, <1>5, <1>6 DEF KInv

LEMMA SameService ==
  ASSUME UNCHANGED service
  PROVE  Tells /\ UNCHANGED <<ops, held, commits>> /\ svc'.hash = svc.hash
BY DEF service, Tells, Told

\* Requests given up, local failures and crashes end the session.
LEMMA FaultEnds ==
  ASSUME faults' <= 1, KInv, IInv', Fault, pc' \in Silent,
         stray' = stray \/ \E r \in Requests : stray' = stray \cup {r},
         (\A r \in stray' : r \in stray \/ r.type # "begin") \/ pc = "begin",
         UNCHANGED <<publication, completion, ops, held, commits>>, svc'.hash = svc.hash,
         uncertain' \subseteq uncertain, bg' = bg \/ bg' = Idle
  PROVE  KInv'
<1>1. ~Last /\ StrayInv'
  BY OneFault DEF KInv
<1>2. publication # NoPublication => ~(pc = "synchronize" /\ run.next = "clear")
  BY <1>1 DEF KInv, LoopInv, Started
<1>3. /\ bg'.fresh => bg.fresh
      /\ bg'.pc \in {bg.pc, "idle"}
  <2>1. CASE bg' = bg
    BY <2>1
  <2>2. CASE bg' = Idle
    BY <2>2, Values
  <2> QED BY <2>1, <2>2
<1>4. CASE Last'
  BY <1>1, <1>2, <1>3, <1>4, Ending
<1>5. CASE ~Last'
  <2>1. pc = "begin"
    <3>1. stray' = stray => Last'
      BY OneFault DEF KInv
    <3>2. \A r \in stray : r.type # "begin"
      <4>1. stray = {}
        BY <1>1, OneFault DEF KInv, StrayInv, Last, Fault, IInv, TypeOK
      <4> QED BY <4>1
    <3> QED BY <1>1, <1>5, <3>1, <3>2, OneFault DEF KInv, Last
  <2>2. ~bg.fresh /\ bg.pc \notin {"publish", "receipt", "erase"}
    BY <2>1 DEF KInv, IInv, StepInv, Critical
  <2> QED BY <1>1, <1>2, <1>3, <1>5, <2>1, <2>2, Ending
<1> QED BY <1>4, <1>5

\* A refused request ends the session.
LEMMA RefusalEnds ==
  ASSUME KInv, IInv', Throw, pc \notin {"receipt", "erase"}, pc = "synchronize" => ~held,
         UNCHANGED <<service, stray, faults, publication, completion, uncertain, state>>,
         bg'.pc = bg.pc, bg'.fresh => bg.fresh
  PROVE  KInv'
<1>1. StrayInv' /\ (Last <=> Last')
  BY NoFault DEF KInv
<1>2. publication # NoPublication => ~(pc = "synchronize" /\ run.next = "clear")
  BY DEF KInv, LoopInv, Started
<1>3. pc' \in Silent
  BY DEF Throw, Silent
<1> QED BY <1>1, <1>2, <1>3, SameService, Ending

\* The steps that end a session or pass between two.
LEMMA EndingSteps ==
  ASSUME faults' <= 1, KInv, IInv'
  PROVE  /\ CloseGate => KInv'
         /\ EndRenewal => KInv'
         /\ Reconnect => KInv'
         /\ LocalFailure => KInv'
         /\ Crash => KInv'
         /\ Quit => KInv'
<1>1. ASSUME pc \in Silent, pc' \in Silent, bg'.fresh => bg.fresh, bg'.pc = bg.pc,
             UNCHANGED <<service, stray, faults, publication, completion, uncertain, state>>
      PROVE  KInv'
  <2>1. StrayInv' /\ (Last <=> Last')
    BY <1>1, NoFault DEF KInv
  <2>2. pc \notin {"receipt", "erase", "synchronize"}
    BY <1>1 DEF Silent
  <2> QED BY <1>1, <2>1, <2>2, SameService, Ending
<1>2. ASSUME CloseGate PROVE KInv'
  <2>1. /\ pc \in Silent /\ pc' \in Silent /\ bg' = bg
        /\ UNCHANGED <<service, stray, faults, publication, completion, uncertain, state>>
    BY <1>2 DEF CloseGate, Silent, journals
  <2> QED BY <1>1, <2>1
<1>3. ASSUME EndRenewal PROVE KInv'
  <2>1. /\ pc \in Silent /\ pc' \in Silent /\ bg' = [bg EXCEPT !.fresh = FALSE]
        /\ UNCHANGED <<service, stray, faults, publication, completion, uncertain, state>>
    BY <1>3 DEF EndRenewal, Silent, journals
  <2>2. bg'.pc = bg.pc /\ ~bg'.fresh
    BY <2>1, Before, Members, Values DEF KInv
  <2> QED BY <1>1, <2>1, <2>2
<1>4. ASSUME Reconnect PROVE KInv'
  <2>1. /\ pc \in Silent /\ pc' \in Silent /\ bg' = Idle /\ bg.pc = "idle"
        /\ UNCHANGED <<service, stray, faults, publication, completion, uncertain, state>>
    BY <1>4 DEF Reconnect, Silent, journals
  <2>2. bg'.pc = bg.pc /\ ~bg'.fresh
    BY <2>1, Values
  <2> QED BY <1>1, <2>1, <2>2
<1>5. ASSUME LocalFailure PROVE KInv'
  <2>1. /\ Fault /\ pc' \in Silent /\ bg' = bg
        /\ UNCHANGED <<service, stray, publication, completion, uncertain>>
    BY <1>5 DEF LocalFailure, Throw, Silent, journals
  <2> QED BY <2>1, SameService, FaultEnds
<1>6. ASSUME Crash PROVE KInv'
  <2>1. /\ Fault /\ pc' \in Silent /\ bg' = Idle /\ uncertain' = {}
        /\ UNCHANGED <<service, stray, publication, completion>>
    BY <1>6 DEF Crash, Forget, Silent, journals
  <2> QED BY <2>1, SameService, FaultEnds
<1>7. ASSUME Quit PROVE KInv'
  <2>1. /\ Fault /\ pc' \in Silent /\ bg' = Idle /\ uncertain' = {}
        /\ UNCHANGED <<ops, held, commits, stray, publication, completion>>
    BY <1>7 DEF Quit, Forget, Silent, journals
  <2>2. svc'.hash = svc.hash
    BY <1>7 DEF Quit, KInv, IInv, TypeOK, Rows
  <2> QED BY <2>1, <2>2, FaultEnds
<1> QED BY <1>2, <1>3, <1>4, <1>5, <1>6, <1>7

\* The steps that leave the loop where it is, and late requests.
LEMMA StandingSteps ==
  ASSUME faults' <= 1, KInv, IInv'
  PROVE  /\ Renew => KInv'
         /\ Work => KInv'
         /\ Lapse => KInv'
         /\ \A o \in Ops : Submit(o) => KInv'
         /\ \A o \in Ops : GiveUp(o) => KInv'
         /\ \A r \in stray : Deliver(r) => KInv'
         /\ UNCHANGED vars => KInv'
<1>1. ASSUME UNCHANGED <<pc, run, bg, completion, publication, uncertain, state>>,
             UNCHANGED <<ops, held, commits>>, svc'.hash = svc.hash, StrayInv', Last => Last'
      PROVE  KInv'
  <2>1. Tells
    BY <1>1 DEF Tells, Told
  <2> QED BY <1>1, <2>1, Standing
<1>2. ASSUME Renew PROVE KInv'
  <2>1. UNCHANGED <<pc, run, bg, completion, publication, uncertain, state, ops, held, commits>>
    BY <1>2 DEF Renew, ServeBeat, GivenUp, journals, service
  <2>2. svc'.hash = svc.hash
    BY <1>2 DEF Renew, ServeBeat, GivenUp, service, KInv, IInv, TypeOK, Rows
  <2>3. StrayInv' /\ (Last => Last')
    <3>1. CASE UNCHANGED <<stray, faults>>
      BY <3>1, NoFault DEF KInv
    <3>2. CASE GivenUp(HeartbeatRequest)
      <4>1. HeartbeatRequest.type # "begin"
        BY DEF HeartbeatRequest
      <4> QED BY <3>2, <4>1, OneFault DEF KInv, GivenUp
    <3> QED BY <1>2, <3>1, <3>2 DEF Renew
  <2> QED BY <1>1, <2>1, <2>2, <2>3
<1>3. ASSUME Work PROVE KInv'
  BY <1>1, <1>3, NoFault DEF Work, journals, service, KInv
<1>4. ASSUME Lapse PROVE KInv'
  <2>1. svc'.hash = svc.hash
    BY <1>4 DEF Lapse, KInv, IInv, TypeOK, Rows
  <2> QED BY <1>1, <1>4, <2>1, NoFault DEF Lapse, journals, KInv
<1>5. ASSUME NEW o \in Ops, Submit(o) PROVE KInv'
  <2>1. /\ ops[o] = "absent" /\ ops'[o] = "accepted" /\ \A p \in Ops \ {o} : ops'[p] = ops[p]
    BY <1>5 DEF Submit, KInv, IInv, TypeOK
  <2>2. UNCHANGED <<svc, held, commits, stray, faults, pc, run, bg, completion, publication,
                    uncertain, state>>
    BY <1>5 DEF Submit, journals
  <2>3. Tells
    BY <2>1 DEF Tells, Told, Outcomes
  <2>4. \A p \in uncertain : p \in Ops \ {o}
    BY <2>1 DEF KInv, IInv, TypeOK, OpsInv
  <2>5. \A p \in Ops : ops'[p] \in {"started", "unknown"} => ops'[p] = ops[p]
    BY <2>1
  <2>6. StrayInv' /\ (Last <=> Last')
    BY <2>2, NoFault DEF KInv
  <2> QED BY <2>1, <2>2, <2>3, <2>4, <2>5, <2>6, Standing
<1>6. ASSUME NEW o \in Ops, GiveUp(o) PROVE KInv'
  BY <1>1, <1>6, NoFault DEF GiveUp, journals, service, KInv
<1>7. ASSUME NEW r \in stray, Deliver(r) PROVE KInv'
  <2>1. UNCHANGED <<pc, run, bg, completion, publication, uncertain, state, faults>>
    BY <1>7 DEF Deliver, journals
  <2>2. r.type \in {"begin", "heartbeat", "claim", "publish"}
    BY DEF KInv, IInv, TypeOK, Requests
  <2>3. stray' = {}
    <3>1. stray = {r}
      BY DEF KInv, StrayInv
    <3>2. CASE r.type = "begin"
      BY <1>7, <3>2 DEF Deliver, ServeBegin
    <3>3. CASE r.type # "begin"
      <4>1. stray' = stray \ {r}
        BY <1>7, <2>2, <3>3 DEF Deliver
      <4> QED BY <3>1, <4>1
    <3> QED BY <3>2, <3>3
  <2>4. StrayInv' /\ Last'
    BY <2>1, <2>3 DEF KInv, StrayInv, Last
  <2>5. Last => held' = held
    <3> SUFFICES ASSUME Last PROVE held' = held
      OBVIOUS
    <3>1. r.type # "begin"
      BY DEF Last
    <3> QED BY <1>7, <2>2, <3>1 DEF Deliver, ServeBeat, ServeClaim, ServePublish, service
  <2>6. ServiceStep
    <3>1. TypeOK' /\ IInv
      BY DEF KInv, IInv
    <3> QED BY <1>7, <3>1, DeliverKept DEF Kept, Frame
  <2>7. Tells /\ \A o \in uncertain : ops'[o] \in Open => ops[o] \in Open
    BY <2>6, ServiceTells DEF KInv
  <2> QED BY <2>1, <2>4, <2>5, <2>7, Standing
<1>8. ASSUME UNCHANGED vars PROVE KInv'
  BY <1>1, <1>8, NoFault DEF vars, journals, service, KInv
<1> QED BY <1>2, <1>3, <1>4, <1>5, <1>6, <1>7, <1>8

-----------------------------------------------------------------------------
(* The background synchronize()                                            *)

\* Its steps that neither ask anything of the service nor save a publication.
LEMMA BackgroundOnly ==
  ASSUME KInv, IInv', UNCHANGED <<pc, run, completion, uncertain, state, service>>,
         StrayInv', Last => Last',
         publication' = publication \/ (publication' = NoPublication /\ bg.pc = "erase"),
         bg'.fresh => bg.fresh, bg'.pc = "publish" => bg.pc = "publish",
         Critical' => Critical,
         ~Last' => \/ bg'.pc \in {"receipt", "erase"}
                   \/ bg.pc \notin {"publish", "receipt", "erase"}
                   \/ publication' = NoPublication
                   \/ bg.pc = "publish" /\ ~Critical' /\ (pc \in {"loop", "claim"} => ~held)
  PROVE  KInv'
<1>1. Tells /\ UNCHANGED <<ops, held, commits>> /\ svc'.hash = svc.hash
  BY SameService
<1>2. bg.pc \in {"publish", "receipt", "erase"} => pc \in {"loop", "claim"} \cup Silent
  BY DEF KInv, IInv, StepInv, Critical, Silent
<1>3. Sure' => Sure
  BY <1>1 DEF Sure
<1>4. ConnectInv'
  <2>1. Connecting => publication' = publication
    BY <1>2 DEF Connecting, Copying, Silent
  <2>2. ~Connecting => ~Connecting'
    BY DEF Connecting
  <2>3. ASSUME Connecting PROVE ConnectInv'
    BY <1>1, <2>1, <2>3 DEF KInv, ConnectInv, Pinned, Told
  <2> QED BY <2>2, <2>3 DEF ConnectInv
<1>5. LoopInv'
  <2>1. /\ InHand' => completion' # NoCompletion /\ completion'.op = run'.op
        /\ Serving' \/ InHand' \/ bg'.fresh \/ Critical' => uncertain' = {}
        /\ (Serving' \/ bg'.fresh \/ Critical') /\ completion' # NoCompletion =>
             Told(completion.op)'
    BY <1>1 DEF KInv, LoopInv, InHand, Serving, Told
  <2>2. /\ Clean' => publication' = NoPublication
        /\ Started' /\ publication' # NoPublication => Last' /\ held'
    BY <1>1 DEF KInv, LoopInv, Clean, Started
  <2>3. ASSUME pc' \in {"loop", "claim"}, publication' # NoPublication, ~Critical'
        PROVE  Last' \/ ~held'
    <3>1. CASE Critical
      BY <1>1, <2>3, <3>1 DEF Critical
    <3>2. CASE ~Critical
      BY <1>1, <2>3, <3>2 DEF KInv, LoopInv
    <3> QED BY <3>1, <3>2
  <2>4. pc' = "publish" \/ bg'.pc = "publish" => publication' # NoPublication
    <3>1. pc' = "publish" \/ bg'.pc = "publish" => bg.pc # "erase"
      BY <1>2 DEF Silent
    <3> QED BY <3>1 DEF KInv, LoopInv
  <2> QED BY <2>1, <2>2, <2>3, <2>4 DEF LoopInv
<1>6. SureInv'
  <2>1. ~Last' /\ publication' # NoPublication /\ publication'.id \in commits' =>
          pc' \in {"receipt", "erase"} \/ bg'.pc \in {"receipt", "erase"}
    <3> SUFFICES ASSUME ~Last', publication' # NoPublication, publication.id \in commits
                 PROVE  pc \in {"receipt", "erase"} \/ bg'.pc \in {"receipt", "erase"}
      BY <1>1
    <3>1. publication' = publication
      OBVIOUS
    <3>2. pc \in {"receipt", "erase"} \/ bg.pc \in {"receipt", "erase"}
      BY <3>1 DEF KInv, SureInv
    <3> QED BY <3>1, <3>2
  <2>2. Sure' /\ pc' \notin Silent =>
          state' = svc'.hash /\ \A o \in Ops : ops'[o] = "started" => run'.op = o
    BY <1>1, <1>3 DEF KInv, SureInv
  <2>3. Sure' /\ (pc' \in {"loop", "claim"} \/ bg'.fresh) =>
          state' = svc'.hash /\ \A o \in Ops : ops'[o] \notin {"started", "unknown"}
    BY <1>1, <1>3 DEF KInv, SureInv
  <2>4. Sure' /\ bg'.pc = "publish" =>
          /\ publication'.base = svc'.hash /\ publication'.done = NoCompletion
          /\ \A o \in Ops : ops'[o] \notin {"started", "unknown"}
    BY <1>1, <1>3 DEF KInv, SureInv
  <2> QED BY <2>1, <2>2, <2>3, <2>4 DEF SureInv
<1>7. KeptInv'
  BY <1>1 DEF KInv, KeptInv, Told
<1> QED BY <1>4, <1>5, <1>6, <1>7 DEF KInv

\* Moves of the background leave it as fresh as it was.
LEMMA BackgroundMoves ==
  ASSUME KInv
  PROVE  \A x \in {"publish", "receipt", "erase"} :
           LET b == [bg EXCEPT !.pc = x] IN b.pc = x /\ b.fresh = bg.fresh
BY DEF KInv, IInv, TypeOK, Backgrounds

LEMMA BackgroundEnds ==
  ASSUME KInv
  PROVE  \A e : LET b == BackgroundDone(e) IN b.pc = "idle" /\ ~b.fresh
BY Values DEF BackgroundDone

\* A publication the background saves is new and tells of no outcome.
LEMMA BackgroundSaves ==
  ASSUME KInv, IInv', BackgroundSave
  PROVE  KInv'
<1>1. /\ bg.pc = "save"
      /\ UNCHANGED <<service, stray, completion, pc, run, state, uncertain, faults>>
  BY DEF BackgroundSave
<1>2. StrayInv' /\ (Last <=> Last')
  BY <1>1, NoFault DEF KInv
<1>3. CASE publication' = publication /\ bg' = BackgroundDone(bg.fresh)
  <2>1. bg'.pc = "idle" /\ ~bg'.fresh
    BY <1>3, BackgroundEnds
  <2> QED BY <1>1, <1>2, <1>3, <2>1, BackgroundOnly DEF Critical
<1>4. CASE /\ bg.fresh /\ publication' = NewPublication(bg.hash, NoCompletion)
           /\ bg' = [bg EXCEPT !.pc = "publish"]
  <2>1. bg'.pc = "publish" /\ bg'.fresh = bg.fresh
    BY <1>4, BackgroundMoves
  <2>2. /\ publication'.id \notin commits /\ publication' # NoPublication
        /\ publication'.base = state /\ publication'.done = NoCompletion
    <3>1. NewId \notin commits /\ NewId # 0
      BY NewIdIsFresh DEF KInv, IInv, UsedIds
    <3> QED BY <1>4, <3>1 DEF NewPublication, NoPublication
  <2>3. Tells /\ UNCHANGED <<ops, held, commits>> /\ svc'.hash = svc.hash
    BY <1>1, SameService
  <2>4. pc \in {"loop", "claim", "drain"}
    BY <1>4 DEF KInv, IInv, StepInv
  <2>5. uncertain = {} /\ (completion # NoCompletion => Told(completion.op))
    BY <1>4 DEF KInv, LoopInv
  <2>6. ConnectInv'
    BY <1>1, <2>4 DEF ConnectInv, Connecting, Copying
  <2>7. LoopInv'
    <3>1. ~InHand' /\ ~Clean' /\ ~Started' /\ Critical' /\ pc' # "publish"
      BY <1>1, <2>1, <2>4 DEF InHand, Clean, Started, Critical, Copying
    <3> QED BY <1>1, <2>2, <2>3, <2>5, <3>1 DEF LoopInv, Told
  <2>8. SureInv'
    <3>1. Sure' => Sure /\ state = svc.hash /\ \A o \in Ops : ops[o] \notin {"started", "unknown"}
      BY <1>2, <1>4, <2>3 DEF KInv, SureInv, Sure
    <3> QED BY <1>1, <2>2, <2>3, <3>1 DEF SureInv
  <2>9. KeptInv'
    BY <1>1, <2>3, <2>5 DEF KeptInv, Told
  <2> QED BY <1>2, <2>6, <2>7, <2>8, <2>9 DEF KInv
<1> QED BY <1>3, <1>4 DEF BackgroundSave

\* What a commit does to the service, as long as it is not a repetition.
LEMMA CommitServes ==
  ASSUME KInv, publication # NoPublication, ~Last, ServePublish(publication),
         pc \notin {"receipt", "erase"}, bg.pc \notin {"receipt", "erase"}
  PROVE  /\ svc'.hash = publication.hash /\ UNCHANGED held
         /\ publication.done = NoCompletion => \A o \in Ops : ops'[o] = ops[o]
         /\ \A o \in Ops : ops'[o] = "started" => ops[o] = "started"
<1>1. ~Prior(publication)
  BY DEF KInv, SureInv, Prior
<1>2. /\ svc' = IF publication.hash = svc.hash THEN svc
                ELSE [svc EXCEPT !.prev = svc.hash, !.hash = publication.hash]
      /\ ops' = [o \in Ops |-> IF o = publication.done.op THEN publication.done.out ELSE ops[o]]
      /\ UNCHANGED held
  BY <1>1 DEF ServePublish
<1>3. svc'.hash = publication.hash
  BY <1>2 DEF KInv, IInv, TypeOK, Rows
<1>4. ASSUME publication.done = NoCompletion, NEW o \in Ops
      PROVE  ops'[o] = ops[o]
  BY <1>2, <1>4, CentralAssumption DEF NoCompletion
<1>5. publication.done.out # "started"
  BY Fields DEF KInv, IInv, TypeOK, Outcomes
<1>6. \A o \in Ops : ops'[o] = "started" => ops[o] = "started"
  BY <1>2, <1>5
<1> QED BY <1>2, <1>3, <1>4, <1>6

\* While nothing else changes the service it accepts what the background publishes.
LEMMA BackgroundIsAccepted ==
  ASSUME KInv, Sure, bg.pc = "publish"
  PROVE  Committable(publication)
<1>1. /\ publication.base = svc.hash /\ publication.done = NoCompletion
      /\ \A o \in Ops : ops[o] \notin {"started", "unknown"}
  BY DEF KInv, SureInv
<1>2. In({"started", "unknown"}) = {}
  BY <1>1 DEF In
<1>3. Accepted(publication)
  BY <1>1, <1>2 DEF Accepted
<1> QED BY <1>3 DEF Committable, Sure

LEMMA BackgroundPublishes ==
  ASSUME faults' <= 1, KInv, IInv', BackgroundPublish
  PROVE  KInv'
<1>1. /\ bg.pc = "publish" /\ publication # NoPublication
      /\ UNCHANGED <<completion, publication, pc, run, uncertain>>
  BY DEF BackgroundPublish, journals, KInv, LoopInv
<1>2. /\ pc \in {"loop", "claim", "drain", "drained"} /\ uncertain = {}
      /\ completion # NoCompletion => Told(completion.op) /\ completion.op \in Ops
  BY <1>1, Before, Fields DEF KInv, IInv, TypeOK, StepInv, LoopInv, Critical
<1>3. CASE /\ ServePublish(publication) /\ state' = publication.hash
           /\ bg' = [bg EXCEPT !.pc = "receipt"] /\ UNCHANGED <<stray, faults>>
  <2>1. StrayInv' /\ (Last <=> Last')
    BY <1>3, NoFault DEF KInv
  <2>2. bg'.pc = "receipt" /\ bg'.fresh = bg.fresh
    BY <1>3, BackgroundMoves
  <2>3. Tells
    BY <1>3, Before, PublishIsServiceStep, ServiceTells DEF KInv
  <2>4. ConnectInv'
    BY <1>1, <1>2 DEF ConnectInv, Connecting, Copying
  <2>5. LoopInv'
    <3>1. ~InHand' /\ ~Clean' /\ ~Started' /\ Critical' /\ pc' # "publish"
      BY <1>1, <1>2, <2>2 DEF InHand, Clean, Started, Critical, Copying
    <3>2. uncertain' = {} /\ (completion' # NoCompletion => Told(completion.op)')
      BY <1>1, <1>2, <2>3 DEF Tells
    <3> QED BY <2>2, <3>1, <3>2 DEF LoopInv
  <2>6. SureInv'
    <3>1. CASE Last
      BY <2>1, <2>2, <3>1 DEF SureInv, Sure
    <3>2. CASE ~Last
      <4>1. /\ state' = svc'.hash /\ UNCHANGED held
            /\ publication.done = NoCompletion => \A o \in Ops : ops'[o] = ops[o]
        BY <1>1, <1>2, <1>3, <3>2, CommitServes
      <4>2. held => \A o \in Ops : ops'[o] \notin {"started", "unknown"}
        BY <1>1, <3>2, <4>1 DEF KInv, SureInv, Sure
      <4>3. Sure' => \A o \in Ops : ops'[o] \notin {"started", "unknown"}
        BY <4>1, <4>2 DEF Sure
      <4> QED BY <2>2, <4>1, <4>3 DEF SureInv
    <3> QED BY <3>1, <3>2
  <2>7. KeptInv'
    BY <1>1, <1>2, <2>3 DEF KeptInv, Tells, Told
  <2> QED BY <2>1, <2>4, <2>5, <2>6, <2>7 DEF KInv
<1>4. CASE /\ ~Committable(publication) /\ bg' = BackgroundDone(TRUE)
           /\ UNCHANGED <<service, stray, state, faults>>
  <2>1. StrayInv' /\ (Last <=> Last')
    BY <1>4, NoFault DEF KInv
  <2>2. bg'.pc = "idle" /\ ~bg'.fresh
    BY <1>4, BackgroundEnds
  <2>3. ~Last' => ~held
    BY <1>1, <1>4, <2>1, BackgroundIsAccepted DEF Sure
  <2> QED BY <1>1, <1>4, <2>1, <2>2, <2>3, BackgroundOnly DEF Critical
<1>5. CASE GivenUp(PublishRequest(publication)) /\ bg' = BackgroundDone(TRUE) /\ UNCHANGED state
  <2>1. PublishRequest(publication).type # "begin"
    BY DEF PublishRequest
  <2>2. StrayInv' /\ Last' /\ UNCHANGED service
    BY <1>5, <2>1, OneFault DEF KInv, GivenUp
  <2>3. bg'.pc = "idle" /\ ~bg'.fresh
    BY <1>5, BackgroundEnds
  <2> QED BY <1>1, <1>5, <2>2, <2>3, BackgroundOnly DEF Critical
<1> QED BY <1>3, <1>4, <1>5 DEF BackgroundPublish

LEMMA BackgroundSteps ==
  ASSUME faults' <= 1, KInv, IInv'
  PROVE  /\ Background => KInv'
         /\ BackgroundFails => KInv'
<1>1. ASSUME BackgroundSnapshot PROVE KInv'
  <2>1. /\ bg.pc = "snapshot"
        /\ UNCHANGED <<service, stray, completion, publication, pc, run, state, uncertain, faults>>
    BY <1>1 DEF BackgroundSnapshot, journals
  <2>2. StrayInv' /\ (Last <=> Last')
    BY <2>1, NoFault DEF KInv
  <2>3. bg'.pc \in {"save", "idle"} /\ (bg'.fresh => bg.fresh)
    <3>1. CASE bg' = [bg EXCEPT !.pc = "save", !.hash = content]
      <4>1. content \in Contents
        BY DEF KInv, IInv, TypeOK
      <4> QED BY <3>1, <4>1, Before, Values DEF KInv
    <3>2. CASE bg' = BackgroundDone(FALSE)
      BY <3>2, BackgroundEnds
    <3> QED BY <1>1, <3>1, <3>2 DEF BackgroundSnapshot
  <2> QED BY <2>1, <2>2, <2>3, BackgroundOnly DEF Critical
<1>2. ASSUME BackgroundReceipt PROVE KInv'
  <2>1. /\ bg.pc = "receipt" /\ bg' = [bg EXCEPT !.pc = "erase"]
        /\ UNCHANGED <<service, stray, completion, publication, pc, run, state, uncertain, faults>>
    BY <1>2 DEF BackgroundReceipt
  <2>2. StrayInv' /\ (Last <=> Last')
    BY <2>1, NoFault DEF KInv
  <2>3. bg'.pc = "erase" /\ bg'.fresh = bg.fresh
    BY <2>1, BackgroundMoves
  <2> QED BY <2>1, <2>2, <2>3, BackgroundOnly DEF Critical
<1>3. ASSUME BackgroundErase PROVE KInv'
  <2>1. /\ bg.pc = "erase" /\ publication' = NoPublication /\ bg' = BackgroundDone(FALSE)
        /\ UNCHANGED <<service, stray, completion, pc, run, state, uncertain, faults>>
    BY <1>3 DEF BackgroundErase
  <2>2. StrayInv' /\ (Last <=> Last')
    BY <2>1, NoFault DEF KInv
  <2>3. bg'.pc = "idle" /\ ~bg'.fresh
    BY <2>1, BackgroundEnds
  <2> QED BY <2>1, <2>2, <2>3, BackgroundOnly DEF Critical
<1>4. ASSUME BackgroundFails PROVE KInv'
  <2>1. /\ Fault /\ bg' = BackgroundDone(TRUE)
        /\ UNCHANGED <<service, stray, completion, publication, pc, run, state, uncertain>>
    BY <1>4 DEF BackgroundFails, journals
  <2>2. StrayInv' /\ Last'
    BY <2>1, OneFault DEF KInv
  <2>3. bg'.pc = "idle" /\ ~bg'.fresh
    BY <2>1, BackgroundEnds
  <2> QED BY <2>1, <2>2, <2>3, BackgroundOnly DEF Critical
<1> QED BY <1>1, <1>2, <1>3, <1>4, BackgroundSaves, BackgroundPublishes DEF Background

-----------------------------------------------------------------------------
(* The steps of the loop                                                   *)

\* Updates of loop()'s values leave the operation the journals know.
LEMMA KnownStays ==
  \A r \in Runs, c \in Completions :
    /\ [r EXCEPT !.again = FALSE, !.recent = TRUE].known = r.known
    /\ [r EXCEPT !.done = c].known = r.known
    /\ [r EXCEPT !.again = FALSE, !.done = c].known = r.known
BY DEF Runs

LEMMA Typed ==
  ASSUME KInv
  PROVE  /\ completion # NoCompletion => completion.op \in Ops
         /\ run.read # NoCompletion => run.read.op \in Ops
         /\ run.read.op \in Ops => run.read # NoCompletion
         /\ run.done # NoCompletion => run.done.op \in Ops
         /\ run.done.op \in Ops => run.done # NoCompletion
         /\ uncertain \subseteq Ops /\ run.pending \subseteq Ops
         /\ run.known \in Ops \cup {NoOp} /\ NoOp \notin Ops /\ NoCompletion.op = NoOp
         /\ publication.done # NoCompletion => publication.done.op \in Ops
         /\ publication.done.op \in Ops => publication.done # NoCompletion
         /\ run.next \in {"greet", "finish", "clear"}
         /\ run \in Runs /\ run.done \in Completions /\ run.read \in Completions
         /\ completion \in Completions
         /\ publication \in Publications /\ publication.done \in Completions
<1>1. run \in Runs /\ completion \in Completions /\ publication \in Publications /\ uncertain \subseteq Ops
  BY DEF KInv, IInv, TypeOK
<1>2. run.done \in Completions /\ run.read \in Completions /\ publication.done \in Completions
  BY <1>1, Fields
<1>3. NoOp \notin Ops /\ NoCompletion.op = NoOp
  BY CentralAssumption DEF NoCompletion
<1>4. \A c \in Completions : (c # NoCompletion => c.op \in Ops) /\ (c.op \in Ops => c # NoCompletion)
  BY Fields
<1>5. run.known \in Ops \cup {NoOp} /\ run.pending \subseteq Ops /\ run.next \in {"greet", "finish", "clear"}
  BY <1>1, Fields
<1> QED BY <1>1, <1>2, <1>3, <1>4, <1>5

\* What is recorded of an operation that is not told is open.
LEMMA UntoldIsOpen ==
  ASSUME KInv
  PROVE  /\ \A o \in uncertain : Told(o) \/ ops[o] \in Open
         /\ run.read # NoCompletion => Told(run.read.op) \/ ops[run.read.op] \in Open
         /\ completion # NoCompletion => Told(completion.op) \/ ops[completion.op] \in Open
         /\ \A o, p \in Ops : ops[o] \in Open /\ ops[p] \in Open => o = p
<1>1. \A o \in Ops : ops[o] \in OpStates
  BY DEF KInv, IInv, TypeOK
<1>2. \A o \in Ops : ops[o] # "absent" => Told(o) \/ ops[o] \in Open
  BY <1>1 DEF OpStates, Told
<1>3. \A o \in uncertain : o \in Ops /\ ops[o] # "absent"
  BY Typed DEF KInv, IInv, OpsInv
<1>4. run.read # NoCompletion => run.read.op \in Ops /\ ops[run.read.op] # "absent"
  BY Before, Typed DEF KInv, Truthful
<1>5. completion # NoCompletion => completion.op \in Ops /\ ops[completion.op] # "absent"
  BY Before, Typed DEF KInv, Truthful
<1>6. \A o, p \in Ops : ops[o] \in Open /\ ops[p] \in Open => o = p
  BY DEF KInv, IInv, LedgerInv, In
<1> QED BY <1>2, <1>3, <1>4, <1>5, <1>6

\* What the desktop knows of the service is as true after a step that asks nothing of it.
LEMMA KnowledgeStays ==
  ASSUME KInv, UNCHANGED <<service, stray, faults, bg, state>>, pc \notin Silent,
         pc' \notin Silent,
         publication' \in {publication, NoPublication} \/ publication'.id \notin commits,
         bg.pc = "publish" => publication' = publication,
         pc \in {"receipt", "erase"} /\ publication' # NoPublication => pc' \in {"receipt", "erase"},
         pc' \in {"loop", "claim"} => pc \in {"loop", "claim"},
         \A o \in Ops : ops[o] = "started" /\ run.op = o => run'.op = o
  PROVE  StrayInv' /\ (Last <=> Last') /\ SureInv' /\ Tells
<1>1. StrayInv' /\ (Last <=> Last')
  BY NoFault DEF KInv
<1>2. Tells /\ UNCHANGED <<ops, held, commits>> /\ svc'.hash = svc.hash
  BY SameService
<1>3. Sure' => Sure
  BY <1>1, <1>2 DEF Sure
<1>4. ~Last' /\ publication' # NoPublication /\ publication'.id \in commits' =>
        pc' \in {"receipt", "erase"} \/ bg'.pc \in {"receipt", "erase"}
  BY <1>1, <1>2 DEF KInv, SureInv
<1>5. Sure' /\ pc' \notin Silent =>
        state' = svc'.hash /\ \A o \in Ops : ops'[o] = "started" => run'.op = o
  BY <1>2, <1>3 DEF KInv, SureInv
<1>6. Sure' /\ (pc' \in {"loop", "claim"} \/ bg'.fresh) =>
        state' = svc'.hash /\ \A o \in Ops : ops'[o] \notin {"started", "unknown"}
  BY <1>2, <1>3 DEF KInv, SureInv
<1>7. Sure' /\ bg'.pc = "publish" =>
        /\ publication'.base = svc'.hash /\ publication'.done = NoCompletion
        /\ \A o \in Ops : ops'[o] \notin {"started", "unknown"}
  BY <1>2, <1>3 DEF KInv, SureInv
<1> QED BY <1>1, <1>2, <1>4, <1>5, <1>6, <1>7 DEF SureInv

\* Inside connect() and operate() the background is at rest.
LEMMA BackgroundRests ==
  ASSUME KInv, pc \notin {"loop", "claim", "drain", "drained"}
  PROVE  ~bg.fresh /\ ~Critical /\ bg.pc # "publish"
BY DEF KInv, IInv, StepInv, Critical

\* connect()'s begin tells what is open, and nothing is started any more.
LEMMA BeginStep ==
  ASSUME faults' <= 1, KInv, IInv', Begin
  PROVE  KInv'
<1>1. /\ pc = "begin" /\ UNCHANGED <<completion, publication, uncertain, bg>>
  BY DEF Begin, journals
<1>2. ~bg.fresh /\ ~Critical /\ bg.pc \notin {"publish", "receipt", "erase"}
  BY <1>1, BackgroundRests DEF Critical
<1>3. CASE ServeBegin(TRUE) /\ Connected /\ UNCHANGED faults
  <2>1. /\ ops' = Disconnected /\ held' /\ commits' = commits /\ svc'.hash = svc.hash
        /\ stray' = {r \in stray : r.type = "begin"}
    BY <1>3 DEF ServeBegin, KInv, IInv, TypeOK, Rows
  <2>2. StrayInv' /\ (Last => Last') /\ (Last' => Last)
    BY <1>3, <2>1 DEF KInv, StrayInv, Last
  <2>3. Tells
    BY <1>3, BeginIsServiceStep, ServiceTells DEF KInv
  <2>4. \A o \in Ops : ops'[o] # "started"
    BY <2>1 DEF Disconnected
  <2>5. /\ state' = svc'.hash
        /\ run'.read = completion /\ run'.next = "finish"
        /\ run'.known = IF publication.done # NoCompletion
                        THEN publication.done.op ELSE completion.op
        /\ run'.pending = {o \in Ops : ops'[o] = "unknown"}
    BY <1>3, <2>1 DEF Connected, NoRun
  <2>6. /\ pc' \in {"drain", "publish", "settle", "finish"}
        /\ pc' = "publish" => publication # NoPublication
        /\ pc' \in {"settle", "finish"} => publication = NoPublication
        /\ pc' = "settle" => completion # NoCompletion
        /\ pc' = "finish" => completion = NoCompletion
    BY <1>3 DEF Connected, Throw
  <2>7. publication # NoPublication /\ completion # NoCompletion =>
          Told(completion.op) \/ publication.done.op = completion.op
    BY <1>1 DEF KInv, KeptInv
  <2>8. NoPublication.done = NoCompletion
    BY DEF NoPublication
  <2>9. ASSUME pc' # "drain" PROVE ConnectInv'
    <3>1. run'.read # NoCompletion => Told(run.read.op)' \/ run'.read.op = run'.known
      <4> SUFFICES ASSUME completion # NoCompletion, ~(ops'[completion.op] \in Outcomes)
                   PROVE  completion.op = run'.known
        BY <2>5 DEF Told
      <4>1. ~Told(completion.op)
        BY <2>3, Typed DEF Tells, Told
      <4> QED BY <2>5, <2>7, <2>8, <4>1
    <3>2. run'.known \in Ops =>
            \/ Told(run.known)' \/ Pinned(run.known)'
            \/ pc' = "settle" /\ run'.known = run'.read.op
      <4> SUFFICES ASSUME run'.known \in Ops, ~(ops'[run'.known] \in Outcomes)
                   PROVE  \/ pc' = "publish" /\ publication.done.op = run'.known
                          \/ pc' = "settle" /\ run'.known = run'.read.op
        BY <1>1 DEF Told, Pinned
      <4>1. ~Told(run'.known)
        BY <2>3 DEF Tells, Told
      <4>2. CASE publication # NoPublication
        <5>1. pc' = "publish"
          BY <2>6, <2>9, <4>2
        <5>2. CASE publication.done # NoCompletion
          BY <2>5, <5>1, <5>2
        <5>3. CASE publication.done = NoCompletion
          <6>1. run'.known = completion.op /\ completion # NoCompletion
            BY <2>5, <5>3, Typed
          <6> QED BY <2>7, <4>1, <4>2, <5>1, <6>1
        <5> QED BY <5>2, <5>3
      <4>3. CASE publication = NoPublication
        <5>1. run'.known = completion.op /\ completion # NoCompletion
          BY <2>5, <2>8, <4>3, Typed
        <5> QED BY <2>5, <2>6, <2>9, <4>3, <5>1
      <4> QED BY <4>2, <4>3
    <3>3. \A o \in uncertain' : ops'[o] \in Open => o \in run'.pending
      <4>1. \A o \in uncertain' : o \in Ops /\ ops'[o] \notin {"absent", "accepted", "started"}
        BY <1>1, Typed DEF IInv, OpsInv
      <4> QED BY <2>5, <4>1 DEF Open
    <3>4. \A o, p \in run'.pending : o = p
      BY <2>5 DEF IInv, LedgerInv, In, Open
    <3>5. /\ run'.read # NoCompletion => completion' = run'.read
          /\ run'.read = NoCompletion /\ completion' # NoCompletion => completion'.op \in uncertain'
          /\ pc' = "settle" => run'.read # NoCompletion
          /\ pc' # "synchronize"
      BY <1>1, <2>5, <2>6
    <3> QED BY <3>1, <3>2, <3>3, <3>4, <3>5 DEF ConnectInv
  <2>10. ConnectInv'
    BY <2>9 DEF ConnectInv, Connecting, Copying
  <2>11. LoopInv'
    <3>1. ~InHand' /\ ~Serving' /\ ~Started' /\ ~bg'.fresh /\ ~Critical'
      BY <1>1, <1>2, <2>5, <2>6 DEF InHand, Serving, Started, Copying, Critical
    <3>2. Clean' => publication' = NoPublication
      BY <1>1, <2>6 DEF Clean
    <3> QED BY <1>1, <1>2, <2>6, <3>1, <3>2 DEF LoopInv
  <2>12. SureInv'
    <3>1. ~Last' /\ publication' # NoPublication => publication'.id \notin commits'
      BY <1>1, <1>2, <2>1, <2>2 DEF KInv, SureInv
    <3> QED BY <1>1, <1>2, <2>4, <2>5, <2>6, <3>1 DEF SureInv
  <2>13. KeptInv'
    BY <1>1, <2>3, Typed DEF KInv, KeptInv, Tells, Told
  <2> QED BY <2>2, <2>10, <2>11, <2>12, <2>13 DEF KInv
<1>4. CASE svc.online /\ Throw /\ UNCHANGED <<service, stray, run, state, faults>>
  BY <1>1, <1>4, RefusalEnds
<1>5. CASE GivenUp(BeginRequest) /\ Throw /\ UNCHANGED <<run, state>>
  <2>1. /\ Fault /\ stray' = stray \cup {BeginRequest} /\ UNCHANGED service /\ pc' \in Silent
    BY <1>5 DEF GivenUp, Throw, Silent
  <2> QED BY <1>1, <2>1, Sent, SameService, FaultEnds
<1> QED BY <1>3, <1>4, <1>5 DEF Begin

\* A completion without a publication is told already, or is published next.
LEMMA ReadOutcomeStep ==
  ASSUME KInv, IInv', ReadOutcome
  PROVE  KInv'
<1>1. /\ pc = "settle" /\ run.next = "finish" /\ Connecting
      /\ UNCHANGED <<service, stray, faults, bg, state, completion, publication, uncertain>>
  BY DEF ReadOutcome, journals, KInv, IInv, StepInv, Connecting
<1>2. publication = NoPublication /\ ~bg.fresh /\ ~Critical /\ bg.pc # "publish"
  BY <1>1, BackgroundRests DEF KInv, LoopInv, Clean
<1>3. CASE Throw /\ UNCHANGED run
  BY <1>1, <1>3, RefusalEnds
<1>4. CASE \/ Told(run.read.op) /\ pc' = "finish" /\ UNCHANGED run
           \/ ~Told(run.read.op) /\ pc' = "synchronize" /\ run' = [run EXCEPT !.done = run.read]
  <2>1. /\ run'.op = run.op /\ run'.read = run.read /\ run'.pending = run.pending
        /\ run'.next = run.next /\ run'.known = run.known
        /\ pc' = "synchronize" => run'.done = run.read
    <3>1. CASE run' = run /\ pc' = "finish"
      BY <3>1
    <3>2. CASE run' = [run EXCEPT !.done = run.read]
      <4>1. run \in Runs /\ run.read \in Completions
        BY Typed
      <4>2. [run EXCEPT !.done = run.read].known = run.known
        BY <4>1, KnownStays
      <4> QED BY <3>2, <4>1, <4>2, RunValues
    <3> QED BY <1>4, <3>1, <3>2
  <2>2. StrayInv' /\ (Last <=> Last') /\ SureInv' /\ Tells
    BY <1>1, <1>4, <2>1, KnowledgeStays DEF Silent
  <2>3. UNCHANGED ops
    BY <1>1 DEF service
  <2>4. ConnectInv'
    <3>1. /\ run.read # NoCompletion => completion = run.read
          /\ run.read = NoCompletion /\ completion # NoCompletion => completion.op \in uncertain
          /\ run.read # NoCompletion => Told(run.read.op) \/ run.read.op = run.known
          /\ run.known \in Ops => Told(run.known) \/ run.known = run.read.op
          /\ \A o \in uncertain : ops[o] \in Open => o \in run.pending
          /\ \A o, p \in run.pending : o = p
          /\ run.read # NoCompletion
      BY <1>1 DEF KInv, ConnectInv, Pinned
    <3>2. run'.known \in Ops =>
            \/ Told(run.known)' \/ Pinned(run.known)'
            \/ pc' = "settle" /\ run'.known = run'.read.op
      BY <1>4, <2>1, <2>3, <3>1 DEF Told, Pinned
    <3>3. pc' = "synchronize" => \A o \in uncertain' : ops'[o] \in Open => run'.done.op = o
      <4> SUFFICES ASSUME pc' = "synchronize", NEW o \in uncertain, ops[o] \in Open
                   PROVE  run.read.op = o
        BY <1>1, <2>1, <2>3
      <4>1. ops[run.read.op] \in Open /\ run.read.op \in Ops /\ o \in Ops
        BY <1>4, <3>1, UntoldIsOpen, Typed
      <4> QED BY <4>1, UntoldIsOpen
    <3>4. run'.read # NoCompletion => Told(run.read.op)' \/ run'.read.op = run'.known
      BY <2>1, <2>3, <3>1 DEF Told
    <3>5. /\ run'.read # NoCompletion => completion' = run'.read
          /\ run'.read = NoCompletion /\ completion' # NoCompletion => completion'.op \in uncertain'
          /\ \A o \in uncertain' : ops'[o] \in Open => o \in run'.pending
          /\ \A o, p \in run'.pending : o = p
          /\ pc' = "settle" => run'.read # NoCompletion
      BY <1>1, <2>1, <2>3, <3>1
    <3> QED BY <3>2, <3>3, <3>4, <3>5 DEF ConnectInv
  <2>5. LoopInv'
    <3>1. ~InHand' /\ ~Serving' /\ ~Started' /\ pc' \notin {"loop", "claim", "publish"}
      BY <1>1, <1>4, <2>1 DEF InHand, Serving, Started, Copying
    <3> QED BY <1>1, <1>2, <3>1 DEF LoopInv, Critical
  <2>6. KeptInv'
    BY <1>1, <1>2 DEF KeptInv
  <2> QED BY <2>2, <2>4, <2>5, <2>6 DEF KInv
<1> QED BY <1>3, <1>4 DEF ReadOutcome, Told, Outcomes

\* What connect() finds in completion.json at its end is told, or it asks the owner.
LEMMA FinishKnows ==
  ASSUME KInv, pc = "finish"
  PROVE  /\ run.known \in Ops => Told(run.known)
         /\ run.read # NoCompletion => completion = run.read /\ Told(completion.op)
         /\ run.read = NoCompletion /\ completion # NoCompletion =>
              Told(completion.op) \/ completion.op \in run.pending \ {run.known}
         /\ \A o, p \in run.pending : o = p
         /\ publication = NoPublication
<1>1. Connecting /\ Clean
  BY DEF KInv, IInv, StepInv, Connecting, Clean
<1>2. /\ run.read # NoCompletion => completion = run.read
      /\ run.read = NoCompletion /\ completion # NoCompletion => completion.op \in uncertain
      /\ run.read # NoCompletion => Told(run.read.op) \/ run.read.op = run.known
      /\ \A o \in uncertain : ops[o] \in Open => o \in run.pending
      /\ \A o, p \in run.pending : o = p
  BY <1>1 DEF KInv, ConnectInv
<1>3. run.known \in Ops => Told(run.known)
  BY <1>1 DEF KInv, ConnectInv, Pinned
<1>4. run.read # NoCompletion => completion = run.read /\ Told(completion.op)
  BY <1>2, <1>3, Typed
<1>5. run.read = NoCompletion /\ completion # NoCompletion =>
        Told(completion.op) \/ completion.op \in run.pending \ {run.known}
  BY <1>2, <1>3, UntoldIsOpen, Typed
<1> QED BY <1>1, <1>2, <1>3, <1>4, <1>5 DEF KInv, LoopInv

LEMMA FinishStep ==
  ASSUME KInv, IInv', Finish
  PROVE  KInv'
<1> DEFINE left == run.pending \ {run.known}
<1>1. /\ pc = "finish" /\ publication = NoPublication
      /\ UNCHANGED <<service, stray, faults, bg, state, publication>>
      /\ uncertain' = left
  BY FinishKnows DEF Finish
<1>2. ~bg.fresh /\ ~Critical /\ bg.pc # "publish"
  BY <1>1, BackgroundRests
<1>3. CASE left # {}
  <2>1. Throw
    BY <1>3 DEF Finish
  <2>2. StrayInv' /\ (Last <=> Last') /\ pc' \in Silent
    BY <1>1, <2>1, NoFault DEF KInv, Throw, Silent
  <2>3. Tells /\ UNCHANGED <<ops, held, commits>> /\ svc'.hash = svc.hash
    BY <1>1, SameService
  <2> QED BY <1>1, <1>2, <2>2, <2>3, Ending DEF Critical
<1>4. CASE left = {}
  <2>1. /\ pc' \in {"synchronize", "greet"}
        /\ run' = [run EXCEPT !.done = NoCompletion, !.next = "greet"]
        /\ completion' = IF run.read # NoCompletion THEN NoCompletion ELSE completion
    BY <1>4 DEF Finish
  <2>2. run'.op = run.op /\ run'.next = "greet"
    BY <2>1, Typed, Members, RunValues
  <2>3. StrayInv' /\ (Last <=> Last') /\ SureInv' /\ Tells
    BY <1>1, <2>1, <2>2, KnowledgeStays DEF Silent
  <2>4. completion' # NoCompletion => Told(completion.op)'
    <3>1. completion' # NoCompletion => completion' = completion /\ run.read = NoCompletion
      BY <2>1
    <3>2. completion' # NoCompletion => Told(completion.op)
      BY <1>1, <1>4, <3>1, FinishKnows
    <3> QED BY <1>1, <3>1, <3>2 DEF Told, service
  <2>5. ConnectInv'
    BY <2>2 DEF ConnectInv, Connecting
  <2>6. LoopInv'
    <3>1. ~InHand' /\ ~Started' /\ pc' \notin {"loop", "claim", "publish"}
      BY <2>1, <2>2 DEF InHand, Started, Copying
    <3> QED BY <1>1, <1>2, <1>4, <2>4, <3>1 DEF LoopInv, Critical
  <2>7. KeptInv'
    BY <1>1 DEF KeptInv
  <2> QED BY <2>3, <2>5, <2>6, <2>7 DEF KInv
<1> QED BY <1>3, <1>4

\* A heartbeat is accepted only while nothing is unknown.
LEMMA HeartbeatStep ==
  ASSUME faults' <= 1, KInv, IInv', Heartbeat
  PROVE  KInv'
<1>1. /\ pc \in {"greet", "beat"}
      /\ UNCHANGED <<bg, state, completion, publication, uncertain>>
  BY DEF Heartbeat, journals
<1>2. /\ ~bg.fresh /\ ~Critical /\ bg.pc # "publish" /\ Clean /\ Serving
  BY <1>1, BackgroundRests DEF Clean, Serving
<1>3. CASE BeatAccepted(state) /\ ServeBeat /\ pc' = "loop" /\ run' = NoRun /\ UNCHANGED <<stray, faults>>
  <2>1. UNCHANGED <<ops, held, commits>> /\ svc'.hash = svc.hash
    BY <1>3 DEF ServeBeat, KInv, IInv, TypeOK, Rows
  <2>2. StrayInv' /\ (Last <=> Last')
    BY <1>3, NoFault DEF KInv
  <2>3. /\ publication = NoPublication /\ uncertain = {}
        /\ completion # NoCompletion => Told(completion.op)
    BY <1>2 DEF KInv, LoopInv
  <2>4. ConnectInv'
    BY <1>3 DEF ConnectInv, Connecting, Copying
  <2>5. LoopInv'
    <3>1. ~InHand' /\ ~Started' /\ pc' # "publish"
      BY <1>3 DEF InHand, Started, Copying
    <3> QED BY <1>1, <1>2, <2>1, <2>3, <3>1 DEF LoopInv, Told, Critical
  <2>6. SureInv'
    <3>1. run.op \notin Ops
      BY <1>1, Typed DEF KInv, IInv, StepInv, Between
    <3>2. Sure => state = svc.hash /\ \A o \in Ops : ops[o] # "started"
      BY <1>1, <3>1 DEF KInv, SureInv, Silent
    <3>3. \A o \in Ops : ops[o] # "unknown"
      BY <1>3 DEF BeatAccepted, In
    <3>4. Sure' => Sure
      BY <2>1, <2>2 DEF Sure
    <3> QED BY <1>1, <1>2, <2>1, <2>3, <3>2, <3>3, <3>4 DEF SureInv
  <2>7. KeptInv'
    BY <1>1, <2>3 DEF KeptInv
  <2> QED BY <2>2, <2>4, <2>5, <2>6, <2>7 DEF KInv
<1>4. CASE Throw /\ UNCHANGED <<service, stray, faults>>
  BY <1>1, <1>4, RefusalEnds
<1>5. CASE GivenUp(HeartbeatRequest) /\ Throw
  <2>1. /\ Fault /\ stray' = stray \cup {HeartbeatRequest} /\ UNCHANGED service /\ pc' \in Silent
    BY <1>5 DEF GivenUp, Throw, Silent
  <2>2. HeartbeatRequest \in Requests /\ HeartbeatRequest.type # "begin"
    BY Sent DEF KInv, IInv, TypeOK, HeartbeatRequest
  <2> QED BY <1>1, <2>1, <2>2, SameService, FaultEnds
<1> QED BY <1>3, <1>4, <1>5 DEF Heartbeat

\* What synchronize() publishes contains every outcome that is not told.
LEMMA SynchronizeStep ==
  ASSUME KInv, IInv', Synchronize
  PROVE  KInv'
<1>1. /\ pc = "synchronize"
      /\ UNCHANGED <<service, stray, faults, bg, state, completion, uncertain, run>>
  BY DEF Synchronize
<1>2. ~bg.fresh /\ ~Critical /\ bg.pc # "publish"
  BY <1>1, BackgroundRests
<1>3. run.next = "clear" => run.done.op = run.op /\ run.op \in Ops /\ run.done # NoCompletion
  BY <1>1, Typed DEF KInv, IInv, StepInv, Copying
<1>4. ASSUME pc' \notin Silent \cup {"loop", "claim"},
             publication' \in {publication, NoPublication} \/ publication'.id \notin commits
      PROVE  StrayInv' /\ (Last <=> Last') /\ SureInv' /\ Tells
  BY <1>1, <1>2, <1>4, KnowledgeStays DEF Silent
<1>5. UNCHANGED ops
  BY <1>1 DEF service
<1>6. CASE run.done = NoCompletion /\ pc' = run.next /\ UNCHANGED publication
  <2>1. pc' \in {"greet", "finish"} /\ run.next # "clear"
    BY <1>3, <1>6, Typed
  <2>2. StrayInv' /\ (Last <=> Last') /\ SureInv' /\ Tells
    BY <1>4, <1>6, <2>1 DEF Silent
  <2>3. publication = NoPublication
    BY <1>1, <2>1 DEF KInv, LoopInv, Clean
  <2>4. ConnectInv'
    <3>1. Connecting' => Connecting
      BY <1>1 DEF Connecting, Copying
    <3>2. run.known \in Ops => run.done.op # run.known
      BY <1>6, Typed
    <3> QED BY <1>1, <1>5, <2>1, <3>1, <3>2 DEF KInv, ConnectInv, Pinned, Told
  <2>5. LoopInv'
    <3>1. ~InHand' /\ ~Started' /\ pc' \notin {"loop", "claim", "publish"} /\ (Serving' => Serving)
      BY <1>1, <1>6, <2>1 DEF InHand, Started, Serving, Copying
    <3>2. Serving => uncertain = {} /\ (completion # NoCompletion => Told(completion.op))
      BY DEF KInv, LoopInv
    <3> QED BY <1>1, <1>2, <1>5, <1>6, <2>3, <3>1, <3>2 DEF LoopInv, Critical, Told
  <2>6. KeptInv'
    BY <1>6, <2>3 DEF KeptInv
  <2> QED BY <2>2, <2>4, <2>5, <2>6 DEF KInv
<1>7. CASE publication' = NewPublication(content, run.done) /\ pc' = "publish"
  <2>1. /\ publication'.id \notin commits /\ publication' # NoPublication
        /\ publication'.done = run.done
    <3>1. NewId \notin commits /\ NewId # 0
      BY NewIdIsFresh DEF KInv, IInv, UsedIds
    <3> QED BY <1>7, <3>1 DEF NewPublication, NoPublication
  <2>2. StrayInv' /\ (Last <=> Last') /\ SureInv' /\ Tells
    BY <1>4, <1>7, <2>1 DEF Silent
  <2>3. run.next = "clear" => InHand
    BY <1>1 DEF InHand, Copying
  <2>4. run.next = "greet" => Serving
    BY <1>1 DEF Serving, Copying
  <2>5. run.next = "finish" => Connecting
    BY <1>1 DEF Connecting, Copying
  <2>6. ConnectInv'
    <3>1. Connecting' => Connecting
      BY <1>1 DEF Connecting, Copying
    <3>2. \A o : Pinned(o) => Pinned(o)'
      BY <1>1, <1>7, <2>1 DEF Pinned
    <3> QED BY <1>1, <1>5, <1>7, <3>1, <3>2 DEF KInv, ConnectInv, Told
  <2>7. LoopInv'
    <3>1. /\ ~Started' /\ ~Clean' /\ pc' \notin {"loop", "claim"}
          /\ (Serving' => Serving) /\ (InHand' => InHand)
      BY <1>1, <1>7 DEF InHand, Started, Serving, Clean, Copying
    <3>2. /\ Serving => uncertain = {} /\ (completion # NoCompletion => Told(completion.op))
          /\ InHand => uncertain = {} /\ completion # NoCompletion /\ completion.op = run.op
      BY DEF KInv, LoopInv
    <3> QED BY <1>1, <1>2, <1>5, <2>1, <3>1, <3>2 DEF LoopInv, Critical, Told
  <2>8. KeptInv'
    <3>1. ASSUME NEW o \in uncertain, ~Told(o)
          PROVE  run.done.op = o
      <4>1. run.next = "finish"
        BY <2>3, <2>4, <3>1, Typed DEF KInv, LoopInv
      <4>2. ops[o] \in Open
        BY <3>1, UntoldIsOpen
      <4> QED BY <1>1, <2>5, <4>1, <4>2 DEF KInv, ConnectInv
    <3>2. ASSUME completion # NoCompletion, ~Told(completion.op)
          PROVE  run.done.op = completion.op
      <4>1. CASE run.next = "clear"
        BY <1>3, <2>3, <4>1 DEF KInv, LoopInv
      <4>2. CASE run.next = "greet"
        BY <2>4, <3>2, <4>2 DEF KInv, LoopInv
      <4>3. CASE run.next = "finish"
        <5>1. CASE run.read # NoCompletion
          <6>1. completion = run.read /\ run.read.op = run.known /\ run.known \in Ops
            BY <2>5, <3>2, <4>3, <5>1, Typed DEF KInv, ConnectInv
          <6> QED BY <1>1, <2>5, <3>2, <4>3, <6>1 DEF KInv, ConnectInv, Pinned
        <5>2. CASE run.read = NoCompletion
          <6>1. completion.op \in uncertain
            BY <2>5, <3>2, <4>3, <5>2 DEF KInv, ConnectInv
          <6> QED BY <3>1, <3>2, <6>1
        <5> QED BY <5>1, <5>2
      <4> QED BY <4>1, <4>2, <4>3, Typed
    <3> QED BY <1>1, <1>5, <2>1, <3>1, <3>2 DEF KeptInv, Told
  <2> QED BY <2>2, <2>6, <2>7, <2>8 DEF KInv
<1>8. CASE ~held /\ Throw /\ UNCHANGED publication
  BY <1>1, <1>8, RefusalEnds
<1> QED BY <1>6, <1>7, <1>8 DEF Synchronize

\* A publication is committed and told, built anew, or given up with the session.
LEMMA PublishStep ==
  ASSUME faults' <= 1, KInv, IInv', Publish
  PROVE  KInv'
<1>1. /\ pc = "publish" /\ publication # NoPublication
      /\ UNCHANGED <<bg, completion, uncertain>>
  BY DEF Publish, KInv, LoopInv
<1>2. /\ ~bg.fresh /\ ~Critical /\ bg.pc \notin {"publish", "receipt", "erase"}
  BY <1>1, BackgroundRests DEF Critical
<1>3. ~(publication # NoPublication /\ completion # NoCompletion) \/ Told(completion.op)
        \/ publication.done.op = completion.op
  BY <1>1 DEF KInv, KeptInv
<1>4. CASE /\ ServePublish(publication) /\ state' = publication.hash /\ pc' = "receipt"
           /\ UNCHANGED <<stray, publication, run, faults>>
  <2>1. StrayInv' /\ (Last <=> Last')
    BY <1>4, NoFault DEF KInv
  <2>2. /\ ServiceStep
        /\ publication.done # NoCompletion => ops'[publication.done.op] \in Outcomes
    BY <1>4, Before, PublishIsServiceStep DEF KInv
  <2>3. Tells /\ \A o \in Ops : ops'[o] \in Open => ops[o] \in Open
    BY <2>2, ServiceTells DEF KInv
  <2>4. ConnectInv'
    <3> SUFFICES ASSUME Connecting' PROVE ConnectInv'
      BY DEF ConnectInv
    <3>1. Connecting
      BY <1>1, <1>4 DEF Connecting, Copying
    <3>2. run.known \in Ops => Told(run.known)'
      <4>1. run.known \in Ops => Told(run.known) \/ publication.done.op = run.known
        BY <1>1, <3>1 DEF KInv, ConnectInv, Pinned
      <4> QED BY <1>4, <2>2, <2>3, <4>1, Typed DEF Told, Tells
    <3>3. /\ run.read # NoCompletion => completion = run.read
          /\ run.read = NoCompletion /\ completion # NoCompletion => completion.op \in uncertain
          /\ run.read # NoCompletion => Told(run.read.op) \/ run.read.op = run.known
          /\ \A o \in uncertain : ops[o] \in Open => o \in run.pending
          /\ \A o, p \in run.pending : o = p
      BY <3>1 DEF KInv, ConnectInv
    <3>4. run'.read # NoCompletion => Told(run.read.op)' \/ run'.read.op = run'.known
      BY <1>4, <2>3, <3>3, Typed DEF Tells, Told
    <3>5. \A o \in uncertain' : ops'[o] \in Open => o \in run'.pending
      BY <1>1, <1>4, <2>3, <3>3, Typed
    <3> QED BY <1>1, <1>4, <3>2, <3>3, <3>4, <3>5 DEF ConnectInv
  <2>5. LoopInv'
    <3>1. /\ ~Started' /\ ~Clean' /\ pc' \notin {"loop", "claim", "publish"}
          /\ (Serving' => Serving) /\ (InHand' => InHand)
      BY <1>1, <1>4 DEF InHand, Started, Serving, Clean, Copying
    <3>2. /\ Serving => uncertain = {} /\ (completion # NoCompletion => Told(completion.op))
          /\ InHand => uncertain = {} /\ completion # NoCompletion /\ completion.op = run.op
      BY DEF KInv, LoopInv
    <3>3. Serving' /\ completion' # NoCompletion => Told(completion.op)'
      BY <1>1, <2>3, <3>1, <3>2, Typed DEF Tells, Told
    <3> QED BY <1>1, <1>2, <1>4, <3>1, <3>2, <3>3 DEF LoopInv, Critical
  <2>6. SureInv'
    <3>1. CASE Last
      BY <1>1, <1>2, <1>4, <2>1, <3>1 DEF SureInv, Sure
    <3>2. CASE ~Last
      <4>1. state' = svc'.hash /\ UNCHANGED held
        BY <1>1, <1>2, <1>4, <3>2, CommitServes
      <4>2. \A o \in Ops : ops'[o] = "started" => ops[o] = "started"
        BY <1>1, <1>2, <1>4, <3>2, CommitServes
      <4>3. Sure' => Sure
        BY <2>1, <4>1 DEF Sure
      <4>4. Sure => \A o \in Ops : ops[o] = "started" => run.op = o
        BY <1>1 DEF KInv, SureInv, Silent
      <4> QED BY <1>1, <1>2, <1>4, <4>1, <4>2, <4>3, <4>4 DEF SureInv
    <3> QED BY <3>1, <3>2
  <2>7. KeptInv'
    <3>1. \A o \in uncertain : ~Told(o) => publication.done.op = o
      BY <1>1 DEF KInv, KeptInv
    <3> QED BY <1>1, <1>3, <1>4, <2>3, <3>1, Typed DEF KeptInv, Tells, Told
  <2> QED BY <2>1, <2>4, <2>5, <2>6, <2>7 DEF KInv
<1>5. CASE /\ run.again /\ run' = [run EXCEPT !.again = FALSE, !.done = publication.done]
           /\ publication' = NoPublication /\ pc' = "synchronize"
           /\ UNCHANGED <<service, stray, state, faults>>
  <2>1. /\ run'.op = run.op /\ run'.read = run.read /\ run'.pending = run.pending
        /\ run'.done = publication.done /\ run'.next = run.next /\ run'.known = run.known
    <3>1. run \in Runs /\ publication.done \in Completions
      BY Typed
    <3>2. [run EXCEPT !.again = FALSE, !.done = publication.done].known = run.known
      BY <3>1, KnownStays
    <3> QED BY <1>5, <3>1, <3>2, RunValues
  <2>2. run.next # "clear"
    BY <1>1, <1>5 DEF KInv, IInv, StepInv
  <2>3. StrayInv' /\ (Last <=> Last') /\ SureInv' /\ Tells
    BY <1>1, <1>2, <1>5, <2>1, KnowledgeStays DEF Silent
  <2>4. UNCHANGED ops
    BY <1>5 DEF service
  <2>5. ConnectInv'
    <3> SUFFICES ASSUME Connecting' PROVE ConnectInv'
      BY DEF ConnectInv
    <3>1. Connecting
      BY <1>1, <2>1 DEF Connecting, Copying
    <3>2. run'.known \in Ops => Told(run.known)' \/ Pinned(run.known)'
      BY <1>1, <1>5, <2>1, <2>4, <3>1 DEF KInv, ConnectInv, Pinned, Told
    <3>3. \A o \in uncertain : ops[o] \in Open => publication.done.op = o
      <4>1. \A o \in uncertain : ops[o] \in Open => ~Told(o)
        BY DEF Told, Open, Outcomes
      <4> QED BY <1>1, <4>1 DEF KInv, KeptInv
    <3>4. /\ run.read # NoCompletion => completion = run.read
          /\ run.read = NoCompletion /\ completion # NoCompletion => completion.op \in uncertain
          /\ run.read # NoCompletion => Told(run.read.op) \/ run.read.op = run.known
          /\ \A o \in uncertain : ops[o] \in Open => o \in run.pending
          /\ \A o, p \in run.pending : o = p
      BY <3>1 DEF KInv, ConnectInv
    <3> QED BY <1>1, <1>5, <2>1, <2>4, <3>2, <3>3, <3>4 DEF ConnectInv, Told
  <2>6. LoopInv'
    <3>1. ~InHand' /\ ~Started' /\ pc' \notin {"loop", "claim", "publish"} /\ (Serving' => Serving)
      BY <1>1, <1>5, <2>1, <2>2 DEF InHand, Started, Serving, Copying
    <3>2. Serving => uncertain = {} /\ (completion # NoCompletion => Told(completion.op))
      BY DEF KInv, LoopInv
    <3> QED BY <1>1, <1>2, <1>5, <2>4, <3>1, <3>2 DEF LoopInv, Critical, Told
  <2>7. KeptInv'
    BY <1>5 DEF KeptInv
  <2> QED BY <2>3, <2>5, <2>6, <2>7 DEF KInv
<1>6. CASE Throw /\ UNCHANGED <<service, stray, publication, state, faults>>
  BY <1>1, <1>6, RefusalEnds
<1>7. CASE GivenUp(PublishRequest(publication)) /\ Throw /\ UNCHANGED publication
  <2>1. /\ Fault /\ stray' = stray \cup {PublishRequest(publication)} /\ UNCHANGED service
        /\ pc' \in Silent
    BY <1>7 DEF GivenUp, Throw, Silent
  <2>2. PublishRequest(publication) \in Requests /\ PublishRequest(publication).type # "begin"
    BY Sent, Typed DEF PublishRequest
  <2> QED BY <1>1, <1>7, <2>1, <2>2, SameService, FaultEnds
<1> QED BY <1>4, <1>5, <1>6, <1>7 DEF Publish

\* A claimed operation is the only one that has started, and no outcome is left.
LEMMA ClaimStep ==
  ASSUME faults' <= 1, KInv, IInv', Claim
  PROVE  KInv'
<1>1. /\ pc = "claim" /\ ~Critical
      /\ UNCHANGED <<state, completion, publication, uncertain>>
  BY DEF Claim, journals
<1>2. /\ uncertain = {}
      /\ completion # NoCompletion => Told(completion.op)
      /\ publication # NoPublication => Last \/ ~held
  BY <1>1 DEF KInv, LoopInv, Serving
<1>3. Sure => state = svc.hash /\ \A o \in Ops : ops[o] \notin {"started", "unknown"}
  BY <1>1 DEF KInv, SureInv
<1>4. ASSUME NEW o \in Claimable, ServeClaim(o, "started"), pc' = "claimed",
             run' = [run EXCEPT !.op = o], bg' = [bg EXCEPT !.fresh = FALSE],
             UNCHANGED <<stray, faults>>
      PROVE  KInv'
  <2>1. StrayInv' /\ (Last <=> Last')
    BY <1>4, NoFault DEF KInv
  <2>2. Tells
    BY <1>4, ClaimIsServiceStep, ServiceTells DEF KInv
  <2>3. /\ held /\ UNCHANGED <<svc, held, commits>> /\ o \in Ops
        /\ \A p \in Ops \ {o} : ops'[p] = ops[p]
    BY <1>4 DEF Claimable, ServeClaim, In, KInv, IInv, TypeOK
  <2>4. run'.op = o /\ bg'.pc = bg.pc /\ ~bg'.fresh
    <3>1. bg \in Backgrounds /\ run \in Runs
      BY DEF KInv, IInv, TypeOK
    <3>2. [bg EXCEPT !.fresh = FALSE].pc = bg.pc /\ ~[bg EXCEPT !.fresh = FALSE].fresh
      BY <3>1 DEF Backgrounds
    <3>3. [run EXCEPT !.op = o].op = o
      BY <3>1 DEF Runs
    <3> QED BY <1>4, <3>2, <3>3
  <2>5. ConnectInv'
    BY <1>4 DEF ConnectInv, Connecting, Copying
  <2>6. LoopInv'
    <3>1. ~InHand' /\ ~Clean' /\ ~Critical' /\ bg'.pc # "publish"
      BY <1>1, <1>4, <2>4 DEF InHand, Clean, Critical, Copying
    <3>2. completion' # NoCompletion => Told(completion.op)'
      BY <1>1, <1>2, <2>2, Typed DEF Tells
    <3> QED BY <1>1, <1>2, <1>4, <2>1, <2>3, <3>1, <3>2 DEF LoopInv
  <2>7. SureInv'
    <3>1. Sure' => Sure
      BY <2>1, <2>3 DEF Sure
    <3>2. ~Last' /\ publication' # NoPublication => FALSE
      BY <1>1, <1>2, <2>1, <2>3
    <3>3. bg'.pc # "publish"
      BY <1>1, <2>4 DEF Critical
    <3>4. Sure => \A p \in Ops : ops'[p] = "started" => run'.op = p
      BY <1>3, <2>3, <2>4
    <3> QED BY <1>1, <1>3, <1>4, <2>3, <2>4, <3>1, <3>2, <3>3, <3>4 DEF SureInv
  <2>8. KeptInv'
    BY <1>1, <1>2, <2>2, Typed DEF KeptInv, Tells, Told
  <2> QED BY <2>1, <2>5, <2>6, <2>7, <2>8 DEF KInv
<1>5. CASE /\ NothingClaimed /\ UNCHANGED <<stray, faults>>
           /\ UNCHANGED service \/ \E o \in Claimable : ServeClaim(o, "unrun")
  <2>1. StrayInv' /\ (Last <=> Last')
    BY <1>5, NoFault DEF KInv
  <2>2. Tells
    BY <1>5, ClaimIsServiceStep, ServiceTells, SameService DEF KInv
  <2>3. /\ UNCHANGED <<svc, held, commits>>
        /\ \A p \in Ops : ops'[p] \in {"started", "unknown"} => ops'[p] = ops[p]
    BY <1>5 DEF ServeClaim, service, KInv, IInv, TypeOK
  <2>4. pc' = "loop" /\ UNCHANGED run
    BY <1>5 DEF NothingClaimed
  <2>5. bg'.pc \in {bg.pc, "snapshot"}
    <3>1. CASE bg' = bg
      BY <3>1
    <3>2. CASE bg' = [bg EXCEPT !.pc = "snapshot", !.fresh = TRUE]
      BY <3>2, Before, Members, Values DEF KInv
    <3> QED BY <1>5, <3>1, <3>2 DEF NothingClaimed
  <2>6. ConnectInv'
    BY <2>4 DEF ConnectInv, Connecting, Copying
  <2>7. ~Critical' /\ bg'.pc # "publish"
    BY <1>1, <2>5 DEF Critical
  <2>8. LoopInv'
    <3>1. ~InHand' /\ ~Clean' /\ ~Started'
      BY <2>4 DEF InHand, Clean, Started, Copying
    <3>2. completion' # NoCompletion => Told(completion.op)'
      BY <1>1, <1>2, <2>2, Typed DEF Tells
    <3> QED BY <1>1, <1>2, <2>1, <2>3, <2>4, <2>7, <3>1, <3>2 DEF LoopInv
  <2>9. SureInv'
    <3>1. Sure' => Sure
      BY <2>1, <2>3 DEF Sure
    <3>2. ~Last' /\ publication' # NoPublication => publication'.id \notin commits'
      BY <1>1, <2>1, <2>3 DEF KInv, SureInv, Critical
    <3>3. Sure => \A p \in Ops : ops'[p] \notin {"started", "unknown"}
      BY <1>3, <2>3
    <3> QED BY <1>1, <1>3, <2>3, <2>4, <2>7, <3>1, <3>2, <3>3 DEF SureInv
  <2>10. KeptInv'
    BY <1>1, <1>2, <2>2, Typed DEF KeptInv, Tells, Told
  <2> QED BY <2>1, <2>6, <2>8, <2>9, <2>10 DEF KInv
<1>6. CASE Throw /\ UNCHANGED <<service, stray, bg, faults>>
  BY <1>1, <1>6, RefusalEnds
<1>7. CASE GivenUp(ClaimRequest) /\ Throw /\ UNCHANGED bg
  <2>1. /\ Fault /\ stray' = stray \cup {ClaimRequest} /\ UNCHANGED service /\ pc' \in Silent
    BY <1>7 DEF GivenUp, Throw, Silent
  <2>2. ClaimRequest \in Requests /\ ClaimRequest.type # "begin"
    BY Sent DEF ClaimRequest
  <2> QED BY <1>1, <1>7, <2>1, <2>2, SameService, FaultEnds
<1> QED BY <1>4, <1>5, <1>6, <1>7 DEF Claim

\* The owner records the outcome of what is uncertain.
LEMMA ReconcileStep ==
  ASSUME KInv, IInv', NEW o \in Ops, Reconcile(o)
  PROVE  KInv'
<1>1. /\ o \in uncertain /\ completion = NoCompletion /\ completion'.op = o
      /\ UNCHANGED <<service, stray, faults, publication, pc, run, state, bg, uncertain>>
  BY DEF Reconcile
<1>2. StrayInv' /\ (Last <=> Last')
  BY <1>1, NoFault DEF KInv
<1>3. ~Serving /\ ~InHand /\ ~bg.fresh /\ ~Critical
  BY <1>1 DEF KInv, LoopInv
<1>4. UNCHANGED <<ops, held, commits, svc>>
  BY <1>1 DEF service
<1>5. ConnectInv'
  <2> SUFFICES ASSUME Connecting' PROVE ConnectInv'
    BY DEF ConnectInv
  <2>1. Connecting
    BY <1>1 DEF Connecting
  <2>2. run.read = NoCompletion
    BY <1>1, <2>1 DEF KInv, ConnectInv
  <2> QED BY <1>1, <1>4, <2>1, <2>2 DEF KInv, ConnectInv, Pinned, Told
<1>6. LoopInv'
  <2>1. ~Serving' /\ ~InHand' /\ ~bg'.fresh /\ ~Critical'
    BY <1>1, <1>3 DEF Serving, InHand, Critical
  <2> QED BY <1>1, <1>2, <1>3, <1>4, <2>1 DEF KInv, LoopInv, Clean, Started
<1>7. SureInv'
  BY <1>1, <1>2, <1>4 DEF KInv, SureInv, Sure
<1>8. KeptInv'
  BY <1>1, <1>4 DEF KInv, KeptInv, Told
<1> QED BY <1>2, <1>5, <1>6, <1>7, <1>8 DEF KInv

\* The steps of the loop that ask nothing of the service: receipts, journals, commands.
LEMMA Onward ==
  ASSUME KInv, IInv', ConnectInv', UNCHANGED <<service, stray, faults, bg, state, uncertain>>,
         pc \notin Silent \cup {"synchronize"}, pc' \notin Silent \cup {"publish"},
         publication' = publication \/ (publication' = NoPublication /\ ~Critical),
         pc \in {"receipt", "erase"} => publication' = NoPublication \/ pc' = "erase",
         pc' \in {"loop", "claim"} => pc \in {"loop", "claim"},
         \A o \in Ops : ops[o] = "started" /\ run.op = o => run'.op = o,
         Serving' \/ InHand' => Serving \/ InHand,
         InHand' => completion' # NoCompletion /\ completion'.op = run'.op,
         \/ completion' = NoCompletion
         \/ completion' = completion /\ (Serving' => Serving \/ Told(completion.op))
         \/ pc' = "synchronize" /\ run'.next = "clear",
         Clean' => publication' = NoPublication,
         Started' => Started
  PROVE  KInv'
<1>1. StrayInv' /\ (Last <=> Last') /\ SureInv' /\ Tells
  BY KnowledgeStays DEF Silent, Critical
<1>2. UNCHANGED <<ops, held, commits>>
  BY DEF service
<1>3. Critical' <=> Critical
  BY DEF Critical
<1>4. pc' = "synchronize" => ~bg.fresh /\ ~Critical
  BY DEF IInv, StepInv, Critical
<1>5. LoopInv'
  <2>1. Serving' \/ InHand' \/ bg'.fresh \/ Critical' => uncertain' = {}
    BY <1>3 DEF KInv, LoopInv
  <2>2. (Serving' \/ bg'.fresh \/ Critical') /\ completion' # NoCompletion => Told(completion.op)'
    <3> SUFFICES ASSUME Serving' \/ bg'.fresh \/ Critical', completion' # NoCompletion
                 PROVE  Told(completion.op)'
      OBVIOUS
    <3>1. ~(pc' = "synchronize" /\ run'.next = "clear")
      BY <1>3, <1>4 DEF Serving
    <3>2. completion' = completion /\ (Serving' => Serving \/ Told(completion.op))
      BY <3>1
    <3> QED BY <1>2, <1>3, <3>2 DEF KInv, LoopInv, Told
  <2>3. Started' /\ publication' # NoPublication => Last' /\ held'
    BY <1>1, <1>2 DEF KInv, LoopInv
  <2>4. pc' \in {"loop", "claim"} /\ publication' # NoPublication /\ ~Critical' => Last' \/ ~held'
    BY <1>1, <1>2, <1>3 DEF KInv, LoopInv
  <2>5. bg'.pc = "publish" => publication' # NoPublication
    BY DEF KInv, LoopInv, Critical
  <2> QED BY <2>1, <2>2, <2>3, <2>4, <2>5 DEF LoopInv
<1>6. KeptInv'
  BY <1>2 DEF KInv, KeptInv, Told
<1> QED BY <1>1, <1>5, <1>6 DEF KInv

\* Receipts of publications, and their end.
LEMMA ReceiptSteps ==
  ASSUME KInv, IInv'
  PROVE  /\ SaveReceipt => KInv'
         /\ ErasePublication => KInv'
<1>1. ASSUME SaveReceipt PROVE KInv'
  <2>1. /\ pc = "receipt" /\ pc' = "erase"
        /\ UNCHANGED <<service, stray, faults, bg, state, uncertain, publication, completion, run>>
    BY <1>1 DEF SaveReceipt
  <2>2. UNCHANGED ops
    BY <2>1 DEF service
  <2>3. ConnectInv'
    <3>1. Connecting' => Connecting
      BY <2>1 DEF Connecting, Copying
    <3> QED BY <2>1, <2>2, <3>1 DEF KInv, ConnectInv, Pinned, Told
  <2>4. /\ (Serving' => Serving) /\ (InHand' => InHand) /\ ~Clean' /\ ~Started'
    BY <2>1 DEF Serving, InHand, Clean, Started, Copying
  <2>5. InHand => completion # NoCompletion /\ completion.op = run.op
    BY DEF KInv, LoopInv
  <2> QED BY <2>1, <2>3, <2>4, <2>5, Onward DEF Silent
<1>2. ASSUME ErasePublication PROVE KInv'
  <2>1. /\ pc = "erase" /\ pc' = run.next /\ publication' = NoPublication
        /\ run' = [run EXCEPT !.again = FALSE, !.recent = TRUE]
        /\ UNCHANGED <<service, stray, faults, bg, state, uncertain, completion>>
    BY <1>2 DEF ErasePublication
  <2>2. /\ run'.op = run.op /\ run'.read = run.read /\ run'.pending = run.pending
        /\ run'.next = run.next /\ run'.known = run.known
    <3>1. run \in Runs /\ run.done \in Completions
      BY Typed
    <3>2. [run EXCEPT !.again = FALSE, !.recent = TRUE].known = run.known
      BY <3>1, KnownStays
    <3> QED BY <2>1, <3>1, <3>2, RunValues
  <2>3. UNCHANGED ops /\ ~Critical /\ pc' \in {"greet", "finish", "clear"}
    BY <2>1, BackgroundRests, Typed DEF service
  <2>4. ConnectInv'
    <3>1. Connecting' => Connecting /\ pc' = "finish"
      BY <2>1, <2>2, <2>3 DEF Connecting, Copying
    <3> QED BY <2>1, <2>2, <2>3, <3>1 DEF KInv, ConnectInv, Pinned, Told
  <2>5. (Serving' => Serving) /\ (InHand' => InHand) /\ ~Started'
    BY <2>1, <2>2, <2>3 DEF Serving, InHand, Started, Copying
  <2>6. InHand => completion # NoCompletion /\ completion.op = run.op
    BY DEF KInv, LoopInv
  <2> QED BY <2>1, <2>2, <2>3, <2>4, <2>5, <2>6, Onward DEF Silent
<1> QED BY <1>1, <1>2

\* An operation's journals.
LEMMA OperationSteps ==
  ASSUME KInv, IInv'
  PROVE  /\ Loop => KInv'
         /\ SaveExecuting => KInv'
         /\ Execute => KInv'
         /\ SaveCompletion => KInv'
         /\ ClearCompletion => KInv'
         /\ ClearExecuting => KInv'
<1>0. ASSUME pc' \in {"claim", "execute", "journal", "cleared", "beat"} PROVE ConnectInv'
  BY <1>0 DEF ConnectInv, Connecting, Copying
<1>1. ASSUME Loop PROVE KInv'
  <2>1. /\ pc = "loop"
        /\ UNCHANGED <<service, stray, faults, state, uncertain, publication, completion, run>>
    BY <1>1 DEF Loop, journals
  <2>2. CASE pc' = "claim" /\ UNCHANGED bg
    <3>1. ~InHand' /\ ~Clean' /\ ~Started' /\ Serving
      BY <2>1, <2>2 DEF InHand, Clean, Started, Serving, Copying
    <3> QED BY <1>0, <2>1, <2>2, <3>1, Onward DEF Silent
  <2>3. CASE Throw /\ bg' = [bg EXCEPT !.error = FALSE]
    <3>1. bg'.pc = bg.pc /\ bg'.fresh = bg.fresh
      BY <2>3, Before, Members, Values DEF KInv
    <3> QED BY <2>1, <2>3, <3>1, RefusalEnds
  <2> QED BY <1>1, <2>2, <2>3 DEF Loop
<1>2. ASSUME SaveExecuting PROVE KInv'
  <2>1. /\ pc = "claimed" /\ pc' = "execute"
        /\ UNCHANGED <<service, stray, faults, bg, state, uncertain, publication, completion, run>>
    BY <1>2 DEF SaveExecuting
  <2>2. ~InHand' /\ ~Clean' /\ Started /\ Serving
    BY <2>1 DEF InHand, Clean, Started, Serving, Copying
  <2> QED BY <1>0, <2>1, <2>2, Onward DEF Silent
<1>3. ASSUME Execute PROVE KInv'
  <2>1. /\ pc = "execute" /\ pc' = "journal"
        /\ UNCHANGED <<service, stray, faults, bg, state, uncertain, publication, completion>>
    BY <1>3 DEF Execute, journals
  <2>2. run'.op = run.op
    <3>1. \E out \in Outcomes : run' = [run EXCEPT !.out = out]
      BY <1>3 DEF Execute, Outcomes
    <3> QED BY <3>1, Typed, RunValues
  <2>3. ~InHand' /\ ~Clean' /\ Started /\ Serving
    BY <2>1 DEF InHand, Clean, Started, Serving, Copying
  <2> QED BY <1>0, <2>1, <2>2, <2>3, Onward DEF Silent
<1>4. ASSUME SaveCompletion PROVE KInv'
  <2>1. /\ pc = "journal" /\ pc' = "synchronize" /\ run.op \in Ops
        /\ completion' = [op |-> run.op, out |-> run.out]
        /\ run' = [run EXCEPT !.done = completion', !.next = "clear"]
        /\ UNCHANGED <<service, stray, faults, bg, state, uncertain, publication>>
    BY <1>4 DEF SaveCompletion, KInv, IInv, StepInv, Executing
  <2>2. completion'.op = run.op /\ completion' # NoCompletion /\ completion' \in Completions
    <3>1. run.out \in Outcomes
      BY Typed, Fields
    <3> QED BY <2>1, <3>1, Members, CentralAssumption DEF NoCompletion
  <2>3. run'.op = run.op /\ run'.next = "clear"
    BY <2>1, <2>2, Typed, RunValues
  <2>4. ~Clean' /\ Started /\ Serving /\ ConnectInv'
    BY <2>1, <2>3 DEF Clean, Started, Serving, ConnectInv, Connecting
  <2> QED BY <2>1, <2>2, <2>3, <2>4, Onward DEF Silent
<1>5. ASSUME ClearCompletion PROVE KInv'
  <2>1. /\ pc = "clear" /\ pc' = "cleared" /\ completion' = NoCompletion
        /\ UNCHANGED <<service, stray, faults, bg, state, uncertain, publication, run>>
    BY <1>5 DEF ClearCompletion
  <2>2. ~InHand' /\ ~Started' /\ Clean /\ InHand
    BY <2>1 DEF InHand, Clean, Started, Copying
  <2>3. publication = NoPublication
    BY <2>2 DEF KInv, LoopInv
  <2> QED BY <1>0, <2>1, <2>2, <2>3, Onward DEF Silent
<1>6. ASSUME ClearExecuting PROVE KInv'
  <2>1. /\ pc = "cleared" /\ pc' = "beat" /\ run' = NoRun
        /\ UNCHANGED <<service, stray, faults, bg, state, uncertain, publication, completion>>
    BY <1>6 DEF ClearExecuting
  <2>2. ~InHand' /\ ~Started' /\ Clean /\ Serving
    BY <2>1 DEF InHand, Clean, Started, Serving, Copying
  <2>3. publication = NoPublication
    BY <2>2 DEF KInv, LoopInv
  <2>4. \A o \in Ops : ~(ops[o] = "started" /\ run.op = o)
    BY <2>1 DEF KInv, IInv, StepInv, Outcomes
  <2> QED BY <1>0, <2>1, <2>2, <2>3, <2>4, Onward DEF Silent
<1> QED BY <1>1, <1>2, <1>3, <1>4, <1>5, <1>6

-----------------------------------------------------------------------------
(* Outcomes are kept                                                       *)

LEMMA InitKInv ==
  ASSUME Init
  PROVE  KInv
<1>1. IInv
  BY InitIInv
<1>2. StrayInv
  BY DEF Init, StrayInv
<1>3. ConnectInv
  BY DEF Init, ConnectInv, Connecting, Copying
<1>4. LoopInv
  BY Values DEF Init, LoopInv, InHand, Serving, Started, Clean, Copying, Critical
<1>5. SureInv
  BY DEF Init, SureInv, Sure
<1>6. KeptInv
  BY DEF Init, KeptInv
<1> QED BY <1>1, <1>2, <1>3, <1>4, <1>5, <1>6 DEF KInv

LEMMA KInductive ==
  ASSUME faults' <= 1, KInv, [Next]_vars
  PROVE  KInv'
<1>1. IInv'
  BY Inductive DEF KInv
<1>2. CASE Desktop
  BY <1>1, <1>2, EndingSteps, BeginStep, ReadOutcomeStep, FinishStep, HeartbeatStep,
     SynchronizeStep, PublishStep, ReceiptSteps, ClaimStep, OperationSteps DEF Desktop
<1>3. CASE LocalFailure \/ Crash \/ Quit
  BY <1>1, <1>3, EndingSteps
<1>4. CASE Background \/ BackgroundFails
  BY <1>1, <1>4, BackgroundSteps
<1>5. CASE Renew \/ Work \/ Lapse \/ UNCHANGED vars
  BY <1>1, <1>5, StandingSteps
<1>6. CASE \E o \in Ops : Submit(o) \/ GiveUp(o) \/ Reconcile(o)
  BY <1>1, <1>6, StandingSteps, ReconcileStep
<1>7. CASE \E r \in stray : Deliver(r)
  BY <1>1, <1>7, StandingSteps
<1> QED BY <1>2, <1>3, <1>4, <1>5, <1>6, <1>7 DEF Next

\* Completions are written by operate(), connect() and the owner only.
LEMMA OthersKeepCompletion ==
  ASSUME [Next]_vars, ~Finish, ~SaveCompletion, ~ClearCompletion, \A o \in Ops : ~Reconcile(o)
  PROVE  completion' = completion
<1>1. CASE Desktop
  BY <1>1 DEF Desktop, CloseGate, Begin, ReadOutcome, Heartbeat, Synchronize, Publish, SaveReceipt,
              ErasePublication, Loop, Claim, SaveExecuting, Execute, ClearExecuting, EndRenewal,
              Reconnect, journals
<1>2. CASE Background \/ BackgroundFails
  BY <1>2 DEF Background, BackgroundSnapshot, BackgroundSave, BackgroundPublish,
              BackgroundReceipt, BackgroundErase, BackgroundFails, journals
<1>3. CASE LocalFailure \/ Renew \/ Work \/ Lapse \/ Crash \/ Quit \/ UNCHANGED vars
  BY <1>3 DEF LocalFailure, Renew, Work, Lapse, Crash, Quit, Forget, vars, journals
<1>4. CASE \E o \in Ops : Submit(o) \/ GiveUp(o)
  BY <1>4 DEF Submit, GiveUp, journals
<1>5. CASE \E r \in stray : Deliver(r)
  BY <1>5 DEF Deliver, journals
<1> QED BY <1>1, <1>2, <1>3, <1>4, <1>5 DEF Next

\* connect() replaces a completion of an operation that never started by itself only.
LEMMA FinishKeeps ==
  ASSUME KInv, Finish, completion # NoCompletion, completion' # completion
  PROVE  Told(completion.op)
<1> SUFFICES ASSUME ~Told(completion.op) PROVE FALSE
  OBVIOUS
<1> DEFINE left == run.pending \ {run.known}
           o == completion.op
<1>1. /\ run.read = NoCompletion /\ o \in left
      /\ \A p, q \in run.pending : p = q
  BY FinishKnows DEF Finish
<1>2. \E p \in left \ {executing} : completion' = [op |-> p, out |-> "unrun"]
  BY <1>1 DEF Finish
<1>3. completion' = [op |-> o, out |-> "unrun"] /\ o # executing
  BY <1>1, <1>2
<1>4. o \in Ops /\ ops[o] \in Open
  BY Typed, UntoldIsOpen
<1>5. executed[o] = 0
  BY <1>3, <1>4 DEF KInv, IInv, OpsInv, LedgerInv
<1>6. completion.out = "unrun"
  BY <1>4, <1>5, Before DEF KInv, Truthful
<1>7. completion = [op |-> o, out |-> "unrun"]
  BY <1>6, Typed DEF Completions, NoCompletion
<1> QED BY <1>3, <1>7

\* A count of faults only grows.
LEMMA FaultsGrow ==
  ASSUME TypeOK, [Next]_vars
  PROVE  faults \in Nat /\ faults' \in Nat /\ faults <= faults'
<1>0. faults \in Nat
  BY CentralAssumption DEF TypeOK
<1>1. faults' \in {faults, faults + 1}
  <2>1. CASE Desktop
    BY <2>1 DEF Desktop, CloseGate, Begin, ReadOutcome, Finish, Heartbeat, Synchronize, Publish,
                SaveReceipt, ErasePublication, Loop, Claim, SaveExecuting, Execute, SaveCompletion,
                ClearCompletion, ClearExecuting, EndRenewal, Reconnect, GivenUp, Fault
  <2>2. CASE Background \/ BackgroundFails
    BY <2>2 DEF Background, BackgroundSnapshot, BackgroundSave, BackgroundPublish, GivenUp, Fault,
                BackgroundReceipt, BackgroundErase, BackgroundFails
  <2>3. CASE LocalFailure \/ Renew \/ Work \/ Lapse \/ Crash \/ Quit \/ UNCHANGED vars
    BY <2>3 DEF LocalFailure, Renew, Work, Lapse, Crash, Quit, GivenUp, Fault, vars
  <2>4. CASE \E o \in Ops : Submit(o) \/ GiveUp(o) \/ Reconcile(o)
    BY <2>4 DEF Submit, GiveUp, Reconcile
  <2>5. CASE \E r \in stray : Deliver(r)
    BY <2>5 DEF Deliver
  <2> QED BY <2>1, <2>2, <2>3, <2>4, <2>5 DEF Next
<1> QED BY <1>0, <1>1

\* Until a second fault happens (a request given up, a step that fails, an end of the
\* desktop's process) a journaled outcome is removed or replaced only once the service
\* has settled its operation: the owner is never asked for what the desktop knew
\* (connect and operate in controller.ts).  Two faults can lose it, see the README.
THEOREM OutcomesAreKept == Spec => OutcomeKept
<1> DEFINE OneInv == IInv /\ (faults <= 1 => KInv)
<1>1. Init => OneInv
  BY InitKInv DEF KInv
<1>2. OneInv /\ [Next]_vars => OneInv'
  <2> SUFFICES ASSUME OneInv, [Next]_vars PROVE OneInv'
    OBVIOUS
  <2>1. IInv'
    BY Inductive
  <2>2. ASSUME faults' <= 1 PROVE KInv'
    <3>1. faults <= 1
      BY <2>2, FaultsGrow DEF IInv
    <3> QED BY <2>2, <3>1, KInductive
  <2> QED BY <2>1, <2>2
<1>3. OneInv /\ [Next]_vars =>
        [faults' <= 1 /\ completion # NoCompletion /\ completion' # completion
           => ops[completion.op] \in Outcomes]_vars
  <2> SUFFICES ASSUME OneInv, [Next]_vars, faults' <= 1,
                      completion # NoCompletion, completion' # completion
               PROVE  Told(completion.op)
    BY DEF Told
  <2>0. KInv
    BY FaultsGrow DEF IInv
  <2>1. CASE Finish
    BY <2>0, <2>1, FinishKeeps
  <2>2. CASE SaveCompletion
    BY <2>0, <2>2 DEF SaveCompletion, KInv, LoopInv, Serving
  <2>3. CASE ClearCompletion
    BY <2>0, <2>3 DEF ClearCompletion, KInv, LoopInv, InHand, IInv, StepInv, Told
  <2>4. CASE \E o \in Ops : Reconcile(o)
    BY <2>4 DEF Reconcile
  <2> QED BY <2>1, <2>2, <2>3, <2>4, OthersKeepCompletion
<1> QED BY <1>1, <1>2, <1>3, PTL DEF Spec, OutcomeKept

=============================================================================
