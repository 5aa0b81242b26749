---------------------------- MODULE TriremeProofs ----------------------------
(* Proofs about the controller: between two requests the enforcer and the
   supervisor agree, a policed PU has a runtime, and the controller implements
   the abstract service PUService, for any number of clients, PUs and policies.

   The worker is the only one to write the three tables, so the invariant says
   what the worker is doing: for whom, with which policy, and in which step the
   tables of the one PU it works on may differ.                               *)
EXTENDS Trireme, TLAPS

Busy == worker.step \notin {"off", "idle", "gone"}

(* A client that is not idle has sent a proper request. *)
CallsOK == \A c \in Clients :
    /\ call[c].st = "idle" => call[c] = NoCall
    /\ call[c].st # "idle" =>
          /\ call[c].pu \in PUs /\ call[c].kind \in Events \cup {"Update"}
          /\ (call[c].kind = "Update") = (call[c].pol # None)

(* The worker serves one waiting client, and is in a step of the handler of
   that request, with the policy to install and no error met before. *)
WorkerOK == Busy =>
    /\ worker.client \in Clients /\ Req.st = "waiting"
    /\ worker.step = "lookup" => Req.kind # "Other" /\ worker.pol = Req.pol
    /\ worker.step = "resolve" => Req.kind = "Start"
    /\ worker.step \in {"enforce", "supervise"} =>
          /\ worker.pol \in Policies
          /\ Req.kind = "Start" \/ (Req.kind = "Update" /\ worker.pol = Req.pol)
    /\ worker.step \in {"unsupervise", "unenforce", "remove"} => Req.kind = "Stop"
    /\ worker.step \in {"lookup", "resolve", "enforce", "supervise"} => worker.ok = TRUE
    /\ worker.step \in {"resolve", "enforce", "supervise", "rollback", "unsupervise", "unenforce",
                        "remove"} => PU \in runtime

(* Where the two tables may differ, and what the steps that follow rely on. *)
TablesOK ==
    /\ \A p \in PUs : \/ enforced[p] = supervised[p]
                      \/ Busy /\ p = PU /\ worker.step \in {"supervise", "rollback", "unenforce"}
    /\ worker.step = "supervise" => enforced[PU] = worker.pol
    /\ worker.step \in {"rollback", "unenforce", "remove"} => supervised[PU] = None
    /\ worker.step = "unenforce" => worker.ok = (enforced[PU] # None)

Inv == TypeOK /\ CallsOK /\ WorkerOK /\ TablesOK /\ EnforcedHasRuntime

LEMMA InitInv == Init => Inv
<1> SUFFICES ASSUME Init PROVE Inv
  OBVIOUS
<1>1. TypeOK
  BY DEF Init, TypeOK, NoCall, Call, Worker, Steps
<1>2. CallsOK
  BY DEF Init, CallsOK, NoCall, Call
<1>3. WorkerOK /\ TablesOK /\ EnforcedHasRuntime
  BY DEF Init, WorkerOK, TablesOK, EnforcedHasRuntime, Busy, Worker
<1> QED  BY <1>1, <1>2, <1>3 DEF Inv

-----------------------------------------------------------------------------
(* CLIENTS.  A client that starts or ends a call is not the one the worker
   serves, so the worker's request is as it was. *)

LEMMA ClientCall ==
    ASSUME Inv, NEW c \in Clients, NEW r, call' = [call EXCEPT ![c] = r],
           call[c].st \in {"idle", "answered"},
           r \in [st : {"idle", "sending"}, kind : Events \cup {"Update", None},
                  pu : PUs \cup {None}, pol : Updates \cup {None}, ok : BOOLEAN],
           r.st = "idle" => r = NoCall,
           r.st # "idle" => /\ r.pu \in PUs /\ r.kind \in Events \cup {"Update"}
                            /\ (r.kind = "Update") = (r.pol # None),
           runtime \subseteq runtime', runtime' \subseteq PUs,
           UNCHANGED <<enforced, supervised, worker, stopping>>
    PROVE  Inv'
<1> USE DEF Inv
<1>1. TypeOK'
  BY DEF TypeOK
<1>2. CallsOK'
  BY DEF TypeOK, CallsOK
<1>3. Busy => worker.client # c /\ worker.client \in Clients /\ Req' = Req
  BY DEF TypeOK, WorkerOK, Req
<1>4. Busy' = Busy
  BY DEF Busy
<1>5. WorkerOK'
  BY <1>3, <1>4 DEF WorkerOK, PU
<1>6. TablesOK'
  BY <1>3, <1>4 DEF TablesOK, PU, Busy
<1>7. EnforcedHasRuntime'
  BY DEF EnforcedHasRuntime
<1> QED  BY <1>1, <1>2, <1>5, <1>6, <1>7

LEMMA ClientStep ==
    ASSUME Inv,
           \/ \E m \in Monitors, p \in PUs : SendStart(m, p)
           \/ \E m \in Monitors, p \in PUs, e \in {"Stop", "Other"} : SendEvent(m, p, e)
           \/ \E c \in Engines, p \in PUs, pol \in Updates : UpdatePolicy(c, p, pol)
           \/ \E c \in Clients : Receive(c)
    PROVE  Inv'
<1>1. ASSUME NEW m \in Monitors, NEW p \in PUs, SendStart(m, p)
      PROVE  Inv'
  <2> DEFINE r == Call("sending", "Start", p, None, TRUE)
  <2>1. r.st = "sending" /\ r.kind = "Start" /\ r.pu = p /\ r.pol = None
    BY DEF Call
  <2>2. r \in [st : {"idle", "sending"}, kind : Events \cup {"Update", None},
               pu : PUs \cup {None}, pol : Updates \cup {None}, ok : BOOLEAN]
    BY DEF Call, Events
  <2>3. m \in Clients /\ call[m].st = "idle" /\ call' = [call EXCEPT ![m] = r]
    BY <1>1 DEF SendStart, Clients
  <2>4. runtime \subseteq runtime' /\ runtime' \subseteq PUs
    BY <1>1 DEF SendStart, Inv, TypeOK
  <2>5. UNCHANGED <<enforced, supervised, worker, stopping>>
    BY <1>1 DEF SendStart
  <2> HIDE DEF r
  <2> QED  BY <2>1, <2>2, <2>3, <2>4, <2>5, ClientCall, Zenon DEF Events
<1>2. ASSUME NEW m \in Monitors, NEW p \in PUs, NEW e \in {"Stop", "Other"}, SendEvent(m, p, e)
      PROVE  Inv'
  <2> DEFINE r == Call("sending", e, p, None, TRUE)
  <2>1. r.st = "sending" /\ r.kind = e /\ r.pu = p /\ r.pol = None
    BY DEF Call
  <2>2. r \in [st : {"idle", "sending"}, kind : Events \cup {"Update", None},
               pu : PUs \cup {None}, pol : Updates \cup {None}, ok : BOOLEAN]
    BY DEF Call, Events
  <2>3. m \in Clients /\ call[m].st = "idle" /\ call' = [call EXCEPT ![m] = r]
    BY <1>2 DEF SendEvent, Clients
  <2>4. runtime \subseteq runtime' /\ runtime' \subseteq PUs
    BY <1>2 DEF SendEvent, Inv, TypeOK
  <2>5. UNCHANGED <<enforced, supervised, worker, stopping>>
    BY <1>2 DEF SendEvent
  <2> HIDE DEF r
  <2> QED  BY <2>1, <2>2, <2>3, <2>4, <2>5, ClientCall, Zenon DEF Events
<1>3. ASSUME NEW c \in Engines, NEW p \in PUs, NEW pol \in Updates, UpdatePolicy(c, p, pol)
      PROVE  Inv'
  <2> DEFINE r == Call("sending", "Update", p, pol, TRUE)
  <2>1. r.st = "sending" /\ r.kind = "Update" /\ r.pu = p /\ r.pol = pol /\ pol # None
    BY UpdatesAssumption, DistinctAssumption DEF Call
  <2>2. r \in [st : {"idle", "sending"}, kind : Events \cup {"Update", None},
               pu : PUs \cup {None}, pol : Updates \cup {None}, ok : BOOLEAN]
    BY DEF Call, Events
  <2>3. c \in Clients /\ call[c].st = "idle" /\ call' = [call EXCEPT ![c] = r]
    BY <1>3 DEF UpdatePolicy, Clients
  <2>4. runtime \subseteq runtime' /\ runtime' \subseteq PUs
    BY <1>3 DEF UpdatePolicy, Inv, TypeOK
  <2>5. UNCHANGED <<enforced, supervised, worker, stopping>>
    BY <1>3 DEF UpdatePolicy
  <2> HIDE DEF r
  <2> QED  BY <2>1, <2>2, <2>3, <2>4, <2>5, ClientCall, Zenon DEF Events
<1>4. ASSUME NEW c \in Clients, Receive(c)
      PROVE  Inv'
  <2>1. NoCall.st = "idle"
    BY DEF NoCall, Call
  <2>2. NoCall \in [st : {"idle", "sending"}, kind : Events \cup {"Update", None},
                    pu : PUs \cup {None}, pol : Updates \cup {None}, ok : BOOLEAN]
    BY DEF NoCall, Call
  <2>3. call[c].st = "answered" /\ call' = [call EXCEPT ![c] = NoCall]
    BY <1>4 DEF Receive
  <2>4. runtime \subseteq runtime' /\ runtime' \subseteq PUs
    BY <1>4 DEF Receive, Inv, TypeOK
  <2>5. UNCHANGED <<enforced, supervised, worker, stopping>>
    BY <1>4 DEF Receive
  <2> QED  BY <2>1, <2>2, <2>3, <2>4, <2>5, ClientCall, Zenon
<1> QED  BY <1>1, <1>2, <1>3, <1>4

-----------------------------------------------------------------------------
(* THE WORKER *)

Calls == [st : {"idle", "sending", "waiting", "answered"}, kind : Events \cup {"Update", None},
          pu : PUs \cup {None}, pol : Updates \cup {None}, ok : BOOLEAN]
Workers == [step : Steps, client : Clients \cup {None}, pol : Policies \cup {AllowAll, None},
            ok : BOOLEAN]

LEMMA TypeFacts ==
    ASSUME TypeOK
    PROVE  call \in [Clients -> Calls] /\ worker \in Workers
BY Zenon DEF TypeOK, Calls, Workers

(* The assignments to the worker's record, field by field. *)
LEMMA GotoFacts ==
    ASSUME worker \in Workers, NEW step \in Steps, Goto(step)
    PROVE  /\ worker' \in Workers /\ worker'.step = step /\ worker'.client = worker.client
           /\ worker'.pol = worker.pol /\ worker'.ok = worker.ok
BY DEF Workers, Goto

LEMMA OutcomeFacts ==
    ASSUME worker \in Workers, NEW step \in Steps, NEW ok \in BOOLEAN,
           worker' = [worker EXCEPT !.step = step, !.ok = ok]
    PROVE  /\ worker' \in Workers /\ worker'.step = step /\ worker'.client = worker.client
           /\ worker'.pol = worker.pol /\ worker'.ok = ok
BY Zenon DEF Workers

LEMMA PolicyFacts ==
    ASSUME worker \in Workers, NEW step \in Steps, NEW pol \in Policies \cup {AllowAll},
           worker' = [worker EXCEPT !.step = step, !.pol = pol]
    PROVE  /\ worker' \in Workers /\ worker'.step = step /\ worker'.client = worker.client
           /\ worker'.pol = pol /\ worker'.ok = worker.ok
BY Zenon DEF Workers

LEMMA ErrorFacts ==
    ASSUME worker \in Workers, ReturnError
    PROVE  /\ worker' \in Workers /\ worker'.step = "reply" /\ worker'.client = worker.client
           /\ worker'.pol = worker.pol /\ worker'.ok = FALSE
BY Zenon DEF Workers, ReturnError, Steps

LEMMA TakeRequestStep ==
    ASSUME Inv, NEW c \in Clients, TakeRequest(c)
    PROVE  Inv'
<1> USE DEF Inv
<1>u. UNCHANGED <<runtime, enforced, supervised, stopping>>
  BY DEF TakeRequest
<1>t. call \in [Clients -> Calls]
  BY TypeFacts
<1>1. /\ call[c].st = "sending" /\ call[c].pu \in PUs /\ call[c].kind \in Events \cup {"Update"}
      /\ call[c].pol \in Updates \cup {None}
  BY <1>t DEF TakeRequest, CallsOK, Calls
<1>2. /\ worker'.step = IF call[c].kind = "Other" THEN "reply" ELSE "lookup"
      /\ worker'.client = c /\ worker'.pol = call[c].pol /\ worker'.ok = TRUE
  BY DEF TakeRequest, Worker
<1>3. worker' \in Workers
  BY <1>1, UpdatesAssumption DEF TakeRequest, Worker, Steps, Workers
<1>4. /\ call' = [call EXCEPT ![c] = [call[c] EXCEPT !.st = "waiting"]]
      /\ [call[c] EXCEPT !.st = "waiting"] \in Calls
  BY <1>t DEF TakeRequest, Calls
<1>5. TypeOK'
  <2>1. call' \in [Clients -> Calls]
    BY <1>t, <1>4
  <2> QED  BY <1>u, <1>3, <2>1, Zenon DEF TypeOK, Calls, Workers
<1>6. CallsOK'
  BY <1>1, <1>4, <1>t DEF CallsOK, Calls
<1>7. /\ Req'.st = "waiting" /\ Req'.kind = call[c].kind /\ Req'.pol = call[c].pol
  BY <1>2, <1>4, <1>t DEF Req, Calls
<1>8. WorkerOK'
  BY <1>2, <1>7 DEF WorkerOK
<1>9. TablesOK'
  <2>1. \A p \in PUs : enforced[p] = supervised[p]
    BY DEF TablesOK, Busy, TakeRequest
  <2> QED  BY <1>2, <1>u, <2>1 DEF TablesOK
<1>10. EnforcedHasRuntime'
  BY <1>u DEF EnforcedHasRuntime
<1> QED  BY <1>5, <1>6, <1>8, <1>9, <1>10

(* In a step of a handler the worker has a client, with a proper request. *)
LEMMA BusyFacts ==
    ASSUME Inv, Busy
    PROVE  /\ worker.client \in Clients /\ PU \in PUs
           /\ Req.kind \in Events \cup {"Update"}
BY DEF Inv, WorkerOK, CallsOK, Req, PU

(* The steps of a handler leave the requests and the client it serves as they
   were. *)
LEMMA SameRequest ==
    ASSUME Inv, Busy, UNCHANGED <<call, stopping>>, worker'.client = worker.client
    PROVE  Req' = Req /\ PU' = PU /\ CallsOK'
BY DEF Inv, Req, PU, CallsOK

LEMMA LookupStep ==
    ASSUME Inv, Lookup
    PROVE  Inv'
<1> USE DEF Inv
<1>u. UNCHANGED <<runtime, enforced, supervised, call, stopping>>
  BY DEF Lookup
<1>1. Busy /\ worker.step = "lookup" /\ worker \in Workers
  BY TypeFacts DEF Lookup, Busy
<1>2. /\ Req.kind \in {"Start", "Stop", "Update"} /\ worker.pol = Req.pol /\ worker.ok = TRUE
      /\ Req.kind = "Update" => worker.pol \in Policies \cup {AllowAll}
  BY <1>1, BusyFacts, UpdatesAssumption DEF WorkerOK, CallsOK, Events, TypeOK, Req
<1>3. /\ worker' \in Workers /\ worker'.client = worker.client /\ worker'.pol = worker.pol
      /\ \/ worker'.step = "reply"
         \/ /\ worker'.ok = TRUE /\ PU \in runtime
            /\ \/ worker'.step = "resolve" /\ Req.kind = "Start"
               \/ worker'.step = "unsupervise" /\ Req.kind = "Stop"
               \/ worker'.step = "enforce" /\ Req.kind = "Update" /\ worker.pol # AllowAll
  <2>1. CASE PU \notin runtime
    BY <1>1, <2>1, ErrorFacts DEF Lookup
  <2>2. CASE PU \in runtime
    <3>1. Goto(AfterLookup)
      BY <2>2 DEF Lookup
    <3>2. \/ AfterLookup = "resolve" /\ Req.kind = "Start"
          \/ AfterLookup = "unsupervise" /\ Req.kind = "Stop"
          \/ AfterLookup = "enforce" /\ Req.kind = "Update" /\ worker.pol # AllowAll
          \/ AfterLookup = "reply"
      BY <1>2 DEF AfterLookup
    <3>3. AfterLookup \in Steps
      BY <3>2 DEF Steps
    <3> QED  BY <1>1, <1>2, <2>2, <3>1, <3>2, <3>3, GotoFacts
  <2> QED  BY <2>1, <2>2, Zenon
<1>4. TypeOK'
  BY <1>3, <1>u, Zenon DEF TypeOK, Workers
<1>5. Req' = Req /\ PU' = PU /\ CallsOK'
  BY <1>1, <1>3, <1>u, SameRequest
<1>6. WorkerOK'
  BY <1>1, <1>2, <1>3, <1>5, <1>u DEF WorkerOK
<1>7. TablesOK'
  BY <1>1, <1>3, <1>5, <1>u DEF TablesOK
<1>8. EnforcedHasRuntime'
  BY <1>u DEF EnforcedHasRuntime
<1> QED  BY <1>4, <1>5, <1>6, <1>7, <1>8

LEMMA ResolveStep ==
    ASSUME Inv, Resolve
    PROVE  Inv'
<1> USE DEF Inv
<1>u. UNCHANGED <<runtime, enforced, supervised, call, stopping>> /\ worker.step = "resolve"
  BY Zenon DEF Resolve
<1>1. /\ Busy /\ worker \in Workers /\ Req.kind = "Start" /\ worker.ok = TRUE /\ PU \in runtime
  BY <1>u, TypeFacts DEF Busy, WorkerOK
<1>3. /\ worker' \in Workers /\ worker'.client = worker.client
      /\ \/ worker'.step = "reply"
         \/ worker'.step = "enforce" /\ worker'.pol \in Policies /\ worker'.ok = TRUE
  <2>1. CASE ReturnError
    BY <1>1, <2>1, ErrorFacts, Zenon
  <2>2. CASE worker' = [worker EXCEPT !.step = "reply", !.pol = AllowAll]
    BY <1>1, <2>2, PolicyFacts, ZenonT(30) DEF Steps
  <2>3. ASSUME NEW pol \in Policies, worker' = [worker EXCEPT !.step = "enforce", !.pol = pol]
        PROVE  /\ worker' \in Workers /\ worker'.client = worker.client
               /\ worker'.step = "enforce" /\ worker'.pol \in Policies /\ worker'.ok = TRUE
    BY <1>1, <2>3, PolicyFacts, ZenonT(30) DEF Steps
  <2> QED  BY <2>1, <2>2, <2>3, Zenon DEF Resolve
<1>4. TypeOK'
  BY <1>3, <1>u, Zenon DEF TypeOK, Workers
<1>5. Req' = Req /\ PU' = PU /\ CallsOK'
  BY <1>1, <1>3, <1>u, SameRequest
<1>6. WorkerOK'
  BY <1>1, <1>3, <1>5, <1>u DEF WorkerOK
<1>7. TablesOK'
  BY <1>1, <1>3, <1>5, <1>u DEF TablesOK
<1>8. EnforcedHasRuntime'
  BY <1>u DEF EnforcedHasRuntime
<1> QED  BY <1>4, <1>5, <1>6, <1>7, <1>8

LEMMA EnforceStep ==
    ASSUME Inv, Enforce
    PROVE  Inv'
<1> USE DEF Inv
<1>u. UNCHANGED <<runtime, supervised, call, stopping>> /\ worker.step = "enforce"
  BY Zenon DEF Enforce
<1>1. /\ Busy /\ worker \in Workers /\ worker.ok = TRUE /\ PU \in runtime
      /\ worker.pol \in Policies
      /\ Req.kind = "Start" \/ (Req.kind = "Update" /\ worker.pol = Req.pol)
  BY <1>u, TypeFacts DEF Busy, WorkerOK
<1>2. PU \in PUs /\ enforced \in [PUs -> Policies \cup {None}]
  BY <1>1, BusyFacts DEF TypeOK
<1>3. /\ worker' \in Workers /\ worker'.client = worker.client /\ worker'.pol = worker.pol
      /\ \/ worker'.step = "reply" /\ enforced' = enforced
         \/ /\ worker'.step = "supervise" /\ worker'.ok = TRUE
            /\ enforced' = [enforced EXCEPT ![PU] = worker.pol]
  <2>1. CASE ReturnError /\ UNCHANGED enforced
    BY <1>1, <2>1, ErrorFacts, Zenon
  <2>2. CASE Goto("supervise") /\ enforced' = [enforced EXCEPT ![PU] = worker.pol]
    <3>1. "supervise" \in Steps
      BY DEF Steps
    <3> QED  BY <1>1, <2>2, <3>1, GotoFacts, Zenon
  <2> QED  BY <2>1, <2>2, Zenon DEF Enforce
<1>e. enforced' \in [PUs -> Policies \cup {None}]
  BY <1>1, <1>2, <1>3
<1>4. TypeOK'
  BY <1>3, <1>e, <1>u, Zenon DEF TypeOK, Workers
<1>5. Req' = Req /\ PU' = PU /\ CallsOK'
  BY <1>1, <1>3, <1>u, SameRequest
<1>6. WorkerOK'
  BY <1>1, <1>3, <1>5, <1>u DEF WorkerOK
<1>7. TablesOK'
  BY <1>2, <1>3, <1>5, <1>u DEF TablesOK, Busy
<1>8. EnforcedHasRuntime'
  BY <1>1, <1>2, <1>3, <1>u DEF EnforcedHasRuntime
<1> QED  BY <1>4, <1>5, <1>6, <1>7, <1>8

LEMMA SuperviseStep ==
    ASSUME Inv, Supervise
    PROVE  Inv'
<1> USE DEF Inv
<1>u. UNCHANGED <<runtime, enforced, call, stopping>> /\ worker.step = "supervise"
  BY Zenon DEF Supervise
<1>1. Busy /\ worker \in Workers /\ PU \in runtime /\ worker.pol \in Policies
  BY <1>u, TypeFacts DEF Busy, WorkerOK
<1>2. /\ PU \in PUs /\ supervised \in [PUs -> Policies \cup {None}]
      /\ \A p \in PUs : p # PU => enforced[p] = supervised[p]
  BY <1>1, BusyFacts DEF TypeOK, TablesOK
<1>3. /\ worker' \in Workers /\ worker'.client = worker.client
      /\ \/ worker'.step = "rollback" /\ supervised' = [supervised EXCEPT ![PU] = None]
         \/ /\ worker'.step = "reply" /\ supervised' = [supervised EXCEPT ![PU] = worker.pol]
  <2>s. {"rollback", "reply"} \subseteq Steps
    BY DEF Steps
  <2>1. CASE /\ worker' = [worker EXCEPT !.step = "rollback", !.ok = FALSE]
             /\ supervised' = [supervised EXCEPT ![PU] = None]
    BY <1>1, <2>1, <2>s, OutcomeFacts, Zenon
  <2>2. CASE Goto("reply") /\ supervised' = [supervised EXCEPT ![PU] = worker.pol]
    BY <1>1, <2>2, <2>s, GotoFacts
  <2> QED  BY <2>1, <2>2, Zenon DEF Supervise
<1>e. supervised' \in [PUs -> Policies \cup {None}]
  BY <1>1, <1>2, <1>3
<1>4. TypeOK'
  BY <1>3, <1>e, <1>u, Zenon DEF TypeOK, Workers
<1>5. Req' = Req /\ PU' = PU /\ CallsOK'
  BY <1>1, <1>3, <1>u, SameRequest
<1>6. WorkerOK'
  BY <1>1, <1>3, <1>5, <1>u DEF WorkerOK
<1>7. TablesOK'
  <2>1. CASE worker'.step = "rollback"
    BY <1>2, <1>3, <1>5, <1>u, <2>1 DEF TablesOK, Busy
  <2>2. CASE worker'.step = "reply"
    <3>1. enforced[PU] = worker.pol
      BY <1>1, <1>2, <1>u DEF TablesOK
    <3> QED  BY <1>2, <1>3, <1>5, <1>u, <2>2, <3>1 DEF TablesOK, Busy
  <2> QED  BY <1>3, <2>1, <2>2
<1>8. EnforcedHasRuntime'
  BY <1>1, <1>2, <1>3, <1>u DEF EnforcedHasRuntime
<1> QED  BY <1>4, <1>5, <1>6, <1>7, <1>8

LEMMA RollbackStep ==
    ASSUME Inv, Rollback
    PROVE  Inv'
<1> USE DEF Inv
<1>u. /\ UNCHANGED <<runtime, supervised, call, stopping>> /\ worker.step = "rollback"
      /\ enforced' = [enforced EXCEPT ![PU] = None]
  BY Zenon DEF Rollback
<1>1. Busy /\ worker \in Workers /\ PU \in runtime /\ supervised[PU] = None
  BY <1>u, TypeFacts, SMTT(30) DEF Busy, WorkerOK, TablesOK
<1>2. /\ PU \in PUs /\ enforced \in [PUs -> Policies \cup {None}]
      /\ \A p \in PUs : p # PU => enforced[p] = supervised[p]
  BY <1>1, BusyFacts DEF TypeOK, TablesOK
<1>3. worker' \in Workers /\ worker'.client = worker.client /\ worker'.step = "reply"
  <2>1. "reply" \in Steps
    BY DEF Steps
  <2> QED  BY <1>1, <2>1, GotoFacts, Zenon DEF Rollback
<1>e. enforced' \in [PUs -> Policies \cup {None}]
  BY <1>2, <1>u
<1>4. TypeOK'
  BY <1>3, <1>e, <1>u, Zenon DEF TypeOK, Workers
<1>5. Req' = Req /\ PU' = PU /\ CallsOK'
  BY <1>1, <1>3, <1>u, SameRequest
<1>6. WorkerOK'
  BY <1>1, <1>3, <1>5, <1>u DEF WorkerOK
<1>7. TablesOK'
  BY <1>1, <1>2, <1>3, <1>5, <1>u DEF TablesOK
<1>8. EnforcedHasRuntime'
  BY <1>2, <1>u DEF EnforcedHasRuntime
<1> QED  BY <1>4, <1>5, <1>6, <1>7, <1>8

LEMMA UnsuperviseStep ==
    ASSUME Inv, Unsupervise
    PROVE  Inv'
<1> USE DEF Inv
<1>u. /\ UNCHANGED <<runtime, enforced, call, stopping>> /\ worker.step = "unsupervise"
      /\ supervised' = [supervised EXCEPT ![PU] = None]
  BY Zenon DEF Unsupervise
<1>1. Busy /\ worker \in Workers /\ PU \in runtime /\ Req.kind = "Stop"
  BY <1>u, TypeFacts DEF Busy, WorkerOK
<1>2. /\ PU \in PUs /\ supervised \in [PUs -> Policies \cup {None}]
      /\ \A p \in PUs : enforced[p] = supervised[p]
  BY <1>1, <1>u, BusyFacts DEF TypeOK, TablesOK
<1>3. /\ worker' \in Workers /\ worker'.client = worker.client /\ worker'.step = "unenforce"
      /\ worker'.ok = (supervised[PU] # None)
  <2>1. "unenforce" \in Steps
    BY DEF Steps
  <2>2. worker' = [worker EXCEPT !.step = "unenforce", !.ok = (supervised[PU] # None)]
    BY Zenon DEF Unsupervise
  <2> QED  BY <1>1, <2>1, <2>2, OutcomeFacts, Zenon
<1>e. supervised' \in [PUs -> Policies \cup {None}]
  BY <1>2, <1>u
<1>4. TypeOK'
  BY <1>3, <1>e, <1>u, Zenon DEF TypeOK, Workers
<1>5. Req' = Req /\ PU' = PU /\ CallsOK'
  BY <1>1, <1>3, <1>u, SameRequest
<1>6. WorkerOK'
  BY <1>1, <1>3, <1>5, <1>u DEF WorkerOK
<1>7. TablesOK'
  <2>1. \A p \in PUs : p = PU \/ enforced'[p] = supervised'[p]
    BY <1>2, <1>u
  <2>2. supervised'[PU] = None /\ enforced'[PU] = supervised[PU]
    BY <1>2, <1>u
  <2>3. worker'.ok = (enforced'[PU] # None)
    BY <1>3, <2>2, Zenon
  <2> QED  BY <1>3, <1>5, <2>1, <2>2, <2>3, Zenon DEF TablesOK, Busy
<1>8. EnforcedHasRuntime'
  BY <1>2, <1>u DEF EnforcedHasRuntime
<1> QED  BY <1>4, <1>5, <1>6, <1>7, <1>8

LEMMA UnenforceStep ==
    ASSUME Inv, Unenforce
    PROVE  Inv'
<1> USE DEF Inv
<1>u. /\ UNCHANGED <<runtime, supervised, call, stopping>> /\ worker.step = "unenforce"
      /\ enforced' = [enforced EXCEPT ![PU] = None]
  BY Zenon DEF Unenforce
<1>1. Busy /\ worker \in Workers /\ PU \in runtime /\ Req.kind = "Stop" /\ supervised[PU] = None
  BY <1>u, TypeFacts DEF Busy, WorkerOK, TablesOK
<1>2. /\ PU \in PUs /\ enforced \in [PUs -> Policies \cup {None}]
      /\ \A p \in PUs : p # PU => enforced[p] = supervised[p]
  BY <1>1, BusyFacts DEF TypeOK, TablesOK
<1>3. worker' \in Workers /\ worker'.client = worker.client /\ worker'.step = "remove"
  <2>1. "remove" \in Steps
    BY DEF Steps
  <2>2. (worker.ok /\ enforced[PU] # None) \in BOOLEAN
    OBVIOUS
  <2> QED  BY <1>1, <2>1, <2>2, OutcomeFacts, Zenon DEF Unenforce
<1>e. enforced' \in [PUs -> Policies \cup {None}]
  BY <1>2, <1>u
<1>4. TypeOK'
  BY <1>3, <1>e, <1>u, Zenon DEF TypeOK, Workers
<1>5. Req' = Req /\ PU' = PU /\ CallsOK'
  BY <1>1, <1>3, <1>u, SameRequest, SMTT(30)
<1>6. WorkerOK'
  BY <1>1, <1>3, <1>5, <1>u DEF WorkerOK
<1>7. TablesOK'
  BY <1>1, <1>2, <1>3, <1>5, <1>u DEF TablesOK
<1>8. EnforcedHasRuntime'
  BY <1>2, <1>u DEF EnforcedHasRuntime
<1> QED  BY <1>4, <1>5, <1>6, <1>7, <1>8

LEMMA RemoveStep ==
    ASSUME Inv, Remove
    PROVE  Inv'
<1> USE DEF Inv
<1>u. /\ UNCHANGED <<enforced, supervised, call, stopping>> /\ worker.step = "remove"
      /\ runtime' = runtime \ {PU}
  BY Zenon DEF Remove
<1>1. Busy /\ worker \in Workers /\ supervised[PU] = None
  BY <1>u, TypeFacts DEF Busy, TablesOK
<1>2. PU \in PUs /\ \A p \in PUs : enforced[p] = supervised[p]
  BY <1>1, <1>u, BusyFacts DEF TablesOK
<1>3. worker' \in Workers /\ worker'.client = worker.client /\ worker'.step = "reply"
  <2>1. "reply" \in Steps
    BY DEF Steps
  <2> QED  BY <1>1, <2>1, GotoFacts, Zenon DEF Remove
<1>e. runtime' \subseteq PUs
  BY <1>u DEF TypeOK
<1>4. TypeOK'
  BY <1>3, <1>e, <1>u, Zenon DEF TypeOK, Workers
<1>5. Req' = Req /\ PU' = PU /\ CallsOK'
  BY <1>1, <1>3, <1>u, SameRequest
<1>6. WorkerOK'
  BY <1>1, <1>3, <1>5, <1>u DEF WorkerOK
<1>7. TablesOK'
  BY <1>2, <1>3, <1>u DEF TablesOK
<1>8. EnforcedHasRuntime'
  BY <1>1, <1>2, <1>u DEF EnforcedHasRuntime
<1> QED  BY <1>4, <1>5, <1>6, <1>7, <1>8

LEMMA ReplyStep ==
    ASSUME Inv, Reply
    PROVE  Inv'
<1> USE DEF Inv
<1> DEFINE c == worker.client
           r == [call[c] EXCEPT !.st = "answered", !.ok = worker.ok]
<1>u. /\ UNCHANGED <<runtime, enforced, supervised, stopping>> /\ worker.step = "reply"
      /\ worker' = IdleWorker
  BY Zenon DEF Reply
<1>1. Busy /\ worker \in Workers /\ call \in [Clients -> Calls]
  BY <1>u, TypeFacts DEF Busy
<1>2. c \in Clients /\ call[c] \in Calls /\ call[c].st = "waiting" /\ worker.ok \in BOOLEAN
  BY <1>1 DEF WorkerOK, Req, Workers
<1>3. /\ call' = [call EXCEPT ![c] = r]
      /\ r \in Calls /\ r.st = "answered" /\ r.pu = call[c].pu /\ r.kind = call[c].kind
      /\ r.pol = call[c].pol
  <2>1. call' = [call EXCEPT ![c] = r]
    BY <1>1, <1>2, Zenon DEF Reply, Calls
  <2>2. /\ r \in Calls /\ r.st = "answered" /\ r.pu = call[c].pu /\ r.kind = call[c].kind
        /\ r.pol = call[c].pol
    BY <1>2, Zenon DEF Calls
  <2> QED  BY <2>1, <2>2
<1> HIDE DEF r
<1>4. TypeOK'
  <2>1. call' \in [Clients -> Calls]
    BY <1>1, <1>3, Zenon
  <2>2. worker' \in Workers
    BY <1>u DEF IdleWorker, Worker, Workers, Steps
  <2> QED  BY <1>u, <2>1, <2>2, Zenon DEF TypeOK, Calls, Workers
<1>5. CallsOK'
  BY <1>1, <1>2, <1>3 DEF CallsOK
<1>6. worker'.step = "idle" /\ ~ Busy'
  BY <1>u DEF IdleWorker, Worker, Busy
<1>7. WorkerOK'
  BY <1>6 DEF WorkerOK
<1>8. TablesOK'
  BY <1>6, <1>u DEF TablesOK
<1>9. EnforcedHasRuntime'
  BY <1>u DEF EnforcedHasRuntime
<1> QED  BY <1>4, <1>5, <1>7, <1>8, <1>9

(* The life of the worker goroutine, which touches no table. *)
LEMMA LifeStep ==
    ASSUME Inv, Start \/ Stop \/ TakeStop
    PROVE  Inv'
<1> USE DEF Inv
<1>1. CASE Start \/ TakeStop
  <2>1. /\ UNCHANGED <<runtime, enforced, supervised, call>>
        /\ worker.step \in {"off", "idle"} /\ stopping' \in {"no", "called", "done"}
        /\ worker' \in Workers /\ worker'.step \in {"idle", "gone"}
    <3>1. /\ IdleWorker \in Workers /\ IdleWorker.step = "idle"
          /\ Worker("gone", None, None, TRUE) \in Workers
          /\ Worker("gone", None, None, TRUE).step = "gone"
      BY DEF IdleWorker, Worker, Workers, Steps
    <3>2. CASE Start
      BY <3>1, <3>2 DEF Start, TypeOK
    <3>3. CASE TakeStop
      BY <3>1, <3>3, Zenon DEF TakeStop
    <3> QED  BY <1>1, <3>2, <3>3
  <2>2. TypeOK'
    BY <2>1, Zenon DEF TypeOK, Workers
  <2>3. CallsOK'
    BY <2>1, SMTT(30) DEF CallsOK
  <2>4. WorkerOK' /\ TablesOK' /\ EnforcedHasRuntime'
    BY <2>1 DEF WorkerOK, TablesOK, EnforcedHasRuntime, Busy
  <2> QED  BY <2>2, <2>3, <2>4
<1>2. CASE Stop
  <2>1. UNCHANGED <<runtime, enforced, supervised, call, worker>> /\ stopping' = "called"
    BY <1>2 DEF Stop
  <2>2. TypeOK' /\ CallsOK'
    BY <2>1, Zenon DEF TypeOK, CallsOK
  <2>3. WorkerOK' /\ TablesOK' /\ EnforcedHasRuntime'
    BY <2>1, Zenon DEF WorkerOK, TablesOK, EnforcedHasRuntime, Busy, Req, PU
  <2> QED  BY <2>2, <2>3
<1> QED  BY <1>1, <1>2

LEMMA StepInv == Inv /\ [Next]_vars => Inv'
<1> SUFFICES ASSUME Inv, [Next]_vars PROVE Inv'
  OBVIOUS
<1>1. ASSUME NEW c \in Clients, TakeRequest(c)
      PROVE  Inv'
  BY <1>1, TakeRequestStep
<1>2. CASE Handle
  BY <1>2, LookupStep, ResolveStep, EnforceStep, SuperviseStep, RollbackStep, UnsuperviseStep,
     UnenforceStep, RemoveStep, ReplyStep, Zenon DEF Handle
<1>3. CASE UNCHANGED vars
  <2>1. /\ UNCHANGED <<runtime, enforced, supervised, call, worker, stopping>>
        /\ TypeOK /\ CallsOK /\ WorkerOK /\ TablesOK /\ EnforcedHasRuntime
    BY <1>3, Zenon DEF vars, Inv
  <2>2. TypeOK' /\ CallsOK'
    BY <2>1, Zenon DEF TypeOK, CallsOK
  <2>3. WorkerOK' /\ TablesOK' /\ EnforcedHasRuntime'
    BY <2>1, Zenon DEF WorkerOK, TablesOK, EnforcedHasRuntime, Busy, Req, PU
  <2> QED  BY <2>2, <2>3 DEF Inv
<1> QED  BY <1>1, <1>2, <1>3, ClientStep, LifeStep, Zenon DEF Next

(* Every reachable state of the controller satisfies the inductive invariant: what
   the worker holds in hand explains every difference between enforcer, supervisor
   and runtime cache. *)
THEOREM Invariant == Spec => []Inv
BY InitInv, StepInv, PTL DEF Spec

(* Between two requests the enforcer and the supervisor hold the same policy
   for every PU, whatever Enforce, Supervise and the resolver answered and in
   whatever order the clients' requests were taken (doHandleCreate,
   doHandleDelete and doUpdatePolicy of trireme.go). *)
THEOREM PairedAlways == Spec => []Paired
<1>1. Inv => Paired
  <2> SUFFICES ASSUME Inv, Between PROVE enforced = supervised
    BY DEF Paired
  <2>1. \A p \in PUs : enforced[p] = supervised[p]
    BY Zenon DEF Inv, TablesOK, Busy, Between
  <2> QED  BY <2>1 DEF Inv, TypeOK
<1> QED  BY <1>1, Invariant, PTL

(* A PU that is enforced or supervised has its runtime in the cache, at every
   step of every handler, so that a stop event for it cleans up. *)
THEOREM EnforcedHasRuntimeAlways == Spec => []EnforcedHasRuntime
<1>1. Inv => EnforcedHasRuntime
  BY DEF Inv
<1> QED  BY <1>1, Invariant, PTL

-----------------------------------------------------------------------------
(* THE ABSTRACT SERVICE.  A handler's request is pending for its client until
   the step that writes the supervisor's table, or that fails before it; that
   step is Apply.  Every other step of the worker is a stutter. *)

AppliedSteps == {"reply", "rollback", "unenforce", "remove"}

Pending(r) == [r EXCEPT !.st = "pending"]
Done(r, ok) == [r EXCEPT !.st = "done", !.ok = ok]

LEMMA DoneFacts ==
    ASSUME NEW r \in Calls, NEW ok \in BOOLEAN
    PROVE  /\ Pending(r).st = "pending" /\ Pending(r).kind = r.kind /\ Pending(r).pu = r.pu
           /\ Pending(r).pol = r.pol /\ Done(r, ok).st = "done"
           /\ Done(r, ok) = [Pending(r) EXCEPT !.st = "done", !.ok = ok]
BY Zenon DEF Calls, Pending, Done

(* What the clients see of a step of a handler: only the worker's own client
   can be affected. *)
LEMMA HandlerView ==
    ASSUME Inv, Busy, UNCHANGED call, worker'.client = worker.client
    PROVE  /\ \A d \in Clients \ {worker.client} : AbsReq(d)' = AbsReq(d)
           /\ worker.step \in AppliedSteps => AbsReq(worker.client) = Done(Req, worker.ok)
           /\ worker.step \notin AppliedSteps => AbsReq(worker.client) = Pending(Req)
           /\ worker'.step \in AppliedSteps =>
                 AbsReq(worker.client)' = Done(Req, worker'.ok)
           /\ worker'.step \notin AppliedSteps => AbsReq(worker.client)' = Pending(Req)
<1>1. worker.client \in Clients /\ Req.st = "waiting"
  BY DEF Inv, WorkerOK
<1>2. \A d \in Clients \ {worker.client} : AbsReq(d)' = AbsReq(d)
  BY DEF AbsReq, Applied
<1>3. /\ worker.step \in AppliedSteps => AbsReq(worker.client) = Done(Req, worker.ok)
      /\ worker.step \notin AppliedSteps => AbsReq(worker.client) = Pending(Req)
  BY <1>1 DEF AbsReq, Applied, AppliedSteps, Req, Pending, Done
<1>4. /\ worker'.step \in AppliedSteps => AbsReq(worker.client)' = Done(Req, worker'.ok)
      /\ worker'.step \notin AppliedSteps => AbsReq(worker.client)' = Pending(Req)
  BY <1>1 DEF AbsReq, Applied, AppliedSteps, Req, Pending, Done
<1> QED  BY <1>2, <1>3, <1>4

(* A step that no client sees and that leaves the supervisor alone. *)
LEMMA Stutters ==
    ASSUME \A d \in Clients : AbsReq(d)' = AbsReq(d), supervised' = supervised
    PROVE  UNCHANGED Service!vars
<1>1. [d \in Clients |-> AbsReq(d)]' = [d \in Clients |-> AbsReq(d)]
  OBVIOUS
<1> QED  BY <1>1 DEF Service!vars

(* A step that one client sees. *)
LEMMA ViewOfOne ==
    ASSUME NEW c \in Clients, NEW v, \A d \in Clients \ {c} : AbsReq(d)' = AbsReq(d),
           AbsReq(c)' = v
    PROVE  [d \in Clients |-> AbsReq(d)]' = [[d \in Clients |-> AbsReq(d)] EXCEPT ![c] = v]
<1> DEFINE g == [[d \in Clients |-> AbsReq(d)] EXCEPT ![c] = v]
<1>1. [d \in Clients |-> AbsReq(d)]' = [d \in Clients |-> AbsReq(d)']
  OBVIOUS
<1>2. \A d \in Clients : AbsReq(d)' = g[d]
  BY Zenon
<1>3. g = [d \in Clients |-> g[d]]
  BY Zenon
<1> HIDE DEF g
<1>4. [d \in Clients |-> AbsReq(d)'] = [d \in Clients |-> g[d]]
  BY <1>2, Zenon
<1> QED  BY <1>1, <1>3, <1>4, Zenon

(* The step is the end of its request. *)
LEMMA Applies ==
    ASSUME NEW c \in Clients, NEW r \in Calls, NEW f \in Policies \cup {None}, NEW ok \in BOOLEAN,
           \A d \in Clients \ {c} : AbsReq(d)' = AbsReq(d),
           AbsReq(c) = Pending(r), AbsReq(c)' = Done(r, ok),
           Service!Effect(Pending(r), f, ok), supervised' = [supervised EXCEPT ![r.pu] = f]
    PROVE  Service!Next
<1> DEFINE req == [d \in Clients |-> AbsReq(d)]
<1>1. req[c] = Pending(r) /\ req[c].st = "pending" /\ req[c].pu = r.pu
  BY DoneFacts, ZenonT(30)
<1>3. req' = [req EXCEPT ![c] = Done(r, ok)]
  BY ViewOfOne, Zenon
<1>4. req' = [req EXCEPT ![c].st = "done", ![c].ok = ok]
  <2>1. Done(r, ok) = [req[c] EXCEPT !.st = "done", !.ok = ok]
    <3>1. Done(r, ok) = [Pending(r) EXCEPT !.st = "done", !.ok = ok]
      BY DoneFacts, Zenon
    <3> HIDE DEF req
    <3> QED  BY <1>1, <3>1, Zenon
  <2>2. [req EXCEPT ![c].st = "done", ![c].ok = ok]
          = [req EXCEPT ![c] = [req[c] EXCEPT !.st = "done", !.ok = ok]]
    <3> HIDE DEF req
    <3> QED  BY Zenon
  <2> HIDE DEF req
  <2> QED  BY <1>3, <2>1, <2>2, Zenon
<1>5. Service!Apply(c)
  BY <1>1, <1>4, ZenonT(30) DEF Service!Apply
<1> QED  BY <1>5 DEF Service!Next

(* Requests as the two specifications write them. *)
LEMMA NoCallFacts == NoCall.st = "idle" /\ NoCall = Service!NoRequest
BY Zenon DEF NoCall, Call, Service!Request, Service!NoRequest

LEMMA RequestFacts ==
    ASSUME NEW kind, NEW p, NEW pol
    PROVE  [Call("sending", kind, p, pol, TRUE) EXCEPT !.st = "pending"]
             = Service!Request("pending", kind, p, pol, TRUE)
<1> DEFINE R(st) == [st : {st}, kind : {kind}, pu : {p}, pol : {pol}, ok : {TRUE}]
           u == [Call("sending", kind, p, pol, TRUE) EXCEPT !.st = "pending"]
<1>1. Call("sending", kind, p, pol, TRUE) \in R("sending")
  BY DEF Call
<1>2. u \in R("pending")
  <2> DEFINE w == Call("sending", kind, p, pol, TRUE)
  <2> HIDE DEF w
  <2> QED  BY <1>1, Zenon DEF w
<1>3. u = [st |-> "pending", kind |-> kind, pu |-> p, pol |-> pol, ok |-> TRUE]
  <2> HIDE DEF u
  <2> QED  BY <1>2, Zenon
<1> QED  BY <1>3 DEF Service!Request

LEMMA Submits ==
    ASSUME Inv, NEW c \in Clients, NEW kind \in Events \cup {"Update"}, NEW p \in PUs,
           NEW pol \in Updates \cup {None}, (kind = "Update") = (pol # None),
           call[c].st = "idle", call' = [call EXCEPT ![c] = Call("sending", kind, p, pol, TRUE)],
           UNCHANGED <<supervised, worker>>
    PROVE  Service!Next
<1> DEFINE req == [d \in Clients |-> AbsReq(d)]
           r == Service!Request("pending", kind, p, pol, TRUE)
<1>1. /\ \A d \in Clients \ {c} : call'[d] = call[d]
      /\ call'[c] = Call("sending", kind, p, pol, TRUE) /\ call'[c].st = "sending"
  BY TypeFacts DEF Inv, Call
<1>2. \A d \in Clients \ {c} : AbsReq(d)' = AbsReq(d)
  BY <1>1 DEF AbsReq, Applied
<1>3. ~ Applied(c)'
  BY DEF Inv, WorkerOK, Applied, Req, Busy
<1>4. req[c].st = "idle"
  <2>1. AbsReq(c) = NoCall
    BY DEF AbsReq, Inv, WorkerOK, Applied, Req, Busy
  <2> QED  BY <2>1, NoCallFacts, Zenon
<1>5. AbsReq(c)' = r
  <2>1. AbsReq(c)' = [Call("sending", kind, p, pol, TRUE) EXCEPT !.st = "pending"]
    BY <1>1, <1>3, Zenon DEF AbsReq
  <2>2. [Call("sending", kind, p, pol, TRUE) EXCEPT !.st = "pending"] = r
    BY RequestFacts, ZenonT(30)
  <2> QED  BY <2>1, <2>2, Zenon
<1>6. req' = [req EXCEPT ![c] = r]
  <2> HIDE DEF r
  <2> QED  BY <1>2, <1>5, ViewOfOne, Zenon
<1>7. kind \in Service!Kinds /\ pol \in Policies \cup {AllowAll, None}
  BY UpdatesAssumption DEF Events, Service!Kinds
<1>8. Service!Submit(c)
  BY <1>4, <1>6, <1>7, Zenon DEF Service!Submit
<1> QED  BY <1>8 DEF Service!Next

LEMMA Answers ==
    ASSUME Inv, NEW c \in Clients, Receive(c)
    PROVE  Service!Next
<1> DEFINE req == [d \in Clients |-> AbsReq(d)]
<1>1. /\ \A d \in Clients \ {c} : call'[d] = call[d]
      /\ call[c] \in Calls /\ call[c].st = "answered" /\ call'[c] = NoCall
      /\ UNCHANGED <<supervised, worker>>
  BY TypeFacts DEF Inv, Receive
<1>2. \A d \in Clients \ {c} : AbsReq(d)' = AbsReq(d)
  BY <1>1, Zenon DEF AbsReq, Applied
<1>3. req[c].st = "done"
  BY <1>1 DEF AbsReq, Calls
<1>4. AbsReq(c)' = Service!NoRequest
  <2>1. call'[c].st = "idle"
    BY <1>1, NoCallFacts, Zenon
  <2>2. AbsReq(c)' = NoCall'
    BY <1>1, <2>1 DEF AbsReq, Inv, WorkerOK, Applied, Req, Busy
  <2>3. NoCall' = NoCall
    BY DEF NoCall, Call
  <2> QED  BY <2>2, <2>3, NoCallFacts, Zenon
<1>5. req' = [req EXCEPT ![c] = Service!NoRequest]
  BY <1>2, <1>4, ViewOfOne, Zenon
<1>6. Service!Answer(c)
  BY <1>1, <1>3, <1>5, Zenon DEF Service!Answer
<1> QED  BY <1>6 DEF Service!Next

LEMMA ClientRefines ==
    ASSUME Inv,
           \/ \E m \in Monitors, p \in PUs : SendStart(m, p)
           \/ \E m \in Monitors, p \in PUs, e \in {"Stop", "Other"} : SendEvent(m, p, e)
           \/ \E c \in Engines, p \in PUs, pol \in Updates : UpdatePolicy(c, p, pol)
           \/ \E c \in Clients : Receive(c)
    PROVE  Service!Next
<1>c. Monitors \subseteq Clients /\ Engines \subseteq Clients
  BY DEF Clients
<1>e. {"Start", "Stop", "Other"} \subseteq Events \cup {"Update"} /\ None \notin Updates
  BY UpdatesAssumption, DistinctAssumption DEF Events
<1>1. ASSUME NEW m \in Monitors, NEW p \in PUs, SendStart(m, p)
      PROVE  Service!Next
  BY <1>1, <1>c, <1>e, Submits, Zenon DEF SendStart
<1>2. ASSUME NEW m \in Monitors, NEW p \in PUs, NEW e \in {"Stop", "Other"}, SendEvent(m, p, e)
      PROVE  Service!Next
  BY <1>2, <1>c, <1>e, Submits, Zenon DEF SendEvent
<1>3. ASSUME NEW c \in Engines, NEW p \in PUs, NEW pol \in Updates, UpdatePolicy(c, p, pol)
      PROVE  Service!Next
  BY <1>3, <1>c, <1>e, Submits, Zenon DEF UpdatePolicy
<1> QED  BY <1>1, <1>2, <1>3, Answers

(* The request is taken: nothing yet, unless its event needs no work. *)
LEMMA TakeRequestRefines ==
    ASSUME Inv, NEW c \in Clients, TakeRequest(c)
    PROVE  Service!Next \/ UNCHANGED Service!vars
<1> DEFINE r == [call[c] EXCEPT !.st = "waiting"]
<1>t. call \in [Clients -> Calls] /\ call[c] \in Calls
  BY TypeFacts DEF Inv
<1>1. /\ call[c].st = "sending" /\ worker.step = "idle" /\ supervised' = supervised
      /\ call' = [call EXCEPT ![c] = r]
      /\ worker'.client = c /\ worker'.ok = TRUE
      /\ worker'.step = IF call[c].kind = "Other" THEN "reply" ELSE "lookup"
  BY <1>t DEF TakeRequest, Worker
<1>2. Pending(r) = Pending(call[c]) /\ Done(r, TRUE) = Done(call[c], TRUE) /\ r.st = "waiting"
  BY <1>t, Zenon DEF Pending, Done, Calls
<1>3. call'[c] = r /\ \A d \in Clients \ {c} : call'[d] = call[d]
  BY <1>t, <1>1
<1> HIDE DEF r
<1>4. \A d \in Clients \ {c} : AbsReq(d)' = AbsReq(d)
  <2> TAKE d \in Clients \ {c}
  <2>1. ~ Applied(d) /\ ~ Applied(d)'
    BY <1>1 DEF Applied
  <2> QED  BY <1>3, <2>1 DEF AbsReq, NoCall, Call
<1>5. AbsReq(c) = Pending(call[c])
  BY <1>1 DEF AbsReq, Applied, Pending
<1>6. CASE call[c].kind # "Other"
  <2>1. AbsReq(c)' = Pending(r)
    BY <1>1, <1>2, <1>3, <1>6 DEF AbsReq, Applied, Pending
  <2>2. AbsReq(c)' = AbsReq(c)
    BY <1>2, <1>5, <2>1, Zenon
  <2> QED  BY <1>1, <1>4, <2>2, Stutters
<1>7. CASE call[c].kind = "Other"
  <2>1. AbsReq(c)' = Done(r, TRUE)
    BY <1>1, <1>2, <1>3, <1>7, Zenon DEF AbsReq, Applied, Done
  <2>2. AbsReq(c)' = Done(call[c], TRUE)
    BY <1>2, <2>1, Zenon
  <2>3. call[c].pu \in PUs /\ supervised \in [PUs -> Policies \cup {None}]
    BY <1>1 DEF Inv, CallsOK, TypeOK
  <2>4. Service!Effect(Pending(call[c]), supervised[call[c].pu], TRUE)
    BY <1>t, <1>7, DoneFacts, Zenon DEF Service!Effect
  <2>5. supervised' = [supervised EXCEPT ![call[c].pu] = supervised[call[c].pu]]
    BY <1>1, <2>3
  <2>6. supervised[call[c].pu] \in Policies \cup {None}
    BY <2>3
  <2>7. Service!Next
    BY <1>t, <1>4, <1>5, <2>2, <2>4, <2>5, <2>6, Applies, Zenon
  <2> QED  BY <2>7
<1> QED  BY <1>6, <1>7

(* A step of a handler that ends as it began, pending or done. *)
LEMMA QuietHandler ==
    ASSUME Inv, Busy, UNCHANGED <<call, supervised>>, worker'.client = worker.client,
           \/ worker.step \notin AppliedSteps /\ worker'.step \notin AppliedSteps
           \/ /\ worker.step \in AppliedSteps /\ worker'.step \in AppliedSteps
              /\ worker'.ok = worker.ok
    PROVE  UNCHANGED Service!vars
<1>1. AbsReq(worker.client)' = AbsReq(worker.client)
  BY HandlerView, Zenon
<1>2. \A d \in Clients \ {worker.client} : AbsReq(d)' = AbsReq(d)
  BY HandlerView, Zenon
<1>3. \A d \in Clients : AbsReq(d)' = AbsReq(d)
  BY <1>1, <1>2, Zenon
<1> QED  BY <1>3, Stutters

(* The step of a handler in which the request takes effect. *)
LEMMA EffectiveHandler ==
    ASSUME Inv, Busy, UNCHANGED call, worker'.client = worker.client, worker'.ok \in BOOLEAN,
           worker.step \notin AppliedSteps, worker'.step \in AppliedSteps,
           NEW f \in Policies \cup {None}, supervised' = [supervised EXCEPT ![PU] = f],
           Service!Effect(Pending(Req), f, worker'.ok)
    PROVE  Service!Next
<1>1. worker.client \in Clients /\ Req \in Calls
  BY BusyFacts, TypeFacts DEF Inv, Req
<1>2. /\ \A d \in Clients \ {worker.client} : AbsReq(d)' = AbsReq(d)
      /\ AbsReq(worker.client) = Pending(Req)
      /\ AbsReq(worker.client)' = Done(Req, worker'.ok)
  BY HandlerView, Zenon
<1>3. supervised' = [supervised EXCEPT ![Req.pu] = f]
  BY Zenon DEF PU
<1>4. ASSUME NEW c \in Clients, c = worker.client, NEW r \in Calls, r = Req,
             NEW ok \in BOOLEAN, ok = worker'.ok
      PROVE  Service!Next
  <2>1. /\ \A d \in Clients \ {c} : AbsReq(d)' = AbsReq(d)
        /\ AbsReq(c) = Pending(r) /\ AbsReq(c)' = Done(r, ok)
    BY <1>2, <1>4, Zenon
  <2>2. Service!Effect(Pending(r), f, ok) /\ supervised' = [supervised EXCEPT ![r.pu] = f]
    BY <1>3, <1>4, Zenon
  <2>3. /\ c \in Clients /\ r \in Calls /\ f \in Policies \cup {None} /\ ok \in BOOLEAN
    OBVIOUS
  <2> QED  BY ONLY <2>1, <2>2, <2>3, Applies, Zenon
<1> QED  BY <1>1, <1>4, ZenonT(30)

(* A step of a handler that ends the request without a change in force. *)
LEMMA EndingHandler ==
    ASSUME Inv, Busy, UNCHANGED <<call, supervised>>, worker'.client = worker.client,
           worker'.ok \in BOOLEAN, worker.step \notin AppliedSteps, worker'.step \in AppliedSteps,
           Service!Effect(Pending(Req), supervised[PU], worker'.ok)
    PROVE  Service!Next
<1>1. PU \in PUs /\ supervised \in [PUs -> Policies \cup {None}]
  BY BusyFacts, SMTT(30) DEF Inv, TypeOK
<1>2. supervised' = [supervised EXCEPT ![PU] = supervised[PU]]
  BY <1>1
<1>3. supervised[PU] \in Policies \cup {None}
  BY <1>1
<1> QED  BY <1>2, <1>3, EffectiveHandler, Zenon

LEMMA EffectFacts ==
    ASSUME Inv, Busy, NEW f, NEW ok \in BOOLEAN,
           \/ Req.kind = "Start" /\ ok = TRUE /\ f \in Policies \cup {supervised[PU]}
           \/ Req.kind = "Update" /\ ok = TRUE /\ f = Req.pol /\ f # AllowAll
           \/ Req.kind = "Update" /\ ok = TRUE /\ Req.pol = AllowAll /\ f = supervised[PU]
           \/ Req.kind \in {"Start", "Update"} /\ ok = FALSE /\ f \in {supervised[PU], None}
           \/ Req.kind = "Stop" /\ f = None /\ ok = (supervised[PU] # None)
    PROVE  Service!Effect(Pending(Req), f, ok)
<1>1. Req \in Calls
  BY BusyFacts, TypeFacts, SMTT(20) DEF Inv, Req
<1>2. Pending(Req).kind = Req.kind /\ Pending(Req).pu = PU /\ Pending(Req).pol = Req.pol
  BY <1>1, DoneFacts, Zenon DEF PU
<1> QED  BY <1>2, Zenon DEF Service!Effect

LEMMA LookupRefines ==
    ASSUME Inv, Lookup
    PROVE  Service!Next \/ UNCHANGED Service!vars
<1>u. UNCHANGED <<call, supervised>>
  BY DEF Lookup
<1>1. Busy /\ worker.step = "lookup" /\ worker \in Workers
  BY TypeFacts DEF Lookup, Busy, Inv
<1>2. Req.kind \in {"Start", "Stop", "Update"} /\ worker.pol = Req.pol /\ worker.ok = TRUE
  BY <1>1, BusyFacts, Zenon DEF Inv, WorkerOK, Events
<1>s. worker.step \notin AppliedSteps /\ "reply" \in AppliedSteps
  BY <1>1 DEF AppliedSteps
<1>3. CASE PU \notin runtime
  <2>1. worker'.client = worker.client /\ worker'.step = "reply" /\ worker'.ok = FALSE
    BY <1>1, <1>3, ErrorFacts, Zenon DEF Lookup
  <2>2. supervised[PU] = None
    BY <1>1, <1>3, BusyFacts DEF Inv, EnforcedHasRuntime
  <2>3. Service!Effect(Pending(Req), supervised[PU], FALSE)
    BY <1>1, <1>2, <2>2, EffectFacts, Zenon
  <2> QED  BY <1>1, <1>u, <1>s, <2>1, <2>3, EndingHandler, Zenon
<1>4. CASE PU \in runtime
  <2>1. Goto(AfterLookup)
    BY <1>4 DEF Lookup
  <2>2. \/ AfterLookup \in {"resolve", "unsupervise", "enforce"}
        \/ AfterLookup = "reply" /\ Req.kind = "Update" /\ worker.pol = AllowAll
    BY <1>2 DEF AfterLookup
  <2>3. AfterLookup \in Steps
    BY <2>2 DEF Steps
  <2>4. worker'.client = worker.client /\ worker'.step = AfterLookup /\ worker'.ok = TRUE
    BY <1>1, <1>2, <2>1, <2>3, GotoFacts
  <2>5. CASE AfterLookup \in {"resolve", "unsupervise", "enforce"}
    <3>1. worker'.step \notin AppliedSteps
      BY <2>4, <2>5 DEF AppliedSteps
    <3> QED  BY <1>1, <1>u, <1>s, <2>4, <3>1, QuietHandler
  <2>6. CASE AfterLookup = "reply" /\ Req.kind = "Update" /\ worker.pol = AllowAll
    <3>1. Service!Effect(Pending(Req), supervised[PU], TRUE)
      BY <1>1, <1>2, <2>6, EffectFacts, Zenon
    <3> QED  BY <1>1, <1>u, <1>s, <2>4, <2>6, <3>1, EndingHandler, Zenon
  <2> QED  BY <2>2, <2>5, <2>6
<1> QED  BY <1>3, <1>4

LEMMA ResolveRefines ==
    ASSUME Inv, Resolve
    PROVE  Service!Next \/ UNCHANGED Service!vars
<1>u. UNCHANGED <<call, supervised>> /\ worker.step = "resolve"
  BY Zenon DEF Resolve
<1>1. Busy /\ worker \in Workers /\ Req.kind = "Start" /\ worker.ok = TRUE
  BY <1>u, TypeFacts DEF Inv, Busy, WorkerOK
<1>s. worker.step \notin AppliedSteps /\ "reply" \in AppliedSteps /\ "enforce" \notin AppliedSteps
  BY <1>u DEF AppliedSteps
<1>2. CASE ReturnError
  <2>1. worker'.client = worker.client /\ worker'.step = "reply" /\ worker'.ok = FALSE
    BY <1>1, <1>2, ErrorFacts, Zenon
  <2>2. Service!Effect(Pending(Req), supervised[PU], FALSE)
    BY <1>1, EffectFacts, Zenon
  <2> QED  BY <1>1, <1>u, <1>s, <2>1, <2>2, EndingHandler, Zenon
<1>3. CASE worker' = [worker EXCEPT !.step = "reply", !.pol = AllowAll]
  <2>1. worker'.client = worker.client /\ worker'.step = "reply" /\ worker'.ok = TRUE
    BY <1>1, <1>3, PolicyFacts, Zenon DEF Steps
  <2>2. Service!Effect(Pending(Req), supervised[PU], TRUE)
    BY <1>1, EffectFacts, Zenon
  <2> QED  BY <1>1, <1>u, <1>s, <2>1, <2>2, EndingHandler, Zenon
<1>4. ASSUME NEW pol \in Policies, worker' = [worker EXCEPT !.step = "enforce", !.pol = pol]
      PROVE  UNCHANGED Service!vars
  <2>1. worker'.client = worker.client /\ worker'.step = "enforce"
    BY <1>1, <1>4, PolicyFacts, Zenon DEF Steps
  <2> QED  BY <1>1, <1>u, <1>s, <2>1, QuietHandler
<1> QED  BY <1>2, <1>3, <1>4, Zenon DEF Resolve

LEMMA EnforceRefines ==
    ASSUME Inv, Enforce
    PROVE  Service!Next \/ UNCHANGED Service!vars
<1>u. UNCHANGED <<call, supervised>> /\ worker.step = "enforce"
  BY Zenon DEF Enforce
<1>1. Busy /\ worker \in Workers /\ Req.kind \in {"Start", "Update"}
  BY <1>u, TypeFacts DEF Inv, Busy, WorkerOK
<1>s. worker.step \notin AppliedSteps /\ "reply" \in AppliedSteps /\ "supervise" \notin AppliedSteps
  BY <1>u DEF AppliedSteps
<1>2. CASE ReturnError
  <2>1. worker'.client = worker.client /\ worker'.step = "reply" /\ worker'.ok = FALSE
    BY <1>1, <1>2, ErrorFacts, Zenon
  <2>2. Service!Effect(Pending(Req), supervised[PU], FALSE)
    BY <1>1, EffectFacts, Zenon
  <2> QED  BY <1>1, <1>u, <1>s, <2>1, <2>2, EndingHandler, Zenon
<1>3. CASE Goto("supervise")
  <2>1. worker'.client = worker.client /\ worker'.step = "supervise"
    BY <1>1, <1>3, GotoFacts DEF Steps
  <2> QED  BY <1>1, <1>u, <1>s, <2>1, QuietHandler
<1> QED  BY <1>2, <1>3, Zenon DEF Enforce

LEMMA SuperviseRefines ==
    ASSUME Inv, Supervise
    PROVE  Service!Next
<1>u. UNCHANGED call /\ worker.step = "supervise"
  BY Zenon DEF Supervise
<1>1. /\ Busy /\ worker \in Workers /\ worker.pol \in Policies /\ worker.ok = TRUE
      /\ Req.kind = "Start" \/ (Req.kind = "Update" /\ worker.pol = Req.pol)
  BY <1>u, TypeFacts DEF Inv, Busy, WorkerOK
<1>s. worker.step \notin AppliedSteps /\ "reply" \in AppliedSteps /\ "rollback" \in AppliedSteps
  BY <1>u DEF AppliedSteps
<1>2. CASE /\ worker' = [worker EXCEPT !.step = "rollback", !.ok = FALSE]
           /\ supervised' = [supervised EXCEPT ![PU] = None]
  <2>1. worker'.client = worker.client /\ worker'.step = "rollback" /\ worker'.ok = FALSE
    BY <1>1, <1>2, OutcomeFacts, Zenon DEF Steps
  <2>2. Service!Effect(Pending(Req), None, FALSE)
    BY <1>1, EffectFacts, Zenon
  <2> QED  BY <1>1, <1>2, <1>u, <1>s, <2>1, <2>2, EffectiveHandler, Zenon
<1>3. CASE Goto("reply") /\ supervised' = [supervised EXCEPT ![PU] = worker.pol]
  <2>1. worker'.client = worker.client /\ worker'.step = "reply" /\ worker'.ok = TRUE
    BY <1>1, <1>3, GotoFacts DEF Steps
  <2>2. Service!Effect(Pending(Req), worker.pol, TRUE)
    BY <1>1, EffectFacts, DistinctAssumption, Zenon
  <2> QED  BY <1>1, <1>3, <1>u, <1>s, <2>1, <2>2, EffectiveHandler, Zenon
<1> QED  BY <1>2, <1>3, Zenon DEF Supervise

LEMMA UnsuperviseRefines ==
    ASSUME Inv, Unsupervise
    PROVE  Service!Next
<1>u. /\ UNCHANGED call /\ worker.step = "unsupervise"
      /\ supervised' = [supervised EXCEPT ![PU] = None]
      /\ worker' = [worker EXCEPT !.step = "unenforce", !.ok = (supervised[PU] # None)]
  BY Zenon DEF Unsupervise
<1>1. Busy /\ worker \in Workers /\ Req.kind = "Stop"
  BY <1>u, TypeFacts DEF Inv, Busy, WorkerOK
<1>s. /\ worker.step \notin AppliedSteps /\ "unenforce" \in AppliedSteps /\ "unenforce" \in Steps
  BY <1>u DEF AppliedSteps, Steps
<1>2. /\ worker'.client = worker.client /\ worker'.step = "unenforce"
      /\ worker'.ok = (supervised[PU] # None)
  BY <1>1, <1>u, <1>s, OutcomeFacts, Zenon
<1>3. worker'.ok \in BOOLEAN
  BY <1>2, Zenon
<1>4. Service!Effect(Pending(Req), None, worker'.ok)
  BY <1>1, <1>2, <1>3, EffectFacts, Zenon
<1> QED  BY <1>1, <1>2, <1>3, <1>4, <1>u, <1>s, EffectiveHandler, Zenon

(* The steps after the one in which the request took effect. *)
LEMMA AfterRefines ==
    ASSUME Inv, Rollback \/ Unenforce \/ Remove
    PROVE  UNCHANGED Service!vars
<1>u. UNCHANGED <<call, supervised>> /\ worker.step \in {"rollback", "unenforce", "remove"}
  BY DEF Rollback, Unenforce, Remove
<1>1. Busy /\ worker \in Workers
  BY <1>u, TypeFacts DEF Inv, Busy
<1>s. /\ worker.step \in AppliedSteps /\ "reply" \in AppliedSteps /\ "remove" \in AppliedSteps
      /\ "reply" \in Steps /\ "remove" \in Steps
  BY <1>u DEF AppliedSteps, Steps
<1>2. CASE Rollback \/ Remove
  <2>1. Goto("reply")
    BY <1>2 DEF Rollback, Remove
  <2>2. worker'.client = worker.client /\ worker'.step = "reply" /\ worker'.ok = worker.ok
    BY <1>1, <1>s, <2>1, GotoFacts
  <2> QED  BY <1>1, <1>u, <1>s, <2>2, QuietHandler
<1>3. CASE Unenforce
  <2>1. worker.ok = (enforced[PU] # None)
    BY <1>3 DEF Unenforce, Inv, TablesOK
  <2>2. (worker.ok /\ enforced[PU] # None) = worker.ok
    BY <2>1, Zenon
  <2>3. worker' = [worker EXCEPT !.step = "remove", !.ok = (worker.ok /\ enforced[PU] # None)]
    BY <1>3, Zenon DEF Unenforce
  <2>4. worker' = [worker EXCEPT !.step = "remove", !.ok = worker.ok] /\ worker.ok \in BOOLEAN
    BY <2>1, <2>2, <2>3, Zenon
  <2>5. worker'.client = worker.client /\ worker'.step = "remove" /\ worker'.ok = worker.ok
    BY <1>1, <1>s, <2>4, OutcomeFacts, Zenon
  <2> QED  BY <1>1, <1>u, <1>s, <2>5, QuietHandler, Zenon
<1> QED  BY <1>2, <1>3

(* The answer was decided when the request took effect. *)
LEMMA ReplyRefines ==
    ASSUME Inv, Reply
    PROVE  UNCHANGED Service!vars
<1>u. supervised' = supervised /\ worker.step = "reply" /\ worker' = IdleWorker
  BY Zenon DEF Reply
<1>1. Busy /\ worker \in Workers /\ call \in [Clients -> Calls]
  BY <1>u, TypeFacts DEF Inv, Busy
<1>p. PICK c \in Clients : c = worker.client
  BY <1>1, BusyFacts
<1> DEFINE r == [call[c] EXCEPT !.st = "answered", !.ok = worker.ok]
<1>2. call[c] \in Calls /\ call[c].st = "waiting" /\ worker.ok \in BOOLEAN
  BY <1>1, <1>p DEF Inv, WorkerOK, Req, Workers
<1>3. /\ r.st = "answered" /\ [r EXCEPT !.st = "done"] = Done(call[c], worker.ok)
  BY <1>2, Zenon DEF Calls, Done
<1>4. call' = [call EXCEPT ![c] = r]
  BY <1>1, <1>2, <1>p, Zenon DEF Reply, Calls
<1> HIDE DEF r
<1>5. call'[c] = r /\ \A d \in Clients \ {c} : call'[d] = call[d]
  BY <1>1, <1>2, <1>4
<1>6. \A d \in Clients : ~ Applied(d)'
  BY <1>u DEF Applied, IdleWorker, Worker
<1>7. AbsReq(c) = Done(call[c], worker.ok)
  BY <1>2, <1>p, <1>u DEF AbsReq, Applied, Done
<1>8. AbsReq(c)' = [r EXCEPT !.st = "done"]
  BY <1>3, <1>5, <1>6 DEF AbsReq
<1>9. \A d \in Clients \ {c} : AbsReq(d)' = AbsReq(d)
  <2> TAKE d \in Clients \ {c}
  <2>1. ~ Applied(d) /\ ~ Applied(d)'
    BY <1>6, <1>p DEF Applied
  <2> QED  BY <1>5, <2>1 DEF AbsReq, NoCall, Call
<1>10. \A d \in Clients : AbsReq(d)' = AbsReq(d)
  BY <1>3, <1>7, <1>8, <1>9, Zenon
<1> QED  BY <1>10, <1>u, Stutters

LEMMA LifeRefines ==
    ASSUME Inv, Start \/ Stop \/ TakeStop
    PROVE  UNCHANGED Service!vars
<1>1. UNCHANGED <<call, supervised>>
  BY Zenon DEF Start, Stop, TakeStop
<1>2. \/ worker' = worker
      \/ worker.step \in {"off", "idle"} /\ worker'.step \in {"idle", "gone"}
  <2>1. IdleWorker.step = "idle" /\ Worker("gone", None, None, TRUE).step = "gone"
    BY DEF IdleWorker, Worker
  <2> QED  BY <2>1, Zenon DEF Start, Stop, TakeStop
<1>3. \A d \in Clients : AbsReq(d)' = AbsReq(d)
  BY <1>1, <1>2 DEF AbsReq, Applied, NoCall, Call
<1> QED  BY <1>1, <1>3, Stutters

LEMMA InitRefines == Init => Service!Init
<1> SUFFICES ASSUME Init PROVE Service!Init
  OBVIOUS
<1>0. worker.step = "off"
  BY DEF Init, Worker
<1>1. \A c \in Clients : AbsReq(c) = NoCall
  <2> TAKE c \in Clients
  <2>1. call[c].st = "idle" /\ ~ Applied(c)
    BY <1>0, NoCallFacts, Zenon DEF Init, Applied
  <2> QED  BY <2>1 DEF AbsReq
<1>2. \A c \in Clients : AbsReq(c) = Service!NoRequest
  BY <1>1, NoCallFacts, Zenon
<1> QED  BY <1>2 DEF Init, Service!Init

LEMMA StepRefines == Inv /\ [Next]_vars => [Service!Next]_(Service!vars)
<1> SUFFICES ASSUME Inv, [Next]_vars PROVE Service!Next \/ UNCHANGED Service!vars
  OBVIOUS
<1>1. ASSUME NEW c \in Clients, TakeRequest(c)
      PROVE  Service!Next \/ UNCHANGED Service!vars
  BY <1>1, TakeRequestRefines
<1>2. CASE Handle
  BY <1>2, LookupRefines, ResolveRefines, EnforceRefines, SuperviseRefines, UnsuperviseRefines,
     AfterRefines, ReplyRefines, Zenon DEF Handle
<1>3. CASE UNCHANGED vars
  <2>1. UNCHANGED <<call, worker, supervised>>
    BY <1>3, Zenon DEF vars
  <2>2. \A d \in Clients : AbsReq(d)' = AbsReq(d)
    BY <2>1 DEF AbsReq, Applied, NoCall, Call
  <2> QED  BY <2>1, <2>2, Stutters
<1> QED  BY <1>1, <1>2, <1>3, ClientRefines, LifeRefines, Zenon DEF Next

(* The controller implements PUService: whatever the resolver, the enforcer and
   the supervisor answer, and however the clients' requests interleave, each
   request is applied in one step, to its own PU only, and its answer tells
   what happened to the policy in force (handleRequest and the handlers of
   trireme.go). *)
THEOREM ControllerImplementsService == Spec => ServiceSpec
BY InitRefines, StepRefines, Invariant, PTL DEF Spec, ServiceSpec, Service!Spec
==============================================================================
