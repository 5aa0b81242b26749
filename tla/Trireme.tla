------------------------------- MODULE Trireme -------------------------------
(* The controller (trireme.go).  Monitors and the policy engine send requests
   over an unbuffered channel to one worker goroutine, which calls the policy
   resolver, the enforcer and the supervisor, and answers over a channel of the
   request.  SetPURuntime runs in the caller, next to the worker.

   Every call the worker makes to another component is a step, and may fail
   where the code handles a failure.  The enforcer and the supervisor are
   modelled by what their local implementations do: a failing Enforce leaves
   the enforcer as it was; a failing Supervise has removed the PU from the
   supervisor (supervisor.go, doCreatePU and doUpdatePU).

   A client is one goroutine of a monitor, or of the policy engine, that waits
   for the answer of its request before it sends another.                     *)
EXTENDS Naturals

CONSTANTS
    PUs,         \* context IDs
    Monitors,    \* clients that send events
    Engines,     \* clients that send policy updates
    Policies,    \* policies to enforce
    Updates,     \* what updates carry: policies, or AllowAll
    CanStop,     \* Stop may be called
    AllowAll, None

ASSUME StopAssumption == CanStop \in BOOLEAN
ASSUME UpdatesAssumption == Updates \subseteq Policies \cup {AllowAll}
ASSUME DistinctAssumption ==
    /\ AllowAll # None /\ {AllowAll, None} \cap Policies = {}
    /\ None \notin PUs \cup Monitors \cup Engines
    /\ Monitors \cap Engines = {}

Clients == Monitors \cup Engines
Events == {"Start", "Stop", "Other"}

VARIABLES
    runtime,     \* the PUs with a runtime in the cache
    enforced,    \* the policy each PU has in the enforcer
    supervised,  \* the policy each PU has in the supervisor
    call,        \* the request of each client
    worker,      \* the worker goroutine
    stopping     \* Stop: "no", "called", "done"

vars == <<runtime, enforced, supervised, call, worker, stopping>>

Call(st, kind, p, pol, ok) == [st |-> st, kind |-> kind, pu |-> p, pol |-> pol, ok |-> ok]
NoCall == Call("idle", None, None, None, TRUE)
(* The worker: the next step of its handler, for which client, with the policy
   that was resolved, and whether no error has been met so far. *)
Worker(step, c, pol, ok) == [step |-> step, client |-> c, pol |-> pol, ok |-> ok]
IdleWorker == Worker("idle", None, None, TRUE)

Steps == {"off", "idle", "gone", "lookup", "resolve", "enforce", "supervise", "rollback",
          "unsupervise", "unenforce", "remove", "reply"}

TypeOK ==
    /\ runtime \subseteq PUs
    /\ enforced \in [PUs -> Policies \cup {None}]
    /\ supervised \in [PUs -> Policies \cup {None}]
    /\ call \in [Clients -> [st : {"idle", "sending", "waiting", "answered"},
                             kind : Events \cup {"Update", None}, pu : PUs \cup {None},
                             pol : Updates \cup {None}, ok : BOOLEAN]]
    /\ worker \in [step : Steps, client : Clients \cup {None},
                   pol : Policies \cup {AllowAll, None}, ok : BOOLEAN]
    /\ stopping \in {"no", "called", "done"}

Init ==
    /\ runtime = {}
    /\ enforced = [p \in PUs |-> None]
    /\ supervised = [p \in PUs |-> None]
    /\ call = [c \in Clients |-> NoCall]
    /\ worker = Worker("off", None, None, TRUE)
    /\ stopping = "no"

(* Start: the worker runs once the enforcers have started.  Start of both kinds of
   enforcer returns nil, so the error return is not taken. *)
Start ==
    /\ worker.step = "off"
    /\ worker' = IdleWorker
    /\ UNCHANGED <<runtime, enforced, supervised, call, stopping>>

-----------------------------------------------------------------------------
(* Clients *)

(* SetPURuntime and HandlePUEvent(EventStart), as monitors call them. *)
SendStart(m, p) ==
    /\ call[m].st = "idle"
    /\ runtime' = runtime \cup {p}
    /\ call' = [call EXCEPT ![m] = Call("sending", "Start", p, None, TRUE)]
    /\ UNCHANGED <<enforced, supervised, worker, stopping>>

(* HandlePUEvent with another event. *)
SendEvent(m, p, e) ==
    /\ call[m].st = "idle"
    /\ call' = [call EXCEPT ![m] = Call("sending", e, p, None, TRUE)]
    /\ UNCHANGED <<runtime, enforced, supervised, worker, stopping>>

UpdatePolicy(c, p, pol) ==
    /\ call[c].st = "idle"
    /\ call' = [call EXCEPT ![c] = Call("sending", "Update", p, pol, TRUE)]
    /\ UNCHANGED <<runtime, enforced, supervised, worker, stopping>>

(* The client reads the answer. *)
Receive(c) ==
    /\ call[c].st = "answered"
    /\ call' = [call EXCEPT ![c] = NoCall]
    /\ UNCHANGED <<runtime, enforced, supervised, worker, stopping>>

-----------------------------------------------------------------------------
(* The worker: run, handleRequest and the handlers *)

(* handleRequest: the handler of a request; other events have nothing to do. *)
TakeRequest(c) ==
    /\ worker.step = "idle"
    /\ call[c].st = "sending"
    /\ call' = [call EXCEPT ![c].st = "waiting"]
    /\ worker' = Worker(IF call[c].kind = "Other" THEN "reply" ELSE "lookup", c, call[c].pol, TRUE)
    /\ UNCHANGED <<runtime, enforced, supervised, stopping>>

Req == call[worker.client]
PU == Req.pu
Goto(step) == worker' = [worker EXCEPT !.step = step]
ReturnError == worker' = [worker EXCEPT !.step = "reply", !.ok = FALSE]

(* What follows the lookup; an update to AllowAll is not policed and ends. *)
AfterLookup ==
    CASE Req.kind = "Start" -> "resolve"
      [] Req.kind = "Stop"  -> "unsupervise"
      [] Req.kind = "Update" -> IF worker.pol = AllowAll THEN "reply" ELSE "enforce"

(* Bug: the request of an unknown PU is dropped without an answer. *)
LookupDrops ==
    /\ worker.step = "lookup"
    /\ IF PU \notin runtime THEN worker' = IdleWorker ELSE Goto(AfterLookup)
    /\ UNCHANGED <<runtime, enforced, supervised, call, stopping>>

(* The cache lookup that doHandleCreate, doHandleDelete and doUpdatePolicy
   start with. *)
Lookup ==
    /\ worker.step = "lookup"
    /\ IF PU \notin runtime THEN ReturnError ELSE Goto(AfterLookup)
    /\ UNCHANGED <<runtime, enforced, supervised, call, stopping>>

(* ResolvePolicy: an error or a nil policy fails, AllowAll is not policed. *)
Resolve ==
    /\ worker.step = "resolve"
    /\ \/ ReturnError
       \/ worker' = [worker EXCEPT !.step = "reply", !.pol = AllowAll]
       \/ \E pol \in Policies : worker' = [worker EXCEPT !.step = "enforce", !.pol = pol]
    /\ UNCHANGED <<runtime, enforced, supervised, call, stopping>>

(* Bug: the runtime of a PU that cannot be enforced is dropped. *)
EnforceForgetsRuntime ==
    /\ worker.step = "enforce"
    /\ \/ ReturnError /\ UNCHANGED enforced /\ runtime' = runtime \ {PU}
       \/ /\ Goto("supervise")
          /\ enforced' = [enforced EXCEPT ![PU] = worker.pol]
          /\ UNCHANGED runtime
    /\ UNCHANGED <<supervised, call, stopping>>

Enforce ==
    /\ worker.step = "enforce"
    /\ \/ ReturnError /\ UNCHANGED enforced
       \/ Goto("supervise") /\ enforced' = [enforced EXCEPT ![PU] = worker.pol]
    /\ UNCHANGED <<runtime, supervised, call, stopping>>

(* Bug: a failing Supervise does not undo Enforce. *)
SuperviseKeepsEnforced ==
    /\ worker.step = "supervise"
    /\ \/ ReturnError /\ supervised' = [supervised EXCEPT ![PU] = None]
       \/ Goto("reply") /\ supervised' = [supervised EXCEPT ![PU] = worker.pol]
    /\ UNCHANGED <<runtime, enforced, call, stopping>>

(* Bug: the error of Supervise is only logged. *)
SuperviseHidesError ==
    /\ worker.step = "supervise"
    /\ \/ Goto("rollback") /\ supervised' = [supervised EXCEPT ![PU] = None]
       \/ Goto("reply") /\ supervised' = [supervised EXCEPT ![PU] = worker.pol]
    /\ UNCHANGED <<runtime, enforced, call, stopping>>

Supervise ==
    /\ worker.step = "supervise"
    /\ \/ /\ worker' = [worker EXCEPT !.step = "rollback", !.ok = FALSE]
          /\ supervised' = [supervised EXCEPT ![PU] = None]
       \/ Goto("reply") /\ supervised' = [supervised EXCEPT ![PU] = worker.pol]
    /\ UNCHANGED <<runtime, enforced, call, stopping>>

(* Unenforce after a failing Supervise. *)
Rollback ==
    /\ worker.step = "rollback"
    /\ Goto("reply")
    /\ enforced' = [enforced EXCEPT ![PU] = None]
    /\ UNCHANGED <<runtime, supervised, call, stopping>>

(* doHandleDelete.  An unknown PU is an error, of the supervisor and of the
   enforcer, and the rest of the cleanup goes on. *)
Unsupervise ==
    /\ worker.step = "unsupervise"
    /\ worker' = [worker EXCEPT !.step = "unenforce", !.ok = supervised[PU] # None]
    /\ supervised' = [supervised EXCEPT ![PU] = None]
    /\ UNCHANGED <<runtime, enforced, call, stopping>>

Unenforce ==
    /\ worker.step = "unenforce"
    /\ worker' = [worker EXCEPT !.step = "remove", !.ok = worker.ok /\ enforced[PU] # None]
    /\ enforced' = [enforced EXCEPT ![PU] = None]
    /\ UNCHANGED <<runtime, supervised, call, stopping>>

Remove ==
    /\ worker.step = "remove"
    /\ Goto("reply")
    /\ runtime' = runtime \ {PU}
    /\ UNCHANGED <<enforced, supervised, call, stopping>>

(* Bug: the worker ends with the first request that fails. *)
ReplyExits ==
    /\ worker.step = "reply"
    /\ call' = [call EXCEPT ![worker.client].st = "answered", ![worker.client].ok = worker.ok]
    /\ worker' = IF worker.ok THEN IdleWorker ELSE Worker("gone", None, None, TRUE)
    /\ UNCHANGED <<runtime, enforced, supervised, stopping>>

(* The answer; returnChan has room for it. *)
Reply ==
    /\ worker.step = "reply"
    /\ call' = [call EXCEPT ![worker.client].st = "answered", ![worker.client].ok = worker.ok]
    /\ worker' = IdleWorker
    /\ UNCHANGED <<runtime, enforced, supervised, stopping>>

-----------------------------------------------------------------------------
(* Stop: the supervisors and the enforcers are stopped, then the worker is
   told, which it sees only between two requests. *)
Stop ==
    /\ CanStop /\ stopping = "no"
    /\ stopping' = "called"
    /\ UNCHANGED <<runtime, enforced, supervised, call, worker>>

TakeStop ==
    /\ stopping = "called" /\ worker.step = "idle"
    /\ stopping' = "done"
    /\ worker' = Worker("gone", None, None, TRUE)
    /\ UNCHANGED <<runtime, enforced, supervised, call>>

Handle ==
    \/ Lookup \/ Resolve \/ Enforce \/ Supervise \/ Rollback
    \/ Unsupervise \/ Unenforce \/ Remove \/ Reply

Next ==
    \/ \E m \in Monitors, p \in PUs : SendStart(m, p)
    \/ \E m \in Monitors, p \in PUs, e \in {"Stop", "Other"} : SendEvent(m, p, e)
    \/ \E c \in Engines, p \in PUs, pol \in Updates : UpdatePolicy(c, p, pol)
    \/ \E c \in Clients : Receive(c) \/ TakeRequest(c)
    \/ Handle
    \/ Start \/ Stop \/ TakeStop

Spec == Init /\ [][Next]_vars

(* The goroutines are scheduled.  Senders that wait on the channel are served
   in their order, and select does not pass over a channel forever. *)
Fairness ==
    /\ WF_vars(Start) /\ WF_vars(Handle) /\ SF_vars(TakeStop)
    /\ \A c \in Clients : SF_vars(TakeRequest(c)) /\ WF_vars(Receive(c))

FairSpec == Spec /\ Fairness

-----------------------------------------------------------------------------
(* Properties *)

Between == worker.step \in {"off", "idle", "gone"}

(* Between two requests the enforcer and the supervisor agree on every PU:
   they hold the same policy for it, or neither knows it.  A Supervise that
   fails after Enforce is rolled back, and Enforce that fails leaves both
   policies of an update as they were. *)
Paired == Between => enforced = supervised

(* A PU that is enforced or supervised has its runtime in the cache, so a stop
   event for it is not taken for an unknown PU and does clean up. *)
EnforcedHasRuntime ==
    \A p \in PUs : enforced[p] # None \/ supervised[p] # None => p \in runtime

(* Every request is answered unless the controller is stopped, although all
   clients share one worker, and one that the worker has taken is answered even
   if Stop is called. *)
Answered == \A c \in Clients :
    /\ call[c].st = "sending" ~> call[c].st = "answered" \/ stopping # "no"
    /\ call[c].st = "waiting" ~> call[c].st = "answered"

(* Stop returns: the worker takes the signal whatever requests keep coming. *)
StopReturns == stopping = "called" ~> stopping = "done"

-----------------------------------------------------------------------------
(* A request is applied when the supervisor's table has changed, or the
   handler has returned an error before that. *)
Applied(c) == worker.client = c /\ worker.step \in {"reply", "rollback", "unenforce", "remove"}

(* What the abstract service sees of a client's call. *)
AbsReq(c) ==
    CASE call[c].st = "idle"     -> NoCall
      [] call[c].st = "answered" -> [call[c] EXCEPT !.st = "done"]
      [] Applied(c)              -> [call[c] EXCEPT !.st = "done", !.ok = worker.ok]
      [] OTHER                   -> [call[c] EXCEPT !.st = "pending"]

Service == INSTANCE PUService WITH force <- supervised, req <- [c \in Clients |-> AbsReq(c)]

(* The controller implements the abstract service: each request is applied in
   one step, to its own PU only, and its answer tells what happened to the
   policy in force. *)
ServiceSpec == Service!Spec
=============================================================================
