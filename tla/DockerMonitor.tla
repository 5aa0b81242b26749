---------------------------- MODULE DockerMonitor ----------------------------
(* Docker containers as processing units (PUs): monitor/dockermonitor.

   Start launches the listener, which subscribes to the events of the Docker
   daemon and passes them to a bounded channel; visits the containers there
   are, in the goroutine of its caller; and then launches the processor, which
   handles the events of the channel one by one.  The visits and the processor
   never overlap, so one variable, handler, holds the container being handled.
   The handler asks the controller and waits for its answer; the controller is
   module PUService with the monitor as its only client.

   The daemon and its containers are external: they change at any time, between
   any two steps of the monitor.  A container that runs again has a new process
   and address, so what ContainerInspect tells is of one of its runs.          *)
EXTENDS Naturals, Sequences, Functions

CONSTANTS
    Containers,
    Policies,
    AllowAll,
    SyncAtStart,    \* syncAtStart
    QueueSize,      \* capacity of eventnotifications
    MaxChanges,     \* changes of the containers that are not the monitor's (a bound)
    Faults,         \* the failures that may happen, a subset of AllFaults
    MaxFaults,      \* how many of them (a bound)
    None

AllFaults == {"list", "inspect", "extract", "kill", "stream"}

ASSUME FaultAssumption == Faults \subseteq AllFaults
ASSUME BoundAssumption == QueueSize \in Nat \ {0} /\ {MaxChanges, MaxFaults} \subseteq Nat
ASSUME SyncAssumption == SyncAtStart \in BOOLEAN

VARIABLES
    state,          \* the containers of the daemon
    run,            \* which run of each container is or was the last
    subscription,   \* the listener's event stream: none, open, broken
    stream,         \* the events on it
    listener,       \* new, idle (in its select), passing or stopped
    message,        \* the event it is passing on: <<>> or one event
    notifications,  \* eventnotifications
    phase,          \* the caller of Start and Stop: see Phases
    todo,           \* the containers the synchronization has still to visit
    handler,        \* the container being handled and the next step, or None
    runtime,        \* SetPURuntime: the run whose runtime the controller has
    force, req,     \* module PUService
    missed,         \* history: containers the monitor was not told of, or failed on
    changes, faults

daemon == <<state, run, changes>>
queues == <<subscription, stream, listener, message, notifications>>
controller == <<runtime, force, req>>
vars == <<daemon, queues, phase, todo, handler, controller, missed, faults>>

Me == "docker"
PU == INSTANCE PUService WITH PUs <- Containers, Clients <- {Me}

Runs == 0 .. MaxChanges + 1
Phases == {"new", "list", "sync", "started", "stoplistener", "stopprocessor", "stopped"}
Events == [kind : {"start", "die", "other"}, id : Containers]
Event(k, c) == [kind |-> k, id |-> c]
Handlers == [at : {"handle", "submit", "wait", "kill"}, ev : Events, run : Nat]

ASSUME NoneAssumption == None \notin Handlers

TypeOK ==
    /\ state \in [Containers -> {"none", "created", "running", "paused", "exited", "removed"}]
    /\ run \in [Containers -> Runs]
    /\ subscription \in {"none", "open", "broken"}
    /\ stream \in Seq(Events)
    /\ listener \in {"new", "idle", "passing", "stopped"}
    /\ message \in Seq(Events) /\ Len(message) = IF listener = "passing" THEN 1 ELSE 0
    /\ notifications \in Seq(Events) /\ Len(notifications) <= QueueSize
    /\ phase \in Phases
    /\ todo \subseteq Containers
    /\ handler \in Handlers \cup {None} /\ (handler # None => handler.run \in Runs)
    /\ runtime \in [Containers -> Runs]
    /\ force \in [Containers -> Policies \cup {None}]
    /\ missed \subseteq Containers
    /\ changes \in 0 .. MaxChanges /\ faults \in 0 .. MaxFaults

Running(c) == state[c] \in {"running", "paused"}     \* State.Running

Init ==
    /\ state \in [Containers -> {"none", "running", "exited"}]
    /\ run = [c \in Containers |-> IF state[c] = "none" THEN 0 ELSE 1]
    /\ subscription = "none" /\ stream = <<>>
    /\ listener = "new" /\ message = <<>> /\ notifications = <<>>
    /\ phase = "new"
    /\ todo = IF SyncAtStart THEN Containers ELSE {}
    /\ handler = None
    /\ runtime = [c \in Containers |-> 0]
    /\ PU!Init
    /\ missed = IF SyncAtStart THEN {} ELSE {c \in Containers : Running(c)}
    /\ changes = 0 /\ faults = 0

Fault(f) == f \in Faults /\ faults < MaxFaults /\ faults' = faults + 1

-----------------------------------------------------------------------------
(* The daemon (external) *)

(* An event is only seen by a subscription that is open.  Before the container
   is visited the monitor does not need it. *)
Emit(k, c) ==
    IF subscription = "open"
    THEN /\ stream' = Append(stream, Event(k, c))
         /\ missed' = IF k = "other" THEN missed ELSE missed \ {c}
    ELSE /\ UNCHANGED stream
         /\ missed' = IF k = "other" \/ (c \in todo /\ subscription = "none")
                      THEN missed ELSE missed \cup {c}

Becomes(c, s, k) ==
    /\ changes < MaxChanges /\ changes' = changes + 1
    /\ state' = [state EXCEPT ![c] = s]
    /\ Emit(k, c)
    /\ UNCHANGED <<subscription, listener, message, notifications, phase, todo, handler, controller,
                   faults>>

Create(c) == state[c] = "none" /\ Becomes(c, "created", "other") /\ UNCHANGED run

Run(c) ==
    /\ state[c] \in {"created", "exited"}
    /\ run' = [run EXCEPT ![c] = @ + 1]
    /\ Becomes(c, "running", "start")

Die(c) == Running(c) /\ Becomes(c, "exited", "die") /\ UNCHANGED run

Pause(c) == state[c] = "running" /\ Becomes(c, "paused", "other") /\ UNCHANGED run

Unpause(c) == state[c] = "paused" /\ Becomes(c, "running", "other") /\ UNCHANGED run

Destroy(c) ==
    /\ state[c] \in {"created", "exited"}
    /\ Becomes(c, "removed", "other") /\ UNCHANGED run

(* The connection to the daemon ends.  The client library sends the error and
   closes errs; nobody subscribes again. *)
StreamFails ==
    /\ subscription = "open" /\ Fault("stream")
    /\ subscription' = "broken" /\ stream' = <<>>
    /\ missed' = missed \cup {e.id : e \in Range(stream)}
    /\ UNCHANGED <<daemon, listener, message, notifications, phase, todo, handler, controller>>

-----------------------------------------------------------------------------
(* eventListener *)

(* Its goroutine runs: Events subscribes. *)
Subscribe ==
    /\ listener = "new" /\ phase # "new"
    /\ listener' = "idle" /\ subscription' = "open"
    /\ UNCHANGED <<daemon, stream, message, notifications, phase, todo, handler, controller, missed,
                   faults>>

Receive ==
    /\ listener = "idle" /\ stream # <<>>
    /\ listener' = "passing" /\ message' = <<Head(stream)>> /\ stream' = Tail(stream)
    /\ UNCHANGED <<daemon, subscription, notifications, phase, todo, handler, controller, missed,
                   faults>>

(* d.eventnotifications <- &message blocks while the channel is full. *)
Notify ==
    /\ listener = "passing" /\ Len(notifications) < QueueSize
    /\ notifications' = notifications \o message
    /\ listener' = "idle" /\ message' = <<>>
    /\ UNCHANGED <<daemon, subscription, stream, phase, todo, handler, controller, missed, faults>>

-----------------------------------------------------------------------------
(* Start, with syncContainers *)

Start ==
    /\ phase = "new"
    /\ phase' = IF SyncAtStart THEN "list" ELSE "started"
    /\ UNCHANGED <<daemon, queues, todo, handler, controller, missed, faults>>

(* ContainerList, with All: the containers that have exited too.  When it fails
   Start goes on without the synchronization. *)
List ==
    /\ phase = "list"
    /\ phase' = "sync"
    /\ \/ /\ todo' = {c \in Containers : state[c] \notin {"none", "removed"}}
          /\ UNCHANGED <<missed, faults>>
       \/ /\ Fault("list")
          /\ todo' = {} /\ missed' = missed \cup {c \in Containers : Running(c)}
    /\ UNCHANGED <<daemon, queues, handler, controller>>

Submission(c) == [at |-> "submit", ev |-> Event("start", c), run |-> run[c]]

(* A slip in startDockerContainer: State.Running is not looked at. *)
StartContainerAlways(c) == handler' = Submission(c) /\ UNCHANGED <<missed, faults>>

(* startDockerContainer up to HandlePUEvent, with what has just been inspected.
   When extractMetadata fails (the external command of cliextractor) the container
   is neither policed nor killed; both callers only report the error. *)
StartContainer(c) ==
    \/ ~ Running(c) /\ handler' = None /\ UNCHANGED <<missed, faults>>
    \/ Running(c) /\ handler' = Submission(c) /\ UNCHANGED <<missed, faults>>
    \/ Running(c) /\ Fault("extract") /\ handler' = None /\ missed' = missed \cup {c}

(* A container that cannot be inspected is left as it is. *)
Visit(c) ==
    /\ phase = "sync" /\ handler = None /\ c \in todo
    /\ todo' = todo \ {c}
    /\ \/ state[c] # "removed" /\ StartContainer(c)
       \/ state[c] = "removed" /\ UNCHANGED <<handler, missed, faults>>
       \/ Fault("inspect") /\ missed' = missed \cup {c} /\ UNCHANGED handler
    /\ UNCHANGED <<daemon, queues, phase, controller>>

Started ==
    /\ phase = "sync" /\ handler = None /\ todo = {}
    /\ phase' = "started"
    /\ UNCHANGED <<daemon, queues, todo, handler, controller, missed, faults>>

-----------------------------------------------------------------------------
(* eventProcessor and the handlers *)

Processing == phase \in {"started", "stoplistener", "stopprocessor"} /\ handler = None

(* A slip in eventProcessor: events are no longer taken when Stop is called. *)
ProcessUntilStop ==
    /\ Processing /\ phase = "started" /\ notifications # <<>>
    /\ notifications' = Tail(notifications)
    /\ handler' = LET e == Head(notifications)
                  IN [at |-> IF e.kind = "start" THEN "handle" ELSE "submit", ev |-> e, run |-> 0]
    /\ UNCHANGED <<daemon, subscription, stream, listener, message, phase, todo, controller, missed,
                   faults>>

Process ==
    /\ Processing /\ notifications # <<>>
    /\ notifications' = Tail(notifications)
    /\ handler' = LET e == Head(notifications)
                  IN [at |-> IF e.kind = "start" THEN "handle" ELSE "submit", ev |-> e, run |-> 0]
    /\ UNCHANGED <<daemon, subscription, stream, listener, message, phase, todo, controller, missed,
                   faults>>

(* A slip in handleStartEvent: after an error the container is left alone. *)
HandleStartNoKill ==
    /\ handler # None /\ handler.at = "handle"
    /\ LET c == handler.ev.id
       IN \/ state[c] # "removed" /\ StartContainer(c)
          \/ state[c] = "removed" /\ handler' = None /\ UNCHANGED <<missed, faults>>
          \/ Fault("inspect") /\ handler' = None /\ UNCHANGED missed
    /\ UNCHANGED <<daemon, queues, phase, todo, controller>>

(* handleStartEvent: a container that cannot be inspected is killed. *)
HandleStart ==
    /\ handler # None /\ handler.at = "handle"
    /\ LET c == handler.ev.id
           kill == handler' = [handler EXCEPT !.at = "kill"] /\ UNCHANGED missed
       IN \/ state[c] # "removed" /\ StartContainer(c)
          \/ state[c] = "removed" /\ kill /\ UNCHANGED faults
          \/ Fault("inspect") /\ kill
    /\ UNCHANGED <<daemon, queues, phase, todo, controller>>

RequestOf(e) ==
    PU!Request("pending", CASE e.kind = "start" -> "Start" [] e.kind = "die" -> "Stop"
                            [] OTHER -> "Other", e.id, None, TRUE)

(* HandlePUEvent, for a start event after SetPURuntime. *)
Submit ==
    /\ handler # None /\ handler.at = "submit"
    /\ runtime' = IF handler.ev.kind = "start"
                  THEN [runtime EXCEPT ![handler.ev.id] = handler.run] ELSE runtime
    /\ req' = [req EXCEPT ![Me] = RequestOf(handler.ev)]
    /\ handler' = [handler EXCEPT !.at = "wait"]
    /\ UNCHANGED <<daemon, queues, phase, todo, force, missed, faults>>

(* The controller (no PU has an AllowAll policy here). *)
Controller ==
    /\ PU!Apply(Me)
    /\ req[Me].kind = "Start" /\ req'[Me].ok => force'[req[Me].pu] # None
    /\ UNCHANGED <<daemon, queues, phase, todo, handler, runtime, missed, faults>>

(* A slip in startDockerContainer: the answer of the controller is ignored. *)
AnswerIgnored ==
    /\ PU!Answer(Me)
    /\ handler' = None
    /\ UNCHANGED <<daemon, queues, phase, todo, runtime, missed, faults>>

(* <-errorChan.  A container whose policy could not be set is killed. *)
Answer ==
    /\ PU!Answer(Me)
    /\ handler' = IF handler.ev.kind = "start" /\ ~ req[Me].ok
                  THEN [handler EXCEPT !.at = "kill"] ELSE None
    /\ UNCHANGED <<daemon, queues, phase, todo, runtime, missed, faults>>

(* ContainerStop, whose error nobody looks at. *)
Kill ==
    /\ handler # None /\ handler.at = "kill"
    /\ handler' = None
    /\ LET c == handler.ev.id
       IN \/ /\ Running(c)
             /\ state' = [state EXCEPT ![c] = "exited"] /\ Emit("die", c)
             /\ UNCHANGED faults
          \/ /\ ~ Running(c)
             /\ UNCHANGED <<state, stream, missed, faults>>
          \/ /\ Running(c) /\ Fault("kill")
             /\ missed' = missed \cup {c}
             /\ UNCHANGED <<state, stream>>
    /\ UNCHANGED <<run, changes, subscription, listener, message, notifications, phase, todo, controller>>

-----------------------------------------------------------------------------
(* Stop: both channels are unbuffered. *)

Stop ==
    /\ phase = "started"
    /\ phase' = "stoplistener"
    /\ UNCHANGED <<daemon, queues, todo, handler, controller, missed, faults>>

StopListener ==
    /\ phase = "stoplistener" /\ listener = "idle"
    /\ phase' = "stopprocessor" /\ listener' = "stopped"
    /\ UNCHANGED <<daemon, subscription, stream, message, notifications, todo, handler, controller,
                   missed, faults>>

StopProcessor ==
    /\ phase = "stopprocessor" /\ Processing
    /\ phase' = "stopped"
    /\ UNCHANGED <<daemon, queues, todo, handler, controller, missed, faults>>

Next ==
    \/ \E c \in Containers :
          Create(c) \/ Run(c) \/ Die(c) \/ Pause(c) \/ Unpause(c) \/ Destroy(c) \/ Visit(c)
    \/ StreamFails \/ Subscribe \/ Receive \/ Notify
    \/ Start \/ List \/ Started
    \/ Process \/ HandleStart \/ Submit \/ Controller \/ Answer \/ Kill
    \/ Stop \/ StopListener \/ StopProcessor

Spec == Init /\ [][Next]_vars

(* The goroutines of the monitor run and the controller answers.  A select
   chooses at random among the cases that are ready, so StopListener and
   StopProcessor are not passed over for ever. *)
Fairness ==
    /\ WF_vars(Subscribe \/ Receive \/ Notify)
    /\ WF_vars(Start \/ List \/ Started \/ \E c \in Containers : Visit(c))
    /\ WF_vars(Process \/ HandleStart \/ Submit \/ Answer \/ Kill)
    /\ WF_vars(Controller)
    /\ SF_vars(StopListener) /\ SF_vars(StopProcessor)

FairSpec == Spec /\ Fairness

-----------------------------------------------------------------------------
(* PROPERTIES *)

Policed(c) == force[c] # None /\ runtime[c] = run[c]

(* An event on its way from the daemon to the processor. *)
OnItsWay(e) == e \in Range(stream \o message \o notifications)

Handling(k, c, ats) == handler # None /\ handler.ev = Event(k, c) /\ handler.at \in ats

(* A container that runs is policed with the address and process of this run,
   or something that will see to it is on its way: its visit, its start event,
   the handler itself.  The monitor falls behind, so an event is handled when the
   container has already ended or runs again (docker.go:461); and the die event
   of an earlier run takes the policy away from a later one.  The only
   containers it loses are those of which an event came while the listener was
   not subscribed (docker.go:204), those the synchronization could not list or
   inspect (docker.go:315, 354), those whose metadata could not be extracted
   (docker.go:390) and those that had to be killed and could not be (docker.go:400,
   465), whose errors nobody acts on; the next start or die event of such a
   container puts it right. *)
RunningIsCovered ==
    phase \notin {"stopprocessor", "stopped"} =>
        \A c \in Containers \ missed : Running(c) =>
            \/ Policed(c) /\ ~ OnItsWay(Event("die", c)) /\ ~ Handling("die", c, {"submit", "wait"})
            \/ c \in todo \/ OnItsWay(Event("start", c)) \/ Handling("start", c, {"handle", "kill"})
            \/ Handling("start", c, {"submit", "wait"}) /\ handler.run = run[c]

(* A container that has ended is not policed, or its die event is on its way. *)
EndedIsReleased ==
    phase \notin {"stopprocessor", "stopped"} =>
        \A c \in Containers \ missed : ~ Running(c) =>
            \/ force[c] = None /\ ~ Handling("start", c, {"submit", "wait"})
            \/ OnItsWay(Event("die", c)) \/ Handling("die", c, {"submit", "wait"})

(* Every run of a container comes to be policed, unless it ends, the monitor is
   stopped, or the container is one of those it loses. *)
RunIsPoliced ==
    \A c \in Containers :
        Running(c) ~> \/ Policed(c) \/ ~ Running(c) \/ c \in missed
                      \/ phase \in {"stoplistener", "stopprocessor", "stopped"}

(* Stop returns: its sends wait for the listener, which may be blocked by a full
   channel, and for the processor, which may wait for the controller. *)
StopReturns == phase = "stoplistener" ~> phase = "stopped"

(* "It applies a policy to each Container already Up and Running.  It listens to
   all ContainerEvents" (docker.go:195): when there is nothing left to do, every
   container that runs is policed. *)
AllAreHandled ==
    (/\ phase = "started" /\ listener = "idle" /\ subscription = "open" /\ handler = None
     /\ stream = <<>> /\ notifications = <<>>)
        => \A c \in Containers : Running(c) => Policed(c)
=============================================================================
