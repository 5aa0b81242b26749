---------------------------- MODULE LinuxMonitor ----------------------------
(* Linux processes as processing units (PUs): the launcher (cmd/systemdutil)
   asks the RPC monitor (monitor/rpcmonitor) before it becomes the program; the
   processor (monitor/linuxmonitor) has the controller police the PU, puts the
   process in a net_cls cgroup (cgnetcls) and records it in the context store
   (monitor/contextstore).  When the last process leaves the cgroup the kernel
   runs the launcher again, as release agent, which sends stop and destroy.

   A PU is named by its process ID.  The monitor serves one connection at a
   time (processRequests).  It can crash: the controller's state is lost, the
   cgroups and the context store stay.  The controller is modelled by what it
   promises (module PUService); processes and cgroups are the kernel's.       *)
EXTENDS Naturals, FiniteSets

CONSTANTS
    PUs,         \* process IDs
    CanReuse,    \* a process ID may be in use again before its release is handled
    MaxFaults,   \* PUs with a cgroup file that cannot be written, or a launcher
                 \* that dies while it waits for its answer (a bound)
    MaxCrashes,  \* crashes of the monitor (a bound)
    None

ASSUME SwitchAssumption == CanReuse \in BOOLEAN
ASSUME BoundAssumption == {MaxFaults, MaxCrashes} \subseteq Nat

Steps == {"start", "creategroup", "assignmark", "addprocess", "store", "reject", "stop", "destroy"}
Cgroups == [mark : BOOLEAN, procs : BOOLEAN]
Connections == [pu : PUs, at : Steps]

ASSUME NoneAssumption == None \notin Cgroups /\ None \notin Connections

VARIABLES
    proc,     \* the process of each PID: none, launching, running
    cgroup,   \* its cgroup: None, or is the mark written and is the process in it
    agent,    \* its release agent: none, pending, served
    store,    \* the PUs in the context store
    torn,     \* those whose entry a crash has left half written or half removed
    known,    \* the PUs with a runtime in the controller
    policed,  \* the PUs the controller has enforced and supervised
    allowed,  \* history: the PUs whose policy was AllowAll at their last start
    stale,    \* history: the PUs whose last start was before a crash of the monitor
    server,   \* the connection being served and the next step of its handler
    phase,    \* the monitor: down, resync, up
    walk,     \* the entries of the store that reSync has not looked at yet
    faults,   \* history: the PUs with such a failure
    crashes   \* how often the monitor has crashed

kernel == <<proc, cgroup, agent>>
ctl == <<known, policed, allowed, stale>>
vars == <<kernel, store, torn, ctl, server, phase, walk, faults, crashes>>

TypeOK ==
    /\ proc \in [PUs -> {"none", "launching", "running"}]
    /\ cgroup \in [PUs -> Cgroups \cup {None}]
    /\ agent \in [PUs -> {"none", "pending", "served"}]
    /\ store \subseteq PUs /\ policed \subseteq known /\ known \subseteq PUs
    /\ torn \subseteq store /\ allowed \subseteq PUs /\ stale \subseteq PUs
    /\ server \in Connections \cup {None}
    /\ phase \in {"down", "resync", "up"}
    /\ walk \subseteq store
    /\ faults \subseteq PUs /\ crashes \in 0 .. MaxCrashes

Init ==
    /\ proc = [p \in PUs |-> "none"]
    /\ cgroup = [p \in PUs |-> None]
    /\ agent = [p \in PUs |-> "none"]
    /\ store = {} /\ torn = {}
    /\ known = {} /\ policed = {} /\ allowed = {} /\ stale = {}
    /\ server = None
    /\ phase = "down" /\ walk = {}
    /\ faults = {} /\ crashes = 0

Serving(p, at) == server = [pu |-> p, at |-> at]
Goto(p, at) == server' = [pu |-> p, at |-> at]
Close == server' = None

Fault(p) == faults' = faults \cup {p} /\ Cardinality(faults') <= MaxFaults
NoFault == UNCHANGED faults

-----------------------------------------------------------------------------
(* Processes and the kernel (external) *)

(* A process ends.  The kernel starts the release agent of a cgroup that has
   become empty.  g is the cgroups before. *)
Ends(p, g) ==
    /\ proc' = [proc EXCEPT ![p] = "none"]
    /\ IF g[p] # None /\ g[p].procs
       THEN /\ cgroup' = [g EXCEPT ![p].procs = FALSE]
            /\ agent' = [agent EXCEPT ![p] = "pending"]
       ELSE cgroup' = g /\ UNCHANGED agent

(* ExecuteCommand up to its call. *)
Launch(p) ==
    /\ proc[p] = "none"
    /\ server # None => server.pu # p
    /\ CanReuse \/ agent[p] = "none"
    /\ proc' = [proc EXCEPT ![p] = "launching"]
    /\ UNCHANGED <<cgroup, agent, store, torn, ctl, server, phase, walk, faults, crashes>>

(* The launcher cannot reach the monitor, or dies before it has an answer. *)
LauncherFails(p) ==
    /\ proc[p] = "launching"
    /\ \/ NoFault /\ phase # "up"
       \/ Fault(p) /\ phase = "up"
    /\ Ends(p, cgroup)
    /\ UNCHANGED <<store, torn, ctl, server, phase, walk, crashes>>

Exit(p) ==
    /\ proc[p] = "running"
    /\ Ends(p, cgroup)
    /\ UNCHANGED <<store, torn, ctl, server, phase, walk, faults, crashes>>

(* HandleCgroupStop cannot connect: the resources are not deleted. *)
AgentFails(p) ==
    /\ agent[p] = "pending" /\ phase # "up"
    /\ agent' = [agent EXCEPT ![p] = "none"]
    /\ UNCHANGED <<proc, cgroup, store, torn, ctl, server, phase, walk, faults, crashes>>

-----------------------------------------------------------------------------
(* The RPC monitor *)

AcceptLauncher(p) ==
    /\ phase = "up" /\ server = None
    /\ proc[p] = "launching"
    /\ Goto(p, "start")
    /\ UNCHANGED <<kernel, store, torn, ctl, phase, walk, faults, crashes>>

AcceptAgent(p) ==
    /\ phase = "up" /\ server = None
    /\ agent[p] = "pending"
    /\ agent' = [agent EXCEPT ![p] = "served"]
    /\ Goto(p, "stop")
    /\ UNCHANGED <<proc, cgroup, store, torn, ctl, phase, walk, faults, crashes>>

(* The launcher has its answer: it becomes the program, or it ends. *)
Respond(p, ok, g) ==
    /\ Close
    /\ IF ok /\ proc[p] = "launching"
       THEN proc' = [proc EXCEPT ![p] = "running"] /\ cgroup' = g /\ UNCHANGED agent
       ELSE IF proc[p] = "launching" THEN Ends(p, g)
       ELSE cgroup' = g /\ UNCHANGED <<proc, agent>>

Start ==
    /\ phase = "down"
    /\ phase' = "resync" /\ walk' = store
    /\ UNCHANGED <<kernel, store, torn, ctl, server, faults, crashes>>

(* os.Remove of a cgroup directory fails while a process is in it. *)
DeleteCgroup(p) == IF cgroup[p] # None /\ ~ cgroup[p].procs THEN [cgroup EXCEPT ![p] = None] ELSE cgroup

(* One entry of the store.  ListCgroupProcesses returns an empty list for every
   cgroup there is, so the start event of an entry is never handled again.  An
   entry without a file is passed over; one that cannot be unmarshalled ends the
   walk, and Start goes on. *)
reSync(p) ==
    /\ phase = "resync" /\ p \in walk
    /\ \/ p \notin torn /\ walk' = walk \ {p} /\ cgroup' = DeleteCgroup(p) /\ store' = store \ {p}
       \/ p \in torn /\ walk' \in {walk \ {p}, {}} /\ UNCHANGED <<cgroup, store>>
    /\ UNCHANGED <<proc, agent, torn, ctl, server, phase, faults, crashes>>

Listen ==
    /\ phase = "resync" /\ walk = {}
    /\ phase' = "up"
    /\ UNCHANGED <<kernel, store, torn, ctl, server, walk, faults, crashes>>

(* The monitor dies, and with it the controller and every connection.  The entry
   that it was writing or removing may be left in the store, unreadable. *)
Crash ==
    /\ phase # "down" /\ crashes < MaxCrashes
    /\ crashes' = crashes + 1
    /\ phase' = "down" /\ walk' = {}
    /\ known' = {} /\ policed' = {} /\ stale' = PUs /\ UNCHANGED allowed
    /\ \E t \in SUBSET {p \in PUs : server # None /\ server.pu = p
                                    /\ server.at \in {"store", "reject", "destroy"}} :
          torn' = torn \cup t /\ store' = store \cup t
    /\ IF server # None /\ server.at \notin {"stop", "destroy"}
       THEN Respond(server.pu, FALSE, cgroup)
       ELSE /\ Close
            /\ agent' = [p \in PUs |-> IF agent[p] = "served" THEN "none" ELSE agent[p]]
            /\ UNCHANGED <<proc, cgroup>>
    /\ UNCHANGED faults

-----------------------------------------------------------------------------
(* The processor: Start.  The answer is an error when a step fails. *)

(* Bug: the answer of the controller is not looked at. *)
StartEventIgnoresStatus(p) ==
    /\ Serving(p, "start")
    /\ known' = known \cup {p}
    /\ \/ policed' = policed \cup {p}
       \/ UNCHANGED policed
    /\ allowed' = allowed \ {p} /\ stale' = stale \ {p}
    /\ Goto(p, "creategroup")
    /\ UNCHANGED <<kernel, store, torn, phase, walk, faults, crashes>>

(* metadataExtractor, whose error is the answer; SetPURuntime and
   HandlePUEvent(EventStart), which enforces the policy, lets a PU with an
   AllowAll policy be, or fails.  After an error of the controller the event is
   stored all the same, and the error is returned. *)
StartEvent(p) ==
    /\ Serving(p, "start")
    /\ \/ /\ known' = known \cup {p} /\ stale' = stale \ {p}
          /\ \/ policed' = policed \cup {p} /\ allowed' = allowed \ {p} /\ Goto(p, "creategroup")
             \/ allowed' = allowed \cup {p} /\ UNCHANGED policed /\ Goto(p, "creategroup")
             \/ policed' \in {policed, policed \ {p}} /\ UNCHANGED allowed /\ Goto(p, "reject")
          /\ UNCHANGED kernel
       \/ Respond(p, FALSE, cgroup) /\ UNCHANGED ctl
    /\ UNCHANGED <<store, torn, phase, walk, faults, crashes>>

Creategroup(p) ==
    /\ Serving(p, "creategroup")
    /\ LET g == IF cgroup[p] = None
                THEN [cgroup EXCEPT ![p] = [mark |-> FALSE, procs |-> FALSE]] ELSE cgroup
       IN  \/ NoFault /\ cgroup' = g /\ Goto(p, "assignmark") /\ UNCHANGED <<proc, agent>>
           \/ Fault(p) /\ Respond(p, FALSE, g)
    /\ UNCHANGED <<store, torn, ctl, phase, walk, crashes>>

AssignMark(p) ==
    /\ Serving(p, "assignmark")
    /\ \/ /\ NoFault /\ cgroup[p] # None
          /\ cgroup' = [cgroup EXCEPT ![p].mark = TRUE]
          /\ Goto(p, "addprocess") /\ UNCHANGED <<proc, agent>>
       \/ Fault(p) /\ Respond(p, FALSE, DeleteCgroup(p))
    /\ UNCHANGED <<store, torn, ctl, phase, walk, crashes>>

(* A process that has gone is not added, which is no error. *)
AddProcess(p) ==
    /\ Serving(p, "addprocess")
    /\ \/ /\ NoFault
          /\ cgroup' = IF proc[p] = "launching" THEN [cgroup EXCEPT ![p].procs = TRUE] ELSE cgroup
          /\ Goto(p, "store") /\ UNCHANGED <<proc, agent>>
       \/ Fault(p) /\ Respond(p, FALSE, DeleteCgroup(p))
    /\ UNCHANGED <<store, torn, ctl, phase, walk, crashes>>

(* StoreContext, and the answer. *)
StoreContext(p) ==
    /\ server \in {[pu |-> p, at |-> "store"], [pu |-> p, at |-> "reject"]}
    /\ store' = store \cup {p} /\ torn' = torn \ {p}
    /\ Respond(p, server.at = "store", cgroup)
    /\ UNCHANGED <<ctl, phase, walk, faults, crashes>>

-----------------------------------------------------------------------------
(* The processor: Stop and Destroy, as HandleCgroupStop sends them *)

(* The release agent that was served ends.  With an ID in use again there can be
   another one by now. *)
AgentEnds(p) == agent' = [agent EXCEPT ![p] = IF @ = "served" THEN "none" ELSE @]

(* Bug: the name of the cgroup is taken for the context ID as it is. *)
StopKeepsPath(p) ==
    /\ Serving(p, "stop")
    /\ AgentEnds(p) /\ Close
    /\ UNCHANGED <<proc, cgroup, store, torn, ctl, phase, walk, faults, crashes>>

(* The release agent gives up after an error, which the controller returns for
   a PU it does not police: its runtime is forgotten all the same, but no destroy
   event follows. *)
Stop(p) ==
    /\ Serving(p, "stop")
    /\ known' = known \ {p} /\ policed' = policed \ {p}
    /\ IF p \in policed
       THEN Goto(p, "destroy") /\ UNCHANGED agent
       ELSE Close /\ AgentEnds(p)
    /\ UNCHANGED <<proc, cgroup, store, torn, allowed, stale, phase, walk, faults, crashes>>

(* Bug: the entry of the context store is left. *)
DestroyKeepsContext(p) ==
    /\ Serving(p, "destroy")
    /\ cgroup' = DeleteCgroup(p)
    /\ AgentEnds(p) /\ Close
    /\ UNCHANGED <<proc, store, torn, ctl, phase, walk, faults, crashes>>

(* The controller does nothing on a destroy event. *)
Destroy(p) ==
    /\ Serving(p, "destroy")
    /\ cgroup' = DeleteCgroup(p)
    /\ store' = store \ {p} /\ torn' = torn \ {p}
    /\ AgentEnds(p) /\ Close
    /\ UNCHANGED <<proc, ctl, phase, walk, faults, crashes>>

Handle(p) ==
    \/ StartEvent(p) \/ Creategroup(p) \/ AssignMark(p) \/ AddProcess(p) \/ StoreContext(p)
    \/ Stop(p) \/ Destroy(p)

Next ==
    \/ \E p \in PUs : Launch(p) \/ LauncherFails(p) \/ Exit(p) \/ AgentFails(p)
    \/ \E p \in PUs : AcceptLauncher(p) \/ AcceptAgent(p) \/ reSync(p) \/ Handle(p)
    \/ Start \/ Listen \/ Crash

Spec == Init /\ [][Next]_vars

(* The monitor runs; connections wait in the order in which they came. *)
Fairness ==
    /\ WF_vars(Start) /\ WF_vars(Listen)
    /\ \A p \in PUs : WF_vars(reSync(p)) /\ WF_vars(Handle(p)) /\ SF_vars(AcceptAgent(p))

FairSpec == Spec /\ Fairness

-----------------------------------------------------------------------------
(* Properties *)

(* A program runs only while it is policed, across crashes and restarts of the
   monitor: the launcher becomes the program after the controller has its policy
   in force, and the process is then in a cgroup that carries its mark.  Only a
   PU whose policy is AllowAll, and one that was there when the monitor crashed,
   run without.  ("The PUID is a unique value for the Processing Unit",
   rpctypes.go:24.) *)
RunningIsPoliced ==
    \A p \in PUs : proc[p] = "running" =>
        p \in policed \cup allowed \cup stale /\ cgroup[p] # None /\ cgroup[p].mark /\ cgroup[p].procs

(* Whenever the monitor crashes and restarts, the controller does not police a
   process that has gone, unless its release is on the way.  Only a PU whose own
   launcher died before it was in the cgroup, or whose own cgroup could not be
   set up, stays policed. *)
NoGhost ==
    \A p \in policed \ faults : proc[p] # "none" \/ agent[p] # "none"

(* A process that has ended is forgotten everywhere: by the controller, in the
   context store and among the cgroups, unless its ID is in use again.  Of a PU
   that the controller does not police, because its policy is AllowAll
   (trireme.go:242) or the monitor has crashed, it is only the runtime that goes:
   the stop event is answered with an error (trireme.go:318), the release agent
   then sends no destroy event (systemdutil.go:184), and the cgroup and the entry
   of the store stay. *)
EndedIsForgotten ==
    \A p \in PUs : agent[p] = "pending" ~>
        \/ proc[p] # "none"
        \/ p \notin known /\ (p \in allowed \cup stale \/ (p \notin store /\ cgroup[p] = None))

(* "reSync resyncs with all the existing services that were there before we
   start" (rpc.go:102): once the monitor is up again, they are policed. *)
ResyncRestores ==
    phase = "up" => \A p \in PUs : proc[p] = "running" => p \in policed \cup allowed
=============================================================================
