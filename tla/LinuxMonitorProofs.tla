------------------------- MODULE LinuxMonitorProofs -------------------------
(* What the monitor of Linux processes promises of the processes and of the
   controller, for any process IDs and any number of failures and crashes.     *)
EXTENDS LinuxMonitor, TLAPS

(* The steps of Start, and those that come once the controller has answered. *)
Launching == {"start", "creategroup", "assignmark", "addprocess", "store", "reject"}
Answered == {"creategroup", "assignmark", "addprocess", "store"}

At(p, ats) == server # None /\ server.pu = p /\ server.at \in ats

Contained(p) == cgroup[p] # None /\ cgroup[p].procs

(* A connection is served by a monitor that is up, which alone has policies. *)
PhaseOK ==
    /\ phase # "up" => server = None /\ policed = {}
    /\ phase # "resync" => walk = {}

(* The process a connection is about: its launcher waits, or has died; an agent
   is served while its connection is. *)
ServedOK(p) ==
    /\ At(p, Launching) => proc[p] = "launching" \/ (proc[p] = "none" /\ p \in faults)
    /\ agent[p] = "served" => At(p, {"stop", "destroy"})
    /\ At(p, {"stop", "destroy"}) => agent[p] # "none"
    /\ At(p, {"destroy"}) => p \notin policed

(* How far the cgroup of a launcher has come. *)
CgroupOK(p) ==
    /\ At(p, {"assignmark", "addprocess", "store"}) => cgroup[p] # None
    /\ At(p, {"addprocess", "store"}) => cgroup[p].mark
    /\ At(p, {"store"}) /\ proc[p] = "launching" => cgroup[p].procs

(* NoGhost, with where each process that is policed gets its release agent. *)
ReleaseOK(p) ==
    p \in policed /\ p \notin faults =>
        \/ proc[p] = "running" /\ Contained(p)
        \/ agent[p] # "none"
        \/ proc[p] = "launching" /\ At(p, Answered)

(* The controller polices the process, or is known to let it be. *)
Decided(p) == p \in policed \/ p \in allowed \/ p \in stale

(* RunningIsPoliced: a process ID is not launched before its release is done. *)
PolicedOK(p) ==
    ~ CanReuse =>
        /\ agent[p] # "none" => proc[p] = "none"
        /\ At(p, Answered) => Decided(p)
        /\ proc[p] = "running" => Decided(p) /\ Contained(p) /\ cgroup[p].mark

Good(p) == ServedOK(p) /\ CgroupOK(p) /\ ReleaseOK(p) /\ PolicedOK(p)

Inv == TypeOK /\ PhaseOK /\ \A p \in PUs : Good(p)

-----------------------------------------------------------------------------
(* A process ID that a step is not about *)

Same(p) ==
    /\ proc'[p] = proc[p] /\ cgroup'[p] = cgroup[p] /\ agent'[p] = agent[p]
    /\ p \in policed' <=> p \in policed
    /\ p \in faults => p \in faults'
    /\ Decided(p) => Decided(p)'

Elsewhere(p) ==
    /\ server # None => server.pu # p
    /\ server' # None => server'.pu # p

(* What is said of a process ID stays true when nothing of it changes and the
   connection, if it changes, is not about it. *)
LEMMA Frame ==
    ASSUME NEW p \in PUs, Good(p), Same(p), server' = server \/ Elsewhere(p)
    PROVE  Good(p)'
<1>1. \A ats : At(p, ats)' <=> At(p, ats)
    BY Zenon DEF At, Elsewhere
<1>2. ServedOK(p)'
    BY <1>1, Zenon DEF Good, ServedOK, Same
<1>3. CgroupOK(p)'
    BY <1>1, Zenon DEF Good, CgroupOK, Same
<1>4. ReleaseOK(p)'
    BY <1>1, Zenon DEF Good, ReleaseOK, Same, Contained
<1>5. PolicedOK(p)'
    BY <1>1, Zenon DEF Good, PolicedOK, Decided, Same, Contained
<1> QED
    BY <1>2, <1>3, <1>4, <1>5, Zenon DEF Good

(* The types that the step of one process ID and its connection can change. *)
Kernel ==
    /\ proc \in [PUs -> {"none", "launching", "running"}]
    /\ cgroup \in [PUs -> Cgroups \cup {None}]
    /\ agent \in [PUs -> {"none", "pending", "served"}]
Rest ==
    /\ store \subseteq PUs /\ policed \subseteq known /\ known \subseteq PUs
    /\ torn \subseteq store /\ allowed \subseteq PUs /\ stale \subseteq PUs
    /\ server \in Connections \cup {None}
    /\ phase \in {"down", "resync", "up"}
    /\ walk \subseteq store
    /\ faults \subseteq PUs /\ crashes \in 0 .. MaxCrashes

(* A connection of process p at a step. *)
LEMMA ServingFacts ==
    ASSUME NEW p \in PUs, NEW a \in Steps, Inv, Serving(p, a)
    PROVE  /\ server # None /\ server.pu = p /\ server.at = a
           /\ phase = "up" /\ walk = {}
           /\ \A ats : At(p, ats) <=> a \in ats
<1>1. server = [pu |-> p, at |-> a] /\ server \in Connections
    BY Zenon DEF Serving, Connections
<1>2. server # None /\ server.pu = p /\ server.at = a
    BY <1>1, NoneAssumption, SMT
<1> QED
    BY <1>2, Zenon DEF At, Inv, PhaseOK

LEMMA GotoFacts ==
    ASSUME NEW p \in PUs, NEW a \in Steps, Goto(p, a)
    PROVE  /\ server' \in Connections /\ server' # None /\ server'.pu = p /\ server'.at = a
           /\ \A ats : At(p, ats)' <=> a \in ats
<1>1. server' = [pu |-> p, at |-> a] /\ server' \in Connections
    BY Zenon DEF Goto, Connections
<1>2. server' # None /\ server'.pu = p /\ server'.at = a
    BY <1>1, NoneAssumption, SMT
<1> QED
    BY <1>1, <1>2, Zenon DEF At

LEMMA CloseFacts ==
    ASSUME NEW p \in PUs, Close
    PROVE  server' = None /\ \A ats : ~ At(p, ats)'
BY Zenon DEF Close, At

(* What an assignment to a file of a cgroup changes. *)
LEMMA SetProcs ==
    ASSUME NEW r \in Cgroups, NEW b \in BOOLEAN
    PROVE  LET s == [r EXCEPT !.procs = b] IN s \in Cgroups /\ s.mark = r.mark /\ s.procs = b
BY DEF Cgroups

LEMMA SetMark ==
    ASSUME NEW r \in Cgroups
    PROVE  LET s == [r EXCEPT !.mark = TRUE] IN s \in Cgroups /\ s.mark = TRUE
BY Zenon DEF Cgroups

(* A process ends: its cgroup is left empty, and has an agent if it was in it. *)
LEMMA EndsFacts ==
    ASSUME NEW p \in PUs, NEW g \in [PUs -> Cgroups \cup {None}], Kernel, Ends(p, g)
    PROVE  /\ Kernel'
           /\ proc'[p] = "none"
           /\ agent'[p] = agent[p] \/ agent'[p] = "pending"
           /\ g[p] # None /\ g[p].procs => agent'[p] = "pending"
           /\ g[p] # None => cgroup'[p] # None
           /\ g[p] # None /\ g[p].mark => cgroup'[p].mark
           /\ \A q \in PUs : q # p =>
                 proc'[q] = proc[q] /\ cgroup'[q] = g[q] /\ agent'[q] = agent[q]
<1>1. /\ proc' \in [PUs -> {"none", "launching", "running"}] /\ proc'[p] = "none"
      /\ \A q \in PUs : q # p => proc'[q] = proc[q]
    BY SMT DEF Ends, Kernel
<1>2. CASE g[p] # None /\ g[p].procs
    <2>1. cgroup' = [g EXCEPT ![p].procs = FALSE] /\ agent' = [agent EXCEPT ![p] = "pending"]
        BY <1>2, Zenon DEF Ends
    <2>2. g[p] \in Cgroups
        BY <1>2, Zenon
    <2> DEFINE h == [g[p] EXCEPT !.procs = FALSE]
    <2>3. h \in Cgroups /\ h.mark = g[p].mark
        BY <2>2, SetProcs, Zenon
    <2>4. cgroup' = [g EXCEPT ![p] = h]
        BY <2>1, Zenon
    <2> HIDE DEF h
    <2>5. cgroup' \in [PUs -> Cgroups \cup {None}] /\ cgroup'[p] = h /\ h # None
        BY <2>3, <2>4, NoneAssumption, SMT
    <2>6. agent' \in [PUs -> {"none", "pending", "served"}] /\ agent'[p] = "pending"
        BY <2>1, SMT DEF Kernel
    <2>7. \A q \in PUs : q # p => cgroup'[q] = g[q] /\ agent'[q] = agent[q]
        BY <2>1, <2>4, SMT DEF Kernel
    <2> QED
        BY <1>1, <2>3, <2>5, <2>6, <2>7, Zenon DEF Kernel
<1>3. CASE ~ (g[p] # None /\ g[p].procs)
    <2>1. cgroup' = g /\ agent' = agent
        BY <1>3, Zenon DEF Ends
    <2> QED
        BY <1>1, <1>3, <2>1, Zenon DEF Kernel
<1> QED
    BY <1>2, <1>3, Zenon

-----------------------------------------------------------------------------
(* Processes and the kernel *)

(* A process ID with no connection, whose launcher waits or which has ended. *)
LEMMA LaunchStep ==
    ASSUME Inv, NEW p \in PUs, Launch(p)
    PROVE  Inv'
<1>1. /\ proc[p] = "none" /\ (server # None => server.pu # p) /\ (CanReuse \/ agent[p] = "none")
      /\ proc' = [proc EXCEPT ![p] = "launching"]
      /\ UNCHANGED <<cgroup, agent, store, torn, known, policed, allowed, stale, server, phase, walk, faults, crashes>>
    BY Zenon DEF Launch, ctl
<1>2. proc' \in [PUs -> {"none", "launching", "running"}] /\ proc'[p] = "launching"
      /\ \A q \in PUs : q # p => proc'[q] = proc[q]
    BY <1>1, SMT DEF Inv, TypeOK
<1>3. TypeOK' /\ PhaseOK'
    BY <1>1, <1>2, Zenon DEF Inv, TypeOK, PhaseOK
<1>4. \A ats : ~ At(p, ats) /\ ~ At(p, ats)'
    BY <1>1, Zenon DEF At
<1>5. Good(p)'
    BY <1>1, <1>2, <1>4, Zenon
    DEF Inv, Good, ServedOK, CgroupOK, ReleaseOK, PolicedOK, Decided
<1>6. ASSUME NEW q \in PUs, q # p PROVE Good(q)'
    BY <1>1, <1>2, <1>6, Frame, Zenon DEF Same, Inv, Decided
<1> QED
    BY <1>3, <1>5, <1>6, Zenon DEF Inv

(* What every end of a process preserves: its launcher waited or it ran. *)
LEMMA EndStep ==
    ASSUME Inv, NEW p \in PUs, Ends(p, cgroup), proc[p] \in {"launching", "running"},
           proc[p] = "launching" => phase # "up" \/ p \in faults',
           faults \subseteq faults', faults' \subseteq PUs,
           UNCHANGED <<store, torn, known, policed, allowed, stale, server, phase, walk, crashes>>
    PROVE  Inv'
<1>1. Kernel /\ cgroup \in [PUs -> Cgroups \cup {None}]
    BY Zenon DEF Inv, TypeOK, Kernel
<1>2. /\ Kernel' /\ proc'[p] = "none"
      /\ agent'[p] = agent[p] \/ agent'[p] = "pending"
      /\ Contained(p) => agent'[p] = "pending"
      /\ cgroup[p] # None => cgroup'[p] # None
      /\ cgroup[p] # None /\ cgroup[p].mark => cgroup'[p].mark
      /\ \A q \in PUs : q # p =>
            proc'[q] = proc[q] /\ cgroup'[q] = cgroup[q] /\ agent'[q] = agent[q]
    BY <1>1, EndsFacts, ZenonT(30) DEF Contained
<1>3. TypeOK' /\ PhaseOK'
    BY <1>2, Zenon DEF Inv, TypeOK, PhaseOK, Kernel
<1>4. \A ats : At(p, ats)' <=> At(p, ats)
    BY Zenon DEF At
<1>5. At(p, Launching) => p \in faults'
    <2>1. At(p, Launching) => (phase = "up" /\ proc[p] = "launching") \/ p \in faults
        BY Zenon DEF Inv, PhaseOK, Good, ServedOK, At
    <2> QED
        BY <2>1, Zenon
<1>6. ServedOK(p)'
    BY <1>2, <1>4, <1>5, SMT DEF Inv, Good, ServedOK
<1>7. CgroupOK(p)'
    <2>1. CgroupOK(p)
        BY Zenon DEF Inv, Good
    <2>2. At(p, {"addprocess", "store"}) => At(p, {"assignmark", "addprocess", "store"})
        BY Zenon DEF At
    <2> QED
        BY <1>2, <1>4, <2>1, <2>2, Zenon DEF CgroupOK
<1>8. ReleaseOK(p)'
    <2>1. ASSUME p \in policed, p \notin faults', agent'[p] = "none" PROVE FALSE
        <3>1. phase = "up" /\ proc[p] = "running" /\ p \notin faults
            BY <2>1, Zenon DEF Inv, PhaseOK
        <3>2. ~ Contained(p) /\ agent[p] = "none"
            BY <1>2, <2>1, SMT
        <3> QED
            BY <2>1, <3>1, <3>2, SMT DEF Inv, Good, ReleaseOK
    <2> QED
        BY <2>1, Zenon DEF ReleaseOK
<1>9. PolicedOK(p)'
    BY <1>2, <1>4, SMT DEF Inv, Good, PolicedOK, Decided
<1>10. ASSUME NEW q \in PUs, q # p PROVE Good(q)'
    <2>1. Same(q) /\ Good(q) /\ server' = server
        BY <1>2, <1>10, Zenon DEF Same, Inv, Decided
    <2> QED
        BY ONLY <2>1, q \in PUs, Frame, Zenon
<1> QED
    BY <1>3, <1>6, <1>7, <1>8, <1>9, <1>10, Zenon DEF Inv, Good

LEMMA LauncherFailsStep ==
    ASSUME Inv, NEW p \in PUs, LauncherFails(p)
    PROVE  Inv'
<1>1. /\ proc[p] = "launching" /\ Ends(p, cgroup)
      /\ phase # "up" \/ p \in faults'
      /\ faults \subseteq faults' /\ (faults' = faults \/ faults' = faults \cup {p})
      /\ UNCHANGED <<store, torn, known, policed, allowed, stale, server, phase, walk, crashes>>
    BY Zenon DEF LauncherFails, NoFault, Fault, ctl
<1>2. faults' \subseteq PUs
    BY <1>1, SMT DEF Inv, TypeOK
<1> QED
    BY <1>1, <1>2, EndStep, Zenon

LEMMA ExitStep ==
    ASSUME Inv, NEW p \in PUs, Exit(p)
    PROVE  Inv'
<1>1. /\ proc[p] = "running" /\ Ends(p, cgroup)
      /\ UNCHANGED <<store, torn, known, policed, allowed, stale, server, phase, walk, faults, crashes>>
    BY Zenon DEF Exit, ctl
<1>2. faults' \subseteq PUs /\ proc[p] # "launching"
    BY <1>1, SMT DEF Inv, TypeOK
<1> QED
    BY <1>1, <1>2, EndStep, Zenon

LEMMA AgentFailsStep ==
    ASSUME Inv, NEW p \in PUs, AgentFails(p)
    PROVE  Inv'
<1>1. /\ agent[p] = "pending" /\ phase # "up" /\ agent' = [agent EXCEPT ![p] = "none"]
      /\ UNCHANGED <<proc, cgroup, store, torn, known, policed, allowed, stale, server, phase, walk, faults, crashes>>
    BY Zenon DEF AgentFails, ctl
<1>2. agent' \in [PUs -> {"none", "pending", "served"}] /\ agent'[p] = "none"
      /\ \A q \in PUs : q # p => agent'[q] = agent[q]
    BY <1>1, SMT DEF Inv, TypeOK
<1>3. TypeOK' /\ PhaseOK'
    BY <1>1, <1>2, Zenon DEF Inv, TypeOK, PhaseOK
<1>4. p \notin policed'
    BY <1>1, Zenon DEF Inv, PhaseOK
<1>5. Good(p)'
    <2>1. \A ats : ~ At(p, ats)'
        BY <1>1, Zenon DEF Inv, PhaseOK, At
    <2>2. ServedOK(p)' /\ CgroupOK(p)' /\ ReleaseOK(p)'
        BY <1>2, <1>4, <2>1, Zenon DEF ServedOK, CgroupOK, ReleaseOK
    <2>3. PolicedOK(p)'
        BY <1>1, <1>2, <2>1, Zenon DEF Inv, Good, PolicedOK, Decided, Contained
    <2> QED
        BY <2>2, <2>3, Zenon DEF Good
<1>6. ASSUME NEW q \in PUs, q # p PROVE Good(q)'
    BY <1>1, <1>2, <1>6, Frame, Zenon DEF Same, Inv, Decided
<1> QED
    BY <1>3, <1>5, <1>6, Zenon DEF Inv

-----------------------------------------------------------------------------
(* Connections, and the restart of the monitor *)

LEMMA AcceptLauncherStep ==
    ASSUME Inv, NEW p \in PUs, AcceptLauncher(p)
    PROVE  Inv'
<1>1. /\ phase = "up" /\ server = None /\ proc[p] = "launching" /\ Goto(p, "start")
      /\ UNCHANGED <<proc, cgroup, agent, store, torn, known, policed, allowed, stale, phase, walk, faults, crashes>>
    BY Zenon DEF AcceptLauncher, ctl, kernel
<1>2. /\ server' \in Connections /\ server' # None /\ server'.pu = p
      /\ \A ats : At(p, ats)' <=> "start" \in ats
    BY <1>1, GotoFacts, Zenon DEF Steps
<1>3. TypeOK' /\ PhaseOK'
    BY <1>1, <1>2, Zenon DEF Inv, TypeOK, PhaseOK
<1>4. \A ats : ~ At(p, ats)
    BY <1>1, Zenon DEF At
<1>5. Good(p)'
    BY <1>1, <1>2, <1>4, Zenon
    DEF Inv, Good, ServedOK, CgroupOK, ReleaseOK, PolicedOK, Decided, Contained, Launching, Answered
<1>6. ASSUME NEW q \in PUs, q # p PROVE Good(q)'
    BY <1>1, <1>2, <1>6, Frame, Zenon DEF Same, Elsewhere, Inv, Decided
<1> QED
    BY <1>3, <1>5, <1>6, Zenon DEF Inv

LEMMA AcceptAgentStep ==
    ASSUME Inv, NEW p \in PUs, AcceptAgent(p)
    PROVE  Inv'
<1>1. /\ phase = "up" /\ server = None /\ agent[p] = "pending" /\ Goto(p, "stop")
      /\ agent' = [agent EXCEPT ![p] = "served"]
      /\ UNCHANGED <<proc, cgroup, store, torn, known, policed, allowed, stale, phase, walk, faults, crashes>>
    BY Zenon DEF AcceptAgent, ctl
<1>2. /\ server' \in Connections /\ server' # None /\ server'.pu = p
      /\ \A ats : At(p, ats)' <=> "stop" \in ats
    BY <1>1, GotoFacts, Zenon DEF Steps
<1>3. agent' \in [PUs -> {"none", "pending", "served"}] /\ agent'[p] = "served"
      /\ \A q \in PUs : q # p => agent'[q] = agent[q]
    BY <1>1, SMT DEF Inv, TypeOK
<1>4. TypeOK' /\ PhaseOK'
    BY <1>1, <1>2, <1>3, Zenon DEF Inv, TypeOK, PhaseOK
<1>5. \A ats : ~ At(p, ats)
    BY <1>1, Zenon DEF At
<1>6. Good(p)'
    <2>1. ServedOK(p)'
        BY <1>2, <1>3, Zenon DEF ServedOK, Launching
    <2>2. CgroupOK(p)'
        BY <1>2, Zenon DEF CgroupOK
    <2>3. ReleaseOK(p)'
        BY <1>3, Zenon DEF ReleaseOK
    <2>4. PolicedOK(p)'
        BY <1>1, <1>2, Zenon DEF Inv, Good, PolicedOK, Decided, Answered, Contained
    <2> QED
        BY <2>1, <2>2, <2>3, <2>4, Zenon DEF Good
<1>7. ASSUME NEW q \in PUs, q # p PROVE Good(q)'
    BY <1>1, <1>2, <1>3, <1>7, Frame, Zenon DEF Same, Elsewhere, Inv, Decided
<1> QED
    BY <1>4, <1>6, <1>7, Zenon DEF Inv

LEMMA StartStep ==
    ASSUME Inv, Start
    PROVE  Inv'
<1>1. /\ phase = "down" /\ phase' = "resync" /\ walk' = store
      /\ UNCHANGED <<proc, cgroup, agent, store, torn, known, policed, allowed, stale, server, faults, crashes>>
    BY Zenon DEF Start, ctl, kernel
<1>2. TypeOK' /\ PhaseOK'
    BY <1>1, Zenon DEF Inv, TypeOK, PhaseOK
<1>3. ASSUME NEW q \in PUs PROVE Good(q)'
    BY <1>1, Frame, Zenon DEF Same, Inv, Decided
<1> QED
    BY <1>2, <1>3, Zenon DEF Inv

LEMMA ListenStep ==
    ASSUME Inv, Listen
    PROVE  Inv'
<1>1. /\ walk = {} /\ phase = "resync" /\ phase' = "up"
      /\ UNCHANGED <<proc, cgroup, agent, store, torn, known, policed, allowed, stale, server, walk, faults, crashes>>
    BY Zenon DEF Listen, ctl, kernel
<1>2. TypeOK' /\ PhaseOK'
    BY <1>1, Zenon DEF Inv, TypeOK, PhaseOK
<1>3. ASSUME NEW q \in PUs PROVE Good(q)'
    BY <1>1, Frame, Zenon DEF Same, Inv, Decided
<1> QED
    BY <1>2, <1>3, Zenon DEF Inv

(* A cgroup is deleted only when no process is in it. *)
LEMMA DeleteFacts ==
    ASSUME NEW p \in PUs, cgroup \in [PUs -> Cgroups \cup {None}]
    PROVE  /\ DeleteCgroup(p) \in [PUs -> Cgroups \cup {None}]
           /\ Contained(p) => DeleteCgroup(p)[p] = cgroup[p]
           /\ \A q \in PUs : q # p => DeleteCgroup(p)[q] = cgroup[q]
BY SMT DEF DeleteCgroup, Contained

LEMMA reSyncStep ==
    ASSUME Inv, NEW p \in PUs, reSync(p)
    PROVE  Inv'
<1>1. /\ phase = "resync"
      /\ \/ /\ p \notin torn /\ walk' = walk \ {p} /\ store' = store \ {p}
            /\ cgroup' = DeleteCgroup(p)
         \/ walk' \in {walk \ {p}, {}} /\ UNCHANGED <<cgroup, store>>
      /\ UNCHANGED <<proc, agent, torn, known, policed, allowed, stale, server, phase, faults, crashes>>
    BY Zenon DEF reSync, ctl
<1>2. cgroup' \in [PUs -> Cgroups \cup {None}] /\ (Contained(p) => cgroup'[p] = cgroup[p])
      /\ \A q \in PUs : q # p => cgroup'[q] = cgroup[q]
    BY <1>1, DeleteFacts, Zenon DEF Inv, TypeOK
<1>3. TypeOK'
    <2>1. store' \subseteq PUs /\ walk' \subseteq store' /\ torn' \subseteq store'
        BY <1>1, Zenon DEF Inv, TypeOK
    <2> QED
        BY <1>1, <1>2, <2>1, Zenon DEF Inv, TypeOK
<1>4. PhaseOK' /\ server = None /\ policed = {}
    BY <1>1, Zenon DEF Inv, PhaseOK
<1>5. \A ats : ~ At(p, ats) /\ ~ At(p, ats)'
    BY <1>1, <1>4, Zenon DEF At
<1>6. Good(p)'
    <2>1. ServedOK(p)' /\ CgroupOK(p)' /\ ReleaseOK(p)'
        BY <1>1, <1>4, <1>5, Zenon DEF Inv, Good, ServedOK, CgroupOK, ReleaseOK
    <2>2. PolicedOK(p)'
        BY <1>1, <1>2, <1>5, Zenon DEF Inv, Good, PolicedOK, Decided, Contained
    <2> QED
        BY <2>1, <2>2, Zenon DEF Good
<1>7. ASSUME NEW q \in PUs, q # p PROVE Good(q)'
    BY <1>1, <1>2, <1>7, Frame, Zenon DEF Same, Inv, Decided
<1> QED
    BY <1>3, <1>4, <1>6, <1>7, Zenon DEF Inv

(* The monitor answers a launcher: it becomes the program, or it ends.  g is the
   cgroups the step has left. *)
LEMMA RespondFacts ==
    ASSUME Kernel, NEW p \in PUs, NEW ok, NEW g \in [PUs -> Cgroups \cup {None}],
           Respond(p, ok, g)
    PROVE  /\ Kernel' /\ server' = None
           /\ proc'[p] = proc[p] \/ proc[p] = "launching"
           /\ ok /\ proc[p] = "launching" =>
                 proc'[p] = "running" /\ cgroup'[p] = g[p] /\ agent'[p] = agent[p]
           /\ ~ ok /\ proc[p] = "launching" => proc'[p] = "none"
           /\ proc[p] # "launching" => agent'[p] = agent[p]
           /\ agent'[p] = agent[p] \/ (agent'[p] = "pending" /\ proc'[p] = "none")
           /\ \A q \in PUs : q # p =>
                 proc'[q] = proc[q] /\ cgroup'[q] = g[q] /\ agent'[q] = agent[q]
<1>1. server' = None
    BY Zenon DEF Respond, Close
<1>2. CASE ok /\ proc[p] = "launching"
    <2>1. proc' = [proc EXCEPT ![p] = "running"] /\ cgroup' = g /\ agent' = agent
        BY <1>2, Zenon DEF Respond
    <2>2. proc' \in [PUs -> {"none", "launching", "running"}] /\ proc'[p] = "running"
          /\ \A q \in PUs : q # p => proc'[q] = proc[q]
        BY <2>1, SMT DEF Kernel
    <2>3. Kernel'
        BY <2>1, <2>2, Zenon DEF Kernel
    <2> QED
        BY <1>1, <1>2, <2>1, <2>2, <2>3, Zenon
<1>3. CASE ~ ok /\ proc[p] = "launching"
    <2>1. Ends(p, g)
        BY <1>3, Zenon DEF Respond
    <2> QED
        BY <1>1, <1>3, <2>1, EndsFacts, Zenon
<1>4. CASE proc[p] # "launching"
    <2>1. proc' = proc /\ cgroup' = g /\ agent' = agent
        BY <1>4, Zenon DEF Respond
    <2>2. Kernel'
        BY <2>1, Zenon DEF Kernel
    <2> QED
        BY <1>1, <1>4, <2>1, <2>2, Zenon
<1> QED
    BY <1>2, <1>3, <1>4, Zenon

(* Every answer that the monitor gives a launcher: a refusal is the controller's
   or comes from a failure, a consent comes last. *)
LEMMA AnswerStep ==
    ASSUME Inv, NEW p \in PUs, NEW a \in Launching, Serving(p, a),
           NEW ok, NEW g \in [PUs -> Cgroups \cup {None}], Respond(p, ok, g),
           \A q \in PUs : q # p => g[q] = cgroup[q],
           ok => a = "store" /\ g = cgroup,
           ~ ok => a \in {"start", "reject"} \/ p \in faults',
           faults \subseteq faults', faults' \subseteq PUs,
           store' \subseteq PUs, torn' \subseteq store',
           UNCHANGED <<known, policed, allowed, stale, phase, walk, crashes>>
    PROVE  Inv'
<1>1. /\ server # None /\ server.pu = p /\ phase = "up" /\ walk = {}
      /\ \A ats : At(p, ats) <=> a \in ats
    BY ServingFacts, ZenonT(30) DEF Launching, Steps
<1>2. Kernel
    BY Zenon DEF Inv, TypeOK, Kernel
<1>3. /\ Kernel' /\ server' = None
      /\ proc'[p] = proc[p] \/ proc[p] = "launching"
      /\ ok /\ proc[p] = "launching" =>
            proc'[p] = "running" /\ cgroup'[p] = g[p] /\ agent'[p] = agent[p]
      /\ ~ ok /\ proc[p] = "launching" => proc'[p] = "none"
      /\ proc[p] # "launching" => agent'[p] = agent[p]
      /\ agent'[p] = agent[p] \/ (agent'[p] = "pending" /\ proc'[p] = "none")
      /\ \A q \in PUs : q # p =>
            proc'[q] = proc[q] /\ cgroup'[q] = g[q] /\ agent'[q] = agent[q]
    BY ONLY <1>2, RespondFacts, p \in PUs, g \in [PUs -> Cgroups \cup {None}], Respond(p, ok, g),
            Zenon
<1>4. TypeOK' /\ PhaseOK'
    BY <1>1, <1>3, Zenon DEF Inv, TypeOK, PhaseOK, Kernel
<1>5. \A ats : ~ At(p, ats)'
    BY <1>3, Zenon DEF At
<1>6. ServedOK(p) /\ CgroupOK(p) /\ ReleaseOK(p) /\ PolicedOK(p) /\ At(p, Launching)
    BY <1>1, Zenon DEF Inv, Good
<1>7. proc[p] = "launching" \/ (proc[p] = "none" /\ p \in faults')
    BY <1>6, Zenon DEF ServedOK
<1>8. agent[p] # "served"
    BY <1>1, <1>6, Zenon DEF ServedOK, Launching
<1>9. ok => At(p, Answered) /\ At(p, {"store"}) /\ At(p, {"addprocess", "store"})
            /\ At(p, {"assignmark", "addprocess", "store"})
    BY <1>1, ZenonT(30) DEF Answered
<1>10. ok /\ proc[p] = "launching" => Contained(p) /\ cgroup[p].mark
    BY <1>6, <1>9, Zenon DEF CgroupOK, Contained
<1>11. ServedOK(p)' /\ CgroupOK(p)'
    <2>1. agent'[p] # "served"
        BY <1>3, <1>8, Zenon
    <2> QED
        BY <1>5, <2>1, Zenon DEF ServedOK, CgroupOK
<1>12. ReleaseOK(p)'
    <2>1. ASSUME p \in policed, p \notin faults' PROVE ReleaseOK(p)'
        <3>1. proc[p] = "launching" /\ p \notin faults
            BY <1>7, <2>1, Zenon
        <3>2. CASE ok
            BY <1>3, <1>10, <3>1, <3>2, Zenon DEF ReleaseOK, Contained
        <3>3. CASE ~ ok
            <4>1. ~ At(p, Answered)
                BY <1>1, <2>1, <3>3, Zenon DEF Answered
            <4>2. agent[p] # "none"
                BY <1>6, <2>1, <3>1, <4>1, Zenon DEF ReleaseOK
            <4>3. agent'[p] # "none"
                BY <1>3, <4>2, Zenon
            <4> QED
                BY <4>3, Zenon DEF ReleaseOK
        <3> QED
            BY <3>2, <3>3, Zenon
    <2> QED
        BY <2>1, Zenon DEF ReleaseOK
<1>13. PolicedOK(p)'
    <2>1. ASSUME ~ CanReuse PROVE PolicedOK(p)'
        <3>1. agent[p] # "none" => proc[p] = "none"
            BY <1>6, <2>1, Zenon DEF PolicedOK, Decided
        <3>2. agent'[p] # "none" => proc'[p] = "none"
            BY <1>3, <3>1, Zenon
        <3>3. proc'[p] = "running" => ok /\ proc[p] = "launching"
            BY <1>3, <1>7, Zenon
        <3>4. proc'[p] = "running" => Decided(p)
            BY <1>6, <1>9, <2>1, <3>3, Zenon DEF PolicedOK, Decided
        <3>5. proc'[p] = "running" => cgroup'[p] = cgroup[p]
            BY <1>3, <3>3, Zenon
        <3> QED
            BY <1>5, <1>10, <3>2, <3>3, <3>4, <3>5, Zenon DEF PolicedOK, Decided, Contained
    <2> QED
        BY <2>1, Zenon DEF PolicedOK, Decided
<1>14. ASSUME NEW q \in PUs, q # p PROVE Good(q)'
    <2>1. Same(q) /\ Good(q) /\ Elsewhere(q)
        BY <1>1, <1>3, <1>14, Zenon DEF Same, Elsewhere, Inv, Decided
    <2> QED
        BY ONLY <2>1, q \in PUs, Frame, Zenon
<1> QED
    BY <1>4, <1>11, <1>12, <1>13, <1>14, Zenon DEF Inv, Good

LEMMA CrashStep ==
    ASSUME Inv, Crash
    PROVE  Inv'
<1>1. /\ crashes < MaxCrashes /\ crashes' = crashes + 1 /\ phase' = "down" /\ walk' = {}
      /\ known' = {} /\ policed' = {} /\ stale' = PUs /\ UNCHANGED <<allowed, faults>>
    BY Zenon DEF Crash
<1>w. store' \subseteq PUs /\ torn' \subseteq store'
    <2>1. PICK t \in SUBSET PUs : torn' = torn \cup t /\ store' = store \cup t
        BY SMT DEF Crash
    <2> QED
        BY <2>1, SMT DEF Inv, TypeOK
<1>2. Kernel
    BY Zenon DEF Inv, TypeOK, Kernel
<1>3. /\ Kernel' /\ server' = None
      /\ \A q \in PUs : /\ agent'[q] # "served"
                        /\ agent'[q] = "none" \/ agent'[q] = agent[q] \/ proc'[q] = "none"
                        /\ proc'[q] = proc[q] \/ (proc[q] = "launching" /\ proc'[q] = "none")
                        /\ proc'[q] = "running" => cgroup'[q] = cgroup[q]
    <2>1. CASE server # None /\ server.at \notin {"stop", "destroy"}
        <3>1. PICK p \in PUs : p = server.pu
            BY <2>1, Zenon DEF Inv, TypeOK, Connections
        <3>2. Respond(p, FALSE, cgroup)
            BY <2>1, <3>1, Zenon DEF Crash
        <3>3. cgroup \in [PUs -> Cgroups \cup {None}]
            BY <1>2, Zenon DEF Kernel
        <3>4. /\ Kernel' /\ server' = None
              /\ proc'[p] = proc[p] \/ (proc[p] = "launching" /\ proc'[p] = "none")
              /\ agent'[p] = agent[p] \/ (agent'[p] = "pending" /\ proc'[p] = "none")
              /\ \A q \in PUs : q # p =>
                    proc'[q] = proc[q] /\ agent'[q] = agent[q] /\ cgroup'[q] = cgroup[q]
            BY ONLY <1>2, <3>2, <3>3, p \in PUs, RespondFacts, ZenonT(30)
        <3>5. \A q \in PUs : agent[q] # "served"
            BY <2>1, Zenon DEF Inv, Good, ServedOK, At
        <3>6. proc'[p] # "running"
            <4>1. At(p, Launching)
                BY <2>1, <3>1, Zenon DEF At, Launching, Inv, TypeOK, Connections, Steps
            <4>2. proc[p] # "running"
                BY <4>1, Zenon DEF Inv, Good, ServedOK
            <4> QED
                BY <3>4, <4>2, Zenon
        <3> QED
            BY <3>4, <3>5, <3>6, Zenon
    <2>2. CASE ~ (server # None /\ server.at \notin {"stop", "destroy"})
        <3>1. /\ server' = None /\ UNCHANGED <<proc, cgroup>>
              /\ agent' = [p \in PUs |-> IF agent[p] = "served" THEN "none" ELSE agent[p]]
            BY <2>2, Zenon DEF Crash, Close
        <3>2. Kernel'
            BY <1>2, <3>1, SMT DEF Kernel
        <3> QED
            BY <3>1, <3>2, Zenon
    <2> QED
        BY <2>1, <2>2, Zenon
<1>4. crashes' \in 0 .. MaxCrashes
    BY <1>1, BoundAssumption, SMT DEF Inv, TypeOK
<1>5. TypeOK' /\ PhaseOK'
    BY <1>1, <1>w, <1>3, <1>4, Zenon DEF Inv, TypeOK, PhaseOK, Kernel
<1>6. ASSUME NEW q \in PUs PROVE Good(q)'
    <2>1. \A ats : ~ At(q, ats)'
        BY <1>3, Zenon DEF At
    <2>2. ServedOK(q)' /\ CgroupOK(q)' /\ ReleaseOK(q)'
        BY <1>1, <1>3, <2>1, Zenon DEF ServedOK, CgroupOK, ReleaseOK
    <2>3. PolicedOK(q) => PolicedOK(q)'
        BY <1>1, <1>3, <2>1, Zenon DEF PolicedOK, Decided, Contained
    <2> QED
        BY <2>2, <2>3, Zenon DEF Inv, Good
<1> QED
    BY <1>5, <1>6, Zenon DEF Inv

-----------------------------------------------------------------------------
(* The processor *)

(* One step of Start to the next: only the cgroup and the policy of p change. *)
LEMMA ProceedStep ==
    ASSUME Inv, NEW p \in PUs, NEW a \in Launching, NEW b \in Launching, Serving(p, a), Goto(p, b),
           cgroup' \in [PUs -> Cgroups \cup {None}],
           \A q \in PUs : q # p => cgroup'[q] = cgroup[q],
           policed' \subseteq policed \cup {p}, policed \ {p} \subseteq policed',
           policed' \subseteq known', known' \subseteq PUs,
           b \in Answered \/ (p \in policed' => p \in policed /\ a \notin Answered),
           b \in Answered => Decided(p)' \/ (a \in Answered /\ (Decided(p) => Decided(p)')),
           \A q \in PUs : q # p /\ Decided(q) => Decided(q)',
           allowed' \subseteq PUs, stale' \subseteq PUs,
           CgroupOK(p)',
           UNCHANGED <<proc, agent, store, torn, phase, walk, faults, crashes>>
    PROVE  Inv'
<1>1. /\ server # None /\ server.pu = p /\ phase = "up" /\ walk = {}
      /\ \A ats : At(p, ats) <=> a \in ats
    BY ServingFacts, ZenonT(30) DEF Launching, Steps
<1>2. /\ server' \in Connections /\ server' # None /\ server'.pu = p
      /\ \A ats : At(p, ats)' <=> b \in ats
    BY GotoFacts, ZenonT(30) DEF Launching, Steps
<1>3. TypeOK' /\ PhaseOK'
    BY <1>1, <1>2, Zenon DEF Inv, TypeOK, PhaseOK
<1>4. ServedOK(p) /\ ReleaseOK(p) /\ PolicedOK(p)
    BY Zenon DEF Inv, Good
<1>5. /\ proc[p] = "launching" \/ (proc[p] = "none" /\ p \in faults)
      /\ agent[p] # "served"
    BY <1>1, <1>4, Zenon DEF ServedOK, Launching
<1>6. ServedOK(p)'
    BY <1>2, <1>5, Zenon DEF ServedOK, Launching
<1>7. ReleaseOK(p)'
    BY <1>1, <1>2, <1>4, <1>5, Zenon DEF ReleaseOK
<1>8. PolicedOK(p)'
    BY <1>1, <1>2, <1>4, <1>5, Zenon DEF PolicedOK, Decided
<1>9. ASSUME NEW q \in PUs, q # p PROVE Good(q)'
    <2>1. Same(q) /\ Good(q) /\ Elsewhere(q)
        BY <1>1, <1>2, <1>9, Zenon DEF Same, Elsewhere, Inv, Decided
    <2> QED
        BY ONLY <2>1, q \in PUs, Frame, Zenon
<1> QED
    BY <1>3, <1>6, <1>7, <1>8, <1>9, Zenon DEF Inv, Good

LEMMA StartEventStep ==
    ASSUME Inv, NEW p \in PUs, StartEvent(p)
    PROVE  Inv'
<1>1. Serving(p, "start") /\ UNCHANGED <<store, torn, phase, walk, faults, crashes>>
    BY Zenon DEF StartEvent
<1>2. CASE Respond(p, FALSE, cgroup) /\ UNCHANGED <<known, policed, allowed, stale>>
    <2>1. /\ cgroup \in [PUs -> Cgroups \cup {None}] /\ store' \subseteq PUs /\ torn' \subseteq store'
          /\ faults \subseteq faults' /\ faults' \subseteq PUs
        BY <1>1, Zenon DEF Inv, TypeOK
    <2>2. "start" \in Launching
        BY Zenon DEF Launching
    <2> QED
        BY <1>1, <1>2, <2>1, <2>2, AnswerStep, Zenon
<1>3. CASE known' = known \cup {p} /\ stale' = stale \ {p} /\ UNCHANGED <<proc, cgroup, agent>>
    <2>1. cgroup' \in [PUs -> Cgroups \cup {None}] /\ known' \subseteq PUs /\ policed \subseteq known
          /\ stale' \subseteq PUs /\ allowed \subseteq PUs
        BY <1>3, Zenon DEF Inv, TypeOK
    <2>2. ASSUME NEW b \in {"creategroup", "reject"}, Goto(p, b) PROVE CgroupOK(p)'
        <3>1. \A ats : At(p, ats)' <=> b \in ats
            BY <2>2, GotoFacts, Zenon DEF Steps
        <3> QED
            BY <3>1, Zenon DEF CgroupOK
    <2>3. CASE Goto(p, "creategroup") /\ policed' = policed \cup {p} /\ allowed' = allowed \ {p}
        <3>1. Decided(p)' /\ (\A q \in PUs : q # p /\ Decided(q) => Decided(q)')
              /\ allowed' \subseteq PUs
            BY <1>3, <2>1, <2>3, Zenon DEF Decided
        <3> QED
            BY <1>1, <1>3, <2>1, <2>2, <2>3, <3>1, ProceedStep, Zenon DEF Launching, Answered
    <2>4. CASE Goto(p, "creategroup") /\ policed' = policed /\ allowed' = allowed \cup {p}
        <3>1. Decided(p)' /\ (\A q \in PUs : q # p /\ Decided(q) => Decided(q)')
              /\ allowed' \subseteq PUs
            BY <1>3, <2>1, <2>4, Zenon DEF Decided
        <3> QED
            BY <1>1, <1>3, <2>1, <2>2, <2>4, <3>1, ProceedStep, Zenon DEF Launching, Answered
    <2>5. CASE Goto(p, "reject") /\ policed' \in {policed, policed \ {p}} /\ allowed' = allowed
        <3>1. (\A q \in PUs : q # p /\ Decided(q) => Decided(q)') /\ allowed' \subseteq PUs
            BY <1>3, <2>1, <2>5, Zenon DEF Decided
        <3> QED
            BY <1>1, <1>3, <2>1, <2>2, <2>5, <3>1, ProceedStep, Zenon DEF Launching, Answered
    <2> QED
        BY <1>2, <1>3, <2>3, <2>4, <2>5, Zenon DEF StartEvent, ctl
<1> QED
    BY <1>2, <1>3, Zenon DEF StartEvent, kernel, ctl

(* A failure of a file of the cgroup of p. *)
LEMMA FaultFacts ==
    ASSUME NEW p \in PUs, Inv, Fault(p)
    PROVE  faults \subseteq faults' /\ faults' \subseteq PUs /\ p \in faults'
BY Zenon DEF Fault, Inv, TypeOK

LEMMA CreategroupStep ==
    ASSUME Inv, NEW p \in PUs, Creategroup(p)
    PROVE  Inv'
<1> DEFINE g == IF cgroup[p] = None
                THEN [cgroup EXCEPT ![p] = [mark |-> FALSE, procs |-> FALSE]] ELSE cgroup
<1>1. /\ Serving(p, "creategroup") /\ UNCHANGED <<store, torn, known, policed, allowed, stale, phase, walk, crashes>>
      /\ \/ NoFault /\ cgroup' = g /\ Goto(p, "assignmark") /\ UNCHANGED <<proc, agent>>
         \/ Fault(p) /\ Respond(p, FALSE, g)
    BY Zenon DEF Creategroup, ctl
<1>2. g \in [PUs -> Cgroups \cup {None}] /\ g[p] # None
      /\ \A q \in PUs : q # p => g[q] = cgroup[q]
    <2>1. [mark |-> FALSE, procs |-> FALSE] \in Cgroups
        BY Zenon DEF Cgroups
    <2>2. [mark |-> FALSE, procs |-> FALSE] # None
        BY <2>1, NoneAssumption, Zenon
    <2> QED
        BY <2>1, <2>2, SMT DEF Inv, TypeOK
<1>3. /\ store' \subseteq PUs /\ torn' \subseteq store' /\ policed' \subseteq known' /\ known' \subseteq PUs
      /\ allowed' \subseteq PUs /\ stale' \subseteq PUs /\ \A q \in PUs : Decided(q) => Decided(q)'
    BY <1>1, Zenon DEF Inv, TypeOK, Decided
<1> HIDE DEF g
<1>4. CASE NoFault /\ cgroup' = g /\ Goto(p, "assignmark") /\ UNCHANGED <<proc, agent>>
    <2>1. \A ats : At(p, ats)' <=> "assignmark" \in ats
        BY <1>4, GotoFacts, Zenon DEF Steps
    <2>2. CgroupOK(p)'
        BY <1>2, <1>4, <2>1, Zenon DEF CgroupOK
    <2> QED
        BY <1>1, <1>2, <1>3, <1>4, <2>2, ProceedStep, Zenon DEF Launching, Answered, NoFault
<1>5. CASE Fault(p) /\ Respond(p, FALSE, g)
    BY <1>1, <1>2, <1>3, <1>5, FaultFacts, AnswerStep, ZenonT(30) DEF Launching
<1> QED
    BY <1>1, <1>4, <1>5, Zenon

LEMMA AssignMarkStep ==
    ASSUME Inv, NEW p \in PUs, AssignMark(p)
    PROVE  Inv'
<1>1. /\ Serving(p, "assignmark") /\ UNCHANGED <<store, torn, known, policed, allowed, stale, phase, walk, crashes>>
      /\ \/ /\ NoFault /\ cgroup[p] # None /\ cgroup' = [cgroup EXCEPT ![p].mark = TRUE]
            /\ Goto(p, "addprocess") /\ UNCHANGED <<proc, agent>>
         \/ Fault(p) /\ Respond(p, FALSE, DeleteCgroup(p))
    BY Zenon DEF AssignMark, ctl
<1>2. /\ cgroup \in [PUs -> Cgroups \cup {None}]
      /\ store' \subseteq PUs /\ torn' \subseteq store' /\ policed' \subseteq known' /\ known' \subseteq PUs
      /\ allowed' \subseteq PUs /\ stale' \subseteq PUs /\ \A q \in PUs : Decided(q) => Decided(q)'
    BY <1>1, Zenon DEF Inv, TypeOK, Decided
<1>3. CASE /\ NoFault /\ cgroup[p] # None /\ cgroup' = [cgroup EXCEPT ![p].mark = TRUE]
           /\ Goto(p, "addprocess") /\ UNCHANGED <<proc, agent>>
    <2> DEFINE h == [cgroup[p] EXCEPT !.mark = TRUE]
    <2>1. h \in Cgroups /\ h.mark /\ cgroup' = [cgroup EXCEPT ![p] = h]
        BY <1>2, <1>3, SetMark, Zenon
    <2> HIDE DEF h
    <2>2. cgroup' \in [PUs -> Cgroups \cup {None}] /\ cgroup'[p] = h
          /\ \A q \in PUs : q # p => cgroup'[q] = cgroup[q]
        BY <1>2, <2>1, SMT
    <2>3. \A ats : At(p, ats)' <=> "addprocess" \in ats
        BY <1>3, GotoFacts, Zenon DEF Steps
    <2>4. CgroupOK(p)'
        BY <2>1, <2>2, <2>3, NoneAssumption, Zenon DEF CgroupOK
    <2> QED
        BY <1>1, <1>2, <1>3, <2>2, <2>4, ProceedStep, Zenon DEF Launching, Answered, NoFault
<1>4. CASE Fault(p) /\ Respond(p, FALSE, DeleteCgroup(p))
    <2>1. PICK g \in [PUs -> Cgroups \cup {None}] :
              g = DeleteCgroup(p) /\ \A q \in PUs : q # p => g[q] = cgroup[q]
        BY <1>2, DeleteFacts, Zenon
    <2>2. Respond(p, FALSE, g)
        BY <1>4, <2>1, Zenon
    <2> QED
        BY <1>1, <1>2, <1>4, <2>1, <2>2, FaultFacts, AnswerStep, ZenonT(30) DEF Launching
<1> QED
    BY <1>1, <1>3, <1>4, Zenon

LEMMA AddProcessStep ==
    ASSUME Inv, NEW p \in PUs, AddProcess(p)
    PROVE  Inv'
<1>1. /\ Serving(p, "addprocess") /\ UNCHANGED <<store, torn, known, policed, allowed, stale, phase, walk, crashes>>
      /\ \/ /\ NoFault /\ Goto(p, "store") /\ UNCHANGED <<proc, agent>>
            /\ cgroup' = IF proc[p] = "launching"
                         THEN [cgroup EXCEPT ![p].procs = TRUE] ELSE cgroup
         \/ Fault(p) /\ Respond(p, FALSE, DeleteCgroup(p))
    BY Zenon DEF AddProcess, ctl
<1>2. /\ cgroup \in [PUs -> Cgroups \cup {None}]
      /\ store' \subseteq PUs /\ torn' \subseteq store' /\ policed' \subseteq known' /\ known' \subseteq PUs
      /\ allowed' \subseteq PUs /\ stale' \subseteq PUs /\ \A q \in PUs : Decided(q) => Decided(q)'
    BY <1>1, Zenon DEF Inv, TypeOK, Decided
<1>3. CASE /\ NoFault /\ Goto(p, "store") /\ UNCHANGED <<proc, agent>>
           /\ cgroup' = IF proc[p] = "launching"
                        THEN [cgroup EXCEPT ![p].procs = TRUE] ELSE cgroup
    <2>1. \A ats : (At(p, ats) <=> "addprocess" \in ats) /\ (At(p, ats)' <=> "store" \in ats)
        BY <1>1, <1>3, ServingFacts, GotoFacts, Zenon DEF Steps
    <2>2. cgroup[p] # None /\ cgroup[p].mark
        BY <2>1, Zenon DEF Inv, Good, CgroupOK
    <2> DEFINE h == IF proc[p] = "launching" THEN [cgroup[p] EXCEPT !.procs = TRUE] ELSE cgroup[p]
    <2>3. cgroup[p] \in Cgroups
        BY <1>2, <2>2, Zenon
    <2>4. h \in Cgroups /\ h.mark /\ (proc[p] = "launching" => h.procs)
        <3>1. [cgroup[p] EXCEPT !.procs = TRUE] \in Cgroups
              /\ [cgroup[p] EXCEPT !.procs = TRUE].mark = cgroup[p].mark
              /\ [cgroup[p] EXCEPT !.procs = TRUE].procs = TRUE
            BY <2>3, SetProcs, Zenon
        <3> QED
            BY <2>2, <2>3, <3>1, Zenon
    <2>5. cgroup' = [cgroup EXCEPT ![p] = h]
        <3>1. CASE proc[p] = "launching"
            BY <1>3, <3>1, Zenon
        <3>2. CASE proc[p] # "launching"
            <4>1. cgroup' = cgroup /\ h = cgroup[p]
                BY <1>3, <3>2, Zenon
            <4> QED
                BY <1>2, <4>1, SMT
        <3> QED
            BY <3>1, <3>2, Zenon
    <2> HIDE DEF h
    <2>6. cgroup' \in [PUs -> Cgroups \cup {None}] /\ cgroup'[p] = h
          /\ \A q \in PUs : q # p => cgroup'[q] = cgroup[q]
        BY <1>2, <2>4, <2>5, SMT
    <2>7. CgroupOK(p)'
        BY <1>3, <2>1, <2>4, <2>6, NoneAssumption, Zenon DEF CgroupOK
    <2> QED
        BY <1>1, <1>2, <1>3, <2>6, <2>7, ProceedStep, Zenon DEF Launching, Answered, NoFault
<1>4. CASE Fault(p) /\ Respond(p, FALSE, DeleteCgroup(p))
    <2>1. PICK g \in [PUs -> Cgroups \cup {None}] :
              g = DeleteCgroup(p) /\ \A q \in PUs : q # p => g[q] = cgroup[q]
        BY <1>2, DeleteFacts, Zenon
    <2>2. Respond(p, FALSE, g)
        BY <1>4, <2>1, Zenon
    <2> QED
        BY <1>1, <1>2, <1>4, <2>1, <2>2, FaultFacts, AnswerStep, ZenonT(30) DEF Launching
<1> QED
    BY <1>1, <1>3, <1>4, Zenon

LEMMA StoreContextStep ==
    ASSUME Inv, NEW p \in PUs, StoreContext(p)
    PROVE  Inv'
<1>1. /\ Serving(p, "store") \/ Serving(p, "reject")
      /\ store' = store \cup {p} /\ torn' = torn \ {p} /\ Respond(p, server.at = "store", cgroup)
      /\ UNCHANGED <<known, policed, allowed, stale, phase, walk, faults, crashes>>
    BY Zenon DEF StoreContext, Serving, ctl
<1>2. cgroup \in [PUs -> Cgroups \cup {None}] /\ store' \subseteq PUs /\ torn' \subseteq store'
      /\ faults' \subseteq PUs /\ faults \subseteq faults'
    BY <1>1, Zenon DEF Inv, TypeOK
<1>3. PICK a \in {"store", "reject"} : Serving(p, a)
    BY <1>1, Zenon
<1>4. server.at = a
    BY <1>3, ServingFacts, Zenon DEF Steps
<1>5. PICK ok \in BOOLEAN : ok <=> a = "store"
    BY Zenon
<1>6. Respond(p, ok, cgroup)
    BY <1>1, <1>4, <1>5, Zenon DEF Respond
<1>7. (ok => a = "store") /\ (~ ok => a \in {"start", "reject"}) /\ a \in Launching
    BY <1>3, <1>5, Zenon DEF Launching
<1> QED
    BY <1>1, <1>2, <1>3, <1>6, <1>7, AnswerStep, Zenon

(* Stop and Destroy, for a release agent. *)
LEMMA StopStep ==
    ASSUME Inv, NEW p \in PUs, Stop(p)
    PROVE  Inv'
<1>1. /\ Serving(p, "stop") /\ known' = known \ {p} /\ policed' = policed \ {p}
      /\ \/ Goto(p, "destroy") /\ agent' = agent
         \/ Close /\ AgentEnds(p)
      /\ UNCHANGED <<proc, cgroup, store, torn, allowed, stale, phase, walk, faults, crashes>>
    BY Zenon DEF Stop
<1>2. /\ server # None /\ server.pu = p /\ phase = "up" /\ walk = {}
      /\ \A ats : At(p, ats) <=> "stop" \in ats
    BY <1>1, ServingFacts, Zenon DEF Steps
<1>3. /\ server' \in Connections \cup {None}
      /\ server' # None => server'.pu = p
      /\ \A ats : At(p, ats)' => "destroy" \in ats
      /\ \/ agent' = agent /\ At(p, {"stop", "destroy"})'
         \/ AgentEnds(p) /\ \A ats : ~ At(p, ats)'
    BY <1>1, GotoFacts, CloseFacts, Zenon DEF Steps
<1>4. /\ agent' \in [PUs -> {"none", "pending", "served"}]
      /\ agent'[p] = "none" \/ agent'[p] = agent[p]
      /\ agent'[p] = "served" => At(p, {"stop", "destroy"})'
      /\ At(p, {"stop", "destroy"})' => agent'[p] # "none"
      /\ \A q \in PUs : q # p => agent'[q] = agent[q]
    <2>1. CASE agent' = agent /\ At(p, {"stop", "destroy"})'
        BY <1>2, <2>1, Zenon DEF Inv, TypeOK, Good, ServedOK
    <2>2. CASE AgentEnds(p) /\ \A ats : ~ At(p, ats)'
        BY <2>2, SMT DEF Inv, TypeOK, AgentEnds
    <2> QED
        BY <1>3, <2>1, <2>2, Zenon
<1>5. TypeOK' /\ PhaseOK'
    BY <1>1, <1>2, <1>3, <1>4, Zenon DEF Inv, TypeOK, PhaseOK
<1>6. ServedOK(p)' /\ CgroupOK(p)' /\ ReleaseOK(p)'
    BY <1>1, <1>3, <1>4, Zenon DEF ServedOK, CgroupOK, ReleaseOK, Launching
<1>7. PolicedOK(p)'
    <2>1. PolicedOK(p) /\ agent[p] # "none"
        BY <1>2, Zenon DEF Inv, Good, ServedOK
    <2> QED
        BY <1>1, <1>3, <1>4, <2>1, Zenon DEF PolicedOK, Decided, Answered
<1>8. ASSUME NEW q \in PUs, q # p PROVE Good(q)'
    BY <1>1, <1>2, <1>3, <1>4, <1>8, Frame, Zenon DEF Same, Elsewhere, Inv, Decided
<1> QED
    BY <1>5, <1>6, <1>7, <1>8, Zenon DEF Inv, Good

LEMMA DestroyStep ==
    ASSUME Inv, NEW p \in PUs, Destroy(p)
    PROVE  Inv'
<1>1. /\ Serving(p, "destroy") /\ cgroup' = DeleteCgroup(p)
      /\ store' = store \ {p} /\ torn' = torn \ {p}
      /\ AgentEnds(p) /\ Close /\ server' = None
      /\ UNCHANGED <<proc, known, policed, allowed, stale, phase, walk, faults, crashes>>
    BY Zenon DEF Destroy, ctl, Close
<1>2. /\ server # None /\ server.pu = p /\ phase = "up" /\ walk = {}
      /\ \A ats : At(p, ats) <=> "destroy" \in ats
    BY <1>1, ServingFacts, Zenon DEF Steps
<1>3. /\ agent' \in [PUs -> {"none", "pending", "served"}]
      /\ agent'[p] # "served" /\ (agent'[p] = "none" \/ agent'[p] = agent[p])
      /\ \A q \in PUs : q # p => agent'[q] = agent[q]
    BY <1>1, SMT DEF Inv, TypeOK, AgentEnds
<1>4. cgroup' \in [PUs -> Cgroups \cup {None}]
      /\ \A q \in PUs : q # p => cgroup'[q] = cgroup[q]
    BY <1>1, DeleteFacts, Zenon DEF Inv, TypeOK
<1>5. TypeOK' /\ PhaseOK'
    BY <1>1, <1>2, <1>3, <1>4, Zenon DEF Inv, TypeOK, PhaseOK
<1>6. p \notin policed' /\ PolicedOK(p) /\ agent[p] # "none"
    BY <1>1, <1>2, Zenon DEF Inv, Good, ServedOK
<1>7. \A ats : ~ At(p, ats)'
    BY <1>1, Zenon DEF At
<1>8. ServedOK(p)' /\ CgroupOK(p)' /\ ReleaseOK(p)'
    BY <1>3, <1>6, <1>7, Zenon DEF ServedOK, CgroupOK, ReleaseOK
<1>9. PolicedOK(p)'
    BY <1>1, <1>3, <1>6, <1>7, Zenon DEF PolicedOK, Decided
<1>10. ASSUME NEW q \in PUs, q # p PROVE Good(q)'
    BY <1>1, <1>2, <1>3, <1>4, <1>10, Frame, Zenon DEF Same, Elsewhere, Inv, Decided
<1> QED
    BY <1>5, <1>8, <1>9, <1>10, Zenon DEF Inv, Good

-----------------------------------------------------------------------------
(* Theorems *)

LEMMA InitInv == Init => Inv
<1> SUFFICES ASSUME Init PROVE Inv
    OBVIOUS
<1>1. TypeOK
    BY BoundAssumption, SMT DEF Init, TypeOK
<1>2. PhaseOK
    BY Zenon DEF Init, PhaseOK
<1>3. ASSUME NEW p \in PUs PROVE Good(p)
    BY Zenon DEF Init, Good, ServedOK, CgroupOK, ReleaseOK, PolicedOK, Decided, At
<1> QED
    BY <1>1, <1>2, <1>3, Zenon DEF Inv

LEMMA NextInv == Inv /\ [Next]_vars => Inv'
<1> SUFFICES ASSUME Inv, [Next]_vars PROVE Inv'
    OBVIOUS
<1>1. ASSUME NEW p \in PUs, Launch(p) \/ LauncherFails(p) \/ Exit(p) \/ AgentFails(p) PROVE Inv'
    BY <1>1, LaunchStep, LauncherFailsStep, ExitStep, AgentFailsStep, Zenon
<1>2. ASSUME NEW p \in PUs, AcceptLauncher(p) \/ AcceptAgent(p) \/ reSync(p) PROVE Inv'
    BY <1>2, AcceptLauncherStep, AcceptAgentStep, reSyncStep, Zenon
<1>3. ASSUME NEW p \in PUs, Handle(p) PROVE Inv'
    BY <1>3, StartEventStep, CreategroupStep, AssignMarkStep, AddProcessStep, StoreContextStep,
       StopStep, DestroyStep, Zenon DEF Handle
<1>4. CASE Start \/ Listen \/ Crash
    BY <1>4, StartStep, ListenStep, CrashStep, Zenon
<1>5. CASE UNCHANGED vars
    <2>1. UNCHANGED <<proc, cgroup, agent, store, torn, known, policed, allowed, stale, server, phase, walk,
                    faults, crashes>>
        BY <1>5, Zenon DEF vars, kernel, ctl
    <2>2. TypeOK' /\ PhaseOK'
        BY <2>1, Zenon DEF Inv, TypeOK, PhaseOK
    <2>3. ASSUME NEW q \in PUs PROVE Good(q)'
        BY <2>1, Frame, Zenon DEF Same, Inv, Decided
    <2> QED
        BY <2>2, <2>3, Zenon DEF Inv
<1> QED
    BY <1>1, <1>2, <1>3, <1>4, <1>5, Zenon DEF Next

(* The inductive invariant holds whatever fails, and however often the monitor
   crashes and restarts. *)
THEOREM Invariant == Spec => []Inv
BY InitInv, NextInv, PTL DEF Spec

(* Whenever the monitor crashes and restarts, whether or not process IDs come
   back, the controller polices no process that has
   gone without a release agent on the way (HandleCgroupStop), except where the
   set-up of that very process failed. *)
THEOREM NoGhostAlways == Spec => []NoGhost
<1>1. Inv => NoGhost
    BY Zenon DEF Inv, TypeOK, Good, ReleaseOK, NoGhost
<1> QED
    BY <1>1, Invariant, PTL

(* When process IDs are unique, a program runs only in a cgroup with its mark and
   while the controller polices it, across crashes and restarts: except a PU whose
   policy is AllowAll, and one that a crash of the monitor has left. *)
THEOREM RunningIsPolicedAlways ==
    ASSUME ~ CanReuse
    PROVE  Spec => []RunningIsPoliced
<1>1. Inv => RunningIsPoliced
    BY Zenon DEF Inv, Good, PolicedOK, Decided, Contained, RunningIsPoliced
<1> QED
    BY <1>1, Invariant, PTL
=============================================================================
