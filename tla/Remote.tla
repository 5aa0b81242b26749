-------------------------------- MODULE Remote --------------------------------
(* Remote enforcement: for each container the controller launches a process in
   the container's network namespace and drives it over RPC.  The module
   composes the two proxies (enforcer/proxy, supervisor/proxy), the process
   manager (processmon), the RPC client (rpcwrapper) and the server in the
   remote process (cmd/remoteenforcer), under the calls that the worker of the
   controller makes (trireme.go: create or update, and delete).

   One step is one RPC with what the proxy does around it.  A remote process
   can die at any time; an RPC to a dead process, or without a client, returns
   an error.  A handler that dereferences a nil Enforcer or Supervisor kills
   its process (net/rpc does not recover), and so does a second InitEnforcer
   (a netfilter queue can be bound only once: log.Fatal).                      *)
EXTENDS Naturals, FiniteSets

CONSTANTS
    PUs,         \* context IDs of containers
    Lists,       \* lists of excluded IPs
    FaultKinds,  \* what can go wrong: launch, dial, init, start, supervise,
                 \* exclude, crash
    MaxFaults,   \* how often; each kind once for each PU (a bound)
    None

(* The remote server: is Enforcer set, is Supervisor set, and what they hold:
   captured says that the rules of Supervisor.Start are there. *)
Fresh == [enf |-> FALSE, sup |-> FALSE, enforced |-> FALSE, supervised |-> FALSE,
          captured |-> FALSE, excl |-> None]
Procs == [enf : BOOLEAN, sup : BOOLEAN, enforced : BOOLEAN, supervised : BOOLEAN,
          captured : BOOLEAN, excl : Lists \cup {None}]

ASSUME FaultAssumption ==
    /\ FaultKinds \subseteq {"launch", "dial", "init", "start", "supervise", "exclude", "crash"}
    /\ MaxFaults \in Nat
ASSUME NoneAssumption == None \notin PUs /\ None \notin BOOLEAN /\ None \notin Procs

VARIABLES
    active,    \* processmon.activeProcesses: None, or the deleted flag of the entry
    client,    \* the PUs with an entry in rpcClientMap
    contexts,  \* the PUs in contextList of the RPC client
    proc,      \* the remote process: None when dead, else what its server holds
    initE,     \* initDone of the enforcer proxy
    initS,     \* initDone of the supervisor proxy
    excluded,  \* ExcludedIPs of the supervisor proxy
    runtime,   \* the PUs known to the controller
    running,   \* history: the PUs whose last create or update returned nil
    step,      \* the worker: its PU, its next call and whether it has met an error
    faults,    \* history: what has gone wrong, and for which PU
    recent,    \* history: what of it since the last request for that PU
    panicked

vars == <<active, client, contexts, proc, initE, initS, excluded, runtime, running, step, faults,
          recent, panicked>>
ctlVars == <<runtime, running, excluded>>

Step(at, p, ok) == [at |-> at, pu |-> p, ok |-> ok]
Idle == Step("idle", None, TRUE)

TypeOK ==
    /\ active \in [PUs -> BOOLEAN \cup {None}]
    /\ client \subseteq PUs /\ contexts \subseteq PUs /\ initE \subseteq PUs /\ initS \subseteq PUs
    /\ proc \in [PUs -> Procs \cup {None}]
    /\ excluded \in Lists \cup {None}
    /\ runtime \subseteq PUs /\ running \subseteq PUs
    /\ step \in [at : {"idle", "launch", "initEnforcer", "enforce", "initSupervisor", "supervise",
                       "rollback", "unsupervise", "unenforce", "reply"},
                 pu : PUs \cup {None}, ok : BOOLEAN]
    /\ faults \subseteq PUs \X FaultKinds /\ Cardinality(faults) <= MaxFaults
    /\ recent \subseteq faults
    /\ panicked \in BOOLEAN

Init ==
    /\ active = [p \in PUs |-> None]
    /\ client = {} /\ contexts = {} /\ initE = {} /\ initS = {}
    /\ proc = [p \in PUs |-> None]
    /\ excluded = None
    /\ runtime = {} /\ running = {}
    /\ step = Idle
    /\ faults = {} /\ recent = {} /\ panicked = FALSE

FaultOf(p, kind) ==
    /\ kind \in FaultKinds /\ <<p, kind>> \notin faults
    /\ Cardinality(faults) < MaxFaults
    /\ faults' = faults \cup {<<p, kind>>}
    /\ recent' = recent \cup {<<p, kind>>}
Fault(kind) == FaultOf(step.pu, kind)
NoFault == UNCHANGED <<faults, recent>>

At(s) == step.at = s /\ ~ panicked
P == step.pu
Goto(s) == step' = [step EXCEPT !.at = s]
Failed(s) == step' = [step EXCEPT !.at = s, !.ok = FALSE]

(* RemoteCall finds a client, and the process answers. *)
Reachable(p) == p \in client /\ proc[p] # None
Dies(p) == proc' = [proc EXCEPT ![p] = None]

-----------------------------------------------------------------------------
(* Requests of the controller *)

(* The worker takes a request: its first call is s. *)
Request(p, s) ==
    /\ step' = Step(s, p, TRUE)
    /\ recent' = recent \ ({p} \X FaultKinds)
    /\ UNCHANGED faults

Create(p) ==
    /\ step = Idle /\ ~ panicked
    /\ Request(p, "launch")
    /\ runtime' = runtime \cup {p}
    /\ UNCHANGED <<active, client, contexts, proc, initE, initS, excluded, running, panicked>>

Update(p) ==
    /\ step = Idle /\ ~ panicked
    /\ p \in runtime
    /\ Request(p, "launch")
    /\ UNCHANGED <<active, client, contexts, proc, initE, initS, ctlVars, panicked>>

Delete(p) ==
    /\ step = Idle /\ ~ panicked
    /\ p \in runtime
    /\ Request(p, "unsupervise")
    /\ running' = running \ {p}
    /\ UNCHANGED <<active, client, contexts, proc, initE, initS, excluded, runtime, panicked>>

Reply ==
    /\ At("reply")
    /\ running' = IF step.ok /\ P \in runtime THEN running \cup {P} ELSE running \ {P}
    /\ step' = Idle
    /\ NoFault
    /\ UNCHANGED <<active, client, contexts, proc, initE, initS, excluded, runtime, panicked>>

(* AddExcludedIPs of the supervisor proxy.  The list is kept for the next
   Supervise.  The RPC names a method the server does not have (AddExcludedIP):
   the loop over contexts ends at its first call, for a live PU or for one that
   has long been deleted, with an error and without an effect. *)
AddExcludedIPs(l) ==
    /\ ~ panicked
    /\ excluded' = l
    /\ NoFault
    /\ UNCHANGED <<active, client, contexts, proc, initE, initS, runtime, running, step, panicked>>

-----------------------------------------------------------------------------
(* Enforce of the enforcer proxy *)

(* LaunchProcess returns nil for a process it has in its table.  A client that
   cannot be dialled is not an error for it.  NewRPCClient appends the PU to
   contextList, where one more entry for the same PU makes no difference. *)
LaunchProcess ==
    /\ At("launch")
    /\ \/ /\ active[P] # None
          /\ Goto("initEnforcer")
          /\ NoFault /\ UNCHANGED <<active, client, contexts, proc>>
       \/ /\ active[P] = None
          /\ Fault("launch") /\ Failed("reply")
          /\ UNCHANGED <<active, client, contexts, proc>>
       \/ /\ active[P] = None
          /\ active' = [active EXCEPT ![P] = FALSE]
          /\ proc' = [proc EXCEPT ![P] = Fresh]
          /\ \/ NoFault /\ client' = client \cup {P} /\ contexts' = contexts \cup {P}
             \/ Fault("dial") /\ UNCHANGED <<client, contexts>>
          /\ Goto("initEnforcer")
    /\ UNCHANGED <<initE, initS, ctlVars, panicked>>

InitRemoteEnforcer ==
    /\ At("initEnforcer")
    /\ \/ /\ P \in initE
          /\ Goto("enforce")
          /\ NoFault /\ UNCHANGED <<proc, initE>>
       \/ /\ P \notin initE /\ Reachable(P) /\ ~ proc[P].enf
          /\ proc' = [proc EXCEPT ![P].enf = TRUE]
          /\ initE' = initE \cup {P}
          /\ NoFault /\ Goto("enforce")
       \/ /\ P \notin initE /\ Reachable(P) /\ proc[P].enf
          /\ Dies(P) /\ Failed("reply")
          /\ NoFault /\ UNCHANGED initE
       \/ /\ P \notin initE
          /\ IF Reachable(P) THEN Fault("init") ELSE NoFault
          /\ Failed("reply")
          /\ UNCHANGED <<proc, initE>>
    /\ UNCHANGED <<active, client, contexts, initS, ctlVars, panicked>>

Enforce ==
    /\ At("enforce")
    /\ \/ /\ Reachable(P) /\ proc[P].enf
          /\ proc' = [proc EXCEPT ![P].enforced = TRUE]
          /\ Goto("initSupervisor")
       \/ /\ Reachable(P) /\ ~ proc[P].enf
          /\ Dies(P) /\ Failed("reply")
       \/ /\ ~ Reachable(P)
          /\ Failed("reply") /\ UNCHANGED proc
    /\ NoFault
    /\ UNCHANGED <<active, client, contexts, initE, initS, ctlVars, panicked>>

-----------------------------------------------------------------------------
(* Supervise of the supervisor proxy *)

(* Bug: the first Supervise of a PU returns once the supervisor is there. *)
InitRemoteSupervisorReturns ==
    /\ At("initSupervisor")
    /\ \/ P \in initS /\ Goto("supervise") /\ UNCHANGED <<proc, initS>>
       \/ /\ P \notin initS /\ Reachable(P) /\ proc[P].enf
          /\ proc' = [proc EXCEPT ![P].sup = TRUE, ![P].captured = TRUE]
          /\ initS' = initS \cup {P}
          /\ Goto("reply")
    /\ NoFault
    /\ UNCHANGED <<active, client, contexts, initE, ctlVars, panicked>>

(* NewSupervisor refuses a nil Enforcer; a new supervisor holds no PU.  Its Start
   removes the rules that are there and installs the capture of SYNACK packets;
   InitSupervisor drops the error of Start and returns nil. *)
InitRemoteSupervisor ==
    /\ At("initSupervisor")
    /\ \/ /\ P \in initS
          /\ Goto("supervise")
          /\ NoFault /\ UNCHANGED <<proc, initS>>
       \/ /\ P \notin initS /\ Reachable(P) /\ proc[P].enf
          /\ \E started \in BOOLEAN :
                /\ IF started THEN NoFault ELSE Fault("start")
                /\ proc' = [proc EXCEPT ![P].sup = TRUE, ![P].supervised = FALSE,
                                        ![P].captured = started, ![P].excl = None]
          /\ initS' = initS \cup {P}
          /\ Goto("supervise")
       \/ /\ P \notin initS
          /\ IF Reachable(P) /\ proc[P].enf THEN Fault("init") ELSE NoFault
          /\ Failed("rollback")
          /\ UNCHANGED <<proc, initS>>
    /\ UNCHANGED <<active, client, contexts, initE, ctlVars, panicked>>

(* The server puts an error of its supervisor in the response only, and returns
   what AddExcludedIPs returns, after a Supervise that failed or not.  On an
   error the proxy forgets initDone. *)
Supervise ==
    /\ At("supervise")
    /\ \/ /\ Reachable(P) /\ proc[P].sup
          /\ \/ NoFault /\ proc' = [proc EXCEPT ![P].supervised = TRUE, ![P].excl = excluded]
             \/ Fault("supervise")
                /\ proc' = [proc EXCEPT ![P].supervised = FALSE, ![P].excl = excluded]
          /\ Goto("reply")
          /\ UNCHANGED initS
       \/ /\ Reachable(P) /\ proc[P].sup
          /\ Fault("exclude")
          /\ \E b \in BOOLEAN :
                proc' = [proc EXCEPT ![P].supervised = b, ![P].excl = excluded]
          /\ Failed("rollback") /\ initS' = initS \ {P}
       \/ /\ Reachable(P) /\ ~ proc[P].sup
          /\ Dies(P) /\ NoFault
          /\ Failed("rollback") /\ initS' = initS \ {P}
       \/ /\ ~ Reachable(P)
          /\ NoFault /\ UNCHANGED proc
          /\ Failed("rollback") /\ initS' = initS \ {P}
    /\ UNCHANGED <<active, client, contexts, initE, ctlVars, panicked>>

-----------------------------------------------------------------------------
(* Unsupervise, Unenforce and the end of the process *)

(* Bug: the process is told to exit, and forgotten when it does not answer. *)
KillProcessAsks(p, pr) ==
    IF active[p] = None THEN proc' = pr /\ UNCHANGED <<active, client, panicked>>
    ELSE /\ proc' = IF p \in client THEN [pr EXCEPT ![p] = None] ELSE pr
         /\ active' = [active EXCEPT ![p] = None]
         /\ client' = client \ {p}
         /\ UNCHANGED panicked

(* Bug: the entry of the process stays in the table. *)
KillProcessKeeps(p, pr) ==
    IF active[p] = None THEN proc' = pr /\ UNCHANGED <<active, client, panicked>>
    ELSE /\ proc' = [pr EXCEPT ![p] = None]
         /\ client' = client \ {p}
         /\ UNCHANGED <<active, panicked>>

(* KillProcess: the process exits when asked, or is killed.  DestroyRPCClient
   panics when there is no client, and leaves contextList as it is.  pr is the
   state of the processes so far. *)
KillProcess(p, pr) ==
    IF active[p] = None THEN proc' = pr /\ UNCHANGED <<active, client, panicked>>
    ELSE /\ proc' = [pr EXCEPT ![p] = None]
         /\ IF p \in client
            THEN /\ active' = [active EXCEPT ![p] = None]
                 /\ client' = client \ {p}
                 /\ UNCHANGED panicked
            ELSE panicked' = TRUE /\ UNCHANGED <<active, client>>

(* The first of the two proxies marks the process, the second one kills it.  A
   process that is not in the table counts as marked. *)
MarkOrKill(p, pr) ==
    IF active[p] = FALSE
    THEN /\ active' = [active EXCEPT ![p] = TRUE]
         /\ proc' = pr
         /\ UNCHANGED <<client, panicked>>
    ELSE KillProcess(p, pr)

(* The processes after the RPC Unsupervise. *)
Unsupervised ==
    IF ~ Reachable(P) THEN proc
    ELSE IF proc[P].sup THEN [proc EXCEPT ![P].supervised = FALSE]
    ELSE [proc EXCEPT ![P] = None]

(* Bug: initDone survives the process. *)
UnsuperviseKeepsInit ==
    /\ At("unsupervise")
    /\ MarkOrKill(P, Unsupervised)
    /\ step' = [step EXCEPT !.at = "unenforce"]
    /\ NoFault /\ UNCHANGED <<contexts, initE, initS, ctlVars>>

(* Errors of the RPC are only logged. *)
Unsupervise ==
    /\ At("unsupervise")
    /\ initS' = initS \ {P}
    /\ MarkOrKill(P, Unsupervised)
    /\ step' = [step EXCEPT !.at = "unenforce"]
    /\ NoFault /\ UNCHANGED <<contexts, initE, ctlVars>>

(* Unenforce of the enforcer proxy: an error of the RPC ends it early. *)
UnenforceProxy ==
    \/ /\ Reachable(P) /\ proc[P].enf /\ proc[P].enforced
       /\ initE' = initE \ {P}
       /\ MarkOrKill(P, [proc EXCEPT ![P].enforced = FALSE])
       /\ Goto("reply")
    \/ /\ Reachable(P) /\ proc[P].enf /\ ~ proc[P].enforced
       /\ Failed("reply") /\ UNCHANGED <<active, client, proc, initE, panicked>>
    \/ /\ Reachable(P) /\ ~ proc[P].enf
       /\ Dies(P)
       /\ Failed("reply") /\ UNCHANGED <<active, client, initE, panicked>>
    \/ /\ ~ Reachable(P)
       /\ Failed("reply") /\ UNCHANGED <<active, client, proc, initE, panicked>>

Unenforce ==
    /\ At("unenforce")
    /\ UnenforceProxy
    /\ runtime' = runtime \ {P}
    /\ NoFault /\ UNCHANGED <<contexts, initS, excluded, running>>

(* The controller undoes Enforce after a failing Supervise. *)
Rollback ==
    /\ At("rollback")
    /\ UnenforceProxy
    /\ NoFault /\ UNCHANGED <<contexts, initS, ctlVars>>

(* A remote process dies; collectChildExitStatus only logs its exit. *)
Crash(p) ==
    /\ proc[p] # None /\ ~ panicked
    /\ FaultOf(p, "crash")
    /\ Dies(p)
    /\ UNCHANGED <<active, client, contexts, initE, initS, ctlVars, step, panicked>>

Next ==
    \/ \E p \in PUs : Create(p) \/ Update(p) \/ Delete(p) \/ Crash(p)
    \/ \E l \in Lists : AddExcludedIPs(l)
    \/ LaunchProcess \/ InitRemoteEnforcer \/ Enforce
    \/ InitRemoteSupervisor \/ Supervise
    \/ Rollback \/ Unsupervise \/ Unenforce \/ Reply

Spec == Init /\ [][Next]_vars

-----------------------------------------------------------------------------
(* Properties *)

(* What has gone wrong for a PU: ever, and since the last request for it. *)
Suffered(p) == {k \in FaultKinds : <<p, k>> \in faults}
Lately(p) == {k \in FaultKinds : <<p, k>> \in recent}

(* A PU whose last create or update returned nil is enforced and supervised in a
   live process whose supervisor was started.  A nil is wrong only when the
   process has died since that request, when Supervise failed inside the remote
   during it (the server drops that error), or when a Start has failed in a
   process of this PU (InitSupervisor drops that one).  A process that died
   before, a launch, a connection or an initialisation that failed, and whatever
   happens to other PUs, never end in a nil. *)
RunningIsPoliced ==
    step = Idle => \A p \in running : "crash" \notin Lately(p) =>
        /\ proc[p] # None /\ proc[p].enforced
        /\ "supervise" \notin Lately(p) => proc[p].supervised
        /\ "start" \notin Suffered(p) => proc[p].captured

(* A PU that is deleted has no process, whatever has failed for it but the
   connection to its process: a crash or a failed initialisation leaves none
   behind, however often the PU is created again.  And unless its own process
   died, could not be reached or could not be initialised, the initDone of the
   proxies, the table of processmon and the client map of the RPC client have
   forgotten it, so that the PU can be created again.  (contextList has not, see
   ContextsAreActive.) *)
DeletedIsGone ==
    step = Idle => \A p \in PUs \ runtime :
        /\ "dial" \notin Suffered(p) => proc[p] = None
        /\ Suffered(p) \cap {"dial", "init", "crash"} = {} =>
              active[p] = None /\ p \notin client \cup initE \cup initS

(* Whatever fails, no process is orphaned: one that lives is in the table of
   processmon, so it can be killed and is not launched twice. *)
NoOrphan == \A p \in PUs : proc[p] # None => active[p] # None

(* Whatever fails, the supervisor proxy calls Supervise only in a process whose
   supervisor it has initialised: its initDone never outlives the process. *)
SuperviseAfterInit ==
    \A p \in initS : proc[p] # None => proc[p].sup

(* "Enforce this method calls the enforce method on the enforcer created during
   initenforcer" (remoteenforcer_linux.go:235): the enforcer proxy calls it only
   in a process whose enforcer has been created. *)
EnforceAfterInit ==
    At("enforce") /\ Reachable(P) => proc[P].enf

(* "We are good here now add the Excluded ip list as well"
   (remoteenforcer_linux.go:208): a Supervise that returns nil has supervised. *)
SuperviseReported ==
    At("reply") /\ step.ok /\ P \in runtime /\ proc[P] # None => proc[P].supervised

(* "AddExcludedIPs call addexcluded ip on the remote supervisor"
   (supervisorproxy.go:166): the remote supervisors have the list. *)
ExclusionsReachRemotes ==
    step = Idle => \A p \in running : proc[p] # None => proc[p].excl = excluded

(* "InitSupervisor ... initializes data structure required by the supervisor"
   (remoteenforcer_linux.go:123): one that returned nil has started it. *)
StartReported ==
    At("supervise") /\ proc[P] # None => proc[P].captured

(* "ContextList returns the list of active context managed by the rpcwrapper"
   (rpc_handle.go:177), to which AddExcludedIPs sends. *)
ContextsAreActive == contexts \subseteq client

(* "KillProcess sends a rpc to the process to exit failing which it will kill
   the process" (processmon.go:155): it never brings the controller down. *)
KillReturns == ~ panicked
=============================================================================
