----------------------------- MODULE Supervisor -----------------------------
(* The supervisor (supervisor/supervisor.go) on top of the iptables controller
   (supervisor/iptablesctrl): it keeps one versioned pair of chains for each
   processing unit (PU) and the rules that send the PU's traffic there.

   Every operation is a list of iptables commands, built here as the code
   builds it.  One command is one step: other goroutines and the traffic see
   the kernel between two commands, and any command may fail.  What the code
   does with a failure is part of the command: "abort" returns the error to
   the supervisor, which runs Unsupervise; "skip" gives up the rest of the
   list (processRulesFromList) and goes on; "ignore" only logs.

   Three goroutines run commands: the worker of the controller (Supervise,
   Unsupervise), the caller of AddExcludedIPs and the caller of Start or Stop.
   A process crash loses the tracker and keeps the kernel's rules.

   The rules of a chain are abstracted to its parts: the traps to user space,
   the explicit ACLs and the closing rules that drop everything else.  An
   address is the default IP of the policy, or the mark and ports of the PU in
   LocalServer mode; NoAddr is a policy (or runtime) that has none.            *)
EXTENDS Naturals, FiniteSets, Sequences, SequencesExt

CONSTANTS
    PUs,          \* context IDs
    Setups,       \* the deployments considered, and what goes wrong in each
    NoAddr, None

Modes == {"LocalContainer", "RemoteContainer", "LocalServer"}

(* A setup: the mode, the addresses policies give each PU, the lists that
   AddExcludedIPs is called with, whether Stop may be called, and bounds on the
   policy updates in a row, on the iptables commands that fail for an outside
   reason and on crashes. *)
ASSUME SetupAssumption == \A s \in Setups :
    s.mode \in Modes /\ {s.versions, s.faults, s.crashes} \subseteq Nat

VARIABLES
    chains,     \* kernel: the parts in each chain, None where it does not exist
    section,    \* kernel: the rules of the section each hook starts from
    tracker,    \* versionTracker: version and address of each supervised PU
    excluded,   \* excludedIPs
    todo,       \* the commands each goroutine still has to run
    job,        \* the Supervise in progress
    installed,  \* history: the address of the last Supervise, if it returned nil
    excused,    \* history: whose commands failed since Start, or whose request was in
                \* progress since Stop was called
    phase,      \* off, starting, running, stopping, stopped
    setup       \* the setup, with the faults and crashes still to come

kernel == <<chains, section>>
vars == <<kernel, tracker, excluded, todo, job, installed, excused, phase, setup>>

(* The raw table holds application chains; "app" and "net" are the application
   and network chains of the mangle table. *)
Tables == {"raw", "app", "net"}
Mode == setup.mode
MaxVersion == setup.versions
HookSeq == IF Mode = "LocalContainer" THEN <<"raw", "app", "net">> ELSE <<"app", "net">>
Hooks == Range(HookSeq)
Threads == {"worker", "excluder", "control"}
Chains == PUs \X (0 .. MaxVersion)
Parts == {"trap", "acl", "drop"}
AllAddrs == UNION {setup.addrs[p] : p \in PUs}

(***************************************************************************)
(* Rules and command lists                                                 *)
(***************************************************************************)
Rule(kind, addr, chain) == [kind |-> kind, addr |-> addr, chain |-> chain]
Cmd(op, tbl, arg, err) == [op |-> op, tbl |-> tbl, arg |-> arg, err |-> err]
Commands(op, list, err) == [i \in DOMAIN list |-> Cmd(op, list[i][1], list[i][2], err)]

(* An early return of an error, before or between the commands. *)
ReturnError == <<Cmd("return", "app", None, "abort")>>

(* The rules that send the traffic of an address to a chain. *)
chainRules(c, a) == [i \in DOMAIN HookSeq |-> <<HookSeq[i], Rule("jump", a, c)>>]

cgroupChainRules(c, a) ==
    <<<<"app", Rule("mark", a, None)>>, <<"app", Rule("jump", a, c)>>, <<"net", Rule("jump", a, c)>>>>

ChainRules(c, a) == IF Mode = "LocalServer" THEN cgroupChainRules(c, a) ELSE chainRules(c, a)

exclusionChainRules(ips) ==
    FlattenSeq([i \in DOMAIN ips |->
        [j \in DOMAIN HookSeq |-> <<HookSeq[j], Rule("exclude", ips[i], None)>>]])

(* defaultIP and the mark: an address the mode cannot do without. *)
NoIP(a) == a = NoAddr /\ Mode = "LocalContainer"
NoMark(a) == a = NoAddr /\ Mode = "LocalServer"

addContainerChain(c) == [i \in DOMAIN HookSeq |-> Cmd("NewChain", HookSeq[i], c, "abort")]

(* Bug: a rule that could not be added is only logged. *)
addChainRulesIgnores(c, a) ==
    IF NoMark(a) THEN ReturnError ELSE Commands("Append", ChainRules(c, a), "ignore")

addChainRules(c, a) ==
    IF NoMark(a) THEN ReturnError ELSE Commands("Append", ChainRules(c, a), "abort")

Fill(c, h, part) == Cmd("Fill", h, <<c, part>>, "abort")
addPacketTrap(c) == [i \in DOMAIN HookSeq |-> Fill(c, HookSeq[i], "trap")]
addAppACLs(c) == <<Fill(c, "app", "acl"), Fill(c, "app", "drop")>>
addNetACLs(c) == <<Fill(c, "net", "acl"), Fill(c, "net", "drop")>>

deleteAllContainerChains(c) ==
    FlattenSeq([i \in 1 .. 3 |-> LET t == <<"raw", "app", "net">>[i] IN
        <<Cmd("ClearChain", t, c, "ignore"), Cmd("DeleteChain", t, c, "ignore")>>])

ConfigureRules(c, a) ==
    IF NoIP(a) THEN ReturnError
    ELSE addContainerChain(c) \o addChainRules(c, a) \o addPacketTrap(c)
            \o addAppACLs(c) \o addNetACLs(c)

DeleteRules(c, a) ==
    IF NoIP(a) THEN <<>>
    ELSE Commands("Delete", ChainRules(c, a), "skip") \o deleteAllContainerChains(c)

(* Bug: the mapping of the old chain is removed before the new one is there. *)
UpdateRulesUnmapsFirst(c, old, a) ==
    addContainerChain(c) \o addPacketTrap(c) \o addAppACLs(c) \o addNetACLs(c)
      \o Commands("Delete", ChainRules(old, a), "abort") \o addChainRules(c, a)
      \o deleteAllContainerChains(old)

(* Bug: the old chain is not deleted. *)
UpdateRulesKeepsChain(c, old, a) ==
    addContainerChain(c) \o addPacketTrap(c) \o addAppACLs(c) \o addNetACLs(c)
      \o addChainRules(c, a) \o Commands("Delete", ChainRules(old, a), "abort")

(* The mapping to the old chain is deleted with the address of the new policy. *)
UpdateRules(c, old, a) ==
    IF NoIP(a) THEN ReturnError
    ELSE addContainerChain(c) \o addPacketTrap(c) \o addAppACLs(c) \o addNetACLs(c)
            \o addChainRules(c, a)
            \o Commands("Delete", ChainRules(old, a), "abort")
            \o deleteAllContainerChains(old)

(* Unsupervise runs DeleteRules with what the tracker remembers. *)
Forget(p) == Cmd("forget", "app", p, "ignore")
UnsuperviseCmds(p, entry) == DeleteRules(<<p, entry.version>>, entry.addr) \o <<Forget(p)>>

(* cleanACLSection: flush the section, then every chain the table lists. *)
cleanACLSection(h) ==
    <<Cmd("ClearSection", h, None, "ignore"), Cmd("ListChains", h, None, "ignore")>>

BaseRule == Rule("base", NoAddr, None)

(* Bug: the network section is forgotten, so its chains stay referenced. *)
cleanACLsAppOnly == cleanACLSection("raw") \o cleanACLSection("app")

(* The mark rule or the SYNACK captures, then the sections. *)
cleanACLs ==
    (IF Mode = "LocalContainer" THEN <<Cmd("Delete", "app", BaseRule, "ignore")>> ELSE <<>>)
    \o (IF Mode = "LocalServer"
        THEN <<Cmd("Delete", "app", BaseRule, "ignore"), Cmd("Delete", "net", BaseRule, "ignore")>>
        ELSE <<>>)
    \o FlattenSeq([i \in DOMAIN HookSeq |-> cleanACLSection(HookSeq[i])])

(* acceptMarkedPackets or CaptureSYNACKPackets. *)
StartCmds ==
    cleanACLs \o <<Cmd("Insert", "app", BaseRule, "abort")>>
    \o (IF Mode = "LocalContainer" THEN <<>> ELSE <<Cmd("Insert", "net", BaseRule, "abort")>>)
-----------------------------------------------------------------------------
(***************************************************************************)
(* State                                                                   *)
(***************************************************************************)
Rules == [kind : {"jump", "mark", "exclude", "base"},
          addr : AllAddrs \cup {NoAddr} \cup UNION {Range(l) : l \in setup.lists},
          chain : Chains \cup {None}]
Ops == {"NewChain", "ClearChain", "DeleteChain", "Append", "Insert", "Delete", "Fill",
        "ClearSection", "ListChains", "forget", "return"}

TypeOK ==
    /\ chains \in [Tables -> [Chains -> (SUBSET Parts) \cup {None}]]
    /\ \A t \in Tables : Range(section[t]) \subseteq Rules
    /\ tracker \in [PUs -> [version : 0 .. MaxVersion, addr : AllAddrs] \cup {None}]
    /\ excluded \in setup.lists \cup {<<>>}
    /\ \A t \in Threads : \A i \in DOMAIN todo[t] :
          todo[t][i].op \in Ops /\ todo[t][i].err \in {"abort", "skip", "ignore"}
    /\ job # None => job.pu \in PUs /\ job.addr \in AllAddrs /\ job.ok \in BOOLEAN
    /\ installed \in [PUs -> AllAddrs \cup {None}]
    /\ excused \subseteq PUs \cup {"excluder"}
    /\ phase \in {"off", "starting", "running", "stopping", "stopped"}
    /\ setup.faults \in Nat /\ setup.crashes \in Nat

Init ==
    /\ setup \in Setups
    /\ chains = [t \in Tables |-> [c \in Chains |-> None]]
    /\ section = [t \in Tables |-> <<>>]
    /\ tracker = [p \in PUs |-> None]
    /\ excluded = <<>>
    /\ todo = [t \in Threads |-> <<>>]
    /\ job = None
    /\ installed = [p \in PUs |-> None]
    /\ excused = {}
    /\ phase = "off"

Idle == job = None /\ \A t \in Threads : todo[t] = <<>>

(***************************************************************************)
(* iptables (external): one command, its effect and when it is refused     *)
(***************************************************************************)
Exists(t, c) == chains[t][c] # None
Referenced(t, c) == \E i \in DOMAIN section[t] : section[t][i].chain = c

Refused(c) ==
    CASE c.op = "NewChain"    -> Exists(c.tbl, c.arg)
      [] c.op = "DeleteChain" -> \/ ~ Exists(c.tbl, c.arg)
                                 \/ chains[c.tbl][c.arg] # {}
                                 \/ Referenced(c.tbl, c.arg)
      [] c.op = "Fill"        -> ~ Exists(c.tbl, c.arg[1])
      [] c.op \in {"Append", "Insert"} -> c.arg.kind = "jump" /\ ~ Exists(c.tbl, c.arg.chain)
      [] c.op = "Delete"      -> c.arg \notin Range(section[c.tbl])
      [] c.op = "return"      -> TRUE
      [] OTHER                -> FALSE

(* The command at the head of a goroutine's list succeeds. *)
Run(t, op) ==
    /\ todo[t] # <<>>
    /\ Head(todo[t]).op = op
    /\ ~ Refused(Head(todo[t]))
    /\ UNCHANGED <<excluded, job, phase, setup, excused>>

Proceed(t) == todo' = [todo EXCEPT ![t] = Tail(@)]

SetChain(t, c, parts) == chains' = [chains EXCEPT ![t][c] = parts] /\ UNCHANGED section
SetSection(t, rules) == section' = [section EXCEPT ![t] = rules] /\ UNCHANGED chains

NewChain(t) == Run(t, "NewChain") /\ Proceed(t) /\ UNCHANGED <<tracker, installed>>
               /\ LET c == Head(todo[t]) IN SetChain(c.tbl, c.arg, {})

(* ClearChain also creates a chain that does not exist. *)
ClearChain(t) == Run(t, "ClearChain") /\ Proceed(t) /\ UNCHANGED <<tracker, installed>>
                 /\ LET c == Head(todo[t]) IN SetChain(c.tbl, c.arg, {})

DeleteChain(t) == Run(t, "DeleteChain") /\ Proceed(t) /\ UNCHANGED <<tracker, installed>>
                  /\ LET c == Head(todo[t]) IN SetChain(c.tbl, c.arg, None)

FillChain(t) == Run(t, "Fill") /\ Proceed(t) /\ UNCHANGED <<tracker, installed>>
                /\ LET c == Head(todo[t]) IN
                   SetChain(c.tbl, c.arg[1], chains[c.tbl][c.arg[1]] \cup {c.arg[2]})

AppendRule(t) == Run(t, "Append") /\ Proceed(t) /\ UNCHANGED <<tracker, installed>>
                 /\ LET c == Head(todo[t]) IN SetSection(c.tbl, Append(section[c.tbl], c.arg))

InsertRule(t) == Run(t, "Insert") /\ Proceed(t) /\ UNCHANGED <<tracker, installed>>
                 /\ LET c == Head(todo[t]) IN SetSection(c.tbl, <<c.arg>> \o section[c.tbl])

DeleteRule(t) ==
    Run(t, "Delete") /\ Proceed(t) /\ UNCHANGED <<tracker, installed>>
    /\ LET c == Head(todo[t]) IN
       SetSection(c.tbl, RemoveFirst(section[c.tbl], c.arg))

ClearSection(t) == Run(t, "ClearSection") /\ Proceed(t) /\ UNCHANGED <<tracker, installed>>
                   /\ SetSection(Head(todo[t]).tbl, <<>>)

(* The chains of a table with the trireme prefix, application and network
   chains alike, are each cleared and deleted. *)
ListChains(t) ==
    /\ Run(t, "ListChains")
    /\ LET h == Head(todo[t]).tbl
           same == IF h = "raw" THEN {"raw"} ELSE {"app", "net"}
           found == SetToSeq({x \in same \X Chains : Exists(x[1], x[2])})
           clean == FlattenSeq([i \in DOMAIN found |->
                       <<Cmd("ClearChain", found[i][1], found[i][2], "ignore"),
                         Cmd("DeleteChain", found[i][1], found[i][2], "ignore")>>])
       IN  todo' = [todo EXCEPT ![t] = clean \o Tail(@)]
    /\ UNCHANGED <<kernel, tracker, installed>>

(* versionTracker.Remove, the last step of Unsupervise. *)
ForgetPU(t) ==
    Run(t, "forget") /\ Proceed(t)
    /\ tracker' = [tracker EXCEPT ![Head(todo[t]).arg] = None]
    /\ UNCHANGED <<kernel, installed>>

(* The rest of a list that processRulesFromList gave up. *)
SkipList(s) ==
    LET i == SelectInSeq(s, LAMBDA c : c.err # "skip")
    IN  IF i = 0 THEN <<>> ELSE SubSeq(s, i, Len(s))

(* Who suffers when a command of a goroutine fails: the PU the worker works on,
   the exclusion list, or (cleaning, at Start and Stop) everyone. *)
Victims(t) ==
    CASE t = "worker"   -> {p \in PUs : (job # None /\ job.pu = p) \/ Forget(p) \in Range(todo[t])}
      [] t = "excluder" -> {"excluder"}
      [] t = "control"  -> PUs \cup {"excluder"}

(* The command fails: the kernel refuses it, or for an outside reason.  A
   refusal that the code only logs or skips is no failure of the operation. *)
Fail(t) ==
    /\ todo[t] # <<>>
    /\ LET c == Head(todo[t]) IN
       /\ Refused(c) \/ (c.op # "forget" /\ setup.faults > 0)
       /\ setup' = IF Refused(c) THEN setup ELSE [setup EXCEPT !.faults = @ - 1]
       /\ excused' = IF Refused(c) /\ c.err # "abort" THEN excused ELSE excused \cup Victims(t)
       /\ todo' = [todo EXCEPT ![t] =
             CASE c.err = "ignore" -> Tail(@)
               [] c.err = "skip"   -> SkipList(@)
               [] c.err = "abort"  ->
                    IF t = "worker" THEN UnsuperviseCmds(job.pu, tracker[job.pu]) ELSE <<>>]
       /\ IF t = "worker" /\ c.err = "abort"
          THEN /\ job' = [job EXCEPT !.ok = FALSE]
               /\ installed' = [installed EXCEPT ![job.pu] = None]
          ELSE UNCHANGED <<job, installed>>
    /\ UNCHANGED <<kernel, tracker, excluded, phase>>

-----------------------------------------------------------------------------
(***************************************************************************)
(* Operations of the supervisor                                            *)
(***************************************************************************)
WorkerFree == phase \in {"running", "stopping"} /\ job = None /\ todo["worker"] = <<>>

(* doCreatePU: version 0, tracked before the rules are configured. *)
Create(p, a) ==
    /\ tracker[p] = None
    /\ tracker' = [tracker EXCEPT ![p] = [version |-> 0, addr |-> a]]
    /\ todo' = [todo EXCEPT !["worker"] = ConfigureRules(<<p, 0>>, a)]

(* doUpdatePU: the next version; the tracked address stays the first one. *)
Update(p, a) ==
    /\ tracker[p] # None
    /\ LET v == tracker[p].version IN
       /\ v < MaxVersion
       /\ tracker' = [tracker EXCEPT ![p].version = v + 1]
       /\ todo' = [todo EXCEPT !["worker"] = UpdateRules(<<p, v + 1>>, <<p, v>>, a)]

Supervise(p, a) ==
    /\ WorkerFree
    /\ Create(p, a) \/ Update(p, a)
    /\ job' = [pu |-> p, addr |-> a, ok |-> TRUE]
    /\ excused' = IF phase = "stopping" THEN excused \cup {p} ELSE excused
    /\ UNCHANGED <<kernel, excluded, installed, phase, setup>>

(* Supervise returns to the controller. *)
Return ==
    /\ job # None /\ todo["worker"] = <<>>
    /\ installed' = IF job.ok THEN [installed EXCEPT ![job.pu] = job.addr] ELSE installed
    /\ job' = None
    /\ UNCHANGED <<kernel, tracker, excluded, todo, phase, setup, excused>>

(* A PU without a version is an error and nothing else happens. *)
Unsupervise(p) ==
    /\ WorkerFree
    /\ tracker[p] # None
    /\ todo' = [todo EXCEPT !["worker"] = UnsuperviseCmds(p, tracker[p])]
    /\ installed' = [installed EXCEPT ![p] = None]
    /\ excused' = IF phase = "stopping" THEN excused \cup {p} ELSE excused
    /\ UNCHANGED <<kernel, tracker, excluded, job, phase, setup>>

(* Bug: what is removed is the new list. *)
AddExcludedIPsRemovesNew(l) ==
    /\ phase = "running" /\ todo["excluder"] = <<>>
    /\ todo' = [todo EXCEPT !["excluder"] =
                  Commands("Delete", exclusionChainRules(l), "skip")
                  \o Commands("Insert", exclusionChainRules(l), "abort")]
    /\ excluded' = l
    /\ UNCHANGED <<kernel, tracker, job, installed, phase, setup, excused>>

(* Remove the old list, whatever that gives, and insert the new one. *)
AddExcludedIPs(l) ==
    /\ phase = "running" /\ todo["excluder"] = <<>>
    /\ todo' = [todo EXCEPT !["excluder"] =
                  Commands("Delete", exclusionChainRules(excluded), "skip")
                  \o Commands("Insert", exclusionChainRules(l), "abort")]
    /\ excluded' = l
    /\ UNCHANGED <<kernel, tracker, job, installed, phase, setup, excused>>

Start ==
    /\ phase = "off"
    /\ phase' = "starting"
    /\ todo' = [todo EXCEPT !["control"] = StartCmds]
    /\ UNCHANGED <<kernel, tracker, excluded, job, installed, setup, excused>>

(* The controller starts its worker even when Start returned an error. *)
Started ==
    /\ phase = "starting" /\ todo["control"] = <<>>
    /\ phase' = "running"
    /\ UNCHANGED <<kernel, tracker, excluded, todo, job, installed, setup, excused>>

(* Stop cleans while the worker is still running... *)
Stop ==
    /\ setup.stop /\ phase = "running"
    /\ phase' = "stopping"
    /\ todo' = [todo EXCEPT !["control"] = cleanACLs]
    /\ excused' = excused \cup Victims("worker")
    /\ UNCHANGED <<kernel, tracker, excluded, job, installed, setup>>

(* ... and then waits until the worker takes the stop signal. *)
Stopped ==
    /\ phase = "stopping" /\ todo["control"] = <<>> /\ WorkerFree
    /\ phase' = "stopped"
    /\ UNCHANGED <<kernel, tracker, excluded, todo, job, installed, setup, excused>>

(* The process dies: what it had in memory is gone, the kernel's rules stay. *)
Crash ==
    /\ phase # "off" /\ setup.crashes > 0
    /\ setup' = [setup EXCEPT !.crashes = @ - 1]
    /\ phase' = "off" /\ job' = None /\ excluded' = <<>>
    /\ tracker' = [p \in PUs |-> None]
    /\ installed' = [p \in PUs |-> None]
    /\ excused' = {}
    /\ todo' = [t \in Threads |-> <<>>]
    /\ UNCHANGED kernel

IPTables(t) ==
    \/ NewChain(t) \/ ClearChain(t) \/ DeleteChain(t) \/ FillChain(t)
    \/ AppendRule(t) \/ InsertRule(t) \/ DeleteRule(t)
    \/ ClearSection(t) \/ ListChains(t) \/ ForgetPU(t) \/ Fail(t)

Next ==
    \/ \E t \in Threads : IPTables(t)
    \/ \E p \in PUs : \E a \in setup.addrs[p] : Supervise(p, a)
    \/ \E p \in PUs : Unsupervise(p)
    \/ \E l \in setup.lists : AddExcludedIPs(l)
    \/ Return \/ Start \/ Started \/ Stop \/ Stopped \/ Crash

Spec == Init /\ [][Next]_vars

-----------------------------------------------------------------------------
(***************************************************************************)
(* Properties                                                              *)
(***************************************************************************)
Complete(h) == IF h = "raw" THEN {"trap"} ELSE Parts

(* The chain that the first rule for an address leads to. *)
Governing(h, a) ==
    LET i == SelectInSeq(section[h], LAMBDA r : r.kind = "jump" /\ r.addr = a)
    IN  IF i = 0 THEN None ELSE section[h][i].chain

(* Policy changes are hitless: once a PU is supervised, and until a Supervise
   fails or Unsupervise is called, at every moment and at every hook the first
   rule for its address leads to a chain of that PU that has all its rules, so
   no packet of the PU escapes both policies while UpdateRules replaces one by
   the other.  Only failing commands of this PU (or of Start) may end that; those
   of another PU may not. *)
Hitless ==
    phase = "running" => \A p \in PUs \ excused : installed[p] # None =>
        \A h \in Hooks :
            LET c == Governing(h, installed[p])
            IN  c # None /\ c[1] = p /\ chains[h][c] = Complete(h)

(* Nothing stays behind: between two operations the chains of a PU, and the
   rules that lead to them, are exactly those of its current version when it is
   supervised, also after Start has cleaned up after a crash.  The only PUs with
   more, or less, are those a command failed for. *)
NoLeftovers ==
    Idle /\ phase = "running" =>
        \A t \in Tables, p \in PUs \ excused, v \in 0 .. MaxVersion :
            LET current == t \in Hooks /\ tracker[p] # None /\ tracker[p].version = v
            IN  /\ Exists(t, <<p, v>>) <=> current
                /\ Referenced(t, <<p, v>>) <=> current

(* The exclusion rules of every hook are those of the last AddExcludedIPs,
   whatever the worker does, or fails to do, to the same sections in between. *)
ExclusionsExact ==
    todo["excluder"] = <<>> /\ phase = "running" /\ "excluder" \notin excused =>
        \A h \in Hooks :
            {r.addr : r \in {x \in Range(section[h]) : x.kind = "exclude"}} = Range(excluded)

(* A Supervise that returned nil did install the policy, whatever failed before
   it: the chains of the current version are complete, and a rule at every hook
   leads to them. *)
SupervisedIsInstalled ==
    phase = "running" => \A p \in PUs : job = None /\ installed[p] # None =>
        \A h \in Hooks :
            LET c == <<p, tracker[p].version>>
            IN  /\ chains[h][c] = Complete(h)
                /\ Rule("jump", installed[p], c) \in Range(section[h])

(* Unsupervise forces as much cleanup as possible: where no command fails for an
   outside reason, a PU that is not supervised has nothing left. *)
CleanupIsForced ==
    Idle /\ phase = "running" => \A p \in PUs : tracker[p] = None =>
        \A h \in Hooks, v \in 0 .. MaxVersion :
            ~ Exists(h, <<p, v>>) /\ ~ Referenced(h, <<p, v>>)

(* A supervised PU is not governed by stale state: the first rule for its
   address leads to the chain of the current version. *)
GovernedByCurrent ==
    Idle /\ phase = "running" => \A p \in PUs : installed[p] # None =>
        \A h \in Hooks : Governing(h, installed[p]) = <<p, tracker[p].version>>

(* Stop cleans up: once it has returned, a chain is left only of a PU that had
   a request in progress while it cleaned, or a command that failed. *)
StopCleansIdle ==
    phase = "stopped" => \A t \in Tables, c \in Chains : Exists(t, c) => c[1] \in excused

(* Stop cleans the ACLs that were installed: once it has returned none of the
   chains is left. *)
StopLeavesNothing ==
    phase = "stopped" => \A t \in Tables, c \in Chains : ~ Exists(t, c)
=============================================================================
