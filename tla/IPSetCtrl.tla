------------------------------ MODULE IPSetCtrl ------------------------------
(* The ipset controller (supervisor/ipsetctrl), the other implementation that
   the supervisor (supervisor/supervisor.go) can drive.  A PU has versioned
   allow and reject sets, matched by rules that are inserted in front of the
   default drop for every member of ContainerSet.

   As in module Supervisor, an operation is a list of commands and a command is
   a step that may fail: "abort" returns the error to the supervisor, which
   runs Unsupervise; "ignore" only logs.  What traffic meets between two
   commands is Verdict.  A policy has an address and the outside networks it
   accepts and rejects, here the same in both directions; the networks that
   Trireme itself serves (TriremeSet) are left out, but for the exclusions.    *)
EXTENDS Naturals, FiniteSets, Sequences, SequencesExt

CONSTANTS
    PUs, Nets,    \* context IDs, outside networks
    Policies(_),  \* policies of a PU: [addr, allow, reject], addr None when it has none
    Excludable,   \* the lists that AddExcludedIPs is called with
    MaxVersion,   \* updates of a PU (a bound)
    Setups,       \* what may happen: failing commands and crashes (bounds), Stop
    None

ASSUME BoundAssumption ==
    /\ MaxVersion \in Nat
    /\ \A s \in Setups : {s.faults, s.crashes} \subseteq Nat /\ s.stop \in BOOLEAN

VARIABLES
    sets,       \* kernel: the elements of each ACL set, None where it does not exist
    rules,      \* kernel: the rules of the application and the network section
    members,    \* kernel: ContainerSet
    nomatch,    \* kernel: the nomatch entries of TriremeSet
    tracker,    \* versionTracker: version and first policy of each supervised PU
    excluded,   \* excludedIPs of the supervisor
    todo,       \* the commands each goroutine still has to run
    job,        \* the Supervise in progress
    installed,  \* history: the policy of the last Supervise, if it returned nil
    phase, faults, crashes,
    setup

kernel == <<sets, rules, members, nomatch>>
memory == <<tracker, excluded, job, installed, phase>>
vars == <<kernel, memory, todo, faults, crashes, setup>>

Dirs == {"app", "net"}
SetNames == PUs \X Dirs \X {"A", "R"} \X (0 .. MaxVersion)
Threads == {"worker", "excluder", "control"}
AllPolicies == UNION {Policies(p) : p \in PUs}
Addrs == {pol.addr : pol \in AllPolicies}
Excludables == UNION {Range(l) : l \in Excludable}

-----------------------------------------------------------------------------
(* Command lists *)

Rule(kind, addr, set) == [kind |-> kind, addr |-> addr, set |-> set]
Cmd(op, arg, err) == [op |-> op, arg |-> arg, err |-> err]
Position(d) == IF d = "app" THEN 3 ELSE 2

createACLSets(p, d, v, pol) ==
    <<Cmd("NewIpset", <<p, d, "A", v>>, "abort"), Cmd("NewIpset", <<p, d, "R", v>>, "abort"),
      Cmd("AddACLs", <<<<p, d, "A", v>>, pol.allow>>, "abort"),
      Cmd("AddACLs", <<<<p, d, "R", v>>, pol.reject>>, "abort")>>

(* Bug: the rules are appended to the section, behind the default drop. *)
addSetRulesAppended(p, d, v, a) ==
    <<Cmd("Append", <<d, Rule("acl", a, <<p, d, "R", v>>)>>, "abort"),
      Cmd("Append", <<d, Rule("acl", a, <<p, d, "A", v>>)>>, "abort")>>

(* addAppSetRules, addNetSetRules: the later rule comes first. *)
addSetRules(p, d, v, a) ==
    <<Cmd("Insert", <<d, Rule("acl", a, <<p, d, "R", v>>)>>, "abort"),
      Cmd("Insert", <<d, Rule("acl", a, <<p, d, "A", v>>)>>, "abort")>>

(* deleteAppSetRules, deleteNetSetRules *)
deleteSetRules(p, d, v, a) ==
    <<Cmd("Delete", <<d, Rule("acl", a, <<p, d, "R", v>>)>>, "ignore"),
      Cmd("Delete", <<d, Rule("acl", a, <<p, d, "A", v>>)>>, "ignore")>>

deleteSets(p, v) ==
    <<Cmd("DeleteSet", <<p, "app", "A", v>>, "ignore"), Cmd("DeleteSet", <<p, "app", "R", v>>, "ignore"),
      Cmd("DeleteSet", <<p, "net", "A", v>>, "ignore"), Cmd("DeleteSet", <<p, "net", "R", v>>, "ignore")>>

addAllRules(p, v, pol) ==
    <<Cmd("AddMember", pol.addr, "abort")>>
    \o createACLSets(p, "app", v, pol) \o createACLSets(p, "net", v, pol)
    \o addSetRules(p, "app", v, pol.addr) \o addSetRules(p, "net", v, pol.addr)

(* defaultIP finds no address: an early return of an error. *)
ReturnError == <<Cmd("return", None, "abort")>>

ConfigureRules(p, v, pol) ==
    IF pol.addr = None THEN ReturnError
    ELSE addAllRules(p, v, pol) \o <<Cmd("AddTargets", None, "abort")>>

(* Bug: the sets are destroyed while the rules still name them. *)
DeleteRulesSetsFirst(p, v, a) ==
    <<Cmd("DelMember", a, "ignore")>> \o deleteSets(p, v)
    \o deleteSetRules(p, "app", v, a) \o deleteSetRules(p, "net", v, a)

DeleteRules(p, v, a) ==
    IF a = None THEN <<>> ELSE
    <<Cmd("DelMember", a, "ignore")>>
    \o deleteSetRules(p, "app", v, a) \o deleteSetRules(p, "net", v, a)
    \o deleteSets(p, v)

(* Bug: the old rules go before the new ones are there. *)
UpdateRulesDeletesFirst(p, v, pol) ==
    deleteSetRules(p, "app", v - 1, pol.addr) \o deleteSetRules(p, "net", v - 1, pol.addr)
    \o addAllRules(p, v, pol) \o deleteSets(p, v - 1)

(* The old rules are deleted with the address of the new policy. *)
UpdateRules(p, v, pol) ==
    IF pol.addr = None THEN ReturnError ELSE
    addAllRules(p, v, pol)
    \o deleteSetRules(p, "app", v - 1, pol.addr) \o deleteSetRules(p, "net", v - 1, pol.addr)
    \o deleteSets(p, v - 1)

(* Start: setupIpset, setupTrapRules (the rule of the raw table is left out). *)
StartCmds ==
    <<Cmd("SetupSets", None, "abort")>>
    \o [i \in 1 .. 5 |-> Cmd("Append", <<IF i <= 3 THEN "app" ELSE "net",
            Rule(IF i \in {3, 5} THEN "drop" ELSE "trap", None, None)>>, "abort")]

cleanIPSets ==
    <<Cmd("ClearChain", "app", "ignore"), Cmd("ClearChain", "net", "ignore"),
      Cmd("DestroyAll", None, "ignore")>>

(* The loops of AddExcludedIP and RemoveExcludedIP return in their first turn. *)
ForFirst(op, list, err) == IF list = <<>> THEN <<>> ELSE <<Cmd(op, Head(list), err)>>

UnsuperviseCmds(p) ==
    DeleteRules(p, tracker[p].version, tracker[p].addr) \o <<Cmd("forget", p, "ignore")>>

-----------------------------------------------------------------------------
(* State *)

TypeOK ==
    /\ sets \in [SetNames -> (SUBSET Nets) \cup {None}]
    /\ \A d \in Dirs : Range(rules[d]) \subseteq
          [kind : {"trap", "drop", "acl"}, addr : Addrs \cup {None}, set : SetNames \cup {None}]
    /\ members \subseteq Addrs /\ nomatch \subseteq Excludables
    /\ tracker \in [PUs -> [version : 0 .. MaxVersion, addr : Addrs] \cup {None}]
    /\ excluded \in Excludable \cup {<<>>}
    /\ job # None => job.pu \in PUs /\ job.pol \in AllPolicies /\ job.ok \in BOOLEAN
    /\ installed \in [PUs -> AllPolicies \cup {None}]
    /\ phase \in {"off", "starting", "running", "stopping", "stopped"}
    /\ setup \in Setups /\ faults \in 0 .. setup.faults /\ crashes \in 0 .. setup.crashes

Init ==
    /\ sets = [s \in SetNames |-> None]
    /\ rules = [d \in Dirs |-> <<>>]
    /\ members = {} /\ nomatch = {}
    /\ tracker = [p \in PUs |-> None]
    /\ excluded = <<>>
    /\ todo = [t \in Threads |-> <<>>]
    /\ job = None
    /\ installed = [p \in PUs |-> None]
    /\ phase = "off"
    /\ faults = 0 /\ crashes = 0 /\ setup \in Setups

-----------------------------------------------------------------------------
(* The kernel (external): one command of ipset or iptables.  A new set that
   exists is emptied; adding a member twice is no error; a set that a rule
   names cannot be destroyed, nor can a rule name a set that does not exist. *)

Named(s) == \E d \in Dirs : \E r \in Range(rules[d]) : r.set = s

Refused(c) ==
    CASE c.op = "Insert"    -> \/ Len(rules[c.arg[1]]) + 1 < Position(c.arg[1])
                               \/ sets[c.arg[2].set] = None
      [] c.op = "Append"    -> c.arg[2].kind = "acl" /\ sets[c.arg[2].set] = None
      [] c.op = "Delete"    -> c.arg[2] \notin Range(rules[c.arg[1]])
      [] c.op = "AddACLs"   -> sets[c.arg[1]] = None
      [] c.op = "DelMember" -> c.arg \notin members
      [] c.op = "DelOption" -> c.arg \notin nomatch
      [] c.op = "return"    -> TRUE
      [] OTHER              -> FALSE

Effect(c) ==
    /\ sets' = CASE c.op = "NewIpset"   -> [sets EXCEPT ![c.arg] = {}]
                 [] c.op = "AddACLs"    -> [sets EXCEPT ![c.arg[1]] = @ \cup c.arg[2]]
                 [] c.op = "DeleteSet"  -> [sets EXCEPT ![c.arg] = IF Named(c.arg) THEN {} ELSE None]
                 [] c.op = "DestroyAll" -> [s \in SetNames |-> IF Named(s) THEN sets[s] ELSE None]
                 [] OTHER               -> sets
    /\ rules' = CASE c.op = "Insert" -> [rules EXCEPT ![c.arg[1]] =
                                            InsertAt(@, Position(c.arg[1]), c.arg[2])]
                  [] c.op = "Append" -> [rules EXCEPT ![c.arg[1]] = Append(@, c.arg[2])]
                  [] c.op = "Delete" -> [rules EXCEPT ![c.arg[1]] = RemoveFirst(@, c.arg[2])]
                  [] c.op = "ClearChain" -> [rules EXCEPT ![c.arg] = <<>>]
                  [] OTHER               -> rules
    /\ members' = CASE c.op = "AddMember" -> members \cup {c.arg}
                    [] c.op = "DelMember" -> members \ {c.arg}
                    [] c.op \in {"SetupSets", "DestroyAll"} -> {}
                    [] OTHER -> members
    /\ nomatch' = CASE c.op = "AddOption" -> nomatch \cup {c.arg}
                    [] c.op = "DelOption" -> nomatch \ {c.arg}
                    [] c.op \in {"SetupSets", "DestroyAll"} -> {}
                    [] OTHER -> nomatch

Proceed(t) ==
    /\ todo[t] # <<>>
    /\ ~ Refused(Head(todo[t]))
    /\ Effect(Head(todo[t]))
    /\ tracker' = IF Head(todo[t]).op = "forget"
                  THEN [tracker EXCEPT ![Head(todo[t]).arg] = None] ELSE tracker
    /\ todo' = [todo EXCEPT ![t] = Tail(@)]
    /\ UNCHANGED <<excluded, job, installed, phase, faults, crashes, setup>>

Fail(t) ==
    /\ todo[t] # <<>>
    /\ LET c == Head(todo[t]) IN
       /\ Refused(c) \/ (c.op # "forget" /\ faults < setup.faults)
       /\ faults' = IF Refused(c) THEN faults ELSE faults + 1
       /\ IF c.err = "abort"
          THEN todo' = [todo EXCEPT ![t] = IF t = "worker" THEN UnsuperviseCmds(job.pu) ELSE <<>>]
          ELSE todo' = [todo EXCEPT ![t] = Tail(@)]
       /\ IF t = "worker" /\ c.err = "abort"
          THEN /\ job' = [job EXCEPT !.ok = FALSE]
               /\ installed' = [installed EXCEPT ![job.pu] = None]
          ELSE UNCHANGED <<job, installed>>
    /\ UNCHANGED <<kernel, tracker, excluded, phase, crashes, setup>>

-----------------------------------------------------------------------------
(* Operations, through the supervisor *)

WorkerFree == phase \in {"running", "stopping"} /\ job = None /\ todo["worker"] = <<>>

Create(p, pol) ==
    /\ tracker[p] = None
    /\ tracker' = [tracker EXCEPT ![p] = [version |-> 0, addr |-> pol.addr]]
    /\ todo' = [todo EXCEPT !["worker"] = ConfigureRules(p, 0, pol)]

Update(p, pol) ==
    /\ tracker[p] # None
    /\ LET v == tracker[p].version + 1 IN
       /\ v <= MaxVersion
       /\ tracker' = [tracker EXCEPT ![p].version = v]
       /\ todo' = [todo EXCEPT !["worker"] = UpdateRules(p, v, pol)]

Supervise(p, pol) ==
    /\ WorkerFree
    /\ Create(p, pol) \/ Update(p, pol)
    /\ job' = [pu |-> p, pol |-> pol, ok |-> TRUE]
    /\ UNCHANGED <<kernel, excluded, installed, phase, faults, crashes, setup>>

Return ==
    /\ job # None /\ todo["worker"] = <<>>
    /\ installed' = IF job.ok THEN [installed EXCEPT ![job.pu] = job.pol] ELSE installed
    /\ job' = None
    /\ UNCHANGED <<kernel, tracker, excluded, todo, phase, faults, crashes, setup>>

Unsupervise(p) ==
    /\ WorkerFree /\ tracker[p] # None
    /\ todo' = [todo EXCEPT !["worker"] = UnsuperviseCmds(p)]
    /\ installed' = [installed EXCEPT ![p] = None]
    /\ UNCHANGED <<kernel, tracker, excluded, job, phase, faults, crashes, setup>>

AddExcludedIPs(l) ==
    /\ phase = "running" /\ todo["excluder"] = <<>>
    /\ todo' = [todo EXCEPT !["excluder"] =
                  ForFirst("DelOption", excluded, "ignore") \o ForFirst("AddOption", l, "abort")]
    /\ excluded' = l
    /\ UNCHANGED <<kernel, tracker, job, installed, phase, faults, crashes, setup>>

(* The controller starts its worker even when Start returned an error. *)
Start ==
    /\ phase = "off"
    /\ phase' = "starting"
    /\ todo' = [todo EXCEPT !["control"] = StartCmds]
    /\ UNCHANGED <<kernel, tracker, excluded, job, installed, faults, crashes, setup>>

Started ==
    /\ phase = "starting" /\ todo["control"] = <<>>
    /\ phase' = "running"
    /\ UNCHANGED <<kernel, tracker, excluded, todo, job, installed, faults, crashes, setup>>

Stop ==
    /\ setup.stop /\ phase = "running"
    /\ phase' = "stopping"
    /\ todo' = [todo EXCEPT !["control"] = cleanIPSets]
    /\ UNCHANGED <<kernel, tracker, excluded, job, installed, faults, crashes, setup>>

Stopped ==
    /\ phase = "stopping" /\ todo["control"] = <<>> /\ WorkerFree
    /\ phase' = "stopped"
    /\ UNCHANGED <<kernel, tracker, excluded, todo, job, installed, faults, crashes, setup>>

(* The process dies; the sets and rules stay, and Start does not clean them. *)
Crash ==
    /\ phase # "off" /\ crashes < setup.crashes
    /\ crashes' = crashes + 1
    /\ phase' = "off" /\ job' = None /\ excluded' = <<>>
    /\ tracker' = [p \in PUs |-> None]
    /\ installed' = [p \in PUs |-> None]
    /\ todo' = [t \in Threads |-> <<>>]
    /\ UNCHANGED <<kernel, faults, setup>>

Next ==
    \/ \E t \in Threads : Proceed(t) \/ Fail(t)
    \/ \E p \in PUs : \E pol \in Policies(p) : Supervise(p, pol)
    \/ \E p \in PUs : Unsupervise(p)
    \/ \E l \in Excludable : AddExcludedIPs(l)
    \/ Return \/ Start \/ Started \/ Stop \/ Stopped \/ Crash

Spec == Init /\ [][Next]_vars

-----------------------------------------------------------------------------
(* Properties *)

(* What a new connection between an address and a network meets: the first
   rule that matches it, or nothing. *)
Verdict(d, a, n) ==
    LET match(r) == \/ r.kind = "drop" /\ a \in members
                    \/ r.kind = "acl" /\ r.addr = a /\ sets[r.set] # None /\ n \in sets[r.set]
        i == SelectInSeq(rules[d], match)
    IN  IF i = 0 THEN "open"
        ELSE IF rules[d][i].kind = "acl" /\ rules[d][i].set[3] = "A" THEN "accept" ELSE "drop"

Wanted(pol, n) == IF n \in pol.allow THEN "accept" ELSE "drop"

(* Without failures, while a policy is replaced every connection is judged by the old policy or
   by the new one: UpdateRules never leaves the PU unpoliced, and never drops
   what both policies accept. *)
OldOrNew ==
    faults = 0 /\ crashes = 0 /\ phase = "running" =>
      \A p \in PUs, d \in Dirs, n \in Nets : installed[p] # None =>
        Verdict(d, installed[p].addr, n) \in
            {Wanted(installed[p], n)} \cup
            (IF job # None /\ job.pu = p THEN {Wanted(job.pol, n)} ELSE {})

(* Without failures Unsupervise leaves nothing: no set, no rule and no member of ContainerSet. *)
NoLeftovers ==
    faults = 0 /\ crashes = 0 /\ phase = "running" /\ job = None /\ todo["worker"] = <<>> =>
      \A p \in PUs : tracker[p] = None =>
        /\ \A s \in SetNames : s[1] = p => sets[s] = None /\ ~ Named(s)
        /\ \A pol \in Policies(p) : pol.addr \notin members

(* Whatever fails or crashes, a policy that was installed decides on the
   networks it names: what an earlier version or an earlier run of the process
   left behind never comes before it. *)
InForce ==
    phase = "running" /\ job = None => \A p \in PUs, d \in Dirs : installed[p] # None =>
        /\ \A n \in installed[p].allow : Verdict(d, installed[p].addr, n) = "accept"
        /\ \A n \in installed[p].reject \ installed[p].allow :
              Verdict(d, installed[p].addr, n) = "drop"

(* "Remove everything and then apply the updatedSet" (supervisor.go:203): the
   exceptions are those of the last list. *)
ExclusionsApplied ==
    phase = "running" /\ todo["excluder"] = <<>> => nomatch = Range(excluded)
=============================================================================
