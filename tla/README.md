# Trireme in TLA+

Trireme authorizes network connections between *processing units* (PUs:
containers and Linux processes) by identity. This directory models its
concurrent and failure-prone parts and checks them with TLC. For eight of the
eleven modules of the code TLAPS proves the safety properties that TLC checks, for every value of
the constants, and that the controller implements its abstract specification.
Paths below are relative to the repository (`src/`).

## 1. The system

| Part | State | Operations | Talks to |
|---|---|---|---|
| Data cache (`cache/cache.go`) | map, one timer per entry | Add, Update, AddOrUpdate, LockedModify, Remove, expiry | everybody |
| Datapath enforcer (`enforcer/datapath*.go`) | PU contexts, five connection trackers | six packet handlers, Enforce, Unenforce | kernel queue, peer enforcer |
| Packet queues (`enforcer/netfilter`) | a kernel queue and a channel each | receive, hand over, verdict | kernel, datapath enforcer |
| Packets (`enforcer/utils/packet`) | headers, checksums, attached bytes | parse, move numbers, attach, detach | datapath enforcer |
| Policy database (`enforcer/lookup`) | tables by key, value and prefix | AddPolicy, Search | datapath enforcer |
| Supervisor (`supervisor`) | version tracker, exclusions | Supervise, Unsupervise, AddExcludedIPs, Start, Stop | iptables or ipset controller |
| iptables, ipset controllers | kernel chains, sets, rules | ConfigureRules, UpdateRules, DeleteRules, Start, Stop | kernel |
| Controller (`trireme.go`) | runtimes, request channel, one worker | HandlePUEvent, UpdatePolicy, Start, Stop | monitors, policy resolver, enforcers, supervisors |
| Remote enforcement (`enforcer/proxy`, `supervisor/proxy`, `processmon`, `rpcwrapper`, `cmd/remoteenforcer`) | process table, RPC clients, initDone flags | the proxies' Enforce, Supervise, ...; launch and kill | controller, remote processes |
| Linux monitor (`monitor/linuxmonitor`, `rpcmonitor`, `contextstore`, `cmd/systemdutil`) | cgroups, context store | start, stop, destroy, reSync | controller, kernel |
| Docker monitor (`monitor/dockermonitor`) | event stream and channel | listener, processor, event handlers, syncContainers | controller, Docker |
| Tokens, statistics, configurator, policy types | – | – | see section 7 |

Three things make it hard. Goroutines share the cache, the worker and the
kernel's rule sections. An operation is a list of kernel commands or RPCs, any
of which may fail, while traffic and other goroutines see what is in between.
And processes (the controller, a remote enforcer, a launcher) die in the middle,
leaving kernel rules, cgroups, files and table entries to whoever comes next.

What has to be right: a tracked entry expires, and no earlier than it should; a
connection is accepted once, by both ends, under a policy that admits it; policy
changes leave no gap and no leftovers; enforcer and supervisor agree about every
PU; every request is answered; a program or container runs only while it is
policed; every packet is judged by the policy of its own PU and gets a verdict;
and a rewritten packet is valid and comes out as it went in.

## 2. Modules

One module per part. `MC<module>` holds the instances for TLC.

**Cache.** A write is two steps, because the code arms the timer (`cache.go:69,
95, 127, 202`) before it locks: `Begin`, then the body (`Add`, `Update`,
`AddOrUpdate`, `LockedModify`). A timer that has fired is a goroutine that waits
for the lock (`Fire`, then `Expire`, which is `Remove(u)`); `timer.Stop()`
cannot cancel it any more. Time is ticks left to each timer. `MaxLockWait` is the
longest wait for the mutex. A cache without expiration (`NewCache`) has no timers
and is left out. Values are left out, nothing looks at them.

**Handshake.** Two enforcers and two TCP stacks around a network that loses,
repeats and reorders. `ProcessApplicationSyn`, `ProcessNetworkSyn`, ... are the
six handlers, each in one action with the lookups that precede it. A
`*TCPConnection` is named by its random LocalContext; a token is its two nonces;
what the rules say of the peer is `accept`, `reject` or `nomatch`. A setup says
which flows, policies and expiries an execution has. `conn`,
`appConn`, `ctxConn`, `srcPort`, `netConn`, `dstPort` are the heap and the five
trackers. `admitted`, `cleared` and `authd` are history. Not modelled: reject
records, keys and identities, the service hook, and the trap limit that lets
later packets of a connection bypass the enforcer. The ACK that ends the
handshake carries no data of its own; what TCPDataAttach does with one that
does is in Packet. Packets are well formed, so ACKs meet neither the error of
TCPDataDetach nor, since an acknowledged connection has left its tracker, the
branch for the state TCPAckProcessed.

**Datapath.** How a packet finds the context that Handshake takes for granted.
`contextTracker` and `puTracker` are the enforcer's two caches; Enforce and
Unenforce write and remove one key per step (`WriteKey`, `RemoveKey`), with the
supervisor's calls before and after in the order of `trireme.go`. A queue is
what the kernel keeps (`kernel`, `total`), the channel of NFQueue, and the
packet a goroutine has looked up (`busy`): `Arrive`, `Receive`, `Lookup`,
`SetVerdict`. A packet whose PU is released while it waits is `late`. `current`
and `moved` are history. What can bring the process down (a packet that does not
parse, the inverted test of `datapath.go:176`) sets `dead`.

**Packet.** One handshake packet from the sending stack to the receiving one
(`ProcessApplication`, `Transfer`, `ProcessNetwork`, `DropNetwork`). The
operators have the names of the functions of `packet.go` and `helpers.go` and
their arithmetic at any width: a byte has `H` values (256 in the code), a word is
two bytes, `B == H * H`, and a sequence number two words. The words of the
headers that nothing changes enter through their sum, `rest`. `StackPackets` are
the packets the stack makes, with their checksums right.

**Lookup.** The tables of `PolicyDB`. `AddPolicy` with `sortedInsert` as Go's
`append` executes it and the binary search of `sort.Search`; `Search` one tag per
step, in any order, since Go ranges over a map. Strings are sequences of letters
because prefixes matter. `Holds` is the meaning that `docs/policy_design.md` gives
a clause.

**Supervisor.** `supervisor.go` on `iptablesctrl`. Every operation is built as the
list of commands the code issues, each with what the code does on its failure
(`abort`, `skip`, `ignore`); one command is one step of one of three goroutines
(worker, caller of AddExcludedIPs, caller of Start or Stop). The kernel
(`chains`, `section`) refuses what iptables refuses. A chain has three parts:
traps, ACLs, closing drops. A setup gives the mode, the addresses, the exclusion
lists and how many versions, failures and crashes there may be. `installed` is
history; so is `excused`, which names those that suffered a failing command (the
PU the worker was on, the exclusion list, or at Start and Stop everyone): the
properties hold for all others.

**IPSetCtrl.** The same supervisor on `ipsetctrl`. `Verdict` is what a new
connection meets in the kernel at that moment. Assumed of ipset: creating a set
that exists empties it; adding a member twice is no error; a set named by a rule
cannot be destroyed. Target networks are left out, policies are the same in both
directions, and the code's path for a policy without an address is modelled but
not exercised by the runs (the iptables runs do exercise theirs).

**PUService, Trireme.** `PUService` is the promise of the controller: a request is
applied in one atomic step, to its own PU only, and its answer tells what
happened. `Trireme` is the code: clients, channel, and a worker that makes every
call of a handler (`Resolve`, `Enforce`, `Supervise`, `Rollback`, ...) as a step
that may fail (`Start` of both kinds of enforcer returns nil, so the worker always
starts). The refinement (`ServiceSpec`) maps `force` to the supervisor's
table and applies a request when that table changes, or the handler fails before.

**Remote.** The proxies, processmon, the RPC client table and the server in the
remote process under the worker's calls. One step is one RPC with what the proxy
does around it. Seven kinds of failure: launch, dial, init, start (of the remote's
supervisor), supervise, exclude, crash. A handler that uses a nil Enforcer or Supervisor kills its process, and so
does a second InitEnforcer (the queue can be bound once). `client` is the map of
RPC connections, `contexts` the list of them, from which nothing is ever removed.
History: `faults` records which PU suffered which failure, `recent` those since
the last request for it, so that a property can excuse a PU by its own failures of
the kinds that matter, at the time when they matter, and by nothing else.

**LinuxMonitor.** The launcher asks the monitor, becomes the program, and at the
end the kernel runs it as release agent. One step per call of the processor. The
controller is what PUService promises: a start event ends in a policy, in
AllowAll, or in an error, which the metadata extractor may also return. The monitor
can crash, which loses the controller and keeps cgroups and context store; an entry
it was writing or removing may stay half done (`torn`), and `reSync` skips such an
entry or ends at it. History: failures are recorded per PU, `allowed` are the PUs
whose last start event ended in AllowAll, `stale` those not started since the
last crash.

**DockerMonitor.** `Start` launches the listener (`Subscribe`, `Receive`,
`Notify`), visits the listed containers (`List`, `Visit`) and then launches the
processor (`Process`, `HandleStart`, `Submit`, `Answer`, `Kill`); `Stop` sends to
both. The controller is `INSTANCE PUService` with the monitor as its client. The
daemon is external: containers start, die, pause and go between any two steps, and
`run` counts the runs of a container, because what was inspected may be of an
earlier one. `missed` is history: the containers an event of which came while the
listener was not subscribed, and those on which a call of the daemon or of the
metadata extractor failed. The
synchronization handler, nil by default, is left out.

## 3. Runs

| Run | Instance | States | Shows |
|---|---|---|---|
| `cache` | 2 keys, 2 clients, 3 timers, lifetime 2, lock wait 1 | 84 440 | `EntryWillExpire`, `EntriesLeave` |
| `handshake` | `Retry`: 1 flow, 2 attempts, server policy changes; `TwoFlows`: client policy changes; `Expiry`: server policy changes, 1 expiry | 827 540 | `AcceptOnce`, `AcceptedWasAdmitted`, `EstablishedIsAuthorized`, `Agreement` |
| `datapath` | a container with 2 possible addresses, a process with mark and port, 2 policies, 1 queue of either side, queue and channel of 2 | 892 668 | `JudgedByOwnPolicy`, `NoStaleKeys`, `NoneForgotten`, `QueueMoves` |
| `packet` | `H = 16`: 8-bit words, all 256 sums, numbers 0 and 2^16-1, headers of 5, 6, 14 words, 2 tokens | 122 880 | `WireValid`, `RoundTrip`, `Arrives`, `IncrementalIsExact` |
| `supervisor` | `Container`: 2 PUs, 3 versions, lists, crash; `Failing`, `Server`: up to 2 failing commands; `Stops`: Stop at any moment | 742 013 | `Hitless`, `NoLeftovers`, `ExclusionsExact`, `SupervisedIsInstalled`, `StopCleansIdle` |
| `trireme` | 1 PU, 2 monitors, 1 policy engine, 2 policies, Stop | 34 632 | `Paired`, `EnforcedHasRuntime`, `ServiceSpec`, `Answered`, `StopReturns` |
| `remote` | 2 PUs, 3 failures of 7 kinds | 751 110 | `RunningIsPoliced`, `DeletedIsGone`, `NoOrphan`, `SuperviseAfterInit` |
| `ipset` | 1 PU, 2 networks, 2 versions, any two of a failure, a crash and Stop | 665 089 | `OldOrNew`, `NoLeftovers`, `InForce` |
| `linux` | 2 processes, 2 failures, 1 crash | 192 232 | `RunningIsPoliced`, `NoGhost`, `EndedIsForgotten` |
| `docker` | 2 containers, 2 changes, channel of 1, 1 failure of 5 kinds, Stop | 330 006 | `RunningIsCovered`, `EndedIsReleased`, `RunIsPoliced`, `StopReturns` |
| `lookup` | 2 keys, 4 values, 8 policies, 3 in the database | 50 443 | `SearchIsSound`, `SearchIsComplete` |
| `linux_resync` | 1 process, 1 crash | – | refutes `ResyncRestores` |

`TypeOK` in a module describes its state; where a module has proofs, a type
invariant is part of what is proved.

*Containment.* The properties of `supervisor`, `remote`, `linux` and `docker`
hold in executions with failures: each excuses only the PU, or the list, that
suffered one, so they show that a failure for one PU never harms another. What
the code does to the one that suffered is in section 6. In particular:

* `RunningIsPoliced` of `remote`: a nil of create or update is wrong only when the
  process died since that request, or when the remote dropped the error of
  Supervise or of its supervisor's Start. An earlier crash excuses nothing.
* `DeletedIsGone`: only a failed connection leaves a process behind; only that, a
  crash or a failed initialisation leaves an entry in a table.
* `RunningIsPoliced` of `linux` speaks of executions with crashes too: a program is
  in its marked cgroup, and is policed or was let through by AllowAll, until the
  monitor that started it crashes (then see section 5).
* `EndedIsForgotten`: the controller forgets every process that ends. Its cgroup
  and its entry go with it unless it was let through by AllowAll or started before
  a crash: then the stop event fails (`trireme.go:242`, `318`) and the agent ends
  without sending destroy (`systemdutil.go:184`).
* `RunningIsCovered`, `RunIsPoliced`: the containers that are lost are those with an
  event while nobody was subscribed, and those on which a call failed. Of the calls,
  the failing `ContainerStop` (`docker.go:400`, `465`) and the failing metadata
  extractor (`docker.go:390`, which kills nothing) leave a container running.

Why the bounds are enough for the cases of interest. Two clients and three timers
give a refresh that meets a fired timer of the same entry. Two attempts and two
flows give late packets of an earlier attempt and of another flow; a setup makes
at most two connections at each end. `AcceptedWasAdmitted` and
`EstablishedIsAuthorized` speak of executions in which no tracker entry expired
(`expired = 0`); `Expiry` shows for the other two that expiry does them no harm,
and section 6 what it does to the first. Two versions give every update, three give
an update after an update. One failure hits every command of every list in turn,
a second one also the clean-up after the first. A second PU shows that one is not
disturbed by the work on another. In `trireme` the clients meet at one PU: a
monitor's SetPURuntime then runs beside the removal for another monitor's stop
event (two PUs with one monitor, 35 386 states, and the proofs show nothing new). A channel for one event makes the listener
block; three changes (2 118 445 states, the invariants of `docker` only) and four
failures in `remote` (3 246 246 states) show nothing new. A queue of two has a
packet waiting behind one in the hands of its goroutine; with a channel smaller
than the queue `NoneForgotten` fails, so the instance is at the boundary. Eight-bit
words have every carry and both zeros of one's complement, and all 256 sums make
every stored checksum occur. Symmetry is used for flows (no handler compares them
but for equality) and for networks, never with a liveness property.

Deadlock is checked except where the system may stop: after Stop (`supervisor`,
`ipset`, `trireme`, `docker`), after a panic of the controller (`remote`), and at
the end of a packet's way (`packet`).

**Fairness.** `Cache`: time passes, a due timer's callback runs, and Go's mutex
does not starve a waiter. `Trireme`: the worker's steps are weakly fair; taking a
request and taking the stop signal are strongly fair, because senders on a Go
channel are queued in order and `select` picks at random among ready cases.
`LinuxMonitor`: the monitor's steps are weakly fair; accepting the connection of a
release agent is strongly fair, because connections wait in the listener's queue.
`DockerMonitor`: the goroutines of the monitor and the controller are weakly fair
(that the controller answers is `Answered` of Trireme); taking a stop signal is
strongly fair, since `select` picks at random. `Datapath`: the C loop of a queue
and its goroutine keep running. No fairness is assumed of clients, failures,
crashes, containers, packets or programs.

## 4. Proofs

A module `<M>Proofs` extends `<M>`. Each is laid out alike: the inductive
invariant, lemmas about the operators, one lemma (`...Step`) per action or group
of actions, and the theorems. A theorem holds for every value of the constants
(sets of PUs, keys, flows, policies; sizes; numbers of failures and crashes)
that meets the assumptions of the module. Those are: numbers are
numbers, `None` is no member of the sets it is told apart from
(`NoneAssumption`), and for `Packet` what section 4.8 says. A further assumption
of a theorem is a hypothesis in its statement. TLC finds every inductive
invariant true on the instance of the component's run.

Why the invariants have to be strengthened is the same everywhere. The properties
speak of moments when nobody is in the middle of something; the inductive
invariant says what is true in the middle.

### 4.1 Cache (`CacheProofs`)

* `EntriesAlwaysExpire`: `PromptLock /\ Spec => []EntryWillExpire`;
* `TypeCorrect`: `Spec => []TypeOK`;
* `TrackersHaveNoStrayTimer`: if AddOrUpdate is the only writer, as in the
  datapath's trackers, every armed timer belongs to its entry or to a write that
  waits for the lock.

`PromptLock` (`MaxLockWait < Lifetime`) is necessary: a goroutine that waits for
the mutex as long as an entry lives stores a dead timer. `IInv` adds what is known
of a write that waits: its timer is armed, for its key, has `Lifetime - wait`
ticks left (`PendingTimer`), and nobody else refers to it (`PendingAlone`).
`FireStep` is where the wait matters.

### 4.2 Handshake (`HandshakeProofs`)

* `AgreementAlways`, `AcceptOnceAlways`: also when tracker entries expire;
* `AcceptedWasAdmittedAlways`, `EstablishedIsAuthorizedAlways`.

`Inv` relates the heap of connections to the trackers and to what is in the
network. `TrackOK`: an entry is a connection of its own side and flow. `AckOK`: an
ACK in the network with a token, and a client connection in SynAckReceived, belong
to a connection whose SYNACK the rules cleared. `AcceptedOK`: an accepted
connection is not tracked any more, so no second ACK can meet it. `StackOK`: a server
stack that has seen a SYN has its connection tracked or authorized. `SynOK`, for
admission: the server's stack has only seen SYNs of admitted attempts, and the
latest SYN of a flow carries the nonce the client still tracks. The last is what
expiry breaks, and why two properties are about `expired = 0`.

### 4.3 Datapath (`DatapathProofs`)

* `NoPacketIsForgotten`: `RoomForAll => (Spec => []NoneForgotten)`. `RoomForAll` is
  `QueueSize <= ChannelSize` (the code has 500, `constants.go:23`, and 2000,
  `netfilter_linux.go:106`) and is necessary: with a queue of 3 and a channel of 2
  TLC finds the forgotten packet. The invariant is `Inv`; `ReceiveStep` uses the
  assumption.
* `NoStaleKeysAlways`: `Spec => []NoStaleKeys`, shared keys included. `KeyInv` says
  for each key in the tracker whose it is while a slice is written or removed key
  by key.
* `JudgedByOwnPolicyAlways`: `KeysAreOwn => (Spec => JudgedByOwnPolicy)`, an action
  property. `PacketInv` adds that the keys of rules in the kernel are in the
  tracker (`RulesOK`), that a waiting packet came by such a rule or is late
  (`LinesOK`), and which keys Enforce has written so far (`WrittenOK`).
  `KeysAreOwn` (no two PUs share a key) is what the IP addresses and marks of
  live PUs are supposed to be; `datapath_shared` shows one consequence when they
  are not.

### 4.4 Controller (`TriremeProofs`)

* `PairedAlways`, `EnforcedHasRuntimeAlways`;
* `ControllerImplementsService`: `Spec => ServiceSpec`, the refinement of PUService.

`Inv` says for each step of the worker what it holds in its hands (`WorkerOK`) and
that enforcer and supervisor differ only for the PU in hand and only between the
two calls (`TablesOK`). For the refinement there is one lemma per action: it is a
step of the service, or it changes nothing the service sees.

### 4.5 Remote enforcement (`RemoteProofs`)

* `NoOrphanAlways`, `SuperviseAfterInitAlways`, `RunningIsPolicedAlways`,
  `DeletedIsGoneAlways`: without hypotheses, for any number and kinds of failures.

`Inv` separates the PU in hand from all others. `Local` relates a live process to
the table of processmon and to initDone; `Rest` is what holds of a PU nobody works
on; `InHand` and `Progress` say step by step how far the work on the PU in hand has
come, given that it was spared the failures that matter. `Served` says what
the server in a live process holds at any time, whatever failed before: it is what
makes a create or update after a crash either succeed as a whole or return an error.

### 4.6 Linux monitor (`LinuxMonitorProofs`)

* `NoGhostAlways`: whatever fails, crashes or comes back;
* `RunningIsPolicedAlways`: across any number of crashes, under the hypothesis
  `~ CanReuse`, which is necessary (`linux_pid`).

`Inv` has, for each process, what the connection it waits on has done so far
(`ServedOK`), what its cgroup holds (`CgroupOK`), that a release agent is due or
under way when it has gone (`ReleaseOK`), and when it is policed (`PolicedOK`).

### 4.7 Docker monitor (`DockerMonitorProofs`)

* `RunningIsCoveredAlways`, `EndedIsReleasedAlways`, for any capacity of the channel.

The events of a container pass through three queues. `OrderOK`: in their
concatenation, behind an event that is out of date (a die event of a container
that runs, a start event of one that does not) comes one that is not. `SettledOK`: when no event is on its way the policy
is the one of the last run, or the handler that sees to it has read that run.
`TodoOK` and `PhaseOK` do the same for the containers still to be visited.

### 4.8 Packet (`PacketProofs`)

For every width `H >= 16` divisible by 4 (the data offset takes four bits of a
word), every header sum, number, offset, payload, token and padding:

* `WireValidAlways`, `RoundTripAlways`: `Spec => []WireValid`, `Spec => []RoundTrip`;
* `ArrivesAlways`, `IncrementalIsExactAlways`: `RoomForOption => (Spec => []...)`.

`RoomForOption` (no header is already 15 words long) is necessary,
`packet_claims` has the counterexample. The module assumes that a packet with its
token fits an IP packet (`SizeAssumption`) and that no payload is a token
(`TokenAssumption`: tokens are signed).

The loops are the difficulty: `Fold` adds carries until none is left, and
`checksumDelta` adds the words of a byte string. Both are recursive functions, so
first it is proved that they exist, by taking a least input for which they do
not. Then they are replaced by what they mean: `Fold[a]` is the one number in
`0 .. B - 1` that is congruent to `a` modulo `B - 1` and is 0 exactly when `a` is
(`Residue`, `FoldFacts`), and the sum of two byte strings, the first of even
length, is the sum of their sums. A header verifies when its words and its
checksum add up to a positive multiple of `B - 1`. From there the checksum lemmas
are congruences (`Same`), and the two zeros of one's complement are exactly the
exceptions that `IncrementalIsExact` names.

`Inv` relates the packet to the one the stack sent: on the wire it is `Rewritten`
(length, numbers, bytes, both checksums in terms of `sent`), behind the parser
`Parsed`, and delivered it is `sent` itself. `RoundTrip` needs that the IP checksum
comes back bit for bit, although it is adjusted twice and never recomputed
(`IPThereAndBack`).

### 4.9 Only model-checked

* Liveness: `EntriesLeave`, `Answered`, `StopReturns` (Trireme and DockerMonitor),
  `EndedIsForgotten`, `RunIsPoliced`, `QueueMoves`. Fairness and ENABLED are out
  of the prover's reach.
* `Supervisor` (`Hitless`, `NoLeftovers`, `ExclusionsExact`,
  `SupervisedIsInstalled`, `StopCleansIdle`) and `IPSetCtrl` (`OldOrNew`,
  `NoLeftovers`, `InForce`). Their state holds the commands still to run, and
  what a property says is established by whole lists of them, flattened from the
  lists of hooks and addresses and cut short at any point by a failure; an
  inductive invariant would have to describe the kernel between any two commands
  of every list of three goroutines. This has not been done.
* `Lookup` (`SearchIsSound`, `SearchIsComplete`): they count, over folds of
  flattened sequences, how often a policy is hit, and they hold only within the
  limits that section 6 gives for the policies.

No module declares a RECURSIVE operator.

## 5. Findings

* `linux_resync`: `ListCgroupProcesses` always returns an empty list
  (`cgnetcls.go:247`), so `reSync` (`rpc.go:102`) polices nothing again.

## 6. Other statements the code does not meet

Each has a configuration; `tlc -config X.cfg MC<module>` prints the first
counterexample. A `*_claims` configuration states several; `tlc -continue` goes
on to the others.

| Configuration | Statement | What happens |
|---|---|---|
| `cache_refresh` | `NoEarlyExpiry` | the callback of a timer that fired before AddOrUpdate stopped it removes the new entry (`cache.go:137`) |
| `handshake_claims` | `ValidAckIsAccepted` | a repeated SYN returns the connection to SynReceived and the valid ACK is dropped (`datapath_tcp.go:445`; the comment at 447 says "No harm here") |
| `handshake_claims` | `AcceptedIsAdmitted` | once the client's entry has expired a repeated SYN carries another nonce; a server whose policy now rejects it stores that nonce in the tracked connection (`datapath_tcp.go:352`) and then accepts its ACK (`docs/trireme_architecture.md:33`) |
| `supervisor_claims` | `CleanupIsForced` | an update to another address cannot delete the old mapping (`iptables.go:238`) and leaves it |
| `supervisor_claims` | `GovernedByCurrent` | after a failed update the old chains stay and come first later (`supervisor.go:194`) |
| `supervisor_claims` | `StopLeavesNothing` | Stop cleans while the worker still installs (`iptables.go:299`) |
| `remote_claims` | `EnforceAfterInit` | Unenforce keeps initDone on an RPC error (`enforcerproxy.go:150`) |
| `remote_claims` | `SuperviseReported` | the remote's Supervise error is not returned (`remoteenforcer_linux.go:204`) |
| `remote_claims` | `StartReported` | nor is the error of its supervisor's Start (`remoteenforcer_linux.go:158`) |
| `remote_claims` | `ContextsAreActive` | DestroyRPCClient leaves the context in the list that ContextList returns (`rpc_handle.go:177`) |
| `remote_claims` | `ExclusionsReachRemotes` | the RPC names `AddExcludedIP`, the server has `AddExcludedIPs` (`supervisorproxy.go:175`) |
| `remote_claims` | `KillReturns` | the error of NewRPCClient is dropped (`processmon.go:271`) and DestroyRPCClient panics |
| `ipset_exclude` | `ExclusionsApplied` | the loop returns in its first turn (`ipsetctrl.go:231`) |
| `linux_pid` | `RunningIsPoliced` | a process ID in use again is released by the agent of the old process (`systemdutil.go:98`) |
| `docker_race` | `AllAreHandled` | a container that starts before the subscription and after the list is never handled (`docker.go:195`, `204`) |
| `datapath_parse` | `NoPanic` | a packet that does not parse is used all the same (`datapath.go:397`: "Parse the packet - drop if parsing fails") |
| `datapath_shared` | `NoPanic` | the test of the lookup's error is inverted (`datapath.go:176`): once a PU with the same address was released, an update uses the context that was not found |
| `packet_claims` | `Arrives` | a header of 15 words has no room for the option; the offset wraps (`packet.go:460`) |
| `packet_claims` | `IncrementalAlwaysExact` | the incremental checksum is off when the stored one is 0 (`packet.go:417`, `457`); hidden, since every handler recomputes it |
| `lookup_exists` | `SearchIsSound` | two policies with KeyExists on one key are each counted twice (`lookup.go:91`), and one is returned with a clause unmatched (`policy_design.md:91`) |
| `lookup_absent` | `NotEqualIsComplete` | NotEqual on an absent key is never counted (`policy_design.md:133`) |
| `lookup_default` | `SearchIsComplete` | only the last policy that is a single KeyNotExists is kept (`lookup.go:101`) |
| `lookup_prefixes` | `SearchIsComplete` | sortedInsert overwrites a prefix length (`lookup.go:68`) |

The instance of the run `lookup` therefore holds no KeyExists next to another
clause, no prefix values and one single KeyNotExists policy: within these limits
Search is sound and complete.

Known without a property: an update to AllowAll returns nil and leaves the old
policy in force (`trireme.go:357`; PUService says so); a client that sends after
Stop waits forever; a launcher that dies before it is in its cgroup leaves a
policed PU; the keys of a PU that gets another address stay in the PU tracker
(`moved` in Datapath excuses them); the table of queues is a Go map that is
written without a lock (`netfilter_linux.go:101`); the buffer of a verdict comes
from a malloc whose result is not tested (`netfilter.h:53`).

## 7. Not modelled

* Token signing (`enforcer/utils/tokens`, `crypto`): assumed to do what it
  promises; TLC has nothing to explore in a signature.
* Flow statistics (`cmd/remoteenforcer/stats.go`): one collector that swaps its map
  under a lock and sends it once; an interval whose RPC fails is lost.
* The cgo layer below the queue (libnetfilter_queue), the Docker daemon, the kernel's
  iptables and ipset: external, modelled by how the code uses them.
* Configurator, policy data types, metadata extractors, mocks: construction and
  plain data, no state that changes.
* The real width of packet words (16 bits): a byte has 16 values in the run; the
  proofs are for every width.

## 8. Plan

1. `Supervisor`: `ExclusionsExact` and `SupervisedIsInstalled` first, since each
   concerns the commands of one goroutine only.
2. `IPSetCtrl`: `NoLeftovers`, with what a list of commands does to the kernel as
   a lemma per list.
3. `Lookup`: `SearchIsSound`, with the count of a policy as the number of its
   clauses that the tags looked up so far have hit.
