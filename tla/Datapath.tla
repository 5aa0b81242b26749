------------------------------- MODULE Datapath -------------------------------
(* How a packet finds the policy it is judged by: the netfilter queues
   (enforcer/netfilter), the goroutines that serve them, and the two caches of
   the enforcer in which Enforce and Unenforce keep the contexts of the
   processing units (enforcer/datapath.go).  What a handler then does with the
   packet is module Handshake.

   A PU is known by the keys of its traffic: the address of a container; the
   mark of a process, for what it sends, and its ports, for what it gets.  Its
   []*DualHash is a slice here, the keys in the order in which Enforce writes
   them.  Every operation of a cache is atomic (one mutex), a sequence of them
   is not.  One goroutine, the controller's, calls Enforce and Unenforce, with
   the calls of the supervisor between them (trireme.go): the rules that send
   the packets of a PU to the queues are installed after Enforce and removed
   before Unenforce.                                                          *)
EXTENDS Naturals, Sequences, Functions

CONSTANTS
    PUs,
    Keys,
    Slices,       \* Slices[p]: the slices puHash can give PU p
    Policies,
    Queues,       \* netfilter queues
    QueueSize,    \* packets without a verdict the kernel keeps in a queue
    ChannelSize,  \* capacity of NFQueue.Packets
    Unparsed,     \* packets may come that packet.New returns an error for
    None

ASSUME SliceAssumption ==
    \A p \in PUs : \A s \in Slices[p] : s \in Seq(Keys) /\ Len(s) >= 2
ASSUME SizeAssumption == {QueueSize, ChannelSize} \subseteq Nat \ {0}
ASSUME ParseAssumption == Unparsed \in BOOLEAN

Context(p, pol) == [pu |-> p, pol |-> pol]
Contexts == [pu : PUs, pol : Policies]
Packets == [pu : PUs, key : Keys, parses : BOOLEAN, late : BOOLEAN]
Judged == [pkt : Packets, ctx : Contexts \cup {None}]
Requests == [at : {"enforce", "write", "supervise", "unsupervise", "unenforce", "remove"},
             pu : PUs, pol : Policies \cup {None}, slice : Seq(Keys), todo : Seq(Keys)]

ASSUME NoneAssumption == None \notin Contexts /\ None \notin Judged /\ None \notin Requests

VARIABLES
    contextTracker,  \* the slice of each PU, <<>> when it is not there
    puTracker,       \* the PUContext of each key, or None
    rules,           \* the keys whose packets are queued for each PU: a slice
    current,         \* history: the policy of the last Enforce of each PU that returned
    moved,           \* history: PUs enforced again with another slice
    worker,          \* the request the controller is serving, or None
    side,            \* "app": packets applications send, "net": packets from the network
    kernel,          \* packets of each queue that run() has not received
    total,           \* packets of each queue without a verdict
    channel,         \* NFQueue.Packets
    busy,            \* the packet a goroutine has looked up, with its context
    dead             \* the process has panicked

tracker == <<contextTracker, puTracker>>
queues == <<side, kernel, total, channel, busy>>
vars == <<tracker, rules, current, moved, worker, queues, dead>>

TypeOK ==
    /\ contextTracker \in [PUs -> Seq(Keys)]
    /\ puTracker \in [Keys -> Contexts \cup {None}]
    /\ rules \in [PUs -> Seq(Keys)]
    /\ current \in [PUs -> Policies \cup {None}] /\ moved \subseteq PUs
    /\ worker \in Requests \cup {None}
    /\ side \in [Queues -> {"app", "net"}]
    /\ kernel \in [Queues -> Seq(Packets)] /\ channel \in [Queues -> Seq(Packets)]
    /\ total \in [Queues -> 0 .. QueueSize]
    /\ busy \in [Queues -> Judged \cup {None}]
    /\ dead \in BOOLEAN

Init ==
    /\ contextTracker = [p \in PUs |-> <<>>]
    /\ puTracker = [k \in Keys |-> None]
    /\ rules = [p \in PUs |-> <<>>]
    /\ current = [p \in PUs |-> None] /\ moved = {}
    /\ worker = None
    /\ side \in [Queues -> {"app", "net"}]
    /\ kernel = [q \in Queues |-> <<>>] /\ channel = [q \in Queues |-> <<>>]
    /\ total = [q \in Queues |-> 0]
    /\ busy = [q \in Queues |-> None]
    /\ dead = FALSE

-----------------------------------------------------------------------------
(* The controller: doHandleCreate and doUpdatePolicy (Enforce, Supervise),
   doHandleDelete (Unsupervise, Unenforce). *)

At(at) == ~ dead /\ worker # None /\ worker.at = at
Goto(at, todo) == worker' = [worker EXCEPT !.at = at, !.todo = todo]
Done == worker' = None

Apply(p, pol, s) ==
    /\ ~ dead /\ worker = None
    /\ worker' = [at |-> "enforce", pu |-> p, pol |-> pol, slice |-> s, todo |-> <<>>]
    /\ UNCHANGED <<tracker, rules, current, moved, queues, dead>>

Delete(p) ==
    /\ ~ dead /\ worker = None
    /\ worker' = [at |-> "unsupervise", pu |-> p, pol |-> None, slice |-> <<>>, todo |-> <<>>]
    /\ UNCHANGED <<tracker, rules, current, moved, queues, dead>>

(* Enforce, up to the first key doCreatePU writes.  The test after the look-up
   of a PU that is there already is inverted: without a context it goes on with
   a nil one.  doCreatePU fails when a container has no valid address. *)
Enforce ==
    /\ At("enforce")
    /\ LET p == worker.pu
           old == contextTracker[p]
       IN  IF old # <<>> /\ puTracker[Head(old)] = None
           THEN dead' = TRUE /\ UNCHANGED <<contextTracker, moved, worker>>
           ELSE /\ \/ /\ contextTracker' = [contextTracker EXCEPT ![p] = worker.slice]
                      /\ moved' = IF old \in {<<>>, worker.slice} THEN moved ELSE moved \cup {p}
                      /\ Goto("write", worker.slice)
                   \/ Done /\ UNCHANGED <<contextTracker, moved>>
                /\ UNCHANGED dead
    /\ UNCHANGED <<puTracker, rules, current, queues>>

(* A slip in doCreatePU: a context that is there already is kept. *)
WriteKeyOnce ==
    /\ At("write")
    /\ puTracker' = IF puTracker[Head(worker.todo)] # None THEN puTracker
                    ELSE [puTracker EXCEPT ![Head(worker.todo)] = Context(worker.pu, worker.pol)]
    /\ IF Len(worker.todo) > 1
       THEN Goto("write", Tail(worker.todo)) /\ UNCHANGED current
       ELSE Goto("supervise", <<>>) /\ current' = [current EXCEPT ![worker.pu] = worker.pol]
    /\ UNCHANGED <<contextTracker, rules, moved, queues, dead>>

(* One puTracker.AddOrUpdate of doCreatePU.  The PUContext is complete: doUpdatePU
   has filled it. *)
WriteKey ==
    /\ At("write")
    /\ puTracker' = [puTracker EXCEPT ![Head(worker.todo)] = Context(worker.pu, worker.pol)]
    /\ IF Len(worker.todo) > 1
       THEN Goto("write", Tail(worker.todo)) /\ UNCHANGED current
       ELSE Goto("supervise", <<>>) /\ current' = [current EXCEPT ![worker.pu] = worker.pol]
    /\ UNCHANGED <<contextTracker, rules, moved, queues, dead>>

(* The rules of p are gone: what is still queued is late. *)
Release(p) ==
    LET delayed(pkts) == [i \in DOMAIN pkts |->
                             IF pkts[i].pu = p THEN [pkts[i] EXCEPT !.late = TRUE] ELSE pkts[i]]
    IN  /\ rules' = [rules EXCEPT ![p] = <<>>]
        /\ kernel' = [q \in Queues |-> delayed(kernel[q])]
        /\ channel' = [q \in Queues |-> delayed(channel[q])]
        /\ UNCHANGED <<side, total, busy>>

(* Supervise (external here: module Supervisor).  After an error the rules are
   not there and Unenforce is called. *)
Supervise ==
    /\ At("supervise")
    /\ \/ /\ rules' = [rules EXCEPT ![worker.pu] = worker.slice]
          /\ Done /\ UNCHANGED queues
       \/ Release(worker.pu) /\ Goto("unenforce", <<>>)
    /\ UNCHANGED <<tracker, current, moved, dead>>

Unsupervise ==
    /\ At("unsupervise")
    /\ Release(worker.pu) /\ Goto("unenforce", <<>>)
    /\ UNCHANGED <<tracker, current, moved, dead>>

Unenforce ==
    /\ At("unenforce")
    /\ IF contextTracker[worker.pu] = <<>> THEN Done
       ELSE Goto("remove", contextTracker[worker.pu])
    /\ UNCHANGED <<tracker, rules, current, moved, queues, dead>>

(* A slip in Unenforce: only the key of what the PU sends is removed. *)
RemoveFirstKey ==
    /\ At("remove")
    /\ puTracker' = [puTracker EXCEPT ![Head(worker.todo)] = None]
    /\ contextTracker' = [contextTracker EXCEPT ![worker.pu] = <<>>]
    /\ current' = [current EXCEPT ![worker.pu] = None]
    /\ moved' = moved
    /\ Done
    /\ UNCHANGED <<rules, queues, dead>>

(* One puTracker.Remove of Unenforce, whose error nobody looks at; with the last,
   contextTracker.Remove, which no packet reads. *)
RemoveKey ==
    /\ At("remove")
    /\ puTracker' = [puTracker EXCEPT ![Head(worker.todo)] = None]
    /\ IF Len(worker.todo) > 1
       THEN Goto("remove", Tail(worker.todo)) /\ UNCHANGED <<contextTracker, current>>
       ELSE /\ contextTracker' = [contextTracker EXCEPT ![worker.pu] = <<>>]
            /\ current' = [current EXCEPT ![worker.pu] = None]
            /\ Done
    /\ UNCHANGED <<rules, moved, queues, dead>>

-----------------------------------------------------------------------------
(* The queues *)

(* The keys of a slice by which a queue finds the PU: createHashForProcess puts
   the mark and a port in turn; both are the address for a container. *)
KeysFor(q, s) == {s[i] : i \in {j \in DOMAIN s : (j % 2 = 1) = (side[q] = "app")}}

(* The kernel queues a packet of p, unless the queue is full (external). *)
Arrive(q, p) ==
    /\ total[q] < QueueSize
    /\ \E k \in KeysFor(q, rules[p]), ok \in IF Unparsed THEN BOOLEAN ELSE {TRUE} :
          kernel' = [kernel EXCEPT ![q] = Append(@, [pu |-> p, key |-> k, parses |-> ok, late |-> FALSE])]
    /\ total' = [total EXCEPT ![q] = @ + 1]
    /\ UNCHANGED <<tracker, rules, current, moved, worker, side, channel, busy, dead>>

(* A slip in NewNFQueue: the channel has room for one packet. *)
ReceiveOne(q) ==
    /\ ~ dead /\ kernel[q] # <<>>
    /\ kernel' = [kernel EXCEPT ![q] = Tail(@)]
    /\ channel' = IF channel[q] = <<>>
                  THEN [channel EXCEPT ![q] = Append(@, Head(kernel[q]))] ELSE channel
    /\ UNCHANGED <<tracker, rules, current, moved, worker, side, total, busy, dead>>

(* Run, nf_callback and processPacket.  When the channel is full the packet is
   forgotten: the kernel never gets a verdict for it. *)
Receive(q) ==
    /\ ~ dead /\ kernel[q] # <<>>
    /\ kernel' = [kernel EXCEPT ![q] = Tail(@)]
    /\ channel' = IF Len(channel[q]) < ChannelSize
                  THEN [channel EXCEPT ![q] = Append(@, Head(kernel[q]))] ELSE channel
    /\ UNCHANGED <<tracker, rules, current, moved, worker, side, total, busy, dead>>

(* process...PacketsFromNFQ up to contextFromIP.  A packet that does not parse
   leaves a nil *Packet, on which Print is called. *)
Lookup(q) ==
    /\ ~ dead /\ busy[q] = None /\ channel[q] # <<>>
    /\ LET pkt == Head(channel[q])
       IN  IF pkt.parses
           THEN /\ channel' = [channel EXCEPT ![q] = Tail(@)]
                /\ busy' = [busy EXCEPT ![q] = [pkt |-> pkt, ctx |-> puTracker[pkt.key]]]
                /\ UNCHANGED dead
           ELSE dead' = TRUE /\ UNCHANGED <<channel, busy>>
    /\ UNCHANGED <<tracker, rules, current, moved, worker, side, kernel, total>>

(* A slip: a packet without a context gets no verdict. *)
SetVerdictWithContext(q) ==
    /\ ~ dead /\ busy[q] # None
    /\ busy' = [busy EXCEPT ![q] = None]
    /\ total' = IF busy[q].ctx # None THEN [total EXCEPT ![q] = @ - 1] ELSE total
    /\ UNCHANGED <<tracker, rules, current, moved, worker, side, kernel, channel, dead>>

(* The rest of the handler, and SetVerdict, whatever the verdict is. *)
SetVerdict(q) ==
    /\ ~ dead /\ busy[q] # None
    /\ busy' = [busy EXCEPT ![q] = None]
    /\ total' = [total EXCEPT ![q] = @ - 1]
    /\ UNCHANGED <<tracker, rules, current, moved, worker, side, kernel, channel, dead>>

Next ==
    \/ \E p \in PUs : \E pol \in Policies, s \in Slices[p] : Apply(p, pol, s)
    \/ \E p \in PUs : Delete(p)
    \/ Enforce \/ WriteKey \/ Supervise \/ Unsupervise \/ Unenforce \/ RemoveKey
    \/ \E q \in Queues, p \in PUs : Arrive(q, p)
    \/ \E q \in Queues : Receive(q) \/ Lookup(q) \/ SetVerdict(q)

Spec == Init /\ [][Next]_vars

(* The loop in Run and the goroutine of each queue keep running. *)
Fairness == \A q \in Queues : WF_vars(Receive(q)) /\ WF_vars(Lookup(q)) /\ WF_vars(SetVerdict(q))

FairSpec == Spec /\ Fairness

-----------------------------------------------------------------------------
(* PROPERTIES *)

(* What a packet that is taken up is judged by. *)
OwnPolicy(judged) ==
    LET pkt == judged.pkt
        ctx == judged.ctx
    IN  \/ pkt.late
        \/ /\ ctx # None /\ ctx.pu = pkt.pu
           /\ \/ ctx.pol = current[pkt.pu]
              \/ pkt.pu \in moved
              \/ worker # None /\ worker.pu = pkt.pu /\ ctx.pol = worker.pol

(* A packet is judged by the context of its own PU, with the policy of the last
   Enforce or of the one in progress, unless the PU was released after the
   packet was queued: the keys of a PU are never missing while its packets are
   queued, not even while Enforce replaces them one by one (datapath.go:254).
   (A PU that is enforced with other keys keeps its old context under the old
   ones.) *)
JudgedByOwnPolicy == [][\A q \in Queues : busy[q] = None /\ busy'[q] # None => OwnPolicy(busy'[q])]_vars

(* Between two requests every key leads to a PU that is there, under its own
   slice: nothing is left of one that is gone.  (The keys a PU had before it was
   enforced with others do stay, for ever: datapath.go:251.) *)
NoStaleKeys ==
    worker = None => \A k \in Keys :
        puTracker[k] # None =>
            \/ k \in Range(contextTracker[puTracker[k].pu])
            \/ puTracker[k].pu \in moved

(* The packets the kernel keeps for a queue are those on their way to a verdict:
   none is forgotten by processPacket when the channel is full
   (netfilter_linux.go:257), which would take a place in the queue for ever. *)
NoneForgotten ==
    \A q \in Queues : total[q] = Len(kernel[q]) + Len(channel[q]) + (IF busy[q] = None THEN 0 ELSE 1)

(* The channel has room for everything the kernel keeps: 2000 packets in
   NewNFQueue (netfilter_linux.go:106) and 500 by default (constants.go:23). *)
RoomForAll == QueueSize <= ChannelSize

(* An address, a mark or a port is a key of one PU only. *)
KeysOf(p) == UNION {Range(s) : s \in Slices[p]}
KeysAreOwn == \A p, r \in PUs : p # r => KeysOf(p) \cap KeysOf(r) = {}

(* A queue that is full is served: the kernel takes packets again. *)
QueueMoves ==
    \A q \in Queues : total[q] = QueueSize ~> total[q] < QueueSize

(* "Parse the packet - drop if parsing fails" (datapath.go:397); and the look-up
   of a PU that is there already succeeds (datapath.go:175). *)
NoPanic == ~ dead
=============================================================================
