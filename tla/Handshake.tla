----------------------------- MODULE Handshake -----------------------------
(* The authorization handshake that two enforcers overlay on the TCP three-way
   handshake (enforcer/datapath_tcp.go): the enforcer of the client adds a
   signed token to SYN and to the first ACK, the enforcer of the server to
   SYNACK; each checks the token of the other end against its policy.

   Every handler processApplication..., processNetwork... is one action, with
   the lookups of processNetworkTCPPacket and the early passes of
   processNetworkTCPPackets and processApplicationTCPPackets.  A handler either
   passes the packet on or drops it.  A *TCPConnection is named by its
   LocalContext, a 32 byte random number that never repeats: here the enforcer
   that made it and the number of connections it has made.  A token carries its two nonces; identities are
   the two ends of the flow, and what the rules of a PU say of the other end is
   one of Rules.

   External, modelled by what the handlers see of them: the TCP stacks of the
   two hosts and the network, which loses, repeats and reorders packets (a
   packet once sent can be delivered any number of times).  A packet waits in
   a queue before its handler runs, so the handler of a SYN or SYNACK may run
   after the stack has moved on; packets of one flow leave a host in order, so
   no SYN is handled after an ACK of the same attempt (stack state "sending").  *)
EXTENDS Naturals, FiniteSets

CONSTANTS
    Flows,     \* source address and port, destination address and port
    MaxConns,  \* connection objects of an enforcer (a bound)
    Setups,    \* the deployments considered, and how much happens in each
    None

Nonces == {"client", "server"} \X (1 .. MaxConns)
Rules == {"accept", "reject", "nomatch"}

(* A setup: local is mode = LocalContainer, mutual is mutualAuthorization; client
   and server are what the rules of each PU can say of the other one (None: no
   PU); the bounds are the flows in use, the connection attempts of each, and the
   tracker entries that reach the 60 s of the trackers. *)
ASSUME SetupAssumption == \A s \in Setups :
    /\ {s.local, s.mutual} \subseteq BOOLEAN
    /\ s.client \cup s.server \subseteq Rules \cup {None}
    /\ {s.flows, s.attempts, s.expirations} \subseteq Nat
ASSUME NoneAssumption ==
    /\ MaxConns \in Nat
    /\ None \notin Nonces /\ None \notin Flows /\ None \notin Rules
    /\ None \notin [lcl : Nonces, rmt : Nonces \cup {None}]

VARIABLES
    conn,       \* the heap of TCPConnections
    appConn,    \* appConnectionTracker of the client's enforcer
    ctxConn,    \* keys of its contextConnectionTracker
    srcPort,    \* its sourcePortCache: the rules of the PUContext stored there
    netConn,    \* networkConnectionTracker of the server's enforcer
    dstPort,    \* keys of its destinationPortCache
    clientCtx,  \* puTracker at the client: the rules for the server, or None
    serverCtx,  \* puTracker at the server: the rules for the client, or None
    setup,      \* the setup
    expired,    \* tracker entries that expired
    net,        \* packets sent
    cstack,     \* the client's TCP stack
    sstack,     \* the server's TCP stack
    admitted,   \* history: connections whose SYN the receiver rules accepted
    cleared,    \* history: <<r, n>>, n's SYNACK passed the transmitter's check into r
    accepted,   \* FlowAccept records of the server's collector
    authd       \* history: flows accepted since their server stack last got a first SYN

enforcerVars == <<conn, appConn, ctxConn, srcPort, netConn, dstPort>>
policies == <<clientCtx, serverCtx>>
history == <<admitted, cleared, accepted, authd>>
vars == <<enforcerVars, setup, expired, policies, net, cstack, sstack, history>>

States == {"Unused", "SynSend", "SynReceived", "SynAckSend", "SynAckReceived",
           "AckSend", "AckProcessed"}
Local == setup.local
Attempts == 0..setup.attempts
Tokens   == [lcl : Nonces, rmt : Nonces \cup {None}]
Packets  == [kind : {"Syn", "SynAck", "Ack"}, flow : Flows, att : Attempts,
             tok : Tokens \cup {None}]

TypeOK ==
    /\ conn \in [Nonces -> [st : States, rem : Nonces \cup {None}, flow : Flows \cup {None}]]
    /\ appConn \in [Flows -> Nonces \cup {None}]
    /\ ctxConn \subseteq Nonces
    /\ srcPort \in [Flows -> Rules \cup {None}]
    /\ netConn \in [Flows -> Nonces \cup {None}]
    /\ dstPort \subseteq Flows
    /\ setup \in Setups
    /\ clientCtx \in setup.client
    /\ serverCtx \in setup.server
    /\ net \subseteq Packets
    /\ cstack \in [Flows -> [st : {"closed", "synSent", "established", "sending"}, att : Attempts]]
    /\ sstack \in [Flows -> [st : {"listen", "synRcvd", "established"}, att : Attempts]]
    /\ admitted \subseteq Nonces
    /\ cleared \subseteq Nonces \X Nonces
    /\ accepted \subseteq [flow : Flows, att : Attempts, lcl : Nonces, rmt : Nonces \cup {None}]
    /\ authd \subseteq Flows
    /\ expired \in 0 .. setup.expirations

Init ==
    /\ conn = [n \in Nonces |-> [st |-> "Unused", rem |-> None, flow |-> None]]
    /\ appConn = [f \in Flows |-> None]
    /\ ctxConn = {}
    /\ srcPort = [f \in Flows |-> None]
    /\ netConn = [f \in Flows |-> None]
    /\ dstPort = {}
    /\ setup \in Setups
    /\ clientCtx \in setup.client
    /\ serverCtx \in setup.server
    /\ net = {}
    /\ cstack = [f \in Flows |-> [st |-> "closed", att |-> 0]]
    /\ sstack = [f \in Flows |-> [st |-> "listen", att |-> 0]]
    /\ admitted = {} /\ cleared = {} /\ accepted = {} /\ authd = {}
    /\ expired = 0

-----------------------------------------------------------------------------
Packet(k, f, a, t) == [kind |-> k, flow |-> f, att |-> a, tok |-> t]
Token(l, r) == [lcl |-> l, rmt |-> r]

Send(p) == net' = net \cup {p}

(* The connection a tracker holds for a flow, or the next one of the enforcer. *)
Fresh(end, n) ==
    n[1] = end /\ \A i \in 1 .. MaxConns : conn[<<end, i>>].st = "Unused" <=> i >= n[2]
GetOrNew(tracked, end, n) == IF tracked # None THEN n = tracked ELSE Fresh(end, n)

-----------------------------------------------------------------------------
(* The TCP stacks. *)

Connect(f) ==
    /\ cstack[f].st = "closed" /\ cstack[f].att < setup.attempts
    /\ Cardinality({g \in Flows : g = f \/ cstack[g].att > 0}) <= setup.flows
    /\ cstack' = [cstack EXCEPT ![f] = [st |-> "synSent", att |-> @.att + 1]]
    /\ UNCHANGED <<enforcerVars, setup, expired, policies, net, sstack, history>>

ClientCloses(f) ==
    /\ cstack[f].st # "closed"
    /\ cstack' = [cstack EXCEPT ![f].st = "closed"]
    /\ UNCHANGED <<enforcerVars, setup, expired, policies, net, sstack, history>>

ServerCloses(f) ==
    /\ sstack[f].st # "listen"
    /\ sstack' = [sstack EXCEPT ![f].st = "listen"]
    /\ UNCHANGED <<enforcerVars, setup, expired, policies, net, cstack, history>>

(* A stack reacts only to a segment of its own connection attempt. *)
StackGetsSyn(p) ==
    sstack' = IF sstack[p.flow].st = "listen"
              THEN [sstack EXCEPT ![p.flow] = [st |-> "synRcvd", att |-> p.att]]
              ELSE sstack

StackGetsSynAck(p) ==
    cstack' = IF cstack[p.flow] = [st |-> "synSent", att |-> p.att]
              THEN [cstack EXCEPT ![p.flow].st = "established"]
              ELSE cstack

StackGetsAck(p) ==
    sstack' = IF sstack[p.flow] = [st |-> "synRcvd", att |-> p.att]
              THEN [sstack EXCEPT ![p.flow].st = "established"]
              ELSE sstack

-----------------------------------------------------------------------------
(* The client's enforcer. *)

ProcessApplicationSyn(f) ==
    /\ cstack[f].st \in {"synSent", "established"}
    /\ \/ /\ clientCtx = None
          /\ Send(Packet("Syn", f, cstack[f].att, None))
          /\ UNCHANGED enforcerVars
       \/ /\ clientCtx # None
          /\ \E n \in Nonces :
                /\ GetOrNew(appConn[f], "client", n)
                /\ conn' = [conn EXCEPT ![n].st = "SynSend", ![n].flow = f]
                /\ appConn' = [appConn EXCEPT ![f] = n]
                /\ ctxConn' = ctxConn \cup {n}
                /\ srcPort' = [srcPort EXCEPT ![f] = clientCtx]
                /\ Send(Packet("Syn", f, cstack[f].att, Token(n, None)))
          /\ UNCHANGED <<netConn, dstPort>>
    /\ UNCHANGED <<setup, expired, policies, cstack, sstack, history>>

(* The context for a SYNACK: by address, or the one cached with the SYN. *)
SynAckContext(f) == IF Local THEN clientCtx ELSE srcPort[f]

(* A SYNACK is matched to its connection by the nonce it answers.  The nonce of
   the peer is stored before the rules are looked at.                          *)
ProcessNetworkSynAck(p) ==
    /\ p \in net /\ p.kind = "SynAck"
    /\ \/ /\ ~Local /\ srcPort[p.flow] = None
          /\ p.tok = None               \* a stack rejects one that still has a token
          /\ StackGetsSynAck(p)
          /\ UNCHANGED <<conn, cleared>>
       \/ /\ SynAckContext(p.flow) # None
          /\ p.tok # None /\ p.tok.rmt \in ctxConn
          /\ IF ~setup.mutual \/ SynAckContext(p.flow) = "accept"
             THEN /\ conn' = [conn EXCEPT ![p.tok.rmt].rem = p.tok.lcl,
                                          ![p.tok.rmt].st = "SynAckReceived"]
                  /\ cleared' = cleared \cup {<<p.tok.rmt, p.tok.lcl>>}
                  /\ StackGetsSynAck(p)
             ELSE /\ conn' = [conn EXCEPT ![p.tok.rmt].rem = p.tok.lcl]
                  /\ UNCHANGED <<cleared, cstack>>
    /\ UNCHANGED <<appConn, ctxConn, srcPort, netConn, dstPort, setup, expired, policies, net,
                   sstack, admitted, accepted, authd>>

(* The first ACK carries both nonces; the next packet of the connection, in
   state AckSend, ends the tracking.                                           *)
ProcessApplicationAck(f) ==
    /\ cstack[f].st \in {"established", "sending"}
    /\ cstack' = [cstack EXCEPT ![f].st = "sending"]
    /\ LET n == appConn[f]
           plain == Packet("Ack", f, cstack[f].att, None)
       IN \/ /\ clientCtx = None \/ n = None
             /\ Send(plain)
             /\ UNCHANGED enforcerVars
          \/ /\ clientCtx # None /\ n # None /\ conn[n].st = "SynAckReceived"
             /\ Send(Packet("Ack", f, cstack[f].att, Token(n, conn[n].rem)))
             /\ conn' = [conn EXCEPT ![n].st = "AckSend"]
             /\ UNCHANGED <<appConn, ctxConn, srcPort, netConn, dstPort>>
          \/ /\ clientCtx # None /\ n # None /\ conn[n].st = "AckSend"
             /\ Send(plain)
             /\ ctxConn' = ctxConn \ {n}
             /\ appConn' = [appConn EXCEPT ![f] = None]
             /\ UNCHANGED <<conn, srcPort, netConn, dstPort>>
    /\ UNCHANGED <<setup, expired, policies, sstack, history>>

-----------------------------------------------------------------------------
(* The server's enforcer. *)

(* The token's nonce is stored in a tracked connection before the rules are
   looked at; an accepted SYN puts the connection in SynReceived, whatever its
   state was.                                                                   *)
ProcessNetworkSyn(p) ==
    /\ p \in net /\ p.kind = "Syn"
    /\ serverCtx # None /\ p.tok # None
    /\ \/ /\ serverCtx = "accept"
          /\ \E n \in Nonces :
                /\ GetOrNew(netConn[p.flow], "server", n)
                /\ conn' = [conn EXCEPT ![n] = [st |-> "SynReceived", rem |-> p.tok.lcl,
                                                flow |-> p.flow]]
                /\ netConn' = [netConn EXCEPT ![p.flow] = n]
                /\ admitted' = admitted \cup {p.tok.lcl}
          /\ dstPort' = dstPort \cup {p.flow}
          /\ StackGetsSyn(p)
          /\ authd' = IF sstack[p.flow].st = "listen" THEN authd \ {p.flow} ELSE authd
       \/ /\ serverCtx # "accept" /\ netConn[p.flow] # None
          /\ conn' = [conn EXCEPT ![netConn[p.flow]].rem = p.tok.lcl]
          /\ UNCHANGED <<netConn, dstPort, admitted, sstack, authd>>
    /\ UNCHANGED <<appConn, ctxConn, srcPort, setup, expired, policies, net, cstack, cleared,
                   accepted>>

(* The context for a SYNACK of the server. *)
SynAckTracked(f) == IF Local THEN serverCtx # None ELSE f \in dstPort

ProcessApplicationSynAck(f) ==
    /\ sstack[f].st # "listen"
    /\ LET n == netConn[f]
       IN \/ /\ ~SynAckTracked(f) \/ n = None
             /\ Send(Packet("SynAck", f, sstack[f].att, None))
             /\ UNCHANGED conn
          \/ /\ SynAckTracked(f) /\ n # None
             /\ conn[n].st \in {"SynReceived", "SynAckSend"}
             /\ conn' = [conn EXCEPT ![n].st = "SynAckSend"]
             /\ Send(Packet("SynAck", f, sstack[f].att, Token(n, conn[n].rem)))
    /\ UNCHANGED <<appConn, ctxConn, srcPort, netConn, dstPort, setup, expired, policies, cstack,
                   sstack, history>>

(* Slips in parseAckToken: one of the two nonces is not compared. *)
AckMatchesRemoteOnly(n, t) == t # None /\ t.lcl = conn[n].rem

AckMatchesLocalOnly(n, t) == t # None /\ t.rmt = n

(* parseAckToken: the ACK answers the connection's two nonces. *)
AckMatches(n, t) == t # None /\ t.rmt = n /\ t.lcl = conn[n].rem

(* A slip in ProcessNetworkAck: the connection stays in the tracker. *)
ProcessNetworkAckKeeps(p) ==
    /\ p \in net /\ p.kind = "Ack"
    /\ serverCtx # None
    /\ LET n == netConn[p.flow]
       IN \/ /\ n = None
             /\ IF p.tok = None THEN StackGetsAck(p) ELSE UNCHANGED sstack
             /\ UNCHANGED <<conn, netConn, accepted, authd>>
          \/ /\ n # None /\ conn[n].st = "SynAckSend" /\ AckMatches(n, p.tok)
             /\ StackGetsAck(p)
             /\ conn' = [conn EXCEPT ![n].st = "AckProcessed"]
             /\ UNCHANGED netConn
             /\ accepted' = accepted \cup {[flow |-> p.flow, att |-> p.att, lcl |-> n,
                                            rmt |-> conn[n].rem]}
             /\ authd' = authd \cup {p.flow}
    /\ UNCHANGED <<appConn, ctxConn, srcPort, dstPort, setup, expired, policies, net, cstack,
                   admitted, cleared>>

(* A slip in ProcessNetworkAck: an ACK without a token passes untracked. *)
ProcessNetworkAckPassesPlain(p) ==
    /\ p \in net /\ p.kind = "Ack"
    /\ serverCtx # None
    /\ LET n == netConn[p.flow]
       IN \/ /\ n = None \/ p.tok = None
             /\ IF p.tok = None THEN StackGetsAck(p) ELSE UNCHANGED sstack
             /\ UNCHANGED <<conn, netConn, accepted, authd>>
          \/ /\ n # None /\ conn[n].st = "SynAckSend" /\ AckMatches(n, p.tok)
             /\ StackGetsAck(p)
             /\ conn' = [conn EXCEPT ![n].st = "AckProcessed"]
             /\ netConn' = [netConn EXCEPT ![p.flow] = None]
             /\ accepted' = accepted \cup {[flow |-> p.flow, att |-> p.att, lcl |-> n,
                                            rmt |-> conn[n].rem]}
             /\ authd' = authd \cup {p.flow}
    /\ UNCHANGED <<appConn, ctxConn, srcPort, dstPort, setup, expired, policies, net, cstack,
                   admitted, cleared>>

(* An ACK of an untracked connection passes as it is (one that still carries a
   token repeats old sequence numbers, and the stack ignores it); a tracked one
   must be in SynAckSend and carry the right token, which ends the handshake.
   The packets here are well formed: detaching the token does not fail, so that a
   connection in AckProcessed is no longer tracked, and the branch that removes
   one is not taken.                                                           *)
ProcessNetworkAck(p) ==
    /\ p \in net /\ p.kind = "Ack"
    /\ serverCtx # None
    /\ LET n == netConn[p.flow]
       IN \/ /\ n = None
             /\ IF p.tok = None THEN StackGetsAck(p) ELSE UNCHANGED sstack
             /\ UNCHANGED <<conn, netConn, accepted, authd>>
          \/ /\ n # None /\ conn[n].st = "SynAckSend" /\ AckMatches(n, p.tok)
             /\ StackGetsAck(p)
             /\ conn' = [conn EXCEPT ![n].st = "AckProcessed"]
             /\ netConn' = [netConn EXCEPT ![p.flow] = None]
             /\ accepted' = accepted \cup {[flow |-> p.flow, att |-> p.att, lcl |-> n,
                                            rmt |-> conn[n].rem]}
             /\ authd' = authd \cup {p.flow}
    /\ UNCHANGED <<appConn, ctxConn, srcPort, dstPort, setup, expired, policies, net, cstack,
                   admitted, cleared>>

-----------------------------------------------------------------------------
(* Policy changes: Enforce installs a new PUContext, Unenforce removes it. *)
ClientPolicy(c) ==
    /\ clientCtx' = c
    /\ UNCHANGED <<enforcerVars, setup, expired, serverCtx, net, cstack, sstack, history>>

ServerPolicy(c) ==
    /\ serverCtx' = c
    /\ UNCHANGED <<enforcerVars, setup, expired, clientCtx, net, cstack, sstack, history>>

(* A tracker entry reaches its lifetime of 60 s. *)
Expire ==
    /\ expired < setup.expirations /\ expired' = expired + 1
    /\ \/ \E f \in Flows : /\ appConn[f] # None /\ appConn' = [appConn EXCEPT ![f] = None]
                           /\ UNCHANGED <<ctxConn, srcPort, netConn, dstPort>>
       \/ \E n \in ctxConn : /\ ctxConn' = ctxConn \ {n}
                             /\ UNCHANGED <<appConn, srcPort, netConn, dstPort>>
       \/ \E f \in Flows : /\ srcPort[f] # None /\ srcPort' = [srcPort EXCEPT ![f] = None]
                           /\ UNCHANGED <<appConn, ctxConn, netConn, dstPort>>
       \/ \E f \in Flows : /\ netConn[f] # None /\ netConn' = [netConn EXCEPT ![f] = None]
                           /\ UNCHANGED <<appConn, ctxConn, srcPort, dstPort>>
       \/ \E f \in dstPort : /\ dstPort' = dstPort \ {f}
                             /\ UNCHANGED <<appConn, ctxConn, srcPort, netConn>>
    /\ UNCHANGED <<conn, setup, policies, net, cstack, sstack, history>>

Next ==
    \/ \E f \in Flows : Connect(f)
    \/ \E f \in Flows : ClientCloses(f)
    \/ \E f \in Flows : ServerCloses(f)
    \/ \E f \in Flows : ProcessApplicationSyn(f)
    \/ \E f \in Flows : ProcessApplicationSynAck(f)
    \/ \E f \in Flows : ProcessApplicationAck(f)
    \/ \E p \in net : ProcessNetworkSyn(p)
    \/ \E p \in net : ProcessNetworkSynAck(p)
    \/ \E p \in net : ProcessNetworkAck(p)
    \/ \E c \in setup.client : ClientPolicy(c)
    \/ \E c \in setup.server : ServerPolicy(c)
    \/ Expire

Spec == Init /\ [][Next]_vars

-----------------------------------------------------------------------------
(* PROPERTIES *)

(* A flow the server's enforcer reports as accepted is one that the client's
   enforcer took part in: its connection is for the same flow, its rules (with
   mutual authorization) let a SYNACK pass, and it answered exactly this connection.
   Tokens carry no flow and a SYNACK finds its connection by nonce alone
   (datapath_tcp.go:519), so the agreement rests on the nonces.                 *)
Agreement ==
    \A a \in accepted :
        /\ conn[a.lcl].flow = a.flow /\ conn[a.rmt].flow = a.flow
        /\ \E p \in net : p.kind = "Ack" /\ p.flow = a.flow /\ p.tok = Token(a.rmt, a.lcl)
        /\ \E n \in Nonces : <<a.rmt, n>> \in cleared

(* No packet sequence, repeated or late, makes one connection of the server's
   enforcer end twice (datapath_tcp.go:691: the tracker entry goes with the
   first ACK that matches).                                                    *)
AcceptOnce ==
    \A a, b \in accepted : a.lcl = b.lcl => a = b

(* The client connection of every accepted flow is one whose SYN the receiver
   rules accepted (processNetworkSynPacket), whatever expires.                 *)
AcceptedIsAdmitted == \A a \in accepted : a.rmt \in admitted

(* While trackers keep their entries, the client connection of an accepted flow is
   one whose SYN the receiver rules accepted: "a Syn packet is accepted if and only if it carries a valid
   identity and the receiving identity is authorized to receive traffic from
   the given source" (docs/trireme_architecture.md:33).  A rejected SYN does
   overwrite the nonce of a tracked connection (datapath_tcp.go:352), so this
   depends on the order of everything that follows, and on the client's tracker:
   once its entry has expired, a repeated SYN carries another nonce.           *)
AcceptedWasAdmitted ==
    expired = 0 => AcceptedIsAdmitted

(* While trackers keep their entries, the stack of a policed server completes
   no connection the enforcer did not accept.                                  *)
EstablishedIsAuthorized ==
    expired = 0 => \A f \in Flows : sstack[f].st = "established" => f \in authd

(* "Note that if the connection exists already we will just end-up replicating
   it. No harm here." (datapath_tcp.go:447): an ACK on its way with the right
   nonces finds the connection in the state in which it is accepted.           *)
ValidAckIsAccepted ==
    \A p \in net : p.kind = "Ack" =>
        LET n == netConn[p.flow]
        IN n # None /\ AckMatches(n, p.tok) => conn[n].st = "SynAckSend"
=============================================================================
