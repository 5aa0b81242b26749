--------------------------- MODULE HandshakeProofs ---------------------------
(* What the authorization handshake guarantees in every deployment: any flows,
   policies, attempts and expired entries, on a network that loses, repeats and
   reorders packets.                                                           *)
EXTENDS Handshake, TLAPS

Conns == [st : States, rem : Nonces \cup {None}, flow : Flows \cup {None}]
Segments == [kind : {"Syn", "SynAck", "Ack"}, flow : Flows, att : Nat, tok : Tokens \cup {None}]
ClientStacks == [st : {"closed", "synSent", "established", "sending"}, att : Nat]
ServerStacks == [st : {"listen", "synRcvd", "established"}, att : Nat]
Reports == [flow : Flows, att : Nat, lcl : Nonces, rmt : Nonces \cup {None}]

Types ==
    /\ conn \in [Nonces -> Conns]
    /\ appConn \in [Flows -> Nonces \cup {None}] /\ netConn \in [Flows -> Nonces \cup {None}]
    /\ ctxConn \subseteq Nonces
    /\ net \subseteq Segments
    /\ cstack \in [Flows -> ClientStacks] /\ sstack \in [Flows -> ServerStacks]
    /\ accepted \subseteq Reports /\ cleared \subseteq Nonces \X Nonces
    /\ expired \in Nat

(* A connection object belongs to one enforcer and one flow: the trackers of the
   client hold its own, for their flow, and so do those of the server. *)
TrackOK ==
    /\ \A n \in Nonces : conn[n].st = "Unused" => conn[n].flow = None
    /\ \A n \in ctxConn : n[1] = "client" /\ conn[n].flow # None
    /\ \A f \in Flows :
          /\ appConn[f] # None => appConn[f][1] = "client" /\ conn[appConn[f]].flow = f
          /\ netConn[f] # None => netConn[f][1] = "server" /\ conn[netConn[f]].flow = f

(* An ACK with a token comes from a connection of its flow that a SYNACK passed. *)
Cleared(r) == \E n \in Nonces : <<r, n>> \in cleared
AckOK ==
    /\ \A n \in Nonces : n[1] = "client" /\ conn[n].st = "SynAckReceived" => Cleared(n)
    /\ \A p \in net : p.kind = "Ack" /\ p.tok # None =>
          conn[p.tok.lcl].flow = p.flow /\ Cleared(p.tok.lcl)

(* Agreement, and a connection that has ended is no longer tracked. *)
AcceptedOK ==
    /\ AcceptOnce /\ Agreement
    /\ \A a \in accepted : netConn[a.flow] # a.lcl

(* A stack that has got a SYN is tracked, or has been accepted. *)
StackOK ==
    expired = 0 => \A f \in Flows :
        /\ sstack[f].st # "listen" => netConn[f] # None \/ f \in authd
        /\ sstack[f].st = "established" => f \in authd

(* The receiver rules accepted a SYN of this attempt. *)
Admits(f, a) ==
    \E q \in net : /\ q.kind = "Syn" /\ q.flow = f /\ q.att = a
                   /\ q.tok # None /\ q.tok.lcl \in admitted

(* No stack gets further than its SYN was admitted, and every SYN of an attempt
   carries the nonce that its ACK will carry. *)
SynOK ==
    /\ \A f \in Flows : sstack[f].st # "listen" => Admits(f, sstack[f].att)
    /\ \A p \in net : p.kind = "SynAck" => Admits(p.flow, p.att)
    /\ \A f \in Flows : cstack[f].st \in {"established", "sending"} => Admits(f, cstack[f].att)
    /\ expired = 0 => \A p \in net : p.kind = "Syn" /\ p.tok # None =>
          LET f == p.flow
          IN  /\ p.att <= cstack[f].att
              /\ p.att = cstack[f].att =>
                    \/ appConn[f] = p.tok.lcl
                    \/ appConn[f] = None /\ cstack[f].st \in {"sending", "closed"}
    /\ expired = 0 => \A p \in net : p.kind = "Ack" /\ p.tok # None => p.tok.lcl \in admitted

Inv == /\ Types /\ TrackOK /\ AckOK /\ AcceptedOK /\ StackOK /\ SynOK
       /\ AcceptedWasAdmitted

-----------------------------------------------------------------------------
(* What a step keeps *)

Agreed(a) ==
    /\ conn[a.lcl].flow = a.flow /\ conn[a.rmt].flow = a.flow
    /\ \E p \in net : p.kind = "Ack" /\ p.flow = a.flow /\ p.tok = Token(a.rmt, a.lcl)
    /\ Cleared(a.rmt)

Grows ==
    /\ net \subseteq net' /\ admitted \subseteq admitted' /\ cleared \subseteq cleared'
    /\ \A n \in Nonces : conn[n].flow # None => conn'[n].flow = conn[n].flow

(* The fields of a packet, of its token and of a report. *)
LEMMA Fields ==
    ASSUME Types
    PROVE  /\ \A p \in net : /\ p.flow \in Flows /\ p.att \in Nat /\ p.tok \in Tokens \cup {None}
                             /\ p.flow # None
           /\ \A t \in Tokens : /\ t.lcl \in Nonces /\ t.rmt \in Nonces \cup {None}
                                /\ t = Token(t.lcl, t.rmt) /\ t # None
           /\ \A a \in accepted : /\ a.flow \in Flows /\ a.flow # None /\ a.att \in Nat
                                  /\ a.lcl \in Nonces /\ a.rmt \in Nonces \cup {None}
           /\ \A n \in Nonces : n # None
<1>1. \A p \in Segments : p.flow \in Flows /\ p.att \in Nat /\ p.tok \in Tokens \cup {None}
    BY Zenon DEF Segments
<1>2. \A a \in Reports : a.flow \in Flows /\ a.att \in Nat /\ a.lcl \in Nonces
                         /\ a.rmt \in Nonces \cup {None}
    BY Zenon DEF Reports
<1>3. \A t \in Tokens : t.lcl \in Nonces /\ t.rmt \in Nonces \cup {None} /\ t = Token(t.lcl, t.rmt)
    BY SMT DEF Tokens, Token
<1>4. None \notin Tokens /\ None \notin Nonces /\ None \notin Flows
    BY NoneAssumption, Zenon DEF Tokens
<1>5. net \subseteq Segments /\ accepted \subseteq Reports
    BY Zenon DEF Types
<1>6. \A p \in net : p.flow \in Flows /\ p.att \in Nat /\ p.tok \in Tokens \cup {None}
                      /\ p.flow # None
    BY <1>1, <1>4, <1>5, Zenon
<1>7. \A a \in accepted : a.flow \in Flows /\ a.att \in Nat /\ a.lcl \in Nonces
                          /\ a.rmt \in Nonces \cup {None} /\ a.flow # None
    BY <1>2, <1>4, <1>5, Zenon
<1> QED
    BY <1>3, <1>4, <1>6, <1>7, Zenon

(* The nonce of the client in a report is a nonce: it is one that was cleared. *)
LEMMA AgreedNonce ==
    ASSUME Types, NEW a \in accepted, Agreed(a)
    PROVE  a.rmt \in Nonces /\ a.lcl \in Nonces
<1>1. PICK n \in Nonces : <<a.rmt, n>> \in Nonces \X Nonces
    BY Zenon DEF Agreed, Cleared, Types
<1>2. a.rmt \in Nonces
    BY <1>1, SMT
<1> QED
    BY <1>2, Fields, Zenon

LEMMA Kept ==
    ASSUME Inv, Grows
    PROVE  /\ \A r : Cleared(r) => Cleared(r)'
           /\ \A f, a : Admits(f, a) => Admits(f, a)'
           /\ \A a \in accepted : Agreed(a) /\ Agreed(a)'
           /\ \A p \in net : p.kind = "Ack" /\ p.tok # None =>
                 conn'[p.tok.lcl].flow = p.flow /\ Cleared(p.tok.lcl)'
<1>1. \A r : Cleared(r) => Cleared(r)'
    BY Zenon DEF Grows, Cleared
<1>2. \A f, a : Admits(f, a) => Admits(f, a)'
    BY Zenon DEF Grows, Admits
<1>3. ASSUME NEW a \in accepted PROVE Agreed(a) /\ Agreed(a)'
    <2>1. Agreed(a)
        BY Zenon DEF Inv, AcceptedOK, Agreement, Agreed, Cleared
    <2>2. a.rmt \in Nonces /\ a.lcl \in Nonces /\ a.flow # None
        BY <2>1, AgreedNonce, Fields, Zenon DEF Inv
    <2>3. conn'[a.lcl].flow = a.flow /\ conn'[a.rmt].flow = a.flow
        BY <2>1, <2>2, Zenon DEF Agreed, Grows
    <2>4. \E p \in net' : p.kind = "Ack" /\ p.flow = a.flow /\ p.tok = Token(a.rmt, a.lcl)
        BY <2>1, Zenon DEF Agreed, Grows
    <2> QED
        BY <1>1, <2>1, <2>3, <2>4, Zenon DEF Agreed
<1>4. ASSUME NEW p \in net, p.kind = "Ack", p.tok # None
      PROVE  conn'[p.tok.lcl].flow = p.flow /\ Cleared(p.tok.lcl)'
    <2>1. conn[p.tok.lcl].flow = p.flow /\ Cleared(p.tok.lcl)
        BY <1>4, Zenon DEF Inv, AckOK
    <2>2. p.tok.lcl \in Nonces /\ p.flow # None
        BY <1>4, Fields, Zenon DEF Inv
    <2> QED
        BY <1>1, <2>1, <2>2, Zenon DEF Grows
<1> QED
    BY <1>1, <1>2, <1>3, <1>4, Zenon

LEMMA TrackAt ==
    ASSUME Inv, NEW f \in Flows
    PROVE  /\ appConn[f] # None => appConn[f][1] = "client" /\ conn[appConn[f]].flow = f
           /\ netConn[f] # None => netConn[f][1] = "server" /\ conn[netConn[f]].flow = f
BY Zenon DEF Inv, TrackOK

(* While reports and trackers stay, what is said of the reports stays. *)
LEMMA ReportsStay ==
    ASSUME Inv, Grows, accepted' = accepted,
           \A a \in accepted : netConn'[a.flow] = netConn[a.flow] \/ netConn'[a.flow] # a.lcl,
           expired' = 0 => expired = 0
    PROVE  AcceptedOK' /\ AcceptedWasAdmitted'
<1>1. Agreement'
    BY Kept, Zenon DEF Agreement, Agreed, Cleared
<1>2. AcceptOnce'
    BY Zenon DEF Inv, AcceptedOK, AcceptOnce
<1>3. \A a \in accepted' : netConn'[a.flow] # a.lcl
    BY Zenon DEF Inv, AcceptedOK
<1>4. AcceptedWasAdmitted'
    BY Zenon DEF Inv, AcceptedWasAdmitted, AcceptedIsAdmitted, Grows
<1> QED
    BY <1>1, <1>2, <1>3, <1>4, Zenon DEF AcceptedOK

-----------------------------------------------------------------------------
(* Steps of the stacks, of the policies and of time *)

LEMMA ConnectStep ==
    ASSUME Inv, NEW f \in Flows, Connect(f)
    PROVE  Inv'
<1>1. /\ cstack' = [cstack EXCEPT ![f] = [st |-> "synSent", att |-> @.att + 1]]
      /\ UNCHANGED <<conn, appConn, ctxConn, srcPort, netConn, dstPort, setup, expired, net, sstack,
                     admitted, cleared, accepted, authd>>
    BY Zenon DEF Connect, enforcerVars, history
<1>2. cstack \in [Flows -> ClientStacks] /\ cstack[f].att \in Nat
    BY Zenon DEF Inv, Types, ClientStacks
<1>3. /\ cstack' \in [Flows -> ClientStacks]
      /\ cstack'[f].st = "synSent" /\ cstack'[f].att = cstack[f].att + 1
      /\ \A g \in Flows : g # f => cstack'[g] = cstack[g]
    BY <1>1, <1>2, SMT DEF ClientStacks
<1>4. Types' /\ Grows /\ TrackOK' /\ AckOK' /\ StackOK'
    BY <1>1, <1>3, ZenonT(30) DEF Inv, Types, Grows, TrackOK, AckOK, StackOK, Cleared
<1>5. AcceptedOK' /\ AcceptedWasAdmitted'
    BY <1>1, <1>4, ReportsStay, Zenon
<1>6. SynOK'
    <2>1. \A g, a : Admits(g, a)' <=> Admits(g, a)
        BY <1>1, Zenon DEF Admits
    <2>2. \A g \in Flows : cstack'[g].st \in {"established", "sending"} => cstack'[g] = cstack[g]
        BY <1>3, Zenon
    <2>3. ASSUME expired = 0, NEW p \in net, p.kind = "Syn", p.tok # None
          PROVE  /\ p.att <= cstack'[p.flow].att
                 /\ p.att = cstack'[p.flow].att => cstack'[p.flow] = cstack[p.flow]
        <3>1. p.att <= cstack[p.flow].att
            BY <2>3, Zenon DEF Inv, SynOK
        <3>2. p.flow \in Flows /\ p.att \in Nat
            BY Fields, Zenon DEF Inv
        <3> QED
            BY <1>2, <1>3, <3>1, <3>2, SMT
    <2> QED
        BY <1>1, <2>1, <2>2, <2>3, ZenonT(30) DEF Inv, SynOK
<1> QED
    BY <1>4, <1>5, <1>6, Zenon DEF Inv

LEMMA ClientClosesStep ==
    ASSUME Inv, NEW f \in Flows, ClientCloses(f)
    PROVE  Inv'
<1>1. /\ cstack' = [cstack EXCEPT ![f].st = "closed"] /\ cstack[f].st # "closed"
      /\ UNCHANGED <<conn, appConn, ctxConn, srcPort, netConn, dstPort, setup, expired, net, sstack,
                     admitted, cleared, accepted, authd>>
    BY Zenon DEF ClientCloses, enforcerVars, history
<1>2. /\ cstack' \in [Flows -> ClientStacks]
      /\ cstack'[f].st = "closed" /\ cstack'[f].att = cstack[f].att
      /\ \A g \in Flows : g # f => cstack'[g] = cstack[g]
    BY <1>1, SMT DEF Inv, Types, ClientStacks
<1>3. Types' /\ Grows /\ TrackOK' /\ AckOK' /\ StackOK'
    BY <1>1, <1>2, ZenonT(60) DEF Inv, Types, Grows, TrackOK, AckOK, StackOK, Cleared
<1>4. AcceptedOK' /\ AcceptedWasAdmitted'
    BY <1>1, <1>3, ReportsStay, Zenon
<1>5. SynOK'
    <2>1. \A g, a : Admits(g, a)' <=> Admits(g, a)
        BY <1>1, Zenon DEF Admits
    <2>2. \A g \in Flows : /\ cstack'[g].st \in {"established", "sending"} => cstack'[g] = cstack[g]
                           /\ cstack'[g].att = cstack[g].att
                           /\ cstack'[g].st = "closed" \/ cstack'[g] = cstack[g]
        BY <1>2, Zenon
    <2>3. \A p \in net : p.flow \in Flows
        BY Fields, Zenon DEF Inv
    <2> QED
        BY <1>1, <2>1, <2>2, <2>3, ZenonT(60) DEF Inv, SynOK
<1> QED
    BY <1>3, <1>4, <1>5, Zenon DEF Inv

LEMMA ServerClosesStep ==
    ASSUME Inv, NEW f \in Flows, ServerCloses(f)
    PROVE  Inv'
<1>1. /\ sstack' = [sstack EXCEPT ![f].st = "listen"]
      /\ UNCHANGED <<conn, appConn, ctxConn, srcPort, netConn, dstPort, setup, expired, net, cstack,
                     admitted, cleared, accepted, authd>>
    BY Zenon DEF ServerCloses, enforcerVars, history
<1>2. /\ sstack' \in [Flows -> ServerStacks] /\ sstack'[f].st = "listen"
      /\ \A g \in Flows : g # f => sstack'[g] = sstack[g]
    BY <1>1, SMT DEF Inv, Types, ServerStacks
<1>3. \A g \in Flows : sstack'[g].st # "listen" => sstack'[g] = sstack[g]
    BY <1>2, Zenon
<1>4. Types' /\ Grows /\ TrackOK' /\ AckOK'
    BY <1>1, <1>2, ZenonT(30) DEF Inv, Types, Grows, TrackOK, AckOK, Cleared
<1>5. StackOK'
    BY <1>1, <1>2, <1>3, Zenon DEF Inv, StackOK
<1>6. AcceptedOK' /\ AcceptedWasAdmitted'
    BY <1>1, <1>4, ReportsStay, Zenon
<1>7. SynOK'
    <2>1. \A g, a : Admits(g, a)' <=> Admits(g, a)
        BY <1>1, Zenon DEF Admits
    <2> QED
        BY <1>1, <1>3, <2>1, Zenon DEF Inv, SynOK
<1> QED
    BY <1>4, <1>5, <1>6, <1>7, Zenon DEF Inv

(* Steps that change no variable of the invariant: policies, and stuttering. *)
LEMMA QuietStep ==
    ASSUME Inv, UNCHANGED <<conn, appConn, ctxConn, netConn, expired, net, cstack, sstack,
                            admitted, cleared, accepted, authd>>
    PROVE  Inv'
<1>1. Types' /\ Grows /\ TrackOK' /\ AckOK' /\ StackOK'
    BY Zenon DEF Inv, Types, Grows, TrackOK, AckOK, StackOK, Cleared
<1>2. AcceptedOK' /\ AcceptedWasAdmitted'
    BY <1>1, ReportsStay, Zenon
<1>3. SynOK'
    <2>1. \A g, a : Admits(g, a)' <=> Admits(g, a)
        BY Zenon DEF Admits
    <2> QED
        BY <2>1, Zenon DEF Inv, SynOK
<1> QED
    BY <1>1, <1>2, <1>3, Zenon DEF Inv

(* Once an entry has expired, a SYN may carry another nonce. *)
LEMMA ExpireStep ==
    ASSUME Inv, Expire
    PROVE  Inv'
<1>1. /\ expired' = expired + 1
      /\ UNCHANGED <<conn, setup, net, cstack, sstack, admitted, cleared, accepted, authd>>
    BY Zenon DEF Expire, history
<1>2. /\ ctxConn' \subseteq ctxConn
      /\ appConn' \in [Flows -> Nonces \cup {None}] /\ netConn' \in [Flows -> Nonces \cup {None}]
      /\ \A f \in Flows : /\ appConn'[f] = appConn[f] \/ appConn'[f] = None
                          /\ netConn'[f] = netConn[f] \/ netConn'[f] = None
    <2>0. appConn \in [Flows -> Nonces \cup {None}] /\ netConn \in [Flows -> Nonces \cup {None}]
        BY Zenon DEF Inv, Types
    <2>1. CASE \E f \in Flows : appConn' = [appConn EXCEPT ![f] = None]
                                /\ UNCHANGED <<ctxConn, netConn>>
        BY <2>0, <2>1, SMT
    <2>2. CASE \E n \in ctxConn : ctxConn' = ctxConn \ {n} /\ UNCHANGED <<appConn, netConn>>
        BY <2>0, <2>2, Zenon
    <2>3. CASE \E f \in Flows : netConn' = [netConn EXCEPT ![f] = None]
                                /\ UNCHANGED <<appConn, ctxConn>>
        BY <2>0, <2>3, SMT
    <2>4. CASE UNCHANGED <<appConn, ctxConn, netConn>>
        BY <2>0, <2>4, Zenon
    <2> QED
        BY <2>1, <2>2, <2>3, <2>4, Zenon DEF Expire
<1>3. expired' \in Nat /\ expired' # 0
    BY <1>1, SMT DEF Inv, Types
<1>4. Types' /\ Grows /\ AckOK' /\ StackOK'
    BY <1>1, <1>2, <1>3, Zenon DEF Inv, Types, Grows, AckOK, StackOK, Cleared
<1>5. TrackOK'
    <2>1. TrackOK
        BY Zenon DEF Inv
    <2>2. ASSUME NEW f \in Flows
          PROVE  /\ appConn'[f] # None => appConn'[f][1] = "client" /\ conn'[appConn'[f]].flow = f
                 /\ netConn'[f] # None => netConn'[f][1] = "server" /\ conn'[netConn'[f]].flow = f
        <3>1. appConn'[f] # None => appConn'[f][1] = "client" /\ conn'[appConn'[f]].flow = f
            BY <1>1, <1>2, TrackAt, SMT
        <3>2. netConn'[f] # None => netConn'[f][1] = "server" /\ conn'[netConn'[f]].flow = f
            BY <1>1, <1>2, TrackAt, SMT
        <3> QED
            BY <3>1, <3>2, Zenon
    <2>3. \A n \in ctxConn' : n[1] = "client" /\ conn'[n].flow # None
        BY <1>1, <1>2, <2>1, Zenon DEF TrackOK
    <2>4. \A n \in Nonces : conn'[n].st = "Unused" => conn'[n].flow = None
        BY <1>1, <2>1, Zenon DEF TrackOK
    <2> QED
        BY <2>2, <2>3, <2>4, Zenon DEF TrackOK
<1>6. AcceptedOK' /\ AcceptedWasAdmitted'
    <2>1. \A a \in accepted : netConn'[a.flow] = netConn[a.flow] \/ netConn'[a.flow] # a.lcl
        BY <1>2, Fields, Zenon DEF Inv
    <2> QED
        BY <1>1, <1>3, <1>4, <2>1, ReportsStay, Zenon
<1>7. SynOK'
    <2>1. \A g, a : Admits(g, a)' <=> Admits(g, a)
        BY <1>1, Zenon DEF Admits
    <2> QED
        BY <1>1, <1>3, <2>1, Zenon DEF Inv, SynOK
<1> QED
    BY <1>4, <1>5, <1>6, <1>7, Zenon DEF Inv

-----------------------------------------------------------------------------
(* Connection objects *)

LEMMA NonceFacts ==
    ASSUME NEW n \in Nonces
    PROVE  n = <<n[1], n[2]>> /\ n[1] \in {"client", "server"} /\ n[2] \in 1 .. MaxConns
BY SMT DEF Nonces

LEMMA FreshFacts ==
    ASSUME NEW n \in Nonces, NEW end, Fresh(end, n)
    PROVE  n[1] = end /\ conn[n].st = "Unused"
<1>1. n[1] = end /\ \A i \in 1 .. MaxConns : conn[<<end, i>>].st = "Unused" <=> i >= n[2]
    BY Zenon DEF Fresh
<1>2. n[2] >= n[2]
    BY NonceFacts, NoneAssumption, SMT
<1>3. n = <<end, n[2]>> /\ n[2] \in 1 .. MaxConns
    BY <1>1, NonceFacts, Zenon
<1> QED
    BY <1>1, <1>2, <1>3, Zenon

(* The connection that a handler of a SYN works on: of its end, and of its flow
   or new. *)
LEMMA ClientConn ==
    ASSUME Inv, NEW f \in Flows, NEW n \in Nonces, GetOrNew(appConn[f], "client", n)
    PROVE  /\ n[1] = "client" /\ (appConn[f] # None => n = appConn[f])
           /\ conn[n].flow = f \/ conn[n].flow = None
<1>1. CASE appConn[f] # None
    <2>1. n = appConn[f]
        BY <1>1, Zenon DEF GetOrNew
    <2>2. appConn[f][1] = "client" /\ conn[appConn[f]].flow = f
        BY <1>1, TrackAt, Zenon
    <2> QED
        BY <1>1, <2>1, <2>2, SMT
<1>2. CASE appConn[f] = None
    <2>1. n[1] = "client" /\ conn[n].st = "Unused"
        BY <1>2, FreshFacts, Zenon DEF GetOrNew
    <2> QED
        BY <1>2, <2>1, Zenon DEF Inv, TrackOK
<1> QED
    BY <1>1, <1>2, Zenon

LEMMA ServerConn ==
    ASSUME Inv, NEW f \in Flows, NEW n \in Nonces, GetOrNew(netConn[f], "server", n)
    PROVE  /\ n[1] = "server" /\ (netConn[f] # None => n = netConn[f])
           /\ (netConn[f] = None => conn[n].flow = None)
           /\ conn[n].flow = f \/ conn[n].flow = None
<1>1. CASE netConn[f] # None
    <2>1. n = netConn[f]
        BY <1>1, Zenon DEF GetOrNew
    <2>2. netConn[f][1] = "server" /\ conn[netConn[f]].flow = f
        BY <1>1, TrackAt, Zenon
    <2> QED
        BY <1>1, <2>1, <2>2, SMT
<1>2. CASE netConn[f] = None
    <2>1. n[1] = "server" /\ conn[n].st = "Unused"
        BY <1>2, FreshFacts, Zenon DEF GetOrNew
    <2> QED
        BY <1>2, <2>1, Zenon DEF Inv, TrackOK
<1> QED
    BY <1>1, <1>2, Zenon

(* Some fields of a connection object are set, the others stay. *)
LEMMA SetSynSend ==
    ASSUME NEW r \in Conns, NEW f \in Flows
    PROVE  LET s == [r EXCEPT !.st = "SynSend", !.flow = f]
           IN  s \in Conns /\ s.st = "SynSend" /\ s.flow = f
BY Zenon DEF Conns, States

LEMMA SetState ==
    ASSUME NEW r \in Conns, NEW t \in States
    PROVE  LET s == [r EXCEPT !.st = t]
           IN  s \in Conns /\ s.st = t /\ s.flow = r.flow /\ s.rem = r.rem
BY DEF Conns

LEMMA SetRemote ==
    ASSUME NEW r \in Conns, NEW m \in Nonces \cup {None}
    PROVE  LET s == [r EXCEPT !.rem = m]
           IN  s \in Conns /\ s.st = r.st /\ s.flow = r.flow
BY DEF Conns

LEMMA SetBoth ==
    ASSUME NEW r \in Conns, NEW t \in States, NEW m \in Nonces \cup {None}
    PROVE  LET s == [r EXCEPT !.rem = m, !.st = t]
           IN  s \in Conns /\ s.st = t /\ s.flow = r.flow
BY Zenon DEF Conns

(* One connection object changes, to c, and keeps its flow or gets flow f. *)
LEMMA ConnUpdate ==
    ASSUME Inv, NEW n \in Nonces, NEW c \in Conns, c.st # "Unused",
           conn' = [conn EXCEPT ![n] = c], conn[n].flow # None => c.flow = conn[n].flow
    PROVE  /\ conn' \in [Nonces -> Conns] /\ conn'[n] = c
           /\ \A m \in Nonces : m # n => conn'[m] = conn[m]
           /\ \A m \in Nonces : conn[m].flow # None => conn'[m].flow = conn[m].flow
           /\ \A m \in Nonces : conn'[m].st = "Unused" => conn'[m].flow = None
<1>1. /\ conn' \in [Nonces -> Conns] /\ conn'[n] = c
      /\ \A m \in Nonces : m # n => conn'[m] = conn[m]
    BY SMT DEF Inv, Types
<1>2. \A m \in Nonces : conn[m].st = "Unused" => conn[m].flow = None
    BY Zenon DEF Inv, TrackOK
<1>3. \A m \in Nonces : conn[m].flow # None => conn'[m].flow = conn[m].flow
    BY <1>1, Zenon
<1>4. \A m \in Nonces : conn'[m].st = "Unused" => conn'[m].flow = None
    BY <1>1, <1>2, Zenon
<1> QED
    BY <1>1, <1>3, <1>4, Zenon

(* Trackers keep what is said of the entries that stay. *)
LEMMA TrackStays ==
    ASSUME Inv, \A m \in Nonces : conn[m].flow # None => conn'[m].flow = conn[m].flow
    PROVE  /\ \A n \in ctxConn : n[1] = "client" /\ conn'[n].flow # None
           /\ \A f \in Flows :
                 /\ appConn[f] # None => appConn[f][1] = "client" /\ conn'[appConn[f]].flow = f
                 /\ netConn[f] # None => netConn[f][1] = "server" /\ conn'[netConn[f]].flow = f
<1>1. TrackOK /\ Types
    BY Zenon DEF Inv
<1>2. ASSUME NEW n \in ctxConn PROVE n[1] = "client" /\ conn'[n].flow # None
    BY <1>1, Zenon DEF TrackOK, Types
<1>3. ASSUME NEW f \in Flows, appConn[f] # None
      PROVE  appConn[f][1] = "client" /\ conn'[appConn[f]].flow = f
    <2>1. appConn[f] \in Nonces /\ f # None
        BY <1>1, <1>3, NoneAssumption, Zenon DEF Types
    <2>2. appConn[f][1] = "client" /\ conn[appConn[f]].flow = f
        BY <1>3, TrackAt, Zenon
    <2> QED
        BY <2>1, <2>2, Zenon
<1>4. ASSUME NEW f \in Flows, netConn[f] # None
      PROVE  netConn[f][1] = "server" /\ conn'[netConn[f]].flow = f
    <2>1. netConn[f] \in Nonces /\ f # None
        BY <1>1, <1>4, NoneAssumption, Zenon DEF Types
    <2>2. netConn[f][1] = "server" /\ conn[netConn[f]].flow = f
        BY <1>4, TrackAt, Zenon
    <2> QED
        BY <2>1, <2>2, Zenon
<1> QED
    BY <1>2, <1>3, <1>4, Zenon

(* What is known of the packets sent so far, after a step. *)
LEMMA Admitted ==
    ASSUME Inv, Grows
    PROVE  /\ \A f \in Flows : \A a : sstack[f].st # "listen" /\ a = sstack[f].att => Admits(f, a)'
           /\ \A p \in net : p.kind = "SynAck" => Admits(p.flow, p.att)'
           /\ \A f \in Flows : \A a :
                 cstack[f].st \in {"established", "sending"} /\ a = cstack[f].att => Admits(f, a)'
<1>1. \A f \in Flows : sstack[f].st # "listen" => Admits(f, sstack[f].att)
    BY Zenon DEF Inv, SynOK
<1>2. \A p \in net : p.kind = "SynAck" => Admits(p.flow, p.att)
    BY Zenon DEF Inv, SynOK
<1>3. \A f \in Flows : cstack[f].st \in {"established", "sending"} => Admits(f, cstack[f].att)
    BY Zenon DEF Inv, SynOK
<1>4. \A f, a : Admits(f, a) => Admits(f, a)'
    BY Kept, Zenon
<1> QED
    BY <1>1, <1>2, <1>3, <1>4, Zenon

LEMMA SynNonce ==
    ASSUME Inv, expired = 0, NEW p \in net, p.kind = "Syn", p.tok # None
    PROVE  /\ p.att <= cstack[p.flow].att
           /\ p.att = cstack[p.flow].att =>
                 \/ appConn[p.flow] = p.tok.lcl
                 \/ appConn[p.flow] = None /\ cstack[p.flow].st \in {"sending", "closed"}
BY Zenon DEF Inv, SynOK

LEMMA AckAdmitted ==
    ASSUME Inv, expired = 0, NEW p \in net, p.kind = "Ack", p.tok # None
    PROVE  p.tok.lcl \in admitted
BY Zenon DEF Inv, SynOK

(* A packet that is sent. *)
LEMMA PacketFacts ==
    ASSUME NEW k \in {"Syn", "SynAck", "Ack"}, NEW f \in Flows, NEW a \in Nat,
           NEW t \in Tokens \cup {None}
    PROVE  /\ Packet(k, f, a, t) \in Segments
           /\ Packet(k, f, a, t).kind = k /\ Packet(k, f, a, t).flow = f
           /\ Packet(k, f, a, t).att = a /\ Packet(k, f, a, t).tok = t
BY SMT DEF Packet, Segments

LEMMA TokenFacts ==
    ASSUME NEW n \in Nonces, NEW m \in Nonces \cup {None}
    PROVE  Token(n, m) \in Tokens /\ Token(n, m).lcl = n /\ Token(n, m).rmt = m
           /\ Token(n, m) # None
<1>1. Token(n, m) \in Tokens /\ Token(n, m).lcl = n /\ Token(n, m).rmt = m
    BY SMT DEF Token, Tokens
<1> QED
    BY <1>1, NoneAssumption, Zenon DEF Tokens

LEMMA StackTypes ==
    ASSUME Inv, NEW f \in Flows
    PROVE  /\ cstack[f] \in ClientStacks /\ cstack[f].att \in Nat
           /\ sstack[f] \in ServerStacks /\ sstack[f].att \in Nat
           /\ f # None
BY NoneAssumption, Zenon DEF Inv, Types, ClientStacks, ServerStacks

-----------------------------------------------------------------------------
(* The client's enforcer *)

(* A packet without a token that is no SYNACK. *)
LEMMA PlainStep ==
    ASSUME Inv, NEW f \in Flows, NEW k \in {"Syn", "Ack"},
           Send(Packet(k, f, cstack[f].att, None)),
           \/ cstack' = cstack
           \/ /\ k = "Ack" /\ cstack[f].st \in {"established", "sending"}
              /\ cstack' = [cstack EXCEPT ![f].st = "sending"],
           UNCHANGED <<conn, appConn, ctxConn, netConn, expired, sstack, admitted, cleared,
                       accepted,
                       authd>>
    PROVE  Inv'
<1> DEFINE q == Packet(k, f, cstack[f].att, None)
<1>1. q \in Segments /\ q.kind = k /\ q.flow = f /\ q.tok = None /\ net' = net \cup {q}
    <2>1. cstack[f].att \in Nat /\ k \in {"Syn", "SynAck", "Ack"} /\ None \in Tokens \cup {None}
        BY StackTypes, Zenon
    <2>2. q \in Segments /\ q.kind = k /\ q.flow = f /\ q.tok = None
        BY ONLY <2>1, f \in Flows, PacketFacts, SMT
    <2> QED
        BY <2>2, Zenon DEF Send
<1> HIDE DEF q
<1>2. /\ cstack' \in [Flows -> ClientStacks]
      /\ \A g \in Flows : /\ cstack'[g].att = cstack[g].att
                          /\ cstack'[g].st = cstack[g].st
                             \/ (cstack'[g].st = "sending"
                                 /\ cstack[g].st \in {"established", "sending"})
    <2>1. cstack \in [Flows -> ClientStacks]
        BY Zenon DEF Inv, Types
    <2>2. CASE cstack' = cstack
        BY <2>1, <2>2, Zenon
    <2>3. CASE /\ cstack[f].st \in {"established", "sending"}
               /\ cstack' = [cstack EXCEPT ![f].st = "sending"]
        BY <2>1, <2>3, SMT DEF ClientStacks
    <2> QED
        BY <2>2, <2>3, Zenon
<1>3. Types'
    BY <1>1, <1>2, Zenon DEF Inv, Types
<1>4. Grows
    BY <1>1, Zenon DEF Grows
<1>5. TrackOK' /\ StackOK'
    BY Zenon DEF Inv, TrackOK, StackOK
<1>6. AckOK'
    <2>1. \A n \in Nonces : n[1] = "client" /\ conn'[n].st = "SynAckReceived" => Cleared(n)'
        BY <1>4, Kept, Zenon DEF Inv, AckOK
    <2>2. \A p \in net' : p.kind = "Ack" /\ p.tok # None =>
              conn'[p.tok.lcl].flow = p.flow /\ Cleared(p.tok.lcl)'
        BY <1>1, <1>4, Kept, Zenon
    <2> QED
        BY <2>1, <2>2, Zenon DEF AckOK
<1>7. AcceptedOK' /\ AcceptedWasAdmitted'
    BY <1>4, ReportsStay, Zenon
<1>8. SynOK'
    <2>1. \A g \in Flows : sstack'[g].st # "listen" => Admits(g, sstack[g].att)'
        BY <1>4, Admitted, Zenon
    <2>2. \A p \in net' : p.kind = "SynAck" => Admits(p.flow, p.att)'
        BY <1>1, <1>4, Admitted, Zenon
    <2>3. \A g \in Flows : cstack'[g].st \in {"established", "sending"} => Admits(g, cstack[g].att)'
        BY <1>2, <1>4, Admitted, Zenon
    <2>4. ASSUME expired' = 0, NEW p \in net', p.kind = "Syn", p.tok # None
          PROVE  /\ p.att <= cstack'[p.flow].att
                 /\ p.att = cstack'[p.flow].att =>
                       \/ appConn'[p.flow] = p.tok.lcl
                       \/ appConn'[p.flow] = None /\ cstack'[p.flow].st \in {"sending", "closed"}
        <3>1. p \in net /\ p.flow \in Flows
            BY <1>1, <2>4, Fields, Zenon DEF Inv
        <3> QED
            BY <1>2, <2>4, <3>1, SynNonce, SMT
    <2>5. ASSUME expired' = 0, NEW p \in net', p.kind = "Ack", p.tok # None
          PROVE  p.tok.lcl \in admitted'
        BY <1>1, <2>5, AckAdmitted, Zenon
    <2> QED
        BY <2>1, <2>2, <2>3, <2>4, <2>5, Zenon DEF SynOK
<1> QED
    BY <1>3, <1>4, <1>5, <1>6, <1>7, <1>8, Zenon DEF Inv

(* A SYN with the nonce of its connection. *)
LEMMA TokenSynStep ==
    ASSUME Inv, NEW f \in Flows, NEW n \in Nonces, cstack[f].st \in {"synSent", "established"},
           GetOrNew(appConn[f], "client", n),
           conn' = [conn EXCEPT ![n].st = "SynSend", ![n].flow = f],
           appConn' = [appConn EXCEPT ![f] = n],
           ctxConn' = ctxConn \cup {n},
           Send(Packet("Syn", f, cstack[f].att, Token(n, None))),
           UNCHANGED <<netConn, expired, cstack, sstack, admitted, cleared, accepted, authd>>
    PROVE  Inv'
<1> DEFINE q == Packet("Syn", f, cstack[f].att, Token(n, None))
           c == [conn[n] EXCEPT !.st = "SynSend", !.flow = f]
<1>1. /\ q \in Segments /\ q.kind = "Syn" /\ q.flow = f /\ q.att = cstack[f].att /\ q.tok # None
      /\ q.tok.lcl = n /\ net' = net \cup {q} /\ cstack[f].att \in Nat /\ f # None
    <2>1. cstack[f].att \in Nat /\ f # None
        BY StackTypes, Zenon
    <2>2. Token(n, None) \in Tokens /\ Token(n, None).lcl = n /\ Token(n, None) # None
        BY TokenFacts, Zenon
    <2>3. /\ q \in Segments /\ q.kind = "Syn" /\ q.flow = f /\ q.att = cstack[f].att
          /\ q.tok = Token(n, None)
        BY ONLY <2>1, <2>2, f \in Flows, PacketFacts, SMT
    <2> QED
        BY <2>1, <2>2, <2>3, Zenon DEF Send
<1>2. /\ n[1] = "client" /\ (appConn[f] # None => n = appConn[f])
      /\ conn[n].flow = f \/ conn[n].flow = None
    BY ClientConn, Zenon
<1>3. c \in Conns /\ c.st = "SynSend" /\ c.flow = f /\ conn' = [conn EXCEPT ![n] = c]
    <2>1. conn[n] \in Conns
        BY Zenon DEF Inv, Types
    <2>2. c \in Conns /\ c.st = "SynSend" /\ c.flow = f
        BY <2>1, SetSynSend, Zenon
    <2>3. conn' = [conn EXCEPT ![n] = c]
        BY <2>1, Zenon DEF Inv, Types, Conns
    <2> QED
        BY <2>2, <2>3, Zenon
<1> HIDE DEF q, c
<1>4. /\ conn' \in [Nonces -> Conns] /\ conn'[n] = c
      /\ \A m \in Nonces : m # n => conn'[m] = conn[m]
      /\ \A m \in Nonces : conn[m].flow # None => conn'[m].flow = conn[m].flow
      /\ \A m \in Nonces : conn'[m].st = "Unused" => conn'[m].flow = None
    BY <1>2, <1>3, ConnUpdate, ZenonT(30)
<1>5. /\ appConn' \in [Flows -> Nonces \cup {None}] /\ appConn'[f] = n
      /\ \A g \in Flows : g # f => appConn'[g] = appConn[g]
    BY SMT DEF Inv, Types
<1>6. Types'
    BY <1>1, <1>4, <1>5, ZenonT(30) DEF Inv, Types
<1>7. Grows
    BY <1>1, <1>4, Zenon DEF Grows
<1>8. TrackOK'
    <2>1. \A m \in ctxConn' : m[1] = "client" /\ conn'[m].flow # None
        <3>1. \A m \in ctxConn : m[1] = "client" /\ conn'[m].flow # None
            BY <1>4, TrackStays, Zenon
        <3>2. n[1] = "client" /\ conn'[n].flow # None
            BY <1>1, <1>2, <1>3, <1>4, Zenon
        <3> QED
            BY <3>1, <3>2, Zenon
    <2>2. ASSUME NEW g \in Flows
          PROVE  appConn'[g] # None => appConn'[g][1] = "client" /\ conn'[appConn'[g]].flow = g
        <3>1. CASE g = f
            BY <1>2, <1>3, <1>4, <1>5, <3>1, SMT
        <3>2. CASE g # f
            <4>1. appConn[g] # None => appConn[g][1] = "client" /\ conn'[appConn[g]].flow = g
                BY <1>4, TrackStays, Zenon
            <4> QED
                BY <1>5, <3>2, <4>1, SMT
        <3> QED
            BY <3>1, <3>2, Zenon
    <2>3. ASSUME NEW g \in Flows
          PROVE  netConn'[g] # None => netConn'[g][1] = "server" /\ conn'[netConn'[g]].flow = g
        <3>1. netConn[g] # None => netConn[g][1] = "server" /\ conn'[netConn[g]].flow = g
            BY <1>4, TrackStays, Zenon
        <3> QED
            BY <3>1, SMT
    <2> QED
        BY <1>4, <2>1, <2>2, <2>3, Zenon DEF TrackOK
<1>9. StackOK'
    BY Zenon DEF Inv, StackOK
<1>10. AckOK'
    <2>1. ASSUME NEW m \in Nonces, m[1] = "client", conn'[m].st = "SynAckReceived"
          PROVE  Cleared(m)'
        <3>1. m # n
            BY <1>3, <1>4, <2>1, Zenon
        <3>2. Cleared(m)
            BY <1>4, <2>1, <3>1, Zenon DEF Inv, AckOK
        <3> QED
            BY <1>7, <3>2, Kept, Zenon
    <2>2. \A p \in net' : p.kind = "Ack" /\ p.tok # None =>
              conn'[p.tok.lcl].flow = p.flow /\ Cleared(p.tok.lcl)'
        BY <1>1, <1>7, Kept, Zenon
    <2> QED
        BY <2>1, <2>2, Zenon DEF AckOK
<1>11. AcceptedOK' /\ AcceptedWasAdmitted'
    BY <1>7, ReportsStay, Zenon
<1>12. SynOK'
    <2>1. \A g \in Flows : sstack'[g].st # "listen" => Admits(g, sstack[g].att)'
        BY <1>7, Admitted, Zenon
    <2>2. \A p \in net' : p.kind = "SynAck" => Admits(p.flow, p.att)'
        BY <1>1, <1>7, Admitted, Zenon
    <2>3. \A g \in Flows : cstack'[g].st \in {"established", "sending"} => Admits(g, cstack[g].att)'
        BY <1>7, Admitted, Zenon
    <2>4. ASSUME expired' = 0, NEW p \in net', p.kind = "Syn", p.tok # None
          PROVE  /\ p.att <= cstack'[p.flow].att
                 /\ p.att = cstack'[p.flow].att =>
                       \/ appConn'[p.flow] = p.tok.lcl
                       \/ appConn'[p.flow] = None /\ cstack'[p.flow].st \in {"sending", "closed"}
        <3>1. CASE p = q
            BY <1>1, <1>5, <3>1, SMT
        <3>2. CASE p \in net
            <4>1. p.flow \in Flows
                BY <3>2, Fields, Zenon DEF Inv
            <4>2. /\ p.att <= cstack[p.flow].att
                  /\ p.att = cstack[p.flow].att =>
                        \/ appConn[p.flow] = p.tok.lcl
                        \/ appConn[p.flow] = None /\ cstack[p.flow].st \in {"sending", "closed"}
                BY <2>4, <3>2, SynNonce, Zenon
            <4>3. p.flow = f /\ p.att = cstack[f].att => appConn[f] = p.tok.lcl /\ appConn[f] # None
                <5>1. p.tok.lcl # None
                    BY <2>4, <3>2, Fields, Zenon DEF Inv
                <5> QED
                    BY <4>2, <5>1, Zenon
            <4> QED
                BY <1>2, <1>5, <4>1, <4>2, <4>3, SMT
        <3> QED
            BY <1>1, <2>4, <3>1, <3>2, Zenon
    <2>5. ASSUME expired' = 0, NEW p \in net', p.kind = "Ack", p.tok # None
          PROVE  p.tok.lcl \in admitted'
        BY <1>1, <2>5, AckAdmitted, Zenon
    <2> QED
        BY <2>1, <2>2, <2>3, <2>4, <2>5, Zenon DEF SynOK
<1> QED
    BY <1>6, <1>8, <1>9, <1>10, <1>11, <1>12, Zenon DEF Inv

LEMMA ProcessApplicationSynStep ==
    ASSUME Inv, NEW f \in Flows, ProcessApplicationSyn(f)
    PROVE  Inv'
<1>1. /\ cstack[f].st \in {"synSent", "established"}
      /\ UNCHANGED <<expired, cstack, sstack, admitted, cleared, accepted, authd>>
    BY Zenon DEF ProcessApplicationSyn, history
<1>2. CASE Send(Packet("Syn", f, cstack[f].att, None)) /\ UNCHANGED enforcerVars
    BY <1>1, <1>2, PlainStep, Zenon DEF enforcerVars
<1>3. CASE /\ \E n \in Nonces :
                /\ GetOrNew(appConn[f], "client", n)
                /\ conn' = [conn EXCEPT ![n].st = "SynSend", ![n].flow = f]
                /\ appConn' = [appConn EXCEPT ![f] = n]
                /\ ctxConn' = ctxConn \cup {n}
                /\ Send(Packet("Syn", f, cstack[f].att, Token(n, None)))
           /\ netConn' = netConn
    BY <1>1, <1>3, TokenSynStep, Zenon
<1> QED
    BY <1>2, <1>3, Zenon DEF ProcessApplicationSyn

LEMMA ProcessNetworkSynAckStep ==
    ASSUME Inv, NEW p \in net, ProcessNetworkSynAck(p)
    PROVE  Inv'
<1>1. /\ p.kind = "SynAck"
      /\ UNCHANGED <<appConn, ctxConn, netConn, expired, net, sstack, admitted, accepted, authd>>
    BY Zenon DEF ProcessNetworkSynAck
<1>2. p.flow \in Flows /\ p.att \in Nat /\ p.tok \in Tokens \cup {None}
    BY Fields, Zenon DEF Inv
(* The connection that the SYNACK answers keeps its flow. *)
<1>3. /\ conn' \in [Nonces -> Conns] /\ cleared' \subseteq Nonces \X Nonces
      /\ cleared \subseteq cleared'
      /\ \A m \in Nonces : conn[m].flow # None => conn'[m].flow = conn[m].flow
      /\ \A m \in Nonces : conn'[m].st = "Unused" => conn'[m].flow = None
      /\ \A m \in Nonces : conn'[m].st = "SynAckReceived" =>
            conn[m].st = "SynAckReceived" \/ Cleared(m)'
    <2>1. CASE UNCHANGED <<conn, cleared>>
        BY <2>1, Zenon DEF Inv, Types, TrackOK
    <2>2. CASE /\ p.tok # None /\ p.tok.rmt \in ctxConn
               /\ \/ /\ conn' = [conn EXCEPT ![p.tok.rmt].rem = p.tok.lcl,
                                             ![p.tok.rmt].st = "SynAckReceived"]
                     /\ cleared' = cleared \cup {<<p.tok.rmt, p.tok.lcl>>}
                  \/ /\ conn' = [conn EXCEPT ![p.tok.rmt].rem = p.tok.lcl]
                     /\ cleared' = cleared
        <3>1. PICK r \in ctxConn : r = p.tok.rmt
            BY <2>2, Zenon
        <3>2. PICK l \in Nonces : l = p.tok.lcl
            BY <1>2, <2>2, Fields, Zenon DEF Inv
        <3>3. r \in Nonces /\ conn \in [Nonces -> Conns] /\ conn[r] \in Conns
            BY Zenon DEF Inv, Types
        <3>4. conn[r].flow # None /\ conn[r].st # "Unused"
            BY <3>3, ZenonT(30) DEF Inv, TrackOK
        <3>5. CASE /\ conn' = [conn EXCEPT ![r].rem = l, ![r].st = "SynAckReceived"]
                   /\ cleared' = cleared \cup {<<r, l>>}
            <4> DEFINE c == [conn[r] EXCEPT !.rem = l, !.st = "SynAckReceived"]
            <4>1. conn' = [conn EXCEPT ![r] = c]
                BY <3>3, <3>5, Zenon DEF Conns
            <4>2. c \in Conns /\ c.st = "SynAckReceived" /\ c.flow = conn[r].flow
                <5>1. "SynAckReceived" \in States /\ l \in Nonces \cup {None}
                    BY Zenon DEF States
                <5> QED
                    BY ONLY <3>3, <5>1, SetBoth, Zenon
            <4> HIDE DEF c
            <4>3. /\ conn' \in [Nonces -> Conns] /\ conn'[r] = c
                  /\ \A m \in Nonces : m # r => conn'[m] = conn[m]
                  /\ \A m \in Nonces : conn[m].flow # None => conn'[m].flow = conn[m].flow
                  /\ \A m \in Nonces : conn'[m].st = "Unused" => conn'[m].flow = None
                BY <3>3, <4>1, <4>2, ConnUpdate, Zenon
            <4>4. Cleared(r)'
                BY <3>2, <3>5, Zenon DEF Cleared
            <4>5. \A m \in Nonces : conn'[m].st = "SynAckReceived" =>
                      conn[m].st = "SynAckReceived" \/ Cleared(m)'
                BY <4>3, <4>4, Zenon
            <4>6. cleared' \subseteq Nonces \X Nonces /\ cleared \subseteq cleared'
                BY <3>2, <3>3, <3>5, SMT DEF Inv, Types
            <4> QED
                BY <4>3, <4>5, <4>6, Zenon
        <3>6. CASE conn' = [conn EXCEPT ![r].rem = l] /\ cleared' = cleared
            <4> DEFINE c == [conn[r] EXCEPT !.rem = l]
            <4>1. conn' = [conn EXCEPT ![r] = c]
                BY <3>3, <3>6, Zenon DEF Conns
            <4>2. c \in Conns /\ c.st = conn[r].st /\ c.flow = conn[r].flow
                BY <3>2, <3>3, SetRemote, ZenonT(30)
            <4> HIDE DEF c
            <4>3. /\ conn' \in [Nonces -> Conns] /\ conn'[r] = c
                  /\ \A m \in Nonces : m # r => conn'[m] = conn[m]
                  /\ \A m \in Nonces : conn[m].flow # None => conn'[m].flow = conn[m].flow
                  /\ \A m \in Nonces : conn'[m].st = "Unused" => conn'[m].flow = None
                BY <3>3, <3>4, <4>1, <4>2, ConnUpdate, Zenon
            <4>4. \A m \in Nonces : conn'[m].st = "SynAckReceived" => conn[m].st = "SynAckReceived"
                BY <4>2, <4>3, Zenon
            <4>5. cleared' \subseteq Nonces \X Nonces
                BY <3>6, Zenon DEF Inv, Types
            <4> QED
                BY <3>6, <4>3, <4>4, <4>5, Zenon
        <3> QED
            BY <2>2, <3>1, <3>2, <3>5, <3>6, Zenon
    <2> QED
        BY <2>1, <2>2, Zenon DEF ProcessNetworkSynAck
<1>4. /\ cstack' \in [Flows -> ClientStacks]
      /\ \A g \in Flows : /\ cstack'[g].att = cstack[g].att
                          /\ \/ cstack'[g].st = cstack[g].st
                             \/ /\ g = p.flow /\ cstack[g].att = p.att
                                /\ cstack[g].st = "synSent" /\ cstack'[g].st = "established"
    <2>1. cstack \in [Flows -> ClientStacks]
        BY Zenon DEF Inv, Types
    <2>2. CASE cstack' = cstack
        BY <2>1, <2>2, Zenon
    <2>3. CASE /\ cstack[p.flow] = [st |-> "synSent", att |-> p.att]
               /\ cstack' = [cstack EXCEPT ![p.flow].st = "established"]
        BY <1>2, <2>1, <2>3, SMT DEF ClientStacks
    <2> QED
        BY <2>2, <2>3, Zenon DEF ProcessNetworkSynAck, StackGetsSynAck
<1>5. Types'
    BY <1>1, <1>3, <1>4, Zenon DEF Inv, Types
<1>6. Grows
    BY <1>1, <1>3, Zenon DEF Grows
<1>7. TrackOK'
    <2>1. \A m \in ctxConn : m[1] = "client" /\ conn'[m].flow # None
        BY <1>3, TrackStays, Zenon
    <2>2. ASSUME NEW g \in Flows
          PROVE  /\ appConn[g] # None => appConn[g][1] = "client" /\ conn'[appConn[g]].flow = g
                 /\ netConn[g] # None => netConn[g][1] = "server" /\ conn'[netConn[g]].flow = g
        BY <1>3, TrackStays, Zenon
    <2> QED
        BY <1>1, <1>3, <2>1, <2>2, Zenon DEF TrackOK
<1>8. StackOK'
    BY <1>1, Zenon DEF Inv, StackOK
<1>9. AckOK'
    <2>1. ASSUME NEW m \in Nonces, m[1] = "client", conn'[m].st = "SynAckReceived"
          PROVE  Cleared(m)'
        <3>1. conn[m].st = "SynAckReceived" => Cleared(m)
            BY <2>1, Zenon DEF Inv, AckOK
        <3> QED
            BY <1>3, <1>6, <2>1, <3>1, Kept, Zenon
    <2>2. \A s \in net' : s.kind = "Ack" /\ s.tok # None =>
              conn'[s.tok.lcl].flow = s.flow /\ Cleared(s.tok.lcl)'
        BY <1>1, <1>6, Kept, Zenon
    <2> QED
        BY <2>1, <2>2, Zenon DEF AckOK
<1>10. AcceptedOK' /\ AcceptedWasAdmitted'
    BY <1>1, <1>6, ReportsStay, Zenon
<1>11. SynOK'
    <2>1. \A g \in Flows : sstack'[g].st # "listen" => Admits(g, sstack[g].att)'
        BY <1>1, <1>6, Admitted, Zenon
    <2>2. \A s \in net' : s.kind = "SynAck" => Admits(s.flow, s.att)'
        BY <1>1, <1>6, Admitted, Zenon
    <2>3. \A g \in Flows : \A a : cstack'[g].st \in {"established", "sending"} /\ a = cstack'[g].att =>
              Admits(g, a)'
        BY <1>1, <1>4, <1>6, Admitted, ZenonT(30)
    <2>4. ASSUME expired' = 0, NEW s \in net', s.kind = "Syn", s.tok # None
          PROVE  /\ s.att <= cstack'[s.flow].att
                 /\ s.att = cstack'[s.flow].att =>
                       \/ appConn'[s.flow] = s.tok.lcl
                       \/ appConn'[s.flow] = None /\ cstack'[s.flow].st \in {"sending", "closed"}
        <3>1. s \in net /\ s.flow \in Flows
            BY <1>1, <2>4, Fields, Zenon DEF Inv
        <3> QED
            BY <1>1, <1>4, <2>4, <3>1, SynNonce, SMT
    <2>5. ASSUME expired' = 0, NEW s \in net', s.kind = "Ack", s.tok # None
          PROVE  s.tok.lcl \in admitted'
        BY <1>1, <2>5, AckAdmitted, Zenon
    <2> QED
        BY <2>1, <2>2, <2>3, <2>4, <2>5, Zenon DEF SynOK
<1> QED
    BY <1>5, <1>7, <1>8, <1>9, <1>10, <1>11, Zenon DEF Inv

(* The first ACK, with both nonces: its SYN was admitted. *)
LEMMA TokenAckStep ==
    ASSUME Inv, NEW f \in Flows, NEW n \in Nonces, n = appConn[f],
           cstack[f].st \in {"established", "sending"},
           cstack' = [cstack EXCEPT ![f].st = "sending"],
           conn[n].st = "SynAckReceived",
           Send(Packet("Ack", f, cstack[f].att, Token(n, conn[n].rem))),
           conn' = [conn EXCEPT ![n].st = "AckSend"],
           UNCHANGED <<appConn, ctxConn, netConn, expired, sstack, admitted, cleared, accepted,
                       authd>>
    PROVE  Inv'
<1> DEFINE c == [conn[n] EXCEPT !.st = "AckSend"]
<1>1. conn \in [Nonces -> Conns] /\ conn[n] \in Conns /\ conn[n].rem \in Nonces \cup {None}
    BY Zenon DEF Inv, Types, Conns
<1>2. PICK q \in Segments : /\ q.kind = "Ack" /\ q.flow = f /\ q.tok.lcl = n
                             /\ net' = net \cup {q} /\ f # None
    <2> DEFINE x == Packet("Ack", f, cstack[f].att, Token(n, conn[n].rem))
    <2>1. cstack[f].att \in Nat /\ f # None
        BY StackTypes, Zenon
    <2>2. Token(n, conn[n].rem) \in Tokens /\ Token(n, conn[n].rem).lcl = n
        BY <1>1, TokenFacts, Zenon
    <2>3. x \in Segments /\ x.kind = "Ack" /\ x.flow = f /\ x.tok = Token(n, conn[n].rem)
        BY ONLY <2>1, <2>2, f \in Flows, PacketFacts, SMT
    <2>4. x.tok.lcl = n /\ net' = net \cup {x}
        BY <2>2, <2>3, Zenon DEF Send
    <2> HIDE DEF x
    <2> QED
        BY <2>1, <2>3, <2>4, Zenon
<1>3. /\ n[1] = "client" /\ conn[n].flow = f /\ Cleared(n)
    <2>1. appConn[f] # None
        BY NoneAssumption, Zenon
    <2>2. appConn[f][1] = "client" /\ conn[appConn[f]].flow = f
        BY <2>1, TrackAt, Zenon
    <2>3. n[1] = "client" /\ conn[n].flow = f
        BY <2>2, SMT
    <2> QED
        BY <2>3, Zenon DEF Inv, AckOK
<1>4. c \in Conns /\ c.st = "AckSend" /\ c.flow = f /\ conn' = [conn EXCEPT ![n] = c]
    <2>1. "AckSend" \in States
        BY Zenon DEF States
    <2>2. c \in Conns /\ c.st = "AckSend" /\ c.flow = conn[n].flow
        BY ONLY <1>1, <2>1, SetState, Zenon
    <2>3. conn' = [conn EXCEPT ![n] = c]
        BY <1>1, Zenon DEF Conns
    <2> QED
        BY <1>3, <2>2, <2>3, Zenon
<1> HIDE DEF c
<1>5. /\ conn' \in [Nonces -> Conns] /\ conn'[n] = c
      /\ \A m \in Nonces : m # n => conn'[m] = conn[m]
      /\ \A m \in Nonces : conn[m].flow # None => conn'[m].flow = conn[m].flow
      /\ \A m \in Nonces : conn'[m].st = "Unused" => conn'[m].flow = None
    BY <1>3, <1>4, ConnUpdate, Zenon
<1>6. /\ cstack' \in [Flows -> ClientStacks]
      /\ \A g \in Flows : /\ cstack'[g].att = cstack[g].att
                          /\ \/ cstack'[g].st = cstack[g].st
                             \/ /\ cstack'[g].st = "sending"
                                /\ cstack[g].st \in {"established", "sending"}
    BY SMT DEF Inv, Types, ClientStacks
<1>7. Types'
    BY <1>2, <1>5, <1>6, Zenon DEF Inv, Types
<1>8. Grows
    BY <1>2, <1>5, Zenon DEF Grows
<1>9. TrackOK'
    <2>1. \A m \in ctxConn : m[1] = "client" /\ conn'[m].flow # None
        BY <1>5, TrackStays, Zenon
    <2>2. ASSUME NEW g \in Flows
          PROVE  /\ appConn[g] # None => appConn[g][1] = "client" /\ conn'[appConn[g]].flow = g
                 /\ netConn[g] # None => netConn[g][1] = "server" /\ conn'[netConn[g]].flow = g
        BY <1>5, TrackStays, Zenon
    <2>3. appConn' = appConn /\ netConn' = netConn /\ ctxConn' = ctxConn
        OBVIOUS
    <2> QED
        BY ONLY <1>5, <2>1, <2>2, <2>3, Zenon DEF TrackOK
<1>10. StackOK'
    BY Zenon DEF Inv, StackOK
<1>11. AckOK'
    <2>1. ASSUME NEW m \in Nonces, m[1] = "client", conn'[m].st = "SynAckReceived"
          PROVE  Cleared(m)'
        <3>1. m # n
            BY <1>4, <1>5, <2>1, Zenon
        <3>2. Cleared(m)
            BY <1>5, <2>1, <3>1, Zenon DEF Inv, AckOK
        <3> QED
            BY <1>8, <3>2, Kept, Zenon
    <2>2. conn'[n].flow = f /\ Cleared(n)'
        BY <1>3, <1>4, <1>5, <1>8, Kept, Zenon
    <2>3. \A s \in net' : s.kind = "Ack" /\ s.tok # None =>
              conn'[s.tok.lcl].flow = s.flow /\ Cleared(s.tok.lcl)'
        <3>1. \A s \in net : s.kind = "Ack" /\ s.tok # None =>
                  conn'[s.tok.lcl].flow = s.flow /\ Cleared(s.tok.lcl)'
            BY <1>8, Kept, Zenon
        <3>2. conn'[q.tok.lcl].flow = q.flow /\ Cleared(q.tok.lcl)'
            BY <1>2, <2>2, Zenon DEF Cleared
        <3> QED
            BY <1>2, <3>1, <3>2, Zenon
    <2> QED
        BY <2>1, <2>3, Zenon DEF AckOK
<1>12. AcceptedOK' /\ AcceptedWasAdmitted'
    BY <1>8, ReportsStay, Zenon
<1>13. expired = 0 => n \in admitted
    <2>1. ASSUME expired = 0 PROVE n \in admitted
        <3>1. Admits(f, cstack[f].att)
            BY Zenon DEF Inv, SynOK
        <3>2. PICK s \in net : /\ s.kind = "Syn" /\ s.flow = f /\ s.att = cstack[f].att
                               /\ s.tok # None /\ s.tok.lcl \in admitted
            BY <3>1, Zenon DEF Admits
        <3>3. appConn[f] # None
            BY NoneAssumption, Zenon
        <3>4. appConn[s.flow] = s.tok.lcl
            BY <2>1, <3>2, <3>3, SynNonce, Zenon
        <3> QED
            BY <3>2, <3>4, Zenon
    <2> QED
        BY <2>1, Zenon
<1>14. SynOK'
    <2>1. \A g \in Flows : sstack'[g].st # "listen" => Admits(g, sstack[g].att)'
        BY <1>8, Admitted, Zenon
    <2>2. \A s \in net' : s.kind = "SynAck" => Admits(s.flow, s.att)'
        BY <1>2, <1>8, Admitted, Zenon
    <2>3. \A g \in Flows : \A a : cstack'[g].st \in {"established", "sending"} /\ a = cstack'[g].att =>
              Admits(g, a)'
        BY <1>6, <1>8, Admitted, ZenonT(30)
    <2>4. ASSUME expired' = 0, NEW s \in net', s.kind = "Syn", s.tok # None
          PROVE  /\ s.att <= cstack'[s.flow].att
                 /\ s.att = cstack'[s.flow].att =>
                       \/ appConn'[s.flow] = s.tok.lcl
                       \/ appConn'[s.flow] = None /\ cstack'[s.flow].st \in {"sending", "closed"}
        <3>1. s \in net /\ s.flow \in Flows
            BY <1>2, <2>4, Fields, Zenon DEF Inv
        <3> QED
            BY <1>6, <2>4, <3>1, SynNonce, SMT
    <2>5. ASSUME expired' = 0, NEW s \in net', s.kind = "Ack", s.tok # None
          PROVE  s.tok.lcl \in admitted'
        <3>1. s \in net => s.tok.lcl \in admitted
            BY <2>5, AckAdmitted, Zenon
        <3>2. s = q => s.tok.lcl \in admitted
            BY <1>2, <1>13, <2>5, Zenon
        <3> QED
            BY <1>2, <3>1, <3>2, Zenon
    <2> QED
        BY <2>1, <2>2, <2>3, <2>4, <2>5, Zenon DEF SynOK
<1> QED
    BY <1>7, <1>9, <1>10, <1>11, <1>12, <1>14, Zenon DEF Inv

(* The packet after the first ACK: the client's enforcer ends the tracking. *)
LEMMA LastAckStep ==
    ASSUME Inv, NEW f \in Flows, NEW n \in Nonces \cup {None},
           cstack[f].st \in {"established", "sending"},
           cstack' = [cstack EXCEPT ![f].st = "sending"],
           Send(Packet("Ack", f, cstack[f].att, None)),
           ctxConn' = ctxConn \ {n},
           appConn' = [appConn EXCEPT ![f] = None],
           UNCHANGED <<conn, netConn, expired, sstack, admitted, cleared, accepted, authd>>
    PROVE  Inv'
<1>1. PICK q \in Segments : q.kind = "Ack" /\ q.flow = f /\ q.tok = None /\ net' = net \cup {q}
    <2> DEFINE x == Packet("Ack", f, cstack[f].att, None)
    <2>1. cstack[f].att \in Nat /\ None \in Tokens \cup {None}
        BY StackTypes, Zenon
    <2>2. x \in Segments /\ x.kind = "Ack" /\ x.flow = f /\ x.tok = None
        BY ONLY <2>1, f \in Flows, PacketFacts, SMT
    <2>3. net' = net \cup {x}
        BY Zenon DEF Send
    <2> HIDE DEF x
    <2> QED
        BY <2>2, <2>3, Zenon
<1>2. /\ cstack' \in [Flows -> ClientStacks] /\ cstack'[f].st = "sending"
      /\ \A g \in Flows : /\ cstack'[g].att = cstack[g].att
                          /\ \/ cstack'[g].st = cstack[g].st
                             \/ /\ cstack'[g].st = "sending"
                                /\ cstack[g].st \in {"established", "sending"}
    BY SMT DEF Inv, Types, ClientStacks
<1>3. /\ appConn' \in [Flows -> Nonces \cup {None}] /\ appConn'[f] = None
      /\ \A g \in Flows : g # f => appConn'[g] = appConn[g]
    BY SMT DEF Inv, Types
<1>4. Types'
    BY <1>1, <1>2, <1>3, Zenon DEF Inv, Types
<1>5. Grows
    BY <1>1, Zenon DEF Grows
<1>6. TrackOK'
    <2>1. ASSUME NEW g \in Flows
          PROVE  appConn'[g] # None => appConn'[g][1] = "client" /\ conn'[appConn'[g]].flow = g
        <3>1. appConn[g] # None => appConn[g][1] = "client" /\ conn[appConn[g]].flow = g
            BY TrackAt, Zenon
        <3> QED
            BY <1>3, <3>1, SMT
    <2>2. ASSUME NEW g \in Flows
          PROVE  netConn'[g] # None => netConn'[g][1] = "server" /\ conn'[netConn'[g]].flow = g
        <3>1. netConn[g] # None => netConn[g][1] = "server" /\ conn[netConn[g]].flow = g
            BY TrackAt, Zenon
        <3> QED
            BY <3>1, SMT
    <2>3. \A m \in ctxConn' : m[1] = "client" /\ conn'[m].flow # None
        BY Zenon DEF Inv, TrackOK
    <2>4. \A m \in Nonces : conn'[m].st = "Unused" => conn'[m].flow = None
        BY Zenon DEF Inv, TrackOK
    <2> QED
        BY <2>1, <2>2, <2>3, <2>4, Zenon DEF TrackOK
<1>7. StackOK'
    BY Zenon DEF Inv, StackOK
<1>8. AckOK'
    <2>1. \A m \in Nonces : m[1] = "client" /\ conn'[m].st = "SynAckReceived" => Cleared(m)'
        BY <1>5, Kept, Zenon DEF Inv, AckOK
    <2>2. \A s \in net' : s.kind = "Ack" /\ s.tok # None =>
              conn'[s.tok.lcl].flow = s.flow /\ Cleared(s.tok.lcl)'
        BY <1>1, <1>5, Kept, Zenon
    <2> QED
        BY <2>1, <2>2, Zenon DEF AckOK
<1>9. AcceptedOK' /\ AcceptedWasAdmitted'
    BY <1>5, ReportsStay, Zenon
<1>10. SynOK'
    <2>1. \A g \in Flows : sstack'[g].st # "listen" => Admits(g, sstack[g].att)'
        BY <1>5, Admitted, Zenon
    <2>2. \A s \in net' : s.kind = "SynAck" => Admits(s.flow, s.att)'
        BY <1>1, <1>5, Admitted, Zenon
    <2>3. \A g \in Flows : \A a : cstack'[g].st \in {"established", "sending"} /\ a = cstack'[g].att =>
              Admits(g, a)'
        BY <1>2, <1>5, Admitted, Zenon
    <2>4. ASSUME expired' = 0, NEW s \in net', s.kind = "Syn", s.tok # None
          PROVE  /\ s.att <= cstack'[s.flow].att
                 /\ s.att = cstack'[s.flow].att =>
                       \/ appConn'[s.flow] = s.tok.lcl
                       \/ appConn'[s.flow] = None /\ cstack'[s.flow].st \in {"sending", "closed"}
        <3>1. s \in net /\ s.flow \in Flows
            BY <1>1, <2>4, Fields, Zenon DEF Inv
        <3> QED
            BY <1>2, <1>3, <2>4, <3>1, SynNonce, SMT
    <2>5. ASSUME expired' = 0, NEW s \in net', s.kind = "Ack", s.tok # None
          PROVE  s.tok.lcl \in admitted'
        BY <1>1, <2>5, AckAdmitted, Zenon
    <2> QED
        BY <2>1, <2>2, <2>3, <2>4, <2>5, Zenon DEF SynOK
<1> QED
    BY <1>4, <1>6, <1>7, <1>8, <1>9, <1>10, Zenon DEF Inv

LEMMA ProcessApplicationAckStep ==
    ASSUME Inv, NEW f \in Flows, ProcessApplicationAck(f)
    PROVE  Inv'
<1>1. /\ cstack[f].st \in {"established", "sending"}
      /\ cstack' = [cstack EXCEPT ![f].st = "sending"]
      /\ UNCHANGED <<expired, sstack, admitted, cleared, accepted, authd>>
    BY Zenon DEF ProcessApplicationAck, history
<1>2. CASE Send(Packet("Ack", f, cstack[f].att, None)) /\ UNCHANGED enforcerVars
    BY <1>1, <1>2, PlainStep, Zenon DEF enforcerVars
<1>3. CASE /\ appConn[f] # None /\ conn[appConn[f]].st = "SynAckReceived"
           /\ Send(Packet("Ack", f, cstack[f].att, Token(appConn[f], conn[appConn[f]].rem)))
           /\ conn' = [conn EXCEPT ![appConn[f]].st = "AckSend"]
           /\ UNCHANGED <<appConn, ctxConn, srcPort, netConn, dstPort>>
    <2>1. PICK n \in Nonces : n = appConn[f]
        BY <1>3, Zenon DEF Inv, Types
    <2>2. /\ conn[n].st = "SynAckReceived"
          /\ Send(Packet("Ack", f, cstack[f].att, Token(n, conn[n].rem)))
          /\ conn' = [conn EXCEPT ![n].st = "AckSend"]
        BY <1>3, <2>1, Zenon
    <2> QED
        BY <1>1, <1>3, <2>1, <2>2, TokenAckStep, Zenon
<1>4. CASE /\ Send(Packet("Ack", f, cstack[f].att, None))
           /\ ctxConn' = ctxConn \ {appConn[f]}
           /\ appConn' = [appConn EXCEPT ![f] = None]
           /\ UNCHANGED <<conn, srcPort, netConn, dstPort>>
    <2>1. PICK n \in Nonces \cup {None} : n = appConn[f]
        BY Zenon DEF Inv, Types
    <2>2. ctxConn' = ctxConn \ {n}
        BY <1>4, <2>1, Zenon
    <2> QED
        BY <1>1, <1>4, <2>2, LastAckStep, Zenon
<1> QED
    BY <1>2, <1>3, <1>4, Zenon DEF ProcessApplicationAck

-----------------------------------------------------------------------------
(* The server's enforcer *)

(* The connection that a handler of the server's enforcer changes keeps its flow. *)
ConnStays ==
    /\ conn' \in [Nonces -> Conns]
    /\ \A m \in Nonces : conn[m].flow # None => conn'[m].flow = conn[m].flow
    /\ \A m \in Nonces : conn'[m].st = "Unused" => conn'[m].flow = None
    /\ \A m \in Nonces : conn'[m].st = "SynAckReceived" => conn[m].st = "SynAckReceived"

LEMMA ConnSame ==
    ASSUME Inv, conn' = conn
    PROVE  ConnStays
BY Zenon DEF Inv, Types, TrackOK, ConnStays

LEMMA ConnSet ==
    ASSUME Inv, NEW n \in Nonces, NEW c \in Conns, c.st # "Unused", c.flow # None,
           c.st = "SynAckReceived" => conn[n].st = "SynAckReceived",
           conn' = [conn EXCEPT ![n] = c], conn[n].flow # None => c.flow = conn[n].flow
    PROVE  ConnStays /\ conn'[n] = c
<1>1. /\ conn' \in [Nonces -> Conns] /\ conn'[n] = c
      /\ \A m \in Nonces : m # n => conn'[m] = conn[m]
      /\ \A m \in Nonces : conn[m].flow # None => conn'[m].flow = conn[m].flow
      /\ \A m \in Nonces : conn'[m].st = "Unused" => conn'[m].flow = None
    BY ConnUpdate, Zenon
<1>2. \A m \in Nonces : conn'[m].st = "SynAckReceived" => conn[m].st = "SynAckReceived"
    BY <1>1, Zenon
<1> QED
    BY <1>1, <1>2, Zenon DEF ConnStays

(* A connection in a tracker of the server is of the tracked flow. *)
LEMMA NetConnFacts ==
    ASSUME Inv, NEW f \in Flows, NEW n, n = netConn[f], n # None
    PROVE  /\ n \in Nonces /\ n[1] = "server" /\ conn[n].flow = f /\ f # None
           /\ conn[n] \in Conns /\ conn[n].st # "Unused" /\ conn[n].rem \in Nonces \cup {None}
<1>1. n \in Nonces /\ conn[n] \in Conns /\ f # None
    BY StackTypes, Zenon DEF Inv, Types
<1>2. netConn[f][1] = "server" /\ conn[netConn[f]].flow = f
    BY TrackAt, Zenon
<1>3. n[1] = "server" /\ conn[n].flow = f
    BY <1>2, SMT
<1>4. conn[n].st # "Unused"
    BY <1>1, <1>3, Zenon DEF Inv, TrackOK
<1>5. conn[n].rem \in Nonces \cup {None}
    BY <1>1, Zenon DEF Conns
<1> QED
    BY <1>1, <1>3, <1>4, <1>5, Zenon

LEMMA ServerAckOK ==
    ASSUME Inv, Grows, ConnStays, \A s \in net' : s \in net \/ s.kind # "Ack"
    PROVE  AckOK'
<1>1. ASSUME NEW m \in Nonces, m[1] = "client", conn'[m].st = "SynAckReceived"
      PROVE  Cleared(m)'
    <2>1. Cleared(m)
        BY <1>1, Zenon DEF Inv, AckOK, ConnStays
    <2> QED
        BY <2>1, Kept, Zenon
<1>2. \A s \in net' : s.kind = "Ack" /\ s.tok # None =>
          conn'[s.tok.lcl].flow = s.flow /\ Cleared(s.tok.lcl)'
    BY Kept, Zenon
<1> QED
    BY <1>1, <1>2, Zenon DEF AckOK

LEMMA ProcessApplicationSynAckStep ==
    ASSUME Inv, NEW f \in Flows, ProcessApplicationSynAck(f)
    PROVE  Inv'
<1>1. /\ sstack[f].st # "listen"
      /\ UNCHANGED <<appConn, ctxConn, netConn, expired, cstack, sstack, admitted, cleared,
                     accepted,
                     authd>>
    BY Zenon DEF ProcessApplicationSynAck, history
<1>2. /\ ConnStays
      /\ \E t \in Tokens \cup {None} : Send(Packet("SynAck", f, sstack[f].att, t))
    <2>1. CASE Send(Packet("SynAck", f, sstack[f].att, None)) /\ UNCHANGED conn
        BY <2>1, ConnSame, Zenon
    <2>2. CASE /\ netConn[f] # None
               /\ conn' = [conn EXCEPT ![netConn[f]].st = "SynAckSend"]
               /\ Send(Packet("SynAck", f, sstack[f].att, Token(netConn[f], conn[netConn[f]].rem)))
        <3>1. PICK n : n = netConn[f]
            BY Zenon
        <3>2. /\ n \in Nonces /\ conn[n].flow = f /\ f # None /\ conn[n] \in Conns
              /\ conn[n].rem \in Nonces \cup {None}
            BY <2>2, <3>1, NetConnFacts, Zenon
        <3> DEFINE c == [conn[n] EXCEPT !.st = "SynAckSend"]
        <3>3. conn' = [conn EXCEPT ![n] = c]
            BY <2>2, <3>1, <3>2, Zenon DEF Conns
        <3>4. c \in Conns /\ c.st = "SynAckSend" /\ c.flow = conn[n].flow
            <4>1. "SynAckSend" \in States
                BY Zenon DEF States
            <4> QED
                BY ONLY <3>2, <4>1, SetState, Zenon
        <3> HIDE DEF c
        <3>5. ConnStays
            BY <3>2, <3>3, <3>4, ConnSet, Zenon
        <3>6. Token(n, conn[n].rem) \in Tokens
            BY <3>2, TokenFacts, Zenon
        <3> QED
            BY <2>2, <3>1, <3>5, <3>6, Zenon
    <2> QED
        BY <2>1, <2>2, Zenon DEF ProcessApplicationSynAck
<1>3. PICK q \in Segments : /\ q.kind = "SynAck" /\ q.flow = f /\ q.att = sstack[f].att
                            /\ net' = net \cup {q}
    <2>1. PICK t \in Tokens \cup {None} : Send(Packet("SynAck", f, sstack[f].att, t))
        BY <1>2, Zenon
    <2> DEFINE x == Packet("SynAck", f, sstack[f].att, t)
    <2>2. sstack[f].att \in Nat
        BY StackTypes, Zenon
    <2>3. x \in Segments /\ x.kind = "SynAck" /\ x.flow = f /\ x.att = sstack[f].att
        BY ONLY <2>2, f \in Flows, t \in Tokens \cup {None}, PacketFacts, SMT
    <2>4. net' = net \cup {x}
        BY <2>1, Zenon DEF Send
    <2> HIDE DEF x
    <2> QED
        BY <2>3, <2>4, Zenon
<1>4. Types'
    BY <1>1, <1>2, <1>3, Zenon DEF Inv, Types, ConnStays
<1>5. Grows
    BY <1>1, <1>2, <1>3, Zenon DEF Grows, ConnStays
<1>6. TrackOK'
    <2>1. \A m \in ctxConn : m[1] = "client" /\ conn'[m].flow # None
        BY <1>2, TrackStays, Zenon DEF ConnStays
    <2>2. ASSUME NEW g \in Flows
          PROVE  /\ appConn[g] # None => appConn[g][1] = "client" /\ conn'[appConn[g]].flow = g
                 /\ netConn[g] # None => netConn[g][1] = "server" /\ conn'[netConn[g]].flow = g
        BY <1>2, TrackStays, Zenon DEF ConnStays
    <2> QED
        BY <1>1, <1>2, <2>1, <2>2, Zenon DEF TrackOK, ConnStays
<1>7. StackOK'
    BY <1>1, Zenon DEF Inv, StackOK
<1>8. AckOK'
    BY <1>2, <1>3, <1>5, ServerAckOK, Zenon
<1>9. AcceptedOK' /\ AcceptedWasAdmitted'
    BY <1>1, <1>5, ReportsStay, Zenon
<1>10. SynOK'
    <2>1. \A g \in Flows : \A a : sstack'[g].st # "listen" /\ a = sstack'[g].att => Admits(g, a)'
        BY <1>1, <1>5, Admitted, Zenon
    <2>2. \A s \in net' : s.kind = "SynAck" => Admits(s.flow, s.att)'
        BY <1>1, <1>3, <1>5, <2>1, Admitted, Zenon
    <2>3. \A g \in Flows : \A a : cstack'[g].st \in {"established", "sending"} /\ a = cstack'[g].att =>
              Admits(g, a)'
        BY <1>1, <1>5, Admitted, Zenon
    <2>4. ASSUME expired' = 0, NEW s \in net', s.kind = "Syn", s.tok # None
          PROVE  /\ s.att <= cstack'[s.flow].att
                 /\ s.att = cstack'[s.flow].att =>
                       \/ appConn'[s.flow] = s.tok.lcl
                       \/ appConn'[s.flow] = None /\ cstack'[s.flow].st \in {"sending", "closed"}
        BY <1>1, <1>3, <2>4, SynNonce, Zenon
    <2>5. ASSUME expired' = 0, NEW s \in net', s.kind = "Ack", s.tok # None
          PROVE  s.tok.lcl \in admitted'
        BY <1>1, <1>3, <2>5, AckAdmitted, Zenon
    <2> QED
        BY <2>1, <2>2, <2>3, <2>4, <2>5, Zenon DEF SynOK
<1> QED
    BY <1>4, <1>6, <1>7, <1>8, <1>9, <1>10, Zenon DEF Inv

(* The packets sent so far, and the client's stacks, after a step of the server. *)
LEMMA ServerSynOK ==
    ASSUME Inv, Grows, UNCHANGED <<appConn, expired, net, cstack>>,
           \A g \in Flows : \A a : sstack'[g].st # "listen" /\ a = sstack'[g].att => Admits(g, a)'
    PROVE  SynOK'
<1>1. \A s \in net' : s.kind = "SynAck" => Admits(s.flow, s.att)'
    BY Admitted, Zenon
<1>2. \A g \in Flows : \A a : cstack'[g].st \in {"established", "sending"} /\ a = cstack'[g].att =>
          Admits(g, a)'
    BY Admitted, Zenon
<1>3. ASSUME expired' = 0, NEW s \in net', s.kind = "Syn", s.tok # None
      PROVE  /\ s.att <= cstack'[s.flow].att
             /\ s.att = cstack'[s.flow].att =>
                   \/ appConn'[s.flow] = s.tok.lcl
                   \/ appConn'[s.flow] = None /\ cstack'[s.flow].st \in {"sending", "closed"}
    BY <1>3, SynNonce, Zenon
<1>4. ASSUME expired' = 0, NEW s \in net', s.kind = "Ack", s.tok # None
      PROVE  s.tok.lcl \in admitted'
    <2>1. s.tok.lcl \in admitted
        BY <1>4, AckAdmitted, Zenon
    <2> QED
        BY <2>1, Zenon DEF Grows
<1> QED
    BY <1>1, <1>2, <1>3, <1>4, Zenon DEF SynOK

(* An accepted SYN: the connection of the flow, or a new one, is for its nonce. *)
LEMMA AdmitSynStep ==
    ASSUME Inv, NEW p \in net, NEW n \in Nonces, p.kind = "Syn", p.tok # None,
           GetOrNew(netConn[p.flow], "server", n),
           conn' = [conn EXCEPT ![n] = [st |-> "SynReceived", rem |-> p.tok.lcl, flow |-> p.flow]],
           netConn' = [netConn EXCEPT ![p.flow] = n],
           admitted' = admitted \cup {p.tok.lcl},
           StackGetsSyn(p),
           authd' = IF sstack[p.flow].st = "listen" THEN authd \ {p.flow} ELSE authd,
           UNCHANGED <<appConn, ctxConn, expired, net, cstack, cleared, accepted>>
    PROVE  Inv'
<1>1. /\ p.flow \in Flows /\ p.att \in Nat /\ p.flow # None /\ p.tok.lcl \in Nonces /\ n # None
    BY Fields, Zenon DEF Inv
<1>2. /\ n[1] = "server" /\ (netConn[p.flow] # None => n = netConn[p.flow])
      /\ (netConn[p.flow] = None => conn[n].flow = None)
      /\ conn[n].flow = p.flow \/ conn[n].flow = None
    BY <1>1, ServerConn, Zenon
<1>3. ConnStays /\ conn'[n].flow = p.flow
    <2> DEFINE c == [st |-> "SynReceived", rem |-> p.tok.lcl, flow |-> p.flow]
    <2>1. c \in Conns /\ c.st = "SynReceived" /\ c.flow = p.flow
        BY <1>1, SMT DEF Conns, States
    <2>2. conn' = [conn EXCEPT ![n] = c]
        BY Zenon
    <2> HIDE DEF c
    <2>3. /\ c.st # "Unused" /\ c.flow # None /\ (conn[n].flow # None => c.flow = conn[n].flow)
          /\ c.st = "SynAckReceived" => conn[n].st = "SynAckReceived"
        BY <1>1, <1>2, <2>1, Zenon
    <2>4. ConnStays /\ conn'[n] = c
        BY ONLY Inv, n \in Nonces, <2>1, <2>2, <2>3, ConnSet, Zenon
    <2> QED
        BY <2>1, <2>4, Zenon
<1>4. /\ netConn' \in [Flows -> Nonces \cup {None}] /\ netConn'[p.flow] = n
      /\ \A g \in Flows : g # p.flow => netConn'[g] = netConn[g]
    BY <1>1, SMT DEF Inv, Types
<1>5. /\ sstack' \in [Flows -> ServerStacks]
      /\ \A g \in Flows : \/ sstack'[g] = sstack[g]
                          \/ /\ g = p.flow /\ sstack'[g].st = "synRcvd" /\ sstack'[g].att = p.att
    <2>1. sstack \in [Flows -> ServerStacks]
        BY Zenon DEF Inv, Types
    <2>2. CASE sstack' = sstack
        BY <2>1, <2>2, Zenon
    <2>3. CASE sstack' = [sstack EXCEPT ![p.flow] = [st |-> "synRcvd", att |-> p.att]]
        BY <1>1, <2>1, <2>3, SMT DEF ServerStacks
    <2> QED
        BY <2>2, <2>3, Zenon DEF StackGetsSyn
<1>6. Types'
    BY <1>3, <1>4, <1>5, Zenon DEF Inv, Types, ConnStays
<1>7. Grows
    BY <1>3, Zenon DEF Grows, ConnStays
<1>8. TrackOK'
    <2>1. \A m \in ctxConn' : m[1] = "client" /\ conn'[m].flow # None
        BY <1>3, TrackStays, Zenon DEF ConnStays
    <2>2. ASSUME NEW g \in Flows
          PROVE  appConn'[g] # None => appConn'[g][1] = "client" /\ conn'[appConn'[g]].flow = g
        <3>1. appConn[g] # None => appConn[g][1] = "client" /\ conn'[appConn[g]].flow = g
            BY <1>3, TrackStays, Zenon DEF ConnStays
        <3> QED
            BY <3>1, SMT
    <2>3. ASSUME NEW g \in Flows
          PROVE  netConn'[g] # None => netConn'[g][1] = "server" /\ conn'[netConn'[g]].flow = g
        <3>1. CASE g = p.flow
            BY <1>2, <1>3, <1>4, <3>1, SMT
        <3>2. CASE g # p.flow
            <4>1. netConn[g] # None => netConn[g][1] = "server" /\ conn'[netConn[g]].flow = g
                BY <1>3, TrackStays, Zenon DEF ConnStays
            <4> QED
                BY <1>4, <3>2, <4>1, SMT
        <3> QED
            BY <3>1, <3>2, Zenon
    <2>4. \A m \in Nonces : conn'[m].st = "Unused" => conn'[m].flow = None
        BY <1>3, Zenon DEF ConnStays
    <2> QED
        BY <2>1, <2>2, <2>3, <2>4, Zenon DEF TrackOK
<1>9. AckOK'
    BY <1>3, <1>7, ServerAckOK, Zenon
<1>10. AcceptedOK' /\ AcceptedWasAdmitted'
    <2>1. ASSUME NEW a \in accepted
          PROVE  netConn'[a.flow] = netConn[a.flow] \/ netConn'[a.flow] # a.lcl
        <3>1. conn[a.lcl].flow = a.flow /\ a.flow # None /\ a.flow \in Flows
            BY <1>7, Kept, Fields, Zenon DEF Agreed, Inv
        <3>2. CASE a.flow = p.flow /\ netConn[p.flow] = None
            <4>1. a.lcl # n
                BY <1>2, <3>1, <3>2, Zenon
            <4> QED
                BY <1>4, <3>2, <4>1, Zenon
        <3>3. CASE a.flow = p.flow /\ netConn[p.flow] # None
            BY <1>2, <1>4, <3>3, Zenon
        <3>4. CASE a.flow # p.flow
            BY <1>4, <3>1, <3>4, Zenon
        <3> QED
            BY <3>2, <3>3, <3>4, Zenon
    <2> QED
        BY <1>7, <2>1, ReportsStay, Zenon
<1>11. StackOK'
    <2>1. ASSUME expired' = 0, NEW g \in Flows
          PROVE  /\ sstack'[g].st # "listen" => netConn'[g] # None \/ g \in authd'
                 /\ sstack'[g].st = "established" => g \in authd'
        <3>0. /\ sstack[g].st # "listen" => netConn[g] # None \/ g \in authd
              /\ sstack[g].st = "established" => g \in authd
            BY <2>1, Zenon DEF Inv, StackOK
        <3>1. CASE g = p.flow /\ sstack[g].st = "listen"
            <4>1. sstack'[g].st # "established"
                BY <1>5, <3>1, Zenon
            <4> QED
                BY <1>1, <1>4, <3>1, <4>1, Zenon
        <3>2. CASE g = p.flow /\ sstack[g].st # "listen"
            <4>1. authd' = authd /\ sstack' = sstack
                BY <3>2, Zenon DEF StackGetsSyn
            <4> QED
                BY <1>1, <1>4, <3>0, <3>2, <4>1, Zenon
        <3>3. CASE g # p.flow
            <4>1. sstack'[g] = sstack[g] /\ netConn'[g] = netConn[g]
                BY <1>4, <1>5, <3>3, Zenon
            <4>2. g \in authd => g \in authd'
                BY <3>3, SMT
            <4> QED
                BY <3>0, <4>1, <4>2, Zenon
        <3> QED
            BY <3>1, <3>2, <3>3, Zenon
    <2> QED
        BY <2>1, Zenon DEF StackOK
<1>12. SynOK'
    <2>1. Admits(p.flow, p.att)'
        BY Zenon DEF Admits
    <2>2. \A g \in Flows : \A a : sstack[g].st # "listen" /\ a = sstack[g].att => Admits(g, a)'
        BY <1>7, Admitted, Zenon
    <2>3. \A g \in Flows : \A a : sstack'[g].st # "listen" /\ a = sstack'[g].att => Admits(g, a)'
        BY <1>5, <2>1, <2>2, Zenon
    <2> QED
        BY <1>7, <2>3, ServerSynOK, Zenon
<1> QED
    BY <1>6, <1>8, <1>9, <1>10, <1>11, <1>12, Zenon DEF Inv

(* A refused SYN: its nonce is stored all the same. *)
LEMMA RefuseSynStep ==
    ASSUME Inv, NEW p \in net, p.tok # None, netConn[p.flow] # None,
           conn' = [conn EXCEPT ![netConn[p.flow]].rem = p.tok.lcl],
           UNCHANGED <<appConn, ctxConn, netConn, expired, net, cstack, sstack, admitted, cleared,
                       accepted, authd>>
    PROVE  Inv'
<1>1. p.flow \in Flows /\ p.tok.lcl \in Nonces
    BY Fields, Zenon DEF Inv
<1>2. PICK n : n = netConn[p.flow]
    BY Zenon
<1>3. PICK l \in Nonces : l = p.tok.lcl
    BY <1>1, Zenon
<1>4. ConnStays
    <2>1. /\ n \in Nonces /\ conn[n].flow = p.flow /\ p.flow # None
          /\ conn[n] \in Conns /\ conn[n].st # "Unused"
        BY <1>1, <1>2, NetConnFacts, Zenon
    <2> DEFINE c == [conn[n] EXCEPT !.rem = l]
    <2>2. conn' = [conn EXCEPT ![n] = c]
        BY <1>2, <1>3, <2>1, Zenon DEF Conns
    <2>3. c \in Conns /\ c.st = conn[n].st /\ c.flow = conn[n].flow
        BY <2>1, SetRemote, Zenon
    <2> HIDE DEF c
    <2>4. c.st # "Unused" /\ c.flow # None
        BY <2>1, <2>3, Zenon
    <2>5. /\ c.st = "SynAckReceived" => conn[n].st = "SynAckReceived"
          /\ conn[n].flow # None => c.flow = conn[n].flow
        BY <2>3, Zenon
    <2> QED
        BY ONLY Inv, <2>1, <2>2, <2>3, <2>4, <2>5, ConnSet, Zenon
<1>5. Types'
    BY <1>4, Zenon DEF Inv, Types, ConnStays
<1>6. Grows
    BY <1>4, Zenon DEF Grows, ConnStays
<1>7. TrackOK'
    <2>1. \A m \in ctxConn : m[1] = "client" /\ conn'[m].flow # None
        BY <1>4, TrackStays, Zenon DEF ConnStays
    <2>2. ASSUME NEW g \in Flows
          PROVE  /\ appConn[g] # None => appConn[g][1] = "client" /\ conn'[appConn[g]].flow = g
                 /\ netConn[g] # None => netConn[g][1] = "server" /\ conn'[netConn[g]].flow = g
        BY <1>4, TrackStays, Zenon DEF ConnStays
    <2>3. UNCHANGED <<appConn, ctxConn, netConn>>
        BY ZenonT(30)
    <2> QED
        BY ONLY <1>4, <2>1, <2>2, <2>3, Zenon DEF TrackOK, ConnStays
<1>8. AckOK'
    BY <1>4, <1>6, ServerAckOK, Zenon
<1>9. AcceptedOK' /\ AcceptedWasAdmitted'
    BY <1>6, ReportsStay, Zenon
<1>10. StackOK'
    BY Zenon DEF Inv, StackOK
<1>11. SynOK'
    BY <1>6, Admitted, ServerSynOK, Zenon
<1> QED
    BY <1>5, <1>7, <1>8, <1>9, <1>10, <1>11, Zenon DEF Inv

LEMMA ProcessNetworkSynStep ==
    ASSUME Inv, NEW p \in net, ProcessNetworkSyn(p)
    PROVE  Inv'
<1>1. /\ p.kind = "Syn" /\ p.tok # None
      /\ UNCHANGED <<appConn, ctxConn, expired, net, cstack, cleared, accepted>>
    BY Zenon DEF ProcessNetworkSyn
<1>2. CASE /\ \E n \in Nonces :
                 /\ GetOrNew(netConn[p.flow], "server", n)
                 /\ conn' = [conn EXCEPT ![n] = [st |-> "SynReceived", rem |-> p.tok.lcl,
                                                 flow |-> p.flow]]
                 /\ netConn' = [netConn EXCEPT ![p.flow] = n]
                 /\ admitted' = admitted \cup {p.tok.lcl}
           /\ StackGetsSyn(p)
           /\ authd' = IF sstack[p.flow].st = "listen" THEN authd \ {p.flow} ELSE authd
    BY <1>1, <1>2, AdmitSynStep, Zenon
<1>3. CASE /\ netConn[p.flow] # None
           /\ conn' = [conn EXCEPT ![netConn[p.flow]].rem = p.tok.lcl]
           /\ UNCHANGED <<netConn, admitted, sstack, authd>>
    BY <1>1, <1>3, RefuseSynStep, Zenon
<1> QED
    BY <1>2, <1>3, Zenon DEF ProcessNetworkSyn

(* What an ACK does to the server's stack. *)
LEMMA StackAck ==
    ASSUME Inv, NEW p \in net, StackGetsAck(p) \/ sstack' = sstack
    PROVE  /\ sstack' \in [Flows -> ServerStacks]
           /\ \A g \in Flows : /\ sstack'[g].att = sstack[g].att
                               /\ \/ sstack'[g].st = sstack[g].st
                                  \/ g = p.flow /\ sstack[g].st = "synRcvd"
<1>1. sstack \in [Flows -> ServerStacks] /\ p.flow \in Flows
    BY Fields, Zenon DEF Inv, Types
<1>2. CASE sstack' = sstack
    BY <1>1, <1>2, Zenon
<1>3. CASE /\ sstack[p.flow] = [st |-> "synRcvd", att |-> p.att]
           /\ sstack' = [sstack EXCEPT ![p.flow].st = "established"]
    BY <1>1, <1>3, SMT DEF ServerStacks
<1> QED
    BY <1>2, <1>3, Zenon DEF StackGetsAck

(* An ACK of a flow that is not tracked: its connection was accepted. *)
LEMMA UntrackedAckStep ==
    ASSUME Inv, NEW p \in net, netConn[p.flow] = None, StackGetsAck(p) \/ sstack' = sstack,
           UNCHANGED <<conn, appConn, ctxConn, netConn, expired, net, cstack, admitted, cleared,
                       accepted, authd>>
    PROVE  Inv'
<1>1. /\ sstack' \in [Flows -> ServerStacks]
      /\ \A g \in Flows : /\ sstack'[g].att = sstack[g].att
                          /\ \/ sstack'[g].st = sstack[g].st
                             \/ g = p.flow /\ sstack[g].st = "synRcvd"
    BY StackAck, Zenon
<1>2. ConnStays
    BY ConnSame, Zenon
<1>3. Types' /\ Grows
    BY <1>1, Zenon DEF Inv, Types, Grows
<1>4. TrackOK'
    BY Zenon DEF Inv, TrackOK
<1>5. AckOK'
    BY <1>2, <1>3, ServerAckOK, Zenon
<1>6. AcceptedOK' /\ AcceptedWasAdmitted'
    BY <1>3, ReportsStay, Zenon
<1>7. StackOK'
    <2>1. ASSUME expired' = 0, NEW g \in Flows
          PROVE  /\ sstack'[g].st # "listen" => netConn'[g] # None \/ g \in authd'
                 /\ sstack'[g].st = "established" => g \in authd'
        <3>1. /\ sstack[g].st # "listen" => netConn[g] # None \/ g \in authd
              /\ sstack[g].st = "established" => g \in authd
            BY <2>1, Zenon DEF Inv, StackOK
        <3> QED
            BY <1>1, <3>1, Zenon
    <2> QED
        BY <2>1, Zenon DEF StackOK
<1>8. SynOK'
    <2>1. \A g \in Flows : \A a : sstack'[g].st # "listen" /\ a = sstack'[g].att => Admits(g, a)'
        BY <1>1, <1>3, Admitted, Zenon
    <2> QED
        BY <1>3, <2>1, ServerSynOK, Zenon
<1> QED
    BY <1>3, <1>4, <1>5, <1>6, <1>7, <1>8, Zenon DEF Inv

(* The ACK with both nonces of its connection ends the handshake. *)
LEMMA AcceptStep ==
    ASSUME Inv, NEW p \in net, NEW n, p.kind = "Ack", n = netConn[p.flow], n # None,
           AckMatches(n, p.tok), StackGetsAck(p),
           conn' = [conn EXCEPT ![n].st = "AckProcessed"],
           netConn' = [netConn EXCEPT ![p.flow] = None],
           accepted' = accepted
               \cup {[flow |-> p.flow, att |-> p.att, lcl |-> n, rmt |-> conn[n].rem]},
           authd' = authd \cup {p.flow},
           UNCHANGED <<appConn, ctxConn, expired, net, cstack, admitted, cleared>>
    PROVE  Inv'
<1>1. p.flow \in Flows /\ p.att \in Nat /\ p.flow # None
    BY Fields, Zenon DEF Inv
<1>2. /\ n \in Nonces /\ conn[n].flow = p.flow /\ conn[n] \in Conns /\ conn[n].st # "Unused"
    BY <1>1, NetConnFacts, ZenonT(30)
<1>3. /\ p.tok # None /\ conn[n].rem \in Nonces /\ p.tok.lcl = conn[n].rem
      /\ p.tok = Token(conn[n].rem, n)
    <2>1. p.tok # None /\ p.tok.rmt = n /\ p.tok.lcl = conn[n].rem
        BY Zenon DEF AckMatches
    <2>2. p.tok.lcl \in Nonces /\ p.tok = Token(p.tok.lcl, p.tok.rmt)
        BY <2>1, Fields, Zenon DEF Inv
    <2> QED
        BY <2>1, <2>2, Zenon
<1>4. PICK r \in Reports : /\ r.flow = p.flow /\ r.lcl = n /\ r.rmt = conn[n].rem
                           /\ accepted' = accepted \cup {r}
    <2> DEFINE x == [flow |-> p.flow, att |-> p.att, lcl |-> n, rmt |-> conn[n].rem]
    <2>1. x \in Reports /\ x.flow = p.flow /\ x.lcl = n /\ x.rmt = conn[n].rem
        BY <1>1, <1>2, <1>3, SMT DEF Reports
    <2>2. accepted' = accepted \cup {x}
        BY Zenon
    <2> HIDE DEF x
    <2> QED
        BY <2>1, <2>2, Zenon
<1>5. ConnStays
    <2> DEFINE c == [conn[n] EXCEPT !.st = "AckProcessed"]
    <2>1. conn' = [conn EXCEPT ![n] = c]
        BY <1>2, Zenon DEF Conns
    <2>2. c \in Conns /\ c.st = "AckProcessed" /\ c.flow = conn[n].flow
        <3>1. "AckProcessed" \in States
            BY Zenon DEF States
        <3> QED
            BY ONLY <1>2, <3>1, SetState, Zenon
    <2> HIDE DEF c
    <2>3. /\ c.st # "Unused" /\ c.flow # None /\ (conn[n].flow # None => c.flow = conn[n].flow)
          /\ c.st = "SynAckReceived" => conn[n].st = "SynAckReceived"
        BY <1>1, <1>2, <2>2, Zenon
    <2> QED
        BY ONLY Inv, <1>2, <2>1, <2>2, <2>3, ConnSet, Zenon
<1>6. /\ netConn' \in [Flows -> Nonces \cup {None}] /\ netConn'[p.flow] = None
      /\ \A g \in Flows : g # p.flow => netConn'[g] = netConn[g]
    BY <1>1, SMT DEF Inv, Types
<1>7. /\ sstack' \in [Flows -> ServerStacks]
      /\ \A g \in Flows : /\ sstack'[g].att = sstack[g].att
                          /\ \/ sstack'[g].st = sstack[g].st
                             \/ g = p.flow /\ sstack[g].st = "synRcvd"
    BY StackAck, Zenon
<1>8. Types'
    BY <1>4, <1>5, <1>6, <1>7, Zenon DEF Inv, Types, ConnStays
<1>9. Grows
    BY <1>5, Zenon DEF Grows, ConnStays
<1>10. TrackOK'
    <2>1. \A m \in ctxConn' : m[1] = "client" /\ conn'[m].flow # None
        BY <1>5, TrackStays, Zenon DEF ConnStays
    <2>2. ASSUME NEW g \in Flows
          PROVE  appConn'[g] # None => appConn'[g][1] = "client" /\ conn'[appConn'[g]].flow = g
        <3>1. appConn[g] # None => appConn[g][1] = "client" /\ conn'[appConn[g]].flow = g
            BY <1>5, TrackStays, Zenon DEF ConnStays
        <3> QED
            BY <3>1, SMT
    <2>3. ASSUME NEW g \in Flows
          PROVE  netConn'[g] # None => netConn'[g][1] = "server" /\ conn'[netConn'[g]].flow = g
        <3>1. netConn[g] # None => netConn[g][1] = "server" /\ conn'[netConn[g]].flow = g
            BY <1>5, TrackStays, Zenon DEF ConnStays
        <3> QED
            BY <1>6, <3>1, SMT
    <2>4. \A m \in Nonces : conn'[m].st = "Unused" => conn'[m].flow = None
        BY <1>5, Zenon DEF ConnStays
    <2> QED
        BY <2>1, <2>2, <2>3, <2>4, Zenon DEF TrackOK
<1>11. AckOK'
    BY <1>5, <1>9, ServerAckOK, Zenon
(* The report is of a connection that was still tracked: it is the first one. *)
<1>12. AcceptedOK'
    <2>1. Agreed(r)'
        <3>1. conn'[n].flow = p.flow
            BY <1>1, <1>2, <1>9, Zenon DEF Grows
        <3>2. conn'[p.tok.lcl].flow = p.flow /\ Cleared(p.tok.lcl)'
            BY <1>3, <1>9, Kept, ZenonT(30)
        <3>r. r.flow = p.flow /\ r.lcl = n /\ r.rmt = p.tok.lcl
            BY ONLY <1>3, <1>4, Zenon
        <3>3. conn'[r.lcl].flow = r.flow /\ conn'[r.rmt].flow = r.flow
            BY ONLY <3>1, <3>2, <3>r, Zenon
        <3>4. Cleared(r.rmt)'
            BY ONLY <3>2, <3>r, Zenon DEF Cleared
        <3>5. p \in net' /\ p.kind = "Ack" /\ p.flow = r.flow /\ p.tok = Token(r.rmt, r.lcl)
            BY <1>3, <1>4, Zenon
        <3> QED
            BY <3>3, <3>4, <3>5, Zenon DEF Agreed
    <2>2. \A a \in accepted' : Agreed(a)'
        BY <1>4, <1>9, <2>1, Kept, Zenon
    <2>3. Agreement'
        BY <2>2, Zenon DEF Agreement, Agreed, Cleared
    <2>4. ASSUME NEW a \in accepted PROVE a.lcl # n
        <3>1. conn[a.lcl].flow = a.flow /\ netConn[a.flow] # a.lcl
            BY <1>9, Kept, Zenon DEF Agreed, Inv, AcceptedOK
        <3> QED
            BY <1>2, <3>1, Zenon
    <2>5. AcceptOnce'
        BY <1>4, <2>4, Zenon DEF Inv, AcceptedOK, AcceptOnce
    <2>6. ASSUME NEW a \in accepted' PROVE netConn'[a.flow] # a.lcl
        <3>1. CASE a = r
            BY <1>4, <1>6, <3>1, Zenon
        <3>2. CASE a \in accepted
            <4>1. a.lcl # None /\ a.flow \in Flows /\ netConn[a.flow] # a.lcl
                BY <3>2, Fields, Zenon DEF Inv, AcceptedOK
            <4> QED
                BY <1>6, <4>1, Zenon
        <3> QED
            BY <1>4, <3>1, <3>2, Zenon
    <2> QED
        BY <2>3, <2>5, <2>6, Zenon DEF AcceptedOK
<1>13. AcceptedWasAdmitted'
    <2>1. expired = 0 => r.rmt \in admitted
        BY <1>3, <1>4, AckAdmitted, Zenon
    <2> QED
        BY <1>4, <2>1, Zenon DEF Inv, AcceptedWasAdmitted, AcceptedIsAdmitted
<1>14. StackOK'
    <2>1. ASSUME expired' = 0, NEW g \in Flows
          PROVE  /\ sstack'[g].st # "listen" => netConn'[g] # None \/ g \in authd'
                 /\ sstack'[g].st = "established" => g \in authd'
        <3>1. /\ sstack[g].st # "listen" => netConn[g] # None \/ g \in authd
              /\ sstack[g].st = "established" => g \in authd
            BY <2>1, Zenon DEF Inv, StackOK
        <3> QED
            BY <1>6, <1>7, <3>1, Zenon
    <2> QED
        BY <2>1, Zenon DEF StackOK
<1>15. SynOK'
    <2>1. \A g \in Flows : \A a : sstack'[g].st # "listen" /\ a = sstack'[g].att => Admits(g, a)'
        BY <1>7, <1>9, Admitted, Zenon
    <2> QED
        BY <1>9, <2>1, ServerSynOK, Zenon
<1> QED
    BY <1>8, <1>10, <1>11, <1>12, <1>13, <1>14, <1>15, Zenon DEF Inv

LEMMA ProcessNetworkAckStep ==
    ASSUME Inv, NEW p \in net, ProcessNetworkAck(p)
    PROVE  Inv'
<1>1. /\ p.kind = "Ack"
      /\ UNCHANGED <<appConn, ctxConn, expired, net, cstack, admitted, cleared>>
    BY Zenon DEF ProcessNetworkAck
<1>2. PICK n : n = netConn[p.flow]
    BY Zenon
<1>3. CASE /\ n = None /\ (StackGetsAck(p) \/ sstack' = sstack)
           /\ UNCHANGED <<conn, netConn, accepted, authd>>
    BY <1>1, <1>2, <1>3, UntrackedAckStep, Zenon
<1>4. CASE /\ n # None /\ AckMatches(n, p.tok) /\ StackGetsAck(p)
           /\ conn' = [conn EXCEPT ![n].st = "AckProcessed"]
           /\ netConn' = [netConn EXCEPT ![p.flow] = None]
           /\ accepted' = accepted \cup {[flow |-> p.flow, att |-> p.att, lcl |-> n,
                                          rmt |-> conn[n].rem]}
           /\ authd' = authd \cup {p.flow}
    BY <1>1, <1>2, <1>4, AcceptStep, Zenon
<1> QED
    BY <1>2, <1>3, <1>4, Zenon DEF ProcessNetworkAck

-----------------------------------------------------------------------------
(* THEOREMS *)

LEMMA InitInv == Init => Inv
<1> SUFFICES ASSUME Init PROVE Inv
    OBVIOUS
<1>1. /\ net = {} /\ admitted = {} /\ cleared = {} /\ accepted = {} /\ authd = {} /\ ctxConn = {}
      /\ expired = 0
      /\ conn = [n \in Nonces |-> [st |-> "Unused", rem |-> None, flow |-> None]]
      /\ appConn = [f \in Flows |-> None] /\ netConn = [f \in Flows |-> None]
      /\ cstack = [f \in Flows |-> [st |-> "closed", att |-> 0]]
      /\ sstack = [f \in Flows |-> [st |-> "listen", att |-> 0]]
    BY Zenon DEF Init
<1>2. /\ conn \in [Nonces -> Conns]
      /\ \A n \in Nonces : conn[n].flow = None /\ conn[n].st = "Unused"
    BY <1>1, SMT DEF Conns, States
<1>3. /\ appConn \in [Flows -> Nonces \cup {None}] /\ netConn \in [Flows -> Nonces \cup {None}]
      /\ \A f \in Flows : appConn[f] = None /\ netConn[f] = None
    BY <1>1, SMT
<1>4. /\ cstack \in [Flows -> ClientStacks] /\ \A f \in Flows : cstack[f].st = "closed"
      /\ sstack \in [Flows -> ServerStacks] /\ \A f \in Flows : sstack[f].st = "listen"
    BY <1>1, SMT DEF ClientStacks, ServerStacks
<1>5. expired \in Nat
    BY <1>1, SMT
<1>6. Types /\ TrackOK
    BY <1>1, <1>2, <1>3, <1>4, <1>5, Zenon DEF Types, TrackOK
<1>7. AckOK /\ AcceptedOK /\ AcceptedWasAdmitted
    BY <1>1, <1>2, Zenon DEF AckOK, AcceptedOK, AcceptOnce, Agreement, AcceptedWasAdmitted,
                             AcceptedIsAdmitted
<1>8. StackOK /\ SynOK
    BY <1>1, <1>4, Zenon DEF StackOK, SynOK
<1> QED
    BY <1>6, <1>7, <1>8, Zenon DEF Inv

LEMMA NextInv == Inv /\ [Next]_vars => Inv'
<1> SUFFICES ASSUME Inv, [Next]_vars PROVE Inv'
    OBVIOUS
<1>1. CASE \E f \in Flows : Connect(f)
    BY <1>1, ConnectStep, Zenon
<1>2. CASE \E f \in Flows : ClientCloses(f)
    BY <1>2, ClientClosesStep, Zenon
<1>3. CASE \E f \in Flows : ServerCloses(f)
    BY <1>3, ServerClosesStep, Zenon
<1>4. CASE \E f \in Flows : ProcessApplicationSyn(f)
    BY <1>4, ProcessApplicationSynStep, Zenon
<1>5. CASE \E f \in Flows : ProcessApplicationSynAck(f)
    BY <1>5, ProcessApplicationSynAckStep, Zenon
<1>6. CASE \E f \in Flows : ProcessApplicationAck(f)
    BY <1>6, ProcessApplicationAckStep, Zenon
<1>7. CASE \E p \in net : ProcessNetworkSyn(p)
    BY <1>7, ProcessNetworkSynStep, Zenon
<1>8. CASE \E p \in net : ProcessNetworkSynAck(p)
    BY <1>8, ProcessNetworkSynAckStep, Zenon
<1>9. CASE \E p \in net : ProcessNetworkAck(p)
    BY <1>9, ProcessNetworkAckStep, Zenon
<1>10. CASE \/ \E c \in setup.client : ClientPolicy(c)
            \/ \E c \in setup.server : ServerPolicy(c)
    <2>1. UNCHANGED <<conn, appConn, ctxConn, netConn, expired, net, cstack, sstack,
                      admitted, cleared, accepted, authd>>
        BY <1>10, Zenon DEF ClientPolicy, ServerPolicy, enforcerVars, history
    <2> QED
        BY <2>1, QuietStep, Zenon
<1>11. CASE Expire
    BY <1>11, ExpireStep, Zenon
<1>12. CASE UNCHANGED vars
    <2>1. UNCHANGED <<conn, appConn, ctxConn, netConn, expired, net, cstack, sstack,
                      admitted, cleared, accepted, authd>>
        BY <1>12, Zenon DEF vars, enforcerVars, history
    <2> QED
        BY <2>1, QuietStep, Zenon
<1> QED
    BY <1>1, <1>2, <1>3, <1>4, <1>5, <1>6, <1>7, <1>8, <1>9, <1>10, <1>11, <1>12, Zenon DEF Next

(* Every reachable state of the handshake satisfies the inductive invariant. *)
THEOREM Invariant == Spec => []Inv
BY InitInv, NextInv, PTL DEF Spec

(* A flow that the server's enforcer reports is one for which the client's enforcer
   had a connection, passed a SYNACK, and sent an ACK with exactly the two nonces
   (processNetworkAckPacket), also when tracker entries expire.                 *)
THEOREM AgreementAlways == Spec => []Agreement
<1>1. Inv => Agreement
    BY Zenon DEF Inv, AcceptedOK
<1> QED
    BY <1>1, Invariant, PTL

(* No packet sequence ends one connection of the server's enforcer twice
   (datapath_tcp.go:691), also when tracker entries expire.                     *)
THEOREM AcceptOnceAlways == Spec => []AcceptOnce
<1>1. Inv => AcceptOnce
    BY Zenon DEF Inv, AcceptedOK
<1> QED
    BY <1>1, Invariant, PTL

(* While trackers keep their entries, the receiver rules accepted a SYN of the client
   connection of every reported flow, though a refused SYN overwrites the nonce of a
   tracked connection (datapath_tcp.go:352).                                    *)
THEOREM AcceptedWasAdmittedAlways == Spec => []AcceptedWasAdmitted
<1>1. Inv => AcceptedWasAdmitted
    BY Zenon DEF Inv
<1> QED
    BY <1>1, Invariant, PTL

(* While trackers keep their entries, the stack of a policed server completes no
   connection that the enforcer did not accept, although it passes the ACKs of
   untracked connections (processNetworkTCPPackets).                            *)
THEOREM EstablishedIsAuthorizedAlways == Spec => []EstablishedIsAuthorized
<1>1. Inv => EstablishedIsAuthorized
    BY Zenon DEF Inv, StackOK, EstablishedIsAuthorized
<1> QED
    BY <1>1, Invariant, PTL
=============================================================================
