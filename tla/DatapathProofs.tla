--------------------------- MODULE DatapathProofs ---------------------------
(* No packet is forgotten by processPacket when the channel of a queue has room
   for all that the kernel keeps; nothing is left of a PU that is gone; and a
   packet is judged by the policy of its own PU when no two PUs share a key: for
   any number of queues, PUs, keys and slices.                                *)
EXTENDS Datapath, SequenceTheorems, TLAPS

-----------------------------------------------------------------------------
(* SEQUENCES *)

LEMMA AppendFacts ==
    ASSUME NEW S, NEW s \in Seq(S), NEW e \in S
    PROVE  Append(s, e) \in Seq(S) /\ Len(Append(s, e)) = Len(s) + 1
OBVIOUS

LEMMA HeadTailFacts ==
    ASSUME NEW S, NEW s \in Seq(S), s # <<>>
    PROVE  /\ Head(s) \in S /\ Tail(s) \in Seq(S)
           /\ Len(Tail(s)) = Len(s) - 1 /\ Len(s) \in Nat \ {0}
OBVIOUS

LEMMA LongTail ==
    ASSUME NEW S, NEW s \in Seq(S), Len(s) > 1
    PROVE  Tail(s) \in Seq(S) /\ Tail(s) # <<>>
<1>1. s # <<>>
  OBVIOUS
<1>2. Tail(s) \in Seq(S) /\ Len(Tail(s)) = Len(s) - 1 /\ Len(s) \in Nat
  BY <1>1, HeadTailFacts
<1>3. Len(Tail(s)) # 0
  BY <1>2
<1>4. Tail(s) # <<>>
  BY <1>2, <1>3, EmptySeq, Zenon
<1> QED  BY <1>2, <1>4

(* A sequence whose elements are replaced one by one keeps its length. *)
LEMMA Mapped ==
    ASSUME NEW S, NEW s \in Seq(S), NEW f, DOMAIN f = DOMAIN s,
           \A i \in DOMAIN s : f[i] \in S, f = [i \in DOMAIN s |-> f[i]]
    PROVE  f \in Seq(S) /\ Len(f) = Len(s)
<1>1. Len(s) \in Nat /\ DOMAIN s = 1 .. Len(s)
  OBVIOUS
<1>2. f \in [1 .. Len(s) -> S]
  BY <1>1
<1> QED  BY <1>1, <1>2

-----------------------------------------------------------------------------
(* COUNTING.  k packets in the kernel, c in the channel, h in hand. *)

LEMMA OneMore ==
    ASSUME NEW k \in Nat, NEW c \in Nat, NEW h \in Nat
    PROVE  (k + c + h) + 1 = (k + 1) + c + h
OBVIOUS

LEMMA OneMoves ==
    ASSUME NEW k \in Nat, NEW c \in Nat, NEW h \in Nat
    PROVE  k + c + h = (k - 1) + (c + 1) + h
OBVIOUS

LEMMA OneTaken ==
    ASSUME NEW k \in Nat, NEW c \in Nat
    PROVE  k + c + 0 = k + (c - 1) + 1
OBVIOUS

LEMMA OneDone ==
    ASSUME NEW k \in Nat, NEW c \in Nat
    PROVE  (k + c + 1) - 1 = k + c + 0
OBVIOUS

LEMMA RoomLeft ==
    ASSUME NEW k \in Nat \ {0}, NEW c \in Nat, NEW h \in Nat, NEW m \in Nat, NEW n \in Nat,
           k + c + h <= m, m <= n
    PROVE  c < n
OBVIOUS

-----------------------------------------------------------------------------
(* THE INVARIANT *)

(* What the worker of the controller is about to use is there: a policy and a
   slice to write, a key to write or to remove. *)
WorkerOK ==
    worker # None =>
        /\ worker.at \in {"enforce", "write", "supervise"} => worker.pol \in Policies
        /\ worker.at = "enforce" => worker.slice # <<>>
        /\ worker.at \in {"write", "remove"} => worker.todo # <<>>

(* The types of what the controller writes. *)
Tables ==
    /\ contextTracker \in [PUs -> Seq(Keys)]
    /\ puTracker \in [Keys -> Contexts \cup {None}]
    /\ rules \in [PUs -> Seq(Keys)]
    /\ current \in [PUs -> Policies \cup {None}] /\ moved \subseteq PUs
    /\ worker \in Requests \cup {None}
    /\ dead \in BOOLEAN

Inv == TypeOK /\ WorkerOK /\ NoneForgotten

LEMMA InitInv == Init => Inv
<1> SUFFICES ASSUME Init PROVE Inv
  OBVIOUS
<1>1. TypeOK
  <2>1. <<>> \in Seq(Keys) /\ <<>> \in Seq(Packets)
    OBVIOUS
  <2>2. 0 \in 0 .. QueueSize
    BY SizeAssumption
  <2> QED  BY <2>1, <2>2, Zenon DEF Init, TypeOK
<1>2. WorkerOK
  BY DEF Init, WorkerOK
<1>3. NoneForgotten
  BY DEF Init, NoneForgotten
<1> QED  BY <1>1, <1>2, <1>3 DEF Inv

(* The steps of the controller that leave the queues alone. *)
LEMMA QuietStep ==
    ASSUME NoneForgotten, UNCHANGED queues
    PROVE  NoneForgotten'
BY Zenon DEF NoneForgotten, queues

LEMMA ControllerTypes ==
    ASSUME Tables, WorkerOK,
           \/ \E p \in PUs : \E pol \in Policies, s \in Slices[p] : Apply(p, pol, s)
           \/ \E p \in PUs : Delete(p)
           \/ Enforce \/ WriteKey \/ Unenforce \/ RemoveKey
    PROVE  Tables' /\ WorkerOK'
<1>1. ASSUME NEW p \in PUs, NEW pol \in Policies, NEW s \in Slices[p], Apply(p, pol, s)
      PROVE  Tables' /\ WorkerOK'
  <2>1. s \in Seq(Keys) /\ s # <<>>
    <3>1. s \in Seq(Keys) /\ Len(s) >= 2
      BY SliceAssumption
    <3> QED  BY <3>1, EmptySeq
  <2>2. worker' = [at |-> "enforce", pu |-> p, pol |-> pol, slice |-> s, todo |-> <<>>]
    BY <1>1 DEF Apply
  <2>3. worker' \in Requests
    BY <2>1, <2>2 DEF Requests
  <2>4. Tables'
    BY <1>1, <2>3 DEF Tables, Apply, tracker
  <2>5. WorkerOK'
    BY <2>1, <2>2 DEF WorkerOK
  <2> QED  BY <2>4, <2>5
<1>2. ASSUME NEW p \in PUs, Delete(p)
      PROVE  Tables' /\ WorkerOK'
  <2>1. worker' = [at |-> "unsupervise", pu |-> p, pol |-> None, slice |-> <<>>, todo |-> <<>>]
    BY <1>2 DEF Delete
  <2>2. worker' \in Requests
    BY <2>1 DEF Requests
  <2>3. Tables'
    BY <1>2, <2>2 DEF Tables, Delete, tracker
  <2>4. WorkerOK'
    BY <2>1 DEF WorkerOK
  <2> QED  BY <2>3, <2>4
<1>3. ASSUME Enforce PROVE Tables' /\ WorkerOK'
  <2>1. worker # None /\ worker \in Requests /\ worker.at = "enforce"
    BY <1>3 DEF Enforce, At, Tables
  <2>2. worker.slice # <<>> /\ worker.pol \in Policies
    BY <2>1 DEF WorkerOK
  <2>3. worker' \in Requests \cup {None} /\ WorkerOK'
    BY <1>3, <2>1, <2>2, Zenon DEF Enforce, Goto, Done, Requests, WorkerOK
  <2>4. contextTracker' \in [PUs -> Seq(Keys)] /\ moved' \subseteq PUs /\ dead' \in BOOLEAN
    BY <1>3, <2>1, ZenonT(30) DEF Enforce, Requests, Tables
  <2>5. Tables'
    BY <1>3, <2>3, <2>4, Zenon DEF Enforce, Tables
  <2> QED  BY <2>3, <2>5
<1>4. ASSUME WriteKey PROVE Tables' /\ WorkerOK'
  <2>1. worker # None /\ worker \in Requests /\ worker.at = "write"
    BY <1>4 DEF WriteKey, At, Tables
  <2>2. worker.todo # <<>> /\ worker.pol \in Policies
    BY <2>1 DEF WorkerOK
  <2>3. worker.todo \in Seq(Keys) /\ Head(worker.todo) \in Keys
    BY <2>1, <2>2, HeadTailFacts DEF Requests
  <2>4. puTracker' \in [Keys -> Contexts \cup {None}]
    BY <1>4, <2>1, <2>2, <2>3 DEF WriteKey, Context, Contexts, Requests, Tables
  <2>5. CASE Len(worker.todo) > 1
    <3>1. Tail(worker.todo) \in Seq(Keys) /\ Tail(worker.todo) # <<>>
      BY <2>3, <2>5, LongTail
    <3>2. worker' \in Requests /\ WorkerOK'
      BY <1>4, <2>1, <2>2, <2>5, <3>1, Zenon DEF WriteKey, Goto, Requests, WorkerOK
    <3>3. Tables'
      BY <1>4, <2>4, <2>5, <3>2 DEF WriteKey, Tables
    <3> QED  BY <3>2, <3>3
  <2>6. CASE ~ (Len(worker.todo) > 1)
    <3>0. <<>> \in Seq(Keys)
      OBVIOUS
    <3>1. worker' \in Requests /\ WorkerOK'
      BY <1>4, <2>1, <2>2, <2>6, <3>0, Zenon DEF WriteKey, Goto, Requests, WorkerOK
    <3>2. current' \in [PUs -> Policies \cup {None}]
      BY <1>4, <2>1, <2>2, <2>6, Zenon DEF WriteKey, Requests, Tables
    <3>3. Tables'
      BY <1>4, <2>4, <2>6, <3>1, <3>2 DEF WriteKey, Tables
    <3> QED  BY <3>1, <3>3
  <2> QED  BY <2>5, <2>6
<1>5. ASSUME Unenforce PROVE Tables' /\ WorkerOK'
  <2>1. worker # None /\ worker \in Requests
    BY <1>5 DEF Unenforce, At, Tables
  <2>2. contextTracker[worker.pu] \in Seq(Keys)
    BY <2>1 DEF Requests, Tables
  <2>3. worker' \in Requests \cup {None} /\ WorkerOK'
    BY <1>5, <2>1, <2>2, Zenon DEF Unenforce, Goto, Done, Requests, WorkerOK
  <2>4. Tables'
    BY <1>5, <2>3 DEF Unenforce, Tables, tracker
  <2> QED  BY <2>3, <2>4
<1>6. ASSUME RemoveKey PROVE Tables' /\ WorkerOK'
  <2>1. worker # None /\ worker \in Requests /\ worker.at = "remove"
    BY <1>6 DEF RemoveKey, At, Tables
  <2>2. worker.todo # <<>> /\ worker.todo \in Seq(Keys)
    BY <2>1 DEF WorkerOK, Requests
  <2>3. puTracker' \in [Keys -> Contexts \cup {None}]
    BY <1>6, Zenon DEF RemoveKey, Tables
  <2>4. CASE Len(worker.todo) > 1
    <3>1. Tail(worker.todo) \in Seq(Keys) /\ Tail(worker.todo) # <<>>
      BY <2>2, <2>4, LongTail
    <3>2. worker' \in Requests /\ WorkerOK'
      BY <1>6, <2>1, <2>4, <3>1, ZenonT(30) DEF RemoveKey, Goto, Requests, WorkerOK
    <3>3. Tables'
      BY <1>6, <2>3, <2>4, <3>2 DEF RemoveKey, Tables
    <3> QED  BY <3>2, <3>3
  <2>5. CASE ~ (Len(worker.todo) > 1)
    <3>1. worker' = None /\ WorkerOK'
      BY <1>6, <2>5 DEF RemoveKey, Done, WorkerOK
    <3>0. <<>> \in Seq(Keys)
      OBVIOUS
    <3>2. /\ contextTracker' \in [PUs -> Seq(Keys)]
          /\ current' \in [PUs -> Policies \cup {None}]
      BY <1>6, <2>1, <2>5, <3>0, ZenonT(30) DEF RemoveKey, Tables
    <3>3. Tables'
      BY <1>6, <2>3, <2>5, <3>1, <3>2 DEF RemoveKey, Tables
    <3> QED  BY <3>1, <3>3
  <2> QED  BY <2>4, <2>5
<1> QED  BY <1>1, <1>2, <1>3, <1>4, <1>5, <1>6

LEMMA ControllerStep ==
    ASSUME Inv,
           \/ \E p \in PUs : \E pol \in Policies, s \in Slices[p] : Apply(p, pol, s)
           \/ \E p \in PUs : Delete(p)
           \/ Enforce \/ WriteKey \/ Unenforce \/ RemoveKey
    PROVE  Inv'
<1>1. UNCHANGED queues
  BY DEF Apply, Delete, Enforce, WriteKey, Unenforce, RemoveKey
<1>2. NoneForgotten'
  BY <1>1, QuietStep DEF Inv
<1>3. Tables' /\ WorkerOK'
  BY ControllerTypes, Zenon DEF Inv, TypeOK, Tables
<1>4. TypeOK'
  BY <1>1, <1>3, Zenon DEF Inv, TypeOK, Tables, queues
<1> QED  BY <1>2, <1>3, <1>4, Zenon DEF Inv

Delayed(p, pkts) ==
    [i \in DOMAIN pkts |-> IF pkts[i].pu = p THEN [pkts[i] EXCEPT !.late = TRUE] ELSE pkts[i]]

LEMMA DelayedFacts ==
    ASSUME NEW p, NEW s \in Seq(Packets)
    PROVE  /\ Delayed(p, s) \in Seq(Packets) /\ Len(Delayed(p, s)) = Len(s)
           /\ \A y \in Range(Delayed(p, s)) : y.late \/ (y.pu # p /\ y \in Range(s))
<1>1. ASSUME NEW i \in DOMAIN s
      PROVE  /\ Delayed(p, s)[i] \in Packets
             /\ Delayed(p, s)[i].late \/ (Delayed(p, s)[i].pu # p /\ Delayed(p, s)[i] = s[i])
  <2>1. s[i] \in Packets
    OBVIOUS
  <2>2. [s[i] EXCEPT !.late = TRUE] \in Packets /\ [s[i] EXCEPT !.late = TRUE].late
    BY <2>1, Zenon DEF Packets
  <2>3. Delayed(p, s)[i] = IF s[i].pu = p THEN [s[i] EXCEPT !.late = TRUE] ELSE s[i]
    BY DEF Delayed
  <2> QED  BY <2>1, <2>2, <2>3, Zenon
<1>2. DOMAIN Delayed(p, s) = DOMAIN s /\ Delayed(p, s) = [i \in DOMAIN s |-> Delayed(p, s)[i]]
  BY DEF Delayed
<1>3. Delayed(p, s) \in Seq(Packets) /\ Len(Delayed(p, s)) = Len(s)
  BY <1>1, <1>2, Mapped
<1>4. \A y \in Range(Delayed(p, s)) : y.late \/ (y.pu # p /\ y \in Range(s))
  BY <1>1, <1>2, Zenon DEF Range
<1> QED  BY <1>3, <1>4

(* The steps of the supervisor: its rules go, the queues keep their lengths. *)
LEMMA Released ==
    ASSUME Inv, NEW p \in PUs, Release(p)
    PROVE  /\ rules' \in [PUs -> Seq(Keys)]
           /\ kernel' \in [Queues -> Seq(Packets)] /\ channel' \in [Queues -> Seq(Packets)]
           /\ NoneForgotten'
<1>1. /\ kernel' = [q \in Queues |-> Delayed(p, kernel[q])]
      /\ channel' = [q \in Queues |-> Delayed(p, channel[q])]
      /\ UNCHANGED <<total, busy>>
  BY DEF Release, Delayed
<1>2. \A q \in Queues : kernel[q] \in Seq(Packets) /\ channel[q] \in Seq(Packets)
  BY DEF Inv, TypeOK
<1>3. rules' \in [PUs -> Seq(Keys)]
  <2>1. <<>> \in Seq(Keys)
    OBVIOUS
  <2> QED  BY <2>1 DEF Release, Inv, TypeOK
<1>4. kernel' \in [Queues -> Seq(Packets)] /\ channel' \in [Queues -> Seq(Packets)]
  BY DelayedFacts, <1>1, <1>2
<1>5. \A q \in Queues : Len(kernel'[q]) = Len(kernel[q]) /\ Len(channel'[q]) = Len(channel[q])
  BY DelayedFacts, <1>1, <1>2
<1>6. NoneForgotten'
  BY <1>1, <1>5, Zenon DEF Inv, NoneForgotten
<1> QED  BY <1>3, <1>4, <1>6

LEMMA SupervisorStep ==
    ASSUME Inv, Supervise \/ Unsupervise
    PROVE  Inv'
<1>1. worker # None /\ worker \in Requests
  BY DEF Inv, TypeOK, Supervise, Unsupervise, At
<1>2. worker.pu \in PUs /\ worker.slice \in Seq(Keys)
  BY <1>1 DEF Requests
<1>3. CASE Release(worker.pu) /\ Goto("unenforce", <<>>) /\ UNCHANGED <<tracker, current, moved, dead>>
  <2>1. /\ rules' \in [PUs -> Seq(Keys)]
        /\ kernel' \in [Queues -> Seq(Packets)] /\ channel' \in [Queues -> Seq(Packets)]
        /\ NoneForgotten'
    BY <1>2, <1>3, Released
  <2>2. UNCHANGED <<side, total, busy, contextTracker, puTracker, current, moved, dead>>
    BY <1>3 DEF Release, tracker
  <2>3. <<>> \in Seq(Keys)
    OBVIOUS
  <2>4. worker' \in Requests /\ WorkerOK'
    BY <1>1, <1>3, <2>3, Zenon DEF Goto, Requests, WorkerOK
  <2>5. TypeOK'
    BY <2>1, <2>2, <2>4 DEF Inv, TypeOK
  <2> QED  BY <2>1, <2>4, <2>5 DEF Inv
<1>4. CASE /\ rules' = [rules EXCEPT ![worker.pu] = worker.slice]
           /\ Done /\ UNCHANGED queues /\ UNCHANGED <<tracker, current, moved, dead>>
  <2>1. NoneForgotten'
    BY <1>4, QuietStep DEF Inv
  <2>2. WorkerOK'
    BY <1>4 DEF Done, WorkerOK
  <2>3. TypeOK'
    BY <1>2, <1>4 DEF Inv, TypeOK, Done, tracker, queues
  <2> QED  BY <2>1, <2>2, <2>3 DEF Inv
<1> QED  BY <1>3, <1>4 DEF Supervise, Unsupervise

-----------------------------------------------------------------------------
(* THE QUEUES.  A step of one queue keeps the count of that queue, and the
   others are as they were.                                                   *)

InHand(q) == IF busy[q] = None THEN 0 ELSE 1
OnItsWay(q) == Len(kernel[q]) + Len(channel[q]) + InHand(q)

LEMMA QueueFacts ==
    ASSUME Inv, NEW q \in Queues
    PROVE  /\ kernel[q] \in Seq(Packets) /\ channel[q] \in Seq(Packets)
           /\ Len(kernel[q]) \in Nat /\ Len(channel[q]) \in Nat
           /\ total[q] \in Nat /\ total[q] <= QueueSize /\ QueueSize \in Nat
           /\ total[q] = OnItsWay(q) /\ InHand(q) \in Nat
<1>1. kernel[q] \in Seq(Packets) /\ channel[q] \in Seq(Packets) /\ total[q] \in 0 .. QueueSize
  BY DEF Inv, TypeOK
<1>2. total[q] = OnItsWay(q)
  BY Zenon DEF Inv, NoneForgotten, OnItsWay, InHand
<1>3. InHand(q) \in Nat
  BY DEF InHand
<1> QED  BY <1>1, <1>2, <1>3, SizeAssumption

LEMMA ArriveStep ==
    ASSUME Inv, NEW q \in Queues, NEW p \in PUs, Arrive(q, p)
    PROVE  Inv'
<1>0. /\ Len(kernel[q]) \in Nat /\ Len(channel[q]) \in Nat
      /\ total[q] \in Nat /\ total[q] <= QueueSize /\ QueueSize \in Nat
      /\ InHand(q) \in Nat
      /\ total[q] = Len(kernel[q]) + Len(channel[q]) + InHand(q)
  BY QueueFacts, Zenon DEF OnItsWay
<1>1. PICK k \in KeysFor(q, rules[p]), ok \in BOOLEAN :
          kernel' = [kernel EXCEPT ![q] = Append(@, [pu |-> p, key |-> k, parses |-> ok, late |-> FALSE])]
  BY Zenon DEF Arrive
<1> DEFINE pkt == [pu |-> p, key |-> k, parses |-> ok, late |-> FALSE]
<1>2. k \in Keys
  BY DEF KeysFor, Inv, TypeOK
<1>3. pkt \in Packets
  BY <1>2 DEF Packets
<1> HIDE DEF pkt
<1>4. kernel' = [kernel EXCEPT ![q] = Append(kernel[q], pkt)]
  BY <1>1 DEF pkt
<1>5. Append(kernel[q], pkt) \in Seq(Packets) /\ Len(Append(kernel[q], pkt)) = Len(kernel[q]) + 1
  BY <1>3, QueueFacts, AppendFacts
<1>6. kernel' \in [Queues -> Seq(Packets)]
  BY <1>4, <1>5 DEF Inv, TypeOK
<1>7. total' \in [Queues -> 0 .. QueueSize] /\ total'[q] = total[q] + 1
  BY QueueFacts, SMTT(30) DEF Arrive, Inv, TypeOK
<1>8. TypeOK'
  <2>1. UNCHANGED <<contextTracker, puTracker, rules, current, moved, worker, side, channel, busy, dead>>
    BY Zenon DEF Arrive, tracker
  <2> QED  BY <1>6, <1>7, <2>1, Zenon DEF Inv, TypeOK
<1>9. WorkerOK'
  BY DEF Arrive, Inv, WorkerOK
<1>10. ASSUME NEW r \in Queues PROVE total'[r] = OnItsWay(r)'
  <2>1. CASE r = q
    <3>1. kernel'[q] = Append(kernel[q], pkt)
      BY <1>4 DEF Inv, TypeOK
    <3>2. Len(kernel'[q]) = Len(kernel[q]) + 1 /\ UNCHANGED channel /\ InHand(q)' = InHand(q)
      BY <3>1, <1>5 DEF Arrive, InHand
    <3>3. OnItsWay(q)' = (Len(kernel[q]) + 1) + Len(channel[q]) + InHand(q)
      BY <3>2, Zenon DEF OnItsWay
    <3>4. (Len(kernel[q]) + Len(channel[q]) + InHand(q)) + 1
             = (Len(kernel[q]) + 1) + Len(channel[q]) + InHand(q)
      <4>1. Len(kernel[q]) \in Nat /\ Len(channel[q]) \in Nat /\ InHand(q) \in Nat
        BY <1>0, Zenon
      <4> QED  BY ONLY <4>1, OneMore, ZenonT(30)
    <3>5. total'[q] = (Len(kernel[q]) + Len(channel[q]) + InHand(q)) + 1
      BY <1>0, <1>7, Zenon
    <3> QED  BY <2>1, <3>3, <3>4, <3>5, Zenon
  <2>2. CASE r # q
    <3>1. kernel'[r] = kernel[r] /\ total'[r] = total[r] /\ UNCHANGED <<channel, busy>>
      BY <2>2, <1>4 DEF Arrive, Inv, TypeOK
    <3> QED  BY <3>1, QueueFacts, Zenon DEF OnItsWay, InHand
  <2> QED  BY <2>1, <2>2
<1> QED  BY <1>8, <1>9, <1>10, Zenon DEF Inv, NoneForgotten, OnItsWay, InHand

(* The step for which the room in the channel matters. *)
LEMMA ReceiveStep ==
    ASSUME Inv, RoomForAll, NEW q \in Queues, Receive(q)
    PROVE  Inv'
<1>0. /\ Len(kernel[q]) \in Nat /\ Len(channel[q]) \in Nat
      /\ total[q] \in Nat /\ total[q] <= QueueSize /\ QueueSize \in Nat
      /\ InHand(q) \in Nat
      /\ total[q] = Len(kernel[q]) + Len(channel[q]) + InHand(q)
  BY QueueFacts, Zenon DEF OnItsWay
<1>1. kernel[q] # <<>> /\ kernel' = [kernel EXCEPT ![q] = Tail(kernel[q])]
  BY DEF Receive
<1>2. /\ Head(kernel[q]) \in Packets /\ Tail(kernel[q]) \in Seq(Packets)
      /\ Len(Tail(kernel[q])) = Len(kernel[q]) - 1 /\ Len(kernel[q]) \in Nat \ {0}
  BY <1>1, QueueFacts, HeadTailFacts
<1>3. Len(channel[q]) < ChannelSize
  <2>1. QueueSize <= ChannelSize /\ ChannelSize \in Nat
    BY SizeAssumption DEF RoomForAll
  <2>2. Len(kernel[q]) + Len(channel[q]) + InHand(q) <= QueueSize
    BY <1>0, Zenon
  <2> QED  BY <2>1, <2>2, <1>0, <1>2, RoomLeft, Zenon
<1>4. channel' = [channel EXCEPT ![q] = Append(channel[q], Head(kernel[q]))]
  BY <1>3 DEF Receive
<1>5. /\ Append(channel[q], Head(kernel[q])) \in Seq(Packets)
      /\ Len(Append(channel[q], Head(kernel[q]))) = Len(channel[q]) + 1
  BY <1>2, QueueFacts, AppendFacts
<1>6. kernel' \in [Queues -> Seq(Packets)] /\ channel' \in [Queues -> Seq(Packets)]
  BY <1>1, <1>2, <1>4, <1>5 DEF Inv, TypeOK
<1>7. TypeOK'
  BY <1>6 DEF Receive, Inv, TypeOK, tracker
<1>8. WorkerOK'
  BY DEF Receive, Inv, WorkerOK
<1>9. ASSUME NEW r \in Queues PROVE total'[r] = OnItsWay(r)'
  <2>1. CASE r = q
    <3>1. /\ Len(kernel'[q]) = Len(kernel[q]) - 1 /\ Len(channel'[q]) = Len(channel[q]) + 1
          /\ UNCHANGED total /\ InHand(q)' = InHand(q)
      BY <1>1, <1>2, <1>4, <1>5 DEF Receive, Inv, TypeOK, InHand
    <3>2. OnItsWay(q)' = (Len(kernel[q]) - 1) + (Len(channel[q]) + 1) + InHand(q)
      BY <3>1, Zenon DEF OnItsWay
    <3>3. total[q] = (Len(kernel[q]) - 1) + (Len(channel[q]) + 1) + InHand(q)
      <4>1. Len(kernel[q]) \in Nat /\ Len(channel[q]) \in Nat /\ InHand(q) \in Nat
        BY <1>0, Zenon
      <4>2. Len(kernel[q]) + Len(channel[q]) + InHand(q)
               = (Len(kernel[q]) - 1) + (Len(channel[q]) + 1) + InHand(q)
        BY ONLY <4>1, OneMoves, Zenon
      <4>3. total[q] = Len(kernel[q]) + Len(channel[q]) + InHand(q)
        BY <1>0, Zenon
      <4> QED  BY <4>2, <4>3, Zenon
    <3> QED  BY <2>1, <3>1, <3>2, <3>3, Zenon
  <2>2. CASE r # q
    <3>1. kernel'[r] = kernel[r] /\ channel'[r] = channel[r] /\ UNCHANGED <<total, busy>>
      BY <2>2, <1>1, <1>4 DEF Receive, Inv, TypeOK
    <3> QED  BY <3>1, QueueFacts, Zenon DEF OnItsWay, InHand
  <2> QED  BY <2>1, <2>2
<1> QED  BY <1>7, <1>8, <1>9, Zenon DEF Inv, NoneForgotten, OnItsWay, InHand

LEMMA LookupStep ==
    ASSUME Inv, NEW q \in Queues, Lookup(q)
    PROVE  Inv'
<1> DEFINE pkt == Head(channel[q])
           held == [pkt |-> pkt, ctx |-> puTracker[pkt.key]]
<1>0. Len(kernel[q]) \in Nat /\ Len(channel[q]) \in Nat /\ total[q] = OnItsWay(q)
  BY QueueFacts
<1>1. /\ pkt \in Packets /\ Tail(channel[q]) \in Seq(Packets)
      /\ Len(Tail(channel[q])) = Len(channel[q]) - 1
  BY QueueFacts, HeadTailFacts, SMTT(30) DEF Lookup
<1>2. held \in Judged /\ held # None
  BY <1>1, NoneAssumption DEF Judged, Packets, Inv, TypeOK
<1>3. WorkerOK'
  BY DEF Lookup, Inv, WorkerOK
<1>4. CASE pkt.parses
  <2>1. /\ channel' = [channel EXCEPT ![q] = Tail(channel[q])]
        /\ busy' = [busy EXCEPT ![q] = held] /\ busy[q] = None
        /\ UNCHANGED <<tracker, rules, current, moved, worker, side, kernel, total, dead>>
    BY <1>4, SMTT(30) DEF Lookup
  <2> HIDE DEF held, pkt
  <2>2. TypeOK'
    BY <2>1, <1>1, <1>2 DEF Inv, TypeOK, tracker
  <2>3. ASSUME NEW r \in Queues PROVE total'[r] = OnItsWay(r)'
    <3>1. CASE r = q
      <4>1. Len(channel'[q]) = Len(channel[q]) - 1 /\ InHand(q)' = 1 /\ InHand(q) = 0
        BY <2>1, <1>1, <1>2 DEF Inv, TypeOK, InHand
      <4>2. OnItsWay(q)' = Len(kernel[q]) + (Len(channel[q]) - 1) + 1
        BY <2>1, <4>1, Zenon DEF OnItsWay
      <4>3. OnItsWay(q) = Len(kernel[q]) + (Len(channel[q]) - 1) + 1
        BY <4>1, <1>0, OneTaken, Zenon DEF OnItsWay
      <4> QED  BY <2>1, <3>1, <4>2, <4>3, <1>0, Zenon
    <3>2. CASE r # q
      <4>1. channel'[r] = channel[r] /\ busy'[r] = busy[r] /\ UNCHANGED <<kernel, total>>
        BY <2>1, <3>2 DEF Inv, TypeOK
      <4> QED  BY <4>1, QueueFacts, Zenon DEF OnItsWay, InHand
    <3> QED  BY <3>1, <3>2
  <2> QED  BY <1>3, <2>2, <2>3, Zenon DEF Inv, NoneForgotten, OnItsWay, InHand
<1>5. CASE ~ pkt.parses
  <2>1. UNCHANGED queues /\ dead' = TRUE /\ UNCHANGED <<tracker, rules, current, moved, worker>>
    BY <1>5 DEF Lookup, queues
  <2>2. NoneForgotten'
    BY <2>1, QuietStep DEF Inv
  <2>3. TypeOK'
    BY <2>1 DEF Inv, TypeOK, tracker, queues
  <2> QED  BY <1>3, <2>2, <2>3 DEF Inv
<1> QED  BY <1>4, <1>5

LEMMA SetVerdictStep ==
    ASSUME Inv, NEW q \in Queues, SetVerdict(q)
    PROVE  Inv'
<1>0. /\ Len(kernel[q]) \in Nat /\ Len(channel[q]) \in Nat
      /\ total[q] \in Nat /\ total[q] <= QueueSize /\ QueueSize \in Nat
      /\ total[q] = Len(kernel[q]) + Len(channel[q]) + 1
  BY QueueFacts, Zenon DEF OnItsWay, InHand, SetVerdict
<1>1. /\ busy' = [busy EXCEPT ![q] = None] /\ total' = [total EXCEPT ![q] = total[q] - 1]
      /\ UNCHANGED <<tracker, rules, current, moved, worker, side, kernel, channel, dead>>
  BY DEF SetVerdict
<1>2. total[q] - 1 = Len(kernel[q]) + Len(channel[q]) + 0
  <2>1. Len(kernel[q]) \in Nat /\ Len(channel[q]) \in Nat
    BY <1>0, Zenon
  <2>2. (Len(kernel[q]) + Len(channel[q]) + 1) - 1 = Len(kernel[q]) + Len(channel[q]) + 0
    BY ONLY <2>1, OneDone, Zenon
  <2>3. total[q] = Len(kernel[q]) + Len(channel[q]) + 1
    BY <1>0, Zenon
  <2> QED  BY <2>2, <2>3, Zenon
<1>3. total[q] - 1 \in 0 .. QueueSize
  <2> DEFINE k == Len(kernel[q])
             c == Len(channel[q])
             t == total[q]
  <2>1. k \in Nat /\ c \in Nat /\ t \in Nat /\ t <= QueueSize /\ QueueSize \in Nat /\ t = k + c + 1
    BY <1>0, Zenon
  <2> HIDE DEF k, c, t
  <2>2. t - 1 \in 0 .. QueueSize
    BY <2>1
  <2> QED  BY <2>2, Zenon DEF t
<1>4. TypeOK'
  BY <1>1, <1>3, SMTT(30) DEF Inv, TypeOK, tracker
<1>5. WorkerOK'
  BY <1>1 DEF Inv, WorkerOK
<1>6. ASSUME NEW r \in Queues PROVE total'[r] = OnItsWay(r)'
  <2>1. CASE r = q
    <3>1. InHand(q)' = 0 /\ total'[q] = total[q] - 1
      BY <1>1 DEF Inv, TypeOK, InHand
    <3>2. OnItsWay(q)' = Len(kernel[q]) + Len(channel[q]) + 0
      BY <1>1, <3>1, Zenon DEF OnItsWay
    <3> QED  BY <2>1, <3>1, <3>2, <1>2, Zenon
  <2>2. CASE r # q
    <3>1. busy'[r] = busy[r] /\ total'[r] = total[r] /\ UNCHANGED <<kernel, channel>>
      BY <1>1, <2>2 DEF Inv, TypeOK
    <3> QED  BY <3>1, QueueFacts, Zenon DEF OnItsWay, InHand
  <2> QED  BY <2>1, <2>2
<1> QED  BY <1>4, <1>5, <1>6, Zenon DEF Inv, NoneForgotten, OnItsWay, InHand

-----------------------------------------------------------------------------
(* THE THEOREM *)

LEMMA NextInv ==
    ASSUME RoomForAll
    PROVE  Inv /\ [Next]_vars => Inv'
<1> SUFFICES ASSUME Inv, [Next]_vars PROVE Inv'
  OBVIOUS
<1>1. CASE UNCHANGED vars
  BY <1>1 DEF vars, tracker, queues, Inv, TypeOK, WorkerOK, NoneForgotten
<1>2. CASE Next
  BY <1>2, ControllerStep, SupervisorStep, ArriveStep, ReceiveStep, LookupStep, SetVerdictStep DEF Next
<1> QED  BY <1>1, <1>2

(* No packet is forgotten: when the channel of NewNFQueue is as large as the
   queue of the kernel, processPacket never finds it full, and every packet the
   kernel keeps is on its way to a verdict. *)
THEOREM NoPacketIsForgotten == RoomForAll => (Spec => []NoneForgotten)
<1> SUFFICES ASSUME RoomForAll PROVE Spec => []NoneForgotten
  OBVIOUS
<1>1. Init => Inv
  BY InitInv
<1>2. Inv /\ [Next]_vars => Inv'
  BY NextInv
<1>3. Inv => NoneForgotten
  BY DEF Inv
<1> QED  BY <1>1, <1>2, <1>3, PTL DEF Spec

-----------------------------------------------------------------------------
(* THE KEYS.  What the controller has written, is writing or is removing. *)

Is(at, p) == worker # None /\ worker.at = at /\ worker.pu = p

(* The worker writes and removes keys of its own PU. *)
SlicesOK ==
    /\ \A p \in PUs : contextTracker[p] \in Slices[p] \cup {<<>>}
    /\ worker # None =>
          /\ worker.at \in {"enforce", "write", "supervise"} => worker.slice \in Slices[worker.pu]
          /\ worker.at = "write" => /\ contextTracker[worker.pu] = worker.slice
                                    /\ Range(worker.todo) \subseteq Range(worker.slice)
          /\ worker.at = "remove" => Range(worker.todo) \subseteq KeysOf(worker.pu)

(* The context of a key belongs to the slice of its PU, and has the policy of the
   last Enforce; while a request is served, the keys still to be written have the
   policy before it, and those still to be removed are the only ones left. *)
KeyOK(k, p, pol) ==
    \/ p \in moved
    \/ /\ k \in Range(contextTracker[p])
       /\ Is("remove", p) => k \in Range(worker.todo)
       /\ \/ pol = current[p] /\ (Is("write", p) => k \in Range(worker.todo))
          \/ pol = worker.pol /\ Is("write", p)

KeysOK == \A k \in Keys : puTracker[k] # None => KeyOK(k, puTracker[k].pu, puTracker[k].pol)

KeyInv == Tables /\ WorkerOK /\ SlicesOK /\ KeysOK

LEMMA RangeFacts ==
    ASSUME NEW S, NEW s \in Seq(S), s # <<>>
    PROVE  /\ Head(s) \in Range(s) /\ Range(Tail(s)) \subseteq Range(s)
           /\ \A k \in Range(s) : k = Head(s) \/ k \in Range(Tail(s))
           /\ ~ (Len(s) > 1) => \A k \in Range(s) : k = Head(s)
<1>1. /\ Len(s) \in Nat \ {0} /\ DOMAIN s = 1 .. Len(s) /\ Head(s) = s[1]
      /\ DOMAIN Tail(s) = 1 .. (Len(s) - 1) /\ \A i \in 1 .. (Len(s) - 1) : Tail(s)[i] = s[i + 1]
  BY SMT
<1>2. Head(s) \in Range(s)
  BY <1>1, SMT DEF Range
<1>3. Range(Tail(s)) \subseteq Range(s)
  <2>1. ASSUME NEW i \in 1 .. (Len(s) - 1) PROVE Tail(s)[i] \in Range(s)
    <3>1. i + 1 \in DOMAIN s /\ Tail(s)[i] = s[i + 1]
      BY <1>1, SMT
    <3> QED  BY <3>1, Zenon DEF Range
  <2> QED  BY <1>1, <2>1, ZenonT(30) DEF Range
<1>4. ASSUME NEW i \in DOMAIN s PROVE s[i] = Head(s) \/ s[i] \in Range(Tail(s))
  <2>1. CASE i = 1
    BY <1>1, <2>1, Zenon
  <2>2. CASE i # 1
    <3>1. i - 1 \in 1 .. (Len(s) - 1) /\ (i - 1) + 1 = i
      BY <1>1, <2>2, SMT
    <3>2. i - 1 \in DOMAIN Tail(s) /\ Tail(s)[i - 1] = s[i]
      BY <1>1, <3>1, Zenon
    <3> QED  BY <3>2, Zenon DEF Range
  <2> QED  BY <2>1, <2>2
<1>5. ASSUME ~ (Len(s) > 1), NEW i \in DOMAIN s PROVE s[i] = Head(s)
  <2>1. i = 1
    BY <1>1, <1>5, SMT
  <2> QED  BY <1>1, <2>1, Zenon
<1> QED  BY <1>2, <1>3, <1>4, <1>5, Zenon DEF Range

LEMMA EmptyRange == Range(<<>>) = {}
BY DEF Range

(* What the worker does next. *)
LEMMA GotoFacts ==
    ASSUME worker \in Requests, NEW t \in Seq(Keys), NEW at,
           at \in {"enforce", "write", "supervise", "unsupervise", "unenforce", "remove"},
           Goto(at, t)
    PROVE  /\ worker' # None /\ worker'.at = at /\ worker'.todo = t
           /\ worker'.pu = worker.pu /\ worker'.pol = worker.pol /\ worker'.slice = worker.slice
<1>1. worker' = [worker EXCEPT !.at = at, !.todo = t]
  BY DEF Goto
<1>2. /\ worker'.at = at /\ worker'.todo = t /\ worker' \in Requests
      /\ worker'.pu = worker.pu /\ worker'.pol = worker.pol /\ worker'.slice = worker.slice
  BY <1>1, Zenon DEF Requests
<1> QED  BY <1>2, NoneAssumption, Zenon

LEMMA ContextFacts ==
    ASSUME Tables, NEW k \in Keys, puTracker[k] # None
    PROVE  puTracker[k].pu \in PUs /\ puTracker[k].pol \in Policies
BY DEF Tables, Contexts

LEMMA AtFacts ==
    ASSUME KeyInv, NEW at, At(at)
    PROVE  /\ worker # None /\ worker.at = at /\ worker \in Requests /\ worker.pu \in PUs
           /\ worker.slice \in Seq(Keys) /\ worker.todo \in Seq(Keys)
           /\ contextTracker[worker.pu] \in Seq(Keys)
<1>1. worker # None /\ worker.at = at /\ worker \in Requests
  BY Zenon DEF KeyInv, Tables, At
<1>2. worker.pu \in PUs /\ worker.slice \in Seq(Keys) /\ worker.todo \in Seq(Keys)
  BY <1>1, Zenon DEF Requests
<1> QED  BY <1>1, <1>2, Zenon DEF KeyInv, Tables

(* A step that writes no key, after which the worker neither writes nor removes. *)
LEMMA CalmStep ==
    ASSUME KeyInv, UNCHANGED <<puTracker, contextTracker, current, moved>>,
           worker = None \/ worker.at \notin {"write", "remove"},
           worker' = None \/ worker'.at \notin {"write", "remove"}
    PROVE  KeysOK'
<1>1. ASSUME NEW k \in Keys, puTracker[k] # None
      PROVE  KeyOK(k, puTracker[k].pu, puTracker[k].pol)'
  <2>1. KeyOK(k, puTracker[k].pu, puTracker[k].pol)
    BY <1>1, Zenon DEF KeyInv, KeysOK
  <2>2. \A p : ~ Is("write", p) /\ ~ Is("write", p)' /\ ~ Is("remove", p)'
    BY Zenon DEF Is
  <2> QED  BY <2>1, <2>2, Zenon DEF KeyOK
<1> QED  BY <1>1, Zenon DEF KeysOK

LEMMA RequestStep ==
    ASSUME KeyInv,
           \/ \E p \in PUs : \E pol \in Policies, s \in Slices[p] : Apply(p, pol, s)
           \/ \E p \in PUs : Delete(p)
    PROVE  KeyInv'
<1>1. Tables' /\ WorkerOK'
  BY ControllerTypes, Zenon DEF KeyInv
<1>2. worker = None /\ UNCHANGED <<puTracker, contextTracker, current, moved>>
  BY Zenon DEF Apply, Delete, tracker
<1>3. /\ worker'.at \in {"enforce", "unsupervise"}
      /\ worker'.at = "enforce" => worker'.slice \in Slices[worker'.pu]
  <2>1. ASSUME NEW p \in PUs, NEW pol \in Policies, NEW s \in Slices[p], Apply(p, pol, s)
        PROVE  worker'.at = "enforce" /\ worker'.slice \in Slices[worker'.pu]
    <3>1. worker' = [at |-> "enforce", pu |-> p, pol |-> pol, slice |-> s, todo |-> <<>>]
      BY <2>1, Zenon DEF Apply
    <3>2. worker'.at = "enforce" /\ worker'.pu = p /\ worker'.slice = s
      BY ONLY <3>1, SMTT(30)
    <3> QED  BY <3>2, Zenon
  <2>2. ASSUME NEW p \in PUs, Delete(p) PROVE worker'.at = "unsupervise"
    BY <2>2 DEF Delete
  <2> QED  BY <2>1, <2>2, Zenon
<1>4. SlicesOK'
  BY <1>2, <1>3, Zenon DEF KeyInv, SlicesOK
<1>5. KeysOK'
  BY <1>2, <1>3, CalmStep, Zenon
<1> QED  BY <1>1, <1>4, <1>5, Zenon DEF KeyInv

(* Enforce with the same slice leaves the keys to be written again; with another
   one, the PU has moved. *)
LEMMA EnforceStep ==
    ASSUME KeyInv, Enforce
    PROVE  KeyInv'
<1>1. Tables' /\ WorkerOK'
  BY ControllerTypes, Zenon DEF KeyInv
<1>2. /\ worker # None /\ worker.at = "enforce" /\ worker \in Requests /\ worker.pu \in PUs
      /\ worker.slice \in Seq(Keys)
  BY AtFacts, Zenon DEF Enforce
<1>3. worker.slice \in Slices[worker.pu] /\ UNCHANGED <<puTracker, current>>
  BY <1>2, Zenon DEF KeyInv, SlicesOK, Enforce
<1>4. CASE UNCHANGED <<contextTracker, moved>> /\ (worker' = worker \/ worker' = None)
  <2>1. SlicesOK'
    BY <1>2, <1>3, <1>4, Zenon DEF KeyInv, SlicesOK
  <2>2. KeysOK'
    BY <1>2, <1>3, <1>4, CalmStep, Zenon
  <2> QED  BY <1>1, <2>1, <2>2, Zenon DEF KeyInv
<1>5. CASE /\ contextTracker' = [contextTracker EXCEPT ![worker.pu] = worker.slice]
           /\ moved' = IF contextTracker[worker.pu] \in {<<>>, worker.slice}
                       THEN moved ELSE moved \cup {worker.pu}
           /\ Goto("write", worker.slice)
  <2>1. /\ worker' # None /\ worker'.at = "write" /\ worker'.todo = worker.slice
        /\ worker'.pu = worker.pu /\ worker'.pol = worker.pol /\ worker'.slice = worker.slice
    BY <1>2, <1>5, GotoFacts, Zenon
  <2>2. /\ contextTracker'[worker.pu] = worker.slice
        /\ \A p \in PUs : p # worker.pu => contextTracker'[p] = contextTracker[p]
    BY <1>2, <1>5 DEF KeyInv, Tables
  <2>3. SlicesOK'
    <3>1. \A p \in PUs : contextTracker'[p] \in Slices[p] \cup {<<>>}
      BY <1>3, <2>2, Zenon DEF KeyInv, SlicesOK
    <3> QED  BY <1>3, <2>1, <2>2, <3>1, Zenon DEF SlicesOK
  <2>4. ASSUME NEW k \in Keys, puTracker[k] # None, NEW p, p = puTracker[k].pu
        PROVE  KeyOK(k, p, puTracker[k].pol)'
    <3>1. p \in PUs /\ KeyOK(k, p, puTracker[k].pol)
      BY <2>4, ContextFacts, Zenon DEF KeyInv, KeysOK
    <3>2. moved \subseteq moved' /\ ~ Is("write", p) /\ ~ Is("remove", p)'
      BY <1>2, <1>5, <2>1, Zenon DEF Is
    <3>3. CASE p # worker.pu
      <4>1. ~ Is("write", p)' /\ contextTracker'[p] = contextTracker[p]
        BY <2>1, <2>2, <3>1, <3>3, Zenon DEF Is
      <4> QED  BY <1>3, <3>1, <3>2, <4>1, Zenon DEF KeyOK
    <3>4. CASE p = worker.pu /\ p \notin moved'
      <4>1. contextTracker[p] \in {<<>>, worker.slice} /\ p \notin moved
        BY <1>5, <3>4, Zenon
      <4>2. k \in Range(contextTracker[p]) /\ puTracker[k].pol = current[p]
        BY <3>1, <3>2, <4>1, Zenon DEF KeyOK
      <4>3. contextTracker[p] = worker.slice
        BY <4>1, <4>2, EmptyRange, Zenon
      <4>4. k \in Range(worker'.todo) /\ k \in Range(contextTracker'[p])
        BY <2>1, <2>2, <3>4, <4>2, <4>3, SMT
      <4> QED  BY <1>3, <3>2, <4>2, <4>4, Zenon DEF KeyOK
    <3> QED  BY <3>3, <3>4, Zenon DEF KeyOK
  <2>5. KeysOK'
    BY <1>3, <2>4, Zenon DEF KeysOK
  <2> QED  BY <1>1, <2>3, <2>5, Zenon DEF KeyInv
<1> QED  BY <1>4, <1>5, Zenon DEF Enforce, Done

(* One key is written: with the last one, every key has the policy of this Enforce. *)
LEMMA WriteKeyStep ==
    ASSUME KeyInv, WriteKey
    PROVE  KeyInv'
<1>1. Tables' /\ WorkerOK'
  BY ControllerTypes, Zenon DEF KeyInv
<1>2. /\ worker # None /\ worker.at = "write" /\ worker \in Requests /\ worker.pu \in PUs
      /\ worker.todo \in Seq(Keys) /\ worker.slice \in Seq(Keys)
  BY AtFacts, Zenon DEF WriteKey
<1>3. worker.todo # <<>> /\ worker.pol \in Policies
  BY <1>2, Zenon DEF KeyInv, WorkerOK
<1>4. PICK h \in Keys, p \in PUs, pol \in Policies :
          h = Head(worker.todo) /\ p = worker.pu /\ pol = worker.pol
  <2>1. Head(worker.todo) \in Keys
    BY <1>2, <1>3, HeadTailFacts
  <2> QED  BY <1>2, <1>3, <2>1, Zenon
<1>5. /\ contextTracker[p] = worker.slice /\ worker.slice \in Slices[p]
      /\ Range(worker.todo) \subseteq Range(worker.slice)
      /\ \A r \in PUs : contextTracker[r] \in Slices[r] \cup {<<>>}
  BY <1>2, <1>4, Zenon DEF KeyInv, SlicesOK
<1>6. /\ h \in Range(worker.todo) /\ Range(Tail(worker.todo)) \subseteq Range(worker.todo)
      /\ \A k \in Range(worker.todo) : k = h \/ k \in Range(Tail(worker.todo))
      /\ ~ (Len(worker.todo) > 1) => \A k \in Range(worker.todo) : k = h
  BY <1>2, <1>3, <1>4, RangeFacts, Zenon
<1>7. /\ UNCHANGED <<contextTracker, moved>>
      /\ puTracker' = [puTracker EXCEPT ![h] = Context(p, pol)]
  BY <1>4, Zenon DEF WriteKey
<1>8. /\ puTracker'[h].pu = p /\ puTracker'[h].pol = pol
      /\ \A k \in Keys : k # h => puTracker'[k] = puTracker[k]
  BY <1>7 DEF KeyInv, Tables, Context
(* What was written before. *)
<1>9. ASSUME NEW k \in Keys, k # h, puTracker[k] # None,
             NEW r, r = puTracker[k].pu, NEW pl, pl = puTracker[k].pol
      PROVE  /\ r \in PUs
             /\ \/ r \in moved
                \/ /\ k \in Range(contextTracker[r])
                   /\ \/ pl = current[r] /\ r # p
                      \/ pl = current[r] /\ r = p /\ k \in Range(worker.todo)
                      \/ pl = pol /\ r = p
  <2>1. r \in PUs /\ KeyOK(k, r, pl)
    BY <1>9, ContextFacts, Zenon DEF KeyInv, KeysOK
  <2>2. Is("write", r) <=> r = p
    BY <1>2, <1>4, Zenon DEF Is
  <2> QED  BY <1>4, <2>1, <2>2, Zenon DEF KeyOK
<1>10. CASE Len(worker.todo) > 1
  <2>1. Goto("write", Tail(worker.todo)) /\ UNCHANGED current
    BY <1>10, Zenon DEF WriteKey
  <2>2. Tail(worker.todo) \in Seq(Keys)
    BY <1>2, <1>3, HeadTailFacts
  <2>3. /\ worker' # None /\ worker'.at = "write" /\ worker'.todo = Tail(worker.todo)
        /\ worker'.pu = p /\ worker'.pol = pol /\ worker'.slice = worker.slice
    BY <1>2, <1>4, <2>1, <2>2, GotoFacts, Zenon
  <2>4. SlicesOK'
    <3>1. \A r \in PUs : contextTracker'[r] \in Slices[r] \cup {<<>>}
      BY <1>5, <1>7, Zenon
    <3> QED  BY <1>5, <1>6, <1>7, <2>3, <3>1, Zenon DEF SlicesOK
  <2>5. \A r : (Is("write", r)' <=> r = p) /\ ~ Is("remove", r)'
    BY <2>3, Zenon DEF Is
  <2>6. ASSUME NEW k \in Keys, puTracker'[k] # None,
               NEW r, r = puTracker'[k].pu, NEW pl, pl = puTracker'[k].pol
        PROVE  KeyOK(k, r, pl)'
    <3>1. CASE k = h
      <4>1. k \in Range(contextTracker'[p])
        BY <1>5, <1>6, <1>7, <3>1, Zenon
      <4> QED  BY <1>8, <2>3, <2>5, <2>6, <3>1, <4>1, Zenon DEF KeyOK
    <3>2. CASE k # h
      <4>1. puTracker'[k] = puTracker[k]
        BY <1>8, <3>2, Zenon
      <4>2. /\ r \in PUs
            /\ \/ r \in moved
               \/ /\ k \in Range(contextTracker[r])
                  /\ \/ pl = current[r] /\ r # p
                     \/ pl = current[r] /\ r = p /\ k \in Range(worker.todo)
                     \/ pl = pol /\ r = p
        BY <1>9, <2>6, <3>2, <4>1, Zenon
      <4>3. k \in Range(worker.todo) => k \in Range(worker'.todo)
        BY <1>6, <2>3, <3>2, Zenon
      <4> QED  BY <1>7, <2>1, <2>3, <2>5, <4>2, <4>3, Zenon DEF KeyOK
    <3> QED  BY <3>1, <3>2
  <2> QED  BY <1>1, <2>4, <2>6, Zenon DEF KeyInv, KeysOK
<1>11. CASE ~ (Len(worker.todo) > 1)
  <2>1. Goto("supervise", <<>>) /\ current' = [current EXCEPT ![p] = pol]
    BY <1>4, <1>11, Zenon DEF WriteKey
  <2>2. <<>> \in Seq(Keys)
    OBVIOUS
  <2>3. /\ worker' # None /\ worker'.at = "supervise"
        /\ worker'.pu = p /\ worker'.slice = worker.slice
    BY <1>2, <1>4, <2>1, <2>2, GotoFacts, Zenon
  <2>4. SlicesOK'
    <3>1. \A r \in PUs : contextTracker'[r] \in Slices[r] \cup {<<>>}
      BY <1>5, <1>7, Zenon
    <3> QED  BY <1>5, <2>3, <3>1, Zenon DEF SlicesOK
  <2>5. \A r : ~ Is("write", r)' /\ ~ Is("remove", r)'
    BY <2>3, Zenon DEF Is
  <2>6. current'[p] = pol /\ \A r \in PUs : r # p => current'[r] = current[r]
    BY <2>1 DEF KeyInv, Tables
  <2>7. ASSUME NEW k \in Keys, puTracker'[k] # None,
               NEW r, r = puTracker'[k].pu, NEW pl, pl = puTracker'[k].pol
        PROVE  KeyOK(k, r, pl)'
    <3>1. CASE k = h
      <4>1. k \in Range(contextTracker'[p])
        BY <1>5, <1>6, <1>7, <3>1, Zenon
      <4> QED  BY <1>8, <2>5, <2>6, <2>7, <3>1, <4>1, Zenon DEF KeyOK
    <3>2. CASE k # h
      <4>1. puTracker'[k] = puTracker[k]
        BY <1>8, <3>2, Zenon
      <4>2. k \notin Range(worker.todo)
        BY <1>6, <1>11, <3>2, Zenon
      <4>3. /\ r \in PUs
            /\ \/ r \in moved
               \/ /\ k \in Range(contextTracker[r])
                  /\ \/ pl = current[r] /\ r # p
                     \/ pl = pol /\ r = p
        BY <1>9, <2>7, <3>2, <4>1, <4>2, Zenon
      <4> QED  BY <1>7, <2>5, <2>6, <4>3, Zenon DEF KeyOK
    <3> QED  BY <3>1, <3>2
  <2> QED  BY <1>1, <2>4, <2>7, Zenon DEF KeyInv, KeysOK
<1> QED  BY <1>10, <1>11

(* Unenforce starts with all keys of the PU. *)
LEMMA UnenforceStep ==
    ASSUME KeyInv, Unenforce
    PROVE  KeyInv'
<1>1. Tables' /\ WorkerOK'
  BY ControllerTypes, Zenon DEF KeyInv
<1>2. /\ worker # None /\ worker.at = "unenforce" /\ worker \in Requests /\ worker.pu \in PUs
      /\ contextTracker[worker.pu] \in Seq(Keys)
      /\ UNCHANGED <<contextTracker, puTracker, current, moved>>
  BY AtFacts, Zenon DEF Unenforce, tracker
<1>3. CASE worker' = None
  <2>1. SlicesOK'
    BY <1>2, <1>3, Zenon DEF KeyInv, SlicesOK
  <2>2. KeysOK'
    BY <1>2, <1>3, CalmStep, Zenon
  <2> QED  BY <1>1, <2>1, <2>2, Zenon DEF KeyInv
<1>4. CASE Goto("remove", contextTracker[worker.pu])
  <2>1. PICK s \in Seq(Keys), p \in PUs : s = contextTracker[worker.pu] /\ p = worker.pu
    BY <1>2, Zenon
  <2>2. worker' # None /\ worker'.at = "remove" /\ worker'.todo = s /\ worker'.pu = p
    BY <1>2, <1>4, <2>1, GotoFacts, Zenon
  <2>3. SlicesOK'
    <3>1. \A r \in PUs : contextTracker[r] \in Slices[r] \cup {<<>>}
      BY Zenon DEF KeyInv, SlicesOK
    <3>2. Range(s) \subseteq KeysOf(p)
      BY <2>1, <3>1, EmptyRange, Zenon DEF KeysOf
    <3> QED  BY <1>2, <2>2, <3>1, <3>2, Zenon DEF SlicesOK
  <2>4. ASSUME NEW k \in Keys, puTracker[k] # None PROVE KeyOK(k, puTracker[k].pu, puTracker[k].pol)'
    <3>1. KeyOK(k, puTracker[k].pu, puTracker[k].pol)
      BY <2>4, Zenon DEF KeyInv, KeysOK
    <3>2. \A r : ~ Is("write", r) /\ ~ Is("write", r)' /\ (Is("remove", r)' => r = p)
      BY <1>2, <2>2, Zenon DEF Is
    <3> QED  BY <1>2, <2>1, <2>2, <3>1, <3>2, Zenon DEF KeyOK
  <2> QED  BY <1>1, <1>2, <2>3, <2>4, Zenon DEF KeyInv, KeysOK
<1> QED  BY <1>3, <1>4, Zenon DEF Unenforce, Done

(* One key is removed: with the last one, none of the PU is left. *)
LEMMA RemoveKeyStep ==
    ASSUME KeyInv, RemoveKey
    PROVE  KeyInv'
<1>1. Tables' /\ WorkerOK'
  BY ControllerTypes, Zenon DEF KeyInv
<1>2. /\ worker # None /\ worker.at = "remove" /\ worker \in Requests /\ worker.pu \in PUs
      /\ worker.todo \in Seq(Keys)
  BY AtFacts, Zenon DEF RemoveKey
<1>3. worker.todo # <<>> /\ Range(worker.todo) \subseteq KeysOf(worker.pu)
  BY <1>2, Zenon DEF KeyInv, WorkerOK, SlicesOK
<1>4. PICK h \in Keys, p \in PUs : h = Head(worker.todo) /\ p = worker.pu
  <2>1. Head(worker.todo) \in Keys
    BY <1>2, <1>3, HeadTailFacts
  <2> QED  BY <1>2, <2>1, Zenon
<1>5. /\ Range(Tail(worker.todo)) \subseteq Range(worker.todo)
      /\ \A k \in Range(worker.todo) : k = h \/ k \in Range(Tail(worker.todo))
      /\ ~ (Len(worker.todo) > 1) => \A k \in Range(worker.todo) : k = h
  BY <1>2, <1>3, <1>4, RangeFacts, Zenon
<1>6. moved' = moved /\ puTracker' = [puTracker EXCEPT ![h] = None]
  BY <1>4, Zenon DEF RemoveKey
<1>7. puTracker'[h] = None /\ \A k \in Keys : k # h => puTracker'[k] = puTracker[k]
  BY <1>6 DEF KeyInv, Tables
(* What is still there. *)
<1>8. ASSUME NEW k \in Keys, puTracker'[k] # None,
             NEW r, r = puTracker'[k].pu, NEW pl, pl = puTracker'[k].pol
      PROVE  /\ r \in PUs /\ k # h
             /\ \/ r \in moved
                \/ /\ k \in Range(contextTracker[r]) /\ pl = current[r]
                   /\ r = p => k \in Range(worker.todo)
  <2>1. k # h /\ puTracker'[k] = puTracker[k]
    BY <1>7, <1>8, Zenon
  <2>2. r \in PUs /\ KeyOK(k, r, pl)
    BY <1>8, <2>1, ContextFacts, Zenon DEF KeyInv, KeysOK
  <2>3. ~ Is("write", r) /\ (r = p => Is("remove", r))
    BY <1>2, <1>4, Zenon DEF Is
  <2> QED  BY <2>1, <2>2, <2>3, Zenon DEF KeyOK
<1>9. \A r \in PUs : contextTracker[r] \in Slices[r] \cup {<<>>}
  BY Zenon DEF KeyInv, SlicesOK
<1>10. CASE Len(worker.todo) > 1
  <2>1. Goto("remove", Tail(worker.todo)) /\ UNCHANGED <<contextTracker, current>>
    BY <1>10, Zenon DEF RemoveKey
  <2>2. Tail(worker.todo) \in Seq(Keys)
    BY <1>2, <1>3, HeadTailFacts
  <2>3. worker' # None /\ worker'.at = "remove" /\ worker'.todo = Tail(worker.todo) /\ worker'.pu = p
    BY <1>2, <1>4, <2>1, <2>2, GotoFacts, Zenon
  <2>4. SlicesOK'
    <3>1. Range(worker'.todo) \subseteq KeysOf(worker'.pu)
      BY <1>3, <1>4, <1>5, <2>3, Zenon
    <3> QED  BY <1>9, <2>1, <2>3, <3>1, Zenon DEF SlicesOK
  <2>5. ASSUME NEW k \in Keys, puTracker'[k] # None,
               NEW r, r = puTracker'[k].pu, NEW pl, pl = puTracker'[k].pol
        PROVE  KeyOK(k, r, pl)'
    <3>1. /\ r \in PUs /\ k # h
          /\ \/ r \in moved
             \/ /\ k \in Range(contextTracker[r]) /\ pl = current[r]
                /\ r = p => k \in Range(worker.todo)
      BY <1>8, <2>5, Zenon
    <3>2. ~ Is("write", r)' /\ (Is("remove", r)' => r = p)
      BY <2>3, Zenon DEF Is
    <3>3. k \in Range(worker.todo) => k \in Range(worker'.todo)
      BY <1>5, <2>3, <3>1, Zenon
    <3> QED  BY <1>6, <2>1, <3>1, <3>2, <3>3, Zenon DEF KeyOK
  <2> QED  BY <1>1, <2>4, <2>5, Zenon DEF KeyInv, KeysOK
<1>11. CASE ~ (Len(worker.todo) > 1)
  <2>1. /\ contextTracker' = [contextTracker EXCEPT ![p] = <<>>]
        /\ current' = [current EXCEPT ![p] = None] /\ worker' = None
    BY <1>4, <1>11, Zenon DEF RemoveKey, Done
  <2>2. /\ contextTracker'[p] = <<>>
        /\ \A r \in PUs : r # p => contextTracker'[r] = contextTracker[r] /\ current'[r] = current[r]
    BY <2>1 DEF KeyInv, Tables
  <2>3. SlicesOK'
    <3>1. \A r \in PUs : contextTracker'[r] \in Slices[r] \cup {<<>>}
      BY <1>9, <2>2, Zenon
    <3> QED  BY <2>1, <3>1, Zenon DEF SlicesOK
  <2>4. ASSUME NEW k \in Keys, puTracker'[k] # None,
               NEW r, r = puTracker'[k].pu, NEW pl, pl = puTracker'[k].pol
        PROVE  KeyOK(k, r, pl)'
    <3>1. /\ r \in PUs /\ k # h
          /\ \/ r \in moved
             \/ /\ k \in Range(contextTracker[r]) /\ pl = current[r]
                /\ r = p => k \in Range(worker.todo)
      BY <1>8, <2>4, Zenon
    <3>2. r \in moved \/ r # p
      BY <1>5, <1>11, <3>1, Zenon
    <3>3. ~ Is("write", r)' /\ ~ Is("remove", r)'
      BY <2>1, Zenon DEF Is
    <3> QED  BY <1>6, <2>2, <3>1, <3>2, <3>3, Zenon DEF KeyOK
  <2> QED  BY <1>1, <2>3, <2>4, Zenon DEF KeyInv, KeysOK
<1> QED  BY <1>10, <1>11

(* The supervisor and the queues leave the keys alone. *)
LEMMA SuperviseKeys ==
    ASSUME KeyInv, Supervise \/ Unsupervise
    PROVE  KeyInv'
<1>1. /\ worker # None /\ worker.at \in {"supervise", "unsupervise"} /\ worker \in Requests
      /\ worker.pu \in PUs /\ worker.slice \in Seq(Keys)
  BY AtFacts, Zenon DEF Supervise, Unsupervise
<1>2. UNCHANGED <<contextTracker, puTracker, current, moved, dead>>
  BY Zenon DEF Supervise, Unsupervise, tracker
<1>3. <<>> \in Seq(Keys)
  OBVIOUS
<1>4. CASE Goto("unenforce", <<>>) /\ rules' = [rules EXCEPT ![worker.pu] = <<>>]
  <2>1. worker' # None /\ worker'.at = "unenforce"
    BY <1>1, <1>3, <1>4, GotoFacts, Zenon
  <2>2. worker' \in Requests /\ WorkerOK'
    BY <1>1, <1>3, <1>4, Zenon DEF Goto, Requests, WorkerOK
  <2>3. rules' \in [PUs -> Seq(Keys)]
    BY <1>3, <1>4, Zenon DEF KeyInv, Tables
  <2>4. Tables'
    BY <1>2, <2>2, <2>3, Zenon DEF KeyInv, Tables
  <2>5. SlicesOK'
    BY <1>2, <2>1, Zenon DEF KeyInv, SlicesOK
  <2>6. KeysOK'
    BY <1>1, <1>2, <2>1, CalmStep, Zenon
  <2> QED  BY <2>2, <2>4, <2>5, <2>6, Zenon DEF KeyInv
<1>5. CASE worker' = None /\ rules' = [rules EXCEPT ![worker.pu] = worker.slice]
  <2>1. rules' \in [PUs -> Seq(Keys)]
    BY <1>1, <1>5 DEF KeyInv, Tables
  <2>2. Tables' /\ WorkerOK'
    BY <1>2, <1>5, <2>1, Zenon DEF KeyInv, Tables, WorkerOK
  <2>3. SlicesOK'
    BY <1>2, <1>5, Zenon DEF KeyInv, SlicesOK
  <2>4. KeysOK'
    BY <1>1, <1>2, <1>5, CalmStep, Zenon
  <2> QED  BY <2>2, <2>3, <2>4, Zenon DEF KeyInv
<1> QED  BY <1>4, <1>5, Zenon DEF Supervise, Unsupervise, Release, Done

LEMMA QueueKeys ==
    ASSUME KeyInv, UNCHANGED <<tracker, rules, current, moved, worker>>, dead' \in BOOLEAN
    PROVE  KeyInv'
<1>1. UNCHANGED <<contextTracker, puTracker>>
  BY Zenon DEF tracker
<1>2. Tables' /\ WorkerOK' /\ SlicesOK'
  BY <1>1, Zenon DEF KeyInv, Tables, WorkerOK, SlicesOK
<1>3. KeysOK'
  BY <1>1, Zenon DEF KeyInv, KeysOK, KeyOK, Is
<1> QED  BY <1>2, <1>3, Zenon DEF KeyInv

LEMMA QueueStep ==
    ASSUME KeyInv,
           \/ \E q \in Queues, p \in PUs : Arrive(q, p)
           \/ \E q \in Queues : Receive(q) \/ Lookup(q) \/ SetVerdict(q)
    PROVE  UNCHANGED <<tracker, rules, current, moved, worker>> /\ dead' \in BOOLEAN
<1>1. dead \in BOOLEAN
  BY Zenon DEF KeyInv, Tables
<1> QED  BY <1>1, Zenon DEF Arrive, Receive, Lookup, SetVerdict

LEMMA InitKeys == Init => KeyInv
<1> SUFFICES ASSUME Init PROVE KeyInv
  OBVIOUS
<1>1. Tables /\ WorkerOK
  BY InitInv, Zenon DEF Inv, TypeOK, Tables
<1>2. worker = None /\ \A k \in Keys : puTracker[k] = None
  BY DEF Init
<1>3. \A p \in PUs : contextTracker[p] = <<>>
  BY DEF Init
<1> QED  BY <1>1, <1>2, <1>3, Zenon DEF KeyInv, SlicesOK, KeysOK

LEMMA NextKeys == KeyInv /\ [Next]_vars => KeyInv'
<1> SUFFICES ASSUME KeyInv, [Next]_vars PROVE KeyInv'
  OBVIOUS
<1>1. CASE UNCHANGED vars
  <2>1. dead' \in BOOLEAN
    BY <1>1, Zenon DEF vars, KeyInv, Tables
  <2> QED  BY <1>1, <2>1, QueueKeys, Zenon DEF vars
<1>2. CASE \/ \E q \in Queues, p \in PUs : Arrive(q, p)
           \/ \E q \in Queues : Receive(q) \/ Lookup(q) \/ SetVerdict(q)
  BY <1>2, QueueStep, QueueKeys, Zenon
<1>3. CASE Next
  BY <1>2, <1>3, RequestStep, EnforceStep, WriteKeyStep, UnenforceStep, RemoveKeyStep, SuperviseKeys,
     Zenon DEF Next
<1> QED  BY <1>1, <1>3, Zenon

(* Nothing is left of a PU that is gone, for any PUs, keys and slices, shared ones
   included: Unenforce removes every key that Enforce wrote (datapath.go:276). *)
THEOREM NoStaleKeysAlways == Spec => []NoStaleKeys
<1>1. KeyInv => NoStaleKeys
  BY Zenon DEF KeyInv, KeysOK, KeyOK, NoStaleKeys
<1> QED  BY <1>1, InitKeys, NextKeys, PTL DEF Spec

-----------------------------------------------------------------------------
(* THE PACKETS.  The key of a packet that waits leads to its PU, from Arrive to
   Lookup, whatever the controller does meanwhile.                            *)

Lines ==
    /\ kernel \in [Queues -> Seq(Packets)] /\ channel \in [Queues -> Seq(Packets)]
    /\ busy \in [Queues -> Judged \cup {None}]

Has(p, k) == k \in KeysOf(p) /\ puTracker[k] # None /\ puTracker[k].pu = p
Leaves(p) == Is("unenforce", p) \/ Is("remove", p)
Live(p, k) == Has(p, k) /\ ~ Leaves(p)

(* The keys that the rules of a PU queue packets for are all there. *)
RulesOK == \A p \in PUs : \A k \in Range(rules[p]) : Live(p, k)

PacketOK(x) == x.late \/ Live(x.pu, x.key)
LineOK(s) == \A x \in Range(s) : PacketOK(x)
LinesOK == \A q \in Queues : LineOK(kernel[q]) /\ LineOK(channel[q])

(* The worker has written the keys that it does not have to write any more. *)
WrittenOK ==
    worker # None =>
        /\ worker.at = "write" =>
              \A k \in Range(worker.slice) \ Range(worker.todo) : Has(worker.pu, k)
        /\ worker.at = "supervise" => \A k \in Range(worker.slice) : Has(worker.pu, k)

PacketInv == KeyInv /\ Lines /\ RulesOK /\ LinesOK /\ WrittenOK

LEMMA PacketFacts ==
    ASSUME NEW s \in Seq(Packets), NEW x \in Range(s)
    PROVE  x \in Packets /\ x.pu \in PUs /\ x.key \in Keys
<1>1. x \in Packets
  BY DEF Range
<1> QED  BY <1>1, Zenon DEF Packets

(* A step that keeps what is live, and neither queues a packet nor adds a rule. *)
LEMMA LiveStep ==
    ASSUME PacketInv, UNCHANGED <<rules, kernel, channel>>,
           \A p \in PUs, k \in Keys : Live(p, k) => Live(p, k)'
    PROVE  RulesOK' /\ LinesOK'
<1>1. RulesOK'
  <2>1. ASSUME NEW p \in PUs, NEW k \in Range(rules[p]) PROVE Live(p, k)'
    <3>1. rules[p] \in Seq(Keys)
      BY Zenon DEF PacketInv, KeyInv, Tables
    <3>2. k \in Keys
      BY <3>1 DEF Range
    <3> QED  BY <3>2, Zenon DEF PacketInv, RulesOK
  <2> QED  BY <2>1, Zenon DEF RulesOK
<1>2. ASSUME NEW s \in Seq(Packets), LineOK(s) PROVE LineOK(s)'
  <2>1. ASSUME NEW x \in Range(s) PROVE PacketOK(x)'
    <3>1. x.pu \in PUs /\ x.key \in Keys
      BY PacketFacts
    <3> QED  BY <1>2, <3>1, Zenon DEF LineOK, PacketOK
  <2> QED  BY <2>1, Zenon DEF LineOK
<1>3. ASSUME NEW q \in Queues PROVE LineOK(kernel[q])' /\ LineOK(channel[q])'
  <2>1. kernel[q] \in Seq(Packets) /\ channel[q] \in Seq(Packets)
    BY Zenon DEF PacketInv, Lines
  <2>2. PICK s \in Seq(Packets), t \in Seq(Packets) : s = kernel[q] /\ t = channel[q]
    BY <2>1, Zenon
  <2>3. LineOK(s)' /\ LineOK(t)'
    BY <1>2, <2>2, Zenon DEF PacketInv, LinesOK
  <2> QED  BY <2>2, <2>3, Zenon
<1> QED  BY <1>1, <1>3, Zenon DEF LinesOK

LEMMA QuietLines ==
    ASSUME Lines, UNCHANGED queues
    PROVE  Lines' /\ UNCHANGED <<kernel, channel>>
BY Zenon DEF Lines, queues

(* Apply, Delete, Enforce, Unenforce: no key is written or removed, and no PU
   begins to leave. *)
LEMMA RequestPackets ==
    ASSUME PacketInv,
           \/ \E p \in PUs : \E pol \in Policies, s \in Slices[p] : Apply(p, pol, s)
           \/ \E p \in PUs : Delete(p)
           \/ Enforce \/ Unenforce
    PROVE  PacketInv'
<1>1. KeyInv'
  BY RequestStep, EnforceStep, UnenforceStep, Zenon DEF PacketInv
<1>2. UNCHANGED <<queues, rules, puTracker>>
  BY Zenon DEF Apply, Delete, Enforce, Unenforce, tracker
<1>3. Lines' /\ UNCHANGED <<kernel, channel>>
  BY <1>2, QuietLines, Zenon DEF PacketInv
<1>4. /\ \A p \in PUs : Leaves(p)' => Leaves(p)
      /\ WrittenOK'
  <2>1. ASSUME NEW p \in PUs, NEW pol \in Policies, NEW s \in Slices[p], Apply(p, pol, s)
        PROVE  worker'.at = "enforce"
    BY <2>1 DEF Apply
  <2>2. ASSUME NEW p \in PUs, Delete(p) PROVE worker'.at = "unsupervise"
    BY <2>2 DEF Delete
  <2>3. CASE Enforce
    <3>1. worker # None /\ worker.at = "enforce" /\ worker \in Requests /\ worker.slice \in Seq(Keys)
      BY <2>3, AtFacts, Zenon DEF Enforce, PacketInv
    <3>2. worker' = worker \/ worker' = None \/ Goto("write", worker.slice)
      BY <2>3, Zenon DEF Enforce, Done
    <3>3. Goto("write", worker.slice) =>
              worker'.at = "write" /\ worker'.slice = worker.slice /\ worker'.todo = worker.slice
      BY <3>1, GotoFacts, Zenon
    <3>4. Range(worker.slice) \ Range(worker.slice) = {}
      OBVIOUS
    <3> QED  BY <3>1, <3>2, <3>3, <3>4, Zenon DEF WrittenOK, Leaves, Is
  <2>4. CASE Unenforce
    <3>1. /\ worker # None /\ worker.at = "unenforce" /\ worker \in Requests
          /\ contextTracker[worker.pu] \in Seq(Keys)
      BY <2>4, AtFacts, Zenon DEF Unenforce, PacketInv
    <3>2. worker' = None \/ Goto("remove", contextTracker[worker.pu])
      BY <2>4, Zenon DEF Unenforce, Done
    <3>3. worker' = None \/ (worker'.at = "remove" /\ worker'.pu = worker.pu)
      BY <3>1, <3>2, GotoFacts, Zenon
    <3> QED  BY <3>1, <3>3, Zenon DEF WrittenOK, Leaves, Is
  <2> QED  BY <2>1, <2>2, <2>3, <2>4, Zenon DEF WrittenOK, Leaves, Is
<1>5. \A p \in PUs, k \in Keys : Live(p, k) => Live(p, k)'
  BY <1>2, <1>4, Zenon DEF Live, Has
<1>6. RulesOK' /\ LinesOK'
  BY <1>2, <1>3, <1>5, LiveStep, Zenon
<1> QED  BY <1>1, <1>3, <1>4, <1>6, Zenon DEF PacketInv

(* A key that is written, or removed, is a key of no other PU. *)
LEMMA OwnKey ==
    ASSUME KeysAreOwn, NEW p \in PUs, NEW r \in PUs, NEW k, k \in KeysOf(p), k \in KeysOf(r)
    PROVE  p = r
BY Zenon DEF KeysAreOwn

LEMMA WriteKeyPackets ==
    ASSUME KeysAreOwn, PacketInv, WriteKey
    PROVE  PacketInv'
<1>1. KeyInv'
  BY WriteKeyStep, Zenon DEF PacketInv
<1>2. /\ worker # None /\ worker.at = "write" /\ worker \in Requests /\ worker.pu \in PUs
      /\ worker.todo \in Seq(Keys) /\ worker.slice \in Seq(Keys)
  BY AtFacts, Zenon DEF WriteKey, PacketInv
<1>3. /\ worker.todo # <<>> /\ worker.slice \in Slices[worker.pu] /\ worker.pol \in Policies
      /\ Range(worker.todo) \subseteq Range(worker.slice)
  BY <1>2, Zenon DEF PacketInv, KeyInv, WorkerOK, SlicesOK
<1>4. PICK h \in Keys, p \in PUs, pol \in Policies :
          h = Head(worker.todo) /\ p = worker.pu /\ pol = worker.pol
  <2>1. Head(worker.todo) \in Keys
    BY <1>2, <1>3, HeadTailFacts
  <2> QED  BY <1>2, <1>3, <2>1, Zenon
<1>5. /\ h \in Range(worker.todo)
      /\ \A k \in Range(worker.todo) : k = h \/ k \in Range(Tail(worker.todo))
      /\ ~ (Len(worker.todo) > 1) => \A k \in Range(worker.todo) : k = h
  BY <1>2, <1>3, <1>4, RangeFacts, Zenon
<1>6. Range(worker.slice) \subseteq KeysOf(p)
  BY <1>3, <1>4, Zenon DEF KeysOf
<1>7. UNCHANGED <<queues, rules>> /\ puTracker' = [puTracker EXCEPT ![h] = Context(p, pol)]
  BY <1>4, Zenon DEF WriteKey
<1>8. Lines' /\ UNCHANGED <<kernel, channel>>
  BY <1>7, QuietLines, Zenon DEF PacketInv
<1>9. Context(p, pol) # None /\ Context(p, pol).pu = p
  <2>1. Context(p, pol) \in Contexts /\ Context(p, pol).pu = p
    BY DEF Context, Contexts
  <2> QED  BY <2>1, NoneAssumption, Zenon
<1>10. puTracker'[h] = Context(p, pol) /\ \A k \in Keys : k # h => puTracker'[k] = puTracker[k]
  BY <1>7 DEF PacketInv, KeyInv, Tables
<1>11. Has(p, h)'
  <2>1. h \in KeysOf(p)
    BY <1>3, <1>5, <1>6, Zenon
  <2> QED  BY <1>9, <1>10, <2>1, Zenon DEF Has
<1>12. ASSUME NEW r \in PUs, NEW k \in Keys, Has(r, k) PROVE Has(r, k)'
  <2>1. CASE k = h
    <3>1. r = p
      BY <1>3, <1>5, <1>6, <1>12, <2>1, OwnKey, Zenon DEF Has
    <3> QED  BY <1>11, <2>1, <3>1, Zenon
  <2>2. CASE k # h
    BY <1>10, <1>12, <2>2, Zenon DEF Has
  <2> QED  BY <2>1, <2>2
<1>13. \A k \in Range(worker.slice) : k \in Keys
  BY <1>2 DEF Range
<1>14. ASSUME NEW k \in Range(worker.slice), k = h \/ k \notin Range(worker.todo)
       PROVE  Has(p, k)'
  <2>1. k \notin Range(worker.todo) => Has(p, k)
    BY <1>2, <1>4, Zenon DEF PacketInv, WrittenOK
  <2> QED  BY <1>11, <1>12, <1>13, <1>14, <2>1, Zenon
<1>15. (\A r \in PUs : ~ Leaves(r)') /\ WrittenOK'
  <2>1. CASE Len(worker.todo) > 1
    <3>1. Tail(worker.todo) \in Seq(Keys) /\ Goto("write", Tail(worker.todo))
      BY <1>2, <1>3, <2>1, HeadTailFacts, Zenon DEF WriteKey
    <3>2. /\ worker'.at = "write" /\ worker'.todo = Tail(worker.todo)
          /\ worker'.pu = p /\ worker'.slice = worker.slice
      BY <1>2, <1>4, <3>1, GotoFacts, Zenon
    <3>3. ASSUME NEW k \in Range(worker'.slice) \ Range(worker'.todo) PROVE Has(worker.pu, k)'
      <4>1. k \in Range(worker.slice) /\ (k = h \/ k \notin Range(worker.todo))
        BY <1>5, <3>2, <3>3, Zenon
      <4>2. Has(p, k)'
        BY <1>14, <4>1, Zenon
      <4> QED  BY <3>2, <4>2, Zenon
    <3> QED  BY <3>2, <3>3, Zenon DEF WrittenOK, Leaves, Is
  <2>2. CASE ~ (Len(worker.todo) > 1)
    <3>1. <<>> \in Seq(Keys) /\ Goto("supervise", <<>>)
      BY <2>2 DEF WriteKey
    <3>2. worker'.at = "supervise" /\ worker'.pu = p /\ worker'.slice = worker.slice
      BY <1>2, <1>4, <3>1, GotoFacts, Zenon
    <3>3. ASSUME NEW k \in Range(worker'.slice) PROVE Has(worker.pu, k)'
      <4>1. k \in Range(worker.slice) /\ (k = h \/ k \notin Range(worker.todo))
        BY <1>5, <2>2, <3>2, <3>3, Zenon
      <4>2. Has(p, k)'
        BY <1>14, <4>1, Zenon
      <4> QED  BY <3>2, <4>2, Zenon
    <3> QED  BY <3>2, <3>3, Zenon DEF WrittenOK, Leaves, Is
  <2> QED  BY <2>1, <2>2
<1>16. \A r \in PUs, k \in Keys : Live(r, k) => Live(r, k)'
  BY <1>12, <1>15, Zenon DEF Live
<1>17. RulesOK' /\ LinesOK'
  BY <1>7, <1>8, <1>16, LiveStep, Zenon
<1> QED  BY <1>1, <1>8, <1>15, <1>17, Zenon DEF PacketInv

LEMMA RemoveKeyPackets ==
    ASSUME KeysAreOwn, PacketInv, RemoveKey
    PROVE  PacketInv'
<1>1. KeyInv'
  BY RemoveKeyStep, Zenon DEF PacketInv
<1>2. /\ worker # None /\ worker.at = "remove" /\ worker \in Requests /\ worker.pu \in PUs
      /\ worker.todo \in Seq(Keys)
  BY AtFacts, Zenon DEF RemoveKey, PacketInv
<1>3. worker.todo # <<>> /\ Range(worker.todo) \subseteq KeysOf(worker.pu)
  BY <1>2, Zenon DEF PacketInv, KeyInv, WorkerOK, SlicesOK
<1>4. PICK h \in Keys, p \in PUs : h = Head(worker.todo) /\ p = worker.pu
  <2>1. Head(worker.todo) \in Keys
    BY <1>2, <1>3, HeadTailFacts
  <2> QED  BY <1>2, <2>1, Zenon
<1>5. h \in KeysOf(p)
  BY <1>2, <1>3, <1>4, RangeFacts, Zenon
<1>6. UNCHANGED <<queues, rules>> /\ puTracker' = [puTracker EXCEPT ![h] = None]
  BY <1>4, Zenon DEF RemoveKey
<1>7. Lines' /\ UNCHANGED <<kernel, channel>>
  BY <1>6, QuietLines, Zenon DEF PacketInv
<1>8. \A k \in Keys : k # h => puTracker'[k] = puTracker[k]
  BY <1>6 DEF PacketInv, KeyInv, Tables
<1>9. (\A r \in PUs : Leaves(r)' => r = p) /\ WrittenOK'
  <2>1. CASE Len(worker.todo) > 1
    <3>1. Tail(worker.todo) \in Seq(Keys) /\ Goto("remove", Tail(worker.todo))
      BY <1>2, <1>3, <2>1, HeadTailFacts, Zenon DEF RemoveKey
    <3>2. worker'.at = "remove" /\ worker'.pu = p
      BY <1>2, <1>4, <3>1, GotoFacts, Zenon
    <3> QED  BY <3>2, Zenon DEF WrittenOK, Leaves, Is
  <2>2. CASE ~ (Len(worker.todo) > 1)
    BY <2>2, Zenon DEF RemoveKey, Done, WrittenOK, Leaves, Is
  <2> QED  BY <2>1, <2>2
<1>10. ASSUME NEW r \in PUs, NEW k \in Keys, Live(r, k) PROVE Live(r, k)'
  <2>1. r # p /\ k \in KeysOf(r)
    BY <1>2, <1>4, <1>10, Zenon DEF Live, Has, Leaves, Is
  <2>2. k # h
    BY <1>5, <2>1, OwnKey, Zenon
  <2> QED  BY <1>8, <1>9, <1>10, <2>1, <2>2, Zenon DEF Live, Has
<1>11. RulesOK' /\ LinesOK'
  BY <1>6, <1>7, <1>10, LiveStep, Zenon
<1> QED  BY <1>1, <1>7, <1>9, <1>11, Zenon DEF PacketInv

(* The rules of a PU are installed when all its keys are there, and when they are
   gone every packet that still waits is late. *)
LEMMA SupervisePackets ==
    ASSUME PacketInv, Supervise \/ Unsupervise
    PROVE  PacketInv'
<1>1. KeyInv' /\ UNCHANGED puTracker
  BY SuperviseKeys, Zenon DEF PacketInv, Supervise, Unsupervise, tracker
<1>2. /\ worker # None /\ worker.at \in {"supervise", "unsupervise"} /\ worker \in Requests
      /\ worker.pu \in PUs
  BY AtFacts, Zenon DEF Supervise, Unsupervise, PacketInv
<1>3. PICK p \in PUs : p = worker.pu
  BY <1>2, Zenon
<1>4. rules \in [PUs -> Seq(Keys)]
  BY Zenon DEF PacketInv, KeyInv, Tables
<1>5. \A r, k : Has(r, k)' <=> Has(r, k)
  BY <1>1, Zenon DEF Has
<1>6. CASE /\ At("supervise") /\ UNCHANGED queues /\ worker' = None
           /\ rules' = [rules EXCEPT ![worker.pu] = worker.slice]
  <2>1. Lines' /\ UNCHANGED <<kernel, channel>>
    BY <1>6, QuietLines, Zenon DEF PacketInv
  <2>2. WrittenOK' /\ \A r, k : Has(r, k) => Live(r, k)'
    BY <1>5, <1>6, Zenon DEF WrittenOK, Live, Leaves, Is
  <2>3. RulesOK'
    <3>1. rules'[p] = worker.slice /\ \A r \in PUs : r # p => rules'[r] = rules[r]
      BY <1>3, <1>4, <1>6
    <3>2. \A k \in Range(worker.slice) : Has(p, k)
      BY <1>3, <1>6, Zenon DEF At, PacketInv, WrittenOK
    <3>3. ASSUME NEW r \in PUs, NEW k \in Range(rules'[r]) PROVE Has(r, k)
      BY <3>1, <3>2, <3>3, Zenon DEF PacketInv, RulesOK, Live
    <3> QED  BY <2>2, <3>3, Zenon DEF RulesOK
  <2>4. ASSUME NEW s, LineOK(s) PROVE LineOK(s)'
    BY <2>2, <2>4, Zenon DEF LineOK, PacketOK, Live
  <2>5. LinesOK'
    BY <2>1, <2>4, Zenon DEF PacketInv, LinesOK
  <2> QED  BY <1>1, <2>1, <2>2, <2>3, <2>5, Zenon DEF PacketInv
<1>7. CASE Release(worker.pu) /\ Goto("unenforce", <<>>)
  <2>1. /\ rules' = [rules EXCEPT ![p] = <<>>] /\ UNCHANGED busy
        /\ kernel' = [q \in Queues |-> Delayed(p, kernel[q])]
        /\ channel' = [q \in Queues |-> Delayed(p, channel[q])]
    BY <1>3, <1>7, Zenon DEF Release, Delayed
  <2>2. \A q \in Queues : kernel[q] \in Seq(Packets) /\ channel[q] \in Seq(Packets)
    BY Zenon DEF PacketInv, Lines
  <2>3. Lines'
    <3>1. kernel' \in [Queues -> Seq(Packets)] /\ channel' \in [Queues -> Seq(Packets)]
      BY DelayedFacts, <2>1, <2>2
    <3> QED  BY <2>1, <3>1, Zenon DEF PacketInv, Lines
  <2>4. <<>> \in Seq(Keys)
    OBVIOUS
  <2>5. worker'.at = "unenforce" /\ worker'.pu = p
    BY <1>2, <1>3, <1>7, <2>4, GotoFacts, Zenon
  <2>6. WrittenOK' /\ \A r : Leaves(r)' => r = p
    BY <2>5, Zenon DEF WrittenOK, Leaves, Is
  <2>7. RulesOK'
    <3>1. rules'[p] = <<>> /\ \A r \in PUs : r # p => rules'[r] = rules[r]
      BY <1>4, <2>1
    <3>2. ASSUME NEW r \in PUs, NEW k \in Range(rules'[r]) PROVE Live(r, k)'
      <4>1. r # p
        BY <3>1, <3>2, EmptyRange, Zenon
      <4>2. Has(r, k)
        BY <3>1, <3>2, <4>1, Zenon DEF PacketInv, RulesOK, Live
      <4> QED  BY <1>5, <2>6, <4>1, <4>2, Zenon DEF Live
    <3> QED  BY <3>2, Zenon DEF RulesOK
  <2>8. ASSUME NEW s \in Seq(Packets), LineOK(s) PROVE LineOK(Delayed(p, s))'
    <3>1. ASSUME NEW y \in Range(Delayed(p, s)) PROVE PacketOK(y)'
      <4>1. y.late \/ (y.pu # p /\ y \in Range(s))
        BY DelayedFacts, Zenon
      <4>2. y \in Range(s) => y.late \/ Has(y.pu, y.key)
        BY <2>8, Zenon DEF LineOK, PacketOK, Live
      <4> QED  BY <1>5, <2>6, <4>1, <4>2, Zenon DEF PacketOK, Live
    <3> QED  BY <3>1, Zenon DEF LineOK
  <2>9. ASSUME NEW q \in Queues PROVE LineOK(kernel[q])' /\ LineOK(channel[q])'
    <3>1. PICK s \in Seq(Packets), t \in Seq(Packets) : s = kernel[q] /\ t = channel[q]
      BY <2>2, Zenon
    <3>2. kernel'[q] = Delayed(p, s) /\ channel'[q] = Delayed(p, t)
      BY <2>1, <3>1, Zenon
    <3>3. LineOK(Delayed(p, s))' /\ LineOK(Delayed(p, t))'
      BY <2>8, <3>1, Zenon DEF PacketInv, LinesOK
    <3> QED  BY <3>2, <3>3, Zenon DEF LineOK
  <2> QED  BY <1>1, <2>3, <2>6, <2>7, <2>9, Zenon DEF PacketInv, LinesOK
<1> QED  BY <1>6, <1>7, Zenon DEF Supervise, Unsupervise, Done

(* The queues: the controller's tables stay, and a packet only moves. *)
LEMMA AppendRange ==
    ASSUME NEW S, NEW s \in Seq(S), NEW e \in S
    PROVE  \A x \in Range(Append(s, e)) : x = e \/ x \in Range(s)
<1>1. Len(s) \in Nat /\ DOMAIN s = 1 .. Len(s) /\ DOMAIN Append(s, e) = 1 .. (Len(s) + 1)
  OBVIOUS
<1>2. ASSUME NEW i \in DOMAIN Append(s, e) PROVE Append(s, e)[i] = e \/ Append(s, e)[i] \in Range(s)
  <2>1. CASE i = Len(s) + 1
    BY <1>1, <2>1
  <2>2. CASE i # Len(s) + 1
    <3>1. i \in DOMAIN s /\ Append(s, e)[i] = s[i]
      BY <1>1, <2>2
    <3> QED  BY <3>1, Zenon DEF Range
  <2> QED  BY <2>1, <2>2
<1> QED  BY <1>2, Zenon DEF Range

LEMMA LinesMove ==
    ASSUME PacketInv, UNCHANGED <<tracker, rules, current, moved, worker>>, dead' \in BOOLEAN, Lines',
           \A q \in Queues : \A x \in Range(kernel'[q]) \cup Range(channel'[q]) : PacketOK(x)
    PROVE  PacketInv'
<1>1. UNCHANGED <<contextTracker, puTracker>>
  BY Zenon DEF tracker
<1>2. KeyInv'
  BY QueueKeys, Zenon DEF PacketInv
<1>3. \A p, k : (Has(p, k)' <=> Has(p, k)) /\ (Live(p, k)' <=> Live(p, k))
  BY <1>1, Zenon DEF Has, Live, Leaves, Is
<1>4. RulesOK' /\ WrittenOK'
  BY <1>3, Zenon DEF PacketInv, RulesOK, WrittenOK
<1>5. \A x : PacketOK(x)' <=> PacketOK(x)
  BY <1>3, Zenon DEF PacketOK
<1>6. LinesOK'
  BY <1>5, Zenon DEF LinesOK, LineOK
<1> QED  BY <1>2, <1>4, <1>6, Zenon DEF PacketInv

LEMMA LineFacts ==
    ASSUME PacketInv, NEW q \in Queues
    PROVE  /\ kernel[q] \in Seq(Packets) /\ channel[q] \in Seq(Packets)
           /\ \A x \in Range(kernel[q]) \cup Range(channel[q]) : PacketOK(x)
BY Zenon DEF PacketInv, Lines, LinesOK, LineOK

LEMMA ArrivePackets ==
    ASSUME PacketInv, NEW q \in Queues, NEW p \in PUs, Arrive(q, p)
    PROVE  PacketInv'
<1>1. UNCHANGED <<tracker, rules, current, moved, worker>> /\ dead' \in BOOLEAN
  BY QueueStep, Zenon DEF PacketInv
<1>2. PICK k \in KeysFor(q, rules[p]), ok \in BOOLEAN :
          kernel' = [kernel EXCEPT ![q] = Append(@, [pu |-> p, key |-> k, parses |-> ok, late |-> FALSE])]
  BY Zenon DEF Arrive
<1>3. PICK pkt : pkt = [pu |-> p, key |-> k, parses |-> ok, late |-> FALSE]
  BY Zenon
<1>4. k \in Range(rules[p]) /\ rules[p] \in Seq(Keys)
  BY Zenon DEF KeysFor, Range, PacketInv, KeyInv, Tables
<1>5. k \in Keys
  BY <1>4 DEF Range
<1>6. pkt \in Packets /\ pkt.pu = p /\ pkt.key = k
  BY <1>3, <1>5 DEF Packets
<1>7. PacketOK(pkt)
  BY <1>4, <1>6, Zenon DEF PacketOK, PacketInv, RulesOK
<1>8. kernel' = [kernel EXCEPT ![q] = Append(kernel[q], pkt)] /\ UNCHANGED <<channel, busy>>
  BY <1>2, <1>3, Zenon DEF Arrive
<1>9. Append(kernel[q], pkt) \in Seq(Packets)
  BY <1>6, LineFacts, AppendFacts
<1>10. Lines'
  BY <1>8, <1>9 DEF PacketInv, Lines
<1>11. kernel'[q] = Append(kernel[q], pkt) /\ \A r \in Queues : r # q => kernel'[r] = kernel[r]
  BY <1>8 DEF PacketInv, Lines
<1>12. \A x \in Range(Append(kernel[q], pkt)) : x = pkt \/ x \in Range(kernel[q])
  BY <1>6, LineFacts, AppendRange
<1>13. ASSUME NEW r \in Queues, NEW x \in Range(kernel'[r]) \cup Range(channel'[r])
       PROVE  PacketOK(x)
  <2>1. x = pkt \/ x \in Range(kernel[r]) \cup Range(channel[r])
    BY <1>8, <1>11, <1>12, <1>13, Zenon
  <2> QED  BY <1>7, <2>1, LineFacts, Zenon
<1> QED  BY <1>1, <1>10, <1>13, LinesMove, Zenon

LEMMA ReceivePackets ==
    ASSUME PacketInv, NEW q \in Queues, Receive(q)
    PROVE  PacketInv'
<1>1. UNCHANGED <<tracker, rules, current, moved, worker>> /\ dead' \in BOOLEAN
  BY QueueStep, Zenon DEF PacketInv
<1>2. kernel[q] # <<>> /\ kernel' = [kernel EXCEPT ![q] = Tail(kernel[q])] /\ UNCHANGED busy
  BY Zenon DEF Receive
<1>3. PICK pkt : pkt = Head(kernel[q])
  OBVIOUS
<1>4. pkt \in Packets /\ Tail(kernel[q]) \in Seq(Packets)
  BY <1>2, <1>3, LineFacts, HeadTailFacts
<1>5. pkt \in Range(kernel[q]) /\ Range(Tail(kernel[q])) \subseteq Range(kernel[q])
  BY <1>2, <1>3, LineFacts, RangeFacts, Zenon
<1>6. channel' = channel \/ channel' = [channel EXCEPT ![q] = Append(channel[q], pkt)]
  BY <1>3, Zenon DEF Receive
<1>7. Append(channel[q], pkt) \in Seq(Packets)
  BY <1>4, LineFacts, AppendFacts
<1>8. Lines'
  BY <1>2, <1>4, <1>6, <1>7, Zenon DEF PacketInv, Lines
<1>9. kernel'[q] = Tail(kernel[q]) /\ \A r \in Queues : r # q => kernel'[r] = kernel[r]
  BY <1>2 DEF PacketInv, Lines
<1>10. /\ channel'[q] \in {channel[q], Append(channel[q], pkt)}
       /\ \A r \in Queues : r # q => channel'[r] = channel[r]
  BY <1>6 DEF PacketInv, Lines
<1>11. \A x \in Range(Append(channel[q], pkt)) : x = pkt \/ x \in Range(channel[q])
  BY <1>4, LineFacts, AppendRange
<1>12. PacketOK(pkt)
  BY <1>5, LineFacts, Zenon
<1>13. ASSUME NEW r \in Queues, NEW x \in Range(kernel'[r]) \cup Range(channel'[r])
       PROVE  PacketOK(x)
  <2>1. x = pkt \/ x \in Range(kernel[r]) \cup Range(channel[r])
    BY <1>5, <1>9, <1>10, <1>11, <1>13, Zenon
  <2> QED  BY <1>12, <2>1, LineFacts, Zenon
<1> QED  BY <1>1, <1>8, <1>13, LinesMove, Zenon

LEMMA LookupFacts ==
    ASSUME PacketInv, NEW q \in Queues, Lookup(q)
    PROVE  /\ UNCHANGED kernel
           /\ \/ UNCHANGED <<channel, busy>>
              \/ \E x \in Packets, c \in Contexts \cup {None}, h \in Judged :
                    /\ PacketOK(x) /\ c = puTracker[x.key] /\ h = [pkt |-> x, ctx |-> c]
                    /\ Tail(channel[q]) \in Seq(Packets)
                    /\ Range(Tail(channel[q])) \subseteq Range(channel[q])
                    /\ channel' = [channel EXCEPT ![q] = Tail(channel[q])]
                    /\ busy' = [busy EXCEPT ![q] = h]
<1>1. channel[q] # <<>> /\ UNCHANGED kernel
  BY Zenon DEF Lookup
<1>2. PICK x \in Packets : x = Head(channel[q])
  <2>1. Head(channel[q]) \in Packets
    BY <1>1, LineFacts, HeadTailFacts
  <2> QED  BY <2>1, Zenon
<1>3. Tail(channel[q]) \in Seq(Packets)
  BY <1>1, LineFacts, HeadTailFacts
<1>4. x \in Range(channel[q]) /\ Range(Tail(channel[q])) \subseteq Range(channel[q])
  BY <1>1, <1>2, LineFacts, RangeFacts, Zenon
<1>5. PacketOK(x)
  BY <1>4, LineFacts, Zenon
<1>6. PICK c \in Contexts \cup {None} : c = puTracker[x.key]
  <2>1. x.key \in Keys
    BY Zenon DEF Packets
  <2>2. puTracker[x.key] \in Contexts \cup {None}
    BY <2>1, Zenon DEF PacketInv, KeyInv, Tables
  <2> QED  BY <2>2, Zenon
<1>7. PICK h \in Judged : h = [pkt |-> x, ctx |-> c]
  BY Zenon DEF Judged
<1>8. \/ UNCHANGED <<channel, busy>>
      \/ /\ channel' = [channel EXCEPT ![q] = Tail(channel[q])]
         /\ busy' = [busy EXCEPT ![q] = h]
  BY <1>2, <1>6, <1>7, Zenon DEF Lookup
<1> QED  BY <1>1, <1>3, <1>4, <1>5, <1>6, <1>7, <1>8, Zenon

LEMMA LookupPackets ==
    ASSUME PacketInv, NEW q \in Queues, Lookup(q) \/ SetVerdict(q)
    PROVE  PacketInv'
<1>1. UNCHANGED <<tracker, rules, current, moved, worker>> /\ dead' \in BOOLEAN
  BY QueueStep, Zenon DEF PacketInv
<1>2. CASE UNCHANGED <<kernel, channel>> /\ Lines'
  BY <1>1, <1>2, LineFacts, LinesMove, Zenon
<1>3. CASE UNCHANGED <<kernel, channel, busy>>
  BY <1>2, <1>3, Zenon DEF PacketInv, Lines
<1>4. CASE SetVerdict(q)
  <2>1. UNCHANGED <<kernel, channel>> /\ busy' = [busy EXCEPT ![q] = None]
    BY <1>4, Zenon DEF SetVerdict
  <2>2. Lines'
    BY <2>1 DEF PacketInv, Lines
  <2> QED  BY <1>2, <2>1, <2>2, Zenon
<1>5. CASE Lookup(q) /\ ~ UNCHANGED <<kernel, channel, busy>>
  <2>1. PICK h \in Judged :
          /\ UNCHANGED kernel
          /\ Tail(channel[q]) \in Seq(Packets) /\ Range(Tail(channel[q])) \subseteq Range(channel[q])
          /\ channel' = [channel EXCEPT ![q] = Tail(channel[q])] /\ busy' = [busy EXCEPT ![q] = h]
    BY <1>5, LookupFacts, Zenon
  <2>2. Lines'
    BY <2>1 DEF PacketInv, Lines
  <2>3. channel'[q] = Tail(channel[q]) /\ \A r \in Queues : r # q => channel'[r] = channel[r]
    BY <2>1 DEF PacketInv, Lines
  <2>4. ASSUME NEW r \in Queues, NEW x \in Range(kernel'[r]) \cup Range(channel'[r])
        PROVE  PacketOK(x)
    <3>1. x \in Range(kernel[r]) \cup Range(channel[r])
      BY <2>1, <2>3, <2>4, Zenon
    <3> QED  BY <3>1, LineFacts, Zenon
  <2> QED  BY <1>1, <2>2, <2>4, LinesMove, Zenon
<1> QED  BY <1>3, <1>4, <1>5, Zenon

LEMMA InitPackets == Init => PacketInv
<1> SUFFICES ASSUME Init PROVE PacketInv
  OBVIOUS
<1>1. KeyInv /\ Lines
  BY InitKeys, InitInv, Zenon DEF Inv, TypeOK, Lines
<1>2. worker = None /\ \A p \in PUs : Range(rules[p]) = {}
  BY EmptyRange, Zenon DEF Init
<1>3. \A q \in Queues : Range(kernel[q]) = {} /\ Range(channel[q]) = {}
  BY EmptyRange, Zenon DEF Init
<1> QED  BY <1>1, <1>2, <1>3, Zenon DEF PacketInv, RulesOK, LinesOK, LineOK, WrittenOK

LEMMA NextPackets ==
    ASSUME KeysAreOwn
    PROVE  PacketInv /\ [Next]_vars => PacketInv'
<1> SUFFICES ASSUME PacketInv, [Next]_vars PROVE PacketInv'
  OBVIOUS
<1>1. CASE UNCHANGED vars
  <2>1. UNCHANGED <<tracker, rules, current, moved, worker, kernel, channel, busy, dead>>
    BY <1>1, Zenon DEF vars, queues
  <2>2. Lines' /\ dead' \in BOOLEAN
    BY <2>1, Zenon DEF PacketInv, Lines, KeyInv, Tables
  <2> QED  BY <2>1, <2>2, LineFacts, LinesMove, Zenon
<1>2. CASE Next
  BY <1>2, RequestPackets, WriteKeyPackets, RemoveKeyPackets, SupervisePackets, ArrivePackets,
     ReceivePackets, LookupPackets, Zenon DEF Next
<1> QED  BY <1>1, <1>2, Zenon

(* A packet that a goroutine takes up is looked up as JudgedByOwnPolicy says. *)
LEMMA LookupJudges ==
    ASSUME PacketInv, [Next]_vars, NEW r \in Queues, busy[r] = None, busy'[r] # None
    PROVE  OwnPolicy(busy'[r])
<1>1. ~ UNCHANGED busy
  OBVIOUS
<1>2. ASSUME NEW q \in Queues, SetVerdict(q) PROVE busy'[r] \in {busy[r], None}
  BY <1>2 DEF SetVerdict, PacketInv, Lines
<1>3. ~ \E q \in Queues : SetVerdict(q)
  BY <1>2, Zenon
<1>4. PICK q \in Queues : Lookup(q)
  <2>1. UNCHANGED vars \/ Next
    BY Zenon
  <2> QED  BY <1>1, <1>3, <2>1, ZenonT(60) DEF Next, vars, queues, Apply, Delete, Enforce, WriteKey,
              Supervise, Unsupervise, Release, Unenforce, RemoveKey, Arrive, Receive
<1>5. PICK x \in Packets, c \in Contexts \cup {None}, h \in Judged :
          /\ PacketOK(x) /\ c = puTracker[x.key] /\ h = [pkt |-> x, ctx |-> c]
          /\ Tail(channel[q]) \in Seq(Packets)
          /\ Range(Tail(channel[q])) \subseteq Range(channel[q])
          /\ channel' = [channel EXCEPT ![q] = Tail(channel[q])]
          /\ busy' = [busy EXCEPT ![q] = h]
  BY ONLY <1>1, <1>4, PacketInv, LookupFacts, Zenon
<1>6. busy'[r] = h
  BY <1>5 DEF PacketInv, Lines
<1>7. h.pkt = x /\ h.ctx = c
  BY <1>5
<1>8. x.key \in Keys /\ x.pu \in PUs
  BY Zenon DEF Packets
<1>9. CASE ~ x.late
  <2>1. c # None /\ c.pu = x.pu
    BY <1>5, <1>9, Zenon DEF PacketOK, Live, Has
  <2>2. KeyOK(x.key, x.pu, c.pol)
    BY <1>5, <1>8, <2>1, Zenon DEF PacketInv, KeyInv, KeysOK
  <2>3. \/ c.pol = current[x.pu] \/ x.pu \in moved
        \/ worker # None /\ worker.pu = x.pu /\ c.pol = worker.pol
    BY <2>2, Zenon DEF KeyOK, Is
  <2> QED  BY <1>6, <1>7, <2>1, <2>3, Zenon DEF OwnPolicy
<1> QED  BY <1>6, <1>7, <1>9, Zenon DEF OwnPolicy

(* When no key is shared, a packet is judged by the context of its own PU, with
   the policy of the last Enforce or of the one in progress, for any PUs, slices,
   queues and sizes: Enforce writes over the contexts before it, and the rules are
   there only while the keys are (datapath.go:254, trireme.go). *)
THEOREM JudgedByOwnPolicyAlways == KeysAreOwn => (Spec => JudgedByOwnPolicy)
<1> SUFFICES ASSUME KeysAreOwn PROVE Spec => JudgedByOwnPolicy
  OBVIOUS
<1>1. Init => PacketInv
  BY InitPackets
<1>2. PacketInv /\ [Next]_vars => PacketInv'
  BY NextPackets
<1>3. PacketInv /\ [Next]_vars =>
          [\A q \in Queues : busy[q] = None /\ busy'[q] # None => OwnPolicy(busy'[q])]_vars
  BY LookupJudges, Zenon
<1> QED  BY <1>1, <1>2, <1>3, PTL DEF Spec, JudgedByOwnPolicy
=============================================================================
