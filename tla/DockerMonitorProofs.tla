-------------------------- MODULE DockerMonitorProofs --------------------------
(* What the monitor of Docker containers promises of the containers that run and
   of those that have ended, for any containers, any number of changes of them
   and of failures, and any capacity of the channel of events.                *)
EXTENDS DockerMonitor, SequenceTheorems, TLAPS

(* The events on their way, in the order in which they will be handled. *)
Pipe == notifications \o (message \o stream)

StartOf(c) == Event("start", c)
DieOf(c) == Event("die", c)

In(s, e) == \E i \in DOMAIN s : s[i] = e
Pending(c) == In(Pipe, StartOf(c)) \/ In(Pipe, DieOf(c))

(* Every a is followed by a later b. *)
Follows(s, a, b) == \A i \in DOMAIN s : s[i] = a => \E j \in DOMAIN s : j > i /\ s[j] = b

(* The last event of a container that is on its way tells whether it runs. *)
OrderOK(c) ==
    /\ Running(c) => Follows(Pipe, DieOf(c), StartOf(c))
    /\ ~ Running(c) => Follows(Pipe, StartOf(c), DieOf(c))

Handles(k, c) == handler # None /\ handler.ev.kind = k /\ handler.ev.id = c
Answered == req[Me].st = "done"

(* The handler of the last event of a container knows its last run. *)
StartOK(c) ==
    /\ Running(c)
    /\ handler.at \in {"submit", "wait"} => handler.run = run[c]
    /\ handler.at = "wait" => runtime[c] = run[c] /\ (Answered /\ req[Me].ok => force[c] # None)

DieOK(c) == ~ Running(c) /\ (handler.at = "wait" /\ Answered => force[c] = None)

(* The policy of a container is right, or is being put right. *)
PolicyOK(c) ==
    /\ Handles("start", c) => StartOK(c)
    /\ Handles("die", c) => DieOK(c)
    /\ ~ Handles("start", c) /\ ~ Handles("die", c) =>
          (Running(c) => Policed(c)) /\ (~ Running(c) => force[c] = None)

SettledOK(c) == c \in todo \/ Pending(c) \/ PolicyOK(c)

(* A container that has still to be visited is not policed, nor handled. *)
TodoOK(c) == c \in todo => force[c] = None /\ ~ Handles("start", c) /\ ~ Handles("die", c)

Good(c) == TodoOK(c) /\ (c \notin missed => OrderOK(c) /\ SettledOK(c))

PhaseOK ==
    /\ todo # {} => phase \in {"new", "list", "sync"}
    /\ phase \in {"new", "list"} /\ SyncAtStart => todo = Containers
    /\ ~ SyncAtStart => todo = {} /\ phase # "list"

QueuesOK ==
    /\ stream \in Seq(Events) /\ message \in Seq(Events) /\ notifications \in Seq(Events)
    /\ listener # "passing" => message = <<>>
    /\ subscription = "none" => stream = <<>> /\ message = <<>> /\ notifications = <<>>

Daemon ==
    /\ state \in [Containers -> {"none", "created", "running", "paused", "exited", "removed"}]
    /\ run \in [Containers -> Nat]

(* The handler waits for the answer to the request that its event calls for. *)
Calls(k) == CASE k = "start" -> "Start" [] k = "die" -> "Stop" [] OTHER -> "Other"
HandlerOK ==
    /\ handler \in Handlers \cup {None}
    /\ handler # None /\ handler.at \in {"handle", "kill"} => handler.ev.kind = "start"
    /\ IF handler # None /\ handler.at = "wait"
       THEN /\ req[Me].st \in {"pending", "done"}
            /\ req[Me].kind = Calls(handler.ev.kind) /\ req[Me].pu = handler.ev.id
       ELSE req[Me].st = "idle"

Requests == [st : {"idle", "pending", "done"}, kind : {"Start", "Stop", "Other", None},
             pu : Containers \cup {None}, pol : {None}, ok : BOOLEAN]

Control ==
    /\ runtime \in [Containers -> Nat]
    /\ force \in [Containers -> Policies \cup {None}]
    /\ req \in [{Me} -> Requests]

Inv ==
    /\ Daemon /\ Control /\ QueuesOK /\ HandlerOK /\ PhaseOK
    /\ \A c \in Containers : Good(c)

-----------------------------------------------------------------------------
(* SEQUENCES OF EVENTS *)

LEMMA DomainLen ==
    ASSUME NEW s \in Seq(Events)
    PROVE  Len(s) \in Nat /\ DOMAIN s = 1 .. Len(s)
OBVIOUS

LEMMA InConcat ==
    ASSUME NEW s \in Seq(Events), NEW t \in Seq(Events), NEW e
    PROVE  In(s \o t, e) <=> In(s, e) \/ In(t, e)
<1>1. /\ Len(s) \in Nat /\ DOMAIN s = 1 .. Len(s) /\ Len(t) \in Nat /\ DOMAIN t = 1 .. Len(t)
      /\ DOMAIN (s \o t) = 1 .. (Len(s) + Len(t))
      /\ \A i \in 1 .. (Len(s) + Len(t)) :
            (s \o t)[i] = IF i <= Len(s) THEN s[i] ELSE t[i - Len(s)]
  BY DomainLen, ConcatProperties
<1>2. ASSUME In(s \o t, e) PROVE In(s, e) \/ In(t, e)
  <2>1. PICK i \in 1 .. (Len(s) + Len(t)) : (s \o t)[i] = e
    BY <1>1, <1>2, Zenon DEF In
  <2>2. CASE i <= Len(s)
    <3>1. i \in DOMAIN s /\ s[i] = e
      BY <1>1, <2>1, <2>2, SMT
    <3> QED  BY <3>1, Zenon DEF In
  <2>3. CASE ~ (i <= Len(s))
    <3>1. i - Len(s) \in DOMAIN t /\ t[i - Len(s)] = e
      BY <1>1, <2>1, <2>3, SMT
    <3> QED  BY <3>1, Zenon DEF In
  <2> QED  BY <2>2, <2>3
<1>3. ASSUME NEW i \in DOMAIN s, s[i] = e PROVE In(s \o t, e)
  <2>1. i \in DOMAIN (s \o t) /\ (s \o t)[i] = e
    BY <1>1, <1>3, SMT
  <2> QED  BY <2>1, Zenon DEF In
<1>4. ASSUME NEW i \in DOMAIN t, t[i] = e PROVE In(s \o t, e)
  <2>1. i + Len(s) \in DOMAIN (s \o t) /\ (s \o t)[i + Len(s)] = e
    BY <1>1, <1>4, SMT
  <2> QED  BY <2>1, Zenon DEF In
<1> QED  BY <1>2, <1>3, <1>4, Zenon DEF In

LEMMA InOne ==
    ASSUME NEW e, NEW x
    PROVE  In(<<e>>, x) <=> x = e
BY DEF In

(* An event is taken from the front. *)
LEMMA FollowsTail ==
    ASSUME NEW e \in Events, NEW t \in Seq(Events), NEW a, NEW b, Follows(<<e>> \o t, a, b)
    PROVE  Follows(t, a, b) /\ (e = a => In(t, b))
<1>1. /\ Len(t) \in Nat /\ DOMAIN t = 1 .. Len(t) /\ DOMAIN (<<e>> \o t) = 1 .. (1 + Len(t))
      /\ \A i \in 1 .. (1 + Len(t)) : (<<e>> \o t)[i] = IF i <= 1 THEN e ELSE t[i - 1]
  <2>1. <<e>> \in Seq(Events) /\ Len(<<e>>) = 1 /\ <<e>>[1] = e
    OBVIOUS
  <2> QED  BY <2>1, DomainLen, ConcatProperties
<1>2. ASSUME NEW i \in 1 .. (1 + Len(t)), (<<e>> \o t)[i] = a
      PROVE  \E j \in 1 .. (1 + Len(t)) : j > i /\ (<<e>> \o t)[j] = b
  BY <1>1, <1>2, Zenon DEF Follows
<1>3. ASSUME NEW j \in 1 .. (1 + Len(t)), j > 1, (<<e>> \o t)[j] = b
      PROVE  j - 1 \in DOMAIN t /\ t[j - 1] = b
  BY <1>1, <1>3, SMT
<1>4. ASSUME NEW i \in DOMAIN t, t[i] = a PROVE \E j \in DOMAIN t : j > i /\ t[j] = b
  <2>1. i + 1 \in 1 .. (1 + Len(t)) /\ (<<e>> \o t)[i + 1] = a
    BY <1>1, <1>4, SMT
  <2>2. PICK j \in 1 .. (1 + Len(t)) : j > i + 1 /\ (<<e>> \o t)[j] = b
    BY <1>2, <2>1, Zenon
  <2>3. j > 1 /\ j - 1 > i
    BY <1>1, <2>2, SMT
  <2>4. j - 1 \in DOMAIN t /\ t[j - 1] = b
    BY <1>3, <2>2, <2>3, Zenon
  <2> QED  BY <2>3, <2>4, Zenon
<1>5. ASSUME e = a PROVE In(t, b)
  <2>1. 1 \in 1 .. (1 + Len(t)) /\ (<<e>> \o t)[1] = a
    BY <1>1, <1>5, SMT
  <2>2. PICK j \in 1 .. (1 + Len(t)) : j > 1 /\ (<<e>> \o t)[j] = b
    BY <1>2, <2>1, Zenon
  <2>3. j - 1 \in DOMAIN t /\ t[j - 1] = b
    BY <1>3, <2>2, Zenon
  <2> QED  BY <2>3, Zenon DEF In
<1> QED  BY <1>4, <1>5, Zenon DEF Follows

(* An event is added at the end. *)
LEMMA FollowsAppend ==
    ASSUME NEW e \in Events, NEW s \in Seq(Events), NEW a, NEW b, a # e
    PROVE  /\ Follows(s, a, b) => Follows(s \o <<e>>, a, b)
           /\ b = e => Follows(s \o <<e>>, a, b)
<1>1. /\ Len(s) \in Nat /\ DOMAIN s = 1 .. Len(s) /\ DOMAIN (s \o <<e>>) = 1 .. (Len(s) + 1)
      /\ \A i \in 1 .. (Len(s) + 1) : (s \o <<e>>)[i] = IF i <= Len(s) THEN s[i] ELSE e
  <2>1. <<e>> \in Seq(Events) /\ Len(<<e>>) = 1 /\ <<e>>[1] = e
    OBVIOUS
  <2>2. Len(s) \in Nat /\ DOMAIN s = 1 .. Len(s) /\ DOMAIN (s \o <<e>>) = 1 .. (Len(s) + 1)
    BY <2>1, DomainLen, ConcatProperties
  <2>3. ASSUME NEW i \in 1 .. (Len(s) + 1)
        PROVE  (s \o <<e>>)[i] = IF i <= Len(s) THEN s[i] ELSE e
    <3>1. (s \o <<e>>)[i] = IF i <= Len(s) THEN s[i] ELSE <<e>>[i - Len(s)]
      BY <2>1, ConcatProperties
    <3>2. i <= Len(s) \/ i - Len(s) = 1
      BY <2>2, SMT
    <3> QED  BY <2>1, <3>1, <3>2, Zenon
  <2> QED  BY <2>2, <2>3
<1>2. ASSUME NEW i \in DOMAIN (s \o <<e>>), (s \o <<e>>)[i] = a
      PROVE  i \in DOMAIN s /\ s[i] = a /\ Len(s) + 1 > i
  BY <1>1, <1>2, SMT
<1>3. \A j \in DOMAIN s : j \in DOMAIN (s \o <<e>>) /\ (s \o <<e>>)[j] = s[j]
  BY <1>1, SMT
<1>4. Len(s) + 1 \in DOMAIN (s \o <<e>>) /\ (s \o <<e>>)[Len(s) + 1] = e
  BY <1>1, SMT
<1>5. ASSUME Follows(s, a, b) PROVE Follows(s \o <<e>>, a, b)
  BY <1>2, <1>3, <1>5, Zenon DEF Follows
<1>6. ASSUME b = e PROVE Follows(s \o <<e>>, a, b)
  BY <1>2, <1>4, <1>6, Zenon DEF Follows
<1> QED  BY <1>5, <1>6

(* What comes last is lost. *)
LEMMA FollowsPrefix ==
    ASSUME NEW s \in Seq(Events), NEW t \in Seq(Events), NEW a, NEW b,
           Follows(s \o t, a, b), ~ In(t, b)
    PROVE  Follows(s, a, b)
<1>1. /\ Len(s) \in Nat /\ DOMAIN s = 1 .. Len(s) /\ Len(t) \in Nat /\ DOMAIN t = 1 .. Len(t)
      /\ DOMAIN (s \o t) = 1 .. (Len(s) + Len(t))
      /\ \A i \in 1 .. (Len(s) + Len(t)) :
            (s \o t)[i] = IF i <= Len(s) THEN s[i] ELSE t[i - Len(s)]
  BY DomainLen, ConcatProperties
<1>2. ASSUME NEW i \in DOMAIN s, s[i] = a PROVE \E j \in DOMAIN s : j > i /\ s[j] = b
  <2>1. i \in DOMAIN (s \o t) /\ (s \o t)[i] = a
    BY <1>1, <1>2, SMT
  <2>2. PICK j \in DOMAIN (s \o t) : j > i /\ (s \o t)[j] = b
    BY <2>1, Zenon DEF Follows
  <2>3. CASE j <= Len(s)
    <3>1. j \in DOMAIN s /\ s[j] = b
      BY <1>1, <2>2, <2>3, SMT
    <3> QED  BY <2>2, <3>1, Zenon
  <2>4. CASE ~ (j <= Len(s))
    <3>1. j - Len(s) \in DOMAIN t /\ t[j - Len(s)] = b
      BY <1>1, <2>2, <2>4, SMT
    <3> QED  BY <3>1, Zenon DEF In
  <2> QED  BY <2>3, <2>4
<1> QED  BY <1>2, Zenon DEF Follows

-----------------------------------------------------------------------------
(* THE EVENTS ON THEIR WAY *)

LEMMA QueueTypes ==
    ASSUME QueuesOK
    PROVE  /\ stream \in Seq(Events) /\ message \in Seq(Events) /\ notifications \in Seq(Events)
           /\ message \o stream \in Seq(Events) /\ notifications \o message \in Seq(Events)
<1>1. stream \in Seq(Events) /\ message \in Seq(Events) /\ notifications \in Seq(Events)
  BY Zenon DEF QueuesOK
<1> QED  BY <1>1, ConcatProperties

LEMMA Regroup ==
    ASSUME NEW s \in Seq(Events), NEW t \in Seq(Events), NEW u \in Seq(Events)
    PROVE  (s \o t) \o u = s \o (t \o u)
BY ConcatAssociative, SMTT(30)

LEMMA PipeType ==
    ASSUME QueuesOK
    PROVE  Pipe \in Seq(Events)
<1>1. notifications \in Seq(Events) /\ message \o stream \in Seq(Events)
  BY QueueTypes, Zenon
<1> QED  BY <1>1, ConcatProperties DEF Pipe

LEMMA EventFacts ==
    ASSUME NEW k \in {"start", "die", "other"}, NEW c \in Containers
    PROVE  Event(k, c) \in Events /\ Event(k, c).kind = k /\ Event(k, c).id = c
BY DEF Event, Events

LEMMA EventEqual ==
    ASSUME NEW e \in Events
    PROVE  e = Event(e.kind, e.id) /\ e.id \in Containers /\ e.kind \in {"start", "die", "other"}
BY DEF Event, Events

LEMMA KindsDiffer == "start" # "die"
OBVIOUS

(* The daemon emits an event. *)
LEMMA PipeEmit ==
    ASSUME QueuesOK, NEW e \in Events, stream' = Append(stream, e),
           UNCHANGED <<message, notifications>>
    PROVE  stream' \in Seq(Events) /\ Pipe' = Pipe \o <<e>>
<1>1. <<e>> \in Seq(Events) /\ stream' = stream \o <<e>> /\ stream' \in Seq(Events)
  BY AppendIsConcat, AppendProperties DEF QueuesOK
<1>2. /\ stream \in Seq(Events) /\ message \in Seq(Events) /\ notifications \in Seq(Events)
      /\ message \o stream \in Seq(Events)
  BY QueueTypes, Zenon
<1>3. PICK f \in Seq(Events) : f = <<e>>
  BY <1>1, Zenon
<1>4. (message \o stream) \o f = message \o (stream \o f)
  <2>1. stream \in Seq(Events) /\ message \in Seq(Events)
    BY <1>2, Zenon
  <2> QED  BY ONLY f \in Seq(Events), <2>1, Regroup, Zenon
<1>5. (notifications \o (message \o stream)) \o f = notifications \o ((message \o stream) \o f)
  <2>1. PICK t \in Seq(Events) : t = message \o stream
    BY <1>2, Zenon
  <2>2. notifications \in Seq(Events)
    BY <1>2, Zenon
  <2>3. (notifications \o t) \o f = notifications \o (t \o f)
    BY ONLY f \in Seq(Events), t \in Seq(Events), <2>2, Regroup, Zenon
  <2> QED  BY <2>1, <2>3, Zenon
<1> QED  BY <1>1, <1>3, <1>4, <1>5, Zenon DEF Pipe

(* The listener receives and passes on what is there. *)
LEMMA PipeReceive ==
    ASSUME QueuesOK, Receive
    PROVE  QueuesOK' /\ Pipe' = Pipe
<1>1. /\ stream # <<>> /\ message = <<>> /\ message' = <<Head(stream)>> /\ stream' = Tail(stream)
      /\ notifications' = notifications /\ listener' = "passing" /\ subscription' = subscription
  BY DEF Receive, QueuesOK
<1>2. Head(stream) \in Events /\ Tail(stream) \in Seq(Events)
  BY <1>1 DEF QueuesOK
<1>3. <<Head(stream)>> \in Seq(Events)
  BY <1>2
<1>4. <<Head(stream)>> \o Tail(stream) = stream
  <2>1. stream \in Seq(Events)
    BY DEF QueuesOK
  <2> QED  BY <1>1, <1>2, <1>3, <2>1
<1>5. message \o stream = stream
  BY <1>1, ConcatEmptySeq DEF QueuesOK
<1>6. message' \o stream' = message \o stream
  BY <1>1, <1>4, <1>5, Zenon
<1>7. QueuesOK'
  BY <1>1, <1>2, <1>3, Zenon DEF QueuesOK
<1> QED  BY <1>1, <1>6, <1>7, Zenon DEF Pipe

LEMMA PipeNotify ==
    ASSUME QueuesOK, Notify
    PROVE  QueuesOK' /\ Pipe' = Pipe
<1>1. /\ message' = <<>> /\ stream' = stream /\ notifications' = notifications \o message
      /\ listener' = "idle" /\ subscription' = subscription
  BY Zenon DEF Notify
<1>2. <<>> \o stream = stream /\ <<>> \in Seq(Events)
  BY ConcatEmptySeq DEF QueuesOK
<1>3. (notifications \o message) \o stream = notifications \o (message \o stream)
  <2>1. stream \in Seq(Events) /\ message \in Seq(Events) /\ notifications \in Seq(Events)
    BY QueueTypes, Zenon
  <2> QED  BY ONLY <2>1, Regroup, Zenon
<1>4. notifications \o message \in Seq(Events)
  BY QueueTypes, Zenon
<1>5. subscription = "none" => notifications \o message = <<>>
  <2>1. <<>> \o <<>> = <<>>
    OBVIOUS
  <2> QED  BY <2>1, Zenon DEF QueuesOK
<1>6. QueuesOK'
  BY <1>1, <1>2, <1>4, <1>5, Zenon DEF QueuesOK
<1> QED  BY <1>1, <1>2, <1>3, <1>6, Zenon DEF Pipe

(* The processor takes the first. *)
LEMMA PipeProcess ==
    ASSUME QueuesOK, notifications # <<>>, notifications' = Tail(notifications),
           UNCHANGED <<message, stream, listener, subscription>>
    PROVE  /\ QueuesOK' /\ Head(notifications) \in Events
           /\ Pipe' \in Seq(Events) /\ Pipe = <<Head(notifications)>> \o Pipe'
<1>1. Head(notifications) \in Events /\ Tail(notifications) \in Seq(Events)
  BY DEF QueuesOK
<1>2. <<Head(notifications)>> \in Seq(Events)
  BY <1>1
<1>3. <<Head(notifications)>> \o Tail(notifications) = notifications
  <2>1. notifications \in Seq(Events)
    BY DEF QueuesOK
  <2> QED  BY <1>1, <1>2, <2>1
<1>4. message \o stream \in Seq(Events)
  BY QueueTypes, Zenon
<1>5. (<<Head(notifications)>> \o Tail(notifications)) \o (message \o stream)
          = <<Head(notifications)>> \o (Tail(notifications) \o (message \o stream))
  BY ONLY <1>1, <1>2, <1>4, Regroup, Zenon
<1>6. QueuesOK'
  BY <1>1, Zenon DEF QueuesOK
<1>7. Tail(notifications) \o (message \o stream) \in Seq(Events)
  BY <1>1, <1>4, ConcatProperties
<1> QED  BY <1>1, <1>3, <1>5, <1>6, <1>7, Zenon DEF Pipe

(* What is on the stream is lost with it. *)
LEMMA PipeFails ==
    ASSUME QueuesOK, StreamFails
    PROVE  /\ QueuesOK' /\ Pipe' \in Seq(Events) /\ Pipe = Pipe' \o stream
<1>1. /\ stream' = <<>> /\ subscription' = "broken"
      /\ UNCHANGED <<message, notifications, listener>>
  BY Zenon DEF StreamFails
<1>2. <<>> \in Seq(Events) /\ message \o <<>> = message
  BY ConcatEmptySeq DEF QueuesOK
<1>3. notifications \o message \in Seq(Events)
  BY QueueTypes, Zenon
<1>4. (notifications \o message) \o stream = notifications \o (message \o stream)
  <2>1. stream \in Seq(Events) /\ message \in Seq(Events) /\ notifications \in Seq(Events)
    BY QueueTypes, Zenon
  <2> QED  BY ONLY <2>1, Regroup, Zenon
<1>5. Pipe' = notifications \o message
  BY <1>1, <1>2, Zenon DEF Pipe
<1>6. QueuesOK'
  BY <1>1, <1>2, Zenon DEF QueuesOK
<1> QED  BY <1>3, <1>4, <1>5, <1>6, Zenon DEF Pipe

-----------------------------------------------------------------------------
(* A CONTAINER THAT A STEP IS NOT ABOUT *)

(* What is on its way of the container stays in order. *)
Kept(c) ==
    /\ Pending(c) => Pending(c)'
    /\ Follows(Pipe, StartOf(c), DieOf(c)) => Follows(Pipe, StartOf(c), DieOf(c))'
    /\ Follows(Pipe, DieOf(c), StartOf(c)) => Follows(Pipe, DieOf(c), StartOf(c))'

Same(c) ==
    /\ Running(c)' <=> Running(c)
    /\ run'[c] = run[c] /\ runtime'[c] = runtime[c] /\ force'[c] = force[c]
    /\ c \in todo' <=> c \in todo
    /\ c \in missed => c \in missed'

Handled(c) == Handles("start", c) \/ Handles("die", c)

LEMMA Frame ==
    ASSUME NEW c \in Containers, Good(c), Same(c), c \notin missed' => Kept(c),
           UNCHANGED <<handler, req>> \/ (~ Handled(c) /\ ~ Handled(c)')
    PROVE  Good(c)'
<1>1. TodoOK(c)'
  BY Zenon DEF Good, TodoOK, Same, Handled, Handles
<1>2. ASSUME c \notin missed' PROVE OrderOK(c)' /\ SettledOK(c)'
  <2>1. OrderOK(c) /\ SettledOK(c)
    BY <1>2, Zenon DEF Good, Same
  <2>2. OrderOK(c)'
    BY <1>2, <2>1, Zenon DEF OrderOK, Kept, Same
  <2>3. CASE c \in todo \/ Pending(c)
    BY <1>2, <2>2, <2>3, Zenon DEF SettledOK, Kept, Same
  <2>4. CASE PolicyOK(c) /\ UNCHANGED <<handler, req>>
    <3>1. \A k : Handles(k, c)' <=> Handles(k, c)
      BY <2>4, Zenon DEF Handles
    <3>2. (StartOK(c) => StartOK(c)') /\ (DieOK(c) => DieOK(c)') /\ (Policed(c) => Policed(c)')
      BY <2>4, Zenon DEF Same, StartOK, DieOK, Answered, Policed
    <3>3. PolicyOK(c)'
      BY <2>4, <3>1, <3>2, Zenon DEF PolicyOK, Same
    <3> QED  BY <2>2, <3>3, Zenon DEF SettledOK
  <2>5. CASE PolicyOK(c) /\ ~ Handled(c) /\ ~ Handled(c)'
    <3>1. PolicyOK(c)'
      BY <2>5, Zenon DEF PolicyOK, Same, Handled, Policed
    <3> QED  BY <2>2, <3>1, Zenon DEF SettledOK
  <2> QED  BY <2>1, <2>2, <2>3, <2>4, <2>5, Zenon DEF SettledOK
<1> QED  BY <1>1, <1>2, Zenon DEF Good

LEMMA KeptSame ==
    ASSUME Pipe' = Pipe, NEW c
    PROVE  Kept(c)
BY Zenon DEF Kept, Pending

(* An event that is not the start or the end of the container does not matter. *)
LEMMA KeptEmit ==
    ASSUME QueuesOK, NEW e \in Events, Pipe' = Pipe \o <<e>>, NEW c \in Containers,
           e # StartOf(c), e # DieOf(c)
    PROVE  Kept(c)
<1>1. PICK s \in Seq(Events) : s = Pipe
  BY PipeType, Zenon
<1>2. <<e>> \in Seq(Events)
  OBVIOUS
<1>3. \A x : In(s, x) => In(s \o <<e>>, x)
  BY <1>2, InConcat, Zenon
<1>4. /\ Follows(s, StartOf(c), DieOf(c)) => Follows(s \o <<e>>, StartOf(c), DieOf(c))
      /\ Follows(s, DieOf(c), StartOf(c)) => Follows(s \o <<e>>, DieOf(c), StartOf(c))
  BY FollowsAppend, Zenon
<1>5. Pipe' = s \o <<e>>
  BY <1>1, Zenon
<1> QED  BY <1>1, <1>3, <1>4, <1>5, Zenon DEF Kept, Pending, StartOf, DieOf, Event

LEMMA KeptProcess ==
    ASSUME Pipe' \in Seq(Events), NEW e \in Events, Pipe = <<e>> \o Pipe', NEW c \in Containers,
           e # StartOf(c), e # DieOf(c)
    PROVE  Kept(c)
<1>1. PICK s \in Seq(Events) : s = Pipe'
  BY Zenon
<1>2. <<e>> \in Seq(Events) /\ Pipe = <<e>> \o s
  BY <1>1
<1>3. \A x : In(<<e>> \o s, x) => x = e \/ In(s, x)
  BY <1>2, InConcat, InOne, Zenon
<1>4. /\ Follows(<<e>> \o s, StartOf(c), DieOf(c)) => Follows(s, StartOf(c), DieOf(c))
      /\ Follows(<<e>> \o s, DieOf(c), StartOf(c)) => Follows(s, DieOf(c), StartOf(c))
  BY FollowsTail, Zenon
<1> QED  BY <1>1, <1>2, <1>3, <1>4, Zenon DEF Kept, Pending, StartOf, DieOf, Event

LEMMA KeptFails ==
    ASSUME QueuesOK, Pipe' \in Seq(Events), Pipe = Pipe' \o stream, NEW c \in Containers,
           ~ In(stream, StartOf(c)), ~ In(stream, DieOf(c))
    PROVE  Kept(c)
<1>1. PICK s \in Seq(Events), t \in Seq(Events) : s = Pipe' /\ t = stream
  BY Zenon DEF QueuesOK
<1>2. Pipe = s \o t
  BY <1>1, Zenon
<1>3. \A x : In(s \o t, x) => In(t, x) \/ In(s, x)
  BY InConcat, Zenon
<1>4. /\ Follows(s \o t, StartOf(c), DieOf(c)) => Follows(s, StartOf(c), DieOf(c))
      /\ Follows(s \o t, DieOf(c), StartOf(c)) => Follows(s, DieOf(c), StartOf(c))
  BY <1>1, FollowsPrefix, Zenon
<1> QED  BY <1>1, <1>2, <1>3, <1>4, Zenon DEF Kept, Pending, StartOf, DieOf, Event

(* The daemon tells that a container started or ended, or the monitor misses it. *)
LEMMA EmitAbout ==
    ASSUME QueuesOK, NEW c \in Containers, NEW k \in {"start", "die"}, Emit(k, c), TodoOK(c)',
           UNCHANGED <<message, notifications, todo>>, Running(c)' <=> k = "start"
    PROVE  Good(c)'
<1>1. CASE subscription = "open"
  <2>1. PICK e \in Events : e = Event(k, c)
    BY EventFacts, Zenon
  <2>2. stream' = Append(stream, e)
    BY <1>1, <2>1, Zenon DEF Emit
  <2>3. PICK s \in Seq(Events) : s = Pipe
    BY PipeType, Zenon
  <2>4. Pipe' = s \o <<e>> /\ <<e>> \in Seq(Events)
    BY <2>2, <2>3, PipeEmit
  <2>5. In(s \o <<e>>, e)
    BY <2>4, InConcat, InOne, Zenon
  <2>6. StartOf(c) # DieOf(c) /\ e = (IF k = "start" THEN StartOf(c) ELSE DieOf(c))
    BY <2>1 DEF StartOf, DieOf, Event
  <2>7. SettledOK(c)'
    BY <2>4, <2>5, <2>6, Zenon DEF SettledOK, Pending, StartOf, DieOf, Event
  <2>8. /\ k = "start" => Follows(s \o <<e>>, DieOf(c), StartOf(c))
        /\ k # "start" => Follows(s \o <<e>>, StartOf(c), DieOf(c))
    BY <2>6, FollowsAppend, Zenon
  <2>9. OrderOK(c)'
    BY <2>4, <2>8, Zenon DEF OrderOK, StartOf, DieOf, Event
  <2> QED  BY <2>7, <2>9, Zenon DEF Good
<1>2. CASE subscription # "open" /\ c \notin missed'
  <2>1. subscription = "none" /\ c \in todo /\ stream' = stream
    BY <1>2 DEF Emit
  <2>2. Pipe' = <<>>
    <3>1. stream' = <<>> /\ message' = <<>> /\ notifications' = <<>>
      BY <2>1, Zenon DEF QueuesOK
    <3>2. <<>> \o (<<>> \o <<>>) = <<>>
      OBVIOUS
    <3> QED  BY <3>1, <3>2, Zenon DEF Pipe
  <2>3. \A a, b : Follows(<<>>, a, b)
    BY DEF Follows
  <2>4. OrderOK(c)'
    BY <2>2, <2>3, Zenon DEF OrderOK
  <2> QED  BY <2>1, <2>4, Zenon DEF Good, SettledOK
<1> QED  BY <1>1, <1>2, Zenon DEF Good

(* The other containers hear nothing of it. *)
LEMMA EmitElsewhere ==
    ASSUME QueuesOK, NEW c \in Containers, NEW k \in {"start", "die", "other"}, Emit(k, c),
           UNCHANGED <<message, notifications, listener, subscription>>
    PROVE  /\ QueuesOK'
           /\ \A d \in Containers : d # c \/ k = "other" =>
                  Kept(d) /\ (d \in missed' <=> d \in missed)
<1>1. k = "other" => missed' = missed
  BY Zenon DEF Emit
<1>2. \A d \in Containers : d # c => (d \in missed' <=> d \in missed)
  BY DEF Emit
<1>3. CASE subscription = "open"
  <2>0. Event(k, c) \in Events /\ Event(k, c).kind = k /\ Event(k, c).id = c
    BY DEF Event, Events
  <2>1. PICK e \in Events : e = Event(k, c) /\ e.kind = k /\ e.id = c
    BY <2>0, Zenon
  <2>2. stream' = Append(stream, e)
    BY <1>3, <2>1, Zenon DEF Emit
  <2>3. stream' \in Seq(Events) /\ Pipe' = Pipe \o <<e>>
    BY <2>2, PipeEmit, Zenon
  <2>4. QueuesOK'
    BY <1>3, <2>3 DEF QueuesOK
  <2>5. ASSUME NEW d \in Containers, d # c \/ k = "other" PROVE Kept(d)
    <3>1. /\ StartOf(d).kind = "start" /\ StartOf(d).id = d
          /\ DieOf(d).kind = "die" /\ DieOf(d).id = d
      BY EventFacts, Zenon DEF StartOf, DieOf
    <3>2. e # StartOf(d) /\ e # DieOf(d)
      BY <2>1, <2>5, <3>1
    <3> QED  BY <2>3, <3>2, KeptEmit, Zenon
  <2> QED  BY <1>1, <1>2, <2>4, <2>5, Zenon
<1>4. CASE subscription # "open"
  <2>1. stream' = stream
    BY <1>4, Zenon DEF Emit
  <2>2. QueuesOK' /\ Pipe' = Pipe
    BY <2>1, Zenon DEF QueuesOK, Pipe
  <2> QED  BY <1>1, <1>2, <2>2, KeptSame, Zenon
<1> QED  BY <1>3, <1>4

-----------------------------------------------------------------------------
(* THE DAEMON *)

Globals == Daemon /\ Control /\ QueuesOK /\ HandlerOK /\ PhaseOK

(* What a change of one container leaves alone. *)
LEMMA BecomesFacts ==
    ASSUME Inv, NEW c \in Containers, NEW k \in {"start", "die", "other"}, Emit(k, c),
           NEW s \in {"created", "running", "paused", "exited", "removed"},
           state' = [state EXCEPT ![c] = s], run' \in [Containers -> Nat],
           \A d \in Containers : d # c => run'[d] = run[d],
           UNCHANGED <<subscription, listener, message, notifications, phase, todo, handler, controller>>
    PROVE  /\ Globals'
           /\ Running(c)' <=> s \in {"running", "paused"}
           /\ \A d \in Containers : d # c => Good(d)'
           /\ TodoOK(c)'
           /\ k = "other" /\ run' = run /\ (Running(c)' <=> Running(c)) => Good(c)'
<1>1. UNCHANGED <<runtime, force, req>>
  BY Zenon DEF controller
<1>2. state'[c] = s /\ \A d \in Containers : d # c => state'[d] = state[d]
  BY DEF Inv, Daemon
<1>3. state' \in [Containers -> {"none", "created", "running", "paused", "exited", "removed"}]
  BY DEF Inv, Daemon
<1>4. /\ QueuesOK'
      /\ \A d \in Containers : d # c \/ k = "other" =>
             Kept(d) /\ (d \in missed' <=> d \in missed)
  BY EmitElsewhere, Zenon DEF Inv
<1>5. Daemon' /\ Control' /\ HandlerOK' /\ PhaseOK'
  BY <1>1, <1>3, Zenon DEF Inv, Daemon, Control, HandlerOK, PhaseOK
<1>6. ASSUME NEW d \in Containers, d # c PROVE Good(d)'
  <2>1. Same(d)
    BY <1>1, <1>2, <1>4, <1>6, Zenon DEF Same, Running
  <2> QED  BY <1>1, <1>4, <1>6, <2>1, Frame, Zenon DEF Inv
<1>7. TodoOK(c)'
  BY <1>1, Zenon DEF Inv, Good, TodoOK, Handles
<1>8. ASSUME k = "other", run' = run, Running(c)' <=> Running(c) PROVE Good(c)'
  <2>1. Same(c) /\ Kept(c)
    BY <1>1, <1>4, <1>8, Zenon DEF Same
  <2> QED  BY <1>1, <2>1, Frame, Zenon DEF Inv
<1>9. Running(c)' <=> s \in {"running", "paused"}
  BY <1>2, Zenon DEF Running
<1> QED  BY <1>4, <1>5, <1>6, <1>7, <1>8, <1>9, Zenon DEF Globals

LEMMA DaemonStep ==
    ASSUME Inv, NEW c \in Containers,
           Create(c) \/ Run(c) \/ Die(c) \/ Pause(c) \/ Unpause(c) \/ Destroy(c)
    PROVE  Inv'
<1>1. state[c] \in {"none", "created", "running", "paused", "exited", "removed"}
  BY DEF Inv, Daemon
<1>2. ASSUME NEW s \in {"created", "running", "paused", "exited", "removed"}, Becomes(c, s, "other"),
             run' = run, Running(c) <=> s \in {"running", "paused"}
      PROVE  Inv'
  <2>1. /\ Emit("other", c) /\ state' = [state EXCEPT ![c] = s]
        /\ UNCHANGED <<subscription, listener, message, notifications, phase, todo, handler, controller>>
    BY <1>2, Zenon DEF Becomes
  <2>2. run' \in [Containers -> Nat] /\ \A d \in Containers : d # c => run'[d] = run[d]
    BY <1>2, Zenon DEF Inv, Daemon
  <2>3. Globals' /\ \A d \in Containers : Good(d)'
    BY <1>2, <2>1, <2>2, BecomesFacts, Zenon
  <2> QED  BY <2>3, Zenon DEF Inv, Globals
<1>3. ASSUME NEW s \in {"running", "exited"}, NEW k \in {"start", "die"}, Becomes(c, s, k),
             run' \in [Containers -> Nat], \A d \in Containers : d # c => run'[d] = run[d],
             s = "running" <=> k = "start"
      PROVE  Inv'
  <2>1. /\ Emit(k, c) /\ state' = [state EXCEPT ![c] = s]
        /\ UNCHANGED <<subscription, listener, message, notifications, phase, todo, handler, controller>>
    BY <1>3, Zenon DEF Becomes
  <2>2. k \in {"start", "die", "other"} /\ s \in {"created", "running", "paused", "exited", "removed"}
    OBVIOUS
  <2>3. /\ Globals' /\ TodoOK(c)' /\ (Running(c)' <=> s \in {"running", "paused"})
        /\ \A d \in Containers : d # c => Good(d)'
    BY <1>3, <2>1, <2>2, BecomesFacts, ZenonT(30)
  <2>4. Running(c)' <=> k = "start"
    BY <1>3, <2>3
  <2>5. Good(c)'
    BY <2>1, <2>3, <2>4, EmitAbout, Zenon DEF Inv
  <2> QED  BY <2>3, <2>5, Zenon DEF Inv, Globals
<1>4. CASE Create(c)
  BY <1>2, <1>4 DEF Create, Running
<1>5. CASE Pause(c)
  BY <1>2, <1>5 DEF Pause, Running
<1>6. CASE Unpause(c)
  BY <1>2, <1>6 DEF Unpause, Running
<1>7. CASE Destroy(c)
  BY <1>2, <1>7 DEF Destroy, Running
<1>8. CASE Die(c)
  <2>1. Becomes(c, "exited", "die") /\ run' = run
    BY <1>8, Zenon DEF Die
  <2>2. run' \in [Containers -> Nat] /\ \A d \in Containers : d # c => run'[d] = run[d]
    BY <2>1, Zenon DEF Inv, Daemon
  <2> QED  BY <1>3, <2>1, <2>2
<1>9. CASE Run(c)
  <2>1. Becomes(c, "running", "start") /\ run' = [run EXCEPT ![c] = run[c] + 1]
    BY <1>9, Zenon DEF Run
  <2>2. run' \in [Containers -> Nat] /\ \A d \in Containers : d # c => run'[d] = run[d]
    BY <2>1 DEF Inv, Daemon
  <2> QED  BY <1>3, <2>1, <2>2
<1> QED  BY <1>4, <1>5, <1>6, <1>7, <1>8, <1>9

LEMMA StreamFailsStep ==
    ASSUME Inv, StreamFails
    PROVE  Inv'
<1>1. /\ missed' = missed \cup {e.id : e \in Range(stream)}
      /\ UNCHANGED <<state, run, phase, todo, handler, runtime, force, req>>
  BY Zenon DEF StreamFails, daemon, controller
<1>2. QueuesOK' /\ Pipe' \in Seq(Events) /\ Pipe = Pipe' \o stream
  BY PipeFails, Zenon DEF Inv
<1>3. ASSUME NEW d \in Containers, d \notin missed' PROVE Kept(d)
  <2>1. \A i \in DOMAIN stream : stream[i].id # d
    BY <1>1, <1>3, Zenon DEF Range
  <2>2. StartOf(d).id = d /\ DieOf(d).id = d
    BY DEF StartOf, DieOf, Event
  <2>3. ~ In(stream, StartOf(d)) /\ ~ In(stream, DieOf(d))
    BY <2>1, <2>2, Zenon DEF In
  <2> QED  BY <1>2, <2>3, KeptFails, Zenon DEF Inv
<1>4. ASSUME NEW d \in Containers PROVE Good(d)'
  <2>1. Same(d)
    BY <1>1 DEF Same, Running
  <2> QED  BY <1>1, <1>3, <2>1, Frame, Zenon DEF Inv
<1>5. Daemon' /\ Control' /\ HandlerOK' /\ PhaseOK'
  BY <1>1, Zenon DEF Inv, Daemon, Control, HandlerOK, PhaseOK
<1> QED  BY <1>2, <1>4, <1>5, Zenon DEF Inv

-----------------------------------------------------------------------------
(* THE LISTENER, START AND STOP *)

(* Events may move on, as long as they keep their order. *)
LEMMA CalmStep ==
    ASSUME Inv, UNCHANGED <<state, run, todo, handler, runtime, force, req, missed>>,
           QueuesOK', Pipe' = Pipe, PhaseOK'
    PROVE  Inv'
<1>1. ASSUME NEW c \in Containers PROVE Good(c)'
  <2>1. Same(c) /\ Kept(c)
    BY KeptSame, Zenon DEF Same, Running
  <2> QED  BY <2>1, Frame, Zenon DEF Inv
<1>2. Daemon' /\ Control' /\ HandlerOK'
  BY Zenon DEF Inv, Daemon, Control, HandlerOK
<1> QED  BY <1>1, <1>2, Zenon DEF Inv

LEMMA ListenerStep ==
    ASSUME Inv, Subscribe \/ Receive \/ Notify
    PROVE  Inv'
<1>1. UNCHANGED <<state, run, todo, handler, runtime, force, req, missed, phase>>
  BY Zenon DEF Subscribe, Receive, Notify, daemon, controller
<1>2. QueuesOK' /\ Pipe' = Pipe
  <2>1. CASE Subscribe
    <3>1. /\ listener = "new" /\ UNCHANGED <<stream, message, notifications>>
          /\ subscription' = "open"
      BY <2>1, Zenon DEF Subscribe
    <3> QED  BY <3>1, Zenon DEF Inv, QueuesOK, Pipe
  <2> QED  BY <2>1, PipeReceive, PipeNotify, Zenon DEF Inv
<1>3. PhaseOK'
  BY <1>1, Zenon DEF Inv, PhaseOK
<1> QED  BY <1>1, <1>2, <1>3, CalmStep, Zenon

LEMMA PhaseStep ==
    ASSUME Inv, Start \/ Started \/ Stop \/ StopListener \/ StopProcessor \/ UNCHANGED vars
    PROVE  Inv'
<1>1. /\ UNCHANGED <<state, run, todo, handler, runtime, force, req, missed>>
      /\ UNCHANGED <<stream, message, notifications, subscription>>
      /\ listener' \in {listener, "stopped"} /\ (listener' # listener => listener = "idle")
  BY Zenon DEF Start, Started, Stop, StopListener, StopProcessor, vars, daemon, controller, queues
<1>2. QueuesOK' /\ Pipe' = Pipe
  BY <1>1, Zenon DEF Inv, QueuesOK, Pipe
<1>3. PhaseOK'
  <2>1. CASE Start
    BY <1>1, <2>1, SyncAssumption DEF Start, Inv, PhaseOK
  <2>2. CASE Started
    BY <1>1, <2>2 DEF Started, Inv, PhaseOK
  <2>3. CASE Stop \/ StopListener \/ StopProcessor
    <3>1. phase \notin {"new", "list", "sync"} /\ phase' \notin {"new", "list", "sync"}
      BY <2>3 DEF Stop, StopListener, StopProcessor
    <3> QED  BY <1>1, <3>1 DEF Inv, PhaseOK
  <2>4. CASE UNCHANGED vars
    BY <1>1, <2>4 DEF vars, Inv, PhaseOK
  <2> QED  BY <2>1, <2>2, <2>3, <2>4
<1> QED  BY <1>1, <1>2, <1>3, CalmStep, Zenon

(* A container that is not listed does not run, or is missed. *)
LEMMA ListStep ==
    ASSUME Inv, List
    PROVE  Inv'
<1>1. /\ phase = "list" /\ phase' = "sync"
      /\ UNCHANGED <<state, run, handler, runtime, force, req>>
      /\ UNCHANGED <<stream, message, notifications, subscription, listener>>
  BY Zenon DEF List, daemon, controller, queues
<1>2. todo = Containers /\ SyncAtStart
  BY <1>1, SyncAssumption DEF Inv, PhaseOK
<1>3. QueuesOK' /\ Pipe' = Pipe
  BY <1>1, Zenon DEF Inv, QueuesOK, Pipe
<1>4. Daemon' /\ Control' /\ HandlerOK' /\ PhaseOK'
  BY <1>1, <1>2 DEF Inv, Daemon, Control, HandlerOK, PhaseOK
<1>5. ASSUME NEW c \in Containers PROVE Good(c)'
  <2>1. /\ force[c] = None /\ ~ Handles("start", c) /\ ~ Handles("die", c)
        /\ c \notin missed => OrderOK(c)
    BY <1>2, Zenon DEF Inv, Good, TodoOK
  <2>2. force'[c] = None /\ ~ Handles("start", c)' /\ ~ Handles("die", c)'
    BY <1>1, <2>1, Zenon DEF Handles
  <2>3. c \in missed => c \in missed'
    BY DEF List
  <2>4. (Running(c)' <=> Running(c)) /\ (OrderOK(c)' <=> OrderOK(c))
    BY <1>1, <1>3, Zenon DEF OrderOK, Running
  <2>5. c \in todo' \/ c \in missed' \/ ~ Running(c)
    BY DEF List, Running
  <2>6. c \notin missed' => SettledOK(c)'
    BY <2>2, <2>4, <2>5, Zenon DEF SettledOK, PolicyOK
  <2> QED  BY <2>1, <2>2, <2>3, <2>4, <2>6, Zenon DEF Good, TodoOK
<1> QED  BY <1>3, <1>4, <1>5, Zenon DEF Inv

(* A handler that has been set. *)
LEMMA HandlerFacts ==
    ASSUME NEW at \in {"handle", "submit", "wait", "kill"}, NEW e \in Events, NEW r \in Nat, NEW h,
           h = [at |-> at, ev |-> e, run |-> r]
    PROVE  h \in Handlers /\ h # None /\ h.at = at /\ h.ev = e /\ h.run = r
<1>1. h \in Handlers /\ h.at = at /\ h.ev = e /\ h.run = r
  BY DEF Handlers
<1> QED  BY <1>1, NoneAssumption, Zenon

LEMMA VisitStep ==
    ASSUME Inv, NEW c \in Containers, Visit(c)
    PROVE  Inv'
<1>1. /\ phase = "sync" /\ handler = None /\ c \in todo /\ todo' = todo \ {c}
      /\ UNCHANGED <<state, run, runtime, force, req, phase>>
      /\ UNCHANGED <<stream, message, notifications, subscription, listener>>
  BY Zenon DEF Visit, daemon, controller, queues
<1>2. QueuesOK' /\ Pipe' = Pipe
  BY <1>1, Zenon DEF Inv, QueuesOK, Pipe
<1>3. Daemon' /\ Control' /\ PhaseOK'
  BY <1>1 DEF Inv, Daemon, Control, PhaseOK
<1>4. \/ handler' = None /\ (c \in missed' \/ ~ Running(c))
      \/ Running(c) /\ handler' = [at |-> "submit", ev |-> StartOf(c), run |-> run[c]]
  BY <1>1 DEF Visit, StartContainer, Submission, Running, StartOf
<1>5. \/ handler' = None /\ (c \in missed' \/ ~ Running(c))
      \/ /\ Running(c) /\ handler' \in Handlers /\ handler' # None /\ handler'.at = "submit"
         /\ handler'.ev.kind = "start" /\ handler'.ev.id = c /\ handler'.run = run[c]
  <2>1. PICK e \in Events : e = StartOf(c) /\ e.kind = "start" /\ e.id = c
    <3>1. StartOf(c) \in Events /\ StartOf(c).kind = "start" /\ StartOf(c).id = c
      BY DEF StartOf, Event, Events
    <3> QED  BY <3>1, Zenon
  <2>2. PICK r \in Nat : r = run[c]
    BY DEF Inv, Daemon
  <2>3. CASE handler' = [at |-> "submit", ev |-> e, run |-> r]
    <3>1. handler' \in Handlers /\ handler' # None /\ handler'.at = "submit" /\ handler'.ev = e
          /\ handler'.run = r
      BY <2>3, HandlerFacts
    <3> QED  BY <1>4, <2>1, <2>2, <3>1, Zenon
  <2> QED  BY <1>4, <2>1, <2>2, <2>3, Zenon
<1>6. HandlerOK'
  <2>1. req[Me].st = "idle"
    BY <1>1, Zenon DEF Inv, HandlerOK
  <2> QED  BY <1>1, <1>5, <2>1 DEF HandlerOK
<1>7. missed' \in {missed, missed \cup {c}}
  BY Zenon DEF Visit, StartContainer
<1>8. ASSUME NEW d \in Containers, d # c PROVE Good(d)'
  <2>1. Same(d)
    BY <1>1, <1>7, <1>8 DEF Same, Running
  <2>2. ~ Handled(d) /\ ~ Handled(d)'
    BY <1>1, <1>5, <1>8, Zenon DEF Handled, Handles
  <2> QED  BY <1>2, <2>1, <2>2, KeptSame, Frame, Zenon DEF Inv
<1>9. Good(c)'
  <2>1. force[c] = None /\ (c \notin missed => OrderOK(c))
    BY <1>1, Zenon DEF Inv, Good, TodoOK
  <2>2. c \notin todo' /\ (c \in missed => c \in missed')
    BY <1>1, <1>7
  <2>3. (Running(c)' <=> Running(c)) /\ (OrderOK(c)' <=> OrderOK(c)) /\ force'[c] = None
    BY <1>1, <1>2, <2>1, Zenon DEF OrderOK, Running
  <2>4. ASSUME handler' = None, c \notin missed' PROVE PolicyOK(c)'
    BY <1>5, <2>3, <2>4, Zenon DEF PolicyOK, Handles
  <2>5. ASSUME Running(c), handler'.at = "submit", handler'.run = run[c],
               handler'.ev.kind = "start", handler'.ev.id = c, handler' # None
        PROVE  PolicyOK(c)'
    <3>1. StartOK(c)'
      BY <1>1, <2>3, <2>5, Zenon DEF StartOK
    <3>2. ~ Handles("die", c)' /\ Handles("start", c)'
      BY <2>5, Zenon DEF Handles
    <3> QED  BY <3>1, <3>2, Zenon DEF PolicyOK
  <2> QED  BY <1>5, <2>1, <2>2, <2>3, <2>4, <2>5, Zenon DEF Good, TodoOK, SettledOK
<1> QED  BY <1>2, <1>3, <1>6, <1>8, <1>9, Zenon DEF Inv

-----------------------------------------------------------------------------
(* THE PROCESSOR AND THE HANDLERS *)

(* The processor takes an event.  When it is not the last one of the container
   another is on its way; when it is, it tells whether the container runs. *)
LEMMA ProcessStep ==
    ASSUME Inv, Process
    PROVE  Inv'
<1>1. /\ handler = None /\ notifications # <<>> /\ notifications' = Tail(notifications)
      /\ phase \notin {"new", "list", "sync"}
      /\ UNCHANGED <<state, run, runtime, force, req, phase, todo, missed>>
      /\ UNCHANGED <<message, stream, subscription, listener>>
  BY DEF Process, Processing, daemon, controller
<1>2. /\ QueuesOK' /\ Head(notifications) \in Events
      /\ Pipe' \in Seq(Events) /\ Pipe = <<Head(notifications)>> \o Pipe'
  BY <1>1, PipeProcess, Zenon DEF Inv
<1>3. PICK e \in Events : e = Head(notifications)
  BY <1>2, Zenon
<1>4. PICK s \in Seq(Events) : s = Pipe'
  BY <1>2, Zenon
<1>5. Pipe = <<e>> \o s
  BY <1>2, <1>3, <1>4, Zenon
<1>6. PICK c \in Containers : e.id = c /\ e = Event(e.kind, c) /\ e.kind \in {"start", "die", "other"}
  BY EventEqual, Zenon
<1>7. /\ handler' \in Handlers /\ handler' # None /\ handler'.ev = e
      /\ handler'.at \in {"handle", "submit"} /\ (handler'.at = "handle" => e.kind = "start")
  <2>1. PICK at \in {"handle", "submit"} : at = IF e.kind = "start" THEN "handle" ELSE "submit"
    OBVIOUS
  <2>2. handler' = [at |-> at, ev |-> e, run |-> 0]
    BY <1>3, <2>1 DEF Process
  <2>3. at \in {"handle", "submit", "wait", "kill"} /\ 0 \in Nat
    OBVIOUS
  <2>4. handler' \in Handlers /\ handler' # None /\ handler'.ev = e /\ handler'.at = at
    BY <2>2, <2>3, HandlerFacts, SMTT(30)
  <2> QED  BY <2>1, <2>4, Zenon
<1>8. \A k, d : Handles(k, d)' <=> k = e.kind /\ d = c
  BY <1>6, <1>7, Zenon DEF Handles
<1>9. todo = {} /\ Daemon' /\ Control' /\ PhaseOK'
  BY <1>1, Zenon DEF Inv, Daemon, Control, PhaseOK
<1>10. HandlerOK'
  <2>1. req[Me].st = "idle"
    BY <1>1, Zenon DEF Inv, HandlerOK
  <2> QED  BY <1>1, <1>7, <2>1 DEF HandlerOK
<1>11. ASSUME NEW d \in Containers, d # c \/ e.kind = "other" PROVE Good(d)'
  <2>1. e # StartOf(d) /\ e # DieOf(d)
    <3>1. /\ StartOf(d).kind = "start" /\ StartOf(d).id = d
          /\ DieOf(d).kind = "die" /\ DieOf(d).id = d
      BY DEF StartOf, DieOf, Event
    <3> QED  BY <1>6, <1>11, <3>1
  <2>2. Kept(d)
    BY <1>2, <1>3, <2>1, KeptProcess, Zenon
  <2>3. ~ Handled(d) /\ ~ Handled(d)'
    <3>1. ~ Handles("start", d)' /\ ~ Handles("die", d)'
      BY <1>8, <1>11
    <3> QED  BY <1>1, <3>1, Zenon DEF Handled, Handles
  <2>4. Same(d)
    BY <1>1, Zenon DEF Same, Running
  <2> QED  BY <2>2, <2>3, <2>4, Frame, Zenon DEF Inv
<1>12. ASSUME e.kind \in {"start", "die"} PROVE Good(c)'
  <2>1. c \notin todo' /\ (Running(c)' <=> Running(c)) /\ (c \notin missed' => OrderOK(c))
    BY <1>1, <1>9 DEF Inv, Good, Running
  <2>2. e = StartOf(c) \/ e = DieOf(c)
    BY <1>6, <1>12 DEF StartOf, DieOf
  <2>3. \A a, b : Follows(<<e>> \o s, a, b) => Follows(s, a, b) /\ (e = a => In(s, b))
    BY FollowsTail, Zenon
  <2>4. ASSUME c \notin missed' PROVE OrderOK(c)'
    BY <1>4, <1>5, <2>1, <2>3, <2>4, Zenon DEF OrderOK, StartOf, DieOf, Event
  <2>5. ASSUME c \notin missed', e.kind = "start" PROVE SettledOK(c)'
    <3>1. e = StartOf(c)
      BY <1>6, <2>5, Zenon DEF StartOf
    <3>2. CASE Running(c)
      <4>1. Handles("start", c)' /\ ~ Handles("die", c)' /\ handler'.at = "handle"
        BY <1>3, <1>7, <1>8, <2>5 DEF Process
      <4>2. StartOK(c)'
        BY <2>1, <3>2, <4>1 DEF StartOK
      <4> QED  BY <4>1, <4>2, Zenon DEF SettledOK, PolicyOK
    <3>3. CASE ~ Running(c)
      <4>1. In(s, DieOf(c))
        BY <1>5, <2>1, <2>3, <2>5, <3>1, <3>3, Zenon DEF OrderOK
      <4> QED  BY <1>4, <4>1, Zenon DEF SettledOK, Pending, DieOf, Event
    <3> QED  BY <3>2, <3>3
  <2>6. ASSUME c \notin missed', e.kind = "die" PROVE SettledOK(c)'
    <3>1. e = DieOf(c)
      BY <1>6, <2>6, Zenon DEF DieOf
    <3>2. CASE ~ Running(c)
      <4>1. Handles("die", c)' /\ ~ Handles("start", c)' /\ handler'.at # "wait"
        BY <1>7, <1>8, <2>6
      <4>2. DieOK(c)'
        BY <2>1, <3>2, <4>1, Zenon DEF DieOK
      <4> QED  BY <4>1, <4>2, Zenon DEF SettledOK, PolicyOK
    <3>3. CASE Running(c)
      <4>1. In(s, StartOf(c))
        BY <1>5, <2>1, <2>3, <2>6, <3>1, <3>3, Zenon DEF OrderOK
      <4> QED  BY <1>4, <4>1, Zenon DEF SettledOK, Pending, StartOf, Event
    <3> QED  BY <3>2, <3>3
  <2> QED  BY <1>12, <2>1, <2>4, <2>5, <2>6, Zenon DEF Good, TodoOK
<1>13. ASSUME NEW d \in Containers PROVE Good(d)'
  BY <1>6, <1>11, <1>12
<1> QED  BY <1>2, <1>9, <1>10, <1>13, Zenon DEF Inv

(* The handler, or the controller for it, takes a step. *)
LEMMA HandlingStep ==
    ASSUME Inv, UNCHANGED <<state, run, todo, phase, queues>>, missed \subseteq missed',
           HandlerOK', Control',
           \A d \in Containers :
               \/ /\ ~ Handled(d) /\ ~ Handled(d)'
                  /\ force'[d] = force[d] /\ runtime'[d] = runtime[d]
               \/ d \notin todo /\ (d \in missed' \/ (PolicyOK(d) => PolicyOK(d)'))
    PROVE  Inv'
<1>1. UNCHANGED <<stream, message, notifications, subscription, listener>>
  BY Zenon DEF queues
<1>2. QueuesOK' /\ Pipe' = Pipe /\ Daemon' /\ PhaseOK'
  BY <1>1, Zenon DEF Inv, QueuesOK, Pipe, Daemon, PhaseOK
<1>3. ASSUME NEW d \in Containers PROVE Good(d)'
  <2>1. CASE /\ ~ Handled(d) /\ ~ Handled(d)'
             /\ force'[d] = force[d] /\ runtime'[d] = runtime[d]
    <3>1. Same(d)
      BY <2>1, Zenon DEF Same, Running
    <3> QED  BY <1>2, <2>1, <3>1, KeptSame, Frame, Zenon DEF Inv
  <2>2. CASE d \notin todo /\ (d \in missed' \/ (PolicyOK(d) => PolicyOK(d)'))
    <3>1. TodoOK(d)'
      BY <2>2, Zenon DEF TodoOK
    <3>2. ASSUME d \notin missed' PROVE OrderOK(d)' /\ SettledOK(d)'
      <4>1. OrderOK(d) /\ SettledOK(d)
        BY <3>2, Zenon DEF Inv, Good
      <4>2. OrderOK(d)'
        BY <1>2, <4>1, Zenon DEF OrderOK, Running
      <4>3. SettledOK(d)'
        BY <1>2, <2>2, <3>2, <4>1, Zenon DEF SettledOK, Pending
      <4> QED  BY <4>2, <4>3
    <3> QED  BY <3>1, <3>2, Zenon DEF Good
  <2> QED  BY <2>1, <2>2, Zenon
<1> QED  BY <1>2, <1>3, Zenon DEF Inv

(* Which container the handler is about. *)
LEMMA HandlerAbout ==
    ASSUME Inv, handler # None
    PROVE  \E c \in Containers :
              /\ handler \in Handlers /\ handler.ev \in Events /\ handler.ev.id = c
              /\ handler.ev.kind \in {"start", "die", "other"}
              /\ handler.at \in {"handle", "submit", "wait", "kill"} /\ handler.run \in Nat
              /\ \A k, d : Handles(k, d) <=> k = handler.ev.kind /\ d = c
              /\ Handled(c) => c \notin todo
<1>1. handler \in Handlers
  BY Zenon DEF Inv, HandlerOK
<1>2. /\ handler.ev \in Events /\ handler.run \in Nat
      /\ handler.at \in {"handle", "submit", "wait", "kill"}
  BY <1>1 DEF Handlers
<1>3. PICK c \in Containers : handler.ev.id = c /\ handler.ev.kind \in {"start", "die", "other"}
  BY <1>2, EventEqual, Zenon
<1>4. \A k, d : Handles(k, d) <=> k = handler.ev.kind /\ d = c
  BY <1>3, Zenon DEF Handles
<1>5. Handled(c) => c \notin todo
  BY Zenon DEF Inv, Good, TodoOK, Handled
<1> QED  BY <1>1, <1>2, <1>3, <1>4, <1>5, Zenon

(* The handler goes on with its event. *)
LEMMA HandlerGoes ==
    ASSUME handler \in Handlers, NEW at \in {"handle", "submit", "wait", "kill"},
           handler' = [handler EXCEPT !.at = at]
    PROVE  /\ handler' \in Handlers /\ handler' # None
           /\ handler'.at = at /\ handler'.ev = handler.ev /\ handler'.run = handler.run
           /\ \A k, d : Handles(k, d)' <=> k = handler.ev.kind /\ d = handler.ev.id
<1>1. /\ handler' \in Handlers
      /\ handler'.at = at /\ handler'.ev = handler.ev /\ handler'.run = handler.run
  BY Zenon DEF Handlers
<1>2. handler' # None
  BY <1>1, NoneAssumption, Zenon
<1> QED  BY <1>1, <1>2, Zenon DEF Handles

LEMMA HandleStartStep ==
    ASSUME Inv, HandleStart
    PROVE  Inv'
<1>1. /\ handler # None /\ handler.at = "handle"
      /\ UNCHANGED <<state, run, queues, phase, todo, runtime, force, req>>
  BY Zenon DEF HandleStart, daemon, controller
<1>2. PICK c \in Containers :
          /\ handler \in Handlers /\ handler.ev \in Events /\ handler.ev.id = c
          /\ handler.ev.kind \in {"start", "die", "other"}
          /\ handler.at \in {"handle", "submit", "wait", "kill"} /\ handler.run \in Nat
          /\ \A k, d : Handles(k, d) <=> k = handler.ev.kind /\ d = c
          /\ Handled(c) => c \notin todo
  BY <1>1, HandlerAbout, Zenon
<1>3. handler.ev.kind = "start" /\ req[Me].st = "idle"
  BY <1>1 DEF Inv, HandlerOK
<1>4. \/ handler' = None /\ (c \in missed' \/ ~ Running(c))
      \/ Running(c) /\ handler' = [at |-> "submit", ev |-> StartOf(c), run |-> run[c]]
      \/ handler' = [handler EXCEPT !.at = "kill"]
  BY <1>2, Zenon DEF HandleStart, StartContainer, Submission, StartOf
<1>m. missed \subseteq missed'
  BY Zenon DEF HandleStart, StartContainer
<1>5. CASE handler' = None /\ (c \in missed' \/ ~ Running(c))
  <2>1. HandlerOK' /\ Control'
    BY <1>1, <1>3, <1>5, Zenon DEF Inv, HandlerOK, Control
  <2>2. (c \in missed' \/ ~ PolicyOK(c)) /\ c \notin todo
    BY <1>2, <1>3, <1>5, Zenon DEF PolicyOK, StartOK, Handled
  <2>3. ASSUME NEW d \in Containers, d # c PROVE ~ Handled(d) /\ ~ Handled(d)'
    BY <1>2, <1>5, <2>3, Zenon DEF Handled, Handles
  <2> QED  BY <1>1, <1>m, <2>1, <2>2, <2>3, HandlingStep, Zenon
<1>6. CASE /\ handler' \in Handlers /\ handler' # None /\ handler'.at \in {"submit", "kill"}
           /\ handler'.ev.kind = "start" /\ handler'.ev.id = c
           /\ handler'.at = "submit" => handler'.run = run[c]
  <2>1. HandlerOK' /\ Control'
    BY <1>1, <1>3, <1>6 DEF Inv, HandlerOK, Control
  <2>2. \A k, d : Handles(k, d)' <=> k = "start" /\ d = c
    BY <1>6, Zenon DEF Handles
  <2>3. ASSUME PolicyOK(c) PROVE PolicyOK(c)'
    <3>1. Running(c)'
      BY <1>1, <1>2, <1>3, <2>3, ZenonT(30) DEF PolicyOK, StartOK, Running
    <3>2. StartOK(c)'
      BY <1>1, <1>6, <3>1 DEF StartOK
    <3>3. Handles("start", c)' /\ ~ Handles("die", c)'
      BY <2>2
    <3> QED  BY <3>2, <3>3, Zenon DEF PolicyOK
  <2>4. c \notin todo
    BY <1>2, <1>3, Zenon DEF Handled
  <2>5. ASSUME NEW d \in Containers, d # c PROVE ~ Handled(d) /\ ~ Handled(d)'
    BY <1>2, <2>2, <2>5, Zenon DEF Handled
  <2> QED  BY <1>1, <1>m, <2>1, <2>3, <2>4, <2>5, HandlingStep, ZenonT(30)
<1>7. CASE handler' = [handler EXCEPT !.at = "kill"]
  <2>1. /\ handler' \in Handlers /\ handler' # None
        /\ handler'.at = "kill" /\ handler'.ev = handler.ev
    BY <1>2, <1>7, HandlerGoes
  <2> QED  BY <1>2, <1>3, <1>6, <2>1
<1>8. CASE Running(c) /\ handler' = [at |-> "submit", ev |-> StartOf(c), run |-> run[c]]
  <2>1. StartOf(c) \in Events /\ StartOf(c).kind = "start" /\ StartOf(c).id = c
    BY DEF StartOf, Event, Events
  <2>2. PICK e \in Events, r \in Nat : e = StartOf(c) /\ r = run[c]
    BY <2>1 DEF Inv, Daemon
  <2>3. handler' = [at |-> "submit", ev |-> e, run |-> r]
    BY <1>8, <2>2, Zenon
  <2>4. /\ handler' \in Handlers /\ handler' # None /\ handler'.at = "submit"
        /\ handler'.ev = e /\ handler'.run = r
    BY <2>3, HandlerFacts, SMT
  <2>5. handler'.ev.kind = "start" /\ handler'.ev.id = c
    BY <2>1, <2>2, <2>4, Zenon
  <2> QED  BY <1>6, <2>2, <2>4, <2>5, Zenon
<1> QED  BY <1>4, <1>5, <1>7, <1>8

LEMMA CallFacts ==
    /\ Calls("start") = "Start" /\ Calls("die") = "Stop" /\ Calls("other") = "Other"
    /\ \A k : Calls(k) \in {"Start", "Stop", "Other"}
BY DEF Calls

LEMMA RequestFacts ==
    ASSUME NEW e \in Events, NEW r, r = RequestOf(e)
    PROVE  r \in Requests /\ r.st = "pending" /\ r.kind = Calls(e.kind) /\ r.pu = e.id
<1>1. RequestOf(e) = [st |-> "pending", kind |-> Calls(e.kind), pu |-> e.id, pol |-> None, ok |-> TRUE]
  BY DEF RequestOf, PU!Request, Calls
<1>2. e.id \in Containers /\ Calls(e.kind) \in {"Start", "Stop", "Other", None}
  BY EventEqual, CallFacts
<1> QED  BY <1>1, <1>2 DEF Requests

LEMMA SubmitStep ==
    ASSUME Inv, Submit
    PROVE  Inv'
<1>1. /\ handler # None /\ handler.at = "submit" /\ handler' = [handler EXCEPT !.at = "wait"]
      /\ UNCHANGED <<state, run, queues, phase, todo, force, missed>>
      /\ req' = [req EXCEPT ![Me] = RequestOf(handler.ev)]
  BY Zenon DEF Submit, daemon
<1>2. PICK c \in Containers :
          /\ handler \in Handlers /\ handler.ev \in Events /\ handler.ev.id = c
          /\ handler.ev.kind \in {"start", "die", "other"}
          /\ handler.at \in {"handle", "submit", "wait", "kill"} /\ handler.run \in Nat
          /\ \A k, d : Handles(k, d) <=> k = handler.ev.kind /\ d = c
          /\ Handled(c) => c \notin todo
  BY <1>1, HandlerAbout, Zenon
<1>3. /\ handler' \in Handlers /\ handler' # None
      /\ handler'.at = "wait" /\ handler'.ev = handler.ev /\ handler'.run = handler.run
      /\ \A k, d : Handles(k, d)' <=> k = handler.ev.kind /\ d = c
  BY <1>1, <1>2, HandlerGoes
<1>4. PICK r \in Requests : /\ r = RequestOf(handler.ev) /\ r.st = "pending"
                            /\ r.kind = Calls(handler.ev.kind) /\ r.pu = handler.ev.id
  BY <1>2, RequestFacts, Zenon
<1>5. req'[Me] = r /\ req' \in [{Me} -> Requests]
  BY <1>1, <1>4 DEF Inv, Control
<1>6. /\ \A d \in Containers : d # c => runtime'[d] = runtime[d]
      /\ handler.ev.kind = "start" => runtime'[c] = handler.run
      /\ handler.ev.kind # "start" => runtime' = runtime
      /\ runtime' \in [Containers -> Nat]
  BY <1>2 DEF Submit, Inv, Control
<1>7. HandlerOK' /\ Control'
  BY <1>1, <1>3, <1>4, <1>5, <1>6 DEF Inv, HandlerOK, Control
<1>8. ASSUME NEW d \in Containers, ~ Handled(d)
      PROVE  ~ Handled(d)' /\ force'[d] = force[d] /\ runtime'[d] = runtime[d]
  <2>1. ~ Handled(d)'
    BY <1>2, <1>3, <1>8, Zenon DEF Handled
  <2>2. d # c \/ handler.ev.kind # "start"
    BY <1>2, <1>8, Zenon DEF Handled
  <2> QED  BY <1>1, <1>6, <2>1, <2>2, Zenon
<1>9. ASSUME NEW d \in Containers, Handled(d), PolicyOK(d) PROVE PolicyOK(d)'
  <2>1. d = c /\ handler.ev.kind \in {"start", "die"}
    BY <1>2, <1>9 DEF Handled
  <2>2. ~ Answered' /\ (Running(c)' <=> Running(c))
    BY <1>1, <1>4, <1>5 DEF Answered, Running
  <2>3. CASE handler.ev.kind = "start"
    <3>1. StartOK(c) /\ Handles("start", c)' /\ ~ Handles("die", c)'
      BY <1>2, <1>3, <1>9, <2>1, <2>3 DEF PolicyOK
    <3>2. Running(c) /\ handler.run = run[c]
      BY <1>1, <3>1 DEF StartOK
    <3>3. StartOK(c)'
      BY <1>1, <1>3, <1>6, <2>2, <2>3, <3>2, Zenon DEF StartOK
    <3> QED  BY ONLY <2>1, <3>1, <3>3, ZenonT(30) DEF PolicyOK
  <2>4. CASE handler.ev.kind = "die"
    <3>1. DieOK(c) /\ Handles("die", c)' /\ ~ Handles("start", c)'
      BY <1>2, <1>3, <1>9, <2>1, <2>4 DEF PolicyOK
    <3>2. DieOK(c)'
      BY <2>2, <3>1, Zenon DEF DieOK
    <3> QED  BY <2>1, <3>1, <3>2, ZenonT(30) DEF PolicyOK
  <2> QED  BY <2>1, <2>3, <2>4, SMTT(30)
<1>10. \A d \in Containers : Handled(d) => d \notin todo
  BY <1>2, Zenon DEF Handled
<1> QED  BY <1>1, <1>7, <1>8, <1>9, <1>10, HandlingStep, Zenon

(* A request is applied as PUService says. *)
LEMMA ApplyFacts ==
    ASSUME Inv, Controller
    PROVE  /\ req[Me].st = "pending" /\ req'[Me].st = "done"
           /\ req'[Me].kind = req[Me].kind /\ req'[Me].pu = req[Me].pu
           /\ force' \in [Containers -> Policies \cup {None}] /\ req' \in [{Me} -> Requests]
           /\ \A d \in Containers : d # req[Me].pu => force'[d] = force[d]
           /\ req[Me].pu \in Containers =>
                 /\ req[Me].kind = "Start" /\ req'[Me].ok => force'[req[Me].pu] # None
                 /\ req[Me].kind = "Stop" => force'[req[Me].pu] = None
                 /\ req[Me].kind = "Other" => force'[req[Me].pu] = force[req[Me].pu]
<1>1. PICK f \in Policies \cup {None}, ok \in BOOLEAN :
          /\ PU!Effect(req[Me], f, ok)
          /\ force' = [force EXCEPT ![req[Me].pu] = f]
          /\ req' = [req EXCEPT ![Me].st = "done", ![Me].ok = ok]
  BY Zenon DEF Controller, PU!Apply
<1>2. req[Me].st = "pending" /\ (req[Me].kind = "Start" /\ req'[Me].ok => force'[req[Me].pu] # None)
  BY Zenon DEF Controller, PU!Apply
<1>3. req[Me] \in Requests /\ req \in [{Me} -> Requests]
  BY DEF Inv, Control
<1>4. PICK r \in Requests : r = req[Me]
  BY <1>3, Zenon
<1>5. PICK s \in Requests : s = [r EXCEPT !.st = "done", !.ok = ok] /\ s.st = "done"
                            /\ s.kind = r.kind /\ s.pu = r.pu
  <2>1. /\ [r EXCEPT !.st = "done", !.ok = ok] \in Requests
        /\ [r EXCEPT !.st = "done", !.ok = ok].st = "done"
        /\ [r EXCEPT !.st = "done", !.ok = ok].kind = r.kind
        /\ [r EXCEPT !.st = "done", !.ok = ok].pu = r.pu
    BY Zenon DEF Requests
  <2> QED  BY <2>1, Zenon
<1>6. req'[Me] = s /\ req' \in [{Me} -> Requests]
  BY <1>1, <1>3, <1>4, <1>5
<1>7. /\ force' \in [Containers -> Policies \cup {None}]
      /\ \A d \in Containers : d # r.pu => force'[d] = force[d]
      /\ r.pu \in Containers => force'[r.pu] = f
  BY <1>1, <1>4, Zenon DEF Inv, Control
<1>8. (r.kind = "Stop" => f = None) /\ (r.kind = "Other" => f = force[r.pu])
  BY <1>1, <1>4, Zenon DEF PU!Effect
<1> QED  BY <1>2, <1>4, <1>5, <1>6, <1>7, <1>8, Zenon

LEMMA ControllerStep ==
    ASSUME Inv, Controller
    PROVE  Inv'
<1>1. UNCHANGED <<state, run, queues, phase, todo, handler, runtime, missed>>
  BY Zenon DEF Controller, daemon
<1>2. /\ req[Me].st = "pending" /\ req'[Me].st = "done"
      /\ req'[Me].kind = req[Me].kind /\ req'[Me].pu = req[Me].pu
      /\ force' \in [Containers -> Policies \cup {None}] /\ req' \in [{Me} -> Requests]
      /\ \A d \in Containers : d # req[Me].pu => force'[d] = force[d]
      /\ req[Me].pu \in Containers =>
            /\ req[Me].kind = "Start" /\ req'[Me].ok => force'[req[Me].pu] # None
            /\ req[Me].kind = "Stop" => force'[req[Me].pu] = None
            /\ req[Me].kind = "Other" => force'[req[Me].pu] = force[req[Me].pu]
  BY ApplyFacts, ZenonT(30)
<1>3. /\ handler # None /\ handler.at = "wait"
      /\ req[Me].kind = Calls(handler.ev.kind) /\ req[Me].pu = handler.ev.id
  BY <1>2 DEF Inv, HandlerOK
<1>4. PICK c \in Containers :
          /\ handler \in Handlers /\ handler.ev \in Events /\ handler.ev.id = c
          /\ handler.ev.kind \in {"start", "die", "other"}
          /\ handler.at \in {"handle", "submit", "wait", "kill"} /\ handler.run \in Nat
          /\ \A k, d : Handles(k, d) <=> k = handler.ev.kind /\ d = c
          /\ Handled(c) => c \notin todo
  BY <1>3, HandlerAbout, Zenon
<1>5. req[Me].pu = c
  BY ONLY <1>3, <1>4, Zenon
<1>6. HandlerOK' /\ Control'
  BY <1>1, <1>2, <1>3, Zenon DEF Inv, HandlerOK, Control
<1>7. \A k, d : Handles(k, d)' <=> Handles(k, d)
  BY <1>1, Zenon DEF Handles
<1>8. ASSUME NEW d \in Containers, ~ Handled(d)
      PROVE  ~ Handled(d)' /\ force'[d] = force[d] /\ runtime'[d] = runtime[d]
  <2>1. d # c \/ handler.ev.kind = "other"
    BY <1>4, <1>8 DEF Handled
  <2>2. force'[d] = force[d]
    BY ONLY d \in Containers, <1>2, <1>3, <1>5, <2>1, CallFacts, ZenonT(30)
  <2> QED  BY <1>1, <1>7, <1>8, <2>2, Zenon DEF Handled
<1>9. ASSUME NEW d \in Containers, Handled(d), PolicyOK(d) PROVE PolicyOK(d)'
  <2>1. d = c /\ handler.ev.kind \in {"start", "die"} /\ (Running(c)' <=> Running(c))
    BY <1>1, <1>4, <1>9 DEF Handled, Running
  <2>2. CASE handler.ev.kind = "start"
    <3>1. StartOK(c) /\ Handles("start", c)' /\ ~ Handles("die", c)'
      BY <1>4, <1>7, <1>9, <2>1, <2>2 DEF PolicyOK
    <3>2. req'[Me].ok => force'[c] # None
      BY <1>2, <1>3, <1>5, <2>2, CallFacts, Zenon
    <3>3. StartOK(c)'
      BY <1>1, <2>1, <3>1, <3>2, Zenon DEF StartOK
    <3> QED  BY ONLY <2>1, <3>1, <3>3, ZenonT(30) DEF PolicyOK
  <2>3. CASE handler.ev.kind = "die"
    <3>1. DieOK(c) /\ Handles("die", c)' /\ ~ Handles("start", c)'
      BY <1>4, <1>7, <1>9, <2>1, <2>3 DEF PolicyOK
    <3>2. force'[c] = None
      BY <1>2, <1>3, <1>5, <2>3, CallFacts, Zenon
    <3>3. DieOK(c)'
      BY <2>1, <3>1, <3>2, Zenon DEF DieOK
    <3> QED  BY <2>1, <3>1, <3>3, ZenonT(30) DEF PolicyOK
  <2> QED  BY <2>1, <2>2, <2>3
<1>10. \A d \in Containers : Handled(d) => d \notin todo
  BY <1>4, Zenon DEF Handled
<1>11. missed \subseteq missed'
  BY <1>1
<1> QED  BY <1>1, <1>6, <1>8, <1>9, <1>10, <1>11, HandlingStep, Zenon

LEMMA AnswerStep ==
    ASSUME Inv, Answer
    PROVE  Inv'
<1>1. /\ req[Me].st = "done" /\ req' = [req EXCEPT ![Me] = PU!NoRequest]
      /\ UNCHANGED <<state, run, queues, phase, todo, runtime, force, missed>>
      /\ handler' = IF handler.ev.kind = "start" /\ ~ req[Me].ok
                    THEN [handler EXCEPT !.at = "kill"] ELSE None
  BY Zenon DEF Answer, PU!Answer, daemon
<1>2. handler # None /\ handler.at = "wait" /\ req[Me].kind = Calls(handler.ev.kind)
  BY <1>1 DEF Inv, HandlerOK
<1>3. PICK c \in Containers :
          /\ handler \in Handlers /\ handler.ev \in Events /\ handler.ev.id = c
          /\ handler.ev.kind \in {"start", "die", "other"}
          /\ handler.at \in {"handle", "submit", "wait", "kill"} /\ handler.run \in Nat
          /\ \A k, d : Handles(k, d) <=> k = handler.ev.kind /\ d = c
          /\ Handled(c) => c \notin todo
  BY <1>2, HandlerAbout, Zenon
<1>4. req'[Me].st = "idle" /\ req' \in [{Me} -> Requests]
  <2>1. PU!NoRequest \in Requests /\ PU!NoRequest.st = "idle"
    BY DEF PU!NoRequest, PU!Request, Requests
  <2> QED  BY <1>1, <2>1 DEF Inv, Control
<1>5. Control' /\ missed \subseteq missed'
  BY <1>1, <1>4, Zenon DEF Inv, Control
<1>6. Answered /\ (Running(c)' <=> Running(c)) /\ (Policed(c)' <=> Policed(c))
  BY <1>1, Zenon DEF Answered, Running, Policed
<1>7. \A d \in Containers : Handled(d) => d = c /\ d \notin todo
  BY <1>3, Zenon DEF Handled
<1>8. CASE handler.ev.kind = "start" /\ ~ req[Me].ok
  <2>1. handler' = [handler EXCEPT !.at = "kill"]
    BY <1>1, <1>8, Zenon
  <2>2. /\ handler' \in Handlers /\ handler' # None
        /\ handler'.at = "kill" /\ handler'.ev = handler.ev
        /\ \A k, d : Handles(k, d)' <=> k = handler.ev.kind /\ d = c
    BY <1>3, <2>1, HandlerGoes
  <2>3. HandlerOK'
    BY <1>4, <1>8, <2>2 DEF HandlerOK
  <2>4. ASSUME PolicyOK(c) PROVE PolicyOK(c)'
    <3>1. Handles("start", c)' /\ ~ Handles("die", c)' /\ StartOK(c)
      <4>1. Handles("start", c)
        BY ONLY <1>3, <1>8, Zenon
      <4>2. \A k : Handles(k, c)' <=> k = "start"
        BY ONLY <1>8, <2>2, Zenon
      <4> QED  BY ONLY <2>4, <4>1, <4>2, KindsDiffer, Zenon DEF PolicyOK
    <3>2. StartOK(c)'
      BY <1>6, <2>2, <3>1, SMTT(30) DEF StartOK
    <3> QED  BY <3>1, <3>2, Zenon DEF PolicyOK
  <2>5. \A d \in Containers : Handled(d)' => Handled(d)
    BY <1>3, <2>2, Zenon DEF Handled
  <2> QED  BY <1>1, <1>5, <1>7, <2>3, <2>4, <2>5, HandlingStep, Zenon
<1>9. CASE ~ (handler.ev.kind = "start" /\ ~ req[Me].ok)
  <2>1. handler' = None
    BY <1>1, <1>9, Zenon
  <2>2. HandlerOK' /\ \A k, d : ~ Handles(k, d)'
    BY <1>4, <2>1, Zenon DEF HandlerOK, Handles
  <2>3. ASSUME PolicyOK(c), Handled(c) PROVE PolicyOK(c)'
    <3>1. CASE handler.ev.kind = "start"
      <4>1. StartOK(c) /\ req[Me].ok
        BY <1>3, <1>9, <2>3, <3>1, ZenonT(30) DEF PolicyOK
      <4>2. Running(c) /\ Policed(c)
        BY <1>2, <1>6, <4>1 DEF StartOK, Policed
      <4> QED  BY <1>6, <2>2, <4>2, Zenon DEF PolicyOK
    <3>2. CASE handler.ev.kind = "die"
      <4>1. DieOK(c)
        BY <1>3, <2>3, <3>2, Zenon DEF PolicyOK
      <4>2. ~ Running(c) /\ force'[c] = None
        BY <1>1, <1>2, <1>6, <4>1, Zenon DEF DieOK
      <4> QED  BY <1>6, <2>2, <4>2, Zenon DEF PolicyOK
    <3> QED  BY <1>3, <2>3, <3>1, <3>2, Zenon DEF Handled
  <2>4. \A d \in Containers : ~ Handled(d)'
    BY <2>2, Zenon DEF Handled
  <2> QED  BY <1>1, <1>5, <1>7, <2>2, <2>3, <2>4, HandlingStep, Zenon
<1> QED  BY <1>8, <1>9

LEMMA KillStep ==
    ASSUME Inv, Kill
    PROVE  Inv'
<1>1. /\ handler # None /\ handler.at = "kill" /\ handler' = None
      /\ UNCHANGED <<run, subscription, listener, message, notifications, phase, todo, runtime,
                     force, req>>
  BY Zenon DEF Kill, controller
<1>2. PICK c \in Containers :
          /\ handler \in Handlers /\ handler.ev \in Events /\ handler.ev.id = c
          /\ handler.ev.kind \in {"start", "die", "other"}
          /\ handler.at \in {"handle", "submit", "wait", "kill"} /\ handler.run \in Nat
          /\ \A k, d : Handles(k, d) <=> k = handler.ev.kind /\ d = c
          /\ Handled(c) => c \notin todo
  BY <1>1, HandlerAbout, Zenon
<1>3. handler.ev.kind = "start" /\ req[Me].st = "idle"
  BY <1>1 DEF Inv, HandlerOK
<1>4. c \notin todo /\ Handles("start", c)
  BY <1>2, <1>3, Zenon DEF Handled
<1>5. \A d \in Containers : ~ Handled(d)' /\ (d # c => ~ Handled(d))
  BY <1>1, <1>2, Zenon DEF Handled, Handles
<1>6. HandlerOK' /\ Control' /\ PhaseOK'
  BY <1>1, <1>3, Zenon DEF Inv, HandlerOK, Control, PhaseOK
<1>7. CASE Running(c) /\ state' = [state EXCEPT ![c] = "exited"] /\ Emit("die", c)
  <2>1. /\ QueuesOK'
        /\ \A d \in Containers : d # c => Kept(d) /\ (d \in missed' <=> d \in missed)
    <3>1. "die" \in {"start", "die", "other"}
      OBVIOUS
    <3>2. UNCHANGED <<message, notifications, listener, subscription>>
      BY <1>1, Zenon
    <3> QED  BY <1>7, <3>1, <3>2, EmitElsewhere, Zenon DEF Inv
  <2>2. /\ state' \in [Containers -> {"none", "created", "running", "paused", "exited", "removed"}]
        /\ state'[c] = "exited" /\ \A d \in Containers : d # c => state'[d] = state[d]
    BY <1>7 DEF Inv, Daemon
  <2>3. Daemon'
    BY <1>1, <2>2, Zenon DEF Inv, Daemon
  <2>4. ASSUME NEW d \in Containers, d # c PROVE Good(d)'
    <3>1. Same(d)
      BY <1>1, <2>1, <2>2, <2>4, Zenon DEF Same, Running
    <3> QED  BY <1>5, <2>1, <2>4, <3>1, Frame, Zenon DEF Inv
  <2>5. Good(c)'
    <3>1. TodoOK(c)' /\ UNCHANGED <<message, notifications, todo>>
      BY <1>1, <1>4, Zenon DEF TodoOK
    <3>2. (Running(c)' <=> "die" = "start") /\ "die" \in {"start", "die"}
      BY <2>2 DEF Running
    <3> QED  BY <1>7, <3>1, <3>2, EmitAbout, Zenon DEF Inv
  <2> QED  BY <1>6, <2>1, <2>3, <2>4, <2>5, Zenon DEF Inv
<1>8. CASE /\ UNCHANGED <<state, stream>> /\ missed \subseteq missed'
           /\ c \in missed' \/ ~ Running(c)
  <2>1. ~ Running(c) => ~ PolicyOK(c)
    BY <1>4, Zenon DEF PolicyOK, StartOK
  <2>2. UNCHANGED <<state, run, todo, phase, queues>>
    BY <1>1, <1>8, Zenon DEF queues
  <2>3. UNCHANGED <<force, runtime>>
    BY <1>1, Zenon
  <2> QED  BY <1>4, <1>5, <1>6, <1>8, <2>1, <2>2, <2>3, HandlingStep, Zenon
<1>9. \/ Running(c) /\ state' = [state EXCEPT ![c] = "exited"] /\ Emit("die", c)
      \/ ~ Running(c) /\ UNCHANGED <<state, stream, missed>>
      \/ missed' = missed \cup {c} /\ UNCHANGED <<state, stream>>
  BY <1>2, Zenon DEF Kill
<1> QED  BY <1>7, <1>8, <1>9

-----------------------------------------------------------------------------
(* THE MONITOR *)

LEMMA InitInv ==
    ASSUME Init
    PROVE  Inv
<1>1. /\ state \in [Containers -> {"none", "running", "exited"}]
      /\ run = [c \in Containers |-> IF state[c] = "none" THEN 0 ELSE 1]
      /\ stream = <<>> /\ message = <<>> /\ notifications = <<>> /\ phase = "new"
      /\ todo = IF SyncAtStart THEN Containers ELSE {}
      /\ handler = None /\ runtime = [c \in Containers |-> 0]
      /\ force = [c \in Containers |-> None] /\ req = [m \in {Me} |-> PU!NoRequest]
      /\ missed = IF SyncAtStart THEN {} ELSE {c \in Containers : Running(c)}
  BY Zenon DEF Init, PU!Init
<1>2. Daemon /\ QueuesOK /\ PhaseOK
  BY <1>1, SyncAssumption DEF Daemon, QueuesOK, PhaseOK
<1>3. PU!NoRequest \in Requests /\ PU!NoRequest.st = "idle"
  BY DEF PU!NoRequest, PU!Request, Requests
<1>4. Control /\ HandlerOK
  BY <1>1, <1>3 DEF Control, HandlerOK
<1>5. Pipe = <<>>
  BY <1>1 DEF Pipe
<1>6. ASSUME NEW c \in Containers PROVE Good(c)
  <2>1. OrderOK(c)
    BY <1>5 DEF OrderOK, Follows
  <2>2. ~ Handles("start", c) /\ ~ Handles("die", c) /\ force[c] = None
    BY <1>1 DEF Handles
  <2>3. c \in missed \/ c \in todo \/ ~ Running(c)
    BY <1>1, SyncAssumption, Zenon
  <2> QED  BY <2>1, <2>2, <2>3, Zenon DEF Good, TodoOK, SettledOK, PolicyOK
<1> QED  BY <1>2, <1>4, <1>6, Zenon DEF Inv

LEMMA NextInv ==
    ASSUME Inv, [Next]_vars
    PROVE  Inv'
<1>1. CASE UNCHANGED vars
  BY <1>1, PhaseStep, Zenon
<1>2. ASSUME NEW c \in Containers,
             Create(c) \/ Run(c) \/ Die(c) \/ Pause(c) \/ Unpause(c) \/ Destroy(c) \/ Visit(c)
      PROVE  Inv'
  BY <1>2, DaemonStep, VisitStep, Zenon
<1>3. CASE StreamFails \/ Subscribe \/ Receive \/ Notify
  BY <1>3, StreamFailsStep, ListenerStep, Zenon
<1>4. CASE Start \/ List \/ Started \/ Stop \/ StopListener \/ StopProcessor
  BY <1>4, PhaseStep, ListStep, Zenon
<1>5. CASE Process \/ HandleStart \/ Submit \/ Controller \/ Answer \/ Kill
  BY <1>5, ProcessStep, HandleStartStep, SubmitStep, ControllerStep, AnswerStep, KillStep, Zenon
<1> QED  BY <1>1, <1>2, <1>3, <1>4, <1>5, Zenon DEF Next

(* In every state the last event of a container that is on its way tells whether
   the container runs; and when none is, its policy is the one of its last run,
   or the handler that sees to it has read that run. *)
THEOREM Invariant == Spec => []Inv
BY InitInv, NextInv, PTL DEF Spec

LEMMA WayFacts ==
    ASSUME QueuesOK, NEW e
    PROVE  OnItsWay(e) <=> In(Pipe, e)
<1>1. PICK s \in Seq(Events), m \in Seq(Events), n \in Seq(Events) :
          s = stream /\ m = message /\ n = notifications
  BY Zenon DEF QueuesOK
<1>2. s \o m \in Seq(Events) /\ m \o s \in Seq(Events)
  BY ConcatProperties
<1>3. In(s \o m \o n, e) <=> In(n \o (m \o s), e)
  BY <1>2, InConcat, Zenon
<1>4. e \in Range(s \o m \o n) <=> In(s \o m \o n, e)
  BY Zenon DEF Range, In
<1> QED  BY <1>1, <1>3, <1>4, Zenon DEF OnItsWay, Pipe

LEMMA HandlingFacts ==
    ASSUME Inv, NEW c \in Containers, NEW k \in {"start", "die"}, NEW ats
    PROVE  Handling(k, c, ats) <=> Handles(k, c) /\ handler.at \in ats
<1>1. ASSUME handler # None
      PROVE  handler.ev = Event(k, c) <=> handler.ev.kind = k /\ handler.ev.id = c
  <2>1. PICK e \in Events : e = handler.ev
    BY <1>1, HandlerAbout, Zenon
  <2>2. e = Event(e.kind, e.id)
    BY EventEqual, Zenon
  <2>3. Event(k, c).kind = k /\ Event(k, c).id = c
    BY EventFacts, SMT
  <2> QED  BY <2>1, <2>2, <2>3, Zenon
<1> QED  BY <1>1, Zenon DEF Handling, Handles

LEMMA Covered ==
    ASSUME Inv, NEW c \in Containers, c \notin missed, Running(c)
    PROVE  \/ Policed(c) /\ ~ OnItsWay(Event("die", c)) /\ ~ Handling("die", c, {"submit", "wait"})
           \/ c \in todo \/ OnItsWay(Event("start", c)) \/ Handling("start", c, {"handle", "kill"})
           \/ Handling("start", c, {"submit", "wait"}) /\ handler.run = run[c]
<1>1. OrderOK(c) /\ SettledOK(c) /\ QueuesOK
  BY Zenon DEF Inv, Good
<1>2. In(Pipe, DieOf(c)) => In(Pipe, StartOf(c))
  BY <1>1, Zenon DEF OrderOK, Follows, In
<1>3. /\ OnItsWay(Event("start", c)) <=> In(Pipe, StartOf(c))
      /\ OnItsWay(Event("die", c)) <=> In(Pipe, DieOf(c))
  BY <1>1, WayFacts, Zenon DEF StartOf, DieOf
<1>4. \A ats : /\ Handling("start", c, ats) <=> Handles("start", c) /\ handler.at \in ats
               /\ Handling("die", c, ats) <=> Handles("die", c) /\ handler.at \in ats
  BY HandlingFacts
<1>5. CASE c \in todo \/ In(Pipe, StartOf(c))
  BY <1>3, <1>5, Zenon
<1>6. CASE PolicyOK(c) /\ ~ In(Pipe, DieOf(c))
  <2>1. ~ Handles("die", c)
    BY <1>6, Zenon DEF PolicyOK, DieOK
  <2>2. CASE Handles("start", c)
    <3>1. handler.at \in {"handle", "submit", "wait", "kill"} /\ StartOK(c)
      BY <1>6, <2>2, HandlerAbout, Zenon DEF PolicyOK, Handles
    <3> QED  BY <1>4, <2>2, <3>1 DEF StartOK
  <2>3. CASE ~ Handles("start", c)
    <3>1. Policed(c)
      BY <1>6, <2>1, <2>3, Zenon DEF PolicyOK
    <3> QED  BY <1>3, <1>4, <1>6, <2>1, <3>1, Zenon
  <2> QED  BY <2>2, <2>3, Zenon
<1> QED  BY <1>1, <1>2, <1>5, <1>6, Zenon DEF SettledOK, Pending

LEMMA Released ==
    ASSUME Inv, NEW c \in Containers, c \notin missed, ~ Running(c)
    PROVE  \/ force[c] = None /\ ~ Handling("start", c, {"submit", "wait"})
           \/ OnItsWay(Event("die", c)) \/ Handling("die", c, {"submit", "wait"})
<1>1. OrderOK(c) /\ SettledOK(c) /\ TodoOK(c) /\ QueuesOK
  BY Zenon DEF Inv, Good
<1>2. In(Pipe, StartOf(c)) => In(Pipe, DieOf(c))
  BY <1>1, Zenon DEF OrderOK, Follows, In
<1>3. OnItsWay(Event("die", c)) <=> In(Pipe, DieOf(c))
  BY <1>1, WayFacts, Zenon DEF DieOf
<1>4. \A ats : /\ Handling("start", c, ats) <=> Handles("start", c) /\ handler.at \in ats
               /\ Handling("die", c, ats) <=> Handles("die", c) /\ handler.at \in ats
  BY HandlingFacts
<1>5. CASE c \in todo
  BY <1>1, <1>4, <1>5, Zenon DEF TodoOK
<1>6. CASE PolicyOK(c)
  <2>1. ~ Handles("start", c)
    BY <1>6, Zenon DEF PolicyOK, StartOK
  <2>2. CASE Handles("die", c)
    <3>1. handler.at \in {"handle", "submit", "wait", "kill"}
      BY <2>2, HandlerAbout, Zenon DEF Handles
    <3>2. handler.at \notin {"handle", "kill"}
      BY <2>2 DEF Inv, HandlerOK, Handles
    <3> QED  BY <1>4, <2>2, <3>1, <3>2
  <2>3. CASE ~ Handles("die", c)
    BY <1>4, <1>6, <2>1, <2>3, Zenon DEF PolicyOK
  <2> QED  BY <2>2, <2>3, Zenon
<1> QED  BY <1>1, <1>2, <1>3, <1>5, <1>6, Zenon DEF SettledOK, Pending

(* A container that runs is policed for this run, or its visit, its start event or
   the handler of that event is still to come (eventProcessor, handleStartEvent,
   syncContainers), whatever failed for other containers.  What is excepted is
   each container of which an event, its metadata, its inspection or its kill was
   lost, until its next event. *)
THEOREM RunningIsCoveredAlways == Spec => []RunningIsCovered
<1>1. Inv => RunningIsCovered
  BY Covered, Zenon DEF RunningIsCovered
<1> QED  BY <1>1, Invariant, PTL

(* A container that has ended is not policed, or its die event is still to be
   handled: handleDieEvent, behind a start event of a run that is over. *)
THEOREM EndedIsReleasedAlways == Spec => []EndedIsReleased
<1>1. Inv => EndedIsReleased
  BY Released, Zenon DEF EndedIsReleased
<1> QED  BY <1>1, Invariant, PTL
=============================================================================
