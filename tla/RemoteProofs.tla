----------------------------- MODULE RemoteProofs -----------------------------
(* Proofs about remote enforcement: whatever fails and whichever processes die,
   no process is orphaned and Supervise is only called in a process with a
   supervisor; a PU that is reported as running is policed; and a PU that is
   deleted has no process, for any number of PUs and of failures.

   The worker handles one PU at a time and touches the state of no other, so
   the invariant has a part for a PU at rest and a part for the PU in hand,
   which says how far its process has come.                                   *)
EXTENDS Remote, TLAPS

(* What has not gone wrong for a PU, since the last request for it or ever. *)
Lives(p) == "crash" \notin Lately(p)
Heard(p) == "supervise" \notin Lately(p)
Started(p) == "start" \notin Suffered(p)
Linked(p) == "dial" \notin Suffered(p)
Sound(p) == Suffered(p) \cap {"dial", "init", "crash"} = {}

(* The states of a PU: nothing is left of it; its process is new; it has an
   enforcer; it has a supervisor, too; its Enforce was undone, and the process,
   which is marked for deletion, may have died in a second InitEnforcer. *)
Gone(p) == /\ proc[p] = None /\ active[p] = None
           /\ p \notin client /\ p \notin initE /\ p \notin initS
Launched(p) == proc[p] # None /\ active[p] # None /\ p \in client
New(p) == Launched(p) /\ active[p] = FALSE /\ ~ proc[p].enf /\ p \notin initE /\ p \notin initS
Ready(p) == Launched(p) /\ proc[p].enf /\ p \in initE
Up(p) == Ready(p) /\ active[p] = FALSE /\ proc[p].enforced /\ p \in initS
Undone(p) == /\ active[p] = TRUE /\ p \in client /\ p \notin initE /\ p \notin initS
             /\ proc[p] # None => proc[p].enf

Settled(p) == Gone(p) \/ Up(p) \/ Undone(p)
Policed(p) == /\ proc[p] # None /\ proc[p].enforced
              /\ Heard(p) => proc[p].supervised
              /\ Started(p) => proc[p].captured
Removed(p) == Linked(p) => proc[p] = None

(* A PU at any time, what its server holds, and a PU that is not in hand. *)
Local(p) ==
    /\ proc[p] # None => active[p] # None
    /\ p \in initS => active[p] # None /\ (proc[p] # None => proc[p].sup)
Served(p) == proc[p] # None =>
    /\ Linked(p) => p \in client
    /\ proc[p].sup => proc[p].enf
    /\ proc[p].sup /\ Started(p) => proc[p].captured
    /\ proc[p].sup /\ active[p] = FALSE => proc[p].enforced
Rest(p) ==
    /\ p \in running /\ Lives(p) => Policed(p)
    /\ p \notin runtime => Removed(p)
    /\ Sound(p) => Settled(p) /\ (p \notin runtime => Gone(p))

Types ==
    /\ active \in [PUs -> BOOLEAN \cup {None}]
    /\ client \subseteq PUs /\ initE \subseteq PUs /\ initS \subseteq PUs
    /\ proc \in [PUs -> Procs \cup {None}]
    /\ excluded \in Lists \cup {None}
    /\ runtime \subseteq PUs /\ running \subseteq PUs
    /\ step \in [at : {"idle", "launch", "initEnforcer", "enforce", "initSupervisor", "supervise",
                       "rollback", "unsupervise", "unenforce", "reply"},
                 pu : PUs \cup {None}, ok : BOOLEAN]

StepOK ==
    /\ step.at = "idle" => step = Idle
    /\ step.at # "idle" => P \in PUs
    /\ step.at \notin {"idle", "reply"} => P \in runtime
    /\ step.at = "rollback" => step.ok = FALSE

(* The PU in hand, before each step of the worker. *)
InHand ==
    /\ step.at \in {"rollback", "unenforce"} => P \notin initS
    /\ step.at \in {"initSupervisor", "supervise"} =>
          /\ proc[P] # None => proc[P].enforced
          /\ Lives(P) => proc[P] # None
    /\ step.at = "unenforce" /\ Linked(P) /\ proc[P] # None =>
          active[P] = TRUE /\ proc[P].enf /\ proc[P].enforced
    /\ step.at = "reply" /\ P \notin runtime => Removed(P)
    /\ step.at = "reply" /\ step.ok = TRUE /\ P \in runtime /\ Lives(P) => Policed(P)

Progress == Sound(P) =>
    /\ step.at \in {"launch", "unsupervise"} => Settled(P)
    /\ step.at = "initEnforcer" => New(P) \/ Up(P) \/ Undone(P)
    /\ step.at \in {"enforce", "initSupervisor", "supervise", "rollback"} =>
          Ready(P) /\ active[P] = FALSE
    /\ step.at \in {"initSupervisor", "supervise", "rollback"} => proc[P].enforced
    /\ step.at = "supervise" => P \in initS
    /\ step.at = "unenforce" => Gone(P) \/ (Ready(P) /\ active[P] = TRUE /\ proc[P].enforced)
    /\ step.at = "reply" => Settled(P) /\ (P \notin runtime => Gone(P))

Inv ==
    /\ Types /\ StepOK
    /\ \A p \in PUs : Local(p) /\ Served(p) /\ (p # P => Rest(p))
    /\ step.at # "idle" => InHand /\ Progress

-----------------------------------------------------------------------------
(* RECORDS AND FUNCTIONS *)

Steps == {"idle", "launch", "initEnforcer", "enforce", "initSupervisor", "supervise",
          "rollback", "unsupervise", "unenforce", "reply"}
StepRecords == [at : Steps, pu : PUs \cup {None}, ok : BOOLEAN]

LEMMA GotoFacts ==
    ASSUME step \in StepRecords, NEW s \in Steps, Goto(s)
    PROVE  step' \in StepRecords /\ step'.at = s /\ step'.pu = step.pu /\ step'.ok = step.ok
BY DEF Goto, StepRecords

LEMMA FailedFacts ==
    ASSUME step \in StepRecords, NEW s \in Steps, Failed(s)
    PROVE  step' \in StepRecords /\ step'.at = s /\ step'.pu = step.pu /\ step'.ok = FALSE
BY Zenon DEF Failed, StepRecords

LEMMA IdleFacts ==
    /\ Idle \in StepRecords /\ Idle.at = "idle" /\ Idle.pu = None
    /\ \A s \in Steps, p \in PUs : /\ Step(s, p, TRUE) \in StepRecords
                                   /\ Step(s, p, TRUE).at = s /\ Step(s, p, TRUE).pu = p
BY DEF Idle, Step, StepRecords, Steps

Processes == [PUs -> Procs \cup {None}]

LEMMA ProcUpdate ==
    ASSUME proc \in Processes, NEW p \in PUs, NEW v \in Procs \cup {None},
           proc' = [proc EXCEPT ![p] = v]
    PROVE  proc' \in Processes /\ proc'[p] = v /\ \A q \in PUs \ {p} : proc'[q] = proc[q]
BY DEF Processes

LEMMA FreshFacts == Fresh \in Procs /\ ~ Fresh.enf /\ ~ Fresh.sup
BY DEF Fresh, Procs

(* A field of the server's record is set, the others stay. *)
LEMMA SetEnf ==
    ASSUME NEW r \in Procs
    PROVE  LET s == [r EXCEPT !.enf = TRUE]
           IN  /\ s \in Procs /\ s.enf = TRUE /\ s.sup = r.sup
               /\ s.enforced = r.enforced /\ s.captured = r.captured
BY Zenon DEF Procs

LEMMA SetEnforced ==
    ASSUME NEW r \in Procs, NEW b \in BOOLEAN
    PROVE  LET s == [r EXCEPT !.enforced = b]
           IN  /\ s \in Procs /\ s.enforced = b /\ s.sup = r.sup /\ s.enf = r.enf
               /\ s.captured = r.captured
BY Zenon DEF Procs

LEMMA SetSup ==
    ASSUME NEW r \in Procs, NEW b \in BOOLEAN
    PROVE  LET s == [r EXCEPT !.sup = TRUE, !.supervised = FALSE, !.captured = b, !.excl = None]
           IN  /\ s \in Procs /\ s.enforced = r.enforced /\ s.sup = TRUE /\ s.enf = r.enf
               /\ s.captured = b
BY Zenon DEF Procs

LEMMA SetSupervised ==
    ASSUME NEW r \in Procs, NEW l \in Lists \cup {None}, NEW b \in BOOLEAN
    PROVE  LET s == [r EXCEPT !.supervised = b, !.excl = l]
           IN  /\ s \in Procs /\ s.enforced = r.enforced /\ s.sup = r.sup /\ s.enf = r.enf
               /\ s.captured = r.captured /\ s.supervised = b
BY Zenon DEF Procs

LEMMA ClearSupervised ==
    ASSUME NEW r \in Procs
    PROVE  LET s == [r EXCEPT !.supervised = FALSE]
           IN  /\ s \in Procs /\ s.enforced = r.enforced /\ s.sup = r.sup /\ s.enf = r.enf
               /\ s.captured = r.captured
BY Zenon DEF Procs

-----------------------------------------------------------------------------
(* FAILURES.  What has gone wrong is never forgotten. *)

Remember(q) ==
    /\ Sound(q)' => Sound(q)
    /\ Linked(q)' => Linked(q)
    /\ Started(q)' => Started(q)
    /\ Lives(q)' => Lives(q)
    /\ Heard(q)' => Heard(q)
Remembered == \A q \in PUs : Remember(q)

LEMMA NoFaultFacts ==
    ASSUME NoFault
    PROVE  Remembered
BY DEF NoFault, Remembered, Remember, Sound, Linked, Started, Lives, Heard, Suffered, Lately

LEMMA FaultFacts ==
    ASSUME NEW p \in PUs, NEW k, FaultOf(p, k)
    PROVE  /\ Remembered
           /\ k \in {"dial", "init", "crash"} => ~ Sound(p)'
           /\ k = "dial" => ~ Linked(p)'
           /\ k = "start" => ~ Started(p)'
           /\ k = "crash" => ~ Lives(p)'
           /\ k = "supervise" => ~ Heard(p)'
<1>1. /\ faults' = faults \cup {<<p, k>>} /\ k \in FaultKinds
      /\ recent' = recent \cup {<<p, k>>}
  BY DEF FaultOf
<1>2. \A q : Suffered(q) \subseteq Suffered(q)' /\ Lately(q) \subseteq Lately(q)'
  BY <1>1 DEF Suffered, Lately
<1>3. k \in Suffered(p)' /\ k \in Lately(p)'
  BY <1>1 DEF Suffered, Lately
<1>4. Remembered
  BY <1>2 DEF Remembered, Remember, Sound, Linked, Started, Lives, Heard
<1> QED  BY <1>3, <1>4 DEF Sound, Linked, Started, Lives, Heard

-----------------------------------------------------------------------------
(* THE FRAME.  A PU that a step does not touch stays as it is. *)

Same(q) ==
    /\ active'[q] = active[q] /\ proc'[q] = proc[q]
    /\ (q \in client') <=> (q \in client)
    /\ (q \in initE') <=> (q \in initE)
    /\ (q \in initS') <=> (q \in initS)
    /\ (q \in runtime') <=> (q \in runtime)
    /\ (q \in running') <=> (q \in running)

LEMMA SameLocal ==
    ASSUME NEW q \in PUs, Same(q), Local(q)
    PROVE  Local(q)'
BY DEF Same, Local

LEMMA SameServed ==
    ASSUME NEW q \in PUs, Same(q), Remember(q), Served(q)
    PROVE  Served(q)'
BY DEF Same, Served, Remember

LEMMA SamePoliced ==
    ASSUME NEW q \in PUs, Same(q), Remember(q)
    PROVE  (Policed(q) => Policed(q)') /\ (Removed(q) => Removed(q)')
BY DEF Same, Policed, Removed, Remember

LEMMA SameState ==
    ASSUME NEW q \in PUs, Same(q)
    PROVE  /\ Gone(q)' <=> Gone(q)
           /\ Up(q)' <=> Up(q)
           /\ Undone(q)' <=> Undone(q)
<1>1. (Gone(q)' <=> Gone(q)) /\ (Undone(q)' <=> Undone(q))
  BY DEF Same, Gone, Undone
<1>2. Up(q)' <=> Up(q)
  BY DEF Same, Up, Ready, Launched
<1> QED  BY <1>1, <1>2

LEMMA SameRest ==
    ASSUME NEW q \in PUs, Same(q), Remember(q), Rest(q)
    PROVE  Rest(q)'
BY SameState, SamePoliced DEF Rest, Settled, Remember, Same

(* A step of the worker on the PU in hand. *)
LEMMA HandStep ==
    ASSUME Inv, NEW p \in PUs, p = P, Remembered, \A q \in PUs \ {p} : Same(q),
           active' \in [PUs -> BOOLEAN \cup {None}], proc' \in Processes,
           client' \subseteq PUs, initE' \subseteq PUs, initS' \subseteq PUs,
           runtime' \subseteq PUs, UNCHANGED <<running, excluded>>,
           step' \in StepRecords, step'.pu = p, step'.at # "idle",
           step'.at = "reply" \/ p \in runtime', step'.at = "rollback" => step'.ok = FALSE,
           Local(p)', Served(p)', InHand', Progress'
    PROVE  Inv'
<1>1. Types'
  BY Zenon DEF Inv, Types, Processes, StepRecords, Steps
<1>2. StepOK'
  BY DEF StepOK, P
<1>3. \A q \in PUs : Local(q)' /\ Served(q)' /\ (q # p => Rest(q)')
  BY SameLocal, SameServed, SameRest DEF Inv, Remembered
<1>4. P' = p
  BY DEF P
<1> QED  BY <1>1, <1>2, <1>3, <1>4 DEF Inv

(* What the invariant says of the PU in hand. *)
HandOK ==
    /\ P \in PUs /\ step \in StepRecords /\ proc \in Processes
    /\ active \in [PUs -> BOOLEAN \cup {None}]
    /\ client \subseteq PUs /\ initE \subseteq PUs /\ initS \subseteq PUs
    /\ runtime \subseteq PUs /\ excluded \in Lists \cup {None}
    /\ proc[P] # None => proc[P] \in Procs
    /\ Local(P) /\ Served(P) /\ InHand /\ Progress
    /\ step.at # "reply" => P \in runtime

LEMMA HandFacts ==
    ASSUME Inv, step.at # "idle"
    PROVE  HandOK
<1>1. Types /\ StepOK /\ P \in PUs /\ InHand /\ Progress /\ Local(P) /\ Served(P)
  BY DEF Inv, StepOK
<1>2. step.at # "reply" => P \in runtime
  BY <1>1 DEF StepOK
<1>3. /\ step \in StepRecords /\ proc \in Processes
      /\ active \in [PUs -> BOOLEAN \cup {None}]
      /\ client \subseteq PUs /\ initE \subseteq PUs /\ initS \subseteq PUs
      /\ runtime \subseteq PUs /\ excluded \in Lists \cup {None}
  BY <1>1, Zenon DEF Types, StepRecords, Steps, Processes
<1>4. proc[P] # None => proc[P] \in Procs
  BY <1>1, <1>3 DEF Processes
<1> QED  BY <1>1, <1>2, <1>3, <1>4 DEF HandOK

LEMMA LaunchProcessStep ==
    ASSUME Inv, LaunchProcess
    PROVE  Inv'
<1>0. step.at = "launch" /\ UNCHANGED <<initE, initS, runtime, running, excluded>>
  BY DEF LaunchProcess, At, ctlVars
<1>h. HandOK
  BY <1>0, HandFacts
<1>1. PICK p \in PUs : p = P
  BY <1>h DEF HandOK
<1>p. /\ p \in runtime /\ Local(p) /\ Served(p) /\ (Sound(p) => Settled(p))
      /\ step \in StepRecords /\ proc \in Processes /\ active \in [PUs -> BOOLEAN \cup {None}]
      /\ client \subseteq PUs /\ initE \subseteq PUs /\ initS \subseteq PUs /\ runtime \subseteq PUs
  BY <1>0, <1>1, <1>h DEF HandOK, Progress
<1>s. "initEnforcer" \in Steps /\ "reply" \in Steps
  BY DEF Steps
<1>2. CASE active[P] # None /\ Goto("initEnforcer") /\ NoFault /\ UNCHANGED <<active, client, contexts, proc>>
  <2>1. /\ step' \in StepRecords /\ step'.at = "initEnforcer" /\ step'.pu = p
        /\ Remembered /\ \A q \in PUs : Same(q)
    BY <1>0, <1>1, <1>2, <1>p, <1>s, GotoFacts, NoFaultFacts DEF P, Same
  <2>2. Local(p)' /\ Served(p)' /\ InHand'
    BY <1>p, <2>1, SameLocal, SameServed DEF InHand, Remembered
  <2>3. Sound(p)' => Up(p)' \/ Undone(p)'
    BY <1>1, <1>2, <1>p, <2>1, SameState DEF Remembered, Remember, Settled, Gone
  <2>4. Progress'
    BY <2>1, <2>3 DEF Progress, P
  <2> QED  BY <1>0, <1>1, <1>2, <1>p, <2>1, <2>2, <2>4, HandStep
<1>3. CASE Fault("launch") /\ Failed("reply") /\ UNCHANGED <<active, client, contexts, proc>>
  <2>1. /\ step' \in StepRecords /\ step'.at = "reply" /\ step'.pu = p /\ step'.ok = FALSE
        /\ Remembered /\ \A q \in PUs : Same(q)
    BY <1>0, <1>1, <1>3, <1>p, <1>s, FailedFacts, FaultFacts, Zenon DEF P, Same, Fault
  <2>2. Local(p)' /\ Served(p)' /\ InHand'
    BY <1>0, <1>p, <2>1, SameLocal, SameServed DEF InHand, P, Remembered
  <2>3. Sound(p)' => Settled(p)'
    BY <1>p, <2>1, SameState DEF Remembered, Remember, Settled
  <2>4. Progress'
    BY <1>0, <1>p, <2>1, <2>3 DEF Progress, P
  <2> QED  BY <1>0, <1>1, <1>3, <1>p, <2>1, <2>2, <2>4, HandStep
<1>4. ASSUME active[P] = None, active' = [active EXCEPT ![P] = FALSE],
             proc' = [proc EXCEPT ![P] = Fresh], Goto("initEnforcer"),
             \/ NoFault /\ client' = client \cup {P} /\ contexts' = contexts \cup {P}
             \/ Fault("dial") /\ UNCHANGED <<client, contexts>>
      PROVE  Inv'
  <2>1. /\ step' \in StepRecords /\ step'.at = "initEnforcer" /\ step'.pu = p
        /\ Remembered /\ client' \subseteq PUs
        /\ (Sound(p)' => client' = client \cup {p}) /\ (Linked(p)' => p \in client')
    BY <1>1, <1>4, <1>p, <1>s, GotoFacts, FaultFacts, NoFaultFacts DEF P, Fault
  <2>2. /\ proc' \in Processes /\ proc'[p] = Fresh /\ active'[p] = FALSE
        /\ active' \in [PUs -> BOOLEAN \cup {None}]
    BY <1>1, <1>4, <1>p, ProcUpdate, FreshFacts, Zenon
  <2>3. \A q \in PUs \ {p} : Same(q)
    BY <1>0, <1>1, <1>4, <1>p, ProcUpdate, FreshFacts DEF Same
  <2>4. p \notin initS'
    BY <1>0, <1>1, <1>4, <1>p DEF Local
  <2>5. Local(p)' /\ InHand'
    BY <2>1, <2>2, <2>4, NoneAssumption, Zenon DEF Local, InHand
  <2>s. Served(p)'
    BY <2>1, <2>2, FreshFacts, Zenon DEF Served
  <2>6. Sound(p)' => New(p)'
    <3>1. Sound(p)' => Gone(p)
      BY <1>1, <1>4, <1>p, <2>1, NoneAssumption, Zenon
      DEF Remembered, Remember, Settled, Up, Ready, Launched, Undone
    <3> QED  BY <1>0, <2>1, <2>2, <3>1, FreshFacts, NoneAssumption, Zenon DEF New, Launched, Gone
  <2>7. Progress'
    BY <2>1, <2>6 DEF Progress, P
  <2> QED  BY <1>0, <1>1, <1>p, <2>1, <2>2, <2>3, <2>5, <2>7, <2>s, HandStep
<1> QED  BY <1>2, <1>3, <1>4, Zenon DEF LaunchProcess

(* The handler returns an error: what the reply step needs of the PU. *)
LEMMA ErrorStep ==
    ASSUME Inv, HandOK, NEW p \in PUs, p = P, Failed("reply"), Remembered,
           \A q \in PUs \ {p} : Same(q), UNCHANGED <<running, excluded, active, client>>,
           proc' \in Processes, initE' \subseteq PUs, initS' \subseteq PUs, runtime' \subseteq PUs,
           Local(p)', Served(p)', p \notin runtime' => Removed(p)',
           Sound(p)' => Settled(p)' /\ (p \notin runtime' => Gone(p)')
    PROVE  Inv'
<1>1. step' \in StepRecords /\ step'.at = "reply" /\ step'.pu = p /\ step'.ok = FALSE
  <2>1. "reply" \in Steps
    BY DEF Steps
  <2> QED  BY <2>1, FailedFacts, Zenon DEF HandOK, P
<1>2. InHand'
  BY <1>1 DEF InHand, P
<1>3. Progress'
  BY <1>1 DEF Progress, P
<1>4. /\ active' \in [PUs -> BOOLEAN \cup {None}] /\ client' \subseteq PUs
  BY DEF HandOK
<1> QED  BY <1>1, <1>2, <1>3, <1>4, HandStep

LEMMA InitRemoteEnforcerStep ==
    ASSUME Inv, InitRemoteEnforcer
    PROVE  Inv'
<1>0. step.at = "initEnforcer" /\ UNCHANGED <<active, client, initS, runtime, running, excluded>>
  BY DEF InitRemoteEnforcer, At, ctlVars
<1>h. HandOK
  BY <1>0, HandFacts
<1>1. PICK p \in PUs : p = P
  BY <1>h DEF HandOK
<1>p. /\ p \in runtime /\ Local(p) /\ Served(p) /\ (Sound(p) => New(p) \/ Up(p) \/ Undone(p))
      /\ step \in StepRecords /\ proc \in Processes /\ active \in [PUs -> BOOLEAN \cup {None}]
      /\ client \subseteq PUs /\ initE \subseteq PUs /\ initS \subseteq PUs /\ runtime \subseteq PUs
      /\ proc[p] # None => proc[p] \in Procs
  BY <1>0, <1>1, <1>h DEF HandOK, Progress
<1>s. "enforce" \in Steps
  BY DEF Steps
<1>2. CASE P \in initE /\ Goto("enforce") /\ NoFault /\ UNCHANGED <<proc, initE>>
  <2>1. /\ step' \in StepRecords /\ step'.at = "enforce" /\ step'.pu = p
        /\ Remembered /\ \A q \in PUs : Same(q)
    BY <1>0, <1>1, <1>2, <1>p, <1>s, GotoFacts, NoFaultFacts DEF P, Same
  <2>2. Local(p)' /\ Served(p)' /\ InHand'
    BY <1>p, <2>1, SameLocal, SameServed DEF InHand, Remembered
  <2>3. Sound(p)' => Ready(p)' /\ active'[p] = FALSE
    <3>1. Sound(p)' => Up(p)'
      BY <1>1, <1>2, <1>p, <2>1, SameState, Zenon DEF Remembered, Remember, New, Undone
    <3> QED  BY <3>1 DEF Up
  <2>4. Progress'
    BY <2>1, <2>3, Zenon DEF Progress, P
  <2> QED  BY <1>0, <1>1, <1>2, <1>p, <2>1, <2>2, <2>4, HandStep
<1>3. CASE /\ P \notin initE /\ Reachable(P) /\ ~ proc[P].enf
           /\ proc' = [proc EXCEPT ![P].enf = TRUE] /\ initE' = initE \cup {P}
           /\ NoFault /\ Goto("enforce")
  <2>1. /\ step' \in StepRecords /\ step'.at = "enforce" /\ step'.pu = p /\ Remembered
    BY <1>1, <1>3, <1>p, <1>s, GotoFacts, NoFaultFacts DEF P
  <2>2. proc[p] \in Procs /\ p \in client /\ proc[p] # None
    BY <1>1, <1>3, <1>p DEF Reachable
  <2> DEFINE v == [proc[p] EXCEPT !.enf = TRUE]
  <2>3. proc' = [proc EXCEPT ![p] = v] /\ v \in Procs /\ v.enf = TRUE /\ v.sup = proc[p].sup
        /\ v.enforced = proc[p].enforced /\ v.captured = proc[p].captured
    BY <1>1, <1>3, <2>2, SetEnf, Zenon
  <2> HIDE DEF v
  <2>4. /\ proc' \in Processes /\ proc'[p] \in Procs /\ proc'[p].enf = TRUE
        /\ proc'[p].sup = proc[p].sup /\ proc'[p].enforced = proc[p].enforced
        /\ proc'[p].captured = proc[p].captured /\ \A q \in PUs \ {p} : proc'[q] = proc[q]
    BY <1>p, <2>3, ProcUpdate, Zenon
  <2>5. initE' = initE \cup {p} /\ \A q \in PUs \ {p} : Same(q)
    BY <1>0, <1>1, <1>3, <2>4, Zenon DEF Same
  <2>6. Local(p)' /\ InHand'
    BY <1>0, <1>p, <2>1, <2>2, <2>4, SMTT(30) DEF Local, InHand
  <2>s. Served(p)'
    BY <1>0, <1>p, <2>1, <2>2, <2>4 DEF Served, Remembered, Remember
  <2>7. proc'[p] # None
    BY <2>4, NoneAssumption
  <2>8. Sound(p)' => Ready(p)' /\ active'[p] = FALSE
    <3>1. Sound(p)' => New(p)
      BY <1>1, <1>3, <1>p, <2>1, <2>2 DEF Remembered, Remember, Up, Ready, Undone
    <3> QED  BY <1>0, <2>4, <2>5, <2>7, <3>1 DEF New, Ready, Launched
  <2>9. Progress'
    BY <2>1, <2>8 DEF Progress, P
  <2>10. initE' \subseteq PUs
    BY <1>p, <2>5
  <2> QED  BY <1>0, <1>1, <1>p, <2>1, <2>4, <2>5, <2>6, <2>9, <2>10, <2>s, HandStep
<1>4. CASE /\ P \notin initE /\ Reachable(P) /\ proc[P].enf
           /\ Dies(P) /\ Failed("reply") /\ NoFault /\ UNCHANGED initE
  <2>1. /\ proc' \in Processes /\ proc'[p] = None /\ \A q \in PUs \ {p} : Same(q)
    BY <1>0, <1>1, <1>4, <1>p, ProcUpdate, ZenonT(30) DEF Dies, Same
  <2>2. Remembered
    BY <1>4, NoFaultFacts
  <2>3. Local(p)' /\ Served(p)'
    BY <1>0, <1>p, <2>1 DEF Local, Served
  <2>4. Sound(p)' => Undone(p)'
    <3>1. Sound(p)' => Undone(p)
      BY <1>1, <1>4, <1>p, <2>2 DEF Remembered, Remember, New, Up, Ready
    <3> QED  BY <1>0, <1>4, <2>1, <3>1 DEF Undone
  <2> QED  BY <1>0, <1>1, <1>4, <1>h, <1>p, <2>1, <2>2, <2>3, <2>4, ErrorStep DEF Settled
<1>5. CASE /\ P \notin initE /\ (IF Reachable(P) THEN Fault("init") ELSE NoFault)
           /\ Failed("reply") /\ UNCHANGED <<proc, initE>>
  <2>1. Remembered /\ (Sound(p)' => ~ Reachable(p))
    BY <1>1, <1>5, NoFaultFacts, FaultFacts DEF Fault, P
  <2>2. \A q \in PUs : Same(q)
    BY <1>0, <1>5 DEF Same
  <2>3. Local(p)' /\ Served(p)'
    BY <1>p, <2>1, <2>2, SameLocal, SameServed DEF Remembered
  <2>4. Sound(p)' => Undone(p)'
    <3>1. Sound(p)' => Undone(p)
      BY <1>p, <2>1 DEF Remembered, Remember, New, Up, Ready, Launched, Reachable
    <3> QED  BY <2>2, <3>1, SameState
  <2> QED  BY <1>0, <1>1, <1>5, <1>h, <1>p, <2>1, <2>2, <2>3, <2>4, ErrorStep DEF Settled
<1> QED  BY <1>2, <1>3, <1>4, <1>5, Zenon DEF InitRemoteEnforcer

LEMMA EnforceStep ==
    ASSUME Inv, Enforce
    PROVE  Inv'
<1>0. /\ step.at = "enforce"
      /\ UNCHANGED <<active, client, initE, initS, runtime, running, excluded>> /\ NoFault
  BY DEF Enforce, At, ctlVars
<1>h. HandOK
  BY <1>0, HandFacts
<1>1. PICK p \in PUs : p = P
  BY <1>h DEF HandOK
<1>p. /\ p \in runtime /\ Local(p) /\ Served(p) /\ (Sound(p) => Ready(p) /\ active[p] = FALSE)
      /\ step \in StepRecords /\ proc \in Processes /\ active \in [PUs -> BOOLEAN \cup {None}]
      /\ client \subseteq PUs /\ initE \subseteq PUs /\ initS \subseteq PUs /\ runtime \subseteq PUs
      /\ proc[p] # None => proc[p] \in Procs
  BY <1>0, <1>1, <1>h DEF HandOK, Progress
<1>r. Remembered /\ (Sound(p)' => Sound(p))
  BY <1>0, NoFaultFacts, Zenon DEF Remembered, Remember
<1>2. CASE /\ Reachable(P) /\ proc[P].enf
           /\ proc' = [proc EXCEPT ![P].enforced = TRUE] /\ Goto("initSupervisor")
  <2>1. /\ step' \in StepRecords /\ step'.at = "initSupervisor" /\ step'.pu = p
    <3>1. "initSupervisor" \in Steps
      BY DEF Steps
    <3> QED  BY <1>1, <1>2, <1>p, <3>1, GotoFacts DEF P
  <2>2. proc[p] \in Procs /\ proc[p] # None
    BY <1>1, <1>2, <1>p DEF Reachable
  <2> DEFINE v == [proc[p] EXCEPT !.enforced = TRUE]
  <2>3. /\ proc' = [proc EXCEPT ![p] = v] /\ v \in Procs
        /\ v.enforced = TRUE /\ v.sup = proc[p].sup /\ v.enf = proc[p].enf
        /\ v.captured = proc[p].captured
    BY <1>1, <1>2, <2>2, SetEnforced, Zenon
  <2> HIDE DEF v
  <2>4. /\ proc' \in Processes /\ proc'[p] # None /\ proc'[p].enforced = TRUE
        /\ proc'[p].sup = proc[p].sup /\ proc'[p].enf = proc[p].enf
        /\ proc'[p].captured = proc[p].captured /\ \A q \in PUs \ {p} : proc'[q] = proc[q]
    BY <1>p, <2>3, ProcUpdate, NoneAssumption, ZenonT(30)
  <2>5. \A q \in PUs \ {p} : Same(q)
    BY <1>0, <2>4 DEF Same
  <2>6. Local(p)' /\ InHand'
    BY <1>0, <1>p, <2>1, <2>2, <2>4 DEF Local, InHand, P
  <2>s. Served(p)'
    BY <1>0, <1>p, <1>r, <2>2, <2>4 DEF Served, Remembered, Remember
  <2>7. Sound(p)' => Ready(p)' /\ active'[p] = FALSE
    BY <1>0, <1>p, <1>r, <2>4 DEF Ready, Launched
  <2>8. Progress'
    BY <2>1, <2>4, <2>7 DEF Progress, P
  <2> QED  BY <1>0, <1>1, <1>p, <1>r, <2>1, <2>4, <2>5, <2>6, <2>8, <2>s, HandStep
<1>3. CASE Reachable(P) /\ ~ proc[P].enf /\ Dies(P) /\ Failed("reply")
  <2>1. /\ proc' \in Processes /\ proc'[p] = None /\ \A q \in PUs \ {p} : Same(q)
    BY <1>0, <1>1, <1>3, <1>p, ProcUpdate, ZenonT(30) DEF Dies, Same
  <2>2. Local(p)' /\ Served(p)'
    BY <1>0, <1>p, <2>1 DEF Local, Served
  <2>3. ~ Sound(p)'
    BY <1>1, <1>3, <1>p, <1>r DEF Ready
  <2> QED  BY <1>0, <1>1, <1>3, <1>h, <1>p, <1>r, <2>1, <2>2, <2>3, ErrorStep
<1>4. CASE ~ Reachable(P) /\ Failed("reply") /\ UNCHANGED proc
  <2>1. \A q \in PUs : Same(q)
    BY <1>0, <1>4 DEF Same
  <2>2. Local(p)' /\ Served(p)'
    BY <1>p, <1>r, <2>1, SameLocal, SameServed DEF Remembered
  <2>3. ~ Sound(p)'
    BY <1>1, <1>4, <1>p, <1>r DEF Ready, Launched, Reachable
  <2> QED  BY <1>0, <1>1, <1>4, <1>h, <1>p, <1>r, <2>1, <2>2, <2>3, ErrorStep, Zenon
<1> QED  BY <1>2, <1>3, <1>4, Zenon DEF Enforce

LEMMA InitRemoteSupervisorStep ==
    ASSUME Inv, InitRemoteSupervisor
    PROVE  Inv'
<1>0. step.at = "initSupervisor" /\ UNCHANGED <<active, client, initE, runtime, running, excluded>>
  BY DEF InitRemoteSupervisor, At, ctlVars
<1>h. HandOK
  BY <1>0, HandFacts
<1>1. PICK p \in PUs : p = P
  BY <1>h DEF HandOK
<1>p. /\ p \in runtime /\ Local(p) /\ Served(p)
      /\ Sound(p) => Ready(p) /\ active[p] = FALSE /\ proc[p].enforced
      /\ proc[p] # None => proc[p].enforced
      /\ Lives(p) => proc[p] # None
  BY <1>0, <1>1, <1>h DEF HandOK, Progress, InHand
<1>t. /\ step \in StepRecords /\ proc \in Processes /\ active \in [PUs -> BOOLEAN \cup {None}]
      /\ client \subseteq PUs /\ initE \subseteq PUs /\ initS \subseteq PUs /\ runtime \subseteq PUs
      /\ proc[p] # None => proc[p] \in Procs
  BY <1>1, <1>h DEF HandOK
<1>s. "supervise" \in Steps /\ "rollback" \in Steps
  BY Zenon DEF Steps
<1>2. CASE P \in initS /\ Goto("supervise") /\ NoFault /\ UNCHANGED <<proc, initS>>
  <2>1. /\ step' \in StepRecords /\ step'.at = "supervise" /\ step'.pu = p
        /\ Remembered /\ \A q \in PUs : Same(q)
    BY <1>0, <1>1, <1>2, <1>t, <1>s, GotoFacts, NoFaultFacts, ZenonT(30) DEF P, Same
  <2>2. Local(p)' /\ Served(p)' /\ InHand'
    BY <1>2, <1>p, <2>1, SameLocal, SameServed DEF InHand, Remembered, Remember, P
  <2>3. Sound(p)' => Ready(p)' /\ active'[p] = FALSE /\ proc'[p].enforced /\ p \in initS'
    BY <1>0, <1>1, <1>2, <1>p, <2>1, Zenon DEF Remembered, Remember, Ready, Launched
  <2>4. Progress'
    BY <2>1, <2>3, Zenon DEF Progress, P
  <2> QED  BY <1>0, <1>1, <1>2, <1>p, <1>t, <2>1, <2>2, <2>4, HandStep, Zenon
<1>3. ASSUME P \notin initS, Reachable(P), proc[P].enf, NEW b \in BOOLEAN,
             IF b THEN NoFault ELSE Fault("start"),
             proc' = [proc EXCEPT ![P].sup = TRUE, ![P].supervised = FALSE,
                                  ![P].captured = b, ![P].excl = None],
             initS' = initS \cup {P}, Goto("supervise")
      PROVE  Inv'
  <2>1. /\ step' \in StepRecords /\ step'.at = "supervise" /\ step'.pu = p
        /\ Remembered /\ (Started(p)' => b)
    BY <1>1, <1>3, <1>t, <1>s, GotoFacts, NoFaultFacts, FaultFacts DEF P, Fault
  <2>2. proc[p] \in Procs /\ proc[p] # None
    BY <1>1, <1>3, <1>t DEF Reachable
  <2> DEFINE v == [proc[p] EXCEPT !.sup = TRUE, !.supervised = FALSE, !.captured = b, !.excl = None]
  <2>3. /\ proc' = [proc EXCEPT ![p] = v]
        /\ v \in Procs /\ v.enforced = proc[p].enforced /\ v.sup = TRUE /\ v.enf = proc[p].enf
        /\ v.captured = b
    <3>1. proc' = [proc EXCEPT ![p] = v]
      BY <1>1, <1>3, <1>t, <2>2, Zenon DEF Processes, Procs
    <3>2. v \in Procs /\ v.enforced = proc[p].enforced /\ v.sup = TRUE /\ v.enf = proc[p].enf
          /\ v.captured = b
      BY <2>2, SetSup, ZenonT(30)
    <3> QED  BY <3>1, <3>2, Zenon
  <2> HIDE DEF v
  <2>4. /\ proc' \in Processes /\ proc'[p] # None /\ proc'[p].enforced = proc[p].enforced
        /\ proc'[p].sup = TRUE /\ proc'[p].enf = proc[p].enf /\ proc'[p].captured = b
        /\ \A q \in PUs \ {p} : proc'[q] = proc[q]
    BY <1>t, <2>3, ProcUpdate, NoneAssumption, ZenonT(30)
  <2>5. initS' = initS \cup {p} /\ initS' \subseteq PUs /\ \A q \in PUs \ {p} : Same(q)
    BY <1>0, <1>1, <1>3, <1>t, <2>4, Zenon DEF Same
  <2>6. Local(p)' /\ InHand'
    BY <1>0, <1>p, <2>1, <2>2, <2>4 DEF Local, InHand, P, Remembered, Remember
  <2>s. Served(p)'
    BY <1>0, <1>1, <1>3, <1>p, <2>1, <2>2, <2>4 DEF Served, Remembered, Remember
  <2>7. Sound(p)' => Ready(p)' /\ active'[p] = FALSE /\ proc'[p].enforced
    BY <1>0, <1>p, <2>1, <2>4 DEF Ready, Launched, Remembered, Remember
  <2>8. Progress'
    BY <2>1, <2>5, <2>7 DEF Progress, P
  <2> QED  BY <1>0, <1>1, <1>p, <1>t, <2>1, <2>4, <2>5, <2>6, <2>8, <2>s, HandStep
<1>4. CASE /\ P \notin initS /\ (IF Reachable(P) /\ proc[P].enf THEN Fault("init") ELSE NoFault)
           /\ Failed("rollback") /\ UNCHANGED <<proc, initS>>
  <2>1. /\ step' \in StepRecords /\ step'.at = "rollback" /\ step'.pu = p /\ step'.ok = FALSE
        /\ Remembered /\ \A q \in PUs : Same(q)
    BY <1>0, <1>1, <1>4, <1>t, <1>s, FailedFacts, NoFaultFacts, FaultFacts, Zenon DEF P, Same, Fault
  <2>2. ~ Sound(p)'
    <3>1. Sound(p)' => Reachable(p) /\ proc[p].enf
      BY <1>p, <2>1 DEF Remembered, Remember, Ready, Launched, Reachable
    <3> QED  BY <1>1, <1>4, <3>1, FaultFacts, ZenonT(30) DEF Fault, P
  <2>3. Local(p)' /\ Served(p)' /\ InHand'
    BY <1>1, <1>4, <1>p, <2>1, SameLocal, SameServed DEF InHand, P, Remembered
  <2>4. Progress'
    BY <2>1, <2>2 DEF Progress, P
  <2> QED  BY <1>0, <1>1, <1>4, <1>p, <1>t, <2>1, <2>3, <2>4, HandStep, Zenon
<1> QED  BY <1>2, <1>3, <1>4, ZenonT(30) DEF InitRemoteSupervisor

LEMMA SuperviseStep ==
    ASSUME Inv, Supervise
    PROVE  Inv'
<1>0. step.at = "supervise" /\ UNCHANGED <<active, client, initE, runtime, running, excluded>>
  BY DEF Supervise, At, ctlVars
<1>h. HandOK
  BY <1>0, HandFacts
<1>1. PICK p \in PUs : p = P
  BY <1>h DEF HandOK
<1>p. /\ p \in runtime /\ Local(p) /\ Served(p)
      /\ Sound(p) => Ready(p) /\ active[p] = FALSE /\ proc[p].enforced /\ p \in initS
      /\ proc[p] # None => proc[p].enforced
      /\ Lives(p) => proc[p] # None
  BY <1>0, <1>1, <1>h DEF HandOK, Progress, InHand
<1>t. /\ step \in StepRecords /\ proc \in Processes /\ active \in [PUs -> BOOLEAN \cup {None}]
      /\ client \subseteq PUs /\ initE \subseteq PUs /\ initS \subseteq PUs /\ runtime \subseteq PUs
      /\ excluded \in Lists \cup {None} /\ (proc[p] # None => proc[p] \in Procs)
  BY <1>1, <1>h DEF HandOK
<1>s. "reply" \in Steps /\ "rollback" \in Steps
  BY DEF Steps
(* What a Supervise that the supervisor answers does to the process. *)
<1>a. ASSUME Reachable(P), proc[P].sup
      PROVE  proc[p] # None /\ proc[p] \in Procs /\ proc[p].sup /\ proc[p].enforced
  BY <1>1, <1>a, <1>p, <1>t DEF Reachable
<1>b. ASSUME Reachable(P), proc[P].sup, NEW v \in Procs, proc' = [proc EXCEPT ![p] = v],
             v.enforced = proc[p].enforced, v.sup = proc[p].sup, v.enf = proc[p].enf,
             v.captured = proc[p].captured, Remembered
      PROVE  /\ proc' \in Processes /\ proc'[p] = v /\ proc'[p] # None
             /\ proc'[p].enforced /\ proc'[p].sup /\ proc'[p].enf = proc[p].enf
             /\ (Started(p)' => proc'[p].captured) /\ Served(p)' /\ \A q \in PUs \ {p} : proc'[q] = proc[q]
  <2>1. proc' \in Processes /\ proc'[p] = v /\ \A q \in PUs \ {p} : proc'[q] = proc[q]
    BY <1>b, <1>t, ProcUpdate, Zenon
  <2>2. proc'[p] # None /\ proc'[p].enforced /\ proc'[p].sup /\ proc'[p].enf = proc[p].enf
    BY <1>a, <1>b, <2>1, NoneAssumption, SMTT(30)
  <2>3. Started(p)' => proc'[p].captured
    BY <1>a, <1>b, <1>p, <2>1, SMTT(30) DEF Served, Remembered, Remember
  <2>4. Served(p)'
    BY <1>0, <1>a, <1>b, <1>p, <2>2, <2>3 DEF Served, Remembered, Remember
  <2> QED  BY <2>1, <2>2, <2>3, <2>4
<1>2. ASSUME Reachable(P), proc[P].sup, NEW v \in Procs, proc' = [proc EXCEPT ![p] = v],
             v.enforced = proc[p].enforced, v.sup = proc[p].sup, v.enf = proc[p].enf,
             v.captured = proc[p].captured, Heard(p)' => v.supervised = TRUE, Remembered, Goto("reply"), UNCHANGED initS
      PROVE  Inv'
  <2>1. /\ step' \in StepRecords /\ step'.at = "reply" /\ step'.pu = p
    BY <1>1, <1>2, <1>t, <1>s, GotoFacts DEF P
  <2>2. /\ proc' \in Processes /\ proc'[p] = v /\ proc'[p] # None
        /\ proc'[p].enforced /\ proc'[p].sup /\ proc'[p].enf = proc[p].enf
        /\ (Started(p)' => proc'[p].captured) /\ Served(p)' /\ \A q \in PUs \ {p} : proc'[q] = proc[q]
    BY <1>2, <1>b, Zenon
  <2>3. \A q \in PUs \ {p} : Same(q)
    BY <1>0, <1>2, <2>2 DEF Same
  <2>4. Policed(p)'
    BY <1>2, <2>2, Zenon DEF Policed
  <2>5. Local(p)' /\ InHand'
    BY <1>0, <1>1, <1>2, <1>p, <2>1, <2>2, <2>4, ZenonT(30) DEF Local, InHand, P, Reachable
  <2>6. Sound(p)' => Up(p)'
    BY <1>0, <1>2, <1>p, <2>2, Zenon DEF Up, Ready, Launched, Remembered, Remember
  <2>7. Progress'
    BY <1>0, <1>p, <2>1, <2>6 DEF Progress, P, Settled
  <2> QED  BY <1>0, <1>1, <1>2, <1>p, <1>t, <2>1, <2>2, <2>3, <2>5, <2>7, HandStep, Zenon
<1>3. ASSUME Reachable(P), proc[P].sup, Fault("exclude"), Failed("rollback"), NEW b \in BOOLEAN,
             proc' = [proc EXCEPT ![P].supervised = b, ![P].excl = excluded],
             initS' = initS \ {P}
      PROVE  Inv'
  <2> DEFINE v == [proc[p] EXCEPT !.supervised = b, !.excl = excluded]
  <2>v. proc' = [proc EXCEPT ![p] = v]
    BY <1>1, <1>3, <1>a, <1>t, Zenon DEF Processes, Procs
  <2>w. /\ v \in Procs /\ v.enforced = proc[p].enforced /\ v.sup = proc[p].sup
        /\ v.enf = proc[p].enf /\ v.captured = proc[p].captured
    <3>1. proc[p] \in Procs
      BY <1>3, <1>a, Zenon
    <3>2. excluded \in Lists \cup {None} /\ b \in BOOLEAN
      BY <1>3, <1>t
    <3> QED  BY ONLY <3>1, <3>2, Zenon DEF Procs
  <2> HIDE DEF v
  <2>1. /\ step' \in StepRecords /\ step'.at = "rollback" /\ step'.pu = p /\ step'.ok = FALSE
        /\ Remembered
    BY <1>1, <1>3, <1>t, <1>s, FailedFacts, FaultFacts, Zenon DEF P, Fault
  <2>2. /\ proc' \in Processes /\ proc'[p] # None /\ proc'[p].enforced
        /\ proc'[p].enf = proc[p].enf /\ Served(p)' /\ \A q \in PUs \ {p} : proc'[q] = proc[q]
    BY <1>3, <1>b, <2>1, <2>v, <2>w, Zenon
  <2>3. initS' \subseteq PUs /\ p \notin initS' /\ \A q \in PUs \ {p} : Same(q)
    BY <1>0, <1>1, <1>3, <1>t, <2>2, Zenon DEF Same
  <2>4. Local(p)' /\ InHand'
    BY <1>0, <1>1, <1>3, <1>p, <2>1, <2>2, <2>3, Zenon DEF Local, InHand, P, Reachable
  <2>5. Sound(p)' => Ready(p)' /\ active'[p] = FALSE
    BY <1>0, <1>p, <2>1, <2>2, Zenon DEF Ready, Launched, Remembered, Remember
  <2>6. Progress'
    BY <2>1, <2>2, <2>5 DEF Progress, P
  <2> QED  BY <1>0, <1>1, <1>p, <1>t, <2>1, <2>2, <2>3, <2>4, <2>6, HandStep, Zenon
<1>4. ASSUME NoFault, Failed("rollback"), initS' = initS \ {P},
             \/ Reachable(P) /\ ~ proc[P].sup /\ Dies(P)
             \/ ~ Reachable(P) /\ UNCHANGED proc
      PROVE  Inv'
  <2>1. /\ step' \in StepRecords /\ step'.at = "rollback" /\ step'.pu = p /\ step'.ok = FALSE
        /\ Remembered
    BY <1>1, <1>4, <1>t, <1>s, FailedFacts, NoFaultFacts, Zenon DEF P
  <2>2. /\ proc' \in Processes /\ (proc'[p] # None => proc[p] # None)
        /\ \A q \in PUs \ {p} : proc'[q] = proc[q]
    BY <1>1, <1>4, <1>t, ProcUpdate DEF Dies
  <2>3. initS' \subseteq PUs /\ p \notin initS' /\ \A q \in PUs \ {p} : Same(q)
    BY <1>0, <1>1, <1>4, <1>t, <2>2 DEF Same
  <2>4. ~ Sound(p)'
    <3>1. Sound(p)' => Reachable(p) /\ proc[p].sup
      BY <1>p, <2>1, Zenon DEF Remembered, Remember, Ready, Launched, Reachable, Local
    <3> QED  BY <1>1, <1>4, <3>1
  <2>5. Local(p)' /\ InHand'
    BY <1>0, <1>p, <2>1, <2>2, <2>3, Zenon DEF Local, InHand, P
  <2>s. Served(p)'
    <3>1. CASE proc'[p] = None
      BY <3>1, SMTT(30) DEF Served
    <3>2. CASE proc' = proc
      BY <1>0, <1>p, <2>1, <3>2, SMTT(30) DEF Served, Remembered, Remember
    <3> QED  BY <1>1, <1>4, <1>t, <3>1, <3>2 DEF Dies, Processes
  <2>6. Progress'
    BY <2>1, <2>4 DEF Progress, P
  <2> QED  BY <1>0, <1>1, <1>p, <1>t, <2>1, <2>2, <2>3, <2>5, <2>6, <2>s, HandStep, Zenon
<1>5. ASSUME Reachable(P), proc[P].sup, Goto("reply"), UNCHANGED initS, NoFault,
             proc' = [proc EXCEPT ![P].supervised = TRUE, ![P].excl = excluded]
      PROVE  Inv'
  <2> DEFINE v == [proc[p] EXCEPT !.supervised = TRUE, !.excl = excluded]
  <2>v. proc' = [proc EXCEPT ![p] = v]
    BY <1>1, <1>5, <1>a, <1>t, Zenon DEF Processes, Procs
  <2>w. /\ v \in Procs /\ v.enforced = proc[p].enforced /\ v.sup = proc[p].sup
        /\ v.enf = proc[p].enf /\ v.captured = proc[p].captured /\ v.supervised = TRUE
    BY <1>5, <1>a, <1>t, SetSupervised, ZenonT(30)
  <2> HIDE DEF v
  <2> QED  BY <1>2, <1>5, <2>v, <2>w, NoFaultFacts, Zenon
<1>6. ASSUME Reachable(P), proc[P].sup, Goto("reply"), UNCHANGED initS, Fault("supervise"),
             proc' = [proc EXCEPT ![P].supervised = FALSE, ![P].excl = excluded]
      PROVE  Inv'
  <2> DEFINE v == [proc[p] EXCEPT !.supervised = FALSE, !.excl = excluded]
  <2>v. proc' = [proc EXCEPT ![p] = v]
    BY <1>1, <1>6, <1>a, <1>t, Zenon DEF Processes, Procs
  <2>w. /\ v \in Procs /\ v.enforced = proc[p].enforced /\ v.sup = proc[p].sup
        /\ v.enf = proc[p].enf /\ v.captured = proc[p].captured
    BY <1>6, <1>a, <1>t, SetSupervised, Zenon
  <2> HIDE DEF v
  <2>x. Remembered /\ ~ Heard(p)'
    BY <1>1, <1>6, FaultFacts DEF Fault, P
  <2> QED  BY <1>2, <1>6, <2>v, <2>w, <2>x, Zenon
<1> QED  BY <1>3, <1>4, <1>5, <1>6, Zenon DEF Supervise

-----------------------------------------------------------------------------
(* THE END OF A PROCESS *)

(* What MarkOrKill leaves of a PU, by what the process manager knew of it.  pr
   is the state of the processes after the RPC before it. *)
LEMMA MarkOrKillFacts ==
    ASSUME HandOK, NEW p \in PUs, p = P, NEW pr \in Processes, MarkOrKill(P, pr),
           \A q \in PUs \ {p} : pr[q] = proc[q], pr[p] # None => proc[p] # None
    PROVE  /\ active' \in [PUs -> BOOLEAN \cup {None}] /\ proc' \in Processes
           /\ client' \subseteq PUs
           /\ \A q \in PUs \ {p} : /\ active'[q] = active[q] /\ proc'[q] = proc[q]
                                   /\ (q \in client') <=> (q \in client)
           /\ proc'[p] # None => active'[p] # None
           /\ active[p] = FALSE =>
                 active'[p] = TRUE /\ proc'[p] = pr[p] /\ client' = client
           /\ active[p] = None =>
                 active'[p] = None /\ proc'[p] = None /\ client' = client
           /\ active[p] = TRUE => proc'[p] = None
           /\ active[p] = TRUE /\ p \in client => active'[p] = None /\ p \notin client'
<1>t. /\ proc \in Processes /\ active \in [PUs -> BOOLEAN \cup {None}] /\ client \subseteq PUs
      /\ proc[p] # None => active[p] # None
      /\ active[p] \in {TRUE, FALSE, None}
  BY Zenon DEF HandOK, Local
<1>n. None # FALSE /\ None # TRUE
  BY NoneAssumption, Zenon
<1>1. CASE active[p] = FALSE
  <2>1. active' = [active EXCEPT ![p] = TRUE] /\ proc' = pr /\ client' = client
    BY <1>1, Zenon DEF MarkOrKill
  <2>2. /\ active' \in [PUs -> BOOLEAN \cup {None}] /\ active'[p] = TRUE
        /\ \A q \in PUs \ {p} : active'[q] = active[q]
    BY <1>t, <2>1
  <2> QED  BY <1>1, <1>n, <1>t, <2>1, <2>2, Zenon
<1>2. CASE active[p] = None
  <2>1. proc' = pr /\ active' = active /\ client' = client
    BY <1>2, <1>n, Zenon DEF MarkOrKill, KillProcess
  <2> QED  BY <1>2, <1>n, <1>t, <2>1, Zenon
<1>3. CASE active[p] = TRUE
  <2>0. active[p] # None /\ active[p] # FALSE
    BY <1>3, <1>n, Zenon
  <2>1. /\ proc' = [pr EXCEPT ![p] = None]
        /\ \/ p \in client /\ active' = [active EXCEPT ![p] = None] /\ client' = client \ {p}
           \/ p \notin client /\ active' = active /\ client' = client
    BY <2>0, Zenon DEF MarkOrKill, KillProcess
  <2>2. /\ proc' \in Processes /\ proc'[p] = None /\ \A q \in PUs \ {p} : proc'[q] = proc[q]
    BY <2>1 DEF Processes
  <2>3. /\ active' \in [PUs -> BOOLEAN \cup {None}] /\ client' \subseteq PUs
        /\ p \in client => active'[p] = None /\ p \notin client'
        /\ \A q \in PUs \ {p} : active'[q] = active[q] /\ ((q \in client') <=> (q \in client))
    BY <1>t, <2>1
  <2> QED  BY <2>0, <2>2, <2>3, Zenon
<1> QED  BY <1>1, <1>2, <1>3, <1>t, Zenon

(* The RPC Unsupervise. *)
LEMMA UnsupervisedFacts ==
    ASSUME HandOK, NEW p \in PUs, p = P
    PROVE  /\ Unsupervised \in Processes
           /\ \A q \in PUs \ {p} : Unsupervised[q] = proc[q]
           /\ Unsupervised[p] # None => proc[p] # None
           /\ Reachable(p) /\ ~ proc[p].sup => Unsupervised[p] = None
           /\ ~ Reachable(p) => Unsupervised = proc
           /\ Reachable(p) /\ proc[p].sup =>
                 /\ Unsupervised[p] # None /\ Unsupervised[p].sup = proc[p].sup
                 /\ Unsupervised[p].captured = proc[p].captured
                 /\ Unsupervised[p].enf = proc[p].enf /\ Unsupervised[p].enforced = proc[p].enforced
<1>t. proc \in Processes /\ (proc[p] # None => proc[p] \in Procs)
  BY DEF HandOK
<1>1. CASE ~ Reachable(p)
  BY <1>1, <1>t, Zenon DEF Unsupervised
<1>2. CASE Reachable(p) /\ proc[p].sup
  <2> DEFINE v == [proc[p] EXCEPT !.supervised = FALSE]
  <2>1. proc[p] \in Procs /\ proc[p] # None
    BY <1>2, <1>t DEF Reachable
  <2>2. Unsupervised = [proc EXCEPT ![p] = v]
    BY <1>2, Zenon DEF Unsupervised
  <2>3. v \in Procs /\ v.enforced = proc[p].enforced /\ v.enf = proc[p].enf
        /\ v.sup = proc[p].sup /\ v.captured = proc[p].captured
    BY <2>1, ClearSupervised, Zenon
  <2> HIDE DEF v
  <2>4. Unsupervised \in Processes /\ Unsupervised[p] = v /\ v # None
    BY <1>t, <2>2, <2>3, NoneAssumption DEF Processes
  <2>5. \A q \in PUs \ {p} : Unsupervised[q] = proc[q]
    BY <1>t, <2>2 DEF Processes
  <2> QED  BY <1>2, <2>1, <2>3, <2>4, <2>5, Zenon
<1>3. CASE Reachable(p) /\ ~ proc[p].sup
  <2>1. Unsupervised = [proc EXCEPT ![p] = None]
    BY <1>3, ZenonT(30) DEF Unsupervised
  <2> QED  BY <1>3, <1>t, <2>1 DEF Processes
<1> QED  BY <1>1, <1>2, <1>3, Zenon

LEMMA UnsuperviseStep ==
    ASSUME Inv, Unsupervise
    PROVE  Inv'
<1>0. /\ step.at = "unsupervise" /\ initS' = initS \ {P} /\ Goto("unenforce")
      /\ UNCHANGED <<initE, runtime, running, excluded>> /\ NoFault /\ MarkOrKill(P, Unsupervised)
  BY DEF Unsupervise, At, ctlVars, Goto
<1>h. HandOK
  BY <1>0, HandFacts
<1>1. PICK p \in PUs : p = P
  BY <1>h DEF HandOK
<1>p. /\ p \in runtime /\ Local(p) /\ Served(p) /\ (Sound(p) => Settled(p))
      /\ step \in StepRecords /\ initE \subseteq PUs /\ initS \subseteq PUs /\ runtime \subseteq PUs
  BY <1>0, <1>1, <1>h DEF HandOK, Progress
<1>r. Remembered /\ (Sound(p)' => Sound(p))
  BY <1>0, NoFaultFacts DEF Remembered, Remember
<1>u. /\ Unsupervised \in Processes /\ \A q \in PUs \ {p} : Unsupervised[q] = proc[q]
      /\ Unsupervised[p] # None => proc[p] # None
  BY <1>1, <1>h, UnsupervisedFacts
<1>m. /\ active' \in [PUs -> BOOLEAN \cup {None}] /\ proc' \in Processes /\ client' \subseteq PUs
      /\ \A q \in PUs \ {p} : /\ active'[q] = active[q] /\ proc'[q] = proc[q]
                              /\ (q \in client') <=> (q \in client)
      /\ proc'[p] # None => active'[p] # None
      /\ active[p] = FALSE => active'[p] = TRUE /\ proc'[p] = Unsupervised[p] /\ client' = client
      /\ active[p] = None => active'[p] = None /\ proc'[p] = None /\ client' = client
      /\ active[p] = TRUE => proc'[p] = None
      /\ active[p] = TRUE /\ p \in client => active'[p] = None /\ p \notin client'
  BY <1>0, <1>1, <1>h, <1>u, MarkOrKillFacts, Zenon
<1>2. step' \in StepRecords /\ step'.at = "unenforce" /\ step'.pu = p
  <2>1. "unenforce" \in Steps
    BY DEF Steps
  <2> QED  BY <1>0, <1>1, <1>p, <2>1, GotoFacts DEF P
<1>3. p \notin initS' /\ initS' \subseteq PUs /\ \A q \in PUs \ {p} : Same(q)
  BY <1>0, <1>1, <1>p, <1>m, Zenon DEF Same
(* A process that is left has been marked just now. *)
<1>a. ASSUME proc'[p] # None
      PROVE  /\ active[p] = FALSE /\ active'[p] = TRUE /\ proc[p] # None
             /\ proc'[p] = Unsupervised[p] /\ client' = client
  <2>1. active[p] \in {TRUE, FALSE, None}
    BY <1>h, Zenon DEF HandOK
  <2> QED  BY <1>a, <1>m, <1>u, <2>1, Zenon
<1>b. ASSUME proc'[p] # None
      PROVE  /\ proc'[p].enf = proc[p].enf /\ proc'[p].enforced = proc[p].enforced
             /\ proc'[p].sup = proc[p].sup /\ proc'[p].captured = proc[p].captured
             /\ Reachable(p) => proc[p].sup
  BY <1>1, <1>a, <1>b, <1>h, UnsupervisedFacts, ZenonT(30)
<1>c. Served(p)'
  BY <1>a, <1>b, <1>p, <1>r DEF Served, Remembered, Remember
<1>d. ASSUME proc'[p] # None, Linked(p)'
      PROVE  active'[p] = TRUE /\ proc'[p].enf /\ proc'[p].enforced
  <2>1. Reachable(p)
    BY <1>a, <1>d, <1>p, <1>r DEF Reachable, Served, Remembered, Remember
  <2> QED  BY <1>a, <1>b, <1>d, <1>p, <2>1 DEF Served
<1>4. Local(p)' /\ InHand'
  BY <1>2, <1>3, <1>d, <1>m DEF Local, InHand, P
<1>5. Sound(p)' => Gone(p)' \/ (Ready(p)' /\ active'[p] = TRUE /\ proc'[p].enforced)
  <2>1. ASSUME Sound(p)', Gone(p) PROVE Gone(p)'
    BY <1>0, <1>3, <1>m, <2>1, ZenonT(30) DEF Gone
  <2>2. ASSUME Sound(p)', Undone(p) PROVE Gone(p)'
    BY <1>0, <1>3, <1>m, <2>2 DEF Gone, Undone
  <2>3. ASSUME Sound(p)', Up(p) PROVE Ready(p)' /\ active'[p] = TRUE /\ proc'[p].enforced
    <3>1. Reachable(p) /\ proc[p].sup /\ active[p] = FALSE
      BY <1>p, <2>3 DEF Up, Ready, Launched, Reachable, Local
    <3>2. /\ Unsupervised[p] # None /\ Unsupervised[p].enf = proc[p].enf
          /\ Unsupervised[p].enforced = proc[p].enforced
      BY <1>1, <1>h, <3>1, UnsupervisedFacts, Zenon
    <3> QED  BY <1>0, <1>m, <2>3, <3>1, <3>2, Zenon DEF Up, Ready, Launched
  <2> QED  BY <1>p, <1>r, <2>1, <2>2, <2>3, ZenonT(30) DEF Settled
<1>6. Progress'
  BY <1>2, <1>5 DEF Progress, P
<1>7. UNCHANGED <<running, excluded>> /\ runtime' \subseteq PUs /\ initE' \subseteq PUs
      /\ p \in runtime'
  BY <1>0, <1>p
<1> QED  BY <1>1, <1>2, <1>3, <1>4, <1>6, <1>7, <1>c, <1>m, <1>r, HandStep

(* Unenforce of the proxy, for a delete and for a rollback. *)
LEMMA ProxyStep ==
    ASSUME Inv, step.at \in {"rollback", "unenforce"}, UnenforceProxy,
           UNCHANGED <<initS, excluded, running>>, NoFault,
           step.at = "rollback" => runtime' = runtime,
           step.at = "unenforce" => runtime' = runtime \ {P}
    PROVE  Inv'
<1>h. HandOK
  BY HandFacts
<1>1. PICK p \in PUs : p = P
  BY <1>h, ZenonT(30) DEF HandOK
<1>p. /\ p \in runtime /\ Local(p) /\ Served(p) /\ p \notin initS
      /\ step.at = "unenforce" /\ Linked(p) /\ proc[p] # None =>
            active[p] = TRUE /\ proc[p].enf /\ proc[p].enforced
      /\ step.at = "rollback" => step.ok = FALSE
      /\ Sound(p) /\ step.at = "rollback" => Ready(p) /\ active[p] = FALSE /\ proc[p].enforced
      /\ Sound(p) /\ step.at = "unenforce" =>
            Gone(p) \/ (Ready(p) /\ active[p] = TRUE /\ proc[p].enforced)
  BY <1>1, <1>h DEF HandOK, Progress, InHand, Inv, StepOK
<1>t. /\ step \in StepRecords /\ proc \in Processes /\ active \in [PUs -> BOOLEAN \cup {None}]
      /\ client \subseteq PUs /\ initE \subseteq PUs /\ initS \subseteq PUs /\ runtime \subseteq PUs
      /\ proc[p] # None => proc[p] \in Procs
  BY <1>1, <1>h DEF HandOK
<1>r. Remembered /\ (Sound(p)' => Sound(p))
  BY NoFaultFacts DEF Remembered, Remember
<1>u. /\ runtime' \subseteq PUs /\ (step.at = "unenforce" => p \notin runtime')
      /\ \A q \in PUs \ {p} : (q \in runtime') <=> (q \in runtime)
  BY <1>1, <1>t, ZenonT(30)
<1>2. CASE /\ Reachable(P) /\ proc[P].enf /\ proc[P].enforced /\ initE' = initE \ {P}
           /\ MarkOrKill(P, [proc EXCEPT ![P].enforced = FALSE]) /\ Goto("reply")
  <2>1. step' \in StepRecords /\ step'.at = "reply" /\ step'.pu = p /\ step'.ok = step.ok
    <3>1. "reply" \in Steps
      BY DEF Steps
    <3> QED  BY <1>1, <1>2, <1>t, <3>1, GotoFacts DEF P
  <2>2. proc[p] \in Procs /\ proc[p] # None
    BY <1>1, <1>2, <1>t DEF Reachable
  <2> DEFINE v == [proc[p] EXCEPT !.enforced = FALSE]
             pr == [proc EXCEPT ![p] = v]
  <2>3. /\ v \in Procs /\ v.enf = proc[p].enf /\ v.sup = proc[p].sup
        /\ v.captured = proc[p].captured
    BY <2>2, SetEnforced, Zenon
  <2>4. MarkOrKill(P, pr)
    BY <1>1, <1>2, Zenon
  <2> HIDE DEF v
  <2>5. pr \in Processes /\ pr[p] = v /\ \A q \in PUs \ {p} : pr[q] = proc[q]
    BY <1>t, <2>3 DEF Processes
  <2> HIDE DEF pr
  <2>m. /\ active' \in [PUs -> BOOLEAN \cup {None}] /\ proc' \in Processes /\ client' \subseteq PUs
        /\ \A q \in PUs \ {p} : /\ active'[q] = active[q] /\ proc'[q] = proc[q]
                                /\ (q \in client') <=> (q \in client)
        /\ proc'[p] # None => active'[p] # None
        /\ active[p] = FALSE => active'[p] = TRUE /\ proc'[p] = pr[p] /\ client' = client
        /\ active[p] = TRUE => proc'[p] = None
        /\ active[p] = TRUE /\ p \in client => active'[p] = None /\ p \notin client'
    BY <1>1, <1>h, <2>2, <2>4, <2>5, MarkOrKillFacts, ZenonT(30)
  <2>6. p \notin initE' /\ initE' \subseteq PUs /\ \A q \in PUs \ {p} : Same(q)
    BY <1>1, <1>2, <1>t, <1>u, <2>m, Zenon DEF Same
  <2>a. ASSUME proc'[p] # None
        PROVE  active'[p] = TRUE /\ proc'[p] = v /\ client' = client
    <3>1. active[p] \in {TRUE, FALSE, None} /\ active[p] # None
      BY <1>h, <1>p, <2>2, ZenonT(30) DEF HandOK, Local
    <3> QED  BY <2>5, <2>a, <2>m, <3>1, Zenon
  <2>s. Served(p)'
    BY <1>p, <1>r, <2>2, <2>3, <2>a DEF Served, Remembered, Remember
  <2>b. step.at = "unenforce" => Removed(p)'
    BY <1>p, <1>r, <2>2, <2>m, Zenon DEF Removed, Remembered, Remember
  <2>7. Local(p)' /\ InHand'
    BY <1>p, <1>u, <2>1, <2>b, <2>m, ZenonT(30) DEF Local, InHand, P
  <2>8. Sound(p)' /\ step.at = "rollback" => Undone(p)'
    BY <1>p, <1>r, <2>3, <2>5, <2>6, <2>m, ZenonT(30) DEF Undone, Ready, Launched
  <2>9. Sound(p)' /\ step.at = "unenforce" => Gone(p)'
    BY <1>p, <1>r, <2>2, <2>6, <2>m, Zenon DEF Gone, Ready, Launched
  <2>10. Progress'
    BY <1>p, <2>1, <2>8, <2>9, Zenon DEF Progress, P, Settled
  <2> QED  BY <1>1, <1>p, <1>t, <1>r, <1>u, <2>1, <2>6, <2>7, <2>10, <2>m, <2>s, HandStep
<1>3. CASE /\ Reachable(P) /\ proc[P].enf /\ ~ proc[P].enforced
           /\ Failed("reply") /\ UNCHANGED <<active, client, proc, initE, panicked>>
  <2>1. \A q \in PUs \ {p} : Same(q)
    BY <1>3, <1>u, ZenonT(30) DEF Same
  <2>2. Local(p)' /\ Served(p)'
    BY <1>3, <1>p, <1>r, ZenonT(30) DEF Local, Served, Remembered, Remember
  <2>r. p \notin runtime' => Removed(p)'
    BY <1>1, <1>3, <1>p, <1>r, <1>u DEF Removed, Reachable, Remembered, Remember
  <2>3. ~ Sound(p)'
    BY <1>1, <1>3, <1>p, <1>r, Zenon DEF Gone, Reachable
  <2> QED  BY <1>1, <1>3, <1>h, <1>r, <1>t, <1>u, <2>1, <2>2, <2>3, <2>r, ErrorStep, Zenon
<1>4. CASE /\ Reachable(P) /\ ~ proc[P].enf /\ Dies(P)
           /\ Failed("reply") /\ UNCHANGED <<active, client, initE, panicked>>
  <2>0. proc' \in Processes /\ proc'[p] = None /\ \A q \in PUs \ {p} : proc'[q] = proc[q]
    BY <1>1, <1>4, <1>t, ProcUpdate, ZenonT(30) DEF Dies
  <2>1. \A q \in PUs \ {p} : Same(q)
    BY <1>4, <1>u, <2>0, ZenonT(30) DEF Same
  <2>2. Local(p)' /\ Served(p)' /\ Removed(p)'
    BY <1>4, <1>p, <2>0, Zenon DEF Local, Served, Removed
  <2>3. ~ Sound(p)'
    BY <1>1, <1>4, <1>p, <1>r, Zenon DEF Gone, Reachable, Ready
  <2> QED  BY <1>1, <1>4, <1>h, <1>r, <1>t, <1>u, <2>0, <2>1, <2>2, <2>3, ErrorStep
<1>5. CASE ~ Reachable(P) /\ Failed("reply") /\ UNCHANGED <<active, client, proc, initE, panicked>>
  <2>1. \A q \in PUs \ {p} : Same(q)
    BY <1>5, <1>u, ZenonT(30) DEF Same
  <2>2. Local(p)' /\ Served(p)'
    BY <1>5, <1>p, <1>r, ZenonT(30) DEF Local, Served, Remembered, Remember
  <2>r. Removed(p)'
    BY <1>1, <1>5, <1>p, <1>r DEF Removed, Served, Reachable, Remembered, Remember
  <2>3. Sound(p)' => Gone(p)
    BY <1>1, <1>5, <1>p, <1>r, Zenon DEF Gone, Reachable, Ready, Launched
  <2>4. Sound(p)' => Gone(p)'
    BY <1>5, <2>3 DEF Gone
  <2> QED  BY <1>1, <1>5, <1>h, <1>r, <1>t, <1>u, <2>1, <2>2, <2>4, <2>r, ErrorStep, Zenon DEF Settled
<1> QED  BY <1>2, <1>3, <1>4, <1>5, Zenon DEF UnenforceProxy

LEMMA UnenforceStep ==
    ASSUME Inv, Unenforce
    PROVE  Inv'
BY ProxyStep DEF Unenforce, At

LEMMA RollbackStep ==
    ASSUME Inv, Rollback
    PROVE  Inv'
BY ProxyStep DEF Rollback, At, ctlVars

-----------------------------------------------------------------------------
(* REQUESTS, ANSWERS AND CRASHES *)

LEMMA InitInv == Init => Inv
<1> SUFFICES ASSUME Init PROVE Inv
  OBVIOUS
<1>1. step.at = "idle" /\ step.pu = None /\ step \in StepRecords
  BY IdleFacts DEF Init
<1>2. Types
  BY <1>1 DEF Init, Types, StepRecords, Steps
<1>3. \A p \in PUs : Gone(p)
  BY DEF Init, Gone
<1>4. \A p \in PUs : Local(p) /\ Served(p) /\ Rest(p)
  BY <1>3 DEF Init, Local, Served, Rest, Gone, Settled, Removed
<1> QED  BY <1>1, <1>2, <1>4 DEF Inv, StepOK, Init

(* A request is taken: the PU, which was at rest, is now in hand. *)
LEMMA TakeStep ==
    ASSUME Inv, NEW p \in PUs, NEW s \in {"launch", "unsupervise"}, step = Idle, Request(p, s), p \in runtime', runtime' \subseteq PUs, running' \subseteq PUs,
           \A q \in PUs \ {p} : ((q \in runtime') <=> (q \in runtime))
                                /\ ((q \in running') <=> (q \in running)),
           UNCHANGED <<active, client, proc, initE, initS, excluded>>
    PROVE  Inv'
<1>1. step.pu = None /\ step' \in StepRecords /\ step'.at = s /\ step'.pu = p
  <2>1. s \in Steps
    BY DEF Steps
  <2> QED  BY <2>1, IdleFacts, Zenon DEF Request
<1>2. Types'
  BY <1>1, Zenon DEF Inv, Types, StepRecords, Steps
<1>3. StepOK'
  BY <1>1, Zenon DEF StepOK, P
<1>4. /\ \A q \in PUs : Suffered(q)' = Suffered(q)
      /\ \A q \in PUs \ {p} : Lately(q)' = Lately(q)
  BY DEF Request, Suffered, Lately
<1>r. /\ \A q \in PUs \ {p} : Remember(q)
      /\ (Sound(p)' => Sound(p)) /\ (Linked(p)' => Linked(p)) /\ (Started(p)' => Started(p))
  BY <1>4 DEF Remember, Sound, Linked, Started, Lives, Heard
<1>5. \A q \in PUs : Local(q) /\ Served(q) /\ Rest(q)
  BY <1>1, NoneAssumption, Zenon DEF Inv, P
<1>6. \A q \in PUs \ {p} : Same(q)
  BY DEF Same
<1>7. \A q \in PUs \ {p} : Local(q)' /\ Served(q)' /\ Rest(q)'
  BY <1>r, <1>5, <1>6, SameLocal, SameServed, SameRest, ZenonT(30)
<1>8. Local(p)' /\ Served(p)'
  BY <1>5, <1>r DEF Local, Served
<1>9. Sound(p)' => Settled(p)'
  <2>1. Sound(p)' => Settled(p)
    BY <1>r, <1>5, ZenonT(30) DEF Rest
  <2>2. Settled(p) => Settled(p)'
    BY Zenon DEF Settled, Gone, Up, Ready, Launched, Undone
  <2> QED  BY <2>1, <2>2
<1>10. InHand' /\ Progress'
  BY <1>1, <1>9, Zenon DEF InHand, Progress, P
<1>11. P' = p
  BY <1>1, Zenon DEF P
<1> QED  BY <1>2, <1>3, <1>7, <1>8, <1>10, <1>11 DEF Inv

LEMMA RequestStep ==
    ASSUME Inv, NEW p \in PUs, Create(p) \/ Update(p) \/ Delete(p)
    PROVE  Inv'
<1>t. runtime \subseteq PUs /\ running \subseteq PUs
  BY DEF Inv, Types
<1>1. CASE Create(p)
  BY <1>1, <1>t, TakeStep, Zenon DEF Create
<1>2. CASE Update(p)
  BY <1>2, <1>t, TakeStep, Zenon DEF Update, ctlVars
<1>3. CASE Delete(p)
  BY <1>3, <1>t, TakeStep, Zenon DEF Delete
<1> QED  BY <1>1, <1>2, <1>3

LEMMA ReplyStep ==
    ASSUME Inv, Reply
    PROVE  Inv'
<1>0. /\ step.at = "reply" /\ step' = Idle
      /\ running' = IF step.ok /\ P \in runtime THEN running \cup {P} ELSE running \ {P}
      /\ NoFault /\ UNCHANGED <<active, client, proc, initE, initS, excluded, runtime>>
  BY DEF Reply, At
<1>h. HandOK
  BY <1>0, HandFacts
<1>1. PICK p \in PUs : p = P
  BY <1>h DEF HandOK
<1>2. step' \in StepRecords /\ step'.at = "idle" /\ step'.pu = None
  BY <1>0, IdleFacts
<1>3. running' \subseteq PUs
  BY <1>0, <1>1 DEF Inv, Types
<1>4. Types'
  BY <1>0, <1>2, <1>3, Zenon DEF Inv, Types, StepRecords, Steps
<1>5. StepOK'
  BY <1>0, <1>2 DEF StepOK, Idle, Step
<1>6. Remembered /\ Remember(p)
  BY <1>0, NoFaultFacts DEF Remembered
<1>7. \A q \in PUs \ {p} : Local(q)' /\ Served(q)' /\ Rest(q)'
  <2>1. \A q \in PUs \ {p} : Same(q)
    BY <1>0, <1>1, SMTT(30) DEF Same
  <2> QED  BY <1>1, <1>6, <2>1, SameLocal, SameServed, SameRest, SMTT(30) DEF Inv, Remembered
<1>8. Local(p)' /\ Served(p)'
  BY <1>0, <1>1, <1>6, <1>h DEF HandOK, Local, Served, Remember
<1>9. Rest(p)'
  <2>1. p \in running' => step.ok = TRUE /\ p \in runtime
    BY <1>0, <1>1, <1>h DEF HandOK, StepRecords
  <2>2. p \in running' /\ Lives(p)' => Policed(p)
    BY <1>0, <1>1, <1>6, <1>h, <2>1, Zenon DEF HandOK, InHand, Remember
  <2>r. p \notin runtime => Removed(p)
    BY <1>0, <1>1, <1>h, Zenon DEF HandOK, InHand
  <2>3. Sound(p)' => Settled(p) /\ (p \notin runtime => Gone(p))
    BY <1>0, <1>1, <1>6, <1>h, ZenonT(30) DEF HandOK, Progress, Remembered, Remember
  <2>a. (Policed(p) => Policed(p)') /\ (Removed(p) => Removed(p)')
    BY <1>0, <1>6, Zenon DEF Policed, Removed, Remember
  <2>4. /\ Settled(p) => Settled(p)'
        /\ Gone(p) => Gone(p)'
    BY <1>0, Zenon DEF Settled, Gone, Up, Ready, Launched, Undone
  <2> QED  BY <1>0, <2>2, <2>3, <2>4, <2>a, <2>r DEF Rest
<1> QED  BY <1>2, <1>4, <1>5, <1>7, <1>8, <1>9 DEF Inv

(* A step that leaves the PU in hand alone. *)
LEMMA SameHand ==
    ASSUME Inv, step.at # "idle", UNCHANGED step, Same(P), Remembered
    PROVE  InHand' /\ Progress'
<1>1. PICK p \in PUs : p = P
  BY HandFacts DEF HandOK
<1>2. Same(p) /\ InHand /\ Progress /\ Remember(p)
  BY <1>1, HandFacts DEF HandOK, Remembered
<1>3. P' = p
  BY <1>1, Zenon DEF P
<1>4. InHand'
  BY <1>1, <1>2, <1>3, SamePoliced, Zenon DEF InHand, Same, Remember
<1>5. (New(p)' <=> New(p)) /\ (Ready(p)' <=> Ready(p))
  <2>1. New(p)' <=> New(p)
    BY <1>2, Zenon DEF Same, New, Launched
  <2>2. Ready(p)' <=> Ready(p)
    BY <1>2, Zenon DEF Same, Ready, Launched
  <2> QED  BY <2>1, <2>2, Zenon
<1>6. Progress'
  BY <1>1, <1>2, <1>3, <1>5, SameState, Zenon DEF Progress, Same, Settled, Remember
<1> QED  BY <1>4, <1>6

LEMMA CrashStep ==
    ASSUME Inv, NEW c \in PUs, Crash(c)
    PROVE  Inv'
<1>0. /\ FaultOf(c, "crash") /\ proc' = [proc EXCEPT ![c] = None]
      /\ UNCHANGED <<active, client, initE, initS, runtime, running, excluded, step>>
  BY DEF Crash, Dies, ctlVars
<1>1. Remembered /\ ~ Sound(c)' /\ ~ Lives(c)'
  BY <1>0, FaultFacts
<1>2. /\ proc' \in Processes /\ proc'[c] = None /\ \A q \in PUs \ {c} : Same(q)
  <2>1. proc \in Processes
    BY Zenon DEF Inv, Types, Processes
  <2> QED  BY <1>0, <2>1, ProcUpdate, Zenon DEF Same
<1>3. Types' /\ StepOK' /\ P' = P
  BY <1>0, <1>2, ZenonT(30) DEF Inv, Types, StepOK, Processes, P
<1>4. Local(c)' /\ Served(c)' /\ Rest(c)'
  <2>1. Local(c)
    BY DEF Inv
  <2> QED  BY <1>0, <1>1, <1>2, <2>1 DEF Local, Served, Rest, Removed
<1>5. \A q \in PUs : Local(q)' /\ Served(q)' /\ (q # P => Rest(q)')
  BY <1>1, <1>2, <1>4, SameLocal, SameServed, SameRest DEF Inv, Remembered
<1>6. ASSUME step.at # "idle" PROVE InHand' /\ Progress'
  <2>1. CASE P = c
    <3>1. InHand
      BY <1>6, HandFacts DEF HandOK
    <3>2. P' = c /\ ~ Sound(P)' /\ ~ Lives(P)' /\ Removed(P)'
      BY <1>0, <1>1, <1>2, <2>1, Zenon DEF P, Removed
    <3>3. InHand'
      BY <1>0, <1>1, <1>2, <2>1, <3>1, <3>2 DEF InHand
    <3> QED  BY <3>2, <3>3, Zenon DEF Progress
  <2>2. CASE P # c
    <3>1. P \in PUs
      BY <1>6, HandFacts DEF HandOK
    <3> QED  BY <1>0, <1>1, <1>2, <1>6, <2>2, <3>1, SameHand
  <2> QED  BY <2>1, <2>2, Zenon
<1> QED  BY <1>0, <1>3, <1>5, <1>6 DEF Inv

(* Nothing that the invariant speaks of changes, but for the list that the next
   Supervise sends. *)
LEMMA OtherStep ==
    ASSUME Inv, UNCHANGED <<active, client, proc, initE, initS, runtime, running, step>>, NoFault,
           excluded' \in Lists \cup {None}
    PROVE  Inv'
<1>1. Remembered /\ \A q \in PUs : Same(q)
  BY NoFaultFacts DEF Same
<1>2. Types' /\ StepOK' /\ P' = P
  BY Zenon DEF Inv, Types, StepOK, P
<1>3. \A q \in PUs : Local(q)' /\ Served(q)' /\ (q # P => Rest(q)')
  BY <1>1, SameLocal, SameServed, SameRest DEF Inv, Remembered
<1>4. ASSUME step.at # "idle" PROVE InHand' /\ Progress'
  <2>1. P \in PUs
    BY <1>4, HandFacts DEF HandOK
  <2> QED  BY <1>1, <1>4, <2>1, SameHand
<1> QED  BY <1>2, <1>3, <1>4, Zenon DEF Inv

LEMMA StepInv == Inv /\ [Next]_vars => Inv'
<1> SUFFICES ASSUME Inv, [Next]_vars PROVE Inv'
  OBVIOUS
<1>1. ASSUME NEW p \in PUs, Create(p) \/ Update(p) \/ Delete(p) \/ Crash(p) PROVE Inv'
  BY <1>1, RequestStep, CrashStep
<1>2. ASSUME NEW l \in Lists, AddExcludedIPs(l) PROVE Inv'
  BY <1>2, OtherStep DEF AddExcludedIPs
<1>3. CASE UNCHANGED vars
  <2>1. excluded \in Lists \cup {None}
    BY DEF Inv, Types
  <2> QED  BY <1>3, <2>1, OtherStep DEF vars, NoFault
<1> QED  BY <1>1, <1>2, <1>3, LaunchProcessStep, InitRemoteEnforcerStep, EnforceStep,
            InitRemoteSupervisorStep, SuperviseStep, RollbackStep, UnsuperviseStep, UnenforceStep,
            ReplyStep, Zenon DEF Next

(* Every reachable state of the two proxies, the process manager and the remote
   processes satisfies the inductive invariant, whatever fails. *)
THEOREM Invariant == Spec => []Inv
BY InitInv, StepInv, PTL DEF Spec

(* Whatever fails and whichever process dies, one that lives is in the table of
   processmon (LaunchProcess and KillProcess of processmon.go). *)
THEOREM NoOrphanAlways == Spec => []NoOrphan
<1>1. Inv => NoOrphan
  BY DEF Inv, Local, NoOrphan
<1> QED  BY <1>1, Invariant, PTL

(* initDone of the supervisor proxy never outlives the process it speaks of
   (Supervise and Unsupervise of supervisorproxy.go, with KillProcess). *)
THEOREM SuperviseAfterInitAlways == Spec => []SuperviseAfterInit
<1>1. Inv => SuperviseAfterInit
  BY DEF Inv, Types, Local, SuperviseAfterInit
<1> QED  BY <1>1, Invariant, PTL

(* A create or update that returned nil has its PU enforced and supervised in a
   live process with a started supervisor, unless that process has died since the
   request, Supervise failed inside the remote during it, or a Start has failed in
   a process of this PU, whatever else goes wrong for it or for other PUs (Enforce
   and Supervise of the two proxies, with the handlers of the remote server). *)
THEOREM RunningIsPolicedAlways == Spec => []RunningIsPoliced
<1>1. Inv => RunningIsPoliced
  <2> SUFFICES ASSUME Inv, step = Idle, NEW p \in running, Lives(p)
               PROVE  Policed(p)
    BY DEF RunningIsPoliced, Lives, Policed, Heard, Started
  <2>1. p \in PUs /\ p # P
    <3>1. P = None /\ None \notin PUs
      BY IdleFacts, NoneAssumption, Zenon DEF P
    <3>2. p \in PUs
      BY Zenon DEF Inv, Types
    <3> QED  BY ONLY <3>1, <3>2, Zenon
  <2> QED  BY <2>1 DEF Inv, Rest
<1> QED  BY <1>1, Invariant, PTL

(* A deleted PU has no process unless the connection to one failed, whatever else
   has gone wrong for it and however often it was created again; and unless its
   process died, could not be reached or could not be initialised, it has left the
   initDone of both proxies, the table of processmon and the client map
   (Unsupervise and Unenforce of the two proxies, with KillProcess). *)
THEOREM DeletedIsGoneAlways == Spec => []DeletedIsGone
<1>1. Inv => DeletedIsGone
  <2> SUFFICES ASSUME Inv, step = Idle, NEW p \in PUs \ runtime
               PROVE  Removed(p) /\ (Sound(p) => Gone(p))
    BY DEF DeletedIsGone, Removed, Linked, Sound, Gone
  <2>1. p # P
    BY IdleFacts, NoneAssumption DEF P
  <2> QED  BY <2>1 DEF Inv, Rest
<1> QED  BY <1>1, Invariant, PTL
===============================================================================
