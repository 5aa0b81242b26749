------------------------------ MODULE PUService ------------------------------
(* What the controller promises to monitors and to the policy engine: requests
   are applied one at a time; each is applied to its own processing unit (PU)
   only, in one atomic change of the policy in force; and its answer tells what
   happened.  Trireme implements this specification.                          *)
CONSTANTS PUs, Clients, Policies, AllowAll, None

VARIABLES
    force,  \* the policy in force for each PU, None when it is not policed
    req     \* the request of each client

vars == <<force, req>>

Kinds == {"Start", "Stop", "Other", "Update"}
Request(st, kind, p, pol, ok) == [st |-> st, kind |-> kind, pu |-> p, pol |-> pol, ok |-> ok]
NoRequest == Request("idle", None, None, None, TRUE)

Init ==
    /\ force = [p \in PUs |-> None]
    /\ req = [c \in Clients |-> NoRequest]

Submit(c) ==
    /\ req[c].st = "idle"
    /\ \E k \in Kinds, p \in PUs, pol \in Policies \cup {AllowAll, None} :
          /\ (k = "Update") = (pol # None)
          /\ req' = [req EXCEPT ![c] = Request("pending", k, p, pol, TRUE)]
    /\ UNCHANGED force

(* The request takes effect: f is what is in force for its PU from now on. *)
Effect(r, f, ok) ==
    CASE r.kind = "Start"  -> \/ ok /\ f \in Policies
                              \/ ok /\ f = force[r.pu]
                              \/ ~ ok /\ f \in {force[r.pu], None}
      [] r.kind = "Update" -> \/ ok /\ f = r.pol /\ f # AllowAll
                              \/ ok /\ r.pol = AllowAll /\ f = force[r.pu]
                              \/ ~ ok /\ f \in {force[r.pu], None}
      [] r.kind = "Stop"   -> f = None /\ ok = (force[r.pu] # None)
      [] r.kind = "Other"  -> f = force[r.pu] /\ ok

Apply(c) ==
    /\ req[c].st = "pending"
    /\ \E f \in Policies \cup {None}, ok \in BOOLEAN :
          /\ Effect(req[c], f, ok)
          /\ force' = [force EXCEPT ![req[c].pu] = f]
          /\ req' = [req EXCEPT ![c].st = "done", ![c].ok = ok]

Answer(c) ==
    /\ req[c].st = "done"
    /\ req' = [req EXCEPT ![c] = NoRequest]
    /\ UNCHANGED force

Next == \E c \in Clients : Submit(c) \/ Apply(c) \/ Answer(c)

Spec == Init /\ [][Next]_vars
=============================================================================
