---------------------------- MODULE PermitLedger ----------------------------
(***************************************************************************)
(* What the permit ledger promises its readers, whatever runs beside it.   *)
(* A digest is open until it is revoked, closing while requests that were  *)
(* cleared before the revocation are still in flight, and closed for good  *)
(* once they are gone.  A closed digest gets no permit and is not listed.  *)
(***************************************************************************)
CONSTANTS Digests, PermitIds, None

VARIABLES
    state,    \* of each permit: "none", "active" or "revoked"
    subject,  \* the digest of each permit
    phase,    \* of each digest: "open", "closing" or "closed"
    listed    \* whether each digest is offered by the index

vars == <<state, subject, phase, listed>>

Phases == {"open", "closing", "closed"}

Later(p) == CASE p = "open" -> Phases
              [] p = "closing" -> {"closing", "closed"}
              [] p = "closed" -> {"closed"}

Init ==
    /\ state = [i \in PermitIds |-> "none"]
    /\ subject = [i \in PermitIds |-> None]
    /\ phase = [d \in Digests |-> "open"]
    /\ listed = [d \in Digests |-> FALSE]

Advance == phase' \in [Digests -> Phases] /\ \A d \in Digests : phase'[d] \in Later(phase[d])

Grant(i, d) ==
    /\ state[i] = "none"
    /\ phase[d] # "closed"
    /\ state' = [state EXCEPT ![i] = "active"]
    /\ subject' = [subject EXCEPT ![i] = d]
    /\ UNCHANGED listed

Void(d) ==
    /\ phase[d] # "open"
    /\ state' = [i \in PermitIds |-> IF subject[i] = d THEN "revoked" ELSE state[i]]
    /\ UNCHANGED <<subject, listed>>

List(d) ==
    /\ phase[d] # "closed"
    /\ listed' = [listed EXCEPT ![d] = TRUE]
    /\ UNCHANGED <<state, subject>>

Delist(d) ==
    /\ listed' = [listed EXCEPT ![d] = FALSE]
    /\ UNCHANGED <<state, subject>>

Next ==
    /\ Advance
    /\ \/ \E i \in PermitIds, d \in Digests : Grant(i, d)
       \/ \E d \in Digests : Void(d) \/ List(d) \/ Delist(d)
       \/ UNCHANGED <<state, subject, listed>>

Spec == Init /\ [][Next]_vars

=============================================================================
