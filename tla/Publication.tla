----------------------------- MODULE Publication -----------------------------
(***************************************************************************)
(* What the quarantine promises about one of its paths, whatever the       *)
(* downloads do with their temporary files.  Only a request that ends its  *)
(* fetching publishes a file; one that is not accepted is discarded by a   *)
(* legacy request only; the legacy client publishes nothing that its own   *)
(* declared digest does not accept; and a published file changes only      *)
(* while a request is still fetching.  Download has these steps for its    *)
(* path, and Firewall for each of its paths.                               *)
(***************************************************************************)
CONSTANTS
    Requests, Files,
    Declares,  \* the sets of files that a declared digest may accept
    None

VARIABLES
    held,   \* the published file, or None
    stage,  \* of each request: "idle", "files" or "legacy" while the client of
            \* that route is fetching, "accepted"
    wants,  \* the files that the digests declared to each request accept
    taken   \* the file whose digest each accepted request was given

vars == <<held, stage, wants, taken>>

Fetching(r) == stage[r] \in {"files", "legacy"}

Init ==
    /\ held = None
    /\ stage = [r \in Requests |-> "idle"]
    /\ wants = [r \in Requests |-> {}]
    /\ taken = [r \in Requests |-> None]

Begin(r, w) ==
    /\ stage[r] = "idle"
    /\ stage' = [stage EXCEPT ![r] = "files"]
    /\ wants' = [wants EXCEPT ![r] = w]
    /\ UNCHANGED <<held, taken>>

\* The legacy route first looks for a published file it can use, and discards
\* one that it cannot.
BeginLegacy(r, w) ==
    /\ stage[r] = "idle"
    /\ held \notin w
    /\ held' = None
    /\ stage' = [stage EXCEPT ![r] = "legacy"]
    /\ wants' = [wants EXCEPT ![r] = w]
    /\ UNCHANGED taken

Reuse(r, w) ==
    /\ stage[r] = "idle"
    /\ held \in w
    /\ stage' = [stage EXCEPT ![r] = "accepted"]
    /\ wants' = [wants EXCEPT ![r] = w]
    /\ taken' = [taken EXCEPT ![r] = held]
    /\ UNCHANGED held

Publish(r, f) ==
    /\ Fetching(r)
    /\ stage[r] = "legacy" => f \in wants[r]
    /\ held' = f
    /\ IF f \in wants[r]
       THEN /\ stage' = [stage EXCEPT ![r] = "accepted"]
            /\ taken' = [taken EXCEPT ![r] = f]
            /\ UNCHANGED wants
       ELSE /\ stage' = [stage EXCEPT ![r] = "idle"]
            /\ wants' = [wants EXCEPT ![r] = {}]
            /\ UNCHANGED taken

Spill(r, f) ==
    /\ Fetching(r)
    /\ held # None
    /\ held' = f
    /\ UNCHANGED <<stage, wants, taken>>

\* Some requests end, in whatever way, and leave the path as it is.
End(s) ==
    /\ \A r \in s : stage[r] # "idle"
    /\ stage' = [r \in Requests |-> IF r \in s THEN "idle" ELSE stage[r]]
    /\ wants' = [r \in Requests |-> IF r \in s THEN {} ELSE wants[r]]
    /\ taken' = [r \in Requests |-> IF r \in s THEN None ELSE taken[r]]
    /\ UNCHANGED held

Next ==
    \/ \E r \in Requests :
          \/ \E w \in Declares : Begin(r, w) \/ BeginLegacy(r, w) \/ Reuse(r, w)
          \/ \E f \in Files : Publish(r, f) \/ Spill(r, f)
    \/ \E s \in SUBSET Requests : End(s)

Spec == Init /\ [][Next]_vars

=============================================================================
