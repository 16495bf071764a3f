------------------------------ MODULE MCPolicy ------------------------------
(* Instances of Policy for model checking.                                 *)
EXTENDS Policy

\* The loosest configuration that still reviews, and the shipped one.
Lax == [mode |-> "observe", allow |-> Blocked \cup Questioned, minimum |-> [e \in Environments |-> 0],
        max |-> 4, review |-> 4, sandboxProd |-> FALSE, denyMutable |-> FALSE,
        reviewMutable |-> FALSE, digestGeneric |-> FALSE]
Shipped == [mode |-> "enforce", allow |-> {}, minimum |-> [e \in Environments |-> 1],
            max |-> 2, review |-> 3, sandboxProd |-> TRUE, denyMutable |-> TRUE,
            reviewMutable |-> TRUE, digestGeneric |-> TRUE]
SomeConfigs == {Lax, [Lax EXCEPT !.mode = "warn", !.max = 3], [Lax EXCEPT !.mode = "enforce", !.review = 2],
                Shipped, [Shipped EXCEPT !.mode = "warn"]}

\* An artefact with nothing against it, of every ecosystem and for every
\* environment, with its age published or not.
Clean == {[env |-> e, ecosystem |-> s, revoked |-> FALSE, yanked |-> FALSE, age |-> a,
           severity |-> 1, caps |-> {}, compared |-> FALSE, previous |-> p, growth |-> FALSE, mutable |-> FALSE,
           declared |-> TRUE, sandbox |-> "executed", events |-> {}] :
          e \in Environments, s \in Ecosystems, a \in {Unknown, 24},
          p \in {{}, {"native_code"}}}
=============================================================================
