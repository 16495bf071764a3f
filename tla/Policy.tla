------------------------------- MODULE Policy -------------------------------
(***************************************************************************)
(* The policy engine: PolicyEngine.evaluate (src/palsy/policy.py), a       *)
(* function of the configuration and of the facts of one artefact, and the *)
(* policies that the presets of policy_composer.py make.                   *)
(*                                                                         *)
(* evaluate keeps no state.  The state machine below compares its answers: *)
(* it starts from some configuration and facts and makes either worse, one *)
(* signal at a time.  Reasons are left out: a decision depends only on     *)
(* whether there is one.                                                   *)
(***************************************************************************)
EXTENDS Naturals, PolicyModes

CONSTANTS
    Configs,       \* configurations to start from
    Starts,        \* facts to start from
    Capabilities,  \* the scanner's capabilities that may appear
    Ages,          \* release ages, in hours
    Budget,        \* bound: how many signals a behaviour adds
    Unknown        \* no published release time

Environments == {"dev", "ci", "prod"}
Ecosystems == {"pypi", "npm", "oci", "generic"}
Severities == 0 .. 4                     \* SEVERITY_RANK

\* Capabilities that deny unless the project is allowlisted for them, those
\* that ask for a review, and the one no list excuses.
Blocked == {"pth_exec", "hidden_runtime", "embedded_interpreter"}
Questioned == {"lifecycle_scripts", "native_code", "references_network"}
AllCapabilities == Blocked \cup Questioned \cup {"import_time_sensitive"}
Compared == AllCapabilities \ {"lifecycle_scripts", "references_network"}

\* Events of a sandbox run: a high one of the three hostile kinds, any other
\* high one, a medium one.
Events == {"hostile", "high", "medium"}

ASSUME PolicyAssumption ==
    /\ Capabilities \subseteq AllCapabilities
    /\ Ages \subseteq Nat
    /\ Unknown \notin Nat
    /\ Budget \in Nat

\* PolicyConfig; allow holds the capabilities whose list names the project.
Config == [mode : Modes, allow : SUBSET (Blocked \cup Questioned),
           minimum : [Environments -> Nat], max : Severities, review : Severities,
           sandboxProd : BOOLEAN, denyMutable : BOOLEAN, reviewMutable : BOOLEAN,
           digestGeneric : BOOLEAN]

\* PolicyContext; compared says that there is a previous allowed version,
\* previous holds its capabilities, growth that ten or more dependencies were
\* added since.
Facts == [env : Environments, ecosystem : Ecosystems, revoked : BOOLEAN, yanked : BOOLEAN,
          age : Nat \cup {Unknown}, severity : Severities, caps : SUBSET AllCapabilities,
          compared : BOOLEAN, previous : SUBSET AllCapabilities, growth : BOOLEAN,
          mutable : BOOLEAN, declared : BOOLEAN,
          sandbox : {"absent", "disabled", "failed", "executed"}, events : SUBSET Events]

ASSUME InputsAssumption == Configs \subseteq Config /\ Starts \subseteq Facts

-----------------------------------------------------------------------------
(* PolicyEngine.evaluate                                                   *)

\* Faulty: production asks for no age where none is published.
TooYoungUnlessProd(c, x) ==
    IF x.age = Unknown THEN x.ecosystem \notin {"oci", "generic"} /\ x.env # "prod"
                         ELSE x.age < c.minimum[x.env]

\* _release_age_reason: an unknown age counts only where registries publish one.
TooYoung(c, x) ==
    IF x.age = Unknown THEN x.ecosystem \notin {"oci", "generic"}
                         ELSE x.age < c.minimum[x.env]

\* _evaluate_diff: what the previous allowed version did not have.
Introduced(x) == IF x.compared THEN (x.caps \cap Compared) \ x.previous ELSE {}

Unlisted(c, x) == x.caps \ c.allow

Sandboxed(x) == x.sandbox \in {"failed", "executed"}

Denies(c, x) ==
    \/ x.revoked
    \/ x.yanked
    \/ x.env = "prod" /\ TooYoung(c, x)
    \/ x.severity > c.max
    \/ Unlisted(c, x) \cap Blocked # {}
    \/ x.ecosystem = "oci" /\ x.mutable /\ x.env = "prod" /\ c.denyMutable
    \/ x.ecosystem = "generic" /\ x.env = "prod" /\ c.digestGeneric /\ ~x.declared
    \/ Introduced(x) \cap Blocked # {}
    \/ x.env = "prod" /\ "native_code" \in Introduced(x)
    \/ x.env = "prod" /\ c.sandboxProd /\ x.ecosystem \in {"pypi", "npm"} /\ x.sandbox # "executed"
    \/ Sandboxed(x) /\ "hostile" \in x.events

Reviews(c, x) ==
    \/ x.env # "prod" /\ TooYoung(c, x)
    \/ x.severity <= c.max /\ x.severity >= c.review
    \/ Unlisted(c, x) \cap Questioned # {}
    \/ "import_time_sensitive" \in x.caps
    \/ x.ecosystem = "oci" /\ x.mutable /\ x.env = "ci" /\ c.reviewMutable
    \/ x.env # "prod" /\ "native_code" \in Introduced(x)
    \/ "import_time_sensitive" \in Introduced(x)
    \/ x.compared /\ x.growth
    \/ Sandboxed(x) /\ "hostile" \notin x.events /\ x.events # {}

\* Faulty: warn mode lets denials through as well.
EvaluateWarnsOnly(c, x) ==
    IF c.mode # "enforce" THEN "allow"
    ELSE IF Denies(c, x) THEN "deny" ELSE IF Reviews(c, x) THEN "review" ELSE "allow"

\* Faulty: a reason to review hides the reasons to deny.
EvaluateReviewFirst(c, x) ==
    LET verdict == IF Reviews(c, x) THEN "review" ELSE IF Denies(c, x) THEN "deny" ELSE "allow"
    IN  CASE c.mode = "observe" -> "allow"
          [] c.mode = "warn" /\ verdict = "review" -> "allow"
          [] OTHER -> verdict

Evaluate(c, x) ==
    LET verdict == IF Denies(c, x) THEN "deny" ELSE IF Reviews(c, x) THEN "review" ELSE "allow"
    IN  CASE c.mode = "observe" -> "allow"
          [] c.mode = "warn" /\ verdict = "review" -> "allow"
          [] OTHER -> verdict

Rank(decision) == CASE decision = "allow" -> 0 [] decision = "review" -> 1 [] decision = "deny" -> 2

-----------------------------------------------------------------------------
(* The presets of policy_composer.py, as the policy they make for one      *)
(* project; ages are in hours.                                             *)

Presets == {"dev-relaxed", "ci-balanced", "prod-strict"}

\* One project of each group that the presets' lists tell apart.
Projects == {"pip", "numpy", "torch", "certifi", "other"}

MinimumAge == [dev |-> [dev |-> 0, ci |-> 0, prod |-> 24],
               ci |-> [dev |-> 0, ci |-> 1, prod |-> 24],
               prod |-> [dev |-> 0, ci |-> 24, prod |-> 48]]

Listed(preset, project) ==
    CASE project = "pip" -> {"pth_exec"}
      [] project = "numpy" -> {"native_code"}
      [] project = "torch" /\ preset # "dev-relaxed" -> {"native_code"}
      [] project = "certifi" -> {"references_network"}
      [] OTHER -> {}

\* Faulty: the strict preset tolerates high severities and only reviews them.
PresetTolerant(preset, env, project) ==
    [mode |-> IF preset = "prod-strict" \/ (preset = "ci-balanced" /\ env # "dev")
              THEN "enforce" ELSE "warn",
     allow |-> Listed(preset, project),
     minimum |-> CASE preset = "dev-relaxed" -> MinimumAge.dev
                   [] preset = "ci-balanced" -> MinimumAge.ci
                   [] preset = "prod-strict" -> MinimumAge.prod,
     max |-> IF preset = "ci-balanced" THEN 2 ELSE 3,
     review |-> IF preset = "prod-strict" THEN 2 ELSE 3,
     sandboxProd |-> TRUE, denyMutable |-> TRUE, reviewMutable |-> TRUE, digestGeneric |-> TRUE]

\* policy_from_preset(preset, environment=env)
Preset(preset, env, project) ==
    [mode |-> IF preset = "prod-strict" \/ (preset = "ci-balanced" /\ env # "dev")
              THEN "enforce" ELSE "warn",
     allow |-> Listed(preset, project),
     minimum |-> CASE preset = "dev-relaxed" -> MinimumAge.dev
                   [] preset = "ci-balanced" -> MinimumAge.ci
                   [] preset = "prod-strict" -> MinimumAge.prod,
     max |-> IF preset = "dev-relaxed" THEN 3 ELSE 2,
     review |-> IF preset = "prod-strict" THEN 2 ELSE 3,
     sandboxProd |-> TRUE, denyMutable |-> TRUE, reviewMutable |-> TRUE, digestGeneric |-> TRUE]

-----------------------------------------------------------------------------
VARIABLES
    config,  \* the configuration in force
    facts,   \* what is known of the artefact
    left     \* signals that may still be added

vars == <<config, facts, left>>

TypeOK == config \in Config /\ facts \in Facts /\ left \in 0 .. Budget

Init == config \in Configs /\ facts \in Starts /\ left = Budget

Spend == left > 0 /\ left' = left - 1

Learn(x) == Spend /\ facts' = x /\ UNCHANGED config
Tighten(c) == Spend /\ config' = c /\ UNCHANGED facts

\* The artefact looks worse than it did.
Revoke == ~facts.revoked /\ Learn([facts EXCEPT !.revoked = TRUE])
Yank == ~facts.yanked /\ Learn([facts EXCEPT !.yanked = TRUE])
Detect(k) == k \notin facts.caps /\ Learn([facts EXCEPT !.caps = @ \cup {k}])
Aggravate == facts.severity < 4 /\ Learn([facts EXCEPT !.severity = @ + 1])
Rejuvenate(a) == facts.age # Unknown /\ a < facts.age /\ Learn([facts EXCEPT !.age = a])
AddDependencies == ~facts.growth /\ Learn([facts EXCEPT !.growth = TRUE])
Retag == ~facts.mutable /\ Learn([facts EXCEPT !.mutable = TRUE])
Undeclare == facts.declared /\ Learn([facts EXCEPT !.declared = FALSE])
Report(e) == e \notin facts.events /\ Learn([facts EXCEPT !.events = @ \cup {e}])
SandboxFails == facts.sandbox = "executed" /\ Learn([facts EXCEPT !.sandbox = "failed"])

\* There turns out to be a previous allowed version, or it could do less.
FindPrevious == ~facts.compared /\ Learn([facts EXCEPT !.compared = TRUE])
CleanPrevious(k) == k \in facts.previous /\ Learn([facts EXCEPT !.previous = @ \ {k}])

\* The operator tightens the configuration.
TightenMode ==
    \/ config.mode = "observe" /\ Tighten([config EXCEPT !.mode = "warn"])
    \/ config.mode = "warn" /\ Tighten([config EXCEPT !.mode = "enforce"])
Unlist(k) == k \in config.allow /\ Tighten([config EXCEPT !.allow = @ \ {k}])
LowerMax == config.max > 0 /\ Tighten([config EXCEPT !.max = @ - 1])
LowerReview == config.review > 0 /\ Tighten([config EXCEPT !.review = @ - 1])
RequireAge(e, a) ==
    a > config.minimum[e] /\ Tighten([config EXCEPT !.minimum = [@ EXCEPT ![e] = a]])
RequireSandbox == ~config.sandboxProd /\ Tighten([config EXCEPT !.sandboxProd = TRUE])
DenyMutable == ~config.denyMutable /\ Tighten([config EXCEPT !.denyMutable = TRUE])
ReviewMutable == ~config.reviewMutable /\ Tighten([config EXCEPT !.reviewMutable = TRUE])
RequireDigest == ~config.digestGeneric /\ Tighten([config EXCEPT !.digestGeneric = TRUE])

Worsen ==
    \/ Revoke \/ Yank \/ Aggravate \/ AddDependencies \/ Retag \/ Undeclare \/ SandboxFails
    \/ FindPrevious
    \/ \E k \in Capabilities : Detect(k) \/ CleanPrevious(k)
    \/ \E a \in Ages : Rejuvenate(a)
    \/ \E e \in Events : Report(e)

Restrict ==
    \/ TightenMode \/ LowerMax \/ LowerReview
    \/ RequireSandbox \/ DenyMutable \/ ReviewMutable \/ RequireDigest
    \/ \E k \in Capabilities : Unlist(k)
    \/ \E e \in Environments, a \in Ages : RequireAge(e, a)

Next == Worsen \/ Restrict

Spec == Init /\ [][Next]_vars

-----------------------------------------------------------------------------
(* Properties.                                                             *)

\* One more signal against the artefact, or one more restriction in the
\* configuration, never gets it a milder decision, although evaluate's checks
\* hide one another (elif) and compare with an earlier version.
NeverRelaxed ==
    [][Rank(Evaluate(config', facts')) >= Rank(Evaluate(config, facts))]_vars

\* evaluate answers what PolicyModes lets the admission service assume.
KeepsToItsMode == Evaluate(config, facts) \in Verdicts(config.mode, facts.revoked)

\* An operator who demands in production at least the release age demanded
\* elsewhere, and who does not let mutable OCI tags into production while CI
\* reviews them, is right to think that production is the strictest
\* environment: an artefact admitted there is admitted everywhere.
ProdIsStrictest ==
    (/\ \A e \in Environments : config.minimum[e] <= config.minimum["prod"]
     /\ config.denyMutable \/ ~config.reviewMutable)
    => \A e \in Environments :
          Rank(Evaluate(config, [facts EXCEPT !.env = "prod"]))
              >= Rank(Evaluate(config, [facts EXCEPT !.env = e]))

\* The names of the presets are kept: what one admits, the more relaxed ones
\* admit as well, for any artefact and wherever the policy was composed for.
PresetsOrdered ==
    \A env \in Environments, project \in Projects :
        LET decided(preset) == Rank(Evaluate(Preset(preset, env, project), facts))
        IN  /\ decided("dev-relaxed") <= decided("ci-balanced")
            /\ decided("ci-balanced") <= decided("prod-strict")

=============================================================================
