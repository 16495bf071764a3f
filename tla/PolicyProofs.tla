---------------------------- MODULE PolicyProofs ----------------------------
(***************************************************************************)
(* Theorems about the policy engine, for every configuration, every        *)
(* artefact and every set of capabilities and ages.  The order of the      *)
(* decisions follows from two facts about evaluate: a denial is decided    *)
(* before a review, and a change that makes the artefact look worse or the *)
(* configuration stricter keeps every reason it had, or turns a reason to  *)
(* review into a reason to deny.                                           *)
(***************************************************************************)
EXTENDS Policy, TLAPS

\* The reasons of x2 under c2 weigh at least those of x1 under c1.
Outweighs(c2, x2, c1, x1) ==
    /\ Denies(c1, x1) => Denies(c2, x2)
    /\ Reviews(c1, x1) => Denies(c2, x2) \/ Reviews(c2, x2)

\* Modes from the most lenient to the strictest.
Firmness(mode) == CASE mode = "observe" -> 0 [] mode = "warn" -> 1 [] mode = "enforce" -> 2

\* In a mode at least as strict, reasons that weigh more are decided no milder.
LEMMA Monotone ==
    ASSUME NEW c1 \in Config, NEW c2 \in Config, NEW x1 \in Facts, NEW x2 \in Facts,
           Firmness(c1.mode) <= Firmness(c2.mode), Outweighs(c2, x2, c1, x1)
    PROVE  Rank(Evaluate(c2, x2)) >= Rank(Evaluate(c1, x1))
<1>1. c1.mode \in Modes /\ c2.mode \in Modes
  BY DEF Config
<1>2. CASE c1.mode = "observe"
  BY <1>1, <1>2 DEF Evaluate, Rank, Modes
<1>3. CASE c1.mode = "warn"
  BY <1>1, <1>3 DEF Evaluate, Rank, Modes, Firmness, Outweighs
<1>4. CASE c1.mode = "enforce"
  BY <1>1, <1>4 DEF Evaluate, Rank, Modes, Firmness, Outweighs
<1>5. QED
  BY <1>1, <1>2, <1>3, <1>4 DEF Modes


\* Both changes are steps of one kind: a well-typed value that weighs more.
LEMMA LearnWorse ==
    ASSUME TypeOK, NEW x \in Facts, Learn(x), Outweighs(config, x, config, facts)
    PROVE  TypeOK' /\ Rank(Evaluate(config', facts')) >= Rank(Evaluate(config, facts))
<1>1. config \in Config /\ facts \in Facts /\ config' = config /\ facts' = x
  BY DEF TypeOK, Learn
<1>2. Firmness(config.mode) <= Firmness(config.mode)
  BY <1>1 DEF Config, Modes, Firmness
<1>3. TypeOK'
  BY PolicyAssumption DEF TypeOK, Learn, Spend
<1>4. QED
  BY <1>1, <1>2, <1>3, Monotone

LEMMA TightenMore ==
    ASSUME TypeOK, NEW c \in Config, Tighten(c), Firmness(config.mode) <= Firmness(c.mode),
           Outweighs(c, facts, config, facts)
    PROVE  TypeOK' /\ Rank(Evaluate(config', facts')) >= Rank(Evaluate(config, facts))
<1>1. config \in Config /\ facts \in Facts /\ config' = c /\ facts' = facts
  BY DEF TypeOK, Tighten
<1>2. TypeOK'
  BY PolicyAssumption DEF TypeOK, Tighten, Spend
<1>3. QED
  BY <1>1, <1>2, Monotone

\* No signal and no restriction breaks a type or relaxes the decision.
LEMMA Step ==
    ASSUME TypeOK, Next
    PROVE  TypeOK' /\ Rank(Evaluate(config', facts')) >= Rank(Evaluate(config, facts))
<1> DEFINE Goal == TypeOK' /\ Rank(Evaluate(config', facts')) >= Rank(Evaluate(config, facts))
<1>a. config \in Config /\ facts \in Facts
  BY DEF TypeOK
<1>1. ASSUME Worsen PROVE Goal
  <2>1. ASSUME Revoke PROVE Goal
    <3> DEFINE x == [facts EXCEPT !.revoked = TRUE]
    <3>1. x \in Facts /\ Learn(x)
      BY <1>a, <2>1, PolicyAssumption DEF Revoke, Facts, Severities
    <3>2. Outweighs(config, x, config, facts)
      BY <1>a, <2>1, PolicyAssumption DEF Revoke, Outweighs, Denies, Reviews, Unlisted, Introduced, Sandboxed, TooYoung, Facts, Config, Severities
    <3>3. QED
      BY <3>1, <3>2, LearnWorse
  <2>2. ASSUME Yank PROVE Goal
    <3> DEFINE x == [facts EXCEPT !.yanked = TRUE]
    <3>1. x \in Facts /\ Learn(x)
      BY <1>a, <2>2, PolicyAssumption DEF Yank, Facts, Severities
    <3>2. Outweighs(config, x, config, facts)
      BY <1>a, <2>2, PolicyAssumption DEF Yank, Outweighs, Denies, Reviews, Unlisted, Introduced, Sandboxed, TooYoung, Facts, Config, Severities
    <3>3. QED
      BY <3>1, <3>2, LearnWorse
  <2>3. ASSUME Aggravate PROVE Goal
    <3> DEFINE x == [facts EXCEPT !.severity = @ + 1]
    <3>1. x \in Facts /\ Learn(x)
      BY <1>a, <2>3, PolicyAssumption DEF Aggravate, Facts, Severities
    <3>2. Outweighs(config, x, config, facts)
      BY <1>a, <2>3, PolicyAssumption DEF Aggravate, Outweighs, Denies, Reviews, Unlisted, Introduced, Sandboxed, TooYoung, Facts, Config, Severities
    <3>3. QED
      BY <3>1, <3>2, LearnWorse
  <2>4. ASSUME AddDependencies PROVE Goal
    <3> DEFINE x == [facts EXCEPT !.growth = TRUE]
    <3>1. x \in Facts /\ Learn(x)
      BY <1>a, <2>4, PolicyAssumption DEF AddDependencies, Facts, Severities
    <3>2. Outweighs(config, x, config, facts)
      BY <1>a, <2>4, PolicyAssumption DEF AddDependencies, Outweighs, Denies, Reviews, Unlisted, Introduced, Sandboxed, TooYoung, Facts, Config, Severities
    <3>3. QED
      BY <3>1, <3>2, LearnWorse
  <2>5. ASSUME Retag PROVE Goal
    <3> DEFINE x == [facts EXCEPT !.mutable = TRUE]
    <3>1. x \in Facts /\ Learn(x)
      BY <1>a, <2>5, PolicyAssumption DEF Retag, Facts, Severities
    <3>2. Outweighs(config, x, config, facts)
      BY <1>a, <2>5, PolicyAssumption DEF Retag, Outweighs, Denies, Reviews, Unlisted, Introduced, Sandboxed, TooYoung, Facts, Config, Severities
    <3>3. QED
      BY <3>1, <3>2, LearnWorse
  <2>6. ASSUME Undeclare PROVE Goal
    <3> DEFINE x == [facts EXCEPT !.declared = FALSE]
    <3>1. x \in Facts /\ Learn(x)
      BY <1>a, <2>6, PolicyAssumption DEF Undeclare, Facts, Severities
    <3>2. Outweighs(config, x, config, facts)
      BY <1>a, <2>6, PolicyAssumption DEF Undeclare, Outweighs, Denies, Reviews, Unlisted, Introduced, Sandboxed, TooYoung, Facts, Config, Severities
    <3>3. QED
      BY <3>1, <3>2, LearnWorse
  <2>7. ASSUME SandboxFails PROVE Goal
    <3> DEFINE x == [facts EXCEPT !.sandbox = "failed"]
    <3>1. x \in Facts /\ Learn(x)
      BY <1>a, <2>7, PolicyAssumption DEF SandboxFails, Facts, Severities
    <3>2. Outweighs(config, x, config, facts)
      BY <1>a, <2>7, PolicyAssumption DEF SandboxFails, Outweighs, Denies, Reviews, Unlisted, Introduced, Sandboxed, TooYoung, Facts, Config, Severities
    <3>3. QED
      BY <3>1, <3>2, LearnWorse
  <2>8. ASSUME FindPrevious PROVE Goal
    <3> DEFINE x == [facts EXCEPT !.compared = TRUE]
    <3>1. x \in Facts /\ Learn(x)
      BY <1>a, <2>8, PolicyAssumption DEF FindPrevious, Facts, Severities
    <3>2. Outweighs(config, x, config, facts)
      BY <1>a, <2>8, PolicyAssumption DEF FindPrevious, Outweighs, Denies, Reviews, Unlisted, Introduced, Sandboxed, TooYoung, Facts, Config, Severities
    <3>3. QED
      BY <3>1, <3>2, LearnWorse
  <2>9. ASSUME NEW k \in Capabilities, Detect(k) PROVE Goal
    <3> DEFINE x == [facts EXCEPT !.caps = @ \cup {k}]
    <3>1. x \in Facts /\ Learn(x)
      BY <1>a, <2>9, PolicyAssumption DEF Detect, Facts, Severities
    <3>2. Outweighs(config, x, config, facts)
      BY <1>a, <2>9, PolicyAssumption DEF Detect, Outweighs, Denies, Reviews, Unlisted, Introduced, Sandboxed, TooYoung, Facts, Config, Severities
    <3>3. QED
      BY <3>1, <3>2, LearnWorse
  <2>10. ASSUME NEW k \in Capabilities, CleanPrevious(k) PROVE Goal
    <3> DEFINE x == [facts EXCEPT !.previous = @ \ {k}]
    <3>1. x \in Facts /\ Learn(x)
      BY <1>a, <2>10, PolicyAssumption DEF CleanPrevious, Facts, Severities
    <3>2. Outweighs(config, x, config, facts)
      BY <1>a, <2>10, PolicyAssumption DEF CleanPrevious, Outweighs, Denies, Reviews, Unlisted, Introduced, Sandboxed, TooYoung, Facts, Config, Severities
    <3>3. QED
      BY <3>1, <3>2, LearnWorse
  <2>11. ASSUME NEW a \in Ages, Rejuvenate(a) PROVE Goal
    <3> DEFINE x == [facts EXCEPT !.age = a]
    <3>1. x \in Facts /\ Learn(x)
      BY <1>a, <2>11, PolicyAssumption DEF Rejuvenate, Facts, Severities
    <3>2. Outweighs(config, x, config, facts)
      BY <1>a, <2>11, PolicyAssumption DEF Rejuvenate, Outweighs, Denies, Reviews, Unlisted, Introduced, Sandboxed, TooYoung, Facts, Config, Severities
    <3>3. QED
      BY <3>1, <3>2, LearnWorse
  <2>12. ASSUME NEW e \in Events, Report(e) PROVE Goal
    <3> DEFINE x == [facts EXCEPT !.events = @ \cup {e}]
    <3>1. x \in Facts /\ Learn(x)
      BY <1>a, <2>12, PolicyAssumption DEF Report, Facts, Severities
    <3>2. Outweighs(config, x, config, facts)
      BY <1>a, <2>12, PolicyAssumption DEF Report, Outweighs, Denies, Reviews, Unlisted, Introduced, Sandboxed, TooYoung, Facts, Config, Severities
    <3>3. QED
      BY <3>1, <3>2, LearnWorse
  <2>13. QED
    BY <1>1, <2>1, <2>2, <2>3, <2>4, <2>5, <2>6, <2>7, <2>8, <2>9, <2>10, <2>11, <2>12 DEF Worsen
<1>2. ASSUME Restrict PROVE Goal
  <2>1. ASSUME config.mode = "observe", Tighten([config EXCEPT !.mode = "warn"]) PROVE Goal
    <3> DEFINE c == [config EXCEPT !.mode = "warn"]
    <3>1. c \in Config /\ Tighten(c)
      BY <1>a, <2>1, PolicyAssumption DEF Modes, Config, Severities
    <3>2. Firmness(config.mode) <= Firmness(c.mode)
      BY <1>a, <2>1 DEF Firmness, Modes, Config
    <3>3. Outweighs(c, facts, config, facts)
      BY <1>a, <2>1, PolicyAssumption DEF Modes, Outweighs, Denies, Reviews, Unlisted, Introduced, Sandboxed, TooYoung, Facts, Config, Severities
    <3>4. QED
      BY <3>1, <3>2, <3>3, TightenMore
  <2>2. ASSUME config.mode = "warn", Tighten([config EXCEPT !.mode = "enforce"]) PROVE Goal
    <3> DEFINE c == [config EXCEPT !.mode = "enforce"]
    <3>1. c \in Config /\ Tighten(c)
      BY <1>a, <2>2, PolicyAssumption DEF Modes, Config, Severities
    <3>2. Firmness(config.mode) <= Firmness(c.mode)
      BY <1>a, <2>2 DEF Firmness, Modes, Config
    <3>3. Outweighs(c, facts, config, facts)
      BY <1>a, <2>2, PolicyAssumption DEF Modes, Outweighs, Denies, Reviews, Unlisted, Introduced, Sandboxed, TooYoung, Facts, Config, Severities
    <3>4. QED
      BY <3>1, <3>2, <3>3, TightenMore
  <2>3. ASSUME LowerMax PROVE Goal
    <3> DEFINE c == [config EXCEPT !.max = @ - 1]
    <3>1. c \in Config /\ Tighten(c)
      BY <1>a, <2>3, PolicyAssumption DEF LowerMax, Config, Severities
    <3>2. Firmness(config.mode) <= Firmness(c.mode)
      BY <1>a, <2>3 DEF Firmness, Modes, Config
    <3>3. Outweighs(c, facts, config, facts)
      BY <1>a, <2>3, PolicyAssumption DEF LowerMax, Outweighs, Denies, Reviews, Unlisted, Introduced, Sandboxed, TooYoung, Facts, Config, Severities
    <3>4. QED
      BY <3>1, <3>2, <3>3, TightenMore
  <2>4. ASSUME LowerReview PROVE Goal
    <3> DEFINE c == [config EXCEPT !.review = @ - 1]
    <3>1. c \in Config /\ Tighten(c)
      BY <1>a, <2>4, PolicyAssumption DEF LowerReview, Config, Severities
    <3>2. Firmness(config.mode) <= Firmness(c.mode)
      BY <1>a, <2>4 DEF Firmness, Modes, Config
    <3>3. Outweighs(c, facts, config, facts)
      BY <1>a, <2>4, PolicyAssumption DEF LowerReview, Outweighs, Denies, Reviews, Unlisted, Introduced, Sandboxed, TooYoung, Facts, Config, Severities
    <3>4. QED
      BY <3>1, <3>2, <3>3, TightenMore
  <2>5. ASSUME RequireSandbox PROVE Goal
    <3> DEFINE c == [config EXCEPT !.sandboxProd = TRUE]
    <3>1. c \in Config /\ Tighten(c)
      BY <1>a, <2>5, PolicyAssumption DEF RequireSandbox, Config, Severities
    <3>2. Firmness(config.mode) <= Firmness(c.mode)
      BY <1>a, <2>5 DEF Firmness, Modes, Config
    <3>3. Outweighs(c, facts, config, facts)
      BY <1>a, <2>5, PolicyAssumption DEF RequireSandbox, Outweighs, Denies, Reviews, Unlisted, Introduced, Sandboxed, TooYoung, Facts, Config, Severities
    <3>4. QED
      BY <3>1, <3>2, <3>3, TightenMore
  <2>6. ASSUME DenyMutable PROVE Goal
    <3> DEFINE c == [config EXCEPT !.denyMutable = TRUE]
    <3>1. c \in Config /\ Tighten(c)
      BY <1>a, <2>6, PolicyAssumption DEF DenyMutable, Config, Severities
    <3>2. Firmness(config.mode) <= Firmness(c.mode)
      BY <1>a, <2>6 DEF Firmness, Modes, Config
    <3>3. Outweighs(c, facts, config, facts)
      BY <1>a, <2>6, PolicyAssumption DEF DenyMutable, Outweighs, Denies, Reviews, Unlisted, Introduced, Sandboxed, TooYoung, Facts, Config, Severities
    <3>4. QED
      BY <3>1, <3>2, <3>3, TightenMore
  <2>7. ASSUME ReviewMutable PROVE Goal
    <3> DEFINE c == [config EXCEPT !.reviewMutable = TRUE]
    <3>1. c \in Config /\ Tighten(c)
      BY <1>a, <2>7, PolicyAssumption DEF ReviewMutable, Config, Severities
    <3>2. Firmness(config.mode) <= Firmness(c.mode)
      BY <1>a, <2>7 DEF Firmness, Modes, Config
    <3>3. Outweighs(c, facts, config, facts)
      BY <1>a, <2>7, PolicyAssumption DEF ReviewMutable, Outweighs, Denies, Reviews, Unlisted, Introduced, Sandboxed, TooYoung, Facts, Config, Severities
    <3>4. QED
      BY <3>1, <3>2, <3>3, TightenMore
  <2>8. ASSUME RequireDigest PROVE Goal
    <3> DEFINE c == [config EXCEPT !.digestGeneric = TRUE]
    <3>1. c \in Config /\ Tighten(c)
      BY <1>a, <2>8, PolicyAssumption DEF RequireDigest, Config, Severities
    <3>2. Firmness(config.mode) <= Firmness(c.mode)
      BY <1>a, <2>8 DEF Firmness, Modes, Config
    <3>3. Outweighs(c, facts, config, facts)
      BY <1>a, <2>8, PolicyAssumption DEF RequireDigest, Outweighs, Denies, Reviews, Unlisted, Introduced, Sandboxed, TooYoung, Facts, Config, Severities
    <3>4. QED
      BY <3>1, <3>2, <3>3, TightenMore
  <2>9. ASSUME NEW k \in Capabilities, Unlist(k) PROVE Goal
    <3> DEFINE c == [config EXCEPT !.allow = @ \ {k}]
    <3>1. c \in Config /\ Tighten(c)
      BY <1>a, <2>9, PolicyAssumption DEF Unlist, Config, Severities
    <3>2. Firmness(config.mode) <= Firmness(c.mode)
      BY <1>a, <2>9 DEF Firmness, Modes, Config
    <3>3. Outweighs(c, facts, config, facts)
      BY <1>a, <2>9, PolicyAssumption DEF Unlist, Outweighs, Denies, Reviews, Unlisted, Introduced, Sandboxed, TooYoung, Facts, Config, Severities
    <3>4. QED
      BY <3>1, <3>2, <3>3, TightenMore
  <2>10. ASSUME NEW e \in Environments, NEW a \in Ages, RequireAge(e, a) PROVE Goal
    <3> DEFINE c == [config EXCEPT !.minimum = [@ EXCEPT ![e] = a]]
    <3>1. c \in Config /\ Tighten(c)
      BY <1>a, <2>10, PolicyAssumption DEF RequireAge, Config, Severities
    <3>2. Firmness(config.mode) <= Firmness(c.mode)
      BY <1>a, <2>10 DEF Firmness, Modes, Config
    <3>3. Outweighs(c, facts, config, facts)
      BY <1>a, <2>10, PolicyAssumption DEF RequireAge, Outweighs, Denies, Reviews, Unlisted, Introduced, Sandboxed, TooYoung, Facts, Config, Severities
    <3>4. QED
      BY <3>1, <3>2, <3>3, TightenMore
  <2>11. QED
    BY <1>2, <2>1, <2>2, <2>3, <2>4, <2>5, <2>6, <2>7, <2>8, <2>9, <2>10 DEF Restrict, TightenMode
<1>3. QED
  BY <1>1, <1>2 DEF Next

\* Configuration and facts keep their types along every behaviour.
THEOREM PolicyTypeCorrect == Spec => []TypeOK
<1>1. Init => TypeOK
  BY PolicyAssumption, InputsAssumption DEF Init, TypeOK
<1>2. TypeOK /\ [Next]_vars => TypeOK'
  BY Step DEF TypeOK, vars
<1>3. QED
  BY <1>1, <1>2, PTL DEF Spec

\* PolicyEngine.evaluate is monotone: no signal against an artefact and no
\* restriction in the configuration gets it a milder decision.
THEOREM DecisionsNeverRelax == Spec => NeverRelaxed
<1>1. TypeOK /\ [Next]_vars => [Rank(Evaluate(config', facts')) >= Rank(Evaluate(config, facts))]_vars
  BY Step
<1>2. QED
  BY <1>1, PolicyTypeCorrect, PTL DEF Spec, NeverRelaxed

\* evaluate stays within the verdicts its mode allows, whatever the artefact:
\* what the admission service's model assumes of it.
THEOREM ModeIsKept == Spec => []KeepsToItsMode
<1>1. TypeOK => KeepsToItsMode
  BY DEF TypeOK, KeepsToItsMode, Config, Facts, Verdicts, Evaluate, Denies, Modes
<1>2. QED
  BY <1>1, PolicyTypeCorrect, PTL

\* Under a configuration that does not exempt production, what production
\* admits is admitted by every environment.
THEOREM ProductionIsStrictest == Spec => []ProdIsStrictest
<1>1. TypeOK => ProdIsStrictest
  <2> SUFFICES ASSUME TypeOK, NEW e \in Environments,
                      \A f \in Environments : config.minimum[f] <= config.minimum["prod"],
                      config.denyMutable \/ ~config.reviewMutable
               PROVE  Rank(Evaluate(config, [facts EXCEPT !.env = "prod"]))
                          >= Rank(Evaluate(config, [facts EXCEPT !.env = e]))
    BY DEF ProdIsStrictest
  <2> DEFINE prod == [facts EXCEPT !.env = "prod"]
             other == [facts EXCEPT !.env = e]
  <2>1. prod \in Facts /\ other \in Facts /\ config \in Config
    BY DEF TypeOK, Facts, Environments
  <2>2. TooYoung(config, other) => TooYoung(config, prod)
    BY <2>1, PolicyAssumption DEF TypeOK, TooYoung, Facts, Config, Environments
  <2>3. Outweighs(config, prod, config, other)
    BY <2>1, <2>2 DEF Outweighs, Denies, Reviews, Unlisted, Introduced, Sandboxed, TypeOK, Facts, Config, Environments
  <2>4. Firmness(config.mode) <= Firmness(config.mode)
    BY <2>1 DEF Config, Modes, Firmness
  <2>5. QED
    BY <2>1, <2>3, <2>4, Monotone
<1>2. QED
  BY <1>1, PolicyTypeCorrect, PTL

\* Each preset's decisions are at least as strict as those of the one before.
THEOREM PresetsAreOrdered == Spec => []PresetsOrdered
<1>1. TypeOK => PresetsOrdered
  <2> SUFFICES ASSUME TypeOK, NEW env \in Environments, NEW project \in Projects
               PROVE  /\ Rank(Evaluate(Preset("ci-balanced", env, project), facts))
                             >= Rank(Evaluate(Preset("dev-relaxed", env, project), facts))
                      /\ Rank(Evaluate(Preset("prod-strict", env, project), facts))
                             >= Rank(Evaluate(Preset("ci-balanced", env, project), facts))
    BY DEF PresetsOrdered, TypeOK, Config, Modes, Evaluate, Rank
  <2> DEFINE relaxed == Preset("dev-relaxed", env, project)
             balanced == Preset("ci-balanced", env, project)
             strict == Preset("prod-strict", env, project)
  <2>1. facts \in Facts
    BY DEF TypeOK
  <2>2. \A p \in Presets : Listed(p, project) \subseteq Blocked \cup Questioned
    BY DEF Listed, Blocked, Questioned
  <2>3. relaxed \in Config /\ balanced \in Config /\ strict \in Config
    BY <2>2 DEF Preset, Presets, Config, Modes, MinimumAge, Environments, Severities
  <2>4. /\ Firmness(relaxed.mode) <= Firmness(balanced.mode)
        /\ Firmness(balanced.mode) <= Firmness(strict.mode)
    BY DEF Preset, Firmness
  <2>5. TooYoung(balanced, facts) => TooYoung(strict, facts)
    BY <2>1, PolicyAssumption DEF TooYoung, Preset, MinimumAge, Facts, Environments
  <2>6. TooYoung(relaxed, facts) => TooYoung(balanced, facts)
    BY <2>1, PolicyAssumption DEF TooYoung, Preset, MinimumAge, Facts, Environments
  <2>7. Outweighs(strict, facts, balanced, facts)
    BY <2>1, <2>5 DEF Outweighs, Denies, Reviews, Unlisted, Sandboxed, Preset, Listed, Facts, Severities
  <2>8. Denies(relaxed, facts) => Denies(balanced, facts)
    BY <2>1, <2>6 DEF Denies, Unlisted, Sandboxed, Preset, Listed, Blocked, Facts, Severities
  <2>9. Rank(Evaluate(balanced, facts)) >= Rank(Evaluate(relaxed, facts))
    BY <2>8 DEF Evaluate, Rank, Preset
  <2>10. QED
    BY <2>1, <2>3, <2>4, <2>7, <2>9, Monotone
<1>2. QED
  BY <1>1, PolicyTypeCorrect, PTL

=============================================================================
