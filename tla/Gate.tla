-------------------------------- MODULE Gate --------------------------------
(***************************************************************************)
(* The build gate: `palsy gate` and `palsy verify-permit` (gate.py) around *)
(* FirewallService.assess_lockfile (service.py), with lockfiles that are   *)
(* edited, digests that are revoked and gates that run side by side over   *)
(* one state directory.                                                    *)
(*                                                                         *)
(* A lockfile is a text and its newlines.  The gate reads it in text mode, *)
(* which turns every newline into LF; verify-permit hashes its bytes.  A   *)
(* build permit lives in its file only, no table knows it.  Its signature  *)
(* is modelled by what it shows: the document is whole.  A dependency      *)
(* stands for the digest of the artefact it resolves to; its assessment is *)
(* one step here and module Firewall there.  Expiry is not modelled.       *)
(***************************************************************************)
EXTENDS FiniteSets, PolicyModes

CONSTANTS
    Lockfiles,    \* paths of lockfiles
    Basename,     \* Basename[l]: the last component of l
    PermitFile,   \* PermitFile[l]: where _permit_output_path puts l's permit
    Texts,        \* lockfile texts
    Newlines,     \* the newlines that lockfiles may have
    Deps,         \* artefact digests
    Pins,         \* Pins[t]: what parse_lockfile finds, {} when it raises
    Envs,         \* environments
    Gates,        \* runs of palsy gate, each of one process
    Mode,         \* PolicyConfig.mode
    None, Torn    \* no value; a file that is not a whole document

Contents == [text : Texts, newline : Newlines]
PermitFiles == {PermitFile[l] : l \in Lockfiles}

ASSUME GateAssumption ==
    /\ Newlines \subseteq {"lf", "crlf"}
    /\ DOMAIN PermitFile = Lockfiles
    /\ Pins \in [Texts -> SUBSET Deps]
    /\ Mode \in Modes
    /\ None \notin Contents \cup Texts \cup Envs
    /\ None # Torn

VARIABLES
    lockfile,   \* the lockfiles on disk
    permitFile, \* the permit files on disk
    decisions,  \* the decisions log: <<digest, environment, decision>>
    revoked,    \* the revocations table
    gate        \* the local state of each run

vars == <<lockfile, permitFile, decisions, revoked, gate>>

\* BuildPermit: the run that issued it stands for its id; barred is history,
\* what was revoked when the lockfile was read.
BuildPermits == [by : Gates, name : Lockfiles, digest : [text : Texts, newline : {"lf"}],
                 env : Envs, barred : SUBSET Deps]

ASSUME PermitsAssumption == None \notin BuildPermits

\* LockfileAssessmentResponse
Responses == [decision : Decisions \cup {"none"}, permit : BuildPermits \cup {None}]

\* args, asked and mode are the command line; current, digest, pending, verdicts
\* and barred belong to the lockfile under assessment; responses are kept until
\* all are assessed.
Run == [pc : {"idle", "reading", "assessing", "reporting", "writing", "exited"},
        args : SUBSET Lockfiles, env : Envs \cup {None}, mode : {"observe", "enforce"},
        todo : SUBSET Lockfiles, current : Lockfiles \cup {None},
        text : Texts \cup {None}, pending : SUBSET Deps, verdicts : SUBSET Decisions,
        barred : SUBSET Deps, responses : [Lockfiles -> Responses],
        code : {0, 1, 2}]

Fresh == [pc |-> "idle", args |-> {}, env |-> None, mode |-> "enforce", todo |-> {},
          current |-> None, text |-> None, pending |-> {}, verdicts |-> {}, barred |-> {},
          responses |-> [l \in Lockfiles |-> [decision |-> "none", permit |-> None]], code |-> 0]

At(g, phase) == gate[g].pc = phase
Exit(g, code) == gate' = [gate EXCEPT ![g].pc = "exited", ![g].code = code]

\* A run that fails leaves no report.
Fail(g, code) == gate' = [gate EXCEPT ![g] = [Fresh EXCEPT !.pc = "exited", !.code = code]]

TypeOK ==
    /\ lockfile \in [Lockfiles -> Contents \cup {None}]
    /\ permitFile \in [PermitFiles -> BuildPermits \cup {None, Torn}]
    /\ decisions \subseteq Deps \X Envs \X Decisions
    /\ revoked \subseteq Deps
    /\ gate \in [Gates -> Run]

Init ==
    /\ lockfile \in [Lockfiles -> Contents \cup {None}]
    /\ permitFile = [f \in PermitFiles |-> None]
    /\ decisions = {}
    /\ revoked = {}
    /\ gate = [g \in Gates |-> Fresh]

-----------------------------------------------------------------------------
(* gate_command and assess_lockfile                                        *)

\* _select_lockfiles, then is_file() of each before anything is assessed.
Begin(g) ==
    /\ At(g, "idle")
    /\ \E args \in SUBSET Lockfiles \ {{}}, e \in Envs, m \in {"observe", "enforce"} :
          gate' = [gate EXCEPT ![g] =
              IF \E l \in args : lockfile[l] = None
              THEN [Fresh EXCEPT !.pc = "exited", !.code = 2]
              ELSE [Fresh EXCEPT !.pc = "reading", !.args = args, !.todo = args,
                                 !.env = e, !.mode = m]]
    /\ UNCHANGED <<lockfile, permitFile, decisions, revoked>>

\* read_text and parse_lockfile: a file that has gone is a traceback, a text
\* that cannot be parsed ends the whole run.
Read(g) ==
    /\ At(g, "reading")
    /\ \E l \in gate[g].todo :
          LET content == lockfile[l]
              run == gate[g]
          IN  IF content = None THEN Fail(g, 1)
              ELSE IF Pins[content.text] = {} THEN Fail(g, 2)
              ELSE gate' = [gate EXCEPT ![g] =
                      [run EXCEPT !.pc = "assessing", !.todo = run.todo \ {l}, !.current = l,
                                  !.text = content.text, !.pending = Pins[content.text],
                                  !.verdicts = {}, !.barred = revoked]]
    /\ UNCHANGED <<lockfile, permitFile, decisions, revoked>>

\* Faulty: a dependency that cannot be resolved is left out.
AssessResolved(g) ==
    /\ At(g, "assessing")
    /\ \E d \in gate[g].pending :
          \/ \E v \in Verdicts(Mode, d \in revoked) :
                /\ decisions' = decisions \cup {<<d, gate[g].env, v>>}
                /\ gate' = [gate EXCEPT ![g].pending = @ \ {d}, ![g].verdicts = @ \cup {v}]
          \/ gate' = [gate EXCEPT ![g].pending = @ \ {d}] /\ UNCHANGED decisions
    /\ UNCHANGED <<lockfile, permitFile, revoked>>

\* Faulty: an allow decision in the log is used again.
AssessCached(g) ==
    /\ At(g, "assessing")
    /\ \E d \in gate[g].pending :
          \E v \in IF <<d, gate[g].env, "allow">> \in decisions THEN {"allow"}
                   ELSE Verdicts(Mode, d \in revoked) :
                /\ decisions' = decisions \cup {<<d, gate[g].env, v>>}
                /\ gate' = [gate EXCEPT ![g].pending = @ \ {d}, ![g].verdicts = @ \cup {v}]
    /\ UNCHANGED <<lockfile, permitFile, revoked>>

\* One dependency is assessed: the policy decides, or its resolution fails and
\* it is denied.
AssessDependency(g) ==
    /\ At(g, "assessing")
    /\ \E d \in gate[g].pending :
          \/ \E v \in Verdicts(Mode, d \in revoked) :
                /\ decisions' = decisions \cup {<<d, gate[g].env, v>>}
                /\ gate' = [gate EXCEPT ![g].pending = @ \ {d}, ![g].verdicts = @ \cup {v}]
          \/ /\ gate' = [gate EXCEPT ![g].pending = @ \ {d}, ![g].verdicts = @ \cup {"deny"}]
             /\ UNCHANGED decisions
    /\ UNCHANGED <<lockfile, permitFile, revoked>>

\* _lockfile_decision
LockfileDecision(verdicts) ==
    CASE "deny" \in verdicts -> "deny"
      [] "deny" \notin verdicts /\ "review" \in verdicts -> "review"
      [] OTHER -> "allow"

\* The response for a lockfile holds a signed permit only when all is allowed.
Conclude(g) ==
    /\ At(g, "assessing")
    /\ gate[g].pending = {}
    /\ LET run == gate[g]
           decision == LockfileDecision(run.verdicts)
           permit == [by |-> g, name |-> run.current, env |-> run.env, barred |-> run.barred,
                      digest |-> [text |-> run.text, newline |-> "lf"]]
       IN  gate' = [gate EXCEPT ![g] =
              [run EXCEPT !.responses = [run.responses EXCEPT ![run.current] =
                    [decision |-> decision, permit |-> IF decision = "allow" THEN permit ELSE None]],
                          !.pc = IF run.todo = {} THEN "reporting" ELSE "reading",
                          !.todo = IF run.todo = {} THEN run.args ELSE run.todo,
                          !.current = None, !.text = None, !.verdicts = {}, !.barred = {}]]
    /\ UNCHANGED <<lockfile, permitFile, decisions, revoked>>

\* The lockfiles whose permit the run has still to write.
Granted(g) == {l \in gate[g].todo : gate[g].responses[l].permit # None}

\* write_text truncates the permit's file ...
OpenPermit(g) ==
    /\ At(g, "reporting")
    /\ \E l \in Granted(g) :
          /\ permitFile' = [permitFile EXCEPT ![PermitFile[l]] = Torn]
          /\ gate' = [gate EXCEPT ![g].pc = "writing", ![g].todo = @ \ {l}, ![g].current = l]
    /\ UNCHANGED <<lockfile, decisions, revoked>>

\* ... and writes it; two runs that write one file may leave a mixture.
WritePermit(g) ==
    /\ At(g, "writing")
    /\ LET l == gate[g].current
           f == PermitFile[l]
           overlap == \/ permitFile[f] # Torn
                      \/ \E h \in Gates \ {g} :
                            At(h, "writing") /\ PermitFile[gate[h].current] = f
       IN  \E result \in {gate[g].responses[l].permit} \cup (IF overlap THEN {Torn} ELSE {}) :
              permitFile' = [permitFile EXCEPT ![f] = result]
    /\ gate' = [gate EXCEPT ![g].pc = "reporting", ![g].current = None]
    /\ UNCHANGED <<lockfile, decisions, revoked>>

\* Faulty: a lockfile that waits for a review passes.
FinishUnreviewed(g) ==
    /\ At(g, "reporting")
    /\ Granted(g) = {}
    /\ Exit(g, IF \/ gate[g].mode = "observe"
                  \/ \A l \in gate[g].args : gate[g].responses[l].decision # "deny"
               THEN 0 ELSE 1)
    /\ UNCHANGED <<lockfile, permitFile, decisions, revoked>>

Finish(g) ==
    /\ At(g, "reporting")
    /\ Granted(g) = {}
    /\ Exit(g, IF \/ gate[g].mode = "observe"
                  \/ \A l \in gate[g].args : gate[g].responses[l].decision = "allow"
               THEN 0 ELSE 1)
    /\ UNCHANGED <<lockfile, permitFile, decisions, revoked>>

\* The run raises or is killed between two steps.
Abort(g) ==
    /\ ~At(g, "idle") /\ ~At(g, "exited")
    /\ Fail(g, 1)
    /\ UNCHANGED <<lockfile, permitFile, decisions, revoked>>

-----------------------------------------------------------------------------
(* What goes on beside the gates.                                          *)

\* A developer edits, adds or removes a lockfile.
Edit(l) ==
    /\ \E c \in (Contents \cup {None}) \ {lockfile[l]} : lockfile' = [lockfile EXCEPT ![l] = c]
    /\ UNCHANGED <<permitFile, decisions, revoked, gate>>

\* Database.revoke: a build permit is in no table that it updates.
Revoke(d) ==
    /\ d \notin revoked
    /\ revoked' = revoked \cup {d}
    /\ UNCHANGED <<lockfile, permitFile, decisions, gate>>

Gating(g) ==
    \/ Begin(g) \/ Read(g) \/ AssessDependency(g) \/ Conclude(g)
    \/ OpenPermit(g) \/ WritePermit(g) \/ Finish(g) \/ Abort(g)

Next ==
    \/ \E g \in Gates : Gating(g)
    \/ \E l \in Lockfiles : Edit(l)
    \/ \E d \in Deps : Revoke(d)

Spec == Init /\ [][Next]_vars

-----------------------------------------------------------------------------
(* verify_permit_command: what it accepts, now.                            *)

Accepts(f, l, e) ==
    /\ permitFile[f] \notin {None, Torn}
    /\ permitFile[f].env = e
    /\ permitFile[f].digest = lockfile[l]
    /\ Basename[permitFile[f].name] = Basename[l]

-----------------------------------------------------------------------------
(* Properties.                                                             *)

\* Whatever file verify-permit accepts for a lockfile and an environment, the
\* policy has allowed every artefact that this lockfile pins, as it is now, for
\* that environment, and the log says so: through edits while a gate runs, runs
\* that share a permit file, and runs that die.
VerifiedWasAdmitted ==
    \A f \in PermitFiles, l \in Lockfiles, e \in Envs :
        Accepts(f, l, e) => \A d \in Pins[lockfile[l].text] : <<d, e, "allow">> \in decisions

\* No permit covers an artefact that was revoked before its lockfile was read.
BarredStaysOut ==
    \A f \in PermitFiles : permitFile[f] \notin {None, Torn} =>
        Pins[permitFile[f].digest.text] \cap permitFile[f].barred = {}

\* test_gate.py:42, "lockfile_digest=sha256_bytes(lockfile.read_bytes())":
\* once an enforcing run has exited with 0, each of its lockfiles has a permit,
\* and unless another run or an edit came since, verify-permit accepts it.
PassedGateVerifies ==
    \A g \in Gates : At(g, "exited") /\ gate[g].code = 0 /\ gate[g].mode = "enforce" =>
        \A l \in gate[g].args :
            LET f == PermitFile[l]
                unchanged == /\ permitFile[f] \notin {None, Torn}
                             /\ permitFile[f].by = g
                             /\ lockfile[l] # None
                             /\ lockfile[l].text = gate[g].responses[l].permit.digest.text
            IN  permitFile[f] # None /\ (unchanged => Accepts(f, l, gate[g].env))

=============================================================================
