----------------------------- MODULE GateProofs -----------------------------
(***************************************************************************)
(* Proofs about Gate for every set of lockfiles, texts, dependencies and   *)
(* runs, any parser and any place of the permit files.  A permit is good   *)
(* when the decisions it rests on are logged; decisions are only added, so *)
(* a good permit stays good in the run's memory and in its file, and what  *)
(* verify-permit compares with the lockfile is the text the permit was     *)
(* issued for.                                                             *)
(***************************************************************************)
EXTENDS GatedBuild, TLAPS

\* A permit for a text with pins, which were all allowed, by the decisions D, for
\* its environment, none of them barred unless the policy only observes.
Good(p, D) ==
    /\ p \in BuildPermits
    /\ Pins[p.digest.text] # {}
    /\ \A d \in Pins[p.digest.text] : <<d, p.env, "allow">> \in D
    /\ Mode # "observe" => Pins[p.digest.text] \cap p.barred = {}

\* What has been assessed of a text, when all of it was allowed so far.
Progress(x, D) ==
    x.verdicts \subseteq {"allow"} =>
        \A d \in Pins[x.text] \ x.pending :
            <<d, x.env, "allow">> \in D /\ (Mode # "observe" => d \notin x.barred)

\* The local state x of a run, when D is decided and R is revoked.
Fits(x, D, R) ==
    /\ x \in Run
    /\ x.pc \notin {"idle", "exited"} => x.env \in Envs
    /\ x.pc = "assessing" =>
          /\ x.current \in Lockfiles
          /\ x.text \in Texts /\ Pins[x.text] # {}
          /\ x.barred \subseteq R
          /\ Progress(x, D)
    /\ x.pc = "writing" => x.current \in Lockfiles /\ x.responses[x.current].permit # None
    /\ \A l \in Lockfiles : x.responses[l].permit # None => Good(x.responses[l].permit, D)

RunsFit == gate \in [Gates -> Run] /\ \A g \in Gates : Fits(gate[g], decisions, revoked)

FilesFit ==
    /\ permitFile \in [PermitFiles -> BuildPermits \cup {None, Torn}]
    /\ \A f \in PermitFiles : permitFile[f] \notin {None, Torn} => Good(permitFile[f], decisions)

TablesFit ==
    /\ lockfile \in [Lockfiles -> Contents \cup {None}]
    /\ decisions \subseteq Deps \X Envs \X Decisions
    /\ revoked \subseteq Deps

Inv == TablesFit /\ FilesFit /\ RunsFit

Grows == decisions \subseteq decisions' /\ revoked \subseteq revoked'

-----------------------------------------------------------------------------

LEMMA GoodGrows ==
    ASSUME NEW p, NEW D, NEW E, D \subseteq E, Good(p, D) PROVE Good(p, E)
  BY DEF Good

LEMMA FitsGrows ==
    ASSUME NEW x, NEW D, NEW E, NEW R, NEW S, D \subseteq E, R \subseteq S, Fits(x, D, R)
    PROVE  Fits(x, E, S)
<1>1. Progress(x, D) => Progress(x, E)
  BY DEF Progress
<1>2. \A l \in Lockfiles : x.responses[l].permit # None => Good(x.responses[l].permit, E)
  BY GoodGrows DEF Fits
<1>3. QED
  BY <1>1, <1>2 DEF Fits

\* One run's step leaves the others what they were.
LEMMA StepFits ==
    ASSUME RunsFit, Grows, NEW g \in Gates, NEW x, Fits(x, decisions', revoked'),
           gate' = [gate EXCEPT ![g] = x]
    PROVE  RunsFit'
<1>1. gate' \in [Gates -> Run]
  BY DEF RunsFit, Fits
<1>2. ASSUME NEW h \in Gates PROVE Fits(gate'[h], decisions', revoked')
  <2>1. CASE h = g
    BY <2>1 DEF RunsFit
  <2>2. CASE h # g
    <3>1. gate'[h] = gate[h] /\ Fits(gate[h], decisions, revoked)
      BY <2>2 DEF RunsFit
    <3>2. QED
      BY <3>1, FitsGrows DEF Grows
  <2>3. QED
    BY <2>1, <2>2
<1>3. QED
  BY <1>1, <1>2 DEF RunsFit

LEMMA FilesStay == FilesFit /\ Grows /\ UNCHANGED permitFile => FilesFit'
  BY GoodGrows DEF FilesFit, Grows

LEMMA ExitFits ==
    ASSUME RunsFit, UNCHANGED <<decisions, revoked>>, NEW g \in Gates, NEW c \in {0, 1, 2}, Exit(g, c)
    PROVE  RunsFit'
<1> DEFINE x == [gate[g] EXCEPT !.pc = "exited", !.code = c]
<1>1. gate' = [gate EXCEPT ![g] = x]
  BY DEF Exit
<1>2. Fits(x, decisions', revoked')
  <2>1. gate[g] \in Run /\ Fits(gate[g], decisions, revoked)
    BY DEF RunsFit
  <2>2. x \in Run /\ x.pc = "exited" /\ x.responses = gate[g].responses
    BY <2>1 DEF Run
  <2>3. QED
    BY <2>1, <2>2 DEF Fits
<1>3. QED
  BY <1>1, <1>2, StepFits DEF Grows

LEMMA FailFits ==
    ASSUME RunsFit, UNCHANGED <<decisions, revoked>>, NEW g \in Gates, NEW c \in {1, 2}, Fail(g, c)
    PROVE  RunsFit'
<1> DEFINE x == [Fresh EXCEPT !.pc = "exited", !.code = c]
<1>1. gate' = [gate EXCEPT ![g] = x]
  BY DEF Fail
<1>2. x \in Run /\ x.pc = "exited" /\ \A l \in Lockfiles : x.responses[l].permit = None
  BY DEF Fresh, Run, Responses
<1>3. Fits(x, decisions', revoked')
  BY <1>2 DEF Fits
<1>4. QED
  BY <1>1, <1>3, StepFits DEF Grows

-----------------------------------------------------------------------------

LEMMA InitInv == Init => Inv
<1> SUFFICES ASSUME Init PROVE Inv
  OBVIOUS
<1>1. Fresh \in Run
  BY DEF Fresh, Run, Responses
<1>2. Fits(Fresh, decisions, revoked)
  BY <1>1 DEF Fits, Fresh
<1>3. RunsFit
  BY <1>1, <1>2 DEF Init, RunsFit
<1>4. TablesFit /\ FilesFit
  BY DEF Init, TablesFit, FilesFit
<1>5. QED
  BY <1>3, <1>4 DEF Inv

\* What a step of the runs has to show, once it names its new local state.
LEMMA BeginInv == ASSUME Inv, NEW g \in Gates, Begin(g) PROVE Inv'
<1>1. PICK args \in SUBSET Lockfiles, e \in Envs, m \in {"observe", "enforce"} :
         gate' = [gate EXCEPT ![g] =
              IF \E l \in args : lockfile[l] = None
              THEN [Fresh EXCEPT !.pc = "exited", !.code = 2]
              ELSE [Fresh EXCEPT !.pc = "reading", !.args = args, !.todo = args,
                                 !.env = e, !.mode = m]]
  BY DEF Begin
<1> DEFINE x == [Fresh EXCEPT !.pc = "exited", !.code = 2]
           y == [Fresh EXCEPT !.pc = "reading", !.args = args, !.todo = args, !.env = e, !.mode = m]
<1>2. x \in Run /\ x.pc = "exited" /\ x.responses = Fresh.responses
  BY DEF Fresh, Run, Responses
<1>3. y \in Run /\ y.pc = "reading" /\ y.env = e /\ y.responses = Fresh.responses
  BY DEF Fresh, Run, Responses
<1>4. \A l \in Lockfiles : Fresh.responses[l].permit = None
  BY DEF Fresh
<1>5. Fits(x, decisions', revoked') /\ Fits(y, decisions', revoked')
  BY <1>2, <1>3, <1>4 DEF Fits
<1>6. Grows /\ UNCHANGED <<lockfile, permitFile, decisions, revoked>>
  BY DEF Begin, Grows
<1>7. RunsFit'
  BY <1>1, <1>5, <1>6, StepFits DEF Inv
<1>8. QED
  BY <1>6, <1>7, FilesStay DEF Inv, TablesFit

LEMMA ReadInv == ASSUME Inv, NEW g \in Gates, Read(g) PROVE Inv'
<1>1. Grows /\ UNCHANGED <<lockfile, permitFile, decisions, revoked>>
  BY DEF Read, Grows
<1>2. PICK l \in gate[g].todo :
         IF lockfile[l] = None THEN Fail(g, 1)
         ELSE IF Pins[lockfile[l].text] = {} THEN Fail(g, 2)
         ELSE gate' = [gate EXCEPT ![g] =
                 [gate[g] EXCEPT !.pc = "assessing", !.todo = gate[g].todo \ {l}, !.current = l,
                           !.text = lockfile[l].text, !.pending = Pins[lockfile[l].text],
                           !.verdicts = {}, !.barred = revoked]]
  BY DEF Read
<1>3. RunsFit'
  <2>1. CASE Fail(g, 1) \/ Fail(g, 2)
    BY <1>1, <2>1, FailFits DEF Inv
  <2>2. CASE ~(Fail(g, 1) \/ Fail(g, 2))
    <3> DEFINE x == [gate[g] EXCEPT !.pc = "assessing", !.todo = gate[g].todo \ {l}, !.current = l,
                           !.text = lockfile[l].text, !.pending = Pins[lockfile[l].text],
                           !.verdicts = {}, !.barred = revoked]
    <3>1. gate' = [gate EXCEPT ![g] = x]
      BY <1>2, <2>2
    <3>2. gate[g] \in Run /\ gate[g].pc = "reading" /\ Fits(gate[g], decisions, revoked)
      BY DEF Inv, RunsFit, Read, At
    <3>3. l \in Lockfiles
      BY <3>2 DEF Run
    <3>4. lockfile[l].text \in Texts /\ Pins[lockfile[l].text] # {}
      BY <1>2, <2>2, <3>3 DEF Inv, TablesFit, Contents
    <3>5. revoked \subseteq Deps /\ Pins[lockfile[l].text] \subseteq Deps
      BY <3>4, GateAssumption DEF Inv, TablesFit, GateAssumption
    <3>6. x \in Run
      BY <3>2, <3>3, <3>4, <3>5 DEF Run
    <3>7. /\ x.pc = "assessing" /\ x.env = gate[g].env /\ x.current = l
          /\ x.text = lockfile[l].text /\ x.pending = Pins[lockfile[l].text]
          /\ x.barred = revoked /\ x.responses = gate[g].responses
      BY <3>2 DEF Run
    <3>8. Progress(x, decisions')
      BY <3>7 DEF Progress
    <3>9. Fits(x, decisions', revoked')
      BY <1>1, <3>2, <3>3, <3>4, <3>6, <3>7, <3>8 DEF Fits
    <3>10. QED
      BY <1>1, <3>1, <3>9, StepFits DEF Inv
  <2>3. QED
    BY <2>1, <2>2
<1>4. QED
  BY <1>1, <1>3, FilesStay DEF Inv, TablesFit

LEMMA AssessInv == ASSUME Inv, NEW g \in Gates, AssessDependency(g) PROVE Inv'
<1>1. UNCHANGED <<lockfile, permitFile, revoked>>
  BY DEF AssessDependency
<1>2. gate[g] \in Run /\ gate[g].pc = "assessing" /\ Fits(gate[g], decisions, revoked)
  BY DEF Inv, RunsFit, AssessDependency, At
<1>3. PICK d \in gate[g].pending, v \in Decisions :
         /\ gate' = [gate EXCEPT ![g] =
                [gate[g] EXCEPT !.pending = gate[g].pending \ {d}, !.verdicts = gate[g].verdicts \cup {v}]]
         /\ \/ v \in Verdicts(Mode, d \in revoked) /\ decisions' = decisions \cup {<<d, gate[g].env, v>>}
            \/ v = "deny" /\ decisions' = decisions
  <2> DEFINE y(d, v) == [gate[g] EXCEPT !.pending = gate[g].pending \ {d}, !.verdicts = gate[g].verdicts \cup {v}]
  <2>1. PICK d \in gate[g].pending :
           \/ \E v \in Verdicts(Mode, d \in revoked) :
                 /\ decisions' = decisions \cup {<<d, gate[g].env, v>>}
                 /\ gate' = [gate EXCEPT ![g].pending = @ \ {d}, ![g].verdicts = @ \cup {v}]
           \/ /\ gate' = [gate EXCEPT ![g].pending = @ \ {d}, ![g].verdicts = @ \cup {"deny"}]
              /\ UNCHANGED decisions
    BY DEF AssessDependency
  <2>2. \A v : [gate EXCEPT ![g].pending = @ \ {d}, ![g].verdicts = @ \cup {v}] = [gate EXCEPT ![g] = y(d, v)]
    BY <1>2 DEF Inv, RunsFit, Run
  <2>3. Verdicts(Mode, d \in revoked) \subseteq Decisions /\ "deny" \in Decisions
    BY GateAssumption DEF GateAssumption, Verdicts, Modes, Decisions
  <2>4. QED
    BY <2>1, <2>2, <2>3
<1> DEFINE x == [gate[g] EXCEPT !.pending = gate[g].pending \ {d}, !.verdicts = gate[g].verdicts \cup {v}]
<1>4. d \in Deps /\ gate[g].env \in Envs
  BY <1>2 DEF Run, Fits
<1>5. Grows
  BY <1>1, <1>3 DEF Grows
<1>6. x \in Run
  BY <1>2 DEF Run
<1>7. /\ x.pc = "assessing" /\ x.env = gate[g].env /\ x.current = gate[g].current
      /\ x.text = gate[g].text /\ x.barred = gate[g].barred /\ x.responses = gate[g].responses
      /\ x.pending = gate[g].pending \ {d} /\ x.verdicts = gate[g].verdicts \cup {v}
  BY <1>2 DEF Run
<1>8. Progress(x, decisions')
  <2> SUFFICES ASSUME x.verdicts \subseteq {"allow"}, NEW c \in Pins[x.text] \ x.pending
               PROVE  <<c, x.env, "allow">> \in decisions' /\ (Mode # "observe" => c \notin x.barred)
    BY DEF Progress
  <2>1. v = "allow" /\ gate[g].verdicts \subseteq {"allow"}
    BY <1>7
  <2>2. CASE c = d
    <3>1. v \in Verdicts(Mode, d \in revoked) /\ <<d, gate[g].env, "allow">> \in decisions'
      BY <1>3, <2>1
    <3>2. Mode # "observe" => d \notin revoked
      BY <2>1, <3>1, GateAssumption DEF Verdicts, GateAssumption, Modes
    <3>3. gate[g].barred \subseteq revoked
      BY <1>2 DEF Fits
    <3>4. QED
      BY <1>7, <2>2, <3>1, <3>2, <3>3
  <2>3. CASE c # d
    <3>1. c \in Pins[gate[g].text] \ gate[g].pending
      BY <1>7, <2>3
    <3>2. Progress(gate[g], decisions)
      BY <1>2 DEF Fits
    <3>3. QED
      BY <1>5, <1>7, <2>1, <3>1, <3>2 DEF Progress, Grows
  <2>4. QED
    BY <2>2, <2>3
<1>9. Fits(x, decisions', revoked')
  <2>1. Fits(gate[g], decisions', revoked')
    BY <1>2, <1>5, FitsGrows DEF Grows
  <2>2. QED
    BY <1>2, <1>6, <1>7, <1>8, <2>1 DEF Fits
<1>10. RunsFit'
  BY <1>3, <1>5, <1>9, StepFits DEF Inv
<1>11. TablesFit'
  BY <1>1, <1>3, <1>4 DEF Inv, TablesFit
<1>12. QED
  BY <1>1, <1>5, <1>10, <1>11, FilesStay DEF Inv

LEMMA ConcludeInv == ASSUME Inv, NEW g \in Gates, Conclude(g) PROVE Inv'
<1> DEFINE run == gate[g]
           decision == LockfileDecision(run.verdicts)
           permit == [by |-> g, name |-> run.current, env |-> run.env, barred |-> run.barred,
                      digest |-> [text |-> run.text, newline |-> "lf"]]
           response == [decision |-> decision, permit |-> IF decision = "allow" THEN permit ELSE None]
           x == [run EXCEPT !.responses = [run.responses EXCEPT ![run.current] = response],
                            !.pc = IF run.todo = {} THEN "reporting" ELSE "reading",
                            !.todo = IF run.todo = {} THEN run.args ELSE run.todo,
                            !.current = None, !.text = None, !.verdicts = {}, !.barred = {}]
<1>1. UNCHANGED <<lockfile, permitFile, decisions, revoked>> /\ Grows
  BY DEF Conclude, Grows
<1>2. gate' = [gate EXCEPT ![g] = x]
  BY DEF Conclude
<1>3. run \in Run /\ run.pc = "assessing" /\ run.pending = {} /\ Fits(run, decisions, revoked)
  BY DEF Inv, RunsFit, Conclude, At
<1>4. /\ run.current \in Lockfiles /\ run.env \in Envs /\ run.text \in Texts
      /\ Pins[run.text] # {} /\ run.barred \subseteq Deps
  BY <1>3 DEF Fits, Run
<1>5. permit \in BuildPermits
  BY <1>4 DEF BuildPermits
<1>6. decision \in Decisions /\ (decision = "allow" => run.verdicts \subseteq {"allow"})
  BY <1>3 DEF LockfileDecision, Decisions, Run
<1>7. decision = "allow" => Good(permit, decisions)
  <2> SUFFICES ASSUME decision = "allow" PROVE Good(permit, decisions)
    OBVIOUS
  <2>1. Progress(run, decisions) /\ run.verdicts \subseteq {"allow"}
    BY <1>3, <1>6 DEF Fits
  <2>2. \A d \in Pins[run.text] : <<d, run.env, "allow">> \in decisions /\ (Mode # "observe" => d \notin run.barred)
    BY <1>3, <2>1 DEF Progress
  <2>3. permit.digest.text = run.text /\ permit.env = run.env /\ permit.barred = run.barred
    OBVIOUS
  <2>4. QED
    BY <1>4, <1>5, <2>2, <2>3 DEF Good
<1>8. response \in Responses
  BY <1>5, <1>6 DEF Responses
<1>9. x.responses = [run.responses EXCEPT ![run.current] = response] /\ x.env = run.env
  BY <1>3 DEF Run
<1>10. x.responses \in [Lockfiles -> Responses]
  BY <1>3, <1>4, <1>8, <1>9 DEF Run
<1>11. x \in Run /\ x.pc \in {"reporting", "reading"}
  BY <1>3, <1>10 DEF Run
<1>12. ASSUME NEW l \in Lockfiles, x.responses[l].permit # None PROVE Good(x.responses[l].permit, decisions)
  <2>1. CASE l = run.current
    BY <1>3, <1>4, <1>7, <1>9, <1>12, <2>1 DEF Run
  <2>2. CASE l # run.current
    <3>1. x.responses[l] = run.responses[l]
      BY <1>3, <1>9, <2>2 DEF Run
    <3>2. QED
      BY <1>3, <1>12, <3>1 DEF Fits
  <2>3. QED
    BY <2>1, <2>2
<1>13. Fits(x, decisions', revoked')
  BY <1>1, <1>4, <1>9, <1>11, <1>12 DEF Fits
<1>14. QED
  BY <1>1, <1>2, <1>13, StepFits, FilesStay DEF Inv, TablesFit

LEMMA OpenInv == ASSUME Inv, NEW g \in Gates, OpenPermit(g) PROVE Inv'
<1>1. UNCHANGED <<lockfile, decisions, revoked>> /\ Grows
  BY DEF OpenPermit, Grows
<1>2. PICK l \in Granted(g) :
         /\ permitFile' = [permitFile EXCEPT ![PermitFile[l]] = Torn]
         /\ gate' = [gate EXCEPT ![g] =
                [gate[g] EXCEPT !.pc = "writing", !.todo = gate[g].todo \ {l}, !.current = l]]
  BY DEF OpenPermit, Inv, RunsFit, Run
<1> DEFINE x == [gate[g] EXCEPT !.pc = "writing", !.todo = gate[g].todo \ {l}, !.current = l]
<1>3. gate[g] \in Run /\ gate[g].pc = "reporting" /\ Fits(gate[g], decisions, revoked)
  BY DEF Inv, RunsFit, OpenPermit, At
<1>4. l \in Lockfiles /\ gate[g].responses[l].permit # None
  BY <1>3 DEF Granted, Run
<1>5. x \in Run
  BY <1>3, <1>4 DEF Run
<1>6. x.pc = "writing" /\ x.current = l /\ x.env = gate[g].env /\ x.responses = gate[g].responses
  BY <1>3 DEF Run
<1>7. Fits(x, decisions', revoked')
  BY <1>1, <1>3, <1>4, <1>5, <1>6 DEF Fits
<1>8. FilesFit'
  <2>1. \A f \in PermitFiles : permitFile'[f] \in {permitFile[f], Torn}
    BY <1>2 DEF Inv, FilesFit
  <2>2. permitFile' \in [PermitFiles -> BuildPermits \cup {None, Torn}]
    BY <1>2 DEF Inv, FilesFit
  <2>3. QED
    BY <1>1, <2>1, <2>2 DEF Inv, FilesFit
<1>9. QED
  BY <1>1, <1>2, <1>7, <1>8, StepFits DEF Inv, TablesFit

LEMMA WriteInv == ASSUME Inv, NEW g \in Gates, WritePermit(g) PROVE Inv'
<1> DEFINE l == gate[g].current
           x == [gate[g] EXCEPT !.pc = "reporting", !.current = None]
<1>1. UNCHANGED <<lockfile, decisions, revoked>> /\ Grows
  BY DEF WritePermit, Grows
<1>2. PICK result \in {gate[g].responses[l].permit, Torn} :
         permitFile' = [permitFile EXCEPT ![PermitFile[l]] = result]
  BY DEF WritePermit
<1>3. gate' = [gate EXCEPT ![g] = x]
  BY DEF WritePermit
<1>4. gate[g] \in Run /\ gate[g].pc = "writing" /\ Fits(gate[g], decisions, revoked)
  BY DEF Inv, RunsFit, WritePermit, At
<1>5. l \in Lockfiles /\ Good(gate[g].responses[l].permit, decisions)
  BY <1>4 DEF Fits
<1>6. x \in Run /\ x.pc = "reporting" /\ x.env = gate[g].env /\ x.responses = gate[g].responses
  BY <1>4 DEF Run
<1>7. Fits(x, decisions', revoked')
  BY <1>1, <1>4, <1>6 DEF Fits
<1>8. FilesFit'
  <2>1. \A f \in PermitFiles : permitFile'[f] \in {permitFile[f], result}
    BY <1>2 DEF Inv, FilesFit
  <2>2. permitFile' \in [PermitFiles -> BuildPermits \cup {None, Torn}]
    BY <1>2, <1>5 DEF Inv, FilesFit, Good
  <2>3. QED
    BY <1>1, <1>2, <1>5, <2>1, <2>2 DEF Inv, FilesFit
<1>9. QED
  BY <1>1, <1>3, <1>7, <1>8, StepFits DEF Inv, TablesFit

\* Every step keeps the invariant.
LEMMA StepInv == Inv /\ [Next]_vars => Inv'
<1> SUFFICES ASSUME Inv, [Next]_vars PROVE Inv'
  OBVIOUS
<1>1. ASSUME NEW g \in Gates, Finish(g) \/ Abort(g) PROVE Inv'
  <2>1. /\ UNCHANGED <<lockfile, permitFile, decisions, revoked>>
        /\ Exit(g, 0) \/ Exit(g, 1) \/ Fail(g, 1)
    BY <1>1 DEF Finish, Abort
  <2>2. RunsFit'
    BY <2>1, ExitFits, FailFits DEF Inv
  <2>3. QED
    BY <2>1, <2>2, FilesStay DEF Inv, TablesFit, Grows
<1>2. ASSUME NEW l \in Lockfiles, Edit(l) PROVE Inv'
  <2>1. RunsFit' /\ FilesFit'
    BY <1>2 DEF Edit, Inv, RunsFit, FilesFit
  <2>2. TablesFit'
    BY <1>2 DEF Edit, Inv, TablesFit
  <2>3. QED
    BY <2>1, <2>2 DEF Inv
<1>3. ASSUME NEW d \in Deps, Revoke(d) PROVE Inv'
  <2>1. Grows /\ UNCHANGED <<lockfile, permitFile, decisions, gate>>
    BY <1>3 DEF Revoke, Grows
  <2>2. RunsFit'
    BY <2>1, FitsGrows DEF Inv, RunsFit, Grows
  <2>3. TablesFit'
    BY <1>3 DEF Revoke, Inv, TablesFit
  <2>4. QED
    BY <2>1, <2>2, <2>3, FilesStay DEF Inv
<1>4. CASE UNCHANGED vars
  BY <1>4 DEF vars, Inv, TablesFit, FilesFit, RunsFit
<1>5. QED
  BY <1>1, <1>2, <1>3, <1>4, BeginInv, ReadInv, AssessInv, ConcludeInv, OpenInv, WriteInv
  DEF Next, Gating

THEOREM InvariantHolds == Spec => []Inv
<1>1. QED
  BY InitInv, StepInv, PTL DEF Spec

\* The gate's state keeps its types.
THEOREM GateTypeCorrect == Spec => []TypeOK
<1>1. Inv => TypeOK
  BY DEF Inv, TablesFit, FilesFit, RunsFit, TypeOK
<1>2. QED
  BY <1>1, InvariantHolds, PTL

\* What verify-permit accepts has been admitted, artefact by artefact.
THEOREM VerifiedIsAdmitted == Spec => []VerifiedWasAdmitted
<1>1. Inv => VerifiedWasAdmitted
  <2> SUFFICES ASSUME Inv, NEW f \in PermitFiles, NEW l \in Lockfiles, NEW e \in Envs, Accepts(f, l, e),
                      NEW d \in Pins[lockfile[l].text]
               PROVE  <<d, e, "allow">> \in decisions
    BY DEF VerifiedWasAdmitted
  <2>1. Good(permitFile[f], decisions) /\ permitFile[f].env = e /\ permitFile[f].digest = lockfile[l]
    BY DEF Inv, FilesFit, Accepts
  <2>2. QED
    BY <2>1 DEF Good
<1>2. QED
  BY <1>1, InvariantHolds, PTL

\* Unless the policy only observes, no permit covers what was revoked before
\* its lockfile was read.
THEOREM RevokedIsBarred == ASSUME Mode # "observe" PROVE Spec => []BarredStaysOut
<1>1. Inv => BarredStaysOut
  BY DEF Inv, FilesFit, BarredStaysOut, Good
<1>2. QED
  BY <1>1, InvariantHolds, PTL

-----------------------------------------------------------------------------
(* What a lockfile binds a build to.                                       *)

\* Of a lockfile that is not refused, the parser misses nothing else.
LEMMA ParserCovers ==
    ASSUME NEW text, IsLockfile(text), Parsed(text) # {}
    PROVE  Locked(text) \ Missed(text) \subseteq Parsed(text)
<1>1. ~LockfileRaises(text) /\ text.format \in {"pip", "npm"}
  BY DEF Parsed, LockfileRaises, IsLockfile
<1>2. CASE text.format = "pip"
  <2>1. Parsed(text) = Required(text.lines) /\ Locked(text) = PipLocks(text)
    BY <1>1, <1>2 DEF Parsed, Locked
  <2>2. \A r \in text.lines : r.kind = "requirement" => Cardinality(r.exact) = 1
    BY <1>1, <1>2 DEF LockfileRaises, LineRaises
  <2>3. PipLocks(text) \subseteq Required(text.lines)
    BY <2>2 DEF PipLocks, Required
  <2>4. QED
    BY <2>1, <2>3
<1>3. CASE text.format = "npm"
  <2>1. Parsed(text) = Appended(Found(text)) /\ Locked(text) = NpmLocks(text)
    BY <1>1, <1>3 DEF Parsed, Locked
  <2>2. SUFFICES ASSUME NEW c \in NpmLocks(text), c \notin Missed(text)
                 PROVE  c \in Appended(Found(text))
    BY <2>1
  <2>3. "none" \notin Versions /\ "none" \notin Names
    BY ParserAssumption
  <2>4. ASSUME NEW p \in text.packages, p.at = "module", ~p.link, p.version \in Versions,
               c = Coordinate("npm", IF p.alias = "none" THEN p.name ELSE p.alias, p.version)
        PROVE  c \in Appended(Found(text))
    <3>1. c.name = Lower(c.name) /\ p.alias # c.name
      BY <1>3, <2>1, <2>2, <2>4 DEF Missed, Coordinate
    <3>2. p.alias = "none" /\ c = Coordinate("npm", Lower(p.name), p.version)
      BY <2>4, <3>1 DEF Coordinate
    <3>3. p \in Found(text) /\ p.version # "none"
      BY <2>3, <2>4 DEF Found
    <3>4. QED
      BY <3>2, <3>3 DEF Appended
  <2>5. ASSUME NEW k \in 0 .. Depth, NEW n \in Levels(text.dependencies)[k], n.version \in Versions,
               c = Coordinate("npm", n.name, n.version)
        PROVE  c \in Appended(Found(text))
    <3>1. c = Coordinate("npm", Lower(n.name), n.version)
      BY <1>3, <2>1, <2>2, <2>5 DEF Missed, Coordinate
    <3>2. n \in Found(text) /\ n.version # "none"
      BY <2>3, <2>5 DEF Found, Walk
    <3>3. QED
      BY <3>1, <3>2 DEF Appended
  <2>6. QED
    BY <2>2, <2>4, <2>5 DEF NpmLocks, Fetched
<1>4. QED
  BY <1>1, <1>2, <1>3

\* What a lockfile with a permit binds pip or npm to has been admitted, whatever
\* the lockfile holds, but for what the parser is known to miss.
THEOREM LockedIsAdmitted == Spec => []LockedWasAdmitted
<1>1. Inv => LockedWasAdmitted
  <2> SUFFICES ASSUME Inv, NEW f \in PermitFiles, NEW l \in Lockfiles, NEW e \in Envs, Accepts(f, l, e),
                      NEW c \in Locked(lockfile[l].text) \ Missed(lockfile[l].text)
               PROVE  <<c, e, "allow">> \in decisions
    BY DEF LockedWasAdmitted
  <2> DEFINE text == lockfile[l].text
  <2>1. Good(permitFile[f], decisions) /\ permitFile[f].env = e /\ permitFile[f].digest = lockfile[l]
    BY DEF Inv, FilesFit, Accepts
  <2>2. text \in Texts /\ Pins[text] # {} /\ \A d \in Pins[text] : <<d, e, "allow">> \in decisions
    BY <2>1 DEF Good, BuildPermits
  <2>3. IsLockfile(text) /\ Pins[text] = Parsed(text)
    BY <2>2, PinsAreParsed
  <2>4. c \in Parsed(text)
    BY <2>2, <2>3, ParserCovers
  <2>5. QED
    BY <2>2, <2>3, <2>4
<1>2. QED
  BY <1>1, InvariantHolds, PTL

-----------------------------------------------------------------------------
(* The permits of a run that passes: a run keeps what it was answered, and *)
(* the files it has written hold these answers, or what came later.        *)

Answered == {"reporting", "writing", "exited"}

\* The permits in the local state x of g are its own, and once they are
\* written their files, of P, are there.
Keeps(g, x, P) ==
    /\ \A l \in Lockfiles : x.responses[l].permit # None =>
          /\ x.responses[l].permit.by = g
          /\ x.responses[l].permit.name = l
          /\ x.responses[l].permit.env = x.env
    /\ \A l \in Lockfiles : x.responses[l].decision = "allow" => x.responses[l].permit # None
    /\ x.pc \in {"reporting", "writing"} =>
          \A l \in x.args \ x.todo : x.responses[l].permit # None => P[PermitFile[l]] # None
    /\ x.pc = "exited" /\ x.code = 0 /\ x.mode = "enforce" =>
          \A l \in x.args : x.responses[l].permit # None /\ P[PermitFile[l]] # None

RunsKeep == \A g \in Gates : Keeps(g, gate[g], permitFile)

\* Every whole permit file holds an answer of the run that wrote it, unless that run
\* has failed since.
Failed(x) == x.pc = "exited" /\ x.code # 0

FilesAnswered ==
    \A f \in PermitFiles : permitFile[f] \notin {None, Torn} =>
        /\ permitFile[f].by \in Gates
        /\ gate[permitFile[f].by].pc \in Answered
        /\ \/ Failed(gate[permitFile[f].by])
           \/ \E l \in Lockfiles : /\ PermitFile[l] = f
                                   /\ gate[permitFile[f].by].responses[l].permit = permitFile[f]

Filed == Inv /\ RunsKeep /\ FilesAnswered

Lasting == \A f \in PermitFiles : permitFile[f] # None => permitFile'[f] # None

LEMMA KeepsLasting ==
    ASSUME NEW g, NEW x \in Run, NEW P, NEW Q, Keeps(g, x, P),
           \A f \in PermitFiles : P[f] # None => Q[f] # None
    PROVE  Keeps(g, x, Q)
<1>1. \A l \in x.args : l \in Lockfiles /\ PermitFile[l] \in PermitFiles
  BY DEF Run, PermitFiles
<1>2. QED
  BY <1>1 DEF Keeps

LEMMA StepKeeps ==
    ASSUME Inv, RunsKeep, Lasting, NEW g \in Gates, NEW x, Keeps(g, x, permitFile'),
           gate' = [gate EXCEPT ![g] = x]
    PROVE  RunsKeep'
<1>1. SUFFICES ASSUME NEW h \in Gates PROVE Keeps(h, gate'[h], permitFile')
  BY DEF RunsKeep
<1>2. CASE h = g
  BY <1>2 DEF Inv, RunsFit
<1>3. CASE h # g
  <2>1. gate'[h] = gate[h] /\ gate[h] \in Run /\ Keeps(h, gate[h], permitFile)
    BY <1>3 DEF Inv, RunsFit, RunsKeep
  <2>2. QED
    BY <2>1, KeepsLasting DEF Lasting
<1>4. QED
  BY <1>2, <1>3

Same(x, y) == x.pc # "exited" /\ y.responses = x.responses

\* A run that has its answers keeps them, or fails, a file that is written anew is torn.
LEMMA StepAnswered ==
    ASSUME Inv, FilesAnswered, NEW g \in Gates, NEW x, gate' = [gate EXCEPT ![g] = x],
           gate[g].pc \in Answered => x.pc \in Answered /\ (Failed(x) \/ Same(gate[g], x)),
           \A f \in PermitFiles : permitFile'[f] \in {permitFile[f], Torn}
    PROVE  FilesAnswered'
<1>1. SUFFICES ASSUME NEW f \in PermitFiles, permitFile'[f] \notin {None, Torn}
               PROVE  /\ permitFile'[f].by \in Gates
                      /\ gate'[permitFile'[f].by].pc \in Answered
                      /\ \/ Failed(gate'[permitFile'[f].by])
                         \/ \E l \in Lockfiles :
                               /\ PermitFile[l] = f
                               /\ gate'[permitFile'[f].by].responses[l].permit = permitFile'[f]
  BY DEF FilesAnswered, Failed
<1>2. permitFile'[f] = permitFile[f]
  BY <1>1
<1> DEFINE h == permitFile[f].by
<1>3. h \in Gates /\ gate[h].pc \in Answered
  BY <1>1, <1>2 DEF FilesAnswered
<1>4. /\ gate'[h].pc \in Answered
      /\ \/ gate'[h] = gate[h]
         \/ Failed(gate'[h])
         \/ Same(gate[h], gate'[h])
  BY <1>3 DEF Inv, RunsFit
<1>5. \/ Failed(gate[h])
      \/ \E l \in Lockfiles : PermitFile[l] = f /\ gate[h].responses[l].permit = permitFile[f]
  BY <1>1, <1>2 DEF FilesAnswered
<1>6. QED
  BY <1>2, <1>3, <1>4, <1>5 DEF Same, Failed

\* A step that leaves the permit files alone.
LEMMA QuietStep ==
    ASSUME Filed, UNCHANGED permitFile, NEW g \in Gates, NEW x, gate' = [gate EXCEPT ![g] = x],
           gate[g].pc \in Answered => x.pc \in Answered /\ (Failed(x) \/ Same(gate[g], x)),
           Keeps(g, x, permitFile)
    PROVE  RunsKeep' /\ FilesAnswered'
<1>1. Lasting /\ Keeps(g, x, permitFile') /\ \A f \in PermitFiles : permitFile'[f] \in {permitFile[f], Torn}
  BY DEF Lasting
<1>2. QED
  BY <1>1, StepKeeps, StepAnswered DEF Filed

\* A run that ends without passing.
LEMMA FailedExit ==
    ASSUME Filed, UNCHANGED permitFile, NEW g \in Gates, NEW c \in {1, 2}, Fail(g, c)
    PROVE  RunsKeep' /\ FilesAnswered'
<1> DEFINE x == [Fresh EXCEPT !.pc = "exited", !.code = c]
<1>1. gate' = [gate EXCEPT ![g] = x]
  BY DEF Fail
<1>2. x.pc = "exited" /\ x.code = c
      /\ \A l \in Lockfiles : x.responses[l].permit = None /\ x.responses[l].decision = "none"
  BY DEF Fresh
<1>3. Keeps(g, x, permitFile) /\ Failed(x)
  BY <1>2 DEF Keeps, Failed
<1>4. QED
  BY <1>1, <1>2, <1>3, QuietStep DEF Answered

LEMMA InitFiled == Init => Filed
<1> SUFFICES ASSUME Init PROVE Filed
  OBVIOUS
<1>1. \A g \in Gates : gate[g] = Fresh
  BY DEF Init
<1>2. Fresh.pc = "idle" /\ \A l \in Lockfiles : Fresh.responses[l].permit = None /\ Fresh.responses[l].decision = "none"
  BY DEF Fresh
<1>3. RunsKeep
  BY <1>1, <1>2 DEF RunsKeep, Keeps
<1>4. FilesAnswered
  BY DEF Init, FilesAnswered
<1>5. QED
  BY <1>3, <1>4, InitInv DEF Filed

LEMMA BeginFiled == ASSUME Filed, NEW g \in Gates, Begin(g) PROVE RunsKeep' /\ FilesAnswered'
<1>1. PICK args \in SUBSET Lockfiles, e \in Envs, m \in {"observe", "enforce"} :
         gate' = [gate EXCEPT ![g] =
              IF \E l \in args : lockfile[l] = None
              THEN [Fresh EXCEPT !.pc = "exited", !.code = 2]
              ELSE [Fresh EXCEPT !.pc = "reading", !.args = args, !.todo = args,
                                 !.env = e, !.mode = m]]
  BY DEF Begin
<1> DEFINE x == [Fresh EXCEPT !.pc = "exited", !.code = 2]
           y == [Fresh EXCEPT !.pc = "reading", !.args = args, !.todo = args, !.env = e, !.mode = m]
<1>2. x.pc = "exited" /\ x.code = 2 /\ y.pc = "reading"
      /\ x.responses = Fresh.responses /\ y.responses = Fresh.responses
  BY DEF Fresh
<1>3. \A l \in Lockfiles : Fresh.responses[l].permit = None /\ Fresh.responses[l].decision = "none"
  BY DEF Fresh
<1>4. Keeps(g, x, permitFile) /\ Keeps(g, y, permitFile)
  BY <1>2, <1>3 DEF Keeps
<1>5. gate[g].pc \notin Answered /\ UNCHANGED permitFile
  BY DEF Begin, At, Answered
<1>6. QED
  BY <1>1, <1>4, <1>5, QuietStep

\* A run that is assessing, and only that, goes on to do so with other values of
\* what belongs to the lockfile.
LEMMA SameAnswers ==
    ASSUME Filed, UNCHANGED permitFile, NEW g \in Gates, NEW x, gate' = [gate EXCEPT ![g] = x],
           gate[g].pc \in {"reading", "assessing"}, x.pc = "assessing",
           x.responses = gate[g].responses, x.env = gate[g].env
    PROVE  RunsKeep' /\ FilesAnswered'
<1>1. Keeps(g, gate[g], permitFile)
  BY DEF Filed, RunsKeep
<1>2. Keeps(g, x, permitFile)
  BY <1>1 DEF Keeps
<1>3. QED
  BY <1>2, QuietStep DEF Answered

LEMMA ReadFiled == ASSUME Filed, NEW g \in Gates, Read(g) PROVE RunsKeep' /\ FilesAnswered'
<1>1. UNCHANGED permitFile /\ gate[g].pc = "reading" /\ gate[g] \in Run
  BY DEF Read, At, Filed, Inv, RunsFit
<1>2. CASE Fail(g, 1) \/ Fail(g, 2)
  BY <1>1, <1>2, FailedExit
<1>3. ASSUME NEW l \in gate[g].todo,
             gate' = [gate EXCEPT ![g] =
                      [gate[g] EXCEPT !.pc = "assessing", !.todo = gate[g].todo \ {l}, !.current = l,
                                  !.text = lockfile[l].text, !.pending = Pins[lockfile[l].text],
                                  !.verdicts = {}, !.barred = revoked]]
      PROVE  RunsKeep' /\ FilesAnswered'
  <2> DEFINE x == [gate[g] EXCEPT !.pc = "assessing", !.todo = gate[g].todo \ {l}, !.current = l,
                                  !.text = lockfile[l].text, !.pending = Pins[lockfile[l].text],
                                  !.verdicts = {}, !.barred = revoked]
  <2>1. x.pc = "assessing" /\ x.responses = gate[g].responses /\ x.env = gate[g].env
    BY <1>1 DEF Run
  <2>2. gate' = [gate EXCEPT ![g] = x]
    BY <1>3
  <2>3. QED
    BY <1>1, <2>1, <2>2, SameAnswers
<1>4. QED
  BY <1>2, <1>3 DEF Read

LEMMA AssessFiled == ASSUME Filed, NEW g \in Gates, AssessDependency(g) PROVE RunsKeep' /\ FilesAnswered'
<1>1. UNCHANGED permitFile /\ gate[g].pc = "assessing" /\ gate[g] \in Run
  BY DEF AssessDependency, At, Filed, Inv, RunsFit
<1>2. PICK d \in gate[g].pending :
         \E v \in Verdicts(Mode, d \in revoked) \cup {"deny"} :
            gate' = [gate EXCEPT ![g].pending = @ \ {d}, ![g].verdicts = @ \cup {v}]
  BY DEF AssessDependency
<1>3. PICK v : gate' = [gate EXCEPT ![g].pending = @ \ {d}, ![g].verdicts = @ \cup {v}]
  BY <1>2
<1> DEFINE x == [gate[g] EXCEPT !.pending = gate[g].pending \ {d}, !.verdicts = gate[g].verdicts \cup {v}]
<1>4. gate' = [gate EXCEPT ![g] = x]
  BY <1>1, <1>3 DEF Filed, Inv, RunsFit, Run
<1>5. x.pc = "assessing" /\ x.responses = gate[g].responses /\ x.env = gate[g].env
  BY <1>1 DEF Run
<1>6. QED
  BY <1>1, <1>4, <1>5, SameAnswers

LEMMA ConcludeFiled == ASSUME Filed, NEW g \in Gates, Conclude(g) PROVE RunsKeep' /\ FilesAnswered'
<1> DEFINE run == gate[g]
           decision == LockfileDecision(run.verdicts)
           permit == [by |-> g, name |-> run.current, env |-> run.env, barred |-> run.barred,
                      digest |-> [text |-> run.text, newline |-> "lf"]]
           response == [decision |-> decision, permit |-> IF decision = "allow" THEN permit ELSE None]
           x == [run EXCEPT !.responses = [run.responses EXCEPT ![run.current] = response],
                            !.pc = IF run.todo = {} THEN "reporting" ELSE "reading",
                            !.todo = IF run.todo = {} THEN run.args ELSE run.todo,
                            !.current = None, !.text = None, !.verdicts = {}, !.barred = {}]
<1>1. UNCHANGED permitFile /\ gate' = [gate EXCEPT ![g] = x]
  BY DEF Conclude
<1>2. run \in Run /\ run.pc = "assessing" /\ Keeps(g, run, permitFile) /\ run.current \in Lockfiles
  BY DEF Filed, Inv, RunsFit, RunsKeep, Fits, Conclude, At
<1>3. x.pc \in {"reporting", "reading"} /\ x.env = run.env /\ x.args = run.args
      /\ x.responses = [run.responses EXCEPT ![run.current] = response]
      /\ (x.pc = "reporting" => x.todo = run.args)
  BY <1>2 DEF Run
<1>4. x.responses[run.current] = response
  BY <1>2, <1>3 DEF Run
<1>5. \A l \in Lockfiles \ {run.current} : x.responses[l] = run.responses[l]
  BY <1>2, <1>3 DEF Run
<1>6. None # permit
  <2>1. permit \in BuildPermits
    BY <1>2 DEF Filed, Inv, RunsFit, Fits, BuildPermits, Run
  <2>2. QED
    BY <2>1, PermitsAssumption
<1>7. Keeps(g, x, permitFile)
  BY <1>2, <1>3, <1>4, <1>5, <1>6 DEF Keeps
<1>8. QED
  BY <1>1, <1>2, <1>7, QuietStep DEF Answered, Filed

LEMMA OpenFiled == ASSUME Filed, NEW g \in Gates, OpenPermit(g) PROVE RunsKeep' /\ FilesAnswered'
<1>1. gate[g] \in Run /\ gate[g].pc = "reporting" /\ Keeps(g, gate[g], permitFile)
  BY DEF Filed, Inv, RunsFit, RunsKeep, OpenPermit, At
<1>2. PICK l \in Granted(g) :
         /\ permitFile' = [permitFile EXCEPT ![PermitFile[l]] = Torn]
         /\ gate' = [gate EXCEPT ![g] =
                [gate[g] EXCEPT !.pc = "writing", !.todo = gate[g].todo \ {l}, !.current = l]]
  BY DEF OpenPermit, Filed, Inv, RunsFit, Run
<1> DEFINE x == [gate[g] EXCEPT !.pc = "writing", !.todo = gate[g].todo \ {l}, !.current = l]
<1>3. x.pc = "writing" /\ x.todo = gate[g].todo \ {l} /\ x.args = gate[g].args
      /\ x.responses = gate[g].responses /\ x.env = gate[g].env
  BY <1>1 DEF Run
<1>4. DOMAIN permitFile = PermitFiles /\ PermitFile[l] \in PermitFiles /\ x.args \subseteq Lockfiles
  BY <1>1, <1>2, <1>3 DEF Filed, Inv, FilesFit, Granted, Run, PermitFiles
<1>5. Lasting /\ permitFile'[PermitFile[l]] = Torn
      /\ \A f \in PermitFiles : permitFile'[f] \in {permitFile[f], Torn}
  BY <1>2, <1>4, GateAssumption DEF Lasting
<1>6. Keeps(g, x, permitFile')
  <2>1. Keeps(g, gate[g], permitFile')
    BY <1>1, <1>5, KeepsLasting DEF Lasting
  <2>2. \A k \in x.args \ x.todo : k = l \/ k \in gate[g].args \ gate[g].todo
    BY <1>3
  <2>3. QED
    BY <1>1, <1>3, <1>5, <2>1, <2>2, GateAssumption DEF Keeps
<1>7. RunsKeep'
  BY <1>2, <1>5, <1>6, StepKeeps DEF Filed
<1>8. FilesAnswered'
  BY <1>1, <1>2, <1>3, <1>5, StepAnswered DEF Filed, Answered, Same
<1>9. QED
  BY <1>7, <1>8

LEMMA WriteFiled == ASSUME Filed, NEW g \in Gates, WritePermit(g) PROVE RunsKeep' /\ FilesAnswered'
<1> DEFINE l == gate[g].current
           p == gate[g].responses[l].permit
           x == [gate[g] EXCEPT !.pc = "reporting", !.current = None]
<1>1. gate[g] \in Run /\ gate[g].pc = "writing" /\ Keeps(g, gate[g], permitFile)
  BY DEF Filed, Inv, RunsFit, RunsKeep, WritePermit, At
<1>2. l \in Lockfiles /\ p # None /\ p \in BuildPermits
  BY <1>1 DEF Filed, Inv, RunsFit, Fits, Good
<1>3. PICK result \in {p, Torn} : permitFile' = [permitFile EXCEPT ![PermitFile[l]] = result]
  BY DEF WritePermit
<1>4. gate' = [gate EXCEPT ![g] = x]
  BY DEF WritePermit
<1>5. x.pc = "reporting" /\ x.todo = gate[g].todo /\ x.args = gate[g].args
      /\ x.responses = gate[g].responses /\ x.env = gate[g].env
  BY <1>1 DEF Run
<1>6. DOMAIN permitFile = PermitFiles /\ PermitFile[l] \in PermitFiles
  BY <1>2 DEF Filed, Inv, FilesFit, PermitFiles
<1>7. Lasting
  BY <1>2, <1>3, <1>6, GateAssumption DEF Lasting
<1>8. Keeps(g, x, permitFile')
  <2>1. Keeps(g, gate[g], permitFile')
    BY <1>1, <1>7, KeepsLasting DEF Lasting
  <2>2. QED
    BY <1>1, <1>5, <2>1 DEF Keeps
<1>9. RunsKeep'
  BY <1>4, <1>7, <1>8, StepKeeps DEF Filed
<1>10. FilesAnswered'
  <2>1. CASE result = Torn
    <3>1. \A f \in PermitFiles : permitFile'[f] \in {permitFile[f], Torn}
      BY <1>3, <1>6, <2>1
    <3>2. QED
      BY <1>1, <1>4, <1>5, <3>1, StepAnswered DEF Filed, Answered, Same
  <2>2. CASE result = p
    <3>1. SUFFICES ASSUME NEW f \in PermitFiles, permitFile'[f] \notin {None, Torn}
                   PROVE  /\ permitFile'[f].by \in Gates
                          /\ gate'[permitFile'[f].by].pc \in Answered
                          /\ \/ Failed(gate'[permitFile'[f].by])
                             \/ \E k \in Lockfiles :
                                   /\ PermitFile[k] = f
                                   /\ gate'[permitFile'[f].by].responses[k].permit = permitFile'[f]
      BY DEF FilesAnswered, Failed
    <3>2. gate'[g].pc \in Answered /\ gate'[g].responses = gate[g].responses /\ ~Failed(gate[g])
      BY <1>1, <1>4, <1>5 DEF Filed, Inv, RunsFit, Answered, Failed
    <3>3. CASE f = PermitFile[l]
      <4>1. permitFile'[f] = p /\ p.by = g
        BY <1>1, <1>2, <1>3, <1>6, <2>2, <3>3 DEF Keeps
      <4>2. QED
        BY <1>2, <3>2, <3>3, <4>1
    <3>4. CASE f # PermitFile[l]
      <4>1. permitFile'[f] = permitFile[f]
        BY <1>3, <1>6, <3>4
      <4>2. QED
        BY <1>4, <3>1, <3>2, <4>1 DEF Filed, FilesAnswered, Inv, RunsFit, Failed
    <3>5. QED
      BY <3>3, <3>4
  <2>3. QED
    BY <1>3, <2>1, <2>2
<1>11. QED
  BY <1>9, <1>10

LEMMA FinishFiled == ASSUME Filed, NEW g \in Gates, Finish(g) PROVE RunsKeep' /\ FilesAnswered'
<1>1. UNCHANGED permitFile /\ gate[g].pc = "reporting" /\ gate[g] \in Run /\ Granted(g) = {}
      /\ Keeps(g, gate[g], permitFile)
  BY DEF Finish, At, Filed, Inv, RunsFit, RunsKeep
<1>2. CASE Exit(g, 1)
  <2> DEFINE x == [gate[g] EXCEPT !.pc = "exited", !.code = 1]
  <2>1. gate' = [gate EXCEPT ![g] = x]
    BY <1>2 DEF Exit
  <2>2. x.pc = "exited" /\ x.code = 1 /\ x.responses = gate[g].responses /\ x.env = gate[g].env
    BY <1>1 DEF Run
  <2>3. Keeps(g, x, permitFile) /\ Same(gate[g], x)
    BY <1>1, <2>2 DEF Keeps, Same
  <2>4. QED
    BY <1>1, <2>1, <2>2, <2>3, QuietStep DEF Answered
<1>3. CASE Exit(g, 0) /\ (\/ gate[g].mode = "observe"
                          \/ \A l \in gate[g].args : gate[g].responses[l].decision = "allow")
  <2> DEFINE x == [gate[g] EXCEPT !.pc = "exited", !.code = 0]
  <2>1. gate' = [gate EXCEPT ![g] = x]
    BY <1>3 DEF Exit
  <2>2. x.pc = "exited" /\ x.args = gate[g].args /\ x.mode = gate[g].mode
        /\ x.responses = gate[g].responses /\ x.env = gate[g].env
    BY <1>1 DEF Run
  <2>3. ASSUME x.mode = "enforce", NEW l \in x.args
        PROVE  x.responses[l].permit # None /\ permitFile[PermitFile[l]] # None
    <3>1. l \in Lockfiles /\ gate[g].responses[l].permit # None
      BY <1>1, <1>3, <2>2, <2>3 DEF Keeps, Run
    <3>2. l \notin gate[g].todo
      BY <1>1, <3>1 DEF Granted
    <3>3. QED
      BY <1>1, <2>2, <3>1, <3>2 DEF Keeps
  <2>4. Keeps(g, x, permitFile)
    BY <1>1, <2>2, <2>3 DEF Keeps
  <2>5. QED
    BY <1>1, <2>1, <2>2, <2>4, QuietStep DEF Answered, Same
<1>4. QED
  BY <1>2, <1>3 DEF Finish

LEMMA StepFiled == Filed /\ [Next]_vars => Filed'
<1> SUFFICES ASSUME Filed, [Next]_vars PROVE RunsKeep' /\ FilesAnswered'
  BY StepInv DEF Filed
<1>1. ASSUME NEW g \in Gates, Abort(g) PROVE RunsKeep' /\ FilesAnswered'
  BY <1>1, FailedExit DEF Abort
<1>2. CASE UNCHANGED <<permitFile, gate>>
  BY <1>2 DEF Filed, RunsKeep, FilesAnswered
<1>3. QED
  BY <1>1, <1>2, BeginFiled, ReadFiled, AssessFiled, ConcludeFiled, OpenFiled, WriteFiled, FinishFiled
  DEF Next, Gating, Edit, Revoke, vars

\* Where no lockfile has CR and every lockfile has a permit file of its own, an
\* enforcing run that passes leaves a permit for each of its lockfiles that
\* verify-permit accepts, unless another run or an edit came since.
THEOREM PassedIsVerified ==
    ASSUME Newlines \subseteq {"lf"},
           \A k, l \in Lockfiles : PermitFile[k] = PermitFile[l] => k = l
    PROVE  Spec => []PassedGateVerifies
<1>1. Filed => PassedGateVerifies
  <2> SUFFICES ASSUME Filed, NEW g \in Gates, gate[g].pc = "exited", gate[g].code = 0,
                      gate[g].mode = "enforce", NEW l \in gate[g].args
               PROVE  LET f == PermitFile[l]
                          unchanged == /\ permitFile[f] \notin {None, Torn}
                                       /\ permitFile[f].by = g
                                       /\ lockfile[l] # None
                                       /\ lockfile[l].text = gate[g].responses[l].permit.digest.text
                      IN  permitFile[f] # None /\ (unchanged => Accepts(f, l, gate[g].env))
    BY DEF PassedGateVerifies, At
  <2> DEFINE f == PermitFile[l]
             p == gate[g].responses[l].permit
  <2>1. l \in Lockfiles /\ f \in PermitFiles /\ Keeps(g, gate[g], permitFile)
    BY DEF Filed, Inv, RunsFit, RunsKeep, Run, PermitFiles
  <2>2. p # None /\ permitFile[f] # None /\ p.name = l /\ p.env = gate[g].env
    BY <2>1 DEF Keeps
  <2>3. ASSUME permitFile[f] \notin {None, Torn}, permitFile[f].by = g, lockfile[l] # None,
               lockfile[l].text = p.digest.text
        PROVE  Accepts(f, l, gate[g].env)
    <3>1. permitFile[f] = p
      BY <2>1, <2>3 DEF Filed, FilesAnswered, Failed
    <3>2. p.digest \in [text : Texts, newline : {"lf"}]
      BY <2>1, <2>3, <3>1 DEF Filed, Inv, FilesFit, Good, BuildPermits
    <3>3. lockfile[l] \in [text : Texts, newline : {"lf"}]
      BY <2>1, <2>3 DEF Filed, Inv, TablesFit, Contents
    <3>4. p.digest = lockfile[l]
      BY <2>3, <3>2, <3>3
    <3>5. QED
      BY <2>2, <2>3, <3>1, <3>4 DEF Accepts
  <2>4. QED
    BY <2>2, <2>3
<1>2. QED
  BY <1>1, InitFiled, StepFiled, PTL DEF Spec

=============================================================================
