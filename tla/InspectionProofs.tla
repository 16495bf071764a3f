-------------------------- MODULE InspectionProofs --------------------------
(***************************************************************************)
(* Theorems about what an assessment decides from, for any bytes, any      *)
(* requests and any policies.  They rest on three facts about its evidence *)
(* (Evidence below): every scan, stored or used, is one that some request  *)
(* would have made of the same bytes; a sandbox's report is one of those a *)
(* run may end with; and a decision is the engine's, on the facts gathered. *)
(* The comparison with an approved version rests on what the tables record *)
(* besides (Recorded): a scan of all that is allowed, and a row that is as *)
(* its request left it as long as nobody else assesses the same bytes.     *)
(***************************************************************************)
EXTENDS Inspection, WellFoundedInduction, TLAPS

-----------------------------------------------------------------------------
(* The scanner and the sandbox.                                            *)

Rules == DOMAIN SeverityOf

LEMMA RulesAre ==
    Rules = {"path_traversal", "native_code", "hidden_runtime_dir", "embedded_interpreter",
             "startup_customize", "package_json_parse_error", "large_text_blob",
             "member_read_error", "pth_exec", "init_sensitive_behaviour",
             "top_level_sensitive_call", "top_level_sensitive_js", "credential_reference",
             "network_reference", "obfuscation_signal", "lifecycle_script", "bad_archive",
             "record_missing", "record_hash_mismatch", "bundle_parse_error", "runs_as_root",
             "secret_like_env", "shell_entrypoint", "history_network"}
  BY DEF Rules, SeverityOf

LEMMA SeveritiesBounded == \A r \in Rules : SeverityOf[r] \in 0 .. 4
  BY RulesAre DEF SeverityOf

LEMMA CapabilitiesKnown ==
    \A r \in DOMAIN CapabilityOf : CapabilityOf[r] \in Engine!AllCapabilities
  BY DEF CapabilityOf, Engine!AllCapabilities, Engine!Blocked, Engine!Questioned

\* Of one member, and of a whole file, only rules are found.
LEMMA MemberRules ==
    ASSUME NEW m, NEW ecosystem
    PROVE  NameFindings(m) \subseteq Rules /\ MemberFindings(m, ecosystem) \subseteq Rules
<1>1. NameFindings(m) \subseteq Rules
  BY RulesAre DEF NameFindings, When
<1>2. TextFindings(m.has) \subseteq Rules /\ PthFindings(m) \subseteq Rules
  BY RulesAre DEF TextFindings, PthFindings, When
<1>3. PythonFindings(m) \subseteq Rules /\ JavascriptFindings(m) \subseteq Rules
  BY RulesAre DEF PythonFindings, JavascriptFindings, When
<1>4. SizeFindings(m) \subseteq Rules /\ PackageFindings(m) \subseteq Rules
  BY RulesAre DEF SizeFindings, PackageFindings, When
<1>5. BodyFindings(m) \subseteq Rules
  BY <1>2, <1>3, RulesAre DEF BodyFindings
<1>6. MemberFindings(m, ecosystem) \subseteq Rules
  BY <1>4, <1>5, RulesAre DEF MemberFindings
<1>7. QED
  BY <1>1, <1>6

LEMMA FindingsRules ==
    ASSUME NEW content, NEW form, NEW ecosystem
    PROVE  Findings(content, form, ecosystem) \subseteq Rules
<1>1. ArchiveFindings(content, form, ecosystem) \subseteq Rules
  <2>. DEFINE inside == UNION {NameFindings(m) \cup MemberFindings(m, ecosystem) :
                                m \in content.members}
  <2>1. inside \subseteq Rules
    BY MemberRules
  <2>2. RecordFindings(content) \subseteq Rules
    BY RulesAre DEF RecordFindings, When
  <2>3. "bad_archive" \in Rules
    BY RulesAre
  <2>4. ArchiveFindings(content, form, ecosystem)
            = IF ~Opens(content, form) THEN {"bad_archive"}
              ELSE inside \cup (IF form = "whl" THEN RecordFindings(content) ELSE {})
    BY DEF ArchiveFindings
  <2>. HIDE DEF inside
  <2>5. QED
    BY <2>1, <2>2, <2>3, <2>4
<1>2. BundleFindings(content) \subseteq Rules
  BY RulesAre DEF BundleFindings, When
<1>3. PlainFindings(content, form) \subseteq Rules
  BY RulesAre DEF PlainFindings, TextFindings, When
<1>4. QED
  BY <1>1, <1>2, <1>3 DEF Findings

\* The highest severity of some rules is one of theirs.
LEMMA HighestBounded ==
    ASSUME NEW rules \in SUBSET Rules
    PROVE  Highest(rules) \in 0 .. 4
<1>1. CASE rules = {}
  BY <1>1 DEF Highest
<1>2. CASE rules # {}
  <2>. DEFINE Tops(s) == /\ \E r \in rules : SeverityOf[r] = s
                         /\ \A r \in rules : SeverityOf[r] <= s
  <2>1. \A r \in rules : SeverityOf[r] \in {0, 1, 2, 3, 4}
    BY SeveritiesBounded
  <2>2. \E s \in 0 .. 4 : Tops(s)
    <3>1. CASE \E r \in rules : SeverityOf[r] = 4
      BY <2>1, <3>1
    <3>2. CASE /\ ~\E r \in rules : SeverityOf[r] = 4
               /\ \E r \in rules : SeverityOf[r] = 3
      BY <2>1, <3>2
    <3>3. CASE /\ ~\E r \in rules : SeverityOf[r] \in {3, 4}
               /\ \E r \in rules : SeverityOf[r] = 2
      BY <2>1, <3>3
    <3>4. CASE /\ ~\E r \in rules : SeverityOf[r] \in {2, 3, 4}
               /\ \E r \in rules : SeverityOf[r] = 1
      BY <2>1, <3>4
    <3>5. CASE ~\E r \in rules : SeverityOf[r] \in {1, 2, 3, 4}
      BY <1>2, <2>1, <3>5
    <3>6. QED
      BY <3>1, <3>2, <3>3, <3>4, <3>5
  <2>3. Highest(rules) = CHOOSE s \in 0 .. 4 : Tops(s)
    BY <1>2 DEF Highest
  <2>4. QED
    BY <2>2, <2>3
<1>3. QED
  BY <1>1, <1>2

\* What a scan is, for a request that may be made.
LEMMA FreshScanTyped ==
    ASSUME NEW job \in Jobs
    PROVE  FreshScan(job) \in Scans
<1>1. job \in Job /\ job.content \in Content
  BY InspectionAssumption DEF Job
<1>2. Guess(job.form) \in Ecosystems
  BY DEF Guess, Ecosystems
<1>3. ASSUME NEW ecosystem \in Ecosystems, NEW mutable \in BOOLEAN
      PROVE  Scan(job.content, job.form, ecosystem, mutable) \in Scans
  <2>. DEFINE rules == Findings(job.content, job.form, ecosystem)
              wheel == ecosystem # "oci" /\ job.form = "whl" /\ Opens(job.content, job.form)
  <2>1. rules \in SUBSET Rules
    BY FindingsRules
  <2>2. Highest(rules) \in 0 .. 4
    BY <2>1, HighestBounded
  <2>3. {CapabilityOf[r] : r \in rules \cap DOMAIN CapabilityOf} \in SUBSET Engine!AllCapabilities
    BY CapabilitiesKnown
  <2>4. (IF wheel THEN job.content.requires ELSE {}) \in SUBSET Requirements
    BY <1>1 DEF Content
  <2>5. (IF wheel THEN job.content.modules ELSE <<>>) \in Seq(SUBSET Imports)
    BY <1>1 DEF Content
  <2>6. job.form \in Forms
    BY <1>1 DEF Job
  <2>7. (mutable /\ ecosystem = "oci") \in BOOLEAN
    OBVIOUS
  <2>. HIDE DEF rules, wheel
  <2>8. QED
    BY <2>2, <2>3, <2>4, <2>5, <2>6, <2>7 DEF Scan, Scans, rules, wheel
<1>4. job.ecosystem \in Ecosystems /\ job.mutable \in BOOLEAN
  BY <1>1 DEF Job
<1>5. QED
  BY <1>2, <1>3, <1>4 DEF FreshScan

\* The reports of a sandbox in use: a whole output names the installation, a
\* lost one leaves an event.
LEMMA ReportsRead ==
    ASSUME NEW modules, \A i \in DOMAIN modules : modules[i] \subseteq Events,
           modules \in Seq(SUBSET Events),
           NEW box \in Reports("docker", modules)
    PROVE  /\ box.state \in {"failed", "executed"}
           /\ box.events \subseteq Events
           /\ box.kept = "all" => "hostile" \in box.events
           /\ box.kept = "lost" => box.events # {}
<1>1. CASE box \in Unread
  <2>1. PICK state \in {"failed", "executed"} : box = Report(state, {"high"}, "lost")
    BY <1>1 DEF Unread
  <2>2. box.state = state /\ box.events = {"high"} /\ box.kept = "lost"
    BY <2>1 DEF Report
  <2>3. QED
    BY <2>2 DEF Events
<1>2. ASSUME NEW i \in BOOLEAN, box \in Completed(Output(modules, i)) \cup Aborted(Output(modules, i))
      PROVE  /\ box.state \in {"failed", "executed"}
             /\ box.events \subseteq Events
             /\ box.kept = "all" => "hostile" \in box.events
             /\ box.kept = "lost" => box.events # {}
  <2>. DEFINE output == Output(modules, i)
  <2>1. /\ output \in Seq(SUBSET Events)
        /\ 1 \in DOMAIN output /\ output[1] = {"hostile"}
    <3>. DEFINE last == [k \in DOMAIN modules |-> ImportEvents(modules[k], i)]
    <3>1. last \in Seq(SUBSET Events)
      BY DEF ImportEvents, Events
    <3>2. Installing \in Seq(SUBSET Events) /\ Len(Installing) >= 2 /\ Installing[1] = {"hostile"}
      BY DEF Installing, Events
    <3>. DEFINE middle == IF i THEN <<>> ELSE <<{"medium"}>>
    <3>3. middle \in Seq(SUBSET Events)
      <4>1. {"medium"} \in SUBSET Events
        BY DEF Events
      <4>2. <<{"medium"}>> \in Seq(SUBSET Events) /\ <<>> \in Seq(SUBSET Events)
        BY <4>1
      <4>3. QED
        BY <4>2
    <3>4. output = (Installing \o middle) \o last
      BY DEF Output
    <3>. HIDE DEF last, middle, output
    <3>5. \A s, t \in Seq(SUBSET Events) : Len(s) >= 2 =>
              /\ s \o t \in Seq(SUBSET Events)
              /\ Len(s \o t) >= 2
              /\ (s \o t)[1] = s[1]
      OBVIOUS
    <3>6. /\ Installing \o middle \in Seq(SUBSET Events)
          /\ Len(Installing \o middle) >= 2
          /\ (Installing \o middle)[1] = {"hostile"}
      BY <3>2, <3>3, <3>5, Zenon
    <3>7. /\ output \in Seq(SUBSET Events)
          /\ Len(output) >= 2 /\ output[1] = {"hostile"}
      BY <3>1, <3>4, <3>5, <3>6
    <3>8. QED
      BY <3>7
  <2>. HIDE DEF output
  <2>2. Printed(output) \subseteq Events /\ "hostile" \in Printed(output)
    BY <2>1 DEF Printed
  <2>3. \A e \in Tails(output) : e \subseteq Events
    <3>1. SUFFICES ASSUME NEW k \in DOMAIN output, NEW part \in SUBSET output[k]
                   PROVE  part \cup Printed(SubSeq(output, k + 1, Len(output))) \subseteq Events
      BY DEF Tails
    <3>2. SubSeq(output, k + 1, Len(output)) \in Seq(SUBSET Events)
      BY <2>1
    <3>3. QED
      BY <2>1, <3>2 DEF Printed
  <2>4. CASE box \in Completed(output)
    <3>1. CASE box = Report("executed", Printed(output), "all")
      BY <2>2, <3>1 DEF Report
    <3>2. ASSUME NEW e \in Tails(output), box = Report("executed", e, "end")
          PROVE  box.state = "executed" /\ box.events \subseteq Events /\ box.kept = "end"
      BY <2>3, <3>2 DEF Report
    <3>3. QED
      BY <2>4, <3>1, <3>2, <2>2 DEF Completed, Report
  <2>5. CASE box \in Aborted(output)
    <3>1. PICK e \in SUBSET Printed(output),
               late \in {{"medium"}, {"high"}, {"medium", "high"}} :
               box = Report("executed", e \cup late, "lost")
      BY <2>5 DEF Aborted
    <3>2. late \subseteq Events /\ late # {}
      BY DEF Events
    <3>3. e \cup late \subseteq Events /\ e \cup late # {}
      BY <2>2, <3>2
    <3>4. box.state = "executed" /\ box.events = e \cup late /\ box.kept = "lost"
      BY <3>1 DEF Report
    <3>5. QED
      BY <3>3, <3>4
  <2>6. QED
    BY <1>2, <2>4, <2>5 DEF output
<1>3. QED
  BY <1>1, <1>2 DEF Reports

-----------------------------------------------------------------------------
(* The invariant.                                                          *)

Shaped == task = [p \in Requests |-> task[p]]

\* A scan that some request would have made of the same bytes.
Genuine(scan, content) == \E j \in Jobs : j.content = content /\ scan = FreshScan(j)

StoreGenuine == \A c \in Contents : scans[c] # None => Genuine(scans[c], c)

\* What the evidence of a request is, once it has any.
Backed(p) ==
    LET t == task[p]
    IN  /\ t.pc = "idle" => t = Idle
        /\ t.pc \in {"boxed", "done"} =>
              /\ t.job \in Jobs /\ Genuine(t.scan, t.job.content)
              /\ t.job.force => t.scan = FreshScan(t.job)
        /\ t.pc = "boxed" => backend = "docker" /\ rows[t.job.content] \in Row
        /\ t.pc = "done" =>
              /\ \E earlier \in Scans \cup {None} : t.facts = FactsOf(t.job, t.scan, t.box, earlier)
              /\ t.decision = Engine!Evaluate(policy, t.facts)
              /\ ShouldSandbox(t.job) /\ backend = "docker" => t.box \in Reports("docker", t.scan.modules)

Evidence == TypeOK /\ Shaped /\ StoreGenuine /\ \A p \in Requests : Backed(p)

LEMMA GenuineTyped ==
    ASSUME NEW content, NEW scan, Genuine(scan, content)
    PROVE  scan \in Scans
  BY FreshScanTyped DEF Genuine

\* The engine's answer is one of three, and so is the type of what it reads.
LEMMA EvaluateTyped ==
    ASSUME NEW c \in Engine!Config, NEW x
    PROVE  Engine!Evaluate(c, x) \in {"allow", "review", "deny"}
  BY DEF Engine!Evaluate

LEMMA BoxTyped ==
    ASSUME NEW scan \in Scans, NEW box,
           box = Unboxed \/ \E b \in Backends : box \in Reports(b, scan.modules)
    PROVE  box.state \in {"absent", "disabled", "failed", "executed"} /\ box.events \subseteq Events
<1>1. scan.modules \in Seq(SUBSET Events)
  BY InspectionAssumption DEF Scans
<1>2. CASE box = Unboxed
  BY <1>2 DEF Unboxed, Report
<1>3. CASE box \in Reports("docker", scan.modules)
  BY <1>1, <1>3, ReportsRead
<1>4. CASE \E b \in Backends : b # "docker" /\ box \in Reports(b, scan.modules)
  BY <1>4 DEF Reports, Report
<1>5. QED
  BY <1>2, <1>3, <1>4

LEMMA FactsTyped ==
    ASSUME NEW job \in Jobs, NEW scan \in Scans, NEW earlier \in Scans \cup {None}, NEW box,
           box.state \in {"absent", "disabled", "failed", "executed"}, box.events \subseteq Events
    PROVE  FactsOf(job, scan, box, earlier) \in Engine!Facts
<1>1. job \in Job
  BY InspectionAssumption
<1>2. /\ job.env \in Engine!Environments /\ job.ecosystem \in Engine!Ecosystems
      /\ job.age \in Nat \cup {None} /\ job.mutable \in BOOLEAN /\ job.declared \in BOOLEAN
  BY <1>1 DEF Job, Engine!Environments, Engine!Ecosystems, Ecosystems
<1>3. /\ scan.severity \in Engine!Severities /\ scan.caps \in SUBSET Engine!AllCapabilities
      /\ scan.mutable \in BOOLEAN
  BY DEF Scans, Engine!Severities
<1>4. (IF earlier = None THEN {} ELSE earlier.caps) \in SUBSET Engine!AllCapabilities
  BY DEF Scans
<1>5. box.events \in SUBSET Engine!Events
  BY DEF Events, Engine!Events
<1>6. QED
  BY <1>2, <1>3, <1>4, <1>5 DEF FactsOf, Engine!Facts

\* The tables' own steps.
LEMMA UpsertTyped ==
    ASSUME NEW table \in [Contents -> Row \cup {None}], NEW job \in Jobs, NEW status \in Statuses
    PROVE  /\ Upsert(table, job, status) \in [Contents -> Row \cup {None}]
           /\ Upsert(table, job, status)[job.content] \in Row
           /\ \A c \in Contents : table[c] \in Row => Upsert(table, job, status)[c] \in Row
<1>1. job.content \in Contents /\ job \in Job
  BY InspectionAssumption DEF Job
<1>. DEFINE row == table[job.content]
            kept == job.route = "legacy" /\ row # None
            new == [ecosystem |-> IF kept THEN row.ecosystem ELSE job.ecosystem,
                    project |-> job.project, version |-> job.version, status |-> status]
<1>2. (IF kept THEN row.ecosystem ELSE job.ecosystem) \in Ecosystems
  BY <1>1 DEF Row, Job
<1>3. new \in Row
  BY <1>1, <1>2 DEF Row, Job
<1>4. Upsert(table, job, status) = [table EXCEPT ![job.content] = new]
  BY DEF Upsert
<1>. HIDE DEF new
<1>5. QED
  BY <1>1, <1>3, <1>4

LEMMA SetStatusTyped ==
    ASSUME NEW table \in [Contents -> Row \cup {None}], NEW content \in Contents,
           NEW status \in Statuses, table[content] \in Row
    PROVE  /\ SetStatus(table, content, status) \in [Contents -> Row \cup {None}]
           /\ \A c \in Contents : table[c] \in Row => SetStatus(table, content, status)[c] \in Row
<1>. DEFINE new == [table[content] EXCEPT !.status = status]
<1>1. new \in Row
  BY DEF Row
<1>2. SetStatus(table, content, status) = [table EXCEPT ![content] = new]
  BY DEF SetStatus
<1>. HIDE DEF new
<1>3. QED
  BY <1>1, <1>2

-----------------------------------------------------------------------------
(* Its steps.                                                              *)

LEMMA InitEvidence == Init => Evidence
<1>1. SUFFICES ASSUME Init PROVE Evidence
  OBVIOUS
<1>2. \A p \in Requests : task[p] = Idle
  BY <1>1 DEF Init
<1>3. TypeOK
  BY <1>1, <1>2 DEF Init, TypeOK, Idle
<1>4. Shaped /\ StoreGenuine
  BY <1>1 DEF Init, Shaped, StoreGenuine
<1>5. \A p \in Requests : Backed(p)
  BY <1>2 DEF Backed, Idle
<1>6. QED
  BY <1>3, <1>4, <1>5 DEF Evidence

\* What a step leaves of the others' evidence: their tasks, and rows that are
\* still rows.
LEMMA OthersBacked ==
    ASSUME NEW p, NEW q \in Requests, Backed(q), task'[q] = task[q],
           UNCHANGED <<policy, backend>>, TypeOK,
           \A c \in Contents : rows[c] \in Row => rows'[c] \in Row
    PROVE  Backed(q)'
<1>1. task[q].pc = "boxed" => task[q].job.content \in Contents
  BY InspectionAssumption DEF TypeOK, Job
<1>2. QED
  BY <1>1 DEF Backed, ShouldSandbox

\* The end of an assessment keeps all of it.
LEMMA ConcludeEvidence ==
    ASSUME Evidence, NEW p \in Requests, NEW job \in Jobs, NEW scan, NEW box,
           NEW table \in [Contents -> Row \cup {None}], table[job.content] \in Row,
           \A c \in Contents : rows[c] \in Row => table[c] \in Row,
           NEW store, store \in [Contents -> Scans \cup {None}],
           Genuine(scan, job.content), job.force => scan = FreshScan(job),
           box = Unboxed \/ \E b \in Backends : box \in Reports(b, scan.modules),
           ShouldSandbox(job) /\ backend = "docker" => box \in Reports("docker", scan.modules),
           Conclude(p, job, scan, box, table, store),
           UNCHANGED <<policy, backend>>,
           scans' = store, \A c \in Contents : store[c] # None => Genuine(store[c], c)
    PROVE  Evidence'
<1>1. scan \in Scans /\ job \in Job /\ job.content \in Contents /\ policy \in Engine!Config
  BY GenuineTyped, InspectionAssumption, PoliciesAssumption DEF Job, Evidence, TypeOK
<1>2. PICK earlier \in Scans \cup {None} :
         LET known == FactsOf(job, scan, box, earlier)
             decision == Engine!Evaluate(policy, known)
         IN  /\ task' = [task EXCEPT ![p] =
                   [pc |-> "done", job |-> job, scan |-> scan, box |-> box, facts |-> known,
                    decision |-> decision]]
             /\ rows' = CASE decision = "allow" -> Upsert(table, job, "allowed")
                          [] decision = "review" -> SetStatus(table, job.content, "review")
                          [] decision = "deny" -> SetStatus(table, job.content, "denied")
  <2>1. Previous(job, table) \subseteq Contents
    BY DEF Previous, Earlier
  <2>2. PreviousScans(job, table, store) \subseteq Scans \cup {None}
    BY <2>1 DEF PreviousScans
  <2>3. QED
    BY <2>2 DEF Conclude
<1>. DEFINE known == FactsOf(job, scan, box, earlier)
            decision == Engine!Evaluate(policy, known)
            new == [pc |-> "done", job |-> job, scan |-> scan, box |-> box, facts |-> known,
                    decision |-> decision]
<1>3. decision \in {"allow", "review", "deny"}
  BY <1>1, EvaluateTyped
<1>4. known \in Engine!Facts
  BY <1>1, BoxTyped, FactsTyped
<1>5. rows' \in [Contents -> Row \cup {None}] /\ \A c \in Contents : rows[c] \in Row => rows'[c] \in Row
  <2>1. {"allowed", "review", "denied"} \subseteq Statuses
    BY DEF Statuses
  <2>. HIDE DEF decision
  <2>2. CASE decision = "allow"
    BY <1>1, <1>2, <2>1, <2>2, UpsertTyped DEF decision
  <2>3. CASE decision = "review"
    BY <1>1, <1>2, <2>1, <2>3, SetStatusTyped DEF decision
  <2>4. CASE decision = "deny"
    BY <1>1, <1>2, <2>1, <2>4, SetStatusTyped DEF decision
  <2>5. QED
    BY <1>3, <2>2, <2>3, <2>4
<1>6. /\ Shaped' /\ task'[p] = new
      /\ \A q \in Requests \ {p} : task'[q] = task[q]
  <2>1. task' = [task EXCEPT ![p] = new]
    BY <1>2
  <2>. HIDE DEF new
  <2>2. QED
    BY <2>1 DEF Evidence, Shaped
<1>7. TypeOK'
  <2>1. task'[p].pc = "done" /\ task'[p].job = job /\ task'[p].scan = scan
        /\ task'[p].facts = known /\ task'[p].decision = decision
    BY <1>6
  <2>. HIDE DEF known, decision
  <2>2. QED
    BY <1>1, <1>3, <1>4, <1>5, <1>6, <2>1 DEF Evidence, TypeOK
<1>8. Backed(p)'
  <2>1. ShouldSandbox(job)' <=> ShouldSandbox(job)
    BY DEF ShouldSandbox
  <2>2. /\ task'[p].pc = "done" /\ task'[p].job = job /\ task'[p].scan = scan
        /\ task'[p].box = box /\ task'[p].facts = known /\ task'[p].decision = decision
    BY <1>6
  <2>3. QED
    BY <2>1, <2>2, <1>2 DEF Backed
<1>9. \A q \in Requests \ {p} : Backed(q)'
  BY <1>5, <1>6, OthersBacked DEF Evidence
<1>10. StoreGenuine'
  BY DEF StoreGenuine
<1>11. QED
  BY <1>6, <1>7, <1>8, <1>9, <1>10 DEF Evidence

LEMMA InspectEvidence ==
    ASSUME Evidence, NEW p \in Requests, NEW job \in Jobs, Inspect(p, job)
    PROVE  Evidence'
<1>. DEFINE table == Upsert(rows, job, "quarantined")
            scan == UsedScan(job)
            store == [scans EXCEPT ![job.content] = scan]
            raises == ScanRaises(job)
<1>1. job \in Job /\ job.content \in Contents /\ scans \in [Contents -> Scans \cup {None}]
  BY InspectionAssumption DEF Job, Evidence, TypeOK
<1>2. /\ table \in [Contents -> Row \cup {None}] /\ table[job.content] \in Row
      /\ \A c \in Contents : rows[c] \in Row => table[c] \in Row
  BY UpsertTyped DEF Evidence, TypeOK, Statuses
<1>3. Genuine(scan, job.content) /\ (job.force => scan = FreshScan(job))
  <2>1. Genuine(FreshScan(job), job.content)
    BY DEF Genuine
  <2>2. QED
    BY <1>1, <2>1 DEF UsedScan, Evidence, StoreGenuine
<1>4. scan \in Scans
  BY <1>3, GenuineTyped
<1>5. /\ store \in [Contents -> Scans \cup {None}]
      /\ \A c \in Contents : store[c] # None => Genuine(store[c], c)
  <2>. HIDE DEF scan
  <2>1. QED
    BY <1>1, <1>3, <1>4 DEF Evidence, StoreGenuine
<1>6. UNCHANGED <<policy, backend>> /\ task[p] = Idle /\ backend \in Backends
  BY DEF Inspect, Evidence, Backed, TypeOK
<1>7. CASE raises
  <2>1. /\ task' = [task EXCEPT ![p] = [Idle EXCEPT !.pc = "failed", !.job = job]]
        /\ rows' = table /\ UNCHANGED scans
    BY <1>7 DEF Inspect
  <2>2. /\ Shaped' /\ task'[p].pc = "failed" /\ task'[p].job = job
        /\ \A q \in Requests \ {p} : task'[q] = task[q]
    BY <2>1 DEF Evidence, Shaped, Idle
  <2>3. TypeOK'
    <3>. HIDE DEF table
    <3>1. QED
      BY <1>2, <1>6, <2>1, <2>2 DEF Evidence, TypeOK
  <2>4. Backed(p)'
    BY <2>2 DEF Backed
  <2>5. \A q \in Requests \ {p} : Backed(q)'
    BY <1>2, <1>6, <2>1, <2>2, OthersBacked DEF Evidence
  <2>6. StoreGenuine'
    BY <2>1 DEF Evidence, StoreGenuine
  <2>7. QED
    BY <2>2, <2>3, <2>4, <2>5, <2>6 DEF Evidence
<1>8. CASE ~raises /\ ~ShouldSandbox(job)
  <2>1. scans' = store /\ Conclude(p, job, scan, Unboxed, table, store)
    BY <1>8 DEF Inspect
  <2>. HIDE DEF scan, table, store
  <2>2. QED
    BY <1>2, <1>3, <1>5, <1>6, <1>8, <2>1, ConcludeEvidence
<1>9. CASE ~raises /\ ShouldSandbox(job) /\ backend # "docker"
  <2>1. PICK box \in Reports(backend, scan.modules) :
           scans' = store /\ Conclude(p, job, scan, box, table, store)
    BY <1>9 DEF Inspect
  <2>. HIDE DEF scan, table, store
  <2>2. QED
    BY <1>2, <1>3, <1>5, <1>6, <1>9, <2>1, ConcludeEvidence
<1>10. CASE ~raises /\ ShouldSandbox(job) /\ backend = "docker"
  <2>. DEFINE new == [Idle EXCEPT !.pc = "boxed", !.job = job, !.scan = scan]
  <2>1. scans' = store /\ rows' = table /\ task' = [task EXCEPT ![p] = new]
    BY <1>10 DEF Inspect
  <2>2. new.pc = "boxed" /\ new.job = job /\ new.scan = scan
    BY DEF Idle
  <2>. HIDE DEF new
  <2>3. Shaped' /\ task'[p] = new /\ \A q \in Requests \ {p} : task'[q] = task[q]
    BY <2>1 DEF Evidence, Shaped
  <2>4. TypeOK'
    <3>. HIDE DEF scan, table, store
    <3>1. QED
      BY <1>2, <1>4, <1>5, <1>6, <2>1, <2>2, <2>3 DEF Evidence, TypeOK
  <2>5. Backed(p)'
    <3>. HIDE DEF scan, table, store
    <3>1. QED
      BY <1>2, <1>3, <1>6, <1>10, <2>1, <2>2, <2>3 DEF Backed
  <2>6. \A q \in Requests \ {p} : Backed(q)'
    BY <1>2, <1>6, <2>1, <2>3, OthersBacked DEF Evidence
  <2>7. StoreGenuine'
    <3>. HIDE DEF store
    <3>1. QED
      BY <1>5, <2>1 DEF StoreGenuine
  <2>8. QED
    BY <2>3, <2>4, <2>5, <2>6, <2>7 DEF Evidence
<1>11. QED
  BY <1>7, <1>8, <1>9, <1>10

LEMMA ResumeEvidence ==
    ASSUME Evidence, NEW p \in Requests, Resume(p)
    PROVE  Evidence'
<1>1. /\ task[p].job \in Jobs /\ task[p].scan \in Scans /\ backend = "docker"
      /\ rows[task[p].job.content] \in Row
      /\ Genuine(task[p].scan, task[p].job.content)
      /\ task[p].job.force => task[p].scan = FreshScan(task[p].job)
  BY DEF Resume, Evidence, TypeOK, Backed
<1>2. PICK box \in Reports(backend, task[p].scan.modules) :
         Conclude(p, task[p].job, task[p].scan, box, rows, scans)
  BY DEF Resume
<1>3. UNCHANGED <<policy, backend, scans>> /\ backend \in Backends
  BY DEF Resume, Evidence, TypeOK
<1>4. /\ rows \in [Contents -> Row \cup {None}] /\ scans \in [Contents -> Scans \cup {None}]
      /\ \A c \in Contents : scans[c] # None => Genuine(scans[c], c)
  BY DEF Evidence, TypeOK, StoreGenuine
<1>5. QED
  BY <1>1, <1>2, <1>3, <1>4, ConcludeEvidence

LEMMA StepEvidence == Evidence /\ [Next]_vars => Evidence'
<1>1. SUFFICES ASSUME Evidence, [Next]_vars PROVE Evidence'
  OBVIOUS
<1>2. CASE \E p \in Requests : Resume(p)
  BY <1>1, <1>2, ResumeEvidence
<1>3. CASE \E p \in Requests, job \in Jobs : Inspect(p, job)
  BY <1>1, <1>3, InspectEvidence
<1>4. CASE UNCHANGED vars
  <2>1. TypeOK' /\ Shaped' /\ StoreGenuine'
    BY <1>1, <1>4 DEF Evidence, TypeOK, Shaped, StoreGenuine, vars
  <2>2. \A q \in Requests : Backed(q)'
    BY <1>1, <1>4, OthersBacked DEF Evidence, vars
  <2>3. QED
    BY <2>1, <2>2 DEF Evidence
<1>5. QED
  BY <1>1, <1>2, <1>3, <1>4 DEF Next

LEMMA AlwaysEvidence == Spec => []Evidence
  BY InitEvidence, StepEvidence, PTL DEF Spec

-----------------------------------------------------------------------------
(* What follows from it.                                                   *)

\* Every fact the engine is asked about, and every table, has its type.
THEOREM TypeCorrect == Spec => []TypeOK
<1>1. Evidence => TypeOK
  BY DEF Evidence
<1>2. QED
  BY <1>1, AlwaysEvidence, PTL

\* What a finished request was decided from.
LEMMA Decision ==
    ASSUME Evidence, NEW p \in Requests, Done(p)
    PROVE  /\ task[p].job \in Jobs /\ task[p].scan \in Scans /\ policy \in Engine!Config
           /\ Genuine(task[p].scan, task[p].job.content)
           /\ task[p].job.force => task[p].scan = FreshScan(task[p].job)
           /\ task[p].facts \in Engine!Facts
           /\ task[p].facts.severity = task[p].scan.severity
           /\ task[p].facts.caps = task[p].scan.caps
           /\ task[p].facts.mutable = (task[p].job.mutable \/ task[p].scan.mutable)
           /\ task[p].facts.sandbox = task[p].box.state
           /\ task[p].facts.events = task[p].box.events
           /\ task[p].decision = Engine!Evaluate(policy, task[p].facts)
           /\ ShouldSandbox(task[p].job) /\ backend = "docker" =>
                 task[p].box \in Reports("docker", task[p].scan.modules)
<1>1. policy \in Engine!Config
  BY PoliciesAssumption DEF Evidence, TypeOK
<1>2. Backed(p) /\ task[p].pc = "done"
  BY DEF Evidence, Done
<1>3. PICK earlier \in Scans \cup {None} :
         task[p].facts = FactsOf(task[p].job, task[p].scan, task[p].box, earlier)
  BY <1>2 DEF Backed
<1>4. /\ task[p].facts.severity = task[p].scan.severity
      /\ task[p].facts.caps = task[p].scan.caps
      /\ task[p].facts.mutable = (task[p].job.mutable \/ task[p].scan.mutable)
      /\ task[p].facts.sandbox = task[p].box.state
      /\ task[p].facts.events = task[p].box.events
  BY <1>3 DEF FactsOf
<1>5. task[p].job \in Jobs /\ task[p].scan \in Scans /\ task[p].facts \in Engine!Facts
  BY <1>2 DEF Evidence, TypeOK
<1>6. QED
  BY <1>1, <1>2, <1>4, <1>5 DEF Backed

\* No enforcing policy admits an artefact on a sandbox run of which the output
\* was kept whole, or of which some was lost: the harness's own installation
\* counts against it.
THEOREM SandboxDecides == Spec => []SandboxNeverClears
<1>1. Evidence => SandboxNeverClears
  <2>1. SUFFICES ASSUME Evidence, NEW p \in Requests, Done(p), policy.mode = "enforce",
                        ShouldSandbox(task[p].job), backend = "docker"
                 PROVE  /\ task[p].box.kept = "all" => Decided(p, "deny")
                        /\ task[p].box.kept = "lost" => ~Decided(p, "allow")
    BY DEF SandboxNeverClears
  <2>. DEFINE box == task[p].box
              x == task[p].facts
  <2>2. /\ box \in Reports("docker", task[p].scan.modules)
        /\ task[p].scan.modules \in Seq(SUBSET Events)
        /\ x.sandbox = box.state /\ x.events = box.events
        /\ task[p].decision = Engine!Evaluate(policy, x)
    BY <2>1, Decision, InspectionAssumption DEF Scans
  <2>3. /\ box.state \in {"failed", "executed"}
        /\ box.kept = "all" => "hostile" \in box.events
        /\ box.kept = "lost" => box.events # {}
    BY <2>2, ReportsRead
  <2>. HIDE DEF box, x
  <2>4. "hostile" \in x.events => Engine!Denies(policy, x)
    BY <2>2, <2>3 DEF Engine!Denies, Engine!Sandboxed
  <2>5. x.events # {} => Engine!Denies(policy, x) \/ Engine!Reviews(policy, x)
    BY <2>2, <2>3, <2>4 DEF Engine!Reviews, Engine!Sandboxed
  <2>6. QED
    BY <2>1, <2>2, <2>3, <2>4, <2>5 DEF Engine!Evaluate, Decided, box, x
<1>2. QED
  BY <1>1, AlwaysEvidence, PTL

\* A scan of the package under its own name and ecosystem finds the scripts.
LEMMA LifecycleFound ==
    ASSUME NEW content, Opens(content, "tgz"), NEW m \in content.members,
           m.kind = "package", "lifecycle" \in m.has,
           m.has \cap {"malformed", "unreadable"} = {}, NEW mutable
    PROVE  "lifecycle_scripts" \in Scan(content, "tgz", "npm", mutable).caps
<1>. DEFINE rules == Findings(content, "tgz", "npm")
<1>1. "lifecycle_script" \in MemberFindings(m, "npm")
  BY DEF MemberFindings, PackageFindings, When
<1>2. rules = ArchiveFindings(content, "tgz", "npm")
  BY DEF Findings, Archives
<1>3. "lifecycle_script" \in rules
  BY <1>1, <1>2 DEF ArchiveFindings
<1>4. "lifecycle_script" \in DOMAIN CapabilityOf /\ CapabilityOf["lifecycle_script"] = "lifecycle_scripts"
  BY DEF CapabilityOf
<1>5. Scan(content, "tgz", "npm", mutable).caps = {CapabilityOf[r] : r \in rules \cap DOMAIN CapabilityOf}
  BY DEF Scan
<1>. HIDE DEF rules
<1>6. QED
  BY <1>3, <1>4, <1>5

\* Readable lifecycle scripts are admitted only on a scan that was made for
\* something else.
THEOREM LifecycleScriptsFound == Spec => []LifecycleScriptsSeen
<1>1. Evidence => LifecycleScriptsSeen
  <2>1. SUFFICES ASSUME Evidence, NEW p \in Requests, Decided(p, "allow"), policy.mode = "enforce",
                        "lifecycle_scripts" \notin policy.allow,
                        task[p].job.ecosystem = "npm", task[p].job.form = "tgz",
                        Opens(task[p].job.content, "tgz"),
                        NEW m \in task[p].job.content.members,
                        m.kind = "package", "lifecycle" \in m.has,
                        m.has \cap {"malformed", "unreadable"} = {}
                 PROVE  ~task[p].job.force /\ (task[p].scan.ecosystem # "npm" \/ task[p].scan.form # "tgz")
    BY DEF LifecycleScriptsSeen
  <2>. DEFINE job == task[p].job
              scan == task[p].scan
              x == task[p].facts
  <2>2. /\ job \in Jobs /\ Genuine(scan, job.content)
        /\ job.force => scan = FreshScan(job)
        /\ x.caps = scan.caps
        /\ task[p].decision = "allow" /\ task[p].decision = Engine!Evaluate(policy, x)
    BY <2>1, Decision DEF Decided
  <2>3. "lifecycle_scripts" \notin scan.caps
    <3>1. SUFFICES ASSUME "lifecycle_scripts" \in x.caps PROVE FALSE
      BY <2>2
    <3>2. Engine!Reviews(policy, x)
      BY <2>1, <3>1 DEF Engine!Reviews, Engine!Unlisted, Engine!Questioned
    <3>3. Engine!Evaluate(policy, x) # "allow"
      BY <2>1, <3>2 DEF Engine!Evaluate
    <3>4. QED
      BY <2>2, <3>3
  <2>. HIDE DEF job, scan, x
  <2>4. ASSUME NEW j \in Jobs, j.content = job.content, scan = FreshScan(j),
               scan.ecosystem = "npm", scan.form = "tgz"
        PROVE  FALSE
    <3>1. PICK e, mutable : scan = Scan(job.content, j.form, e, mutable)
      BY <2>4 DEF FreshScan
    <3>2. e = "npm" /\ j.form = "tgz"
      BY <2>4, <3>1 DEF Scan
    <3>3. "lifecycle_scripts" \in scan.caps
      BY <2>1, <3>1, <3>2, LifecycleFound DEF job
    <3>4. QED
      BY <2>3, <3>3
  <2>5. ~(scan.ecosystem = "npm" /\ scan.form = "tgz")
    BY <2>2, <2>4 DEF Genuine
  <2>6. ~job.force
    <3>1. SUFFICES ASSUME job.force PROVE FALSE
      OBVIOUS
    <3>2. job.route # "legacy"
      BY <2>1, <2>2, InspectionAssumption DEF job
    <3>3. scan = Scan(job.content, job.form, job.ecosystem, job.mutable)
      BY <2>2, <3>1, <3>2 DEF FreshScan
    <3>4. scan.ecosystem = "npm" /\ scan.form = "tgz"
      BY <2>1, <3>3 DEF Scan, job
    <3>5. QED
      BY <2>5, <3>4
  <2>7. QED
    BY <2>5, <2>6 DEF job, scan
<1>2. QED
  BY <1>1, AlwaysEvidence, PTL

\* Registries' archives and generic ones are read alike.
LEMMA AlikeFindings ==
    ASSUME NEW content, NEW form, NEW first \in {"pypi", "generic"}, NEW second \in {"pypi", "generic"}
    PROVE  Findings(content, form, first) = Findings(content, form, second)
<1>1. ASSUME NEW m PROVE MemberFindings(m, first) = MemberFindings(m, second)
  BY DEF MemberFindings
<1>2. ArchiveFindings(content, form, first) = ArchiveFindings(content, form, second)
  BY <1>1 DEF ArchiveFindings
<1>3. QED
  BY <1>2 DEF Findings

\* More is held against an image that was asked for by tag.
LEMMA MutableWeighs ==
    ASSUME NEW c \in Engine!Config, NEW x \in Engine!Facts, NEW y \in Engine!Facts,
           \E mutable \in BOOLEAN : y = [x EXCEPT !.mutable = mutable], y.mutable => x.mutable
    PROVE  Engine!Rank(Engine!Evaluate(c, x)) >= Engine!Rank(Engine!Evaluate(c, y))
<1>1. Engine!Denies(c, y) => Engine!Denies(c, x)
  BY DEF Engine!Denies, Engine!Unlisted, Engine!Introduced, Engine!Sandboxed, Engine!TooYoung, Engine!Facts
<1>2. Engine!Reviews(c, y) => Engine!Reviews(c, x) \/ Engine!Denies(c, x)
  BY DEF Engine!Reviews, Engine!Unlisted, Engine!Introduced, Engine!Sandboxed, Engine!TooYoung, Engine!Facts
<1>3. c.mode \in {"observe", "warn", "enforce"}
  BY DEF Engine!Config, Engine!Modes
<1>4. QED
  BY <1>1, <1>2, <1>3 DEF Engine!Evaluate, Engine!Rank

\* A stored scan decides like one of the request's own, or more severely.
THEOREM ReuseDecidesAlike == Spec => []ReuseIsFaithful
<1>1. Evidence => ReuseIsFaithful
  <2>1. SUFFICES ASSUME Evidence, NEW p \in Requests, Done(p),
                        ReadAlike(task[p].scan, FreshScan(task[p].job))
                 PROVE  /\ Engine!Rank(task[p].decision)
                               >= Engine!Rank(Engine!Evaluate(policy, OwnFacts(p)))
                        /\ task[p].scan.mutable = FreshScan(task[p].job).mutable =>
                              Engine!Rank(task[p].decision)
                                  = Engine!Rank(Engine!Evaluate(policy, OwnFacts(p)))
    BY DEF ReuseIsFaithful
  <2>. DEFINE job == task[p].job
              scan == task[p].scan
              own == FreshScan(job)
              x == task[p].facts
              y == OwnFacts(p)
  <2>2. /\ job \in Jobs /\ Genuine(scan, job.content) /\ policy \in Engine!Config
        /\ x \in Engine!Facts /\ task[p].decision = Engine!Evaluate(policy, x)
        /\ x.severity = scan.severity /\ x.caps = scan.caps
        /\ x.mutable = (job.mutable \/ scan.mutable)
    BY <2>1, Decision
  <2>3. job.mutable \in BOOLEAN /\ scan \in Scans /\ own \in Scans
    BY <2>1, <2>2, Decision, FreshScanTyped, InspectionAssumption DEF Job
  <2>4. scan.severity = own.severity /\ scan.caps = own.caps
    <3>. HIDE DEF scan, job, x, y
    <3>1. PICK f, e1, m1 : scan = Scan(job.content, f, e1, m1)
      BY <2>2 DEF Genuine, FreshScan
    <3>2. PICK e2, m2 : own = Scan(job.content, job.form, e2, m2)
      BY DEF FreshScan
    <3>3. f = job.form /\ (e1 = e2 \/ (e1 \in {"pypi", "generic"} /\ e2 \in {"pypi", "generic"}))
      <4>1. scan.form = f /\ scan.ecosystem = e1 /\ own.form = job.form /\ own.ecosystem = e2
        BY <3>1, <3>2 DEF Scan
      <4>2. QED
        BY <2>1, <4>1 DEF ReadAlike, scan, job
    <3>4. Findings(job.content, job.form, e1) = Findings(job.content, job.form, e2)
      BY <3>3, AlikeFindings
    <3>5. QED
      BY <3>1, <3>2, <3>3, <3>4 DEF Scan
  <2>5. y = [x EXCEPT !.mutable = job.mutable]
    BY <2>2, <2>4 DEF OwnFacts, Engine!Facts
  <2>6. y \in Engine!Facts /\ y.mutable = job.mutable
    BY <2>2, <2>3, <2>5 DEF Engine!Facts
  <2>7. scan.mutable = own.mutable => y = x
    <3>1. own.mutable => job.mutable
      BY <2>3 DEF FreshScan, Scan
    <3>2. QED
      BY <2>2, <2>3, <2>5, <3>1 DEF Engine!Facts, Scans
  <2>8. Engine!Rank(Engine!Evaluate(policy, x)) >= Engine!Rank(Engine!Evaluate(policy, y))
    BY <2>2, <2>3, <2>5, <2>6, MutableWeighs
  <2>9. QED
    BY <2>2, <2>7, <2>8
<1>2. QED
  BY <1>1, AlwaysEvidence, PTL

-----------------------------------------------------------------------------
(* The two routes.                                                         *)

\* What either route uses of the bytes, when it is read alike, differs in nothing
\* that is decided from, and the scanner fails for both or for neither.
LEMMA TwinScans ==
    ASSUME NEW job \in Jobs, NEW other, job.route = "legacy",
           other = [job EXCEPT !.route = "universal"],
           ReadAlike(UsedScan(job), UsedScan(other))
    PROVE  LET scan == UsedScan(job)
               twin == UsedScan(other)
           IN  /\ scan.severity = twin.severity /\ scan.caps = twin.caps
               /\ scan.requires = twin.requires /\ scan.modules = twin.modules
               /\ scan.mutable = twin.mutable
               /\ ScanRaises(job) <=> ScanRaises(other)
<1>1. job \in Job /\ job.ecosystem = "pypi" /\ job.mutable = FALSE
  BY InspectionAssumption DEF Job
<1>2. /\ other.content = job.content /\ other.form = job.form /\ other.force = job.force
      /\ other.route = "universal" /\ other.ecosystem = "pypi" /\ other.mutable = FALSE
  BY <1>1 DEF Job
<1>3. CASE ~job.force /\ scans[job.content] # None
  BY <1>2, <1>3 DEF UsedScan, ScanRaises
<1>4. CASE job.force \/ scans[job.content] = None
  <2>. DEFINE guessed == Guess(job.form)
  <2>1. /\ UsedScan(job) = Scan(job.content, job.form, guessed, FALSE)
        /\ UsedScan(other) = Scan(job.content, job.form, "pypi", FALSE)
        /\ FreshScan(job) = UsedScan(job) /\ FreshScan(other) = UsedScan(other)
    <3>1. /\ FreshScan(job) = Scan(job.content, job.form, guessed, FALSE)
          /\ FreshScan(other) = Scan(job.content, job.form, "pypi", FALSE)
      BY <1>2 DEF FreshScan
    <3>2. UsedScan(job) = FreshScan(job)
      BY <1>4 DEF UsedScan
    <3>3. UsedScan(other) = FreshScan(other)
      <4>1. ~(~other.force /\ scans[other.content] # None)
        BY <1>2, <1>4
      <4>2. QED
        BY <4>1 DEF UsedScan
    <3>4. QED
      BY <3>1, <3>2, <3>3
  <2>2. FreshScan(job).ecosystem = guessed /\ FreshScan(other).ecosystem = "pypi"
    BY <2>1 DEF Scan
  <2>3. guessed \in {"pypi", "generic"}
    BY <2>1, <2>2 DEF ReadAlike
  <2>. HIDE DEF guessed
  <2>4. Findings(job.content, job.form, guessed) = Findings(job.content, job.form, "pypi")
    BY <2>3, AlikeFindings
  <2>5. Raises(job.content, job.form, guessed) <=> Raises(job.content, job.form, "pypi")
    BY <2>3 DEF Raises
  <2>6. ScanRaises(job) <=> ScanRaises(other)
    BY <1>2, <2>2, <2>5 DEF ScanRaises
  <2>7. ASSUME NEW first, NEW second, first = Scan(job.content, job.form, guessed, FALSE),
               second = Scan(job.content, job.form, "pypi", FALSE)
        PROVE  /\ first.severity = second.severity /\ first.caps = second.caps
               /\ first.requires = second.requires /\ first.modules = second.modules
               /\ first.mutable = second.mutable
    BY <2>3, <2>4, <2>7 DEF Scan
  <2>8. QED
    BY <2>1, <2>6, <2>7
<1>5. QED
  BY <1>3, <1>4

\* Both searches find the same, where no other ecosystem has a project of that name.
LEMMA TwinPrevious ==
    ASSUME rows \in [Contents -> Row \cup {None}], NEW job \in Jobs, NEW other,
           job.route = "legacy", other = [job EXCEPT !.route = "universal"],
           NEW table, table = Upsert(rows, job, "quarantined"),
           NEW twin, twin = Upsert(rows, other, "quarantined"),
           \A c \in Earlier(job, table) : table[c].ecosystem = "pypi"
    PROVE  Previous(job, table) = Previous(other, twin) /\ job.content \notin Previous(job, table)
<1>1. job \in Job /\ job.content \in Contents /\ job.ecosystem = "pypi"
  BY InspectionAssumption DEF Job
<1>2. /\ other.content = job.content /\ other.project = job.project /\ other.version = job.version
      /\ other.route = "universal" /\ other.ecosystem = "pypi"
  BY <1>1 DEF Job
<1>3. \A c \in Contents \ {job.content} : table[c] = rows[c] /\ twin[c] = rows[c]
  BY <1>1, <1>2 DEF Upsert
<1>4. table[job.content].status = "quarantined" /\ twin[job.content].status = "quarantined"
  BY <1>1, <1>2 DEF Upsert
<1>5. job.content \notin Earlier(job, table) /\ job.content \notin Earlier(other, twin)
  BY <1>4 DEF Earlier
<1>6. Earlier(job, table) = Earlier(other, twin)
  <2>1. ASSUME NEW c \in Contents \ {job.content}
        PROVE  c \in Earlier(job, table) <=> c \in Earlier(other, twin)
    BY <1>2, <1>3, <2>1 DEF Earlier
  <2>2. Earlier(job, table) \subseteq Contents /\ Earlier(other, twin) \subseteq Contents
    BY DEF Earlier
  <2>3. \A c : c \in Earlier(job, table) <=> c \in Earlier(other, twin)
    <3>1. \A c \in Contents : c \in Earlier(job, table) <=> c \in Earlier(other, twin)
      BY <1>5, <2>1, Zenon
    <3>2. QED
      BY <2>2, <3>1, Zenon
  <2>4. Earlier(job, table) \subseteq Earlier(other, twin) /\ Earlier(other, twin) \subseteq Earlier(job, table)
    BY <2>3, Zenon
  <2>5. QED
    BY <2>4, Zenon
<1>7. \A c \in Earlier(job, table) : table[c] = twin[c]
  BY <1>3, <1>5 DEF Earlier
<1>8. QED
  BY <1>5, <1>6, <1>7 DEF Previous

\* Whatever has been assessed before, and is being assessed, both routes may give a
\* file the same decisions, but for what RoutesAgree excepts.
THEOREM BothRoutesAgree == Spec => []RoutesAgree
<1>1. Evidence => RoutesAgree
  <2>1. SUFFICES ASSUME Evidence, NEW job \in Jobs, job.route = "legacy", ~job.yanked,
                        ReadAlike(UsedScan(job), UsedScan([job EXCEPT !.route = "universal"])),
                        \A c \in Earlier(job, Upsert(rows, job, "quarantined")) :
                            Upsert(rows, job, "quarantined")[c].ecosystem = "pypi"
                 PROVE  Answers(job) = Answers([job EXCEPT !.route = "universal"])
    BY DEF RoutesAgree
  <2>. DEFINE other == [job EXCEPT !.route = "universal"]
              table == Upsert(rows, job, "quarantined")
              twin == Upsert(rows, other, "quarantined")
              scan == UsedScan(job)
              same == UsedScan(other)
              store == [scans EXCEPT ![job.content] = scan]
              alike == [scans EXCEPT ![job.content] = same]
              boxes(j, s) == IF ShouldSandbox(j) THEN Reports(backend, s.modules) ELSE {Unboxed}
  <2>2. /\ job \in Job /\ job.content \in Contents /\ job.ecosystem = "pypi" /\ job.yanked = FALSE
        /\ rows \in [Contents -> Row \cup {None}] /\ scans \in [Contents -> Scans \cup {None}]
    BY <2>1, InspectionAssumption DEF Job, Evidence, TypeOK
  <2>3. /\ other.content = job.content /\ other.env = job.env /\ other.ecosystem = job.ecosystem
        /\ other.age = job.age /\ other.mutable = job.mutable /\ other.declared = job.declared
        /\ other.sandbox = job.sandbox /\ other.route = "universal"
    BY <2>2 DEF Job
  <2>4. /\ scan.severity = same.severity /\ scan.caps = same.caps
        /\ scan.requires = same.requires /\ scan.modules = same.modules
        /\ scan.mutable = same.mutable
        /\ ScanRaises(job) <=> ScanRaises(other)
    BY <2>1, TwinScans
  <2>5. Previous(job, table) = Previous(other, twin) /\ job.content \notin Previous(job, table)
    BY <2>1, <2>2, TwinPrevious
  <2>6. Previous(job, table) \subseteq Contents
    BY DEF Previous, Earlier
  <2>. HIDE DEF other, table, twin, scan, same
  <2>7. PreviousScans(job, table, store) = PreviousScans(other, twin, alike)
    <3>1. \A c \in Previous(job, table) : store[c] = alike[c]
      BY <2>2, <2>5, <2>6
    <3>. HIDE DEF store, alike
    <3>2. QED
      BY <2>5, <3>1 DEF PreviousScans
  <2>8. boxes(job, scan) = boxes(other, same)
    BY <2>1, <2>2, <2>3, <2>4 DEF ShouldSandbox
  <2>9. \A box, earlier : FactsOf(job, scan, box, earlier) = FactsOf(other, same, box, earlier)
    BY <2>1, <2>2, <2>3, <2>4 DEF FactsOf
  <2>. HIDE DEF boxes, store, alike
  <2>10. /\ Answers(job) = IF ScanRaises(job) THEN {}
               ELSE {Engine!Evaluate(policy, FactsOf(job, scan, box, earlier)) :
                     box \in boxes(job, scan), earlier \in PreviousScans(job, table, store)}
         /\ Answers(other) = IF ScanRaises(other) THEN {}
               ELSE {Engine!Evaluate(policy, FactsOf(other, same, box, earlier)) :
                     box \in boxes(other, same), earlier \in PreviousScans(other, twin, alike)}
    BY <2>3 DEF Answers, boxes, store, alike, scan, same, table, twin
  <2>11. Answers(job) = Answers(other)
    <3>1. CASE ScanRaises(job)
      BY <2>4, <2>10, <3>1
    <3>2. CASE ~ScanRaises(job)
      <4>. DEFINE decided(j, s, B, E) ==
                    {Engine!Evaluate(policy, FactsOf(j, s, box, earlier)) : box \in B, earlier \in E}
      <4>1. \A B, E : decided(job, scan, B, E) = decided(other, same, B, E)
        BY <2>9
      <4>2. /\ Answers(job) = decided(job, scan, boxes(job, scan), PreviousScans(job, table, store))
            /\ Answers(other) = decided(other, same, boxes(other, same), PreviousScans(other, twin, alike))
        BY <2>4, <2>10, <3>2
      <4>. HIDE DEF decided
      <4>3. QED
        BY <2>7, <2>8, <4>1, <4>2
    <3>3. QED
      BY <3>1, <3>2
  <2>12. QED
    BY <2>11 DEF other
<1>2. QED
  BY <1>1, AlwaysEvidence, PTL

-----------------------------------------------------------------------------
(* The comparison with an approved version.                                *)

\* A set of natural numbers has a least one.
LEMMA Least ==
    ASSUME NEW S \in SUBSET Nat, S # {}
    PROVE  \E m \in S : \A n \in S : m <= n
<1>. DEFINE Below == OpToRel(<, Nat)
<1>1. IsWellFoundedOn(Below, Nat)
  BY NatLessThanWellFounded
<1>2. \A m, n \in Nat : m < n => <<m, n>> \in Below
  BY DEF OpToRel
<1>. HIDE DEF Below
<1>3. PICK m \in S : \A n \in S : ~(<<n, m>> \in Below)
  BY <1>1, WFMin
<1>4. ASSUME NEW n \in S PROVE m <= n
  <2>1. ~(n < m)
    BY <1>2, <1>3
  <2>2. QED
    BY <2>1
<1>5. QED
  BY <1>4

\* However many earlier versions are allowed, one of them is the latest.
LEMMA LatestExists ==
    ASSUME NEW table \in [Contents -> Row \cup {None}], NEW job \in Jobs,
           Earlier(job, table) # {}
    PROVE  Previous(job, table) # {}
<1>. DEFINE earlier == Earlier(job, table)
            gaps == {job.version - table[c].version : c \in earlier}
<1>1. \A c \in earlier : table[c].version \in Nat /\ job.version \in Nat
                        /\ table[c].version < job.version
  BY InspectionAssumption DEF Earlier, Row, Job
<1>2. gaps \in SUBSET Nat /\ gaps # {}
  BY <1>1
<1>3. PICK gap \in gaps : \A other \in gaps : gap <= other
  <2>. HIDE DEF gaps
  <2>1. QED
    BY <1>2, Least
<1>4. PICK c \in earlier : gap = job.version - table[c].version
  OBVIOUS
<1>5. ASSUME NEW d \in earlier PROVE table[d].version <= table[c].version
  <2>1. job.version - table[c].version <= job.version - table[d].version
    BY <1>3, <1>4
  <2>2. QED
    BY <1>1, <2>1
<1>6. c \in Previous(job, table)
  BY <1>5 DEF Previous
<1>7. QED
  BY <1>6

\* What a row says of a request, but for its status.
About(row, job) ==
    /\ row # None
    /\ row.ecosystem = job.ecosystem /\ row.project = job.project /\ row.version = job.version

\* What the tables hold about the bytes that only q has begun to assess.
OwnRow(q) ==
    LET job == task[q].job
        row == rows[job.content]
    IN  About(row, job) /\ (Decided(q, "allow") => row.status = "allowed")

Untouched(c) == \A r \in Requests : task[r].pc # "idle" => task[r].job.content # c

\* There is a row for what is being assessed, and a scan for what is allowed.
Recorded ==
    /\ \A c \in Contents :
          /\ Untouched(c) => rows[c] = None
          /\ rows[c] # None /\ rows[c].status = "allowed" => scans[c] # None
    /\ \A q \in Requests : task[q].pc \in {"boxed", "done"} =>
          /\ scans[task[q].job.content] # None
          /\ Alone(q) => OwnRow(q)

\* The end of an assessment, seen from the tables it is given.
LEMMA ConcludeShape ==
    ASSUME Evidence, NEW p \in Requests, NEW job \in Jobs, NEW scan, NEW box,
           NEW table \in [Contents -> Row \cup {None}], table[job.content] \in Row,
           NEW store \in [Contents -> Scans \cup {None}],
           Conclude(p, job, scan, box, table, store)
    PROVE  /\ task'[p].pc = "done" /\ task'[p].job = job
           /\ \A q \in Requests \ {p} : task'[q] = task[q]
           /\ \A c \in Contents \ {job.content} : rows'[c] = table[c]
           /\ About(table[job.content], job) =>
                 /\ About(rows'[job.content], job)
                 /\ task'[p].decision = "allow" => rows'[job.content].status = "allowed"
           /\ /\ \A c \in Contents : table[c] # None /\ table[c].status = "allowed" => store[c] # None
              /\ Earlier(job, table) # {}
              => task'[p].facts.compared
<1>1. job \in Job /\ job.content \in Contents /\ policy \in Engine!Config
  BY InspectionAssumption, PoliciesAssumption DEF Job, Evidence, TypeOK
<1>. DEFINE known(earlier) == FactsOf(job, scan, box, earlier)
            decision(earlier) == Engine!Evaluate(policy, known(earlier))
            new(earlier) == [pc |-> "done", job |-> job, scan |-> scan, box |-> box,
                             facts |-> known(earlier), decision |-> decision(earlier)]
<1>2. PICK earlier \in PreviousScans(job, table, store) :
         /\ task' = [task EXCEPT ![p] = new(earlier)]
         /\ rows' = CASE decision(earlier) = "allow" -> Upsert(table, job, "allowed")
                      [] decision(earlier) = "review" -> SetStatus(table, job.content, "review")
                      [] decision(earlier) = "deny" -> SetStatus(table, job.content, "denied")
  BY DEF Conclude
<1>3. decision(earlier) \in {"allow", "review", "deny"}
  BY <1>1, EvaluateTyped
<1>4. task'[p] = new(earlier) /\ \A q \in Requests \ {p} : task'[q] = task[q]
  <2>. HIDE DEF new
  <2>1. QED
    BY <1>2 DEF Evidence, Shaped
<1>5. /\ task'[p].pc = "done" /\ task'[p].job = job /\ task'[p].facts = known(earlier)
      /\ task'[p].decision = decision(earlier)
  BY <1>4
<1>6. /\ \A c \in Contents \ {job.content} : rows'[c] = table[c]
      /\ About(table[job.content], job) =>
            /\ About(rows'[job.content], job)
            /\ decision(earlier) = "allow" => rows'[job.content].status = "allowed"
  <2>. DEFINE row == table[job.content]
              kept == job.route = "legacy" /\ row # None
              up == [ecosystem |-> IF kept THEN row.ecosystem ELSE job.ecosystem,
                     project |-> job.project, version |-> job.version, status |-> "allowed"]
              set(status) == [row EXCEPT !.status = status]
  <2>1. CASE decision(earlier) = "allow"
    <3>1. rows' = [table EXCEPT ![job.content] = up]
      BY <1>2, <2>1 DEF Upsert
    <3>2. up \in Row
      BY <1>1 DEF Row, Job, Statuses
    <3>3. About(row, job) => About(up, job)
      BY <3>2, NoneAssumption DEF About
    <3>4. up.status = "allowed"
      OBVIOUS
    <3>. HIDE DEF up
    <3>5. QED
      BY <1>1, <3>1, <3>3, <3>4
  <2>2. ASSUME NEW status \in Statuses, rows' = SetStatus(table, job.content, status)
        PROVE  /\ \A c \in Contents \ {job.content} : rows'[c] = table[c]
               /\ About(table[job.content], job) => About(rows'[job.content], job)
    <3>1. rows' = [table EXCEPT ![job.content] = set(status)]
      BY <2>2 DEF SetStatus
    <3>2. set(status) \in Row /\ (About(row, job) => About(set(status), job))
      BY NoneAssumption DEF About, Row
    <3>. HIDE DEF set
    <3>3. QED
      BY <1>1, <3>1, <3>2
  <2>3. CASE decision(earlier) = "review"
    <3>1. rows' = SetStatus(table, job.content, "review")
      BY <1>2, <2>3
    <3>2. QED
      BY <2>2, <2>3, <3>1 DEF Statuses
  <2>4. CASE decision(earlier) = "deny"
    <3>1. rows' = SetStatus(table, job.content, "denied")
      BY <1>2, <2>4
    <3>2. QED
      BY <2>2, <2>4, <3>1 DEF Statuses
  <2>. HIDE DEF decision
  <2>5. QED
    BY <1>3, <2>1, <2>3, <2>4
<1>7. ASSUME \A c \in Contents : table[c] # None /\ table[c].status = "allowed" => store[c] # None,
             Earlier(job, table) # {}
      PROVE  known(earlier).compared
  <2>1. PICK c \in Previous(job, table) : earlier = store[c]
    BY <1>2, <1>7, LatestExists DEF PreviousScans
  <2>2. c \in Contents /\ table[c] # None /\ table[c].status = "allowed"
    BY DEF Previous, Earlier
  <2>3. QED
    BY <1>7, <2>1, <2>2 DEF FactsOf
<1>. HIDE DEF known, decision, new
<1>8. QED
  BY <1>4, <1>5, <1>6, <1>7

-----------------------------------------------------------------------------
(* Its invariant.                                                          *)

\* What a step of p, which assesses job, does to the tables and the requests.
Stepped(p, job) ==
    /\ task[p].pc = "idle" \/ (task[p].pc = "boxed" /\ task[p].job = job)
    /\ task'[p].pc # "idle" /\ task'[p].job = job
    /\ \A q \in Requests \ {p} : task'[q] = task[q]
    /\ \A c \in Contents \ {job.content} : rows'[c] = rows[c]
    /\ \A c \in Contents : scans[c] # None => scans'[c] # None
    /\ task'[p].pc \in {"boxed", "done"} => scans'[job.content] # None
    /\ rows'[job.content].status = "allowed" => scans'[job.content] # None
    /\ /\ task'[p].pc \in {"boxed", "done"}
       /\ task[p].pc = "idle" => rows[job.content] = None
       /\ task[p].pc = "boxed" => About(rows[job.content], job)
       => OwnRow(p)'

\* What a request that ends was compared with.
Compared(p, job) ==
    /\ task'[p].pc = "done"
    /\ \E c \in Contents \ {job.content} :
          /\ rows[c] # None /\ rows[c].status = "allowed"
          /\ rows[c].project = job.project /\ rows[c].ecosystem = job.ecosystem
          /\ rows[c].version # None /\ job.version # None /\ rows[c].version < job.version
    => task'[p].facts.compared

\* The row of a request's own before its scan.
LEMMA UpsertAbout ==
    ASSUME NEW table \in [Contents -> Row \cup {None}], NEW job \in Jobs
    PROVE  LET up == Upsert(table, job, "quarantined")
           IN  /\ \A c \in Contents \ {job.content} : up[c] = table[c]
               /\ up[job.content].status = "quarantined"
               /\ table[job.content] = None => About(up[job.content], job)
<1>1. job.content \in Contents /\ job \in Job
  BY InspectionAssumption DEF Job
<1>. DEFINE row == table[job.content]
            kept == job.route = "legacy" /\ row # None
            new == [ecosystem |-> IF kept THEN row.ecosystem ELSE job.ecosystem,
                    project |-> job.project, version |-> job.version, status |-> "quarantined"]
<1>2. Upsert(table, job, "quarantined") = [table EXCEPT ![job.content] = new]
  BY DEF Upsert
<1>3. new \in Row
  <2>1. (IF kept THEN row.ecosystem ELSE job.ecosystem) \in Ecosystems
    BY <1>1 DEF Row, Job
  <2>2. QED
    BY <1>1, <2>1 DEF Row, Job, Statuses
<1>4. new.status = "quarantined" /\ (row = None => About(new, job))
  BY <1>3, NoneAssumption DEF About
<1>. HIDE DEF new
<1>5. QED
  BY <1>1, <1>2, <1>4

LEMMA ResumeStepped ==
    ASSUME Evidence, Recorded, NEW p \in Requests, Resume(p)
    PROVE  Stepped(p, task[p].job) /\ Compared(p, task[p].job)
<1>. DEFINE job == task[p].job
<1>1. /\ task[p].pc = "boxed" /\ job \in Jobs /\ rows[job.content] \in Row
      /\ rows \in [Contents -> Row \cup {None}] /\ scans \in [Contents -> Scans \cup {None}]
      /\ scans' = scans /\ scans[job.content] # None
      /\ job.content \in Contents
  BY InspectionAssumption DEF Resume, Evidence, TypeOK, Backed, Recorded, Job
<1>2. PICK box \in Reports(backend, task[p].scan.modules) :
         Conclude(p, job, task[p].scan, box, rows, scans)
  BY DEF Resume
<1>. HIDE DEF job
<1>3. /\ task'[p].pc = "done" /\ task'[p].job = job
      /\ \A q \in Requests \ {p} : task'[q] = task[q]
      /\ \A c \in Contents \ {job.content} : rows'[c] = rows[c]
      /\ About(rows[job.content], job) =>
            /\ About(rows'[job.content], job)
            /\ task'[p].decision = "allow" => rows'[job.content].status = "allowed"
      /\ /\ \A c \in Contents : rows[c] # None /\ rows[c].status = "allowed" => scans[c] # None
         /\ Earlier(job, rows) # {}
         => task'[p].facts.compared
  BY <1>1, <1>2, ConcludeShape
<1>4. Stepped(p, job)
  BY <1>1, <1>3 DEF Stepped, OwnRow, Decided, Done, job
<1>5. Compared(p, job)
  BY <1>3 DEF Compared, Earlier, Recorded
<1>6. QED
  BY <1>4, <1>5 DEF job

LEMMA InspectStepped ==
    ASSUME Evidence, Recorded, NEW p \in Requests, NEW job \in Jobs, Inspect(p, job)
    PROVE  Stepped(p, job) /\ Compared(p, job)
<1>. DEFINE table == Upsert(rows, job, "quarantined")
            scan == UsedScan(job)
            store == [scans EXCEPT ![job.content] = scan]
            raises == ScanRaises(job)
<1>1. /\ job.content \in Contents /\ task[p].pc = "idle"
      /\ rows \in [Contents -> Row \cup {None}] /\ scans \in [Contents -> Scans \cup {None}]
  BY InspectionAssumption DEF Inspect, Job, Evidence, TypeOK
<1>2. /\ table \in [Contents -> Row \cup {None}] /\ table[job.content] \in Row
  BY <1>1, UpsertTyped DEF Statuses
<1>3. /\ \A c \in Contents \ {job.content} : table[c] = rows[c]
      /\ table[job.content].status = "quarantined"
      /\ rows[job.content] = None => About(table[job.content], job)
  BY <1>1, UpsertAbout
<1>4. scan \in Scans /\ scan # None
  <2>1. scan \in Scans
    BY <1>1, FreshScanTyped DEF UsedScan
  <2>2. QED
    BY <2>1, NoneAssumption
<1>5. /\ store \in [Contents -> Scans \cup {None}] /\ store[job.content] # None
      /\ \A c \in Contents : scans[c] # None => store[c] # None
  <2>. HIDE DEF scan
  <2>1. QED
    BY <1>1, <1>4
<1>6. CASE raises
  <2>1. /\ task' = [task EXCEPT ![p] = [Idle EXCEPT !.pc = "failed", !.job = job]]
        /\ rows' = table /\ UNCHANGED scans
    BY <1>6 DEF Inspect
  <2>2. /\ task'[p].pc = "failed" /\ task'[p].job = job
        /\ \A q \in Requests \ {p} : task'[q] = task[q]
    BY <2>1 DEF Evidence, Shaped, Idle
  <2>. HIDE DEF table
  <2>3. rows'[job.content].status = "quarantined"
    BY <1>3, <2>1
  <2>4. Stepped(p, job)
    BY <1>1, <1>3, <2>1, <2>2, <2>3 DEF Stepped
  <2>5. QED
    BY <2>2, <2>4 DEF Compared
<1>7. ASSUME NEW box, Conclude(p, job, scan, box, table, store), scans' = store
      PROVE  Stepped(p, job) /\ Compared(p, job)
  <2>. HIDE DEF table, scan, store
  <2>1. /\ task'[p].pc = "done" /\ task'[p].job = job
        /\ \A q \in Requests \ {p} : task'[q] = task[q]
        /\ \A c \in Contents \ {job.content} : rows'[c] = table[c]
        /\ About(table[job.content], job) =>
              /\ About(rows'[job.content], job)
              /\ task'[p].decision = "allow" => rows'[job.content].status = "allowed"
        /\ /\ \A c \in Contents : table[c] # None /\ table[c].status = "allowed" => store[c] # None
           /\ Earlier(job, table) # {}
           => task'[p].facts.compared
    BY <1>2, <1>5, <1>7, ConcludeShape
  <2>2. Stepped(p, job)
    <3>1. rows[job.content] = None => OwnRow(p)'
      BY <1>3, <2>1 DEF OwnRow, Decided, Done
    <3>2. QED
      BY <1>1, <1>3, <1>5, <1>7, <2>1, <3>1 DEF Stepped
  <2>3. \A c \in Contents : table[c] # None /\ table[c].status = "allowed" => store[c] # None
    BY <1>1, <1>3, <1>5 DEF Recorded
  <2>4. Compared(p, job)
    BY <1>3, <2>1, <2>3 DEF Compared, Earlier
  <2>5. QED
    BY <2>2, <2>4
<1>8. CASE ~raises /\ ShouldSandbox(job) /\ backend = "docker"
  <2>. DEFINE new == [Idle EXCEPT !.pc = "boxed", !.job = job, !.scan = scan]
  <2>1. scans' = store /\ rows' = table /\ task' = [task EXCEPT ![p] = new]
    BY <1>8 DEF Inspect
  <2>2. new.pc = "boxed" /\ new.job = job
    BY DEF Idle
  <2>. HIDE DEF new
  <2>3. task'[p] = new /\ \A q \in Requests \ {p} : task'[q] = task[q]
    BY <2>1 DEF Evidence, Shaped
  <2>. HIDE DEF table, scan, store
  <2>4. rows[job.content] = None => OwnRow(p)'
    BY <1>3, <2>1, <2>2, <2>3 DEF OwnRow, Decided, Done
  <2>5. Stepped(p, job)
    BY <1>1, <1>3, <1>5, <2>1, <2>2, <2>3, <2>4 DEF Stepped
  <2>6. QED
    BY <2>2, <2>3, <2>5 DEF Compared
<1>9. CASE ~raises /\ ~(ShouldSandbox(job) /\ backend = "docker")
  <2>1. \E box : scans' = store /\ Conclude(p, job, scan, box, table, store)
    BY <1>9 DEF Inspect
  <2>. HIDE DEF table, scan, store
  <2>2. QED
    BY <1>7, <2>1
<1>10. QED
  BY <1>6, <1>8, <1>9

\* Such a step keeps the invariant.
LEMMA SteppedRecorded ==
    ASSUME Evidence, Recorded, NEW p \in Requests, NEW job \in Jobs, Stepped(p, job)
    PROVE  Recorded'
<1>1. job.content \in Contents /\ \A q \in Requests : task[q].pc # "idle" => task[q].job.content \in Contents
  BY InspectionAssumption DEF Evidence, TypeOK, Job
<1>2. /\ \A q \in Requests \ {p} : task'[q] = task[q]
      /\ task'[p].pc # "idle" /\ task'[p].job = job
      /\ task[p].pc # "idle" => task[p].pc = "boxed" /\ task[p].job = job
      /\ \A c \in Contents \ {job.content} : rows'[c] = rows[c]
      /\ \A c \in Contents : scans[c] # None => scans'[c] # None
  BY DEF Stepped
<1>3. ASSUME NEW c \in Contents
      PROVE  /\ Untouched(c)' => rows'[c] = None
             /\ rows'[c] # None /\ rows'[c].status = "allowed" => scans'[c] # None
  <2>1. CASE c = job.content
    <3>1. ~Untouched(c)'
      BY <1>2, <2>1 DEF Untouched
    <3>2. QED
      BY <2>1, <3>1 DEF Stepped
  <2>2. CASE c # job.content
    <3>1. Untouched(c)' => Untouched(c)
      BY <1>2, <2>2 DEF Untouched
    <3>2. QED
      BY <1>2, <2>2, <3>1 DEF Recorded
  <2>3. QED
    BY <2>1, <2>2
<1>4. ASSUME NEW q \in Requests \ {p}, task'[q].pc \in {"boxed", "done"}
      PROVE  /\ scans'[task'[q].job.content] # None
             /\ Alone(q)' => OwnRow(q)'
  <2>1. task'[q] = task[q] /\ task[q].pc # "idle" /\ task[q].job.content \in Contents
    BY <1>1, <1>2, <1>4
  <2>2. scans[task[q].job.content] # None /\ (Alone(q) => OwnRow(q))
    BY <1>4, <2>1 DEF Recorded
  <2>3. ASSUME Alone(q)' PROVE OwnRow(q)'
    <3>1. job.content # task[q].job.content
      BY <1>2, <2>1, <2>3 DEF Alone
    <3>2. Alone(q)
      BY <1>2, <2>1, <2>3, <3>1 DEF Alone
    <3>3. rows'[task[q].job.content] = rows[task[q].job.content]
      BY <1>2, <2>1, <3>1
    <3>4. QED
      BY <2>1, <2>2, <3>2, <3>3 DEF OwnRow, Decided, Done
  <2>4. QED
    BY <1>2, <2>1, <2>2, <2>3
<1>5. ASSUME task'[p].pc \in {"boxed", "done"}
      PROVE  /\ scans'[task'[p].job.content] # None
             /\ Alone(p)' => OwnRow(p)'
  <2>1. scans'[job.content] # None
    BY <1>5 DEF Stepped
  <2>2. ASSUME Alone(p)' PROVE OwnRow(p)'
    <3>1. \A r \in Requests \ {p} : task[r].pc # "idle" => task[r].job.content # job.content
      BY <1>2, <2>2 DEF Alone
    <3>2. task[p].pc = "idle" => rows[job.content] = None
      BY <1>1, <3>1 DEF Recorded, Untouched
    <3>3. task[p].pc = "boxed" => About(rows[job.content], job)
      BY <1>2, <3>1 DEF Recorded, Alone, OwnRow
    <3>4. QED
      BY <1>5, <3>2, <3>3 DEF Stepped
  <2>3. QED
    BY <1>2, <2>1, <2>2
<1>6. QED
  BY <1>3, <1>4, <1>5 DEF Recorded

LEMMA AlwaysRecorded == Spec => []Recorded
<1>1. Init => Recorded
  BY DEF Init, Recorded, Untouched, Idle
<1>2. Evidence /\ Recorded /\ [Next]_vars => Recorded'
  <2>1. SUFFICES ASSUME Evidence, Recorded, [Next]_vars PROVE Recorded'
    OBVIOUS
  <2>2. CASE \E p \in Requests : Resume(p)
    <3>1. PICK p \in Requests : Resume(p)
      BY <2>2
    <3>2. task[p].job \in Jobs
      BY <2>1, <3>1 DEF Resume, Evidence, Backed
    <3>3. QED
      BY <2>1, <3>1, <3>2, ResumeStepped, SteppedRecorded
  <2>3. CASE \E p \in Requests, job \in Jobs : Inspect(p, job)
    BY <2>1, <2>3, InspectStepped, SteppedRecorded
  <2>4. CASE UNCHANGED vars
    BY <2>1, <2>4 DEF vars, Recorded, Untouched, Alone, OwnRow, Decided, Done
  <2>5. QED
    BY <2>1, <2>2, <2>3, <2>4 DEF Next
<1>3. QED
  BY <1>1, <1>2, AlwaysEvidence, PTL DEF Spec

\* A new version is compared with an approved one, whatever was assessed in the
\* meantime, if the bytes of one that was approved were assessed only once.
THEOREM ComparisonMade == Spec => ComparedWithApproved
<1>1. ASSUME Evidence, Recorded, [Next]_vars,
             NEW p \in Requests, NEW q \in Requests,
             task[p].pc # "done", task'[p].pc = "done", Succeeds(p, q)
      PROVE  task'[p].facts.compared
  <2>1. PICK r \in Requests, job \in Jobs : Stepped(r, job) /\ Compared(r, job)
    <3>1. task' # task
      BY <1>1
    <3>2. CASE \E r \in Requests : Resume(r)
      <4>1. PICK r \in Requests : Resume(r)
        BY <3>2
      <4>2. task[r].job \in Jobs
        BY <1>1, <4>1 DEF Resume, Evidence, Backed
      <4>3. QED
        BY <1>1, <4>1, <4>2, ResumeStepped
    <3>3. CASE \E r \in Requests, job \in Jobs : Inspect(r, job)
      BY <1>1, <3>3, InspectStepped
    <3>4. QED
      BY <1>1, <3>1, <3>2, <3>3 DEF Next, vars
  <2>2. r = p /\ task'[p].job = job
    BY <1>1, <2>1 DEF Stepped
  <2>. DEFINE old == task[q].job
  <2>3. /\ Decided(q, "allow") /\ Alone(q) /\ old.content # job.content
        /\ old.ecosystem = job.ecosystem /\ old.project = job.project
        /\ old.version # None /\ job.version # None /\ old.version < job.version
    BY <1>1, <2>2 DEF Succeeds
  <2>4. old.content \in Contents
    BY <1>1, <2>3, InspectionAssumption DEF Evidence, TypeOK, Decided, Done, Job
  <2>5. About(rows[old.content], old) /\ rows[old.content].status = "allowed"
    BY <1>1, <2>3 DEF Recorded, OwnRow, Decided, Done
  <2>. HIDE DEF old
  <2>6. QED
    BY <1>1, <2>1, <2>2, <2>3, <2>4, <2>5 DEF Compared, About
<1>2. Evidence /\ Recorded /\ [Next]_vars =>
         [\A p, q \in Requests :
            task[p].pc # "done" /\ task'[p].pc = "done" /\ Succeeds(p, q) => task'[p].facts.compared]_vars
  BY <1>1
<1>3. QED
  BY <1>2, AlwaysEvidence, AlwaysRecorded, PTL DEF Spec, ComparedWithApproved

=============================================================================
