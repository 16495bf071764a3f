----------------------------- MODULE Inspection -----------------------------
(***************************************************************************)
(* What an assessment decides from: the facts that assess and              *)
(* assess_universal (src/palsy/service.py) gather about downloaded bytes   *)
(* and pass to the policy engine.  It composes the scanner, the store of   *)
(* scans, the sandbox, the search for the previous allowed version and     *)
(* PolicyEngine.evaluate; how the bytes were obtained and what becomes of  *)
(* the decision is Download's and Firewall's.                              *)
(*                                                                         *)
(* Bytes are their digest.  A coroutine is suspended only while a Docker   *)
(* sandbox runs, so that a request takes one step, or two.                 *)
(***************************************************************************)
EXTENDS Scanner, Sandbox

CONSTANTS
    Requests,   \* assessments, each made once
    Contents,   \* the bytes they may be about
    Jobs,       \* what may be requested, with what upstream answers
    Policies,   \* configurations of the policy engine
    Backends,   \* configurations of the sandbox
    None        \* no value: no scan, no row, a version that cannot be parsed

\* A request and its resolution.  ecosystem is "pypi" on the legacy route,
\* mutable says that an image was asked for by tag, declared that a digest is
\* expected, yanked that PyPI says the file was, force that a new scan is asked
\* for.
Job == [route : {"legacy", "universal"}, ecosystem : Ecosystems, project : STRING,
        version : Nat \cup {None}, form : Forms, content : Contents, age : Nat \cup {None},
        mutable : BOOLEAN, declared : BOOLEAN, yanked : BOOLEAN, env : {"dev", "ci", "prod"},
        force : BOOLEAN, sandbox : BOOLEAN]

ASSUME InspectionAssumption ==
    /\ Contents \subseteq Content
    /\ Imports \subseteq Events
    /\ None \notin Nat
    /\ Jobs \subseteq Job
    /\ \A j \in Jobs : j.route = "legacy" => j.ecosystem = "pypi"
    /\ \A j \in Jobs : j.mutable => j.ecosystem = "oci"
    /\ \A j \in Jobs : j.yanked => j.ecosystem = "pypi"

VARIABLES
    policy,   \* the configuration of the policy engine, during this behaviour
    backend,  \* that of the sandbox, likewise
    scans,    \* the latest scan of each digest, or None
    rows,     \* the artifacts table, by digest
    task      \* the local state of each request

vars == <<policy, backend, scans, rows, task>>

Engine == INSTANCE Policy WITH
    Configs <- Policies, Starts <- {}, Capabilities <- {}, Ages <- {}, Budget <- 0,
    Unknown <- None, config <- policy, facts <- task, left <- 0

ASSUME PoliciesAssumption == Policies \subseteq Engine!Config

Statuses == {"quarantined", "allowed", "review", "denied"}
Scans == [ecosystem : Ecosystems, form : Forms, severity : 0 .. 4,
          caps : SUBSET Engine!AllCapabilities, requires : SUBSET Requirements,
          modules : Seq(SUBSET Imports), mutable : BOOLEAN]
Row == [ecosystem : Ecosystems, project : STRING, version : Nat \cup {None}, status : Statuses]

ASSUME NoneAssumption == None \notin Row \cup Scans

Unboxed == Report("absent", {}, "lost")
Idle == [pc |-> "idle", job |-> None, scan |-> None, box |-> Unboxed, facts |-> None,
         decision |-> None]

TypeOK ==
    /\ policy \in Policies /\ backend \in Backends
    /\ scans \in [Contents -> Scans \cup {None}]
    /\ rows \in [Contents -> Row \cup {None}]
    /\ \A p \in Requests :
          /\ task[p].pc \in {"idle", "boxed", "done", "failed"}
          /\ task[p].pc # "idle" => task[p].job \in Jobs
          /\ task[p].pc \in {"boxed", "done"} => task[p].scan \in Scans
          /\ task[p].pc = "done" =>
                task[p].facts \in Engine!Facts /\ task[p].decision \in {"allow", "review", "deny"}

Init ==
    /\ policy \in Policies /\ backend \in Backends
    /\ scans = [c \in Contents |-> None]
    /\ rows = [c \in Contents |-> None]
    /\ task = [p \in Requests |-> Idle]

-----------------------------------------------------------------------------
(* The ledger's part.                                                      *)

\* upsert_artifact, of the legacy route, leaves the ecosystem of a row that is
\* there alone; upsert_resolved_artifact replaces it.
Upsert(table, job, status) ==
    LET row == table[job.content]
        kept == job.route = "legacy" /\ row # None
    IN  [table EXCEPT ![job.content] =
            [ecosystem |-> IF kept THEN row.ecosystem ELSE job.ecosystem,
             project |-> job.project, version |-> job.version, status |-> status]]

\* set_artifact_status
SetStatus(table, content, status) == [table EXCEPT ![content] = [@ EXCEPT !.status = status]]

\* Faulty: the versions are compared the wrong way round.
EarlierReversed(job, table) ==
    {c \in Contents :
        /\ table[c] # None /\ table[c].status = "allowed"
        /\ table[c].project = job.project
        /\ job.route = "universal" => table[c].ecosystem = job.ecosystem
        /\ table[c].version # None /\ job.version # None
        /\ table[c].version > job.version}

\* Faulty: the legacy search takes any version that was assessed.
EarlierAssessed(job, table) ==
    {c \in Contents :
        /\ table[c] # None
        /\ job.route = "universal" => table[c].status = "allowed"
        /\ table[c].project = job.project
        /\ job.route = "universal" => table[c].ecosystem = job.ecosystem
        /\ table[c].version # None /\ job.version # None
        /\ table[c].version < job.version}

\* The candidates of _previous_allowed_scan and _previous_allowed_scan_universal;
\* the legacy one does not look at the ecosystem.
Earlier(job, table) ==
    {c \in Contents :
        /\ table[c] # None /\ table[c].status = "allowed"
        /\ table[c].project = job.project
        /\ job.route = "universal" => table[c].ecosystem = job.ecosystem
        /\ table[c].version # None /\ job.version # None
        /\ table[c].version < job.version}

\* The latest of them; of several files of one version, the one that was stored
\* first is taken, here any.
Previous(job, table) ==
    LET earlier == Earlier(job, table)
    IN  {c \in earlier : \A d \in earlier : table[d].version <= table[c].version}

\* What is stored of it, or None.
PreviousScans(job, table, store) ==
    IF Previous(job, table) = {} THEN {None} ELSE {store[c] : c \in Previous(job, table)}

-----------------------------------------------------------------------------
(* The request's part.                                                     *)

\* The legacy route gives the scanner no resolved artefact.
FreshScan(job) ==
    IF job.route = "legacy" THEN Scan(job.content, job.form, Guess(job.form), FALSE)
    ELSE Scan(job.content, job.form, job.ecosystem, job.mutable)

\* Faulty: a scan is looked up even where a new one was asked for.
UsedScanAlways(job) == IF scans[job.content] # None THEN scans[job.content] ELSE FreshScan(job)

UsedScan(job) ==
    IF ~job.force /\ scans[job.content] # None THEN scans[job.content] ELSE FreshScan(job)

\* A new scan is made, and the scanner does not survive it.
ScanRaises(job) ==
    /\ job.force \/ scans[job.content] = None
    /\ Raises(job.content, job.form, FreshScan(job).ecosystem)

ShouldSandbox(job) ==
    \/ job.sandbox
    \/ /\ job.env = "prod" /\ policy.sandboxProd
       /\ job.route = "universal" => job.ecosystem \in {"pypi", "npm"}

\* Faulty: an image is mutable where its scan says so.
FactsOfScanned(job, scan, box, earlier) ==
    [env |-> job.env, ecosystem |-> job.ecosystem, revoked |-> FALSE,
     yanked |-> job.route = "legacy" /\ job.yanked,
     age |-> job.age, severity |-> scan.severity, caps |-> scan.caps,
     compared |-> earlier # None,
     previous |-> IF earlier = None THEN {} ELSE earlier.caps,
     growth |-> earlier # None /\ (scan.requires \ earlier.requires # {}),
     mutable |-> scan.mutable, declared |-> job.declared,
     sandbox |-> box.state, events |-> box.events]

\* PolicyContext; earlier is the scan of the previous allowed version, or None.
\* Only the legacy route passes the registry's file, which tells what was yanked.
\* Nothing is revoked here.
FactsOf(job, scan, box, earlier) ==
    [env |-> job.env, ecosystem |-> job.ecosystem, revoked |-> FALSE,
     yanked |-> job.route = "legacy" /\ job.yanked,
     age |-> job.age, severity |-> scan.severity, caps |-> scan.caps,
     compared |-> earlier # None,
     previous |-> IF earlier = None THEN {} ELSE earlier.caps,
     growth |-> earlier # None /\ (scan.requires \ earlier.requires # {}),
     mutable |-> job.mutable \/ scan.mutable, declared |-> job.declared,
     sandbox |-> box.state, events |-> box.events]

\* The end of an assessment, on the tables as they are by then.
Conclude(p, job, scan, box, table, store) ==
    \E earlier \in PreviousScans(job, table, store) :
        LET known == FactsOf(job, scan, box, earlier)
            decision == Engine!Evaluate(policy, known)
        IN  /\ task' = [task EXCEPT ![p] =
                  [pc |-> "done", job |-> job, scan |-> scan, box |-> box, facts |-> known,
                   decision |-> decision]]
            /\ rows' = CASE decision = "allow" -> Upsert(table, job, "allowed")
                         [] decision = "review" -> SetStatus(table, job.content, "review")
                         [] decision = "deny" -> SetStatus(table, job.content, "denied")

\* The bytes are there: assess or assess_universal, up to its sandbox.
Inspect(p, job) ==
    /\ task[p].pc = "idle"
    /\ LET table == Upsert(rows, job, "quarantined")
           scan == UsedScan(job)
           store == [scans EXCEPT ![job.content] = scan]
       IN  IF ScanRaises(job)
           THEN /\ task' = [task EXCEPT ![p] = [Idle EXCEPT !.pc = "failed", !.job = job]]
                /\ rows' = table
                /\ UNCHANGED scans
           ELSE /\ scans' = store
                /\ IF ~ShouldSandbox(job) THEN Conclude(p, job, scan, Unboxed, table, store)
                   ELSE IF backend # "docker"
                   THEN \E box \in Reports(backend, scan.modules) :
                           Conclude(p, job, scan, box, table, store)
                   ELSE /\ task' = [task EXCEPT ![p] =
                              [Idle EXCEPT !.pc = "boxed", !.job = job, !.scan = scan]]
                        /\ rows' = table
    /\ UNCHANGED <<policy, backend>>

\* The sandbox ends, after whatever else was assessed in the meantime.
Resume(p) ==
    /\ task[p].pc = "boxed"
    /\ \E box \in Reports(backend, task[p].scan.modules) :
          Conclude(p, task[p].job, task[p].scan, box, rows, scans)
    /\ UNCHANGED <<policy, backend, scans>>

Next == \E p \in Requests : Resume(p) \/ \E job \in Jobs : Inspect(p, job)

Spec == Init /\ [][Next]_vars

-----------------------------------------------------------------------------
(* Properties.                                                             *)

Done(p) == task[p].pc = "done"
Decided(p, decision) == Done(p) /\ task[p].decision = decision

\* The facts of p, if it had been given a scan of its own, beside the same earlier
\* version: what is read alike has the same requirements.
OwnFacts(p) ==
    LET scan == FreshScan(task[p].job)
    IN  [task[p].facts EXCEPT !.severity = scan.severity, !.caps = scan.caps,
                              !.mutable = task[p].job.mutable]

\* npm and images are read in ways of their own.
ReadAlike(first, second) ==
    first.form = second.form
    /\ (first.ecosystem = second.ecosystem \/ {first.ecosystem, second.ecosystem} \subseteq {"pypi", "generic"})

\* Scans are stored by digest alone, although they depend on the file's name,
\* the ecosystem and the reference.  A request that is given a stored scan, made
\* by either route, is decided as it would be with one of its own, or more
\* severely if the image had been asked for by tag, as long as the same name is
\* read for the same kind of ecosystem.
ReuseIsFaithful ==
    \A p \in Requests :
        LET own == FreshScan(task[p].job)
            decided == Engine!Rank(task[p].decision)
            deserved == Engine!Rank(Engine!Evaluate(policy, OwnFacts(p)))
        IN  Done(p) /\ ReadAlike(task[p].scan, own) =>
                /\ decided >= deserved
                /\ task[p].scan.mutable = own.mutable => decided = deserved

\* The decisions that a request may get on the tables as they are, none if its scan
\* fails.
Answers(job) ==
    LET table == Upsert(rows, job, "quarantined")
        scan == UsedScan(job)
        store == [scans EXCEPT ![job.content] = scan]
        boxes == IF ShouldSandbox(job) THEN Reports(backend, scan.modules) ELSE {Unboxed}
    IN  IF ScanRaises(job) THEN {}
        ELSE {Engine!Evaluate(policy, FactsOf(job, scan, box, earlier)) :
              box \in boxes, earlier \in PreviousScans(job, table, store)}

\* Whichever of the two routes is asked about a PyPI file, at whatever point of the
\* others' assessments, it may answer the same, although one guesses the ecosystem
\* from the name, passes other facts and has a search of its own for the previous
\* version.  What sets them apart is that the file was yanked, that its name is
\* not one of a Python distribution, so that a scan of its own reads it otherwise,
\* and that a project of another ecosystem has the same name.
RoutesAgree ==
    \A job \in Jobs :
        LET other == [job EXCEPT !.route = "universal"]
            table == Upsert(rows, job, "quarantined")
        IN  /\ job.route = "legacy" /\ ~job.yanked
            /\ ReadAlike(UsedScan(job), UsedScan(other))
            /\ \A c \in Earlier(job, table) : table[c].ecosystem = "pypi"
            => Answers(job) = Answers(other)

\* Lifecycle scripts that an npm package declares in readable form are never
\* admitted by an enforcing policy that does not list the package, unless its
\* bytes were first scanned for another ecosystem, or under another of the names
\* a caller may give them, and no new scan is asked for.
LifecycleScriptsSeen ==
    \A p \in Requests :
        /\ Decided(p, "allow") /\ policy.mode = "enforce" /\ "lifecycle_scripts" \notin policy.allow
        /\ task[p].job.ecosystem = "npm" /\ task[p].job.form = "tgz"
        /\ Opens(task[p].job.content, "tgz")
        /\ \E m \in task[p].job.content.members :
              /\ m.kind = "package" /\ "lifecycle" \in m.has
              /\ m.has \cap {"malformed", "unreadable"} = {}
        => ~task[p].job.force /\ (task[p].scan.ecosystem # "npm" \/ task[p].scan.form # "tgz")

\* An enforcing policy admits nothing on the evidence of a sandbox run: the
\* harness reports its own installation as a process spawn, which denies every
\* artefact whose output is all there, and a run that failed or was killed asks
\* for a review.  Only an output of which the beginning was dropped may clear.
SandboxNeverClears ==
    \A p \in Requests :
        Done(p) /\ policy.mode = "enforce" /\ ShouldSandbox(task[p].job) /\ backend = "docker" =>
            CASE task[p].box.kept = "all" -> Decided(p, "deny")
              [] task[p].box.kept = "lost" -> ~Decided(p, "allow")
              [] OTHER -> TRUE

\* Nobody else has begun to assess the bytes of q.
Alone(q) ==
    \A r \in Requests \ {q} : task[r].pc # "idle" => task[r].job.content # task[q].job.content

\* q, alone, admitted an earlier version of what p is about.
Succeeds(p, q) ==
    LET new == task'[p].job
        old == task[q].job
    IN  /\ Decided(q, "allow")
        /\ old.ecosystem = new.ecosystem /\ old.project = new.project
        /\ old.version # None /\ new.version # None /\ old.version < new.version
        /\ old.content # new.content
        /\ Alone(q)

\* Unless the bytes of the earlier version are assessed again meanwhile, which
\* takes its row out of the allowed ones, for good if their scan fails, a new
\* version is compared with an approved one.
ComparedWithApproved ==
    [][\A p, q \in Requests :
          task[p].pc # "done" /\ task'[p].pc = "done" /\ Succeeds(p, q) => task'[p].facts.compared]_vars

=============================================================================
