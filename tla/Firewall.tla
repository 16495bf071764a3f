------------------------------ MODULE Firewall ------------------------------
(***************************************************************************)
(* The admission service: FirewallService (src/palsy/service.py) over its  *)
(* SQLite ledger (db.py) and its quarantine and mirror trees (mirror.py),  *)
(* as the HTTP routes of api.py drive it.                                  *)
(*                                                                         *)
(* Assessments are coroutines of one event loop: they interleave with each *)
(* other only where they await (LoopFree).  Approvals and revocations run  *)
(* on a thread pool and interleave with everything.  Every SQL statement   *)
(* is its own commit (isolation_level=None, db.py:108), so each statement  *)
(* that matters is an action of its own.                                   *)
(*                                                                         *)
(* A content stands for its own SHA-256 digest.  A path stands for an      *)
(* ecosystem, name, version and filename; distinct paths have distinct     *)
(* filenames.  An identifier of PermitIds is a uuid4: never drawn twice.   *)
(***************************************************************************)
EXTENDS Naturals, FiniteSets, PolicyModes

CONSTANTS
    Contents,        \* artefact contents, hence digests
    Paths,           \* quarantine locations
    PyPI,            \* the paths of the PyPI ecosystem
    Envs,            \* environments a caller may name
    Serves,          \* Serves[p]: what a download of p may leave there: what upstream
                     \* answers, and mixtures where downloads of p overlap
    Declares,        \* Declares[p]: the contents that the digests declared to a request
                     \* for p accept, a set for each declaration its caller or the
                     \* registry may make: all contents if it declares none
    Assessors,       \* in-flight assessment requests
    Approvers,       \* in-flight approval requests
    Revokers,        \* in-flight revocation requests
    Routes,          \* "files": /v1/artifacts/assess; "pypi": the legacy route
    PermitIds,       \* bound: permits that can be issued in a behaviour
    Mode,            \* PolicyConfig.mode
    SandboxBackend,  \* Settings.sandbox_backend
    Faults,          \* whether the process may die and a handler may raise
    None, Torn       \* no value; a file whose copy did not finish

Roots == {"files", "pypi"}
Handlers == Assessors \cup Approvers \cup Revokers
Copies == Roots \X Contents \X Paths

ASSUME FirewallAssumption ==
    /\ None \notin Contents \cup Paths \cup Envs \cup {Torn}
    /\ Torn \notin Contents
    /\ PyPI \subseteq Paths
    /\ Serves \in [Paths -> SUBSET Contents]
    /\ Declares \in [Paths -> SUBSET SUBSET Contents]
    /\ Routes \subseteq Roots
    /\ Mode \in Modes
    /\ SandboxBackend \in {"none", "docker"}
    /\ Faults \in BOOLEAN
    /\ Assessors \cap Approvers = {}
    /\ (Assessors \cup Approvers) \cap Revokers = {}

VARIABLES
    artifacts,    \* the artifacts table, by digest
    scans,        \* digests with a stored scan report
    decisions,    \* the decisions log: <<digest, environment, decision>>
    approvals,    \* the review_approvals log: <<digest, environment>>
    permits,      \* the permits table, by id
    revocations,  \* the revocations table
    quarantine,   \* the quarantine tree, by path
    mirror,       \* the mirror tree, by <<root, digest, path>>
    task          \* the local state of each handler

tables == <<artifacts, scans, decisions, approvals, permits, revocations>>
disk == <<quarantine, mirror>>
vars == <<tables, disk, task>>

-----------------------------------------------------------------------------
(* Local state of a handler.                                               *)

Suspended == {"idle", "resolving", "downloading", "sandboxing"}
Phases == Suspended \cup
    {"recording", "scanning", "checking", "deciding", "settling", "promoting",
     "opening", "copying", "allowing", "issuing", "sourcing", "approving",
     "logging", "voiding", "marking"}

Task == [pc : Phases, path : Paths \cup {None}, env : Envs \cup {None},
         wants : SUBSET Contents, digest : Contents \cup {None}, root : Roots,
         from : Roots \cup {"quarantine"},
         decision : {"allow", "review", "deny", "none"},
         bytes : Contents \cup {None, Torn}]

Idle == [pc |-> "idle", path |-> None, env |-> None, wants |-> {},
         digest |-> None, root |-> "files", from |-> "quarantine",
         decision |-> "none", bytes |-> None]

At(t, phase) == task[t].pc = phase
GoTo(t, phase) == task' = [task EXCEPT ![t].pc = phase]
Finish(t) == task' = [task EXCEPT ![t] = Idle]

\* Faulty: a resumed assessment runs beside the others, as on a thread pool.
LoopShared(a) == TRUE

\* An assessment resumes from an await only when no other one holds the loop.
LoopFree(a) == \A b \in Assessors \ {a} : task[b].pc \in Suspended

\* Bound: a request is accepted only while a permit id remains for it.
PermitLeft ==
    Cardinality({t \in Assessors \cup Approvers : task[t] # Idle})
        < Cardinality({i \in PermitIds : permits[i].state = "none"})

\* UPDATE artifacts SET status: no row, no change.
SetStatus(d, status) ==
    artifacts' = [artifacts EXCEPT ![d].status = IF @ = "absent" THEN @ ELSE status]

Copy(t) == <<task[t].root, task[t].digest, task[t].path>>

\* The file a handler promotes: Path(download.path), or the row's storage_path.
Source(t) == IF task[t].from = "quarantine"
             THEN quarantine[task[t].path]
             ELSE mirror[<<task[t].from, task[t].digest, task[t].path>>]

-----------------------------------------------------------------------------
Rows == [status : {"absent", "quarantined", "allowed", "review", "denied", "revoked"},
         path : Paths \cup {None}, at : Roots \cup {"quarantine"}]
Permits == [state : {"none", "active", "revoked"},
            digest : Contents \cup {None}, env : Envs \cup {None}]

TypeOK ==
    /\ artifacts \in [Contents -> Rows]
    /\ scans \subseteq Contents
    /\ decisions \subseteq Contents \X Envs \X {"allow", "review", "deny"}
    /\ approvals \subseteq Contents \X Envs
    /\ permits \in [PermitIds -> Permits]
    /\ revocations \subseteq Contents
    /\ quarantine \in [Paths -> Contents \cup {None}]
    /\ mirror \in [Copies -> Contents \cup {None, Torn}]
    /\ task \in [Handlers -> Task]

Init ==
    /\ artifacts = [d \in Contents |-> [status |-> "absent", path |-> None, at |-> "quarantine"]]
    /\ scans = {}
    /\ decisions = {}
    /\ approvals = {}
    /\ permits = [i \in PermitIds |-> [state |-> "none", digest |-> None, env |-> None]]
    /\ revocations = {}
    /\ quarantine = [p \in Paths |-> None]
    /\ mirror = [k \in Copies |-> None]
    /\ task = [t \in Handlers |-> Idle]

-----------------------------------------------------------------------------
(* Assessment: FirewallService.assess_universal and FirewallService.assess *)

\* A request arrives, and declares what it wants; the legacy route awaits the
\* release metadata first, which does.
Start(a) ==
    /\ At(a, "idle")
    /\ PermitLeft
    /\ \E p \in Paths, e \in Envs, r \in Routes : \E w \in Declares[p] :
          /\ r = "pypi" => p \in PyPI
          /\ task' = [task EXCEPT ![a] =
                [Idle EXCEPT !.pc = IF r = "pypi" THEN "resolving" ELSE "downloading",
                             !.path = p, !.env = e, !.wants = w, !.root = r]]
    /\ UNCHANGED <<tables, disk>>

\* Faulty: whatever is quarantined is reused, even nothing.
ResolveUnchecked(a) ==
    /\ At(a, "resolving")
    /\ LoopFree(a)
    /\ task' = [task EXCEPT ![a].pc = "recording", ![a].digest = quarantine[task[a].path]]
    /\ UNCHANGED <<tables, disk>>

\* Legacy route: a quarantined file is reused when its digest is the declared
\* one, removed when it is not, and fetched when there is none.
Resolve(a) ==
    /\ At(a, "resolving")
    /\ LoopFree(a)
    /\ LET p == task[a].path
           held == quarantine[p]
       IN  IF held \in task[a].wants
           THEN /\ task' = [task EXCEPT ![a].pc = "recording", ![a].digest = held]
                /\ UNCHANGED quarantine
           ELSE /\ quarantine' = [quarantine EXCEPT ![p] = None]
                /\ GoTo(a, "downloading")
    /\ UNCHANGED <<tables, mirror>>

\* Faulty: a file that is already there is kept, whatever was fetched.
DownloadKeepsOld(a) ==
    /\ At(a, "downloading")
    /\ LoopFree(a)
    /\ \E c \in Serves[task[a].path] \cap task[a].wants :
          LET p == task[a].path
          IN  /\ quarantine' = [quarantine EXCEPT ![p] = IF @ = None THEN c ELSE @]
              /\ task' = [task EXCEPT ![a].pc = "recording", ![a].digest = c]
    /\ UNCHANGED <<tables, mirror>>

\* The download ends.  download_http_file publishes before it verifies; the
\* legacy client verifies before it publishes.
Download(a) ==
    /\ At(a, "downloading")
    /\ LoopFree(a)
    /\ \E c \in Serves[task[a].path] :
          LET p == task[a].path
              good == c \in task[a].wants
          IN  /\ quarantine' = IF good \/ task[a].root = "files"
                               THEN [quarantine EXCEPT ![p] = c] ELSE quarantine
              /\ task' = [task EXCEPT ![a] =
                    IF good THEN [@ EXCEPT !.pc = "recording", !.digest = c] ELSE Idle]
    /\ UNCHANGED <<tables, mirror>>

\* Another request of a finished download's path is still writing to the file
\* that the first one published: downloads of a path share one temporary file
\* (module Download).
Spill(a) ==
    /\ At(a, "downloading")
    /\ LoopFree(a)
    /\ LET p == task[a].path
       IN  /\ quarantine[p] # None
           /\ \E c \in Serves[p] : quarantine' = [quarantine EXCEPT ![p] = c]
    /\ UNCHANGED <<tables, mirror, task>>

\* Faulty: a failed request starts over, without limit.
UpstreamRetried(a) ==
    /\ task[a].pc \in {"resolving", "downloading"}
    /\ GoTo(a, "resolving")
    /\ UNCHANGED <<tables, disk>>

\* Upstream answers with an error, too much, or not in time.
UpstreamFails(a) ==
    /\ task[a].pc \in {"resolving", "downloading"}
    /\ Finish(a)
    /\ UNCHANGED <<tables, disk>>

\* The first upsert: the row goes back to quarantined, whatever it was.
Record(a) ==
    /\ At(a, "recording")
    /\ artifacts' = [artifacts EXCEPT ![task[a].digest] =
          [status |-> "quarantined", path |-> task[a].path, at |-> "quarantine"]]
    /\ GoTo(a, "scanning")
    /\ UNCHANGED <<scans, decisions, approvals, permits, revocations, disk>>

\* The stored report is used or a new one saved; with the docker backend a
\* request may then await the sandbox.
Scan(a) ==
    /\ At(a, "scanning")
    /\ scans' = scans \cup {task[a].digest}
    /\ \/ GoTo(a, "checking")
       \/ SandboxBackend = "docker" /\ GoTo(a, "sandboxing")
    /\ UNCHANGED <<artifacts, decisions, approvals, permits, revocations, disk>>

SandboxEnds(a) ==
    /\ At(a, "sandboxing")
    /\ LoopFree(a)
    /\ GoTo(a, "checking")
    /\ UNCHANGED <<tables, disk>>

\* Faulty: a digest that was admitted before is not evaluated again.
EvaluateOnce(a) ==
    /\ At(a, "checking")
    /\ \E v \in Verdicts(Mode, task[a].digest \in revocations) :
          task' = [task EXCEPT ![a].pc = "deciding", ![a].decision =
                IF <<task[a].digest, task[a].env, "allow">> \in decisions THEN "allow" ELSE v]
    /\ UNCHANGED <<tables, disk>>

\* PolicyEngine.evaluate answers what the mode and is_revoked(digest) leave open.
Evaluate(a) ==
    /\ At(a, "checking")
    /\ \E v \in Verdicts(Mode, task[a].digest \in revocations) :
          task' = [task EXCEPT ![a].pc = "deciding", ![a].decision = v]
    /\ UNCHANGED <<tables, disk>>

SaveDecision(a) ==
    /\ At(a, "deciding")
    /\ decisions' = decisions \cup {<<task[a].digest, task[a].env, task[a].decision>>}
    /\ GoTo(a, IF task[a].decision = "allow" THEN "promoting" ELSE "settling")
    /\ UNCHANGED <<artifacts, scans, approvals, permits, revocations, disk>>

\* set_artifact_status on the review and deny branches.
Settle(a) ==
    /\ At(a, "settling")
    /\ SetStatus(task[a].digest, IF task[a].decision = "review" THEN "review" ELSE "denied")
    /\ Finish(a)
    /\ UNCHANGED <<scans, decisions, approvals, permits, revocations, disk>>

-----------------------------------------------------------------------------
(* Promotion into the mirror, the second upsert and the permit: the steps  *)
(* assessments and approvals share.                                        *)

\* Faulty: a copy at the other route's location counts.
PromoteAnywhere(t) ==
    /\ At(t, "promoting")
    /\ GoTo(t, IF \A r \in Roots : mirror[<<r, task[t].digest, task[t].path>>] = None
               THEN "opening" ELSE "allowing")
    /\ UNCHANGED <<tables, disk>>

\* destination.exists()
Promote(t) ==
    /\ At(t, "promoting")
    /\ GoTo(t, IF mirror[Copy(t)] = None THEN "opening" ELSE "allowing")
    /\ UNCHANGED <<tables, disk>>

\* shutil.copy2 opens the source, then truncates the destination; without a
\* source it raises and the handler ends.
OpenCopy(t) ==
    /\ At(t, "opening")
    /\ IF Source(t) = None
       THEN Finish(t) /\ UNCHANGED mirror
       ELSE /\ mirror' = [mirror EXCEPT ![Copy(t)] = Torn]
            /\ task' = [task EXCEPT ![t].pc = "copying", ![t].bytes = Source(t)]
    /\ UNCHANGED <<tables, quarantine>>

\* The copy is whole once its last writer has closed it.
CloseCopy(t) ==
    /\ At(t, "copying")
    /\ mirror' = [mirror EXCEPT ![Copy(t)] =
          IF \E u \in Handlers \ {t} : At(u, "copying") /\ Copy(u) = Copy(t)
          THEN Torn ELSE task[t].bytes]
    /\ task' = [task EXCEPT ![t].pc = "allowing", ![t].bytes = None]
    /\ UNCHANGED <<tables, quarantine>>

\* Faulty: an approval issues the permit before it saves the approval.
AllowUnapproved(t) ==
    /\ At(t, "allowing")
    /\ artifacts' = [artifacts EXCEPT ![task[t].digest] =
          [status |-> "allowed", path |-> task[t].path, at |-> task[t].root]]
    /\ GoTo(t, "issuing")
    /\ UNCHANGED <<scans, decisions, approvals, permits, revocations, disk>>

Allow(t) ==
    /\ At(t, "allowing")
    /\ artifacts' = [artifacts EXCEPT ![task[t].digest] =
          [status |-> "allowed", path |-> task[t].path, at |-> task[t].root]]
    /\ GoTo(t, IF t \in Approvers THEN "approving" ELSE "issuing")
    /\ UNCHANGED <<scans, decisions, approvals, permits, revocations, disk>>

\* save_permit: the row is inserted with revoked = 0.
Issue(t) ==
    /\ At(t, "issuing")
    /\ \E i \in PermitIds :
          /\ permits[i].state = "none"
          /\ permits' = [permits EXCEPT ![i] =
                [state |-> "active", digest |-> task[t].digest, env |-> task[t].env]]
    /\ IF t \in Approvers THEN GoTo(t, "logging") ELSE Finish(t)
    /\ UNCHANGED <<artifacts, scans, decisions, approvals, revocations, disk>>

-----------------------------------------------------------------------------
(* Approval of a reviewed artefact: FirewallService.approve_review         *)

\* get_artifact: the row is read once and used to the end.
Approve(r) ==
    /\ At(r, "idle")
    /\ PermitLeft
    /\ \E d \in Contents, e \in Envs :
          /\ artifacts[d].status = "review"
          /\ task' = [task EXCEPT ![r] =
                [Idle EXCEPT !.pc = "checking", !.path = artifacts[d].path, !.env = e,
                             !.digest = d, !.from = artifacts[d].at,
                             !.root = IF artifacts[d].path \in PyPI THEN "pypi" ELSE "files"]]
    /\ UNCHANGED <<tables, disk>>

\* Faulty: an approval does not look at the revocations.
RecheckNothing(r) ==
    /\ At(r, "checking")
    /\ task' = [task EXCEPT ![r].pc = "sourcing", ![r].decision = "allow"]
    /\ UNCHANGED <<tables, disk>>

Recheck(r) ==
    /\ At(r, "checking")
    /\ IF task[r].digest \in revocations
       THEN Finish(r)
       ELSE task' = [task EXCEPT ![r].pc = "sourcing", ![r].decision = "allow"]
    /\ UNCHANGED <<tables, disk>>

\* latest_scan and source.is_file().
FindSource(r) ==
    /\ At(r, "sourcing")
    /\ IF task[r].digest \in scans /\ Source(r) # None
       THEN GoTo(r, "promoting")
       ELSE Finish(r)
    /\ UNCHANGED <<tables, disk>>

SaveApproval(r) ==
    /\ At(r, "approving")
    /\ approvals' = approvals \cup {<<task[r].digest, task[r].env>>}
    /\ GoTo(r, "issuing")
    /\ UNCHANGED <<artifacts, scans, decisions, permits, revocations, disk>>

\* The allow decision is logged after the permit.
LogApproval(r) ==
    /\ At(r, "logging")
    /\ decisions' = decisions \cup {<<task[r].digest, task[r].env, "allow">>}
    /\ Finish(r)
    /\ UNCHANGED <<artifacts, scans, approvals, permits, revocations, disk>>

-----------------------------------------------------------------------------
(* Revocation: Database.revoke, three statements.                          *)

Revoke(v) ==
    /\ At(v, "idle")
    /\ \E d \in Contents :
          /\ revocations' = revocations \cup {d}
          /\ task' = [task EXCEPT ![v] = [Idle EXCEPT !.pc = "voiding", !.digest = d]]
    /\ UNCHANGED <<artifacts, scans, decisions, approvals, permits, disk>>

\* Faulty: only one permit of the digest is voided.
VoidOne(v) ==
    /\ At(v, "voiding")
    /\ \E i \in PermitIds :
          permits' = [permits EXCEPT ![i].state =
                IF permits[i].digest = task[v].digest THEN "revoked" ELSE @]
    /\ GoTo(v, "marking")
    /\ UNCHANGED <<artifacts, scans, decisions, approvals, revocations, disk>>

VoidPermits(v) ==
    /\ At(v, "voiding")
    /\ permits' = [i \in PermitIds |->
          IF permits[i].digest = task[v].digest
          THEN [permits[i] EXCEPT !.state = "revoked"] ELSE permits[i]]
    /\ GoTo(v, "marking")
    /\ UNCHANGED <<artifacts, scans, decisions, approvals, revocations, disk>>

MarkRevoked(v) ==
    /\ At(v, "marking")
    /\ SetStatus(task[v].digest, "revoked")
    /\ Finish(v)
    /\ UNCHANGED <<scans, decisions, approvals, permits, revocations, disk>>

-----------------------------------------------------------------------------
(* Failures.                                                               *)

\* A handler raises between two steps: a locked database, a full disk.
Raise(t) ==
    /\ Faults
    /\ task[t].pc \notin Suspended
    /\ Finish(t)
    /\ UNCHANGED <<tables, disk>>

\* The process dies and is restarted (restart: unless-stopped): what is
\* committed and what is on disk stays, every handler is gone.
Restart ==
    /\ Faults
    /\ \E t \in Handlers : task[t] # Idle
    /\ task' = [t \in Handlers |-> Idle]
    /\ UNCHANGED <<tables, disk>>

-----------------------------------------------------------------------------
Publish(t) == Promote(t) \/ OpenCopy(t) \/ CloseCopy(t) \/ Allow(t) \/ Issue(t)

Assess(a) ==
    \/ Resolve(a) \/ Download(a) \/ UpstreamFails(a) \/ Record(a) \/ Scan(a)
    \/ SandboxEnds(a) \/ Evaluate(a) \/ SaveDecision(a) \/ Settle(a) \/ Publish(a)

ApproveReview(r) ==
    Recheck(r) \/ FindSource(r) \/ Publish(r) \/ SaveApproval(r) \/ LogApproval(r)

RevokeDigest(v) == VoidPermits(v) \/ MarkRevoked(v)

Next ==
    \/ \E a \in Assessors : Start(a) \/ Spill(a) \/ Assess(a)
    \/ \E r \in Approvers : Approve(r) \/ ApproveReview(r)
    \/ \E v \in Revokers : Revoke(v) \/ RevokeDigest(v)
    \/ \E t \in Handlers : Raise(t)
    \/ Restart

Spec == Init /\ [][Next]_vars

\* The event loop resumes its ready coroutines in turn, upstream calls and the
\* sandbox have timeouts, and the thread pool runs every handler it took.
Fairness ==
    /\ \A a \in Assessors : SF_vars(Assess(a))
    /\ \A r \in Approvers : WF_vars(ApproveReview(r))
    /\ \A v \in Revokers : WF_vars(RevokeDigest(v))

FairSpec == Spec /\ Fairness

-----------------------------------------------------------------------------
(* Properties.                                                             *)

\* Every permit is backed by a durable record of why it exists: an allow
\* decision or a reviewer's approval of that digest for that environment,
\* committed before the permit, so that no crash can leave a permit alone.
PermitBacked ==
    \A i \in PermitIds : permits[i].state # "none" =>
        LET d == permits[i].digest
            e == permits[i].env
        IN  <<d, e>> \in approvals \/ <<d, e, "allow">> \in decisions

\* Whatever is offered exists: the file of an allowed row, and for each permit
\* some mirrored file of its digest.
OfferedIsStored ==
    /\ \A d \in Contents : artifacts[d].status = "allowed" =>
          /\ artifacts[d].at \in Roots
          /\ mirror[<<artifacts[d].at, d, artifacts[d].path>>] # None
    /\ \A i \in PermitIds : permits[i].state # "none" =>
          \E k \in Copies : k[2] = permits[i].digest /\ mirror[k] # None

\* From its download to its last step an assessment that never awaits works on
\* the bytes it hashed, although other requests write the same path.
LoopKeepsBytes ==
    \A a \in Assessors :
        task[a].digest # None => quarantine[task[a].path] = task[a].digest

\* A mirrored file holds the content its digest names (or a copy of it that a
\* dead handler left unfinished).
MirrorFaithful == \A k \in Copies : mirror[k] \in {None, Torn, k[2]}

\* A request that passed its revocation check and may still publish.
Cleared(t, d) ==
    /\ task[t].digest = d
    /\ task[t].decision = "allow"
    /\ task[t].pc # "logging"

Phase(d) ==
    CASE d \notin revocations -> "open"
      [] d \in revocations /\ (\E t \in Handlers : Cleared(t, d)) -> "closing"
      [] OTHER -> "closed"

Ledger == INSTANCE PermitLedger WITH
    Digests <- Contents,
    state <- [i \in PermitIds |-> permits[i].state],
    subject <- [i \in PermitIds |-> permits[i].digest],
    phase <- [d \in Contents |-> Phase(d)],
    listed <- [d \in Contents |-> artifacts[d].status = "allowed"]

\* The service implements the ledger: once a revoked digest's cleared requests
\* are gone it gets no permit and is not listed again, by any route, whatever
\* is re-assessed, approved or restarted.
ImplementsLedger == Ledger!Spec

\* A revocation that has done its work: it is recorded, no request that was
\* cleared before is left, no permit is valid and the index offers nothing.
Barred(d) ==
    /\ d \in revocations
    /\ \A t \in Handlers : ~Cleared(t, d)
    /\ \A i \in PermitIds : permits[i].digest = d => permits[i].state # "active"
    /\ artifacts[d].status # "allowed"

\* What revoke (db.py:344) has achieved lasts: no assessment, approval, other
\* revocation, exception or restart undoes it, by any number of steps.
RevocationLasts == [][\A d \in Contents : Barred(d) => Barred(d)']_vars

\* Where an assessment stands with a path.
Stage(a, p) ==
    CASE task[a].path = p /\ At(a, "downloading") ->
            IF task[a].root = "pypi" THEN "legacy" ELSE "files"
      [] task[a].path = p /\ ~At(a, "downloading") /\ task[a].digest # None -> "accepted"
      [] OTHER -> "idle"

Wanted(a, p) == IF Stage(a, p) = "idle" THEN {} ELSE task[a].wants
Taken(a, p) == IF task[a].path = p THEN task[a].digest ELSE None

Quarantine(p) == INSTANCE Publication WITH
    Requests <- Assessors,
    Files <- Contents,
    Declares <- Declares[p],
    held <- quarantine[p],
    stage <- [a \in Assessors |-> Stage(a, p)],
    wants <- [a \in Assessors |-> Wanted(a, p)],
    taken <- [a \in Assessors |-> Taken(a, p)]

\* Every path of the quarantine is published to as Publication says, which is
\* what the downloads of a path implement: so what is assumed of them here, in
\* Resolve, Download and Spill, is what they promise.
ImplementsPublication ==
    /\ \A p \in Paths : Quarantine(p)!Init
    /\ [][\A p \in Paths : [Quarantine(p)!Next]_(Quarantine(p)!vars)]_vars

\* Every accepted request ends.
RequestsEnd == \A t \in Handlers : task[t] # Idle ~> task[t] = Idle

\* A revocation under way reaches every permit that exists when it starts.
RevocationReaches ==
    \A v \in Revokers, i \in PermitIds :
        (At(v, "voiding") /\ permits[i].digest = task[v].digest)
            ~> permits[i].state = "revoked"

Quiet == \A t \in Handlers : task[t] = Idle

\* README.md:298, "Revoke digest and invalidate permits": with no request in
\* flight a revoked digest has no permit that is still valid.
RevokedHasNoPermit ==
    Quiet => \A i \in PermitIds :
        permits[i].state = "active" => permits[i].digest \notin revocations

\* MirrorStore.file_by_digest and FirewallService.file_by_digest: the file a
\* client gets for a digest and the filename of p, None for a 404.
Served(d, p) ==
    LET row == artifacts[d]
    IN  IF row.status = "allowed" /\ row.path = p /\ mirror[<<row.at, d, p>>] # None
        THEN mirror[<<row.at, d, p>>]
        ELSE IF mirror[<<"files", d, p>>] # None
             THEN mirror[<<"files", d, p>>]
             ELSE mirror[<<"pypi", d, p>>]

\* api.py:208, "artefact not found or not allowed": with no request in flight
\* a revoked digest is not served.
RevokedIsNotServed ==
    Quiet => \A d \in revocations, p \in Paths : Served(d, p) = None

=============================================================================
