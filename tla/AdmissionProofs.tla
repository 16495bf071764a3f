--------------------------- MODULE AdmissionProofs ---------------------------
(***************************************************************************)
(* Proofs that the ledger of Firewall stays consistent with itself and     *)
(* with the mirror: PermitBacked and OfferedIsStored.                      *)
(***************************************************************************)
EXTENDS FirewallProofs

-----------------------------------------------------------------------------
(* Both are facts about what a handler has already done when it takes its  *)
(* next step.  Earned says so of a handler t in local state x.             *)

Earned(t, x, dec, app, mir) ==
    /\ t \in Assessors /\ x.pc \in Publishing =>
          x.decision = "allow" /\ <<x.digest, x.env, "allow">> \in dec
    /\ t \in Approvers /\ x.pc \in Publishing \cup {"sourcing", "approving"} =>
          x.decision = "allow"
    /\ t \in Approvers /\ x.pc = "issuing" => <<x.digest, x.env>> \in app
    /\ x.pc = "copying" => x.bytes # None
    /\ x.pc \in {"copying", "allowing", "approving", "issuing"} =>
          mir[<<x.root, x.digest, x.path>>] # None

AllEarned == \A t \in Handlers : Earned(t, task[t], decisions, approvals, mirror)

Consistent == AllEarned /\ PermitBacked /\ OfferedIsStored

\* The logs and the mirror only grow.
Grows ==
    /\ decisions \subseteq decisions'
    /\ approvals \subseteq approvals'
    /\ \A k \in Copies : mirror[k] # None => mirror'[k] # None

\* No row becomes allowed and no permit is issued.
NothingNew ==
    /\ \A d \in Contents : artifacts'[d].status = "allowed" => artifacts'[d] = artifacts[d]
    /\ \A i \in PermitIds : permits'[i].state # "none" =>
          /\ permits[i].state # "none"
          /\ permits'[i].digest = permits[i].digest
          /\ permits'[i].env = permits[i].env

-----------------------------------------------------------------------------
LEMMA IdleEarned == \A t, dec, app, mir : Earned(t, Idle, dec, app, mir)
  BY DEF Earned, Idle, Publishing

LEMMA StepEarned ==
  ASSUME Shape, AllEarned, Grows, NEW t \in Handlers, NEW x,
         task' = [task EXCEPT ![t] = x], Earned(t, x, decisions', approvals', mirror')
  PROVE  AllEarned'
  <1>1. ASSUME NEW u \in Handlers \ {t}
        PROVE  Earned(u, task'[u], decisions', approvals', mirror')
    <2>1. task'[u] = task[u] /\ Fits(u, task[u]) /\ Earned(u, task[u], decisions, approvals, mirror)
      BY DEF Shape, TasksFit, AllEarned
    <2>2. task[u].pc \in {"copying", "allowing", "approving", "issuing"} =>
             <<task[u].root, task[u].digest, task[u].path>> \in Copies
      BY <2>1 DEF Fits, Task, Copies, RevokePhases, Handlers
    <2>3. QED
      BY <2>1, <2>2 DEF Earned, Grows
  <1>2. task'[t] = x
    BY DEF Shape, TasksFit
  <1>3. QED
    BY <1>1, <1>2 DEF AllEarned

LEMMA FinishEarned ==
  ASSUME Shape, AllEarned, Grows, NEW t \in Handlers, Finish(t)
  PROVE  AllEarned'
  BY IdleEarned, StepEarned DEF Finish

LEMMA GoToEarned ==
  ASSUME Shape, AllEarned, Grows, NEW t \in Handlers, NEW p, GoTo(t, p),
         Earned(t, [task[t] EXCEPT !.pc = p], decisions', approvals', mirror')
  PROVE  AllEarned'
  <1>1. task' = [task EXCEPT ![t] = [task[t] EXCEPT !.pc = p]]
    BY DEF GoTo
  <1>2. QED
    BY <1>1, StepEarned

LEMMA GoToMoves ==
  ASSUME task \in [Handlers -> Task], NEW t \in Handlers, NEW p, GoTo(t, p)
  PROVE  task' = [task EXCEPT ![t] = task'[t]] /\ task'[t].pc = p
  BY DEF GoTo, Task

LEMMA FinishMoves ==
  ASSUME task \in [Handlers -> Task], NEW t \in Handlers, Finish(t)
  PROVE  task' = [task EXCEPT ![t] = task'[t]] /\ task'[t] = Idle
  BY DEF Finish

LEMMA OldKept ==
  ASSUME Shape, PermitBacked, OfferedIsStored, Grows, NothingNew
  PROVE  PermitBacked' /\ OfferedIsStored'
  <1>1. PermitBacked'
    BY DEF PermitBacked, Grows, NothingNew
  <1>2. ASSUME NEW d \in Contents, artifacts'[d].status = "allowed"
        PROVE  /\ artifacts'[d].at \in Roots
               /\ mirror'[<<artifacts'[d].at, d, artifacts'[d].path>>] # None
    <2>1. artifacts'[d] = artifacts[d] /\ artifacts[d].status = "allowed"
      BY <1>2 DEF NothingNew
    <2>2. <<artifacts[d].at, d, artifacts[d].path>> \in Copies
      BY <2>1 DEF Shape, RowsFit, OfferedIsStored, Copies
    <2>3. QED
      BY <2>1, <2>2 DEF OfferedIsStored, Grows
  <1>3. ASSUME NEW i \in PermitIds, permits'[i].state # "none"
        PROVE  \E k \in Copies : k[2] = permits'[i].digest /\ mirror'[k] # None
    BY <1>3 DEF OfferedIsStored, NothingNew, Grows
  <1>4. QED
    BY <1>1, <1>2, <1>3 DEF OfferedIsStored

-----------------------------------------------------------------------------
(* One lemma for each kind of request: what its step earns.                *)

LEMMA AssessConsistent ==
  ASSUME Shape, Consistent, NEW a \in Assessors, Start(a) \/ (Assess(a) /\ ~Publish(a))
  PROVE  Consistent'
  <1>1. /\ a \in Handlers /\ a \notin Approvers /\ a \notin Revokers
        /\ task \in [Handlers -> Task] /\ Fits(a, task[a])
    BY Kinds DEF Shape, TasksFit
  <1>2. Grows
    BY DEF Assess, Start, Resolve, Download, UpstreamFails, Record, Scan, SandboxEnds, Evaluate,
           SaveDecision, Settle, Grows, tables, disk
  <1>3. NothingNew
    <2>1. CASE Record(a)
      BY <2>1 DEF Record, Shape, RowsFit, NothingNew
    <2>2. CASE Settle(a)
      BY <2>2 DEF Settle, SetStatus, Shape, RowsFit, NothingNew
    <2>3. CASE ~Record(a) /\ ~Settle(a)
      BY <2>3 DEF Assess, Start, Resolve, Download, UpstreamFails, Scan, SandboxEnds, Evaluate,
                  SaveDecision, NothingNew, tables
    <2>4. QED
      BY <2>1, <2>2, <2>3
  <1>4. CASE SaveDecision(a)
    <2>1. AllEarned'
      <3>1. CASE task[a].decision = "allow"
        <4>1. Earned(a, [task[a] EXCEPT !.pc = "promoting"], decisions', approvals', mirror')
          BY <1>1, <1>4, <3>1 DEF SaveDecision, Earned, Publishing, Task
        <4>2. QED
          BY <1>1, <1>2, <1>4, <3>1, <4>1, GoToEarned DEF SaveDecision, Consistent
      <3>2. CASE task[a].decision # "allow"
        <4>1. Earned(a, [task[a] EXCEPT !.pc = "settling"], decisions', approvals', mirror')
          BY <1>1 DEF Earned, Publishing, Task
        <4>2. QED
          BY <1>1, <1>2, <1>4, <3>2, <4>1, GoToEarned DEF SaveDecision, Consistent
      <3>3. QED
        BY <3>1, <3>2
    <2>2. QED
      BY <1>2, <1>3, <2>1, OldKept DEF Consistent
  <1>5. CASE ~SaveDecision(a)
    <2>1. task' = [task EXCEPT ![a] = task'[a]] /\ task'[a].pc \in AssessPhases \ Publishing
      <3>1. CASE Start(a)
        <4>1. PICK q \in Paths, e \in Envs, r \in Routes : \E w \in Declares[q] :
                 task' = [task EXCEPT ![a] =
                    [Idle EXCEPT !.pc = IF r = "pypi" THEN "resolving" ELSE "downloading",
                                 !.path = q, !.env = e, !.wants = w, !.root = r]]
          BY <3>1 DEF Start
        <4>2. PICK w \in Declares[q] :
                 task' = [task EXCEPT ![a] =
                    [Idle EXCEPT !.pc = IF r = "pypi" THEN "resolving" ELSE "downloading",
                                 !.path = q, !.env = e, !.wants = w, !.root = r]]
          BY <4>1
        <4>3. /\ task'[a] = [Idle EXCEPT !.pc = IF r = "pypi" THEN "resolving" ELSE "downloading",
                                         !.path = q, !.env = e, !.wants = w, !.root = r]
              /\ task'[a].pc \in {"resolving", "downloading"}
          BY <1>1, <4>2 DEF Idle
        <4>4. QED
          BY <4>2, <4>3 DEF AssessPhases, Publishing
      <3>2. CASE Resolve(a)
        BY <1>1, <3>2 DEF Resolve, GoTo, Task, AssessPhases, Publishing
      <3>3. CASE Download(a)
        BY <1>1, <3>3 DEF Download, Idle, Task, AssessPhases, Publishing
      <3>4. CASE UpstreamFails(a) \/ Settle(a)
        BY <1>1, <3>4, FinishMoves DEF UpstreamFails, Settle, Idle, AssessPhases, Publishing
      <3>5. CASE Record(a) \/ Scan(a) \/ SandboxEnds(a)
        BY <1>1, <3>5, GoToMoves DEF Record, Scan, SandboxEnds, AssessPhases, Publishing
      <3>6. CASE Evaluate(a)
        <4>1. PICK v \in Verdicts(Mode, task[a].digest \in revocations) :
                 task' = [task EXCEPT ![a] = [task[a] EXCEPT !.pc = "deciding", !.decision = v]]
          BY <3>6 DEF Evaluate
        <4>2. task'[a] = [task[a] EXCEPT !.pc = "deciding", !.decision = v]
          BY <1>1, <4>1
        <4>3. task'[a].pc = "deciding"
          BY <1>1, <4>2 DEF Task
        <4>4. QED
          BY <4>1, <4>2, <4>3 DEF AssessPhases, Publishing
      <3>7. QED
        BY <1>5, <3>1, <3>2, <3>3, <3>4, <3>5, <3>6 DEF Assess
    <2>2. Earned(a, task'[a], decisions', approvals', mirror')
      BY <1>1, <2>1 DEF Earned, AssessPhases, Publishing
    <2>3. AllEarned'
      BY <1>1, <1>2, <2>1, <2>2, StepEarned DEF Consistent
    <2>4. QED
      BY <1>2, <1>3, <2>3, OldKept DEF Consistent
  <1>6. QED
    BY <1>4, <1>5

LEMMA PublishConsistent ==
  ASSUME Shape, Consistent, NEW t \in Assessors \cup Approvers, Publish(t)
  PROVE  Consistent'
  <1>1. /\ t \in Handlers /\ task \in [Handlers -> Task] /\ Fits(t, task[t])
        /\ AllEarned /\ Earned(t, task[t], decisions, approvals, mirror)
    BY Kinds DEF Shape, TasksFit, Consistent, AllEarned
  <1>2. task[t].pc \in Publishing => Copy(t) \in Copies
    BY <1>1, Kinds DEF Publishing, Copy, Copies, Fits, Task, Roots
  <1>3. t \in Assessors => t \notin Approvers
    BY Kinds
  <1>4. CASE Promote(t)
    <2>1. Grows /\ NothingNew
      BY <1>4 DEF Promote, Grows, NothingNew, tables, disk
    <2>2. PICK p \in {"opening", "allowing"} :
             GoTo(t, p) /\ (p = "allowing" => mirror[Copy(t)] # None)
      BY <1>4 DEF Promote
    <2>3. Earned(t, [task[t] EXCEPT !.pc = p], decisions', approvals', mirror')
      BY <1>1, <1>4, <2>2 DEF Promote, At, Earned, Publishing, Copy, Task, tables, disk
    <2>4. AllEarned'
      BY <1>1, <2>1, <2>2, <2>3, GoToEarned
    <2>5. QED
      BY <2>1, <2>4, OldKept DEF Consistent
  <1>5. CASE OpenCopy(t)
    <2>1. Grows /\ NothingNew
      <3>1. task[t].pc \in Publishing
        BY <1>5 DEF OpenCopy, At, Publishing
      <3>2. QED
        BY <1>2, <1>5, <3>1, FirewallAssumption
           DEF FirewallAssumption, OpenCopy, Shape, DiskFits, Grows, NothingNew, tables
    <2>2. CASE Source(t) = None
      <3>1. AllEarned'
        BY <1>1, <1>5, <2>1, <2>2, FinishEarned DEF OpenCopy
      <3>2. QED
        BY <2>1, <3>1, OldKept DEF Consistent
    <2>3. CASE Source(t) # None
      <3>1. task' = [task EXCEPT ![t] = [task[t] EXCEPT !.pc = "copying", !.bytes = Source(t)]]
        BY <1>5, <2>3 DEF OpenCopy
      <3>2. mirror'[Copy(t)] # None
        BY <1>2, <1>5, <2>3, FirewallAssumption
           DEF FirewallAssumption, OpenCopy, At, Publishing, Shape, DiskFits
      <3>3. Earned(t, [task[t] EXCEPT !.pc = "copying", !.bytes = Source(t)],
                   decisions', approvals', mirror')
        BY <1>1, <1>5, <2>3, <3>2 DEF OpenCopy, At, Earned, Publishing, Copy, Task, tables
      <3>4. AllEarned'
        BY <1>1, <2>1, <3>1, <3>3, StepEarned
      <3>5. QED
        BY <2>1, <3>4, OldKept DEF Consistent
    <2>4. QED
      BY <2>2, <2>3
  <1>6. CASE CloseCopy(t)
    <2>1. task[t].bytes # None /\ Copy(t) \in Copies
      BY <1>1, <1>2, <1>6 DEF CloseCopy, At, Publishing, Earned
    <2>2. mirror'[Copy(t)] # None
      BY <1>6, <2>1, FirewallAssumption DEF FirewallAssumption, CloseCopy, Shape, DiskFits
    <2>3. Grows /\ NothingNew
      BY <1>6, <2>1, <2>2 DEF CloseCopy, Shape, DiskFits, Grows, NothingNew, tables
    <2>4. task' = [task EXCEPT ![t] = [task[t] EXCEPT !.pc = "allowing", !.bytes = None]]
      BY <1>6 DEF CloseCopy
    <2>5. Earned(t, [task[t] EXCEPT !.pc = "allowing", !.bytes = None],
                 decisions', approvals', mirror')
      BY <1>1, <1>6, <2>2 DEF CloseCopy, At, Earned, Publishing, Copy, Task, tables
    <2>6. AllEarned'
      BY <1>1, <2>3, <2>4, <2>5, StepEarned
    <2>7. QED
      BY <2>3, <2>6, OldKept DEF Consistent
  <1>7. CASE Allow(t)
    <2>1. Grows
      BY <1>7 DEF Allow, Grows, disk
    <2>2. PICK p \in {"approving", "issuing"} :
             GoTo(t, p) /\ (t \in Approvers => p = "approving")
      BY <1>7 DEF Allow
    <2>3. Earned(t, [task[t] EXCEPT !.pc = p], decisions', approvals', mirror')
      BY <1>1, <1>3, <1>7, <2>2 DEF Allow, At, Earned, Publishing, Task, disk
    <2>4. AllEarned'
      BY <1>1, <2>1, <2>2, <2>3, GoToEarned
    <2>5. PermitBacked'
      BY <1>7 DEF Allow, Consistent, PermitBacked
    <2>6. OfferedIsStored'
      <3>1. task[t].digest \in Contents /\ task[t].root \in Roots /\ Copy(t) \in Copies
        BY <1>1, <1>2, <1>7 DEF Allow, At, Publishing, Fits, Task
      <3>2. mirror' = mirror /\ permits' = permits /\ mirror[Copy(t)] # None
        BY <1>1, <1>7 DEF Allow, At, Earned, Copy, disk
      <3>3. artifacts' = [artifacts EXCEPT ![task[t].digest] =
               [status |-> "allowed", path |-> task[t].path, at |-> task[t].root]]
        BY <1>7 DEF Allow
      <3>4. ASSUME NEW d \in Contents, artifacts'[d].status = "allowed"
            PROVE  /\ artifacts'[d].at \in Roots
                   /\ mirror'[<<artifacts'[d].at, d, artifacts'[d].path>>] # None
        <4>1. CASE d = task[t].digest
          BY <3>1, <3>2, <3>3, <4>1 DEF Copy, Shape, RowsFit
        <4>2. CASE d # task[t].digest
          BY <3>1, <3>2, <3>3, <3>4, <4>2 DEF Consistent, OfferedIsStored, Shape, RowsFit
        <4>3. QED
          BY <4>1, <4>2
      <3>5. QED
        BY <3>2, <3>4 DEF Consistent, OfferedIsStored
    <2>7. QED
      BY <2>4, <2>5, <2>6 DEF Consistent
  <1>8. CASE Issue(t)
    <2>1. Grows
      BY <1>8 DEF Issue, Grows, disk
    <2>2. AllEarned'
      <3>1. Earned(t, [task[t] EXCEPT !.pc = "logging"], decisions', approvals', mirror')
        BY <1>1, <1>8 DEF Issue, At, Earned, Publishing, Task, disk
      <3>2. QED
        BY <1>1, <1>8, <2>1, <3>1, GoToEarned, FinishEarned DEF Issue
    <2>3. PICK i \in PermitIds :
             permits' = [permits EXCEPT ![i] =
                [state |-> "active", digest |-> task[t].digest, env |-> task[t].env]]
      BY <1>8 DEF Issue
    <2>4. /\ <<task[t].digest, task[t].env>> \in approvals
             \/ <<task[t].digest, task[t].env, "allow">> \in decisions
          /\ Copy(t) \in Copies /\ Copy(t)[2] = task[t].digest /\ mirror[Copy(t)] # None
      BY <1>1, <1>2, <1>8 DEF Issue, At, Publishing, Earned, Copy
    <2>5. UNCHANGED <<artifacts, decisions, approvals, mirror>>
      BY <1>8 DEF Issue, disk
    <2>6. PermitBacked'
      BY <2>3, <2>4, <2>5 DEF Consistent, PermitBacked, Shape, PermitsFit
    <2>7. OfferedIsStored'
      BY <2>3, <2>4, <2>5 DEF Consistent, OfferedIsStored, Shape, PermitsFit
    <2>8. QED
      BY <2>2, <2>6, <2>7 DEF Consistent
  <1>9. QED
    BY <1>4, <1>5, <1>6, <1>7, <1>8 DEF Publish

LEMMA ApproveConsistent ==
  ASSUME Shape, Consistent, NEW r \in Approvers, Approve(r) \/ (ApproveReview(r) /\ ~Publish(r))
  PROVE  Consistent'
  <1>1. /\ r \in Handlers /\ r \notin Assessors
        /\ task \in [Handlers -> Task] /\ Fits(r, task[r])
        /\ AllEarned /\ Earned(r, task[r], decisions, approvals, mirror)
    BY Kinds DEF Shape, TasksFit, Consistent, AllEarned
  <1>2. Grows /\ NothingNew
    BY DEF ApproveReview, Approve, Recheck, FindSource, SaveApproval, LogApproval,
           Grows, NothingNew, tables, disk
  <1>3. AllEarned'
    <2>1. CASE Approve(r)
      <3>1. PICK d, e, p, f, root :
               task' = [task EXCEPT ![r] =
                  [Idle EXCEPT !.pc = "checking", !.path = p, !.env = e, !.digest = d,
                               !.from = f, !.root = root]]
        <4>1. PICK d \in Contents, e \in Envs :
                 task' = [task EXCEPT ![r] =
                    [Idle EXCEPT !.pc = "checking", !.path = artifacts[d].path, !.env = e,
                                 !.digest = d, !.from = artifacts[d].at,
                                 !.root = IF artifacts[d].path \in PyPI THEN "pypi" ELSE "files"]]
          BY <2>1 DEF Approve
        <4>2. QED
          BY <4>1
      <3> DEFINE x == [Idle EXCEPT !.pc = "checking", !.path = p, !.env = e, !.digest = d,
                                   !.from = f, !.root = root]
      <3>2. x.pc = "checking"
        BY DEF Idle
      <3>3. Earned(r, x, decisions', approvals', mirror')
        BY <1>1, <3>2 DEF Earned, Publishing
      <3>4. QED
        BY <1>1, <1>2, <3>1, <3>3, StepEarned
    <2>2. CASE Recheck(r)
      <3>1. CASE task[r].digest \in revocations
        BY <1>1, <1>2, <2>2, <3>1, FinishEarned DEF Recheck
      <3>2. CASE task[r].digest \notin revocations
        <4>1. task' = [task EXCEPT ![r] = [task[r] EXCEPT !.pc = "sourcing", !.decision = "allow"]]
          BY <2>2, <3>2 DEF Recheck
        <4>2. Earned(r, [task[r] EXCEPT !.pc = "sourcing", !.decision = "allow"],
                     decisions', approvals', mirror')
          BY <1>1 DEF Earned, Publishing, Task
        <4>3. QED
          BY <1>1, <1>2, <4>1, <4>2, StepEarned
      <3>3. QED
        BY <3>1, <3>2
    <2>3. CASE FindSource(r)
      <3>1. Earned(r, [task[r] EXCEPT !.pc = "promoting"], decisions', approvals', mirror')
        BY <1>1, <2>3 DEF FindSource, At, Earned, Publishing, Task
      <3>2. QED
        BY <1>1, <1>2, <2>3, <3>1, GoToEarned, FinishEarned DEF FindSource
    <2>4. CASE SaveApproval(r)
      <3>1. Earned(r, [task[r] EXCEPT !.pc = "issuing"], decisions', approvals', mirror')
        BY <1>1, <2>4 DEF SaveApproval, At, Earned, Publishing, Task, disk
      <3>2. QED
        BY <1>1, <1>2, <2>4, <3>1, GoToEarned DEF SaveApproval
    <2>5. CASE LogApproval(r)
      BY <1>1, <1>2, <2>5, FinishEarned DEF LogApproval
    <2>6. QED
      BY <2>1, <2>2, <2>3, <2>4, <2>5 DEF ApproveReview
  <1>4. QED
    BY <1>2, <1>3, OldKept DEF Consistent

LEMMA RevokeConsistent ==
  ASSUME Shape, Consistent, NEW v \in Revokers, Revoke(v) \/ RevokeDigest(v)
  PROVE  Consistent'
  <1>1. /\ v \in Handlers /\ v \notin Assessors /\ v \notin Approvers
        /\ task \in [Handlers -> Task] /\ Fits(v, task[v]) /\ AllEarned
    BY Kinds DEF Shape, TasksFit, Consistent
  <1>2. Grows
    BY DEF RevokeDigest, Revoke, VoidPermits, MarkRevoked, Grows, disk
  <1>3. NothingNew
    <2>1. CASE Revoke(v)
      BY <2>1 DEF Revoke, NothingNew
    <2>2. CASE VoidPermits(v)
      <3>1. task[v].digest \in Contents
        BY <1>1, <2>2 DEF VoidPermits, At, Fits
      <3>2. QED
        BY <2>2, <3>1, FirewallAssumption
           DEF FirewallAssumption, VoidPermits, Shape, PermitsFit, Permits, NothingNew
    <2>3. CASE MarkRevoked(v)
      BY <2>3 DEF MarkRevoked, SetStatus, Shape, RowsFit, NothingNew
    <2>4. QED
      BY <2>1, <2>2, <2>3 DEF RevokeDigest
  <1>4. AllEarned'
    <2>1. CASE Revoke(v)
      <3>1. PICK d : task' = [task EXCEPT ![v] = [Idle EXCEPT !.pc = "voiding", !.digest = d]]
        BY <2>1 DEF Revoke
      <3>2. Earned(v, [Idle EXCEPT !.pc = "voiding", !.digest = d], decisions', approvals', mirror')
        BY <1>1 DEF Earned, Idle
      <3>3. QED
        BY <1>1, <1>2, <3>1, <3>2, StepEarned
    <2>2. CASE VoidPermits(v)
      <3>1. Earned(v, [task[v] EXCEPT !.pc = "marking"], decisions', approvals', mirror')
        BY <1>1 DEF Earned, Task
      <3>2. QED
        BY <1>1, <1>2, <2>2, <3>1, GoToEarned DEF VoidPermits
    <2>3. CASE MarkRevoked(v)
      BY <1>1, <1>2, <2>3, FinishEarned DEF MarkRevoked
    <2>4. QED
      BY <2>1, <2>2, <2>3 DEF RevokeDigest
  <1>5. QED
    BY <1>2, <1>3, <1>4, OldKept DEF Consistent

LEMMA InitConsistent == Init => Consistent
  <1> SUFFICES ASSUME Init PROVE Consistent
    OBVIOUS
  <1>1. AllEarned
    BY IdleEarned DEF Init, AllEarned
  <1>2. PermitBacked
    BY DEF Init, PermitBacked
  <1>3. OfferedIsStored
    BY DEF Init, OfferedIsStored
  <1>4. QED
    BY <1>1, <1>2, <1>3 DEF Consistent

LEMMA NextConsistent == Shape /\ Consistent /\ [Next]_vars => Consistent'
  <1> SUFFICES ASSUME Shape, Consistent, [Next]_vars PROVE Consistent'
    OBVIOUS
  <1>1. ASSUME NEW a \in Assessors, Start(a) \/ Assess(a) PROVE Consistent'
    BY <1>1, AssessConsistent, PublishConsistent
  <1>2. ASSUME NEW r \in Approvers, Approve(r) \/ ApproveReview(r) PROVE Consistent'
    BY <1>2, ApproveConsistent, PublishConsistent
  <1>3. ASSUME NEW v \in Revokers, Revoke(v) \/ RevokeDigest(v) PROVE Consistent'
    BY <1>3, RevokeConsistent
  <1>4. CASE (\E t \in Handlers : Raise(t)) \/ Restart
    <2>1. Grows /\ NothingNew
      BY <1>4 DEF Raise, Restart, Grows, NothingNew, tables, disk
    <2>2. AllEarned'
      <3>1. ASSUME NEW t \in Handlers, Raise(t) PROVE AllEarned'
        BY <2>1, <3>1, FinishEarned DEF Raise, Consistent
      <3>2. CASE Restart
        BY <3>2, IdleEarned DEF Restart, AllEarned
      <3>3. QED
        BY <1>4, <3>1, <3>2
    <2>3. QED
      BY <2>1, <2>2, OldKept DEF Consistent
  <1>5. CASE UNCHANGED <<tables, mirror, task>>
    BY <1>5 DEF tables, Consistent, AllEarned, PermitBacked, OfferedIsStored
  <1>6. QED
    BY <1>1, <1>2, <1>3, <1>4, <1>5 DEF Next, Spill, vars, disk

\* No interleaving of assessments, approvals and revocations, and no crash or
\* error at any point of any of them, leaves a permit without the committed
\* allow decision or approval it was issued for: assess_universal and assess
\* commit the decision before save_permit, approve_review the approval.
THEOREM PermitsAreBacked == Spec => []PermitBacked
  <1>1. Consistent => PermitBacked
    BY DEF Consistent
  <1>2. QED
    BY InitShape, NextShape, InitConsistent, NextConsistent, <1>1, PTL DEF Spec

\* Nor does one list a row or issue a permit for a digest that has no file in
\* the mirror: promotion precedes the second upsert, and the mirror only grows.
THEOREM OffersAreStored == Spec => []OfferedIsStored
  <1>1. Consistent => OfferedIsStored
    BY DEF Consistent
  <1>2. QED
    BY InitShape, NextShape, InitConsistent, NextConsistent, <1>1, PTL DEF Spec

=============================================================================
