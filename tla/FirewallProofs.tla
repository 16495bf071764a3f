--------------------------- MODULE FirewallProofs ---------------------------
(***************************************************************************)
(* Proofs about Firewall for every set of contents, paths, requests and    *)
(* permits, any upstream, policy mode, sandbox backend and faults, unless  *)
(* a theorem names what it assumes: types, and whose bytes a file holds.   *)
(***************************************************************************)
EXTENDS Firewall, TLAPS

-----------------------------------------------------------------------------
(* Which phases each kind of request goes through, and what its local      *)
(* state holds in each: TypeOK alone is not inductive, since a row is      *)
(* written from fields that may be None outside these phases.              *)

Publishing == {"promoting", "opening", "copying", "allowing", "issuing"}
AssessPhases == {"idle", "resolving", "downloading", "recording", "scanning",
                 "sandboxing", "checking", "deciding", "settling"} \cup Publishing
ApprovePhases == {"idle", "checking", "sourcing", "approving", "logging"} \cup Publishing
RevokePhases == {"idle", "voiding", "marking"}

Fits(t, x) ==
    /\ x \in Task
    /\ t \in Assessors => x.pc \in AssessPhases
    /\ t \in Approvers => x.pc \in ApprovePhases
    /\ t \in Revokers => x.pc \in RevokePhases
    /\ x.pc # "idle" /\ t \notin Revokers => x.path \in Paths /\ x.env \in Envs
    /\ x.pc \notin {"idle", "resolving", "downloading"} => x.digest \in Contents
    /\ x.pc \in {"resolving", "downloading"} => x.decision = "none" /\ x.digest = None
    /\ x.pc = "resolving" => x.root = "pypi" /\ x.wants \in Declares[x.path]
    /\ x.pc = "idle" => x = Idle
    /\ x.pc = "deciding" => x.decision # "none"

TasksFit == task \in [Handlers -> Task] /\ \A t \in Handlers : Fits(t, task[t])

RowsFit ==
    /\ artifacts \in [Contents -> Rows]
    /\ \A d \in Contents : artifacts[d].status # "absent" => artifacts[d].path \in Paths

LogsFit ==
    /\ scans \subseteq Contents
    /\ decisions \subseteq Contents \X Envs \X {"allow", "review", "deny"}
    /\ approvals \subseteq Contents \X Envs
    /\ revocations \subseteq Contents

PermitsFit ==
    /\ permits \in [PermitIds -> Permits]
    /\ \A i \in PermitIds : permits[i].state = "none" => permits[i].digest = None

DiskFits ==
    /\ quarantine \in [Paths -> Contents \cup {None}]
    /\ mirror \in [Copies -> Contents \cup {None, Torn}]

Shape == RowsFit /\ LogsFit /\ PermitsFit /\ DiskFits /\ TasksFit

-----------------------------------------------------------------------------
(* A handler's step changes its own local state only.                      *)

LEMMA IdleFits == \A t : Fits(t, Idle)
  BY DEF Fits, Idle, Task, Phases, Suspended, Roots, AssessPhases, ApprovePhases, RevokePhases

LEMMA StepFits ==
  ASSUME TasksFit, NEW t \in Handlers, NEW x, Fits(t, x), task' = [task EXCEPT ![t] = x]
  PROVE  TasksFit'
  <1>1. x \in Task
    BY DEF Fits
  <1>2. task' \in [Handlers -> Task]
    BY <1>1 DEF TasksFit
  <1>3. \A u \in Handlers : Fits(u, task'[u])
    BY DEF TasksFit
  <1>4. QED
    BY <1>2, <1>3 DEF TasksFit, Fits

LEMMA FinishFits ==
  ASSUME TasksFit, NEW t \in Handlers, Finish(t)
  PROVE  TasksFit'
  BY IdleFits, StepFits DEF Finish

LEMMA GoToFits ==
  ASSUME TasksFit, NEW t \in Handlers, NEW p, GoTo(t, p), Fits(t, [task[t] EXCEPT !.pc = p])
  PROVE  TasksFit'
  <1>1. task' = [task EXCEPT ![t] = [task[t] EXCEPT !.pc = p]]
    BY DEF GoTo
  <1>2. QED
    BY <1>1, StepFits

\* A kind of request tells its handlers from the others'.
LEMMA Kinds ==
  /\ \A a \in Assessors : a \in Handlers /\ a \notin Approvers /\ a \notin Revokers
  /\ \A r \in Approvers : r \in Handlers /\ r \notin Assessors /\ r \notin Revokers
  /\ \A v \in Revokers : v \in Handlers /\ v \notin Assessors /\ v \notin Approvers
  BY FirewallAssumption DEF FirewallAssumption, Handlers

LEMMA InitShape == Init => Shape
  <1> SUFFICES ASSUME Init PROVE Shape
    OBVIOUS
  <1>1. TasksFit
    BY IdleFits DEF Init, TasksFit, Fits
  <1>2. RowsFit
    BY DEF Init, RowsFit, Rows
  <1>3. LogsFit /\ PermitsFit /\ DiskFits
    BY DEF Init, LogsFit, PermitsFit, DiskFits, Permits
  <1>4. QED
    BY <1>1, <1>2, <1>3 DEF Shape

-----------------------------------------------------------------------------
(* Each step keeps the shape: what it makes of its handler's local state,  *)
(* then what it writes into the tables and the disk.                       *)

LEMMA SameTables == Shape /\ UNCHANGED tables => (RowsFit /\ LogsFit /\ PermitsFit)'
  BY DEF Shape, tables, RowsFit, LogsFit, PermitsFit

LEMMA SameDisk == Shape /\ UNCHANGED disk => DiskFits'
  BY DEF Shape, disk, DiskFits

LEMMA AssessShape ==
  ASSUME Shape, NEW a \in Assessors, Start(a) \/ (Assess(a) /\ ~Publish(a))
  PROVE  Shape'
  <1>1. /\ a \in Handlers /\ a \notin Approvers /\ a \notin Revokers
        /\ TasksFit /\ task \in [Handlers -> Task] /\ Fits(a, task[a])
    BY Kinds DEF Shape, TasksFit
  <1> USE <1>1
  <1>2. CASE Start(a)
    <2>1. PICK p \in Paths, e \in Envs, r \in Routes, w \in SUBSET Contents,
               q \in {"resolving", "downloading"} :
             /\ q = "resolving" => r = "pypi"
             /\ w \in Declares[p]
             /\ task' = [task EXCEPT ![a] =
                   [Idle EXCEPT !.pc = q, !.path = p, !.env = e, !.wants = w, !.root = r]]
      BY <1>2, FirewallAssumption DEF Start
    <2>2. r \in Roots
      BY FirewallAssumption DEF FirewallAssumption
    <2> DEFINE x == [Idle EXCEPT !.pc = q, !.path = p, !.env = e, !.wants = w, !.root = r]
    <2>3. Fits(a, x)
      <3>1. Idle \in Task
        BY DEF Idle, Task, Phases, Suspended, Roots
      <3>2. x \in Task
        BY <2>2, <3>1 DEF Task, Phases, Suspended
      <3>3. /\ x.pc = q /\ x.path = p /\ x.env = e /\ x.decision = "none" /\ x.digest = None /\ x.root = r
          /\ x.wants = w
        BY <3>1 DEF Idle, Task
      <3>4. QED
        BY <2>1, <3>2, <3>3 DEF Fits, AssessPhases
    <2>4. TasksFit'
      BY <2>1, <2>3, StepFits
    <2>5. QED
      BY <1>2, <2>4, SameTables, SameDisk DEF Start, Shape
  <1>3. CASE Resolve(a)
    <2> DEFINE p == task[a].path
               held == quarantine[p]
    <2>1. p \in Paths
      BY <1>3 DEF Resolve, At, Fits
    <2>2. CASE held \in task[a].wants
      <3>1. held \in Contents
        BY <2>2 DEF Fits, Task
      <3>2. Fits(a, [task[a] EXCEPT !.pc = "recording", !.digest = held])
        BY <1>3, <3>1 DEF Resolve, At, Fits, Task, Phases, Suspended, Publishing,
         AssessPhases, ApprovePhases, RevokePhases
      <3>3. task' = [task EXCEPT ![a] = [task[a] EXCEPT !.pc = "recording", !.digest = held]]
        BY <1>3, <2>2 DEF Resolve
      <3>4. TasksFit'
        BY <3>2, <3>3, StepFits
      <3>5. UNCHANGED disk
        BY <1>3, <2>2 DEF Resolve, disk
      <3>6. QED
        BY <1>3, <3>4, <3>5, SameTables, SameDisk DEF Resolve, Shape
    <2>3. CASE held \notin task[a].wants
      <3>1. GoTo(a, "downloading") /\ quarantine' = [quarantine EXCEPT ![p] = None]
        BY <1>3, <2>3 DEF Resolve
      <3>2. Fits(a, [task[a] EXCEPT !.pc = "downloading"])
        BY <1>3 DEF Resolve, At, Fits, Task, Phases, Suspended, Publishing,
         AssessPhases, ApprovePhases, RevokePhases
      <3>3. TasksFit'
        BY <3>1, <3>2, GoToFits
      <3>4. DiskFits'
        BY <1>3, <3>1 DEF Resolve, Shape, DiskFits
      <3>5. QED
        BY <1>3, <3>3, <3>4, SameTables DEF Resolve, Shape
    <2>4. QED
      BY <2>2, <2>3
  <1>4. CASE Download(a)
    <2> DEFINE p == task[a].path
    <2>1. PICK c \in Serves[p] :
            /\ quarantine' = IF c \in task[a].wants \/ task[a].root = "files"
                             THEN [quarantine EXCEPT ![p] = c] ELSE quarantine
            /\ task' = [task EXCEPT ![a] =
                  IF c \in task[a].wants THEN [@ EXCEPT !.pc = "recording", !.digest = c] ELSE Idle]
      BY <1>4 DEF Download
    <2>2. p \in Paths /\ c \in Contents
      BY <1>4, FirewallAssumption DEF FirewallAssumption, Download, At, Fits
    <2>3. Fits(a, [task[a] EXCEPT !.pc = "recording", !.digest = c])
      BY <1>4, <2>2 DEF Download, At, Fits, Task, Phases, Suspended, Publishing,
         AssessPhases, ApprovePhases, RevokePhases
    <2>4. TasksFit'
      <3>1. CASE c \in task[a].wants
        <4>1. task' = [task EXCEPT ![a] = [task[a] EXCEPT !.pc = "recording", !.digest = c]]
          BY <2>1, <3>1
        <4>2. QED
          BY <2>3, <4>1, StepFits
      <3>2. CASE c \notin task[a].wants
        BY <2>1, <3>2, FinishFits DEF Finish
      <3>3. QED
        BY <3>1, <3>2
    <2>5. DiskFits'
      BY <1>4, <2>1, <2>2 DEF Download, Shape, DiskFits
    <2>6. QED
      BY <1>4, <2>4, <2>5, SameTables DEF Download, Shape
  <1>5. CASE UpstreamFails(a)
    BY <1>5, FinishFits, SameTables, SameDisk DEF UpstreamFails, Shape
  <1>6. CASE Record(a)
    <2>1. task[a].digest \in Contents /\ task[a].path \in Paths
      BY <1>6 DEF Record, At, Fits
    <2>2. Fits(a, [task[a] EXCEPT !.pc = "scanning"])
      BY <1>6 DEF Record, At, Fits, Task, Phases, Suspended, Publishing,
         AssessPhases, ApprovePhases, RevokePhases
    <2>3. TasksFit'
      BY <1>6, <2>2, GoToFits DEF Record
    <2>4. RowsFit'
      BY <1>6, <2>1 DEF Record, Shape, RowsFit, Rows
    <2>5. LogsFit' /\ PermitsFit' /\ DiskFits'
      BY <1>6, SameDisk DEF Record, Shape, LogsFit, PermitsFit
    <2>6. QED
      BY <2>3, <2>4, <2>5 DEF Shape
  <1>7. CASE Scan(a)
    <2>1. task[a].digest \in Contents
      BY <1>7 DEF Scan, At, Fits
    <2>2. \A p \in {"checking", "sandboxing"} : Fits(a, [task[a] EXCEPT !.pc = p])
      BY <1>7 DEF Scan, At, Fits, Task, Phases, Suspended, Publishing,
         AssessPhases, ApprovePhases, RevokePhases
    <2>3. TasksFit'
      BY <1>7, <2>2, GoToFits DEF Scan
    <2>4. RowsFit' /\ LogsFit' /\ PermitsFit' /\ DiskFits'
      BY <1>7, <2>1, SameDisk DEF Scan, Shape, RowsFit, LogsFit, PermitsFit
    <2>5. QED
      BY <2>3, <2>4 DEF Shape
  <1>8. CASE SandboxEnds(a)
    <2>1. Fits(a, [task[a] EXCEPT !.pc = "checking"])
      BY <1>8 DEF SandboxEnds, At, Fits, Task, Phases, Suspended, Publishing,
         AssessPhases, ApprovePhases, RevokePhases
    <2>2. TasksFit'
      BY <1>8, <2>1, GoToFits DEF SandboxEnds
    <2>3. QED
      BY <1>8, <2>2, SameTables, SameDisk DEF SandboxEnds, Shape
  <1>9. CASE Evaluate(a)
    <2>1. PICK v \in {"allow", "review", "deny"} :
             task' = [task EXCEPT ![a] = [task[a] EXCEPT !.pc = "deciding", !.decision = v]]
      BY <1>9, FirewallAssumption DEF FirewallAssumption, Modes, Evaluate, Verdicts
    <2>2. Fits(a, [task[a] EXCEPT !.pc = "deciding", !.decision = v])
      BY <1>9 DEF Evaluate, At, Fits, Task, Phases, Suspended, Publishing,
         AssessPhases, ApprovePhases, RevokePhases
    <2>3. TasksFit'
      BY <2>1, <2>2, StepFits
    <2>4. QED
      BY <1>9, <2>3, SameTables, SameDisk DEF Evaluate, Shape
  <1>10. CASE SaveDecision(a)
    <2>1. /\ task[a].digest \in Contents
          /\ task[a].env \in Envs
          /\ task[a].decision \in {"allow", "review", "deny"}
      BY <1>10 DEF SaveDecision, At, Fits, Task
    <2>2. \A p \in {"promoting", "settling"} : Fits(a, [task[a] EXCEPT !.pc = p])
      BY <1>10 DEF SaveDecision, At, Fits, Task, Phases, Suspended, Publishing,
         AssessPhases, ApprovePhases, RevokePhases
    <2>3. TasksFit'
      BY <1>10, <2>2, GoToFits DEF SaveDecision
    <2>4. RowsFit' /\ LogsFit' /\ PermitsFit' /\ DiskFits'
      BY <1>10, <2>1, SameDisk DEF SaveDecision, Shape, RowsFit, LogsFit, PermitsFit
    <2>5. QED
      BY <2>3, <2>4 DEF Shape
  <1>11. CASE Settle(a)
    <2>1. task[a].digest \in Contents
      BY <1>11 DEF Settle, At, Fits
    <2>2. TasksFit'
      BY <1>11, FinishFits DEF Settle
    <2>3. RowsFit'
      BY <1>11, <2>1 DEF Settle, SetStatus, Shape, RowsFit, Rows
    <2>4. LogsFit' /\ PermitsFit' /\ DiskFits'
      BY <1>11, SameDisk DEF Settle, Shape, LogsFit, PermitsFit
    <2>5. QED
      BY <2>2, <2>3, <2>4 DEF Shape
  <1>12. QED
    BY <1>2, <1>3, <1>4, <1>5, <1>6, <1>7, <1>8, <1>9, <1>10, <1>11 DEF Assess

LEMMA PublishShape ==
  ASSUME Shape, NEW t \in Assessors \cup Approvers, Publish(t)
  PROVE  Shape'
  <1>1. /\ t \in Handlers /\ t \notin Revokers
        /\ TasksFit /\ task \in [Handlers -> Task] /\ Fits(t, task[t])
    BY Kinds DEF Shape, TasksFit
  <1> USE <1>1
  <1>2. task[t].pc \in Publishing => Copy(t) \in Copies
    BY DEF Publishing, Copy, Copies, Fits, Task, Roots
  <1>3. CASE Promote(t)
    <2>1. \A p \in {"opening", "allowing"} : Fits(t, [task[t] EXCEPT !.pc = p])
      BY <1>3 DEF Promote, At, Fits, Task, Phases, Suspended, Publishing,
         AssessPhases, ApprovePhases, RevokePhases
    <2>2. TasksFit'
      BY <1>3, <2>1, GoToFits DEF Promote
    <2>3. QED
      BY <1>3, <2>2, SameTables, SameDisk DEF Promote, Shape
  <1>4. CASE OpenCopy(t)
    <2>1. CASE Source(t) = None
      <3>1. TasksFit'
        BY <1>4, <2>1, FinishFits DEF OpenCopy
      <3>2. UNCHANGED disk
        BY <1>4, <2>1 DEF OpenCopy, disk
      <3>3. QED
        BY <1>4, <3>1, <3>2, SameTables, SameDisk DEF OpenCopy, Shape
    <2>2. CASE Source(t) # None
      <3>1. Copy(t) \in Copies /\ task[t].path \in Paths /\ task[t].digest \in Contents
        BY <1>2, <1>4 DEF OpenCopy, At, Publishing, Fits
      <3>2. Source(t) \in Contents \cup {Torn}
        <4>1. CASE task[t].from = "quarantine"
          BY <2>2, <3>1, <4>1 DEF Source, Shape, DiskFits
        <4>2. CASE task[t].from # "quarantine"
          <5>1. task[t].from \in Roots
            BY <4>2 DEF Task
          <5>2. <<task[t].from, task[t].digest, task[t].path>> \in Copies
            BY <3>1, <5>1 DEF Copies
          <5>3. QED
            BY <2>2, <4>2, <5>2 DEF Source, Shape, DiskFits
        <4>3. QED
          BY <4>1, <4>2
      <3>3. Fits(t, [task[t] EXCEPT !.pc = "copying", !.bytes = Source(t)])
        BY <1>4, <3>2 DEF OpenCopy, At, Fits, Task, Phases, Suspended, Publishing,
         AssessPhases, ApprovePhases, RevokePhases
      <3>4. task' = [task EXCEPT ![t] = [task[t] EXCEPT !.pc = "copying", !.bytes = Source(t)]]
        BY <1>4, <2>2 DEF OpenCopy
      <3>5. TasksFit'
        BY <3>3, <3>4, StepFits
      <3>6. DiskFits'
        BY <1>4, <2>2, <3>1 DEF OpenCopy, Shape, DiskFits
      <3>7. QED
        BY <1>4, <3>5, <3>6, SameTables DEF OpenCopy, Shape
    <2>3. QED
      BY <2>1, <2>2
  <1>5. CASE CloseCopy(t)
    <2>1. Copy(t) \in Copies /\ task[t].bytes \in Contents \cup {None, Torn}
      BY <1>2, <1>5 DEF CloseCopy, At, Publishing, Fits, Task
    <2>2. Fits(t, [task[t] EXCEPT !.pc = "allowing", !.bytes = None])
      BY <1>5 DEF CloseCopy, At, Fits, Task, Phases, Suspended, Publishing,
         AssessPhases, ApprovePhases, RevokePhases
    <2>3. task' = [task EXCEPT ![t] = [task[t] EXCEPT !.pc = "allowing", !.bytes = None]]
      BY <1>5 DEF CloseCopy
    <2>4. TasksFit'
      BY <2>2, <2>3, StepFits
    <2>5. DiskFits'
      BY <1>5, <2>1 DEF CloseCopy, Shape, DiskFits
    <2>6. QED
      BY <1>5, <2>4, <2>5, SameTables DEF CloseCopy, Shape
  <1>6. CASE Allow(t)
    <2>1. task[t].digest \in Contents /\ task[t].path \in Paths /\ task[t].root \in Roots
      BY <1>6 DEF Allow, At, Fits, Task
    <2>2. t \in Approvers => Fits(t, [task[t] EXCEPT !.pc = "approving"])
      BY <1>6, Kinds DEF Allow, At, Fits, Task, Phases, Suspended, Publishing,
         AssessPhases, ApprovePhases, RevokePhases
    <2>3. t \notin Approvers => Fits(t, [task[t] EXCEPT !.pc = "issuing"])
      BY <1>6 DEF Allow, At, Fits, Task, Phases, Suspended, Publishing,
         AssessPhases, ApprovePhases, RevokePhases
    <2>4. TasksFit'
      BY <1>6, <2>2, <2>3, GoToFits DEF Allow
    <2>5. RowsFit'
      BY <1>6, <2>1 DEF Allow, Shape, RowsFit, Rows
    <2>6. LogsFit' /\ PermitsFit' /\ DiskFits'
      BY <1>6, SameDisk DEF Allow, Shape, LogsFit, PermitsFit
    <2>7. QED
      BY <2>4, <2>5, <2>6 DEF Shape
  <1>7. CASE Issue(t)
    <2>1. task[t].digest \in Contents /\ task[t].env \in Envs
      BY <1>7 DEF Issue, At, Fits
    <2>2. t \in Approvers => Fits(t, [task[t] EXCEPT !.pc = "logging"])
      BY <1>7, Kinds DEF Issue, At, Fits, Task, Phases, Suspended, Publishing,
         AssessPhases, ApprovePhases, RevokePhases
    <2>3. TasksFit'
      BY <1>7, <2>2, GoToFits, FinishFits DEF Issue
    <2>4. PermitsFit'
      BY <1>7, <2>1 DEF Issue, Shape, PermitsFit, Permits
    <2>5. RowsFit' /\ LogsFit' /\ DiskFits'
      BY <1>7, SameDisk DEF Issue, Shape, RowsFit, LogsFit
    <2>6. QED
      BY <2>3, <2>4, <2>5 DEF Shape
  <1>8. QED
    BY <1>3, <1>4, <1>5, <1>6, <1>7 DEF Publish

LEMMA ApproveShape ==
  ASSUME Shape, NEW r \in Approvers, Approve(r) \/ (ApproveReview(r) /\ ~Publish(r))
  PROVE  Shape'
  <1>1. /\ r \in Handlers /\ r \notin Assessors /\ r \notin Revokers
        /\ TasksFit /\ task \in [Handlers -> Task] /\ Fits(r, task[r])
    BY Kinds DEF Shape, TasksFit
  <1> USE <1>1
  <1>2. CASE Approve(r)
    <2>1. PICK d \in Contents, e \in Envs :
             /\ artifacts[d].status = "review"
             /\ task' = [task EXCEPT ![r] =
                   [Idle EXCEPT !.pc = "checking", !.path = artifacts[d].path, !.env = e,
                                !.digest = d, !.from = artifacts[d].at,
                                !.root = IF artifacts[d].path \in PyPI THEN "pypi" ELSE "files"]]
      BY <1>2 DEF Approve
    <2> DEFINE p == artifacts[d].path
               root == IF p \in PyPI THEN "pypi" ELSE "files"
               x == [Idle EXCEPT !.pc = "checking", !.path = p, !.env = e, !.digest = d,
                                 !.from = artifacts[d].at, !.root = root]
    <2>2. p \in Paths /\ artifacts[d].at \in Roots \cup {"quarantine"} /\ root \in Roots
      BY <2>1 DEF Shape, RowsFit, Rows, Roots
    <2>3. Fits(r, x)
      <3> HIDE DEF p, root
      <3>1. Idle \in Task
        BY DEF Idle, Task, Phases, Suspended, Roots
      <3>2. x \in Task
        BY <2>2, <3>1 DEF Task, Phases, Suspended
      <3>3. x.pc = "checking" /\ x.path = p /\ x.env = e /\ x.digest = d
        BY <3>1 DEF Task
      <3>4. QED
        BY <2>2, <3>2, <3>3 DEF Fits, ApprovePhases
    <2>4. TasksFit'
      BY <2>1, <2>3, StepFits
    <2>5. QED
      BY <1>2, <2>4, SameTables, SameDisk DEF Approve, Shape
  <1>3. CASE Recheck(r)
    <2>1. Fits(r, [task[r] EXCEPT !.pc = "sourcing", !.decision = "allow"])
      BY <1>3 DEF Recheck, At, Fits, Task, Phases, Suspended, Publishing,
         AssessPhases, ApprovePhases, RevokePhases
    <2>2. TasksFit'
      <3>1. CASE task[r].digest \in revocations
        BY <1>3, <3>1, FinishFits DEF Recheck
      <3>2. CASE task[r].digest \notin revocations
        <4>1. task' = [task EXCEPT ![r] = [task[r] EXCEPT !.pc = "sourcing", !.decision = "allow"]]
          BY <1>3, <3>2 DEF Recheck
        <4>2. QED
          BY <2>1, <4>1, StepFits
      <3>3. QED
        BY <3>1, <3>2
    <2>3. QED
      BY <1>3, <2>2, SameTables, SameDisk DEF Recheck, Shape
  <1>4. CASE FindSource(r)
    <2>1. Fits(r, [task[r] EXCEPT !.pc = "promoting"])
      BY <1>4 DEF FindSource, At, Fits, Task, Phases, Suspended, Publishing,
         AssessPhases, ApprovePhases, RevokePhases
    <2>2. TasksFit'
      BY <1>4, <2>1, GoToFits, FinishFits DEF FindSource
    <2>3. QED
      BY <1>4, <2>2, SameTables, SameDisk DEF FindSource, Shape
  <1>5. CASE SaveApproval(r)
    <2>1. task[r].digest \in Contents /\ task[r].env \in Envs
      BY <1>5 DEF SaveApproval, At, Fits
    <2>2. Fits(r, [task[r] EXCEPT !.pc = "issuing"])
      BY <1>5 DEF SaveApproval, At, Fits, Task, Phases, Suspended, Publishing,
         AssessPhases, ApprovePhases, RevokePhases
    <2>3. TasksFit'
      BY <1>5, <2>2, GoToFits DEF SaveApproval
    <2>4. RowsFit' /\ LogsFit' /\ PermitsFit' /\ DiskFits'
      BY <1>5, <2>1, SameDisk DEF SaveApproval, Shape, RowsFit, LogsFit, PermitsFit
    <2>5. QED
      BY <2>3, <2>4 DEF Shape
  <1>6. CASE LogApproval(r)
    <2>1. task[r].digest \in Contents /\ task[r].env \in Envs
      BY <1>6 DEF LogApproval, At, Fits
    <2>2. TasksFit'
      BY <1>6, FinishFits DEF LogApproval
    <2>3. RowsFit' /\ LogsFit' /\ PermitsFit' /\ DiskFits'
      BY <1>6, <2>1, SameDisk DEF LogApproval, Shape, RowsFit, LogsFit, PermitsFit
    <2>4. QED
      BY <2>2, <2>3 DEF Shape
  <1>7. QED
    BY <1>2, <1>3, <1>4, <1>5, <1>6 DEF ApproveReview

LEMMA RevokeShape ==
  ASSUME Shape, NEW v \in Revokers, Revoke(v) \/ RevokeDigest(v)
  PROVE  Shape'
  <1>1. /\ v \in Handlers /\ v \notin Assessors /\ v \notin Approvers
        /\ TasksFit /\ task \in [Handlers -> Task] /\ Fits(v, task[v])
    BY Kinds DEF Shape, TasksFit
  <1> USE <1>1
  <1>2. CASE Revoke(v)
    <2>1. PICK d \in Contents :
             /\ revocations' = revocations \cup {d}
             /\ task' = [task EXCEPT ![v] = [Idle EXCEPT !.pc = "voiding", !.digest = d]]
      BY <1>2 DEF Revoke
    <2>2. Fits(v, [Idle EXCEPT !.pc = "voiding", !.digest = d])
      <3>1. Idle \in Task
        BY DEF Idle, Task, Phases, Suspended, Roots
      <3> DEFINE x == [Idle EXCEPT !.pc = "voiding", !.digest = d]
      <3>2. x \in Task
        BY <3>1 DEF Task, Phases
      <3>3. x.pc = "voiding" /\ x.digest = d
        BY <3>1 DEF Task
      <3>4. QED
        BY <3>2, <3>3 DEF Fits, RevokePhases
    <2>3. TasksFit'
      BY <2>1, <2>2, StepFits
    <2>4. RowsFit' /\ LogsFit' /\ PermitsFit' /\ DiskFits'
      BY <1>2, <2>1, SameDisk DEF Revoke, Shape, RowsFit, LogsFit, PermitsFit
    <2>5. QED
      BY <2>3, <2>4 DEF Shape
  <1>3. CASE VoidPermits(v)
    <2>1. task[v].digest \in Contents
      BY <1>3 DEF VoidPermits, At, Fits
    <2>2. Fits(v, [task[v] EXCEPT !.pc = "marking"])
      BY <1>3 DEF VoidPermits, At, Fits, Task, Phases, Suspended, Publishing,
         AssessPhases, ApprovePhases, RevokePhases
    <2>3. TasksFit'
      BY <1>3, <2>2, GoToFits DEF VoidPermits
    <2>4. PermitsFit'
      BY <1>3, <2>1, FirewallAssumption
         DEF FirewallAssumption, VoidPermits, Shape, PermitsFit, Permits
    <2>5. RowsFit' /\ LogsFit' /\ DiskFits'
      BY <1>3, SameDisk DEF VoidPermits, Shape, RowsFit, LogsFit
    <2>6. QED
      BY <2>3, <2>4, <2>5 DEF Shape
  <1>4. CASE MarkRevoked(v)
    <2>1. task[v].digest \in Contents
      BY <1>4 DEF MarkRevoked, At, Fits
    <2>2. TasksFit'
      BY <1>4, FinishFits DEF MarkRevoked
    <2>3. RowsFit'
      BY <1>4, <2>1 DEF MarkRevoked, SetStatus, Shape, RowsFit, Rows
    <2>4. LogsFit' /\ PermitsFit' /\ DiskFits'
      BY <1>4, SameDisk DEF MarkRevoked, Shape, LogsFit, PermitsFit
    <2>5. QED
      BY <2>2, <2>3, <2>4 DEF Shape
  <1>5. QED
    BY <1>2, <1>3, <1>4 DEF RevokeDigest

LEMMA ServesContents == \A p \in Paths : Serves[p] \subseteq Contents
  BY FirewallAssumption

LEMMA SpillShape ==
  ASSUME Shape, NEW a \in Assessors, Spill(a)
  PROVE  Shape'
  <1>1. a \in Handlers /\ Fits(a, task[a])
    BY Kinds DEF Shape, TasksFit
  <1>2. task[a].path \in Paths
    BY <1>1, Kinds DEF Spill, At, Fits
  <1>3. PICK c \in Contents : quarantine' = [quarantine EXCEPT ![task[a].path] = c]
    BY <1>2, ServesContents DEF Spill
  <1>4. DiskFits'
    BY <1>3 DEF Spill, Shape, DiskFits
  <1>5. TasksFit'
    BY DEF Spill, Shape, TasksFit, Fits
  <1>6. QED
    BY <1>4, <1>5, SameTables DEF Spill, Shape

LEMMA NextShape == Shape /\ [Next]_vars => Shape'
  <1> SUFFICES ASSUME Shape, [Next]_vars PROVE Shape'
    OBVIOUS
  <1>1. ASSUME NEW a \in Assessors, Start(a) \/ Assess(a) PROVE Shape'
    BY <1>1, AssessShape, PublishShape
  <1>2. ASSUME NEW r \in Approvers, Approve(r) \/ ApproveReview(r) PROVE Shape'
    BY <1>2, ApproveShape, PublishShape
  <1>3. ASSUME NEW v \in Revokers, Revoke(v) \/ RevokeDigest(v) PROVE Shape'
    BY <1>3, RevokeShape
  <1>4. ASSUME NEW t \in Handlers, Raise(t) PROVE Shape'
    BY <1>4, FinishFits, SameTables, SameDisk DEF Raise, Shape
  <1>5. CASE Restart
    <2>1. TasksFit'
      BY <1>5, IdleFits DEF Restart, TasksFit, Fits
    <2>2. QED
      BY <1>5, <2>1, SameTables, SameDisk DEF Restart, Shape
  <1>6. CASE UNCHANGED vars
    <2>1. TasksFit'
      BY <1>6 DEF vars, Shape, TasksFit, Fits
    <2>2. QED
      BY <1>6, <2>1, SameTables, SameDisk DEF vars, Shape
  <1>7. QED
    BY <1>1, <1>2, <1>3, <1>4, <1>5, <1>6, SpillShape DEF Next

\* Whatever the requests do and however they overlap, the tables, the two
\* trees and every request's local state keep the values the code expects: in
\* particular no row, log entry or permit is ever written from a field that
\* was not set.
THEOREM TypeCorrect == Spec => []TypeOK
  <1>1. Shape => TypeOK
    BY DEF Shape, RowsFit, LogsFit, PermitsFit, DiskFits, TasksFit, TypeOK
  <1>2. QED
    BY InitShape, NextShape, <1>1, PTL DEF Spec

-----------------------------------------------------------------------------
(* Without the sandbox no assessment is suspended once it has hashed its   *)
(* bytes, and only one is between two awaits: nobody replaces them.        *)

Serial ==
    /\ \A a \in Assessors :
          /\ task[a].pc # "sandboxing"
          /\ task[a].digest # None => task[a].pc \notin {"idle", "resolving", "downloading"}
    /\ \A a, b \in Assessors : task[a].pc \notin Suspended /\ task[b].pc \notin Suspended => a = b

Loop == Serial /\ LoopKeepsBytes

\* The steps of other handlers, and an end of all.
LEMMA LoopUntouched ==
  ASSUME Loop, UNCHANGED quarantine,
         \A a \in Assessors : task'[a] = task[a] \/ task'[a] = Idle
  PROVE  Loop'
  BY DEF Loop, Serial, LoopKeepsBytes, Idle, Suspended

\* An assessment that leaves the files alone waits without a digest, or holds the
\* loop and goes on holding it.
LEMMA LoopGoesOn ==
  ASSUME Shape, Loop, UNCHANGED quarantine, NEW a \in Assessors, NEW x,
         task' = [task EXCEPT ![a] = x],
         \/ x.digest = None /\ x.pc \in {"idle", "resolving", "downloading"}
         \/ /\ task[a].pc \notin Suspended /\ x.pc \notin Suspended
            /\ x.digest = task[a].digest /\ x.path = task[a].path
  PROVE  Loop'
  <1>1. task'[a] = x /\ \A b \in Assessors \ {a} : task'[b] = task[b]
    BY Kinds DEF Shape, TasksFit
  <1>2. QED
    BY <1>1 DEF Loop, Serial, LoopKeepsBytes, Suspended

\* An assessment that resumes, and may write its path: no other one has a digest.
LEMMA LoopResumes ==
  ASSUME Shape, Loop, NEW a \in Assessors, NEW x, LoopFree(a),
         task[a].pc \in {"resolving", "downloading"},
         task' = [task EXCEPT ![a] = x], \A p \in Paths \ {x.path} : quarantine'[p] = quarantine[p],
         \/ x.digest = None /\ x.pc \in {"idle", "resolving", "downloading"}
         \/ x.pc = "recording" /\ x.path \in Paths /\ quarantine'[x.path] = x.digest
  PROVE  Loop'
  <1>1. task'[a] = x /\ \A b \in Assessors \ {a} : task'[b] = task[b]
    BY Kinds DEF Shape, TasksFit
  <1>2. \A b \in Assessors \ {a} : task[b].digest = None /\ task[b].pc \in Suspended
    BY DEF LoopFree, Loop, Serial, Suspended
  <1>3. QED
    BY <1>1, <1>2 DEF Loop, Serial, LoopKeepsBytes, Suspended

LEMMA LoopAssess ==
  ASSUME Shape, Loop, SandboxBackend = "none", NEW a \in Assessors, Start(a) \/ Spill(a) \/ Assess(a)
  PROVE  Loop'
  <1>1. task \in [Handlers -> Task] /\ a \in Handlers /\ task[a] \in Task /\ Fits(a, task[a])
    BY Kinds DEF Shape, TasksFit
  <1>2. Idle.digest = None /\ Idle.pc = "idle"
    BY DEF Idle
  <1>3. CASE Start(a)
    <2>1. PICK p \in Paths, e \in Envs, r \in Routes :
             \E w \in Declares[p] : task' = [task EXCEPT ![a] =
                [Idle EXCEPT !.pc = IF r = "pypi" THEN "resolving" ELSE "downloading",
                             !.path = p, !.env = e, !.wants = w, !.root = r]]
      BY <1>3 DEF Start
    <2>2. PICK w \in Declares[p] : task' = [task EXCEPT ![a] =
                [Idle EXCEPT !.pc = IF r = "pypi" THEN "resolving" ELSE "downloading",
                             !.path = p, !.env = e, !.wants = w, !.root = r]]
      BY <2>1
    <2> DEFINE x == [Idle EXCEPT !.pc = IF r = "pypi" THEN "resolving" ELSE "downloading",
                                 !.path = p, !.env = e, !.wants = w, !.root = r]
    <2>3. x.digest = None /\ x.pc \in {"resolving", "downloading"}
      BY DEF Idle
    <2>4. QED
      BY <1>3, <2>2, <2>3, LoopGoesOn DEF Start, disk
  <1>4. CASE Spill(a)
    <2>1. LoopFree(a) /\ task[a].pc = "downloading" /\ task' = task /\ task[a].digest = None
      BY <1>4 DEF Spill, At, Loop, Serial
    <2>2. task' = [task EXCEPT ![a] = task[a]]
      BY <1>1, <2>1
    <2>3. \A p \in Paths \ {task[a].path} : quarantine'[p] = quarantine[p]
      BY <1>4 DEF Spill, Shape, DiskFits
    <2>4. QED
      BY <2>1, <2>2, <2>3, LoopResumes
  <1>5. CASE Resolve(a)
    <2>1. LoopFree(a) /\ task[a].pc = "resolving" /\ task[a].digest = None /\ task[a].path \in Paths
      BY <1>1, <1>5, Kinds DEF Resolve, At, Loop, Serial, Fits
    <2>2. \A p \in Paths \ {task[a].path} : quarantine'[p] = quarantine[p]
      BY <1>5 DEF Resolve, Shape, DiskFits
    <2>3. CASE quarantine[task[a].path] \in task[a].wants
      <3> DEFINE x == [task[a] EXCEPT !.pc = "recording", !.digest = quarantine[task[a].path]]
      <3>1. task' = [task EXCEPT ![a] = x] /\ quarantine' = quarantine
        BY <1>1, <1>5, <2>3 DEF Resolve
      <3>2. x.pc = "recording" /\ x.path = task[a].path /\ x.digest = quarantine[task[a].path]
        BY <1>1 DEF Task
      <3>3. QED
        BY <2>1, <2>2, <3>1, <3>2, LoopResumes
    <2>4. CASE quarantine[task[a].path] \notin task[a].wants
      <3> DEFINE x == [task[a] EXCEPT !.pc = "downloading"]
      <3>1. task' = [task EXCEPT ![a] = x]
        BY <1>5, <2>4 DEF Resolve, GoTo
      <3>2. x.pc = "downloading" /\ x.path = task[a].path /\ x.digest = None
        BY <1>1, <2>1 DEF Task
      <3>3. QED
        BY <2>1, <2>2, <3>1, <3>2, LoopResumes
    <2>5. QED
      BY <2>3, <2>4
  <1>6. CASE Download(a)
    <2>1. LoopFree(a) /\ task[a].pc = "downloading" /\ task[a].path \in Paths
      BY <1>1, <1>6, Kinds DEF Download, At, Fits
    <2>2. PICK c \in Serves[task[a].path] :
             LET p == task[a].path
                 good == c \in task[a].wants
             IN  /\ quarantine' = IF good \/ task[a].root = "files"
                                  THEN [quarantine EXCEPT ![p] = c] ELSE quarantine
                 /\ task' = [task EXCEPT ![a] =
                       IF good THEN [task[a] EXCEPT !.pc = "recording", !.digest = c] ELSE Idle]
      BY <1>1, <1>6 DEF Download
    <2>3. CASE c \in task[a].wants
      <3> DEFINE x == [task[a] EXCEPT !.pc = "recording", !.digest = c]
      <3>1. task' = [task EXCEPT ![a] = x] /\ quarantine' = [quarantine EXCEPT ![task[a].path] = c]
        BY <2>2, <2>3
      <3>2. x.pc = "recording" /\ x.path = task[a].path /\ x.digest = c
        BY <1>1 DEF Task
      <3>3. quarantine'[x.path] = c /\ \A p \in Paths \ {x.path} : quarantine'[p] = quarantine[p]
        BY <2>1, <3>1, <3>2 DEF Shape, DiskFits
      <3>4. QED
        BY <2>1, <3>1, <3>2, <3>3, LoopResumes
    <2>4. CASE c \notin task[a].wants
      <3>1. task'[a] = Idle /\ \A b \in Assessors \ {a} : task'[b] = task[b]
        BY <1>1, <2>2, <2>4, Kinds
      <3>2. \A b \in Assessors \ {a} : task[b].digest = None /\ task[b].pc \in Suspended
        BY <2>1 DEF LoopFree, Loop, Serial, Suspended
      <3>3. QED
        BY <1>2, <3>1, <3>2 DEF Loop, Serial, LoopKeepsBytes, Suspended
    <2>5. QED
      BY <2>3, <2>4
  <1>7. ASSUME UNCHANGED quarantine, Finish(a) PROVE Loop'
    BY <1>2, <1>7, LoopGoesOn DEF Finish
  <1>8. ASSUME UNCHANGED quarantine, task[a].pc \notin Suspended,
               NEW p \in Phases \ Suspended, GoTo(a, p)
        PROVE  Loop'
    <2> DEFINE x == [task[a] EXCEPT !.pc = p]
    <2>1. task' = [task EXCEPT ![a] = x] /\ x.pc = p /\ x.digest = task[a].digest /\ x.path = task[a].path
      BY <1>1, <1>8 DEF GoTo, Task
    <2>2. QED
      BY <1>8, <2>1, LoopGoesOn
  <1>9. CASE UpstreamFails(a) \/ Settle(a)
    BY <1>7, <1>9 DEF UpstreamFails, Settle, disk
  <1>10. CASE Record(a) \/ Scan(a) \/ SaveDecision(a) \/ Promote(a) \/ Allow(a)
    <2>1. UNCHANGED quarantine /\ task[a].pc \notin Suspended
      BY <1>10 DEF Record, Scan, SaveDecision, Promote, Allow, At, Suspended, disk
    <2>2. \E p \in {"scanning", "checking", "promoting", "settling", "opening", "allowing", "approving", "issuing"} :
             GoTo(a, p)
      BY <1>10 DEF Record, Scan, SaveDecision, Promote, Allow
    <2>3. QED
      BY <1>8, <2>1, <2>2 DEF Phases, Suspended
  <1>11. CASE SandboxEnds(a)
    BY <1>11 DEF SandboxEnds, At, Loop, Serial
  <1>12. CASE Evaluate(a)
    <2>1. UNCHANGED quarantine /\ task[a].pc = "checking"
      BY <1>12 DEF Evaluate, At, disk
    <2>2. PICK v \in Verdicts(Mode, task[a].digest \in revocations) :
             task' = [task EXCEPT ![a].pc = "deciding", ![a].decision = v]
      BY <1>12 DEF Evaluate
    <2> DEFINE x == [task[a] EXCEPT !.pc = "deciding", !.decision = v]
    <2>3. task' = [task EXCEPT ![a] = x] /\ x.pc = "deciding" /\ x.digest = task[a].digest /\ x.path = task[a].path
      BY <1>1, <2>2 DEF Task
    <2>4. QED
      BY <2>1, <2>3, LoopGoesOn DEF Suspended
  <1>13. CASE OpenCopy(a)
    <2>1. UNCHANGED quarantine /\ task[a].pc = "opening"
      BY <1>13 DEF OpenCopy, At
    <2>2. CASE Finish(a)
      BY <1>7, <2>1, <2>2
    <2>3. CASE task' = [task EXCEPT ![a].pc = "copying", ![a].bytes = Source(a)]
      <3> DEFINE x == [task[a] EXCEPT !.pc = "copying", !.bytes = Source(a)]
      <3>1. task' = [task EXCEPT ![a] = x] /\ x.pc = "copying" /\ x.digest = task[a].digest /\ x.path = task[a].path
        BY <1>1, <2>3 DEF Task
      <3>2. QED
        BY <2>1, <3>1, LoopGoesOn DEF Suspended
    <2>4. QED
      BY <1>13, <2>2, <2>3 DEF OpenCopy
  <1>14. CASE CloseCopy(a)
    <2>1. UNCHANGED quarantine /\ task[a].pc = "copying"
      BY <1>14 DEF CloseCopy, At
    <2> DEFINE x == [task[a] EXCEPT !.pc = "allowing", !.bytes = None]
    <2>2. task' = [task EXCEPT ![a] = x] /\ x.pc = "allowing" /\ x.digest = task[a].digest /\ x.path = task[a].path
      BY <1>1, <1>14 DEF CloseCopy, Task
    <2>3. QED
      BY <2>1, <2>2, LoopGoesOn DEF Suspended
  <1>15. CASE Issue(a)
    <2>1. UNCHANGED quarantine /\ Finish(a)
      BY <1>15, Kinds DEF Issue, disk
    <2>2. QED
      BY <1>7, <2>1
  <1>16. QED
    BY <1>3, <1>4, <1>5, <1>6, <1>9, <1>10, <1>11, <1>12, <1>13, <1>14, <1>15 DEF Assess, Publish

LEMMA LoopNext ==
  ASSUME Shape, Loop, SandboxBackend = "none", [Next]_vars
  PROVE  Loop'
  <1>1. ASSUME NEW t \in Handlers \ Assessors, NEW x, UNCHANGED quarantine, task' = [task EXCEPT ![t] = x]
        PROVE  Loop'
    <2>1. \A a \in Assessors : task'[a] = task[a]
      BY <1>1, Kinds DEF Shape, TasksFit
    <2>2. QED
      BY <1>1, <2>1, LoopUntouched
  <1>2. ASSUME NEW t \in Approvers, Approve(t) \/ ApproveReview(t) PROVE Loop'
    <2>1. t \in Handlers \ Assessors
      BY <1>2, Kinds
    <2>2. UNCHANGED quarantine
      BY <1>2 DEF Approve, ApproveReview, Recheck, FindSource, Publish, Promote, OpenCopy, CloseCopy,
         Allow, Issue, SaveApproval, LogApproval, disk
    <2>3. \E x : task' = [task EXCEPT ![t] = x]
      <3>1. CASE Approve(t)
        BY <3>1 DEF Approve
      <3>2. CASE Recheck(t) \/ FindSource(t)
        BY <3>2 DEF Recheck, FindSource, Finish, GoTo
      <3>3. CASE Publish(t)
        BY <3>3 DEF Publish, Promote, OpenCopy, CloseCopy, Allow, Issue, Finish, GoTo
      <3>4. CASE SaveApproval(t) \/ LogApproval(t)
        BY <3>4 DEF SaveApproval, LogApproval, Finish, GoTo
      <3>5. QED
        BY <1>2, <3>1, <3>2, <3>3, <3>4 DEF ApproveReview
    <2>4. QED
      BY <1>1, <2>1, <2>2, <2>3
  <1>3. ASSUME NEW v \in Revokers, Revoke(v) \/ RevokeDigest(v) PROVE Loop'
    <2>1. v \in Handlers \ Assessors
      BY <1>3, Kinds
    <2>2. UNCHANGED quarantine /\ \E x : task' = [task EXCEPT ![v] = x]
      BY <1>3 DEF Revoke, RevokeDigest, VoidPermits, MarkRevoked, Finish, GoTo, disk
    <2>3. QED
      BY <1>1, <2>1, <2>2
  <1>4. ASSUME NEW t \in Handlers, Raise(t) PROVE Loop'
    <2>1. UNCHANGED quarantine /\ \A a \in Assessors : task'[a] = task[a] \/ task'[a] = Idle
      BY <1>4, Kinds DEF Raise, Finish, disk, Shape, TasksFit
    <2>2. QED
      BY <2>1, LoopUntouched
  <1>5. CASE Restart \/ UNCHANGED vars
    <2>1. UNCHANGED quarantine /\ \A a \in Assessors : task'[a] = task[a] \/ task'[a] = Idle
      BY <1>5, Kinds DEF Restart, vars, disk
    <2>2. QED
      BY <2>1, LoopUntouched
  <1>6. QED
    BY <1>2, <1>3, <1>4, <1>5, LoopAssess DEF Next

\* As long as the sandbox is off, every assessment works from its download to its
\* last step on the bytes it hashed, whatever else is requested for its path.
THEOREM BytesKept == ASSUME SandboxBackend = "none" PROVE Spec => []LoopKeepsBytes
  <1>1. Init => Loop
    BY DEF Init, Loop, Serial, LoopKeepsBytes, Idle, Suspended, Handlers
  <1>2. Loop => LoopKeepsBytes
    BY DEF Loop
  <1>3. QED
    BY InitShape, NextShape, LoopNext, <1>1, <1>2, PTL DEF Spec

-----------------------------------------------------------------------------
(* A row, an approval that has read it and a suspended assessment refer to *)
(* a quarantined file by the digest it had.  If nobody replaces or removes *)
(* such a file, whatever is promoted is what its digest names.             *)

RowRelies(p, d) ==
    artifacts[d].status # "absent" /\ artifacts[d].path = p /\ artifacts[d].at = "quarantine"
TaskRelies(x, p, d) == x.from = "quarantine" /\ x.path = p /\ x.digest = d
Relied(p, d) == RowRelies(p, d) \/ \E t \in Handlers : TaskRelies(task[t], p, d)

\* A step leaves the files alone that are referred to.
Leaves == \A p \in Paths, d \in Contents : Relied(p, d) => quarantine'[p] = quarantine[p]

Sound(t, x) ==
    /\ t \in Assessors => x.from = "quarantine"
    /\ x.pc = "copying" => x.bytes \in {x.digest, Torn}

Held ==
    /\ \A p \in Paths, d \in Contents : Relied(p, d) => quarantine[p] = d
    /\ \A t \in Handlers : Sound(t, task[t])
    /\ MirrorFaithful

LEMMA HeldStep ==
  ASSUME Shape, Held, Leaves, NEW t \in Handlers, NEW x, Sound(t, x), task' = [task EXCEPT ![t] = x],
         \A p \in Paths, d \in Contents :
            TaskRelies(x, p, d) \/ RowRelies(p, d)' => Relied(p, d) \/ quarantine'[p] = d,
         MirrorFaithful'
  PROVE  Held'
  <1>1. task'[t] = x /\ \A u \in Handlers \ {t} : task'[u] = task[u]
    BY DEF Shape, TasksFit
  <1>2. ASSUME NEW p \in Paths, NEW d \in Contents, Relied(p, d)'
        PROVE  quarantine'[p] = d
    <2>1. Relied(p, d) \/ quarantine'[p] = d
      BY <1>1, <1>2 DEF Relied
    <2>2. QED
      BY <2>1 DEF Held, Leaves
  <1>3. QED
    BY <1>1, <1>2 DEF Held, Sound

\* A step that changes neither the rows nor the disk, nor what is referred to.
LEMMA HeldSame ==
  ASSUME Shape, Held, Leaves, NEW t \in Handlers, NEW x, Sound(t, x), task' = [task EXCEPT ![t] = x],
         UNCHANGED <<artifacts, mirror>>,
         \A p \in Paths, d \in Contents : TaskRelies(x, p, d) => Relied(p, d) \/ quarantine'[p] = d
  PROVE  Held'
  <1>1. MirrorFaithful'
    BY DEF Held, MirrorFaithful
  <1>2. \A p \in Paths, d \in Contents : RowRelies(p, d)' => Relied(p, d)
    BY DEF RowRelies, Relied
  <1>3. QED
    BY <1>1, <1>2, HeldStep

LEMMA HeldIdle ==
  /\ \A t : Sound(t, Idle)
  /\ \A p \in Paths : \A d : ~TaskRelies(Idle, p, d)
  BY FirewallAssumption DEF Sound, TaskRelies, Idle

LEMMA HeldGoTo ==
  ASSUME Shape, Held, Leaves, NEW t \in Handlers, NEW phase, phase # "copying",
         GoTo(t, phase) \/ Finish(t), UNCHANGED <<artifacts, mirror>>
  PROVE  Held'
  <1>1. Sound(t, task[t]) /\ task[t] \in Task
    BY DEF Held, Shape, TasksFit
  <1> DEFINE x == [task[t] EXCEPT !.pc = phase]
  <1>2. Sound(t, x)
    BY <1>1 DEF Sound, Task
  <1>3. \A p, d : TaskRelies(x, p, d) => TaskRelies(task[t], p, d)
    BY <1>1 DEF TaskRelies, Task
  <1>4. task' = [task EXCEPT ![t] = x] \/ task' = [task EXCEPT ![t] = Idle]
    BY DEF GoTo, Finish
  <1>5. CASE task' = [task EXCEPT ![t] = x]
    BY <1>2, <1>3, <1>5, HeldSame DEF Relied
  <1>6. CASE task' = [task EXCEPT ![t] = Idle]
    BY <1>6, HeldIdle, HeldSame
  <1>7. QED
    BY <1>4, <1>5, <1>6

\* What a handler copies is what its digest names, whole or not.
LEMMA SourceHeld ==
  ASSUME Shape, Held, NEW t \in Handlers, Copy(t) \in Copies
  PROVE  Source(t) \in {None, Torn, task[t].digest}
  <1>1. task[t] \in Task /\ task[t].digest \in Contents /\ task[t].path \in Paths
    BY DEF Shape, TasksFit, Copy, Copies
  <1>2. CASE task[t].from = "quarantine"
    <2>1. Relied(task[t].path, task[t].digest)
      BY <1>2 DEF Relied, TaskRelies
    <2>2. QED
      BY <1>1, <1>2, <2>1 DEF Source, Held
  <1>3. CASE task[t].from # "quarantine"
    <2>1. <<task[t].from, task[t].digest, task[t].path>> \in Copies
      BY <1>1, <1>3 DEF Task, Copies
    <2>2. QED
      BY <1>3, <2>1 DEF Source, Held, MirrorFaithful
  <1>4. QED
    BY <1>2, <1>3

LEMMA HeldPublish ==
  ASSUME Shape, Held, Leaves, NEW t \in Assessors \cup Approvers, Publish(t)
  PROVE  Held'
  <1>1. t \in Handlers /\ t \notin Revokers /\ task[t] \in Task /\ Fits(t, task[t]) /\ Sound(t, task[t])
    BY Kinds DEF Shape, TasksFit, Held
  <1>2. task[t].pc \in {"opening", "copying", "allowing"} =>
           Copy(t) \in Copies /\ task[t].digest \in Contents /\ task[t].path \in Paths
    BY <1>1 DEF Copy, Copies, Fits, Task, Roots
  <1>3. CASE Promote(t)
    BY <1>1, <1>3, HeldGoTo DEF Promote, tables, disk
  <1>4. CASE OpenCopy(t) /\ Source(t) = None
    BY <1>1, <1>4, HeldGoTo DEF OpenCopy, tables
  <1>5. CASE OpenCopy(t) /\ Source(t) # None
    <2> DEFINE x == [task[t] EXCEPT !.pc = "copying", !.bytes = Source(t)]
    <2>1. Source(t) \in {Torn, task[t].digest}
      BY <1>1, <1>2, <1>5, SourceHeld DEF OpenCopy, At
    <2>2. Sound(t, x) /\ \A p, d : TaskRelies(x, p, d) => TaskRelies(task[t], p, d)
      BY <1>1, <2>1 DEF Sound, Task, TaskRelies
    <2>3. MirrorFaithful'
      BY <1>5 DEF OpenCopy, Held, MirrorFaithful, Shape, DiskFits
    <2>4. task' = [task EXCEPT ![t] = x] /\ UNCHANGED artifacts
      BY <1>5 DEF OpenCopy, tables
    <2>. HIDE DEF x
    <2>5. \A p \in Paths, d \in Contents : TaskRelies(x, p, d) \/ RowRelies(p, d)' => Relied(p, d)
      BY <1>1, <2>2, <2>4 DEF Relied, RowRelies
    <2>6. QED
      BY <1>1, <2>2, <2>3, <2>4, <2>5, HeldStep
  <1>6. CASE CloseCopy(t)
    <2> DEFINE x == [task[t] EXCEPT !.pc = "allowing", !.bytes = None]
    <2>1. Sound(t, x) /\ \A p, d : TaskRelies(x, p, d) => TaskRelies(task[t], p, d)
      BY <1>1 DEF Sound, Task, TaskRelies
    <2>2. task[t].bytes \in {task[t].digest, Torn} /\ Copy(t)[2] = task[t].digest
      BY <1>1, <1>6 DEF CloseCopy, At, Sound, Copy
    <2>3. \A k \in Copies : mirror'[k] = mirror[k] \/ (k = Copy(t) /\ mirror'[k] \in {Torn, task[t].bytes})
      BY <1>6 DEF CloseCopy, Shape, DiskFits
    <2>4. MirrorFaithful'
      BY <2>2, <2>3 DEF Held, MirrorFaithful
    <2>5. task' = [task EXCEPT ![t] = x] /\ UNCHANGED artifacts
      BY <1>6 DEF CloseCopy, tables
    <2>. HIDE DEF x
    <2>6. \A p \in Paths, d \in Contents : TaskRelies(x, p, d) \/ RowRelies(p, d)' => Relied(p, d)
      BY <1>1, <2>1, <2>5 DEF Relied, RowRelies
    <2>7. QED
      BY <1>1, <2>1, <2>4, <2>5, <2>6, HeldStep
  <1>7. CASE Allow(t)
    <2> DEFINE phase == IF t \in Approvers THEN "approving" ELSE "issuing"
               x == [task[t] EXCEPT !.pc = phase]
    <2>1. task' = [task EXCEPT ![t] = x]
      BY <1>7 DEF Allow, GoTo
    <2>2. Sound(t, x) /\ \A p, d : TaskRelies(x, p, d) => TaskRelies(task[t], p, d)
      BY <1>1 DEF Sound, Task, TaskRelies
    <2>3. MirrorFaithful'
      BY <1>7 DEF Allow, disk, Held, MirrorFaithful
    <2>4. \A p \in Paths, d \in Contents : RowRelies(p, d)' => RowRelies(p, d)
      BY <1>1, <1>2, <1>7 DEF Allow, RowRelies, Task, Roots, Shape, RowsFit
    <2>. HIDE DEF x
    <2>5. QED
      BY <1>1, <2>1, <2>2, <2>3, <2>4, HeldStep DEF Relied
  <1>8. CASE Issue(t)
    BY <1>1, <1>8, HeldGoTo DEF Issue, disk
  <1>9. QED
    BY <1>3, <1>4, <1>5, <1>6, <1>7, <1>8 DEF Publish

LEMMA HeldAssess ==
  ASSUME Shape, Held, Leaves, NEW a \in Assessors,
         \/ Start(a) \/ Spill(a) \/ Resolve(a) \/ Download(a) \/ UpstreamFails(a) \/ Record(a) \/ Scan(a)
         \/ SandboxEnds(a) \/ Evaluate(a) \/ SaveDecision(a) \/ Settle(a)
  PROVE  Held'
  <1>1. /\ a \in Handlers /\ a \notin Revokers /\ task[a] \in Task /\ Fits(a, task[a])
        /\ Sound(a, task[a]) /\ task[a].from = "quarantine" /\ None \notin Contents
    BY Kinds, FirewallAssumption DEF Shape, TasksFit, Held, Sound
  <1>2. CASE Start(a)
    <2>1. PICK p \in Paths, e \in Envs, r \in Routes, w \in SUBSET Contents :
             task' = [task EXCEPT ![a] =
                [Idle EXCEPT !.pc = IF r = "pypi" THEN "resolving" ELSE "downloading",
                             !.path = p, !.env = e, !.wants = w, !.root = r]]
      BY <1>2, FirewallAssumption DEF Start
    <2> DEFINE x == [Idle EXCEPT !.pc = IF r = "pypi" THEN "resolving" ELSE "downloading",
                                 !.path = p, !.env = e, !.wants = w, !.root = r]
    <2>2. Sound(a, x) /\ \A q \in Paths, d \in Contents : ~TaskRelies(x, q, d)
      BY <1>1 DEF Sound, TaskRelies, Idle
    <2>3. UNCHANGED <<artifacts, mirror>> /\ task' = [task EXCEPT ![a] = x]
      BY <1>2, <2>1 DEF Start, tables, disk
    <2>. HIDE DEF x
    <2>4. QED
      BY <1>1, <2>2, <2>3, HeldSame
  <1>3. CASE Spill(a)
    <2>1. task' = [task EXCEPT ![a] = task[a]] /\ UNCHANGED <<artifacts, mirror>>
      BY <1>3 DEF Spill, tables, Shape, TasksFit
    <2>2. QED
      BY <1>1, <2>1, HeldSame DEF Relied
  <1>4. CASE Resolve(a) \/ Download(a)
    <2>1. UNCHANGED <<artifacts, mirror>> /\ task[a].path \in Paths
      BY <1>1, <1>4 DEF Resolve, Download, tables, At, Fits
    <2>2. CASE \E d \in Contents :
                  /\ quarantine'[task[a].path] = d
                  /\ task' = [task EXCEPT ![a] = [task[a] EXCEPT !.pc = "recording", !.digest = d]]
      <3>1. PICK d \in Contents :
                  /\ quarantine'[task[a].path] = d
                  /\ task' = [task EXCEPT ![a] = [task[a] EXCEPT !.pc = "recording", !.digest = d]]
        BY <2>2
      <3> DEFINE x == [task[a] EXCEPT !.pc = "recording", !.digest = d]
      <3>2. Sound(a, x) /\ x.path = task[a].path /\ x.digest = d
        BY <1>1 DEF Sound, Task
      <3>. HIDE DEF x
      <3>3. QED
        BY <1>1, <2>1, <3>1, <3>2, HeldSame DEF TaskRelies, x
    <2>3. CASE GoTo(a, "downloading") \/ Finish(a)
      BY <1>1, <2>1, <2>3, HeldGoTo
    <2>4. CASE Resolve(a)
      <3>1. CASE quarantine[task[a].path] \in task[a].wants
        <4>1. quarantine[task[a].path] \in Contents /\ UNCHANGED quarantine
          BY <1>1, <2>4, <3>1 DEF Resolve, Task
        <4>2. task' = [task EXCEPT ![a] =
                 [task[a] EXCEPT !.pc = "recording", !.digest = quarantine[task[a].path]]]
          BY <2>4, <3>1 DEF Resolve
        <4>3. QED
          BY <2>2, <4>1, <4>2
      <3>2. CASE quarantine[task[a].path] \notin task[a].wants
        BY <2>3, <2>4, <3>2 DEF Resolve
      <3>3. QED
        BY <3>1, <3>2
    <2>5. CASE Download(a)
      <3>1. PICK c \in Serves[task[a].path] :
               LET p == task[a].path
                   good == c \in task[a].wants
               IN  /\ quarantine' = IF good \/ task[a].root = "files"
                                    THEN [quarantine EXCEPT ![p] = c] ELSE quarantine
                   /\ task' = [task EXCEPT ![a] =
                         IF good THEN [task[a] EXCEPT !.pc = "recording", !.digest = c] ELSE Idle]
        BY <1>1, <2>5 DEF Download
      <3>2. CASE c \in task[a].wants
        <4>1. c \in Contents /\ quarantine'[task[a].path] = c
          BY <1>1, <2>1, <3>1, <3>2 DEF Task, Shape, DiskFits
        <4>2. QED
          BY <2>2, <3>1, <3>2, <4>1
      <3>3. CASE c \notin task[a].wants
        BY <2>3, <3>1, <3>3 DEF Finish
      <3>4. QED
        BY <3>2, <3>3
    <2>6. QED
      BY <1>4, <2>4, <2>5
  <1>5. CASE Record(a)
    <2> DEFINE x == [task[a] EXCEPT !.pc = "scanning"]
    <2>1. /\ Sound(a, x) /\ task' = [task EXCEPT ![a] = x]
          /\ \A p, d : TaskRelies(x, p, d) => TaskRelies(task[a], p, d)
      BY <1>1, <1>5 DEF Sound, Task, TaskRelies, Record, GoTo
    <2>2. MirrorFaithful'
      BY <1>5 DEF Record, disk, Held, MirrorFaithful
    <2>3. \A p \in Paths, d \in Contents : RowRelies(p, d)' => RowRelies(p, d) \/ TaskRelies(task[a], p, d)
      BY <1>1, <1>5 DEF Record, RowRelies, TaskRelies, Shape, RowsFit
    <2>. HIDE DEF x
    <2>4. QED
      BY <1>1, <2>1, <2>2, <2>3, HeldStep DEF Relied
  <1>6. CASE UpstreamFails(a) \/ Scan(a) \/ SandboxEnds(a) \/ SaveDecision(a)
    BY <1>1, <1>6, HeldGoTo DEF UpstreamFails, Scan, SandboxEnds, SaveDecision, tables, disk
  <1>7. CASE Evaluate(a)
    <2>1. PICK v : task' = [task EXCEPT ![a].pc = "deciding", ![a].decision = v]
      BY <1>7 DEF Evaluate
    <2> DEFINE x == [task[a] EXCEPT !.pc = "deciding", !.decision = v]
    <2>2. /\ task' = [task EXCEPT ![a] = x] /\ Sound(a, x)
          /\ \A p, d : TaskRelies(x, p, d) => TaskRelies(task[a], p, d)
      BY <1>1, <2>1 DEF Sound, TaskRelies, Task, Shape, TasksFit
    <2>3. UNCHANGED <<artifacts, mirror>>
      BY <1>7 DEF Evaluate, tables, disk
    <2>. HIDE DEF x
    <2>4. QED
      BY <1>1, <2>2, <2>3, HeldSame DEF Relied
  <1>8. CASE Settle(a)
    <2>1. \A p \in Paths, d \in Contents : RowRelies(p, d)' => RowRelies(p, d)
      BY <1>8 DEF Settle, SetStatus, RowRelies, Shape, RowsFit, Rows
    <2>2. task' = [task EXCEPT ![a] = Idle] /\ MirrorFaithful'
      BY <1>8 DEF Settle, Finish, disk, Held, MirrorFaithful
    <2>3. QED
      BY <1>1, <2>1, <2>2, HeldIdle, HeldStep DEF Relied
  <1>9. QED
    BY <1>2, <1>3, <1>4, <1>5, <1>6, <1>7, <1>8

LEMMA HeldNext ==
  ASSUME Shape, Held, [Next]_vars, [Leaves]_vars
  PROVE  Held'
  <1>1. CASE UNCHANGED vars
    BY <1>1 DEF vars, tables, disk, Held, Relied, RowRelies, TaskRelies, Sound, MirrorFaithful
  <1>2. CASE Next /\ Leaves
    <2> USE <1>2
    <2>1. ASSUME NEW r \in Approvers, Approve(r) \/ Recheck(r) \/ FindSource(r) \/ SaveApproval(r) \/ LogApproval(r)
          PROVE  Held'
      <3>1. r \in Handlers /\ r \notin Assessors /\ task[r] \in Task /\ Sound(r, task[r])
        BY Kinds DEF Shape, TasksFit, Held
      <3>2. CASE Approve(r)
        <4>1. PICK d \in Contents, e \in Envs :
                 /\ artifacts[d].status = "review"
                 /\ task' = [task EXCEPT ![r] =
                       [Idle EXCEPT !.pc = "checking", !.path = artifacts[d].path, !.env = e,
                                    !.digest = d, !.from = artifacts[d].at,
                                    !.root = IF artifacts[d].path \in PyPI THEN "pypi" ELSE "files"]]
          BY <3>2 DEF Approve
        <4> DEFINE x == [Idle EXCEPT !.pc = "checking", !.path = artifacts[d].path, !.env = e,
                                     !.digest = d, !.from = artifacts[d].at,
                                     !.root = IF artifacts[d].path \in PyPI THEN "pypi" ELSE "files"]
        <4>2. Sound(r, x) /\ x.path = artifacts[d].path /\ x.digest = d /\ x.from = artifacts[d].at
          BY <3>1 DEF Sound, Idle
        <4>3. task' = [task EXCEPT ![r] = x] /\ UNCHANGED <<artifacts, mirror>>
          BY <3>2, <4>1 DEF Approve, tables, disk
        <4>. HIDE DEF x
        <4>4. \A p \in Paths, c \in Contents : TaskRelies(x, p, c) => RowRelies(p, c)
          BY <4>1, <4>2 DEF TaskRelies, RowRelies
        <4>5. QED
          BY <3>1, <4>2, <4>3, <4>4, HeldSame DEF Relied
      <3>3. CASE Recheck(r)
        <4> DEFINE x == [task[r] EXCEPT !.pc = "sourcing", !.decision = "allow"]
        <4>1. UNCHANGED <<artifacts, mirror>>
          BY <3>3 DEF Recheck, tables, disk
        <4>2. CASE Finish(r)
          BY <3>1, <4>1, <4>2, HeldGoTo
        <4>3. CASE task' = [task EXCEPT ![r].pc = "sourcing", ![r].decision = "allow"]
          <5>1. /\ task' = [task EXCEPT ![r] = x] /\ Sound(r, x)
                /\ \A p, d : TaskRelies(x, p, d) => TaskRelies(task[r], p, d)
            BY <3>1, <4>3 DEF Sound, TaskRelies, Task, Shape, TasksFit
          <5>. HIDE DEF x
          <5>2. QED
            BY <3>1, <4>1, <5>1, HeldSame DEF Relied
        <4>4. QED
          BY <3>3, <4>2, <4>3 DEF Recheck
      <3>4. CASE FindSource(r) \/ SaveApproval(r) \/ LogApproval(r)
        BY <3>1, <3>4, HeldGoTo DEF FindSource, SaveApproval, LogApproval, tables, disk
      <3>5. QED
        BY <2>1, <3>2, <3>3, <3>4
    <2>2. ASSUME NEW v \in Revokers, Revoke(v) \/ RevokeDigest(v) PROVE Held'
      <3>1. v \in Handlers /\ v \notin Assessors
        BY Kinds
      <3>2. CASE Revoke(v)
        <4>1. PICK d \in Contents : task' = [task EXCEPT ![v] = [Idle EXCEPT !.pc = "voiding", !.digest = d]]
          BY <3>2 DEF Revoke
        <4> DEFINE x == [Idle EXCEPT !.pc = "voiding", !.digest = d]
        <4>2. Sound(v, x) /\ \A p \in Paths, c \in Contents : ~TaskRelies(x, p, c)
          BY <3>1, FirewallAssumption DEF Sound, TaskRelies, Idle
        <4>3. UNCHANGED <<artifacts, mirror>>
          BY <3>2 DEF Revoke, disk
        <4>. HIDE DEF x
        <4>4. QED
          BY <3>1, <4>1, <4>2, <4>3, HeldSame DEF x
      <3>3. CASE VoidPermits(v)
        BY <3>1, <3>3, HeldGoTo DEF VoidPermits, disk
      <3>4. CASE MarkRevoked(v)
        <4>1. \A p \in Paths, d \in Contents : RowRelies(p, d)' => RowRelies(p, d)
          BY <3>4 DEF MarkRevoked, SetStatus, RowRelies, Shape, RowsFit, Rows
        <4>2. task' = [task EXCEPT ![v] = Idle] /\ MirrorFaithful'
          BY <3>4 DEF MarkRevoked, Finish, disk, Held, MirrorFaithful
        <4>3. QED
          BY <3>1, <4>1, <4>2, HeldIdle, HeldStep DEF Relied
      <3>5. QED
        BY <2>2, <3>2, <3>3, <3>4 DEF RevokeDigest
    <2>3. ASSUME NEW t \in Handlers, Raise(t) PROVE Held'
      BY <2>3, HeldGoTo DEF Raise, tables, disk
    <2>4. CASE Restart
      <3>1. \A t \in Handlers : task'[t] = Idle
        BY <2>4 DEF Restart
      <3>2. UNCHANGED <<artifacts, quarantine, mirror>>
        BY <2>4 DEF Restart, tables, disk
      <3>3. \A p \in Paths, d \in Contents : Relied(p, d)' => Relied(p, d)
        BY <3>1, <3>2, HeldIdle DEF Relied, RowRelies
      <3>4. QED
        BY <3>1, <3>2, <3>3, HeldIdle DEF Held, MirrorFaithful
    <2>5. QED
      BY <2>1, <2>2, <2>3, <2>4, HeldPublish, HeldAssess DEF Next, Assess, ApproveReview
  <1>3. QED
    BY <1>1, <1>2

\* As long as no download, spill or legacy request replaces or removes a file that
\* a row, an approval or a suspended assessment still refers to, every mirrored file
\* holds what its digest names: with any sandbox, any declared digests, approvals
\* that read their row long before, and crashes.  So no other order of the code's
\* steps can mirror wrong bytes.
THEOREM MirroredUnlessReplaced == Spec /\ [][Leaves]_vars => []MirrorFaithful
  <1>1. Init => Held
    <2>1. SUFFICES ASSUME Init PROVE Held
      OBVIOUS
    <2>2. \A t \in Handlers : task[t] = Idle
      BY <2>1 DEF Init
    <2>3. \A p \in Paths, d \in Contents : ~Relied(p, d)
      BY <2>1, <2>2, HeldIdle DEF Init, Relied, RowRelies
    <2>4. QED
      BY <2>1, <2>2, <2>3, HeldIdle DEF Init, Held, MirrorFaithful, Copies
  <1>2. Held => MirrorFaithful
    BY DEF Held
  <1>3. QED
    BY InitShape, NextShape, HeldNext, <1>1, <1>2, PTL DEF Spec

-----------------------------------------------------------------------------
(* Whatever upstream serves, assessments without a sandbox copy the bytes  *)
(* they hashed; only an approval copies others.                            *)

Copying(x) == x.from = "quarantine" /\ (x.pc = "copying" => x.bytes = x.digest)

Copied == MirrorFaithful /\ \A a \in Assessors : Copying(task[a])

LEMMA CopiedStep ==
  ASSUME Shape, Copied, NEW t \in Handlers, NEW x, t \in Assessors => Copying(x),
         task' = [task EXCEPT ![t] = x], MirrorFaithful'
  PROVE  Copied'
  BY Kinds DEF Copied, Shape, TasksFit

LEMMA CopiedGoTo ==
  ASSUME Shape, Copied, NEW t \in Handlers, NEW p, p # "copying", GoTo(t, p) \/ Finish(t), UNCHANGED mirror
  PROVE  Copied'
  <1>1. task[t] \in Task /\ (t \in Assessors => Copying(task[t]))
    BY DEF Copied, Shape, TasksFit
  <1> DEFINE x == [task[t] EXCEPT !.pc = p]
  <1>2. (t \in Assessors => Copying(x)) /\ Copying(Idle)
    BY <1>1 DEF Copying, Idle, Task
  <1>3. task' = [task EXCEPT ![t] = x] \/ task' = [task EXCEPT ![t] = Idle]
    BY DEF GoTo, Finish
  <1>4. MirrorFaithful'
    BY DEF Copied, MirrorFaithful
  <1>5. QED
    BY <1>2, <1>3, <1>4, CopiedStep

LEMMA CopiedAssess ==
  ASSUME Shape, Loop, Copied, NEW a \in Assessors, Start(a) \/ Spill(a) \/ Assess(a)
  PROVE  Copied'
  <1>1. a \in Handlers /\ a \notin Revokers /\ task[a] \in Task /\ Fits(a, task[a]) /\ Copying(task[a])
    BY Kinds DEF Shape, TasksFit, Copied
  <1>2. MirrorFaithful
    BY DEF Copied
  <1>3. CASE Start(a)
    <2>1. PICK p \in Paths, e \in Envs, r \in Routes, w \in SUBSET Contents :
             task' = [task EXCEPT ![a] =
                [Idle EXCEPT !.pc = IF r = "pypi" THEN "resolving" ELSE "downloading",
                             !.path = p, !.env = e, !.wants = w, !.root = r]]
      BY <1>3, FirewallAssumption DEF Start
    <2>2. Copying([Idle EXCEPT !.pc = IF r = "pypi" THEN "resolving" ELSE "downloading",
                               !.path = p, !.env = e, !.wants = w, !.root = r])
      BY DEF Copying, Idle
    <2>3. MirrorFaithful'
      BY <1>2, <1>3 DEF Start, disk, MirrorFaithful
    <2>4. QED
      BY <1>1, <2>1, <2>2, <2>3, CopiedStep
  <1>4. CASE Spill(a)
    BY <1>4 DEF Spill, Copied, MirrorFaithful
  <1>5. CASE Resolve(a) \/ Download(a)
    <2>1. MirrorFaithful'
      BY <1>2, <1>5 DEF Resolve, Download, MirrorFaithful
    <2>2. PICK d : \/ task' = [task EXCEPT ![a] = [task[a] EXCEPT !.pc = "recording", !.digest = d]]
                   \/ GoTo(a, "downloading") \/ Finish(a)
      <3>1. CASE Resolve(a)
        BY <3>1 DEF Resolve
      <3>2. CASE Download(a)
        BY <1>1, <3>2 DEF Download, Finish
      <3>3. QED
        BY <1>5, <3>1, <3>2
    <2>3. Copying([task[a] EXCEPT !.pc = "recording", !.digest = d])
      BY <1>1 DEF Copying, Task
    <2>4. UNCHANGED mirror
      BY <1>5 DEF Resolve, Download
    <2>5. QED
      BY <1>1, <2>1, <2>2, <2>3, <2>4, CopiedStep, CopiedGoTo
  <1>6. CASE \/ UpstreamFails(a) \/ Record(a) \/ Scan(a) \/ SandboxEnds(a) \/ SaveDecision(a) \/ Settle(a)
             \/ Promote(a) \/ Allow(a) \/ Issue(a)
    <2>1. UNCHANGED mirror
      BY <1>6 DEF UpstreamFails, Record, Scan, SandboxEnds, SaveDecision, Settle, Promote, Allow, Issue, disk
    <2>2. Finish(a) \/ \E p \in Phases \ {"copying"} : GoTo(a, p)
      BY <1>6 DEF UpstreamFails, Record, Scan, SandboxEnds, SaveDecision, Settle, Promote, Allow, Issue,
         Phases, Suspended
    <2>3. QED
      BY <1>1, <2>1, <2>2, CopiedGoTo
  <1>7. CASE Evaluate(a)
    <2>1. PICK v : task' = [task EXCEPT ![a].pc = "deciding", ![a].decision = v]
      BY <1>7 DEF Evaluate
    <2> DEFINE x == [task[a] EXCEPT !.pc = "deciding", !.decision = v]
    <2>2. task' = [task EXCEPT ![a] = x] /\ Copying(x)
      BY <1>1, <2>1 DEF Copying, Task, Shape, TasksFit
    <2>3. MirrorFaithful'
      BY <1>2, <1>7 DEF Evaluate, disk, MirrorFaithful
    <2>4. QED
      BY <1>1, <2>2, <2>3, CopiedStep
  <1>8. CASE OpenCopy(a) /\ Source(a) = None
    BY <1>1, <1>8, CopiedGoTo DEF OpenCopy
  <1>9. CASE OpenCopy(a) /\ Source(a) # None
    <2> DEFINE x == [task[a] EXCEPT !.pc = "copying", !.bytes = Source(a)]
    <2>1. task[a].digest \in Contents /\ Source(a) = quarantine[task[a].path]
      BY <1>1, <1>9 DEF OpenCopy, At, Fits, Source, Copying
    <2>2. Source(a) = task[a].digest
      BY <2>1, FirewallAssumption DEF Loop, LoopKeepsBytes
    <2>3. Copying(x) /\ task' = [task EXCEPT ![a] = x]
      BY <1>1, <1>9, <2>2 DEF Copying, Task, OpenCopy
    <2>4. MirrorFaithful'
      BY <1>2, <1>9 DEF OpenCopy, MirrorFaithful, Shape, DiskFits
    <2>5. QED
      BY <1>1, <2>3, <2>4, CopiedStep
  <1>10. CASE CloseCopy(a)
    <2> DEFINE x == [task[a] EXCEPT !.pc = "allowing", !.bytes = None]
    <2>1. Copying(x) /\ task' = [task EXCEPT ![a] = x]
      BY <1>1, <1>10 DEF Copying, Task, CloseCopy
    <2>2. task[a].bytes = task[a].digest /\ Copy(a)[2] = task[a].digest
      BY <1>1, <1>10 DEF CloseCopy, At, Copying, Copy
    <2>3. \A k \in Copies : mirror'[k] = mirror[k] \/ (k = Copy(a) /\ mirror'[k] \in {Torn, task[a].bytes})
      BY <1>10 DEF CloseCopy, Shape, DiskFits
    <2>4. MirrorFaithful'
      BY <1>2, <2>2, <2>3 DEF MirrorFaithful
    <2>5. QED
      BY <1>1, <2>1, <2>4, CopiedStep
  <1>11. QED
    BY <1>3, <1>4, <1>5, <1>6, <1>7, <1>8, <1>9, <1>10 DEF Assess, Publish

LEMMA CopiedNext ==
  ASSUME Shape, Loop, Copied, Approvers = {}, [Next]_vars
  PROVE  Copied'
  <1>1. ASSUME NEW v \in Revokers, Revoke(v) \/ RevokeDigest(v) PROVE Copied'
    <2>1. v \in Handlers /\ v \notin Assessors /\ UNCHANGED mirror /\ \E x : task' = [task EXCEPT ![v] = x]
      BY <1>1, Kinds DEF Revoke, RevokeDigest, VoidPermits, MarkRevoked, Finish, GoTo, disk
    <2>2. MirrorFaithful'
      BY <2>1 DEF Copied, MirrorFaithful
    <2>3. QED
      BY <2>1, <2>2, CopiedStep
  <1>2. ASSUME NEW t \in Handlers, Raise(t) PROVE Copied'
    BY <1>2, CopiedGoTo DEF Raise, disk
  <1>3. CASE Restart
    BY <1>3, Kinds DEF Restart, disk, Copied, Copying, MirrorFaithful, Idle
  <1>4. CASE UNCHANGED vars
    BY <1>4 DEF vars, disk, Copied, Copying, MirrorFaithful
  <1>5. QED
    BY <1>1, <1>2, <1>3, <1>4, CopiedAssess DEF Next

\* With the sandbox off and nothing approved by hand, every mirrored file holds
\* what its digest names, whatever upstream serves and whoever overlaps.
THEOREM HashedIsMirrored ==
  ASSUME SandboxBackend = "none", Approvers = {}
  PROVE  Spec => []MirrorFaithful
  <1>1. Init => Loop /\ Copied
    BY DEF Init, Loop, Serial, LoopKeepsBytes, Idle, Suspended, Handlers, Copied, Copying, MirrorFaithful, Copies
  <1>2. Copied => MirrorFaithful
    BY DEF Copied
  <1>3. QED
    BY InitShape, NextShape, LoopNext, CopiedNext, <1>1, <1>2, PTL DEF Spec

-----------------------------------------------------------------------------
(* Each path of the quarantine is published to as Publication says.        *)

\* What the path sees of an assessment that is over, or of one that is not its own.
LEMMA StageIdle ==
  ASSUME Shape, NEW a \in Assessors, NEW p \in Paths
  PROVE  /\ Stage(a, p) = "idle" => Taken(a, p) = None /\ Wanted(a, p) = {}
         /\ task[a] = Idle => Stage(a, p) = "idle"
         /\ Stage(a, p) \in {"files", "legacy"} => Taken(a, p) = None
  <1>1. None \notin Paths /\ Fits(a, task[a])
    BY FirewallAssumption, Kinds DEF Shape, TasksFit
  <1>2. QED
    BY <1>1 DEF Stage, Wanted, Taken, At, Idle, Fits

SameView(a, p) == UNCHANGED <<Stage(a, p), Wanted(a, p), Taken(a, p)>>

\* A step of an assessment that changes nothing the path sees.
LEMMA PathStays ==
  ASSUME NEW p \in Paths, UNCHANGED quarantine,
         \A a \in Assessors : SameView(a, p)
  PROVE  UNCHANGED Quarantine(p)!vars
  BY DEF Quarantine!vars, SameView

\* Some handlers end, by a failure or by their last step.
LEMMA PathEnds ==
  ASSUME Shape, Shape', NEW p \in Paths, UNCHANGED quarantine, NEW s,
         \A a \in Assessors : task'[a] = IF a \in s THEN Idle ELSE task[a]
  PROVE  [Quarantine(p)!Next]_(Quarantine(p)!vars)
  <1>. DEFINE ended == {a \in Assessors : a \in s /\ Stage(a, p) # "idle"}
  <1>1. ASSUME NEW a \in Assessors
        PROVE  /\ Stage(a, p)' = IF a \in ended THEN "idle" ELSE Stage(a, p)
               /\ Wanted(a, p)' = IF a \in ended THEN {} ELSE Wanted(a, p)
               /\ Taken(a, p)' = IF a \in ended THEN None ELSE Taken(a, p)
    <2>1. CASE a \in s
      <3>1. Stage(a, p)' = "idle" /\ Wanted(a, p)' = {} /\ Taken(a, p)' = None
        BY <2>1, StageIdle DEF Stage, Wanted, Taken, At, Idle
      <3>2. QED
        BY <2>1, <3>1, StageIdle
    <2>2. CASE a \notin s
      BY <2>2 DEF Stage, Wanted, Taken, At
    <2>3. QED
      BY <2>1, <2>2
  <1>2. \A a \in ended : a \in Assessors /\ Stage(a, p) # "idle"
    OBVIOUS
  <1>3. ended \in SUBSET Assessors
    OBVIOUS
  <1>. HIDE DEF ended
  <1>4. Quarantine(p)!End(ended)
    BY <1>1, <1>2, <1>3 DEF Quarantine!End
  <1>5. QED
    BY <1>3, <1>4 DEF Quarantine!Next

\* A handler goes on within a phase in which it does not fetch.
LEMMA PathGoesOn ==
  ASSUME Shape, Shape', NEW p \in Paths, UNCHANGED quarantine, NEW t \in Handlers,
         NEW x, task' = [task EXCEPT ![t] = x],
         t \in Assessors => /\ x.path = task[t].path /\ x.digest = task[t].digest
                            /\ x.wants = task[t].wants
                            /\ task[t].pc # "downloading" /\ x.pc # "downloading"
  PROVE  [Quarantine(p)!Next]_(Quarantine(p)!vars)
  <1>1. \A a \in Assessors : SameView(a, p)
    BY Kinds DEF Shape, TasksFit, SameView, Stage, Wanted, Taken, At
  <1>2. QED
    BY <1>1, PathStays

\* A handler's end.
LEMMA PathFinishes ==
  ASSUME Shape, Shape', NEW p \in Paths, UNCHANGED quarantine, NEW t \in Handlers, Finish(t)
  PROVE  [Quarantine(p)!Next]_(Quarantine(p)!vars)
  <1>1. \A a \in Assessors : task'[a] = IF a \in {t} THEN Idle ELSE task[a]
    BY Kinds DEF Finish, Shape, TasksFit
  <1>2. QED
    BY <1>1, PathEnds

LEMMA PathGoTo ==
  ASSUME Shape, Shape', NEW p \in Paths, UNCHANGED quarantine, NEW t \in Handlers, NEW phase,
         GoTo(t, phase), task[t].pc # "downloading", phase # "downloading"
  PROVE  [Quarantine(p)!Next]_(Quarantine(p)!vars)
  <1>1. task[t] \in Task /\ task' = [task EXCEPT ![t] = [task[t] EXCEPT !.pc = phase]]
    BY DEF GoTo, Shape, TasksFit
  <1>. DEFINE x == [task[t] EXCEPT !.pc = phase]
  <1>2. /\ x.path = task[t].path /\ x.digest = task[t].digest /\ x.wants = task[t].wants
        /\ x.pc = phase
    BY <1>1 DEF Task
  <1>. HIDE DEF x
  <1>3. task' = [task EXCEPT ![t] = x]
    BY <1>1 DEF x
  <1>4. QED
    BY <1>2, <1>3, PathGoesOn

\* The steps up to the end of a download are Publication's.
LEMMA PathBegins ==
  ASSUME Shape, Shape', NEW p \in Paths, NEW a \in Assessors,
         Start(a) \/ Resolve(a) \/ Download(a) \/ Spill(a)
  PROVE  [Quarantine(p)!Next]_(Quarantine(p)!vars)
  <1>1. /\ a \in Handlers /\ a \notin Revokers /\ Fits(a, task[a]) /\ task \in [Handlers -> Task]
        /\ None \notin Contents /\ None \notin Paths
        /\ \A q \in Paths : Serves[q] \subseteq Contents /\ Declares[q] \subseteq SUBSET Contents
        /\ task[a].wants \subseteq Contents /\ quarantine \in [Paths -> Contents \cup {None}]
    BY Kinds, FirewallAssumption DEF Shape, TasksFit, DiskFits, Fits, Task
  <1>2. ASSUME NEW x, task' = [task EXCEPT ![a] = x], NEW b \in Assessors \ {a}
        PROVE  SameView(b, p)
    BY <1>1, <1>2, Kinds DEF SameView, Stage, Wanted, Taken, At
  <1>3. CASE Start(a)
    <2>1. PICK q \in Paths, e \in Envs, r \in Routes, w \in SUBSET Contents :
             /\ w \in Declares[q]
             /\ task' = [task EXCEPT ![a] =
                   [Idle EXCEPT !.pc = IF r = "pypi" THEN "resolving" ELSE "downloading",
                                !.path = q, !.env = e, !.wants = w, !.root = r]]
      BY <1>1, <1>3 DEF Start
    <2>. DEFINE x == [Idle EXCEPT !.pc = IF r = "pypi" THEN "resolving" ELSE "downloading",
                                  !.path = q, !.env = e, !.wants = w, !.root = r]
    <2>2. /\ x.pc = (IF r = "pypi" THEN "resolving" ELSE "downloading")
          /\ x.path = q /\ x.wants = w /\ x.root = r /\ x.digest = None
      BY DEF Idle
    <2>3. UNCHANGED quarantine /\ task[a].pc = "idle" /\ task' = [task EXCEPT ![a] = x]
      BY <1>3, <2>1 DEF Start, At, disk
    <2>. HIDE DEF x
    <2>4. task'[a] = x
      BY <1>1, <2>3
    <2>5. Stage(a, p) = "idle" /\ Wanted(a, p) = {} /\ Taken(a, p) = None
      BY <1>1, <2>3, StageIdle DEF Fits
    <2>6. CASE q = p /\ r # "pypi"
      <3>1. r = "files"
        BY <2>6, FirewallAssumption DEF Roots
      <3>2. Stage(a, p)' = "files" /\ Wanted(a, p)' = w /\ Taken(a, p)' = None
        BY <2>2, <2>4, <2>6, <3>1 DEF Stage, Wanted, Taken, At
      <3>3. Quarantine(p)!Begin(a, w)
        BY <1>2, <2>3, <2>5, <3>2 DEF Quarantine!Begin, SameView
      <3>4. QED
        BY <2>1, <2>6, <3>3 DEF Quarantine!Next
    <2>7. CASE ~(q = p /\ r # "pypi")
      <3>1. Stage(a, p)' = "idle" /\ Wanted(a, p)' = {} /\ Taken(a, p)' = None
        BY <2>2, <2>4, <2>7 DEF Stage, Wanted, Taken, At
      <3>2. QED
        BY <1>2, <2>3, <2>5, <3>1, PathStays DEF SameView
    <2>8. QED
      BY <2>6, <2>7
  <1>4. CASE /\ Resolve(a) /\ quarantine[task[a].path] \in task[a].wants
    <2>. DEFINE x == [task[a] EXCEPT !.pc = "recording", !.digest = quarantine[task[a].path]]
    <2>1. /\ task[a].pc = "resolving" /\ UNCHANGED quarantine /\ task' = [task EXCEPT ![a] = x]
      BY <1>4 DEF Resolve, At
    <2>2. /\ task[a].path \in Paths /\ task[a] \in Task
          /\ task[a].wants \in Declares[task[a].path]
          /\ x.pc = "recording" /\ x.path = task[a].path /\ x.digest = quarantine[task[a].path]
          /\ x.wants = task[a].wants
      BY <1>1, <2>1 DEF Fits, Task
    <2>. HIDE DEF x
    <2>3. task'[a] = x
      BY <1>1, <2>1
    <2>4. Stage(a, p) = "idle" /\ Wanted(a, p) = {} /\ Taken(a, p) = None
      BY <1>1, <2>1 DEF Fits, Stage, Wanted, Taken, At
    <2>5. CASE task[a].path = p
      <3>1. quarantine[p] \in task[a].wants /\ quarantine[p] # None
        BY <1>1, <1>4, <2>5
      <3>2. /\ Stage(a, p)' = "accepted" /\ Wanted(a, p)' = task[a].wants
            /\ Taken(a, p)' = quarantine[p]
        BY <2>2, <2>3, <2>5, <3>1 DEF Stage, Wanted, Taken, At
      <3>3. Quarantine(p)!Reuse(a, task[a].wants)
        BY <1>2, <2>1, <2>4, <3>1, <3>2 DEF Quarantine!Reuse, SameView
      <3>4. QED
        BY <2>2, <2>5, <3>3 DEF Quarantine!Next
    <2>6. CASE task[a].path # p
      <3>1. Stage(a, p)' = "idle" /\ Wanted(a, p)' = {} /\ Taken(a, p)' = None
        BY <2>2, <2>3, <2>6 DEF Stage, Wanted, Taken, At
      <3>2. QED
        BY <1>2, <2>1, <2>4, <3>1, PathStays DEF SameView
    <2>7. QED
      BY <2>5, <2>6
  <1>5. CASE /\ Resolve(a) /\ quarantine[task[a].path] \notin task[a].wants
    <2>. DEFINE x == [task[a] EXCEPT !.pc = "downloading"]
    <2>1. /\ task[a].pc = "resolving" /\ task' = [task EXCEPT ![a] = x]
          /\ quarantine' = [quarantine EXCEPT ![task[a].path] = None]
      BY <1>5 DEF Resolve, At, GoTo
    <2>2. /\ task[a].path \in Paths /\ task[a] \in Task /\ task[a].root = "pypi"
          /\ task[a].wants \in Declares[task[a].path]
          /\ x.pc = "downloading" /\ x.path = task[a].path /\ x.digest = None /\ x.root = "pypi"
          /\ x.wants = task[a].wants
      BY <1>1, <2>1 DEF Fits, Task
    <2>. HIDE DEF x
    <2>3. task'[a] = x
      BY <1>1, <2>1
    <2>4. Stage(a, p) = "idle" /\ Wanted(a, p) = {} /\ Taken(a, p) = None
      BY <1>1, <2>1 DEF Fits, Stage, Wanted, Taken, At
    <2>5. CASE task[a].path = p
      <3>1. quarantine[p] \notin task[a].wants /\ quarantine'[p] = None
        BY <1>1, <1>5, <2>1, <2>5
      <3>2. /\ Stage(a, p)' = "legacy" /\ Wanted(a, p)' = task[a].wants
            /\ Taken(a, p)' = None
        BY <2>2, <2>3, <2>5 DEF Stage, Wanted, Taken, At
      <3>3. Quarantine(p)!BeginLegacy(a, task[a].wants)
        BY <1>2, <2>1, <2>4, <3>1, <3>2 DEF Quarantine!BeginLegacy, SameView
      <3>4. QED
        BY <2>2, <2>5, <3>3 DEF Quarantine!Next
    <2>6. CASE task[a].path # p
      <3>1. /\ Stage(a, p)' = "idle" /\ Wanted(a, p)' = {} /\ Taken(a, p)' = None
            /\ quarantine'[p] = quarantine[p]
        BY <1>1, <2>1, <2>2, <2>3, <2>6 DEF Stage, Wanted, Taken, At
      <3>2. QED
        BY <1>2, <2>1, <2>4, <3>1 DEF Quarantine!vars, SameView
    <2>7. QED
      BY <2>5, <2>6
  <1>6. CASE Download(a)
    <2>1. PICK c \in Serves[task[a].path] :
             LET q == task[a].path
                 good == c \in task[a].wants
             IN  /\ quarantine' = IF good \/ task[a].root = "files"
                                  THEN [quarantine EXCEPT ![q] = c] ELSE quarantine
                 /\ task' = [task EXCEPT ![a] =
                       IF good THEN [@ EXCEPT !.pc = "recording", !.digest = c] ELSE Idle]
      BY <1>6 DEF Download
    <2>. DEFINE q == task[a].path
                good == c \in task[a].wants
                x == IF good THEN [task[a] EXCEPT !.pc = "recording", !.digest = c] ELSE Idle
    <2>2. /\ task[a].pc = "downloading" /\ q \in Paths /\ c \in Contents /\ c # None
          /\ task[a] \in Task /\ task[a].root \in {"files", "pypi"} /\ task[a].digest = None
      <3>1. task[a].pc = "downloading" /\ q \in Paths /\ task[a] \in Task /\ task[a].digest = None
        BY <1>1, <1>6 DEF Download, At, Fits
      <3>2. task[a].root \in {"files", "pypi"}
        BY <3>1 DEF Task, Roots
      <3>3. QED
        BY <1>1, <2>1, <3>1, <3>2
    <2>3. /\ good => /\ x.pc = "recording" /\ x.path = q /\ x.digest = c
                   /\ x.wants = task[a].wants
          /\ ~good => x = Idle
          /\ task'[a] = x /\ task' = [task EXCEPT ![a] = x]
      BY <1>1, <2>1, <2>2 DEF Task
    <2>4. /\ quarantine' = IF good \/ task[a].root = "files"
                           THEN [quarantine EXCEPT ![q] = c] ELSE quarantine
      BY <2>1
    <2>. HIDE DEF x
    <2>5. CASE q # p
      <3>1. /\ Stage(a, p) = "idle" /\ Stage(a, p)' = "idle"
            /\ Wanted(a, p) = {} /\ Wanted(a, p)' = {}
            /\ Taken(a, p) = None /\ Taken(a, p)' = None
        BY <1>1, <2>2, <2>3, <2>5 DEF Stage, Wanted, Taken, At, Idle
      <3>2. quarantine'[p] = quarantine[p]
        <4>1. CASE quarantine' = [quarantine EXCEPT ![q] = c]
          BY <1>1, <2>5, <4>1
        <4>2. CASE quarantine' = quarantine
          BY <4>2
        <4>3. QED
          BY <2>4, <4>1, <4>2
      <3>3. \A b \in Assessors : SameView(b, p)
        BY <1>2, <2>3, <3>1 DEF SameView
      <3>4. QED
        BY <3>2, <3>3 DEF Quarantine!vars, SameView
    <2>6. CASE q = p /\ good
      <3>1. /\ Stage(a, p) = (IF task[a].root = "pypi" THEN "legacy" ELSE "files")
            /\ Wanted(a, p) = task[a].wants /\ Wanted(a, p)' = task[a].wants
            /\ Stage(a, p)' = "accepted" /\ Taken(a, p)' = c
        BY <2>2, <2>3, <2>6 DEF Stage, Wanted, Taken, At
      <3>2. quarantine'[p] = c /\ c \in task[a].wants
        BY <1>1, <2>2, <2>4, <2>6
      <3>3. Quarantine(p)!Publish(a, c)
        BY <1>2, <2>3, <3>1, <3>2 DEF Quarantine!Publish, Quarantine!Fetching, SameView
      <3>4. QED
        BY <2>2, <3>3 DEF Quarantine!Next
    <2>7. CASE q = p /\ ~good
      <3>1. /\ Stage(a, p) = (IF task[a].root = "pypi" THEN "legacy" ELSE "files")
            /\ Wanted(a, p) = task[a].wants /\ Wanted(a, p)' = {}
            /\ Stage(a, p)' = "idle" /\ Taken(a, p) = None /\ Taken(a, p)' = None
        BY <1>1, <2>2, <2>3, <2>7 DEF Stage, Wanted, Taken, At, Idle
      <3>2. CASE task[a].root = "files"
        <4>1. quarantine'[p] = c /\ c \notin task[a].wants
          BY <1>1, <2>2, <2>4, <2>7, <3>2
        <4>2. Stage(a, p) = "files"
          BY <3>1, <3>2
        <4>3. \A b \in Assessors \ {a} : SameView(b, p)
          BY <1>2, <2>3
        <4>4. /\ [b \in Assessors |-> Stage(b, p)]' = [[b \in Assessors |-> Stage(b, p)] EXCEPT ![a] = "idle"]
              /\ [b \in Assessors |-> Wanted(b, p)]' = [[b \in Assessors |-> Wanted(b, p)] EXCEPT ![a] = {}]
              /\ UNCHANGED [b \in Assessors |-> Taken(b, p)]
          BY <3>1, <4>3 DEF SameView
        <4>5. Quarantine(p)!Publish(a, c)
          BY <3>1, <4>1, <4>2, <4>4 DEF Quarantine!Publish, Quarantine!Fetching
        <4>6. QED
          BY <2>2, <4>5 DEF Quarantine!Next
      <3>3. CASE task[a].root = "pypi"
        <4>1. UNCHANGED quarantine
          BY <2>4, <2>7, <3>3
        <4>2. \A b \in Assessors : task'[b] = IF b \in {a} THEN Idle ELSE task[b]
          BY <1>1, <2>3, <2>7, Kinds
        <4>3. QED
          BY <4>1, <4>2, PathEnds
      <3>4. QED
        BY <2>2, <3>2, <3>3
    <2>8. QED
      BY <2>5, <2>6, <2>7
  <1>7. CASE Spill(a)
    <2>1. /\ task[a].pc = "downloading" /\ task' = task /\ task[a].path \in Paths
          /\ quarantine[task[a].path] # None
          /\ \E c \in Contents : quarantine' = [quarantine EXCEPT ![task[a].path] = c]
      BY <1>1, <1>7 DEF Spill, At, Fits
    <2>2. PICK c \in Contents : quarantine' = [quarantine EXCEPT ![task[a].path] = c]
      BY <2>1
    <2>3. \A b \in Assessors : SameView(b, p)
      BY <2>1 DEF SameView, Stage, Wanted, Taken, At
    <2>4. CASE task[a].path = p
      <3>1. Stage(a, p) \in {"files", "legacy"} /\ quarantine[p] # None /\ quarantine'[p] = c
        BY <1>1, <2>1, <2>2, <2>4 DEF Stage, At
      <3>2. Quarantine(p)!Spill(a, c)
        BY <2>3, <3>1 DEF Quarantine!Spill, Quarantine!Fetching, SameView
      <3>3. QED
        BY <3>2 DEF Quarantine!Next
    <2>5. CASE task[a].path # p
      <3>1. quarantine'[p] = quarantine[p]
        BY <1>1, <2>2, <2>5
      <3>2. QED
        BY <2>3, <3>1 DEF Quarantine!vars, SameView
    <2>6. QED
      BY <2>4, <2>5
  <1>8. QED
    BY <1>3, <1>4, <1>5, <1>6, <1>7

\* An assessment after its download.
LEMMA PathAssess ==
  ASSUME Shape, Shape', NEW p \in Paths, NEW a \in Assessors,
         UpstreamFails(a) \/ Record(a) \/ Scan(a) \/ SandboxEnds(a) \/ Evaluate(a)
         \/ SaveDecision(a) \/ Settle(a)
  PROVE  [Quarantine(p)!Next]_(Quarantine(p)!vars)
  <1>1. a \in Handlers
    BY Kinds
  <1>2. CASE UpstreamFails(a) \/ Settle(a)
    BY <1>1, <1>2, PathFinishes DEF UpstreamFails, Settle, disk
  <1>3. CASE Record(a) \/ Scan(a) \/ SandboxEnds(a)
    BY <1>1, <1>3, PathGoTo DEF Record, Scan, SandboxEnds, disk, At
  <1>4. CASE SaveDecision(a)
    BY <1>1, <1>4, PathGoTo DEF SaveDecision, disk, At
  <1>5. CASE Evaluate(a)
    <2>1. PICK v \in Verdicts(Mode, task[a].digest \in revocations) :
             task' = [task EXCEPT ![a].pc = "deciding", ![a].decision = v]
      BY <1>5 DEF Evaluate
    <2>. DEFINE x == [task[a] EXCEPT !.pc = "deciding", !.decision = v]
    <2>2. task[a] \in Task /\ task[a].pc = "checking" /\ UNCHANGED quarantine
      BY <1>1, <1>5 DEF Evaluate, At, disk, Shape, TasksFit
    <2>3. x.path = task[a].path /\ x.digest = task[a].digest /\ x.wants = task[a].wants /\ x.pc = "deciding"
      BY <2>2 DEF Task
    <2>4. task' = [task EXCEPT ![a] = x]
      BY <2>1
    <2>. HIDE DEF x
    <2>5. QED
      BY <1>1, <2>2, <2>3, <2>4, PathGoesOn
  <1>6. QED
    BY <1>2, <1>3, <1>4, <1>5

\* The promotion and the permit, of an assessment or of an approval.
LEMMA PathPublish ==
  ASSUME Shape, Shape', NEW p \in Paths, NEW t \in Handlers, Publish(t)
  PROVE  [Quarantine(p)!Next]_(Quarantine(p)!vars)
  <1>1. CASE Promote(t) \/ Allow(t)
    BY <1>1, PathGoTo DEF Promote, Allow, At, disk
  <1>2. CASE OpenCopy(t)
    <2>1. UNCHANGED quarantine /\ task[t].pc = "opening" /\ task[t] \in Task
      BY <1>2 DEF OpenCopy, At, Shape, TasksFit
    <2>2. CASE Finish(t)
      BY <2>1, <2>2, PathFinishes
    <2>3. CASE task' = [task EXCEPT ![t].pc = "copying", ![t].bytes = Source(t)]
      <3>. DEFINE x == [task[t] EXCEPT !.pc = "copying", !.bytes = Source(t)]
      <3>1. x.path = task[t].path /\ x.digest = task[t].digest /\ x.wants = task[t].wants /\ x.pc = "copying"
        BY <2>1 DEF Task
      <3>2. task' = [task EXCEPT ![t] = x]
        BY <2>3
      <3>. HIDE DEF x
      <3>3. QED
        BY <2>1, <3>1, <3>2, PathGoesOn
    <2>4. QED
      BY <1>2, <2>2, <2>3 DEF OpenCopy
  <1>3. CASE CloseCopy(t)
    <2>. DEFINE x == [task[t] EXCEPT !.pc = "allowing", !.bytes = None]
    <2>1. UNCHANGED quarantine /\ task[t].pc = "copying" /\ task[t] \in Task
      BY <1>3 DEF CloseCopy, At, Shape, TasksFit
    <2>2. x.path = task[t].path /\ x.digest = task[t].digest /\ x.wants = task[t].wants /\ x.pc = "allowing"
      BY <2>1 DEF Task
    <2>3. task' = [task EXCEPT ![t] = x]
      BY <1>3 DEF CloseCopy
    <2>. HIDE DEF x
    <2>4. QED
      BY <2>1, <2>2, <2>3, PathGoesOn
  <1>4. CASE Issue(t)
    BY <1>4, PathGoTo, PathFinishes DEF Issue, At, disk
  <1>5. QED
    BY <1>1, <1>2, <1>3, <1>4 DEF Publish

\* Approvals and revocations are not seen by the path.
LEMMA PathApart ==
  ASSUME Shape, NEW p \in Paths, UNCHANGED quarantine,
         NEW t \in Approvers \cup Revokers, NEW x, task' = [task EXCEPT ![t] = x]
  PROVE  [Quarantine(p)!Next]_(Quarantine(p)!vars)
  <1>1. \A a \in Assessors : task'[a] = task[a]
    BY Kinds DEF Shape, TasksFit
  <1>2. QED
    BY <1>1, PathStays DEF SameView, Stage, Wanted, Taken, At

LEMMA PathApproves ==
  ASSUME Shape, Shape', NEW p \in Paths, NEW r \in Approvers, Approve(r) \/ ApproveReview(r)
  PROVE  [Quarantine(p)!Next]_(Quarantine(p)!vars)
  <1>1. CASE Publish(r)
    BY <1>1, Kinds, PathPublish
  <1>2. CASE Approve(r) \/ (ApproveReview(r) /\ ~Publish(r))
    <2>1. UNCHANGED quarantine
      BY <1>2 DEF Approve, ApproveReview, Recheck, FindSource, SaveApproval, LogApproval, disk
    <2>2. \E x : task' = [task EXCEPT ![r] = x]
      BY <1>2 DEF Approve, ApproveReview, Recheck, FindSource, SaveApproval, LogApproval, GoTo, Finish
    <2>3. QED
      BY <2>1, <2>2, PathApart
  <1>3. QED
    BY <1>1, <1>2

LEMMA PathRevokes ==
  ASSUME Shape, NEW p \in Paths, NEW v \in Revokers, Revoke(v) \/ RevokeDigest(v)
  PROVE  [Quarantine(p)!Next]_(Quarantine(p)!vars)
  <1>1. UNCHANGED quarantine
    BY DEF Revoke, RevokeDigest, VoidPermits, MarkRevoked, disk
  <1>2. \E x : task' = [task EXCEPT ![v] = x]
    BY DEF Revoke, RevokeDigest, VoidPermits, MarkRevoked, GoTo, Finish
  <1>3. QED
    BY <1>1, <1>2, PathApart

LEMMA PathNext ==
  ASSUME Shape, Shape', [Next]_vars, NEW p \in Paths
  PROVE  [Quarantine(p)!Next]_(Quarantine(p)!vars)
  <1>1. ASSUME NEW a \in Assessors, Start(a) \/ Spill(a) \/ Assess(a)
        PROVE  [Quarantine(p)!Next]_(Quarantine(p)!vars)
    BY <1>1, Kinds, PathBegins, PathAssess, PathPublish DEF Assess
  <1>2. ASSUME NEW t \in Handlers, Raise(t)
        PROVE  [Quarantine(p)!Next]_(Quarantine(p)!vars)
    BY <1>2, PathFinishes DEF Raise, disk
  <1>3. CASE Restart
    <2>1. UNCHANGED quarantine /\ \A a \in Assessors : task'[a] = IF a \in Assessors THEN Idle ELSE task[a]
      BY <1>3, Kinds DEF Restart, disk
    <2>2. QED
      BY <2>1, PathEnds
  <1>4. CASE UNCHANGED vars
    BY <1>4, PathStays DEF vars, disk, SameView, Stage, Wanted, Taken, At
  <1>5. QED
    BY <1>1, <1>2, <1>3, <1>4, PathApproves, PathRevokes DEF Next

\* The service treats every path of its quarantine as Publication says, which is
\* what the downloads of a path have been shown to implement: what Resolve,
\* Download and Spill take for granted is what download_http_file provides.
THEOREM QuarantineImplemented == Spec => ImplementsPublication
  <1>1. Init => \A p \in Paths : Quarantine(p)!Init
    <2>1. SUFFICES ASSUME Init, NEW p \in Paths PROVE Quarantine(p)!Init
      OBVIOUS
    <2>2. quarantine[p] = None
      BY <2>1 DEF Init
    <2>3. \A a \in Assessors : task[a] = Idle
      BY <2>1, Kinds DEF Init
    <2>4. \A a \in Assessors : Stage(a, p) = "idle" /\ Wanted(a, p) = {} /\ Taken(a, p) = None
      BY <2>3, FirewallAssumption DEF Stage, Wanted, Taken, At, Idle
    <2>5. QED
      BY <2>2, <2>4 DEF Quarantine!Init
  <1>2. Shape /\ Shape' /\ [Next]_vars
           => [\A p \in Paths : [Quarantine(p)!Next]_(Quarantine(p)!vars)]_vars
    BY PathNext
  <1>3. Spec => []Shape
    BY InitShape, NextShape, PTL DEF Spec
  <1>4. QED
    BY <1>1, <1>2, <1>3, PTL DEF Spec, ImplementsPublication

=============================================================================
