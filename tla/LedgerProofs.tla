---------------------------- MODULE LedgerProofs ----------------------------
(***************************************************************************)
(* Firewall implements PermitLedger whenever the policy denies revoked     *)
(* digests, that is in every mode but observe.                             *)
(***************************************************************************)
EXTENDS AdmissionProofs

-----------------------------------------------------------------------------
(* A revocation voids permits only after it is recorded.                   *)

RevokersRecorded ==
    \A v \in Revokers : task[v].pc = "voiding" => task[v].digest \in revocations

LEMMA RevocationsGrow == [Next]_vars => revocations \subseteq revocations'
  BY DEF Next, Start, Spill, Assess, Approve, ApproveReview, Revoke, RevokeDigest, Raise, Restart,
         Resolve, Download, UpstreamFails, Record, Scan, SandboxEnds, Evaluate, SaveDecision,
         Settle, Publish, Promote, OpenCopy, CloseCopy, Allow, Issue, Recheck, FindSource,
         SaveApproval, LogApproval, VoidPermits, MarkRevoked, vars, tables

-----------------------------------------------------------------------------
(* A digest that is revoked and has no cleared request stays so.           *)

\* Others keep their local state, and t is cleared for no digest that is
\* revoked already unless it was before.
KeepsClosed(t) ==
    /\ \A u \in Handlers \ {t} : task'[u] = task[u]
    /\ \A d \in revocations : Cleared(t, d)' => Cleared(t, d)

LEMMA FinishCloses ==
  ASSUME Shape, NEW t \in Handlers, Finish(t)
  PROVE  KeepsClosed(t) /\ task'[t].pc # "voiding"
  BY DEF Shape, TasksFit, Finish, Idle, KeepsClosed, Cleared

LEMMA GoToCloses ==
  ASSUME Shape, NEW t \in Handlers, NEW p, GoTo(t, p), task[t].pc # "logging"
  PROVE  KeepsClosed(t) /\ task'[t].pc = p
  BY DEF Shape, TasksFit, GoTo, Task, KeepsClosed, Cleared

LEMMA AssessCloses ==
  ASSUME Mode # "observe", Shape, NEW a \in Assessors, Start(a) \/ (Assess(a) /\ ~Publish(a))
  PROVE  KeepsClosed(a)
  <1>1. a \in Handlers /\ task \in [Handlers -> Task] /\ Fits(a, task[a])
    BY Kinds DEF Shape, TasksFit
  <1>2. CASE Start(a)
    <2>1. PICK q \in Paths, e \in Envs, r \in Routes : \E w \in Declares[q] :
             task' = [task EXCEPT ![a] =
                [Idle EXCEPT !.pc = IF r = "pypi" THEN "resolving" ELSE "downloading",
                             !.path = q, !.env = e, !.wants = w, !.root = r]]
      BY <1>2 DEF Start
    <2>2. PICK w \in Declares[q] :
             task' = [task EXCEPT ![a] =
                [Idle EXCEPT !.pc = IF r = "pypi" THEN "resolving" ELSE "downloading",
                             !.path = q, !.env = e, !.wants = w, !.root = r]]
      BY <2>1
    <2>3. task'[a].decision = "none"
      BY <1>1, <2>2 DEF Idle
    <2>4. QED
      BY <1>1, <2>2, <2>3 DEF KeepsClosed, Cleared
  <1>3. CASE Resolve(a)
    <2>1. task'[a].decision = "none" /\ \A u \in Handlers \ {a} : task'[u] = task[u]
      BY <1>1, <1>3 DEF Resolve, At, Fits, GoTo, Task
    <2>2. QED
      BY <2>1 DEF KeepsClosed, Cleared
  <1>4. CASE Download(a)
    <2>1. task'[a].decision = "none" /\ \A u \in Handlers \ {a} : task'[u] = task[u]
      BY <1>1, <1>4 DEF Download, At, Fits, Idle, Task
    <2>2. QED
      BY <2>1 DEF KeepsClosed, Cleared
  <1>5. CASE UpstreamFails(a) \/ Settle(a)
    BY <1>1, <1>5, FinishCloses DEF UpstreamFails, Settle
  <1>6. CASE Record(a) \/ Scan(a) \/ SandboxEnds(a) \/ SaveDecision(a)
    BY <1>1, <1>6, GoToCloses DEF Record, Scan, SandboxEnds, SaveDecision, At
  <1>7. CASE Evaluate(a)
    <2>1. PICK v \in Verdicts(Mode, task[a].digest \in revocations) :
             task' = [task EXCEPT ![a] = [task[a] EXCEPT !.pc = "deciding", !.decision = v]]
      BY <1>7 DEF Evaluate
    <2>2. task[a].digest \in revocations => v = "deny"
      BY <2>1 DEF Verdicts
    <2>3. task'[a].digest = task[a].digest /\ task'[a].decision = v
      BY <1>1, <2>1 DEF Task
    <2>4. QED
      BY <1>1, <2>1, <2>2, <2>3 DEF KeepsClosed, Cleared
  <1>8. QED
    BY <1>2, <1>3, <1>4, <1>5, <1>6, <1>7 DEF Assess

LEMMA PublishCloses ==
  ASSUME Shape, NEW t \in Assessors \cup Approvers, Publish(t)
  PROVE  KeepsClosed(t)
  <1>1. t \in Handlers /\ task \in [Handlers -> Task]
    BY Kinds DEF Shape, TasksFit
  <1>2. CASE Promote(t) \/ Allow(t) \/ Issue(t)
    BY <1>1, <1>2, GoToCloses, FinishCloses DEF Promote, Allow, Issue, At
  <1>3. CASE OpenCopy(t)
    <2>1. CASE Source(t) = None
      BY <1>1, <1>3, <2>1, FinishCloses DEF OpenCopy
    <2>2. CASE Source(t) # None
      BY <1>1, <1>3, <2>2 DEF OpenCopy, At, Task, KeepsClosed, Cleared
    <2>3. QED
      BY <2>1, <2>2
  <1>4. CASE CloseCopy(t)
    BY <1>1, <1>4 DEF CloseCopy, At, Task, KeepsClosed, Cleared
  <1>5. QED
    BY <1>2, <1>3, <1>4 DEF Publish

LEMMA ApproveCloses ==
  ASSUME Shape, NEW r \in Approvers, Approve(r) \/ (ApproveReview(r) /\ ~Publish(r))
  PROVE  KeepsClosed(r)
  <1>1. r \in Handlers /\ task \in [Handlers -> Task]
    BY Kinds DEF Shape, TasksFit
  <1>2. CASE Approve(r)
    <2>1. PICK d \in Contents, e \in Envs :
             task' = [task EXCEPT ![r] =
                [Idle EXCEPT !.pc = "checking", !.path = artifacts[d].path, !.env = e,
                             !.digest = d, !.from = artifacts[d].at,
                             !.root = IF artifacts[d].path \in PyPI THEN "pypi" ELSE "files"]]
      BY <1>2 DEF Approve
    <2>2. task'[r].decision = "none"
      BY <1>1, <2>1 DEF Idle
    <2>3. QED
      BY <1>1, <2>1, <2>2 DEF KeepsClosed, Cleared
  <1>3. CASE Recheck(r)
    <2>1. CASE task[r].digest \in revocations
      BY <1>1, <1>3, <2>1, FinishCloses DEF Recheck
    <2>2. CASE task[r].digest \notin revocations
      BY <1>1, <1>3, <2>2 DEF Recheck, Task, KeepsClosed, Cleared
    <2>3. QED
      BY <2>1, <2>2
  <1>4. CASE FindSource(r) \/ SaveApproval(r) \/ LogApproval(r)
    BY <1>1, <1>4, GoToCloses, FinishCloses DEF FindSource, SaveApproval, LogApproval, At
  <1>5. QED
    BY <1>2, <1>3, <1>4 DEF ApproveReview

LEMMA RevokeCloses ==
  ASSUME Shape, RevokersRecorded, NEW v \in Revokers, Revoke(v) \/ RevokeDigest(v)
  PROVE  KeepsClosed(v) /\ (task'[v].pc = "voiding" => task'[v].digest \in revocations')
  <1>1. v \in Handlers /\ task \in [Handlers -> Task]
    BY Kinds DEF Shape, TasksFit
  <1>2. CASE Revoke(v)
    <2>1. PICK d \in Contents :
             /\ revocations' = revocations \cup {d}
             /\ task' = [task EXCEPT ![v] = [Idle EXCEPT !.pc = "voiding", !.digest = d]]
      BY <1>2 DEF Revoke
    <2>2. task'[v].decision = "none" /\ task'[v].digest = d
      BY <1>1, <2>1 DEF Idle
    <2>3. QED
      BY <1>1, <2>1, <2>2 DEF KeepsClosed, Cleared
  <1>3. CASE VoidPermits(v)
    BY <1>1, <1>3, GoToCloses DEF VoidPermits, At
  <1>4. CASE MarkRevoked(v)
    BY <1>1, <1>4, FinishCloses DEF MarkRevoked
  <1>5. QED
    BY <1>2, <1>3, <1>4 DEF RevokeDigest

LEMMA StepCloses ==
  ASSUME Mode # "observe", Shape, RevokersRecorded, [Next]_vars
  PROVE  /\ RevokersRecorded'
         /\ \A d \in revocations, t \in Handlers : Cleared(t, d)' => Cleared(t, d)
  <1>1. revocations \subseteq revocations'
    BY RevocationsGrow
  <1>2. ASSUME NEW t \in Handlers, KeepsClosed(t),
               t \in Revokers => (task'[t].pc = "voiding" => task'[t].digest \in revocations')
        PROVE  /\ RevokersRecorded'
               /\ \A d \in revocations, u \in Handlers : Cleared(u, d)' => Cleared(u, d)
    BY <1>1, <1>2, Kinds DEF KeepsClosed, RevokersRecorded, Cleared
  <1>3. ASSUME NEW a \in Assessors, Start(a) \/ Assess(a) PROVE KeepsClosed(a)
    BY <1>3, AssessCloses, PublishCloses
  <1>4. ASSUME NEW r \in Approvers, Approve(r) \/ ApproveReview(r) PROVE KeepsClosed(r)
    BY <1>4, ApproveCloses, PublishCloses
  <1>5. CASE Restart
    BY <1>5, Kinds DEF Restart, Idle, RevokersRecorded, Cleared
  <1>6. CASE UNCHANGED <<tables, mirror, task>>
    BY <1>6 DEF tables, RevokersRecorded, Cleared
  <1>7. ASSUME NEW t \in Handlers, Raise(t) PROVE KeepsClosed(t) /\ task'[t].pc # "voiding"
    BY <1>7, FinishCloses DEF Raise
  <1>8. QED
    BY <1>2, <1>3, <1>4, <1>5, <1>6, <1>7, RevokeCloses, Kinds
       DEF Next, Spill, vars, disk

-----------------------------------------------------------------------------
(* Every step is a step of the ledger.                                     *)

LEMMA PhaseMeans ==
  \A d \in Contents :
     /\ d \notin revocations => Phase(d) = "open"
     /\ d \in revocations /\ (\E t \in Handlers : Cleared(t, d)) => Phase(d) = "closing"
     /\ d \in revocations /\ ~(\E t \in Handlers : Cleared(t, d)) => Phase(d) = "closed"
  BY DEF Phase

LEMMA Advances ==
  ASSUME Mode # "observe", Shape, RevokersRecorded, [Next]_vars
  PROVE  Ledger!Advance
  <1>1. /\ revocations \subseteq revocations'
        /\ \A d \in revocations, t \in Handlers : Cleared(t, d)' => Cleared(t, d)
    BY RevocationsGrow, StepCloses
  <1>2. ASSUME NEW d \in Contents
        PROVE  Phase(d)' \in Ledger!Phases /\ Phase(d)' \in Ledger!Later(Phase(d))
    BY <1>1, PhaseMeans DEF Phase, Ledger!Phases, Ledger!Later
  <1>3. QED
    BY <1>2 DEF Ledger!Advance

\* The ledger's variables but the phases.
shown == <<[i \in PermitIds |-> permits[i].state], [i \in PermitIds |-> permits[i].digest],
           [d \in Contents |-> artifacts[d].status = "allowed"]>>

LEMMA Unlists ==
  ASSUME Shape, NEW d \in Contents, NEW row \in Rows, row.status # "allowed",
         artifacts' = [artifacts EXCEPT ![d] = row], permits' = permits
  PROVE  Ledger!Delist(d)
  BY DEF Shape, RowsFit, Ledger!Delist

LEMMA LedgerStep ==
  ASSUME Mode # "observe", Shape, Consistent, RevokersRecorded, [Next]_vars
  PROVE  [Ledger!Next]_Ledger!vars
  <1>1. Ledger!Advance
    BY Advances
  <1>2. SUFFICES \/ \E i \in PermitIds, d \in Contents : Ledger!Grant(i, d)
                 \/ \E d \in Contents : Ledger!Void(d) \/ Ledger!List(d) \/ Ledger!Delist(d)
                 \/ shown' = shown
    BY <1>1 DEF Ledger!Next, shown
  <1>3. CASE artifacts' = artifacts /\ permits' = permits
    BY <1>3 DEF shown
  <1>4. ASSUME NEW a \in Assessors, Record(a) PROVE \E d \in Contents : Ledger!Delist(d)
    <2>1. task[a].digest \in Contents /\ task[a].path \in Paths
      BY <1>4, Kinds DEF Record, At, Shape, TasksFit, Fits
    <2>2. [status |-> "quarantined", path |-> task[a].path, at |-> "quarantine"] \in Rows
      BY <2>1 DEF Rows
    <2>3. QED
      BY <1>4, <2>1, <2>2, Unlists DEF Record
  <1>5. ASSUME NEW d \in Contents, NEW s \in {"review", "denied", "revoked"},
               SetStatus(d, s), permits' = permits
        PROVE  Ledger!Delist(d)
    <2>1. PICK row \in Rows : row.status # "allowed" /\ artifacts' = [artifacts EXCEPT ![d] = row]
      <3>1. DEFINE row == [artifacts[d] EXCEPT !.status = IF @ = "absent" THEN @ ELSE s]
      <3>2. row \in Rows /\ row.status # "allowed" /\ artifacts' = [artifacts EXCEPT ![d] = row]
        BY <1>5 DEF SetStatus, Shape, RowsFit, Rows
      <3>3. QED
        BY <3>2
    <2>2. QED
      BY <1>5, <2>1, Unlists
  <1>6. ASSUME NEW t \in Handlers, Settle(t) \/ MarkRevoked(t), task[t].digest \in Contents
        PROVE  \E d \in Contents : Ledger!Delist(d)
    BY <1>5, <1>6 DEF Settle, MarkRevoked
  <1>7. ASSUME NEW t \in Assessors \cup Approvers, Allow(t)
        PROVE  \E d \in Contents : Ledger!List(d)
    <2>1. /\ t \in Handlers /\ task[t].digest \in Contents /\ task[t].decision = "allow"
          /\ task[t].path \in Paths /\ task[t].root \in Roots
      BY <1>7, Kinds DEF Allow, At, Shape, TasksFit, Fits, Task, Consistent, AllEarned, Earned, Publishing
    <2>2. PICK d \in Contents : d = task[t].digest
      BY <2>1
    <2>3. Phase(d) # "closed"
      BY <1>7, <2>1, <2>2 DEF Allow, At, Phase, Cleared
    <2>4. /\ permits' = permits
          /\ artifacts' = [artifacts EXCEPT ![d] =
                [status |-> "allowed", path |-> task[t].path, at |-> task[t].root]]
      BY <1>7, <2>2 DEF Allow
    <2>5. Ledger!List(d)
      BY <2>1, <2>3, <2>4 DEF Ledger!List, Shape, RowsFit
    <2>6. QED
      BY <2>5
  <1>8. ASSUME NEW t \in Assessors \cup Approvers, Issue(t)
        PROVE  \E i \in PermitIds, d \in Contents : Ledger!Grant(i, d)
    <2>1. t \in Handlers /\ task[t].digest \in Contents /\ task[t].decision = "allow"
      BY <1>8, Kinds DEF Issue, At, Shape, TasksFit, Fits, Task, Consistent, AllEarned, Earned, Publishing
    <2>2. PICK d \in Contents : d = task[t].digest
      BY <2>1
    <2>3. Phase(d) # "closed"
      BY <1>8, <2>1, <2>2 DEF Issue, At, Phase, Cleared
    <2>4. PICK i \in PermitIds :
             /\ permits[i].state = "none"
             /\ permits' = [permits EXCEPT ![i] =
                   [state |-> "active", digest |-> d, env |-> task[t].env]]
      BY <1>8, <2>2 DEF Issue
    <2>5. artifacts' = artifacts
      BY <1>8 DEF Issue
    <2>6. Ledger!Grant(i, d)
      BY <2>1, <2>3, <2>4, <2>5 DEF Ledger!Grant, Shape, PermitsFit
    <2>7. QED
      BY <2>6
  <1>9. ASSUME NEW v \in Revokers, VoidPermits(v) PROVE \E d \in Contents : Ledger!Void(d)
    <2>1. task[v].digest \in Contents /\ task[v].digest \in revocations
      BY <1>9, Kinds DEF VoidPermits, At, Shape, TasksFit, Fits, RevokersRecorded
    <2>2. PICK d \in Contents : d = task[v].digest
      BY <2>1
    <2>3. Phase(d) # "open"
      BY <2>1, <2>2 DEF Phase
    <2>4. /\ artifacts' = artifacts
          /\ permits' = [i \in PermitIds |->
                IF permits[i].digest = d THEN [permits[i] EXCEPT !.state = "revoked"] ELSE permits[i]]
      BY <1>9, <2>2 DEF VoidPermits
    <2>5. Ledger!Void(d)
      BY <2>1, <2>3, <2>4 DEF Ledger!Void, Shape, PermitsFit, Permits
    <2>6. QED
      BY <2>5
  <1>10. ASSUME NEW a \in Assessors, Start(a) \/ (Assess(a) /\ ~Publish(a)), ~Record(a), ~Settle(a)
         PROVE  artifacts' = artifacts /\ permits' = permits
    BY <1>10 DEF Assess, Start, Resolve, Download, UpstreamFails, Scan, SandboxEnds, Evaluate,
                 SaveDecision, tables
  <1>11. ASSUME NEW r \in Approvers, Approve(r) \/ (ApproveReview(r) /\ ~Publish(r))
         PROVE  artifacts' = artifacts /\ permits' = permits
    BY <1>11 DEF ApproveReview, Approve, Recheck, FindSource, SaveApproval, LogApproval, tables
  <1>12. ASSUME NEW t \in Assessors \cup Approvers, Publish(t), ~Allow(t), ~Issue(t)
         PROVE  artifacts' = artifacts /\ permits' = permits
    BY <1>12 DEF Publish, Promote, OpenCopy, CloseCopy, tables
  <1>13. ASSUME NEW v \in Revokers, Revoke(v)
         PROVE  artifacts' = artifacts /\ permits' = permits
    BY <1>13 DEF Revoke
  <1>14. CASE \/ \E a \in Assessors : Spill(a)
              \/ \E t \in Handlers : Raise(t)
              \/ Restart \/ UNCHANGED vars
    BY <1>3, <1>14 DEF Spill, Raise, Restart, vars, tables
  <1>15. ASSUME NEW t \in Handlers, Settle(t) \/ MarkRevoked(t) PROVE task[t].digest \in Contents
    BY <1>15 DEF Settle, MarkRevoked, At, Shape, TasksFit, Fits
  <1>16. QED
    BY <1>3, <1>4, <1>6, <1>7, <1>8, <1>9, <1>10, <1>11, <1>12, <1>13, <1>14, <1>15, Kinds
       DEF Next, RevokeDigest

LEMMA LedgerInit == Init => Ledger!Init /\ RevokersRecorded
  <1> SUFFICES ASSUME Init PROVE Ledger!Init /\ RevokersRecorded
    OBVIOUS
  <1>1. \A d \in Contents : Phase(d) = "open"
    BY PhaseMeans DEF Init
  <1>2. Ledger!Init
    BY <1>1 DEF Init, Ledger!Init
  <1>3. RevokersRecorded
    BY Kinds DEF Init, Idle, RevokersRecorded
  <1>4. QED
    BY <1>2, <1>3

\* Unless the policy mode is observe, the service implements the permit
\* ledger: whatever overlaps, crashes, is re-assessed or approved again, a
\* revoked digest gets a permit or becomes listed only from requests that had
\* passed their revocation check before it was revoked, and never again once
\* they are gone.  (In observe mode evaluate allows revoked digests too,
\* policy.py:164.)
THEOREM LedgerImplemented ==
  ASSUME Mode # "observe"
  PROVE  Spec => ImplementsLedger
  <1>1. Shape /\ RevokersRecorded /\ [Next]_vars => RevokersRecorded'
    BY StepCloses
  <1>2. Shape /\ Consistent /\ RevokersRecorded /\ [Next]_vars => [Ledger!Next]_Ledger!vars
    BY LedgerStep
  <1>3. QED
    BY InitShape, NextShape, InitConsistent, NextConsistent, LedgerInit, <1>1, <1>2, PTL
       DEF Spec, ImplementsLedger, Ledger!Spec

-----------------------------------------------------------------------------
(* What the ledger's promise means for a finished revocation.              *)

\* No step gives a closed digest a permit that is valid, or lists it.
LEMMA ClosedStaysUnused ==
  ASSUME NEW d \in Contents, Phase(d) = "closed", [Ledger!Next]_Ledger!vars
  PROVE  /\ \A i \in PermitIds : permits'[i].digest = d =>
               /\ permits[i].digest = d
               /\ permits'[i].state = "active" => permits[i].state = "active"
         /\ artifacts'[d].status = "allowed" => artifacts[d].status = "allowed"
  <1> DEFINE S == [i \in PermitIds |-> permits[i].state]
             B == [i \in PermitIds |-> permits[i].digest]
             L == [c \in Contents |-> artifacts[c].status = "allowed"]
             P == [c \in Contents |-> Phase(c)]
             Unused == /\ \A i \in PermitIds : B'[i] = d =>
                             B[i] = d /\ (S'[i] = "active" => S[i] = "active")
                       /\ L'[d] => L[d]
  <1>1. P[d] = "closed"
    OBVIOUS
  <1>2. ASSUME NEW i \in PermitIds, NEW c \in Contents, Ledger!Grant(i, c)
        PROVE  Unused
    <2>1. P[c] # "closed" /\ S' = [S EXCEPT ![i] = "active"] /\ B' = [B EXCEPT ![i] = c] /\ L' = L
      BY <1>2 DEF Ledger!Grant
    <2>2. QED
      BY <1>1, <2>1
  <1>3. ASSUME NEW c \in Contents, Ledger!Void(c)
        PROVE  Unused
    <2>1. S' = [i \in PermitIds |-> IF B[i] = c THEN "revoked" ELSE S[i]] /\ B' = B /\ L' = L
      BY <1>3 DEF Ledger!Void
    <2>2. QED
      BY <2>1
  <1>4. ASSUME NEW c \in Contents, Ledger!List(c)
        PROVE  Unused
    <2>1. P[c] # "closed" /\ L' = [L EXCEPT ![c] = TRUE] /\ S' = S /\ B' = B
      BY <1>4 DEF Ledger!List
    <2>2. QED
      BY <1>1, <2>1
  <1>5. ASSUME NEW c \in Contents, Ledger!Delist(c)
        PROVE  Unused
    <2>1. L' = [L EXCEPT ![c] = FALSE] /\ S' = S /\ B' = B
      BY <1>5 DEF Ledger!Delist
    <2>2. QED
      BY <2>1
  <1>6. CASE S' = S /\ B' = B /\ L' = L
    BY <1>6
  <1>7. Unused
    BY <1>2, <1>3, <1>4, <1>5, <1>6 DEF Ledger!Next, Ledger!vars
  <1>8. QED
    BY <1>7

LEMMA BarredStays ==
  ASSUME Mode # "observe", Shape, Consistent, RevokersRecorded, [Next]_vars,
         NEW d \in Contents, Barred(d)
  PROVE  Barred(d)'
  <1>1. Phase(d) = "closed"
    BY PhaseMeans DEF Barred
  <1>2. /\ \A i \in PermitIds : permits'[i].digest = d =>
              /\ permits[i].digest = d
              /\ permits'[i].state = "active" => permits[i].state = "active"
        /\ artifacts'[d].status = "allowed" => artifacts[d].status = "allowed"
    BY <1>1, LedgerStep, ClosedStaysUnused
  <1>3. d \in revocations' /\ \A t \in Handlers : ~Cleared(t, d)'
    BY RevocationsGrow, StepCloses DEF Barred
  <1>4. QED
    BY <1>2, <1>3 DEF Barred

\* Unless the policy mode is observe, what a revocation has achieved lasts,
\* through any number of assessments, approvals, exceptions and restarts.
THEOREM RevocationIsFinal ==
  ASSUME Mode # "observe"
  PROVE  Spec => RevocationLasts
  <1>1. Shape /\ RevokersRecorded /\ [Next]_vars => RevokersRecorded'
    BY StepCloses
  <1>2. Shape /\ Consistent /\ RevokersRecorded /\ [Next]_vars
          => [\A d \in Contents : Barred(d) => Barred(d)']_vars
    BY BarredStays
  <1>3. QED
    BY InitShape, NextShape, InitConsistent, NextConsistent, LedgerInit, <1>1, <1>2, PTL
       DEF Spec, RevocationLasts

=============================================================================
