# Palsy: a verification project

Palsy is a self-hosted firewall for package ingress: it downloads an artefact
from an upstream registry into a quarantine, scans it, asks a policy, and
either mirrors it under its digest with a signed permit, leaves it for a human
review, or denies it. A gate runs the same assessment over a whole lockfile in
a build. This directory models the parts of it that keep state or decide, in
TLA+: TLC checks the models on small instances, and TLAPS proves what matters
most for all of them.

## The system

| Part | Source | State | Operations |
|---|---|---|---|
| Admission service | `service.py` | none of its own | `assess`, `assess_universal`, `assess_lockfile`, `approve_review`, `revoke`, `file_by_digest`, listings |
| Ledger | `db.py` | seven tables of one SQLite file | upserts, status updates, inserts, `revoke`, queries |
| Mirror | `mirror.py` | quarantine and mirror trees | `promote`, `promote_universal`, `file_by_digest`, index pages |
| Providers | `providers/*`, `pypi_client.py` | files in the quarantine | `resolve`, `download`, digest and SRI checks |
| Scanner | `scanner.py` | none | archive to findings and capabilities; the service stores one scan per digest |
| Sandbox | `sandbox.py` | a container | run with a timeout, parse events |
| Policy engine | `policy.py`, `policy_composer.py` | none | `evaluate`; presets |
| Permits | `permits.py` | a key file | load or create the key, sign, verify |
| Licences | `licensing.py` | a licence file | trial, status, remaining days |
| Gate | `gate.py` | permit files | `gate`, `verify-permit` |
| Lockfile parser | `lockfiles.py` | none | lockfile to coordinates |
| HTTP API | `api.py` | one service per process | routes |
| Reports, console | the rest | report files | rendering |

How they interact. The API builds one `FirewallService` per process. The
assessment routes are `async def`: they run on one event loop and give way to
each other only at an `await` (registry calls, the download, the sandbox). The
approval, revocation and read routes are plain functions: the framework runs
them on a thread pool, beside everything else. All of them share the SQLite
file, where every statement is a transaction of its own
(`isolation_level=None`), and the two directory trees. The gate builds its own
service in its own process over the same kind of state directory and adds
permit files that no table knows.

What is hard: steps of assessments, approvals and revocations in any order; a
revocation check that is old when the permit is issued; rows read once and used
to the end; one quarantine file shared by all requests for a path; operations
of several commits that may be cut by an exception or a crash; downloads that
share a temporary file; scans that are stored for one purpose and used for
another; checks of the policy that hide one another; key files that two
processes create; lockfiles that change while they are assessed, or mean one
thing to the parser and another to npm.
`PROJECT.json` lists each of these hazards at its line with the properties that
would notice it going wrong.

What makes each part correct:

- service and ledger: no permit without a recorded reason, nothing offered
  without a file, nothing for a revoked digest once it is closed, every request
  ends;
- mirror: a file holds what its digest names;
- providers: a request gets the digest of the bytes it was sent, and a published
  file stays as it is;
- scanner, sandbox: what decides is what the bytes say, whoever scanned them
  first, and the lack of evidence is not evidence;
- permits, licences: one key for all permits, through crashes; expiry at its
  boundaries;
- the two routes: what they answer about one PyPI file does not depend on which
  is asked, but for stated exceptions;
- policy: more signals or stricter settings never relax a decision, the mode is
  kept, production and the presets are ordered as their names say;
- gate, parser: what `verify-permit` accepts was admitted for exactly that
  lockfile, so was every release the lockfile names, and what the gate passes,
  `verify-permit` accepts.

## The modules

| Module | What it is |
|---|---|
| `PolicyModes` | modes, decisions, and what the engine may answer (`Verdicts`): the interface between `Policy` and the modules that use a policy |
| `Firewall` | the admission service over ledger, quarantine and mirror |
| `PermitLedger` | what the permit ledger promises its readers: an abstract specification that `Firewall` implements |
| `Policy` | the policy engine and the presets |
| `Download` | concurrent downloads of one quarantine path, with their temporary files |
| `Publication` | what the quarantine promises about one path: an abstract specification that both `Download` and `Firewall` implement |
| `Scanner` | `scan` as a function of a file's bytes, name and ecosystem |
| `Sandbox` | what a run in the sandbox reports |
| `Inspection` | composes `Scanner`, `Sandbox` and `Policy`: what an assessment decides from on either route, with stored scans and earlier versions |
| `Credentials` | the signing key file, permits and their expiry, the licence file |
| `Gate` | the gate, `assess_lockfile` and `verify-permit` |
| `LockfileParser` | `parse_lockfile`, beside what a lockfile binds pip and npm to |
| `GatedBuild` | composes `Gate` and `LockfileParser`: what an accepted permit says of the lockfile's releases |
| `MCFirewall`, `MCDownload`, `MCInspection`, `MCPolicy`, `MCCredentials`, `MCGate` | instances for TLC |
| `FirewallProofs`, `AdmissionProofs`, `LedgerProofs`, `DownloadProofs`, `InspectionProofs`, `PolicyProofs`, `CredentialsProofs`, `GateProofs` | theorems and proofs |

Operators whose comment begins with "Faulty" are plausible mistakes in the
definition that follows them. `PROJECT.json` pairs each with the property that
notices it; nothing else uses them.

### Firewall

State: `artifacts`, `scans`, `decisions`, `approvals`, `permits` and
`revocations` are the tables, reduced to the columns the service decides by;
`quarantine` and `mirror` are the trees; `task` is the local state of each
handler. A content stands for its own digest. A path stands for ecosystem, name,
version and filename; distinct paths have distinct filenames. Mirror files are
keyed by root, digest and path: the root `files` belongs to the universal route,
`pypi` to the legacy one.

| Code | Actions |
|---|---|
| `assess`, `assess_universal` | `Start`, `Resolve` (legacy), `Download`, `UpstreamFails`, `Record`, `Scan`, `SandboxEnds`, `Evaluate`, `SaveDecision`, then `Settle`, or `Promote`, `OpenCopy`, `CloseCopy`, `Allow`, `Issue` |
| `approve_review` | `Approve`, `Recheck`, `FindSource`, `Promote`, `OpenCopy`, `CloseCopy`, `Allow`, `SaveApproval`, `Issue`, `LogApproval` |
| `revoke` | `Revoke`, `VoidPermits`, `MarkRevoked` |
| exceptions, the process dying | `Raise`, `Restart` |

- Exclusivity. An assessment that resumes from an `await` needs the loop
  (`LoopFree`): no other assessment may be between two awaits. Nothing keeps the
  thread-pool handlers apart. This is the deployment the repository ships: one
  process with one loop.
- Granularity. Each SQL statement that changes what a property reads is an
  action, and so is each step that reads shared state whose answer is used
  later (`Evaluate`, `Recheck`, `FindSource`, `Promote`).
- `Download` publishes and then verifies on the universal route, as
  `download_http_file` and the providers do: a rejected file stays. The legacy
  client verifies first.
- The policy's answer is any element of `Verdicts`, the set that `Policy` shows
  the engine stays in; `previous_scan` and the facts do not matter here.
- A copy is `Torn` from the moment its destination is truncated until its last
  writer has closed it, and for good if the writer dies.
- Bound: `PermitIds`. A request that could issue a permit is accepted only while
  an id remains for it (`PermitLeft`), so that no behaviour is cut in the
  middle of a request.
- Elsewhere: chunks of a download and the shared temporary file (`Download`), the
  facts and stored scans (`Inspection`), permit expiry (`Credentials`). Not
  modelled: the listing routes. `GET /v1/permits/{id}` ignores the revoked column
  (db.py:324), a fact of one query that a property would only repeat.
- Digests. The digest a request's bytes are compared with is the request's own
  (`wants`, chosen from `Declares[p]` when it starts), because it comes from its
  caller or from a registry document that may change between two requests. A
  request without one accepts everything.
- `Spill`: what requests that share a temporary file may do to a published file
  while they are in flight, in one step; `Download` shows how it comes about.

`PermitLedger` gives each digest a phase: open, closing (revoked, with requests
in flight that were cleared before) and closed. It promises that a closed digest
gets no permit and is not listed, and that phases only advance. This is what the
code provides: the stronger promise, that a revocation leaves no valid permit,
is refuted by the run `revoked`. What a reader of the service gets from it is
`RevocationLasts`: a revocation that is recorded, has voided the permits and
outlived the cleared requests (`Barred`) is undone by nothing. In mode `observe`
the service admits revoked digests by design, and both are stated for the other
modes.

### Download

State: the files as inodes (`data`), what the two temporary names (`.tmp` of
`download_http_file`, `.part` of the legacy client) and the destination refer
to, and each request's handle, offset and answer. Actions: `Begin`, `Open`,
`Write` (a chunk), `Publish`, `PublishLegacy`, `Break` (the temporary file is
gone), `Fail` (with its `finally`), `Crash`. Everything between two awaits is one
action. `disturbed` is history, and only properties read it.

What the model shows beside its properties: overlapping requests for one path
may all fail although upstream is fine. The second truncates the file the first
is writing; the first then publishes a truncated file, which is rejected, or
accepted when no digest is declared; the second finds no file to rename and
raises `FileNotFoundError`, which the API answers with 500 and `assess_lockfile`,
which catches provider and value errors only, passes on. A failing request's
`finally` removes the file another is still writing.

`Publication` keeps of this: only a request that ends its fetching publishes, only
a legacy request discards, the legacy client publishes nothing that its declared
digest does not accept, and a published file changes only while a request is
fetching. It is the joint between the two models of a path. `Download` implements
it for its path, with chunks, temporary names and crashes; `Firewall`, which has
a download in one step, implements it for each of its paths
(`Firewall!ImplementsPublication`, with `Resolve`, `Download`, `Spill` and
`UpstreamFails` as the steps that are not stutters or ends). So what `Firewall`
takes for granted of a download is no more than what `Download` is shown to do.
In `Firewall`, as in `Publication`, each request brings its own declared digest;
`Download` is narrower there: in one behaviour all requests of the path are told
the same, or none, as for a release that is not replaced meanwhile.

### Scanner, Sandbox, Inspection

`Scan` and `Raises` translate `scan` and its helpers: which archive format is
tried for which name, which members are read up to which size, which rule sets
which severity and capability. A regular expression is a trait (`has`) that a
text has or has not, a member's name its kind and place. `Reports` is what `run`
may return: no backend, a run that timed out, a run that ended, of whose output
only the tail may be left.

`Inspection` follows one assessment from its bytes to its decision. State: the
latest scan of each digest, the artifacts table as far as the search for earlier
versions reads it, and the requests. Actions: `Inspect`, up to the end or to the
Docker sandbox's await, and `Resume`. The decision is `Policy`'s `Evaluate`,
instantiated.

Worth knowing, and visible in the model:

- the harness installs the artefact through the function it has replaced, and so
  reports a process spawn of its own: with the output whole, every sandboxed
  artefact is denied (`SandboxNeverClears`, a finding). pip also refuses the path
  `/input/artifact`, which has no suffix; exit code 125 of docker counts as an
  executed run; a timeout loses the output;
- the scanner does not catch everything: a truncated `.tgz` raises `EOFError`, a
  wheel whose `RECORD` cannot be read what `zipfile` or `base64` raise, an image
  document that is not an object `AttributeError` (`Raises`). The request ends
  with 500 and the row stays quarantined. A re-assessment with `force_rescan` (on
  either route: both reuse a stored scan otherwise) of an allowed version that
  ends so takes that version out of the comparisons for good:
  `ComparedWithApproved` excludes it (`Alone`), because without the exclusion
  TLC refutes it on the run's own instance;
- text members between 2 and 5 MiB are neither read nor reported as too large;
- a scan is stored under the digest alone: bytes first scanned as `generic`, or
  under another filename, keep that scan, in which lifecycle scripts are missing;
  the mutable reference of an image stays in it, too;
- the legacy search for earlier versions ignores the ecosystem, and the legacy
  upsert keeps a row's old one;
- `RoutesAgree` says what is left of all this for a PyPI file: whatever has been
  assessed before, the decisions either route may take about it are the same,
  although the legacy route guesses the ecosystem from the name, passes the
  registry's file and searches earlier versions by project alone. Three exceptions
  are stated: a yanked file, which the universal route does not tell the engine; a
  name that is not a Python distribution's, which a fresh scan then reads as
  something else; and a project of the same name in another ecosystem. Both
  routes are taken to have chosen the same file: they choose differently when no
  filename is given (pypi_client.py:64, providers/pypi.py:44), which is part of
  the registry's answer and not modelled;
- an image's digest is the one the registry's header names, never compared with
  the bytes (`providers/oci.py`).

### Policy

`Evaluate` is `PolicyEngine.evaluate` reduced to its decision: `Denies` and
`Reviews` say whether there is a reason of each kind. A configuration's allow
lists are reduced to the capabilities they excuse for the project at hand. What
the routes tell the engine is `Inspection!FactsOf`. `Preset` is
`policy_from_preset` for one project. `evaluate` keeps no state: the state
machine makes an artefact's facts worse, or a configuration stricter, one step
at a time, so that properties of two answers are properties of a step. `Budget`
bounds the steps; behaviours end when it is spent, and deadlock is not checked
for that reason.

Worth knowing: production is the strictest environment only for configurations
that ask for at least as much release age there and that, if CI reviews mutable
OCI tags, deny them in production; `ProdIsStrictest` states exactly that.

### Credentials

State: the key file, the services and the permit each has signed and not saved,
the permits table, the licence file, and a clock that ticks. Actions: `Look`,
`Load`, `Open`, `Write` of the key, `Crash`, `Sign`, `Save`, `Revoke`,
`WriteLicence`, `Tick`. `Answers` is what `permits/by-digest` may return.
`Second` ticks are a second, so that rounding is visible. `Ttl` gives each service
the lifetime its policy file sets (`permit_ttl_seconds`); a service that restarts
keeps it. All services read one clock, which is never put back.

Two services that create the key file at once go on with different keys until
one restarts: `GET /v1/public-key` of one then differs from the key the other's
permits carry, and each permit verifies all the same, with its own key. A crash
in the write leaves a file that no service can start from. `permits/by-digest`
may answer with an expired permit while another one is good: `ExpiredOnlyIfAll`
says that this takes two permits that were signed and saved in opposite orders,
or a longer lifetime of the one that is still good. During its last second a
licence is active with no days left. A build permit is accepted at the very
instant it expires (gate.py:342), a licence is not.

### Gate

State: the lockfiles and permit files on disk, the decisions log, the
revocations, and each run's local state. A lockfile is a text and its newlines,
and `Read` (`read_text`) keeps the text only; the permit's digest is that of the
text with LF. `Accepts` is `verify-permit` with an environment given. Actions:
`Begin`, `Read`, `AssessDependency`, `Conclude`, `OpenPermit`, `WritePermit`,
`Finish`, `Abort`; beside them `Edit` (someone changes a lockfile) and `Revoke`.

- Lockfiles and dependencies are taken in any order, which includes the code's.
- A dependency is the digest it resolves to, and its assessment is one step:
  what happens inside is `Firewall`.
- A build permit has no row anywhere: revoking a digest does not reach it. The
  field `barred` is history: what was revoked when its lockfile was read.
- A signature is modelled by what it shows: the document is whole.
- `PermitFile` is a parameter, because `_permit_output_path` maps different
  lockfiles to one file when their names differ only in slashes and underscores,
  or when several runs are given one `.json` path.
- Not modelled: expiry, the licence check, reports, `--project`.

### LockfileParser, GatedBuild

`Parsed` is `parse_lockfile` over the set of a file's lines, or of its `packages`
entries and its `dependencies` forest; `LockfileRaises` says what it refuses. The
recursion of `_walk_package_lock_dependencies` is a union over the levels of the
forest (`Levels`, a recursive function), up to the bound `Depth`; `IsLockfile` says
what a text of the instance may be. `Locked` is what the same file binds the package
manager to; it is external. Every such release is among the parsed ones, but for
`Missed`:

- npm packages under an alias: the entry's `name` field is not read
  (lockfiles.py:116), and the path's name is assessed;
- npm names with capital letters, which are lowered (lockfiles.py:142).

For npm, `Locked` is all that is fetched from the registry: its lockfile is
complete, and a version is one tarball. For pip it is not. The parser demands
neither a complete list nor hashes (lockfiles.py:43-80): `pip install -r` adds the
projects that the listed ones depend on, at versions of its own choice, and takes
the file of a release that suits the platform, while the gate resolves each release
to one file (providers/pypi.py:44). Of what pip fetches beyond the listed releases
the model says nothing, and nothing can be said: it is not assessed.

Also outside the statement: entries whose `resolved` names a git repository or a URL
while their version looks ordinary (lockfiles.py:141), bundled packages, and pip's
`--index-url` and similar lines, which are skipped. In the other direction, the
continued lines that `pip-compile --generate-hashes` writes are refused.

`GatedBuild` puts both together: whatever permit file `verify-permit` accepts for
a lockfile, every release the lockfile binds the build to has been allowed
(`LockedWasAdmitted`).

## The runs

| Run | Instance | Shows |
|---|---|---|
| `race` | 3 assessments by either route, 1 path, 2 contents, each request is told the digest of one of them or none, upstream answers anything | types; an assessment keeps the bytes it hashed; mirrored files are what they are called; the path is published to as `Publication` says |
| `faults` | 2 assessments, 1 approval, 1 revocation, 1 content, sandbox, exceptions and restarts | permits are backed, offers are stored, `PermitLedger` is implemented, finished revocations last |
| `live` | as `faults`, both routes, without failures, with fairness | requests end, revocations reach the permits there are |
| `download` | 3 requests by either client, bodies of 2 blocks, an upstream that always sends the same or changes its mind, a digest declared or none | undisturbed requests get their own bytes, accepted files keep theirs, temporary files have an owner, `Publication` is implemented |
| `inspection` | 3 requests out of 23 jobs over 8 contents, 2 policies, Docker or no backend | reused scans decide as own ones, the routes answer alike, lifecycle scripts are seen, a sandbox run admits nothing, new versions are compared |
| `policy` | clean artefacts of every ecosystem and environment, 5 configurations, 2 steps | the four properties of decisions |
| `credentials` | 2 services, whose permits live 1 and 2 ticks, 2 keys, 2 permits of one digest, trials, 5 ticks | one key unless two were created at once, a settled key file stays, expiry and remaining days |
| `gate` | 2 gates, 1 lockfile, 3 texts (a `package-lock.json` in both forms, with a package below another; a requirements file that passes; one that is refused), the releases they name | the gate's three properties and `LockedWasAdmitted`, through edits, revocations and dying gates |
| `revoked` | 1 assessment, 1 approval, 1 revocation | a permit issued after its digest's revocation stays valid |
| `bytes` | the same with a mismatching download | an approval mirrors rejected bytes under the reviewed digest |
| `served` | the same | a revoked digest is still served |
| `gate_crlf` | 1 gate, a lockfile with CRLF | the permit of a passing gate is refused |

The last four are expected to be violated; each contradicts a sentence of the
repository that `PROJECT.json` quotes under `findings`. A fifth finding comes with
a run that passes: `SandboxNeverClears` holds because the sandbox denies whatever
it runs.

Why the bounds are enough. The hazards of the service are between two actors
on one digest or one path: `race` has three requests for a path, with two
contents to confuse, each accepted by one declared digest and rejected by the other
(requests may each be told another digest, by their caller or by a registry that
replaced a file); `faults` has two assessments, an approval and a revocation of
one digest, so that every pair of them meets, and two permit ids, so that a permit
issued early and one issued late exist together. `race` stops when its permit ids
are used up (`PermitLeft`), so deadlock is not checked there. A second path adds
nothing to a property that concerns one path. `MirrorFaithful` is checked without
approvals and without the sandbox. Both conditions matter: with an approval and a
rejected download it fails (`bytes`), and in the instance of `race` with
`SandboxBackend = "docker"` TLC refutes both it and `LoopKeepsBytes`, because a
second download of the path replaces the file while the first request waits for
the sandbox. In `policy`
two steps suffice because each property is about one step or one state, and the
theorems cover all of them. `gate` has one lockfile because a permit file
belongs to one lockfile; sharing is between the two runs, and files that several
lockfiles share are covered by the theorem. The three texts are enough for
what the gate does with what the parser found: one lockfile of each format passes;
that the parser finds what is locked is a theorem, for lockfiles of any size and
depth. With LF newlines and own permit files, `PassedGateVerifies` says nothing of
CRLF, edits or torn permits in `gate`; CRLF is `gate_crlf`.

In `download` three requests are needed for one to be disturbed by a second and
to publish the file of a third; two blocks make a file that is not whole, and
mixtures of two bodies. In `inspection` the jobs were chosen so that every two
that can share a digest, a project or a name do: two versions of a library by
both routes, with and without the sandbox; one source distribution; one npm
package asked for as another ecosystem, under another name, as a later version,
anew, or cut short, so that its scan raises; a yanked wheel, one the scanner
fails on, and a generic package of the library's name; an image by tag and by
digest, and one that cannot be read. `RoutesAgree` is asked in every state about
every job of the legacy route, not only about the requests that were made. Three
requests let one bring a scan, one use it, and one come in between. In
`credentials` two keys let two services race; the horizon lets permits of
lifetimes 1 and 2 expire between any two steps, and the trial of one day of 2
seconds of 2 ticks pass its boundary.

Symmetry: `PermitIds` in `race` and `faults`, requests and contents in `race`,
requests in `download` and `inspection`, keys in `credentials` (services differ in
their lifetimes), gates in `gate`. No definition tells the members of these sets
apart, and none of these runs has a liveness property.

Fairness, in `live` only. An assessment is strongly fair: it may be kept from
resuming by the others' turns, and the loop takes its ready coroutines in turn;
every wait for upstream or for the sandbox has a timeout (`http_timeout_seconds`
for each read, of at most `max_artifact_bytes`, and `sandbox_timeout_seconds`),
so that waiting ends. Approvals and revocations are
weakly fair: the thread pool runs what it has accepted. Nothing requires a
request to arrive, and no permit id to be used.

## What is proved

Every theorem is about the modules TLC runs, for every value of their constants.

- `FirewallProofs`: `Spec => []TypeOK`. The inductive invariant `Shape` says
  more than the types: a handler in a phase after the digest is known has a
  digest, a path and an environment, assessments and approvals are only in their
  own phases, a row that is not absent names its path, an assessment has no digest
  before its download has ended.
  Upon it rest three theorems about bytes. `LoopKeepsBytes` assumes
  `SandboxBackend = "none"`: then an assessment that has a digest is not suspended,
  and at most one is not (`Serial`), so that nobody replaces its file.
  `MirrorFaithful` is proved twice: assuming further that there are no approvals
  (`HashedIsMirrored`), and, with sandbox and approvals and whatever upstream
  serves, for behaviours in which no step replaces or removes a quarantined file
  that a row or a handler still refers to (`Leaves`, `MirroredUnlessReplaced`). The
  second says that `bytes` shows the only way: nothing else in the order of the
  code's steps, an old row, a torn copy or a crash among them, mirrors wrong bytes.
  Its invariant, `Held`, is that every reference to a quarantined file names the
  digest the file has.
  `ImplementsPublication` (`QuarantineImplemented`) follows from `Shape` action by
  action: one lemma per kind of step on a path (`PathBegins`, `PathGoesOn`,
  `PathFinishes`, `PathPublish`, ...), and one, `PathStays`, for the paths that a
  step leaves alone.
- `AdmissionProofs`: `PermitBacked` and `OfferedIsStored`. Neither is inductive:
  `Consistent` adds what a handler has earned on the way (`Earned`): past
  `SaveDecision` its allow is in the log, past the promotion its file is in the
  mirror, past `SaveApproval` its approval is. Crashes only forget handlers, so
  they keep it; the decisions, approvals and mirror files only grow.
- `LedgerProofs`: `ImplementsLedger`, assuming `Mode # "observe"`. Revocations
  only grow, and no step clears a request for a revoked digest, so that a
  closed digest stays closed (`StepCloses`); then each action is a grant, a
  void, a listing, a delisting or a stutter of the ledger. `RevocationLasts` is
  drawn from the ledger's steps alone (`ClosedStaysUnused`): an example of
  what the abstract specification is for.
- `DownloadProofs`: all five properties of the run `download`, for any number of
  requests, blocks and bodies. `Shape` says what names and handles refer to: a
  temporary name refers to a file of its own client that was neither published
  nor accepted. `Undisturbed` adds that a request nobody disturbed holds the
  temporary name and its file has what was sent so far; `KeepsBytes` restates
  `AcceptedKeepsBytes` request by request. From `Shape` each action is a step or a
  stutter of `Publication`.
- `InspectionProofs`: types, `SandboxNeverClears`, `LifecycleScriptsSeen`,
  `ReuseIsFaithful`, `RoutesAgree`, `ComparedWithApproved`, for all contents,
  jobs and policies. The invariant (`Evidence`) says that each scan, stored or
  used, is one that some request would have made of the same bytes, and that a
  decision is the engine's for the facts that are recorded beside it; the rest
  are lemmas about `Scan` and `Evaluate`. `RoutesAgree` (`BothRoutesAgree`)
  rests on two of them: `TwinScans`, that scans read alike have what decides in
  common, and `TwinPrevious`, that the two searches find the same versions.
  `ComparedWithApproved` needs a second invariant, `Recorded`: an allowed row
  has a scan, and the row of bytes that one request alone has assessed is that
  request's, allowed if it was. Then the search for earlier versions has a
  candidate, hence a latest one (`LatestExists`, by the well-foundedness of the
  naturals turned upside down), and that one has a scan to compare with. Trying
  to prove it showed that a failed re-assessment undoes it, which the property
  had overlooked and the instance had no job for.
- `CredentialsProofs`: types, `TornNeedsCrash`, `OneKeyUnlessRaced`, `KeySettles`,
  `ExpiredOnlyIfAll`, for any number of services and any horizon. Without a race
  at most one service is creating the key file, which is then absent or torn, and
  every service that is up has the key in the file, as has every permit (`Alone`).
  `LicenceCountsDown` (`LicencesCountDown`) holds for every length of a second and
  of a day: the solver cannot divide by a parameter, so `Division` characterises the
  quotient by its bounds and `Quotient` compares two of them. It needs a day of more
  than one second: with one, what the expiry loses to whole seconds is a day.
- `PolicyProofs`: all four properties of the run `policy`. `Monotone` compares
  two configurations and two facts; `LearnWorse` and `TightenMore` show that each
  step is such a pair.
- `GateProofs`: `VerifiedWasAdmitted` for any number of gates, lockfiles and
  permit files, shared or not, and `BarredStaysOut` outside `observe`. The
  invariant `Inv` relates a run's verdicts and pending dependencies to the
  decisions log, and carries this to its responses and to the permit files.
  `PassedGateVerifies` assumes LF newlines, without which `gate_crlf` refutes it, and
  a permit file of its own for each lockfile: `Filed` adds that a run's permits are
  its own and stay in its memory, and that a whole permit file is an answer of the
  run it names. `LockedWasAdmitted` follows from `VerifiedWasAdmitted`'s invariant and
  `ParserCovers`: for every text that is a lockfile and that the parser does not
  refuse, `Locked` is among the parsed coordinates, but for `Missed`.

Assumptions: the ones the modules state (`FirewallAssumption`,
`DownloadAssumption`, `InspectionAssumption`, `NoneAssumption`,
`PoliciesAssumption`, `PolicyAssumption`, `InputsAssumption`,
`CredentialsAssumption`, `GateAssumption`, `PermitsAssumption`,
`ParserAssumption`, `PinsAreParsed`), which TLC evaluates in every run of the module,
and the mode where named.

Only model-checked: `RequestsEnd`, `RevocationReaches` and nothing else of what the
passing runs check: liveness under fairness is out of the prover's reach. The
violations are counterexamples, and there is nothing to prove about them.

## Not modelled, and why

- The OCI registry protocol, beyond the digest it ends with, and which file a
  registry's answer selects: requests and text without state.
- Reports and console: they render a response that is decided. A report compares
  itself with an earlier one (`_build_diff`), and that comparison decides nothing.
  It lists all signals of the current items as new (admission_report.py:134), those
  of the baseline included.
- Command line parsing; authentication: no state.
- Several server processes over one state directory: not a deployment the
  repository ships. Two services in one process, and a gate beside a service, are
  in `Credentials`; several gates are in `Gate`.

## Plan

Done, in this order: `PolicyModes`, `Firewall` with `PermitLedger`, `Policy`,
`Gate`: the service is the core, its policy is a parameter that `Policy` justifies,
and the gate stands on both. Then what these had left to others: `Download` with
`Publication` below `Firewall`'s one-step download; `Scanner`, `Sandbox` and
`Inspection` above `Policy`; `Credentials` for keys and dates; `LockfileParser` and
`GatedBuild` below and above `Gate`.

Theorems to come: what `Gate` assumes of one assessment (an allow is in the decisions
log, a digest barred before is not allowed) as a consequence of `Firewall`'s, in
the way `Publication` joins `Firewall` and `Download`; the same for `Inspection`'s
decisions and `Verdicts`.
