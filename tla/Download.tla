------------------------------ MODULE Download ------------------------------
(***************************************************************************)
(* Concurrent downloads of one quarantine path: download_http_file         *)
(* (src/palsy/providers/base.py), which every HTTP provider uses, and the  *)
(* legacy client of pypi_client.py.                                        *)
(*                                                                         *)
(* Both write to a temporary name beside the destination, the same name    *)
(* for every request, and rename it when the body is complete.  A file is  *)
(* its inode: opening an existing name truncates the file that others are  *)
(* still writing, a rename takes it away from them, and a handle goes on   *)
(* writing wherever its file is now.  A coroutine runs undisturbed between *)
(* two awaits, so that each action is atomic.  A file is named after the   *)
(* request that created it, and stands for its own digest.                 *)
(***************************************************************************)
EXTENDS Naturals, FiniteSets

CONSTANTS
    Requests,   \* requests for the path, each made once
    Contents,   \* what upstream may send
    Blocks,     \* bound: the length of a body, in blocks
    Upstreams,  \* the sets of bodies upstream may answer with
    Digests,    \* what the declared digest may name: a content, or None
    None        \* no value; in a file, a block that was not written

Offsets == 1 .. Blocks
Files == [Offsets -> Contents \cup {None}]
Empty == [k \in Offsets |-> None]
Whole(c) == [k \in Offsets |-> c]
Names == {"tmp", "part"}

ASSUME DownloadAssumption ==
    /\ Blocks \in Nat \ {0}
    /\ Upstreams \subseteq SUBSET Contents
    /\ Digests \subseteq Contents \cup {None}
    /\ None \notin Contents \cup Requests \cup Files

VARIABLES
    legacy,    \* the requests that use the legacy client, during this behaviour
    upstream,  \* what upstream answers with, likewise
    declared,  \* the content whose digest is declared, or None, likewise
    data,      \* the files, by the request that created them
    temp,      \* the file each temporary name refers to
    held,      \* the file the destination refers to
    task       \* the local state of each request

given == <<legacy, upstream, declared>>
vars == <<given, data, temp, held, task>>

\* Suspended at an await, or ended: with a digest, with a digest that is not
\* the declared one, without a temporary file to publish, by its upstream, by
\* the death of the process.
Fetching == {"asking", "writing"}
Endings == {"accepted", "rejected", "broken", "failed", "lost"}

\* file is what the handle writes, disturbed is history: since the request
\* opened its file, another one has opened, published or removed the temporary
\* file, or has written something else into that file.
Task == [pc : {"idle"} \cup Fetching \cup Endings, file : Requests \cup {None},
         sent : Contents \cup {None}, written : 0 .. Blocks,
         digest : Files \cup {None}, disturbed : BOOLEAN]

Idle == [pc |-> "idle", file |-> None, sent |-> None, written |-> 0,
         digest |-> None, disturbed |-> FALSE]

At(r, phase) == task[r].pc = phase
Name(r) == IF r \in legacy THEN "part" ELSE "tmp"

TypeOK ==
    /\ legacy \subseteq Requests
    /\ upstream \subseteq Contents
    /\ declared \in Contents \cup {None}
    /\ data \in [Requests -> Files]
    /\ temp \in [Names -> Requests \cup {None}]
    /\ held \in Requests \cup {None}
    /\ task \in [Requests -> Task]

Init ==
    /\ legacy \in SUBSET Requests
    /\ upstream \in Upstreams
    /\ declared \in Digests
    /\ data = [r \in Requests |-> Empty]
    /\ temp = [n \in Names |-> None]
    /\ held = None
    /\ task = [r \in Requests |-> Idle]

\* verify_expected_digests and verify_sri, and the legacy client's comparison.
Accepts(file) == declared = None \/ file = Whole(declared)

-----------------------------------------------------------------------------
(* Steps of a request.                                                     *)

\* The temporary name of r changes hands: r goes on as t, and whoever writes
\* under the same name is disturbed.
Seize(r, t) ==
    task' = [q \in Requests |->
        CASE q = r -> t
          [] q # r /\ Name(q) = Name(r) /\ At(q, "writing") ->
                [task[q] EXCEPT !.disturbed = TRUE]
          [] OTHER -> task[q]]

End(r, ending) == [task[r] EXCEPT !.pc = ending]

\* A request is made.  The legacy route uses the file that is there when its
\* digest is the declared one, and removes it when it is not.
Begin(r) ==
    /\ At(r, "idle")
    /\ IF r \in legacy /\ held # None
       THEN IF Accepts(data[held])
            THEN /\ task' = [task EXCEPT ![r] =
                        [Idle EXCEPT !.pc = "accepted", !.file = held, !.digest = data[held]]]
                 /\ UNCHANGED held
            ELSE held' = None /\ task' = [task EXCEPT ![r].pc = "asking"]
       ELSE task' = [task EXCEPT ![r].pc = "asking"] /\ UNCHANGED held
    /\ UNCHANGED <<given, data, temp>>

\* Faulty: an interrupted download is resumed, the file opened to append.
OpenToAppend(r) ==
    /\ At(r, "asking")
    /\ LET file == IF temp[Name(r)] = None THEN r ELSE temp[Name(r)]
           begun == {k \in Offsets : temp[Name(r)] # None /\ data[file][k] # None}
       IN  /\ temp' = [temp EXCEPT ![Name(r)] = file]
           /\ data' = [data EXCEPT ![file] = IF begun = {} THEN Empty ELSE @]
           /\ \E c \in upstream :
                 Seize(r, [task[r] EXCEPT !.pc = "writing", !.file = file, !.sent = c,
                                          !.written = Cardinality(begun)])
    /\ UNCHANGED <<given, held>>

\* Upstream answers; open("wb") creates the file or truncates the one there.
Open(r) ==
    /\ At(r, "asking")
    /\ LET file == IF temp[Name(r)] = None THEN r ELSE temp[Name(r)]
       IN  /\ data' = [data EXCEPT ![file] = Empty]
           /\ temp' = [temp EXCEPT ![Name(r)] = file]
           /\ \E c \in upstream :
                 Seize(r, [task[r] EXCEPT !.pc = "writing", !.file = file, !.sent = c])
    /\ UNCHANGED <<given, held>>

\* Faulty: the body may be longer than the bound.
WriteUnbounded(r) ==
    /\ At(r, "writing")
    /\ task' = [task EXCEPT ![r].written = @ + 1]
    /\ data' = [data EXCEPT ![task[r].file] =
                    [k \in Offsets |-> IF k = task[r].written + 1 THEN task[r].sent ELSE @[k]]]
    /\ UNCHANGED <<given, temp, held>>

\* The next chunk is written where this handle stands.
Write(r) ==
    /\ At(r, "writing")
    /\ task[r].written < Blocks
    /\ LET file == task[r].file
           offset == task[r].written + 1
       IN  /\ data' = [data EXCEPT ![file] = [@ EXCEPT ![offset] = task[r].sent]]
           /\ task' = [q \in Requests |->
                 CASE q = r -> [task[r] EXCEPT !.written = offset]
                   [] q # r /\ task[q].file = file /\ At(q, "writing") /\ task[q].sent # task[r].sent ->
                         [task[q] EXCEPT !.disturbed = TRUE]
                   [] OTHER -> task[q]]
    /\ UNCHANGED <<given, temp, held>>

Complete(r) == At(r, "writing") /\ task[r].written = Blocks

\* The temporary file of a complete request is gone: replace() or the hashing
\* raises FileNotFoundError.
Break(r) ==
    /\ Complete(r)
    /\ temp[Name(r)] = None
    /\ task' = [task EXCEPT ![r].pc = "broken"]
    /\ UNCHANGED <<given, data, temp, held>>

\* Faulty: the destination becomes a second name of the temporary file.
PublishByLink(r) ==
    /\ Complete(r) /\ r \notin legacy
    /\ temp["tmp"] # None
    /\ held' = temp["tmp"]
    /\ LET file == data[temp["tmp"]]
       IN  Seize(r, IF Accepts(file)
                    THEN [End(r, "accepted") EXCEPT !.file = temp["tmp"], !.digest = file]
                    ELSE End(r, "rejected"))
    /\ UNCHANGED <<given, data, temp>>

\* download_http_file and its provider: rename whatever has the temporary name,
\* hash the destination, compare.
Publish(r) ==
    /\ Complete(r) /\ r \notin legacy
    /\ temp["tmp"] # None
    /\ held' = temp["tmp"]
    /\ temp' = [temp EXCEPT !["tmp"] = None]
    /\ LET file == data[temp["tmp"]]
       IN  Seize(r, IF Accepts(file)
                    THEN [End(r, "accepted") EXCEPT !.file = temp["tmp"], !.digest = file]
                    ELSE End(r, "rejected"))
    /\ UNCHANGED <<given, data>>

\* Faulty: the legacy client, too, publishes before it compares.
PublishLegacyFirst(r) ==
    /\ Complete(r) /\ r \in legacy
    /\ temp["part"] # None
    /\ held' = temp["part"]
    /\ temp' = [temp EXCEPT !["part"] = None]
    /\ LET file == data[temp["part"]]
       IN  Seize(r, IF Accepts(file)
                    THEN [End(r, "accepted") EXCEPT !.file = temp["part"], !.digest = file]
                    ELSE End(r, "rejected"))
    /\ UNCHANGED <<given, data>>

\* The legacy client hashes and compares first, and removes what it rejects.
PublishLegacy(r) ==
    /\ Complete(r) /\ r \in legacy
    /\ temp["part"] # None
    /\ temp' = [temp EXCEPT !["part"] = None]
    /\ LET file == data[temp["part"]]
       IN  IF Accepts(file)
           THEN /\ held' = temp["part"]
                /\ Seize(r, [End(r, "accepted") EXCEPT !.file = temp["part"], !.digest = file])
           ELSE Seize(r, End(r, "rejected")) /\ UNCHANGED held
    /\ UNCHANGED <<given, data>>

\* Faulty: without the finally clause.
FailAsIs(r) ==
    /\ task[r].pc \in Fetching
    /\ task' = [task EXCEPT ![r].pc = "failed"]
    /\ UNCHANGED <<given, data, temp, held>>

\* An error status, a broken connection, a timeout, too many bytes.  The finally
\* clause of download_http_file removes the temporary name, whoever uses it; the
\* legacy client does so only when there are too many bytes.
Fail(r) ==
    /\ task[r].pc \in Fetching
    /\ \/ /\ r \notin legacy \/ At(r, "writing")
          /\ temp' = [temp EXCEPT ![Name(r)] = None]
          /\ Seize(r, End(r, "failed"))
       \/ /\ r \in legacy
          /\ task' = [task EXCEPT ![r].pc = "failed"]
          /\ UNCHANGED temp
    /\ UNCHANGED <<given, data, held>>

\* The process dies: the handles are gone, the names stay.
Crash ==
    /\ \E r \in Requests : task[r].pc \in Fetching
    /\ task' = [r \in Requests |->
          IF task[r].pc \in Fetching THEN End(r, "lost") ELSE task[r]]
    /\ UNCHANGED <<given, data, temp, held>>

Step(r) == Open(r) \/ Write(r) \/ Break(r) \/ Publish(r) \/ PublishLegacy(r) \/ Fail(r)

Next == (\E r \in Requests : Begin(r) \/ Step(r)) \/ Crash

Spec == Init /\ [][Next]_vars

-----------------------------------------------------------------------------
(* Properties.                                                             *)

\* A request whose temporary file no other one touched while it was writing is
\* given the digest of the bytes upstream sent it, and is refused only when that
\* is not the declared one: through whatever an earlier request, or one that
\* died, left behind.
UndisturbedGetsItsBytes ==
    \A r \in Requests :
        (task[r].sent # None /\ ~task[r].disturbed) =>
            /\ ~At(r, "broken")
            /\ At(r, "accepted") => task[r].digest = Whole(task[r].sent)
            /\ At(r, "rejected") => declared \notin {None, task[r].sent}

\* A published file that was accepted against a declared digest keeps its bytes,
\* although requests that shared its temporary name may still write to it, unless
\* upstream sent one of them something else.
AcceptedKeepsBytes ==
    \A r \in Requests :
        /\ At(r, "accepted") /\ declared # None /\ held = task[r].file
        /\ \A q \in Requests : task[q].file = held => task[q].sent \in {None, declared}
        => data[held] = task[r].digest

\* A temporary file that no request writes comes from a process that died or a
\* legacy request whose upstream failed; download_http_file leaves none behind.
NoLeftover ==
    \A n \in Names : temp[n] # None =>
        \E r \in Requests :
            /\ Name(r) = n /\ task[r].file = temp[n]
            /\ At(r, "writing") \/ At(r, "lost") \/ (n = "part" /\ At(r, "failed"))

Matching(digest) == {f \in Files : digest = None \/ f = Whole(digest)}
Published == IF held = None THEN None ELSE data[held]
Stage(r) ==
    CASE task[r].pc \in Fetching -> IF r \in legacy THEN "legacy" ELSE "files"
      [] At(r, "accepted") -> "accepted"
      [] OTHER -> "idle"
Wanted(r) == IF Stage(r) = "idle" THEN {} ELSE Matching(declared)
Taken(r) == IF At(r, "accepted") THEN task[r].digest ELSE None

Quarantine == INSTANCE Publication WITH
    Declares <- {Matching(digest) : digest \in Digests},
    held <- Published,
    stage <- [r \in Requests |-> Stage(r)],
    wants <- [r \in Requests |-> Wanted(r)],
    taken <- [r \in Requests |-> Taken(r)]

\* The downloads of a path implement its publication.
ImplementsPublication == Quarantine!Spec

=============================================================================
