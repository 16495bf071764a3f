----------------------------- MODULE Credentials -----------------------------
(***************************************************************************)
(* What outlives a process and has a date: the signing key file            *)
(* (permits.py), the permits that are signed with it and looked up by      *)
(* digest (db.py, service.py), and the licence file (licensing.py).        *)
(*                                                                         *)
(* A service is one FirewallService: `palsy gate`, the HTTP service, or one *)
(* of two that its first requests build at once.  Any may crash.  A        *)
(* signature verifies, always: permits carry the key they are verified     *)
(* with.  Time is in ticks, Second of them to a second; all read one       *)
(* clock, which is never put back.                                         *)
(***************************************************************************)
EXTENDS Naturals, FiniteSets

CONSTANTS
    Services,     \* FirewallServices, each started any number of times with its policy
    Digests,      \* of artefacts
    Keys,         \* keys that may be generated, each once
    Ttl,          \* permit_ttl_seconds of each service's policy, in ticks
    Second,       \* ticks to a second
    Day,          \* seconds to a day
    Trials,       \* the lengths of trial licences, in days
    Horizon,      \* bound: the last tick
    PermitLimit,  \* bound: how many permits are saved
    None, Torn    \* no file; a file that is not whole

ASSUME CredentialsAssumption ==
    /\ Ttl \in [Services -> Nat \ {0}] /\ Second \in Nat \ {0} /\ Day \in Nat \ {0, 1}
    /\ Trials \subseteq Nat \ {0}
    /\ Horizon \in Nat /\ PermitLimit \in Nat
    /\ None \notin Keys /\ Torn \notin Keys /\ None # Torn

VARIABLES
    clock,     \* the time
    keyFile,   \* the signing key on disk
    service,   \* the local state of each service
    permits,   \* the permits table
    licence,   \* the licence file
    drawn,     \* history: the keys that were generated
    raced,     \* history: two services have been creating the key file at once
    tornBy     \* history: a service has crashed while it wrote the key file

vars == <<clock, keyFile, service, permits, licence, drawn, raced, tornBy>>

Times == 0 .. Horizon

\* Permit; saved is the row's created_at.
Permit == [digest : Digests, key : Keys, signed : Times, expires : Nat, saved : Times,
           revoked : BOOLEAN]

Licence == [issued : Times, days : Trials, expires : Nat]

\* held is the permit a service has signed and not yet saved.
Service == [pc : {"down", "found", "missing", "writing", "up"}, key : Keys \cup {None},
            held : [digest : Digests, signed : Times] \cup {None}]

Down == [pc |-> "down", key |-> None, held |-> None]

Is(s, phase) == service[s].pc = phase
Creating(s) == service[s].pc \in {"missing", "writing"}

TypeOK ==
    /\ clock \in Times
    /\ keyFile \in Keys \cup {None, Torn}
    /\ service \in [Services -> Service]
    /\ permits \subseteq Permit
    /\ licence \in Licence \cup {None, Torn}
    /\ drawn \subseteq Keys /\ raced \in BOOLEAN /\ tornBy \in BOOLEAN

Init ==
    /\ clock = 0
    /\ keyFile = None
    /\ service = [s \in Services |-> Down]
    /\ permits = {}
    /\ licence = None
    /\ drawn = {} /\ raced = FALSE /\ tornBy = FALSE

-----------------------------------------------------------------------------
(* PermitSigner                                                            *)

\* Faulty: the key file is written whether it is there or not.
LookAlways(s) ==
    /\ Is(s, "down")
    /\ service' = [service EXCEPT ![s].pc = "missing"]
    /\ raced' = (raced \/ \E t \in Services \ {s} : Creating(t))
    /\ UNCHANGED <<clock, keyFile, permits, licence, drawn, tornBy>>

\* _load_or_create asks whether the key file exists,
Look(s) ==
    /\ Is(s, "down")
    /\ service' = [service EXCEPT ![s].pc = IF keyFile = None THEN "missing" ELSE "found"]
    /\ raced' = (raced \/ (keyFile = None /\ \E t \in Services \ {s} : Creating(t)))
    /\ UNCHANGED <<clock, keyFile, permits, licence, drawn, tornBy>>

\* Faulty: a service that cannot read the key goes on with one of its own.
LoadOrInvent(s) ==
    /\ Is(s, "found")
    /\ \E k \in IF keyFile = Torn THEN Keys \ drawn ELSE {keyFile} :
          /\ service' = [service EXCEPT ![s].pc = "up", ![s].key = k]
          /\ drawn' = drawn \cup {k}
    /\ UNCHANGED <<clock, keyFile, permits, licence, raced, tornBy>>

\* Faulty: what the file holds is taken for a key.
LoadUnchecked(s) ==
    /\ Is(s, "found")
    /\ service' = [service EXCEPT ![s].pc = "up", ![s].key = keyFile]
    /\ UNCHANGED <<clock, keyFile, permits, licence, drawn, raced, tornBy>>

\* and reads it, which raises when it is not a whole key,
Load(s) ==
    /\ Is(s, "found")
    /\ service' = [service EXCEPT ![s] =
                      IF keyFile = Torn THEN Down ELSE [@ EXCEPT !.pc = "up", !.key = keyFile]]
    /\ UNCHANGED <<clock, keyFile, permits, licence, drawn, raced, tornBy>>

\* Faulty: the service is up before its key is in the file.
OpenAndServe(s) ==
    /\ Is(s, "missing")
    /\ \E k \in Keys \ drawn :
          /\ service' = [service EXCEPT ![s].pc = "up", ![s].key = k]
          /\ drawn' = drawn \cup {k}
    /\ keyFile' = Torn
    /\ UNCHANGED <<clock, permits, licence, raced, tornBy>>

\* or generates one and opens the file, emptying it,
Open(s) ==
    /\ Is(s, "missing")
    /\ \E k \in Keys \ drawn :
          /\ service' = [service EXCEPT ![s].pc = "writing", ![s].key = k]
          /\ drawn' = drawn \cup {k}
    /\ keyFile' = Torn
    /\ UNCHANGED <<clock, permits, licence, raced, tornBy>>

\* to write it.
Write(s) ==
    /\ Is(s, "writing")
    /\ keyFile' = service[s].key
    /\ service' = [service EXCEPT ![s].pc = "up"]
    /\ UNCHANGED <<clock, permits, licence, drawn, raced, tornBy>>

Crash(s) ==
    /\ ~Is(s, "down")
    /\ service' = [service EXCEPT ![s] = Down]
    /\ tornBy' = (tornBy \/ Is(s, "writing"))
    /\ UNCHANGED <<clock, keyFile, permits, licence, drawn, raced>>

-----------------------------------------------------------------------------
(* Permits                                                                 *)

\* PermitSigner.sign; the permit's time begins when its assessment ends.
Sign(s, d) ==
    /\ Is(s, "up") /\ service[s].held = None
    /\ service' = [service EXCEPT ![s].held = [digest |-> d, signed |-> clock]]
    /\ UNCHANGED <<clock, keyFile, permits, licence, drawn, raced, tornBy>>

\* Database.save_permit
Save(s) ==
    /\ Is(s, "up") /\ service[s].held # None /\ Cardinality(permits) < PermitLimit
    /\ LET held == service[s].held
       IN  permits' = permits \cup
              {[digest |-> held.digest, key |-> service[s].key, signed |-> held.signed,
                expires |-> held.signed + Ttl[s], saved |-> clock, revoked |-> FALSE]}
    /\ service' = [service EXCEPT ![s].held = None]
    /\ UNCHANGED <<clock, keyFile, licence, drawn, raced, tornBy>>

\* Database.revoke, on the permits that are there.
Revoke(d) ==
    /\ \E p \in permits : p.digest = d /\ ~p.revoked
    /\ permits' = {IF p.digest = d THEN [p EXCEPT !.revoked = TRUE] ELSE p : p \in permits}
    /\ UNCHANGED <<clock, keyFile, service, licence, drawn, raced, tornBy>>

Lifetime(p) == p.expires - p.signed
Valid(d) == {p \in permits : p.digest = d /\ ~p.revoked}
Expired(p) == p.expires < clock

\* Faulty: the permits are taken in the order they were saved in.
AnswersOldest(d) == {p \in Valid(d) : \A q \in Valid(d) : p.saved <= q.saved}

\* latest_valid_permit: what GET /v1/permits/by-digest may answer.
Answers(d) == {p \in Valid(d) : \A q \in Valid(d) : q.saved <= p.saved}

-----------------------------------------------------------------------------
(* Licences                                                                *)

\* create_trial_licence; the expiry is written without its fraction of a second.
Trial(days) ==
    [issued |-> clock, days |-> days,
     expires |-> Second * ((clock + days * Day * Second) \div Second)]

\* write_licence, with force or where there is none; a crash leaves part of it.
WriteLicence(days, force) ==
    /\ licence = None \/ force
    /\ licence' \in {Trial(days), Torn}
    /\ UNCHANGED <<clock, keyFile, service, permits, drawn, raced, tornBy>>

Remaining == licence.expires - clock

\* licence_status: an expiry that is reached is past.
Active == licence \notin {None, Torn} /\ licence.expires > clock

\* Faulty: a whole day is added for every one begun.
DaysRemainingNext ==
    IF Active THEN (Remaining + Day * Second) \div (Day * Second) ELSE 0

\* Rounded up, if what remains is a number of whole seconds.
DaysRemaining ==
    IF Active THEN (Remaining + (Day - 1) * Second) \div (Day * Second) ELSE 0

-----------------------------------------------------------------------------
Tick ==
    /\ clock < Horizon
    /\ clock' = clock + 1
    /\ UNCHANGED <<keyFile, service, permits, licence, drawn, raced, tornBy>>

Next ==
    \/ Tick
    \/ \E s \in Services : Look(s) \/ Load(s) \/ Open(s) \/ Write(s) \/ Crash(s) \/ Save(s)
    \/ \E s \in Services, d \in Digests : Sign(s, d)
    \/ \E d \in Digests : Revoke(d)
    \/ \E days \in Trials, force \in BOOLEAN : WriteLicence(days, force)

Spec == Init /\ [][Next]_vars

-----------------------------------------------------------------------------
(* Properties.                                                             *)

Settled == keyFile \in Keys /\ \A s \in Services : ~Creating(s)

\* Once the key file is whole and nobody who missed it is still creating it, it
\* keeps its key, through every restart.
KeySettles == [][Settled => Settled' /\ keyFile' = keyFile]_vars

\* The key file is only ever unreadable, and keeps services from starting, while
\* a service writes it, or for good after one crashed as it did.
TornNeedsCrash == keyFile = Torn => tornBy \/ \E s \in Services : Is(s, "writing")

\* As long as no two services have created the key file at once, all that are up
\* answer GET /v1/public-key with the key in the file, and it is the one that all
\* permits are signed with, those of earlier services included.
OneKeyUnlessRaced ==
    ~raced =>
        /\ \A s \in Services : Is(s, "up") => service[s].key = keyFile
        /\ \A p \in permits : p.key = keyFile

\* GET /v1/permits/by-digest may answer with an expired permit, but never while
\* a valid one has not expired, unless that one was both signed and saved while
\* the other was waiting to be saved, or was given a longer life.
ExpiredOnlyIfAll ==
    \A d \in Digests : \A p \in Answers(d) :
        Expired(p) => \A q \in Valid(d) :
            \/ Expired(q)
            \/ p.signed < q.signed /\ q.saved <= p.saved
            \/ Lifetime(p) < Lifetime(q)

\* A trial begins with the days it was given, never shows more again, and shows
\* none only when less than a second is left.
LicenceCountsDown ==
    licence \notin {None, Torn} =>
        /\ DaysRemaining <= licence.days
        /\ clock = licence.issued => DaysRemaining = licence.days
        /\ DaysRemaining = 0 <=> licence.expires < clock + Second

=============================================================================
