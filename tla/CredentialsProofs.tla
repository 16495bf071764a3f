-------------------------- MODULE CredentialsProofs --------------------------
(***************************************************************************)
(* Theorems about the signing key and the permits, for any number of       *)
(* services, digests and permits and any lifetimes.  The invariant says    *)
(* what the file holds while a single service creates it: nothing until it *)
(* is opened, no whole key until it is written, and nobody is up, nor has  *)
(* anything been signed, before that.                                      *)
(***************************************************************************)
EXTENDS Credentials, TLAPS

\* A service that writes or is up has a key; permits last as long as some service lets them.
Keyed == \A s \in Services : service[s].pc \in {"writing", "up"} => service[s].key \in Keys
Dated == \A p \in permits : \E s \in Services : p.expires = p.signed + Ttl[s]

\* As long as nobody has raced.
Alone ==
    ~raced =>
        /\ \A s, t \in Services : Creating(s) /\ Creating(t) => s = t
        /\ \A s \in Services : Is(s, "missing") => keyFile = None
        /\ \A s \in Services : Is(s, "writing") => keyFile = Torn
        /\ \A s \in Services : Is(s, "up") => service[s].key = keyFile
        /\ \A p \in permits : p.key = keyFile

\* The parts that are about files and services, and the one about dates.
Inv == TypeOK /\ Keyed /\ Dated /\ TornNeedsCrash /\ Alone
       /\ \A s \in Services : Is(s, "found") => keyFile # None

LEMMA InitInv == Init => Inv
<1>1. SUFFICES ASSUME Init PROVE Inv
  OBVIOUS
<1>2. TypeOK
  <2>1. Down \in Service
    BY DEF Down, Service
  <2>2. clock \in Times
    BY <1>1, CredentialsAssumption DEF Init, Times
  <2>3. QED
    BY <1>1, <2>1, <2>2 DEF Init, TypeOK
<1>3. QED
  BY <1>1, <1>2, CredentialsAssumption
  DEF Init, Inv, Keyed, Dated, TornNeedsCrash, Alone, Creating, Is, Down

\* The dates of permits, and who may save one.
LEMMA SaveTyped ==
    ASSUME TypeOK, Keyed, NEW s \in Services, Save(s)
    PROVE  /\ permits' \subseteq Permit
           /\ \E new \in Permit : /\ permits' = permits \cup {new}
                                  /\ new.key = service[s].key /\ new.expires = new.signed + Ttl[s]
<1>. DEFINE held == service[s].held
            new == [digest |-> held.digest, key |-> service[s].key, signed |-> held.signed,
                    expires |-> held.signed + Ttl[s], saved |-> clock, revoked |-> FALSE]
<1>1. service[s] \in Service /\ service[s].key \in Keys /\ clock \in Times
  BY DEF TypeOK, Keyed, Save, Is
<1>2. held \in [digest : Digests, signed : Times]
  BY <1>1 DEF Save, Service
<1>3. held.signed \in Nat /\ held.signed + Ttl[s] \in Nat
  BY <1>2, CredentialsAssumption DEF Times
<1>4. new \in Permit
  BY <1>1, <1>2, <1>3 DEF Permit
<1>5. permits' = permits \cup {new}
  BY DEF Save
<1>6. new.key = service[s].key /\ new.expires = new.signed + Ttl[s]
  OBVIOUS
<1>. HIDE DEF new
<1>7. QED
  BY <1>4, <1>5, <1>6 DEF TypeOK

LEMMA RevokeTyped ==
    ASSUME TypeOK, NEW d \in Digests, Revoke(d)
    PROVE  /\ permits' \subseteq Permit
           /\ \A q \in permits' : \E p \in permits :
                 q.key = p.key /\ q.signed = p.signed /\ q.expires = p.expires
<1>1. ASSUME NEW q \in permits'
      PROVE  q \in Permit /\ \E p \in permits :
                 q.key = p.key /\ q.signed = p.signed /\ q.expires = p.expires
  <2>1. PICK p \in permits : q = IF p.digest = d THEN [p EXCEPT !.revoked = TRUE] ELSE p
    BY DEF Revoke
  <2>2. p \in Permit
    BY DEF TypeOK
  <2>3. QED
    BY <2>1, <2>2 DEF Permit
<1>2. QED
  BY <1>1

\* What a licence is written as.
LEMMA LicenceTyped ==
    ASSUME TypeOK, NEW days \in Trials, NEW force \in BOOLEAN, WriteLicence(days, force)
    PROVE  licence' \in Licence \cup {None, Torn}
<1>1. days \in Nat /\ clock \in Nat /\ clock \in Times /\ Second \in Nat \ {0} /\ Day \in Nat
  BY CredentialsAssumption DEF TypeOK, Times
<1>2. days * Day \in Nat
  BY <1>1
<1>3. days * Day * Second \in Nat
  BY <1>1, <1>2
<1>4. (clock + days * Day * Second) \div Second \in Nat
  BY <1>1, <1>3
<1>5. Second * ((clock + days * Day * Second) \div Second) \in Nat
  BY <1>1, <1>4
<1>6. Trial(days) \in Licence
  BY <1>1, <1>5 DEF Trial, Licence
<1>7. QED
  BY <1>6 DEF WriteLicence

LEMMA StepInv == Inv /\ [Next]_vars => Inv'
<1>1. SUFFICES ASSUME Inv, [Next]_vars PROVE Inv'
  OBVIOUS
<1>. USE CredentialsAssumption
<1>2. ASSUME NEW s \in Services, Look(s)
      PROVE  Inv'
  <2>1. /\ service[s].pc = "down" /\ service' \in [Services -> Service]
        /\ \A t \in Services \ {s} : service'[t] = service[t]
        /\ UNCHANGED <<clock, keyFile, permits, licence, drawn, tornBy>>
    BY <1>1, <1>2 DEF Look, Inv, TypeOK, Service, Is
  <2>2. CASE keyFile = None
    <3>1. service'[s].pc = "missing" /\ raced' = (raced \/ \E t \in Services \ {s} : Creating(t))
      BY <1>1, <1>2, <2>2 DEF Look, Inv, TypeOK, Service
    <3>2. raced' \in BOOLEAN
      BY <3>1
    <3>3. (TypeOK /\ Keyed /\ Dated /\ TornNeedsCrash)'
      BY <1>1, <2>1, <2>2, <3>1, <3>2 DEF Inv, TypeOK, Keyed, Dated, TornNeedsCrash, Is
    <3>4. ~raced' => ~raced /\ \A t \in Services \ {s} : ~Creating(t)
      BY <3>1
    <3>5. Alone'
      BY <1>1, <2>1, <2>2, <3>1, <3>4 DEF Inv, Alone, Creating, Is
    <3>6. (\A t \in Services : Is(t, "found") => keyFile # None)'
      BY <1>1, <2>1, <3>1 DEF Inv, Is
    <3>7. QED
      BY <3>3, <3>5, <3>6 DEF Inv
  <2>3. CASE keyFile # None
    <3>1. service'[s].pc = "found" /\ raced' = raced
      BY <1>1, <1>2, <2>3 DEF Look, Inv, TypeOK, Service
    <3>2. QED
      BY <1>1, <2>1, <2>3, <3>1
      DEF Inv, TypeOK, Keyed, Dated, TornNeedsCrash, Alone, Creating, Is
  <2>4. QED
    BY <2>2, <2>3
<1>3. ASSUME NEW s \in Services, Load(s)
      PROVE  Inv'
  <2>1. TypeOK'
    BY <1>1, <1>3 DEF Load, Inv, TypeOK, Service, Down, Times, Is
  <2>2. (Keyed /\ Dated /\ TornNeedsCrash)'
    BY <1>1, <1>3 DEF Load, Inv, Keyed, Dated, TornNeedsCrash, TypeOK, Service, Down, Is
  <2>3. Alone'
    BY <1>1, <1>3 DEF Load, Inv, Keyed, Alone, Creating, TypeOK, Service, Down, Is
  <2>4. (\A t \in Services : Is(t, "found") => keyFile # None)'
    BY <1>1, <1>3 DEF Load, Inv, Keyed, TypeOK, Service, Down, Is
  <2>5. QED
    BY <2>1, <2>2, <2>3, <2>4 DEF Inv
<1>4. ASSUME NEW s \in Services, Open(s)
      PROVE  Inv'
  <2>1. PICK k \in Keys \ drawn :
           service' = [service EXCEPT ![s].pc = "writing", ![s].key = k] /\ drawn' = drawn \cup {k}
    BY <1>4 DEF Open
  <2>2. /\ service[s].pc = "missing" /\ service' \in [Services -> Service]
        /\ service'[s].pc = "writing" /\ service'[s].key = k
        /\ \A t \in Services \ {s} : service'[t] = service[t]
        /\ keyFile' = Torn /\ UNCHANGED <<clock, permits, licence, raced, tornBy>>
    <3>1. /\ service[s].pc = "missing" /\ service \in [Services -> Service]
          /\ keyFile' = Torn /\ UNCHANGED <<clock, permits, licence, raced, tornBy>>
      BY <1>1, <1>4 DEF Open, Inv, TypeOK, Is
    <3>2. service' = [service EXCEPT ![s] = [service[s] EXCEPT !.pc = "writing", !.key = k]]
      BY <2>1, <3>1 DEF Service
    <3>. DEFINE new == [service[s] EXCEPT !.pc = "writing", !.key = k]
    <3>3. new \in Service /\ new.pc = "writing" /\ new.key = k
      BY <3>1 DEF Service
    <3>. HIDE DEF new
    <3>4. QED
      BY <3>1, <3>2, <3>3 DEF new
  <2>3. (TypeOK /\ Keyed /\ Dated /\ TornNeedsCrash)'
    BY <1>1, <2>1, <2>2 DEF Inv, TypeOK, Keyed, Dated, TornNeedsCrash, Is
  <2>4. ~raced => keyFile = None /\ permits = {} /\ \A t \in Services : ~Is(t, "up")
    <3>1. ~raced => keyFile = None
      BY <1>1, <2>2 DEF Inv, Alone, Is
    <3>2. \A t \in Services : Is(t, "up") => service[t].key # None
      BY <1>1 DEF Inv, Keyed, Is
    <3>3. \A p \in permits : p.key # None
      BY <1>1 DEF Inv, TypeOK, Permit
    <3>4. QED
      BY <1>1, <3>1, <3>2, <3>3 DEF Inv, Alone
  <2>5. Alone'
    BY <1>1, <2>2, <2>4 DEF Inv, Alone, Creating, Is
  <2>6. (\A t \in Services : Is(t, "found") => keyFile # None)'
    BY <1>1, <2>2 DEF Inv, Is
  <2>7. QED
    BY <2>3, <2>5, <2>6 DEF Inv
<1>5. ASSUME NEW s \in Services, Write(s)
      PROVE  Inv'
  <2>1. /\ service[s].pc = "writing" /\ service[s].key \in Keys
        /\ service' \in [Services -> Service]
        /\ service'[s].pc = "up" /\ service'[s].key = service[s].key
        /\ \A t \in Services \ {s} : service'[t] = service[t]
        /\ keyFile' = service[s].key /\ UNCHANGED <<clock, permits, licence, drawn, raced, tornBy>>
    BY <1>1, <1>5 DEF Write, Inv, TypeOK, Keyed, Service, Is
  <2>2. (TypeOK /\ Keyed /\ Dated /\ TornNeedsCrash)'
    BY <1>1, <2>1 DEF Inv, TypeOK, Keyed, Dated, TornNeedsCrash, Is
  <2>3. ~raced => permits = {} /\ \A t \in Services : ~Is(t, "up")
    <3>1. ~raced => keyFile = Torn
      BY <1>1, <2>1 DEF Inv, Alone, Is
    <3>2. \A t \in Services : Is(t, "up") => service[t].key # Torn
      BY <1>1 DEF Inv, Keyed, Is
    <3>3. \A p \in permits : p.key # Torn
      BY <1>1 DEF Inv, TypeOK, Permit
    <3>4. QED
      BY <1>1, <3>1, <3>2, <3>3 DEF Inv, Alone
  <2>4. ~raced => \A t \in Services \ {s} : ~Creating(t)
    BY <1>1, <2>1 DEF Inv, Alone, Creating, Is
  <2>5. Alone'
    BY <1>1, <2>1, <2>3, <2>4 DEF Inv, Alone, Creating, Is
  <2>6. (\A t \in Services : Is(t, "found") => keyFile # None)'
    BY <1>1, <2>1 DEF Inv, Is
  <2>7. QED
    BY <2>2, <2>5, <2>6 DEF Inv
<1>6. ASSUME NEW s \in Services, Crash(s)
      PROVE  Inv'
  <2>1. TypeOK'
    BY <1>1, <1>6 DEF Crash, Inv, TypeOK, Service, Down, Times, Is
  <2>2. (Keyed /\ Dated /\ TornNeedsCrash)'
    BY <1>1, <1>6 DEF Crash, Inv, Keyed, Dated, TornNeedsCrash, TypeOK, Service, Down, Is
  <2>3. Alone'
    BY <1>1, <1>6 DEF Crash, Inv, Keyed, Alone, Creating, TypeOK, Service, Down, Is
  <2>4. (\A t \in Services : Is(t, "found") => keyFile # None)'
    BY <1>1, <1>6 DEF Crash, Inv, Keyed, TypeOK, Service, Down, Is
  <2>5. QED
    BY <2>1, <2>2, <2>3, <2>4 DEF Inv
<1>7. ASSUME NEW s \in Services, NEW d \in Digests, Sign(s, d)
      PROVE  Inv'
  <2>1. TypeOK'
    BY <1>1, <1>7 DEF Sign, Inv, TypeOK, Service, Down, Times, Is
  <2>2. (Keyed /\ Dated /\ TornNeedsCrash)'
    BY <1>1, <1>7 DEF Sign, Inv, Keyed, Dated, TornNeedsCrash, TypeOK, Service, Down, Is
  <2>3. Alone'
    BY <1>1, <1>7 DEF Sign, Inv, Keyed, Alone, Creating, TypeOK, Service, Down, Is
  <2>4. (\A t \in Services : Is(t, "found") => keyFile # None)'
    BY <1>1, <1>7 DEF Sign, Inv, Keyed, TypeOK, Service, Down, Is
  <2>5. QED
    BY <2>1, <2>2, <2>3, <2>4 DEF Inv
<1>8. ASSUME NEW s \in Services, Save(s)
      PROVE  Inv'
  <2>1. TypeOK'
    <3>1. permits' \subseteq Permit
      BY <1>1, <1>8, SaveTyped DEF Inv
    <3>2. service' \in [Services -> Service]
      BY <1>1, <1>8 DEF Save, Inv, TypeOK, Service
    <3>3. QED
      BY <1>1, <1>8, <3>1, <3>2 DEF Save, Inv, TypeOK
  <2>2. (Keyed /\ TornNeedsCrash /\ \A t \in Services : Is(t, "found") => keyFile # None)'
    BY <1>1, <1>8 DEF Save, Inv, Keyed, TornNeedsCrash, TypeOK, Service, Is
  <2>3. Dated'
    BY <1>1, <1>8, SaveTyped DEF Save, Inv, Dated
  <2>4. Alone'
    BY <1>1, <1>8, SaveTyped DEF Save, Inv, Alone, Creating, TypeOK, Service, Is
  <2>5. QED
    BY <2>1, <2>2, <2>3, <2>4 DEF Inv
<1>9. ASSUME NEW d \in Digests, Revoke(d)
      PROVE  Inv'
  <2>1. TypeOK'
    BY <1>1, <1>9, RevokeTyped DEF Revoke, Inv, TypeOK, Service
  <2>2. (Keyed /\ TornNeedsCrash /\ \A t \in Services : Is(t, "found") => keyFile # None)'
    BY <1>1, <1>9 DEF Revoke, Inv, Keyed, TornNeedsCrash, TypeOK, Service, Is
  <2>3. Dated'
    <3>1. SUFFICES ASSUME NEW q \in permits'
                   PROVE  \E s \in Services : q.expires = q.signed + Ttl[s]
      BY DEF Dated
    <3>2. PICK p \in permits : q.signed = p.signed /\ q.expires = p.expires
      BY <1>1, <1>9, <3>1, RevokeTyped DEF Inv
    <3>3. QED
      BY <1>1, <3>2 DEF Inv, Dated
  <2>4. Alone'
    BY <1>1, <1>9, RevokeTyped DEF Revoke, Inv, Alone, Creating, TypeOK, Service, Is
  <2>5. QED
    BY <2>1, <2>2, <2>3, <2>4 DEF Inv
<1>10. ASSUME NEW days \in Trials, NEW force \in BOOLEAN, WriteLicence(days, force)
      PROVE  Inv'
  <2>1. TypeOK'
    BY <1>1, <1>10, LicenceTyped DEF WriteLicence, Inv, TypeOK, Service
  <2>2. (Keyed /\ TornNeedsCrash /\ \A t \in Services : Is(t, "found") => keyFile # None)'
    BY <1>1, <1>10 DEF WriteLicence, Inv, Keyed, TornNeedsCrash, TypeOK, Service, Is
  <2>3. Dated'
    BY <1>1, <1>10, LicenceTyped DEF WriteLicence, Inv, Dated
  <2>4. Alone'
    BY <1>1, <1>10, LicenceTyped DEF WriteLicence, Inv, Alone, Creating, TypeOK, Service, Is
  <2>5. QED
    BY <2>1, <2>2, <2>3, <2>4 DEF Inv
<1>11. CASE Tick \/ UNCHANGED vars
  <2>1. clock' \in Times
    BY <1>1, <1>11 DEF Tick, vars, Inv, TypeOK, Times
  <2>2. UNCHANGED <<keyFile, service, permits, licence, drawn, raced, tornBy>>
    BY <1>11 DEF Tick, vars
  <2>3. QED
    BY <1>1, <2>1, <2>2 DEF Inv, TypeOK, Keyed, Dated, TornNeedsCrash, Alone, Creating, Is
<1>12. QED
  BY <1>1, <1>2, <1>3, <1>4, <1>5, <1>6, <1>7, <1>8, <1>9, <1>10, <1>11 DEF Next

LEMMA AlwaysInv == Spec => []Inv
  BY InitInv, StepInv, PTL DEF Spec

-----------------------------------------------------------------------------
\* The key file, the services and the tables have their types.
THEOREM TypeCorrect == Spec => []TypeOK
<1>1. Inv => TypeOK
  BY DEF Inv
<1>2. QED
  BY <1>1, AlwaysInv, PTL

\* A key file that stays unreadable was left by a crash.
THEOREM TornOnlyByCrash == Spec => []TornNeedsCrash
<1>1. Inv => TornNeedsCrash
  BY DEF Inv
<1>2. QED
  BY <1>1, AlwaysInv, PTL

\* Services that do not create the key file at once share one key for ever.
THEOREM OneKey == Spec => []OneKeyUnlessRaced
<1>1. Inv => OneKeyUnlessRaced
  BY DEF Inv, Alone, OneKeyUnlessRaced
<1>2. QED
  BY <1>1, AlwaysInv, PTL

\* A key file that is whole, and that nobody is creating, stays as it is.
THEOREM KeyKept == Spec => KeySettles
<1>1. ASSUME Inv, [Next]_vars, Settled
      PROVE  Settled' /\ keyFile' = keyFile
  <2>1. CASE \E s \in Services : Look(s) \/ Load(s) \/ Crash(s) \/ Save(s)
    <3>1. PICK s \in Services : Look(s) \/ Load(s) \/ Crash(s) \/ Save(s)
      BY <2>1
    <3>2. keyFile' = keyFile /\ keyFile \in Keys /\ keyFile # None
      BY <1>1, <3>1, CredentialsAssumption DEF Look, Load, Crash, Save, Settled
    <3>3. /\ service'[s].pc \in {"found", "up", "down"}
          /\ \A t \in Services \ {s} : service'[t] = service[t]
      <4>1. service \in [Services -> Service]
        BY <1>1 DEF Inv, TypeOK
      <4>2. CASE Look(s) \/ Load(s)
        <5>1. CASE Look(s)
          BY <3>2, <4>1, <5>1 DEF Look, Service
        <5>2. CASE Load(s) /\ keyFile = Torn
          BY <4>1, <5>2 DEF Load, Down
        <5>3. CASE Load(s) /\ keyFile # Torn
          BY <4>1, <5>3 DEF Load, Service
        <5>4. QED
          BY <4>2, <5>1, <5>2, <5>3
      <4>3. CASE Crash(s) \/ Save(s)
        BY <4>1, <4>3 DEF Crash, Save, Service, Down, Is
      <4>4. QED
        BY <3>1, <4>2, <4>3
    <3>4. QED
      BY <1>1, <3>2, <3>3 DEF Settled, Creating, Is
  <2>2. CASE \E s \in Services : Open(s) \/ Write(s)
    BY <1>1, <2>2 DEF Open, Write, Settled, Creating, Is
  <2>3. CASE \E s \in Services, d \in Digests : Sign(s, d)
    BY <1>1, <2>3 DEF Sign, Settled, Creating, Is, Inv, TypeOK, Service
  <2>4. ASSUME UNCHANGED <<keyFile, service>>
        PROVE  Settled' /\ keyFile' = keyFile
    BY <1>1, <2>4 DEF Settled, Creating, Is
  <2>5. CASE Tick \/ UNCHANGED vars \/ (\E d \in Digests : Revoke(d))
             \/ \E days \in Trials, force \in BOOLEAN : WriteLicence(days, force)
    BY <2>4, <2>5 DEF Tick, vars, Revoke, WriteLicence
  <2>6. QED
    BY <1>1, <2>1, <2>2, <2>3, <2>5 DEF Next
<1>2. QED
  BY <1>1, AlwaysInv, PTL DEF Spec, KeySettles

\* Of the permits of one digest, the one that is answered expired last, unless
\* another was signed and saved in between or was given a longer life.
THEOREM AnswerExpiresLast == Spec => []ExpiredOnlyIfAll
<1>1. Inv => ExpiredOnlyIfAll
  <2>1. SUFFICES ASSUME Inv, NEW d \in Digests, NEW p \in Answers(d), Expired(p),
                        NEW q \in Valid(d), ~Expired(q), ~(Lifetime(p) < Lifetime(q))
                 PROVE  p.signed < q.signed /\ q.saved <= p.saved
    BY DEF ExpiredOnlyIfAll
  <2>2. p \in permits /\ q \in permits /\ q.saved <= p.saved
    BY <2>1 DEF Answers, Valid
  <2>3. PICK s \in Services, t \in Services :
           p.expires = p.signed + Ttl[s] /\ q.expires = q.signed + Ttl[t]
    BY <2>1, <2>2 DEF Inv, Dated
  <2>4. /\ p.signed \in Nat /\ q.signed \in Nat /\ clock \in Nat
        /\ Ttl[s] \in Nat /\ Ttl[t] \in Nat
    BY <2>1, <2>2, CredentialsAssumption DEF Inv, TypeOK, Permit, Times
  <2>5. p.signed + Ttl[s] < clock /\ ~(q.signed + Ttl[t] < clock) /\ ~(Ttl[s] < Ttl[t])
    BY <2>1, <2>3, <2>4 DEF Expired, Lifetime
  <2>6. QED
    BY <2>2, <2>4, <2>5
<1>2. QED
  BY <1>1, AlwaysInv, PTL

-----------------------------------------------------------------------------
(* The licence.                                                            *)

LEMMA Division ==
    ASSUME NEW a \in Nat, NEW b \in Nat \ {0}
    PROVE  /\ a \div b \in Nat
           /\ b * (a \div b) <= a
           /\ a < b * (a \div b) + b
  BY SMT

LEMMA Quotient ==
    ASSUME NEW a \in Nat, NEW b \in Nat \ {0}, NEW q \in Nat, b * q <= a, a < b * q + b
    PROVE  a \div b = q
<1>. DEFINE d == a \div b
<1>1. d \in Nat /\ b * d <= a /\ a < b * d + b
  BY Division
<1>. HIDE DEF d
<1>2. ~(q < d)
  <2>1. SUFFICES ASSUME q + 1 <= d PROVE FALSE
    BY <1>1
  <2>2. b * (q + 1) <= b * d
    BY <1>1, <2>1
  <2>3. b * (q + 1) = b * q + b
    OBVIOUS
  <2>4. b * q \in Nat /\ b * d \in Nat
    BY <1>1
  <2>5. QED
    BY <1>1, <2>2, <2>3, <2>4
<1>3. ~(d < q)
  <2>1. SUFFICES ASSUME d + 1 <= q PROVE FALSE
    BY <1>1
  <2>2. b * (d + 1) <= b * q
    BY <1>1, <2>1
  <2>3. b * (d + 1) = b * d + b
    BY <1>1
  <2>4. b * q \in Nat /\ b * d \in Nat
    BY <1>1
  <2>5. QED
    BY <1>1, <2>2, <2>3, <2>4
<1>4. QED
  BY <1>1, <1>2, <1>3 DEF d

\* A licence lasts its days from less than a second before it was issued.
Lasts(l, now) ==
    /\ l.issued <= now
    /\ \E start \in Nat :
          /\ start <= l.issued /\ l.issued < start + Second
          /\ l.expires = start + l.days * (Day * Second)

LicenceLasts == licence \notin {None, Torn} => Lasts(licence, clock)

LEMMA TrialLasts ==
    ASSUME TypeOK, NEW days \in Trials
    PROVE  Lasts(Trial(days), clock)
<1>. DEFINE whole == clock \div Second
            n == days * Day
<1>1. days \in Nat /\ clock \in Nat /\ Second \in Nat \ {0} /\ Day \in Nat
  BY CredentialsAssumption DEF TypeOK, Times
<1>2. whole \in Nat /\ Second * whole <= clock /\ clock < Second * whole + Second
  BY <1>1, Division
<1>3. n \in Nat /\ n * Second \in Nat /\ n * Second = days * (Day * Second)
  BY <1>1
<1>. HIDE DEF whole, n
<1>4. (clock + n * Second) \div Second = whole + n
  <2>1. Second * (whole + n) = Second * whole + n * Second
    BY <1>1, <1>2, <1>3
  <2>2. clock + n * Second \in Nat /\ whole + n \in Nat /\ Second * whole \in Nat
    BY <1>1, <1>2, <1>3
  <2>3. /\ Second * (whole + n) <= clock + n * Second
        /\ clock + n * Second < Second * (whole + n) + Second
    BY <1>1, <1>2, <1>3, <2>1, <2>2
  <2>4. QED
    BY <1>1, <2>2, <2>3, Quotient
<1>5. Trial(days).expires = Second * whole + days * (Day * Second)
  <2>1. Trial(days).expires = Second * (whole + n)
    BY <1>4 DEF Trial, n
  <2>2. QED
    BY <1>1, <1>2, <1>3, <2>1
<1>6. Second * whole \in Nat
  BY <1>1, <1>2
<1>7. Trial(days).issued = clock /\ Trial(days).days = days
  BY DEF Trial
<1>8. QED
  BY <1>1, <1>2, <1>5, <1>6, <1>7 DEF Lasts

LEMMA StepLasts == Inv /\ LicenceLasts /\ [Next]_vars => LicenceLasts'
<1>1. SUFFICES ASSUME Inv, LicenceLasts, [Next]_vars, licence' \notin {None, Torn}
               PROVE  Lasts(licence', clock')
  BY DEF LicenceLasts
<1>2. CASE licence' = licence /\ clock' \in {clock, clock + 1}
  <2>1. licence \in Licence /\ clock \in Nat
    BY <1>1, <1>2 DEF Inv, TypeOK, Times
  <2>2. QED
    BY <1>1, <1>2, <2>1 DEF LicenceLasts, Lasts, Licence, Times
<1>3. ASSUME NEW days \in Trials, NEW force \in BOOLEAN, WriteLicence(days, force)
      PROVE  Lasts(licence', clock')
  <2>1. licence' = Trial(days) /\ clock' = clock
    BY <1>1, <1>3 DEF WriteLicence
  <2>2. Lasts(Trial(days), clock)
    BY <1>1, TrialLasts DEF Inv
  <2>3. QED
    BY <2>1, <2>2 DEF Lasts
<1>4. CASE \E s \in Services : Look(s) \/ Load(s) \/ Open(s) \/ Write(s) \/ Crash(s) \/ Save(s)
  BY <1>2, <1>4 DEF Look, Load, Open, Write, Crash, Save
<1>5. CASE (\E s \in Services, d \in Digests : Sign(s, d)) \/ \E d \in Digests : Revoke(d)
  BY <1>2, <1>5 DEF Sign, Revoke
<1>6. CASE Tick \/ UNCHANGED vars
  BY <1>2, <1>6 DEF Tick, vars
<1>7. QED
  BY <1>1, <1>3, <1>4, <1>5, <1>6 DEF Next

\* Whatever a second and a day are, as long as a day has more than one second:
\* trials begin with their days, never show more, and show none in their last
\* second only.
THEOREM LicencesCountDown == Spec => []LicenceCountsDown
<1>1. Inv /\ LicenceLasts => LicenceCountsDown
  <2>1. SUFFICES ASSUME Inv, LicenceLasts, licence \notin {None, Torn}
                 PROVE  /\ DaysRemaining <= licence.days
                        /\ clock = licence.issued => DaysRemaining = licence.days
                        /\ DaysRemaining = 0 <=> licence.expires < clock + Second
    BY DEF LicenceCountsDown
  <2>. DEFINE c == clock
              i == licence.issued
              days == licence.days
              e == licence.expires
              D == Day * Second
              rounded == e - c + (Day - 1) * Second
  <2>2. /\ c \in Nat /\ i \in Nat /\ e \in Nat /\ days \in Nat \ {0}
        /\ Second \in Nat \ {0} /\ Day \in Nat \ {0, 1}
    <3>1. licence \in Licence /\ clock \in 0 .. Horizon
      BY <2>1 DEF Inv, TypeOK, Times
    <3>2. licence.issued \in 0 .. Horizon /\ licence.days \in Trials /\ licence.expires \in Nat
      BY <3>1 DEF Licence, Times
    <3>3. c \in Nat /\ i \in Nat
      BY <3>1, <3>2, CredentialsAssumption
    <3>4. days \in Nat \ {0}
      BY <3>2, CredentialsAssumption
    <3>5. Second \in Nat \ {0} /\ Day \in Nat \ {0, 1}
      BY CredentialsAssumption
    <3>6. QED
      BY <3>2, <3>3, <3>4, <3>5
  <2>3. PICK start \in Nat : start <= i /\ i < start + Second /\ e = start + days * D
    BY <2>1 DEF LicenceLasts, Lasts
  <2>4. i <= c
    BY <2>1 DEF LicenceLasts, Lasts
  <2>5. /\ D \in Nat /\ D >= Second + Second /\ (Day - 1) * Second = D - Second
        /\ days * D \in Nat /\ days * D >= D /\ D * days = days * D
    <3>1. D \in Nat /\ D >= 2 * Second /\ (Day - 1) * Second = D - Second
      BY <2>2
    <3>. HIDE DEF D
    <3>2. days * D \in Nat /\ days * D >= D /\ D * days = days * D
      BY <2>2, <3>1
    <3>3. QED
      BY <2>2, <3>1, <3>2
  <2>6. (e > c) = Active
    BY <2>1 DEF Active
  <2>7. DaysRemaining = IF e > c THEN rounded \div D ELSE 0
    BY <2>6 DEF DaysRemaining, Remaining
  <2>. HIDE DEF c, i, days, e, D
  <2>8. CASE e <= c
    <3>1. DaysRemaining = 0 /\ e < c + Second
      BY <2>2, <2>7, <2>8
    <3>2. c # i
      BY <2>2, <2>3, <2>5, <2>8
    <3>3. QED
      BY <2>2, <3>1, <3>2 DEF c, i, e, days
  <2>9. CASE e > c
    <3>1. rounded \in Nat /\ rounded = (e - c) + (D - Second) /\ D \in Nat \ {0}
      BY <2>2, <2>5, <2>9
    <3>. DEFINE q == rounded \div D
    <3>2. q \in Nat /\ D * q <= rounded /\ rounded < D * q + D /\ DaysRemaining = q
      BY <2>7, <2>9, <3>1, Division
    <3>. HIDE DEF rounded, q
    <3>3. rounded < D * days + D
      BY <2>2, <2>3, <2>4, <2>5, <3>1
    <3>4. q <= days
      <4>1. SUFFICES ASSUME q >= days + 1 PROVE FALSE
        BY <2>2, <3>2
      <4>2. D * q >= D * (days + 1)
        BY <2>2, <3>1, <3>2, <4>1
      <4>3. D * (days + 1) = D * days + D
        BY <2>2, <3>1
      <4>4. D * q \in Nat /\ D * days \in Nat
        BY <2>2, <3>1, <3>2
      <4>5. QED
        BY <3>1, <3>2, <3>3, <4>2, <4>3, <4>4
    <3>5. ASSUME c = i PROVE q = days
      <4>1. rounded >= D * days
        BY <2>2, <2>3, <2>5, <3>1, <3>5
      <4>2. QED
        BY <2>2, <3>1, <3>3, <4>1, Quotient DEF q
    <3>6. q = 0 <=> e < c + Second
      <4>1. q = 0 <=> rounded < D
        <5>1. ASSUME q = 0 PROVE rounded < D
          BY <3>1, <3>2, <5>1
        <5>2. ASSUME rounded < D PROVE q = 0
          BY <3>1, <5>2, Quotient DEF q
        <5>3. QED
          BY <5>1, <5>2
      <4>2. QED
        BY <2>2, <2>5, <3>1, <4>1
    <3>7. QED
      BY <3>2, <3>4, <3>5, <3>6 DEF c, i, e, days
  <2>10. QED
    BY <2>2, <2>8, <2>9
<1>2. Init => LicenceLasts
  BY DEF Init, LicenceLasts
<1>3. Spec => []LicenceLasts
  BY <1>2, StepLasts, AlwaysInv, PTL DEF Spec
<1>4. QED
  BY <1>1, <1>3, AlwaysInv, PTL
=============================================================================
