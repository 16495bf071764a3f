--------------------------- MODULE DownloadProofs ---------------------------
(***************************************************************************)
(* Proofs about Download for any number of requests, contents and blocks,  *)
(* whatever upstream answers and whichever requests use the legacy client. *)
(***************************************************************************)
EXTENDS Download, TLAPS

-----------------------------------------------------------------------------
(* What the handles and the names refer to.  A file exists once the        *)
(* request it is named after has opened it; a temporary name refers to a   *)
(* file of its own client that was neither published nor accepted.         *)

Born(r) == task[r].pc \notin {"idle", "asking"}

TasksFit ==
    \A r \in Requests :
        /\ ~Born(r) => task[r].file = None /\ task[r].sent = None
        /\ At(r, "writing") =>
              task[r].file \in Requests /\ task[r].sent \in Contents /\ Name(task[r].file) = Name(r)
        /\ At(r, "accepted") =>
              task[r].file \in Requests /\ task[r].digest \in Files /\ Accepts(task[r].digest)
        /\ task[r].file # None => Born(task[r].file)

NamesFit ==
    /\ held # None => Born(held)
    /\ \A n \in Names : temp[n] # None =>
          /\ Name(temp[n]) = n
          /\ task[temp[n]].file = temp[n]
          /\ \/ At(temp[n], "writing") \/ At(temp[n], "lost")
             \/ n = "part" /\ At(temp[n], "failed")
          /\ temp[n] # held
          /\ \A r \in Requests : At(r, "accepted") => task[r].file # temp[n]

Shape == TypeOK /\ TasksFit /\ NamesFit

LEMMA Typing ==
  ASSUME TypeOK, NEW r \in Requests
  PROVE  /\ task[r] \in Task /\ Name(r) \in Names
         /\ temp[Name(r)] \in Requests \cup {None} /\ held \in Requests \cup {None}
         /\ None \notin Requests /\ None \notin Contents /\ None \notin Files
         /\ \A q \in Requests :
               data[q] \in Files /\ Name(q) \in Names /\ task[q].file \in Requests \cup {None}
  BY DownloadAssumption DEF DownloadAssumption, TypeOK, Name, Names, Task

LEMMA FilesClosed ==
  /\ Empty \in Files
  /\ \A f \in Files, k \in Offsets, c \in Contents : [f EXCEPT ![k] = c] \in Files
  BY DEF Empty, Files

\* What a step of r leaves of the others: all but that they may be disturbed.
LEMMA SeizeOthers ==
  ASSUME TypeOK, NEW r \in Requests, NEW t \in Task, Seize(r, t)
  PROVE  /\ task' \in [Requests -> Task]
         /\ task'[r] = t
         /\ \A q \in Requests \ {r} :
               /\ task'[q].pc = task[q].pc /\ task'[q].file = task[q].file
               /\ task'[q].sent = task[q].sent /\ task'[q].written = task[q].written
               /\ task'[q].digest = task[q].digest
               /\ task'[q].disturbed = (task[q].disturbed \/ (Name(q) = Name(r) /\ At(q, "writing")))
  <1>1. \A q \in Requests \ {r} :
           task'[q] = IF Name(q) = Name(r) /\ At(q, "writing")
                      THEN [task[q] EXCEPT !.disturbed = TRUE] ELSE task[q]
    BY DEF Seize
  <1>2. \A q \in Requests \ {r} : task[q] \in Task
    BY DEF TypeOK
  <1>3. task' \in [Requests -> Task] /\ task'[r] = t
    BY DEF Seize, TypeOK, Task
  <1>4. QED
    BY <1>1, <1>2, <1>3 DEF Task

LEMMA InitShape == Init => Shape
  <1> SUFFICES ASSUME Init PROVE Shape
    OBVIOUS
  <1>1. TypeOK
    BY FilesClosed, DownloadAssumption
       DEF DownloadAssumption, Init, TypeOK, Idle, Task, Fetching, Endings
  <1>2. TasksFit /\ NamesFit
    BY DEF Init, Idle, TasksFit, NamesFit, Born, At
  <1>3. QED
    BY <1>1, <1>2 DEF Shape

-----------------------------------------------------------------------------
(* Every step keeps the shape.  A step is first reduced to what it does to  *)
(* the task of its request, the others' tasks being the same but for their  *)
(* disturbance.                                                             *)

Others(r) ==
    \A q \in Requests \ {r} :
        /\ task'[q].pc = task[q].pc /\ task'[q].file = task[q].file
        /\ task'[q].sent = task[q].sent /\ task'[q].written = task[q].written
        /\ task'[q].digest = task[q].digest
        /\ task[q].disturbed => task'[q].disturbed

LEMMA TaskMoves ==
  ASSUME TypeOK, NEW r \in Requests, NEW t \in Task,
         Seize(r, t) \/ task' = [task EXCEPT ![r] = t]
  PROVE  task' \in [Requests -> Task] /\ task'[r] = t /\ Others(r)
  <1>1. CASE Seize(r, t)
    BY <1>1, SeizeOthers DEF Others
  <1>2. CASE task' = [task EXCEPT ![r] = t]
    BY <1>2 DEF TypeOK, Others
  <1>3. QED
    BY <1>1, <1>2

LEMMA EndType ==
  ASSUME TypeOK, NEW r \in Requests, NEW e \in Endings,
         NEW f \in Requests, NEW d \in Files
  PROVE  End(r, e) \in Task /\ [End(r, e) EXCEPT !.file = f, !.digest = d] \in Task
  BY DEF TypeOK, End, Task

LEMMA BeginShape ==
  ASSUME Shape, NEW r \in Requests, Begin(r)
  PROVE  Shape'
  <1>1. CASE held' \in {held, None} /\ task' = [task EXCEPT ![r].pc = "asking"]
    <2> DEFINE t == [task[r] EXCEPT !.pc = "asking"]
    <2>1. t \in Task /\ task' = [task EXCEPT ![r] = t]
      BY <1>1 DEF Shape, TypeOK, Task, Fetching
    <2>2. task' \in [Requests -> Task] /\ task'[r] = t /\ Others(r)
      BY <2>1, TaskMoves DEF Shape
    <2>3. TypeOK'
      BY <1>1, <2>2 DEF Shape, TypeOK, Begin, given
    <2>4. TasksFit'
      BY <2>1, <2>2, Typing DEF Shape, TasksFit, Begin, given, Born, At, Others, Name, Accepts, Task
    <2>5. NamesFit'
      BY <1>1, <2>1, <2>2, Typing DEF Shape, NamesFit, TasksFit, Begin, given, Born, At, Others, Name, Task
    <2>6. QED
      BY <2>3, <2>4, <2>5 DEF Shape
  <1>2. CASE /\ held # None /\ Accepts(data[held]) /\ held' = held
             /\ task' = [task EXCEPT ![r] =
                    [Idle EXCEPT !.pc = "accepted", !.file = held, !.digest = data[held]]]
    <2> DEFINE t == [Idle EXCEPT !.pc = "accepted", !.file = held, !.digest = data[held]]
    <2>1. t \in Task /\ task' = [task EXCEPT ![r] = t]
      <3>1. 0 \in 0 .. Blocks /\ held \in Requests /\ data[held] \in Files
        BY <1>2, Typing, DownloadAssumption DEF Shape, DownloadAssumption
      <3>2. QED
        BY <3>1, <1>2 DEF Task, Endings, Idle
    <2>2. task' \in [Requests -> Task] /\ task'[r] = t /\ Others(r)
      BY <2>1, TaskMoves DEF Shape
    <2>3. TypeOK'
      BY <1>2, <2>2 DEF Shape, TypeOK, Begin, given
    <2>4. t.pc = "accepted" /\ t.file = held /\ t.digest = data[held]
      BY DEF Idle
    <2>5. TasksFit'
      BY <1>2, <2>2, <2>4, Typing
         DEF Shape, TasksFit, NamesFit, Begin, given, Born, At, Others, Name, Accepts
    <2>6. NamesFit'
      BY <1>2, <2>2, <2>4, Typing
         DEF Shape, NamesFit, TasksFit, Begin, given, Born, At, Others, Name
    <2>7. QED
      BY <2>3, <2>5, <2>6 DEF Shape
  <1>3. QED
    BY <1>1, <1>2 DEF Begin

LEMMA OpenShape ==
  ASSUME Shape, NEW r \in Requests, Open(r)
  PROVE  Shape'
  <1> DEFINE f == IF temp[Name(r)] = None THEN r ELSE temp[Name(r)]
  <1>1. PICK c \in upstream :
           Seize(r, [task[r] EXCEPT !.pc = "writing", !.file = f, !.sent = c])
    BY DEF Open
  <1> DEFINE t == [task[r] EXCEPT !.pc = "writing", !.file = f, !.sent = c]
  <1>2. f \in Requests /\ c \in Contents /\ Name(f) = Name(r)
    BY Typing DEF Shape, TypeOK, NamesFit
  <1>3. t \in Task /\ t.pc = "writing" /\ t.file = f /\ t.sent = c
    BY <1>2 DEF Shape, TypeOK, Task, Fetching
  <1>4. task' \in [Requests -> Task] /\ task'[r] = t /\ Others(r)
    BY <1>1, <1>3, TaskMoves DEF Shape
  <1>5. /\ data' = [data EXCEPT ![f] = Empty] /\ temp' = [temp EXCEPT ![Name(r)] = f]
        /\ held' = held /\ At(r, "asking") /\ UNCHANGED <<legacy, upstream, declared>>
    BY DEF Open, given
  <1>6. TypeOK'
    BY <1>2, <1>4, <1>5, FilesClosed, Typing DEF Shape, TypeOK, given
  <1>7. f # r => temp[Name(r)] = f /\ task[f].file = f /\ Born(f)
    BY <1>2, Typing DEF Shape, NamesFit, TasksFit
  <1>8. \A q \in Requests : Born(q) => q # r /\ Born(q)'
    BY <1>4, <1>5 DEF Born, At, Others
  <1>9. /\ \A q \in Requests : Name(q)' = Name(q)
        /\ Born(r)'
        /\ task'[f].pc \notin {"idle", "asking"}
    <2>1. \A q \in Requests : Name(q)' = Name(q)
      BY <1>5 DEF Name
    <2>2. Born(r)'
      BY <1>3, <1>4 DEF Born
    <2>3. CASE f # r
      BY <2>1, <2>2, <2>3, <1>7, <1>8, <1>2 DEF Born
    <2>4. QED
      BY <2>1, <2>2, <2>3 DEF Born
  <1>10. TasksFit'
    <2>1. ASSUME NEW q \in Requests \ {r}
          PROVE  /\ ~Born(q)' => task'[q].file = None /\ task'[q].sent = None
                 /\ At(q, "writing")' =>
                       /\ task'[q].file \in Requests /\ task'[q].sent \in Contents
                       /\ Name(task[q].file)' = Name(q)'
                 /\ At(q, "accepted")' =>
                       /\ task'[q].file \in Requests /\ task'[q].digest \in Files
                       /\ Accepts(task[q].digest)'
                 /\ task'[q].file # None => Born(task[q].file)'
      <3>1. q \in Requests /\ task'[q].file = task[q].file /\ task'[q].sent = task[q].sent
            /\ task'[q].pc = task[q].pc /\ task'[q].digest = task[q].digest
        BY <1>4 DEF Others
      <3>2. task[q].file \in Requests \cup {None}
        BY <3>1, Typing DEF Shape, Task
      <3>3. task'[q].file # None => Born(task[q].file)'
        BY <3>1, <3>2, <1>8 DEF Shape, TasksFit, Born
      <3>4. QED
        BY <3>1, <3>2, <3>3, <1>5, <1>9 DEF Shape, TasksFit, Born, At, Accepts
    <2>2. /\ Born(r)' /\ task'[r].pc = "writing" /\ task'[r].file = f /\ task'[r].sent = c
          /\ Name(task[r].file)' = Name(r)' /\ Born(task[r].file)'
      BY <1>2, <1>3, <1>4, <1>9 DEF Born
    <2>3. QED
      BY <2>1, <2>2, <1>2 DEF TasksFit, At
  <1>11. NamesFit'
    <2>1. held' # None => Born(held)'
      BY <1>5, <1>8, Typing DEF Shape, NamesFit
    <2>2. ASSUME NEW n \in Names, temp'[n] # None
          PROVE  /\ Name(temp[n])' = n
                 /\ task'[temp'[n]].file = temp'[n]
                 /\ \/ At(temp[n], "writing")' \/ At(temp[n], "lost")'
                    \/ n = "part" /\ At(temp[n], "failed")'
                 /\ temp'[n] # held'
                 /\ \A q \in Requests : At(q, "accepted")' => task'[q].file # temp'[n]
      <3>1. CASE n = Name(r) /\ f = r
        <4>1. temp'[n] = r /\ task'[r].file = r /\ At(r, "writing")'
          BY <3>1, <1>3, <1>4, <1>5 DEF Shape, TypeOK, At
        <4>2. Name(r)' = n /\ ~Born(r)
          BY <3>1, <1>5, <1>9 DEF Born, At
        <4>3. held' # r
          BY <4>2, <1>5, Typing DEF Shape, NamesFit
        <4>4. \A q \in Requests : At(q, "accepted")' => task'[q].file # r
          <5> SUFFICES ASSUME NEW q \in Requests, At(q, "accepted")'
                       PROVE  task'[q].file # r
            OBVIOUS
          <5>1. q # r /\ task'[q].file = task[q].file
            BY <1>3, <1>4 DEF At, Others
          <5>2. QED
            BY <5>1, <4>2, Typing DEF Shape, TasksFit
        <4>5. QED
          BY <4>1, <4>2, <4>3, <4>4 DEF At, Name
      <3>2. CASE n # Name(r) \/ f # r
        <4>1. temp'[n] = temp[n] /\ temp[n] \in Requests /\ temp[n] # r
          BY <3>2, <2>2, <1>2, <1>5, <1>7, Typing DEF Shape, TypeOK, NamesFit, TasksFit, Born, At
        <4>2. QED
          <5>1. /\ Name(temp[n]) = n /\ task'[temp[n]].file = temp[n]
                /\ task'[temp[n]].pc = task[temp[n]].pc
            BY <4>1, <2>2, <1>4, Typing DEF Shape, NamesFit, Others
          <5>2. \A q \in Requests : At(q, "accepted")' => task'[q].file # temp[n]
            <6> SUFFICES ASSUME NEW q \in Requests, At(q, "accepted")'
                         PROVE  task'[q].file # temp[n]
              OBVIOUS
            <6>1. q # r /\ task'[q].file = task[q].file /\ At(q, "accepted")
              BY <1>3, <1>4 DEF At, Others
            <6>2. QED
              BY <6>1, <4>1, <2>2, Typing DEF Shape, NamesFit
          <5>3. QED
            BY <4>1, <5>1, <5>2, <2>2, <1>5, Typing DEF Shape, NamesFit, At, Name
      <3>3. QED
        BY <3>1, <3>2
    <2>3. QED
      BY <2>1, <2>2 DEF NamesFit
  <1>12. QED
    BY <1>6, <1>10, <1>11 DEF Shape

LEMMA WriteShape ==
  ASSUME Shape, NEW r \in Requests, Write(r)
  PROVE  /\ Shape'
         /\ task'[r] = [task[r] EXCEPT !.written = @ + 1]
         /\ Others(r)
  <1> DEFINE t == [task[r] EXCEPT !.written = task[r].written + 1]
             f == task[r].file
             k == task[r].written + 1
  <1>1. t \in Task /\ f \in Requests /\ k \in Offsets /\ task[r].sent \in Contents
    BY DownloadAssumption
       DEF DownloadAssumption, Write, Shape, TypeOK, Task, TasksFit, Offsets
  <1>2. \A q \in Requests : task'[q] =
           CASE q = r -> t
             [] q # r /\ task[q].file = f /\ At(q, "writing") /\ task[q].sent # task[r].sent ->
                   [task[q] EXCEPT !.disturbed = TRUE]
             [] OTHER -> task[q]
    BY DEF Write
  <1>3. \A q \in Requests : task[q] \in Task
    BY DEF Shape, TypeOK
  <1>4. \A q \in Requests \ {r} :
           task'[q] = [task[q] EXCEPT !.disturbed = TRUE] \/ task'[q] = task[q]
    BY <1>2
  <1>5. Others(r) /\ task'[r] = t
    BY <1>2, <1>3, <1>4 DEF Others, Task
  <1>6. \A q \in Requests : task'[q] \in Task
    <2>1. \A q \in Requests \ {r} : [task[q] EXCEPT !.disturbed = TRUE] \in Task
      BY <1>3 DEF Task
    <2>2. QED
      BY <2>1, <1>1, <1>3, <1>4, <1>5
  <1>7. task' \in [Requests -> Task]
    BY <1>6 DEF Write
  <1>8. data' \in [Requests -> Files]
    BY <1>1, FilesClosed DEF Shape, TypeOK, Write
  <1>9. TypeOK'
    BY <1>7, <1>8 DEF Shape, TypeOK, Write, given
  <1>10. \A q \in Requests :
            /\ task'[q].pc = task[q].pc /\ task'[q].file = task[q].file
            /\ task'[q].sent = task[q].sent /\ task'[q].digest = task[q].digest
    BY <1>3, <1>5 DEF Others, Task
  <1>11. UNCHANGED <<legacy, declared, temp, held>>
    BY DEF Write, given
  <1>12. /\ \A q \in Requests : Born(q)' = Born(q) /\ Name(q)' = Name(q)
         /\ \A q \in Requests : \A pc \in STRING : (task'[q].pc = pc) = (task[q].pc = pc)
    BY <1>10, <1>11 DEF Born, Name
  <1>13. TasksFit'
    <2> SUFFICES ASSUME NEW q \in Requests
                 PROVE  /\ ~Born(q)' => task'[q].file = None /\ task'[q].sent = None
                        /\ At(q, "writing")' =>
                              /\ task'[q].file \in Requests /\ task'[q].sent \in Contents
                              /\ Name(task[q].file)' = Name(q)'
                        /\ At(q, "accepted")' =>
                              /\ task'[q].file \in Requests /\ task'[q].digest \in Files
                              /\ Accepts(task[q].digest)'
                        /\ task'[q].file # None => Born(task[q].file)'
      BY DEF TasksFit
    <2> QED
      BY <1>10, <1>11, <1>12, Typing DEF Shape, TasksFit, At, Accepts, Name, Born
  <1>14. NamesFit'
    <2>1. held' # None => Born(held)'
      BY <1>10, <1>11, Typing DEF Shape, NamesFit, Born
    <2>2. ASSUME NEW n \in Names, temp'[n] # None
          PROVE  /\ Name(temp[n])' = n
                 /\ task'[temp'[n]].file = temp'[n]
                 /\ \/ At(temp[n], "writing")' \/ At(temp[n], "lost")'
                    \/ n = "part" /\ At(temp[n], "failed")'
                 /\ temp'[n] # held'
                 /\ \A q \in Requests : At(q, "accepted")' => task'[q].file # temp'[n]
      <3>1. temp'[n] = temp[n] /\ temp[n] \in Requests /\ held' = held
        BY <2>2, <1>11 DEF Shape, TypeOK
      <3>2. task'[temp[n]].file = task[temp[n]].file /\ task'[temp[n]].pc = task[temp[n]].pc
        BY <3>1, <1>10
      <3>3. QED
        BY <3>1, <3>2, <2>2, <1>10, <1>11 DEF Shape, NamesFit, At, Name
    <2>3. QED
      BY <2>1, <2>2 DEF NamesFit
  <1>15. QED
    BY <1>5, <1>9, <1>13, <1>14 DEF Shape

\* A request that ends: whatever it published has left its temporary name.
LEMMA EndShape ==
  ASSUME Shape, NEW r \in Requests, task[r].pc \in Fetching, NEW t \in Task,
         task' \in [Requests -> Task], task'[r] = t, Others(r),
         t.pc \in Endings,
         t.pc = "accepted" =>
            /\ t.file \in Requests /\ t.digest \in Files /\ Accepts(t.digest)
            /\ \A n \in Names : temp'[n] # t.file,
         t.file # task[r].file => Born(t.file),
         UNCHANGED <<given, data>>,
         \A n \in Names : temp'[n] \in {temp[n], None},
         temp' \in [Names -> Requests \cup {None}],
         held' \in Requests \cup {None},
         held' # None /\ held' # held => Born(held') /\ \A n \in Names : temp'[n] # held',
         \A n \in Names : temp'[n] = r => n = "part" /\ t.pc = "failed" /\ t.file = task[r].file
  PROVE  Shape'
  <1>1. TypeOK'
    BY DEF Shape, TypeOK, given
  <1>2. TasksFit'
    BY Typing DEF Shape, TasksFit, given, Born, At, Others, Name, Accepts, Fetching, Endings, Task
  <1>3. NamesFit'
    BY Typing DEF Shape, NamesFit, given, Born, At, Others, Name, Fetching, Endings, Task
  <1>4. QED
    BY <1>1, <1>2, <1>3 DEF Shape

LEMMA BreakShape ==
  ASSUME Shape, NEW r \in Requests, Break(r)
  PROVE  Shape'
  <1>1. /\ task[r].pc = "writing" /\ temp[Name(r)] = None
        /\ UNCHANGED <<given, data, temp, held>>
        /\ task' = [task EXCEPT ![r] = End(r, "broken")]
    BY DEF Break, Complete, At, End
  <1>2. End(r, "broken") \in Task /\ End(r, "broken").pc = "broken"
        /\ End(r, "broken").file = task[r].file
    BY DEF Shape, TypeOK, Task, Endings, End
  <1>3. task' \in [Requests -> Task] /\ task'[r] = End(r, "broken") /\ Others(r)
    BY <1>1, <1>2, TaskMoves DEF Shape
  <1>4. \A n \in Names : temp'[n] # r
    BY <1>1, Typing DEF Shape, NamesFit
  <1>5. temp' \in [Names -> Requests \cup {None}] /\ held' \in Requests \cup {None}
    BY <1>1 DEF Shape, TypeOK
  <1>6. QED
    BY <1>1, <1>2, <1>3, <1>4, <1>5, EndShape DEF Fetching, Endings

LEMMA FailShape ==
  ASSUME Shape, NEW r \in Requests, Fail(r)
  PROVE  Shape'
  <1> DEFINE t == End(r, "failed")
  <1>1. t \in Task /\ t.pc = "failed" /\ t.file = task[r].file
    BY DEF Shape, TypeOK, Task, Endings, End
  <1>2. /\ task[r].pc \in Fetching /\ UNCHANGED <<given, data, held>>
        /\ Seize(r, t) \/ task' = [task EXCEPT ![r] = t]
    BY DEF Fail, End
  <1>3. task' \in [Requests -> Task] /\ task'[r] = t /\ Others(r)
    BY <1>1, <1>2, TaskMoves DEF Shape
  <1>4. \/ temp' = [temp EXCEPT ![Name(r)] = None]
        \/ temp' = temp /\ Name(r) = "part"
    BY DEF Fail, Name
  <1>5. temp' \in [Names -> Requests \cup {None}]
        /\ \A n \in Names : temp'[n] \in {temp[n], None}
    BY <1>4 DEF Shape, TypeOK
  <1>6. \A n \in Names : temp'[n] = r => n = "part"
    BY <1>4, <1>5, Typing DEF Shape, TypeOK, NamesFit
  <1>7. held' \in Requests \cup {None}
    BY <1>2 DEF Shape, TypeOK
  <1>8. QED
    BY <1>1, <1>2, <1>3, <1>5, <1>6, <1>7, EndShape DEF Endings

\* What a request publishes, or refuses: its name is free afterwards.
LEMMA PublishedShape ==
  ASSUME Shape, NEW r \in Requests, Complete(r), NEW f \in Requests, temp[Name(r)] = f,
         temp' = [temp EXCEPT ![Name(r)] = None], held' \in {held, f},
         UNCHANGED <<given, data>>,
         \/ Seize(r, End(r, "rejected"))
         \/ /\ Accepts(data[f])
            /\ Seize(r, [End(r, "accepted") EXCEPT !.file = f, !.digest = data[f]])
  PROVE  /\ Shape' /\ Others(r)
         /\ \/ task'[r] = End(r, "rejected")
            \/ /\ Accepts(data[f])
               /\ task'[r] = [End(r, "accepted") EXCEPT !.file = f, !.digest = data[f]]
  <1>1. temp' \in [Names -> Requests \cup {None}]
        /\ \A n \in Names : temp'[n] \in {temp[n], None}
    BY DEF Shape, TypeOK
  <1>2. \A n \in Names : temp'[n] # f /\ temp'[n] # r
    BY <1>1, Typing DEF Shape, TypeOK, NamesFit
  <1>3. Born(f) /\ held' \in Requests \cup {None} /\ data[f] \in Files
    BY Typing DEF Shape, TypeOK, NamesFit, Born, At
  <1>4. task[r].pc \in Fetching
    BY DEF Complete, At, Fetching
  <1>5. CASE Seize(r, End(r, "rejected"))
    <2>1. End(r, "rejected") \in Task /\ End(r, "rejected").pc = "rejected"
          /\ End(r, "rejected").file = task[r].file
      BY DEF Shape, TypeOK, Task, Endings, End
    <2>2. task' \in [Requests -> Task] /\ task'[r] = End(r, "rejected") /\ Others(r)
      BY <1>5, <2>1, TaskMoves DEF Shape
    <2>3. Shape'
      BY <1>1, <1>2, <1>3, <1>4, <2>1, <2>2, EndShape DEF Endings
    <2>4. QED
      BY <2>2, <2>3
  <1>6. CASE /\ Accepts(data[f])
             /\ Seize(r, [End(r, "accepted") EXCEPT !.file = f, !.digest = data[f]])
    <2> DEFINE t == [End(r, "accepted") EXCEPT !.file = f, !.digest = data[f]]
    <2>1. t \in Task /\ t.pc = "accepted" /\ t.file = f /\ t.digest = data[f]
      BY <1>3 DEF Shape, TypeOK, Task, Endings, End
    <2>2. task' \in [Requests -> Task] /\ task'[r] = t /\ Others(r)
      BY <1>6, <2>1, TaskMoves DEF Shape
    <2> HIDE DEF t
    <2>3. /\ t.pc \in Endings /\ Accepts(t.digest) /\ Born(t.file)
          /\ t.file \in Requests /\ t.digest \in Files
          /\ \A n \in Names : temp'[n] # t.file /\ temp'[n] # r
          /\ held' # held => held' = t.file
      BY <1>2, <1>3, <1>6, <2>1 DEF Endings
    <2>5. Shape'
      BY <1>1, <1>3, <1>4, <2>1, <2>2, <2>3, EndShape
    <2>4. QED
      BY <1>6, <2>2, <2>5 DEF t
  <1>7. QED
    BY <1>5, <1>6

LEMMA CrashShape ==
  ASSUME Shape, Crash
  PROVE  /\ Shape'
         /\ \A r \in Requests :
               /\ task'[r].file = task[r].file /\ task'[r].sent = task[r].sent
               /\ task'[r].digest = task[r].digest /\ task'[r].disturbed = task[r].disturbed
               /\ task'[r].written = task[r].written
               /\ task'[r].pc = IF task[r].pc \in Fetching THEN "lost" ELSE task[r].pc
  <1>1. \A r \in Requests :
           /\ task'[r].file = task[r].file /\ task'[r].sent = task[r].sent
           /\ task'[r].digest = task[r].digest /\ task'[r].disturbed = task[r].disturbed
           /\ task'[r].written = task[r].written
           /\ task'[r].pc = IF task[r].pc \in Fetching THEN "lost" ELSE task[r].pc
           /\ task'[r] \in Task
    BY DEF Crash, End, Shape, TypeOK, Task, Endings
  <1>2. UNCHANGED <<legacy, upstream, declared, data, temp, held>>
    BY DEF Crash, given
  <1>3. TypeOK'
    BY <1>1, <1>2 DEF Crash, Shape, TypeOK
  <1>4. \A r \in Requests : Name(r)' = Name(r) /\ (Born(r) => Born(r)')
    BY <1>1, <1>2 DEF Name, Born, Fetching
  <1>5. TasksFit'
    BY <1>1, <1>2, <1>4, Typing DEF Shape, TasksFit, Born, At, Fetching, Accepts
  <1>6. NamesFit'
    <2>1. held' # None => Born(held)'
      <3>1. held # None => held \in Requests /\ task[held].pc \notin {"idle", "asking"}
        BY DEF Shape, TypeOK, NamesFit, Born
      <3>3. held # None => task'[held].pc \notin {"idle", "asking"}
        BY <3>1, <1>1
      <3>2. QED
        BY <3>3, <1>2 DEF Born
    <2>2. \A r \in Requests : At(r, "accepted")' => At(r, "accepted")
      BY <1>1 DEF At
    <2>3. ASSUME NEW n \in Names, temp'[n] # None
          PROVE  /\ Name(temp[n])' = n
                 /\ task'[temp'[n]].file = temp'[n]
                 /\ \/ At(temp[n], "writing")' \/ At(temp[n], "lost")'
                    \/ n = "part" /\ At(temp[n], "failed")'
                 /\ temp'[n] # held'
                 /\ \A q \in Requests : At(q, "accepted")' => task'[q].file # temp'[n]
      <3>1. temp'[n] = temp[n] /\ temp[n] \in Requests /\ held' = held
        BY <2>3, <1>2 DEF Shape, TypeOK
      <3>2. \/ task'[temp[n]].pc = "lost"
            \/ n = "part" /\ task'[temp[n]].pc = "failed"
        BY <3>1, <2>3, <1>1 DEF Shape, NamesFit, At, Fetching
      <3>3. QED
        BY <3>1, <3>2, <2>2, <2>3, <1>1, <1>2 DEF Shape, NamesFit, At, Name
    <2>4. QED
      BY <2>1, <2>3 DEF NamesFit
  <1>7. QED
    BY <1>1, <1>3, <1>5, <1>6 DEF Shape

\* What the steps that publish come to: Publish for a request of the common
\* client, PublishLegacy for one of the legacy client.
LEMMA PublishCases ==
  ASSUME Shape, NEW r \in Requests, Publish(r) \/ PublishLegacy(r)
  PROVE  LET f == temp[Name(r)]
         IN  /\ f \in Requests /\ Complete(r)
             /\ temp' = [temp EXCEPT ![Name(r)] = None]
             /\ UNCHANGED <<given, data>>
             /\ \/ /\ Accepts(data[f]) /\ held' = f
                   /\ Seize(r, [End(r, "accepted") EXCEPT !.file = f, !.digest = data[f]])
                \/ /\ ~Accepts(data[f]) /\ held' = (IF r \in legacy THEN held ELSE f)
                   /\ Seize(r, End(r, "rejected"))
  <1>1. temp[Name(r)] \in Requests \cup {None}
    BY Typing DEF Shape
  <1>2. CASE Publish(r)
    BY <1>1, <1>2 DEF Publish, Name
  <1>3. CASE PublishLegacy(r)
    BY <1>1, <1>3 DEF PublishLegacy, Name
  <1>4. QED
    BY <1>2, <1>3

LEMMA NextShape ==
  ASSUME Shape, [Next]_vars
  PROVE  Shape'
  <1>1. CASE UNCHANGED vars
    BY <1>1 DEF vars, given, Shape, TypeOK, TasksFit, NamesFit, Born, At, Name, Accepts
  <1>2. ASSUME NEW r \in Requests, Publish(r) \/ PublishLegacy(r)
        PROVE  Shape'
    <2>1. PICK f \in Requests :
             /\ temp[Name(r)] = f /\ Complete(r) /\ held' \in {held, f}
             /\ temp' = [temp EXCEPT ![Name(r)] = None]
             /\ UNCHANGED <<given, data>>
             /\ \/ Seize(r, End(r, "rejected"))
                \/ /\ Accepts(data[f])
                   /\ Seize(r, [End(r, "accepted") EXCEPT !.file = f, !.digest = data[f]])
      BY <1>2, PublishCases
    <2>2. QED
      BY <2>1, PublishedShape
  <1>3. QED
    BY <1>1, <1>2, BeginShape, OpenShape, WriteShape, BreakShape, FailShape, CrashShape
       DEF Next, Step

LEMMA ShapeInvariant == Spec => []Shape
  <1>1. Init => Shape
    BY InitShape
  <1>2. Shape /\ [Next]_vars => Shape'
    BY NextShape
  <1>3. QED
    BY <1>1, <1>2, PTL DEF Spec

-----------------------------------------------------------------------------
(* Type correctness, and who may leave a temporary file behind.            *)

\* Every file, name and task is of its type: above all, no request writes
\* past the length of a body.
THEOREM TypeCorrect == Spec => []TypeOK
  <1>1. Shape => TypeOK
    BY DEF Shape
  <1>2. QED
    BY <1>1, ShapeInvariant, PTL

\* A temporary file nobody writes is the leftover of a process that died or of
\* a legacy request whose upstream failed: of Fail's two disjuncts only the
\* second keeps the name.
THEOREM NothingLeftOver == Spec => []NoLeftover
  <1>1. ASSUME Shape PROVE NoLeftover
    BY <1>1 DEF Shape, TypeOK, NamesFit, NoLeftover
  <1>2. QED
    BY <1>1, ShapeInvariant, PTL

-----------------------------------------------------------------------------
(* What an undisturbed request is given.  As long as nobody interferes, its *)
(* temporary name refers to the file it writes, and that file holds what it *)
(* has been sent so far.                                                    *)

HasWritten(r) ==
    /\ temp[Name(r)] = task[r].file
    /\ \A k \in 1 .. task[r].written : data[task[r].file][k] = task[r].sent

Undisturbed ==
    \A r \in Requests :
        /\ ~Born(r) => task[r].written = 0
        /\ At(r, "writing") /\ ~task[r].disturbed => HasWritten(r)

LEMMA CompleteFile ==
  ASSUME Shape, Undisturbed, NEW r \in Requests, Complete(r), ~task[r].disturbed
  PROVE  temp[Name(r)] = task[r].file /\ data[task[r].file] = Whole(task[r].sent)
  <1>1. temp[Name(r)] = task[r].file /\ task[r].file \in Requests
        /\ \A k \in 1 .. Blocks : data[task[r].file][k] = task[r].sent
    BY DEF Undisturbed, HasWritten, Complete, Shape, TasksFit, At
  <1>2. data[task[r].file] \in Files
    BY <1>1, Typing DEF Shape
  <1>3. QED
    BY <1>1, <1>2 DEF Files, Whole, Offsets

\* A step of another request that neither takes the name of r nor writes its
\* file leaves what r has written alone.
LEMMA OpenUndisturbed ==
  ASSUME Shape, Shape', Undisturbed, UndisturbedGetsItsBytes, NEW r \in Requests, Open(r)
  PROVE  Undisturbed' /\ UndisturbedGetsItsBytes'
  <1> DEFINE f == IF temp[Name(r)] = None THEN r ELSE temp[Name(r)]
  <1>1. PICK c \in upstream :
           Seize(r, [task[r] EXCEPT !.pc = "writing", !.file = f, !.sent = c])
    BY DEF Open
  <1> DEFINE t == [task[r] EXCEPT !.pc = "writing", !.file = f, !.sent = c]
  <1>2. f \in Requests /\ c \in Contents /\ Name(f) = Name(r) /\ task[r] \in Task
    BY Typing DEF Shape, TypeOK, NamesFit
  <1>3. /\ t \in Task /\ t.pc = "writing" /\ t.file = f /\ t.sent = c
        /\ t.written = 0
    BY <1>2 DEF Shape, TypeOK, Task, Fetching, Open, At, Undisturbed, Born
  <1>4. task'[r] = t
    BY <1>1, <1>3, SeizeOthers DEF Shape
  <1>5. \A q \in Requests \ {r} :
           /\ task'[q].pc = task[q].pc /\ task'[q].file = task[q].file
           /\ task'[q].sent = task[q].sent /\ task'[q].written = task[q].written
           /\ task'[q].digest = task[q].digest
           /\ task'[q].disturbed = (task[q].disturbed \/ (Name(q) = Name(r) /\ At(q, "writing")))
    BY <1>1, <1>3, SeizeOthers DEF Shape
  <1>6. /\ data' = [data EXCEPT ![f] = Empty] /\ temp' = [temp EXCEPT ![Name(r)] = f]
        /\ UNCHANGED <<legacy, declared>>
    BY DEF Open, given
  <1> HIDE DEF f, t
  <1>7. Undisturbed'
    <2>1. ASSUME NEW q \in Requests \ {r}, At(q, "writing")', ~task'[q].disturbed
          PROVE  HasWritten(q)'
      <3>1. q \in Requests /\ At(q, "writing") /\ ~task[q].disturbed /\ Name(q) # Name(r)
        BY <2>1, <1>5 DEF At
      <3>2. HasWritten(q) /\ task[q].file \in Requests /\ task[q].file # f
        BY <3>1, <1>2 DEF Undisturbed, Shape, TasksFit
      <3>3. temp'[Name(q)] = temp[Name(q)] /\ data'[task[q].file] = data[task[q].file]
        BY <3>1, <3>2, <1>6, <1>2, Typing DEF Shape, TypeOK
      <3>4. QED
        BY <3>1, <3>2, <3>3, <1>5, <1>6 DEF HasWritten, Name
    <2>2. HasWritten(r)'
      BY <1>3, <1>4, <1>6, Typing DEF HasWritten, Name, Shape, TypeOK
    <2>3. \A q \in Requests : ~Born(q)' => task'[q].written = 0
      BY <1>3, <1>4, <1>5 DEF Undisturbed, Born
    <2>4. QED
      BY <2>1, <2>2, <2>3 DEF Undisturbed
  <1>8. UndisturbedGetsItsBytes'
    BY <1>3, <1>4, <1>5, <1>6 DEF UndisturbedGetsItsBytes, At
  <1>9. QED
    BY <1>7, <1>8

LEMMA WriteUndisturbed ==
  ASSUME Shape, Shape', Undisturbed, UndisturbedGetsItsBytes, NEW r \in Requests, Write(r)
  PROVE  Undisturbed' /\ UndisturbedGetsItsBytes'
  <1> DEFINE f == task[r].file
             k == task[r].written + 1
  <1>1. /\ f \in Requests /\ k \in Offsets /\ task[r].sent \in Contents
        /\ task[r].written \in 0 .. Blocks /\ Blocks \in Nat
        /\ data[f] \in Files
    BY DownloadAssumption
       DEF DownloadAssumption, Write, At, Shape, TypeOK, Task, TasksFit, Offsets
  <1>2. \A q \in Requests :
           /\ task'[q].pc = task[q].pc /\ task'[q].file = task[q].file
           /\ task'[q].sent = task[q].sent /\ task'[q].digest = task[q].digest
           /\ q # r => task'[q].written = task[q].written
           /\ task[q].disturbed => task'[q].disturbed
    BY WriteShape DEF Others, Shape, TypeOK, Task
  <1>3. task'[r].written = k
    BY WriteShape DEF Shape, TypeOK, Task
  <1>4. \A q \in Requests \ {r} :
           task[q].file = f /\ At(q, "writing") /\ task[q].sent # task[r].sent
              => task'[q].disturbed
    <2>1. \A q \in Requests : task[q] \in Task
      BY DEF Shape, TypeOK
    <2>2. \A q \in Requests \ {r} :
             task[q].file = f /\ At(q, "writing") /\ task[q].sent # task[r].sent
                => task'[q] = [task[q] EXCEPT !.disturbed = TRUE]
      BY DEF Write
    <2>3. QED
      BY <2>1, <2>2 DEF Task
  <1>5. /\ data'[f][k] = task[r].sent
        /\ \A j \in Offsets \ {k} : data'[f][j] = data[f][j]
        /\ \A g \in Requests \ {f} : data'[g] = data[g]
    BY <1>1 DEF Write, Shape, TypeOK, Files
  <1>6. UNCHANGED <<legacy, declared, temp>>
    BY DEF Write, given
  <1> HIDE DEF f, k
  <1>7. Undisturbed'
    <2>1. ASSUME NEW q \in Requests, At(q, "writing")', ~task'[q].disturbed
          PROVE  HasWritten(q)'
      <3>1. At(q, "writing") /\ ~task[q].disturbed /\ HasWritten(q)
        BY <2>1, <1>2 DEF At, Undisturbed
      <3>2. task[q].written \in 0 .. Blocks /\ task[q].file \in Requests
        BY <3>1 DEF Shape, TypeOK, Task, TasksFit
      <3>3. \A j \in 1 .. task[q].written : data'[task[q].file][j] = task[q].sent
        <4>1. CASE task[q].file # f
          <5>1. data'[task[q].file] = data[task[q].file]
            BY <4>1, <3>2, <1>5
          <5>2. QED
            BY <5>1, <3>1 DEF HasWritten
        <4>2. CASE task[q].file = f
          <5>1. task[q].sent = task[r].sent
            BY <4>2, <2>1, <3>1, <1>4
          <5>2. \A j \in 1 .. task[q].written : j \in Offsets /\ data[f][j] = task[q].sent
            BY <4>2, <3>1, <3>2, <1>1 DEF HasWritten, Offsets
          <5>3. QED
            BY <4>2, <5>1, <5>2, <1>5
        <4>3. QED
          BY <4>1, <4>2
      <3>4. \A j \in 1 .. task'[q].written : data'[task[q].file][j] = task[q].sent
        <4>1. CASE q # r
          BY <4>1, <3>3, <1>2
        <4>2. CASE q = r
          BY <4>2, <3>3, <1>1, <1>3, <1>5 DEF f, k
        <4>3. QED
          BY <4>1, <4>2
      <3>5. QED
        BY <3>1, <3>4, <1>2, <1>6 DEF HasWritten, Name
    <2>2. \A q \in Requests : ~Born(q)' => task'[q].written = 0
      BY <1>2 DEF Undisturbed, Born, Write, At
    <2>3. QED
      BY <2>1, <2>2 DEF Undisturbed
  <1>8. UndisturbedGetsItsBytes'
    BY <1>2, <1>6 DEF UndisturbedGetsItsBytes, At
  <1>9. QED
    BY <1>7, <1>8

\* A request that ends disturbs those that write under its name, if it touches
\* the name at all, and leaves every file as it is.
LEMMA EndUndisturbed ==
  ASSUME Shape, Undisturbed, UndisturbedGetsItsBytes, NEW r \in Requests, NEW t \in Task,
         task[r].pc \in Fetching, t.pc \in Endings,
         UNCHANGED <<given, data>>,
         \/ Seize(r, t) /\ temp' = [temp EXCEPT ![Name(r)] = None]
         \/ task' = [task EXCEPT ![r] = t] /\ UNCHANGED temp,
         /\ t.sent # None /\ ~t.disturbed
            => /\ t.pc # "broken"
               /\ t.pc = "accepted" => t.digest = Whole(t.sent)
               /\ t.pc = "rejected" => declared \notin {None, t.sent}
  PROVE  Undisturbed' /\ UndisturbedGetsItsBytes'
  <1>1. task'[r] = t
    BY SeizeOthers DEF Shape, TypeOK
  <1>2. \A q \in Requests \ {r} :
           /\ task'[q].pc = task[q].pc /\ task'[q].file = task[q].file
           /\ task'[q].sent = task[q].sent /\ task'[q].written = task[q].written
           /\ task'[q].digest = task[q].digest
           /\ task[q].disturbed => task'[q].disturbed
           /\ At(q, "writing") /\ ~task'[q].disturbed => temp'[Name(q)] = temp[Name(q)]
    <2>1. CASE Seize(r, t) /\ temp' = [temp EXCEPT ![Name(r)] = None]
      BY <2>1, SeizeOthers, Typing DEF Shape, TypeOK
    <2>2. CASE task' = [task EXCEPT ![r] = t] /\ UNCHANGED temp
      BY <2>2 DEF Shape, TypeOK
    <2>3. QED
      BY <2>1, <2>2
  <1>3. UNCHANGED <<legacy, declared, data>>
    BY DEF given
  <1>4. ASSUME NEW q \in Requests, At(q, "writing")', ~task'[q].disturbed
        PROVE  HasWritten(q)'
    <2>1. q # r /\ At(q, "writing") /\ ~task[q].disturbed
      BY <1>4, <1>1, <1>2 DEF At, Endings
    <2>2. HasWritten(q) /\ temp'[Name(q)] = temp[Name(q)]
      BY <2>1, <1>4, <1>2 DEF Undisturbed
    <2>3. QED
      BY <2>1, <2>2, <1>2, <1>3 DEF HasWritten, Name
  <1>5. \A q \in Requests : ~Born(q)' => task'[q].written = 0
    BY <1>1, <1>2 DEF Undisturbed, Born, Endings
  <1>6. Undisturbed'
    BY <1>4, <1>5 DEF Undisturbed
  <1>7. UndisturbedGetsItsBytes'
    BY <1>1, <1>2, <1>3 DEF UndisturbedGetsItsBytes, At
  <1>8. QED
    BY <1>6, <1>7

LEMMA BeginUndisturbed ==
  ASSUME Shape, Undisturbed, UndisturbedGetsItsBytes, NEW r \in Requests, Begin(r)
  PROVE  Undisturbed' /\ UndisturbedGetsItsBytes'
  <1>1. /\ task[r].pc = "idle" /\ task[r].sent = None /\ task[r].written = 0
        /\ UNCHANGED <<legacy, declared, data, temp>>
    BY DEF Begin, At, Shape, TasksFit, Undisturbed, Born, given
  <1>2. /\ \A q \in Requests \ {r} : task'[q] = task[q]
        /\ task'[r].pc \in {"asking", "accepted"}
        /\ task'[r].sent = None /\ task'[r].written = 0
    <2>1. task[r] \in Task
      BY DEF Shape, TypeOK
    <2>2. CASE task' = [task EXCEPT ![r].pc = "asking"]
      BY <2>1, <2>2, <1>1 DEF Shape, TypeOK, Task
    <2>3. CASE task' = [task EXCEPT ![r] =
                  [Idle EXCEPT !.pc = "accepted", !.file = held, !.digest = data[held]]]
      BY <2>3 DEF Shape, TypeOK, Idle
    <2>4. QED
      BY <2>2, <2>3 DEF Begin
  <1>3. Undisturbed'
    <2>1. ASSUME NEW q \in Requests, At(q, "writing")', ~task'[q].disturbed
          PROVE  HasWritten(q)'
      <3>1. q # r /\ task'[q] = task[q] /\ HasWritten(q)
        BY <2>1, <1>2 DEF At, Undisturbed
      <3>2. QED
        BY <3>1, <1>1 DEF HasWritten, Name
    <2>2. \A q \in Requests : ~Born(q)' => task'[q].written = 0
      BY <1>2 DEF Undisturbed, Born
    <2>3. QED
      BY <2>1, <2>2 DEF Undisturbed
  <1>4. UndisturbedGetsItsBytes'
    BY <1>1, <1>2 DEF UndisturbedGetsItsBytes, At
  <1>5. QED
    BY <1>3, <1>4

LEMMA NextUndisturbed ==
  ASSUME Shape, Undisturbed, UndisturbedGetsItsBytes, [Next]_vars
  PROVE  Undisturbed' /\ UndisturbedGetsItsBytes'
  <1>1. CASE UNCHANGED vars
    BY <1>1 DEF vars, given, Undisturbed, UndisturbedGetsItsBytes, HasWritten, Born, At, Name
  <1>2. ASSUME NEW r \in Requests, Publish(r) \/ PublishLegacy(r)
        PROVE  Undisturbed' /\ UndisturbedGetsItsBytes'
    <2> DEFINE f == temp[Name(r)]
    <2>1. /\ f \in Requests /\ Complete(r) /\ UNCHANGED <<given, data>>
          /\ temp' = [temp EXCEPT ![Name(r)] = None]
          /\ \/ /\ Accepts(data[f])
                /\ Seize(r, [End(r, "accepted") EXCEPT !.file = f, !.digest = data[f]])
             \/ ~Accepts(data[f]) /\ Seize(r, End(r, "rejected"))
      BY <1>2, PublishCases
    <2> HIDE DEF f
    <2>2. task[r].pc \in Fetching /\ task[r] \in Task /\ data[f] \in Files
      BY <2>1 DEF Complete, At, Fetching, Shape, TypeOK
    <2>3. ~task[r].disturbed => data[f] = Whole(task[r].sent)
      BY <2>1, CompleteFile DEF f
    <2>4. CASE Accepts(data[f]) /\ Seize(r, [End(r, "accepted") EXCEPT !.file = f, !.digest = data[f]])
      <3> DEFINE t == [End(r, "accepted") EXCEPT !.file = f, !.digest = data[f]]
      <3>1. /\ t \in Task /\ t.pc = "accepted" /\ t.digest = data[f]
            /\ t.sent = task[r].sent /\ t.disturbed = task[r].disturbed
        BY <2>1, <2>2 DEF Task, End, Endings
      <3> HIDE DEF t
      <3>2. Seize(r, t) /\ t.pc \in Endings
        BY <2>4, <3>1 DEF t, Endings
      <3>3. t.sent # None /\ ~t.disturbed => t.digest = Whole(t.sent)
        BY <2>3, <3>1
      <3>4. QED
        BY <2>1, <2>2, <3>1, <3>2, <3>3, EndUndisturbed
    <2>5. CASE ~Accepts(data[f]) /\ Seize(r, End(r, "rejected"))
      <3> DEFINE t == End(r, "rejected")
      <3>1. /\ t \in Task /\ t.pc = "rejected"
            /\ t.sent = task[r].sent /\ t.disturbed = task[r].disturbed
        BY <2>2 DEF Task, End, Endings
      <3> HIDE DEF t
      <3>2. Seize(r, t) /\ t.pc \in Endings
        BY <2>5, <3>1 DEF t, Endings
      <3>3. t.sent # None /\ ~t.disturbed => declared \notin {None, t.sent}
        BY <2>3, <2>5, <3>1 DEF Accepts
      <3>4. QED
        BY <2>1, <2>2, <3>1, <3>2, <3>3, EndUndisturbed
    <2>6. QED
      BY <2>1, <2>4, <2>5
  <1>3. ASSUME NEW r \in Requests, Break(r)
        PROVE  Undisturbed' /\ UndisturbedGetsItsBytes'
    <2> DEFINE t == End(r, "broken")
    <2>1. /\ t \in Task /\ t.pc = "broken" /\ t.disturbed = task[r].disturbed
          /\ task' = [task EXCEPT ![r] = t]
      BY <1>3 DEF Task, End, Endings, Break, Shape, TypeOK
    <2>2. /\ Complete(r) /\ temp[Name(r)] = None /\ UNCHANGED <<given, data, temp>>
          /\ task[r].pc \in Fetching /\ task[r].file \in Requests
      BY <1>3 DEF Break, Complete, At, Fetching, Shape, TasksFit
    <2>3. task[r].disturbed
      BY <2>2, CompleteFile, Typing DEF Shape, TypeOK, Task
    <2> HIDE DEF t
    <2>4. QED
      BY <2>1, <2>2, <2>3, EndUndisturbed DEF Endings
  <1>4. ASSUME NEW r \in Requests, Fail(r)
        PROVE  Undisturbed' /\ UndisturbedGetsItsBytes'
    <2> DEFINE t == End(r, "failed")
    <2>1. t \in Task /\ t.pc = "failed"
      BY DEF Task, End, Endings, Shape, TypeOK
    <2>2. /\ task[r].pc \in Fetching /\ UNCHANGED <<given, data>>
          /\ \/ Seize(r, t) /\ temp' = [temp EXCEPT ![Name(r)] = None]
             \/ task' = [task EXCEPT ![r] = t] /\ UNCHANGED temp
      BY <1>4 DEF Fail, End
    <2> HIDE DEF t
    <2>3. QED
      BY <2>1, <2>2, EndUndisturbed DEF Endings
  <1>5. ASSUME Crash PROVE Undisturbed' /\ UndisturbedGetsItsBytes'
    <2>1. \A r \in Requests :
             /\ task'[r].sent = task[r].sent /\ task'[r].digest = task[r].digest
             /\ task'[r].disturbed = task[r].disturbed /\ task'[r].written = task[r].written
             /\ task'[r].pc = IF task[r].pc \in Fetching THEN "lost" ELSE task[r].pc
      BY <1>5, CrashShape
    <2>2. declared' = declared
      BY <1>5 DEF Crash, given
    <2>3. \A r \in Requests : ~At(r, "writing")'
      BY <2>1 DEF At, Fetching
    <2>4. Undisturbed'
      BY <2>1, <2>3 DEF Undisturbed, Born, Fetching
    <2>5. UndisturbedGetsItsBytes'
      BY <2>1, <2>2 DEF UndisturbedGetsItsBytes, At, Fetching
    <2>6. QED
      BY <2>4, <2>5
  <1>6. Shape'
    BY NextShape
  <1>7. QED
    BY <1>1, <1>2, <1>3, <1>4, <1>5, <1>6, BeginUndisturbed, OpenUndisturbed, WriteUndisturbed
       DEF Next, Step

\* A request nobody disturbs gets the bytes upstream sent it, whatever was left
\* under its temporary name: download_http_file truncates what it opens, and
\* an interference always shows as a disturbance.
THEOREM UndisturbedServed == Spec => []UndisturbedGetsItsBytes
  <1>1. Init => Undisturbed /\ UndisturbedGetsItsBytes
    BY DEF Init, Idle, Undisturbed, UndisturbedGetsItsBytes, Born, At
  <1>2. Shape /\ Undisturbed /\ UndisturbedGetsItsBytes /\ [Next]_vars
           => Undisturbed' /\ UndisturbedGetsItsBytes'
    BY NextUndisturbed
  <1>3. QED
    BY <1>1, <1>2, ShapeInvariant, PTL DEF Spec

-----------------------------------------------------------------------------
(* What a published file may still become.                                 *)

Trusted(file) == \A q \in Requests : task[q].file = file => task[q].sent \in {None, declared}

Keeps(r) == At(r, "accepted") /\ held = task[r].file /\ Trusted(held) => data[held] = task[r].digest

KeepsBytes == declared # None => \A r \in Requests : Keeps(r)

LEMMA KeepsIsAccepted == KeepsBytes <=> AcceptedKeepsBytes
  BY DEF KeepsBytes, Keeps, Trusted, AcceptedKeepsBytes

\* Nothing happened to the destination, nor to the file it refers to.
LEMMA KeepsUntouched ==
  ASSUME Shape, KeepsBytes, UNCHANGED <<declared, held>>,
         held # None => data'[held] = data[held],
         \A q \in Requests :
            /\ task'[q].file = task[q].file /\ task'[q].sent = task[q].sent
            /\ At(q, "accepted")' => At(q, "accepted") /\ task'[q].digest = task[q].digest
  PROVE  KeepsBytes'
  <1> SUFFICES ASSUME declared # None, NEW r \in Requests, At(r, "accepted")',
                      held = task[r].file, Trusted(held)'
               PROVE  data'[held] = task'[r].digest
    BY DEF KeepsBytes, Keeps
  <1>1. At(r, "accepted") /\ held # None /\ task'[r].digest = task[r].digest
    BY DownloadAssumption DEF DownloadAssumption, Shape, TasksFit
  <1>2. Trusted(held)
    BY DEF Trusted
  <1>3. QED
    BY <1>1, <1>2 DEF KeepsBytes, Keeps

LEMMA NextKeeps ==
  ASSUME Shape, KeepsBytes, [Next]_vars
  PROVE  KeepsBytes'
  <1> USE DEF Fetching
  <1>1. CASE UNCHANGED vars
    BY <1>1 DEF vars, given, KeepsBytes, Keeps, Trusted, At
  <1>2. ASSUME NEW r \in Requests, Begin(r) PROVE KeepsBytes'
    <2>1. /\ task[r].file = None /\ task[r].sent = None /\ UNCHANGED <<declared, data>>
          /\ \A q \in Requests \ {r} : task'[q] = task[q]
      BY <1>2 DEF Begin, At, Shape, TypeOK, TasksFit, Born, given
    <2>2. CASE task'[r].pc = "asking" /\ task'[r].file = None /\ held' \in {held, None}
      <3>1. ASSUME NEW q \in Requests, declared # None, At(q, "accepted")',
                   held' = task'[q].file, Trusted(held)'
            PROVE  data'[held'] = task'[q].digest
        <4>1. q # r /\ task'[q] = task[q] /\ At(q, "accepted")
          BY <2>1, <2>2, <3>1 DEF At
        <4>2. held' = held /\ held # None
          BY <2>2, <3>1, <4>1, DownloadAssumption DEF DownloadAssumption, Shape, TasksFit
        <4>3. Trusted(held)
          BY <2>1, <3>1, <4>2 DEF Trusted
        <4>4. QED
          BY <2>1, <3>1, <4>1, <4>2, <4>3 DEF KeepsBytes, Keeps
      <3>2. QED
        BY <3>1, <2>1 DEF KeepsBytes, Keeps
    <2>3. CASE /\ held' = held /\ held # None /\ task'[r].file = held
               /\ task'[r].digest = data[held] /\ task'[r].sent = None
      <3>1. ASSUME NEW q \in Requests, declared # None, At(q, "accepted")',
                   held' = task'[q].file, Trusted(held)'
            PROVE  data'[held'] = task'[q].digest
        <4>1. CASE q = r
          BY <4>1, <2>1, <2>3
        <4>2. CASE q # r
          <5>1. Trusted(held)
            BY <2>1, <2>3, <3>1 DEF Trusted
          <5>2. QED
            BY <5>1, <4>2, <2>1, <2>3, <3>1 DEF KeepsBytes, Keeps, At
        <4>3. QED
          BY <4>1, <4>2
      <3>2. QED
        BY <3>1, <2>1 DEF KeepsBytes, Keeps
    <2>4. task[r] \in Task /\ Idle.sent = None
      BY DEF Shape, TypeOK, Idle
    <2>5. QED
      <3>1. CASE held' \in {held, None} /\ task' = [task EXCEPT ![r].pc = "asking"]
        BY <3>1, <2>1, <2>2, <2>4 DEF Shape, TypeOK, Task
      <3>2. CASE /\ held # None /\ held' = held
                 /\ task' = [task EXCEPT ![r] =
                       [Idle EXCEPT !.pc = "accepted", !.file = held, !.digest = data[held]]]
        BY <3>2, <2>3 DEF Shape, TypeOK, Idle
      <3>3. QED
        BY <3>1, <3>2, <1>2 DEF Begin
  <1>3. ASSUME NEW r \in Requests, Open(r) PROVE KeepsBytes'
    <2> DEFINE f == IF temp[Name(r)] = None THEN r ELSE temp[Name(r)]
    <2>1. PICK c \in upstream :
             Seize(r, [task[r] EXCEPT !.pc = "writing", !.file = f, !.sent = c])
      BY <1>3 DEF Open
    <2> DEFINE t == [task[r] EXCEPT !.pc = "writing", !.file = f, !.sent = c]
    <2>2. f \in Requests /\ f # held /\ task[r] \in Task /\ ~Born(r)
      BY <1>3, Typing DEF Shape, TypeOK, NamesFit, Open, At, Born
    <2>3. t \in Task /\ t.pc = "writing" /\ t.file = f
      BY <2>2, <2>1 DEF Shape, TypeOK, Task
    <2>4. Others(r) /\ task'[r] = t
      BY <2>1, <2>3, TaskMoves DEF Shape
    <2>5. data' = [data EXCEPT ![f] = Empty] /\ UNCHANGED <<declared, held>>
      BY <1>3 DEF Open, given
    <2> HIDE DEF f, t
    <2>6. held # None => held \in Requests /\ data'[held] = data[held]
      BY <2>2, <2>5 DEF Shape, TypeOK
    <2>7. ASSUME NEW q \in Requests, declared # None, At(q, "accepted")',
                 held' = task'[q].file, Trusted(held)'
          PROVE  data'[held'] = task'[q].digest
      <3>1. /\ q # r /\ At(q, "accepted") /\ task[q].file = held
            /\ task'[q].digest = task[q].digest /\ held # None
        BY <2>3, <2>4, <2>5, <2>7, DownloadAssumption
           DEF DownloadAssumption, At, Others, Shape, TasksFit
      <3>2. task[r].file = None
        BY <2>2 DEF Shape, TasksFit
      <3>3. Trusted(held)
        BY <2>4, <2>5, <2>7, <3>1, <3>2 DEF Trusted, Others
      <3>4. QED
        BY <2>5, <2>6, <2>7, <3>1, <3>3 DEF KeepsBytes, Keeps
    <2>8. QED
      BY <2>5, <2>7 DEF KeepsBytes, Keeps
  <1>4. ASSUME NEW r \in Requests, Write(r) PROVE KeepsBytes'
    <2> DEFINE f == task[r].file
               k == task[r].written + 1
    <2>1. /\ f \in Requests /\ k \in Offsets /\ task[r].sent \in Contents
          /\ data[f] \in Files /\ UNCHANGED <<declared, held>>
      BY <1>4, DownloadAssumption
         DEF DownloadAssumption, Write, At, Shape, TypeOK, Task, TasksFit, Offsets, given
    <2>2. /\ data'[f] = [data[f] EXCEPT ![k] = task[r].sent]
          /\ \A g \in Requests \ {f} : data'[g] = data[g]
      BY <1>4, <2>1 DEF Write, Shape, TypeOK
    <2>3. \A q \in Requests :
             /\ task'[q].pc = task[q].pc /\ task'[q].file = task[q].file
             /\ task'[q].sent = task[q].sent /\ task'[q].digest = task[q].digest
      <3>1. Others(r) /\ task'[r] = [task[r] EXCEPT !.written = @ + 1] /\ task[r] \in Task
        BY <1>4, WriteShape DEF Shape, TypeOK
      <3>2. QED
        BY <3>1 DEF Others, Task
    <2> HIDE DEF f, k
    <2>4. ASSUME NEW q \in Requests, declared # None, At(q, "accepted")',
                 held' = task'[q].file, Trusted(held)'
          PROVE  data'[held'] = task'[q].digest
      <3>1. /\ At(q, "accepted") /\ held = task[q].file /\ held \in Requests /\ Trusted(held)
            /\ task'[q].digest = task[q].digest /\ held' = held
        BY <2>1, <2>3, <2>4 DEF At, Trusted, Shape, TasksFit
      <3>2. data[held] = task[q].digest /\ task[q].digest = Whole(declared)
        BY <3>1, <2>4 DEF KeepsBytes, Keeps, Shape, TasksFit, Accepts
      <3>3. CASE f # held
        BY <3>1, <3>2, <3>3, <2>2
      <3>4. CASE f = held
        <4>1. task[r].sent = declared
          BY <3>1, <3>4, <2>1, DownloadAssumption DEF DownloadAssumption, Trusted, f
        <4>2. data'[held] = data[held]
          BY <4>1, <3>2, <3>4, <2>1, <2>2 DEF Files, Whole
        <4>3. QED
          BY <4>2, <3>1, <3>2
      <3>5. QED
        BY <3>3, <3>4
    <2>5. QED
      BY <2>1, <2>4 DEF KeepsBytes, Keeps
  <1>5. ASSUME NEW r \in Requests, Publish(r) \/ PublishLegacy(r) PROVE KeepsBytes'
    <2> DEFINE f == temp[Name(r)]
    <2>1. /\ f \in Requests /\ Complete(r) /\ UNCHANGED <<declared, data>>
          /\ \/ /\ held' = f
                /\ Seize(r, [End(r, "accepted") EXCEPT !.file = f, !.digest = data[f]])
             \/ held' \in {held, f} /\ Seize(r, End(r, "rejected"))
      BY <1>5, PublishCases DEF given
    <2>2. \A q \in Requests : At(q, "accepted") => task[q].file # f
      BY <2>1, Typing DEF Shape, NamesFit
    <2>3. Others(r)
      <3>1. data[f] \in Files /\ "accepted" \in Endings /\ "rejected" \in Endings
        BY <2>1, Typing DEF Shape, Endings
      <3>2. QED
        <4>1. /\ End(r, "rejected") \in Task
              /\ [End(r, "accepted") EXCEPT !.file = f, !.digest = data[f]] \in Task
          BY <2>1, <3>1, EndType DEF Shape
        <4>2. QED
          BY <2>1, <4>1, TaskMoves DEF Shape
    <2>4. ASSUME NEW q \in Requests, declared # None, At(q, "accepted")',
                 held' = task'[q].file, Trusted(held)'
          PROVE  data'[held'] = task'[q].digest
      <3>1. CASE q = r
        <4>1. task'[r].pc = "accepted"
          BY <3>1, <2>4 DEF At
        <4>2. /\ held' = f
              /\ task'[r] = [End(r, "accepted") EXCEPT !.file = f, !.digest = data[f]]
          BY <4>1, <2>1 DEF Seize, End, Shape, TypeOK, Task
        <4>3. QED
          <5>1. task[r] \in Task
            BY DEF Shape, TypeOK
          <5>2. task'[r].digest = data[f]
            BY <5>1, <4>2 DEF End, Task
          <5>3. QED
            BY <5>2, <4>2, <3>1, <2>1
      <3>2. CASE q # r
        <4>1. /\ At(q, "accepted") /\ task'[q].file = task[q].file
              /\ task'[q].digest = task[q].digest
          BY <3>2, <2>3, <2>4 DEF At, Others
        <4>2. held' = held /\ held # f
          BY <4>1, <2>1, <2>2, <2>4
        <4>3. Seize(r, End(r, "rejected"))
          BY <4>2, <2>1
        <4>4. task'[r].file = task[r].file /\ task'[r].sent = task[r].sent
          BY <4>3 DEF Seize, End, Shape, TypeOK, Task
        <4>5. Trusted(held)
          BY <4>2, <4>4, <2>1, <2>3, <2>4 DEF Trusted, Others
        <4>6. QED
          BY <4>1, <4>2, <4>5, <2>1, <2>4 DEF KeepsBytes, Keeps
      <3>3. QED
        BY <3>1, <3>2
    <2>5. QED
      BY <2>1, <2>4 DEF KeepsBytes, Keeps
  <1>6. ASSUME NEW r \in Requests, Break(r) \/ Fail(r) PROVE KeepsBytes'
    <2>1. /\ UNCHANGED <<declared, held, data>>
          /\ \E e \in {"broken", "failed"} :
                Seize(r, End(r, e)) \/ task' = [task EXCEPT ![r] = End(r, e)]
      BY <1>6 DEF Break, Fail, End, given
    <2>2. PICK e \in {"broken", "failed"} :
             Seize(r, End(r, e)) \/ task' = [task EXCEPT ![r] = End(r, e)]
      BY <2>1
    <2>3. /\ End(r, e) \in Task /\ End(r, e).pc = e
          /\ End(r, e).file = task[r].file /\ End(r, e).sent = task[r].sent
      BY DEF End, Shape, TypeOK, Task, Endings
    <2>4. Others(r) /\ task'[r] = End(r, e)
      BY <2>2, <2>3, TaskMoves DEF Shape
    <2>5. QED
      BY <2>1, <2>3, <2>4, KeepsUntouched DEF Others, At
  <1>7. ASSUME Crash PROVE KeepsBytes'
    <2>1. UNCHANGED <<declared, held, data>>
      BY <1>7 DEF Crash, given
    <2>2. QED
      BY <1>7, <2>1, CrashShape, KeepsUntouched DEF At
  <1>8. QED
    BY <1>1, <1>2, <1>3, <1>4, <1>5, <1>6, <1>7 DEF Next, Step

\* The handles that still write to a file that was published and accepted can
\* only write what upstream sent them: Open truncates no published file, and a
\* publication never leaves the file under its temporary name.
THEOREM PublishedKept == Spec => []AcceptedKeepsBytes
  <1>1. Init => KeepsBytes
    BY DEF Init, Idle, KeepsBytes, Keeps, At
  <1>2. Shape /\ KeepsBytes /\ [Next]_vars => KeepsBytes'
    BY NextKeeps
  <1>3. KeepsBytes => AcceptedKeepsBytes
    BY KeepsIsAccepted
  <1>4. QED
    BY <1>1, <1>2, <1>3, ShapeInvariant, PTL DEF Spec

-----------------------------------------------------------------------------
(* The downloads of a path implement its publication.                      *)

Declared == declared \in Digests

SameView(q) == UNCHANGED <<Stage(q), Wanted(q), Taken(q)>>

LEMMA OthersMapped ==
  ASSUME NEW r \in Requests, Others(r), UNCHANGED <<legacy, declared>>
  PROVE  \A q \in Requests \ {r} : SameView(q)
  BY DEF Others, SameView, Stage, Wanted, Taken, At, Fetching

\* What the path shows of a request that is fetching, and of one that is not.
LEMMA Views ==
  ASSUME NEW r \in Requests
  PROVE  /\ task[r].pc \in Fetching =>
              /\ Stage(r) = IF r \in legacy THEN "legacy" ELSE "files"
              /\ Wanted(r) = Matching(declared) /\ Taken(r) = None
         /\ task[r].pc \notin Fetching \cup {"accepted"} =>
              Stage(r) = "idle" /\ Wanted(r) = {} /\ Taken(r) = None
         /\ task[r].pc = "accepted" =>
              /\ Stage(r) = "accepted" /\ Wanted(r) = Matching(declared)
              /\ Taken(r) = task[r].digest
  BY DEF Fetching, Stage, Wanted, Taken, At

LEMMA AbstractSpill ==
  ASSUME Shape, Shape', NEW r \in Requests,
         task[r].pc \in Fetching, held # None, held' = held,
         \A q \in Requests : SameView(q)
  PROVE  Quarantine!Next
  <1>1. Published # None /\ Published' \in Files /\ Published' # None
    BY Typing, FilesClosed DEF Shape, TypeOK, Published
  <1>2. Stage(r) \in {"files", "legacy"}
    BY Views
  <1>3. Quarantine!Spill(r, Published')
    BY <1>1, <1>2 DEF Quarantine!Spill, Quarantine!Fetching, SameView
  <1>4. QED
    BY <1>1, <1>3 DEF Quarantine!Next

\* Some requests end their fetching without a file.
LEMMA AbstractEnd ==
  ASSUME NEW s \in SUBSET Requests, UNCHANGED Published,
         \A q \in s : /\ task[q].pc \in Fetching
                      /\ Stage(q)' = "idle" /\ Wanted(q)' = {} /\ Taken(q)' = None,
         \A q \in Requests \ s : SameView(q)
  PROVE  Quarantine!Next
  <1>1. \A q \in s : q \in Requests /\ Stage(q) # "idle"
    BY Views
  <1>2. ASSUME NEW q \in Requests
        PROVE  /\ Stage(q)' = IF q \in s THEN "idle" ELSE Stage(q)
               /\ Wanted(q)' = IF q \in s THEN {} ELSE Wanted(q)
               /\ Taken(q)' = IF q \in s THEN None ELSE Taken(q)
    BY DEF SameView
  <1>3. Quarantine!End(s)
    BY <1>1, <1>2 DEF Quarantine!End
  <1>4. QED
    BY <1>3 DEF Quarantine!Next

LEMMA AbstractBegin ==
  ASSUME Shape, Declared, NEW r \in Requests, Begin(r)
  PROVE  Quarantine!Next
  <1>1. /\ UNCHANGED <<legacy, declared, data>> /\ task[r] \in Task /\ task[r].pc = "idle"
        /\ \A q \in Requests \ {r} : task'[q] = task[q]
    BY DEF Begin, At, given, Shape, TypeOK
  <1>2. Stage(r) = "idle" /\ Wanted(r) = {} /\ Taken(r) = None
    BY <1>1, Views DEF Fetching
  <1>3. \A q \in Requests \ {r} : SameView(q)
    BY <1>1 DEF SameView, Stage, Wanted, Taken, At
  <1>4. Matching(declared) \in {Matching(digest) : digest \in Digests}
    BY DEF Declared
  <1>5. CASE /\ task' = [task EXCEPT ![r].pc = "asking"]
             /\ IF r \in legacy THEN held' = None /\ (held = None \/ ~Accepts(data[held]))
                                ELSE held' = held
    <2>1. task'[r].pc \in Fetching
      BY <1>1, <1>5 DEF Shape, TypeOK, Task, Fetching
    <2>2. /\ Stage(r)' = (IF r \in legacy THEN "legacy" ELSE "files")
          /\ Wanted(r)' = Matching(declared) /\ Taken(r)' = None
      BY <1>1, <2>1 DEF Stage, Wanted, Taken, At, Fetching
    <2>3. CASE r \in legacy
      <3>1. Published \notin Matching(declared) /\ Published' = None
        BY <1>5, <2>3, DownloadAssumption DEF DownloadAssumption, Published, Matching, Accepts
      <3>2. Quarantine!BeginLegacy(r, Matching(declared))
        BY <1>2, <1>3, <2>2, <2>3, <3>1 DEF Quarantine!BeginLegacy, SameView
      <3>3. QED
        BY <1>4, <3>2 DEF Quarantine!Next
    <2>4. CASE r \notin legacy
      <3>1. Published' = Published
        BY <1>1, <1>5, <2>4 DEF Published
      <3>2. Quarantine!Begin(r, Matching(declared))
        BY <1>2, <1>3, <2>2, <2>4, <3>1 DEF Quarantine!Begin, SameView
      <3>3. QED
        BY <1>4, <3>2 DEF Quarantine!Next
    <2>5. QED
      BY <2>3, <2>4
  <1>6. CASE /\ r \in legacy /\ held # None /\ held' = held /\ Accepts(data[held])
             /\ task' = [task EXCEPT ![r] =
                   [Idle EXCEPT !.pc = "accepted", !.file = held, !.digest = data[held]]]
    <2>1. task'[r].pc = "accepted" /\ task'[r].digest = data[held]
      BY <1>6 DEF Shape, TypeOK, Idle
    <2>2. /\ Stage(r)' = "accepted" /\ Wanted(r)' = Matching(declared)
          /\ Taken(r)' = data[held]
      BY <1>1, <2>1 DEF Stage, Wanted, Taken, At, Fetching
    <2>3. Published = data[held] /\ Published' = Published /\ Published # None
      BY <1>1, <1>6, Typing DEF Shape, Published
    <2>4. Published \in Matching(declared)
      BY <1>6, <2>3, Typing DEF Shape, Matching, Accepts
    <2>5. Quarantine!Reuse(r, Matching(declared))
      BY <1>2, <1>3, <2>2, <2>3, <2>4 DEF Quarantine!Reuse, SameView
    <2>6. QED
      BY <1>4, <2>5 DEF Quarantine!Next
  <1>7. QED
    BY <1>5, <1>6 DEF Begin

LEMMA AbstractPublish ==
  ASSUME Shape, NEW r \in Requests, Publish(r) \/ PublishLegacy(r)
  PROVE  Quarantine!Next
  <1> DEFINE f == temp[Name(r)]
  <1>1. /\ f \in Requests /\ task[r].pc = "writing" /\ UNCHANGED <<legacy, declared, data>>
        /\ \/ /\ Accepts(data[f]) /\ held' = f
              /\ Seize(r, [End(r, "accepted") EXCEPT !.file = f, !.digest = data[f]])
           \/ /\ ~Accepts(data[f]) /\ held' = (IF r \in legacy THEN held ELSE f)
              /\ Seize(r, End(r, "rejected"))
    BY PublishCases DEF Complete, At, given
  <1> HIDE DEF f
  <1>2. task[r] \in Task /\ data[f] \in Files /\ f # None
    BY <1>1, Typing DEF Shape, TypeOK
  <1>3. task[r].pc \in Fetching
    BY <1>1 DEF Fetching
  <1>4. /\ Stage(r) = (IF r \in legacy THEN "legacy" ELSE "files")
        /\ Wanted(r) = Matching(declared) /\ Taken(r) = None
    BY <1>3, Views
  <1>5. CASE /\ Accepts(data[f]) /\ held' = f
             /\ Seize(r, [End(r, "accepted") EXCEPT !.file = f, !.digest = data[f]])
    <2> DEFINE t == [End(r, "accepted") EXCEPT !.file = f, !.digest = data[f]]
    <2>1. t \in Task /\ t.pc = "accepted" /\ t.digest = data[f]
      BY <1>1, <1>2 DEF Task, End, Endings
    <2>2. Others(r) /\ task'[r] = t
      BY <1>5, <2>1, TaskMoves DEF Shape
    <2>3. \A q \in Requests \ {r} : SameView(q)
      BY <1>1, <2>2, OthersMapped
    <2>4. /\ Stage(r)' = "accepted" /\ Wanted(r)' = Matching(declared)
          /\ Taken(r)' = data[f] /\ Published' = data[f]
      BY <1>1, <1>2, <1>5, <2>1, <2>2 DEF Stage, Wanted, Taken, At, Fetching, Published
    <2>5. data[f] \in Matching(declared)
      BY <1>2, <1>5 DEF Matching, Accepts
    <2>6. Wanted(r)' = Wanted(r)
      BY <1>4, <2>4
    <2>7. Quarantine!Publish(r, data[f])
      BY <1>4, <2>3, <2>4, <2>5, <2>6 DEF Quarantine!Publish, Quarantine!Fetching, SameView
    <2>8. QED
      BY <1>2, <2>7 DEF Quarantine!Next
  <1>6. CASE /\ ~Accepts(data[f]) /\ held' = (IF r \in legacy THEN held ELSE f)
             /\ Seize(r, End(r, "rejected"))
    <2>1. End(r, "rejected") \in Task /\ End(r, "rejected").pc = "rejected"
      BY <1>2 DEF Task, End, Endings
    <2>2. Others(r) /\ task'[r] = End(r, "rejected")
      BY <1>6, <2>1, TaskMoves DEF Shape
    <2>3. \A q \in Requests \ {r} : SameView(q)
      BY <1>1, <2>2, OthersMapped
    <2>4. Stage(r)' = "idle" /\ Wanted(r)' = {} /\ Taken(r)' = None
      BY <2>1, <2>2 DEF Stage, Wanted, Taken, At, Fetching
    <2>5. data[f] \notin Matching(declared)
      BY <1>6 DEF Matching, Accepts
    <2>6. CASE r \notin legacy
      <3>1. Published' = data[f]
        BY <1>1, <1>2, <1>6, <2>6 DEF Published
      <3>2. Quarantine!Publish(r, data[f])
        BY <1>4, <2>3, <2>4, <2>5, <2>6, <3>1 DEF Quarantine!Publish, Quarantine!Fetching, SameView
      <3>3. QED
        BY <1>2, <3>2 DEF Quarantine!Next
    <2>7. CASE r \in legacy
      <3>1. Published' = Published
        BY <1>1, <1>6, <2>7 DEF Published
      <3>2. QED
        BY <1>3, <2>3, <2>4, <3>1, AbstractEnd
    <2>8. QED
      BY <2>6, <2>7
  <1>7. QED
    BY <1>1, <1>5, <1>6

LEMMA AbstractFail ==
  ASSUME Shape, NEW r \in Requests, Break(r) \/ Fail(r)
  PROVE  Quarantine!Next
  <1>1. /\ UNCHANGED <<legacy, declared, held, data>> /\ task[r].pc \in Fetching
        /\ \E e \in {"broken", "failed"} :
              Seize(r, End(r, e)) \/ task' = [task EXCEPT ![r] = End(r, e)]
    BY DEF Break, Fail, End, given, Complete, At, Fetching
  <1>2. PICK e \in {"broken", "failed"} :
           Seize(r, End(r, e)) \/ task' = [task EXCEPT ![r] = End(r, e)]
    BY <1>1
  <1>3. End(r, e) \in Task /\ End(r, e).pc = e
    BY DEF End, Shape, TypeOK, Task, Endings
  <1>4. Others(r) /\ task'[r] = End(r, e)
    BY <1>2, <1>3, TaskMoves DEF Shape
  <1>5. Published' = Published
    BY <1>1 DEF Published
  <1>6. Stage(r)' = "idle" /\ Wanted(r)' = {} /\ Taken(r)' = None
    BY <1>3, <1>4 DEF Stage, Wanted, Taken, At, Fetching
  <1>7. \A q \in Requests \ {r} : SameView(q)
    BY <1>1, <1>4, OthersMapped
  <1>8. {r} \in SUBSET Requests /\ \A q \in {r} : q = r
    OBVIOUS
  <1>9. QED
    BY <1>1, <1>5, <1>6, <1>7, <1>8, AbstractEnd

LEMMA AbstractCrash ==
  ASSUME Shape, Crash
  PROVE  Quarantine!Next
  <1> DEFINE s == {r \in Requests : task[r].pc \in Fetching}
  <1>1. UNCHANGED <<legacy, declared, held, data>>
    BY DEF Crash, given
  <1>2. \A r \in s : /\ task[r].pc \in Fetching
                     /\ Stage(r)' = "idle" /\ Wanted(r)' = {} /\ Taken(r)' = None
    BY CrashShape DEF Stage, Wanted, Taken, At, Fetching
  <1>3. \A r \in Requests \ s : SameView(r)
    BY <1>1, CrashShape DEF SameView, Stage, Wanted, Taken, At, Fetching
  <1>4. UNCHANGED Published /\ s \in SUBSET Requests
    BY <1>1 DEF Published
  <1> HIDE DEF s
  <1>5. QED
    BY <1>2, <1>3, <1>4, AbstractEnd

LEMMA AbstractOpen ==
  ASSUME Shape, NEW r \in Requests, Open(r)
  PROVE  UNCHANGED Quarantine!vars
  <1> DEFINE f == IF temp[Name(r)] = None THEN r ELSE temp[Name(r)]
  <1>1. PICK c \in upstream :
           Seize(r, [task[r] EXCEPT !.pc = "writing", !.file = f, !.sent = c])
    BY DEF Open
  <1> DEFINE t == [task[r] EXCEPT !.pc = "writing", !.file = f, !.sent = c]
  <1>2. f \in Requests /\ f # held /\ task[r] \in Task /\ task[r].pc = "asking"
    BY Typing DEF Shape, TypeOK, NamesFit, Open, At, Born
  <1>3. t \in Task /\ t.pc = "writing"
    BY <1>2, <1>1 DEF Shape, TypeOK, Task, Fetching
  <1>4. Others(r) /\ task'[r] = t
    BY <1>1, <1>3, TaskMoves DEF Shape
  <1>5. data' = [data EXCEPT ![f] = Empty] /\ UNCHANGED <<legacy, declared, held>>
    BY DEF Open, given
  <1> HIDE DEF f, t
  <1>6. Published' = Published
    BY <1>2, <1>5 DEF Published, Shape, TypeOK
  <1>7. SameView(r)
    BY <1>2, <1>3, <1>4, <1>5 DEF SameView, Stage, Wanted, Taken, At, Fetching
  <1>8. \A q \in Requests : SameView(q)
    BY <1>4, <1>5, <1>7, OthersMapped
  <1>9. QED
    BY <1>6, <1>8 DEF Quarantine!vars, SameView

LEMMA AbstractWrite ==
  ASSUME Shape, Shape', NEW r \in Requests, Write(r)
  PROVE  Quarantine!Next \/ UNCHANGED Quarantine!vars
  <1>1. /\ UNCHANGED <<legacy, declared, held>> /\ task[r].pc = "writing"
        /\ task[r].file \in Requests
        /\ \A g \in Requests \ {task[r].file} : data'[g] = data[g]
    BY DEF Write, At, given, Shape, TypeOK, TasksFit
  <1>2. Others(r) /\ task'[r] = [task[r] EXCEPT !.written = @ + 1] /\ task[r] \in Task
    BY WriteShape DEF Shape, TypeOK
  <1>3. task'[r].pc = task[r].pc /\ task'[r].digest = task[r].digest
    BY <1>2 DEF Task
  <1>4. SameView(r)
    BY <1>1, <1>3 DEF SameView, Stage, Wanted, Taken, At
  <1>5. \A q \in Requests : SameView(q)
    BY <1>1, <1>2, <1>4, OthersMapped
  <1>6. CASE held # None
    BY <1>1, <1>5, <1>6, AbstractSpill DEF Fetching
  <1>7. CASE held = None
    <2>1. Published' = Published
      BY <1>1, <1>7 DEF Published
    <2>2. QED
      BY <1>5, <2>1 DEF Quarantine!vars, SameView
  <1>8. QED
    BY <1>6, <1>7

\* Whatever the downloads of a path do to each other, the path behaves as
\* Publication says: nothing but a publication, a rejected file of the legacy
\* route and the writes of a request still fetching changes what is published.
THEOREM DownloadsImplementPublication == Spec => ImplementsPublication
  <1>1. ASSUME Init PROVE Quarantine!Init
    <2>1. \A r \in Requests : Stage(r) = "idle" /\ Wanted(r) = {} /\ Taken(r) = None
      BY <1>1, Views DEF Init, Idle, Fetching
    <2>2. Published = None
      BY <1>1 DEF Init, Published
    <2>3. QED
      BY <2>1, <2>2 DEF Quarantine!Init
  <1>2. Init => Declared
    BY DEF Init, Declared
  <1>3. Declared /\ [Next]_vars => Declared'
    BY DEF Declared, Next, Step, Begin, Open, Write, Break, Publish, PublishLegacy, Fail, Crash,
       vars, given
  <1>4. ASSUME Shape, Shape', Declared, [Next]_vars
        PROVE  [Quarantine!Next]_(Quarantine!vars)
    <2>1. CASE UNCHANGED vars
      <3>1. UNCHANGED Published
        BY <2>1 DEF vars, given, Published
      <3>2. \A q \in Requests : SameView(q)
        BY <2>1 DEF vars, given, SameView, Stage, Wanted, Taken, At
      <3>3. QED
        BY <3>1, <3>2 DEF Quarantine!vars, SameView
    <2>2. CASE Next
      BY <1>4, <2>2, AbstractBegin, AbstractOpen, AbstractWrite, AbstractPublish, AbstractFail,
         AbstractCrash DEF Next, Step
    <2>3. QED
      BY <1>4, <2>1, <2>2
  <1>5. QED
    BY <1>1, <1>2, <1>3, <1>4, ShapeInvariant, PTL DEF Spec, ImplementsPublication, Quarantine!Spec

=============================================================================
