------------------------- MODULE ApplicationProofs -------------------------
(***************************************************************************)
(* Proofs about a service: the postgres listener, the Kafka consumer and   *)
(* the application that starts and stops them, for every number of         *)
(* processes, goroutines, events, messages and signals.                    *)
(***************************************************************************)
EXTENDS Application, FiniteSetTheorems, SequenceTheorems, TLAPS

-----------------------------------------------------------------------------
\* What the postgres listener keeps.

\* The changes are numbered, the row is at the last one it kept, and what is under way exists.
EventsExist ==
    /\ Len(pgEvents) <= MaxEvents /\ pgRow <= Len(pgEvents)
    /\ \A e \in 1..Len(pgEvents) :
          pgEvents[e].version <= e /\ (pgRow = 0 \/ pgEvents[e].version <= pgRow)
    /\ pgLocks \subseteq 1..Len(pgEvents)
    /\ \A p \in Pod : /\ pgInbox[p] \in Seq(1..Len(pgEvents))
                      /\ pg[p].serve = "acquire" => pg[p].event \in 1..Len(pgEvents)
    /\ \A g \in PgSlot : pgRun[g].pc # "idle" => pgRun[g].event \in 1..Len(pgEvents)

\* A run that is past the lock has its key in Redis, alone, unless the key was lost.
KeysHeld ==
    /\ \A g \in Holding : pgRun[g].lost \/ pgRun[g].event \in pgLocks
    /\ \A g, h \in Holding :
          g # h /\ pgRun[g].event = pgRun[h].event => pgRun[g].lost \/ pgRun[h].lost

\* Serve cannot miss the shutdown, and what is left after the wait is one notification.
ServeStops ==
    \A p \in Pod :
        /\ pg[p].stop # "no" => pg[p].shutdown \/ pg[p].serve = "returned"
        /\ pg[p].stop \in {"cancel", "reset", "done"} =>
              /\ \A g, h \in Running(p) : g = h
              /\ pg[p].serve \in {"select", "acquire"} => Running(p) = {}

PgInv == PgTypeOK /\ EventsExist /\ KeysHeld /\ DetailNotOlder /\ ServeStops

-----------------------------------------------------------------------------
\* What the Kafka consumer keeps.

\* Below the position of a session and below the committed offset every message was handled.
OffsetsHandled ==
    /\ NoMessageSkipped
    /\ \A p \in Pod : /\ kafka[p].marked <= kafka[p].position /\ kafka[p].position <= kLog
                      /\ 0..(kafka[p].position - 1) \subseteq kRan
                      /\ kafka[p].handler => kafka[p].position < kLog

\* A handler and the ownership belong to a session; Close and a fresh channel to none.
SessionsKept ==
    \A p \in Pod :
        /\ kafka[p].handler \/ kOwner = p => kafka[p].session # "none"
        /\ kafka[p].session = "none" /\ ~kafka[p].cancelled => ~kafka[p].ready
        /\ kafka[p].stop # "no" => kafka[p].cancelled
        /\ kafka[p].stop = "done" => kafka[p].session = "none"

KafkaInv == KafkaTypeOK /\ OffsetsHandled /\ SessionsKept /\ CrashOnlyBeforeServe

-----------------------------------------------------------------------------
\* What the application keeps.

\* The applications before the one whose turn it is are down.
EarlierDown ==
    \A p \in Pod :
        /\ app[p].stopping <= Len(apps) + 1
        /\ \A i \in DOMAIN apps : i < app[p].stopping =>
              /\ apps[i] = "postgres" => pg[p].stop = "done"
              /\ apps[i] = "kafka" => kafka[p].stop = "done"
              /\ apps[i] = Server => server[p].stop = "done"

\* A server that was told to stop accepts nothing, and is done when it is empty or too late.
ServersDrain ==
    \A p \in Pod :
        /\ server[p].open <= requests
        /\ server[p].stop # "no" => server[p].serve \in {"closed", "panicked"}
        /\ server[p].stop = "done" => app[p].timeout \/ server[p].open = 0

\* A process that ended with success was past the last application, nobody waits for it.
SuccessIsLast ==
    \A p \in Pod : exit[p] = "success" =>
        app[p].stopping = Len(apps) + 1 /\ caller[p] # "waits"

SomeProcess == \E p \in Pod : exit[p] # "absent"

AppInv == AppTypeOK /\ SomeProcess /\ EarlierDown /\ ServersDrain /\ SuccessIsLast

\* The inductive invariant.
IInv == PgInv /\ KafkaInv /\ AppInv

-----------------------------------------------------------------------------
\* About the operators of the model.

AppName == {"kafka", "cron", "task_queue", "redis", "postgres", "rabbitmq", "rest", "grpc", "graphql"}

\* A flag adds one application, or none, to those before it.
LEMMA UseSeq ==
  ASSUME NEW f, NEW S, NEW a \in S, NEW s \in Seq(S), NEW n \in Nat, Len(s) <= n
  PROVE  s \o Use(f, a) \in Seq(S) /\ Len(s \o Use(f, a)) <= n + 1
<1>1. CASE a \in f
  <2>1. <<a>> \in Seq(S) /\ Len(<<a>>) = 1
    OBVIOUS
  <2>2. Use(f, a) = <<a>>
    BY <1>1 DEF Use
  <2> QED BY <2>1, <2>2, ConcatProperties, LenProperties
<1>2. CASE a \notin f
  <2>1. Use(f, a) = <<>>
    BY <1>2 DEF Use
  <2> QED BY <2>1, ConcatEmptySeq, LenProperties
<1> QED BY <1>1, <1>2

\* NewAppFromEnvironmentConfig appends each application at most once.
LEMMA AppsSeq ==
  ASSUME NEW f
  PROVE  /\ NewAppFromEnvironmentConfig(f) \in Seq(AppName)
         /\ Len(NewAppFromEnvironmentConfig(f)) <= 9
<1> DEFINE A == <<>> \o Use(f, "kafka")
           B == A \o Use(f, "cron")
           C == B \o Use(f, "task_queue")
           D == C \o Use(f, "redis")
           E == D \o Use(f, "postgres")
           F == E \o Use(f, "rabbitmq")
           G == F \o Use(f, "rest")
           H == G \o Use(f, "grpc")
           J == H \o (IF "rest" \in f THEN <<>> ELSE Use(f, "graphql"))
<1> HIDE DEF A, B, C, D, E, F, G, H
<1>1. A \in Seq(AppName) /\ Len(A) <= 0 + 1
  <2>1. <<>> \in Seq(AppName) /\ Len(<<>>) <= 0 /\ "kafka" \in AppName
    BY DEF AppName
  <2> QED BY <2>1, UseSeq DEF A
<1>2. B \in Seq(AppName) /\ Len(B) <= 1 + 1
  BY UseSeq, <1>1 DEF B, AppName
<1>3. C \in Seq(AppName) /\ Len(C) <= 2 + 1
  BY UseSeq, <1>2 DEF C, AppName
<1>4. D \in Seq(AppName) /\ Len(D) <= 3 + 1
  BY UseSeq, <1>3 DEF D, AppName
<1>5. E \in Seq(AppName) /\ Len(E) <= 4 + 1
  BY UseSeq, <1>4 DEF E, AppName
<1>6. F \in Seq(AppName) /\ Len(F) <= 5 + 1
  BY UseSeq, <1>5 DEF F, AppName
<1>7. G \in Seq(AppName) /\ Len(G) <= 6 + 1
  BY UseSeq, <1>6 DEF G, AppName
<1>8. H \in Seq(AppName) /\ Len(H) <= 7 + 1
  BY UseSeq, <1>7 DEF H, AppName
<1>9. J \in Seq(AppName) /\ Len(J) <= 9
  <2>1. CASE "rest" \in f
    BY <2>1, <1>8, ConcatEmptySeq
  <2>2. CASE "rest" \notin f
    BY <2>2, <1>8, UseSeq, LenProperties DEF AppName
  <2> QED BY <2>1, <2>2
<1>10. Use(f, "kafka") \in Seq(AppName)
  <2>1. <<"kafka">> \in Seq(AppName) /\ <<>> \in Seq(AppName)
    BY DEF AppName
  <2> QED BY <2>1 DEF Use
<1>11. A = Use(f, "kafka")
  BY <1>10, ConcatEmptySeq DEF A
<1>12. NewAppFromEnvironmentConfig(f) = J
  BY <1>11 DEF NewAppFromEnvironmentConfig, B, C, D, E, F, G, H
<1> QED BY <1>9, <1>12

\* The inputs are shared out among at least one process, so a bound on a share is a bound.
LEMMA ReplicasBound ==
  ASSUME SomeProcess, NEW n \in Nat, NEW k \in Nat, k * Replicas <= n
  PROVE  k <= n
<1> DEFINE R == {p \in Pod : exit[p] # "absent"}
<1>1. IsFiniteSet(R) /\ R # {}
  BY ProcessAssumption, FS_Subset DEF SomeProcess
<1>2. Cardinality(R) \in Nat /\ Cardinality(R) # 0
  BY <1>1, FS_CardinalityType, FS_EmptySet
<1>3. ASSUME NEW r \in Nat, r # 0, k * r <= n
      PROVE  k <= n
  <2>1. k * r = k * (r - 1) + k
    BY <1>3
  <2>2. k * (r - 1) >= 0
    BY <1>3
  <2> QED BY <1>3, <2>1, <2>2
<1> QED BY <1>2, <1>3 DEF Replicas

\* A set without two different members has at most one.
LEMMA AtMostOne ==
  ASSUME NEW S, \A x, y \in S : x = y
  PROVE  Cardinality(S) <= 1 /\ Cardinality(S) \in Nat
<1>1. CASE S = {}
  BY <1>1, FS_EmptySet
<1>2. ASSUME NEW x \in S
      PROVE  Cardinality(S) = 1
  <2>1. S = {x}
    BY <1>2
  <2> QED BY <2>1, FS_Singleton
<1> QED BY <1>1, <1>2

-----------------------------------------------------------------------------
\* The postgres listener

\* Nothing has happened at first.
LEMMA PgInitInv ==
  ASSUME PgInit
  PROVE  PgInv
<1>1. PgTypeOK
  BY PostgresAssumption DEF PgInit, PgTypeOK, Idle
<1>2. EventsExist
  BY PostgresAssumption DEF PgInit, EventsExist, Idle
<1>3. KeysHeld /\ DetailNotOlder
  BY DEF PgInit, KeysHeld, DetailNotOlder, Holding, Handling, Idle
<1>4. ServeStops
  BY DEF PgInit, ServeStops
<1> QED BY <1>1, <1>2, <1>3, <1>4 DEF PgInv

\* Versions are numbers.
LEMMA PgVersions ==
  ASSUME PgTypeOK
  PROVE  pgRow \in Nat /\ \A e \in 1..Len(pgEvents) : pgEvents[e].version \in Nat
<1> DEFINE Event == [handled : BOOLEAN, action : {"INSERT", "UPDATE", "DELETE"},
                     version : 0..MaxEvents, long : BOOLEAN]
<1>1. pgRow \in 0..MaxEvents /\ pgEvents \in Seq(Event)
  BY DEF PgTypeOK
<1>2. \A e \in 1..Len(pgEvents) : pgEvents[e] \in Event
  BY <1>1, ElementOfSeq
<1> QED BY <1>1, <1>2, PostgresAssumption

\* A change of a row: the versions grow, and a row that is there is the last change kept.
LEMMA WriteInv ==
  ASSUME PgInv, SomeProcess, WriteRow \/ WriteOrphan
  PROVE  PgInv'
<1> DEFINE n == Len(pgEvents)
           Event == [handled : BOOLEAN, action : {"INSERT", "UPDATE", "DELETE"},
                     version : 0..MaxEvents, long : BOOLEAN]
<1> USE PostgresAssumption
<1>1. n \in Nat /\ n + 1 <= MaxEvents
  <2>1. n \in Nat
    BY DEF PgInv, PgTypeOK
  <2>2. (n + 1) * Replicas <= MaxEvents /\ n + 1 \in Nat
    BY <2>1 DEF WriteRow, WriteOrphan
  <2> QED BY <2>1, <2>2, ReplicasBound
<1>2. PICK e \in Event :
         /\ Notify(e) /\ pgRow' \in 0..MaxEvents /\ pgRow' <= n + 1 /\ e.version <= n + 1
         /\ pgRow' = 0 \/ (pgRow' = n + 1) \/ (pgRow' = pgRow /\ e.version = 0)
  <2>1. CASE WriteRow
    <3>1. PICK v \in {0, n + 1}, l \in BOOLEAN :
             /\ pgRow' = v
             /\ Notify([handled |-> TRUE, action |-> Change(v), version |-> v, long |-> l])
      BY <2>1 DEF WriteRow
    <3> DEFINE e == [handled |-> TRUE, action |-> Change(v), version |-> v, long |-> l]
    <3>2. Change(v) \in {"INSERT", "UPDATE", "DELETE"}
      BY DEF Change, PgInv, PgTypeOK
    <3>3. e \in Event /\ e.version = v /\ Notify(e)
      BY <3>1, <3>2, <1>1
    <3> HIDE DEF e
    <3> QED BY <3>1, <3>3, <1>1
  <2>2. CASE WriteOrphan
    <3> DEFINE e == [handled |-> FALSE, action |-> "INSERT", version |-> 0, long |-> FALSE]
    <3>1. e \in Event /\ e.version = 0
      BY <1>1
    <3>2. Notify(e) /\ pgRow' = pgRow /\ pgRow \in 0..MaxEvents /\ pgRow <= n
      BY <2>2 DEF WriteOrphan, PgInv, PgTypeOK, EventsExist
    <3> HIDE DEF e
    <3> QED BY <3>1, <3>2, <1>1
  <2> QED BY <2>1, <2>2
<1>3. /\ pgEvents' = Append(pgEvents, e) /\ pgEvents \in Seq(Event)
      /\ pgEvents' \in Seq(Event) /\ Len(pgEvents') = n + 1
      /\ \A i \in 1..n : pgEvents'[i] = pgEvents[i]
      /\ pgEvents'[n + 1] = e
  BY <1>2 DEF Notify, PgInv, PgTypeOK
<1>4. UNCHANGED <<pgLocks, pg, pgRun>>
  BY DEF WriteRow, WriteOrphan
<1>5. PICK hears \in SUBSET Pod :
         pgInbox' = [p \in Pod |-> IF p \in hears THEN Append(pgInbox[p], n + 1) ELSE pgInbox[p]]
  BY <1>2 DEF Notify
<1>6. \A p \in Pod : pgInbox[p] \in Seq(1..n)
  BY DEF PgInv, EventsExist
<1>7. \A p \in Pod : pgInbox'[p] \in Seq(1..(n + 1)) /\ pgInbox'[p] \in Seq(1..MaxEvents)
  <2> TAKE p \in Pod
  <2>1. pgInbox[p] \in Seq(1..(n + 1)) /\ pgInbox[p] \in Seq(1..MaxEvents)
    BY <1>1, <1>6, SeqMonotonic
  <2>2. n + 1 \in 1..(n + 1) /\ n + 1 \in 1..MaxEvents
    BY <1>1
  <2> HIDE DEF n
  <2>3. /\ Append(pgInbox[p], n + 1) \in Seq(1..(n + 1))
        /\ Append(pgInbox[p], n + 1) \in Seq(1..MaxEvents)
    BY <2>1, <2>2, AppendProperties
  <2> QED BY <1>5, <2>1, <2>3
<1>8. PgTypeOK'
  <2>1. pgInbox' \in [Pod -> Seq(1..MaxEvents)]
    BY <1>5, <1>7
  <2> QED BY <1>2, <1>3, <1>4, <2>1 DEF PgInv, PgTypeOK
<1>9. EventsExist'
  <2>1. pgRow \in Nat /\ \A i \in 1..n : pgEvents[i].version \in Nat
    BY PgVersions DEF PgInv
  <2>2. \A i \in 1..(n + 1) :
           pgEvents'[i].version <= i /\ (pgRow' = 0 \/ pgEvents'[i].version <= pgRow')
    <3> TAKE i \in 1..(n + 1)
    <3>1. CASE i = n + 1
      BY <3>1, <1>1, <1>2, <1>3, <2>1
    <3>2. CASE i \in 1..n
      BY <3>2, <1>1, <1>2, <1>3, <2>1 DEF PgInv, EventsExist
    <3> QED BY <3>1, <3>2, <1>1
  <2>3. 1..n \subseteq 1..(n + 1)
    BY <1>1
  <2>4. pgLocks' \subseteq 1..(n + 1)
    BY <1>4, <2>3 DEF PgInv, EventsExist
  <2>5. /\ \A p \in Pod : pg'[p].serve = "acquire" => pg'[p].event \in 1..(n + 1)
        /\ \A g \in PgSlot : pgRun'[g].pc # "idle" => pgRun'[g].event \in 1..(n + 1)
    BY <1>4, <2>3 DEF PgInv, EventsExist
  <2> QED BY <1>1, <1>2, <1>3, <1>7, <2>2, <2>4, <2>5 DEF EventsExist
<1>10. KeysHeld' /\ ServeStops'
  BY <1>4 DEF PgInv, KeysHeld, Holding, ServeStops, Running
<1>11. DetailNotOlder'
  <2>1. \A g \in Handling : pgRun[g].event \in 1..n
    BY DEF PgInv, EventsExist, Handling
  <2> QED BY <1>3, <1>4, <2>1 DEF PgInv, DetailNotOlder, Handling
<1> QED BY <1>8, <1>9, <1>10, <1>11 DEF PgInv

PgRunType == [pc : {"idle", "start", "lock", "read", "handler", "unlock"},
              event : 0..MaxEvents, seen : 0..MaxEvents, lost : BOOLEAN]

\* Deleting keys changes nothing of a run except that it remembers the loss of its own.
LEMMA WithoutKeysRuns ==
  ASSUME PgTypeOK, NEW events
  PROVE  /\ WithoutKeys(events) \in [PgSlot -> PgRunType]
         /\ \A g \in PgSlot :
               /\ WithoutKeys(events)[g].pc = pgRun[g].pc
               /\ WithoutKeys(events)[g].event = pgRun[g].event
               /\ WithoutKeys(events)[g].seen = pgRun[g].seen
               /\ pgRun[g].lost => WithoutKeys(events)[g].lost
               /\ g \in Holding /\ pgRun[g].event \in events => WithoutKeys(events)[g].lost
<1>1. ASSUME NEW g \in PgSlot
      PROVE  /\ WithoutKeys(events)[g] =
                   [pgRun[g] EXCEPT !.lost = @ \/ (g \in Holding /\ pgRun[g].event \in events)]
             /\ pgRun[g] \in PgRunType
  BY DEF WithoutKeys, PgTypeOK, PgRunType
<1>2. ASSUME NEW g \in PgSlot
      PROVE  /\ WithoutKeys(events)[g] \in PgRunType
             /\ WithoutKeys(events)[g].pc = pgRun[g].pc
             /\ WithoutKeys(events)[g].event = pgRun[g].event
             /\ WithoutKeys(events)[g].seen = pgRun[g].seen
             /\ pgRun[g].lost => WithoutKeys(events)[g].lost
             /\ g \in Holding /\ pgRun[g].event \in events => WithoutKeys(events)[g].lost
  <2> DEFINE b == pgRun[g].lost \/ (g \in Holding /\ pgRun[g].event \in events)
  <2>1. b \in BOOLEAN /\ WithoutKeys(events)[g] = [pgRun[g] EXCEPT !.lost = b]
    BY <1>1
  <2>2. pgRun[g].lost \/ (g \in Holding /\ pgRun[g].event \in events) => b = TRUE
    OBVIOUS
  <2> HIDE DEF b
  <2> QED BY <1>1, <2>1, <2>2 DEF PgRunType
<1>3. DOMAIN WithoutKeys(events) = PgSlot
  BY DEF WithoutKeys
<1>4. WithoutKeys(events) \in [PgSlot -> PgRunType]
  BY <1>2, <1>3 DEF WithoutKeys
<1> QED BY <1>2, <1>4

\* Reset leaves nothing that a run could rely on, and every run that did knows.
LEMMA ResetInv ==
  ASSUME PgInv, Reset, UNCHANGED pgEvents
  PROVE  /\ pgRun' \in [PgSlot -> PgRunType] /\ pgLocks' = {}
         /\ \A g \in PgSlot : pgRun'[g].pc = pgRun[g].pc /\ pgRun'[g].event = pgRun[g].event
         /\ KeysHeld' /\ DetailNotOlder'
<1>1. pgRun' = WithoutKeys(pgLocks) /\ pgLocks' = {}
  BY DEF Reset
<1>2. PgTypeOK
  BY DEF PgInv
<1>3. KeysHeld'
  BY <1>1, <1>2, WithoutKeysRuns DEF PgInv, KeysHeld, Holding
<1>4. DetailNotOlder'
  BY <1>1, <1>2, WithoutKeysRuns DEF PgInv, DetailNotOlder, Handling
<1> QED BY <1>1, <1>2, <1>3, <1>4, WithoutKeysRuns

PgType == [serve : {"off", "top", "select", "acquire", "blocked", "returned"},
           event : 0..MaxEvents, shutdown : BOOLEAN, closed : BOOLEAN, ctx : BOOLEAN,
           stop : {"no", "close", "wait", "cancel", "reset", "done"}]

\* A step that changes what a listener keeps of one process.
LEMMA PgUpdate ==
  ASSUME pg \in [Pod -> PgType], NEW p \in Pod, NEW r \in PgType, pg' = [pg EXCEPT ![p] = r]
  PROVE  /\ pg' \in [Pod -> PgType] /\ pg'[p] = r
         /\ \A q \in Pod : q # p => pg'[q] = pg[q]
  OBVIOUS

\* A step that changes one goroutine.
LEMMA RunUpdate ==
  ASSUME pgRun \in [PgSlot -> PgRunType], NEW g \in PgSlot, NEW r \in PgRunType,
         pgRun' = [pgRun EXCEPT ![g] = r]
  PROVE  /\ pgRun' \in [PgSlot -> PgRunType] /\ pgRun'[g] = r
         /\ \A h \in PgSlot : h # g => pgRun'[h] = pgRun[h]
  OBVIOUS

\* A step of Serve.  After the wait of Shutdown, Serve holds the one notification or nothing.
LEMMA ServeInv ==
  ASSUME PgInv, NEW p \in Pod, PgServeStep(p)
  PROVE  PgInv'
<1> USE PostgresAssumption DEF PgInv
<1>0. /\ pg \in [Pod -> PgType] /\ pgRun \in [PgSlot -> PgRunType]
      /\ pgInbox \in [Pod -> Seq(1..MaxEvents)] /\ Len(pgEvents) \in Nat
  BY DEF PgTypeOK, PgType, PgRunType
<1>p. pg[p] \in PgType
  BY <1>0
<1>1. CASE PgServe(p)
  <2>1. /\ UNCHANGED <<pgRow, pgEvents, pgInbox>> /\ Reset
        /\ pg' = [pg EXCEPT ![p].serve = "top"] /\ pg[p].serve = "off"
    BY <1>1 DEF PgServe
  <2>2. PgTypeOK'
    <3>1. pg' \in [Pod -> PgType]
      BY <1>0, <2>1 DEF PgType
    <3> QED BY <1>0, <2>1, <3>1, ResetInv DEF PgTypeOK, PgType, PgRunType
  <2>3. EventsExist'
    BY <1>0, <2>1, ResetInv DEF EventsExist, PgType
  <2>4. ServeStops'
    <3>1. \A q \in Pod : /\ pg'[q].stop = pg[q].stop /\ pg'[q].shutdown = pg[q].shutdown
                         /\ pg'[q].serve = pg[q].serve \/ (pg'[q].serve = "top" /\ q = p)
      BY <1>0, <2>1 DEF PgType
    <3>2. \A q \in Pod : Running(q)' = Running(q)
      BY <2>1, ResetInv DEF Running
    <3> QED BY <2>1, <3>1, <3>2 DEF ServeStops
  <2> QED BY <2>1, <2>2, <2>3, <2>4, ResetInv
<1>2. CASE ServeTop(p) \/ ServeClosed(p)
  <2>1. /\ UNCHANGED <<pgRow, pgEvents, pgInbox, pgLocks, pgRun>>
        /\ pg' \in [Pod -> PgType]
        /\ \A q \in Pod : q # p => pg'[q] = pg[q]
        /\ pg'[p].stop = pg[p].stop
        /\ pg'[p].serve \in {"top", "returned", "select"}
        /\ pg'[p].shutdown \/ pg'[p].serve = "returned" \/ ~pg[p].shutdown
        /\ pg[p].serve \in {"top", "select"}
        /\ pg'[p].serve = "select" => ~pg[p].shutdown /\ pg[p].serve = "top"
    <3>1. CASE ServeTop(p) /\ pg[p].shutdown
      <4>1. pg' = [pg EXCEPT ![p] = [pg[p] EXCEPT !.serve = "returned", !.shutdown = FALSE]]
        BY <3>1 DEF ServeTop
      <4> QED BY <1>0, <3>1, <4>1 DEF ServeTop, PgType
    <3>2. CASE ServeTop(p) /\ ~pg[p].shutdown
      <4>1. pg' = [pg EXCEPT ![p] = [pg[p] EXCEPT !.serve = "select", !.shutdown = FALSE]]
        BY <3>2 DEF ServeTop
      <4>2. [pg[p] EXCEPT !.serve = "select", !.shutdown = FALSE] \in PgType
        BY <1>p DEF PgType
      <4>3. /\ [pg[p] EXCEPT !.serve = "select", !.shutdown = FALSE].serve = "select"
            /\ [pg[p] EXCEPT !.serve = "select", !.shutdown = FALSE].stop = pg[p].stop
        BY <1>0 DEF PgType
      <4> QED BY <1>0, <3>2, <4>1, <4>2, <4>3, PgUpdate DEF ServeTop
    <3>3. CASE ServeClosed(p)
      BY <1>0, <3>3 DEF ServeClosed, PgType
    <3> QED BY <1>2, <3>1, <3>2, <3>3
  <2>2. PgTypeOK'
    BY <2>1 DEF PgTypeOK, PgType
  <2>3. EventsExist'
    BY <1>0, <2>1 DEF EventsExist
  <2>4. KeysHeld' /\ DetailNotOlder'
    BY <2>1 DEF KeysHeld, DetailNotOlder, Holding, Handling
  <2>5. ServeStops'
    <3>1. \A q \in Pod : Running(q)' = Running(q)
      BY <2>1 DEF Running
    <3> QED BY <2>1, <3>1 DEF ServeStops
  <2> QED BY <2>2, <2>3, <2>4, <2>5
<1>3. CASE ServeReceive(p)
  <2>1. /\ UNCHANGED <<pgRow, pgEvents, pgLocks, pgRun>> /\ pg[p].serve = "select"
        /\ pgInbox[p] # <<>> /\ pgInbox' = [pgInbox EXCEPT ![p] = Tail(@)]
        /\ pg' = [pg EXCEPT ![p].event = Head(pgInbox[p]),
                            ![p].serve = IF pgEvents[Head(pgInbox[p])].handled
                                         THEN "acquire" ELSE "blocked"]
    BY <1>3 DEF ServeReceive
  <2>2. \A q \in Pod : pgInbox[q] \in Seq(1..Len(pgEvents))
    BY DEF EventsExist
  <2>3. /\ Head(pgInbox[p]) \in 1..Len(pgEvents) /\ Head(pgInbox[p]) \in 1..MaxEvents
        /\ Tail(pgInbox[p]) \in Seq(1..Len(pgEvents)) /\ Tail(pgInbox[p]) \in Seq(1..MaxEvents)
    BY <1>0, <2>1, <2>2, HeadTailProperties
  <2>4. /\ pg' \in [Pod -> PgType] /\ pg'[p].event \in 1..Len(pgEvents)
        /\ \A q \in Pod : q # p => pg'[q] = pg[q]
        /\ pg'[p].stop = pg[p].stop /\ pg'[p].shutdown = pg[p].shutdown
        /\ pg'[p].serve \in {"acquire", "blocked"}
    <3>1. PICK s \in {"acquire", "blocked"} :
             pg' = [pg EXCEPT ![p] = [pg[p] EXCEPT !.event = Head(pgInbox[p]), !.serve = s]]
      BY <1>0, <2>1
    <3>2. Head(pgInbox[p]) \in 0..MaxEvents
      BY <2>3
    <3> DEFINE r == [pg[p] EXCEPT !.event = Head(pgInbox[p]), !.serve = s]
    <3>3. r \in PgType
      BY <1>p, <3>2 DEF PgType
    <3>4. /\ r.event = Head(pgInbox[p]) /\ r.serve = s
          /\ r.stop = pg[p].stop /\ r.shutdown = pg[p].shutdown
      BY <1>0 DEF PgType
    <3> HIDE DEF r
    <3>5. pg' = [pg EXCEPT ![p] = r]
      BY <3>1 DEF r
    <3> QED BY <1>0, <2>3, <3>3, <3>4, <3>5, PgUpdate
  <2>5. PgTypeOK'
    BY <1>0, <2>1, <2>3, <2>4 DEF PgTypeOK, PgType
  <2>6. EventsExist'
    BY <1>0, <2>1, <2>2, <2>3, <2>4 DEF EventsExist
  <2>7. KeysHeld' /\ DetailNotOlder'
    BY <2>1 DEF KeysHeld, DetailNotOlder, Holding, Handling
  <2>8. ServeStops'
    BY <1>0, <2>1, <2>4 DEF ServeStops, Running
  <2> QED BY <2>5, <2>6, <2>7, <2>8
<1>4. ASSUME NEW g \in PgSlot, ServeStart(p, g)
      PROVE  PgInv'
  <2>1. /\ UNCHANGED <<pgRow, pgEvents, pgLocks, pgInbox>> /\ pg[p].serve = "acquire"
        /\ PgHome[g] = p /\ pgRun[g] = Idle
        /\ pgRun' = [pgRun EXCEPT ![g] = [Idle EXCEPT !.pc = "start", !.event = pg[p].event]]
        /\ pg' = [pg EXCEPT ![p].serve = "top", ![p].event = 0]
    BY <1>4 DEF ServeStart
  <2>2. pg[p].event \in 1..Len(pgEvents) /\ pg[p].event \in 0..MaxEvents
    BY <1>0, <2>1 DEF EventsExist, PgType
  <2>3. /\ pgRun' \in [PgSlot -> PgRunType]
        /\ pgRun'[g].pc = "start" /\ pgRun'[g].event = pg[p].event
        /\ \A h \in PgSlot : h # g => pgRun'[h] = pgRun[h]
        /\ pgRun[g].pc = "idle"
    <3> DEFINE r == [Idle EXCEPT !.pc = "start", !.event = pg[p].event]
    <3>1. 0 \in 0..MaxEvents
      OBVIOUS
    <3>2. r \in PgRunType /\ r.pc = "start" /\ r.event = pg[p].event
      BY <2>2, <3>1 DEF PgRunType, Idle
    <3>3. pgRun[g].pc = "idle"
      BY <2>1 DEF Idle
    <3> HIDE DEF r
    <3>4. pgRun' = [pgRun EXCEPT ![g] = r]
      BY <2>1 DEF r
    <3> QED BY <1>0, <3>2, <3>3, <3>4, RunUpdate
  <2>4. /\ pg' \in [Pod -> PgType]
        /\ \A q \in Pod : q # p => pg'[q] = pg[q]
        /\ pg'[p].stop = pg[p].stop /\ pg'[p].shutdown = pg[p].shutdown
        /\ pg'[p].serve = "top"
    <3>1. 0 \in 0..MaxEvents
      OBVIOUS
    <3> DEFINE r == [pg[p] EXCEPT !.serve = "top", !.event = 0]
    <3>2. r \in PgType /\ r.serve = "top" /\ r.stop = pg[p].stop /\ r.shutdown = pg[p].shutdown
      BY <1>p, <3>1 DEF PgType
    <3> HIDE DEF r
    <3>3. pg' = [pg EXCEPT ![p] = r]
      BY <1>0, <2>1 DEF r
    <3> QED BY <1>0, <3>2, <3>3, PgUpdate
  <2>5. PgTypeOK'
    BY <2>1, <2>3, <2>4 DEF PgTypeOK, PgType, PgRunType
  <2>6. EventsExist'
    BY <1>0, <2>1, <2>2, <2>3, <2>4 DEF EventsExist
  <2>7. KeysHeld' /\ DetailNotOlder'
    <3>1. Holding' = Holding /\ Handling' = Handling /\ g \notin Holding /\ g \notin Handling
      BY <2>3 DEF Holding, Handling
    <3>2. \A h \in Holding \cup Handling : pgRun'[h] = pgRun[h]
      BY <2>3, <3>1 DEF Holding, Handling
    <3> QED BY <2>1, <3>1, <3>2 DEF KeysHeld, DetailNotOlder
  <2>8. ServeStops'
    <3> SUFFICES ASSUME NEW q \in Pod
                 PROVE  /\ pg'[q].stop # "no" => pg'[q].shutdown \/ pg'[q].serve = "returned"
                        /\ pg'[q].stop \in {"cancel", "reset", "done"} =>
                              /\ \A h, k \in Running(q)' : h = k
                              /\ pg'[q].serve \in {"select", "acquire"} => Running(q)' = {}
      BY DEF ServeStops
    <3>1. CASE q = p
      <4>1. Running(q)' = Running(q) \cup {g}
        BY <2>1, <2>3, <3>1 DEF Running
      <4> QED BY <2>1, <2>4, <3>1, <4>1 DEF ServeStops
    <3>2. CASE q # p
      <4>1. Running(q)' = Running(q)
        BY <2>1, <2>3, <3>2 DEF Running
      <4> QED BY <2>4, <3>2, <4>1 DEF ServeStops
    <3> QED BY <3>1, <3>2
  <2> QED BY <2>5, <2>6, <2>7, <2>8
<1> QED BY <1>1, <1>2, <1>3, <1>4 DEF PgServeStep

\* A step of Shutdown.  The wait ends with no run of the process: Serve may start one more.
LEMMA ShutdownInv ==
  ASSUME PgInv, NEW p \in Pod, PgStop(p) \/ PgStopStep(p)
  PROVE  PgInv'
<1> USE PostgresAssumption DEF PgInv
<1>0. pg \in [Pod -> PgType] /\ pg[p] \in PgType
  BY DEF PgTypeOK, PgType
<1>1. CASE PgReset(p)
  <2>1. /\ UNCHANGED <<pgRow, pgEvents, pgInbox>> /\ Reset
        /\ pg' = [pg EXCEPT ![p].stop = "done"] /\ pg[p].stop = "reset"
    BY <1>1 DEF PgReset
  <2>2. PgTypeOK'
    <3>1. pg' \in [Pod -> PgType]
      BY <1>0, <2>1 DEF PgType
    <3> QED BY <2>1, <3>1, ResetInv DEF PgTypeOK, PgType, PgRunType
  <2>3. \A q \in Pod : /\ pg'[q].serve = pg[q].serve /\ pg'[q].shutdown = pg[q].shutdown
                       /\ pg'[q].event = pg[q].event
                       /\ pg'[q].stop = IF q = p THEN "done" ELSE pg[q].stop
    BY <1>0, <2>1 DEF PgType
  <2>4. EventsExist'
    BY <2>1, <2>3, ResetInv DEF EventsExist
  <2>5. ServeStops'
    <3>1. \A q \in Pod : Running(q)' = Running(q)
      BY <2>1, ResetInv DEF Running
    <3> QED BY <2>1, <2>3, <3>1 DEF ServeStops
  <2> QED BY <2>1, <2>2, <2>4, <2>5, ResetInv
<1>2. CASE PgStop(p) \/ PgClose(p) \/ PgWait(p) \/ PgCancel(p)
  <2>1. /\ UNCHANGED <<pgRow, pgEvents, pgInbox, pgLocks, pgRun>>
        /\ pg' \in [Pod -> PgType]
        /\ \A q \in Pod : q # p => pg'[q] = pg[q]
        /\ pg'[p].serve = pg[p].serve /\ pg'[p].event = pg[p].event
        /\ pg'[p].shutdown = pg[p].shutdown \/ (pg'[p].shutdown /\ pg'[p].stop = "close")
        /\ \/ pg'[p].stop = "close" /\ pg'[p].shutdown
           \/ pg'[p].stop = "wait" /\ pg[p].stop = "close"
           \/ pg'[p].stop = "cancel" /\ pg[p].stop = "wait" /\ Running(p) = {}
           \/ pg'[p].stop = "reset" /\ pg[p].stop = "cancel"
    <3>1. CASE PgStop(p)
      <4> DEFINE r == [pg[p] EXCEPT !.stop = "close", !.shutdown = TRUE]
      <4>1. /\ r \in PgType /\ r.stop = "close" /\ r.shutdown /\ r.serve = pg[p].serve
            /\ r.event = pg[p].event
        BY <1>0 DEF PgType
      <4> HIDE DEF r
      <4>2. pg' = [pg EXCEPT ![p] = r] /\ UNCHANGED <<pgRow, pgEvents, pgInbox, pgLocks, pgRun>>
        BY <1>0, <3>1 DEF PgStop, r
      <4> QED BY <1>0, <4>1, <4>2, PgUpdate
    <3>2. CASE PgClose(p)
      <4> DEFINE r == [pg[p] EXCEPT !.stop = "wait", !.closed = TRUE]
      <4>1. /\ r \in PgType /\ r.stop = "wait" /\ r.shutdown = pg[p].shutdown
            /\ r.serve = pg[p].serve /\ r.event = pg[p].event
        BY <1>0 DEF PgType
      <4> HIDE DEF r
      <4>2. /\ pg' = [pg EXCEPT ![p] = r] /\ pg[p].stop = "close"
            /\ UNCHANGED <<pgRow, pgEvents, pgInbox, pgLocks, pgRun>>
        BY <1>0, <3>2 DEF PgClose, r
      <4> QED BY <1>0, <4>1, <4>2, PgUpdate
    <3>3. CASE PgWait(p)
      BY <1>0, <3>3 DEF PgWait, PgType
    <3>4. CASE PgCancel(p)
      <4> DEFINE r == [pg[p] EXCEPT !.stop = "reset", !.ctx = FALSE]
      <4>1. /\ r \in PgType /\ r.stop = "reset" /\ r.shutdown = pg[p].shutdown
            /\ r.serve = pg[p].serve /\ r.event = pg[p].event
        BY <1>0 DEF PgType
      <4> HIDE DEF r
      <4>2. /\ pg' = [pg EXCEPT ![p] = r] /\ pg[p].stop = "cancel"
            /\ UNCHANGED <<pgRow, pgEvents, pgInbox, pgLocks, pgRun>>
        BY <1>0, <3>4 DEF PgCancel, r
      <4> QED BY <1>0, <4>1, <4>2, PgUpdate
    <3> QED BY <1>2, <3>1, <3>2, <3>3, <3>4
  <2>2. PgTypeOK'
    BY <2>1 DEF PgTypeOK, PgType
  <2>3. EventsExist'
    BY <2>1 DEF EventsExist
  <2>4. KeysHeld' /\ DetailNotOlder'
    BY <2>1 DEF KeysHeld, DetailNotOlder, Holding, Handling
  <2>5. ServeStops'
    <3>1. \A q \in Pod : Running(q)' = Running(q)
      BY <2>1 DEF Running
    <3> QED BY <2>1, <3>1 DEF ServeStops
  <2> QED BY <2>2, <2>3, <2>4, <2>5
<1> QED BY <1>1, <1>2 DEF PgStopStep

(***************************************************************************)
(* A step of a run.  The key it deletes at its end may be the one of       *)
(* another run only when its own was lost; then the other one is told.     *)
(***************************************************************************)
LEMMA RunInv ==
  ASSUME PgInv, NEW g \in PgSlot, PgRunStep(g)
  PROVE  PgInv'
<1> USE PostgresAssumption DEF PgInv
<1>0. pgRun \in [PgSlot -> PgRunType] /\ pgRun[g] \in PgRunType
  BY DEF PgTypeOK, PgRunType
<1>1. UNCHANGED <<pgRow, pgEvents, pgInbox, pg>>
  BY DEF PgRunStep, RunStart, RunLock, RunRead, RunHandler, RunEnd
<1>2. /\ Idle \in PgRunType /\ Idle.pc = "idle"
  BY DEF Idle, PgRunType
<1>3. pgRun[g].pc # "idle"
  BY DEF PgRunStep, RunStart, RunLock, RunRead, RunHandler, RunEnd
<1>4. pgRun[g].event \in 1..Len(pgEvents) /\ pgRun[g].event \in 1..MaxEvents
  BY <1>0, <1>3 DEF EventsExist, PgTypeOK
\* What the types, the existence and the shutdown need of a step.
<1>5. ASSUME pgRun' \in [PgSlot -> PgRunType], pgLocks' \subseteq 1..Len(pgEvents),
             \A h \in PgSlot : \/ pgRun'[h].pc = "idle"
                               \/ pgRun[h].pc # "idle" /\ pgRun'[h].event = pgRun[h].event
      PROVE  PgTypeOK' /\ EventsExist' /\ ServeStops'
  <2>1. PgTypeOK'
    <3>1. pgLocks' \subseteq 1..MaxEvents
      BY <1>5 DEF EventsExist, PgTypeOK
    <3> QED BY <1>1, <1>5, <3>1 DEF PgTypeOK, PgRunType
  <2>2. EventsExist'
    BY <1>1, <1>5 DEF EventsExist
  <2>3. ServeStops'
    <3>1. \A q \in Pod : Running(q)' \subseteq Running(q)
      BY <1>5 DEF Running
    <3> QED BY <1>1, <3>1 DEF ServeStops
  <2> QED BY <2>1, <2>2, <2>3
<1>6. pgLocks \subseteq 1..Len(pgEvents)
  BY DEF EventsExist
<1>7. CASE RunStart(g) \/ RunHandler(g) \/ RunRead(g)
  <2>1. PICK r \in PgRunType :
           /\ pgRun' = [pgRun EXCEPT ![g] = r]
           /\ r.pc = "idle" \/ (r.event = pgRun[g].event /\ r.lost = pgRun[g].lost)
           /\ r.pc \in {"read", "handler", "unlock"} => g \in Holding
           /\ r.pc = "unlock" => g \in Handling /\ r.seen = pgRun[g].seen
           /\ r.pc = "handler" => r.seen = Payload(pgRun[g].event)
    <3>1. CASE RunStart(g) /\ pg[PgHome[g]].ctx
      <4> DEFINE r == [pgRun[g] EXCEPT !.pc = "lock"]
      <4>1. r \in PgRunType /\ r.pc = "lock" /\ r.event = pgRun[g].event /\ r.lost = pgRun[g].lost
        BY <1>0 DEF PgRunType
      <4>2. pgRun' = [pgRun EXCEPT ![g] = r]
        BY <1>0, <3>1 DEF RunStart
      <4> QED BY <4>1, <4>2
    <3>2. CASE RunStart(g) /\ ~pg[PgHome[g]].ctx
      BY <1>2, <3>2 DEF RunStart
    <3>3. CASE RunHandler(g)
      <4> DEFINE r == [pgRun[g] EXCEPT !.pc = "unlock"]
      <4>1. /\ r \in PgRunType /\ r.pc = "unlock" /\ r.event = pgRun[g].event
            /\ r.lost = pgRun[g].lost /\ r.seen = pgRun[g].seen
        BY <1>0 DEF PgRunType
      <4>2. pgRun' = [pgRun EXCEPT ![g] = r] /\ g \in Holding /\ g \in Handling
        BY <1>0, <3>3 DEF RunHandler, Holding, Handling
      <4> HIDE DEF r
      <4> QED BY <4>1, <4>2
    <3>4. CASE RunRead(g)
      <4> DEFINE r == [pgRun[g] EXCEPT !.pc = "handler", !.seen = Payload(pgRun[g].event)]
      <4>1. Payload(pgRun[g].event) \in 0..MaxEvents
        <5> DEFINE Event == [handled : BOOLEAN, action : {"INSERT", "UPDATE", "DELETE"},
                             version : 0..MaxEvents, long : BOOLEAN]
        <5>1. pgEvents \in Seq(Event) /\ pgRow \in 0..MaxEvents
          BY DEF PgTypeOK
        <5>2. pgEvents[pgRun[g].event] \in Event
          BY <1>4, <5>1, ElementOfSeq
        <5> QED BY <5>1, <5>2 DEF Payload
      <4>2. /\ r \in PgRunType /\ r.pc = "handler" /\ r.event = pgRun[g].event
            /\ r.lost = pgRun[g].lost /\ r.seen = Payload(pgRun[g].event)
        BY <1>0, <4>1 DEF PgRunType
      <4> HIDE DEF r
      <4>3. pgRun' = [pgRun EXCEPT ![g] = r] /\ g \in Holding
        BY <1>0, <3>4 DEF RunRead, Holding, r
      <4> QED BY <4>2, <4>3
    <3> QED BY <1>7, <3>1, <3>2, <3>3, <3>4
  <2>2. UNCHANGED pgLocks
    BY <1>7 DEF RunStart, RunHandler, RunRead
  <2>3. /\ pgRun' \in [PgSlot -> PgRunType] /\ pgRun'[g] = r
        /\ \A h \in PgSlot : h # g => pgRun'[h] = pgRun[h]
    BY <1>0, <2>1, RunUpdate
  <2>4. PgTypeOK' /\ EventsExist' /\ ServeStops'
    BY <1>3, <1>5, <1>6, <2>1, <2>2, <2>3
  <2>5. KeysHeld'
    <3>1. /\ Holding' \subseteq Holding
          /\ \A h \in Holding' : /\ pgRun'[h].event = pgRun[h].event
                                 /\ pgRun'[h].lost = pgRun[h].lost
      BY <2>1, <2>3 DEF Holding
    <3> QED BY <2>2, <3>1 DEF KeysHeld
  <2>6. DetailNotOlder'
    <3>1. \A h \in Handling' : h # g => h \in Handling /\ pgRun'[h] = pgRun[h]
      BY <2>3 DEF Handling
    <3>2. ASSUME g \in Handling'
          PROVE  r.seen = 0 \/ r.seen >= pgEvents[r.event].version
      <4>1. r.pc \in {"handler", "unlock"}
        BY <2>3, <3>2 DEF Handling
      <4>2. CASE r.pc = "handler"
        <5>1. \A e \in 1..Len(pgEvents) : pgRow = 0 \/ pgEvents[e].version <= pgRow
          BY DEF EventsExist
        <5>2. pgRow \in Nat /\ \A e \in 1..Len(pgEvents) : pgEvents[e].version \in Nat
          BY PgVersions
        <5> QED BY <1>4, <2>1, <4>2, <5>1, <5>2 DEF Payload
      <4>3. CASE r.pc = "unlock"
        BY <2>1, <4>3 DEF DetailNotOlder
      <4> QED BY <4>1, <4>2, <4>3
    <3> QED BY <1>1, <2>3, <3>1, <3>2 DEF DetailNotOlder, Handling
  <2> QED BY <2>4, <2>5, <2>6
<1>8. CASE RunLock(g)
  <2>1. CASE pgRun[g].event \in pgLocks
    <3>1. pgRun' = [pgRun EXCEPT ![g] = Idle] /\ pgLocks' = pgLocks
      BY <1>8, <2>1 DEF RunLock
    <3>2. /\ pgRun' \in [PgSlot -> PgRunType] /\ pgRun'[g] = Idle
          /\ \A h \in PgSlot : h # g => pgRun'[h] = pgRun[h]
      BY <1>0, <1>2, <3>1, RunUpdate
    <3>3. PgTypeOK' /\ EventsExist' /\ ServeStops'
      BY <1>2, <1>3, <1>5, <1>6, <3>1, <3>2
    <3>4. KeysHeld' /\ DetailNotOlder'
      BY <1>1, <1>2, <3>1, <3>2 DEF KeysHeld, DetailNotOlder, Holding, Handling
    <3> QED BY <3>3, <3>4
  <2>2. CASE pgRun[g].event \notin pgLocks
    <3> DEFINE r == [pgRun[g] EXCEPT !.pc = "read"]
    <3>1. r \in PgRunType /\ r.pc = "read" /\ r.event = pgRun[g].event
      BY <1>0 DEF PgRunType
    <3> HIDE DEF r
    <3>2. pgRun' = [pgRun EXCEPT ![g] = r] /\ pgLocks' = pgLocks \cup {pgRun[g].event}
      BY <1>8, <2>2 DEF RunLock, r
    <3>3. /\ pgRun' \in [PgSlot -> PgRunType] /\ pgRun'[g] = r
          /\ \A h \in PgSlot : h # g => pgRun'[h] = pgRun[h]
      BY <1>0, <3>1, <3>2, RunUpdate
    <3>4. PgTypeOK' /\ EventsExist' /\ ServeStops'
      BY <1>3, <1>4, <1>5, <1>6, <3>1, <3>2, <3>3
    <3>5. KeysHeld'
      <4>1. \A h \in Holding : pgRun[h].event = pgRun[g].event => pgRun[h].lost
        BY <2>2 DEF KeysHeld
      <4>2. \A h \in Holding' : h = g \/ (h \in Holding /\ pgRun'[h] = pgRun[h])
        BY <3>3 DEF Holding
      <4>3. \A h \in Holding' : pgRun'[h].lost \/ pgRun'[h].event \in pgLocks'
        BY <3>1, <3>2, <3>3, <4>2 DEF KeysHeld
      <4>4. \A h, k \in Holding' : h # k /\ pgRun'[h].event = pgRun'[k].event
                                    => pgRun'[h].lost \/ pgRun'[k].lost
        BY <3>1, <3>3, <4>1, <4>2 DEF KeysHeld
      <4> QED BY <4>3, <4>4 DEF KeysHeld
    <3>6. DetailNotOlder'
      BY <1>1, <3>1, <3>3 DEF DetailNotOlder, Handling
    <3> QED BY <3>4, <3>5, <3>6
  <2> QED BY <2>1, <2>2
<1>9. CASE RunEnd(g)
  <2>1. pgLocks' = pgLocks \ {pgRun[g].event}
    BY <1>9 DEF RunEnd
  <2>2. PICK W \in [PgSlot -> PgRunType] :
          /\ pgRun' = [W EXCEPT ![g] = Idle]
          /\ \A h \in PgSlot : /\ W[h].pc = pgRun[h].pc /\ W[h].event = pgRun[h].event
                               /\ W[h].seen = pgRun[h].seen
                               /\ pgRun[h].lost => W[h].lost
                               /\ h \in Holding /\ pgRun[h].event = pgRun[g].event => W[h].lost
    <3>1. pgRun' = [WithoutKeys({pgRun[g].event}) EXCEPT ![g] = Idle]
      BY <1>9 DEF RunEnd
    <3> DEFINE V == WithoutKeys({pgRun[g].event})
    <3>2. PgTypeOK
      OBVIOUS
    <3>3. /\ V \in [PgSlot -> PgRunType]
          /\ \A h \in PgSlot :
                /\ V[h].pc = pgRun[h].pc /\ V[h].event = pgRun[h].event
                /\ V[h].seen = pgRun[h].seen
                /\ pgRun[h].lost => V[h].lost
                /\ h \in Holding /\ pgRun[h].event = pgRun[g].event => V[h].lost
      BY <3>2, WithoutKeysRuns
    <3> HIDE DEF V
    <3>4. pgRun' = [V EXCEPT ![g] = Idle]
      BY <3>1 DEF V
    <3> QED BY <3>3, <3>4
  <2>3. /\ pgRun' \in [PgSlot -> PgRunType] /\ pgRun'[g].pc = "idle"
        /\ \A h \in PgSlot : h # g => pgRun'[h] = W[h]
    BY <1>2, <2>1, <2>2
  <2>4. PgTypeOK' /\ EventsExist' /\ ServeStops'
    <3>1. pgLocks' \subseteq 1..Len(pgEvents)
      BY <1>6, <2>1
    <3>2. \A h \in PgSlot : \/ pgRun'[h].pc = "idle"
                            \/ pgRun[h].pc # "idle" /\ pgRun'[h].event = pgRun[h].event
      BY <2>2, <2>3
    <3> QED BY <1>5, <2>3, <3>1, <3>2
  <2>5. \A h \in Holding' : h # g /\ h \in Holding /\ pgRun'[h] = W[h]
    BY <2>2, <2>3 DEF Holding
  <2>6. KeysHeld'
    <3>1. \A h \in Holding' : pgRun'[h].lost \/ pgRun'[h].event \in pgLocks'
      BY <2>1, <2>2, <2>5 DEF KeysHeld, Holding
    <3>2. \A h, k \in Holding' : h # k /\ pgRun'[h].event = pgRun'[k].event
                                  => pgRun'[h].lost \/ pgRun'[k].lost
      BY <2>2, <2>5 DEF KeysHeld, Holding
    <3> QED BY <3>1, <3>2 DEF KeysHeld
  <2>7. DetailNotOlder'
    BY <1>1, <2>2, <2>3 DEF DetailNotOlder, Handling
  <2> QED BY <2>4, <2>6, <2>7
<1> QED BY <1>7, <1>8, <1>9 DEF PgRunStep

\* What the listener keeps is a matter of its own variables.
LEMMA PgStutter ==
  ASSUME PgInv, UNCHANGED pgVars
  PROVE  PgInv'
<1> USE DEF pgVars, PgInv
<1>1. PgTypeOK' /\ EventsExist'
  BY DEF PgTypeOK, EventsExist
<1>2. KeysHeld' /\ DetailNotOlder'
  BY DEF KeysHeld, DetailNotOlder, Holding, Handling
<1>3. ServeStops'
  BY DEF ServeStops, Running
<1> QED BY <1>1, <1>2, <1>3

\* Every step of the listener.
LEMMA PgNextInv ==
  ASSUME PgInv, SomeProcess, PgNext \/ (\E p \in Pod : PgStop(p))
  PROVE  PgInv'
  BY WriteInv, ServeInv, ShutdownInv, RunInv DEF PgNext

\* The runs that can meet in the handler are among those that hold a key.
LEMMA PgInvImplies ==
  ASSUME PgInv
  PROVE  OneHandlerPerEvent /\ OneStraggler
<1>1. OneHandlerPerEvent
  BY DEF PgInv, KeysHeld, OneHandlerPerEvent, Holding, Handling
<1>2. ASSUME NEW p \in Pod, pg[p].stop = "done"
      PROVE  Cardinality(Running(p)) + (IF pg[p].serve \in {"select", "acquire"} THEN 1 ELSE 0) <= 1
  <2>1. Cardinality(Running(p)) <= 1 /\ Cardinality(Running(p)) \in Nat
    BY <1>2, AtMostOne DEF PgInv, ServeStops
  <2>2. pg[p].serve \in {"select", "acquire"} => Cardinality(Running(p)) = 0
    BY <1>2, FS_EmptySet DEF PgInv, ServeStops
  <2> QED BY <2>1, <2>2
<1> QED BY <1>1, <1>2 DEF OneStraggler

-----------------------------------------------------------------------------
\* The Kafka consumer

ConsumerType == [serve : {"off", "consume", "returned"}, cancelFunc : BOOLEAN,
                 cancelled : BOOLEAN, ready : BOOLEAN,
                 session : {"none", "active", "ending"}, claim : BOOLEAN, handler : BOOLEAN,
                 position : 0..MaxMessages, marked : 0..MaxMessages,
                 stop : {"no", "close", "done"}]

ExitType == {"none", "absent", "success", "forced", "timeout", "panic", "fatal", "crash", "killed"}

\* Nothing is published or consumed at first.
LEMMA KafkaInitInv ==
  ASSUME KafkaInit, exit \in [Pod -> {"none", "absent"}]
  PROVE  KafkaInv
<1>1. KafkaTypeOK
  <2>1. 0 \in 0..MaxMessages /\ 0 \in 0..MaxTroubles /\ 0 \in 0..0
    BY KafkaAssumption
  <2>2. kafka \in [Pod -> ConsumerType]
    BY <2>1 DEF KafkaInit, ConsumerType
  <2> QED BY <2>1, <2>2 DEF KafkaInit, KafkaTypeOK, ConsumerType
<1>2. OffsetsHandled
  <2>1. 0..(0 - 1) = {}
    OBVIOUS
  <2>2. kLog = 0 /\ kCommitted = 0 /\ \A p \in Pod : /\ kafka[p].position = 0 /\ kafka[p].marked = 0
                                                     /\ kafka[p].handler = FALSE
    BY DEF KafkaInit
  <2> QED BY <2>1, <2>2 DEF OffsetsHandled, NoMessageSkipped
<1>3. SessionsKept
  BY ProcessAssumption DEF KafkaInit, SessionsKept
<1>4. CrashOnlyBeforeServe
  BY DEF CrashOnlyBeforeServe
<1> QED BY <1>1, <1>2, <1>3, <1>4 DEF KafkaInv

\* A step that changes the consumer of one process.
LEMMA ConsumerUpdate ==
  ASSUME kafka \in [Pod -> ConsumerType], NEW p \in Pod, NEW r \in ConsumerType,
         kafka' = [kafka EXCEPT ![p] = r]
  PROVE  /\ kafka' \in [Pod -> ConsumerType] /\ kafka'[p] = r
         /\ \A q \in Pod : q # p => kafka'[q] = kafka[q]
  OBVIOUS

\* A message that is published is not handled, and skipped by nobody.
LEMMA PublishInv ==
  ASSUME KafkaInv, SomeProcess, PublishMessage
  PROVE  KafkaInv'
<1> USE KafkaAssumption
<1>1. kLog \in Nat /\ kLog' = kLog + 1
  BY DEF KafkaInv, KafkaTypeOK, PublishMessage
<1>2. kLog + 1 <= MaxMessages
  BY <1>1, ReplicasBound DEF PublishMessage
<1>3. UNCHANGED <<kCommitted, kOwner, kRan, kTroubles, kafka, exit>>
  BY DEF PublishMessage
<1>4. KafkaTypeOK'
  BY <1>1, <1>2, <1>3 DEF KafkaInv, KafkaTypeOK
<1>5. OffsetsHandled'
  <2>1. \A p \in Pod : kafka[p].position \in Nat
    BY DEF KafkaInv, KafkaTypeOK
  <2> QED BY <1>1, <1>3, <2>1 DEF KafkaInv, OffsetsHandled, NoMessageSkipped
<1>6. SessionsKept' /\ CrashOnlyBeforeServe'
  BY <1>3 DEF KafkaInv, SessionsKept, CrashOnlyBeforeServe
<1> QED BY <1>4, <1>5, <1>6 DEF KafkaInv

\* Trouble is bounded.
LEMMA TroubleBound ==
  ASSUME KafkaTypeOK, SomeProcess, Trouble
  PROVE  kTroubles + 1 \in 0..MaxTroubles
<1>1. kTroubles + 1 \in Nat /\ (kTroubles + 1) * Replicas <= MaxTroubles
  BY DEF KafkaTypeOK, Trouble
<1> QED BY <1>1, ReplicasBound, KafkaAssumption

(***************************************************************************)
(* The steps of one process: what changes is its consumer, maybe the       *)
(* owner, the offset and what was handled.  Each of the facts below is     *)
(* what an action shows about its own step, to the consumer r.             *)
(***************************************************************************)
StepTo(p, r) ==
    /\ kafka' = [kafka EXCEPT ![p] = r] /\ UNCHANGED kLog /\ kTroubles' \in 0..MaxTroubles
    /\ kOwner' \in {kOwner, None, p} /\ (kOwner' = p => r.session # "none")
    /\ kCommitted' = kCommitted \/ (kCommitted' = kafka[p].marked /\ kCommitted' >= kCommitted)
    /\ kRan' = kRan \/ (kRan' = kRan \cup {kafka[p].position} /\ kafka[p].position < kLog)
    /\ \/ r.position = kafka[p].position
       \/ r.position = kCommitted
       \/ /\ r.position = kafka[p].position + 1 /\ kafka[p].position \in kRan'
          /\ kafka[p].position < kLog
    /\ r.marked <= r.position
    /\ r.handler => r.position < kLog /\ r.session # "none"
    /\ r.session = "none" /\ ~r.cancelled => ~r.ready
    /\ r.stop # "no" => r.cancelled
    /\ r.stop = "done" => r.session = "none"

\* What such a step keeps.
LEMMA ConsumerStep ==
  ASSUME KafkaInv, NEW p \in Pod, NEW r \in ConsumerType, StepTo(p, r)
  PROVE  KafkaTypeOK' /\ OffsetsHandled' /\ SessionsKept'
<1> USE KafkaAssumption DEF KafkaInv, StepTo
<1>0. /\ kafka \in [Pod -> ConsumerType] /\ kLog \in 0..MaxMessages /\ kCommitted \in 0..kLog
      /\ kRan \subseteq 0..(MaxMessages - 1) /\ kOwner \in Pod \cup {None}
      /\ kafka[p].position \in 0..MaxMessages /\ kafka[p].marked \in 0..MaxMessages
      /\ r.position \in 0..MaxMessages /\ r.marked \in 0..MaxMessages
  BY DEF KafkaTypeOK, ConsumerType
<1>1. /\ kafka' \in [Pod -> ConsumerType] /\ kafka'[p] = r
      /\ \A q \in Pod : q # p => kafka'[q] = kafka[q]
  BY <1>0, ConsumerUpdate
<1>2. kRan \subseteq kRan' /\ kRan' \subseteq 0..(MaxMessages - 1)
  <2>1. kafka[p].position < kLog => kafka[p].position \in 0..(MaxMessages - 1)
    BY <1>0
  <2> QED BY <1>0, <2>1
<1>3. /\ kafka[p].marked <= kafka[p].position /\ kafka[p].position <= kLog
      /\ 0..(kafka[p].position - 1) \subseteq kRan
      /\ 0..(kCommitted - 1) \subseteq kRan
  BY DEF OffsetsHandled, NoMessageSkipped
<1>4. kCommitted' \in 0..kLog /\ 0..(kCommitted' - 1) \subseteq kRan'
  <2>1. CASE kCommitted' = kCommitted
    BY <1>0, <1>2, <1>3, <2>1
  <2>2. CASE kCommitted' = kafka[p].marked
    <3>1. 0..(kCommitted' - 1) \subseteq 0..(kafka[p].position - 1)
      BY <1>0, <1>3, <2>2
    <3> QED BY <1>0, <1>2, <1>3, <2>2, <3>1
  <2> QED BY <2>1, <2>2
<1>5. r.position <= kLog /\ 0..(r.position - 1) \subseteq kRan'
  <2>1. CASE r.position = kafka[p].position
    BY <1>2, <1>3, <2>1
  <2>2. CASE r.position = kCommitted
    BY <1>0, <1>2, <1>3, <2>2
  <2>3. CASE /\ r.position = kafka[p].position + 1
             /\ kafka[p].position \in kRan' /\ kafka[p].position < kLog
    <3>1. 0..(r.position - 1) = 0..(kafka[p].position - 1) \cup {kafka[p].position}
      BY <1>0, <2>3
    <3> QED BY <1>0, <1>2, <1>3, <2>3, <3>1
  <2> QED BY <2>1, <2>2, <2>3
<1>6. KafkaTypeOK'
  BY <1>0, <1>1, <1>2, <1>4 DEF KafkaTypeOK, ConsumerType
<1>7. OffsetsHandled'
  <2> SUFFICES ASSUME NEW q \in Pod
               PROVE  /\ kafka'[q].marked <= kafka'[q].position /\ kafka'[q].position <= kLog
                      /\ 0..(kafka'[q].position - 1) \subseteq kRan'
                      /\ kafka'[q].handler => kafka'[q].position < kLog
    BY <1>4 DEF OffsetsHandled, NoMessageSkipped
  <2>1. CASE q = p
    BY <1>1, <1>5, <2>1
  <2>2. CASE q # p
    BY <1>1, <1>2, <2>2 DEF OffsetsHandled
  <2> QED BY <2>1, <2>2
<1>8. SessionsKept'
  <2> SUFFICES ASSUME NEW q \in Pod
               PROVE  /\ kafka'[q].handler \/ kOwner' = q => kafka'[q].session # "none"
                      /\ kafka'[q].session = "none" /\ ~kafka'[q].cancelled => ~kafka'[q].ready
                      /\ kafka'[q].stop # "no" => kafka'[q].cancelled
                      /\ kafka'[q].stop = "done" => kafka'[q].session = "none"
    BY DEF SessionsKept
  <2>1. CASE q = p
    BY <1>1, <2>1
  <2>2. CASE q # p
    <3>1. kOwner' = q => kOwner = q
      BY <2>2, ProcessAssumption
    <3> QED BY <1>1, <2>2, <3>1 DEF SessionsKept
  <2> QED BY <2>1, <2>2
<1> QED BY <1>6, <1>7, <1>8

\* A process that crashed stays crashed, and no Serve of it stores cancelFunc any more.
LEMMA CrashStep ==
  ASSUME CrashOnlyBeforeServe, NEW p \in Pod, Alive(p),
         kafka \in [Pod -> ConsumerType], NEW r \in ConsumerType,
         kafka' = kafka \/ kafka' = [kafka EXCEPT ![p] = r],
         exit \in [Pod -> ExitType],
         \/ exit' = exit
         \/ \E e \in ExitType : exit' = [exit EXCEPT ![p] = e]
                                 /\ (e = "crash" => ~kafka'[p].cancelFunc)
  PROVE  CrashOnlyBeforeServe'
<1> SUFFICES ASSUME NEW q \in Pod, exit'[q] = "crash"
             PROVE  ~kafka'[q].cancelFunc
  BY DEF CrashOnlyBeforeServe
<1>1. CASE q = p
  BY <1>1 DEF Alive
<1>2. CASE q # p
  BY <1>2 DEF CrashOnlyBeforeServe
<1> QED BY <1>1, <1>2

\* A step of the consumer of a process that does not concern its offsets.
LEMMA ConsumeInv ==
  ASSUME KafkaInv, SomeProcess, exit \in [Pod -> ExitType], NEW p \in Pod,
         KafkaServe(p) \/ ConsumeFails(p) \/ Setup(p) \/ SessionEnds(p)
  PROVE  KafkaInv'
<1> USE DEF KafkaInv
<1>0. kafka \in [Pod -> ConsumerType] /\ kafka[p] \in ConsumerType /\ kTroubles \in 0..MaxTroubles
  BY DEF KafkaTypeOK, ConsumerType
<1>1. /\ kafka[p].marked <= kafka[p].position
      /\ kafka[p].handler => kafka[p].position < kLog /\ kafka[p].session # "none"
      /\ kOwner = p => kafka[p].session # "none"
      /\ kafka[p].session = "none" /\ ~kafka[p].cancelled => ~kafka[p].ready
      /\ kafka[p].stop # "no" => kafka[p].cancelled
      /\ kafka[p].stop = "done" => kafka[p].session = "none"
      /\ kOwner \in Pod \cup {None} /\ kCommitted \in 0..MaxMessages
  <2>1. kCommitted \in 0..MaxMessages
    BY KafkaAssumption DEF KafkaTypeOK
  <2> QED BY <2>1 DEF OffsetsHandled, SessionsKept, KafkaTypeOK
<1>2. CASE KafkaServe(p)
  <2> DEFINE r == [kafka[p] EXCEPT !.serve = "consume", !.cancelFunc = TRUE]
  <2>1. /\ r \in ConsumerType
        /\ r.position = kafka[p].position /\ r.marked = kafka[p].marked
        /\ r.handler = kafka[p].handler /\ r.session = kafka[p].session
        /\ r.ready = kafka[p].ready /\ r.cancelled = kafka[p].cancelled
        /\ r.stop = kafka[p].stop
    BY <1>0 DEF ConsumerType
  <2> HIDE DEF r
  <2>2. /\ kafka' = [kafka EXCEPT ![p] = r] /\ Alive(p)
        /\ UNCHANGED <<kLog, kCommitted, kOwner, kRan, kTroubles, exit>>
    BY <1>0, <1>2 DEF KafkaServe, r
  <2>3. KafkaTypeOK' /\ OffsetsHandled' /\ SessionsKept'
    <3>1. StepTo(p, r)
      BY <1>0, <1>1, <2>1, <2>2 DEF StepTo
    <3> QED BY <2>1, <3>1, ConsumerStep
  <2>4. CrashOnlyBeforeServe'
    BY <1>0, <2>1, <2>2, CrashStep
  <2> QED BY <2>3, <2>4
<1>3. CASE ConsumeFails(p)
  <2>1. /\ Alive(p) /\ kafka[p].session = "none"
        /\ kTroubles' \in 0..MaxTroubles
        /\ UNCHANGED <<kLog, kCommitted, kOwner, kRan>>
    BY <1>0, <1>3, TroubleBound DEF ConsumeFails
  <2>2. CASE exit' = exit /\ kafka' = [kafka EXCEPT ![p] = AfterConsume(@)]
    <3> DEFINE r == AfterConsume(kafka[p])
    <3>1. /\ r \in ConsumerType
          /\ r.position = kafka[p].position /\ r.marked = kafka[p].marked
          /\ r.handler = kafka[p].handler /\ r.session = "none"
          /\ ~r.cancelled => ~r.ready
          /\ r.cancelled = kafka[p].cancelled /\ r.stop = kafka[p].stop
      BY <1>0 DEF AfterConsume, ConsumerType
    <3> HIDE DEF r
    <3>2. kafka' = [kafka EXCEPT ![p] = r]
      BY <1>0, <2>2 DEF r
    <3>3. KafkaTypeOK' /\ OffsetsHandled' /\ SessionsKept'
      <4>1. StepTo(p, r)
        BY <1>0, <1>1, <2>1, <3>1, <3>2 DEF StepTo
      <4> QED BY <3>1, <4>1, ConsumerStep
    <3>4. CrashOnlyBeforeServe'
      BY <1>0, <2>1, <2>2, <3>1, <3>2, CrashStep
    <3> QED BY <3>3, <3>4
  <2>3. CASE exit' = [exit EXCEPT ![p] = "fatal"] /\ UNCHANGED kafka
    <3>1. KafkaTypeOK' /\ OffsetsHandled' /\ SessionsKept'
      BY <2>1, <2>3 DEF KafkaTypeOK, OffsetsHandled, NoMessageSkipped, SessionsKept
    <3>2. CrashOnlyBeforeServe'
      BY <1>0, <2>1, <2>3, CrashStep DEF ExitType
    <3> QED BY <3>1, <3>2
  <2> QED BY <1>3, <2>2, <2>3 DEF ConsumeFails
<1>4. CASE Setup(p)
  <2>1. ~kafka[p].ready /\ Alive(p) /\ kafka[p].session = "none" /\ ~kafka[p].cancelled
    BY <1>1, <1>4 DEF Setup
  <2> DEFINE r == [kafka[p] EXCEPT !.ready = TRUE, !.session = "active",
                                   !.claim = (kOwner = None),
                                   !.position = kCommitted, !.marked = kCommitted]
  <2>2. /\ r \in ConsumerType
        /\ r.position = kCommitted /\ r.marked = kCommitted
        /\ r.handler = kafka[p].handler /\ r.session = "active"
        /\ r.cancelled = kafka[p].cancelled /\ r.stop = kafka[p].stop
    <3>1. (kOwner = None) \in BOOLEAN
      OBVIOUS
    <3> QED BY <1>0, <1>1, <3>1 DEF ConsumerType
  <2> HIDE DEF r
  <2>3. /\ kafka' = [kafka EXCEPT ![p] = r]
        /\ UNCHANGED <<kLog, kCommitted, kRan, kTroubles, exit>>
        /\ kOwner' = IF kOwner = None THEN p ELSE kOwner
    BY <1>0, <1>4, <2>1 DEF Setup, r
  <2>4. KafkaTypeOK' /\ OffsetsHandled' /\ SessionsKept'
    <3>1. kCommitted \in Nat /\ ~kafka[p].handler /\ kafka[p].stop = "no"
      BY <1>0, <1>1, <2>1
    <3>2. StepTo(p, r)
      BY <1>0, <1>1, <2>1, <2>2, <2>3, <3>1 DEF StepTo
    <3> QED BY <2>2, <3>2, ConsumerStep
  <2>5. CrashOnlyBeforeServe'
    BY <1>0, <2>1, <2>2, <2>3, CrashStep
  <2> QED BY <2>4, <2>5
<1>5. CASE SessionEnds(p)
  <2>1. /\ Alive(p) /\ kafka[p].session = "active"
        /\ kTroubles' \in 0..MaxTroubles
        /\ UNCHANGED <<kLog, kCommitted, kOwner, kRan, exit>>
    BY <1>0, <1>5, TroubleBound DEF SessionEnds
  <2> DEFINE r == [kafka[p] EXCEPT !.session = "ending"]
  <2>2. /\ r \in ConsumerType
        /\ r.position = kafka[p].position /\ r.marked = kafka[p].marked
        /\ r.handler = kafka[p].handler /\ r.session = "ending"
        /\ r.cancelled = kafka[p].cancelled /\ r.stop = kafka[p].stop
    BY <1>0 DEF ConsumerType
  <2> HIDE DEF r
  <2>3. kafka' = [kafka EXCEPT ![p] = r]
    BY <1>0, <1>5 DEF SessionEnds, r
  <2>4. KafkaTypeOK' /\ OffsetsHandled' /\ SessionsKept'
    <3>1. StepTo(p, r)
      BY <1>0, <1>1, <2>1, <2>2, <2>3 DEF StepTo
    <3> QED BY <2>2, <3>1, ConsumerStep
  <2>5. CrashOnlyBeforeServe'
    BY <1>0, <2>1, <2>2, <2>3, CrashStep
  <2> QED BY <2>4, <2>5
<1> QED BY <1>2, <1>3, <1>4, <1>5

\* A handler starts and returns: the mark follows the position, and never overtakes it.
LEMMA HandleInv ==
  ASSUME KafkaInv, exit \in [Pod -> ExitType], NEW p \in Pod,
         ConsumeClaim(p) \/ ProcessMessage(p)
  PROVE  KafkaInv'
<1> USE DEF KafkaInv
<1>0. kafka \in [Pod -> ConsumerType] /\ kafka[p] \in ConsumerType /\ kTroubles \in 0..MaxTroubles
  BY DEF KafkaTypeOK, ConsumerType
<1>1. /\ kafka[p].marked <= kafka[p].position
      /\ kafka[p].handler => kafka[p].position < kLog /\ kafka[p].session # "none"
      /\ kOwner = p => kafka[p].session # "none"
      /\ kafka[p].session = "none" /\ ~kafka[p].cancelled => ~kafka[p].ready
      /\ kafka[p].stop # "no" => kafka[p].cancelled
      /\ kafka[p].stop = "done" => kafka[p].session = "none"
      /\ kLog \in 0..MaxMessages
  BY DEF OffsetsHandled, SessionsKept, KafkaTypeOK
<1>2. CASE ConsumeClaim(p)
  <2>1. /\ Alive(p) /\ kafka[p].session # "none" /\ kafka[p].position < kLog
        /\ UNCHANGED <<kLog, kCommitted, kOwner, kRan, kTroubles, exit>>
    BY <1>2 DEF ConsumeClaim
  <2> DEFINE r == [kafka[p] EXCEPT !.handler = TRUE]
  <2>2. /\ r \in ConsumerType
        /\ r.position = kafka[p].position /\ r.marked = kafka[p].marked
        /\ r.session = kafka[p].session /\ r.ready = kafka[p].ready
        /\ r.cancelled = kafka[p].cancelled /\ r.stop = kafka[p].stop
    BY <1>0 DEF ConsumerType
  <2> HIDE DEF r
  <2>3. kafka' = [kafka EXCEPT ![p] = r]
    BY <1>2 DEF ConsumeClaim, r
  <2>4. StepTo(p, r)
    BY <1>0, <1>1, <2>1, <2>2, <2>3 DEF StepTo
  <2>5. CrashOnlyBeforeServe'
    BY <1>0, <2>1, <2>2, <2>3, CrashStep
  <2> QED BY <2>2, <2>4, <2>5, ConsumerStep
<1>3. CASE ProcessMessage(p)
  <2>1. /\ Alive(p) /\ kafka[p].handler /\ kRan' = kRan \cup {kafka[p].position}
        /\ UNCHANGED <<kLog, kCommitted, kOwner, kTroubles, exit>>
    BY <1>3 DEF ProcessMessage
  <2> DEFINE n == kafka[p].position + 1
             k == IF AutoACK THEN n ELSE kafka[p].marked
             r == [kafka[p] EXCEPT !.handler = FALSE, !.position = n, !.marked = k]
  <2>2. n \in 0..MaxMessages /\ k \in 0..MaxMessages /\ k <= n /\ n = kafka[p].position + 1
    BY <1>0, <1>1, <2>1, KafkaAssumption DEF ConsumerType
  <2> HIDE DEF n, k
  <2>3. /\ r \in ConsumerType /\ r.position = n /\ r.marked = k /\ ~r.handler
        /\ r.session = kafka[p].session /\ r.ready = kafka[p].ready
        /\ r.cancelled = kafka[p].cancelled /\ r.stop = kafka[p].stop
    BY <1>0, <2>2 DEF ConsumerType
  <2>4. kafka' = [kafka EXCEPT ![p] = r]
    BY <1>0, <1>3 DEF ProcessMessage, n, k
  <2> HIDE DEF r
  <2>5. StepTo(p, r)
    BY <1>0, <1>1, <2>1, <2>2, <2>3, <2>4 DEF StepTo
  <2>6. CrashOnlyBeforeServe'
    BY <1>0, <2>1, <2>3, <2>4, CrashStep
  <2> QED BY <2>3, <2>5, <2>6, ConsumerStep
<1> QED BY <1>2, <1>3

\* The committed offset takes the mark; the partition is released with the session.
LEMMA CommitInv ==
  ASSUME KafkaInv, exit \in [Pod -> ExitType], NEW p \in Pod, Commit(p) \/ Cleanup(p)
  PROVE  KafkaInv'
<1> USE DEF KafkaInv
<1>0. /\ kafka \in [Pod -> ConsumerType] /\ kafka[p] \in ConsumerType
      /\ kTroubles \in 0..MaxTroubles
  BY DEF KafkaTypeOK, ConsumerType
<1>1. /\ kafka[p].marked <= kafka[p].position /\ kafka[p].marked \in Nat /\ kCommitted \in Nat
      /\ kafka[p].handler => kafka[p].position < kLog /\ kafka[p].session # "none"
      /\ kOwner = p => kafka[p].session # "none"
      /\ kafka[p].session = "none" /\ ~kafka[p].cancelled => ~kafka[p].ready
      /\ kafka[p].stop # "no" => kafka[p].cancelled
      /\ kafka[p].stop = "done" => kafka[p].session = "none"
  <2>1. kafka[p].marked \in Nat
    BY <1>0, KafkaAssumption DEF ConsumerType
  <2> QED BY <2>1 DEF OffsetsHandled, SessionsKept, KafkaTypeOK
<1>2. CASE Commit(p)
  <2>1. /\ Alive(p) /\ kCommitted' = kafka[p].marked /\ kCommitted' >= kCommitted
        /\ UNCHANGED <<kLog, kOwner, kRan, kTroubles, kafka, exit>>
    BY <1>1, <1>2 DEF Commit
  <2>2. kafka' = [kafka EXCEPT ![p] = kafka[p]]
    BY <1>0, <2>1
  <2>3. StepTo(p, kafka[p])
    BY <1>0, <1>1, <2>1, <2>2 DEF StepTo
  <2>4. CrashOnlyBeforeServe'
    BY <1>0, <2>1, CrashStep
  <2> QED BY <1>0, <2>3, <2>4, ConsumerStep
<1>3. CASE Cleanup(p)
  <2>1. /\ Alive(p) /\ kafka[p].session = "ending" /\ ~kafka[p].handler
        /\ kCommitted' = IF kOwner = p /\ kafka[p].marked > kCommitted THEN kafka[p].marked
                                                                       ELSE kCommitted
        /\ kOwner' = IF kOwner = p THEN None ELSE kOwner
        /\ UNCHANGED <<kLog, kRan, kTroubles, exit>>
    BY <1>3 DEF Cleanup
  <2> DEFINE r == AfterConsume(kafka[p])
  <2>2. /\ r \in ConsumerType
        /\ r.position = kafka[p].position /\ r.marked = kafka[p].marked
        /\ r.handler = kafka[p].handler /\ r.session = "none"
        /\ ~r.cancelled => ~r.ready
        /\ r.cancelled = kafka[p].cancelled /\ r.stop = kafka[p].stop
    BY <1>0 DEF AfterConsume, ConsumerType
  <2> HIDE DEF r
  <2>3. kafka' = [kafka EXCEPT ![p] = r]
    BY <1>0, <1>3 DEF Cleanup, r
  <2>4. kOwner' # p
    BY <2>1, ProcessAssumption
  <2>5. StepTo(p, r)
    BY <1>0, <1>1, <2>1, <2>2, <2>3, <2>4 DEF StepTo
  <2>6. CrashOnlyBeforeServe'
    BY <1>0, <2>1, <2>2, <2>3, CrashStep
  <2> QED BY <2>2, <2>5, <2>6, ConsumerStep
<1> QED BY <1>2, <1>3

\* The broker takes the partition away, also from a process that is gone.
LEMMA ExpelInv ==
  ASSUME KafkaInv, SomeProcess, exit \in [Pod -> ExitType], NEW p \in Pod, Expel(p)
  PROVE  KafkaInv'
<1> USE DEF KafkaInv
<1>0. /\ kafka \in [Pod -> ConsumerType] /\ kafka[p] \in ConsumerType
      /\ kTroubles \in 0..MaxTroubles
  BY DEF KafkaTypeOK, ConsumerType
<1>1. /\ kafka[p].marked <= kafka[p].position
      /\ kafka[p].handler => kafka[p].position < kLog /\ kafka[p].session # "none"
      /\ kafka[p].session # "none"
      /\ kafka[p].stop # "no" => kafka[p].cancelled
      /\ kafka[p].stop # "done"
  BY DEF OffsetsHandled, SessionsKept, Expel
<1>2. /\ kOwner' = None /\ kOwner' # p /\ kTroubles' \in 0..MaxTroubles
      /\ UNCHANGED <<kLog, kCommitted, kRan, exit>>
  BY <1>0, TroubleBound, ProcessAssumption DEF Expel
<1> DEFINE s == IF Alive(p) THEN "ending" ELSE kafka[p].session
           r == [kafka[p] EXCEPT !.session = s]
<1>3. s \in {"active", "ending"}
  BY <1>0, <1>1 DEF ConsumerType
<1>4. kafka' = [kafka EXCEPT ![p] = r]
  BY <1>0 DEF Expel
<1> HIDE DEF s
<1>5. /\ r \in ConsumerType /\ r.session = s
      /\ r.position = kafka[p].position /\ r.marked = kafka[p].marked
      /\ r.handler = kafka[p].handler /\ r.cancelFunc = kafka[p].cancelFunc
      /\ r.cancelled = kafka[p].cancelled /\ r.stop = kafka[p].stop
  BY <1>0, <1>3 DEF ConsumerType
<1> HIDE DEF r
<1>6. StepTo(p, r)
  BY <1>0, <1>1, <1>2, <1>3, <1>4, <1>5 DEF StepTo
<1>7. CrashOnlyBeforeServe'
  <2>1. \A q \in Pod : kafka'[q].cancelFunc = kafka[q].cancelFunc
    BY <1>0, <1>4, <1>5, ConsumerUpdate
  <2> QED BY <1>2, <2>1 DEF CrashOnlyBeforeServe
<1> QED BY <1>5, <1>6, <1>7, ConsumerStep

\* Shutdown: it crashes a process whose Serve has not run; Close waits for the session.
LEMMA KafkaStopInv ==
  ASSUME KafkaInv, exit \in [Pod -> ExitType], NEW p \in Pod,
         (Alive(p) /\ KafkaStop(p)) \/ KafkaClose(p)
  PROVE  KafkaInv'
<1> USE DEF KafkaInv
<1>0. /\ kafka \in [Pod -> ConsumerType] /\ kafka[p] \in ConsumerType
      /\ kTroubles \in 0..MaxTroubles
  BY DEF KafkaTypeOK, ConsumerType
<1>1. /\ kafka[p].marked <= kafka[p].position
      /\ kafka[p].handler => kafka[p].position < kLog /\ kafka[p].session # "none"
      /\ kOwner = p => kafka[p].session # "none"
      /\ kafka[p].session = "none" /\ ~kafka[p].cancelled => ~kafka[p].ready
      /\ kafka[p].stop # "no" => kafka[p].cancelled
      /\ kOwner \in Pod \cup {None}
  BY DEF OffsetsHandled, SessionsKept, KafkaTypeOK
<1>2. CASE KafkaStop(p) /\ Alive(p) /\ kafka[p].cancelFunc
  <2>1. UNCHANGED <<kLog, kCommitted, kOwner, kRan, kTroubles, exit>>
    BY <1>2 DEF KafkaStop
  <2> DEFINE r == [kafka[p] EXCEPT !.stop = "close", !.cancelled = TRUE]
  <2>2. /\ r \in ConsumerType
        /\ r.position = kafka[p].position /\ r.marked = kafka[p].marked
        /\ r.handler = kafka[p].handler /\ r.session = kafka[p].session
        /\ r.cancelled /\ r.stop = "close"
    BY <1>0 DEF ConsumerType
  <2>3. kafka' = [kafka EXCEPT ![p] = r]
    BY <1>0, <1>2 DEF KafkaStop
  <2> HIDE DEF r
  <2>4. StepTo(p, r)
    BY <1>0, <1>1, <2>1, <2>2, <2>3 DEF StepTo
  <2>5. CrashOnlyBeforeServe'
    BY <1>0, <1>2, <2>1, <2>2, <2>3, CrashStep
  <2> QED BY <2>2, <2>4, <2>5, ConsumerStep
<1>3. CASE KafkaStop(p) /\ Alive(p) /\ ~kafka[p].cancelFunc
  <2>1. /\ UNCHANGED <<kLog, kCommitted, kOwner, kRan, kTroubles, kafka>>
        /\ exit' = [exit EXCEPT ![p] = "crash"]
    BY <1>3 DEF KafkaStop
  <2>2. KafkaTypeOK' /\ OffsetsHandled' /\ SessionsKept'
    BY <2>1 DEF KafkaTypeOK, OffsetsHandled, NoMessageSkipped, SessionsKept
  <2>3. CrashOnlyBeforeServe'
    BY <1>3, <2>1 DEF CrashOnlyBeforeServe
  <2> QED BY <2>2, <2>3
<1>4. CASE KafkaClose(p)
  <2>1. /\ UNCHANGED <<kLog, kCommitted, kOwner, kRan, kTroubles, exit>>
        /\ Alive(p) /\ kafka[p].stop = "close" /\ kafka[p].session = "none"
    BY <1>4 DEF KafkaClose
  <2> DEFINE r == [kafka[p] EXCEPT !.stop = "done"]
  <2>2. /\ r \in ConsumerType
        /\ r.position = kafka[p].position /\ r.marked = kafka[p].marked
        /\ r.handler = kafka[p].handler /\ r.session = kafka[p].session
        /\ r.cancelled = kafka[p].cancelled /\ r.ready = kafka[p].ready /\ r.stop = "done"
    BY <1>0 DEF ConsumerType
  <2>3. kafka' = [kafka EXCEPT ![p] = r]
    BY <1>0, <1>4 DEF KafkaClose
  <2> HIDE DEF r
  <2>4. StepTo(p, r)
    BY <1>0, <1>1, <2>1, <2>2, <2>3 DEF StepTo
  <2>5. CrashOnlyBeforeServe'
    BY <1>0, <2>1, <2>2, <2>3, CrashStep
  <2> QED BY <2>2, <2>4, <2>5, ConsumerStep
<1> QED BY <1>2, <1>3, <1>4

\* What the consumer keeps is a matter of its own variables, and of the crashes.
LEMMA KafkaStutter ==
  ASSUME KafkaInv, UNCHANGED kVars,
         \A p \in Pod : exit'[p] = "crash" => exit[p] = "crash"
  PROVE  KafkaInv'
<1> USE DEF kVars, KafkaInv
<1>1. KafkaTypeOK' /\ OffsetsHandled' /\ SessionsKept'
  BY DEF KafkaTypeOK, OffsetsHandled, NoMessageSkipped, SessionsKept
<1>2. CrashOnlyBeforeServe'
  BY DEF CrashOnlyBeforeServe
<1> QED BY <1>1, <1>2

\* Every step of the consumer.
LEMMA KafkaNextInv ==
  ASSUME KafkaInv, SomeProcess, exit \in [Pod -> ExitType],
         KafkaNext \/ (\E p \in Pod : Alive(p) /\ KafkaStop(p))
  PROVE  KafkaInv'
  BY PublishInv, ConsumeInv, HandleInv, CommitInv, ExpelInv, KafkaStopInv DEF KafkaNext

-----------------------------------------------------------------------------
\* The application

ProcessType == [run : {"starting", "select", "shutdown"}, quit : BOOLEAN,
                stopping : 0..10, timeout : BOOLEAN]

ServerType == [serve : {"off", "serving", "panicked", "closed"},
               stop : {"no", "drain", "done"}, open : 0..MaxRequests]

\* The steps of the listener end no process and do not undo its shutdown.
LEMMA PgKeeps ==
  ASSUME PgInv, PgNext \/ (\E p \in Pod : PgStop(p))
  PROVE  /\ UNCHANGED exit
         /\ \A q \in Pod : pg[q].stop = "done" => pg'[q].stop = "done"
<1>0. pg \in [Pod -> PgType]
  BY DEF PgInv, PgTypeOK, PgType
<1>1. CASE WriteRow \/ WriteOrphan
  BY <1>1 DEF WriteRow, WriteOrphan
<1>2. ASSUME NEW g \in PgSlot, PgRunStep(g)
      PROVE  UNCHANGED <<pg, exit>>
  BY <1>2 DEF PgRunStep, RunStart, RunLock, RunRead, RunHandler, RunEnd
<1>3. ASSUME NEW p \in Pod, PgServeStep(p)
      PROVE  /\ UNCHANGED exit
             /\ \A q \in Pod : pg'[q].stop = pg[q].stop
  <2>1. CASE PgServe(p) \/ ServeClosed(p)
    BY <1>0, <2>1 DEF PgServe, ServeClosed, PgType
  <2>2. CASE ServeTop(p)
    BY <1>0, <2>2 DEF ServeTop, PgType
  <2>3. CASE ServeReceive(p)
    BY <1>0, <2>3 DEF ServeReceive, PgType
  <2>4. ASSUME NEW g \in PgSlot, ServeStart(p, g)
        PROVE  UNCHANGED exit /\ \A q \in Pod : pg'[q].stop = pg[q].stop
    BY <1>0, <2>4 DEF ServeStart, PgType
  <2> QED BY <1>3, <2>1, <2>2, <2>3, <2>4 DEF PgServeStep
<1>4. ASSUME NEW p \in Pod, PgStopStep(p) \/ PgStop(p)
      PROVE  /\ UNCHANGED exit
             /\ \A q \in Pod : pg[q].stop = "done" => pg'[q].stop = "done"
  BY <1>0, <1>4 DEF PgStopStep, PgStop, PgClose, PgWait, PgCancel, PgReset, PgType
<1> QED BY <1>1, <1>2, <1>3, <1>4 DEF PgNext

\* The process p, still running, is ended by the consumer.
EndedByKafka(p) ==
    Alive(p) /\ \E e \in {"fatal", "crash"} : exit' = [exit EXCEPT ![p] = e]

\* The steps of the consumer end no process but with a fatal error or a crash.
LEMMA KafkaKeeps ==
  ASSUME KafkaInv, KafkaNext \/ (\E p \in Pod : Alive(p) /\ KafkaStop(p))
  PROVE  /\ UNCHANGED exit \/ \E p \in Pod : EndedByKafka(p)
         /\ \A q \in Pod : kafka[q].stop = "done" => kafka'[q].stop = "done"
<1>0. kafka \in [Pod -> ConsumerType]
  BY DEF KafkaInv, KafkaTypeOK, ConsumerType
<1>1. CASE PublishMessage
  BY <1>1 DEF PublishMessage
<1>2. ASSUME NEW p \in Pod, KafkaServe(p) \/ SessionEnds(p) \/ Expel(p) \/ ConsumeClaim(p)
                            \/ ProcessMessage(p) \/ Commit(p)
      PROVE  UNCHANGED exit /\ \A q \in Pod : kafka'[q].stop = kafka[q].stop
  BY <1>0, <1>2 DEF KafkaServe, SessionEnds, Expel, ConsumeClaim, ProcessMessage, Commit, ConsumerType
<1>3. ASSUME NEW p \in Pod, ConsumeFails(p) \/ Cleanup(p)
      PROVE  /\ UNCHANGED exit \/ EndedByKafka(p)
             /\ \A q \in Pod : kafka'[q].stop = kafka[q].stop
  <2>1. AfterConsume(kafka[p]).stop = kafka[p].stop
    BY <1>0 DEF AfterConsume, ConsumerType
  <2>2. \/ kafka' = [kafka EXCEPT ![p] = AfterConsume(kafka[p])]
        \/ kafka' = kafka
    BY <1>0, <1>3 DEF ConsumeFails, Cleanup
  <2>3. \A q \in Pod : kafka'[q].stop = kafka[q].stop
    BY <1>0, <2>1, <2>2
  <2>4. UNCHANGED exit \/ EndedByKafka(p)
    BY <1>3 DEF ConsumeFails, Cleanup, EndedByKafka
  <2> QED BY <2>3, <2>4
<1>4. ASSUME NEW p \in Pod, Setup(p)
      PROVE  /\ UNCHANGED exit \/ EndedByKafka(p)
             /\ \A q \in Pod : kafka'[q].stop = kafka[q].stop
  BY <1>0, <1>4 DEF Setup, EndedByKafka, ConsumerType
<1>5. ASSUME NEW p \in Pod, KafkaClose(p) \/ (Alive(p) /\ KafkaStop(p))
      PROVE  /\ UNCHANGED exit \/ EndedByKafka(p)
             /\ \A q \in Pod : kafka[q].stop = "done" => kafka'[q].stop = "done"
  BY <1>0, <1>5 DEF KafkaClose, KafkaStop, EndedByKafka, ConsumerType
<1> QED BY <1>1, <1>2, <1>3, <1>4, <1>5 DEF KafkaNext

\* The server of a service is one of its applications, or there is none.
LEMMA ServerIsEnabled ==
  /\ Server # "postgres" /\ Server # "kafka"
  /\ Server # None => Server \in HTTP \cup {"grpc"} /\ Enabled(Server)
<1>1. CASE \E a \in HTTP \cup {"grpc"} : Enabled(a)
  <2>1. Server \in HTTP \cup {"grpc"} /\ Enabled(Server)
    BY <1>1 DEF Server
  <2> QED BY <2>1 DEF HTTP
<1>2. CASE ~\E a \in HTTP \cup {"grpc"} : Enabled(a)
  BY <1>2, ProcessAssumption DEF Server
<1> QED BY <1>1, <1>2

\* The applications do not change, so neither does the server among them.
LEMMA ServerFixed ==
  ASSUME UNCHANGED apps
  PROVE  Server' = Server
  BY Zenon DEF Server, Enabled

\* The applications of a service are a short sequence.
LEMMA AppsType ==
  ASSUME AppTypeOK
  PROVE  apps \in Seq(AppName) /\ Len(apps) \in 0..9 /\ DOMAIN apps = 1..Len(apps)
<1>1. PICK d \in Deployments : apps = NewAppFromEnvironmentConfig(d.flags)
  BY DEF AppTypeOK
<1>2. apps \in Seq(AppName) /\ Len(apps) <= 9
  BY <1>1, AppsSeq
<1>3. Len(apps) \in Nat /\ DOMAIN apps = 1..Len(apps)
  BY <1>2, LenProperties
<1>4. \A n \in Nat : n <= 9 => n \in 0..9
  OBVIOUS
<1>5. Len(apps) \in 0..9
  BY <1>2, <1>3, <1>4
<1> QED BY <1>2, <1>3, <1>5

(***************************************************************************)
(* A step that only ends processes, and none of them with success, keeps   *)
(* what the application keeps, when the shutdowns that are done stay done. *)
(***************************************************************************)
LEMMA AppFrame ==
  ASSUME AppInv, UNCHANGED appVars, NEW p \in Pod,
         \/ UNCHANGED exit
         \/ Alive(p) /\ \E e \in ExitType \ {"success", "absent"} : exit' = [exit EXCEPT ![p] = e],
         \A q \in Pod : /\ pg[q].stop = "done" => pg'[q].stop = "done"
                        /\ kafka[q].stop = "done" => kafka'[q].stop = "done"
  PROVE  AppInv'
<1> USE DEF appVars, AppInv
<1>0. exit \in [Pod -> ExitType]
  BY DEF AppTypeOK, ExitType
<1>1. /\ exit' \in [Pod -> ExitType]
      /\ \A q \in Pod : /\ exit'[q] = "success" => exit[q] = "success"
                        /\ exit[q] # "absent" => exit'[q] # "absent"
  BY <1>0
<1>2. AppTypeOK'
  BY <1>1 DEF AppTypeOK, ExitType
<1>3. SomeProcess' /\ SuccessIsLast'
  BY <1>1 DEF SomeProcess, SuccessIsLast
<1>4. EarlierDown'
  BY ServerFixed DEF EarlierDown
<1>5. ServersDrain'
  BY DEF ServersDrain
<1> QED BY <1>2, <1>3, <1>4, <1>5

\* The application changes what it keeps of one process, before the end of it.
LEMMA ProcessUpdate ==
  ASSUME app \in [Pod -> ProcessType], NEW p \in Pod, NEW r \in ProcessType,
         app' = [app EXCEPT ![p] = r]
  PROVE  /\ app' \in [Pod -> ProcessType] /\ app'[p] = r
         /\ \A q \in Pod : q # p => app'[q] = app[q]
  OBVIOUS

\* A step of Run or shutdown that moves process p to r, and leaves its applications alone.
LEMMA AppMove ==
  ASSUME AppInv, NEW p \in Pod, NEW r \in ProcessType, Alive(p),
         app' = [app EXCEPT ![p] = r],
         UNCHANGED <<apps, server, requests, pgVars, kVars, exit>>,
         caller' = caller \/ caller' = [caller EXCEPT ![p] = "waits"],
         signals' \in 0..MaxSignals,
         app[p].timeout => r.timeout,
         r.stopping <= Len(apps) + 1,
         \A i \in DOMAIN apps : i < r.stopping =>
              /\ apps[i] = "postgres" => pg[p].stop = "done"
              /\ apps[i] = "kafka" => kafka[p].stop = "done"
              /\ apps[i] = Server => server[p].stop = "done"
  PROVE  AppInv'
<1> USE DEF AppInv
<1>0. /\ app \in [Pod -> ProcessType] /\ server \in [Pod -> ServerType]
      /\ exit \in [Pod -> ExitType] /\ caller \in [Pod -> {"no", "waits", "returned"}]
  BY DEF AppTypeOK, ProcessType, ServerType, ExitType
<1>1. /\ app' \in [Pod -> ProcessType] /\ app'[p] = r
      /\ \A q \in Pod : q # p => app'[q] = app[q]
  BY <1>0, ProcessUpdate
<1>2. /\ caller' \in [Pod -> {"no", "waits", "returned"}]
      /\ \A q \in Pod : q # p => caller'[q] = caller[q]
  BY <1>0
<1>3. AppTypeOK'
  BY <1>1, <1>2 DEF AppTypeOK, ProcessType
<1>4. EarlierDown'
  <2>1. UNCHANGED <<pg, kafka>> /\ Server' = Server
    BY ServerFixed DEF pgVars, kVars
  <2> SUFFICES ASSUME NEW q \in Pod
               PROVE  /\ app'[q].stopping <= Len(apps) + 1
                      /\ \A i \in DOMAIN apps : i < app'[q].stopping =>
                            /\ apps[i] = "postgres" => pg[q].stop = "done"
                            /\ apps[i] = "kafka" => kafka[q].stop = "done"
                            /\ apps[i] = Server => server[q].stop = "done"
    BY <2>1 DEF EarlierDown
  <2>2. CASE q = p
    BY <1>1, <2>2
  <2>3. CASE q # p
    BY <1>1, <2>3 DEF EarlierDown
  <2> QED BY <2>2, <2>3
<1>5. ServersDrain'
  BY <1>1 DEF ServersDrain
<1>6. SuccessIsLast'
  BY <1>1, <1>2 DEF SuccessIsLast, Alive
<1>7. SomeProcess'
  BY DEF SomeProcess
<1> QED BY <1>3, <1>4, <1>5, <1>6, <1>7

\* The signals and calls of Shutdown are bounded.
LEMMA SignalBound ==
  ASSUME AppInv, (signals + 1) * Replicas <= MaxSignals
  PROVE  signals + 1 \in 0..MaxSignals
<1>1. signals + 1 \in Nat
  BY DEF AppInv, AppTypeOK
<1> QED BY <1>1, ReplicasBound, ApplicationAssumption DEF AppInv

\* Run, the signals and the shutdown of the application, up to the last one.
LEMMA RunMoves ==
  ASSUME AppInv, NEW p \in Pod,
         \/ Run(p) \/ Signal(p) \/ CallShutdown(p) \/ BeginShutdown(p) \/ StopNext(p) \/ Timeout(p)
  PROVE  AppInv'
<1>0. /\ app \in [Pod -> ProcessType] /\ app[p] \in ProcessType /\ signals \in 0..MaxSignals
      /\ Len(apps) \in 0..9 /\ DOMAIN apps = 1..Len(apps)
  BY AppsType DEF AppInv, AppTypeOK, ProcessType
<1>1. /\ app[p].stopping <= Len(apps) + 1
      /\ \A i \in DOMAIN apps : i < app[p].stopping =>
              /\ apps[i] = "postgres" => pg[p].stop = "done"
              /\ apps[i] = "kafka" => kafka[p].stop = "done"
              /\ apps[i] = Server => server[p].stop = "done"
  BY DEF AppInv, EarlierDown
\* The ends of processes.
<1>2. CASE (Run(p) /\ apps = <<>>) \/ (Signal(p) /\ app[p].run = "starting")
  <2>1. CASE Run(p) /\ apps = <<>>
    <3>1. /\ Alive(p) /\ exit' = [exit EXCEPT ![p] = "panic"] /\ UNCHANGED appVars
          /\ UNCHANGED <<pg, kafka>>
      BY <2>1 DEF Run, appVars, pgVars, kVars
    <3> QED BY <3>1, AppFrame DEF ExitType
  <2>2. CASE Signal(p) /\ app[p].run = "starting"
    <3>1. /\ Alive(p) /\ exit' = [exit EXCEPT ![p] = "killed"]
          /\ UNCHANGED <<apps, app, server, caller, requests, pg, kafka>>
          /\ signals' \in 0..MaxSignals
      BY <2>2, SignalBound DEF Signal, pgVars, kVars
    <3>2. exit \in [Pod -> ExitType]
      BY DEF AppInv, AppTypeOK, ExitType
    <3>3. /\ exit' \in [Pod -> ExitType]
          /\ \A q \in Pod : /\ exit'[q] = "success" => exit[q] = "success"
                            /\ exit[q] # "absent" => exit'[q] # "absent"
      BY <3>1, <3>2 DEF ExitType
    <3>4. AppTypeOK'
      BY <3>1, <3>3 DEF AppInv, AppTypeOK, ExitType
    <3>5. SomeProcess' /\ SuccessIsLast'
      BY <3>1, <3>3 DEF AppInv, SomeProcess, SuccessIsLast
    <3>6. EarlierDown' /\ ServersDrain'
      BY <3>1, ServerFixed DEF AppInv, EarlierDown, ServersDrain
    <3> QED BY <3>4, <3>5, <3>6 DEF AppInv
  <2> QED BY <1>2, <2>1, <2>2
<1>3. CASE Run(p) /\ apps # <<>>
  <2> DEFINE r == [app[p] EXCEPT !.run = "select"]
  <2>1. /\ r \in ProcessType /\ r.stopping = app[p].stopping /\ r.timeout = app[p].timeout
    BY <1>0 DEF ProcessType
  <2> HIDE DEF r
  <2>2. /\ app' = [app EXCEPT ![p] = r] /\ Alive(p)
        /\ UNCHANGED <<apps, server, caller, requests, signals, pgVars, kVars, exit>>
    BY <1>3 DEF Run, r
  <2> QED BY <1>0, <1>1, <2>1, <2>2, AppMove
<1>4. CASE (Signal(p) /\ app[p].run # "starting") \/ CallShutdown(p)
  <2> DEFINE r == [app[p] EXCEPT !.quit = TRUE]
  <2>1. /\ r \in ProcessType /\ r.stopping = app[p].stopping /\ r.timeout = app[p].timeout
    BY <1>0 DEF ProcessType
  <2> HIDE DEF r
  <2>2. /\ app' = [app EXCEPT ![p] = r] /\ Alive(p)
        /\ caller' = caller \/ caller' = [caller EXCEPT ![p] = "waits"]
        /\ signals' = signals + 1 /\ (signals + 1) * Replicas <= MaxSignals
        /\ UNCHANGED <<apps, server, requests, pgVars, kVars, exit>>
    BY <1>4 DEF Signal, CallShutdown, r
  <2> QED BY <1>0, <1>1, <2>1, <2>2, AppMove, SignalBound
<1>5. CASE BeginShutdown(p)
  <2> DEFINE r == [app[p] EXCEPT !.run = "shutdown", !.quit = FALSE, !.stopping = 1]
  <2>0. app[p] \in ProcessType /\ 1 \in 0..10
    BY <1>0
  <2>1. /\ r \in ProcessType /\ r.stopping = 1 /\ r.timeout = app[p].timeout
    BY <2>0 DEF ProcessType
  <2>2. app' = [app EXCEPT ![p] = r]
    BY <1>0, <1>5 DEF BeginShutdown
  <2> HIDE DEF r
  <2>3. /\ UNCHANGED <<apps, server, caller, requests, signals, pgVars, kVars, exit>>
        /\ Alive(p)
    BY <1>5 DEF BeginShutdown
  <2>4. 1 <= Len(apps) + 1 /\ \A i \in DOMAIN apps : ~(i < 1)
    BY <1>0
  <2> QED BY <1>0, <2>1, <2>2, <2>3, <2>4, AppMove
<1>6. CASE Timeout(p)
  <2> DEFINE r == [app[p] EXCEPT !.timeout = TRUE]
  <2>1. /\ r \in ProcessType /\ r.stopping = app[p].stopping /\ r.timeout
    BY <1>0 DEF ProcessType
  <2> HIDE DEF r
  <2>2. /\ app' = [app EXCEPT ![p] = r] /\ Alive(p)
        /\ UNCHANGED <<apps, server, caller, requests, signals, pgVars, kVars, exit>>
    BY <1>6 DEF Timeout, r
  <2> QED BY <1>0, <1>1, <2>1, <2>2, AppMove
<1>7. CASE StopNext(p)
  <2>1. app[p].stopping \in DOMAIN apps
    BY <1>7 DEF StopNext, Stopped, Turn
  <2> DEFINE n == app[p].stopping + 1
             r == [app[p] EXCEPT !.stopping = n]
  <2>2. n \in 0..10 /\ n <= Len(apps) + 1
    <3>1. \A l \in 0..9 : \A k \in 1..l : k + 1 \in 0..10 /\ k + 1 <= l + 1
      OBVIOUS
    <3> QED BY <1>0, <2>1, <3>1
  <2>3. app' = [app EXCEPT ![p] = r]
    BY <1>7 DEF StopNext
  <2>4. \A i \in DOMAIN apps : i < n => i = app[p].stopping \/ i < app[p].stopping
    BY <1>0, <2>1
  <2> HIDE DEF n
  <2>5. /\ r \in ProcessType /\ r.stopping = n /\ r.timeout = app[p].timeout
    BY <1>0, <2>2 DEF ProcessType
  <2> HIDE DEF r
  <2>6. /\ UNCHANGED <<apps, server, caller, requests, signals, pgVars, kVars, exit>>
        /\ Alive(p) /\ Stopped(p)
    BY <1>7 DEF StopNext
  <2>7. LET i == app[p].stopping
        IN  /\ apps[i] = "postgres" => pg[p].stop = "done"
            /\ apps[i] = "kafka" => kafka[p].stop = "done"
            /\ apps[i] = Server => server[p].stop = "done"
    BY <2>6, ServerIsEnabled DEF Stopped, Turn
  <2>8. \A i \in DOMAIN apps : i < r.stopping =>
              /\ apps[i] = "postgres" => pg[p].stop = "done"
              /\ apps[i] = "kafka" => kafka[p].stop = "done"
              /\ apps[i] = Server => server[p].stop = "done"
    BY <1>1, <2>4, <2>5, <2>7
  <2> QED BY <1>0, <2>2, <2>3, <2>5, <2>6, <2>8, AppMove
<1> QED BY <1>2, <1>3, <1>4, <1>5, <1>6, <1>7

\* The ends that are not a success: a panic of Serve, a second signal, the timeout.
LEMMA EndMoves ==
  ASSUME AppInv, NEW p \in Pod, ServePanics(p) \/ ForceExit(p) \/ TimeoutExit(p)
  PROVE  AppInv'
<1>1. Alive(p) /\ \E e \in {"panic", "forced", "timeout"} : exit' = [exit EXCEPT ![p] = e]
  BY DEF ServePanics, ForceExit, TimeoutExit
<1>2. UNCHANGED appVars /\ UNCHANGED <<pg, kafka>>
  BY DEF ServePanics, ForceExit, TimeoutExit, pgVars, kVars
<1> QED BY <1>1, <1>2, AppFrame DEF ExitType

\* The end of a shutdown that succeeds.
LEMMA SuccessMove ==
  ASSUME AppInv, NEW p \in Pod, ShutdownSucceeds(p)
  PROVE  AppInv'
<1>0. exit \in [Pod -> ExitType] /\ caller \in [Pod -> {"no", "waits", "returned"}]
  BY DEF AppInv, AppTypeOK, ExitType
<1>1. /\ exit' = [exit EXCEPT ![p] = "success"]
      /\ caller' = [caller EXCEPT ![p] = IF @ = "waits" THEN "returned" ELSE @]
      /\ app[p].stopping = Len(apps) + 1
      /\ UNCHANGED <<apps, app, server, requests, signals, pg, kafka>>
  BY DEF ShutdownSucceeds, pgVars, kVars
<1>2. exit' \in [Pod -> ExitType] /\ caller' \in [Pod -> {"no", "waits", "returned"}]
  BY <1>0, <1>1 DEF ExitType
<1>3. AppTypeOK'
  BY <1>1, <1>2 DEF AppInv, AppTypeOK, ExitType
<1>4. SuccessIsLast' /\ SomeProcess'
  BY <1>0, <1>1 DEF AppInv, SuccessIsLast, SomeProcess
<1>5. EarlierDown' /\ ServersDrain'
  BY <1>1, ServerFixed DEF AppInv, EarlierDown, ServersDrain
<1> QED BY <1>3, <1>4, <1>5 DEF AppInv

(***************************************************************************)
(* A step of the server of process p, which becomes r: a shutdown that is  *)
(* done stays done, and the server drains.                                 *)
(***************************************************************************)
LEMMA ServerMove ==
  ASSUME AppInv, NEW p \in Pod, NEW r \in ServerType,
         server' = [server EXCEPT ![p] = r],
         UNCHANGED <<apps, app, caller, signals, pgVars, kVars, exit>>,
         requests' \in 0..MaxRequests, requests <= requests',
         r.open <= requests',
         server[p].stop = "done" => r.stop = "done",
         r.stop # "no" => r.serve \in {"closed", "panicked"},
         r.stop = "done" => app[p].timeout \/ r.open = 0
  PROVE  AppInv'
<1> USE DEF AppInv
<1>0. server \in [Pod -> ServerType] /\ requests \in 0..MaxRequests
  BY DEF AppTypeOK, ServerType
<1>1. /\ server' \in [Pod -> ServerType] /\ server'[p] = r
      /\ \A q \in Pod : q # p => server'[q] = server[q]
  BY <1>0
<1>2. AppTypeOK'
  BY <1>1 DEF AppTypeOK, ServerType
<1>3. EarlierDown'
  <2>1. /\ UNCHANGED <<pg, kafka>> /\ Server' = Server
        /\ \A q \in Pod : server[q].stop = "done" => server'[q].stop = "done"
    BY <1>1, ServerFixed DEF pgVars, kVars
  <2> QED BY <2>1 DEF EarlierDown
<1>4. ServersDrain'
  <2> SUFFICES ASSUME NEW q \in Pod
               PROVE  /\ server'[q].open <= requests'
                      /\ server'[q].stop # "no" => server'[q].serve \in {"closed", "panicked"}
                      /\ server'[q].stop = "done" => app[q].timeout \/ server'[q].open = 0
    BY DEF ServersDrain
  <2>1. CASE q = p
    BY <1>1, <2>1
  <2>2. CASE q # p
    <3>1. server[q].open \in Nat /\ server[q].open <= requests
      BY <1>0 DEF ServersDrain, ServerType
    <3> QED BY <1>0, <1>1, <2>2, <3>1 DEF ServersDrain
  <2> QED BY <2>1, <2>2
<1>5. SuccessIsLast' /\ SomeProcess'
  BY DEF SuccessIsLast, SomeProcess
<1> QED BY <1>2, <1>3, <1>4, <1>5

\* The steps of the server.
LEMMA ServerMoves ==
  ASSUME AppInv, NEW p \in Pod,
         ServerServe(p) \/ RequestArrives(p) \/ RequestAnswered(p) \/ ServerDrained(p)
  PROVE  AppInv'
<1>0. /\ server \in [Pod -> ServerType] /\ server[p] \in ServerType
      /\ requests \in 0..MaxRequests /\ requests <= requests
  BY DEF AppInv, AppTypeOK, ServerType
<1>1. /\ server[p].open \in 0..MaxRequests /\ server[p].open <= requests
      /\ server[p].stop # "no" => server[p].serve \in {"closed", "panicked"}
      /\ server[p].stop = "done" => app[p].timeout \/ server[p].open = 0
  BY <1>0 DEF AppInv, ServersDrain, ServerType
<1>2. CASE ServerServe(p)
  <2>1. PICK s \in {"serving", "panicked"} : server' = [server EXCEPT ![p].serve = s]
    BY <1>2 DEF ServerServe
  <2> DEFINE r == [server[p] EXCEPT !.serve = s]
  <2>2. /\ r \in ServerType /\ r.open = server[p].open /\ r.stop = server[p].stop
    BY <1>0 DEF ServerType
  <2>3. server' = [server EXCEPT ![p] = r]
    BY <2>1
  <2> HIDE DEF r
  <2>4. /\ server[p].serve = "off"
        /\ UNCHANGED <<apps, app, caller, requests, signals, pgVars, kVars, exit>>
    BY <1>2 DEF ServerServe
  <2>5. server[p].stop = "no"
    BY <1>1, <2>4
  <2> QED BY <1>0, <1>1, <2>2, <2>3, <2>4, <2>5, ServerMove
<1>3. CASE RequestArrives(p)
  <2> DEFINE n == server[p].open + 1
             r == [server[p] EXCEPT !.open = n]
  <2>1. /\ requests' = requests + 1 /\ requests' \in 0..MaxRequests /\ requests <= requests'
        /\ n \in 0..MaxRequests /\ n <= requests'
    BY <1>0, <1>1, <1>3, ApplicationAssumption DEF RequestArrives
  <2>2. server' = [server EXCEPT ![p] = r]
    BY <1>3 DEF RequestArrives
  <2> HIDE DEF n
  <2>3. /\ r \in ServerType /\ r.open = n /\ r.stop = server[p].stop
    BY <1>0, <2>1 DEF ServerType
  <2> HIDE DEF r
  <2>4. /\ server[p].serve = "serving"
        /\ UNCHANGED <<apps, app, caller, signals, pgVars, kVars, exit>>
    BY <1>3 DEF RequestArrives
  <2>5. server[p].stop = "no"
    BY <1>1, <2>4
  <2> QED BY <1>0, <2>1, <2>2, <2>3, <2>4, <2>5, ServerMove
<1>4. CASE RequestAnswered(p)
  <2> DEFINE n == server[p].open - 1
             r == [server[p] EXCEPT !.open = n]
  <2>1. server[p].open > 0
    BY <1>4 DEF RequestAnswered
  <2>2. /\ n \in 0..MaxRequests /\ n <= requests
    BY <1>0, <1>1, <2>1, ApplicationAssumption
  <2>3. server' = [server EXCEPT ![p] = r]
    BY <1>4 DEF RequestAnswered
  <2> HIDE DEF n
  <2>4. /\ r \in ServerType /\ r.open = n /\ r.stop = server[p].stop /\ r.serve = server[p].serve
    BY <1>0, <2>2 DEF ServerType
  <2> HIDE DEF r
  <2>5. UNCHANGED <<apps, app, caller, requests, signals, pgVars, kVars, exit>>
    BY <1>4 DEF RequestAnswered
  <2>6. r.stop = "done" => app[p].timeout
    BY <1>1, <2>1, <2>4
  <2> QED BY <1>0, <1>1, <2>2, <2>3, <2>4, <2>5, <2>6, ServerMove
<1>5. CASE ServerDrained(p)
  <2> DEFINE r == [server[p] EXCEPT !.stop = "done"]
  <2>1. /\ r \in ServerType /\ r.open = server[p].open /\ r.stop = "done"
        /\ r.serve = server[p].serve
    BY <1>0 DEF ServerType
  <2>2. server' = [server EXCEPT ![p] = r]
    BY <1>5 DEF ServerDrained
  <2> HIDE DEF r
  <2>3. /\ server[p].stop = "drain" /\ (server[p].open = 0 \/ app[p].timeout)
        /\ UNCHANGED <<apps, app, caller, requests, signals, pgVars, kVars, exit>>
    BY <1>5 DEF ServerDrained
  <2> QED BY <1>0, <1>1, <2>1, <2>2, <2>3, ServerMove
<1> QED BY <1>2, <1>3, <1>4, <1>5

\* Shutdown calls the Shutdown of one application.
LEMMA StopMove ==
  ASSUME IInv, NEW p \in Pod, Stop(p)
  PROVE  AppInv'
<1>1. Alive(p) /\ UNCHANGED <<apps, app, caller, requests, signals>>
  BY DEF Stop
<1>2. CASE Turn(p, "postgres") /\ PgStop(p) /\ UNCHANGED <<kVars, server>>
  <2>1. UNCHANGED appVars /\ UNCHANGED kafka
    BY <1>1, <1>2 DEF appVars, kVars
  <2>2. UNCHANGED exit /\ \A q \in Pod : pg[q].stop = "done" => pg'[q].stop = "done"
    BY <1>2, PgKeeps DEF IInv
  <2> QED BY <2>1, <2>2, AppFrame DEF IInv
<1>3. CASE Turn(p, "kafka") /\ KafkaStop(p) /\ UNCHANGED <<pgVars, server>>
  <2>1. UNCHANGED appVars /\ UNCHANGED pg
    BY <1>1, <1>3 DEF appVars, pgVars
  <2>2. /\ UNCHANGED exit \/ \E q \in Pod : EndedByKafka(q)
        /\ \A q \in Pod : kafka[q].stop = "done" => kafka'[q].stop = "done"
    BY <1>1, <1>3, KafkaKeeps DEF IInv
  <2> QED BY <2>1, <2>2, AppFrame DEF IInv, EndedByKafka, ExitType
<1>4. CASE /\ Turn(p, Server) /\ server[p].stop = "no"
           /\ server' = [server EXCEPT ![p].stop = "drain",
                                       ![p].serve = IF @ = "panicked" THEN @ ELSE "closed"]
           /\ UNCHANGED <<pgVars, kVars, exit>>
  <2>0. /\ server \in [Pod -> ServerType] /\ server[p] \in ServerType
        /\ requests \in 0..MaxRequests /\ requests <= requests
        /\ server[p].open <= requests
    BY DEF IInv, AppInv, AppTypeOK, ServersDrain, ServerType
  <2> DEFINE s == IF server[p].serve = "panicked" THEN "panicked" ELSE "closed"
             r == [server[p] EXCEPT !.stop = "drain", !.serve = s]
  <2>1. /\ r \in ServerType /\ r.open = server[p].open /\ r.stop = "drain"
        /\ r.serve \in {"closed", "panicked"}
    BY <2>0 DEF ServerType
  <2>2. server' = [server EXCEPT ![p] = r]
    BY <1>4, <2>0 DEF ServerType
  <2> HIDE DEF r, s
  <2> QED BY <1>1, <1>4, <2>0, <2>1, <2>2, ServerMove DEF IInv
<1> QED BY <1>2, <1>3, <1>4 DEF Stop

-----------------------------------------------------------------------------
\* The service

\* Every instance of the service starts with what the applications keep.
LEMMA InitInv ==
  ASSUME Init
  PROVE  IInv
<1>1. PICK d \in Deployments :
          /\ apps = NewAppFromEnvironmentConfig(d.flags)
          /\ exit = [p \in Pod |-> IF p \in d.pods THEN "none" ELSE "absent"]
  BY DEF Init
<1>2. exit \in [Pod -> {"none", "absent"}] /\ exit \in [Pod -> ExitType]
  BY <1>1 DEF ExitType
<1>3. PgInv
  BY PgInitInv DEF Init
<1>4. KafkaInv
  BY <1>2, KafkaInitInv DEF Init
<1>5. AppTypeOK
  <2>1. 0 \in 0..10 /\ 0 \in 0..MaxRequests /\ 0 \in 0..MaxSignals
    BY ApplicationAssumption
  <2>2. app \in [Pod -> ProcessType]
    BY <2>1 DEF Init, ProcessType
  <2>3. server \in [Pod -> ServerType]
    BY <2>1 DEF Init, ServerType
  <2>4. caller \in [Pod -> {"no", "waits", "returned"}] /\ requests = 0 /\ signals = 0
    BY DEF Init
  <2> QED BY <1>1, <1>2, <2>1, <2>2, <2>3, <2>4 DEF AppTypeOK, ProcessType, ServerType, ExitType
<1>6. SomeProcess
  BY <1>1, ApplicationAssumption DEF SomeProcess
<1>7. EarlierDown
  <2>1. Len(apps) \in 0..9 /\ DOMAIN apps = 1..Len(apps)
    BY <1>5, AppsType
  <2>2. \A p \in Pod : app[p].stopping = 0
    BY DEF Init
  <2> QED BY <2>1, <2>2 DEF EarlierDown
<1>8. ServersDrain
  BY DEF Init, ServersDrain
<1>9. SuccessIsLast
  BY <1>2 DEF SuccessIsLast
<1> QED BY <1>3, <1>4, <1>5, <1>6, <1>7, <1>8, <1>9 DEF IInv, AppInv

\* The steps of the application introduce no crash but the one of KafkaStop.
LEMMA NoCrash ==
  ASSUME IInv, NEW p \in Pod,
         \/ Run(p) \/ Signal(p) \/ CallShutdown(p) \/ BeginShutdown(p) \/ ServePanics(p)
         \/ StopNext(p) \/ ShutdownSucceeds(p) \/ ForceExit(p) \/ Timeout(p) \/ TimeoutExit(p)
         \/ ServerServe(p) \/ RequestArrives(p) \/ RequestAnswered(p) \/ ServerDrained(p)
  PROVE  /\ UNCHANGED <<pgVars, kVars>>
         /\ \A q \in Pod : exit'[q] = "crash" => exit[q] = "crash"
<1>1. exit \in [Pod -> ExitType]
  BY DEF IInv, AppInv, AppTypeOK, ExitType
<1>2. UNCHANGED <<pgVars, kVars>>
  BY DEF Run, Signal, CallShutdown, BeginShutdown, ServePanics, StopNext, ShutdownSucceeds,
         ForceExit, Timeout, TimeoutExit, ServerServe, RequestArrives, RequestAnswered, ServerDrained
<1>3. \/ UNCHANGED exit
      \/ \E e \in {"panic", "killed", "success", "forced", "timeout"} : exit' = [exit EXCEPT ![p] = e]
  BY DEF Run, Signal, CallShutdown, BeginShutdown, ServePanics, StopNext, ShutdownSucceeds,
         ForceExit, Timeout, TimeoutExit, ServerServe, RequestArrives, RequestAnswered, ServerDrained
<1> QED BY <1>1, <1>2, <1>3

\* Every step keeps the inductive invariant, one application at a time.
LEMMA NextInv ==
  ASSUME IInv, [Next]_vars
  PROVE  IInv'
<1>0. exit \in [Pod -> ExitType]
  BY DEF IInv, AppInv, AppTypeOK, ExitType
<1>1. ASSUME NEW p \in Pod,
             \/ Run(p) \/ Signal(p) \/ CallShutdown(p) \/ BeginShutdown(p) \/ ServePanics(p)
             \/ StopNext(p) \/ ShutdownSucceeds(p) \/ ForceExit(p) \/ Timeout(p) \/ TimeoutExit(p)
             \/ ServerServe(p) \/ RequestArrives(p) \/ RequestAnswered(p) \/ ServerDrained(p)
      PROVE  IInv'
  <2>1. PgInv' /\ KafkaInv'
    BY <1>1, NoCrash, PgStutter, KafkaStutter DEF IInv
  <2>2. AppInv'
    BY <1>1, RunMoves, EndMoves, SuccessMove, ServerMoves DEF IInv
  <2> QED BY <2>1, <2>2 DEF IInv
<1>2. ASSUME NEW p \in Pod, Stop(p)
      PROVE  IInv'
  <2>1. CASE PgStop(p) /\ UNCHANGED <<kVars, server>>
    <3>1. PgInv'
      BY <2>1, PgNextInv DEF IInv, AppInv
    <3>2. UNCHANGED exit
      BY <2>1, PgKeeps DEF IInv
    <3>3. KafkaInv'
      BY <2>1, <3>2, KafkaStutter DEF IInv
    <3> QED BY <1>2, <3>1, <3>3, StopMove DEF IInv
  <2>2. CASE KafkaStop(p) /\ UNCHANGED <<pgVars, server>>
    <3>1. KafkaInv'
      BY <1>0, <1>2, <2>2, KafkaNextInv DEF IInv, AppInv, Stop
    <3>2. PgInv'
      BY <2>2, PgStutter DEF IInv
    <3> QED BY <1>2, <3>1, <3>2, StopMove DEF IInv
  <2>3. CASE UNCHANGED <<pgVars, kVars, exit>>
    <3>1. PgInv' /\ KafkaInv'
      BY <2>3, PgStutter, KafkaStutter DEF IInv
    <3> QED BY <1>2, <3>1, StopMove DEF IInv
  <2> QED BY <1>2, <2>1, <2>2, <2>3 DEF Stop
<1>3. CASE PgNext /\ UNCHANGED <<appVars, kVars>>
  <2>1. PgInv'
    BY <1>3, PgNextInv DEF IInv, AppInv
  <2>2. UNCHANGED exit /\ \A q \in Pod : pg[q].stop = "done" => pg'[q].stop = "done"
    BY <1>3, PgKeeps DEF IInv
  <2>3. KafkaInv'
    BY <1>3, <2>2, KafkaStutter DEF IInv
  <2>4. UNCHANGED kafka
    BY <1>3 DEF kVars
  <2>5. PICK p \in Pod : TRUE
    BY DEF IInv, AppInv, SomeProcess
  <2>6. AppInv'
    BY <1>3, <2>2, <2>4, <2>5, AppFrame DEF IInv
  <2> QED BY <2>1, <2>3, <2>6 DEF IInv
<1>4. CASE KafkaNext /\ UNCHANGED <<appVars, pgVars>>
  <2>1. KafkaInv'
    BY <1>0, <1>4, KafkaNextInv DEF IInv, AppInv
  <2>2. /\ UNCHANGED exit \/ \E p \in Pod : EndedByKafka(p)
        /\ \A q \in Pod : kafka[q].stop = "done" => kafka'[q].stop = "done"
    BY <1>4, KafkaKeeps DEF IInv
  <2>3. PgInv'
    BY <1>4, PgStutter DEF IInv
  <2>4. UNCHANGED pg
    BY <1>4 DEF pgVars
  <2>5. PICK p \in Pod : UNCHANGED exit \/ EndedByKafka(p)
    BY <2>2 DEF IInv, AppInv, SomeProcess
  <2>6. AppInv'
    BY <1>4, <2>2, <2>4, <2>5, AppFrame DEF IInv, EndedByKafka, ExitType
  <2> QED BY <2>1, <2>3, <2>6 DEF IInv
<1>5. CASE UNCHANGED vars
  <2>1. UNCHANGED <<appVars, pgVars, kVars, exit>>
    BY <1>5 DEF vars
  <2>2. PgInv' /\ KafkaInv'
    BY <2>1, PgStutter, KafkaStutter DEF IInv
  <2>3. UNCHANGED <<pg, kafka>>
    BY <2>1 DEF pgVars, kVars
  <2>4. PICK p \in Pod : TRUE
    BY DEF IInv, AppInv, SomeProcess
  <2>5. AppInv'
    BY <2>1, <2>3, <2>4, AppFrame DEF IInv
  <2> QED BY <2>2, <2>5 DEF IInv
<1> QED BY <1>1, <1>2, <1>3, <1>4, <1>5 DEF Next

\* An application that is enabled has a place in the order of the shutdown.
LEMMA InvSuccessIsClean ==
  ASSUME IInv
  PROVE  SuccessIsClean
<1> SUFFICES ASSUME NEW p \in Pod, exit[p] = "success"
             PROVE  /\ Enabled("kafka") => kafka[p].stop = "done" /\ ~kafka[p].handler
                    /\ Enabled("postgres") => pg[p].stop = "done" /\ Cardinality(Running(p)) <= 1
                    /\ Server # None => /\ server[p].stop = "done"
                                        /\ app[p].timeout \/ server[p].open = 0
                    /\ caller[p] # "waits"
  BY DEF SuccessIsClean
<1>1. app[p].stopping = Len(apps) + 1 /\ caller[p] # "waits"
  BY DEF IInv, AppInv, SuccessIsLast
<1>2. Len(apps) \in 0..9 /\ DOMAIN apps = 1..Len(apps)
  BY AppsType DEF IInv, AppInv
<1>3. \A i \in DOMAIN apps : /\ apps[i] = "postgres" => pg[p].stop = "done"
                             /\ apps[i] = "kafka" => kafka[p].stop = "done"
                             /\ apps[i] = Server => server[p].stop = "done"
  <2>1. \A i \in DOMAIN apps : i < app[p].stopping
    BY <1>1, <1>2
  <2> QED BY <2>1 DEF IInv, AppInv, EarlierDown
<1>4. Enabled("kafka") => kafka[p].stop = "done" /\ ~kafka[p].handler
  <2>1. kafka[p].stop = "done" => ~kafka[p].handler
    BY DEF IInv, KafkaInv, SessionsKept
  <2> QED BY <1>3, <2>1 DEF Enabled
<1>5. Enabled("postgres") => pg[p].stop = "done" /\ Cardinality(Running(p)) <= 1
  <2>1. pg[p].stop = "done" => Cardinality(Running(p)) <= 1
    BY AtMostOne DEF IInv, PgInv, ServeStops
  <2> QED BY <1>3, <2>1 DEF Enabled
<1>6. Server # None => server[p].stop = "done" /\ (app[p].timeout \/ server[p].open = 0)
  <2>1. Server # None => server[p].stop = "done"
    BY <1>3, ServerIsEnabled DEF Enabled
  <2>2. server[p].stop = "done" => app[p].timeout \/ server[p].open = 0
    BY DEF IInv, AppInv, ServersDrain
  <2> QED BY <2>1, <2>2
<1> QED BY <1>1, <1>4, <1>5, <1>6

\* The inductive invariant holds in every state of every instance.
THEOREM Invariance == Spec => []IInv
<1>1. Init => IInv
  BY InitInv
<1>2. IInv /\ [Next]_vars => IInv'
  BY NextInv
<1> QED BY <1>1, <1>2, PTL DEF Spec

\* Type correctness of the service: the three applications and Run (app.go).
THEOREM TypeCorrect == Spec => []TypeOK
<1>1. IInv => TypeOK
  BY DEF IInv, PgInv, KafkaInv, AppInv, TypeOK
<1> QED BY <1>1, Invariance, PTL

\* execEvent of the postgres worker: two handlers of one event, only after a key was lost.
THEOREM HandlersExclusive == Spec => []OneHandlerPerEvent
<1>1. IInv => OneHandlerPerEvent
  BY PgInvImplies DEF IInv
<1> QED BY <1>1, Invariance, PTL

\* findDetailData of the postgres worker: what a handler gets is not older than its event.
THEOREM DetailsFresh == Spec => []DetailNotOlder
<1>1. IInv => DetailNotOlder
  BY DEF IInv, PgInv
<1> QED BY <1>1, Invariance, PTL

\* Shutdown of the postgres worker leaves one notification behind, at most.
THEOREM ShutdownLeavesOne == Spec => []OneStraggler
<1>1. IInv => OneStraggler
  BY PgInvImplies DEF IInv
<1> QED BY <1>1, Invariance, PTL

\* processMessage and ConsumeClaim of the kafka worker: the offset never passes a message
\* that no handler has returned from.
THEOREM OffsetNeverSkips == Spec => []NoMessageSkipped
<1>1. IInv => NoMessageSkipped
  BY DEF IInv, KafkaInv, OffsetsHandled
<1> QED BY <1>1, Invariance, PTL

\* Setup and Shutdown of the kafka worker: one way to crash, the ready channel is no other.
THEOREM CrashOnlyEarly == Spec => []CrashOnlyBeforeServe
<1>1. IInv => CrashOnlyBeforeServe
  BY DEF IInv, KafkaInv
<1> QED BY <1>1, Invariance, PTL

\* shutdown of App: "Success shutdown all application" is only said of a clean shutdown.
THEOREM SuccessClean == Spec => []SuccessIsClean
<1>1. IInv => SuccessIsClean
  BY InvSuccessIsClean
<1> QED BY <1>1, Invariance, PTL

=============================================================================
