----------------------- MODULE TaskQueueWorkerProofs -----------------------
(***************************************************************************)
(* Proofs about TaskQueueWorker, for any number of goroutines, jobs, calls *)
(* and crashes.  For any runtimes and calls: its types, one run at a time  *)
(* in a runtime, the release of the lock, and that a job is left RETRYING  *)
(* only by a cancelled handler, hence only by a call of Task.cancel that   *)
(* overlaps with a run.  With hypotheses that each theorem names: jobs     *)
(* that succeeded stay so, the counters of the summary, and which overlaps *)
(* forget a job.                                                           *)
(***************************************************************************)
EXTENDS TaskQueueWorker, FiniteSetTheorems, TLAPS

-----------------------------------------------------------------------------
\* The values that the actions compute

\* There are finitely many jobs.
LEMMA JobsAreFinite == IsFiniteSet(Job)
<1>1. NumJobs \in Int
  BY BoundAssumption
<1>2. IsFiniteSet(1..NumJobs)
  BY <1>1, FS_Interval
<1>q. QED
  BY <1>2 DEF Job

\* A set of jobs has a size, as the counts of UpdateJob and CountAllJob need it.
LEMMA JobsAreCounted ==
    ASSUME NEW S \in SUBSET Job
    PROVE  Cardinality(S) \in Nat
<1>1. IsFiniteSet(S)
  BY JobsAreFinite, FS_Subset
<1>q. QED
  BY <1>1, FS_CardinalityType

\* The increments of one move between two statuses
LEMMA MovedType ==
    ASSUME NEW from, NEW to, NEW m \in Int, NEW n \in Int
    PROVE  Moved(from, to, m, n) \in [Status -> Int]
BY DEF Moved

\* The counts that AggregateAllTaskJob returns
LEMMA CountsType == Counts \in [Status -> Int]
BY JobsAreCounted DEF Counts, CountAllJob

\* The locals of a goroutine that has not started
LEMMA NoLocType == NoLoc \in Locals /\ NoIncr \in [Status -> Int]
BY DEF NoLoc, NoIncr, Locals, Uncounted

\* The increment of a single counter
LEMMA IncrType ==
    ASSUME NEW s, NEW n \in Int
    PROVE  [NoIncr EXCEPT ![s] = n] \in [Status -> Int]
<1>1. [NoIncr EXCEPT ![s] = n] = [x \in Status |-> IF x = s THEN n ELSE 0]
  BY DEF NoIncr
<1>2. \A x \in Status : (IF x = s THEN n ELSE 0) \in Int
  OBVIOUS
<1>q. QED
  BY <1>1, <1>2, Zenon

\* The increments of two moves, added up
LEMMA SumType ==
    ASSUME NEW f \in [Status -> Int], NEW g \in [Status -> Int]
    PROVE  [s \in Status |-> f[s] + g[s]] \in [Status -> Int]
OBVIOUS

\* The jobs that StreamAllJob reads
LEMMA FindAllJobType ==
    ASSUME NEW sts \in SUBSET Status
    PROVE  FindAllJob(sts) \in SUBSET [id : Job, st : Status]
BY DEF FindAllJob

\* One local of a goroutine is assigned: the others, its job id among them, stay.
LEMMA LocalsFields ==
    ASSUME NEW r \in Locals
    PROVE  /\ \A j \in Job : [r EXCEPT !.job = j] \in Locals /\ [r EXCEPT !.job = j].job = j
           /\ \A s \in Status : [r EXCEPT !.st = s] \in Locals /\ [r EXCEPT !.st = s].job = r.job
           /\ \A n \in Nat : [r EXCEPT !.rt = n] \in Locals /\ [r EXCEPT !.rt = n].job = r.job
           /\ \A b \in BOOLEAN :
                 [r EXCEPT !.flag = b] \in Locals /\ [r EXCEPT !.flag = b].job = r.job
           /\ \A t \in SUBSET [id : Job, st : Status] :
                 [r EXCEPT !.todo = t] \in Locals /\ [r EXCEPT !.todo = t].job = r.job
           /\ \A i \in [Status -> Int] :
                 [r EXCEPT !.incr = i] \in Locals /\ [r EXCEPT !.incr = i].job = r.job
           /\ \A n \in Int :
                 [r EXCEPT !.matched = n] \in Locals /\ [r EXCEPT !.matched = n].job = r.job
BY DEF Locals

\* The locals after UpdateJob: nothing but the increments and the count changes.
LEMMA UpdatedType ==
    ASSUME ProcOK, NEW p \in Proc, NEW i \in [Status -> Int]
    PROVE  /\ Updated(p, i) \in Locals /\ Updated(p, i).job = loc[p].job
           /\ Updated(p, i).incr = i /\ Updated(p, i).matched = Uncounted
           /\ Updated(p, i).op = loc[p].op /\ Updated(p, i).st = loc[p].st
           /\ Updated(p, i).rt = loc[p].rt /\ Updated(p, i).flag = loc[p].flag
           /\ Updated(p, i).todo = loc[p].todo
<1> DEFINE r == [loc[p] EXCEPT !.incr = i]
<1>1. r \in Locals
  BY LocalsFields DEF ProcOK
<1>2. Uncounted \in Int
  BY DEF Uncounted
<1> HIDE DEF r
<1>3. [r EXCEPT !.matched = Uncounted] \in Locals
  BY <1>1, <1>2, LocalsFields
<1>4. Updated(p, i) \in Locals
  BY <1>3 DEF r, Updated
<1>5. loc[p] \in Locals
  BY DEF ProcOK
<1>q. QED
  BY <1>4, <1>5 DEF Updated, Locals

\* What UpdateJob says it has matched is a number in either store.
LEMMA MatchedCountType ==
    ASSUME ProcOK, NEW p \in Proc, NEW n \in Int
    PROVE  MatchedCount(p, n) \in Int
BY DEF MatchedCount, ProcOK, Locals

-----------------------------------------------------------------------------
\* The three ways a goroutine goes on

\* It goes to another label with new locals.
LEMMA Moves ==
    ASSUME NEW p \in Proc, ProcOK, NEW l \in Label, Goto(p, l), NEW r \in Locals, Local(p, r),
           l \in HasJob => r.job \in Job
    PROVE  ProcOK'
BY DEF ProcOK, Goto, Local

\* It goes to another label with the locals it has.
LEMMA Jumps ==
    ASSUME NEW p \in Proc, ProcOK, NEW l \in Label, Goto(p, l), UNCHANGED loc,
           l \in HasJob => loc[p].job \in Job
    PROVE  ProcOK'
BY DEF ProcOK, Goto

\* It ends.
LEMMA Returns ==
    ASSUME NEW p \in Proc, ProcOK, Return(p)
    PROVE  ProcOK'
BY NoLocType, Moves DEF Return, Label, HasJob

-----------------------------------------------------------------------------
\* Every step keeps the types

\* The steps of the calls that several goroutines share
LEMMA CommonStepType ==
    ASSUME NEW p \in Proc, TypeOK, CommonStep(p)
    PROVE  TypeOK'
<1> USE DEF TypeOK
<1>1. p \in Proc
  BY DEF Proc
<1> USE <1>1
<1>2. CASE IncrementSummary(p)
  <2>1. StoreOK' /\ EngineOK' /\ BoundsOK'
    BY <1>2 DEF IncrementSummary, StoreOK, EngineOK, BoundsOK, ProcOK, Locals, engine, bounds
  <2>2. LET r == [loc[p] EXCEPT !.incr = NoIncr]
        IN  r \in Locals /\ r.job = loc[p].job
    BY LocalsFields, NoLocType DEF ProcOK
  <2>3. AfterIncrement(pc[p]) \in Label
    BY DEF AfterIncrement, Label, TriggerLabel, NextLabel, CallLabel, PrepareLabel, InRun
  <2>4. ~ At(p, "incrDelete") /\ AfterIncrement(pc[p]) \in HasJob => loc[p].job \in Job
    BY <1>2 DEF IncrementSummary, AfterIncrement, HasJob, ProcOK, At
  <2>5. ProcOK'
    BY <1>2, <2>2, <2>3, <2>4, Moves, Returns DEF IncrementSummary
  <2>q. QED
    BY <2>1, <2>5
<1>3. CASE NextPeek(p)
  <2>1. StoreOK' /\ EngineOK' /\ BoundsOK'
    BY <1>3 DEF NextPeek, StoreOK, EngineOK, BoundsOK, store, engine, bounds
  <2>2. CASE queue # << >>
    <3>1. Head(queue) \in Job
      BY <2>2 DEF StoreOK
    <3>2. LET r == [loc[p] EXCEPT !.job = Head(queue)]
          IN  r \in Locals /\ r.job \in Job
      BY <3>1, LocalsFields DEF ProcOK
    <3>3. ProcOK'
      BY <1>3, <2>2, <3>2, Moves DEF NextPeek, Label, NextLabel
    <3>q. QED
      BY <2>1, <3>3
  <2>3. CASE queue = << >>
    <3>1. ProcOK'
      BY <1>3, <2>3, Jumps, Returns DEF NextPeek, Label, NextLabel, HasJob
    <3>q. QED
      BY <2>1, <3>1
  <2>q. QED
    BY <2>2, <2>3
<1>4. CASE NextFind(p)
  <2>1. StoreOK' /\ EngineOK' /\ BoundsOK'
    BY <1>4 DEF NextFind, StoreOK, EngineOK, BoundsOK, store, engine, bounds, Status
  <2>2. ProcOK'
    BY <1>4, Jumps DEF NextFind, Label, TriggerLabel, NextLabel, CallLabel, PrepareLabel,
       InRun, HasJob
  <2>q. QED
    BY <2>1, <2>2
<1>5. CASE NextPop(p)
  <2>1. StoreOK' /\ EngineOK' /\ BoundsOK'
    BY <1>5 DEF NextPop, StoreOK, EngineOK, BoundsOK, store, engine, bounds, Status
  <2>2. LET r == [loc[p] EXCEPT !.flag = FALSE]
        IN  r \in Locals /\ r.job = loc[p].job
    BY <1>5, LocalsFields DEF NextPop, ProcOK
  <2>3. ProcOK'
    BY <1>5, <2>2, Moves DEF NextPop, Label, TriggerLabel, NextLabel, CallLabel,
       PrepareLabel, InRun, HasJob
  <2>q. QED
    BY <2>1, <2>3
<1>6. CASE NextStream(p)
  <2>1. StoreOK' /\ EngineOK' /\ BoundsOK'
    BY <1>6 DEF NextStream, StoreOK, EngineOK, BoundsOK, store, engine, bounds
  <2>2. PICK t \in SUBSET [id : Job, st : Status] :
          Local(p, [loc[p] EXCEPT !.todo = t, !.flag = FALSE])
    BY <1>6, FindAllJobType DEF NextStream, Status
  <2>3. [loc[p] EXCEPT !.todo = t, !.flag = FALSE] \in Locals
    BY DEF ProcOK, Locals
  <2>4. ProcOK'
    BY <1>6, <2>2, <2>3, Moves DEF NextStream, Label, NextLabel, HasJob
  <2>q. QED
    BY <2>1, <2>4
<1>7. CASE StreamPush(p)
  <2>1. CASE loc[p].todo = {}
    <3>1. StoreOK' /\ EngineOK' /\ BoundsOK'
      BY <1>7, <2>1 DEF StreamPush, StoreOK, EngineOK, BoundsOK, engine, bounds
    <3>2. ProcOK'
      BY <1>7, <2>1, Jumps DEF StreamPush, At, Label, TriggerLabel, NextLabel, CallLabel,
         PrepareLabel, InRun, HasJob
    <3>q. QED
      BY <3>1, <3>2
  <2>2. CASE loc[p].todo # {}
    <3>1. PICK it \in loc[p].todo : /\ queue' = Append(queue, it.id)
                                    /\ Local(p, [loc[p] EXCEPT !.todo = loc[p].todo \ {it}])
      BY <1>7, <2>2 DEF StreamPush
    <3>2. loc[p].todo \in SUBSET [id : Job, st : Status] /\ it.id \in Job
      BY DEF ProcOK, Locals
    <3>3. EngineOK' /\ BoundsOK'
      BY <1>7 DEF StreamPush, EngineOK, BoundsOK, engine, bounds
    <3>4. queue' \in Seq(Job)
      BY <3>1, <3>2 DEF StoreOK
    <3>5. loading' = loading \/ loading' = TRUE
      BY <1>7, <2>2 DEF StreamPush
    <3>6. loading' \in BOOLEAN
      BY <3>5 DEF StoreOK
    <3>7. StoreOK'
      BY <1>7, <3>4, <3>6 DEF StreamPush, StoreOK
    <3>8. [loc[p] EXCEPT !.todo = loc[p].todo \ {it}] \in Locals
      BY <3>2, LocalsFields DEF ProcOK
    <3>9. ProcOK'
      BY <1>7, <2>2, <3>1, <3>8 DEF StreamPush, Local, ProcOK, HasJob
    <3>q. QED
      BY <3>3, <3>7, <3>9
  <2>q. QED
    BY <2>1, <2>2
<1>8. CASE RegisterJobToWorker(p)
  <2>1. StoreOK' /\ EngineOK' /\ BoundsOK'
    BY <1>8 DEF RegisterJobToWorker, StoreOK, EngineOK, BoundsOK, store, engine, bounds, Status
  <2>2. ProcOK'
    BY <1>8, Jumps, Returns DEF RegisterJobToWorker, Label, TriggerLabel, NextLabel,
       CallLabel, PrepareLabel, InRun, HasJob
  <2>q. QED
    BY <2>1, <2>2
<1>9. CASE UnlockTaskCount(p)
  <2>1. StoreOK' /\ EngineOK' /\ BoundsOK'
    BY <1>9 DEF UnlockTaskCount, StoreOK, EngineOK, BoundsOK, store, engine, bounds, Status
  <2>2. ProcOK'
    BY <1>9, Jumps, Returns DEF UnlockTaskCount, Label, TriggerLabel, NextLabel, CallLabel,
       PrepareLabel, InRun, HasJob
  <2>q. QED
    BY <2>1, <2>2
<1>10. CASE UnlockTaskDel(p)
  <2>1. StoreOK' /\ EngineOK' /\ BoundsOK'
    BY <1>10 DEF UnlockTaskDel, StoreOK, EngineOK, BoundsOK, store, engine, bounds, Status
  <2>2. ProcOK'
    BY <1>10, Jumps, Returns DEF UnlockTaskDel, Label, TriggerLabel, NextLabel, CallLabel,
       PrepareLabel, InRun, HasJob
  <2>q. QED
    BY <2>1, <2>2
<1>11. CASE CountMatched(p)
  <2>1. StoreOK' /\ EngineOK' /\ BoundsOK'
    BY <1>11 DEF CountMatched, StoreOK, EngineOK, BoundsOK, store, engine, bounds
  <2>2. PICK n \in Int : Local(p, [loc[p] EXCEPT !.matched = n])
    <3> DEFINE n == Cardinality({j \in Job : Matches(p, j)})
    <3>1. n \in Int
      BY JobsAreCounted
    <3>2. Local(p, [loc[p] EXCEPT !.matched = n])
      BY <1>11 DEF CountMatched
    <3>q. QED
      BY <3>1, <3>2
  <2>3. LET r == [loc[p] EXCEPT !.matched = n]
        IN  r \in Locals /\ r.job = loc[p].job
    BY LocalsFields DEF ProcOK
  <2>4. ProcOK'
    BY <1>11, <2>2, <2>3 DEF CountMatched, Local, ProcOK
  <2>q. QED
    BY <2>1, <2>4
<1>q. QED
  BY <1>2, <1>3, <1>4, <1>5, <1>6, <1>7, <1>8, <1>9, <1>10, <1>11 DEF CommonStep

\* The steps of a triggerTask goroutine
LEMMA WorkerStepType ==
    ASSUME NEW p \in Worker, TypeOK, WorkerStep(p)
    PROVE  TypeOK'
<1> USE DEF TypeOK
<1>1. p \in Proc
  BY DEF Proc
<1> USE <1>1
<1>2. CASE Serve(p)
  <2>1. StoreOK' /\ EngineOK' /\ BoundsOK'
    BY <1>2 DEF Serve, StoreOK, EngineOK, BoundsOK, store, engine, bounds, Status
  <2>2. ProcOK'
    BY <1>2, Jumps DEF Serve, Label, TriggerLabel, NextLabel, CallLabel, PrepareLabel, InRun,
       HasJob
  <2>q. QED
    BY <2>1, <2>2
<1>3. CASE TriggerStop(p)
  <2>1. StoreOK' /\ EngineOK' /\ BoundsOK'
    BY <1>3 DEF TriggerStop, StoreOK, EngineOK, BoundsOK, store, engine, bounds, Status
  <2>2. ProcOK'
    BY <1>3, Jumps DEF TriggerStop, Label, TriggerLabel, NextLabel, CallLabel, PrepareLabel,
       InRun, HasJob
  <2>q. QED
    BY <2>1, <2>2
<1>4. CASE TriggerHold(p)
  <2>1. StoreOK' /\ EngineOK' /\ BoundsOK'
    BY <1>4 DEF TriggerHold, StoreOK, EngineOK, BoundsOK, store, engine, bounds, Status
  <2>2. ProcOK'
    BY <1>4, Jumps, Returns DEF TriggerHold, Label, TriggerLabel, NextLabel, CallLabel,
       PrepareLabel, InRun, HasJob
  <2>q. QED
    BY <2>1, <2>2
<1>5. CASE TriggerAcquire(p)
  <2>1. StoreOK' /\ EngineOK' /\ BoundsOK'
    BY <1>5 DEF TriggerAcquire, StoreOK, EngineOK, BoundsOK, store, engine, bounds, Status
  <2>2. ProcOK'
    BY <1>5, Jumps DEF TriggerAcquire, Label, TriggerLabel, NextLabel, CallLabel,
       PrepareLabel, InRun, HasJob
  <2>q. QED
    BY <2>1, <2>2
<1>6. CASE RunBegin(p)
  <2>1. StoreOK' /\ EngineOK' /\ BoundsOK'
    BY <1>6 DEF RunBegin, StoreOK, EngineOK, BoundsOK, store, engine, bounds, Status
  <2>2. ProcOK'
    BY <1>6, Jumps DEF RunBegin, Label, TriggerLabel, NextLabel, CallLabel, PrepareLabel,
       InRun, HasJob
  <2>q. QED
    BY <2>1, <2>2
<1>7. CASE RunLock(p)
  <2>1. StoreOK' /\ EngineOK' /\ BoundsOK'
    BY <1>7 DEF RunLock, StoreOK, EngineOK, BoundsOK, store, engine, bounds, Status
  <2>2. ProcOK'
    BY <1>7, Jumps DEF RunLock, Label, TriggerLabel, NextLabel, CallLabel, PrepareLabel,
       InRun, HasJob
  <2>q. QED
    BY <2>1, <2>2
<1>8. CASE ExecPop(p)
  <2>1. EngineOK' /\ BoundsOK'
    BY <1>8 DEF ExecPop, EngineOK, BoundsOK, engine, bounds
  <2>2. CASE queue = << >>
    <3>1. StoreOK'
      BY <1>8, <2>2 DEF ExecPop, StoreOK, store
    <3>2. ProcOK'
      BY <1>8, <2>2, Jumps DEF ExecPop, Label, TriggerLabel, InRun, HasJob
    <3>q. QED
      BY <2>1, <3>1, <3>2
  <2>3. CASE queue # << >>
    <3>1. Head(queue) \in Job /\ Tail(queue) \in Seq(Job)
      BY <2>3 DEF StoreOK
    <3>2. StoreOK'
      BY <1>8, <2>3, <3>1 DEF ExecPop, StoreOK, store
    <3>3. LET r == [loc[p] EXCEPT !.job = Head(queue)]
          IN  r \in Locals /\ r.job \in Job
      BY <3>1, LocalsFields DEF ProcOK
    <3>4. ProcOK'
      BY <1>8, <2>3, <3>3, Moves DEF ExecPop, Label, TriggerLabel, InRun, HasJob
    <3>q. QED
      BY <2>1, <3>2, <3>4
  <2>q. QED
    BY <2>2, <2>3
<1>9. CASE ExecFind(p)
  <2>1. StoreOK' /\ EngineOK' /\ BoundsOK'
    BY <1>9 DEF ExecFind, StoreOK, EngineOK, BoundsOK, store, engine, bounds
  <2>2. loc[p].job \in Job
    BY <1>9 DEF ExecFind, ProcOK, HasJob, At
  <2>3. Attempt(loc[p].job) \in Nat
    BY <2>2 DEF Attempt, StoreOK
  <2>4. LET r == [loc[p] EXCEPT !.rt = Attempt(loc[p].job)]
        IN  r \in Locals /\ r.job = loc[p].job
    BY <2>3, LocalsFields DEF ProcOK
  <2>5. ProcOK'
    BY <1>9, <2>2, <2>4, Moves, Jumps DEF ExecFind, Label, TriggerLabel, InRun, HasJob
  <2>q. QED
    BY <2>1, <2>5
<1>10. CASE ExecMark(p)
  <2>1. StoreOK' /\ EngineOK' /\ BoundsOK'
    BY <1>10 DEF ExecMark, StoreOK, EngineOK, BoundsOK, engine, bounds, Status
  <2> DEFINE n == IF Exists(loc[p].job) THEN 1 ELSE 0
             i == Moved("QUEUEING", "RETRYING", MatchedCount(p, n), n)
  <2>2. n \in Int
    OBVIOUS
  <2> HIDE DEF n
  <2>4. i \in [Status -> Int]
    BY <2>2, MatchedCountType, MovedType
  <2> HIDE DEF i
  <2>5. Updated(p, i) \in Locals /\ Updated(p, i).job = loc[p].job
    BY <2>4, UpdatedType
  <2>6. Local(p, Updated(p, i)) /\ Goto(p, "incrMark") /\ At(p, "mark")
    BY <1>10 DEF ExecMark, i, n
  <2>3. ProcOK'
    BY <2>5, <2>6, Moves DEF Label, TriggerLabel, InRun, HasJob, ProcOK, At
  <2>q. QED
    BY <2>1, <2>3
<1>11. CASE ExecCancelled(p)
  <2>1. StoreOK' /\ EngineOK' /\ BoundsOK'
    BY <1>11 DEF ExecCancelled, StoreOK, EngineOK, BoundsOK, store, engine, bounds, Status
  <2>2. ProcOK'
    BY <1>11, Jumps DEF ExecCancelled, Label, TriggerLabel, NextLabel, CallLabel,
       PrepareLabel, InRun, HasJob
  <2>q. QED
    BY <2>1, <2>2
<1>12. CASE ExecResult(p)
  <2>1. StoreOK' /\ EngineOK' /\ BoundsOK'
    BY <1>12 DEF ExecResult, StoreOK, EngineOK, BoundsOK, store, engine, bounds
  <2>2. PICK s \in {"QUEUEING", "SUCCESS", "FAILURE"}, l \in {"requeue", "finish"} :
          Local(p, [loc[p] EXCEPT !.st = s]) /\ Goto(p, l)
    BY <1>12 DEF ExecResult
  <2>3. LET r == [loc[p] EXCEPT !.st = s]
        IN  r \in Locals /\ r.job = loc[p].job
    BY LocalsFields DEF ProcOK, Status
  <2>4. ProcOK'
    BY <1>12, <2>2, <2>3, Moves DEF ExecResult, Label, TriggerLabel, InRun, HasJob, ProcOK, At
  <2>q. QED
    BY <2>1, <2>4
<1>13. CASE ExecRequeue(p)
  <2>1. StoreOK' /\ EngineOK' /\ BoundsOK'
    BY <1>13 DEF ExecRequeue, StoreOK, EngineOK, BoundsOK, ProcOK, HasJob, At, store, engine,
       bounds
  <2>2. ProcOK'
    BY <1>13, Jumps DEF ExecRequeue, Label, TriggerLabel, InRun, HasJob, ProcOK, At
  <2>q. QED
    BY <2>1, <2>2
<1>14. CASE ExecFinish(p)
  <2>1. loc[p].st \in Status \cup {"NONE"} /\ loc[p].rt \in Nat
    BY DEF ProcOK, Locals
  <2>2. StoreOK' /\ EngineOK' /\ BoundsOK'
    BY <1>14, <2>1 DEF ExecFinish, Deletes, StoreOK, EngineOK, BoundsOK, engine, bounds, Status
  <2>3. PICK i \in [Status -> Int] : Local(p, Updated(p, i))
    <3> DEFINE n == IF Exists(loc[p].job) THEN 1 ELSE 0
               m == MatchedCount(p, n)
               i == IF Deletes(p) THEN [NoIncr EXCEPT !["RETRYING"] = -1]
                    ELSE Moved("RETRYING", loc[p].st, m, n)
    <3>1. Local(p, Updated(p, i))
      BY <1>14 DEF ExecFinish
    <3>2. [NoIncr EXCEPT !["RETRYING"] = -1] \in [Status -> Int]
      BY IncrType
    <3>3. n \in Int
      OBVIOUS
    <3> HIDE DEF n
    <3>4. m \in Int
      BY <3>3, MatchedCountType
    <3> HIDE DEF m
    <3>5. i \in [Status -> Int]
      BY <3>2, <3>3, <3>4, MovedType
    <3>q. QED
      BY <3>1, <3>5
  <2>4. Updated(p, i) \in Locals /\ Updated(p, i).job = loc[p].job
    BY UpdatedType
  <2>5. ProcOK'
    BY <1>14, <2>3, <2>4, Moves DEF ExecFinish, Label, TriggerLabel, InRun, HasJob
  <2>q. QED
    BY <2>2, <2>5
<1>15. CASE RunUnlock(p)
  <2>1. StoreOK' /\ EngineOK' /\ BoundsOK'
    BY <1>15 DEF RunUnlock, StoreOK, EngineOK, BoundsOK, store, engine, bounds, Status
  <2>2. ProcOK'
    BY <1>15, Jumps DEF RunUnlock, Label, TriggerLabel, NextLabel, CallLabel, PrepareLabel,
       InRun, HasJob
  <2>q. QED
    BY <2>1, <2>2
<1>16. CASE RunRelease(p)
  <2>1. StoreOK' /\ EngineOK' /\ BoundsOK'
    BY <1>16 DEF RunRelease, StoreOK, EngineOK, BoundsOK, store, engine, bounds, Status
  <2>2. ProcOK'
    BY <1>16, Jumps DEF RunRelease, Label, TriggerLabel, NextLabel, CallLabel, PrepareLabel,
       InRun, HasJob
  <2>q. QED
    BY <2>1, <2>2
<1>17. CASE RunCancel(p)
  <2>1. StoreOK' /\ EngineOK' /\ BoundsOK'
    BY <1>17 DEF RunCancel, StoreOK, EngineOK, BoundsOK, store, engine, bounds
  <2>2. [NoLoc EXCEPT !.flag = TRUE] \in Locals
    BY LocalsFields, NoLocType
  <2>3. ProcOK'
    BY <1>17, <2>2, Moves DEF RunCancel, Label, NextLabel, HasJob
  <2>q. QED
    BY <2>1, <2>3
<1>q. QED
  BY <1>2, <1>3, <1>4, <1>5, <1>6, <1>7, <1>8, <1>9, <1>10, <1>11, <1>12, <1>13, <1>14,
     <1>15, <1>16, <1>17 DEF WorkerStep

\* One update of all the jobs with a status, whichever bulk call it belongs to
LEMMA BulkUpdateType ==
    ASSUME TypeOK, NEW p \in Proc, NEW l, NEW from, NEW to \in Status,
           NEW next \in CallLabel, next \notin HasJob, BulkUpdate(p, l, from, to, next)
    PROVE  TypeOK'
<1> USE DEF TypeOK
<1> DEFINE js == {j \in Job : status[j] = from}
           n == Cardinality(js)
           m == MatchedCount(p, n)
           d == IF l = "unholdSave" THEN Moved(from, to, n, m) ELSE Moved(from, to, m, n)
           i == [s \in Status |-> loc[p].incr[s] + d[s]]
<1>1. StoreOK' /\ EngineOK' /\ BoundsOK'
  BY DEF BulkUpdate, StoreOK, EngineOK, BoundsOK, engine, bounds
<1>2. n \in Int
  BY JobsAreCounted
<1>3. Local(p, Updated(p, i)) /\ Goto(p, next)
  BY DEF BulkUpdate
<1> HIDE DEF n
<1>4. m \in Int
  BY <1>2, MatchedCountType
<1> HIDE DEF m
<1>5. d \in [Status -> Int]
  BY <1>2, <1>4, MovedType
<1> HIDE DEF d
<1>6. loc[p].incr \in [Status -> Int]
  BY DEF ProcOK, Locals
<1>7. i \in [Status -> Int]
  BY <1>5, <1>6, SumType
<1> HIDE DEF i
<1>8. Updated(p, i) \in Locals
  BY <1>7, UpdatedType
<1>9. ProcOK'
  BY <1>3, <1>8, Moves DEF Label
<1>q. QED
  BY <1>1, <1>9

\* One deletion of all the jobs with a status
LEMMA BulkCleanType ==
    ASSUME TypeOK, NEW p \in Proc, NEW l, NEW from \in Status,
           NEW next \in CallLabel, next \notin HasJob, BulkClean(p, l, from, next)
    PROVE  TypeOK'
<1> USE DEF TypeOK
<1> DEFINE n == Cardinality({j \in Job : status[j] = from})
           i == [loc[p].incr EXCEPT ![from] = @ - n]
<1>1. StoreOK' /\ EngineOK' /\ BoundsOK'
  BY DEF BulkClean, StoreOK, EngineOK, BoundsOK, engine, bounds
<1>2. n \in Int
  BY JobsAreCounted
<1>3. Local(p, [loc[p] EXCEPT !.incr = i]) /\ Goto(p, next)
  BY DEF BulkClean
<1> HIDE DEF n
<1>4. loc[p].incr \in [Status -> Int]
  BY DEF ProcOK, Locals
<1>5. i \in [Status -> Int]
  BY <1>2, <1>4
<1> HIDE DEF i
<1>6. [loc[p] EXCEPT !.incr = i] \in Locals
  BY <1>5, LocalsFields DEF ProcOK
<1>7. ProcOK'
  BY <1>3, <1>6, Moves DEF Label
<1>q. QED
  BY <1>1, <1>7

\* The steps of an API or dashboard call
LEMMA ClientStepType ==
    ASSUME NEW p \in Client, TypeOK, ClientStep(p)
    PROVE  TypeOK'
<1> USE DEF TypeOK
<1>1. p \in Proc
  BY DEF Proc
<1> USE <1>1
<1>2. CASE AddSummary(p)
  <2>1. StoreOK' /\ EngineOK' /\ BoundsOK'
    BY <1>2 DEF AddSummary, StoreOK, EngineOK, BoundsOK, store, engine, bounds
  <2>2. PICK s \in {"HOLD", "QUEUEING"}, b \in BOOLEAN :
          Local(p, [loc[p] EXCEPT !.st = s, !.flag = b])
    BY <1>2 DEF AddSummary, StoreOK
  <2>3. LET r == [loc[p] EXCEPT !.st = s, !.flag = b]
        IN  r \in Locals /\ r.job = loc[p].job
    BY DEF ProcOK, Locals, Status
  <2>4. ProcOK'
    BY <1>2, <2>2, <2>3, Moves DEF AddSummary, Label, CallLabel, HasJob, ProcOK, At
  <2>q. QED
    BY <2>1, <2>4
<1>3. CASE AddSave(p)
  <2>1. loc[p].st \in Status \cup {"NONE"}
    BY DEF ProcOK, Locals
  <2>2. StoreOK' /\ EngineOK' /\ BoundsOK'
    BY <1>3, <2>1 DEF AddSave, StoreOK, EngineOK, BoundsOK, engine, bounds
  <2>3. [NoIncr EXCEPT ![loc[p].st] = 1] \in [Status -> Int]
    BY IncrType
  <2>4. LET r == [loc[p] EXCEPT !.incr = [NoIncr EXCEPT ![loc[p].st] = 1]]
        IN  r \in Locals /\ r.job = loc[p].job
    BY <2>3, LocalsFields DEF ProcOK
  <2>5. ProcOK'
    BY <1>3, <2>4, Moves DEF AddSave, Label, CallLabel, HasJob, ProcOK, At
  <2>q. QED
    BY <2>2, <2>5
<1>4. CASE AddPush(p)
  <2>1. loc[p].job \in Job
    BY <1>4 DEF AddPush, ProcOK, HasJob, At
  <2>2. StoreOK' /\ EngineOK' /\ BoundsOK'
    BY <1>4, <2>1 DEF AddPush, StoreOK, EngineOK, BoundsOK, store, engine, bounds
  <2>3. PICK b \in BOOLEAN : Local(p, [loc[p] EXCEPT !.flag = b])
    <3>1. Local(p, [loc[p] EXCEPT !.flag = (Len(queue') <= 1)])
      BY <1>4 DEF AddPush
    <3>2. (Len(queue') <= 1) \in BOOLEAN
      OBVIOUS
    <3>q. QED
      BY <3>1, <3>2
  <2>4. [loc[p] EXCEPT !.flag = b] \in Locals
    BY LocalsFields DEF ProcOK
  <2>5. ProcOK'
    BY <1>4, <2>3, <2>4, Moves DEF AddPush, Label, CallLabel, HasJob
  <2>q. QED
    BY <2>2, <2>5
<1>5. CASE AddSemaphore(p)
  <2>1. StoreOK' /\ EngineOK' /\ BoundsOK'
    BY <1>5 DEF AddSemaphore, StoreOK, EngineOK, BoundsOK, store, engine, bounds, Status
  <2>2. ProcOK'
    BY <1>5, Jumps DEF AddSemaphore, Label, TriggerLabel, NextLabel, CallLabel, PrepareLabel,
       InRun, HasJob
  <2>q. QED
    BY <2>1, <2>2
<1>6. CASE AddHasBeenLocked(p)
  <2>1. StoreOK' /\ EngineOK' /\ BoundsOK'
    BY <1>6 DEF AddHasBeenLocked, StoreOK, EngineOK, BoundsOK, store, engine, bounds, Status
  <2>2. ProcOK'
    BY <1>6, Jumps, Returns DEF AddHasBeenLocked, Label, TriggerLabel, NextLabel, CallLabel,
       PrepareLabel, InRun, HasJob
  <2>q. QED
    BY <2>1, <2>2
<1>7. CASE RetryUnlock(p)
  <2>1. StoreOK' /\ EngineOK' /\ BoundsOK'
    BY <1>7 DEF RetryUnlock, StoreOK, EngineOK, BoundsOK, store, engine, bounds, Status
  <2>2. ProcOK'
    BY <1>7, Jumps DEF RetryUnlock, Label, TriggerLabel, NextLabel, CallLabel, PrepareLabel,
       InRun, HasJob, ProcOK, At
  <2>q. QED
    BY <2>1, <2>2
<1>8. CASE RetrySave(p)
  <2>1. loc[p].rt \in Nat /\ loc[p].job \in Job
    BY <1>8 DEF RetrySave, ProcOK, Locals, HasJob, At
  <2>2. StoreOK' /\ EngineOK' /\ BoundsOK'
    BY <1>8, <2>1 DEF RetrySave, StoreOK, EngineOK, BoundsOK, engine, bounds, Status
  <2>3. PICK i \in [Status -> Int] : Local(p, Updated(p, i))
    <3> DEFINE n == IF Exists(loc[p].job) THEN 1 ELSE 0
               m == MatchedCount(p, n)
               i == IF loc[p].st = "QUEUEING" THEN [NoIncr EXCEPT !["QUEUEING"] = n]
                                              ELSE Moved(loc[p].st, "QUEUEING", m, n)
    <3>1. Local(p, Updated(p, i))
      BY <1>8 DEF RetrySave
    <3>2. n \in Int
      OBVIOUS
    <3> HIDE DEF n
    <3>3. [NoIncr EXCEPT !["QUEUEING"] = n] \in [Status -> Int]
      BY <3>2, IncrType
    <3>4. m \in Int
      BY <3>2, MatchedCountType
    <3> HIDE DEF m
    <3>5. i \in [Status -> Int]
      BY <3>2, <3>3, <3>4, MovedType
    <3>q. QED
      BY <3>1, <3>5
  <2>4. Updated(p, i) \in Locals /\ Updated(p, i).job = loc[p].job
    BY UpdatedType
  <2>5. ProcOK'
    BY <1>8, <2>1, <2>3, <2>4, Moves DEF RetrySave, Label, CallLabel, HasJob
  <2>q. QED
    BY <2>2, <2>5
<1>9. CASE RetryPush(p)
  <2>1. loc[p].job \in Job
    BY <1>9 DEF RetryPush, ProcOK, HasJob, At
  <2>2. StoreOK' /\ EngineOK' /\ BoundsOK'
    BY <1>9, <2>1 DEF RetryPush, StoreOK, EngineOK, BoundsOK, store, engine, bounds
  <2>3. ProcOK'
    BY <1>9, Jumps DEF RetryPush, Label, NextLabel, HasJob
  <2>q. QED
    BY <2>2, <2>3
<1>10. CASE StopTask(p)
  <2>1. StoreOK' /\ EngineOK' /\ BoundsOK'
    BY <1>10 DEF StopTask, StoreOK, EngineOK, BoundsOK, store, engine, bounds, Status
  <2>2. ProcOK'
    BY <1>10, Jumps DEF StopTask, Label, TriggerLabel, NextLabel, CallLabel, PrepareLabel,
       InRun, HasJob, ProcOK, At
  <2>q. QED
    BY <2>1, <2>2
<1>11. CASE StopSave(p)
  <2>1. StoreOK' /\ EngineOK' /\ BoundsOK'
    BY <1>11 DEF StopSave, StoreOK, EngineOK, BoundsOK, engine, bounds, Status
  <2>2. PICK i \in [Status -> Int] : Local(p, Updated(p, i))
    <3> DEFINE n == IF status[loc[p].job] = loc[p].st THEN 1 ELSE 0
               m == MatchedCount(p, n)
               i == IF loc[p].st = "STOPPED" THEN [NoIncr EXCEPT !["STOPPED"] = -m]
                                             ELSE Moved(loc[p].st, "STOPPED", m, n)
    <3>1. Local(p, Updated(p, i))
      BY <1>11 DEF StopSave
    <3>2. n \in Int
      OBVIOUS
    <3> HIDE DEF n
    <3>3. m \in Int
      BY <3>2, MatchedCountType
    <3> HIDE DEF m
    <3>4. -m \in Int
      BY <3>3
    <3>5. [NoIncr EXCEPT !["STOPPED"] = -m] \in [Status -> Int]
      BY <3>4, IncrType
    <3>6. i \in [Status -> Int]
      BY <3>2, <3>3, <3>5, MovedType
    <3>q. QED
      BY <3>1, <3>6
  <2>3. Updated(p, i) \in Locals
    BY UpdatedType
  <2>4. ProcOK'
    BY <1>11, <2>2, <2>3, Moves DEF StopSave, Label, CallLabel, HasJob
  <2>q. QED
    BY <2>1, <2>4
<1>12. CASE HoldFlip(p)
  <2>1. loc[p].flag \in BOOLEAN
    BY DEF ProcOK, Locals
  <2>2. StoreOK' /\ EngineOK' /\ BoundsOK'
    BY <1>12, <2>1 DEF HoldFlip, StoreOK, EngineOK, BoundsOK, engine, bounds
  <2>3. [loc[p] EXCEPT !.flag = FALSE] \in Locals
    BY LocalsFields DEF ProcOK
  <2>4. ProcOK'
    BY <1>12, <2>3, Moves, Returns DEF HoldFlip, Label, CallLabel, HasJob
  <2>q. QED
    BY <2>2, <2>4
<1>13. CASE RecalculateSave(p)
  <2>1. loc[p].incr \in [Status -> Int]
    BY DEF ProcOK, Locals
  <2>2. total["HOLD"] \in Int
    BY DEF StoreOK, Status
  <2>3. StoreOK' /\ EngineOK' /\ BoundsOK'
    BY <1>13, <2>1, <2>2 DEF RecalculateSave, StoreOK, EngineOK, BoundsOK, engine, bounds
  <2>4. ProcOK'
    BY <1>13, Returns DEF RecalculateSave
  <2>q. QED
    BY <2>3, <2>4
<1>14. CASE UpdateSummary(p)
  <2>1. StoreOK' /\ EngineOK' /\ BoundsOK'
    BY <1>14 DEF UpdateSummary, StoreOK, EngineOK, BoundsOK, store, engine, bounds, Status
  <2>2. ProcOK'
    BY <1>14, Jumps DEF UpdateSummary, At, Label, TriggerLabel, NextLabel, CallLabel,
       PrepareLabel, InRun, HasJob
  <2>q. QED
    BY <2>1, <2>2
<1>15. CASE BulkStream(p)
  <2>1. StoreOK' /\ EngineOK' /\ BoundsOK'
    BY <1>15 DEF BulkStream, StoreOK, EngineOK, BoundsOK, store, engine, bounds
  <2>2. PICK sts \in {{"HOLD"}, {"FAILURE", "STOPPED"}} :
          Local(p, [loc[p] EXCEPT !.todo = FindAllJob(sts)])
    BY <1>15 DEF BulkStream
  <2>3. [loc[p] EXCEPT !.todo = FindAllJob(sts)] \in Locals
    BY FindAllJobType, LocalsFields DEF ProcOK, Status
  <2>4. ProcOK'
    BY <1>15, <2>2, <2>3, Moves DEF BulkStream, Label, CallLabel, HasJob
  <2>q. QED
    BY <2>1, <2>4
<1>16. CASE Bulk(p)
  <2>1. BulkUpdate(p, "stopAllQueueing", "QUEUEING", "STOPPED", "stopAllRetrying") => TypeOK'
    BY BulkUpdateType DEF Status, CallLabel, HasJob
  <2>2. BulkUpdate(p, "stopAllRetrying", "RETRYING", "STOPPED", "stopAllUnhold") => TypeOK'
    BY BulkUpdateType DEF Status, CallLabel, HasJob
  <2>3. BulkUpdate(p, "retryAllFailure", "FAILURE", "QUEUEING", "retryAllStopped") => TypeOK'
    BY BulkUpdateType DEF Status, CallLabel, HasJob
  <2>4. BulkUpdate(p, "retryAllStopped", "STOPPED", "QUEUEING", "retryAllLoaded") => TypeOK'
    BY BulkUpdateType DEF Status, CallLabel, HasJob
  <2>5. BulkUpdate(p, "unholdSave", "HOLD", "QUEUEING", "incrUnhold") => TypeOK'
    BY BulkUpdateType DEF Status, CallLabel, HasJob
  <2>6. BulkClean(p, "cleanFailure", "FAILURE", "cleanStopped") => TypeOK'
    BY BulkCleanType DEF Status, CallLabel, HasJob
  <2>7. BulkClean(p, "cleanStopped", "STOPPED", "cleanLoaded") => TypeOK'
    BY BulkCleanType DEF Status, CallLabel, HasJob
  <2>q. QED
    BY <1>16, <2>1, <2>2, <2>3, <2>4, <2>5, <2>6, <2>7 DEF Bulk
<1>17. CASE StopAllClear(p)
  <2>1. StoreOK' /\ EngineOK' /\ BoundsOK'
    BY <1>17 DEF StopAllClear, StoreOK, EngineOK, BoundsOK, store, engine, bounds, Status
  <2>2. ProcOK'
    BY <1>17, Returns DEF StopAllClear, Label, TriggerLabel, NextLabel, CallLabel,
       PrepareLabel, InRun, HasJob
  <2>q. QED
    BY <2>1, <2>2
<1>18. CASE DeleteRow(p)
  <2>1. StoreOK' /\ EngineOK' /\ BoundsOK'
    BY <1>18 DEF DeleteRow, StoreOK, EngineOK, BoundsOK, engine, bounds
  <2>2. [NoIncr EXCEPT ![loc[p].st] = -1] \in [Status -> Int]
    BY IncrType
  <2>3. [loc[p] EXCEPT !.incr = [NoIncr EXCEPT ![loc[p].st] = -1]] \in Locals
    BY <2>2, LocalsFields DEF ProcOK
  <2>4. ProcOK'
    BY <1>18, <2>3, Moves DEF DeleteRow, Label, CallLabel, HasJob
  <2>q. QED
    BY <2>1, <2>4
<1>q. QED
  BY <1>2, <1>3, <1>4, <1>5, <1>6, <1>7, <1>8, <1>9, <1>10, <1>11, <1>12, <1>13, <1>14,
     <1>15, <1>16, <1>17, <1>18 DEF ClientStep

\* The steps of prepare
LEMMA BootStepType ==
    ASSUME NEW p \in Boot, TypeOK, BootStep(p)
    PROVE  TypeOK'
<1> USE DEF TypeOK
<1>1. p \in Proc
  BY DEF Proc
<1> USE <1>1
<1>2. CASE PrepareReset(p)
  <2>1. StoreOK' /\ EngineOK' /\ BoundsOK'
    BY <1>2 DEF PrepareReset, StoreOK, EngineOK, BoundsOK, store, engine, bounds, Status
  <2>2. ProcOK'
    BY <1>2, Jumps DEF PrepareReset, Label, TriggerLabel, NextLabel, CallLabel, PrepareLabel,
       InRun, HasJob
  <2>q. QED
    BY <2>1, <2>2
<1>3. CASE PrepareClear(p)
  <2>1. StoreOK' /\ EngineOK' /\ BoundsOK'
    BY <1>3 DEF PrepareClear, StoreOK, EngineOK, BoundsOK, store, engine, bounds, Status
  <2>2. ProcOK'
    BY <1>3, Jumps DEF PrepareClear, Label, TriggerLabel, NextLabel, CallLabel, PrepareLabel,
       InRun, HasJob
  <2>q. QED
    BY <2>1, <2>2
<1>4. CASE PrepareCount(p)
  <2>1. StoreOK' /\ EngineOK' /\ BoundsOK'
    BY <1>4 DEF PrepareCount, StoreOK, EngineOK, BoundsOK, store, engine, bounds
  <2>2. PICK b \in BOOLEAN : Local(p, [loc[p] EXCEPT !.incr = Counts, !.flag = b])
    <3> DEFINE some == CountAllJob({"RETRYING", "QUEUEING"}) > 0
    <3>1. Local(p, [loc[p] EXCEPT !.incr = Counts, !.flag = some])
      BY <1>4 DEF PrepareCount
    <3>2. some \in BOOLEAN
      OBVIOUS
    <3>q. QED
      BY <3>1, <3>2
  <2>3. [loc[p] EXCEPT !.incr = Counts, !.flag = b] \in Locals
    BY CountsType DEF ProcOK, Locals
  <2>4. ProcOK'
    BY <1>4, <2>2, <2>3, Moves DEF PrepareCount, Label, PrepareLabel, HasJob
  <2>q. QED
    BY <2>1, <2>4
<1>5. CASE PrepareSummary(p)
  <2>1. StoreOK' /\ EngineOK' /\ BoundsOK'
    BY <1>5 DEF PrepareSummary, StoreOK, EngineOK, BoundsOK, ProcOK, Locals, engine, bounds
  <2>2. [loc[p] EXCEPT !.incr = NoIncr] \in Locals
    BY LocalsFields, NoLocType DEF ProcOK
  <2>3. ProcOK'
    BY <1>5, <2>2, Moves DEF PrepareSummary, Label, PrepareLabel, HasJob
  <2>q. QED
    BY <2>1, <2>3
<1>6. CASE PrepareStream(p)
  <2>1. StoreOK' /\ EngineOK' /\ BoundsOK'
    BY <1>6 DEF PrepareStream, StoreOK, EngineOK, BoundsOK, store, engine, bounds
  <2>2. [loc[p] EXCEPT !.todo = FindAllJob({"RETRYING", "QUEUEING"})] \in Locals
    BY FindAllJobType, LocalsFields DEF ProcOK, Status
  <2>3. ProcOK'
    BY <1>6, <2>2, Moves DEF PrepareStream, Label, PrepareLabel, HasJob
  <2>q. QED
    BY <2>1, <2>3
<1>7. CASE PrepareNext(p)
  <2>1. EngineOK' /\ BoundsOK'
    BY <1>7 DEF PrepareNext, EngineOK, BoundsOK, engine, bounds
  <2>2. CASE loc[p].todo = {}
    <3>1. StoreOK'
      BY <1>7, <2>2 DEF PrepareNext, StoreOK
    <3>2. ProcOK'
      BY <1>7, <2>2, Jumps DEF PrepareNext, Label, PrepareLabel, HasJob
    <3>q. QED
      BY <2>1, <3>1, <3>2
  <2>3. CASE loc[p].todo # {}
    <3> DEFINE skip(it) == [loc[p] EXCEPT !.job = it.id, !.todo = loc[p].todo \ {it}]
               n(it) == IF Exists(it.id) THEN 1 ELSE 0
               i(it) == Moved(it.st, "QUEUEING", MatchedCount(p, n(it)), n(it))
               move(it) == [Updated(p, i(it)) EXCEPT !.job = it.id, !.todo = @ \ {it}]
    <3>1. PICK it \in loc[p].todo :
            \/ Goto(p, "prepPush") /\ Local(p, skip(it)) /\ UNCHANGED status
            \/ /\ status' = status \/ status' = [status EXCEPT ![it.id] = "QUEUEING"]
               /\ Local(p, move(it)) /\ Goto(p, "incrPrepare")
      BY <1>7, <2>3 DEF PrepareNext
    <3>2. loc[p] \in Locals /\ it.id \in Job /\ loc[p].todo \in SUBSET [id : Job, st : Status]
      BY DEF ProcOK, Locals
    <3>3. StoreOK'
      BY <1>7, <3>1, <3>2 DEF PrepareNext, StoreOK, Status
    <3>4. skip(it) \in Locals /\ skip(it).job \in Job
      BY <3>2 DEF Locals
    <3>5. move(it) \in Locals /\ move(it).job \in Job
      <4>1. n(it) \in Int
        OBVIOUS
      <4> HIDE DEF n
      <4>2. i(it) \in [Status -> Int]
        BY <4>1, MatchedCountType, MovedType
      <4> HIDE DEF i
      <4>3. Updated(p, i(it)) \in Locals /\ Updated(p, i(it)).todo = loc[p].todo
        BY <4>2, UpdatedType
      <4> DEFINE u == Updated(p, i(it))
                 v == [u EXCEPT !.job = it.id]
      <4>4. v \in Locals /\ v.job = it.id /\ v.todo = loc[p].todo
        BY <3>2, <4>3 DEF Locals
      <4>5. move(it) = [v EXCEPT !.todo = @ \ {it}]
        BY DEF Updated
      <4> HIDE DEF move, u, v
      <4>q. QED
        BY <3>2, <4>4, <4>5 DEF Locals
    <3> HIDE DEF move, skip
    <3>6. ProcOK'
      BY <3>1, <3>4, <3>5, Moves DEF Label, PrepareLabel
    <3>q. QED
      BY <2>1, <3>3, <3>6
  <2>q. QED
    BY <2>2, <2>3
<1>8. CASE PreparePush(p)
  <2>1. loc[p].job \in Job
    BY <1>8 DEF PreparePush, ProcOK, HasJob, At
  <2>2. StoreOK' /\ EngineOK' /\ BoundsOK'
    BY <1>8, <2>1 DEF PreparePush, StoreOK, EngineOK, BoundsOK, engine, bounds
  <2>3. ProcOK'
    BY <1>8, Jumps DEF PreparePush, Label, PrepareLabel, HasJob
  <2>q. QED
    BY <2>2, <2>3
<1>9. CASE PrepareLoaded(p)
  <2>1. StoreOK' /\ EngineOK' /\ BoundsOK'
    BY <1>9 DEF PrepareLoaded, StoreOK, EngineOK, BoundsOK, engine, bounds
  <2>2. [loc[p] EXCEPT !.flag = FALSE] \in Locals
    BY LocalsFields DEF ProcOK
  <2>3. ProcOK'
    BY <1>9, <2>2, Moves, Returns DEF PrepareLoaded, Label, NextLabel, HasJob
  <2>q. QED
    BY <2>1, <2>3
<1>q. QED
  BY <1>2, <1>3, <1>4, <1>5, <1>6, <1>7, <1>8, <1>9 DEF BootStep

\* A call of the API other than AddJob: it starts with the locals given.
LEMMA CallType ==
    ASSUME TypeOK, NEW p \in Proc, NEW op, NEW l \in Label, NEW r \in Locals,
           l \in HasJob => r.job \in Job, Call(p, op, l, r)
    PROVE  ProcOK' /\ BoundsOK'
<1> DEFINE s == [r EXCEPT !.op = op]
<1>1. op \in Api
  BY DEF Call
<1>2. s \in Locals /\ s.job = r.job
  BY <1>1 DEF Locals
<1>3. ProcOK'
  BY <1>2, Moves DEF Call, TypeOK
<1>4. BoundsOK'
  BY BoundAssumption DEF Call, TypeOK, BoundsOK
<1>q. QED
  BY <1>3, <1>4

\* The job that FindJobByID returns
LEMMA FoundType ==
    ASSUME TypeOK, NEW j \in Job, Exists(j)
    PROVE  Found(j) \in Locals /\ Found(j).job = j
BY NoLocType DEF Found, Exists, TypeOK, StoreOK, Locals

\* The job that the SELECT of DeleteJob returns
LEMMA SelectedType ==
    ASSUME TypeOK, NEW j \in Job, Exists(j)
    PROVE  LET r == [NoLoc EXCEPT !.job = j, !.st = status[j]] IN r \in Locals /\ r.job = j
BY NoLocType DEF Exists, Locals

\* The start of an API call
LEMMA ClientCallType ==
    ASSUME NEW p \in Client, TypeOK, ClientCall(p)
    PROVE  TypeOK'
<1> USE DEF TypeOK
<1>1. p \in Proc
  BY DEF Proc
<1> USE <1>1
<1>2. CASE AddJob(p)
  <2>1. added + 1 \in Job
    BY <1>2, BoundAssumption DEF AddJob, BoundsOK, Job
  <2>2. StoreOK' /\ EngineOK' /\ BoundsOK'
    BY <1>2, <2>1 DEF AddJob, Job, StoreOK, EngineOK, BoundsOK, store, engine
  <2>3. LET r == [NoLoc EXCEPT !.op = "AddJob", !.job = added + 1]
        IN  r \in Locals /\ r.job \in Job
    BY <2>1, NoLocType DEF Locals
  <2>4. CASE UNCHANGED <<pc, loc>>
    BY <2>2, <2>4 DEF ProcOK
  <2>5. CASE Goto(p, "addSummary") /\ Local(p, [NoLoc EXCEPT !.op = "AddJob", !.job = added + 1])
    <3>1. ProcOK'
      BY <2>3, <2>5, Moves DEF Label, CallLabel
    <3>q. QED
      BY <2>2, <3>1
  <2>q. QED
    BY <1>2, <2>4, <2>5 DEF AddJob
<1>3. ASSUME NEW j \in Job, RetryJob(p, j)
      PROVE  TypeOK'
  <2>1. StoreOK' /\ EngineOK'
    BY <1>3 DEF RetryJob, StoreOK, EngineOK, store, engine
  <2>2. ProcOK' /\ BoundsOK'
    BY <1>3, FoundType, CallType DEF RetryJob, Label, CallLabel
  <2>q. QED
    BY <2>1, <2>2
<1>4. ASSUME NEW j \in Job, StopJob(p, j)
      PROVE  TypeOK'
  <2>1. StoreOK' /\ EngineOK'
    BY <1>4 DEF StopJob, StoreOK, EngineOK, store, engine
  <2>2. ProcOK' /\ BoundsOK'
    BY <1>4, FoundType, CallType DEF StopJob, Label, CallLabel
  <2>q. QED
    BY <2>1, <2>2
<1>5. ASSUME NEW j \in Job, DeleteJob(p, j)
      PROVE  TypeOK'
  <2>1. StoreOK' /\ EngineOK'
    BY <1>5 DEF DeleteJob, StoreOK, EngineOK, engine
  <2>2. [NoIncr EXCEPT ![status[j]] = -1] \in [Status -> Int]
    BY IncrType
  <2>3. [NoLoc EXCEPT !.incr = [NoIncr EXCEPT ![status[j]] = -1]] \in Locals
    BY <2>2, NoLocType, LocalsFields
  <2>4. ProcOK' /\ BoundsOK'
    BY <1>5, <2>3, CallType DEF DeleteJob, Label, CallLabel, HasJob
  <2>q. QED
    BY <2>1, <2>4
<1>6. CASE HoldJobTask(p) \/ RunQueuedJob(p)
  <2>1. StoreOK' /\ EngineOK'
    BY <1>6 DEF HoldJobTask, RunQueuedJob, StoreOK, EngineOK, store, engine
  <2>2. [NoLoc EXCEPT !.flag = hold] \in Locals /\ [NoLoc EXCEPT !.flag = TRUE] \in Locals
    BY NoLocType, LocalsFields DEF StoreOK
  <2>3. ProcOK' /\ BoundsOK'
    BY <1>6, <2>2, CallType DEF HoldJobTask, RunQueuedJob, Label, CallLabel, TriggerLabel,
       InRun, HasJob
  <2>q. QED
    BY <2>1, <2>3
<1>7. CASE StopAllJob(p) \/ RetryAllJob(p) \/ CleanJob(p)
  <2>1. StoreOK' /\ EngineOK'
    BY <1>7 DEF StopAllJob, RetryAllJob, CleanJob, StoreOK, EngineOK, store, engine
  <2>2. ProcOK' /\ BoundsOK'
    BY <1>7, NoLocType, CallType DEF StopAllJob, RetryAllJob, CleanJob, Label, CallLabel,
       HasJob
  <2>q. QED
    BY <2>1, <2>2
<1>8. CASE RecalculateSummary(p)
  <2>1. StoreOK' /\ EngineOK'
    BY <1>8 DEF RecalculateSummary, StoreOK, EngineOK, store, engine
  <2>2. [NoLoc EXCEPT !.incr = Counts] \in Locals
    BY NoLocType, LocalsFields, CountsType
  <2>3. ProcOK' /\ BoundsOK'
    BY <1>8, <2>2, CallType DEF RecalculateSummary, Label, CallLabel, HasJob
  <2>q. QED
    BY <2>1, <2>3
<1>9. ASSUME NEW j \in Job, DeleteSelect(p, j)
      PROVE  TypeOK'
  <2>1. StoreOK' /\ EngineOK'
    BY <1>9 DEF DeleteSelect, StoreOK, EngineOK, store, engine
  <2>2. ProcOK' /\ BoundsOK'
    BY <1>9, SelectedType, CallType DEF DeleteSelect, Label, CallLabel
  <2>q. QED
    BY <2>1, <2>2
<1>q. QED
  BY <1>2, <1>3, <1>4, <1>5, <1>6, <1>7, <1>8, <1>9 DEF ClientCall

\* The steps of a runtime as a whole
LEMMA RuntimeType ==
    ASSUME NEW r \in Runtime, TypeOK, TickerFires(r) \/ Crash(r)
    PROVE  TypeOK'
<1> USE DEF TypeOK
<1>1. CASE TickerFires(r)
  BY <1>1 DEF TickerFires, StoreOK, EngineOK, BoundsOK, ProcOK, store, bounds
<1>2. CASE Crash(r)
  <2>1. StoreOK'
    BY <1>2 DEF Crash, StoreOK, store
  <2>2. EngineOK'
    BY <1>2 DEF Crash, EngineOK
  <2>3. BoundsOK'
    BY <1>2, BoundAssumption DEF Crash, BoundsOK
  <2>4. pc' \in [Proc -> Label]
    BY <1>2 DEF Crash, ProcOK, Label, PrepareLabel
  <2>5. loc' \in [Proc -> Locals]
    BY <1>2, NoLocType DEF Crash, ProcOK
  <2>6. ASSUME NEW q \in Proc, pc'[q] \in HasJob
        PROVE  loc'[q].job \in Job
    BY <1>2, <2>6 DEF Crash, ProcOK, HasJob
  <2>q. QED
    BY <2>1, <2>2, <2>3, <2>4, <2>5, <2>6 DEF ProcOK
<1>q. QED
  BY <1>1, <1>2

(***************************************************************************)
(* The types hold in every behaviour: whatever the calls and crashes, a    *)
(* goroutine that goes to the store or the queue with a job id has the id  *)
(* of a job, the queue holds ids of jobs only, and one prepare per runtime *)
(* starts from fresh locals.                                               *)
(***************************************************************************)
THEOREM TypeCorrect == Spec => []TypeOK
<1>1. Init => TypeOK
  <2> SUFFICES ASSUME Init PROVE TypeOK
    OBVIOUS
  <2>1. StoreOK
    <3>1. status \in [Job -> Status \cup {"NONE", "DELETED"}] /\ retries \in [Job -> Nat]
      BY DEF Init
    <3>2. queue \in Seq(Job) /\ total \in [Status -> Int]
      BY NoLocType DEF Init
    <3>3. hold \in BOOLEAN /\ loading \in BOOLEAN /\ locked \in BOOLEAN
      BY DEF Init
    <3>q. QED
      BY <3>1, <3>2, <3>3 DEF StoreOK
  <2>2. EngineOK
    BY DEF Init, EngineOK
  <2>3. BoundsOK
    BY BoundAssumption DEF Init, BoundsOK
  <2>4. ProcOK
    BY NoLocType DEF Init, ProcOK, Label, PrepareLabel, HasJob
  <2>q. QED
    BY <2>1, <2>2, <2>3, <2>4 DEF TypeOK
<1>2. TypeOK /\ [Next]_vars => TypeOK'
  <2> SUFFICES ASSUME TypeOK, [Next]_vars PROVE TypeOK'
    OBVIOUS
  <2>1. CASE UNCHANGED vars
    BY <2>1 DEF vars, store, engine, bounds, TypeOK, StoreOK, EngineOK, BoundsOK, ProcOK
  <2>2. ASSUME NEW p \in Worker, WorkerStep(p) PROVE TypeOK'
    BY <2>2, WorkerStepType
  <2>3. ASSUME NEW p \in Client, ClientStep(p) \/ ClientCall(p) PROVE TypeOK'
    BY <2>3, ClientStepType, ClientCallType
  <2>4. ASSUME NEW p \in Boot, BootStep(p) PROVE TypeOK'
    BY <2>4, BootStepType
  <2>5. ASSUME NEW p \in Proc, CommonStep(p) PROVE TypeOK'
    BY <2>5, CommonStepType
  <2>6. ASSUME NEW r \in Runtime, TickerFires(r) \/ Crash(r) PROVE TypeOK'
    BY <2>6, RuntimeType
  <2>q. QED
    BY <2>1, <2>2, <2>3, <2>4, <2>5, <2>6 DEF Next
<1>q. QED
  BY <1>1, <1>2, PTL DEF Spec

-----------------------------------------------------------------------------
\* One run per runtime

\* Inside a run, the semaphore of the runtime is taken.
SemTaken == \A p \in Worker : pc[p] \in InRun => sem[Home[p]]

\* OneRunPerRuntime is not inductive: SemTaken keeps a second run out.
RunInv == pc \in [Proc -> Label] /\ sem \in [Runtime -> BOOLEAN] /\ SemTaken /\ OneRunPerRuntime

\* A step of p that neither takes nor releases the semaphore and does not enter a run
StaysOut(p) ==
    /\ pc' \in [Proc -> Label]
    /\ \A q \in Proc \ {p} : pc'[q] = pc[q]
    /\ p \in Worker /\ pc'[p] \in InRun => pc[p] \in InRun
    /\ UNCHANGED sem

\* Such a step keeps the invariant.
LEMMA StaysOutKeepsRun ==
    ASSUME RunInv, NEW p \in Proc, StaysOut(p)
    PROVE  RunInv'
BY DEF RunInv, SemTaken, OneRunPerRuntime, StaysOut, Proc

\* The calls that several goroutines share stay out.
LEMMA CommonStaysOut ==
    ASSUME NEW p \in Proc, pc \in [Proc -> Label], CommonStep(p)
    PROVE  StaysOut(p)
<1> USE DEF StaysOut, Goto, Return, At, InRun, engine, Label, TriggerLabel, NextLabel,
            CallLabel, PrepareLabel
<1>1. CASE IncrementSummary(p)
  BY <1>1 DEF IncrementSummary, AfterIncrement
<1>2. CASE NextPeek(p)
  BY <1>2 DEF NextPeek
<1>3. CASE NextFind(p)
  BY <1>3 DEF NextFind
<1>4. CASE NextPop(p)
  BY <1>4 DEF NextPop
<1>5. CASE NextStream(p)
  BY <1>5 DEF NextStream
<1>6. CASE StreamPush(p)
  <2>1. CASE loc[p].todo = {}
    BY <1>6, <2>1 DEF StreamPush
  <2>2. CASE loc[p].todo # {}
    BY <1>6, <2>2 DEF StreamPush
  <2>q. QED
    BY <2>1, <2>2
<1>7. CASE RegisterJobToWorker(p)
  BY <1>7 DEF RegisterJobToWorker
<1>8. CASE UnlockTaskCount(p)
  BY <1>8 DEF UnlockTaskCount
<1>9. CASE UnlockTaskDel(p)
  BY <1>9 DEF UnlockTaskDel
<1>10. CASE CountMatched(p)
  BY <1>10 DEF CountMatched
<1>q. QED
  BY <1>1, <1>2, <1>3, <1>4, <1>5, <1>6, <1>7, <1>8, <1>9, <1>10 DEF CommonStep

\* Only TriggerAcquire enters a run and only RunRelease leaves one by giving the semaphore back.
LEMMA WorkerRun ==
    ASSUME RunInv, NEW p \in Worker, WorkerStep(p)
    PROVE  RunInv'
<1>1. p \in Proc /\ pc \in [Proc -> Label] /\ Home[p] \in Runtime
  BY ProcAssumption DEF Proc, RunInv
<1>2. CASE TriggerAcquire(p)
  BY <1>2, <1>1, ProcAssumption DEF TriggerAcquire, Goto, RunInv, SemTaken, OneRunPerRuntime,
     Proc, Label, TriggerLabel, InRun
<1>3. CASE RunRelease(p)
  BY <1>3, <1>1, ProcAssumption DEF RunRelease, Goto, At, RunInv, SemTaken, OneRunPerRuntime,
     Proc, Label, TriggerLabel, InRun
<1>4. ASSUME WorkerStep(p), ~TriggerAcquire(p), ~RunRelease(p)
      PROVE  StaysOut(p)
  <2> USE <1>1 DEF StaysOut, Goto, Return, At, InRun, engine, Label, TriggerLabel, NextLabel
  <2>1. CASE Serve(p)
    BY <2>1 DEF Serve
  <2>2. CASE TriggerStop(p)
    BY <2>2 DEF TriggerStop
  <2>3. CASE TriggerHold(p)
    BY <2>3 DEF TriggerHold
  <2>4. CASE RunBegin(p)
    BY <2>4 DEF RunBegin
  <2>5. CASE RunLock(p)
    BY <2>5 DEF RunLock
  <2>6. CASE ExecPop(p)
    BY <2>6 DEF ExecPop
  <2>7. CASE ExecFind(p)
    BY <2>7 DEF ExecFind
  <2>8. CASE ExecMark(p)
    BY <2>8 DEF ExecMark
  <2>9. CASE ExecCancelled(p)
    BY <2>9 DEF ExecCancelled
  <2>10. CASE ExecResult(p)
    BY <2>10 DEF ExecResult
  <2>11. CASE ExecRequeue(p)
    BY <2>11 DEF ExecRequeue
  <2>12. CASE ExecFinish(p)
    BY <2>12 DEF ExecFinish
  <2>13. CASE RunUnlock(p)
    BY <2>13 DEF RunUnlock
  <2>14. CASE RunCancel(p)
    BY <2>14 DEF RunCancel
  <2>q. QED
    BY <1>4, <2>1, <2>2, <2>3, <2>4, <2>5, <2>6, <2>7, <2>8, <2>9, <2>10, <2>11, <2>12,
       <2>13, <2>14 DEF WorkerStep
<1>q. QED
  BY <1>2, <1>3, <1>4, <1>1, StaysOutKeepsRun

\* A step of p that no run is concerned with: p is no triggerTask goroutine.
LEMMA OtherKeepsRun ==
    ASSUME RunInv, NEW p \in Proc \ Worker, NEW l \in Label, Goto(p, l), UNCHANGED sem
    PROVE  RunInv'
<1>1. StaysOut(p)
  BY DEF StaysOut, Goto, RunInv
<1>q. QED
  BY <1>1, StaysOutKeepsRun

\* The steps of an API or dashboard call
LEMMA ClientRun ==
    ASSUME RunInv, NEW p \in Client, ClientStep(p)
    PROVE  RunInv'
<1>1. p \in Proc \ Worker /\ pc \in [Proc -> Label]
  BY ProcAssumption DEF Proc, RunInv
<1> USE <1>1, OtherKeepsRun DEF Return, At, engine, Label, TriggerLabel, NextLabel, CallLabel,
        PrepareLabel, InRun
<1>2. CASE AddSummary(p)
  BY <1>2 DEF AddSummary
<1>3. CASE AddSave(p)
  BY <1>3 DEF AddSave
<1>4. CASE AddPush(p)
  BY <1>4 DEF AddPush
<1>5. CASE AddSemaphore(p)
  BY <1>5 DEF AddSemaphore
<1>6. CASE AddHasBeenLocked(p)
  BY <1>6 DEF AddHasBeenLocked
<1>7. CASE RetryUnlock(p)
  BY <1>7 DEF RetryUnlock
<1>8. CASE RetrySave(p)
  BY <1>8 DEF RetrySave
<1>9. CASE RetryPush(p)
  BY <1>9 DEF RetryPush
<1>10. CASE StopTask(p)
  BY <1>10 DEF StopTask
<1>11. CASE StopSave(p)
  BY <1>11 DEF StopSave
<1>12. CASE HoldFlip(p)
  BY <1>12 DEF HoldFlip
<1>13. CASE RecalculateSave(p)
  BY <1>13 DEF RecalculateSave
<1>14. CASE UpdateSummary(p)
  BY <1>14 DEF UpdateSummary
<1>15. CASE BulkStream(p)
  BY <1>15 DEF BulkStream
<1>16. CASE Bulk(p)
  BY <1>16 DEF Bulk, BulkUpdate, BulkClean
<1>17. CASE StopAllClear(p)
  BY <1>17 DEF StopAllClear
<1>18. CASE DeleteRow(p)
  BY <1>18 DEF DeleteRow
<1>q. QED
  BY <1>2, <1>3, <1>4, <1>5, <1>6, <1>7, <1>8, <1>9, <1>10, <1>11, <1>12, <1>13, <1>14,
     <1>15, <1>16, <1>17, <1>18 DEF ClientStep

\* The steps of prepare
LEMMA BootRun ==
    ASSUME RunInv, NEW p \in Boot, BootStep(p)
    PROVE  RunInv'
<1>1. p \in Proc \ Worker /\ pc \in [Proc -> Label]
  BY ProcAssumption DEF Proc, RunInv
<1> USE <1>1, OtherKeepsRun DEF Return, At, engine, Label, TriggerLabel, NextLabel, CallLabel,
        PrepareLabel, InRun
<1>2. CASE PrepareReset(p)
  BY <1>2 DEF PrepareReset
<1>3. CASE PrepareClear(p)
  BY <1>3 DEF PrepareClear
<1>4. CASE PrepareCount(p)
  BY <1>4 DEF PrepareCount
<1>5. CASE PrepareSummary(p)
  BY <1>5 DEF PrepareSummary
<1>6. CASE PrepareStream(p)
  BY <1>6 DEF PrepareStream
<1>7. CASE PrepareNext(p)
  <2>1. CASE loc[p].todo = {}
    BY <1>7, <2>1 DEF PrepareNext
  <2>2. CASE loc[p].todo # {}
    BY <1>7, <2>2 DEF PrepareNext
  <2>q. QED
    BY <2>1, <2>2
<1>8. CASE PreparePush(p)
  BY <1>8 DEF PreparePush
<1>9. CASE PrepareLoaded(p)
  BY <1>9 DEF PrepareLoaded
<1>q. QED
  BY <1>2, <1>3, <1>4, <1>5, <1>6, <1>7, <1>8, <1>9 DEF BootStep

\* The start of an API call
LEMMA CallRun ==
    ASSUME RunInv, NEW p \in Client, ClientCall(p)
    PROVE  RunInv'
<1>1. p \in Proc \ Worker /\ pc \in [Proc -> Label]
  BY ProcAssumption DEF Proc, RunInv
<1>2. UNCHANGED sem
  BY DEF ClientCall, AddJob, RetryJob, StopJob, DeleteJob, DeleteSelect, HoldJobTask, StopAllJob,
     RetryAllJob,
         CleanJob, RunQueuedJob, RecalculateSummary, engine
<1>3. (\E l \in Label : Goto(p, l)) \/ UNCHANGED pc
  BY DEF ClientCall, AddJob, RetryJob, StopJob, DeleteJob, DeleteSelect, HoldJobTask, StopAllJob,
     RetryAllJob,
         CleanJob, RunQueuedJob, RecalculateSummary, Call, Label, CallLabel, TriggerLabel, InRun
<1>4. CASE UNCHANGED pc
  BY <1>2, <1>4 DEF RunInv, SemTaken, OneRunPerRuntime
<1>q. QED
  BY <1>1, <1>2, <1>3, <1>4, OtherKeepsRun

\* A crash ends the runs of the runtime along with its semaphore.
LEMMA RuntimeRun ==
    ASSUME RunInv, NEW r \in Runtime, TickerFires(r) \/ Crash(r)
    PROVE  RunInv'
<1>1. CASE TickerFires(r)
  BY <1>1 DEF TickerFires, RunInv, SemTaken, OneRunPerRuntime
<1>2. CASE Crash(r)
  <2>1. pc' \in [Proc -> Label] /\ sem' \in [Runtime -> BOOLEAN]
    BY <1>2 DEF Crash, RunInv, Label, PrepareLabel
  <2>2. ASSUME NEW p \in Worker, pc'[p] \in InRun
        PROVE  Home[p] # r /\ pc'[p] = pc[p] /\ sem'[Home[p]] = sem[Home[p]]
    BY <1>2, <2>2, ProcAssumption DEF Crash, RunInv, InRun, Proc
  <2>q. QED
    BY <2>1, <2>2 DEF RunInv, SemTaken, OneRunPerRuntime
<1>q. QED
  BY <1>1, <1>2

(***************************************************************************)
(* For any number of runtimes, goroutines and jobs: at most one run of the *)
(* task is between taking and giving back the semaphore of its runtime,    *)
(* so a runtime never has two handlers of the task running.                *)
(***************************************************************************)
THEOREM OneRun == Spec => []OneRunPerRuntime
<1>1. Init => RunInv
  <2> SUFFICES ASSUME Init PROVE RunInv
    OBVIOUS
  <2>1. pc \in [Proc -> Label] /\ sem \in [Runtime -> BOOLEAN]
    BY DEF Init, Label, PrepareLabel
  <2>2. \A p \in Worker : pc[p] \notin InRun
    BY ProcAssumption DEF Init, InRun, Proc
  <2>q. QED
    BY <2>1, <2>2 DEF RunInv, SemTaken, OneRunPerRuntime
<1>2. RunInv /\ [Next]_vars => RunInv'
  <2> SUFFICES ASSUME RunInv, [Next]_vars PROVE RunInv'
    OBVIOUS
  <2>1. CASE UNCHANGED vars
    BY <2>1 DEF vars, engine, RunInv, SemTaken, OneRunPerRuntime
  <2>2. ASSUME NEW p \in Worker, WorkerStep(p) PROVE RunInv'
    BY <2>2, WorkerRun
  <2>3. ASSUME NEW p \in Client, ClientStep(p) \/ ClientCall(p) PROVE RunInv'
    BY <2>3, ClientRun, CallRun
  <2>4. ASSUME NEW p \in Boot, BootStep(p) PROVE RunInv'
    BY <2>4, BootRun
  <2>5. ASSUME NEW p \in Proc, CommonStep(p) PROVE RunInv'
    BY <2>5, CommonStaysOut, StaysOutKeepsRun DEF RunInv
  <2>6. ASSUME NEW r \in Runtime, TickerFires(r) \/ Crash(r) PROVE RunInv'
    BY <2>6, RuntimeRun
  <2>q. QED
    BY <2>1, <2>2, <2>3, <2>4, <2>5, <2>6 DEF Next
<1>3. RunInv => OneRunPerRuntime
  BY DEF RunInv
<1>q. QED
  BY <1>1, <1>2, <1>3, PTL DEF Spec

-----------------------------------------------------------------------------
\* The lock

\* Where a goroutine will delete the lock key whatever it reads from then on
WillUnlock == {"pop", "find", "mark", "incrMark", "handle", "requeue", "finish", "incrFinish",
               "unlock", "prepReset"}

\* Somebody will delete the lock key: the run that took it, or prepare after a crash.
LockInv == locked => \E p \in Proc : pc[p] \in WillUnlock

\* A step of p after which somebody will still delete the lock key, if there is one
StaysLocked(p) ==
    /\ \A q \in Proc \ {p} : pc'[q] = pc[q]
    /\ pc[p] \in WillUnlock /\ locked' => pc'[p] \in WillUnlock
    /\ locked' => locked \/ pc'[p] \in WillUnlock

\* Such a step keeps the invariant.
LEMMA StaysLockedKeepsLock ==
    ASSUME LockInv, NEW p \in Proc, StaysLocked(p)
    PROVE  LockInv'
BY DEF LockInv, StaysLocked

\* The calls that several goroutines share do not take the lock.
LEMMA CommonStaysLocked ==
    ASSUME NEW p \in Proc, pc \in [Proc -> Label], CommonStep(p)
    PROVE  StaysLocked(p)
<1> USE DEF StaysLocked, WillUnlock, Goto, Return, At
<1>1. CASE IncrementSummary(p)
  BY <1>1 DEF IncrementSummary, AfterIncrement
<1>2. CASE NextPeek(p)
  BY <1>2 DEF NextPeek
<1>3. CASE NextFind(p)
  BY <1>3 DEF NextFind
<1>4. CASE NextPop(p)
  BY <1>4 DEF NextPop
<1>5. CASE NextStream(p)
  BY <1>5 DEF NextStream
<1>6. CASE StreamPush(p)
  <2>1. CASE loc[p].todo = {}
    BY <1>6, <2>1 DEF StreamPush
  <2>2. CASE loc[p].todo # {}
    BY <1>6, <2>2 DEF StreamPush
  <2>q. QED
    BY <2>1, <2>2
<1>7. CASE RegisterJobToWorker(p)
  BY <1>7 DEF RegisterJobToWorker
<1>8. CASE UnlockTaskCount(p)
  BY <1>8 DEF UnlockTaskCount
<1>9. CASE UnlockTaskDel(p)
  BY <1>9 DEF UnlockTaskDel
<1>10. CASE CountMatched(p)
  BY <1>10 DEF CountMatched
<1>q. QED
  BY <1>1, <1>2, <1>3, <1>4, <1>5, <1>6, <1>7, <1>8, <1>9, <1>10 DEF CommonStep

\* A run that takes the lock goes to execJob, and from there on to its unlock.
LEMMA WorkerStaysLocked ==
    ASSUME NEW p \in Proc, pc \in [Proc -> Label], WorkerStep(p)
    PROVE  StaysLocked(p)
<1> USE DEF StaysLocked, WillUnlock, Goto, Return, At
<1>1. CASE Serve(p)
  BY <1>1 DEF Serve
<1>2. CASE TriggerStop(p)
  BY <1>2 DEF TriggerStop
<1>3. CASE TriggerHold(p)
  BY <1>3 DEF TriggerHold
<1>4. CASE TriggerAcquire(p)
  BY <1>4 DEF TriggerAcquire
<1>5. CASE RunBegin(p)
  BY <1>5 DEF RunBegin
<1>6. CASE RunLock(p)
  BY <1>6 DEF RunLock
<1>7. CASE ExecPop(p)
  BY <1>7 DEF ExecPop
<1>8. CASE ExecFind(p)
  BY <1>8 DEF ExecFind
<1>9. CASE ExecMark(p)
  BY <1>9 DEF ExecMark
<1>10. CASE ExecCancelled(p)
  BY <1>10 DEF ExecCancelled
<1>11. CASE ExecResult(p)
  BY <1>11 DEF ExecResult
<1>12. CASE ExecRequeue(p)
  BY <1>12 DEF ExecRequeue
<1>13. CASE ExecFinish(p)
  BY <1>13 DEF ExecFinish
<1>14. CASE RunUnlock(p)
  BY <1>14 DEF RunUnlock
<1>15. CASE RunRelease(p)
  BY <1>15 DEF RunRelease
<1>16. CASE RunCancel(p)
  BY <1>16 DEF RunCancel
<1>q. QED
  BY <1>1, <1>2, <1>3, <1>4, <1>5, <1>6, <1>7, <1>8, <1>9, <1>10, <1>11, <1>12, <1>13, <1>14,
     <1>15, <1>16 DEF WorkerStep

\* A call deletes the lock key or leaves it.
LEMMA ClientStaysLocked ==
    ASSUME NEW p \in Proc, pc \in [Proc -> Label], ClientStep(p) \/ ClientCall(p)
    PROVE  StaysLocked(p)
<1> USE DEF StaysLocked, WillUnlock, Goto, Return, At
<1>0. CASE ClientCall(p)
  <2>1. CASE AddJob(p)
    BY <2>1 DEF AddJob
  <2>2. CASE \E j \in Job : RetryJob(p, j)
    BY <2>2 DEF RetryJob, Call, Found
  <2>3. CASE \E j \in Job : StopJob(p, j)
    BY <2>3 DEF StopJob, Call, Found
  <2>4. CASE \E j \in Job : DeleteJob(p, j)
    BY <2>4 DEF DeleteJob, Call
  <2>5. CASE HoldJobTask(p)
    BY <2>5 DEF HoldJobTask, Call
  <2>6. CASE StopAllJob(p)
    BY <2>6 DEF StopAllJob, Call
  <2>7. CASE RetryAllJob(p)
    BY <2>7 DEF RetryAllJob, Call
  <2>8. CASE CleanJob(p)
    BY <2>8 DEF CleanJob, Call
  <2>9. CASE RunQueuedJob(p)
    BY <2>9 DEF RunQueuedJob, Call
  <2>10. CASE RecalculateSummary(p)
    BY <2>10 DEF RecalculateSummary, Call
  <2>11. CASE \E j \in Job : DeleteSelect(p, j)
    BY <2>11 DEF DeleteSelect, Call
  <2>q. QED
    BY <1>0, <2>1, <2>2, <2>3, <2>4, <2>5, <2>6, <2>7, <2>8, <2>9, <2>10, <2>11 DEF ClientCall
<1>1. CASE AddSummary(p)
  BY <1>1 DEF AddSummary
<1>2. CASE AddSave(p)
  BY <1>2 DEF AddSave
<1>3. CASE AddPush(p)
  BY <1>3 DEF AddPush
<1>4. CASE AddSemaphore(p)
  BY <1>4 DEF AddSemaphore
<1>5. CASE AddHasBeenLocked(p)
  BY <1>5 DEF AddHasBeenLocked
<1>6. CASE RetryUnlock(p)
  BY <1>6 DEF RetryUnlock
<1>7. CASE RetrySave(p)
  BY <1>7 DEF RetrySave
<1>8. CASE RetryPush(p)
  BY <1>8 DEF RetryPush
<1>9. CASE StopTask(p)
  BY <1>9 DEF StopTask
<1>10. CASE StopSave(p)
  BY <1>10 DEF StopSave
<1>11. CASE HoldFlip(p)
  BY <1>11 DEF HoldFlip
<1>12. CASE RecalculateSave(p)
  BY <1>12 DEF RecalculateSave
<1>13. CASE UpdateSummary(p)
  BY <1>13 DEF UpdateSummary
<1>14. CASE BulkStream(p)
  BY <1>14 DEF BulkStream
<1>15. CASE Bulk(p)
  BY <1>15 DEF Bulk, BulkUpdate, BulkClean
<1>16. CASE StopAllClear(p)
  BY <1>16 DEF StopAllClear
<1>17. CASE DeleteRow(p)
  BY <1>17 DEF DeleteRow
<1>q. QED
  BY <1>0, <1>1, <1>2, <1>3, <1>4, <1>5, <1>6, <1>7, <1>8, <1>9, <1>10, <1>11, <1>12, <1>13, <1>14,
     <1>15, <1>16, <1>17 DEF ClientStep

\* prepare deletes the lock key first.
LEMMA BootStaysLocked ==
    ASSUME NEW p \in Proc, pc \in [Proc -> Label], BootStep(p)
    PROVE  StaysLocked(p)
<1> USE DEF StaysLocked, WillUnlock, Goto, Return, At
<1>1. CASE PrepareReset(p)
  BY <1>1 DEF PrepareReset
<1>2. CASE PrepareClear(p)
  BY <1>2 DEF PrepareClear
<1>3. CASE PrepareCount(p)
  BY <1>3 DEF PrepareCount
<1>4. CASE PrepareSummary(p)
  BY <1>4 DEF PrepareSummary
<1>5. CASE PrepareStream(p)
  BY <1>5 DEF PrepareStream
<1>6. CASE PrepareNext(p)
  <2>1. CASE loc[p].todo = {}
    BY <1>6, <2>1 DEF PrepareNext
  <2>2. CASE loc[p].todo # {}
    BY <1>6, <2>2 DEF PrepareNext
  <2>q. QED
    BY <2>1, <2>2
<1>7. CASE PreparePush(p)
  BY <1>7 DEF PreparePush
<1>8. CASE PrepareLoaded(p)
  BY <1>8 DEF PrepareLoaded
<1>q. QED
  BY <1>1, <1>2, <1>3, <1>4, <1>5, <1>6, <1>7, <1>8 DEF BootStep

\* A crash ends every goroutine that would have unlocked, and starts a prepare that will.
LEMMA RuntimeKeepsLock ==
    ASSUME LockInv, NEW r \in Runtime, TickerFires(r) \/ Crash(r)
    PROVE  LockInv'
<1>1. CASE TickerFires(r)
  BY <1>1 DEF TickerFires, LockInv
<1>2. CASE Crash(r)
  <2>1. PICK b \in Boot : Home[b] = r
    BY BootAssumption
  <2>2. b \in Proc /\ pc'[b] = "prepReset"
    BY <1>2, <2>1 DEF Crash, Proc
  <2>q. QED
    BY <2>2 DEF LockInv, WillUnlock
<1>q. QED
  BY <1>1, <1>2

(***************************************************************************)
(* For any number of runtimes, goroutines, jobs and crashes, and for all   *)
(* the calls of the API: when nothing runs, the lock key of the task does  *)
(* not exist, so that the next run is not turned away by it.               *)
(***************************************************************************)
THEOREM LockIsReleased == Spec => []LockReleased
<1>1. Init => LockInv
  BY DEF Init, LockInv
<1>2. TypeOK /\ LockInv /\ [Next]_vars => LockInv'
  <2> SUFFICES ASSUME TypeOK, LockInv, [Next]_vars PROVE LockInv'
    OBVIOUS
  <2>0. pc \in [Proc -> Label]
    BY DEF TypeOK, ProcOK
  <2>1. CASE UNCHANGED vars
    BY <2>1 DEF vars, LockInv
  <2>2. ASSUME NEW p \in Worker, WorkerStep(p) PROVE LockInv'
    BY <2>0, <2>2, WorkerStaysLocked, StaysLockedKeepsLock DEF Proc
  <2>3. ASSUME NEW p \in Client, ClientStep(p) \/ ClientCall(p) PROVE LockInv'
    BY <2>0, <2>3, ClientStaysLocked, StaysLockedKeepsLock DEF Proc
  <2>4. ASSUME NEW p \in Boot, BootStep(p) PROVE LockInv'
    BY <2>0, <2>4, BootStaysLocked, StaysLockedKeepsLock DEF Proc
  <2>5. ASSUME NEW p \in Proc, CommonStep(p) PROVE LockInv'
    BY <2>0, <2>5, CommonStaysLocked, StaysLockedKeepsLock
  <2>6. ASSUME NEW r \in Runtime, TickerFires(r) \/ Crash(r) PROVE LockInv'
    BY <2>6, RuntimeKeepsLock
  <2>q. QED
    BY <2>1, <2>2, <2>3, <2>4, <2>5, <2>6 DEF Next
<1>3. LockInv => LockReleased
  BY DEF LockInv, LockReleased, Idle, WillUnlock
<1>q. QED
  BY <1>1, <1>2, <1>3, TypeCorrect, PTL DEF Spec

-----------------------------------------------------------------------------
\* A step of p leaves the other goroutines where they are, with what they carry.
OnlyMoves(p) == \A q \in Proc \ {p} : pc'[q] = pc[q] /\ loc'[q] = loc[q]

\* The COUNT of UpdateJob changes nothing but what the goroutine has counted.
LEMMA CountKeeps ==
    ASSUME NEW p \in Proc, ProcOK, CountMatched(p)
    PROVE  /\ OnlyMoves(p) /\ pc' = pc
           /\ UNCHANGED <<store, queue, locked, engine, done, bounds>>
           /\ loc'[p].matched = Cardinality({j \in Job : Matches(p, j)})
           /\ loc'[p].incr = loc[p].incr /\ loc'[p].op = loc[p].op /\ loc'[p].job = loc[p].job
           /\ loc'[p].st = loc[p].st /\ loc'[p].rt = loc[p].rt /\ loc'[p].flag = loc[p].flag
           /\ loc'[p].todo = loc[p].todo
<1> DEFINE n == Cardinality({j \in Job : Matches(p, j)})
<1>1. /\ loc' = [loc EXCEPT ![p] = [loc[p] EXCEPT !.matched = n]] /\ pc' = pc
      /\ UNCHANGED <<store, queue, locked, engine, done, bounds>>
  BY DEF CountMatched, Local
<1> HIDE DEF n
<1>2. loc'[p] = [loc[p] EXCEPT !.matched = n] /\ loc[p] \in Locals
  BY <1>1 DEF ProcOK
<1>3. OnlyMoves(p)
  BY <1>1 DEF OnlyMoves, ProcOK
<1>4. loc'[p].matched = n
  BY <1>2 DEF Locals
<1>q. QED
  BY <1>1, <1>2, <1>3, <1>4 DEF Locals, n

\* What UpdateJob of ExecMark and of prepare passes on is a map of numbers.
LEMMA OneMoved ==
    ASSUME ProcOK, NEW p \in Proc, NEW from, NEW to, NEW b \in BOOLEAN
    PROVE  LET n == IF b THEN 1 ELSE 0
           IN  Moved(from, to, MatchedCount(p, n), n) \in [Status -> Int]
<1> DEFINE n == IF b THEN 1 ELSE 0
           m == MatchedCount(p, n)
<1>1. n \in Int
  OBVIOUS
<1> HIDE DEF n
<1>2. m \in Int
  BY <1>1, MatchedCountType
<1> HIDE DEF m
<1>3. Moved(from, to, m, n) \in [Status -> Int]
  BY <1>1, <1>2, MovedType
<1>q. QED
  BY <1>3 DEF m, n

\* prepare takes one of the jobs it has read, and puts it back when it was not QUEUEING.
LEMMA PrepareTakes ==
    ASSUME NEW p \in Boot, TypeOK, PrepareNext(p), loc[p].todo # {}
    PROVE  \E it \in [id : Job, st : Status] :
              /\ it \in loc[p].todo /\ OnlyMoves(p)
              /\ loc'[p].job = it.id /\ loc'[p].todo = loc[p].todo \ {it}
              /\ loc'[p].op = loc[p].op /\ loc'[p].flag = loc[p].flag
              /\ \/ /\ it.st = "QUEUEING" /\ pc'[p] = "prepPush" /\ UNCHANGED status
                    /\ loc'[p].incr = loc[p].incr /\ loc'[p].matched = loc[p].matched
                 \/ LET n == IF Exists(it.id) THEN 1 ELSE 0 IN
                    /\ it.st # "QUEUEING" /\ pc'[p] = "incrPrepare" /\ Counted(p)
                    /\ Reached(p, it)
                    /\ status' = IF n = 1 THEN [status EXCEPT ![it.id] = "QUEUEING"] ELSE status
                    /\ loc'[p].incr = Moved(it.st, "QUEUEING", MatchedCount(p, n), n)
                    /\ loc'[p].matched = Uncounted
<1>p. p \in Proc
  BY DEF Proc
<1>t. ProcOK /\ pc \in [Proc -> Label] /\ loc \in [Proc -> Locals] /\ loc[p] \in Locals
  BY <1>p DEF TypeOK, ProcOK
<1>1. PICK it \in loc[p].todo :
        \/ /\ it.st = "QUEUEING" /\ Goto(p, "prepPush") /\ UNCHANGED status
           /\ Local(p, [loc[p] EXCEPT !.job = it.id, !.todo = @ \ {it}])
        \/ LET n == IF Exists(it.id) THEN 1 ELSE 0 IN
           /\ it.st # "QUEUEING" /\ Goto(p, "incrPrepare") /\ Counted(p) /\ Reached(p, it)
           /\ status' = IF n = 1 THEN [status EXCEPT ![it.id] = "QUEUEING"] ELSE status
           /\ Local(p, [Updated(p, Moved(it.st, "QUEUEING", MatchedCount(p, n), n))
                          EXCEPT !.job = it.id, !.todo = @ \ {it}])
  BY DEF PrepareNext, Reached, At
<1>2. it \in [id : Job, st : Status]
  BY <1>t DEF Locals
<1>3. CASE it.st = "QUEUEING"
  <2> DEFINE r == [loc[p] EXCEPT !.job = it.id, !.todo = @ \ {it}]
  <2>1. /\ loc' = [loc EXCEPT ![p] = r] /\ pc' = [pc EXCEPT ![p] = "prepPush"]
        /\ UNCHANGED status
    BY <1>1, <1>3 DEF Local, Goto
  <2>2. /\ r.job = it.id /\ r.todo = loc[p].todo \ {it} /\ r.op = loc[p].op
        /\ r.flag = loc[p].flag /\ r.incr = loc[p].incr /\ r.matched = loc[p].matched
    BY <1>t DEF Locals
  <2> HIDE DEF r
  <2>3. OnlyMoves(p) /\ loc'[p] = r /\ pc'[p] = "prepPush"
    BY <1>p, <1>t, <2>1 DEF OnlyMoves
  <2>q. QED
    BY <1>2, <1>3, <2>1, <2>2, <2>3
<1>4. CASE it.st # "QUEUEING"
  <2> DEFINE n == IF Exists(it.id) THEN 1 ELSE 0
             i == Moved(it.st, "QUEUEING", MatchedCount(p, n), n)
             u == Updated(p, i)
             r == [u EXCEPT !.job = it.id, !.todo = @ \ {it}]
  <2>1. /\ loc' = [loc EXCEPT ![p] = r] /\ pc' = [pc EXCEPT ![p] = "incrPrepare"]
        /\ status' = IF n = 1 THEN [status EXCEPT ![it.id] = "QUEUEING"] ELSE status
        /\ Counted(p) /\ Reached(p, it)
    BY <1>1, <1>4 DEF Local, Goto
  <2>2. i \in [Status -> Int]
    <3>1. Exists(it.id) \in BOOLEAN
      BY DEF Exists
    <3> HIDE DEF i
    <3>q. QED
      BY <1>p, <1>t, <3>1, OneMoved DEF i
  <2> HIDE DEF i
  <2>3. /\ u \in Locals /\ u.incr = i /\ u.matched = Uncounted
        /\ u.op = loc[p].op /\ u.flag = loc[p].flag /\ u.todo = loc[p].todo
    BY <1>p, <1>t, <2>2, UpdatedType
  <2> HIDE DEF u
  <2>4. /\ r.job = it.id /\ r.todo = u.todo \ {it} /\ r.op = u.op
        /\ r.flag = u.flag /\ r.incr = u.incr /\ r.matched = u.matched
    BY <2>3 DEF Locals
  <2> HIDE DEF r
  <2>5. OnlyMoves(p) /\ loc'[p] = r /\ pc'[p] = "incrPrepare"
    BY <1>p, <1>t, <2>1 DEF OnlyMoves
  <2>6. /\ loc'[p].job = it.id /\ loc'[p].todo = loc[p].todo \ {it} /\ loc'[p].op = loc[p].op
        /\ loc'[p].flag = loc[p].flag /\ loc'[p].incr = i /\ loc'[p].matched = Uncounted
    BY <2>3, <2>4, <2>5
  <2>q. QED
    BY <1>2, <1>4, <2>1, <2>5, <2>6 DEF i
<1>q. QED
  BY <1>3, <1>4
-----------------------------------------------------------------------------
\* The jobs that are RETRYING

\* A run that has marked j RETRYING will give it another status.
WillFinish(p, j) ==
    /\ p \in Worker /\ pc[p] \in {"incrMark", "handle", "requeue", "finish"}
    /\ loc[p].job = j

\* A prepare that will read j, or has read it as RETRYING, will put it back to QUEUEING.
WillPrepare(p, j) ==
    /\ p \in Boot
    /\ \/ pc[p] \in {"prepReset", "prepClear", "prepCount"}
       \/ pc[p] \in {"prepSummary", "prepStream"} /\ loc[p].flag
       \/ /\ pc[p] \in {"prepNext", "incrPrepare", "prepPush"}
          /\ [id |-> j, st |-> "RETRYING"] \in loc[p].todo

\* Nobody is about to write the status RETRYING but the run that marks its job.
WritesPlain ==
    \A p \in Proc : pc[p] \in {"requeue", "finish", "addSave"} => loc[p].st # "RETRYING"

\* Whatever is RETRYING has somebody who will change that.
RescueInv ==
    /\ WritesPlain
    /\ \A j \in Job : status[j] = "RETRYING" =>
          \E p \in Proc : WillFinish(p, j) \/ WillPrepare(p, j)

\* The select on the cancelled context is not taken in any handler.
HandlerNotCancelled == \A p \in Worker : pc[p] = "handle" => ~done[p]

\* From RunBegin to the handler
Cancellable == {"lock", "pop", "find", "mark", "incrMark", "handle"}

\* Where Task.cancel is called: at the end of a run, and by StopJob and StopAllJob
CallsCancel == {"cancel", "stopTask", "stopAllTask"}

\* Nobody is about to call Task.cancel while a run that it may hit is on its way to its handler.
CancelsNoRun ==
    \A p \in Proc, q \in Worker :
        Home[p] = Home[q] /\ pc[p] \in CallsCancel => pc[q] \notin Cancellable

\* Only a goroutine of the runtime is cancelled, and only where it does not matter.
CancelInv ==
    /\ \A r \in Runtime, q \in Proc : cancel[r] = q => q \in Worker /\ Home[q] = r
    /\ \A p \in Worker : done[p] => pc[p] \notin Cancellable

\* Where a goroutine is relied on to change the status of a RETRYING job
RescueLabel ==
    {"incrMark", "handle", "requeue", "finish", "prepReset", "prepClear", "prepCount",
     "prepSummary", "prepStream", "prepNext", "incrPrepare", "prepPush"}

\* A step of p that leaves what is RETRYING to the others
Bystander(p) ==
    /\ OnlyMoves(p)
    /\ \A j \in Job : status'[j] = "RETRYING" => status[j] = "RETRYING"
    /\ pc[p] \notin RescueLabel /\ pc'[p] \notin {"requeue", "finish", "addSave"}

\* A step of p after which every RETRYING job has somebody who will change that
KeepsRescue(p) ==
    /\ OnlyMoves(p)
    /\ pc'[p] \in {"requeue", "finish", "addSave"} => loc'[p].st # "RETRYING"
    /\ \A j \in Job : status'[j] = "RETRYING" =>
          /\ status[j] = "RETRYING" \/ WillFinish(p, j)'
          /\ WillFinish(p, j) \/ WillPrepare(p, j) => WillFinish(p, j)' \/ WillPrepare(p, j)'

\* Such a step keeps the invariant.
LEMMA KeepsRescueKeepsInv ==
    ASSUME RescueInv, NEW p \in Proc, KeepsRescue(p)
    PROVE  RescueInv'
<1>1. WritesPlain'
  BY DEF RescueInv, WritesPlain, KeepsRescue, OnlyMoves
<1>2. ASSUME NEW j \in Job, status'[j] = "RETRYING"
      PROVE  \E q \in Proc : WillFinish(q, j)' \/ WillPrepare(q, j)'
  <2>1. CASE WillFinish(p, j)'
    BY <2>1
  <2>2. CASE ~WillFinish(p, j)'
    <3>1. PICK q \in Proc : WillFinish(q, j) \/ WillPrepare(q, j)
      BY <1>2, <2>2 DEF KeepsRescue, RescueInv
    <3>2. CASE q = p
      BY <1>2, <3>1, <3>2 DEF KeepsRescue
    <3>3. CASE q # p
      BY <3>1, <3>3 DEF KeepsRescue, OnlyMoves, WillFinish, WillPrepare
    <3>q. QED
      BY <3>2, <3>3
  <2>q. QED
    BY <2>1, <2>2
<1>q. QED
  BY <1>1, <1>2 DEF RescueInv

\* A bystander keeps the invariant.
LEMMA BystanderKeepsRescue ==
    ASSUME NEW p \in Proc, Bystander(p)
    PROVE  KeepsRescue(p)
BY DEF Bystander, KeepsRescue, WillFinish, WillPrepare, RescueLabel

(***************************************************************************)
(* What goroutines share: only IncrementSummary, and the COUNT of          *)
(* UpdateJob, are on the way of a run or of prepare.                       *)
(***************************************************************************)
LEMMA CommonKeepsRescue ==
    ASSUME NEW p \in Proc, TypeOK, WritesPlain, CommonStep(p)
    PROVE  KeepsRescue(p)
<1>t. /\ pc \in [Proc -> Label] /\ loc \in [Proc -> Locals]
      /\ status \in [Job -> Status \cup {"NONE", "DELETED"}]
  BY DEF TypeOK, ProcOK, StoreOK
<1>1. CASE IncrementSummary(p)
  <2>1. OnlyMoves(p) /\ UNCHANGED status /\ pc'[p] \notin {"requeue", "finish", "addSave"}
    BY <1>1, <1>t DEF IncrementSummary, AfterIncrement, OnlyMoves, Goto, Local, Return, At
  <2>2. ASSUME NEW j \in Job, WillFinish(p, j)
        PROVE  WillFinish(p, j)'
    BY <1>1, <1>t, <2>2 DEF IncrementSummary, AfterIncrement, WillFinish, Goto, Local, At, Locals
  <2>3. ASSUME NEW j \in Job, WillPrepare(p, j)
        PROVE  WillPrepare(p, j)'
    BY <1>1, <1>t, <2>3 DEF IncrementSummary, AfterIncrement, WillPrepare, Goto, Local, At, Locals
  <2>q. QED
    BY <2>1, <2>2, <2>3 DEF KeepsRescue
<1>2. ASSUME CommonStep(p), ~IncrementSummary(p), ~CountMatched(p)
      PROVE  Bystander(p)
  <2> USE DEF Bystander, OnlyMoves, RescueLabel, Goto, Local, Return, At, store
  <2>1. CASE NextPeek(p)
    BY <1>t, <2>1 DEF NextPeek
  <2>2. CASE NextFind(p)
    BY <1>t, <2>2 DEF NextFind
  <2>3. CASE NextPop(p)
    BY <1>t, <2>3 DEF NextPop
  <2>4. CASE NextStream(p)
    BY <1>t, <2>4 DEF NextStream
  <2>5. CASE StreamPush(p)
    <3>1. CASE loc[p].todo = {}
      BY <1>t, <2>5, <3>1 DEF StreamPush
    <3>2. CASE loc[p].todo # {}
      BY <1>t, <2>5, <3>2 DEF StreamPush
    <3>q. QED
      BY <3>1, <3>2
  <2>6. CASE RegisterJobToWorker(p)
    BY <1>t, <2>6 DEF RegisterJobToWorker
  <2>7. CASE UnlockTaskCount(p)
    BY <1>t, <2>7 DEF UnlockTaskCount
  <2>8. CASE UnlockTaskDel(p)
    BY <1>t, <2>8 DEF UnlockTaskDel
  <2>q. QED
    BY <1>2, <2>1, <2>2, <2>3, <2>4, <2>5, <2>6, <2>7, <2>8 DEF CommonStep
<1>3. CASE CountMatched(p)
  <2>1. /\ OnlyMoves(p) /\ UNCHANGED status /\ pc' = pc
        /\ loc'[p].st = loc[p].st /\ loc'[p].job = loc[p].job
        /\ loc'[p].flag = loc[p].flag /\ loc'[p].todo = loc[p].todo
    BY <1>3, CountKeeps DEF TypeOK, store
  <2>q. QED
    BY <2>1 DEF KeepsRescue, WritesPlain, WillFinish, WillPrepare
<1>q. QED
  BY <1>1, <1>2, <1>3, BystanderKeepsRescue

\* A run that marks its job takes it over; unless it is cancelled it ends with another status.
LEMMA WorkerKeepsRescue ==
    ASSUME NEW p \in Worker, TypeOK, WritesPlain, HandlerNotCancelled, WorkerStep(p)
    PROVE  KeepsRescue(p)
<1>p. p \in Proc
  BY DEF Proc
<1>t. /\ pc \in [Proc -> Label] /\ loc \in [Proc -> Locals]
      /\ status \in [Job -> Status \cup {"NONE", "DELETED"}]
  BY DEF TypeOK, ProcOK, StoreOK
<1>j. pc[p] \in HasJob => loc[p].job \in Job
  BY <1>p DEF TypeOK, ProcOK
<1>1. CASE ExecMark(p)
  <2>1. OnlyMoves(p) /\ pc'[p] = "incrMark" /\ pc[p] = "mark"
    BY <1>p, <1>t, <1>1 DEF ExecMark, OnlyMoves, Goto, Local, At
  <2>2. PICK i : loc' = [loc EXCEPT ![p] = Updated(p, i)]
    BY <1>1 DEF ExecMark, Local
  <2>3. loc'[p].job = loc[p].job
    BY <1>p, <1>t, <2>2 DEF Updated, Locals
  <2>4. \A j \in Job : j # loc[p].job => status'[j] = status[j]
    BY <1>p, <1>t, <1>1 DEF ExecMark
  <2>q. QED
    BY <1>p, <2>1, <2>3, <2>4, ProcAssumption DEF KeepsRescue, WillFinish, WillPrepare
<1>2. CASE ExecCancelled(p)
  BY <1>2 DEF ExecCancelled, HandlerNotCancelled, At
<1>3. CASE ExecResult(p)
  <2>1. PICK s \in {"QUEUEING", "SUCCESS", "FAILURE"} :
          /\ loc' = [loc EXCEPT ![p] = [loc[p] EXCEPT !.st = s]]
          /\ pc' = [pc EXCEPT ![p] = pc'[p]] /\ pc'[p] \in {"requeue", "finish"}
    BY <1>p, <1>t, <1>3 DEF ExecResult, Goto, Local
  <2>2. loc'[p].st = s /\ loc'[p].job = loc[p].job
    BY <1>p, <1>t, <2>1 DEF Locals
  <2>3. OnlyMoves(p)
    BY <1>p, <1>t, <2>1 DEF OnlyMoves
  <2>4. UNCHANGED status /\ pc[p] = "handle" /\ p \notin Boot
    BY <1>3, ProcAssumption DEF ExecResult, At, store
  <2>q. QED
    BY <2>1, <2>2, <2>3, <2>4 DEF KeepsRescue, WillFinish, WillPrepare
<1>4. CASE ExecRequeue(p)
  BY <1>p, <1>t, <1>4 DEF ExecRequeue, KeepsRescue, WritesPlain, OnlyMoves, WillFinish, WillPrepare,
     Goto, Local, At, store
<1>5. CASE ExecFinish(p)
  <2>1. OnlyMoves(p) /\ pc'[p] = "incrFinish" /\ pc[p] = "finish"
    BY <1>p, <1>t, <1>5 DEF ExecFinish, OnlyMoves, Goto, Local, At
  <2>2. status'[loc[p].job] # "RETRYING"
    BY <1>p, <1>t, <1>j, <1>5 DEF ExecFinish, WritesPlain, HasJob, At, Exists, Status
  <2>3. \A j \in Job : j # loc[p].job => status'[j] = status[j]
    BY <1>p, <1>t, <1>5 DEF ExecFinish
  <2>q. QED
    BY <2>1, <2>2, <2>3, ProcAssumption DEF KeepsRescue, WillFinish, WillPrepare
<1>6. ASSUME WorkerStep(p), ~ExecMark(p), ~ExecCancelled(p), ~ExecResult(p), ~ExecRequeue(p),
             ~ExecFinish(p)
      PROVE  Bystander(p)
  <2> USE <1>p, <1>t DEF Bystander, OnlyMoves, RescueLabel, Goto, Local, Return, At, store
  <2>1. CASE Serve(p)
    BY <2>1 DEF Serve
  <2>2. CASE TriggerStop(p)
    BY <2>2 DEF TriggerStop
  <2>3. CASE TriggerHold(p)
    BY <2>3 DEF TriggerHold
  <2>4. CASE TriggerAcquire(p)
    BY <2>4 DEF TriggerAcquire
  <2>5. CASE RunBegin(p)
    BY <2>5 DEF RunBegin
  <2>6. CASE RunLock(p)
    BY <2>6 DEF RunLock
  <2>7. CASE ExecPop(p)
    BY <2>7 DEF ExecPop
  <2>8. CASE ExecFind(p)
    BY <2>8 DEF ExecFind
  <2>9. CASE RunUnlock(p)
    BY <2>9 DEF RunUnlock
  <2>10. CASE RunRelease(p)
    BY <2>10 DEF RunRelease
  <2>11. CASE RunCancel(p)
    BY <2>11 DEF RunCancel
  <2>q. QED
    BY <1>6, <2>1, <2>2, <2>3, <2>4, <2>5, <2>6, <2>7, <2>8, <2>9, <2>10, <2>11 DEF WorkerStep
<1>q. QED
  BY <1>p, <1>1, <1>2, <1>3, <1>4, <1>5, <1>6, BystanderKeepsRescue

\* No call writes the status RETRYING.
LEMMA ClientKeepsRescue ==
    ASSUME NEW p \in Client, TypeOK, WritesPlain, ClientStep(p) \/ ClientCall(p)
    PROVE  KeepsRescue(p)
<1>p. p \in Proc
  BY DEF Proc
<1>t. /\ pc \in [Proc -> Label] /\ loc \in [Proc -> Locals]
      /\ status \in [Job -> Status \cup {"NONE", "DELETED"}]
  BY DEF TypeOK, ProcOK, StoreOK
<1>1. CASE AddSummary(p)
  BY <1>p, <1>t, <1>1, ProcAssumption DEF AddSummary, KeepsRescue, OnlyMoves, WillFinish,
     WillPrepare, Locals, Goto, Local, At, store
<1>2. CASE ClientCall(p)
  <2> USE <1>p, <1>t DEF Bystander, OnlyMoves, RescueLabel, Goto, Local, At, store
  <2>b. Bystander(p)
    <3>1. CASE AddJob(p)
      BY <3>1 DEF AddJob
    <3>2. CASE \E j \in Job : RetryJob(p, j)
      BY <3>2 DEF RetryJob, Call, Found
    <3>3. CASE \E j \in Job : StopJob(p, j)
      BY <3>3 DEF StopJob, Call, Found
    <3>4. CASE \E j \in Job : DeleteJob(p, j)
      BY <3>4 DEF DeleteJob, Call
    <3>5. CASE HoldJobTask(p)
      BY <3>5 DEF HoldJobTask, Call
    <3>6. CASE StopAllJob(p)
      BY <3>6 DEF StopAllJob, Call
    <3>7. CASE RetryAllJob(p)
      BY <3>7 DEF RetryAllJob, Call
    <3>8. CASE CleanJob(p)
      BY <3>8 DEF CleanJob, Call
    <3>9. CASE RunQueuedJob(p)
      BY <3>9 DEF RunQueuedJob, Call
    <3>10. CASE RecalculateSummary(p)
      BY <3>10 DEF RecalculateSummary, Call
    <3>11. CASE \E j \in Job : DeleteSelect(p, j)
      BY <3>11 DEF DeleteSelect, Call
    <3>q. QED
      BY <1>2, <3>1, <3>2, <3>3, <3>4, <3>5, <3>6, <3>7, <3>8, <3>9, <3>10, <3>11 DEF ClientCall
  <2>q. QED
    BY <2>b, BystanderKeepsRescue
<1>3. ASSUME ClientStep(p), ~AddSummary(p)
      PROVE  Bystander(p)
  <2> USE <1>p, <1>t DEF Bystander, OnlyMoves, RescueLabel, Goto, Local, Return, At, store
  <2>1. CASE AddSave(p)
    BY <2>1 DEF AddSave, WritesPlain
  <2>2. CASE AddPush(p)
    BY <2>2 DEF AddPush
  <2>3. CASE AddSemaphore(p)
    BY <2>3 DEF AddSemaphore
  <2>4. CASE AddHasBeenLocked(p)
    BY <2>4 DEF AddHasBeenLocked
  <2>5. CASE RetryUnlock(p)
    BY <2>5 DEF RetryUnlock
  <2>6. CASE RetrySave(p)
    BY <2>6 DEF RetrySave
  <2>7. CASE RetryPush(p)
    BY <2>7 DEF RetryPush
  <2>8. CASE StopTask(p)
    BY <2>8 DEF StopTask
  <2>9. CASE StopSave(p)
    BY <2>9 DEF StopSave
  <2>10. CASE HoldFlip(p)
    BY <2>10 DEF HoldFlip
  <2>11. CASE RecalculateSave(p)
    BY <2>11 DEF RecalculateSave
  <2>12. CASE UpdateSummary(p)
    BY <2>12 DEF UpdateSummary
  <2>13. CASE BulkStream(p)
    BY <2>13 DEF BulkStream
  <2>14. CASE Bulk(p)
    BY <2>14 DEF Bulk, BulkUpdate, BulkClean
  <2>15. CASE StopAllClear(p)
    BY <2>15 DEF StopAllClear
  <2>16. CASE DeleteRow(p)
    BY <2>16 DEF DeleteRow
  <2>q. QED
    BY <1>3, <2>1, <2>2, <2>3, <2>4, <2>5, <2>6, <2>7, <2>8, <2>9, <2>10, <2>11, <2>12, <2>13, <2>16,
       <2>14, <2>15 DEF ClientStep
<1>q. QED
  BY <1>p, <1>1, <1>2, <1>3, BystanderKeepsRescue

\* A count of the RETRYING and QUEUEING jobs is positive when there is one.
LEMMA CountsOne ==
    ASSUME NEW j \in Job, status[j] \in {"RETRYING", "QUEUEING"}
    PROVE  CountAllJob({"RETRYING", "QUEUEING"}) > 0
<1> DEFINE S == {k \in Job : status[k] \in {"RETRYING", "QUEUEING"}}
<1>1. S \in SUBSET Job /\ j \in S
  OBVIOUS
<1>2. IsFiniteSet(Job)
  BY JobsAreFinite
<1>3. IsFiniteSet(S)
  BY <1>1, <1>2, FS_Subset
<1>4. Cardinality(S) # 0
  <2> HIDE DEF S
  <2>q. QED
    BY <1>1, <1>3, FS_EmptySet
<1>5. Cardinality(S) \in Nat
  BY <1>1, JobsAreCounted
<1>q. QED
  BY <1>4, <1>5 DEF CountAllJob

\* prepare puts back every job it finds RETRYING.
LEMMA BootKeepsRescue ==
    ASSUME NEW p \in Boot, TypeOK, BootStep(p)
    PROVE  KeepsRescue(p)
<1>p. p \in Proc /\ p \notin Worker
  BY ProcAssumption DEF Proc
<1>t. /\ pc \in [Proc -> Label] /\ loc \in [Proc -> Locals]
      /\ status \in [Job -> Status \cup {"NONE", "DELETED"}]
  BY DEF TypeOK, ProcOK, StoreOK
<1> USE <1>p, <1>t DEF KeepsRescue, OnlyMoves, WillFinish, WillPrepare, Goto, Local, Return, At,
        store
<1>1. CASE PrepareReset(p)
  BY <1>1 DEF PrepareReset
<1>2. CASE PrepareClear(p)
  BY <1>2 DEF PrepareClear
<1>3. CASE PrepareCount(p)
  <2>1. loc'[p] = [loc[p] EXCEPT !.incr = Counts,
                                 !.flag = CountAllJob({"RETRYING", "QUEUEING"}) > 0]
    BY <1>3 DEF PrepareCount
  <2>2. loc'[p].flag = (CountAllJob({"RETRYING", "QUEUEING"}) > 0)
    BY <2>1 DEF Locals
  <2>3. \A j \in Job : status[j] = "RETRYING" => loc'[p].flag
    BY <2>2, CountsOne
  <2>4. OnlyMoves(p) /\ UNCHANGED status /\ pc'[p] = "prepSummary" /\ pc[p] = "prepCount"
    BY <1>3 DEF PrepareCount
  <2>q. QED
    BY <2>3, <2>4
<1>4. CASE PrepareSummary(p)
  BY <1>4 DEF PrepareSummary, Locals
<1>5. CASE PrepareStream(p)
  <2>1. loc'[p].todo = FindAllJob({"RETRYING", "QUEUEING"})
    BY <1>5 DEF PrepareStream, Locals
  <2>2. \A j \in Job : status[j] = "RETRYING" => [id |-> j, st |-> "RETRYING"] \in loc'[p].todo
    BY <2>1 DEF FindAllJob
  <2>3. OnlyMoves(p) /\ UNCHANGED status /\ pc'[p] = "prepNext" /\ pc[p] = "prepStream"
    BY <1>5 DEF PrepareStream
  <2>q. QED
    BY <2>2, <2>3
<1>6. CASE PrepareNext(p)
  <2>1. CASE loc[p].todo = {}
    BY <1>6, <2>1 DEF PrepareNext
  <2>2. CASE loc[p].todo # {}
    <3>1. PICK it \in [id : Job, st : Status] :
            /\ OnlyMoves(p) /\ loc'[p].todo = loc[p].todo \ {it}
            /\ \/ it.st = "QUEUEING" /\ pc'[p] = "prepPush" /\ UNCHANGED status
               \/ LET n == IF Exists(it.id) THEN 1 ELSE 0 IN
                  /\ it.st # "QUEUEING" /\ pc'[p] = "incrPrepare"
                  /\ status' = IF n = 1 THEN [status EXCEPT ![it.id] = "QUEUEING"] ELSE status
      BY <1>6, <2>2, PrepareTakes
    <3>2. pc'[p] \in {"prepPush", "incrPrepare"} /\ pc[p] = "prepNext"
      BY <1>6, <3>1 DEF PrepareNext
    <3>3. ASSUME NEW j \in Job, status'[j] = "RETRYING"
          PROVE  status[j] = "RETRYING" /\ it # [id |-> j, st |-> "RETRYING"]
      BY <3>1, <3>3 DEF Exists, Status
    <3>q. QED
      BY <3>1, <3>2, <3>3
  <2>q. QED
    BY <2>1, <2>2
<1>7. CASE PreparePush(p)
  BY <1>7 DEF PreparePush
<1>8. CASE PrepareLoaded(p)
  BY <1>8 DEF PrepareLoaded
<1>q. QED
  BY <1>1, <1>2, <1>3, <1>4, <1>5, <1>6, <1>7, <1>8 DEF BootStep

\* After a crash the new prepare has to do what the runs and the old prepare would have done.
LEMMA RuntimeKeepsRescue ==
    ASSUME TypeOK, RescueInv, NEW r \in Runtime, TickerFires(r) \/ Crash(r)
    PROVE  RescueInv'
<1>1. CASE TickerFires(r)
  BY <1>1 DEF TickerFires, RescueInv, WritesPlain, WillFinish, WillPrepare, store
<1>2. CASE Crash(r)
  <2>1. PICK b \in Boot : Home[b] = r
    BY BootAssumption
  <2>2. b \in Proc /\ pc'[b] = "prepReset"
    BY <1>2, <2>1 DEF Crash, Proc
  <2>3. \A j \in Job : WillPrepare(b, j)'
    BY <2>2 DEF WillPrepare
  <2>4. WritesPlain'
    BY <1>2 DEF Crash, RescueInv, WritesPlain
  <2>q. QED
    BY <2>2, <2>3, <2>4 DEF RescueInv
<1>q. QED
  BY <1>1, <1>2

\* Every step with no handler cancelled keeps the invariant.
LEMMA RescueStep ==
    ASSUME TypeOK, RescueInv, HandlerNotCancelled, [Next]_vars
    PROVE  RescueInv'
<1>0. WritesPlain
  BY DEF RescueInv
<1>1. CASE UNCHANGED vars
  BY <1>1 DEF vars, store, RescueInv, WritesPlain, WillFinish, WillPrepare
<1>2. ASSUME NEW p \in Worker, WorkerStep(p) PROVE RescueInv'
  BY <1>0, <1>2, WorkerKeepsRescue, KeepsRescueKeepsInv DEF Proc
<1>3. ASSUME NEW p \in Client, ClientStep(p) \/ ClientCall(p) PROVE RescueInv'
  BY <1>0, <1>3, ClientKeepsRescue, KeepsRescueKeepsInv DEF Proc
<1>4. ASSUME NEW p \in Boot, BootStep(p) PROVE RescueInv'
  BY <1>4, BootKeepsRescue, KeepsRescueKeepsInv DEF Proc
<1>5. ASSUME NEW p \in Proc, CommonStep(p) PROVE RescueInv'
  BY <1>0, <1>5, CommonKeepsRescue, KeepsRescueKeepsInv
<1>6. ASSUME NEW r \in Runtime, TickerFires(r) \/ Crash(r) PROVE RescueInv'
  BY <1>6, RuntimeKeepsRescue
<1>q. QED
  BY <1>1, <1>2, <1>3, <1>4, <1>5, <1>6 DEF Next

\* The invariant holds at the start and leaves nothing RETRYING at rest.
LEMMA RescueEnds == (Init => RescueInv) /\ (RescueInv => NoJobStranded)
<1>1. Init => RescueInv
  BY DEF Init, RescueInv, WritesPlain
<1>2. RescueInv => NoJobStranded
  BY DEF RescueInv, NoJobStranded, AtRest, Idle, WillFinish, WillPrepare
<1>q. QED
  BY <1>1, <1>2

(***************************************************************************)
(* Nothing but the select on the cancelled context strands a job: in a     *)
(* behaviour where no run sits in its handler with a cancelled context, no *)
(* job is RETRYING when nothing runs, for any number of runtimes,          *)
(* goroutines and jobs, all calls of the API and crashes at any point.     *)
(***************************************************************************)
THEOREM StrandedOnlyByCancel == Spec /\ []HandlerNotCancelled => []NoJobStranded
<1>1. Init => RescueInv
  BY RescueEnds
<1>2. TypeOK /\ HandlerNotCancelled /\ RescueInv /\ [Next]_vars => RescueInv'
  BY RescueStep
<1>3. RescueInv => NoJobStranded
  BY RescueEnds
<1>q. QED
  BY <1>1, <1>2, <1>3, TypeCorrect, PTL DEF Spec

\* A step of p that cancels no run on its way to or in its handler
StaysUncancelled(p) ==
    /\ \A q \in Proc \ {p} : pc'[q] = pc[q]
    /\ UNCHANGED <<cancel, done>>
    /\ pc'[p] \in Cancellable => pc[p] \in Cancellable

\* Such a step keeps the invariant.
LEMMA StaysUncancelledKeeps ==
    ASSUME CancelInv, NEW p \in Proc, StaysUncancelled(p)
    PROVE  CancelInv'
BY DEF CancelInv, StaysUncancelled, Proc

\* The calls that several goroutines share cancel nothing.
LEMMA CommonStaysUncancelled ==
    ASSUME NEW p \in Proc, pc \in [Proc -> Label], CommonStep(p)
    PROVE  StaysUncancelled(p)
<1> USE DEF StaysUncancelled, Cancellable, Goto, Return, At, engine
<1>1. CASE IncrementSummary(p)
  BY <1>1 DEF IncrementSummary, AfterIncrement
<1>2. CASE NextPeek(p)
  BY <1>2 DEF NextPeek
<1>3. CASE NextFind(p)
  BY <1>3 DEF NextFind
<1>4. CASE NextPop(p)
  BY <1>4 DEF NextPop
<1>5. CASE NextStream(p)
  BY <1>5 DEF NextStream
<1>6. CASE StreamPush(p)
  <2>1. CASE loc[p].todo = {}
    BY <1>6, <2>1 DEF StreamPush
  <2>2. CASE loc[p].todo # {}
    BY <1>6, <2>2 DEF StreamPush
  <2>q. QED
    BY <2>1, <2>2
<1>7. CASE RegisterJobToWorker(p)
  BY <1>7 DEF RegisterJobToWorker
<1>8. CASE UnlockTaskCount(p)
  BY <1>8 DEF UnlockTaskCount
<1>9. CASE UnlockTaskDel(p)
  BY <1>9 DEF UnlockTaskDel
<1>10. CASE CountMatched(p)
  BY <1>10 DEF CountMatched
<1>q. QED
  BY <1>1, <1>2, <1>3, <1>4, <1>5, <1>6, <1>7, <1>8, <1>9, <1>10 DEF CommonStep

(***************************************************************************)
(* RunBegin makes a new context; RunCancel cancels whatever Task.cancel    *)
(* cancels, be it the run that just ended or another one of the runtime.   *)
(***************************************************************************)
LEMMA WorkerKeepsUncancelled ==
    ASSUME CancelsNoRun, TypeOK, CancelInv, NEW p \in Worker, WorkerStep(p)
    PROVE  CancelInv'
<1>1. /\ p \in Proc /\ Home[p] \in Runtime /\ pc \in [Proc -> Label]
      /\ done \in [Proc -> BOOLEAN] /\ cancel \in [Runtime -> Proc \cup {None}]
  BY ProcAssumption DEF Proc, TypeOK, ProcOK, EngineOK
<1>2. CASE RunBegin(p)
  <2>1. /\ cancel' = [cancel EXCEPT ![Home[p]] = p] /\ done' = [done EXCEPT ![p] = FALSE]
        /\ pc' = [pc EXCEPT ![p] = "lock"]
    BY <1>2 DEF RunBegin, Goto
  <2>2. \A r \in Runtime, q \in Proc : cancel'[r] = q => q \in Worker /\ Home[q] = r
    BY <1>1, <2>1 DEF CancelInv
  <2>3. \A q \in Worker : done'[q] => pc'[q] \notin Cancellable
    BY <1>1, <2>1 DEF CancelInv, Proc
  <2>q. QED
    BY <2>2, <2>3 DEF CancelInv
<1>3. CASE RunCancel(p)
  <2>1. /\ done' = [q \in Proc |-> done[q] \/ q = cancel[Home[p]]]
        /\ pc' = [pc EXCEPT ![p] = "nextPeek"] /\ UNCHANGED cancel
    BY <1>3 DEF RunCancel, Goto, engine
  <2>2. \A q \in Worker : q = cancel[Home[p]] => pc[q] \notin Cancellable
    BY <1>1, <1>3 DEF CancelInv, CancelsNoRun, CallsCancel, RunCancel, At, Proc
  <2>3. \A q \in Worker : done'[q] => pc'[q] \notin Cancellable
    BY <1>1, <2>1, <2>2 DEF CancelInv, Proc, Cancellable
  <2>q. QED
    BY <2>1, <2>3 DEF CancelInv
<1>4. CASE TriggerAcquire(p)
  <2>1. /\ pc' = [pc EXCEPT ![p] = "begin"] /\ UNCHANGED <<cancel, done>>
    BY <1>4 DEF TriggerAcquire, Goto
  <2>2. StaysUncancelled(p)
    BY <1>1, <2>1 DEF StaysUncancelled, Cancellable
  <2>q. QED
    BY <1>1, <2>2, StaysUncancelledKeeps
<1>5. ASSUME WorkerStep(p), ~RunBegin(p), ~RunCancel(p), ~TriggerAcquire(p)
      PROVE  StaysUncancelled(p)
  <2> USE <1>1 DEF StaysUncancelled, Cancellable, Goto, Return, At, engine
  <2>1. CASE Serve(p)
    BY <2>1 DEF Serve
  <2>2. CASE TriggerStop(p)
    BY <2>2 DEF TriggerStop
  <2>3. CASE TriggerHold(p)
    BY <2>3 DEF TriggerHold
  <2>4. CASE RunLock(p)
    BY <2>4 DEF RunLock
  <2>5. CASE ExecPop(p)
    BY <2>5 DEF ExecPop
  <2>6. CASE ExecFind(p)
    BY <2>6 DEF ExecFind
  <2>7. CASE ExecMark(p)
    BY <2>7 DEF ExecMark
  <2>8. CASE ExecCancelled(p)
    BY <2>8 DEF ExecCancelled
  <2>9. CASE ExecResult(p)
    BY <2>9 DEF ExecResult
  <2>10. CASE ExecRequeue(p)
    BY <2>10 DEF ExecRequeue
  <2>11. CASE ExecFinish(p)
    BY <2>11 DEF ExecFinish
  <2>12. CASE RunUnlock(p)
    BY <2>12 DEF RunUnlock
  <2>13. CASE RunRelease(p)
    BY <2>13 DEF RunRelease
  <2>q. QED
    BY <1>5, <2>1, <2>2, <2>3, <2>4, <2>5, <2>6, <2>7, <2>8, <2>9, <2>10, <2>11, <2>12, <2>13 DEF
       WorkerStep
<1>q. QED
  BY <1>1, <1>2, <1>3, <1>4, <1>5, StaysUncancelledKeeps

\* The calls that do not get to Task.cancel cancel nothing.
LEMMA ClientStaysUncancelled ==
    ASSUME NEW p \in Proc, pc \in [Proc -> Label], ClientStep(p) \/ ClientCall(p), ~StopTask(p)
    PROVE  StaysUncancelled(p)
<1> USE DEF StaysUncancelled, Cancellable, Goto, Return, At, engine
<1>0. CASE ClientCall(p)
  <2>1. CASE AddJob(p)
    BY <2>1 DEF AddJob
  <2>2. CASE \E j \in Job : RetryJob(p, j)
    BY <2>2 DEF RetryJob, Call, Found
  <2>3. CASE \E j \in Job : StopJob(p, j)
    BY <2>3 DEF StopJob, Call, Found
  <2>4. CASE \E j \in Job : DeleteJob(p, j)
    BY <2>4 DEF DeleteJob, Call
  <2>5. CASE HoldJobTask(p)
    BY <2>5 DEF HoldJobTask, Call
  <2>6. CASE StopAllJob(p)
    BY <2>6 DEF StopAllJob, Call
  <2>7. CASE RetryAllJob(p)
    BY <2>7 DEF RetryAllJob, Call
  <2>8. CASE CleanJob(p)
    BY <2>8 DEF CleanJob, Call
  <2>9. CASE RunQueuedJob(p)
    BY <2>9 DEF RunQueuedJob, Call
  <2>10. CASE RecalculateSummary(p)
    BY <2>10 DEF RecalculateSummary, Call
  <2>11. CASE \E j \in Job : DeleteSelect(p, j)
    BY <2>11 DEF DeleteSelect, Call
  <2>q. QED
    BY <1>0, <2>1, <2>2, <2>3, <2>4, <2>5, <2>6, <2>7, <2>8, <2>9, <2>10, <2>11 DEF ClientCall
<1>1. CASE AddSummary(p)
  BY <1>1 DEF AddSummary
<1>2. CASE AddSave(p)
  BY <1>2 DEF AddSave
<1>3. CASE AddPush(p)
  BY <1>3 DEF AddPush
<1>4. CASE AddSemaphore(p)
  BY <1>4 DEF AddSemaphore
<1>5. CASE AddHasBeenLocked(p)
  BY <1>5 DEF AddHasBeenLocked
<1>6. CASE RetryUnlock(p)
  BY <1>6 DEF RetryUnlock
<1>7. CASE RetrySave(p)
  BY <1>7 DEF RetrySave
<1>8. CASE RetryPush(p)
  BY <1>8 DEF RetryPush
<1>9. CASE StopTask(p)
  BY <1>9
<1>10. CASE StopSave(p)
  BY <1>10 DEF StopSave
<1>11. CASE HoldFlip(p)
  BY <1>11 DEF HoldFlip
<1>12. CASE RecalculateSave(p)
  BY <1>12 DEF RecalculateSave
<1>13. CASE UpdateSummary(p)
  BY <1>13 DEF UpdateSummary
<1>14. CASE BulkStream(p)
  BY <1>14 DEF BulkStream
<1>15. CASE Bulk(p)
  BY <1>15 DEF Bulk, BulkUpdate, BulkClean
<1>16. CASE StopAllClear(p)
  BY <1>16 DEF StopAllClear
<1>17. CASE DeleteRow(p)
  BY <1>17 DEF DeleteRow
<1>q. QED
  BY <1>0, <1>1, <1>2, <1>3, <1>4, <1>5, <1>6, <1>7, <1>8, <1>9, <1>10, <1>11, <1>12, <1>13, <1>14, <1>17,
     <1>15, <1>16 DEF ClientStep

\* StopJob and StopAllJob cancel whatever Task.cancel cancels by now.
LEMMA StopKeepsUncancelled ==
    ASSUME CancelsNoRun, TypeOK, CancelInv, NEW p \in Proc, StopTask(p)
    PROVE  CancelInv'
<1>1. /\ Home[p] \in Runtime /\ pc \in [Proc -> Label] /\ done \in [Proc -> BOOLEAN]
  BY ProcAssumption DEF TypeOK, ProcOK, EngineOK
<1>2. /\ done' = [q \in Proc |-> done[q] \/ q = cancel[Home[p]]] /\ UNCHANGED cancel
      /\ pc[p] \in CallsCancel
  BY DEF StopTask, CallsCancel
<1>3. \A q \in Proc : pc'[q] \in Cancellable => pc'[q] = pc[q]
  BY <1>1 DEF StopTask, Goto, Cancellable
<1>4. \A q \in Worker : q = cancel[Home[p]] => pc[q] \notin Cancellable
  BY <1>1, <1>2 DEF CancelInv, CancelsNoRun, Proc
<1>5. \A q \in Worker : done'[q] => pc'[q] \notin Cancellable
  BY <1>1, <1>2, <1>3, <1>4 DEF CancelInv, Proc
<1>q. QED
  BY <1>2, <1>5 DEF CancelInv

\* prepare cancels nothing.
LEMMA BootStaysUncancelled ==
    ASSUME NEW p \in Proc, pc \in [Proc -> Label], BootStep(p)
    PROVE  StaysUncancelled(p)
<1> USE DEF StaysUncancelled, Cancellable, Goto, Return, At, engine
<1>1. CASE PrepareReset(p)
  BY <1>1 DEF PrepareReset
<1>2. CASE PrepareClear(p)
  BY <1>2 DEF PrepareClear
<1>3. CASE PrepareCount(p)
  BY <1>3 DEF PrepareCount
<1>4. CASE PrepareSummary(p)
  BY <1>4 DEF PrepareSummary
<1>5. CASE PrepareStream(p)
  BY <1>5 DEF PrepareStream
<1>6. CASE PrepareNext(p)
  <2>1. CASE loc[p].todo = {}
    BY <1>6, <2>1 DEF PrepareNext
  <2>2. CASE loc[p].todo # {}
    BY <1>6, <2>2 DEF PrepareNext
  <2>q. QED
    BY <2>1, <2>2
<1>7. CASE PreparePush(p)
  BY <1>7 DEF PreparePush
<1>8. CASE PrepareLoaded(p)
  BY <1>8 DEF PrepareLoaded
<1>q. QED
  BY <1>1, <1>2, <1>3, <1>4, <1>5, <1>6, <1>7, <1>8 DEF BootStep

\* A crash leaves neither a run nor a context in its runtime.
LEMMA RuntimeKeepsUncancelled ==
    ASSUME TypeOK, CancelInv, NEW r \in Runtime, TickerFires(r) \/ Crash(r)
    PROVE  CancelInv'
<1>1. CASE TickerFires(r)
  BY <1>1 DEF TickerFires, CancelInv
<1>2. CASE Crash(r)
  <2>1. cancel' = [cancel EXCEPT ![r] = None] /\ cancel \in [Runtime -> Proc \cup {None}]
    BY <1>2 DEF Crash, TypeOK, EngineOK
  <2>2. \A s \in Runtime, q \in Proc : cancel'[s] = q => q \in Worker /\ Home[q] = s
    BY <2>1, ProcAssumption DEF CancelInv
  <2>3. \A q \in Worker : done'[q] => pc'[q] \notin Cancellable
    BY <1>2 DEF Crash, CancelInv, Proc
  <2>q. QED
    BY <2>2, <2>3 DEF CancelInv
<1>q. QED
  BY <1>1, <1>2

\* No handler runs with a cancelled context.
LEMMA CancelHolds == Spec /\ []CancelsNoRun => []CancelInv
<1>1. Init => CancelInv
  <2> SUFFICES ASSUME Init PROVE CancelInv
    OBVIOUS
  <2>1. \A r \in Runtime, q \in Proc : cancel[r] # q
    BY ProcAssumption DEF Init
  <2>2. \A p \in Proc : ~done[p]
    BY DEF Init
  <2>q. QED
    BY <2>1, <2>2 DEF CancelInv, Proc
<1>2. TypeOK /\ CancelsNoRun /\ CancelInv /\ [Next]_vars => CancelInv'
  <2> SUFFICES ASSUME TypeOK, CancelsNoRun, CancelInv, [Next]_vars PROVE CancelInv'
    OBVIOUS
  <2>0. pc \in [Proc -> Label]
    BY DEF TypeOK, ProcOK
  <2>1. CASE UNCHANGED vars
    BY <2>1 DEF vars, engine, CancelInv
  <2>2. ASSUME NEW p \in Worker, WorkerStep(p) PROVE CancelInv'
    BY <2>2, WorkerKeepsUncancelled
  <2>3. ASSUME NEW p \in Client, ClientStep(p) \/ ClientCall(p) PROVE CancelInv'
    <3>1. p \in Proc
      BY DEF Proc
    <3>2. CASE StopTask(p)
      BY <3>1, <3>2, StopKeepsUncancelled
    <3>3. CASE ~StopTask(p)
      BY <2>0, <2>3, <3>1, <3>3, ClientStaysUncancelled, StaysUncancelledKeeps
    <3>q. QED
      BY <3>2, <3>3
  <2>4. ASSUME NEW p \in Boot, BootStep(p) PROVE CancelInv'
    BY <2>0, <2>4, BootStaysUncancelled, StaysUncancelledKeeps DEF Proc
  <2>5. ASSUME NEW p \in Proc, CommonStep(p) PROVE CancelInv'
    BY <2>0, <2>5, CommonStaysUncancelled, StaysUncancelledKeeps
  <2>6. ASSUME NEW r \in Runtime, TickerFires(r) \/ Crash(r) PROVE CancelInv'
    BY <2>6, RuntimeKeepsUncancelled
  <2>q. QED
    BY <2>1, <2>2, <2>3, <2>4, <2>5, <2>6 DEF Next
<1>q. QED
  BY <1>1, <1>2, TypeCorrect, PTL DEF Spec

(***************************************************************************)
(* What cancels a handler, and so strands a job, is a call of Task.cancel  *)
(* made while a run of the runtime is on its way to its handler: by        *)
(* StopJob, by StopAllJob, or by an earlier run, whose task.cancel() comes *)
(* after it has given the semaphore back.  In a behaviour where no such    *)
(* call is made no job is RETRYING when nothing runs, for any number of    *)
(* runtimes, triggerTask goroutines and jobs, all calls of the API and     *)
(* crashes at any point.                                                   *)
(***************************************************************************)
THEOREM StrandedOnlyByOverlap == Spec /\ []CancelsNoRun => []NoJobStranded
<1>1. Spec /\ []CancelsNoRun => []CancelInv
  BY CancelHolds
<1>2. CancelInv => HandlerNotCancelled
  BY DEF CancelInv, HandlerNotCancelled, Cancellable
<1>q. QED
  BY <1>1, <1>2, StrandedOnlyByCancel, PTL

-----------------------------------------------------------------------------
\* The jobs that succeeded

\* From ExecFind on, a run has its job to itself.
Executing == {"mark", "incrMark", "handle", "requeue", "finish"}

\* Where AddJob has the id of its job and no row yet
Adding == {"addSummary", "addSave"}

\* Where prepare goes through the jobs that it has read
Preparing == {"prepNext", "incrPrepare", "prepPush"}

\* While prepare runs, nothing else does, and no ticker is there to change that.
BootAlone ==
    \A b \in Boot : pc[b] \in PrepareLabel =>
        /\ \A p \in Proc \ {b} : pc[p] = "idle"
        /\ ~armed[Home[b]] /\ ~tick[Home[b]]

\* A job that is being run, added or prepared has not succeeded.
NotYetSuccess ==
    /\ \A p \in Worker : pc[p] \in Executing => status[loc[p].job] # "SUCCESS"
    /\ \A p \in Client : pc[p] \in Adding => status[loc[p].job] = "NONE"
    /\ \A p \in Boot : pc[p] \in Preparing =>
          \A it \in loc[p].todo : status[it.id] # "SUCCESS"

\* AddJob calls have different jobs, none of them in the store before.
FreshJobs ==
    /\ \A j \in Job : j > added => status[j] = "NONE"
    /\ \A p \in Client : pc[p] \in Adding => loc[p].job <= added
    /\ \A p, q \in Client : pc[p] \in Adding /\ pc[q] \in Adding /\ loc[p].job = loc[q].job
          => p = q

\* What AddJob saves and what StopJob compares with are statuses.
KnownStatus ==
    /\ \A p \in Client : pc[p] = "addSave" => loc[p].st \in {"QUEUEING", "HOLD"}
    /\ \A p \in Client : pc[p] \in {"stopTask", "stopSave"} => loc[p].st \in Status

SuccessInv == BootAlone /\ NotYetSuccess /\ FreshJobs /\ KnownStatus

\* All goroutines live in one runtime, so that the semaphore is enough to keep runs apart.
OneRuntime == \A p, q \in Proc : Home[p] = Home[q]

\* A step of p that no prepare of the runtime has to fear
StepsAside(p) ==
    /\ \A q \in Proc \ {p} : pc'[q] = pc[q]
    /\ pc[p] = "idle" => tick[Home[p]] \/ \A b \in Boot : pc[b] = "idle"
    /\ pc'[p] \in PrepareLabel => pc[p] \in PrepareLabel /\ UNCHANGED <<armed, tick>>

\* While a prepare runs, a step is a step of that prepare.
LEMMA NobodyElse ==
    ASSUME OneRuntime, BootAlone, NEW p \in Proc, StepsAside(p), NEW b \in Boot,
           pc[b] \in PrepareLabel
    PROVE  p = b
<1>1. b \in Proc /\ pc[b] # "idle"
  BY DEF Proc, PrepareLabel
<1>2. ASSUME p # b PROVE FALSE
  BY <1>1, <1>2 DEF BootAlone, StepsAside, OneRuntime
<1>q. QED
  BY <1>2

\* Such a step keeps prepare alone.
LEMMA StepsAsideKeepsAlone ==
    ASSUME OneRuntime, BootAlone, NEW p \in Proc, StepsAside(p)
    PROVE  BootAlone'
<1> SUFFICES ASSUME NEW b \in Boot, pc'[b] \in PrepareLabel
             PROVE  /\ \A q \in Proc \ {b} : pc'[q] = "idle"
                    /\ ~armed'[Home[b]] /\ ~tick'[Home[b]]
  BY DEF BootAlone
<1>1. b \in Proc
  BY DEF Proc
<1>2. pc[b] \in PrepareLabel
  BY <1>1 DEF StepsAside
<1>3. p = b
  BY <1>2, NobodyElse
<1>q. QED
  BY <1>1, <1>2, <1>3 DEF StepsAside, BootAlone

\* What goroutines share leads into prepare only from within it.
LEMMA CommonStepsAside ==
    ASSUME NEW p \in Proc, pc \in [Proc -> Label], CommonStep(p)
    PROVE  StepsAside(p)
<1> USE DEF StepsAside, PrepareLabel, Goto, Local, Return, At, engine
<1>1. CASE IncrementSummary(p)
  BY <1>1 DEF IncrementSummary, AfterIncrement
<1>2. CASE NextPeek(p)
  BY <1>2 DEF NextPeek
<1>3. CASE NextFind(p)
  BY <1>3 DEF NextFind
<1>4. CASE NextPop(p)
  BY <1>4 DEF NextPop
<1>5. CASE NextStream(p)
  BY <1>5 DEF NextStream
<1>6. CASE StreamPush(p)
  <2>1. CASE loc[p].todo = {}
    BY <1>6, <2>1 DEF StreamPush
  <2>2. CASE loc[p].todo # {}
    BY <1>6, <2>2 DEF StreamPush
  <2>q. QED
    BY <2>1, <2>2
<1>7. CASE RegisterJobToWorker(p)
  BY <1>7 DEF RegisterJobToWorker
<1>8. CASE UnlockTaskCount(p)
  BY <1>8 DEF UnlockTaskCount
<1>9. CASE UnlockTaskDel(p)
  BY <1>9 DEF UnlockTaskDel
<1>10. CASE CountMatched(p)
  BY <1>10 DEF CountMatched, UpdatesJob, Reached
<1>q. QED
  BY <1>1, <1>2, <1>3, <1>4, <1>5, <1>6, <1>7, <1>8, <1>9, <1>10 DEF CommonStep

\* Serve starts a run when a tick waits.
LEMMA WorkerStepsAside ==
    ASSUME NEW p \in Proc, pc \in [Proc -> Label], WorkerStep(p)
    PROVE  StepsAside(p)
<1> USE DEF StepsAside, PrepareLabel, Goto, Local, Return, At, engine
<1>1. CASE Serve(p)
  BY <1>1 DEF Serve
<1>2. CASE TriggerStop(p)
  BY <1>2 DEF TriggerStop
<1>3. CASE TriggerHold(p)
  BY <1>3 DEF TriggerHold
<1>4. CASE TriggerAcquire(p)
  BY <1>4 DEF TriggerAcquire
<1>5. CASE RunBegin(p)
  BY <1>5 DEF RunBegin
<1>6. CASE RunLock(p)
  BY <1>6 DEF RunLock
<1>7. CASE ExecPop(p)
  BY <1>7 DEF ExecPop
<1>8. CASE ExecFind(p)
  BY <1>8 DEF ExecFind
<1>9. CASE ExecMark(p)
  BY <1>9 DEF ExecMark
<1>10. CASE ExecCancelled(p)
  BY <1>10 DEF ExecCancelled
<1>11. CASE ExecResult(p)
  BY <1>11 DEF ExecResult
<1>12. CASE ExecRequeue(p)
  BY <1>12 DEF ExecRequeue
<1>13. CASE ExecFinish(p)
  BY <1>13 DEF ExecFinish
<1>14. CASE RunUnlock(p)
  BY <1>14 DEF RunUnlock
<1>15. CASE RunRelease(p)
  BY <1>15 DEF RunRelease
<1>16. CASE RunCancel(p)
  BY <1>16 DEF RunCancel
<1>q. QED
  BY <1>1, <1>2, <1>3, <1>4, <1>5, <1>6, <1>7, <1>8, <1>9, <1>10, <1>11, <1>12, <1>13, <1>14,
     <1>15, <1>16 DEF WorkerStep

\* A call starts when prepare has ended.
LEMMA ClientStepsAside ==
    ASSUME OneRuntime, ~EarlyCalls, NEW p \in Client, pc \in [Proc -> Label],
           ClientStep(p) \/ ClientCall(p)
    PROVE  StepsAside(p)
<1>p. p \in Proc
  BY DEF Proc
<1> USE <1>p DEF StepsAside, PrepareLabel, Goto, Local, Return, At, engine
<1>0. CASE ClientCall(p)
  <2>1. \A b \in Boot : pc[b] = "idle"
    BY <1>0 DEF ClientCall, OneRuntime, Proc
  <2>2. \A q \in Proc \ {p} : pc'[q] = pc[q]
    <3>1. CASE AddJob(p)
      BY <3>1 DEF AddJob
    <3>2. CASE \E j \in Job : RetryJob(p, j)
      BY <3>2 DEF RetryJob, Call, Found
    <3>3. CASE \E j \in Job : StopJob(p, j)
      BY <3>3 DEF StopJob, Call, Found
    <3>4. CASE \E j \in Job : DeleteJob(p, j)
      BY <3>4 DEF DeleteJob, Call
    <3>5. CASE HoldJobTask(p)
      BY <3>5 DEF HoldJobTask, Call
    <3>6. CASE StopAllJob(p)
      BY <3>6 DEF StopAllJob, Call
    <3>7. CASE RetryAllJob(p)
      BY <3>7 DEF RetryAllJob, Call
    <3>8. CASE CleanJob(p)
      BY <3>8 DEF CleanJob, Call
    <3>9. CASE RunQueuedJob(p)
      BY <3>9 DEF RunQueuedJob, Call
    <3>10. CASE RecalculateSummary(p)
      BY <3>10 DEF RecalculateSummary, Call
    <3>11. CASE \E j \in Job : DeleteSelect(p, j)
      BY <3>11 DEF DeleteSelect, Call
    <3>q. QED
      BY <1>0, <3>1, <3>2, <3>3, <3>4, <3>5, <3>6, <3>7, <3>8, <3>9, <3>10, <3>11 DEF ClientCall
  <2>3. pc'[p] \notin PrepareLabel
    <3>1. CASE AddJob(p)
      BY <3>1 DEF AddJob
    <3>2. CASE \E j \in Job : RetryJob(p, j)
      BY <3>2 DEF RetryJob, Call, Found
    <3>3. CASE \E j \in Job : StopJob(p, j)
      BY <3>3 DEF StopJob, Call, Found
    <3>4. CASE \E j \in Job : DeleteJob(p, j)
      BY <3>4 DEF DeleteJob, Call
    <3>5. CASE HoldJobTask(p)
      BY <3>5 DEF HoldJobTask, Call
    <3>6. CASE StopAllJob(p)
      BY <3>6 DEF StopAllJob, Call
    <3>7. CASE RetryAllJob(p)
      BY <3>7 DEF RetryAllJob, Call
    <3>8. CASE CleanJob(p)
      BY <3>8 DEF CleanJob, Call
    <3>9. CASE RunQueuedJob(p)
      BY <3>9 DEF RunQueuedJob, Call
    <3>10. CASE RecalculateSummary(p)
      BY <3>10 DEF RecalculateSummary, Call
    <3>11. CASE \E j \in Job : DeleteSelect(p, j)
      BY <3>11 DEF DeleteSelect, Call
    <3>q. QED
      BY <1>0, <3>1, <3>2, <3>3, <3>4, <3>5, <3>6, <3>7, <3>8, <3>9, <3>10, <3>11 DEF ClientCall
  <2>q. QED
    BY <2>1, <2>2, <2>3
<1>1. CASE AddSummary(p)
  BY <1>1 DEF AddSummary
<1>2. CASE AddSave(p)
  BY <1>2 DEF AddSave
<1>3. CASE AddPush(p)
  BY <1>3 DEF AddPush
<1>4. CASE AddSemaphore(p)
  BY <1>4 DEF AddSemaphore
<1>5. CASE AddHasBeenLocked(p)
  BY <1>5 DEF AddHasBeenLocked
<1>6. CASE RetryUnlock(p)
  BY <1>6 DEF RetryUnlock
<1>7. CASE RetrySave(p)
  BY <1>7 DEF RetrySave
<1>8. CASE RetryPush(p)
  BY <1>8 DEF RetryPush
<1>9. CASE StopTask(p)
  BY <1>9 DEF StopTask
<1>10. CASE StopSave(p)
  BY <1>10 DEF StopSave
<1>11. CASE HoldFlip(p)
  BY <1>11 DEF HoldFlip
<1>12. CASE RecalculateSave(p)
  BY <1>12 DEF RecalculateSave
<1>13. CASE UpdateSummary(p)
  BY <1>13 DEF UpdateSummary
<1>14. CASE BulkStream(p)
  BY <1>14 DEF BulkStream
<1>15. CASE Bulk(p)
  BY <1>15 DEF Bulk, BulkUpdate, BulkClean
<1>16. CASE StopAllClear(p)
  BY <1>16 DEF StopAllClear
<1>17. CASE DeleteRow(p)
  BY <1>17 DEF DeleteRow
<1>q. QED
  BY <1>0, <1>1, <1>2, <1>3, <1>4, <1>5, <1>6, <1>7, <1>8, <1>9, <1>10, <1>11, <1>12, <1>13, <1>14, <1>17,
     <1>15, <1>16 DEF ClientStep

\* prepare touches no ticker.
LEMMA BootStepsAside ==
    ASSUME NEW p \in Proc, pc \in [Proc -> Label], BootStep(p)
    PROVE  StepsAside(p)
<1> USE DEF StepsAside, PrepareLabel, Goto, Local, Return, At, engine
<1>1. CASE PrepareReset(p)
  BY <1>1 DEF PrepareReset
<1>2. CASE PrepareClear(p)
  BY <1>2 DEF PrepareClear
<1>3. CASE PrepareCount(p)
  BY <1>3 DEF PrepareCount
<1>4. CASE PrepareSummary(p)
  BY <1>4 DEF PrepareSummary
<1>5. CASE PrepareStream(p)
  BY <1>5 DEF PrepareStream
<1>6. CASE PrepareNext(p)
  <2>1. CASE loc[p].todo = {}
    BY <1>6, <2>1 DEF PrepareNext
  <2>2. CASE loc[p].todo # {}
    BY <1>6, <2>2 DEF PrepareNext
  <2>q. QED
    BY <2>1, <2>2
<1>7. CASE PreparePush(p)
  BY <1>7 DEF PreparePush
<1>8. CASE PrepareLoaded(p)
  BY <1>8 DEF PrepareLoaded
<1>q. QED
  BY <1>1, <1>2, <1>3, <1>4, <1>5, <1>6, <1>7, <1>8 DEF BootStep

\* What p will find when it goes on, after its step
OwnNotYet(p) ==
    /\ p \in Worker /\ pc[p] \in Executing => status[loc[p].job] # "SUCCESS"
    /\ p \in Client /\ pc[p] \in Adding => status[loc[p].job] = "NONE"
    /\ p \in Boot /\ pc[p] \in Preparing => \A it \in loc[p].todo : status[it.id] # "SUCCESS"
    /\ p \in Client /\ pc[p] = "addSave" => loc[p].st \in {"QUEUEING", "HOLD"}
    /\ p \in Client /\ pc[p] \in {"stopTask", "stopSave"} => loc[p].st \in Status

\* The statuses that a step of p may change: no job succeeds, and only AddJob makes a row.
KeepsStatus(p) ==
    \A j \in Job :
       /\ status'[j] = "SUCCESS" => status[j] = "SUCCESS"
       /\ status[j] = "NONE" /\ status'[j] # "NONE" =>
             p \in Client /\ pc[p] = "addSave" /\ j = loc[p].job

\* The statuses of a job that succeeded, as SuccessIsFinal states them
KeepsSuccess ==
    \A j \in Job : status[j] = "SUCCESS" /\ status'[j] # status[j]
       => status'[j] = "DELETED" \/ \E p \in Client : pc[p] \in {"retrySave", "stopSave"}

\* A step of p, other than one that adds a job or ends a run, that keeps the invariant
Safe(p) ==
    /\ OnlyMoves(p) /\ UNCHANGED added
    /\ KeepsStatus(p) /\ KeepsSuccess /\ OwnNotYet(p)'
    /\ p \in Client /\ pc'[p] \in Adding => pc[p] \in Adding /\ loc'[p].job = loc[p].job

\* What a step of another goroutine leaves as it was
LEMMA SafeKeeps ==
    ASSUME TypeOK, NotYetSuccess, FreshJobs, KnownStatus, NEW p \in Proc, Safe(p)
    PROVE  NotYetSuccess' /\ FreshJobs' /\ KnownStatus'
<1>t. /\ pc \in [Proc -> Label] /\ loc \in [Proc -> Locals] /\ Job = 1..NumJobs
      /\ Worker \in SUBSET Proc /\ Client \in SUBSET Proc /\ Boot \in SUBSET Proc
      /\ \A q \in Proc : pc[q] \in HasJob => loc[q].job \in Job
      /\ Executing \in SUBSET HasJob /\ Adding \in SUBSET HasJob
  BY DEF TypeOK, ProcOK, Job, Proc, Executing, Adding, HasJob
<1>1. ASSUME NEW q \in Worker, pc'[q] \in Executing
      PROVE  status'[loc'[q].job] # "SUCCESS"
  <2>1. CASE q = p
    BY <1>1, <2>1 DEF Safe, OwnNotYet
  <2>2. CASE q # p
    <3>1. pc'[q] = pc[q] /\ loc'[q] = loc[q] /\ loc[q].job \in Job
      BY <1>1, <1>t, <2>2 DEF Safe, OnlyMoves
    <3>q. QED
      BY <1>1, <3>1 DEF NotYetSuccess, Safe, KeepsStatus
  <2>q. QED
    BY <2>1, <2>2
<1>2. ASSUME NEW q \in Client, pc'[q] \in Adding
      PROVE  status'[loc'[q].job] = "NONE" /\ loc'[q].job <= added'
  <2>1. CASE q = p
    BY <1>2, <2>1 DEF Safe, OwnNotYet, FreshJobs
  <2>2. CASE q # p
    <3>1. pc'[q] = pc[q] /\ loc'[q] = loc[q] /\ loc[q].job \in Job
      BY <1>2, <1>t, <2>2 DEF Safe, OnlyMoves
    <3>2. status[loc[q].job] = "NONE" /\ loc[q].job <= added
      BY <1>2, <3>1 DEF NotYetSuccess, FreshJobs
    <3>3. ~(p \in Client /\ pc[p] = "addSave" /\ loc[q].job = loc[p].job)
      BY <1>2, <2>2, <3>1 DEF FreshJobs, Adding
    <3>q. QED
      BY <3>1, <3>2, <3>3 DEF Safe, KeepsStatus
  <2>q. QED
    BY <2>1, <2>2
<1>3. ASSUME NEW q \in Boot, pc'[q] \in Preparing, NEW it \in loc'[q].todo
      PROVE  status'[it.id] # "SUCCESS"
  <2>1. CASE q = p
    BY <1>3, <2>1 DEF Safe, OwnNotYet
  <2>2. CASE q # p
    <3>1. pc'[q] = pc[q] /\ loc'[q] = loc[q] /\ q \in Proc
      BY <1>t, <2>2 DEF Safe, OnlyMoves
    <3>2. loc[q].todo \in SUBSET [id : Job, st : Status]
      BY <1>t, <3>1 DEF Locals
    <3>q. QED
      BY <1>3, <3>1, <3>2 DEF NotYetSuccess, Safe, KeepsStatus
  <2>q. QED
    BY <2>1, <2>2
<1>4. NotYetSuccess'
  BY <1>1, <1>2, <1>3 DEF NotYetSuccess
<1>5. ASSUME NEW j \in Job, j > added'
      PROVE  status'[j] = "NONE"
  <2>1. status[j] = "NONE" /\ added' = added
    BY <1>5 DEF FreshJobs, Safe
  <2>2. ~(p \in Client /\ pc[p] = "addSave" /\ j = loc[p].job)
    <3> SUFFICES ASSUME p \in Client, pc[p] = "addSave", j = loc[p].job PROVE FALSE
      OBVIOUS
    <3>1. j <= added
      BY DEF FreshJobs, Adding
    <3>2. added \in Nat /\ j \in Nat
      BY BoundAssumption DEF TypeOK, BoundsOK, Job
    <3>q. QED
      BY <1>5, <2>1, <3>1, <3>2
  <2>q. QED
    BY <2>1, <2>2 DEF Safe, KeepsStatus
<1>6. ASSUME NEW q \in Client, NEW s \in Client, pc'[q] \in Adding, pc'[s] \in Adding,
             loc'[q].job = loc'[s].job
      PROVE  q = s
  BY <1>6, <1>t DEF Safe, OnlyMoves, FreshJobs
<1>7. FreshJobs'
  BY <1>2, <1>5, <1>6 DEF FreshJobs
<1>8. KnownStatus'
  BY <1>t DEF KnownStatus, Safe, OnlyMoves, OwnNotYet
<1>q. QED
  BY <1>4, <1>7, <1>8

\* A step that changes no status and goes to none of the places the invariant is about
Quiet(p) ==
    /\ OnlyMoves(p) /\ UNCHANGED <<status, added>>
    /\ pc'[p] \notin Executing \cup Adding \cup Preparing \cup {"stopTask", "stopSave"}

\* Such a step is safe.
LEMMA QuietIsSafe ==
    ASSUME NEW p \in Proc, Quiet(p)
    PROVE  Safe(p)
BY DEF Quiet, Safe, KeepsStatus, KeepsSuccess, OwnNotYet, Adding

\* What goroutines share: IncrementSummary goes on within a run or within prepare.
LEMMA CommonIsSafe ==
    ASSUME NEW p \in Proc, TypeOK, NotYetSuccess, KnownStatus, CommonStep(p)
    PROVE  Safe(p)
<1>t. /\ pc \in [Proc -> Label] /\ loc \in [Proc -> Locals]
      /\ status \in [Job -> Status \cup {"NONE", "DELETED"}]
  BY DEF TypeOK, ProcOK, StoreOK
<1>1. CASE IncrementSummary(p)
  <2>1. OnlyMoves(p) /\ UNCHANGED <<status, added>>
    BY <1>1, <1>t DEF IncrementSummary, OnlyMoves, Goto, Local, Return, bounds
  <2>2. pc'[p] \notin Adding \cup {"stopTask", "stopSave"}
    BY <1>1, <1>t DEF IncrementSummary, AfterIncrement, Adding, Goto, Return
  <2>3. pc'[p] \in Executing => pc[p] \in Executing /\ loc'[p].job = loc[p].job
    BY <1>1, <1>t DEF IncrementSummary, AfterIncrement, Executing, Goto, Local, Return, At, Locals
  <2>4. pc'[p] \in Preparing => pc[p] \in Preparing /\ loc'[p].todo = loc[p].todo
    BY <1>1, <1>t DEF IncrementSummary, AfterIncrement, Preparing, Goto, Local, Return, At, Locals
  <2>q. QED
    BY <2>1, <2>2, <2>3, <2>4 DEF Safe, KeepsStatus, KeepsSuccess, OwnNotYet, NotYetSuccess, Adding
<1>2. ASSUME CommonStep(p), ~IncrementSummary(p), ~CountMatched(p)
      PROVE  Quiet(p)
  <2> USE <1>t DEF Quiet, OnlyMoves, Executing, Adding, Preparing, Goto, Local, Return, At, store,
     bounds
  <2>1. CASE NextPeek(p)
    BY <2>1 DEF NextPeek
  <2>2. CASE NextFind(p)
    BY <2>2 DEF NextFind
  <2>3. CASE NextPop(p)
    BY <2>3 DEF NextPop
  <2>4. CASE NextStream(p)
    BY <2>4 DEF NextStream
  <2>5. CASE StreamPush(p)
    <3>1. CASE loc[p].todo = {}
      BY <2>5, <3>1 DEF StreamPush
    <3>2. CASE loc[p].todo # {}
      BY <2>5, <3>2 DEF StreamPush
    <3>q. QED
      BY <3>1, <3>2
  <2>6. CASE RegisterJobToWorker(p)
    BY <2>6 DEF RegisterJobToWorker
  <2>7. CASE UnlockTaskCount(p)
    BY <2>7 DEF UnlockTaskCount
  <2>8. CASE UnlockTaskDel(p)
    BY <2>8 DEF UnlockTaskDel
  <2>q. QED
    BY <1>2, <2>1, <2>2, <2>3, <2>4, <2>5, <2>6, <2>7, <2>8 DEF CommonStep
<1>3. CASE CountMatched(p)
  <2>1. /\ OnlyMoves(p) /\ UNCHANGED <<status, added>> /\ pc' = pc
        /\ loc'[p].st = loc[p].st /\ loc'[p].job = loc[p].job /\ loc'[p].todo = loc[p].todo
    BY <1>3, CountKeeps DEF TypeOK, store, bounds
  <2>q. QED
    BY <2>1 DEF Safe, KeepsStatus, KeepsSuccess, OwnNotYet, NotYetSuccess, KnownStatus
<1>q. QED
  BY <1>1, <1>2, <1>3, QuietIsSafe

\* A run has a job that did not succeed yet, from ExecFind until ExecFinish.
LEMMA WorkerIsSafe ==
    ASSUME NEW p \in Worker, TypeOK, NotYetSuccess, WorkerStep(p), ~ExecFinish(p)
    PROVE  Safe(p)
<1>p. p \in Proc /\ p \notin Client /\ p \notin Boot
  BY ProcAssumption DEF Proc
<1>t. /\ pc \in [Proc -> Label] /\ loc \in [Proc -> Locals]
      /\ status \in [Job -> Status \cup {"NONE", "DELETED"}]
  BY DEF TypeOK, ProcOK, StoreOK
<1>j. pc[p] \in HasJob => loc[p].job \in Job
  BY <1>p DEF TypeOK, ProcOK
<1>o. (pc'[p] \in Executing => status'[loc'[p].job] # "SUCCESS") => OwnNotYet(p)'
  BY <1>p DEF OwnNotYet
<1>1. CASE ExecFind(p)
  <2>1. OnlyMoves(p) /\ UNCHANGED <<status, added>>
    BY <1>1, <1>p, <1>t DEF ExecFind, OnlyMoves, Goto, Local, store, bounds
  <2>2. pc'[p] \in Executing => status'[loc'[p].job] # "SUCCESS"
    <3>1. CASE status[loc[p].job] = "QUEUEING" /\ ~done[p]
      BY <1>1, <1>p, <1>t, <3>1 DEF ExecFind, Local, store, Locals
    <3>2. CASE ~(status[loc[p].job] = "QUEUEING" /\ ~done[p])
      BY <1>1, <1>p, <1>t, <3>2 DEF ExecFind, Executing, Goto
    <3>q. QED
      BY <3>1, <3>2
  <2>q. QED
    BY <2>1, <2>2, <1>o, <1>p DEF Safe, KeepsStatus, KeepsSuccess
<1>2. CASE ExecMark(p)
  <2>1. OnlyMoves(p) /\ UNCHANGED added /\ loc'[p].job = loc[p].job
    <3>1. PICK i : loc' = [loc EXCEPT ![p] = Updated(p, i)]
      BY <1>2 DEF ExecMark, Local
    <3>2. loc'[p].job = loc[p].job
      BY <1>p, <1>t, <3>1 DEF Updated, Locals
    <3>3. OnlyMoves(p) /\ UNCHANGED added
      BY <1>2, <1>p, <1>t, <3>1 DEF ExecMark, OnlyMoves, Goto, bounds
    <3>q. QED
      BY <3>2, <3>3
  <2>2. loc[p].job \in Job /\ status[loc[p].job] # "SUCCESS"
    BY <1>2, <1>j DEF ExecMark, HasJob, At, NotYetSuccess, Executing
  <2>3. /\ status'[loc[p].job] # "SUCCESS"
        /\ status[loc[p].job] = "NONE" => status'[loc[p].job] = "NONE"
        /\ \A j \in Job : j # loc[p].job => status'[j] = status[j]
    BY <1>2, <2>2, <1>t DEF ExecMark, Exists, Status
  <2>q. QED
    BY <2>1, <2>2, <2>3, <1>o, <1>p DEF Safe, KeepsStatus, KeepsSuccess
<1>3. CASE ExecResult(p)
  <2>1. OnlyMoves(p) /\ UNCHANGED <<status, added>> /\ pc[p] \in Executing
    BY <1>3, <1>p, <1>t DEF ExecResult, OnlyMoves, Goto, Local, store, bounds, At, Executing
  <2>2. loc'[p].job = loc[p].job
    BY <1>3, <1>p, <1>t DEF ExecResult, Local, Locals
  <2>q. QED
    BY <2>1, <2>2, <1>o, <1>p DEF Safe, KeepsStatus, KeepsSuccess, NotYetSuccess
<1>4. CASE ExecRequeue(p)
  <2>1. OnlyMoves(p) /\ UNCHANGED <<status, added, loc>> /\ pc[p] \in Executing
    BY <1>4, <1>p, <1>t DEF ExecRequeue, OnlyMoves, Goto, store, bounds, At, Executing
  <2>q. QED
    BY <2>1, <1>o, <1>p DEF Safe, KeepsStatus, KeepsSuccess, NotYetSuccess
<1>5. ASSUME WorkerStep(p), ~ExecFind(p), ~ExecMark(p), ~ExecResult(p), ~ExecRequeue(p),
             ~ExecFinish(p)
      PROVE  Quiet(p)
  <2> USE <1>p
  <2> USE <1>t DEF Quiet, OnlyMoves, Executing, Adding, Preparing, Goto, Local, Return, At, store,
     bounds
  <2>1. CASE Serve(p)
    BY <2>1 DEF Serve
  <2>2. CASE TriggerStop(p)
    BY <2>2 DEF TriggerStop
  <2>3. CASE TriggerHold(p)
    BY <2>3 DEF TriggerHold
  <2>4. CASE TriggerAcquire(p)
    BY <2>4 DEF TriggerAcquire
  <2>5. CASE RunBegin(p)
    BY <2>5 DEF RunBegin
  <2>6. CASE RunLock(p)
    BY <2>6 DEF RunLock
  <2>7. CASE ExecPop(p)
    BY <2>7 DEF ExecPop
  <2>8. CASE ExecCancelled(p)
    BY <2>8 DEF ExecCancelled
  <2>9. CASE RunUnlock(p)
    BY <2>9 DEF RunUnlock
  <2>10. CASE RunRelease(p)
    BY <2>10 DEF RunRelease
  <2>11. CASE RunCancel(p)
    BY <2>11 DEF RunCancel
  <2>q. QED
    BY <1>5, <2>1, <2>2, <2>3, <2>4, <2>5, <2>6, <2>7, <2>8, <2>9, <2>10, <2>11 DEF WorkerStep
<1>q. QED
  BY <1>p, <1>1, <1>2, <1>3, <1>4, <1>5, QuietIsSafe

\* Only RetryJob and StopJob change the status of a job that succeeded, or DeleteJob deletes it.
LEMMA ClientIsSafe ==
    ASSUME NEW p \in Client, TypeOK, NotYetSuccess, KnownStatus, ClientStep(p)
    PROVE  Safe(p)
<1>p. p \in Proc /\ p \notin Worker /\ p \notin Boot
  BY ProcAssumption DEF Proc
<1>t. /\ pc \in [Proc -> Label] /\ loc \in [Proc -> Locals]
      /\ status \in [Job -> Status \cup {"NONE", "DELETED"}]
  BY DEF TypeOK, ProcOK, StoreOK
<1>j. pc[p] \in HasJob => loc[p].job \in Job
  BY <1>p DEF TypeOK, ProcOK
<1>1. CASE AddSummary(p)
  <2>1. OnlyMoves(p) /\ UNCHANGED <<status, added>> /\ pc[p] \in Adding /\ pc'[p] = "addSave"
    BY <1>1, <1>p, <1>t DEF AddSummary, OnlyMoves, Goto, Local, store, bounds, At, Adding
  <2>2. loc'[p].job = loc[p].job /\ loc'[p].st \in {"QUEUEING", "HOLD"}
    BY <1>1, <1>p, <1>t DEF AddSummary, Local, Locals
  <2>q. QED
    BY <2>1, <2>2, <1>p DEF Safe, KeepsStatus, KeepsSuccess, NotYetSuccess, OwnNotYet
<1>2. CASE AddSave(p)
  <2>1. OnlyMoves(p) /\ UNCHANGED added /\ pc[p] = "addSave" /\ pc'[p] = "incrAdd"
    BY <1>2, <1>p, <1>t DEF AddSave, OnlyMoves, Goto, Local, bounds, At
  <2>2. /\ loc[p].job \in Job /\ status[loc[p].job] = "NONE"
        /\ loc[p].st \in {"QUEUEING", "HOLD"}
    BY <2>1, <1>j DEF NotYetSuccess, KnownStatus, Adding, HasJob
  <2>3. /\ status'[loc[p].job] = loc[p].st
        /\ \A j \in Job : j # loc[p].job => status'[j] = status[j]
    BY <1>2, <2>2, <1>t DEF AddSave
  <2>q. QED
    BY <2>1, <2>2, <2>3, <1>p DEF Safe, KeepsStatus, KeepsSuccess, OwnNotYet, Adding
<1>3. CASE RetrySave(p)
  <2>1. OnlyMoves(p) /\ UNCHANGED added /\ pc[p] = "retrySave" /\ pc'[p] = "incrRetry"
    BY <1>3, <1>p, <1>t DEF RetrySave, OnlyMoves, Goto, Local, bounds, At
  <2>2. \A j \in Job : /\ status'[j] \in {status[j], "QUEUEING"}
                       /\ status[j] = "NONE" => status'[j] = "NONE"
    BY <1>3, <1>t DEF RetrySave, Exists, Status
  <2>q. QED
    BY <2>1, <2>2, <1>p DEF Safe, KeepsStatus, KeepsSuccess, OwnNotYet, Adding
<1>4. CASE StopTask(p)
  <2>1. /\ OnlyMoves(p) /\ UNCHANGED <<status, added, loc>>
        /\ pc'[p] \notin Adding
        /\ pc'[p] \in {"stopTask", "stopSave"} => pc[p] = "stopTask"
    BY <1>4, <1>p, <1>t DEF StopTask, OnlyMoves, Goto, store, bounds, At, Adding
  <2>q. QED
    BY <2>1, <1>p DEF Safe, KeepsStatus, KeepsSuccess, KnownStatus, OwnNotYet, Adding
<1>5. CASE StopSave(p)
  <2>1. OnlyMoves(p) /\ UNCHANGED added /\ pc[p] = "stopSave" /\ pc'[p] = "incrStop"
    BY <1>5, <1>p, <1>t DEF StopSave, OnlyMoves, Goto, Local, bounds, At
  <2>2. loc[p].job \in Job /\ loc[p].st \in Status
    BY <2>1, <1>j DEF KnownStatus, HasJob
  <2>3. \A j \in Job : /\ status'[j] \in {status[j], "STOPPED"}
                       /\ status[j] = "NONE" => status'[j] = "NONE"
    BY <1>5, <1>t, <2>2 DEF StopSave, Status
  <2>q. QED
    BY <2>1, <2>3, <1>p DEF Safe, KeepsStatus, KeepsSuccess, OwnNotYet, Adding
<1>6. CASE Bulk(p)
  <2>1. /\ OnlyMoves(p) /\ UNCHANGED added
        /\ pc'[p] \notin Adding \cup {"stopTask", "stopSave"}
    BY <1>6, <1>p, <1>t DEF Bulk, BulkUpdate, BulkClean, OnlyMoves, Goto, Local, bounds, Adding
  <2>2. \A j \in Job : /\ status'[j] # "SUCCESS" \/ status[j] = "SUCCESS"
                       /\ status[j] \in {"SUCCESS", "NONE"} => status'[j] = status[j]
    BY <1>6, <1>t DEF Bulk, BulkUpdate, BulkClean
  <2>q. QED
    BY <2>1, <2>2, <1>p DEF Safe, KeepsStatus, KeepsSuccess, OwnNotYet, Adding
<1>7. ASSUME ClientStep(p), ~AddSummary(p), ~AddSave(p), ~RetrySave(p), ~StopTask(p),
             ~StopSave(p), ~Bulk(p), ~DeleteRow(p)
      PROVE  Quiet(p)
  <2> USE <1>p
  <2> USE <1>t DEF Quiet, OnlyMoves, Executing, Adding, Preparing, Goto, Local, Return, At, store,
     bounds
  <2>1. CASE AddPush(p)
    BY <2>1 DEF AddPush
  <2>2. CASE AddSemaphore(p)
    BY <2>2 DEF AddSemaphore
  <2>3. CASE AddHasBeenLocked(p)
    BY <2>3 DEF AddHasBeenLocked
  <2>4. CASE RetryUnlock(p)
    BY <2>4 DEF RetryUnlock
  <2>5. CASE RetryPush(p)
    BY <2>5 DEF RetryPush
  <2>6. CASE HoldFlip(p)
    BY <2>6 DEF HoldFlip
  <2>7. CASE RecalculateSave(p)
    BY <2>7 DEF RecalculateSave
  <2>8. CASE UpdateSummary(p)
    BY <2>8 DEF UpdateSummary
  <2>9. CASE BulkStream(p)
    BY <2>9 DEF BulkStream
  <2>10. CASE StopAllClear(p)
    BY <2>10 DEF StopAllClear
  <2>q. QED
    BY <1>7, <2>1, <2>2, <2>3, <2>4, <2>5, <2>6, <2>7, <2>8, <2>9, <2>10 DEF ClientStep
<1>8. CASE DeleteRow(p)
  <2>1. OnlyMoves(p) /\ UNCHANGED added /\ pc'[p] = "incrDelete"
    BY <1>8, <1>p, <1>t DEF DeleteRow, OnlyMoves, Goto, Local, bounds
  <2>2. \A j \in Job : /\ status'[j] \in {status[j], "DELETED"}
                       /\ status[j] = "NONE" => status'[j] = "NONE"
    BY <1>8, <1>t DEF DeleteRow, Exists, Status
  <2>q. QED
    BY <2>1, <2>2, <1>p DEF Safe, KeepsStatus, KeepsSuccess, OwnNotYet, Adding
<1>q. QED
  BY <1>p, <1>1, <1>2, <1>3, <1>4, <1>5, <1>6, <1>7, <1>8, QuietIsSafe

\* The start of a call other than AddJob
LEMMA CallIsSafe ==
    ASSUME NEW p \in Client, TypeOK, ClientCall(p), ~AddJob(p)
    PROVE  Safe(p)
<1>p. p \in Proc /\ p \notin Worker /\ p \notin Boot
  BY ProcAssumption DEF Proc
<1>t. /\ pc \in [Proc -> Label] /\ loc \in [Proc -> Locals]
      /\ status \in [Job -> Status \cup {"NONE", "DELETED"}]
  BY DEF TypeOK, ProcOK, StoreOK
<1>1. ASSUME NEW j \in Job, StopJob(p, j)
      PROVE  Safe(p)
  <2>1. OnlyMoves(p) /\ UNCHANGED <<status, added>> /\ pc'[p] \notin Adding
    BY <1>1, <1>p, <1>t DEF StopJob, Call, OnlyMoves, Goto, Local, store, Adding
  <2>2. loc'[p] = [Found(j) EXCEPT !.op = "StopJob"]
    BY <1>1, <1>p, <1>t DEF StopJob, Call, Local
  <2>3. loc'[p].st = status[j]
    BY <2>2 DEF Found, NoLoc
  <2>4. loc'[p].st \in Status
    BY <1>1, <2>3 DEF StopJob, Exists
  <2>q. QED
    BY <2>1, <2>4, <1>p DEF Safe, KeepsStatus, KeepsSuccess, OwnNotYet, Adding
<1>2. ASSUME NEW j \in Job, DeleteJob(p, j)
      PROVE  Safe(p)
  <2>1. OnlyMoves(p) /\ UNCHANGED added /\ pc'[p] = "incrDelete"
    BY <1>2, <1>p, <1>t DEF DeleteJob, Call, OnlyMoves, Goto, Local
  <2>2. status' = [status EXCEPT ![j] = "DELETED"] /\ status[j] # "NONE"
    BY <1>2 DEF DeleteJob, Exists, Status
  <2>3. \A k \in Job : /\ status'[k] \in {status[k], "DELETED"}
                       /\ status[k] = "NONE" => status'[k] = "NONE"
    BY <2>2, <1>t
  <2>q. QED
    BY <2>1, <2>3, <1>p DEF Safe, KeepsStatus, KeepsSuccess, OwnNotYet, Adding
<1>3. ASSUME ClientCall(p), ~AddJob(p), \A j \in Job : ~StopJob(p, j) /\ ~DeleteJob(p, j)
      PROVE  Quiet(p)
  <2> USE <1>p, <1>t DEF Quiet, OnlyMoves, Executing, Adding, Preparing, Goto, Local, store,
          Call
  <2>1. CASE \E j \in Job : RetryJob(p, j)
    BY <2>1 DEF RetryJob
  <2>2. CASE HoldJobTask(p)
    BY <2>2 DEF HoldJobTask
  <2>3. CASE StopAllJob(p)
    BY <2>3 DEF StopAllJob
  <2>4. CASE RetryAllJob(p)
    BY <2>4 DEF RetryAllJob
  <2>5. CASE CleanJob(p)
    BY <2>5 DEF CleanJob
  <2>6. CASE RunQueuedJob(p)
    BY <2>6 DEF RunQueuedJob
  <2>7. CASE RecalculateSummary(p)
    BY <2>7 DEF RecalculateSummary
  <2>8. CASE \E j \in Job : DeleteSelect(p, j)
    BY <2>8 DEF DeleteSelect
  <2>q. QED
    BY <1>3, <2>1, <2>2, <2>3, <2>4, <2>5, <2>6, <2>7, <2>8 DEF ClientCall
<1>q. QED
  BY <1>p, <1>1, <1>2, <1>3, QuietIsSafe

\* AddJob takes the next job, which nobody has seen.
LEMMA AddJobKeeps ==
    ASSUME TypeOK, NotYetSuccess, FreshJobs, KnownStatus, NEW p \in Client, AddJob(p)
    PROVE  NotYetSuccess' /\ FreshJobs' /\ KnownStatus' /\ UNCHANGED status
<1>p. p \in Proc /\ p \notin Worker /\ p \notin Boot
  BY ProcAssumption DEF Proc
<1>t. /\ pc \in [Proc -> Label] /\ loc \in [Proc -> Locals] /\ Job = 1..NumJobs
      /\ Worker \in SUBSET Proc /\ Client \in SUBSET Proc /\ Boot \in SUBSET Proc
      /\ added \in Nat /\ NumJobs \in Nat
      /\ \A q \in Proc : pc[q] \in Adding => loc[q].job \in Job
  BY BoundAssumption DEF TypeOK, ProcOK, BoundsOK, Job, Proc, Adding, HasJob
<1>1. added' = added + 1 /\ added < NumJobs /\ UNCHANGED status
  BY DEF AddJob, store
<1>2. CASE UNCHANGED <<pc, loc>>
  <2>1. NotYetSuccess' /\ KnownStatus'
    BY <1>1, <1>2 DEF NotYetSuccess, KnownStatus
  <2>2. ASSUME NEW q \in Client, pc'[q] \in Adding
        PROVE  loc'[q].job <= added'
    <3>1. loc[q].job \in Job /\ loc[q].job <= added
      BY <1>2, <1>t, <2>2 DEF FreshJobs
    <3>2. loc[q].job \in Nat
      BY <1>t, <3>1
    <3>q. QED
      BY <1>1, <1>2, <1>t, <3>1, <3>2
  <2>3. \A j \in Job : j > added' => status'[j] = "NONE"
    BY <1>1, <1>t DEF FreshJobs
  <2>4. FreshJobs'
    BY <1>2, <2>2, <2>3 DEF FreshJobs
  <2>q. QED
    BY <1>1, <2>1, <2>4
<1>3. CASE ~UNCHANGED <<pc, loc>>
  <2>1. OnlyMoves(p) /\ pc'[p] = "addSummary" /\ loc'[p].job = added + 1
    <3> DEFINE l == [NoLoc EXCEPT !.op = "AddJob", !.job = added + 1]
    <3>1. pc' = [pc EXCEPT ![p] = "addSummary"] /\ loc' = [loc EXCEPT ![p] = l]
      BY <1>3 DEF AddJob, Goto, Local
    <3>2. l.job = added + 1
      BY DEF NoLoc
    <3> HIDE DEF l
    <3>q. QED
      BY <1>p, <1>t, <3>1, <3>2 DEF OnlyMoves
  <2>2. status[added + 1] = "NONE"
    <3>1. added + 1 \in Job /\ added + 1 > added
      BY <1>1, <1>t
    <3>q. QED
      BY <3>1 DEF FreshJobs
  <2>3. NotYetSuccess'
    BY <1>1, <1>p, <1>t, <2>1, <2>2 DEF NotYetSuccess, OnlyMoves
  <2>4. \A q \in Client : pc'[q] \in Adding => q = p \/ loc'[q].job <= added
    BY <1>t, <2>1 DEF OnlyMoves, FreshJobs
  <2>5. FreshJobs'
    <3>1. \A j \in Job : j > added' => status'[j] = "NONE"
      BY <1>1, <1>t DEF FreshJobs
    <3>2. ASSUME NEW q \in Client, pc'[q] \in Adding
          PROVE  loc'[q].job <= added'
      <4>1. CASE q = p
        BY <1>1, <1>t, <2>1, <4>1
      <4>2. CASE q # p
        <5>1. loc'[q].job <= added /\ loc'[q].job = loc[q].job /\ loc[q].job \in Job
          BY <1>t, <2>1, <2>4, <3>2, <4>2 DEF OnlyMoves
        <5>2. loc[q].job \in Nat
          BY <1>t, <5>1
        <5>q. QED
          BY <1>1, <1>t, <5>1, <5>2
      <4>q. QED
        BY <4>1, <4>2
    <3>3. ASSUME NEW q \in Client, NEW s \in Client, pc'[q] \in Adding, pc'[s] \in Adding,
                 loc'[q].job = loc'[s].job
          PROVE  q = s
      BY <1>t, <2>1, <2>4, <3>3 DEF OnlyMoves, FreshJobs
    <3>q. QED
      BY <3>1, <3>2, <3>3 DEF FreshJobs
  <2>6. KnownStatus'
    BY <1>p, <1>t, <2>1 DEF KnownStatus, OnlyMoves
  <2>q. QED
    BY <1>1, <2>3, <2>5, <2>6
<1>q. QED
  BY <1>2, <1>3

\* prepare reads jobs that have not succeeded, and while it goes on none can.
LEMMA BootIsSafe ==
    ASSUME NEW p \in Boot, TypeOK, NotYetSuccess, BootStep(p)
    PROVE  Safe(p)
<1>p. p \in Proc /\ p \notin Worker /\ p \notin Client
  BY ProcAssumption DEF Proc
<1>t. /\ pc \in [Proc -> Label] /\ loc \in [Proc -> Locals]
      /\ status \in [Job -> Status \cup {"NONE", "DELETED"}]
  BY DEF TypeOK, ProcOK, StoreOK
<1>o. (pc'[p] \in Preparing => \A it \in loc'[p].todo : status'[it.id] # "SUCCESS")
         => OwnNotYet(p)'
  BY <1>p DEF OwnNotYet
<1>1. CASE PrepareStream(p)
  <2>1. OnlyMoves(p) /\ UNCHANGED <<status, added>>
    BY <1>1, <1>p, <1>t DEF PrepareStream, OnlyMoves, Goto, Local, store, bounds
  <2>2. loc'[p].todo = FindAllJob({"RETRYING", "QUEUEING"})
    BY <1>1, <1>p, <1>t DEF PrepareStream, Local, Locals
  <2>3. \A it \in loc'[p].todo : status'[it.id] # "SUCCESS"
    BY <2>1, <2>2 DEF FindAllJob
  <2>q. QED
    BY <2>1, <2>3, <1>o, <1>p DEF Safe, KeepsStatus, KeepsSuccess
<1>2. CASE PrepareNext(p)
  <2>1. OnlyMoves(p) /\ UNCHANGED added /\ pc[p] \in Preparing
    <3>1. CASE loc[p].todo = {}
      BY <1>2, <3>1, <1>p, <1>t DEF PrepareNext, OnlyMoves, Goto, bounds, At, Preparing
    <3>2. CASE loc[p].todo # {}
      BY <1>2, <3>2, <1>p, <1>t DEF PrepareNext, OnlyMoves, Goto, Local, bounds, At, Preparing
    <3>q. QED
      BY <3>1, <3>2
  <2>2. CASE loc[p].todo = {}
    <3>1. UNCHANGED <<status, loc>>
      BY <1>2, <2>2 DEF PrepareNext
    <3>q. QED
      BY <2>1, <2>2, <3>1, <1>o, <1>p DEF Safe, KeepsStatus, KeepsSuccess
  <2>3. CASE loc[p].todo # {}
    <3>1. PICK it \in [id : Job, st : Status] :
            /\ it \in loc[p].todo /\ loc'[p].todo = loc[p].todo \ {it}
            /\ \/ UNCHANGED status
               \/ LET n == IF Exists(it.id) THEN 1 ELSE 0
                  IN  status' = IF n = 1 THEN [status EXCEPT ![it.id] = "QUEUEING"] ELSE status
      BY <1>2, <2>3, PrepareTakes
    <3>2. loc[p] \in Locals
      BY <1>p, <1>t
    <3>3. status[it.id] # "SUCCESS"
      BY <2>1, <3>1 DEF NotYetSuccess
    <3>4. loc'[p].todo = loc[p].todo \ {it}
      BY <3>1
    <3>5. \A j \in Job : status'[j] # status[j]
            => status'[j] = "QUEUEING" /\ status[j] \notin {"SUCCESS", "NONE"}
      BY <3>1, <3>3, <1>t DEF Exists, Status
    <3>6. \A i \in loc'[p].todo : status'[i.id] # "SUCCESS"
      <4>1. \A i \in loc'[p].todo : i.id \in Job /\ status[i.id] # "SUCCESS"
        BY <2>1, <3>2, <3>4 DEF Locals, NotYetSuccess
      <4>q. QED
        BY <3>5, <4>1
    <3>q. QED
      BY <2>1, <3>5, <3>6, <1>o, <1>p DEF Safe, KeepsStatus, KeepsSuccess
  <2>q. QED
    BY <2>2, <2>3
<1>3. CASE PreparePush(p)
  <2>1. OnlyMoves(p) /\ UNCHANGED <<status, added, loc>> /\ pc[p] \in Preparing
    BY <1>3, <1>p, <1>t DEF PreparePush, OnlyMoves, Goto, bounds, At, Preparing
  <2>q. QED
    BY <2>1, <1>o, <1>p DEF Safe, KeepsStatus, KeepsSuccess, NotYetSuccess
<1>4. ASSUME BootStep(p), ~PrepareStream(p), ~PrepareNext(p), ~PreparePush(p)
      PROVE  Quiet(p)
  <2> USE <1>p
  <2> USE <1>t DEF Quiet, OnlyMoves, Executing, Adding, Preparing, Goto, Local, Return, At, store,
     bounds
  <2>1. CASE PrepareReset(p)
    BY <2>1 DEF PrepareReset
  <2>2. CASE PrepareClear(p)
    BY <2>2 DEF PrepareClear
  <2>3. CASE PrepareCount(p)
    BY <2>3 DEF PrepareCount
  <2>4. CASE PrepareSummary(p)
    BY <2>4 DEF PrepareSummary
  <2>5. CASE PrepareLoaded(p)
    BY <2>5 DEF PrepareLoaded
  <2>q. QED
    BY <1>4, <2>1, <2>2, <2>3, <2>4, <2>5 DEF BootStep
<1>q. QED
  BY <1>p, <1>1, <1>2, <1>3, <1>4, QuietIsSafe

\* The run that ends is the only one, so that no other run has its job, and prepare is over.
LEMMA FinishKeeps ==
    ASSUME OneRuntime, TypeOK, OneRunPerRuntime, BootAlone, NotYetSuccess, FreshJobs, KnownStatus,
           NEW p \in Worker, ExecFinish(p)
    PROVE  NotYetSuccess' /\ FreshJobs' /\ KnownStatus' /\ KeepsSuccess
<1>p. p \in Proc /\ p \notin Client /\ p \notin Boot
  BY ProcAssumption DEF Proc
<1>t. /\ pc \in [Proc -> Label] /\ loc \in [Proc -> Locals]
      /\ status \in [Job -> Status \cup {"NONE", "DELETED"}]
      /\ Worker \in SUBSET Proc /\ Client \in SUBSET Proc /\ Boot \in SUBSET Proc
      /\ \A q \in Proc : pc[q] \in HasJob => loc[q].job \in Job
      /\ Adding \in SUBSET HasJob
  BY DEF TypeOK, ProcOK, StoreOK, Proc, Adding, HasJob
<1>1. OnlyMoves(p) /\ UNCHANGED added /\ pc[p] = "finish" /\ pc'[p] = "incrFinish"
  BY <1>p, <1>t DEF ExecFinish, OnlyMoves, Goto, Local, bounds, At
<1>2. loc[p].job \in Job /\ status[loc[p].job] # "SUCCESS"
  BY <1>1, <1>p, <1>t DEF HasJob, NotYetSuccess, Executing
<1>3. /\ \A j \in Job : j # loc[p].job => status'[j] = status[j]
      /\ \A j \in Job : status[j] = "NONE" => status'[j] = "NONE"
  BY <1>2, <1>t DEF ExecFinish, Exists, Status
<1>4. \A q \in Worker : pc'[q] \notin Executing
  BY <1>1, <1>p, <1>t DEF OnlyMoves, OneRunPerRuntime, OneRuntime, Executing, InRun
<1>5. \A b \in Boot : pc'[b] \notin Preparing
  BY <1>1, <1>p, <1>t DEF OnlyMoves, BootAlone, Preparing, PrepareLabel
<1>6. \A q \in Client : pc'[q] = pc[q] /\ loc'[q] = loc[q]
  BY <1>1, <1>p, <1>t DEF OnlyMoves
<1>7. NotYetSuccess'
  BY <1>3, <1>4, <1>5, <1>6, <1>t DEF NotYetSuccess
<1>8. FreshJobs'
  BY <1>1, <1>3, <1>6, <1>t DEF FreshJobs
<1>9. KnownStatus'
  BY <1>6 DEF KnownStatus
<1>10. KeepsSuccess
  BY <1>2, <1>3 DEF KeepsSuccess
<1>q. QED
  BY <1>7, <1>8, <1>9, <1>10

\* A crash brings the runtime back to its prepare; the table is as it was.
LEMMA RuntimeKeepsSuccess ==
    ASSUME OneRuntime, TypeOK, SuccessInv, NEW r \in Runtime, TickerFires(r) \/ Crash(r)
    PROVE  SuccessInv' /\ KeepsSuccess
<1>t. /\ Worker \in SUBSET Proc /\ Client \in SUBSET Proc /\ Boot \in SUBSET Proc
      /\ armed \in [Runtime -> BOOLEAN] /\ tick \in [Runtime -> BOOLEAN]
      /\ Home \in [Proc -> Runtime]
  BY ProcAssumption DEF TypeOK, EngineOK, Proc
<1>1. CASE TickerFires(r)
  <2>1. UNCHANGED <<pc, loc, status, added, armed>>
    BY <1>1 DEF TickerFires, store, bounds
  <2>2. armed[r] /\ tick' = [tick EXCEPT ![r] = TRUE]
    BY <1>1 DEF TickerFires
  <2>3. BootAlone'
    BY <1>t, <2>1, <2>2 DEF SuccessInv, BootAlone
  <2>q. QED
    BY <2>1, <2>3 DEF SuccessInv, NotYetSuccess, FreshJobs, KnownStatus, KeepsSuccess
<1>2. CASE Crash(r)
  <2>1. UNCHANGED <<status, added>>
    BY <1>2 DEF Crash, store
  <2>2. /\ armed' = [armed EXCEPT ![r] = FALSE] /\ tick' = [tick EXCEPT ![r] = FALSE]
        /\ \A p \in Proc : IF Home[p] # r
                           THEN pc'[p] = pc[p] /\ loc'[p] = loc[p]
                           ELSE pc'[p] = IF p \in Boot THEN "prepReset" ELSE "idle"
    BY <1>2 DEF Crash
  <2>3. BootAlone'
    <3> SUFFICES ASSUME NEW b \in Boot, pc'[b] \in PrepareLabel
                 PROVE  /\ \A p \in Proc \ {b} : pc'[p] = "idle"
                        /\ ~armed'[Home[b]] /\ ~tick'[Home[b]]
      BY DEF BootAlone
    <3>1. CASE Home[b] = r
      BY <1>t, <2>2, <3>1, BootAssumption DEF OneRuntime
    <3>2. CASE Home[b] # r
      BY <1>t, <2>2, <3>2 DEF OneRuntime, SuccessInv, BootAlone
    <3>q. QED
      BY <3>1, <3>2
  <2>4. NotYetSuccess' /\ FreshJobs' /\ KnownStatus'
    BY <1>t, <2>1, <2>2, ProcAssumption DEF SuccessInv, NotYetSuccess, FreshJobs, KnownStatus,
       Executing, Adding, Preparing
  <2>q. QED
    BY <2>1, <2>3, <2>4 DEF SuccessInv, KeepsSuccess
<1>q. QED
  BY <1>1, <1>2

\* Every step keeps the invariant and the jobs that succeeded.
LEMMA SuccessStep ==
    ASSUME OneRuntime, ~EarlyCalls, TypeOK, OneRunPerRuntime, SuccessInv, [Next]_vars
    PROVE  SuccessInv' /\ KeepsSuccess
<1>t. pc \in [Proc -> Label] /\ loc \in [Proc -> Locals]
  BY DEF TypeOK, ProcOK
<1>i. BootAlone /\ NotYetSuccess /\ FreshJobs /\ KnownStatus
  BY DEF SuccessInv
<1>s. ASSUME NEW p \in Proc, StepsAside(p), Safe(p)
      PROVE  SuccessInv' /\ KeepsSuccess
  BY <1>i, <1>s, StepsAsideKeepsAlone, SafeKeeps DEF SuccessInv, Safe
<1>1. CASE UNCHANGED vars
  BY <1>1 DEF vars, store, engine, bounds, SuccessInv, BootAlone, NotYetSuccess, FreshJobs,
     KnownStatus, KeepsSuccess
<1>2. ASSUME NEW p \in Worker, WorkerStep(p) PROVE SuccessInv' /\ KeepsSuccess
  <2>1. p \in Proc /\ StepsAside(p)
    BY <1>2, <1>t, WorkerStepsAside DEF Proc
  <2>2. CASE ExecFinish(p)
    BY <1>i, <2>1, <2>2, FinishKeeps, StepsAsideKeepsAlone DEF SuccessInv
  <2>3. CASE ~ExecFinish(p)
    BY <1>2, <1>i, <1>s, <2>1, <2>3, WorkerIsSafe
  <2>q. QED
    BY <2>2, <2>3
<1>3. ASSUME NEW p \in Client, ClientStep(p) \/ ClientCall(p) PROVE SuccessInv' /\ KeepsSuccess
  <2>1. p \in Proc /\ StepsAside(p)
    BY <1>3, <1>t, ClientStepsAside DEF Proc
  <2>2. CASE AddJob(p)
    BY <1>i, <2>1, <2>2, AddJobKeeps, StepsAsideKeepsAlone DEF SuccessInv, KeepsSuccess
  <2>3. CASE ~AddJob(p)
    BY <1>3, <1>i, <1>s, <2>1, <2>3, ClientIsSafe, CallIsSafe
  <2>q. QED
    BY <2>2, <2>3
<1>4. ASSUME NEW p \in Boot, BootStep(p) PROVE SuccessInv' /\ KeepsSuccess
  <2>1. p \in Proc /\ StepsAside(p)
    BY <1>4, <1>t, BootStepsAside DEF Proc
  <2>q. QED
    BY <1>4, <1>i, <1>s, <2>1, BootIsSafe
<1>5. ASSUME NEW p \in Proc, CommonStep(p) PROVE SuccessInv' /\ KeepsSuccess
  BY <1>5, <1>t, <1>i, <1>s, CommonStepsAside, CommonIsSafe
<1>6. ASSUME NEW r \in Runtime, TickerFires(r) \/ Crash(r) PROVE SuccessInv' /\ KeepsSuccess
  BY <1>6, RuntimeKeepsSuccess
<1>q. QED
  BY <1>1, <1>2, <1>3, <1>4, <1>5, <1>6 DEF Next

\* The invariant holds in one runtime whose clients wait for prepare.
LEMMA SuccessHolds ==
    ASSUME OneRuntime, ~EarlyCalls
    PROVE  Spec => []SuccessInv
<1>1. Init => SuccessInv
  <2> SUFFICES ASSUME Init PROVE SuccessInv
    OBVIOUS
  <2>1. /\ Worker \in SUBSET Proc /\ Client \in SUBSET Proc /\ Boot \in SUBSET Proc
        /\ Home \in [Proc -> Runtime]
    BY ProcAssumption DEF Proc
  <2>2. \A p \in Proc : pc[p] = IF p \in Boot THEN "prepReset" ELSE "idle"
    BY DEF Init
  <2>3. BootAlone
    BY <2>1, <2>2, BootAssumption DEF Init, BootAlone, OneRuntime
  <2>4. NotYetSuccess /\ FreshJobs /\ KnownStatus
    BY <2>1, <2>2, ProcAssumption DEF Init, NotYetSuccess, FreshJobs, KnownStatus, Executing,
       Adding, Preparing
  <2>q. QED
    BY <2>3, <2>4 DEF SuccessInv
<1>2. TypeOK /\ OneRunPerRuntime /\ SuccessInv /\ [Next]_vars => SuccessInv'
  BY SuccessStep
<1>q. QED
  BY <1>1, <1>2, TypeCorrect, OneRun, PTL DEF Spec

(***************************************************************************)
(* In one runtime whose clients wait for prepare, for any number of        *)
(* goroutines, jobs and crashes and for all calls of the API: a job that   *)
(* succeeded is not run again.  With a second runtime, or a client that    *)
(* calls while prepare still goes through the jobs it has read, a run and  *)
(* prepare may have the same job.                                          *)
(***************************************************************************)
THEOREM SuccessStays ==
    ASSUME OneRuntime, ~EarlyCalls
    PROVE  Spec => SuccessIsFinal
<1>1. TypeOK /\ OneRunPerRuntime /\ SuccessInv /\ [Next]_vars => [KeepsSuccess]_vars
  BY SuccessStep
<1>2. SuccessIsFinal <=> [][KeepsSuccess]_vars
  BY PTL DEF SuccessIsFinal, KeepsSuccess
<1>q. QED
  BY <1>1, <1>2, TypeCorrect, OneRun, SuccessHolds, PTL DEF Spec

-----------------------------------------------------------------------------
\* The counters of the summary

\* The elements that stand for the values of g above and below zero, one for each unit
Above(g) == UNION {{p} \X (1..g[p]) : p \in Proc}
Below(g) == UNION {{p} \X (1..(-g[p])) : p \in Proc}

\* The sum of the values of g
Net(g) == Cardinality(Above(g)) - Cardinality(Below(g))

\* What the goroutines have still to add to the counter of s
Owed(s) == [p \in Proc |-> loc[p].incr[s]]

\* Where a goroutine has changed statuses and not yet called IncrementSummary
Owing ==
    {"incrMark", "incrFinish", "incrRetry", "incrPrepare", "incrUnhold", "incrStopAll",
     "incrStop", "incrRetryAll", "incrAdd", "incrDelete", "stopAllRetrying", "stopAllUnhold",
     "stopAllLoaded", "retryAllStopped", "retryAllLoaded", "cleanStopped", "cleanLoaded",
     "prepSummary"}

\* Where prepare has not counted the jobs, or not saved the counts
Recounting == {"prepReset", "prepClear", "prepCount", "prepSummary"}

(***************************************************************************)
(* The calls that leave a running job alone and move every job by the      *)
(* status it has.  In SQLPersistent these are the ones that need a single  *)
(* statement: between two statements of the others a status may change.    *)
(***************************************************************************)
OrderlyCalls ==
    /\ Api \cap {"RetryJob", "StopJob", "StopAllJob", "RecalculateSummary"} = {}
    /\ DeleteAfterSuccess => "DeleteJob" \notin Api
    /\ SQL => Api \subseteq {"CleanJob", "RunQueuedJob"}

\* The labels of the calls on all jobs that go to UpdateJob
BulkLabel ==
    {"holdFlip", "unholdLoading", "unholdStream", "unholdPush", "unholdSave", "retryAllLoading",
     "retryAllStream", "retryAllPush", "retryAllFailure", "retryAllStopped"}

\* The labels of the other calls at which they change statuses or counters
Disorder ==
    {"retryUnlock", "retrySave", "stopTask", "stopSave", "stopAllLoading", "stopAllHold",
     "stopAllTask", "stopAllQueueing", "stopAllRetrying", "recalculate", "deleteRow"}
        \cup (IF SQL THEN BulkLabel ELSE {})

NoDisorder == \A p \in Proc : pc[p] \notin Disorder

\* Only who has changed a status owes something, and prepare owes the counts.
OwesNothing ==
    /\ \A p \in Proc : pc[p] \notin Owing => loc[p].incr = NoIncr
    /\ \A p \in Boot : pc[p] = "prepSummary" => loc[p].incr = Counts

\* A job may be deleted while it is queued or runs, unless a job that succeeds is deleted anyway.
MayVanish == IF "DeleteJob" \in Api /\ ~SQL THEN {"DELETED"} ELSE {}

\* A run and a prepare find their jobs with the statuses they have read, or deleted.
StatusAsRead ==
    /\ \A p \in Worker : pc[p] = "mark" => status[loc[p].job] \in {"QUEUEING"} \cup MayVanish
    /\ \A p \in Worker : pc[p] \in {"incrMark", "handle", "requeue", "finish"} =>
          status[loc[p].job] \in {"RETRYING"} \cup MayVanish
    /\ \A p \in Worker : pc[p] \in {"requeue", "finish"} =>
          loc[p].st \in {"QUEUEING", "SUCCESS", "FAILURE"}
    /\ \A p \in Boot : pc[p] \in Preparing => \A it \in loc[p].todo : status[it.id] = it.st

\* The counters and what the goroutines owe make the numbers of jobs, unless prepare recounts.
Balanced ==
    (\A p \in Boot : pc[p] \notin Recounting) =>
        \A s \in Status : total[s] + Net(Owed(s)) = Counts[s]

\* A run and a prepare have counted the one job that they update.
CountedOne == SQL => \A p \in Proc : loc[p].matched \in {Uncounted, 1}

\* Only a run marks a job and finishes with it, only prepare goes through the jobs it has read.
OwnPlace ==
    \A p \in Proc : /\ pc[p] \in {"mark", "finish"} => p \in Worker
                    /\ pc[p] = "prepNext" => p \in Boot

SummaryInv == NoDisorder /\ OwesNothing /\ StatusAsRead /\ CountedOne /\ OwnPlace /\ Balanced

\* The elements of one goroutine
LEMMA Units ==
    ASSUME NEW p, NEW n \in Int
    PROVE  /\ IsFiniteSet({p} \X (1..n))
           /\ Cardinality({p} \X (1..n)) = IF n > 0 THEN n ELSE 0
<1>1. IsFiniteSet(1..n) /\ Cardinality(1..n) = IF n > 0 THEN n ELSE 0
  BY FS_Interval
<1>2. IsFiniteSet({p}) /\ Cardinality({p}) = 1
  BY FS_Singleton
<1>3. /\ IsFiniteSet({p} \X (1..n))
      /\ Cardinality({p} \X (1..n)) = Cardinality({p}) * Cardinality(1..n)
  BY <1>1, <1>2, FS_Product
<1>q. QED
  BY <1>1, <1>2, <1>3

\* The elements of finitely many goroutines are finitely many.
LEMMA UnitsFinite ==
    ASSUME NEW S, IsFiniteSet(S), NEW g \in [S -> Int]
    PROVE  IsFiniteSet(UNION {{p} \X (1..g[p]) : p \in S})
<1> DEFINE f == [p \in S |-> {p} \X (1..g[p])]
           T == {{p} \X (1..g[p]) : p \in S}
<1>1. f \in Surjection(S, T)
  BY DEF Surjection
<1>2. IsFiniteSet(T)
  BY <1>1, FS_Surjection
<1>3. ASSUME NEW U \in T PROVE IsFiniteSet(U)
  <2>1. PICK p \in S : U = {p} \X (1..g[p])
    OBVIOUS
  <2>2. g[p] \in Int
    OBVIOUS
  <2>q. QED
    BY <2>1, <2>2, Units
<1>q. QED
  BY <1>2, <1>3, FS_UNION

\* When the value of one goroutine changes, the number of elements changes by what it has more.
LEMMA AboveChange ==
    ASSUME NEW g \in [Proc -> Int], NEW h \in [Proc -> Int], NEW p \in Proc,
           \A q \in Proc \ {p} : h[q] = g[q]
    PROVE  /\ Cardinality(Above(g)) \in Int /\ Cardinality(Above(h)) \in Int
           /\ Cardinality(Above(h)) = Cardinality(Above(g))
                 + (IF h[p] > 0 THEN h[p] ELSE 0) - (IF g[p] > 0 THEN g[p] ELSE 0)
<1> DEFINE R == UNION {{q} \X (1..g[q]) : q \in Proc \ {p}}
           G == {p} \X (1..g[p])
           H == {p} \X (1..h[p])
<1>1. Above(g) = R \cup G /\ Above(h) = R \cup H
  BY DEF Above
<1>2. R \cap G = {} /\ R \cap H = {}
  OBVIOUS
<1>3. IsFiniteSet(R)
  <2>1. IsFiniteSet(Proc \ {p})
    BY FiniteAssumption, FS_RemoveElement
  <2> DEFINE S == Proc \ {p}
             f == [q \in S |-> g[q]]
  <2>2. f \in [S -> Int] /\ R = UNION {{q} \X (1..f[q]) : q \in S}
    OBVIOUS
  <2>3. IsFiniteSet(S)
    BY <2>1
  <2> HIDE DEF f, S, R
  <2>4. IsFiniteSet(UNION {{q} \X (1..f[q]) : q \in S})
    BY <2>2, <2>3, UnitsFinite
  <2>q. QED
    BY <2>2, <2>4
<1>4. /\ IsFiniteSet(G) /\ Cardinality(G) = IF g[p] > 0 THEN g[p] ELSE 0
      /\ IsFiniteSet(H) /\ Cardinality(H) = IF h[p] > 0 THEN h[p] ELSE 0
  BY Units
<1> HIDE DEF R, G, H
<1>5. Cardinality(R \cap G) = 0 /\ Cardinality(R \cap H) = 0
  BY <1>2, FS_EmptySet
<1>6. Cardinality(R \cup G) = Cardinality(R) + Cardinality(G) - Cardinality(R \cap G)
  BY <1>3, <1>4, FS_Union
<1>7. Cardinality(R \cup H) = Cardinality(R) + Cardinality(H) - Cardinality(R \cap H)
  BY <1>3, <1>4, FS_Union
<1>8. Cardinality(R) \in Nat
  BY <1>3, FS_CardinalityType
<1>q. QED
  BY <1>1, <1>4, <1>5, <1>6, <1>7, <1>8

\* The sum changes by what the value of one goroutine changes.
LEMMA NetChange ==
    ASSUME NEW g \in [Proc -> Int], NEW h \in [Proc -> Int], NEW p \in Proc,
           \A q \in Proc \ {p} : h[q] = g[q]
    PROVE  Net(g) \in Int /\ Net(h) \in Int /\ Net(h) = Net(g) + h[p] - g[p]
<1> DEFINE mg == [q \in Proc |-> -g[q]]
           mh == [q \in Proc |-> -h[q]]
<1>1. Below(g) = Above(mg) /\ Below(h) = Above(mh)
  BY DEF Below, Above
<1>2. mg \in [Proc -> Int] /\ mh \in [Proc -> Int] /\ mg[p] = -g[p] /\ mh[p] = -h[p]
  OBVIOUS
<1>3. \A q \in Proc \ {p} : mh[q] = mg[q]
  OBVIOUS
<1> HIDE DEF mg, mh
<1>4. /\ Cardinality(Above(mg)) \in Int /\ Cardinality(Above(mh)) \in Int
      /\ Cardinality(Above(mh)) = Cardinality(Above(mg))
            + (IF mh[p] > 0 THEN mh[p] ELSE 0) - (IF mg[p] > 0 THEN mg[p] ELSE 0)
  BY <1>2, <1>3, AboveChange
<1>5. /\ Cardinality(Above(g)) \in Int /\ Cardinality(Above(h)) \in Int
      /\ Cardinality(Above(h)) = Cardinality(Above(g))
            + (IF h[p] > 0 THEN h[p] ELSE 0) - (IF g[p] > 0 THEN g[p] ELSE 0)
  BY AboveChange
<1>6. h[p] \in Int /\ g[p] \in Int
  OBVIOUS
<1>q. QED
  BY <1>1, <1>2, <1>4, <1>5, <1>6 DEF Net

\* A sum of zeros
LEMMA NetOfZeros ==
    ASSUME NEW g \in [Proc -> Int], \A p \in Proc : g[p] = 0
    PROVE  Net(g) = 0
<1>1. Above(g) = {} /\ Below(g) = {}
  BY DEF Above, Below
<1>q. QED
  BY <1>1, FS_EmptySet DEF Net

\* The counts, when one job gets another status
LEMMA CountsMove ==
    ASSUME NEW j \in Job, \A k \in Job \ {j} : status'[k] = status[k], NEW s \in Status
    PROVE  Counts'[s] = Counts[s] + (IF status'[j] = s THEN 1 ELSE 0)
                                  - (IF status[j] = s THEN 1 ELSE 0)
<1> DEFINE A == {k \in Job : status[k] \in {s}}
           B == {k \in Job : status'[k] \in {s}}
           R == {k \in Job \ {j} : status[k] \in {s}}
<1>1. /\ R \in SUBSET Job /\ j \notin R
      /\ A = IF status[j] = s THEN R \cup {j} ELSE R
      /\ B = IF status'[j] = s THEN R \cup {j} ELSE R
  OBVIOUS
<1>2. Counts[s] = Cardinality(A) /\ Counts'[s] = Cardinality(B)
  BY DEF Counts, CountAllJob
<1>3. IsFiniteSet(Job)
  BY JobsAreFinite
<1>4. IsFiniteSet(R) /\ Cardinality(R) \in Nat
  BY <1>1, <1>3, FS_Subset, FS_CardinalityType
<1> HIDE DEF A, B, R
<1>5. Cardinality(R \cup {j}) = Cardinality(R) + 1
  BY <1>1, <1>4, FS_AddElement
<1>6. Cardinality(A) = Cardinality(R) + (IF status[j] = s THEN 1 ELSE 0)
  BY <1>1, <1>4, <1>5
<1>7. Cardinality(B) = Cardinality(R) + (IF status'[j] = s THEN 1 ELSE 0)
  BY <1>1, <1>4, <1>5
<1>q. QED
  BY <1>2, <1>4, <1>6, <1>7

\* The jobs with one status
Having(s) == {k \in Job : status[k] = s}

\* The counts, when all jobs with one status get another
LEMMA CountsMoveAll ==
    ASSUME NEW from \in Status, NEW to, from # to,
           \A k \in Job : status'[k] = IF status[k] = from THEN to ELSE status[k],
           NEW s \in Status
    PROVE  /\ Cardinality(Having(from)) \in Int
           /\ Counts'[s] = Counts[s] + Moved(from, to, Cardinality(Having(from)),
                                                         Cardinality(Having(from)))[s]
<1> DEFINE n == Cardinality(Having(from))
           A == {k \in Job : status[k] = s}
           B == {k \in Job : status'[k] = s}
           F == {k \in Job : status[k] = from}
<1>1. Counts[s] = Cardinality(A) /\ Counts'[s] = Cardinality(B)
  <2>1. A = {k \in Job : status[k] \in {s}} /\ B = {k \in Job : status'[k] \in {s}}
    OBVIOUS
  <2>q. QED
    BY <2>1 DEF Counts, CountAllJob
<1>2. A \in SUBSET Job /\ B \in SUBSET Job /\ F \in SUBSET Job
  OBVIOUS
<1>3. IsFiniteSet(Job)
  BY JobsAreFinite
<1>4. IsFiniteSet(A) /\ IsFiniteSet(F)
  BY <1>2, <1>3, FS_Subset
<1>5. Cardinality(A) \in Nat /\ Cardinality(F) \in Nat /\ n = Cardinality(F)
  BY <1>4, FS_CardinalityType DEF Having
<1> SUFFICES n \in Int /\ Counts'[s] = Counts[s] + Moved(from, to, n, n)[s]
  OBVIOUS
<1> HIDE DEF n
<1>6. Moved(from, to, n, n)[s] = (IF s = to THEN n ELSE 0) - (IF s = from THEN n ELSE 0)
  BY DEF Moved
<1>7. CASE s = from
  <2>1. B = {} /\ A = F
    BY <1>7
  <2>2. Cardinality(B) = 0 /\ Cardinality(A) = Cardinality(F)
    BY <2>1, FS_EmptySet
  <2> HIDE DEF A, B, F
  <2>q. QED
    BY <1>1, <1>5, <1>6, <1>7, <2>2
<1>8. CASE s = to
  <2>1. B = A \cup F /\ A \cap F = {}
    BY <1>8
  <2> HIDE DEF A, B, F
  <2>2. Cardinality(A \cap F) = 0
    BY <2>1, FS_EmptySet
  <2>3. Cardinality(A \cup F) = Cardinality(A) + Cardinality(F) - Cardinality(A \cap F)
    BY <1>4, FS_Union
  <2>q. QED
    BY <1>1, <1>5, <1>6, <1>8, <2>1, <2>2, <2>3
<1>9. CASE s # from /\ s # to
  <2>1. B = A
    BY <1>9
  <2>q. QED
    BY <1>1, <1>5, <1>6, <1>9, <2>1
<1>q. QED
  BY <1>7, <1>8, <1>9

\* What p owes changes by as much as the counters lag behind.
Balances(p) ==
    \A s \in Status :
       total'[s] + loc'[p].incr[s] - Counts'[s] = total[s] + loc[p].incr[s] - Counts[s]

\* StatusAsRead, for p alone
OwnAsRead(p) ==
    /\ p \in Worker /\ pc[p] = "mark" => status[loc[p].job] \in {"QUEUEING"} \cup MayVanish
    /\ p \in Worker /\ pc[p] \in {"incrMark", "handle", "requeue", "finish"} =>
          status[loc[p].job] \in {"RETRYING"} \cup MayVanish
    /\ p \in Worker /\ pc[p] \in {"requeue", "finish"} =>
          loc[p].st \in {"QUEUEING", "SUCCESS", "FAILURE"}
    /\ p \in Boot /\ pc[p] \in Preparing => \A it \in loc[p].todo : status[it.id] = it.st

\* A step of p, neither in a run nor in prepare, leaves the jobs that others are busy with.
KeepsBusy(p) ==
    \/ p \in Worker /\ pc[p] \in InRun
    \/ p \in Boot /\ pc[p] \in PrepareLabel
    \/ \A j \in Job :
          /\ status[j] \in {"QUEUEING", "RETRYING"} => status'[j] \in {status[j]} \cup MayVanish
          /\ status[j] = "DELETED" => status'[j] = "DELETED"

\* A step of p that keeps the books
Accounts(p) ==
    /\ OnlyMoves(p) /\ KeepsBusy(p) /\ OwnAsRead(p)'
    /\ pc'[p] \notin Disorder
    /\ SQL => loc'[p].matched \in {Uncounted, 1}
    /\ pc'[p] \in {"mark", "finish"} => p \in Worker
    /\ pc'[p] = "prepNext" => p \in Boot
    /\ pc'[p] \notin Owing => loc'[p].incr = NoIncr
    /\ p \in Boot /\ pc'[p] = "prepSummary" => loc'[p].incr = Counts'
    /\ IF p \in Boot /\ pc[p] \in Recounting
       THEN pc'[p] \notin Recounting =>
               pc'[p] \notin Owing /\ \A s \in Status : total'[s] = Counts'[s]
       ELSE Balances(p)

\* The increments, the counters and the counts are numbers, before and after a step.
LEMMA IncrIsInt ==
    ASSUME TypeOK, TypeOK', NEW s \in Status
    PROVE  /\ \A p \in Proc : loc[p].incr[s] \in Int /\ loc'[p].incr[s] \in Int
           /\ Owed(s) \in [Proc -> Int] /\ total[s] \in Int /\ Counts[s] \in Int
           /\ Owed(s)' \in [Proc -> Int] /\ total'[s] \in Int /\ Counts'[s] \in Int
           /\ NoIncr[s] = 0
<1>1. \A p \in Proc : loc[p].incr[s] \in Int /\ loc'[p].incr[s] \in Int
  BY DEF TypeOK, ProcOK, Locals
<1>2. Owed(s) \in [Proc -> Int] /\ Owed(s)' \in [Proc -> Int]
  BY <1>1 DEF Owed
<1>3. total[s] \in Int /\ total'[s] \in Int /\ NoIncr[s] = 0
  BY DEF TypeOK, StoreOK, NoIncr
<1>4. Counts[s] \in Int
  BY CountsType
<1>5. Counts'[s] \in Int
  <2>1. Cardinality({j \in Job : status'[j] \in {s}}) \in Nat
    BY JobsAreCounted
  <2>q. QED
    BY <2>1 DEF Counts, CountAllJob
<1>q. QED
  BY <1>1, <1>2, <1>3, <1>4, <1>5

\* Such a step keeps the invariant.
LEMMA AccountsKeeps ==
    ASSUME OneRuntime, TypeOK, TypeOK', OneRunPerRuntime, BootAlone, SummaryInv, NEW p \in Proc,
           StepsAside(p), Accounts(p)
    PROVE  SummaryInv'
<1>t. /\ Worker \in SUBSET Proc /\ Boot \in SUBSET Proc /\ Worker \cap Boot = {}
      /\ loc \in [Proc -> Locals] /\ \A q \in Proc : pc[q] \in HasJob => loc[q].job \in Job
  BY ProcAssumption DEF Proc, TypeOK, ProcOK
<1>b. \A b \in Boot : pc[b] \in PrepareLabel => p = b
  BY NobodyElse
<1>1. NoDisorder'
  BY DEF SummaryInv, NoDisorder, Accounts, OnlyMoves
<1>2. OwesNothing'
  <2>1. \A q \in Proc : pc'[q] \notin Owing => loc'[q].incr = NoIncr
    BY DEF SummaryInv, OwesNothing, Accounts, OnlyMoves
  <2>2. ASSUME NEW q \in Boot, pc'[q] = "prepSummary"
        PROVE  loc'[q].incr = Counts'
    <3>1. q = p
      BY <1>t, <1>b, <2>2 DEF Accounts, OnlyMoves, PrepareLabel
    <3>q. QED
      BY <2>2, <3>1 DEF Accounts
  <2>q. QED
    BY <2>1, <2>2 DEF OwesNothing
<1>3. StatusAsRead'
  <2>1. ASSUME NEW q \in Worker, q # p,
               pc'[q] \in {"mark", "incrMark", "handle", "requeue", "finish"}
        PROVE  /\ pc'[q] = pc[q] /\ loc'[q] = loc[q]
               /\ status[loc[q].job] \in {"QUEUEING", "RETRYING"} =>
                     status'[loc[q].job] \in {status[loc[q].job]} \cup MayVanish
               /\ status[loc[q].job] = "DELETED" => status'[loc[q].job] = "DELETED"
    <3>1. pc'[q] = pc[q] /\ loc'[q] = loc[q] /\ q \in Proc
      BY <1>t, <2>1 DEF Accounts, OnlyMoves
    <3>2. loc[q].job \in Job
      BY <1>t, <2>1, <3>1 DEF HasJob
    <3>3. ~(p \in Worker /\ pc[p] \in InRun)
      BY <2>1, <3>1 DEF OneRunPerRuntime, OneRuntime, InRun
    <3>4. ~(p \in Boot /\ pc[p] \in PrepareLabel)
      BY <1>t, <2>1, <3>1 DEF BootAlone
    <3>q. QED
      BY <3>1, <3>2, <3>3, <3>4 DEF Accounts, KeepsBusy
  <2>2. \A q \in Worker : pc'[q] = "mark" => status'[loc'[q].job] \in {"QUEUEING"} \cup MayVanish
    BY <1>t, <2>1 DEF SummaryInv, StatusAsRead, Accounts, OwnAsRead, MayVanish
  <2>3. \A q \in Worker : pc'[q] \in {"incrMark", "handle", "requeue", "finish"} =>
           status'[loc'[q].job] \in {"RETRYING"} \cup MayVanish
    BY <1>t, <2>1 DEF SummaryInv, StatusAsRead, Accounts, OwnAsRead, MayVanish
  <2>4. \A q \in Worker : pc'[q] \in {"requeue", "finish"} =>
           loc'[q].st \in {"QUEUEING", "SUCCESS", "FAILURE"}
    BY <1>t, <2>1 DEF SummaryInv, StatusAsRead, Accounts, OwnAsRead
  <2>5. ASSUME NEW q \in Boot, pc'[q] \in Preparing
        PROVE  \A it \in loc'[q].todo : status'[it.id] = it.st
    <3>1. q = p
      BY <1>t, <1>b, <2>5 DEF Accounts, OnlyMoves, Preparing, PrepareLabel
    <3>q. QED
      BY <2>5, <3>1 DEF Accounts, OwnAsRead
  <2>q. QED
    BY <2>2, <2>3, <2>4, <2>5 DEF StatusAsRead
<1>4. Balanced'
  <2> SUFFICES ASSUME \A b \in Boot : pc'[b] \notin Recounting, NEW s \in Status
               PROVE  total'[s] + Net(Owed(s)') = Counts'[s]
    BY DEF Balanced
  <2>t. /\ Owed(s) \in [Proc -> Int] /\ total[s] \in Int /\ Counts[s] \in Int /\ NoIncr[s] = 0
        /\ Owed(s)' \in [Proc -> Int] /\ total'[s] \in Int /\ Counts'[s] \in Int
        /\ loc[p].incr[s] \in Int /\ loc'[p].incr[s] \in Int
    BY IncrIsInt
  <2>1. CASE p \in Boot /\ pc[p] \in Recounting
    <3>1. total'[s] = Counts'[s]
      BY <2>1 DEF Accounts
    <3>2. \A q \in Proc : loc'[q].incr = NoIncr
      BY <1>2, <1>t, <2>1 DEF OwesNothing, BootAlone, Accounts, OnlyMoves, Recounting, PrepareLabel,
         Owing
    <3>3. \A q \in Proc : Owed(s)'[q] = 0
      BY <2>t, <3>2 DEF Owed
    <3>4. Net(Owed(s)') = 0
      BY <2>t, <3>3, NetOfZeros
    <3>q. QED
      BY <2>t, <3>1, <3>4
  <2>2. CASE ~(p \in Boot /\ pc[p] \in Recounting)
    <3>1. \A b \in Boot : pc[b] \notin Recounting
      BY <1>b, <2>2 DEF Recounting, PrepareLabel
    <3>2. total[s] + Net(Owed(s)) = Counts[s]
      BY <3>1 DEF SummaryInv, Balanced
    <3>3. total'[s] + loc'[p].incr[s] - Counts'[s] = total[s] + loc[p].incr[s] - Counts[s]
      BY <2>2 DEF Accounts, Balances
    <3>4. \A q \in Proc \ {p} : Owed(s)'[q] = Owed(s)[q]
      BY DEF Owed, Accounts, OnlyMoves
    <3>5. Owed(s)'[p] = loc'[p].incr[s] /\ Owed(s)[p] = loc[p].incr[s]
      BY DEF Owed
    <3>6. /\ Net(Owed(s)) \in Int /\ Net(Owed(s)') \in Int
          /\ Net(Owed(s)') = Net(Owed(s)) + Owed(s)'[p] - Owed(s)[p]
      BY <2>t, <3>4, NetChange
    <3>q. QED
      BY <2>t, <3>2, <3>3, <3>5, <3>6
  <2>q. QED
    BY <2>1, <2>2
<1>5. CountedOne' /\ OwnPlace'
  BY DEF SummaryInv, CountedOne, OwnPlace, Accounts, OnlyMoves
<1>q. QED
  BY <1>1, <1>2, <1>3, <1>4, <1>5 DEF SummaryInv

\* A step of p that changes no status and no counter and owes nothing, before and after
Calm(p) ==
    /\ OnlyMoves(p) /\ UNCHANGED <<status, total>>
    /\ loc'[p].incr \in {loc[p].incr, NoIncr}
    /\ loc'[p].matched \in {loc[p].matched, Uncounted}
    /\ pc[p] \notin Owing
    /\ pc[p] \in Recounting => pc'[p] \in Recounting
    /\ pc'[p] \notin Owing \cup Disorder \cup Preparing
    /\ pc'[p] \notin {"mark", "incrMark", "handle", "requeue", "finish"}

\* Such a step keeps the books.
LEMMA CalmAccounts ==
    ASSUME NEW p \in Proc, OwesNothing, CountedOne, Calm(p)
    PROVE  Accounts(p)
<1>1. loc[p].incr = NoIncr /\ loc'[p].incr = NoIncr
  BY DEF Calm, OwesNothing
<1>2. UNCHANGED Counts
  BY DEF Calm, Counts, CountAllJob
<1>3. Balances(p)
  BY <1>1, <1>2 DEF Balances, Calm
<1>4. KeepsBusy(p)
  BY DEF KeepsBusy, Calm
<1>5. OwnAsRead(p)'
  BY DEF OwnAsRead, Calm
<1>6. pc'[p] # "prepSummary"
  BY DEF Calm, Owing
<1>7. SQL => loc'[p].matched \in {Uncounted, 1}
  BY DEF Calm, CountedOne
<1>8. pc'[p] \notin {"mark", "finish", "prepNext"}
  BY DEF Calm, Preparing
<1>q. QED
  BY <1>1, <1>3, <1>4, <1>5, <1>6, <1>7, <1>8 DEF Accounts, Calm

\* A step that changes neither statuses nor counters nor what p owes
LEMMA StillBalances ==
    ASSUME NEW p \in Proc, UNCHANGED <<status, total>>, loc'[p].incr = loc[p].incr
    PROVE  Balances(p)
BY DEF Balances, Counts, CountAllJob

(***************************************************************************)
(* The COUNT of UpdateJob, in a run or in prepare, finds the one job, which *)
(* is still there: the other calls of UpdateJob are not made in that store. *)
(***************************************************************************)
LEMMA CountAccounts ==
    ASSUME NEW p \in Proc, TypeOK, SummaryInv, CountMatched(p)
    PROVE  Accounts(p)
<1>t. pc \in [Proc -> Label] /\ loc \in [Proc -> Locals] /\ ProcOK
  BY DEF TypeOK, ProcOK
<1>i. /\ OwesNothing /\ StatusAsRead /\ NoDisorder /\ OwnPlace /\ SQL /\ MayVanish = {}
      /\ loc[p].matched = Uncounted
  BY DEF SummaryInv, MayVanish, CountMatched
<1>1. /\ OnlyMoves(p) /\ pc' = pc /\ UNCHANGED <<status, total>>
      /\ loc'[p].matched = Cardinality({j \in Job : Matches(p, j)})
      /\ loc'[p].incr = loc[p].incr /\ loc'[p].job = loc[p].job
      /\ loc'[p].st = loc[p].st /\ loc'[p].todo = loc[p].todo
  BY <1>t, CountKeeps DEF store
<1>2. pc[p] \in {"mark", "finish", "prepNext"}
  BY <1>i DEF CountMatched, UpdatesJob, Reached, NoDisorder, Disorder, BulkLabel
<1>3. PICK k \in Job : {j \in Job : Matches(p, j)} = {k}
  <2>1. CASE pc[p] \in {"mark", "finish"}
    <3>1. p \in Worker
      BY <1>i, <2>1 DEF OwnPlace
    <3>4. loc[p].job \in Job
      BY <1>t, <2>1 DEF ProcOK, HasJob
    <3>2. Exists(loc[p].job)
      BY <1>i, <2>1, <3>1 DEF StatusAsRead, Exists, Status
    <3>3. \A j \in Job : Matches(p, j) <=> j = loc[p].job
      BY <2>1, <3>2 DEF Matches
    <3>q. QED
      BY <3>3, <3>4
  <2>2. CASE pc[p] = "prepNext"
    <3>1. p \in Boot
      BY <1>i, <2>2 DEF OwnPlace
    <3>2. PICK it \in loc[p].todo : Reached(p, it)
      BY <2>2 DEF CountMatched, UpdatesJob
    <3>3. loc[p].todo \in SUBSET [id : Job, st : Status] /\ it \in [id : Job, st : Status]
      BY <1>t DEF Locals
    <3>4. Exists(it.id)
      BY <1>i, <2>2, <3>1, <3>3 DEF StatusAsRead, Exists, Preparing
    <3>5. \A o \in loc[p].todo : Reached(p, o) => o.id = it.id
      <4> SUFFICES ASSUME NEW o \in loc[p].todo, Reached(p, o) PROVE o.id = it.id
        OBVIOUS
      <4>1. o.id \in Int /\ it.id \in Int
        BY <3>3, BoundAssumption DEF Job
      <4>2. o.id <= it.id /\ it.id <= o.id
        BY <3>2 DEF Reached, Earliest
      <4>q. QED
        BY <4>1, <4>2
    <3>6. \A j \in Job : Matches(p, j) <=> j = it.id
      BY <2>2, <3>2, <3>4, <3>5 DEF Matches
    <3>q. QED
      BY <3>3, <3>6
  <2>q. QED
    BY <1>2, <2>1, <2>2
<1>4. loc'[p].matched = 1
  BY <1>1, <1>3, FS_Singleton
<1>5. OwnAsRead(p)'
  BY <1>1, <1>i DEF OwnAsRead, StatusAsRead
<1>6. KeepsBusy(p) /\ Balances(p)
  BY <1>1, StillBalances DEF KeepsBusy
<1>7. pc'[p] \notin Disorder /\ loc'[p].incr = NoIncr /\ pc'[p] \notin Owing
  BY <1>1, <1>2, <1>i DEF NoDisorder, OwesNothing, Owing
<1>8. pc[p] \notin Recounting /\ pc'[p] # "prepSummary"
  BY <1>1, <1>2 DEF Recounting
<1>9. (pc'[p] \in {"mark", "finish"} => p \in Worker) /\ (pc'[p] = "prepNext" => p \in Boot)
  BY <1>1, <1>i DEF OwnPlace
<1>q. QED
  BY <1>1, <1>4, <1>5, <1>6, <1>7, <1>8, <1>9 DEF Accounts

\* IncrementSummary pays what its caller owes; nothing else that goroutines share counts.
LEMMA CommonAccounts ==
    ASSUME NEW p \in Proc, TypeOK, SummaryInv, CommonStep(p)
    PROVE  Accounts(p)
<1>t. /\ pc \in [Proc -> Label] /\ loc \in [Proc -> Locals]
      /\ status \in [Job -> Status \cup {"NONE", "DELETED"}] /\ total \in [Status -> Int]
  BY DEF TypeOK, ProcOK, StoreOK
<1>i. OwesNothing /\ StatusAsRead /\ CountedOne
  BY DEF SummaryInv
<1>b. SQL => pc[p] \notin BulkLabel
  BY DEF SummaryInv, NoDisorder, Disorder
<1>1. CASE IncrementSummary(p)
  <2>1. /\ OnlyMoves(p) /\ UNCHANGED status /\ loc'[p].incr = NoIncr
        /\ loc'[p].matched \in {loc[p].matched, Uncounted}
    BY <1>1, <1>t DEF IncrementSummary, OnlyMoves, Goto, Local, Return, Locals, NoLoc
  <2>2. pc'[p] \notin Owing \cup Disorder
    <3>1. pc'[p] \in {"handle", "unlock", "retryPush", "prepPush", "unholdLoaded", "stopAllClear",
                       "addPush", "nextPeek", "idle"}
      BY <1>1, <1>t DEF IncrementSummary, AfterIncrement, Goto, Return
    <3>q. QED
      BY <3>1 DEF Owing, Disorder, BulkLabel
  <2>3. pc'[p] \in {"mark", "incrMark", "handle", "requeue", "finish"} =>
           pc[p] = "incrMark" /\ pc'[p] = "handle" /\ loc'[p].job = loc[p].job
    BY <1>1, <1>t DEF IncrementSummary, AfterIncrement, Goto, Local, Return, At, Locals
  <2>4. pc'[p] \in Preparing => pc[p] \in Preparing /\ loc'[p].todo = loc[p].todo
    BY <1>1, <1>t DEF IncrementSummary, AfterIncrement, Preparing, Goto, Local, Return, At, Locals
  <2>5. pc[p] \notin Recounting
    BY <1>1 DEF IncrementSummary, Recounting
  <2>6. UNCHANGED Counts
    BY <2>1 DEF Counts, CountAllJob
  <2>7. loc[p].incr \in [Status -> Int]
    BY <1>t DEF Locals
  <2>8. \A s \in Status : total'[s] = total[s] + loc[p].incr[s]
    BY <1>1, <1>t DEF IncrementSummary
  <2>9. \A s \in Status : NoIncr[s] = 0 /\ Counts[s] \in Int
    BY CountsType DEF NoIncr
  <2>10. Balances(p)
    BY <1>t, <2>1, <2>6, <2>7, <2>8, <2>9 DEF Balances
  <2>11. OwnAsRead(p)'
    BY <1>i, <2>1, <2>3, <2>4 DEF OwnAsRead, StatusAsRead
  <2>12. KeepsBusy(p)
    BY <2>1 DEF KeepsBusy
  <2>13. /\ SQL => loc'[p].matched \in {Uncounted, 1}
         /\ pc'[p] \notin {"mark", "finish", "prepNext"}
    BY <1>1, <1>i, <1>t, <2>1 DEF CountedOne, IncrementSummary, AfterIncrement, Goto, Return
  <2>q. QED
    BY <2>1, <2>2, <2>5, <2>10, <2>11, <2>12, <2>13 DEF Accounts, Owing
<1>2. ASSUME CommonStep(p), ~IncrementSummary(p), ~CountMatched(p)
      PROVE  Calm(p)
  <2> USE <1>t, <1>b DEF Calm, OnlyMoves, Owing, Recounting, Preparing, Disorder, BulkLabel, Goto, Local, Return,
     At, store, Locals, NoLoc
  <2>1. CASE NextPeek(p)
    BY <2>1 DEF NextPeek
  <2>2. CASE NextFind(p)
    BY <2>2 DEF NextFind
  <2>3. CASE NextPop(p)
    BY <2>3 DEF NextPop
  <2>4. CASE NextStream(p)
    BY <2>4 DEF NextStream
  <2>5. CASE StreamPush(p)
    <3>1. CASE loc[p].todo = {}
      BY <2>5, <3>1 DEF StreamPush
    <3>2. CASE loc[p].todo # {}
      BY <2>5, <3>2 DEF StreamPush
    <3>q. QED
      BY <3>1, <3>2
  <2>6. CASE RegisterJobToWorker(p)
    BY <2>6 DEF RegisterJobToWorker
  <2>7. CASE UnlockTaskCount(p)
    BY <2>7 DEF UnlockTaskCount
  <2>8. CASE UnlockTaskDel(p)
    BY <2>8 DEF UnlockTaskDel
  <2>q. QED
    BY <1>2, <2>1, <2>2, <2>3, <2>4, <2>5, <2>6, <2>7, <2>8 DEF CommonStep
<1>q. QED
  BY <1>i, <1>1, <1>2, CalmAccounts, CountAccounts

\* A run or a prepare that updates its one job is told that one was matched and one changed.
LEMMA OneUpdate ==
    ASSUME NEW p \in Proc, CountedOne, Counted(p), NEW b \in BOOLEAN, SQL => b, NEW from, NEW to
    PROVE  /\ Moved(from, to, MatchedCount(p, IF b THEN 1 ELSE 0), IF b THEN 1 ELSE 0)
                 = IF b THEN Moved(from, to, 1, 1) ELSE NoIncr
           /\ Moved(from, to, 1, 1) \in [Status -> Int] /\ NoIncr \in [Status -> Int]
<1>1. MatchedCount(p, IF b THEN 1 ELSE 0) = IF b THEN 1 ELSE 0
  BY DEF MatchedCount, Counted, CountedOne
<1>2. Moved(from, to, 0, 0) = NoIncr
  BY DEF Moved, NoIncr
<1>3. Moved(from, to, 1, 1) \in [Status -> Int] /\ NoIncr \in [Status -> Int]
  BY MovedType, NoLocType
<1>q. QED
  BY <1>1, <1>2, <1>3

\* A run owes one job for each status it writes.
LEMMA WorkerAccounts ==
    ASSUME OrderlyCalls, NEW p \in Worker, TypeOK, SummaryInv, WorkerStep(p)
    PROVE  Accounts(p)
<1>p. p \in Proc /\ p \notin Client /\ p \notin Boot
  BY ProcAssumption DEF Proc
<1>t. /\ pc \in [Proc -> Label] /\ loc \in [Proc -> Locals]
      /\ status \in [Job -> Status \cup {"NONE", "DELETED"}] /\ total \in [Status -> Int]
  BY DEF TypeOK, ProcOK, StoreOK
<1>j. pc[p] \in HasJob => loc[p].job \in Job
  BY <1>p DEF TypeOK, ProcOK
<1>i. OwesNothing /\ StatusAsRead /\ CountedOne
  BY DEF SummaryInv
<1>c. SQL => MayVanish = {} /\ loc[p].matched \in {Uncounted, 1}
  BY <1>i, <1>p DEF CountedOne, MayVanish
<1>o. ProcOK
  BY DEF TypeOK
<1>n. /\ \A s \in Status : NoIncr[s] = 0 /\ Counts[s] \in Int
      /\ total \in [Status -> Int] /\ loc[p].incr \in [Status -> Int]
  BY <1>p, <1>t, CountsType DEF NoIncr, Locals
<1>1. CASE ExecFind(p)
  <2>1. /\ OnlyMoves(p) /\ UNCHANGED <<status, total>> /\ loc'[p].incr = loc[p].incr
        /\ loc'[p].matched = loc[p].matched
        /\ pc[p] = "find" /\ pc'[p] \in {"mark", "unlock"} /\ loc'[p].job = loc[p].job
        /\ pc'[p] = "mark" => status[loc[p].job] = "QUEUEING"
    BY <1>1, <1>p, <1>t DEF ExecFind, OnlyMoves, Goto, Local, At, store, Locals
  <2>2. loc[p].incr = NoIncr
    BY <1>i, <1>p, <2>1 DEF OwesNothing, Owing
  <2>3. OwnAsRead(p)' /\ KeepsBusy(p) /\ Balances(p)
    BY <1>p, <2>1, StillBalances DEF OwnAsRead, KeepsBusy
  <2>q. QED
    BY <1>c, <1>p, <2>1, <2>2, <2>3 DEF Accounts, Disorder, BulkLabel
<1>2. CASE ExecMark(p)
  <2> DEFINE j == loc[p].job
             n == IF Exists(j) THEN 1 ELSE 0
             i == Moved("QUEUEING", "RETRYING", MatchedCount(p, n), n)
             d == IF Exists(j) THEN Moved("QUEUEING", "RETRYING", 1, 1) ELSE NoIncr
  <2>1. /\ OnlyMoves(p) /\ UNCHANGED total /\ pc[p] = "mark" /\ pc'[p] = "incrMark"
        /\ Counted(p) /\ loc'[p] = Updated(p, i)
    BY <1>2, <1>p, <1>t DEF ExecMark, OnlyMoves, Goto, Local, At
  <2>2. j \in Job /\ status[j] \in {"QUEUEING"} \cup MayVanish /\ loc[p].incr = NoIncr
    BY <1>i, <1>j, <1>p, <2>1 DEF StatusAsRead, OwesNothing, HasJob, Owing
  <2>3. KeepsBusy(p)
    BY <2>1 DEF KeepsBusy, InRun
  <2>4. Exists(j) \in BOOLEAN /\ (SQL => Exists(j))
    BY <1>c, <2>2 DEF Exists, Status
  <2>5. i = d /\ d \in [Status -> Int]
    <3> HIDE DEF j
    <3>q. QED
      BY <1>i, <1>p, <2>1, <2>4, OneUpdate
  <2> HIDE DEF i, d
  <2>6. loc'[p].incr = d /\ loc'[p].matched = Uncounted /\ loc'[p].job = j
    BY <1>o, <1>p, <2>1, <2>5, UpdatedType
  <2> HIDE DEF n
  <2>7. CASE status[j] = "QUEUEING"
    <3>1. /\ status'[j] = "RETRYING" /\ \A k \in Job \ {j} : status'[k] = status[k]
      BY <1>2, <1>t, <2>1, <2>2, <2>7 DEF ExecMark, Exists, Status
    <3>2. loc'[p].incr = Moved("QUEUEING", "RETRYING", 1, 1)
      BY <2>6, <2>7 DEF d, Exists, Status
    <3>3. Balances(p)
      BY <1>n, <2>1, <2>2, <2>7, <3>1, <3>2, CountsMove DEF Balances, Moved
    <3>4. OwnAsRead(p)'
      BY <1>p, <2>1, <2>6, <3>1 DEF OwnAsRead
    <3>q. QED
      BY <1>p, <2>1, <2>3, <2>6, <3>3, <3>4 DEF Accounts, Disorder, BulkLabel, Owing
  <2>8. CASE status[j] # "QUEUEING"
    <3>1. status[j] = "DELETED" /\ status[j] \in MayVanish
      BY <2>2, <2>8 DEF MayVanish
    <3>2. UNCHANGED status /\ loc'[p].incr = NoIncr
      BY <1>2, <2>1, <2>6, <3>1 DEF ExecMark, d, Exists, Status
    <3>3. Balances(p)
      BY <1>p, <2>1, <2>2, <3>2, StillBalances
    <3>4. OwnAsRead(p)'
      BY <1>p, <2>1, <2>6, <3>1, <3>2 DEF OwnAsRead
    <3>q. QED
      BY <1>p, <2>1, <2>3, <2>6, <3>3, <3>4 DEF Accounts, Disorder, BulkLabel, Owing
  <2>q. QED
    BY <2>7, <2>8
<1>3. CASE ExecResult(p)
  <2>1. /\ OnlyMoves(p) /\ UNCHANGED <<status, total>> /\ loc'[p].incr = loc[p].incr
        /\ loc'[p].matched = loc[p].matched
        /\ pc[p] = "handle" /\ pc'[p] \in {"requeue", "finish"} /\ loc'[p].job = loc[p].job
        /\ loc'[p].st \in {"QUEUEING", "SUCCESS", "FAILURE"}
    BY <1>3, <1>p, <1>t DEF ExecResult, OnlyMoves, Goto, Local, At, store, Locals
  <2>2. loc[p].incr = NoIncr /\ status[loc[p].job] \in {"RETRYING"} \cup MayVanish
    BY <1>i, <1>p, <2>1 DEF OwesNothing, StatusAsRead, Owing
  <2>3. OwnAsRead(p)' /\ KeepsBusy(p) /\ Balances(p)
    BY <1>p, <2>1, <2>2, StillBalances DEF OwnAsRead, KeepsBusy
  <2>q. QED
    BY <1>c, <1>p, <2>1, <2>2, <2>3 DEF Accounts, Disorder, BulkLabel
<1>4. CASE ExecRequeue(p)
  <2>1. /\ OnlyMoves(p) /\ UNCHANGED <<status, total, loc>>
        /\ pc[p] = "requeue" /\ pc'[p] = "finish"
    BY <1>4, <1>p, <1>t DEF ExecRequeue, OnlyMoves, Goto, At, store
  <2>2. loc[p].incr = NoIncr
    BY <1>i, <1>p, <2>1 DEF OwesNothing, Owing
  <2>3. OwnAsRead(p)' /\ KeepsBusy(p) /\ Balances(p)
    BY <1>i, <1>p, <2>1, StillBalances DEF OwnAsRead, StatusAsRead, KeepsBusy
  <2>q. QED
    BY <1>c, <1>p, <2>1, <2>2, <2>3 DEF Accounts, Disorder, BulkLabel
<1>5. CASE ExecFinish(p)
  <2> DEFINE j == loc[p].job
             n == IF Exists(j) THEN 1 ELSE 0
             i == Moved("RETRYING", loc[p].st, MatchedCount(p, n), n)
             d == IF Exists(j) THEN Moved("RETRYING", loc[p].st, 1, 1) ELSE NoIncr
             gone == [NoIncr EXCEPT !["RETRYING"] = -1]
             owed == IF Deletes(p) THEN gone ELSE d
  <2>1. /\ OnlyMoves(p) /\ UNCHANGED total /\ pc[p] = "finish" /\ pc'[p] = "incrFinish"
        /\ Deletes(p) \/ Counted(p)
        /\ loc'[p] = Updated(p, IF Deletes(p) THEN gone ELSE i)
    BY <1>5, <1>p, <1>t DEF ExecFinish, OnlyMoves, Goto, Local, At
  <2>2. /\ j \in Job /\ status[j] \in {"RETRYING"} \cup MayVanish /\ loc[p].incr = NoIncr
        /\ loc[p].st \in {"QUEUEING", "SUCCESS", "FAILURE"}
    BY <1>i, <1>j, <1>p, <2>1 DEF StatusAsRead, OwesNothing, HasJob, Owing
  <2>3. KeepsBusy(p) /\ OwnAsRead(p)'
    BY <1>p, <2>1 DEF KeepsBusy, InRun, OwnAsRead
  <2>4. Exists(j) \in BOOLEAN /\ (SQL => Exists(j))
    BY <1>c, <2>2 DEF Exists, Status
  <2>5. (IF Deletes(p) THEN gone ELSE i) = owed /\ owed \in [Status -> Int]
    <3> HIDE DEF j
    <3>1. gone \in [Status -> Int]
      BY IncrType
    <3> HIDE DEF gone
    <3>2. CASE Deletes(p)
      BY <3>1, <3>2
    <3>3. CASE ~Deletes(p)
      <4>1. i = d /\ d \in [Status -> Int]
        BY <1>i, <1>p, <2>1, <2>4, <3>3, OneUpdate
      <4>q. QED
        BY <3>3, <4>1
    <3>q. QED
      BY <3>2, <3>3
  <2> HIDE DEF i, gone, owed
  <2>6. loc'[p].incr = owed /\ loc'[p].matched = Uncounted
    BY <1>o, <1>p, <2>1, <2>5, UpdatedType
  <2>7. CASE status[j] = "RETRYING"
    <3>1. /\ status'[j] = IF Deletes(p) THEN "DELETED" ELSE loc[p].st
          /\ \A k \in Job \ {j} : status'[k] = status[k]
      BY <1>5, <1>t, <2>2, <2>7 DEF ExecFinish, Exists, Status
    <3>2. loc'[p].incr = IF Deletes(p) THEN gone ELSE Moved("RETRYING", loc[p].st, 1, 1)
      BY <2>6, <2>7 DEF owed, Exists, Status
    <3> HIDE DEF j, n, d
    <3>3. \A s \in Status : loc'[p].incr[s] = (IF status'[j] = s THEN 1 ELSE 0)
                                              - (IF status[j] = s THEN 1 ELSE 0)
      <4>1. CASE Deletes(p)
        <5>1. \A s \in Status : loc'[p].incr[s] = IF s = "RETRYING" THEN -1 ELSE 0
          BY <3>2, <4>1 DEF gone, NoIncr
        <5>2. \A s \in Status : status'[j] # s
          BY <3>1, <4>1 DEF Status
        <5>q. QED
          BY <2>7, <5>1, <5>2
      <4>2. CASE ~Deletes(p)
        BY <2>2, <2>7, <3>1, <3>2, <4>2 DEF Moved
      <4>q. QED
        BY <4>1, <4>2
    <3>4. Balances(p)
      BY <1>n, <2>1, <2>2, <3>1, <3>3, CountsMove DEF Balances
    <3>q. QED
      BY <1>p, <2>1, <2>3, <2>6, <3>4 DEF Accounts, Disorder, BulkLabel, Owing
  <2>8. CASE status[j] # "RETRYING"
    <3>1. status[j] = "DELETED" /\ ~DeleteAfterSuccess
      BY <2>2, <2>8 DEF MayVanish, OrderlyCalls
    <3>2. UNCHANGED status /\ loc'[p].incr = NoIncr
      BY <1>5, <2>1, <2>6, <3>1 DEF ExecFinish, Deletes, owed, Exists, Status
    <3>3. Balances(p)
      BY <1>p, <2>1, <2>2, <3>2, StillBalances
    <3>q. QED
      BY <1>p, <2>1, <2>3, <2>6, <3>3 DEF Accounts, Disorder, BulkLabel, Owing
  <2>q. QED
    BY <2>7, <2>8
<1>6. ASSUME WorkerStep(p), ~ExecFind(p), ~ExecMark(p), ~ExecResult(p), ~ExecRequeue(p),
             ~ExecFinish(p)
      PROVE  Calm(p)
  <2> USE <1>p
  <2> USE <1>t DEF Calm, OnlyMoves, Owing, Recounting, Preparing, Disorder, BulkLabel, Goto, Local,
     Return,
     At, store, Locals, NoLoc
  <2>1. CASE Serve(p)
    BY <2>1 DEF Serve
  <2>2. CASE TriggerStop(p)
    BY <2>2 DEF TriggerStop
  <2>3. CASE TriggerHold(p)
    BY <2>3 DEF TriggerHold
  <2>4. CASE TriggerAcquire(p)
    BY <2>4 DEF TriggerAcquire
  <2>5. CASE RunBegin(p)
    BY <2>5 DEF RunBegin
  <2>6. CASE RunLock(p)
    BY <2>6 DEF RunLock
  <2>7. CASE ExecPop(p)
    BY <2>7 DEF ExecPop
  <2>8. CASE ExecCancelled(p)
    BY <2>8 DEF ExecCancelled
  <2>9. CASE RunUnlock(p)
    BY <2>9 DEF RunUnlock
  <2>10. CASE RunRelease(p)
    BY <2>10 DEF RunRelease
  <2>11. CASE RunCancel(p)
    BY <2>11 DEF RunCancel
  <2>q. QED
    BY <1>6, <2>1, <2>2, <2>3, <2>4, <2>5, <2>6, <2>7, <2>8, <2>9, <2>10, <2>11 DEF WorkerStep
<1>q. QED
  BY <1>i, <1>p, <1>1, <1>2, <1>3, <1>4, <1>5, <1>6, CalmAccounts

\* The counts, the counters and what p owes move together when p moves all jobs with one status.
LEMMA AllMoved ==
    ASSUME NEW p \in Proc, TypeOK, NEW from \in Status, NEW to, from # to, UNCHANGED total,
           \A k \in Job : status'[k] = IF status[k] = from THEN to ELSE status[k],
           \A s \in Status :
              loc'[p].incr[s] = loc[p].incr[s] + Moved(from, to, Cardinality(Having(from)),
                                                                 Cardinality(Having(from)))[s]
    PROVE  Balances(p)
<1> DEFINE n == Cardinality(Having(from))
<1> SUFFICES ASSUME NEW s \in Status
             PROVE  total'[s] + loc'[p].incr[s] - Counts'[s]
                       = total[s] + loc[p].incr[s] - Counts[s]
  BY DEF Balances
<1>1. n \in Int /\ Counts'[s] = Counts[s] + Moved(from, to, n, n)[s]
  BY CountsMoveAll
<1>2. loc'[p].incr[s] = loc[p].incr[s] + Moved(from, to, n, n)[s]
  OBVIOUS
<1>3. total[s] \in Int /\ Counts[s] \in Int /\ loc[p].incr[s] \in Int
  BY CountsType DEF TypeOK, StoreOK, ProcOK, Locals
<1> HIDE DEF n
<1>4. Moved(from, to, n, n)[s] \in Int
  BY <1>1 DEF Moved
<1>q. QED
  BY <1>1, <1>2, <1>3, <1>4

\* In a store that updates in one command, a bulk update moves the jobs that it counts.
LEMMA BulkAccounts ==
    ASSUME NEW p \in Client, TypeOK, ~SQL, NEW l, NEW from \in {"FAILURE", "STOPPED", "HOLD"},
           NEW next \in Owing \ Disorder, next # "prepSummary",
           BulkUpdate(p, l, from, "QUEUEING", next)
    PROVE  Accounts(p)
<1>p. p \in Proc /\ p \notin Worker /\ p \notin Boot
  BY ProcAssumption DEF Proc
<1>t. /\ pc \in [Proc -> Label] /\ loc \in [Proc -> Locals] /\ ProcOK
      /\ status \in [Job -> Status \cup {"NONE", "DELETED"}] /\ total \in [Status -> Int]
  BY DEF TypeOK, ProcOK, StoreOK
<1> DEFINE n == Cardinality(Having(from))
           m == Moved(from, "QUEUEING", n, n)
           i == [s \in Status |-> loc[p].incr[s] + m[s]]
<1>1. OnlyMoves(p) /\ UNCHANGED total /\ pc'[p] = next
  BY <1>p, <1>t DEF BulkUpdate, OnlyMoves, Goto, Local
<1>2. loc'[p] = Updated(p, i)
  BY <1>p, <1>t DEF BulkUpdate, MatchedCount, Local, Having
<1>3. \A k \in Job : status'[k] = IF status[k] = from THEN "QUEUEING" ELSE status[k]
  BY <1>t DEF BulkUpdate
<1>4. i \in [Status -> Int]
  <2>1. n \in Int
    <3>1. Having(from) \in SUBSET Job
      BY DEF Having
    <3>q. QED
      BY <3>1, JobsAreCounted
  <2> HIDE DEF n
  <2>2. m \in [Status -> Int]
    BY <2>1, MovedType
  <2>3. loc[p].incr \in [Status -> Int]
    BY <1>p, <1>t DEF Locals
  <2> HIDE DEF m
  <2>q. QED
    BY <2>2, <2>3
<1>5. \A s \in Status : i[s] = loc[p].incr[s] + Moved(from, "QUEUEING", n, n)[s]
  OBVIOUS
<1> HIDE DEF i
<1>6. loc'[p].incr = i
  BY <1>2, <1>4, <1>p, <1>t, UpdatedType
<1>7. from \in Status /\ from # "QUEUEING"
  BY DEF Status
<1>8. Balances(p)
  BY <1>1, <1>3, <1>5, <1>6, <1>7, <1>p, AllMoved
<1>9. KeepsBusy(p)
  BY <1>3 DEF KeepsBusy
<1>q. QED
  BY <1>p, <1>1, <1>8, <1>9 DEF Accounts, OwnAsRead, Owing

\* CleanJob takes the jobs that it deletes off the counter of their status.
LEMMA CleanAccounts ==
    ASSUME NEW p \in Client, TypeOK, SummaryInv, NEW l, NEW from \in {"FAILURE", "STOPPED"},
           NEW next \in Owing \ Disorder, next # "prepSummary", BulkClean(p, l, from, next)
    PROVE  Accounts(p)
<1>p. p \in Proc /\ p \notin Worker /\ p \notin Boot
  BY ProcAssumption DEF Proc
<1>t. /\ pc \in [Proc -> Label] /\ loc \in [Proc -> Locals] /\ loc[p] \in Locals
      /\ status \in [Job -> Status \cup {"NONE", "DELETED"}] /\ total \in [Status -> Int]
  BY <1>p DEF TypeOK, ProcOK, StoreOK
<1> DEFINE n == Cardinality(Having(from))
           m == Moved(from, "DELETED", n, n)
           i == [loc[p].incr EXCEPT ![from] = @ - n]
<1>1. OnlyMoves(p) /\ UNCHANGED total /\ pc'[p] = next
  BY <1>p, <1>t DEF BulkClean, OnlyMoves, Goto, Local
<1>2. loc'[p] = [loc[p] EXCEPT !.incr = i]
  BY <1>p, <1>t DEF BulkClean, Local, Having
<1>3. \A k \in Job : status'[k] = IF status[k] = from THEN "DELETED" ELSE status[k]
  BY <1>t DEF BulkClean
<1>4. from \in Status /\ from # "DELETED"
  BY DEF Status
<1>5. \A s \in Status : i[s] = loc[p].incr[s] + Moved(from, "DELETED", n, n)[s]
  <2>1. n \in Int
    <3>1. Having(from) \in SUBSET Job
      BY DEF Having
    <3>q. QED
      BY <3>1, JobsAreCounted
  <2> HIDE DEF n
  <2>2. loc[p].incr \in [Status -> Int]
    BY <1>t DEF Locals
  <2>3. \A s \in Status : Moved(from, "DELETED", n, n)[s] = IF s = from THEN 0 - n ELSE 0
    BY <2>1 DEF Moved, Status
  <2>q. QED
    BY <1>4, <2>1, <2>2, <2>3
<1> HIDE DEF i
<1>6. loc'[p].incr = i /\ loc'[p].matched = loc[p].matched
  BY <1>2, <1>t DEF Locals
<1>7. Balances(p)
  BY <1>1, <1>3, <1>4, <1>5, <1>6, <1>p, AllMoved
<1>8. KeepsBusy(p)
  BY <1>3 DEF KeepsBusy
<1>9. SQL => loc'[p].matched \in {Uncounted, 1}
  BY <1>p, <1>6 DEF SummaryInv, CountedOne
<1>q. QED
  BY <1>p, <1>1, <1>7, <1>8, <1>9 DEF Accounts, OwnAsRead, Owing

\* A call owes one job for each status it writes.
LEMMA ClientAccounts ==
    ASSUME NEW p \in Client, TypeOK, SummaryInv, NotYetSuccess, KnownStatus, ClientStep(p)
    PROVE  Accounts(p)
<1>p. p \in Proc /\ p \notin Worker /\ p \notin Boot
  BY ProcAssumption DEF Proc
<1>t. /\ pc \in [Proc -> Label] /\ loc \in [Proc -> Locals]
      /\ status \in [Job -> Status \cup {"NONE", "DELETED"}] /\ total \in [Status -> Int]
  BY DEF TypeOK, ProcOK, StoreOK
<1>i. OwesNothing /\ NoDisorder /\ CountedOne
  BY DEF SummaryInv
<1>b. (SQL => pc[p] \notin BulkLabel) /\ pc[p] # "deleteRow"
  BY <1>i, <1>p DEF NoDisorder, Disorder
<1>c. SQL => loc[p].matched \in {Uncounted, 1}
  BY <1>i, <1>p DEF CountedOne
<1>n. /\ \A s \in Status : NoIncr[s] = 0 /\ Counts[s] \in Int
      /\ total \in [Status -> Int] /\ loc[p].incr \in [Status -> Int]
  BY <1>p, <1>t, CountsType DEF NoIncr, Locals
<1>1. CASE AddSave(p)
  <2> DEFINE j == loc[p].job
             st == loc[p].st
  <2>1. /\ OnlyMoves(p) /\ UNCHANGED total /\ pc[p] = "addSave" /\ pc'[p] = "incrAdd"
        /\ loc'[p].incr = [NoIncr EXCEPT ![st] = 1] /\ loc'[p].matched = loc[p].matched
    BY <1>1, <1>p, <1>t DEF AddSave, OnlyMoves, Goto, Local, At, Locals
  <2>2. /\ j \in Job /\ status[j] = "NONE" /\ loc[p].incr = NoIncr
        /\ st \in {"QUEUEING", "HOLD"}
    BY <1>i, <1>p, <2>1 DEF TypeOK, ProcOK, HasJob, NotYetSuccess, Adding, KnownStatus,
       OwesNothing, Owing
  <2>3. status'[j] = st /\ \A k \in Job \ {j} : status'[k] = status[k]
    BY <1>1, <1>t, <2>2 DEF AddSave
  <2>4. KeepsBusy(p)
    BY <2>2, <2>3 DEF KeepsBusy
  <2> HIDE DEF j, st
  <2>5. \A s \in Status : loc'[p].incr[s] = IF st = s THEN 1 ELSE 0
    BY <2>1 DEF NoIncr
  <2>6. \A s \in Status : status[j] # s
    BY <2>2 DEF Status
  <2>7. Balances(p)
    <3> SUFFICES ASSUME NEW s \in Status
                 PROVE  total'[s] + loc'[p].incr[s] - Counts'[s]
                           = total[s] + loc[p].incr[s] - Counts[s]
      BY DEF Balances
    <3>1. Counts'[s] = Counts[s] + (IF status'[j] = s THEN 1 ELSE 0)
                                 - (IF status[j] = s THEN 1 ELSE 0)
      BY <2>2, <2>3, CountsMove
    <3>q. QED
      BY <1>n, <2>1, <2>2, <2>3, <2>5, <2>6, <3>1
  <2>q. QED
    BY <1>c, <1>p, <2>1, <2>4, <2>7 DEF Accounts, OwnAsRead, Disorder, BulkLabel, Owing
<1>2. CASE Bulk(p)
  <2>1. pc[p] \notin {"stopAllQueueing", "stopAllRetrying"}
    BY <1>i, <1>p DEF NoDisorder, Disorder
  <2>2. \/ BulkUpdate(p, "retryAllFailure", "FAILURE", "QUEUEING", "retryAllStopped")
        \/ BulkUpdate(p, "retryAllStopped", "STOPPED", "QUEUEING", "retryAllLoaded")
        \/ BulkUpdate(p, "unholdSave", "HOLD", "QUEUEING", "incrUnhold")
        \/ BulkClean(p, "cleanFailure", "FAILURE", "cleanStopped")
        \/ BulkClean(p, "cleanStopped", "STOPPED", "cleanLoaded")
    BY <1>2, <2>1 DEF Bulk, BulkUpdate, At
  <2>3. CASE pc[p] \in BulkLabel
    <3>1. ~SQL
      BY <1>b, <2>3
    <3>2. {"retryAllStopped", "retryAllLoaded", "incrUnhold"} \in SUBSET (Owing \ Disorder)
      BY <3>1 DEF Owing, Disorder
    <3>3. pc[p] \notin {"cleanFailure", "cleanStopped"}
      BY <2>3 DEF BulkLabel
    <3>q. QED
      BY <2>2, <3>1, <3>2, <3>3, BulkAccounts DEF BulkClean, At
  <2>4. CASE pc[p] \notin BulkLabel
    <3>1. {"cleanStopped", "cleanLoaded"} \in SUBSET (Owing \ Disorder)
      BY DEF Owing, Disorder, BulkLabel
    <3>2. pc[p] \notin {"retryAllFailure", "retryAllStopped", "unholdSave"}
      BY <2>4 DEF BulkLabel
    <3>q. QED
      BY <2>2, <3>1, <3>2, CleanAccounts DEF BulkUpdate, At
  <2>q. QED
    BY <2>3, <2>4
<1>3. CASE UpdateSummary(p)
  <2>1. OnlyMoves(p) /\ UNCHANGED <<status, total, loc>>
    BY <1>3, <1>p, <1>t DEF UpdateSummary, OnlyMoves, Goto, At
  <2>2. pc[p] \notin {"stopAllLoading", "stopAllHold"}
    BY <1>i, <1>p DEF NoDisorder, Disorder
  <2>3. /\ pc'[p] \notin Disorder \cup {"prepSummary", "mark", "finish", "prepNext"}
        /\ pc'[p] \notin Owing => pc[p] \notin Owing
    BY <1>3, <1>b, <1>p, <1>t, <2>2 DEF UpdateSummary, Goto, At, Disorder, BulkLabel, Owing
  <2>4. pc'[p] \notin Owing => loc'[p].incr = NoIncr
    BY <1>i, <1>p, <2>1, <2>3 DEF OwesNothing
  <2>5. Balances(p) /\ KeepsBusy(p) /\ OwnAsRead(p)'
    BY <1>p, <2>1, StillBalances DEF KeepsBusy, OwnAsRead
  <2>q. QED
    BY <1>c, <1>p, <2>1, <2>3, <2>4, <2>5 DEF Accounts
<1>4. ASSUME ClientStep(p), ~AddSave(p), ~Bulk(p), ~UpdateSummary(p)
      PROVE  Calm(p)
  <2> USE <1>p
  <2>n. pc[p] \notin {"retryUnlock", "retrySave", "stopTask", "stopAllTask", "stopSave",
                      "recalculate"}
    BY <1>i DEF NoDisorder, Disorder
  <2> USE <1>b, <1>t DEF Calm, OnlyMoves, Owing, Recounting, Preparing, Disorder, BulkLabel, Goto,
     Local, Return, At, store, Locals, NoLoc
  <2>1. CASE AddSummary(p)
    BY <2>1 DEF AddSummary
  <2>2. CASE AddPush(p)
    BY <2>2 DEF AddPush
  <2>3. CASE AddSemaphore(p)
    BY <2>3 DEF AddSemaphore
  <2>4. CASE AddHasBeenLocked(p)
    BY <2>4 DEF AddHasBeenLocked
  <2>5. CASE RetryUnlock(p)
    BY <2>5, <2>n DEF RetryUnlock
  <2>6. CASE RetrySave(p)
    BY <2>6, <2>n DEF RetrySave
  <2>7. CASE RetryPush(p)
    BY <2>7 DEF RetryPush
  <2>8. CASE StopTask(p)
    BY <2>8, <2>n DEF StopTask
  <2>9. CASE StopSave(p)
    BY <2>9, <2>n DEF StopSave
  <2>10. CASE HoldFlip(p)
    BY <2>10 DEF HoldFlip
  <2>11. CASE RecalculateSave(p)
    BY <2>11, <2>n DEF RecalculateSave
  <2>12. CASE BulkStream(p)
    BY <2>12 DEF BulkStream
  <2>13. CASE StopAllClear(p)
    BY <2>13 DEF StopAllClear
  <2>14. CASE DeleteRow(p)
    BY <2>14 DEF DeleteRow
  <2>q. QED
    BY <1>4, <2>1, <2>2, <2>3, <2>4, <2>5, <2>6, <2>7, <2>8, <2>9, <2>10, <2>11, <2>12, <2>13, <2>14 DEF
       ClientStep
<1>q. QED
  BY <1>i, <1>p, <1>1, <1>2, <1>3, <1>4, CalmAccounts

\* Of the calls, only DeleteJob changes a status when it starts.
LEMMA CallAccounts ==
    ASSUME OrderlyCalls, NEW p \in Client, TypeOK, SummaryInv, ClientCall(p)
    PROVE  Accounts(p)
<1>p. p \in Proc /\ p \notin Worker /\ p \notin Boot
  BY ProcAssumption DEF Proc
<1>t. /\ pc \in [Proc -> Label] /\ loc \in [Proc -> Locals]
      /\ status \in [Job -> Status \cup {"NONE", "DELETED"}] /\ total \in [Status -> Int]
  BY DEF TypeOK, ProcOK, StoreOK
<1>i. OwesNothing /\ CountedOne
  BY DEF SummaryInv
<1>1. ASSUME NEW j \in Job, DeleteJob(p, j)
      PROVE  Accounts(p)
  <2> DEFINE d == [NoIncr EXCEPT ![status[j]] = -1]
  <2>1. /\ OnlyMoves(p) /\ UNCHANGED total /\ pc[p] = "idle" /\ pc'[p] = "incrDelete"
        /\ "DeleteJob" \in Api /\ status[j] \in Status /\ ~SQL
    BY <1>1, <1>p, <1>t DEF DeleteJob, Call, OnlyMoves, Goto, Local, At, Exists
  <2>2. loc'[p].incr = d
    <3> HIDE DEF d
    <3>1. loc'[p] = [[NoLoc EXCEPT !.incr = d] EXCEPT !.op = "DeleteJob"]
      BY <1>1, <1>p, <1>t DEF DeleteJob, Call, Local, d
    <3>q. QED
      BY <3>1 DEF NoLoc
  <2>3. status'[j] = "DELETED" /\ \A k \in Job \ {j} : status'[k] = status[k]
    BY <1>1, <1>t DEF DeleteJob
  <2>4. loc[p].incr = NoIncr
    BY <1>i, <1>p, <2>1 DEF OwesNothing, Owing
  <2>5. KeepsBusy(p)
    BY <2>1, <2>3 DEF KeepsBusy, MayVanish
  <2>6. \A s \in Status : d[s] = IF status[j] = s THEN -1 ELSE 0
    BY DEF NoIncr
  <2>7. \A s \in Status : status'[j] # s
    BY <2>3 DEF Status
  <2> HIDE DEF d
  <2>8. Balances(p)
    <3> SUFFICES ASSUME NEW s \in Status
                 PROVE  total'[s] + loc'[p].incr[s] - Counts'[s]
                           = total[s] + loc[p].incr[s] - Counts[s]
      BY DEF Balances
    <3>1. Counts'[s] = Counts[s] + (IF status'[j] = s THEN 1 ELSE 0)
                                 - (IF status[j] = s THEN 1 ELSE 0)
      BY <2>3, CountsMove
    <3>2. NoIncr[s] = 0 /\ Counts[s] \in Int /\ total[s] \in Int
      BY <1>t, CountsType DEF NoIncr
    <3>q. QED
      BY <2>1, <2>2, <2>4, <2>6, <2>7, <3>1, <3>2
  <2>q. QED
    BY <1>p, <2>1, <2>5, <2>8 DEF Accounts, OwnAsRead, Disorder, BulkLabel, Owing
<1>2. ASSUME ClientCall(p), \A j \in Job : ~DeleteJob(p, j)
      PROVE  Calm(p)
  <2> USE <1>p, <1>t DEF Calm, OnlyMoves, Owing, Recounting, Preparing, Disorder, BulkLabel, Goto,
          Local, At, store, NoLoc, Call
  <2>1. CASE AddJob(p)
    BY <2>1 DEF AddJob
  <2>2. CASE HoldJobTask(p)
    BY <2>2 DEF HoldJobTask, OrderlyCalls
  <2>3. CASE RetryAllJob(p)
    BY <2>3 DEF RetryAllJob, OrderlyCalls
  <2>4. CASE CleanJob(p)
    BY <2>4 DEF CleanJob
  <2>5. CASE RunQueuedJob(p)
    BY <2>5 DEF RunQueuedJob
  <2>6. ~StopAllJob(p) /\ ~RecalculateSummary(p)
        /\ \A j \in Job : ~RetryJob(p, j) /\ ~StopJob(p, j) /\ ~DeleteSelect(p, j)
    BY DEF OrderlyCalls, StopAllJob, RecalculateSummary, RetryJob, StopJob, DeleteSelect
  <2>q. QED
    BY <1>2, <2>1, <2>2, <2>3, <2>4, <2>5, <2>6 DEF ClientCall
<1>q. QED
  BY <1>i, <1>p, <1>1, <1>2, CalmAccounts

\* prepare counts again, and then owes one job for each that it puts back to QUEUEING.
LEMMA BootAccounts ==
    ASSUME NEW p \in Boot, TypeOK, SummaryInv, BootStep(p)
    PROVE  Accounts(p)
<1>p. p \in Proc /\ p \notin Worker /\ p \notin Client
  BY ProcAssumption DEF Proc
<1>t. /\ pc \in [Proc -> Label] /\ loc \in [Proc -> Locals]
      /\ status \in [Job -> Status \cup {"NONE", "DELETED"}] /\ total \in [Status -> Int]
  BY DEF TypeOK, ProcOK, StoreOK
<1>i. OwesNothing /\ StatusAsRead /\ CountedOne
  BY DEF SummaryInv
<1>c. SQL => loc[p].matched \in {Uncounted, 1}
  BY <1>i, <1>p DEF CountedOne
<1>n. /\ \A s \in Status : NoIncr[s] = 0 /\ Counts[s] \in Int
      /\ total \in [Status -> Int] /\ loc[p].incr \in [Status -> Int]
  BY <1>p, <1>t, CountsType DEF NoIncr, Locals
<1>1. CASE PrepareCount(p)
  <2>1. /\ OnlyMoves(p) /\ UNCHANGED <<status, total>> /\ loc'[p].incr = Counts
        /\ loc'[p].matched = loc[p].matched
        /\ pc[p] = "prepCount" /\ pc'[p] = "prepSummary"
    BY <1>1, <1>p, <1>t DEF PrepareCount, OnlyMoves, Goto, Local, At, store, Locals
  <2>2. UNCHANGED Counts
    BY <2>1 DEF Counts, CountAllJob
  <2>q. QED
    BY <1>c, <1>p, <2>1, <2>2 DEF Accounts, KeepsBusy, PrepareLabel, OwnAsRead, Recounting, Preparing,
       Disorder, BulkLabel, Owing
<1>2. CASE PrepareSummary(p)
  <2>1. /\ OnlyMoves(p) /\ UNCHANGED status /\ loc'[p].incr = NoIncr /\ total' = loc[p].incr
        /\ loc'[p].matched = loc[p].matched
        /\ pc[p] = "prepSummary" /\ pc'[p] \in {"prepStream", "prepLoaded"}
    BY <1>2, <1>p, <1>t DEF PrepareSummary, OnlyMoves, Goto, Local, At, Locals
  <2>2. total' = Counts /\ UNCHANGED Counts
    BY <1>i, <2>1 DEF OwesNothing, Counts, CountAllJob
  <2>q. QED
    BY <1>c, <1>p, <2>1, <2>2 DEF Accounts, KeepsBusy, PrepareLabel, OwnAsRead, Recounting, Preparing,
       Disorder, BulkLabel, Owing
<1>3. CASE PrepareStream(p)
  <2>1. /\ OnlyMoves(p) /\ UNCHANGED <<status, total>> /\ loc'[p].incr = loc[p].incr
        /\ loc'[p].todo = FindAllJob({"RETRYING", "QUEUEING"})
        /\ loc'[p].matched = loc[p].matched
        /\ pc[p] = "prepStream" /\ pc'[p] = "prepNext"
    BY <1>3, <1>p, <1>t DEF PrepareStream, OnlyMoves, Goto, Local, At, store, Locals
  <2>2. \A it \in loc'[p].todo : status'[it.id] = it.st
    BY <2>1 DEF FindAllJob
  <2>3. loc[p].incr = NoIncr /\ Balances(p)
    BY <1>i, <1>p, <2>1, StillBalances DEF OwesNothing, Owing
  <2>q. QED
    BY <1>c, <1>p, <2>1, <2>2, <2>3 DEF Accounts, KeepsBusy, PrepareLabel, OwnAsRead, Recounting,
       Disorder, BulkLabel, Owing
<1>4. CASE PrepareNext(p)
  <2>1. UNCHANGED total /\ pc[p] = "prepNext"
    BY <1>4 DEF PrepareNext, At
  <2>2. loc[p].incr = NoIncr /\ KeepsBusy(p)
    BY <1>i, <1>p, <2>1 DEF OwesNothing, Owing, KeepsBusy, PrepareLabel
  <2>3. CASE loc[p].todo = {}
    <3>1. OnlyMoves(p) /\ UNCHANGED <<status, loc>> /\ pc'[p] = "prepLoaded"
      BY <1>4, <1>p, <1>t, <2>3 DEF PrepareNext, OnlyMoves, Goto
    <3>2. Balances(p)
      BY <1>p, <2>1, <3>1, StillBalances
    <3>q. QED
      BY <1>c, <1>p, <2>1, <2>2, <3>1, <3>2 DEF Accounts, OwnAsRead, Recounting, Preparing,
         Disorder, BulkLabel, Owing
  <2>4. CASE loc[p].todo # {}
    <3>1. PICK it \in [id : Job, st : Status] :
            /\ it \in loc[p].todo /\ OnlyMoves(p)
            /\ loc'[p].job = it.id /\ loc'[p].todo = loc[p].todo \ {it}
            /\ loc'[p].op = loc[p].op /\ loc'[p].flag = loc[p].flag
            /\ \/ /\ it.st = "QUEUEING" /\ pc'[p] = "prepPush" /\ UNCHANGED status
                  /\ loc'[p].incr = loc[p].incr /\ loc'[p].matched = loc[p].matched
               \/ LET n == IF Exists(it.id) THEN 1 ELSE 0 IN
                  /\ it.st # "QUEUEING" /\ pc'[p] = "incrPrepare" /\ Counted(p)
                  /\ Reached(p, it)
                  /\ status' = IF n = 1 THEN [status EXCEPT ![it.id] = "QUEUEING"] ELSE status
                  /\ loc'[p].incr = Moved(it.st, "QUEUEING", MatchedCount(p, n), n)
                  /\ loc'[p].matched = Uncounted
      BY <1>4, <2>4, PrepareTakes
    <3>2. \A i \in loc[p].todo : i \in [id : Job, st : Status] /\ status[i.id] = i.st
      BY <1>i, <1>p, <1>t, <2>1 DEF Locals, StatusAsRead, Preparing
    <3>3. it.id \in Job /\ it.st \in Status /\ status[it.id] = it.st
      BY <3>1, <3>2
    <3>4. CASE it.st = "QUEUEING"
      <4>1. \A i \in loc'[p].todo : status'[i.id] = i.st
        BY <3>1, <3>2, <3>4
      <4>2. Balances(p)
        BY <1>p, <2>1, <3>1, <3>4, StillBalances
      <4>3. /\ OnlyMoves(p) /\ pc'[p] = "prepPush" /\ loc'[p].incr = loc[p].incr
            /\ loc'[p].matched = loc[p].matched
        BY <3>1, <3>4
      <4>q. QED
        BY <1>c, <1>p, <2>1, <2>2, <4>1, <4>2, <4>3 DEF Accounts, OwnAsRead, Recounting,
           Disorder, BulkLabel, Owing
    <3>5. CASE it.st # "QUEUEING"
      <4> DEFINE n == IF Exists(it.id) THEN 1 ELSE 0
                 m == Moved(it.st, "QUEUEING", 1, 1)
      <4>1. Exists(it.id)
        BY <3>3 DEF Exists
      <4>2. /\ OnlyMoves(p) /\ pc'[p] = "incrPrepare" /\ Counted(p)
            /\ status' = IF n = 1 THEN [status EXCEPT ![it.id] = "QUEUEING"] ELSE status
            /\ loc'[p].incr = Moved(it.st, "QUEUEING", MatchedCount(p, n), n)
            /\ loc'[p].matched = Uncounted /\ loc'[p].todo = loc[p].todo \ {it}
        BY <3>1, <3>5
      <4>3. Moved(it.st, "QUEUEING", MatchedCount(p, n), n) = m
        <5> DEFINE b == Exists(it.id)
                   st == it.st
        <5>1. b \in BOOLEAN /\ b /\ Counted(p) /\ CountedOne
          BY <1>i, <4>1, <4>2 DEF Exists
        <5> HIDE DEF b, st
        <5>2. Moved(st, "QUEUEING", MatchedCount(p, IF b THEN 1 ELSE 0), IF b THEN 1 ELSE 0)
                 = IF b THEN Moved(st, "QUEUEING", 1, 1) ELSE NoIncr
          BY <1>p, <5>1, OneUpdate
        <5>q. QED
          BY <5>1, <5>2 DEF b, st
      <4>4. status'[it.id] = "QUEUEING" /\ \A k \in Job \ {it.id} : status'[k] = status[k]
        BY <1>t, <3>3, <4>1, <4>2
      <4>5. ASSUME NEW i \in loc'[p].todo PROVE status'[i.id] = i.st
        <5>1. i \in [id : Job, st : Status] /\ status[i.id] = i.st /\ i # it
          BY <3>2, <4>2, <4>5
        <5>2. i.id # it.id
          BY <3>1, <3>3, <5>1
        <5>q. QED
          BY <4>4, <5>1, <5>2
      <4>6. loc'[p].incr = m
        BY <4>2, <4>3
      <4>7. \A s \in Status : m[s] = (IF status'[it.id] = s THEN 1 ELSE 0)
                                     - (IF status[it.id] = s THEN 1 ELSE 0)
        BY <3>3, <4>4 DEF Moved
      <4> HIDE DEF n, m
      <4>8. Balances(p)
        <5> SUFFICES ASSUME NEW s \in Status
                     PROVE  total'[s] + loc'[p].incr[s] - Counts'[s]
                               = total[s] + loc[p].incr[s] - Counts[s]
          BY DEF Balances
        <5>1. Counts'[s] = Counts[s] + (IF status'[it.id] = s THEN 1 ELSE 0)
                                     - (IF status[it.id] = s THEN 1 ELSE 0)
          BY <3>3, <4>4, CountsMove
        <5>q. QED
          BY <1>n, <2>1, <2>2, <4>6, <4>7, <5>1
      <4>q. QED
        BY <1>p, <2>1, <2>2, <4>2, <4>5, <4>8 DEF Accounts, OwnAsRead, Recounting,
           Disorder, BulkLabel, Owing
    <3>q. QED
      BY <3>4, <3>5
  <2>q. QED
    BY <2>3, <2>4
<1>5. CASE PreparePush(p)
  <2>1. /\ OnlyMoves(p) /\ UNCHANGED <<status, total, loc>>
        /\ pc[p] = "prepPush" /\ pc'[p] = "prepNext"
    BY <1>5, <1>p, <1>t DEF PreparePush, OnlyMoves, Goto, At
  <2>2. loc[p].incr = NoIncr /\ Balances(p)
    BY <1>i, <1>p, <2>1, StillBalances DEF OwesNothing, Owing
  <2>3. \A it \in loc'[p].todo : status'[it.id] = it.st
    BY <1>i, <2>1 DEF StatusAsRead, Preparing
  <2>q. QED
    BY <1>c, <1>p, <2>1, <2>2, <2>3 DEF Accounts, KeepsBusy, PrepareLabel, OwnAsRead, Recounting,
       Disorder, BulkLabel, Owing
<1>6. ASSUME BootStep(p), ~PrepareCount(p), ~PrepareSummary(p), ~PrepareStream(p),
             ~PrepareNext(p), ~PreparePush(p)
      PROVE  Calm(p)
  <2> USE <1>p
  <2> USE <1>t DEF Calm, OnlyMoves, Owing, Recounting, Preparing, Disorder, BulkLabel, Goto, Local,
     Return, At, store, Locals, NoLoc
  <2>1. CASE PrepareReset(p)
    BY <2>1 DEF PrepareReset
  <2>2. CASE PrepareClear(p)
    BY <2>2 DEF PrepareClear
  <2>3. CASE PrepareLoaded(p)
    BY <2>3 DEF PrepareLoaded
  <2>q. QED
    BY <1>6, <2>1, <2>2, <2>3 DEF BootStep
<1>q. QED
  BY <1>i, <1>p, <1>1, <1>2, <1>3, <1>4, <1>5, <1>6, CalmAccounts

\* After a crash prepare will count again.
LEMMA RuntimeKeepsSummary ==
    ASSUME OneRuntime, TypeOK, SummaryInv, NEW r \in Runtime, TickerFires(r) \/ Crash(r)
    PROVE  SummaryInv'
<1>t. /\ Worker \in SUBSET Proc /\ Client \in SUBSET Proc /\ Boot \in SUBSET Proc
      /\ Worker \cap Boot = {}
  BY ProcAssumption DEF Proc
<1>1. CASE TickerFires(r)
  <2>1. UNCHANGED <<pc, loc, status, total>>
    BY <1>1 DEF TickerFires, store
  <2>2. UNCHANGED Counts /\ \A s \in Status : UNCHANGED Owed(s)
    BY <2>1 DEF Counts, CountAllJob, Owed
  <2>3. NoDisorder' /\ OwesNothing' /\ StatusAsRead' /\ CountedOne' /\ OwnPlace'
    BY <2>1, <2>2 DEF SummaryInv, NoDisorder, OwesNothing, StatusAsRead, CountedOne, OwnPlace
  <2>4. Balanced'
    BY <2>1, <2>2 DEF SummaryInv, Balanced, Net, Above, Below, Counts, CountAllJob, Owed
  <2>q. QED
    BY <2>3, <2>4 DEF SummaryInv
<1>2. CASE Crash(r)
  <2>1. PICK b \in Boot : Home[b] = r
    BY BootAssumption
  <2>2. \A p \in Proc : Home[p] = r
    BY <1>t, <2>1 DEF OneRuntime
  <2>3. \A p \in Proc : /\ pc'[p] = IF p \in Boot THEN "prepReset" ELSE "idle"
                        /\ loc'[p] = NoLoc
    BY <1>2, <2>2 DEF Crash
  <2>4. NoDisorder' /\ OwesNothing' /\ StatusAsRead' /\ CountedOne' /\ OwnPlace'
    BY <1>t, <2>3 DEF NoDisorder, OwesNothing, StatusAsRead, CountedOne, OwnPlace, Disorder,
       BulkLabel, Preparing, NoLoc
  <2>5. Balanced'
    BY <1>t, <2>1, <2>3 DEF Balanced, Recounting
  <2>q. QED
    BY <2>4, <2>5 DEF SummaryInv
<1>q. QED
  BY <1>1, <1>2

\* Every step keeps the books.
LEMMA SummaryStep ==
    ASSUME OneRuntime, ~EarlyCalls, OrderlyCalls, TypeOK, TypeOK', OneRunPerRuntime, SuccessInv,
           SummaryInv, [Next]_vars
    PROVE  SummaryInv'
<1>t. pc \in [Proc -> Label]
  BY DEF TypeOK, ProcOK
<1>i. BootAlone /\ NotYetSuccess /\ KnownStatus
  BY DEF SuccessInv
<1>s. ASSUME NEW p \in Proc, StepsAside(p), Accounts(p)
      PROVE  SummaryInv'
  BY <1>i, <1>s, AccountsKeeps
<1>1. CASE UNCHANGED vars
  <2>1. UNCHANGED <<pc, loc, status, total>>
    BY <1>1 DEF vars, store
  <2>2. NoDisorder' /\ OwesNothing' /\ StatusAsRead' /\ CountedOne' /\ OwnPlace'
    BY <2>1 DEF SummaryInv, NoDisorder, OwesNothing, StatusAsRead, CountedOne, OwnPlace, Counts,
       CountAllJob
  <2>3. Balanced'
    BY <2>1 DEF SummaryInv, Balanced, Net, Above, Below, Counts, CountAllJob, Owed
  <2>q. QED
    BY <2>2, <2>3 DEF SummaryInv
<1>2. ASSUME NEW p \in Worker, WorkerStep(p) PROVE SummaryInv'
  BY <1>2, <1>s, <1>t, WorkerStepsAside, WorkerAccounts DEF Proc
<1>3. ASSUME NEW p \in Client, ClientStep(p) \/ ClientCall(p) PROVE SummaryInv'
  BY <1>3, <1>i, <1>s, <1>t, ClientStepsAside, ClientAccounts, CallAccounts DEF Proc
<1>4. ASSUME NEW p \in Boot, BootStep(p) PROVE SummaryInv'
  BY <1>4, <1>s, <1>t, BootStepsAside, BootAccounts DEF Proc
<1>5. ASSUME NEW p \in Proc, CommonStep(p) PROVE SummaryInv'
  BY <1>5, <1>s, <1>t, CommonStepsAside, CommonAccounts
<1>6. ASSUME NEW r \in Runtime, TickerFires(r) \/ Crash(r) PROVE SummaryInv'
  BY <1>6, RuntimeKeepsSummary
<1>q. QED
  BY <1>1, <1>2, <1>3, <1>4, <1>5, <1>6 DEF Next

\* When nothing runs, nobody owes anything.
LEMMA IdleIsBalanced ==
    ASSUME TypeOK, SummaryInv
    PROVE  SummaryExact
<1> SUFFICES ASSUME Idle PROVE total = Counts
  BY DEF SummaryExact
<1>1. ASSUME NEW s \in Status PROVE total[s] = Counts[s]
  <2>1. /\ total[s] \in Int /\ Counts[s] \in Int /\ NoIncr[s] = 0
        /\ \A p \in Proc : loc[p].incr[s] \in Int
    BY CountsType DEF TypeOK, StoreOK, ProcOK, Locals, NoIncr
  <2>2. \A p \in Proc : loc[p].incr = NoIncr
    BY DEF Idle, SummaryInv, OwesNothing, Owing
  <2>3. Owed(s) \in [Proc -> Int] /\ \A p \in Proc : Owed(s)[p] = 0
    BY <2>1, <2>2 DEF Owed
  <2>4. Net(Owed(s)) = 0
    BY <2>3, NetOfZeros
  <2>5. total[s] + Net(Owed(s)) = Counts[s]
    BY DEF Idle, SummaryInv, Balanced, Recounting, Proc
  <2>q. QED
    BY <2>1, <2>4, <2>5
<1>2. total \in [Status -> Int] /\ Counts = [s \in Status |-> Counts[s]]
  BY DEF TypeOK, StoreOK, Counts
<1>q. QED
  BY <1>1, <1>2

(***************************************************************************)
(* In one runtime whose clients wait for prepare, for any number of        *)
(* goroutines, jobs and crashes: the counters agree with the job table     *)
(* whenever nothing runs, as long as the clients make the calls that leave *)
(* a running job alone and move every job by the status it has.  RetryJob  *)
(* and StopJob count by a status that they read before, StopAllJob stops a *)
(* running job that its run then counts as RETRYING, RecalculateSummary    *)
(* saves counts that may be old, and a job deleted while it runs is taken  *)
(* off RETRYING twice when the task deletes the jobs that succeed.  With   *)
(* SQLPersistent fewer calls are left, AddJob, CleanJob and RunQueuedJob:  *)
(* DeleteJob, RetryAllJob and the end of a hold count in one statement and *)
(* change in another, and a run or another call may come between the two.  *)
(* What a run and prepare count, they find unchanged.                      *)
(***************************************************************************)
THEOREM SummaryIsExact ==
    ASSUME OneRuntime, ~EarlyCalls, OrderlyCalls
    PROVE  Spec => []SummaryExact
<1>1. Init => SummaryInv
  <2> SUFFICES ASSUME Init PROVE SummaryInv
    OBVIOUS
  <2>1. /\ Worker \in SUBSET Proc /\ Boot \in SUBSET Proc /\ Worker \cap Boot = {}
        /\ \A p \in Proc : /\ pc[p] = IF p \in Boot THEN "prepReset" ELSE "idle"
                           /\ loc[p] = NoLoc
    BY ProcAssumption DEF Init, Proc
  <2>2. NoDisorder /\ OwesNothing /\ StatusAsRead /\ CountedOne /\ OwnPlace
    BY <2>1 DEF NoDisorder, OwesNothing, StatusAsRead, CountedOne, OwnPlace, Disorder, BulkLabel,
       Preparing, NoLoc
  <2>3. ASSUME NEW s \in Status PROVE total[s] + Net(Owed(s)) = Counts[s]
    <3>1. NoIncr[s] = 0 /\ total[s] = 0
      BY DEF Init, NoIncr
    <3>2. Owed(s) \in [Proc -> Int] /\ \A p \in Proc : Owed(s)[p] = 0
      BY <2>1, <3>1 DEF Owed, NoLoc
    <3>3. {j \in Job : status[j] \in {s}} = {}
      BY DEF Init, Status
    <3>4. Counts[s] = 0
      BY <3>3, FS_EmptySet DEF Counts, CountAllJob
    <3>5. Net(Owed(s)) = 0
      BY <3>2, NetOfZeros
    <3>q. QED
      BY <3>1, <3>4, <3>5
  <2>q. QED
    BY <2>2, <2>3 DEF SummaryInv, Balanced
<1>2. TypeOK /\ TypeOK' /\ OneRunPerRuntime /\ SuccessInv /\ SummaryInv /\ [Next]_vars
         => SummaryInv'
  BY SummaryStep
<1>3. TypeOK /\ SummaryInv => SummaryExact
  BY IdleIsBalanced
<1>q. QED
  BY <1>1, <1>2, <1>3, TypeCorrect, OneRun, SuccessHolds, PTL DEF Spec
-----------------------------------------------------------------------------
\* The jobs that are QUEUEING: where the goroutines can be

\* The calls that take no job away from the runs: they neither hold the task nor stop its ticker.
FollowedCalls == Api \subseteq {"RetryJob", "DeleteJob", "RecalculateSummary"}

\* The labels of those calls and of AddJob
PlainCall ==
    {"idle", "addSummary", "addSave", "incrAdd", "addPush", "addSemaphore", "addHasLock",
     "unlockCount", "unlockDel", "register", "retryUnlock", "retrySave", "incrRetry",
     "retryPush", "deleteRow", "incrDelete", "recalculate"}

\* The labels of a goroutine of each kind under those calls
OwnLabel(p) ==
    /\ p \in Worker => pc[p] \in {"idle"} \cup TriggerLabel \cup NextLabel
    /\ p \in Client => pc[p] \in PlainCall
    /\ p \in Boot => pc[p] \in {"idle"} \cup PrepareLabel \cup NextLabel

\* Until prepare has registered the first job, nothing else runs and no ticker is there.
BootFirst ==
    \A b \in Boot : pc[b] # "idle" =>
        /\ \A p \in Proc \ {b} : pc[p] = "idle"
        /\ ~armed[Home[b]] /\ ~tick[Home[b]]

\* The task is neither held nor, once prepare is over, loading.
NotSetAside == ~hold /\ (loading => \E b \in Boot : pc[b] \in PrepareLabel)

\* Where prepare goes through the jobs that it has counted
Loads == {"prepStream", "prepNext", "incrPrepare", "prepPush"}

\* Only calls have a name; AddJob pushes each job it saves, and prepare loads what it has counted.
OwnFlag(p) ==
    /\ p \notin Client => loc[p].op = "none"
    /\ p \in Client /\ pc[p] \in {"addSave", "incrAdd"} => ~loc[p].flag
    /\ p \in Boot /\ pc[p] \in Loads => loc[p].flag

\* The semaphore is taken by a run.
SemHeld == \A r \in Runtime : sem[r] => \E p \in Worker : Home[p] = r /\ pc[p] \in InRun

PlainInv ==
    /\ \A p \in Proc : OwnLabel(p) /\ OwnFlag(p)
    /\ BootFirst /\ NotSetAside /\ SemHeld

\* A step of p that keeps to its labels, its flag and the semaphore
StaysPlain(p) ==
    /\ OnlyMoves(p) /\ OwnLabel(p)' /\ OwnFlag(p)'
    /\ pc[p] = "idle" => tick[Home[p]] \/ \A b \in Boot : pc[b] = "idle"
    /\ p \in Boot /\ pc'[p] # "idle" => pc[p] # "idle" /\ UNCHANGED <<armed, tick>>
    /\ hold' = hold
    /\ p \notin Boot => loading' = loading
    /\ p \in Boot /\ loading' => pc'[p] \in PrepareLabel \/ (loading /\ pc[p] \notin PrepareLabel)
    /\ p \in Worker /\ pc[p] \in InRun => pc'[p] \in InRun \/ ~sem'[Home[p]]
    /\ \A r \in Runtime : sem'[r] => sem[r] \/ (p \in Worker /\ r = Home[p] /\ pc'[p] \in InRun)

\* Such a step keeps the invariant.
LEMMA StaysPlainKeeps ==
    ASSUME OneRuntime, PlainInv, NEW p \in Proc, StaysPlain(p)
    PROVE  PlainInv'
<1>p. Worker \in SUBSET Proc /\ Client \in SUBSET Proc /\ Boot \in SUBSET Proc
  BY DEF Proc
<1>1. \A q \in Proc : OwnLabel(q)' /\ OwnFlag(q)'
  BY DEF PlainInv, StaysPlain, OnlyMoves, OwnLabel, OwnFlag
<1>2. \A b \in Boot : pc[b] # "idle" => b = p \/ pc[p] = "idle"
  BY <1>p DEF PlainInv, BootFirst
<1>3. \A b \in Boot : pc[b] # "idle" => b = p
  BY <1>p, <1>2 DEF PlainInv, BootFirst, StaysPlain, OneRuntime
<1>4. BootFirst'
  <2> SUFFICES ASSUME NEW b \in Boot, pc'[b] # "idle"
               PROVE  /\ \A q \in Proc \ {b} : pc'[q] = "idle"
                      /\ ~armed'[Home[b]] /\ ~tick'[Home[b]]
    BY DEF BootFirst
  <2>1. pc[b] # "idle"
    BY <1>p DEF StaysPlain, OnlyMoves
  <2>2. b = p
    BY <1>3, <2>1
  <2>q. QED
    BY <2>1, <2>2 DEF StaysPlain, OnlyMoves, PlainInv, BootFirst
<1>5. NotSetAside'
  <2>1. ~hold'
    BY DEF PlainInv, NotSetAside, StaysPlain
  <2>2. ASSUME loading' PROVE \E b \in Boot : pc'[b] \in PrepareLabel
    <3>1. CASE p \in Boot
      <4>1. ASSUME loading, pc[p] \notin PrepareLabel PROVE FALSE
        <5>1. PICK b \in Boot : pc[b] \in PrepareLabel
          BY <4>1 DEF PlainInv, NotSetAside
        <5>2. pc[b] # "idle"
          BY <5>1 DEF PrepareLabel
        <5>q. QED
          BY <1>3, <4>1, <5>1, <5>2
      <4>q. QED
        BY <2>2, <3>1, <4>1 DEF StaysPlain
    <3>2. CASE p \notin Boot
      <4>1. PICK b \in Boot : pc[b] \in PrepareLabel
        BY <2>2, <3>2 DEF PlainInv, NotSetAside, StaysPlain
      <4>q. QED
        BY <1>p, <3>2, <4>1 DEF StaysPlain, OnlyMoves
    <3>q. QED
      BY <3>1, <3>2
  <2>q. QED
    BY <2>1, <2>2 DEF NotSetAside
<1>6. SemHeld'
  <2> SUFFICES ASSUME NEW r \in Runtime, sem'[r]
               PROVE  \E q \in Worker : Home[q] = r /\ pc'[q] \in InRun
    BY DEF SemHeld
  <2>1. CASE p \in Worker /\ r = Home[p] /\ pc'[p] \in InRun
    BY <2>1
  <2>2. CASE ~(p \in Worker /\ r = Home[p] /\ pc'[p] \in InRun)
    <3>1. PICK q \in Worker : Home[q] = r /\ pc[q] \in InRun
      BY <2>2 DEF StaysPlain, PlainInv, SemHeld
    <3>2. q # p
      BY <2>2, <3>1 DEF StaysPlain
    <3>q. QED
      BY <1>p, <3>1, <3>2 DEF StaysPlain, OnlyMoves
  <2>q. QED
    BY <2>1, <2>2
<1>q. QED
  BY <1>1, <1>4, <1>5, <1>6 DEF PlainInv

\* The locals after UpdateJob are those before it, but for what is to be added to the summary.
LEMMA UpdatedKeeps ==
    ASSUME ProcOK, NEW p \in Proc, NEW i, loc' = [loc EXCEPT ![p] = Updated(p, i)]
    PROVE  /\ loc'[p].op = loc[p].op /\ loc'[p].job = loc[p].job /\ loc'[p].st = loc[p].st
           /\ loc'[p].flag = loc[p].flag /\ loc'[p].todo = loc[p].todo
<1>1. loc'[p] = Updated(p, i) /\ loc[p] \in Locals
  BY DEF ProcOK
<1>q. QED
  BY <1>1 DEF Updated, Locals

\* A run starts at a tick, and gives back the semaphore that it took.
LEMMA WorkerStaysPlain ==
    ASSUME TypeOK, PlainInv, NEW p \in Worker, WorkerStep(p)
    PROVE  StaysPlain(p)
<1>p. p \in Proc /\ p \notin Client /\ p \notin Boot /\ Home[p] \in Runtime
  BY ProcAssumption DEF Proc
<1>h. ~hold
  BY DEF PlainInv, NotSetAside
<1>t. pc \in [Proc -> Label] /\ loc \in [Proc -> Locals] /\ sem \in [Runtime -> BOOLEAN]
  BY DEF TypeOK, ProcOK, EngineOK
<1>o. ProcOK
  BY DEF TypeOK
<1>i. OwnLabel(p) /\ OwnFlag(p)
  BY <1>p DEF PlainInv
<1> USE <1>p, <1>h, <1>t, <1>i
<1> USE DEF StaysPlain, OnlyMoves, OwnLabel, OwnFlag, Loads, TriggerLabel, InRun,
        NextLabel, PlainCall, PrepareLabel, Goto, Local, Return, At, NoLoc,
        store, engine
<1>1. CASE Serve(p)
  BY <1>1 DEF Serve
<1>2. CASE TriggerStop(p)
  BY <1>2 DEF TriggerStop
<1>3. CASE TriggerHold(p)
  BY <1>3 DEF TriggerHold
<1>4. CASE TriggerAcquire(p)
  BY <1>4 DEF TriggerAcquire
<1>5. CASE RunBegin(p)
  BY <1>5 DEF RunBegin
<1>6. CASE RunLock(p)
  BY <1>6 DEF RunLock
<1>7. CASE ExecPop(p)
  BY <1>7 DEF ExecPop, Locals
<1>8. CASE ExecFind(p)
  BY <1>8 DEF ExecFind, Locals
<1>9. CASE ExecMark(p)
  <2>1. PICK i : loc' = [loc EXCEPT ![p] = Updated(p, i)]
    BY <1>9 DEF ExecMark
  <2>2. loc'[p].op = loc[p].op /\ loc'[p].flag = loc[p].flag
    BY <1>o, <2>1, UpdatedKeeps
  <2>3. /\ pc' = [pc EXCEPT ![p] = "incrMark"] /\ pc[p] = "mark"
        /\ UNCHANGED <<hold, loading, sem, armed, tick>>
    BY <1>9 DEF ExecMark
  <2>q. QED
    BY <2>1, <2>2, <2>3
<1>10. CASE ExecCancelled(p)
  BY <1>10 DEF ExecCancelled
<1>11. CASE ExecResult(p)
  BY <1>11 DEF ExecResult, Locals
<1>12. CASE ExecRequeue(p)
  BY <1>12 DEF ExecRequeue
<1>13. CASE ExecFinish(p)
  <2>1. PICK i : loc' = [loc EXCEPT ![p] = Updated(p, i)]
    BY <1>13 DEF ExecFinish
  <2>2. loc'[p].op = loc[p].op /\ loc'[p].flag = loc[p].flag
    BY <1>o, <2>1, UpdatedKeeps
  <2>3. /\ pc' = [pc EXCEPT ![p] = "incrFinish"] /\ pc[p] = "finish"
        /\ UNCHANGED <<hold, loading, sem, armed, tick>>
    BY <1>13 DEF ExecFinish
  <2>q. QED
    BY <2>1, <2>2, <2>3
<1>14. CASE RunUnlock(p)
  BY <1>14 DEF RunUnlock
<1>15. CASE RunRelease(p)
  BY <1>15 DEF RunRelease
<1>16. CASE RunCancel(p)
  BY <1>16 DEF RunCancel
<1>q. QED
  BY <1>1, <1>2, <1>3, <1>4, <1>5, <1>6, <1>7, <1>8, <1>9, <1>10, <1>11, <1>12, <1>13, <1>14,
     <1>15, <1>16 DEF WorkerStep

\* What goroutines share keeps a goroutine of each kind among its labels.
LEMMA CommonStaysPlain ==
    ASSUME FollowedCalls, TypeOK, PlainInv, NEW p \in Proc, CommonStep(p)
    PROVE  StaysPlain(p)
<1>p. /\ ~(p \in Client /\ p \in Worker) /\ ~(p \in Client /\ p \in Boot)
      /\ ~(p \in Worker /\ p \in Boot) /\ (p \in Client \/ p \in Worker \/ p \in Boot)
  BY ProcAssumption DEF Proc
<1>a. loc[p].op # "RunQueuedJob"
  BY DEF TypeOK, ProcOK, Locals, FollowedCalls
<1>t. pc \in [Proc -> Label] /\ loc \in [Proc -> Locals] /\ sem \in [Runtime -> BOOLEAN]
  BY DEF TypeOK, ProcOK, EngineOK
<1>i. OwnLabel(p) /\ OwnFlag(p)
  BY DEF PlainInv
<1> USE <1>p, <1>a, <1>t, <1>i
<1> USE DEF StaysPlain, OnlyMoves, OwnLabel, OwnFlag, Loads, TriggerLabel, InRun,
        NextLabel, PlainCall, PrepareLabel, Goto, Local, Return, At, NoLoc,
        store, engine
<1>1. CASE IncrementSummary(p)
  <2>1. /\ loc'[p] = NoLoc \/ loc'[p] = [loc[p] EXCEPT !.incr = NoIncr]
        /\ \A q \in Proc \ {p} : pc'[q] = pc[q] /\ loc'[q] = loc[q]
        /\ UNCHANGED <<hold, loading, sem, armed, tick>>
    BY <1>1 DEF IncrementSummary
  <2>2. loc'[p].op \in {"none", loc[p].op} /\ loc'[p].flag \in {FALSE, loc[p].flag}
    <3>1. loc[p] \in Locals
      OBVIOUS
    <3>2. [loc[p] EXCEPT !.incr = NoIncr].op = loc[p].op
      BY <3>1 DEF Locals
    <3>3. [loc[p] EXCEPT !.incr = NoIncr].flag = loc[p].flag
      BY <3>1 DEF Locals
    <3>4. NoLoc.op = "none" /\ NoLoc.flag = FALSE
      OBVIOUS
    <3>q. QED
      BY <2>1, <3>2, <3>3, <3>4, Zenon
  <2>3. CASE pc'[p] = "idle"
    <3>1. pc[p] \in {"incrDelete", "incrAdd"}
      BY <1>1, <2>3 DEF IncrementSummary, AfterIncrement
    <3>2. p \in Client
      BY <3>1
    <3>q. QED
      BY <2>1, <2>3, <3>1, <3>2
  <2>4. CASE pc'[p] # "idle"
    <3>1. pc'[p] = AfterIncrement(pc[p]) /\ (loc[p].flag => loc'[p].flag)
      BY <1>1, <2>4, <1>t DEF IncrementSummary, Locals
    <3>q. QED
      BY <1>1, <2>1, <2>2, <2>4, <3>1 DEF IncrementSummary, AfterIncrement
  <2>q. QED
    BY <2>3, <2>4
<1>2. CASE StreamPush(p)
  <2>1. CASE loc[p].todo = {}
    BY <1>2, <2>1 DEF StreamPush
  <2>2. CASE loc[p].todo # {}
    BY <1>2, <2>2 DEF StreamPush, Locals
  <2>q. QED
    BY <2>1, <2>2
<1>3. CASE NextPeek(p)
  BY <1>3 DEF NextPeek, Locals
<1>4. CASE NextFind(p)
  BY <1>4 DEF NextFind
<1>5. CASE NextPop(p)
  BY <1>5 DEF NextPop, Locals
<1>6. CASE NextStream(p)
  BY <1>6 DEF NextStream, Locals
<1>7. CASE RegisterJobToWorker(p)
  BY <1>7 DEF RegisterJobToWorker
<1>8. CASE UnlockTaskCount(p)
  BY <1>8 DEF UnlockTaskCount
<1>9. CASE UnlockTaskDel(p)
  BY <1>9 DEF UnlockTaskDel
<1>10. CASE CountMatched(p)
  <2>1. /\ OnlyMoves(p) /\ pc' = pc /\ UNCHANGED <<hold, loading, sem, armed, tick>>
        /\ loc'[p].op = loc[p].op /\ loc'[p].flag = loc[p].flag /\ pc[p] # "idle"
    <3>1. ProcOK
      BY DEF TypeOK
    <3>2. pc[p] # "idle"
      BY <1>10 DEF CountMatched, UpdatesJob, Reached
    <3>q. QED
      BY <1>10, <3>1, <3>2, CountKeeps
  <2>q. QED
    BY <2>1
<1>q. QED
  BY <1>1, <1>2, <1>3, <1>4, <1>5, <1>6, <1>7, <1>8, <1>9, <1>10 DEF CommonStep

\* The calls that are not made
LEMMA OtherCalls ==
    ASSUME FollowedCalls, NEW p
    PROVE  /\ \A j \in Job : ~StopJob(p, j)
           /\ ~HoldJobTask(p) /\ ~StopAllJob(p) /\ ~RetryAllJob(p) /\ ~CleanJob(p)
           /\ ~RunQueuedJob(p)
BY DEF FollowedCalls, Call, StopJob, HoldJobTask, StopAllJob, RetryAllJob, CleanJob, RunQueuedJob

\* Calls start when prepare is over, and AddJob reads a task that is neither held nor loading.
LEMMA ClientStaysPlain ==
    ASSUME OneRuntime, ~EarlyCalls, FollowedCalls, TypeOK, PlainInv, NEW p \in Client,
           ClientStep(p) \/ ClientCall(p)
    PROVE  StaysPlain(p)
<1>p. p \in Proc /\ p \notin Worker /\ p \notin Boot /\ Boot \in SUBSET Proc
  BY ProcAssumption DEF Proc
<1>o. /\ \A j \in Job : ~StopJob(p, j)
      /\ ~HoldJobTask(p) /\ ~StopAllJob(p) /\ ~RetryAllJob(p) /\ ~CleanJob(p) /\ ~RunQueuedJob(p)
  BY OtherCalls
<1>t. pc \in [Proc -> Label] /\ loc \in [Proc -> Locals] /\ sem \in [Runtime -> BOOLEAN]
  BY DEF TypeOK, ProcOK, EngineOK
<1>i. OwnLabel(p) /\ OwnFlag(p)
  BY <1>p DEF PlainInv
<1>h. pc[p] # "idle" => ~hold /\ ~loading
  BY <1>p DEF PlainInv, NotSetAside, BootFirst, PrepareLabel
<1>b. ClientCall(p) => \A b \in Boot : pc[b] = "idle"
  BY <1>p DEF ClientCall, OneRuntime
<1> USE <1>p, <1>t, <1>i DEF StaysPlain, OnlyMoves, OwnLabel, OwnFlag, Loads, TriggerLabel, InRun,
        NextLabel, PlainCall, PrepareLabel, Goto, Local, Return, At, NoLoc,
        store, engine
<1>1. CASE ClientCall(p)
  <2> USE <1>b, <1>1
  <2>1. CASE AddJob(p)
    BY <2>1 DEF AddJob
  <2>2. CASE \E j \in Job : RetryJob(p, j)
    BY <2>2 DEF RetryJob, Call, Found
  <2>3. CASE \E j \in Job : DeleteJob(p, j)
    BY <2>3 DEF DeleteJob, Call
  <2>4. CASE RecalculateSummary(p)
    BY <2>4 DEF RecalculateSummary, Call
  <2>5. CASE \E j \in Job : DeleteSelect(p, j)
    BY <2>5 DEF DeleteSelect, Call
  <2>q. QED
    BY <1>1, <1>o, <2>1, <2>2, <2>3, <2>4, <2>5 DEF ClientCall
<1>2. CASE AddSummary(p)
  BY <1>2, <1>h DEF AddSummary, Locals
<1>3. CASE AddSave(p)
  BY <1>3 DEF AddSave, Locals
<1>4. CASE AddPush(p)
  BY <1>4 DEF AddPush
<1>5. CASE AddSemaphore(p)
  BY <1>5 DEF AddSemaphore
<1>6. CASE AddHasBeenLocked(p)
  BY <1>6 DEF AddHasBeenLocked
<1>7. CASE RetryUnlock(p)
  BY <1>7 DEF RetryUnlock
<1>8. CASE RetrySave(p)
  <2>1. PICK i : loc' = [loc EXCEPT ![p] = Updated(p, i)]
    BY <1>8 DEF RetrySave
  <2>2. loc'[p].op = loc[p].op /\ loc'[p].flag = loc[p].flag
    BY <2>1, UpdatedKeeps DEF TypeOK
  <2>3. /\ pc' = [pc EXCEPT ![p] = "incrRetry"] /\ pc[p] = "retrySave"
        /\ UNCHANGED <<hold, loading, sem, armed, tick>>
    BY <1>8 DEF RetrySave
  <2>q. QED
    BY <2>1, <2>2, <2>3
<1>9. CASE RetryPush(p)
  BY <1>9 DEF RetryPush
<1>10. CASE StopTask(p)
  BY <1>10 DEF StopTask
<1>11. CASE StopSave(p)
  BY <1>11 DEF StopSave
<1>12. CASE HoldFlip(p)
  BY <1>12 DEF HoldFlip
<1>13. CASE RecalculateSave(p)
  BY <1>13 DEF RecalculateSave
<1>14. CASE UpdateSummary(p)
  BY <1>14 DEF UpdateSummary
<1>15. CASE BulkStream(p)
  BY <1>15 DEF BulkStream
<1>16. CASE Bulk(p)
  BY <1>16 DEF Bulk, BulkUpdate, BulkClean
<1>17. CASE StopAllClear(p)
  BY <1>17 DEF StopAllClear
<1>18. CASE DeleteRow(p)
  BY <1>18 DEF DeleteRow
<1>q. QED
  BY <1>1, <1>2, <1>3, <1>4, <1>5, <1>6, <1>7, <1>8, <1>9, <1>10, <1>11, <1>12, <1>13, <1>14, <1>18,
     <1>15, <1>16, <1>17 DEF ClientStep

\* prepare goes on by itself, and loads what it has counted.
LEMMA BootStaysPlain ==
    ASSUME TypeOK, PlainInv, NEW p \in Boot, BootStep(p)
    PROVE  StaysPlain(p)
<1>p. p \in Proc /\ p \notin Worker /\ p \notin Client
  BY ProcAssumption DEF Proc
<1>t. pc \in [Proc -> Label] /\ loc \in [Proc -> Locals] /\ sem \in [Runtime -> BOOLEAN]
  BY DEF TypeOK, ProcOK, EngineOK
<1>i. OwnLabel(p) /\ OwnFlag(p)
  BY <1>p DEF PlainInv
<1> USE <1>p, <1>t, <1>i DEF StaysPlain, OnlyMoves, OwnLabel, OwnFlag, Loads, TriggerLabel, InRun,
        NextLabel, PlainCall, PrepareLabel, Goto, Local, Return, At, NoLoc,
        store, engine
<1>1. CASE PrepareNext(p)
  <2>1. CASE loc[p].todo = {}
    BY <1>1, <2>1 DEF PrepareNext
  <2>2. CASE loc[p].todo # {}
    <3>1. PICK it \in [id : Job, st : Status] :
            /\ OnlyMoves(p) /\ loc'[p].op = loc[p].op /\ loc'[p].flag = loc[p].flag
            /\ pc'[p] \in {"prepPush", "incrPrepare"}
      BY <1>1, <2>2, PrepareTakes
    <3>q. QED
      BY <1>1, <3>1 DEF PrepareNext
  <2>q. QED
    BY <2>1, <2>2
<1>2. CASE PrepareReset(p)
  BY <1>2 DEF PrepareReset
<1>3. CASE PrepareClear(p)
  BY <1>3 DEF PrepareClear
<1>4. CASE PrepareCount(p)
  BY <1>4 DEF PrepareCount, Locals
<1>5. CASE PrepareSummary(p)
  BY <1>5 DEF PrepareSummary, Locals
<1>6. CASE PrepareStream(p)
  BY <1>6 DEF PrepareStream, Locals
<1>7. CASE PreparePush(p)
  BY <1>7 DEF PreparePush
<1>8. CASE PrepareLoaded(p)
  BY <1>8 DEF PrepareLoaded, Locals
<1>q. QED
  BY <1>1, <1>2, <1>3, <1>4, <1>5, <1>6, <1>7, <1>8 DEF BootStep

\* With one runtime, every goroutine lives in it.
LEMMA AllHere ==
    ASSUME OneRuntime, NEW r \in Runtime
    PROVE  \A p \in Proc : Home[p] = r
<1>1. PICK b \in Boot : Home[b] = r
  BY BootAssumption
<1>q. QED
  BY <1>1 DEF OneRuntime, Proc

\* A ticker that is there fires when prepare is over; after a crash prepare is alone again.
LEMMA RuntimeKeepsPlain ==
    ASSUME OneRuntime, TypeOK, PlainInv, NEW r \in Runtime, TickerFires(r) \/ Crash(r)
    PROVE  PlainInv'
<1>t. /\ Worker \in SUBSET Proc /\ Client \in SUBSET Proc /\ Boot \in SUBSET Proc
      /\ armed \in [Runtime -> BOOLEAN] /\ tick \in [Runtime -> BOOLEAN]
      /\ sem \in [Runtime -> BOOLEAN] /\ Home \in [Proc -> Runtime]
  BY ProcAssumption DEF TypeOK, EngineOK, Proc
<1>h. \A p \in Proc : Home[p] = r
  BY AllHere
<1>1. CASE TickerFires(r)
  <2>1. UNCHANGED <<pc, loc, hold, loading, armed, sem>>
    BY <1>1 DEF TickerFires, store
  <2>2. armed[r] /\ tick' = [tick EXCEPT ![r] = TRUE]
    BY <1>1 DEF TickerFires
  <2>3. BootFirst'
    BY <1>t, <1>h, <2>1, <2>2 DEF PlainInv, BootFirst
  <2>q. QED
    BY <2>1, <2>3 DEF PlainInv, OwnLabel, OwnFlag, NotSetAside, SemHeld
<1>2. CASE Crash(r)
  <2>1. \A p \in Proc : /\ pc'[p] = IF p \in Boot THEN "prepReset" ELSE "idle"
                        /\ loc'[p] = NoLoc
    BY <1>2, <1>h DEF Crash
  <2>2. \A b, c \in Boot : b = c
    BY <1>t, <1>h, BootAssumption
  <2>3. ~armed'[r] /\ ~tick'[r] /\ ~sem'[r] /\ UNCHANGED <<hold, loading>>
    BY <1>2, <1>t DEF Crash, store
  <2>4. \A s \in Runtime : s = r
    BY <1>t, <1>h, BootAssumption
  <2>5. \A p \in Proc : OwnLabel(p)' /\ OwnFlag(p)'
    BY <2>1, ProcAssumption DEF OwnLabel, OwnFlag, NoLoc, PlainCall, PrepareLabel, Loads
  <2>6. BootFirst'
    BY <1>t, <1>h, <2>1, <2>2, <2>3 DEF BootFirst
  <2>7. NotSetAside'
    <3>1. PICK b \in Boot : Home[b] = r
      BY BootAssumption
    <3>2. pc'[b] \in PrepareLabel
      BY <1>t, <2>1, <3>1 DEF PrepareLabel
    <3>q. QED
      BY <2>3, <3>2 DEF PlainInv, NotSetAside
  <2>8. SemHeld'
    BY <2>3, <2>4 DEF SemHeld
  <2>q. QED
    BY <2>5, <2>6, <2>7, <2>8 DEF PlainInv
<1>q. QED
  BY <1>1, <1>2

\* The invariant holds in one runtime whose clients wait for prepare and make only those calls.
LEMMA PlainHolds ==
    ASSUME OneRuntime, ~EarlyCalls, FollowedCalls
    PROVE  Spec => []PlainInv
<1>1. Init => PlainInv
  <2> SUFFICES ASSUME Init PROVE PlainInv
    OBVIOUS
  <2>1. /\ Worker \in SUBSET Proc /\ Client \in SUBSET Proc /\ Boot \in SUBSET Proc
        /\ Home \in [Proc -> Runtime]
    BY ProcAssumption DEF Proc
  <2>2. \A p \in Proc : /\ pc[p] = IF p \in Boot THEN "prepReset" ELSE "idle"
                        /\ loc[p] = NoLoc
    BY DEF Init
  <2>3. \A p \in Proc : OwnLabel(p) /\ OwnFlag(p)
    BY <2>2, ProcAssumption DEF OwnLabel, OwnFlag, NoLoc, PlainCall, PrepareLabel, Loads
  <2>4. \A b, c \in Boot : b = c
    BY <2>1, BootAssumption DEF OneRuntime
  <2>5. BootFirst
    BY <2>1, <2>2, <2>4 DEF Init, BootFirst
  <2>6. NotSetAside /\ SemHeld
    BY DEF Init, NotSetAside, SemHeld
  <2>q. QED
    BY <2>3, <2>5, <2>6 DEF PlainInv
<1>2. TypeOK /\ PlainInv /\ [Next]_vars => PlainInv'
  <2> SUFFICES ASSUME TypeOK, PlainInv, [Next]_vars PROVE PlainInv'
    OBVIOUS
  <2>1. CASE UNCHANGED vars
    BY <2>1 DEF vars, store, engine, PlainInv, OwnLabel, OwnFlag, BootFirst, NotSetAside, SemHeld
  <2>2. ASSUME NEW p \in Worker, WorkerStep(p) PROVE PlainInv'
    BY <2>2, WorkerStaysPlain, StaysPlainKeeps DEF Proc
  <2>3. ASSUME NEW p \in Client, ClientStep(p) \/ ClientCall(p) PROVE PlainInv'
    BY <2>3, ClientStaysPlain, StaysPlainKeeps DEF Proc
  <2>4. ASSUME NEW p \in Boot, BootStep(p) PROVE PlainInv'
    BY <2>4, BootStaysPlain, StaysPlainKeeps DEF Proc
  <2>5. ASSUME NEW p \in Proc, CommonStep(p) PROVE PlainInv'
    BY <2>5, CommonStaysPlain, StaysPlainKeeps
  <2>6. ASSUME NEW r \in Runtime, TickerFires(r) \/ Crash(r) PROVE PlainInv'
    BY <2>6, RuntimeKeepsPlain
  <2>q. QED
    BY <2>1, <2>2, <2>3, <2>4, <2>5, <2>6 DEF Next
<1>q. QED
  BY <1>1, <1>2, TypeCorrect, PTL DEF Spec

-----------------------------------------------------------------------------
\* The jobs that are QUEUEING: who has them

\* j is in the queue, and not only at its head when the head is about to be removed.
Queued(j) ==
    \E i \in 1..Len(queue) : queue[i] = j /\ (i = 1 => \A p \in Proc : pc[p] # "nextPop")

\* p will push j, has read it to push it, or has popped it to run it.
Carries(p, j) ==
    \/ /\ pc[p] \in {"incrAdd", "addPush", "incrRetry", "retryPush", "find", "mark",
                     "incrPrepare", "prepPush"}
       /\ loc[p].job = j
    \/ pc[p] \in {"prepReset", "prepClear", "prepCount"}
    \/ pc[p] \in {"prepSummary", "prepStream"} /\ loc[p].flag
    \/ /\ pc[p] \in {"prepNext", "incrPrepare", "prepPush", "nextPush"}
       /\ [id |-> j, st |-> "QUEUEING"] \in loc[p].todo

\* Every job that is QUEUEING is in the queue, or on its way to it or from it.
Tracked == \A j \in Job : status[j] = "QUEUEING" => Queued(j) \/ \E p \in Proc : Carries(p, j)

\* registerNextJob has looked at the job that is still at the head of the queue.
HeadRead ==
    \A p \in Proc : pc[p] \in {"nextFind", "nextPop"} =>
        queue # << >> /\ loc[p].job = Head(queue)

\* A run that will set its job back to QUEUEING has pushed it.
Requeued ==
    \A p \in Worker : pc[p] = "finish" /\ loc[p].st = "QUEUEING" =>
        \E i \in 1..Len(queue) : queue[i] = loc[p].job

\* p will start a ticker, or ask a run to do so, when it finds a job in the queue.
Drives(p) ==
    \/ p \in Worker /\ pc[p] # "idle"
    \/ p \in Client /\ pc[p] = "register"
    \/ p \in Client /\ pc[p] = "addSemaphore" /\ loc[p].flag
    \/ p \in Boot /\ pc[p] \in {"prepReset", "prepClear"} \cup NextLabel
    \/ p \in Boot /\ pc[p] \in Loads \cup {"prepSummary", "prepLoaded"} /\ loc[p].flag

\* There is a ticker for the task, or its tick.
Ticking == \E r \in Runtime : armed[r] \/ tick[r]

\* A queue that is not empty has a ticker, or somebody who will start one.
Awake == queue # << >> => Ticking \/ \E p \in Proc : Drives(p)

QueueInv == Tracked /\ HeadRead /\ Requeued /\ Awake

\* While registerNextJob looks at the head of the queue and removes it, no run of the task takes
\* the head or ends with its job, and no other goroutine registers a job.
PopsUndisturbed ==
    \A p, q \in Proc :
        pc[p] \in {"nextFind", "nextPop"} /\ pc[q] \in {"nextFind", "nextPop", "pop", "finish"}
            => p = q

\* Where a goroutine relies on what is in the queue
Reading == {"nextFind", "nextPop", "finish"}

\* The queue stays as it is, or grows at its end.
Grows == queue' = queue \/ \E j \in Job : queue' = Append(queue, j)

\* A step of p leaves the task awake.
Wakes(p) ==
    queue' # << >> =>
        \/ Ticking' \/ Drives(p)'
        \/ \E q \in Proc \ {p} : Drives(q)
        \/ queue # << >> /\ ~Drives(p) /\ UNCHANGED <<armed, tick>>

\* After a step of p, each job that is QUEUEING is as well looked after as it was.
Minds(p) ==
    \A j \in Job : status'[j] = "QUEUEING" =>
        /\ status[j] = "QUEUEING" \/ Carries(p, j)' \/ Queued(j)'
        /\ Carries(p, j) => Carries(p, j)' \/ Queued(j)'
        /\ Queued(j) => Carries(p, j)' \/ Queued(j)'

\* A step of p that forgets no job
Remembers(p) ==
    /\ OnlyMoves(p) /\ Minds(p) /\ Wakes(p)
    /\ Grows \/ \A q \in Proc : pc'[q] \notin Reading
    /\ pc'[p] \in {"nextFind", "nextPop"} => queue' # << >> /\ loc'[p].job = Head(queue')
    /\ p \in Worker /\ pc'[p] = "finish" /\ loc'[p].st = "QUEUEING" =>
          \E i \in 1..Len(queue') : queue'[i] = loc'[p].job

\* What a queue that grows keeps
LEMMA GrowsKeeps ==
    ASSUME queue \in Seq(Job), Grows
    PROVE  /\ queue # << >> => queue' # << >> /\ Head(queue') = Head(queue)
           /\ \A i \in 1..Len(queue) : i \in 1..Len(queue') /\ queue'[i] = queue[i]
<1>1. CASE queue' = queue
  BY <1>1
<1>2. ASSUME NEW j \in Job, queue' = Append(queue, j)
      PROVE  /\ queue # << >> => queue' # << >> /\ Head(queue') = Head(queue)
             /\ \A i \in 1..Len(queue) : i \in 1..Len(queue') /\ queue'[i] = queue[i]
  BY <1>2
<1>q. QED
  BY <1>1, <1>2 DEF Grows

\* Such a step keeps the invariant.
LEMMA RemembersKeeps ==
    ASSUME queue \in Seq(Job), QueueInv, NEW p \in Proc, Remembers(p)
    PROVE  QueueInv'
<1>p. Worker \in SUBSET Proc
  BY DEF Proc
<1>o. \A q \in Proc \ {p} : pc'[q] = pc[q] /\ loc'[q] = loc[q]
  BY DEF Remembers, OnlyMoves
<1>1. Tracked'
  <2> SUFFICES ASSUME NEW j \in Job, status'[j] = "QUEUEING", ~Queued(j)'
               PROVE  \E q \in Proc : Carries(q, j)'
    BY DEF Tracked
  <2>1. CASE Carries(p, j)'
    BY <2>1
  <2>2. CASE ~Carries(p, j)'
    <3>1. PICK q \in Proc : Carries(q, j)
      BY <2>2 DEF Remembers, Minds, QueueInv, Tracked
    <3>2. q # p
      BY <2>2, <3>1 DEF Remembers, Minds
    <3>q. QED
      BY <1>o, <3>1, <3>2 DEF Carries
  <2>q. QED
    BY <2>1, <2>2
<1>2. HeadRead'
  <2> SUFFICES ASSUME NEW q \in Proc, pc'[q] \in {"nextFind", "nextPop"}
               PROVE  queue' # << >> /\ loc'[q].job = Head(queue')
    BY DEF HeadRead
  <2>1. CASE q = p
    BY <2>1 DEF Remembers
  <2>2. CASE q # p
    <3>1. queue # << >> /\ loc[q].job = Head(queue)
      BY <1>o, <2>2 DEF QueueInv, HeadRead
    <3>2. Grows
      BY DEF Remembers, Reading
    <3>q. QED
      BY <1>o, <2>2, <3>1, <3>2, GrowsKeeps
  <2>q. QED
    BY <2>1, <2>2
<1>3. Requeued'
  <2> SUFFICES ASSUME NEW q \in Worker, pc'[q] = "finish", loc'[q].st = "QUEUEING"
               PROVE  \E i \in 1..Len(queue') : queue'[i] = loc'[q].job
    BY DEF Requeued
  <2>1. CASE q = p
    BY <2>1 DEF Remembers
  <2>2. CASE q # p
    <3>1. \E i \in 1..Len(queue) : queue[i] = loc[q].job
      BY <1>o, <1>p, <2>2 DEF QueueInv, Requeued
    <3>2. Grows
      BY <1>p DEF Remembers, Reading
    <3>q. QED
      BY <1>o, <1>p, <2>2, <3>1, <3>2, GrowsKeeps
  <2>q. QED
    BY <2>1, <2>2
<1>4. Awake'
  <2> SUFFICES ASSUME queue' # << >>, ~Ticking', \A q \in Proc : ~Drives(q)'
               PROVE  FALSE
    BY DEF Awake
  <2>1. \A q \in Proc \ {p} : ~Drives(q)
    BY <1>o DEF Drives
  <2>2. queue # << >> /\ ~Drives(p) /\ UNCHANGED <<armed, tick>>
    BY <2>1 DEF Remembers, Wakes
  <2>3. Ticking
    BY <2>1, <2>2 DEF QueueInv, Awake
  <2>q. QED
    BY <2>2, <2>3 DEF Ticking
<1>q. QED
  BY <1>1, <1>2, <1>3, <1>4 DEF QueueInv

\* Where a goroutine has a job that is QUEUEING
CarryLabel ==
    {"incrAdd", "addPush", "incrRetry", "retryPush", "find", "mark", "incrPrepare", "prepPush",
     "prepReset", "prepClear", "prepCount", "prepSummary", "prepStream", "prepNext", "nextPush"}

\* A step of p that has nothing to do with the queue and makes no job QUEUEING
Aside(p) ==
    /\ OnlyMoves(p) /\ Wakes(p) /\ UNCHANGED queue
    /\ \A j \in Job : status'[j] = "QUEUEING" => status[j] = "QUEUEING"
    /\ pc[p] \notin CarryLabel /\ pc'[p] \notin Reading

\* A job in a queue that grows is still queued, and so is the job that is pushed.
LEMMA QueuedGrows ==
    ASSUME queue \in Seq(Job), HeadRead, NEW p \in Proc, OnlyMoves(p), Grows, pc'[p] # "nextPop"
    PROVE  /\ \A j : Queued(j) => Queued(j)'
           /\ \A j \in Job : queue' = Append(queue, j) => Queued(j)'
<1>1. \A q \in Proc : pc'[q] = "nextPop" => q # p /\ pc[q] = "nextPop"
  BY DEF OnlyMoves
<1>2. ASSUME NEW j, Queued(j)
      PROVE  Queued(j)'
  BY <1>1, <1>2, GrowsKeeps DEF Queued
<1>3. ASSUME NEW j \in Job, queue' = Append(queue, j)
      PROVE  Queued(j)'
  <2>1. Len(queue') = Len(queue) + 1 /\ queue'[Len(queue) + 1] = j /\ Len(queue) \in Nat
    BY <1>3
  <2>2. Len(queue) + 1 = 1 => queue = << >>
    OBVIOUS
  <2>3. Len(queue) + 1 = 1 => \A q \in Proc : pc'[q] # "nextPop"
    BY <1>1, <2>2 DEF HeadRead
  <2>q. QED
    BY <2>1, <2>3 DEF Queued
<1>q. QED
  BY <1>2, <1>3

\* Such a step forgets no job.
LEMMA AsideRemembers ==
    ASSUME queue \in Seq(Job), HeadRead, NEW p \in Proc, Aside(p)
    PROVE  Remembers(p)
<1>1. Grows /\ OnlyMoves(p) /\ pc'[p] # "nextPop"
  BY DEF Aside, Grows, Reading
<1>2. \A j : Queued(j) => Queued(j)'
  BY <1>1, QueuedGrows
<1>3. \A j \in Job : ~Carries(p, j)
  BY DEF Aside, CarryLabel, Carries
<1>4. Minds(p)
  BY <1>2, <1>3 DEF Aside, Minds
<1>q. QED
  BY <1>1, <1>4 DEF Aside, Remembers, Reading

\* Whoever takes a job off the queue, or ends with one, does so while nobody relies on the queue.
LEMMA Sole ==
    ASSUME OneRuntime, OneRunPerRuntime, PopsUndisturbed, PlainInv, NEW p \in Worker \cup Boot,
           pc[p] \in {"pop", "finish", "nextPop", "prepClear"}
    PROVE  \A q \in Proc \ {p} : pc[q] \notin Reading
<1>1. ASSUME NEW q \in Proc \ {p}, pc[q] \in Reading
      PROVE  FALSE
  <2>1. p \in Proc /\ q \in Proc /\ pc[q] # "idle" /\ pc[p] # "idle"
    BY <1>1 DEF Proc, Reading
  <2>2. CASE q \in Client
    BY <1>1, <2>1, <2>2 DEF PlainInv, OwnLabel, PlainCall, Reading
  <2>3. CASE q \in Boot \/ p \in Boot
    BY <1>1, <2>1, <2>3 DEF PlainInv, BootFirst
  <2>4. CASE q \in Worker /\ p \in Worker
    <3>1. pc[p] \in {"pop", "finish", "nextPop"}
      BY <2>4, ProcAssumption DEF PlainInv, OwnLabel, TriggerLabel, InRun, NextLabel, Proc
    <3>2. CASE pc[p] = "nextPop" \/ pc[q] \in {"nextFind", "nextPop"}
      BY <1>1, <2>1, <3>1, <3>2 DEF PopsUndisturbed, Reading
    <3>3. CASE pc[p] \in InRun /\ pc[q] \in InRun
      BY <1>1, <2>1, <2>4, <3>3 DEF OneRuntime, OneRunPerRuntime
    <3>q. QED
      BY <1>1, <3>1, <3>2, <3>3 DEF Reading, InRun
  <2>q. QED
    BY <1>1, <2>1, <2>2, <2>3, <2>4 DEF Proc
<1>q. QED
  BY <1>1

\* The head of the queue is taken away: the others are still queued when nobody is at nextPop.
LEMMA QueuedTail ==
    ASSUME queue \in Seq(Job), queue # << >>, queue' = Tail(queue),
           \A q \in Proc : pc'[q] # "nextPop", NEW j, Queued(j), j # Head(queue)
    PROVE  Queued(j)'
<1>1. PICK i \in 1..Len(queue) : queue[i] = j
  BY DEF Queued
<1>2. i # 1
  BY <1>1
<1>3. i - 1 \in 1..Len(queue') /\ queue'[i - 1] = j
  BY <1>1, <1>2
<1>q. QED
  BY <1>3 DEF Queued

\* A run has its job from ExecPop to ExecMark, and pushes it before it sets it back.
LEMMA WorkerRemembers ==
    ASSUME OneRuntime, OneRunPerRuntime, PopsUndisturbed, TypeOK, CancelInv,
           PlainInv, QueueInv, NEW p \in Worker, WorkerStep(p)
    PROVE  Remembers(p)
<1>p. p \in Proc /\ p \notin Client /\ p \notin Boot
  BY ProcAssumption DEF Proc
<1>t. /\ pc \in [Proc -> Label] /\ loc \in [Proc -> Locals] /\ queue \in Seq(Job)
      /\ status \in [Job -> Status \cup {"NONE", "DELETED"}]
  BY DEF TypeOK, ProcOK, StoreOK
<1>j. pc[p] \in HasJob => loc[p].job \in Job
  BY <1>p DEF TypeOK, ProcOK
<1>h. ~hold
  BY DEF PlainInv, NotSetAside
<1>d. pc'[p] # "idle" => Wakes(p)
  BY DEF Wakes, Drives
<1>s. pc[p] \in {"pop", "finish"} => \A q \in Proc \ {p} : pc[q] \notin Reading
  BY Sole
<1>n. Grows /\ OnlyMoves(p) /\ pc'[p] # "nextPop" =>
            /\ \A j : Queued(j) => Queued(j)'
            /\ \A j \in Job : queue' = Append(queue, j) => Queued(j)'
  BY <1>p, <1>t, QueuedGrows DEF QueueInv
<1>1. CASE ExecPop(p) /\ queue # << >>
  <2>1. /\ OnlyMoves(p) /\ pc[p] = "pop" /\ pc'[p] = "find" /\ UNCHANGED status
        /\ queue' = Tail(queue) /\ loc'[p].job = Head(queue)
    BY <1>1, <1>p, <1>t DEF ExecPop, OnlyMoves, Goto, Local, At, store, Locals
  <2>2. \A q \in Proc : pc'[q] \notin Reading
    BY <1>s, <2>1 DEF OnlyMoves, Reading
  <2>3. \A j \in Job : ~Carries(p, j)
    BY <2>1 DEF Carries
  <2>4. ASSUME NEW j \in Job, Queued(j)
        PROVE  Queued(j)' \/ Carries(p, j)'
    <3>1. CASE j = Head(queue)
      BY <2>1, <3>1 DEF Carries
    <3>2. CASE j # Head(queue)
      BY <1>1, <1>t, <2>1, <2>2, <2>4, <3>2, QueuedTail DEF Reading
    <3>q. QED
      BY <3>1, <3>2
  <2>q. QED
    BY <1>d, <2>1, <2>2, <2>3, <2>4 DEF Remembers, Minds, Reading
<1>2. CASE ExecFind(p)
  <2>1. /\ OnlyMoves(p) /\ UNCHANGED <<status, queue>> /\ pc[p] = "find"
        /\ pc'[p] \in {"mark", "unlock"}
    BY <1>2, <1>p, <1>t DEF ExecFind, OnlyMoves, Goto, Local, At, store
  <2>2. ~done[p]
    BY <1>p, <2>1 DEF CancelInv, Cancellable
  <2>3. status[loc[p].job] = "QUEUEING" => pc'[p] = "mark" /\ loc'[p].job = loc[p].job
    BY <1>2, <1>p, <1>t, <2>2 DEF ExecFind, Goto, Local, Locals
  <2>4. \A j \in Job : status[j] = "QUEUEING" /\ Carries(p, j) => Carries(p, j)'
    BY <2>1, <2>3 DEF Carries
  <2>q. QED
    BY <1>d, <1>n, <2>1, <2>4 DEF Remembers, Minds, Grows, Reading
<1>3. CASE ExecMark(p)
  <2>1. OnlyMoves(p) /\ UNCHANGED queue /\ pc[p] = "mark" /\ pc'[p] = "incrMark"
    BY <1>3, <1>p, <1>t DEF ExecMark, OnlyMoves, Goto, Local, At
  <2>2. /\ \A j \in Job : status'[j] = "QUEUEING" => status[j] = "QUEUEING"
        /\ status'[loc[p].job] # "QUEUEING"
    BY <1>3, <1>j, <1>t, <2>1 DEF ExecMark, Exists, Status, HasJob
  <2>3. \A j \in Job : status'[j] = "QUEUEING" => ~Carries(p, j)
    BY <2>1, <2>2 DEF Carries
  <2>q. QED
    BY <1>d, <1>n, <2>1, <2>2, <2>3 DEF Remembers, Minds, Grows, Reading
<1>4. CASE ExecResult(p)
  <2>1. /\ OnlyMoves(p) /\ UNCHANGED <<status, queue>> /\ pc[p] = "handle"
        /\ pc'[p] \in {"requeue", "finish"}
    BY <1>4, <1>p, <1>t DEF ExecResult, OnlyMoves, Goto, Local, At, store
  <2>2. pc'[p] = "finish" => loc'[p].st # "QUEUEING"
    BY <1>4, <1>p, <1>t DEF ExecResult, Goto, Local, Locals
  <2>3. \A j \in Job : ~Carries(p, j)
    BY <2>1 DEF Carries
  <2>q. QED
    BY <1>d, <1>n, <2>1, <2>2, <2>3 DEF Remembers, Minds, Grows
<1>5. CASE ExecRequeue(p)
  <2>1. /\ OnlyMoves(p) /\ UNCHANGED <<status, loc>> /\ pc[p] = "requeue" /\ pc'[p] = "finish"
        /\ queue' = Append(queue, loc[p].job) /\ loc[p].job \in Job
    BY <1>5, <1>j, <1>p, <1>t DEF ExecRequeue, OnlyMoves, Goto, At, store, HasJob
  <2>2. \A j \in Job : ~Carries(p, j)
    BY <2>1 DEF Carries
  <2>3. Len(queue) + 1 \in 1..Len(queue') /\ queue'[Len(queue) + 1] = loc'[p].job
    BY <1>t, <2>1
  <2>q. QED
    BY <1>d, <1>n, <2>1, <2>2, <2>3 DEF Remembers, Minds, Grows
<1>6. CASE ExecFinish(p)
  <2>1. OnlyMoves(p) /\ UNCHANGED queue /\ pc[p] = "finish" /\ pc'[p] = "incrFinish"
    BY <1>6, <1>p, <1>t DEF ExecFinish, OnlyMoves, Goto, Local, At
  <2>2. \A q \in Proc : pc'[q] # "nextPop"
    BY <1>s, <2>1 DEF OnlyMoves, Reading
  <2>3. ASSUME NEW j \in Job, status'[j] = "QUEUEING", status[j] # "QUEUEING"
        PROVE  Queued(j)'
    <3>1. j = loc[p].job /\ loc[p].st = "QUEUEING"
      BY <1>6, <1>t, <2>3 DEF ExecFinish, Exists
    <3>2. \E i \in 1..Len(queue) : queue[i] = j
      BY <2>1, <3>1 DEF QueueInv, Requeued
    <3>q. QED
      BY <2>1, <2>2, <3>2 DEF Queued
  <2>4. \A j \in Job : ~Carries(p, j)
    BY <2>1 DEF Carries
  <2>q. QED
    BY <1>d, <1>n, <2>1, <2>3, <2>4 DEF Remembers, Minds, Grows, Reading
<1>7. ASSUME WorkerStep(p), ~(ExecPop(p) /\ queue # << >>), ~ExecFind(p), ~ExecMark(p),
             ~ExecResult(p), ~ExecRequeue(p), ~ExecFinish(p)
      PROVE  Aside(p)
  <2> USE <1>p, <1>t, <1>d DEF Aside, OnlyMoves, CarryLabel, Reading, Goto, Local, Return, At, store
  <2>1. CASE Serve(p)
    BY <2>1 DEF Serve
  <2>2. CASE TriggerStop(p)
    BY <2>2 DEF TriggerStop
  <2>3. CASE TriggerHold(p)
    BY <2>3, <1>h DEF TriggerHold
  <2>4. CASE TriggerAcquire(p)
    BY <2>4 DEF TriggerAcquire
  <2>5. CASE RunBegin(p)
    BY <2>5 DEF RunBegin
  <2>6. CASE RunLock(p)
    BY <2>6 DEF RunLock
  <2>7. CASE ExecPop(p)
    BY <1>7, <2>7 DEF ExecPop
  <2>8. CASE ExecCancelled(p)
    BY <2>8 DEF ExecCancelled
  <2>9. CASE RunUnlock(p)
    BY <2>9 DEF RunUnlock
  <2>10. CASE RunRelease(p)
    BY <2>10 DEF RunRelease
  <2>11. CASE RunCancel(p)
    BY <2>11 DEF RunCancel
  <2>q. QED
    BY <1>7, <2>1, <2>2, <2>3, <2>4, <2>5, <2>6, <2>7, <2>8, <2>9, <2>10, <2>11 DEF WorkerStep
<1>q. QED
  BY <1>p, <1>t, <1>1, <1>2, <1>3, <1>4, <1>5, <1>6, <1>7, AsideRemembers DEF QueueInv

\* A job that a goroutine is about to push stays with it while it counts the job.
LEMMA IncrementRemembers ==
    ASSUME TypeOK, PlainInv, QueueInv, NEW p \in Proc, IncrementSummary(p)
    PROVE  Remembers(p)
<1>t. /\ pc \in [Proc -> Label] /\ loc \in [Proc -> Locals] /\ queue \in Seq(Job)
  BY DEF TypeOK, ProcOK, StoreOK
<1>p. /\ ~(p \in Client /\ p \in Worker) /\ ~(p \in Client /\ p \in Boot)
      /\ ~(p \in Worker /\ p \in Boot) /\ (p \in Client \/ p \in Worker \/ p \in Boot)
  BY ProcAssumption DEF Proc
<1>1. /\ OnlyMoves(p) /\ UNCHANGED <<status, queue, armed, tick>>
      /\ pc[p] \in {"incrMark", "incrFinish", "incrRetry", "incrPrepare", "incrAdd", "incrDelete"}
  <2>1. OnlyMoves(p) /\ UNCHANGED <<status, queue, armed, tick>>
    BY <1>t DEF IncrementSummary, OnlyMoves, Goto, Local, Return, engine
  <2>2. pc[p] \in {"incrMark", "incrFinish", "incrRetry", "incrPrepare", "incrAdd", "incrDelete"}
    BY <1>p DEF IncrementSummary, PlainInv, OwnLabel, TriggerLabel, InRun, NextLabel, PlainCall,
       PrepareLabel
  <2>q. QED
    BY <2>1, <2>2
<1>2. /\ pc[p] \in {"incrRetry", "incrPrepare", "incrAdd"} =>
            /\ loc'[p].job = loc[p].job /\ loc'[p].todo = loc[p].todo /\ loc'[p].flag = loc[p].flag
            /\ pc[p] = "incrRetry" => pc'[p] = "retryPush"
            /\ pc[p] = "incrPrepare" => pc'[p] = "prepPush"
            /\ pc[p] = "incrAdd" => pc'[p] = "addPush"
      /\ pc[p] = "incrMark" => pc'[p] = "handle"
      /\ pc[p] = "incrFinish" => pc'[p] = "unlock"
      /\ pc[p] = "incrDelete" => pc'[p] = "idle"
  <2>1. pc[p] = "incrAdd" => ~loc[p].flag
    BY <1>p DEF PlainInv, OwnLabel, OwnFlag, TriggerLabel, InRun, NextLabel, PrepareLabel
  <2>2. CASE pc[p] = "incrDelete"
    BY <1>t, <2>2 DEF IncrementSummary, Return, Goto, At
  <2>3. CASE pc[p] # "incrDelete"
    <3>1. /\ loc' = [loc EXCEPT ![p] = [loc[p] EXCEPT !.incr = NoIncr]]
          /\ pc' = [pc EXCEPT ![p] = AfterIncrement(pc[p])]
      BY <2>1, <2>3 DEF IncrementSummary, Goto, Local, At
    <3>2. /\ loc'[p].job = loc[p].job /\ loc'[p].todo = loc[p].todo
          /\ loc'[p].flag = loc[p].flag
      BY <1>t, <3>1 DEF Locals
    <3>3. pc'[p] = AfterIncrement(pc[p])
      BY <1>t, <3>1
    <3>q. QED
      BY <1>1, <2>3, <3>2, <3>3 DEF AfterIncrement
  <2>q. QED
    BY <2>2, <2>3
<1>3. \A j \in Job : Carries(p, j) => Carries(p, j)'
  BY <1>1, <1>2 DEF Carries
<1>4. \A j \in Job : Queued(j) => Queued(j)'
  BY <1>1, <1>2, <1>t, QueuedGrows DEF Grows, QueueInv
<1>5. Wakes(p)
  <2>1. CASE p \in Worker
    <3>1. pc[p] \in {"incrMark", "incrFinish"}
      BY <1>1, <2>1 DEF PlainInv, OwnLabel, TriggerLabel, InRun, NextLabel
    <3>q. QED
      BY <1>2, <2>1, <3>1 DEF Wakes, Drives
  <2>2. CASE p \in Client
    BY <1>1, <1>p, <2>2 DEF Wakes, Drives
  <2>3. CASE p \in Boot
    <3>1. pc[p] = "incrPrepare"
      BY <1>1, <2>3 DEF PlainInv, OwnLabel, NextLabel, PrepareLabel
    <3>2. loc[p].flag
      BY <2>3, <3>1 DEF PlainInv, OwnFlag, Loads
    <3>q. QED
      BY <1>2, <2>3, <3>1, <3>2 DEF Wakes, Drives, Loads
  <2>q. QED
    BY <1>p, <2>1, <2>2, <2>3
<1>q. QED
  BY <1>1, <1>2, <1>3, <1>4, <1>5 DEF Remembers, Minds, Grows

(***************************************************************************)
(* registerNextJob removes only a head that it has found not QUEUEING, and *)
(* nobody has put another job there; it returns when the queue is empty.   *)
(***************************************************************************)
LEMMA CommonRemembers ==
    ASSUME OneRuntime, OneRunPerRuntime, PopsUndisturbed, TypeOK, PlainInv,
           QueueInv, NEW p \in Proc, CommonStep(p)
    PROVE  Remembers(p)
<1>t. /\ pc \in [Proc -> Label] /\ loc \in [Proc -> Locals] /\ queue \in Seq(Job)
      /\ status \in [Job -> Status \cup {"NONE", "DELETED"}]
      /\ armed \in [Runtime -> BOOLEAN] /\ Home[p] \in Runtime
  BY ProcAssumption DEF TypeOK, ProcOK, StoreOK, EngineOK
<1>p. /\ ~(p \in Client /\ p \in Worker) /\ ~(p \in Client /\ p \in Boot)
      /\ ~(p \in Worker /\ p \in Boot) /\ (p \in Client \/ p \in Worker \/ p \in Boot)
  BY ProcAssumption DEF Proc
<1>c. pc[p] \in NextLabel /\ pc[p] # "register" => p \in Worker \cup Boot
  BY <1>p DEF PlainInv, OwnLabel, PlainCall, NextLabel
<1>d. pc[p] \in NextLabel /\ pc[p] # "register" /\ pc'[p] \in NextLabel => Wakes(p)
  BY <1>c DEF Wakes, Drives, NextLabel
<1>s. pc[p] = "nextPop" => \A q \in Proc \ {p} : pc[q] \notin Reading
  BY <1>c, Sole DEF NextLabel
<1>n. Grows /\ OnlyMoves(p) /\ pc'[p] # "nextPop" =>
            /\ \A j : Queued(j) => Queued(j)'
            /\ \A j \in Job : queue' = Append(queue, j) => Queued(j)'
  BY <1>t, QueuedGrows DEF QueueInv
<1>1. CASE IncrementSummary(p)
  BY <1>1, IncrementRemembers
<1>2. CASE NextPeek(p)
  <2>1. OnlyMoves(p) /\ UNCHANGED <<status, queue>> /\ pc[p] = "nextPeek"
    BY <1>2, <1>t DEF NextPeek, OnlyMoves, Goto, Local, Return, At, store
  <2>2. \A j \in Job : ~Carries(p, j)
    BY <2>1 DEF Carries
  <2>3. CASE queue # << >>
    <3>1. pc'[p] = "nextFind" /\ loc'[p].job = Head(queue)
      BY <1>2, <1>t, <2>3 DEF NextPeek, Goto, Local, Locals
    <3>q. QED
      BY <1>d, <1>n, <2>1, <2>2, <2>3, <3>1 DEF Remembers, Minds, Grows, NextLabel
  <2>4. CASE queue = << >>
    <3>1. pc'[p] \in {"idle", "nextStream"}
      BY <1>2, <1>t, <2>4 DEF NextPeek, Goto, Return
    <3>2. Wakes(p)
      BY <2>1, <2>4 DEF Wakes
    <3>q. QED
      BY <1>n, <2>1, <2>2, <3>1, <3>2 DEF Remembers, Minds, Grows
  <2>q. QED
    BY <2>3, <2>4
<1>3. CASE NextFind(p) /\ status[loc[p].job] # "QUEUEING"
  <2>1. /\ OnlyMoves(p) /\ UNCHANGED <<status, queue, loc>> /\ pc[p] = "nextFind"
        /\ pc'[p] = "nextPop"
    BY <1>3, <1>t DEF NextFind, OnlyMoves, Goto, At, store
  <2>2. queue # << >> /\ loc[p].job = Head(queue)
    BY <2>1 DEF QueueInv, HeadRead
  <2>3. \A j \in Job : ~Carries(p, j)
    BY <2>1 DEF Carries
  <2>4. ASSUME NEW j \in Job, status[j] = "QUEUEING", Queued(j)
        PROVE  Queued(j)'
    <3>1. PICK i \in 1..Len(queue) : queue[i] = j
      BY <2>4 DEF Queued
    <3>2. i # 1
      BY <1>3, <2>2, <2>4, <3>1
    <3>q. QED
      BY <2>1, <3>1, <3>2 DEF Queued
  <2>5. Wakes(p)
    BY <1>d, <2>1 DEF NextLabel
  <2>q. QED
    BY <2>1, <2>2, <2>3, <2>4, <2>5 DEF Remembers, Minds, Grows
<1>4. CASE NextPop(p)
  <2>1. OnlyMoves(p) /\ UNCHANGED status /\ pc[p] = "nextPop" /\ pc'[p] = "nextPeek"
    BY <1>4, <1>t DEF NextPop, OnlyMoves, Goto, Local, At, store
  <2>2. queue # << >> /\ queue' = Tail(queue)
    BY <1>4, <2>1 DEF NextPop, QueueInv, HeadRead
  <2>3. \A j \in Job : ~Carries(p, j)
    BY <2>1 DEF Carries
  <2>4. \A q \in Proc : pc'[q] \notin Reading
    BY <1>s, <2>1 DEF OnlyMoves, Reading
  <2>5. ASSUME NEW j \in Job, Queued(j)
        PROVE  Queued(j)'
    <3>1. PICK i \in 1..Len(queue) : queue[i] = j /\ i # 1
      BY <2>1, <2>5 DEF Queued
    <3>2. i - 1 \in 1..Len(queue') /\ queue'[i - 1] = j
      BY <1>t, <2>2, <3>1
    <3>q. QED
      BY <2>4, <3>2 DEF Queued, Reading
  <2>6. Wakes(p)
    BY <1>d, <2>1 DEF NextLabel
  <2>q. QED
    BY <2>1, <2>3, <2>4, <2>5, <2>6 DEF Remembers, Minds, Reading
<1>5. CASE StreamPush(p)
  <2>1. OnlyMoves(p) /\ UNCHANGED status /\ pc[p] = "nextPush"
    <3>1. pc[p] = "nextPush"
      BY <1>5, <1>p DEF StreamPush, PlainInv, OwnLabel, TriggerLabel, InRun, NextLabel, PlainCall,
         PrepareLabel
    <3>2. CASE loc[p].todo = {}
      BY <1>5, <1>t, <3>1, <3>2 DEF StreamPush, OnlyMoves, Goto
    <3>3. CASE loc[p].todo # {}
      BY <1>5, <1>t, <3>1, <3>3 DEF StreamPush, OnlyMoves, Local
    <3>q. QED
      BY <3>1, <3>2, <3>3
  <2>2. CASE loc[p].todo = {}
    <3>1. UNCHANGED queue /\ pc'[p] = "nextPeek"
      BY <1>5, <1>t, <2>1, <2>2 DEF StreamPush, Goto, At
    <3>2. \A j \in Job : ~Carries(p, j)
      BY <2>1, <2>2 DEF Carries
    <3>3. Wakes(p)
      BY <1>d, <2>1, <3>1 DEF NextLabel
    <3>q. QED
      BY <1>n, <2>1, <3>1, <3>2, <3>3 DEF Remembers, Minds, Grows
  <2>3. CASE loc[p].todo # {}
    <3>1. PICK it \in loc[p].todo :
            /\ queue' = Append(queue, it.id)
            /\ loc' = [loc EXCEPT ![p] = [loc[p] EXCEPT !.todo = loc[p].todo \ {it}]]
      BY <1>5, <2>1, <2>3 DEF StreamPush, Local
    <3>2. loc'[p].todo = loc[p].todo \ {it} /\ it.id \in Job
      BY <1>t, <3>1 DEF Locals
    <3>3. pc' = pc
      BY <1>5, <2>3 DEF StreamPush
    <3>4. Grows /\ (\A j : Queued(j) => Queued(j)') /\ Queued(it.id)'
      BY <1>n, <2>1, <3>1, <3>2, <3>3 DEF Grows
    <3>5. ASSUME NEW j \in Job, Carries(p, j)
          PROVE  Carries(p, j)' \/ Queued(j)'
      <4>1. [id |-> j, st |-> "QUEUEING"] \in loc[p].todo
        BY <2>1, <3>5 DEF Carries
      <4>2. CASE it = [id |-> j, st |-> "QUEUEING"]
        BY <3>4, <4>2
      <4>3. CASE it # [id |-> j, st |-> "QUEUEING"]
        BY <2>1, <3>2, <3>3, <4>1, <4>3 DEF Carries
      <4>q. QED
        BY <4>2, <4>3
    <3>6. Wakes(p)
      BY <1>d, <2>1, <3>3 DEF NextLabel
    <3>q. QED
      BY <2>1, <3>3, <3>4, <3>5, <3>6 DEF Remembers, Minds
  <2>q. QED
    BY <2>2, <2>3
<1>7. CASE CountMatched(p)
  <2>1. /\ OnlyMoves(p) /\ pc' = pc /\ UNCHANGED <<status, queue, armed, tick>>
        /\ loc'[p].job = loc[p].job /\ loc'[p].st = loc[p].st /\ loc'[p].flag = loc[p].flag
        /\ loc'[p].todo = loc[p].todo
    BY <1>7, CountKeeps DEF TypeOK, store, engine
  <2>2. \A j \in Job : /\ Carries(p, j) => Carries(p, j)'
                       /\ Queued(j) => Queued(j)'
    BY <2>1 DEF Carries, Queued
  <2>3. Wakes(p)
    <3>1. Drives(p)' <=> Drives(p)
      BY <2>1 DEF Drives
    <3>q. QED
      BY <2>1, <3>1 DEF Wakes
  <2>4. pc[p] \in {"nextFind", "nextPop"} => queue' # << >> /\ loc'[p].job = Head(queue')
    BY <2>1 DEF QueueInv, HeadRead
  <2>5. p \in Worker /\ pc[p] = "finish" /\ loc'[p].st = "QUEUEING" =>
            \E i \in 1..Len(queue') : queue'[i] = loc'[p].job
    BY <2>1 DEF QueueInv, Requeued
  <2>q. QED
    BY <2>1, <2>2, <2>3, <2>4, <2>5 DEF Remembers, Minds, Grows
<1>6. ASSUME CommonStep(p), ~CountMatched(p), ~IncrementSummary(p), ~NextPeek(p), ~NextPop(p),
             ~StreamPush(p), ~(NextFind(p) /\ status[loc[p].job] # "QUEUEING")
      PROVE  Aside(p)
  <2> USE <1>t DEF Aside, OnlyMoves, CarryLabel, Reading, Goto, Local, Return, At, store
  <2>1. CASE NextFind(p)
    BY <1>6, <1>d, <2>1 DEF NextFind, NextLabel
  <2>2. CASE NextStream(p)
    BY <1>d, <2>2 DEF NextStream, NextLabel
  <2>3. CASE RegisterJobToWorker(p)
    <3>1. Wakes(p)
      BY <2>3 DEF RegisterJobToWorker, Wakes, Ticking
    <3>q. QED
      BY <2>3, <3>1 DEF RegisterJobToWorker
  <2>4. CASE UnlockTaskCount(p) \/ UnlockTaskDel(p)
    <3>1. Wakes(p)
      <4>1. CASE p \in Worker
        BY <2>4, <4>1 DEF UnlockTaskCount, UnlockTaskDel, Wakes, Drives
      <4>2. CASE p \notin Worker
        BY <1>p, <2>4, <4>2 DEF UnlockTaskCount, UnlockTaskDel, Wakes, Drives, NextLabel, Loads,
           engine
      <4>q. QED
        BY <4>1, <4>2
    <3>2. CASE UnlockTaskCount(p)
      BY <3>1, <3>2 DEF UnlockTaskCount
    <3>3. CASE UnlockTaskDel(p)
      BY <3>1, <3>3 DEF UnlockTaskDel
    <3>q. QED
      BY <2>4, <3>2, <3>3
  <2>q. QED
    BY <1>6, <2>1, <2>2, <2>3, <2>4 DEF CommonStep
<1>q. QED
  BY <1>t, <1>1, <1>2, <1>3, <1>4, <1>5, <1>6, <1>7, AsideRemembers DEF QueueInv

(***************************************************************************)
(* AddJob registers a job only when it is the first of the queue and no    *)
(* run has the semaphore; otherwise the ticker, or the run, is there.      *)
(***************************************************************************)
LEMMA ClientRemembers ==
    ASSUME FollowedCalls, TypeOK, PlainInv, QueueInv, NEW p \in Client,
           ClientStep(p) \/ ClientCall(p)
    PROVE  Remembers(p)
<1>p. p \in Proc /\ p \notin Worker /\ p \notin Boot /\ Worker \in SUBSET Proc
  BY ProcAssumption DEF Proc
<1>o. /\ \A j \in Job : ~StopJob(p, j)
      /\ ~HoldJobTask(p) /\ ~StopAllJob(p) /\ ~RetryAllJob(p) /\ ~CleanJob(p) /\ ~RunQueuedJob(p)
  BY OtherCalls
<1>t. /\ pc \in [Proc -> Label] /\ loc \in [Proc -> Locals] /\ queue \in Seq(Job)
      /\ status \in [Job -> Status \cup {"NONE", "DELETED"}] /\ Home[p] \in Runtime
  BY <1>p, ProcAssumption DEF TypeOK, ProcOK, StoreOK
<1>j. pc[p] \in HasJob => loc[p].job \in Job
  BY <1>p DEF TypeOK, ProcOK
<1>l. pc[p] \in PlainCall
  BY <1>p DEF PlainInv, OwnLabel
<1>w. UNCHANGED <<queue, armed, tick>> /\ ~Drives(p) => Wakes(p)
  BY DEF Wakes
<1>n. Grows /\ OnlyMoves(p) /\ pc'[p] # "nextPop" =>
            /\ \A j : Queued(j) => Queued(j)'
            /\ \A j \in Job : queue' = Append(queue, j) => Queued(j)'
  BY <1>p, <1>t, QueuedGrows DEF QueueInv
<1>1. CASE AddSave(p)
  <2>1. /\ OnlyMoves(p) /\ UNCHANGED <<queue, armed, tick>> /\ pc[p] = "addSave"
        /\ pc'[p] = "incrAdd" /\ loc[p].job \in Job
    BY <1>1, <1>j, <1>p, <1>t DEF AddSave, OnlyMoves, Goto, Local, At, engine, HasJob
  <2>2. loc'[p].job = loc[p].job
    BY <1>1, <1>p, <1>t DEF AddSave, Local, Locals
  <2>3. \A j \in Job : status'[j] = "QUEUEING" => status[j] = "QUEUEING" \/ j = loc[p].job
    BY <1>1, <1>t DEF AddSave
  <2>4. \A j \in Job : j = loc[p].job => Carries(p, j)'
    BY <2>1, <2>2 DEF Carries
  <2>5. \A j \in Job : ~Carries(p, j)
    BY <2>1 DEF Carries
  <2>6. Wakes(p)
    BY <1>p, <1>w, <2>1 DEF Drives
  <2>q. QED
    BY <1>n, <1>p, <2>1, <2>3, <2>4, <2>5, <2>6 DEF Remembers, Minds, Grows
<1>2. CASE AddPush(p)
  <2>1. /\ OnlyMoves(p) /\ UNCHANGED <<status, armed, tick>> /\ pc[p] = "addPush"
        /\ pc'[p] = "addSemaphore" /\ loc[p].job \in Job /\ queue' = Append(queue, loc[p].job)
    BY <1>2, <1>j, <1>p, <1>t DEF AddPush, OnlyMoves, Goto, Local, At, engine, store, HasJob
  <2>2. loc'[p].flag = (Len(queue') <= 1)
    BY <1>2, <1>p, <1>t DEF AddPush, Local, Locals
  <2>3. \A j \in Job : Carries(p, j) => j = loc[p].job
    BY <2>1 DEF Carries
  <2>4. Wakes(p)
    <3>1. CASE queue = << >>
      <4>1. Len(queue') <= 1
        BY <2>1, <3>1
      <4>q. QED
        BY <2>1, <2>2, <4>1 DEF Wakes, Drives
    <3>2. CASE queue # << >>
      BY <1>p, <2>1, <3>2 DEF Wakes, Drives
    <3>q. QED
      BY <3>1, <3>2
  <2>q. QED
    BY <1>n, <1>p, <2>1, <2>3, <2>4 DEF Remembers, Minds, Grows
<1>3. CASE AddSemaphore(p)
  <2>1. /\ OnlyMoves(p) /\ UNCHANGED <<status, queue, armed, tick>> /\ pc[p] = "addSemaphore"
        /\ pc'[p] \in {"register", "addHasLock"}
        /\ pc'[p] = "addHasLock" => ~loc[p].flag \/ sem[Home[p]]
    BY <1>3, <1>p, <1>t DEF AddSemaphore, OnlyMoves, Goto, At, engine, store
  <2>2. \A j \in Job : ~Carries(p, j)
    BY <2>1 DEF Carries
  <2>3. Wakes(p)
    <3>1. CASE pc'[p] = "register"
      BY <3>1 DEF Wakes, Drives
    <3>2. CASE pc'[p] # "register" /\ loc[p].flag
      <4>1. sem[Home[p]]
        BY <2>1, <3>2
      <4>2. PICK q \in Worker : pc[q] \in InRun
        BY <1>t, <4>1 DEF PlainInv, SemHeld
      <4>3. q \in Proc \ {p} /\ Drives(q)
        BY <1>p, <4>2 DEF Drives, InRun
      <4>q. QED
        BY <4>3 DEF Wakes
    <3>3. CASE ~loc[p].flag
      BY <1>p, <1>w, <2>1, <3>3 DEF Drives
    <3>q. QED
      BY <3>1, <3>2, <3>3
  <2>q. QED
    BY <1>n, <1>p, <2>1, <2>2, <2>3 DEF Remembers, Minds, Grows
<1>4. CASE RetrySave(p)
  <2>1. /\ OnlyMoves(p) /\ UNCHANGED <<queue, armed, tick>> /\ pc[p] = "retrySave"
        /\ pc'[p] = "incrRetry" /\ loc[p].job \in Job
    BY <1>4, <1>j, <1>p, <1>t DEF RetrySave, OnlyMoves, Goto, Local, At, engine, HasJob
  <2>2. loc'[p].job = loc[p].job
    <3>1. PICK i : loc' = [loc EXCEPT ![p] = Updated(p, i)]
      BY <1>4 DEF RetrySave, Local
    <3>q. QED
      BY <1>p, <3>1, UpdatedKeeps DEF TypeOK
  <2>3. \A j \in Job : status'[j] = "QUEUEING" => status[j] = "QUEUEING" \/ j = loc[p].job
    BY <1>4, <1>t DEF RetrySave
  <2>4. \A j \in Job : j = loc[p].job => Carries(p, j)'
    BY <2>1, <2>2 DEF Carries
  <2>5. \A j \in Job : ~Carries(p, j)
    BY <2>1 DEF Carries
  <2>6. Wakes(p)
    BY <1>p, <1>w, <2>1 DEF Drives
  <2>q. QED
    BY <1>n, <1>p, <2>1, <2>3, <2>4, <2>5, <2>6 DEF Remembers, Minds, Grows
<1>5. CASE RetryPush(p)
  <2>1. /\ OnlyMoves(p) /\ UNCHANGED status /\ pc[p] = "retryPush" /\ pc'[p] = "register"
        /\ loc[p].job \in Job /\ queue' = Append(queue, loc[p].job)
    BY <1>5, <1>j, <1>p, <1>t DEF RetryPush, OnlyMoves, Goto, At, store, HasJob
  <2>2. \A j \in Job : Carries(p, j) => j = loc[p].job
    BY <2>1 DEF Carries
  <2>3. Wakes(p)
    BY <2>1 DEF Wakes, Drives
  <2>q. QED
    BY <1>n, <1>p, <2>1, <2>2, <2>3 DEF Remembers, Minds, Grows
<1>6. ASSUME ClientStep(p) \/ ClientCall(p), ~AddSave(p), ~AddPush(p), ~AddSemaphore(p),
             ~RetrySave(p), ~RetryPush(p)
      PROVE  Aside(p)
  <2> USE <1>p, <1>t, <1>l
  <2> USE DEF Aside, OnlyMoves, CarryLabel, Reading, PlainCall, Goto, Local, Return, At,
          store, engine
  <2>1. CASE AddSummary(p) \/ AddHasBeenLocked(p) \/ RetryUnlock(p) \/ RecalculateSave(p)
    <3>1. /\ UNCHANGED <<queue, armed, tick>>
          /\ pc[p] \in {"addSummary", "addHasLock", "retryUnlock", "recalculate"}
      BY <2>1 DEF AddSummary, AddHasBeenLocked, RetryUnlock, RecalculateSave
    <3>2. Wakes(p)
      BY <1>w, <3>1 DEF Drives
    <3>3. CASE AddSummary(p)
      BY <3>2, <3>3 DEF AddSummary
    <3>4. CASE AddHasBeenLocked(p)
      BY <3>2, <3>4 DEF AddHasBeenLocked
    <3>5. CASE RetryUnlock(p)
      BY <3>2, <3>5 DEF RetryUnlock
    <3>6. CASE RecalculateSave(p)
      BY <3>2, <3>6 DEF RecalculateSave
    <3>q. QED
      BY <2>1, <3>3, <3>4, <3>5, <3>6
  <2>2. CASE ClientCall(p)
    <3>1. UNCHANGED <<queue, armed, tick>> /\ pc[p] = "idle"
      BY <1>o, <2>2 DEF ClientCall, AddJob, RetryJob, DeleteJob, DeleteSelect,
         RecalculateSummary, Call
    <3>2. Wakes(p)
      BY <1>w, <3>1 DEF Drives
    <3>3. CASE AddJob(p)
      BY <3>2, <3>3 DEF AddJob
    <3>4. CASE \E j \in Job : RetryJob(p, j)
      BY <3>2, <3>4 DEF RetryJob, Call
    <3>5. CASE \E j \in Job : DeleteJob(p, j)
      BY <3>2, <3>5 DEF DeleteJob, Call
    <3>6. CASE RecalculateSummary(p)
      BY <3>2, <3>6 DEF RecalculateSummary, Call
    <3>7. CASE \E j \in Job : DeleteSelect(p, j)
      BY <3>2, <3>7 DEF DeleteSelect, Call
    <3>q. QED
      BY <1>o, <2>2, <3>3, <3>4, <3>5, <3>6, <3>7 DEF ClientCall
  <2>3. ~StopTask(p) /\ ~StopSave(p) /\ ~HoldFlip(p) /\ ~UpdateSummary(p) /\ ~BulkStream(p)
        /\ ~Bulk(p) /\ ~StopAllClear(p)
    BY DEF StopTask, StopSave, HoldFlip, UpdateSummary, BulkStream, Bulk, BulkUpdate,
       BulkClean, StopAllClear
  <2>4. CASE DeleteRow(p)
    <3>1. UNCHANGED <<queue, armed, tick>> /\ pc[p] = "deleteRow"
      BY <2>4 DEF DeleteRow
    <3>2. Wakes(p)
      BY <1>w, <3>1 DEF Drives
    <3>q. QED
      BY <2>4, <3>2 DEF DeleteRow
  <2>q. QED
    BY <1>6, <2>1, <2>2, <2>3, <2>4 DEF ClientStep
<1>q. QED
  BY <1>p, <1>t, <1>1, <1>2, <1>3, <1>4, <1>5, <1>6, AsideRemembers DEF QueueInv

\* prepare empties the queue, and pushes every job it then finds pending.
LEMMA BootRemembers ==
    ASSUME OneRuntime, OneRunPerRuntime, PopsUndisturbed, TypeOK, PlainInv,
           QueueInv, NEW p \in Boot, BootStep(p)
    PROVE  Remembers(p)
<1>p. p \in Proc /\ p \notin Worker /\ p \notin Client
  BY ProcAssumption DEF Proc
<1>t. /\ pc \in [Proc -> Label] /\ loc \in [Proc -> Locals] /\ queue \in Seq(Job)
      /\ status \in [Job -> Status \cup {"NONE", "DELETED"}]
  BY DEF TypeOK, ProcOK, StoreOK
<1>j. pc[p] \in HasJob => loc[p].job \in Job
  BY <1>p DEF TypeOK, ProcOK
<1>f. pc[p] \in Loads => loc[p].flag
  BY <1>p DEF PlainInv, OwnFlag
<1>w. UNCHANGED <<queue, armed, tick>> /\ ~Drives(p) => Wakes(p)
  BY DEF Wakes
<1>d. Drives(p)' => Wakes(p)
  BY DEF Wakes
<1>n. Grows /\ OnlyMoves(p) /\ pc'[p] # "nextPop" =>
            /\ \A j : Queued(j) => Queued(j)'
            /\ \A j \in Job : queue' = Append(queue, j) => Queued(j)'
  BY <1>p, <1>t, QueuedGrows DEF QueueInv
<1>1. CASE PrepareReset(p)
  <2>1. /\ OnlyMoves(p) /\ UNCHANGED <<status, queue>> /\ pc'[p] = "prepClear"
    BY <1>1, <1>p, <1>t DEF PrepareReset, OnlyMoves, Goto, store
  <2>2. Wakes(p) /\ \A j : Carries(p, j)'
    BY <1>d, <2>1 DEF Drives, Carries
  <2>q. QED
    BY <1>n, <1>p, <2>1, <2>2 DEF Remembers, Minds, Grows
<1>2. CASE PrepareClear(p)
  <2>1. /\ OnlyMoves(p) /\ queue' = << >> /\ pc[p] = "prepClear" /\ pc'[p] = "prepCount"
    BY <1>2, <1>p, <1>t DEF PrepareClear, OnlyMoves, Goto, At
  <2>2. Wakes(p) /\ \A j : Carries(p, j)'
    BY <2>1 DEF Wakes, Carries
  <2>3. \A q \in Proc \ {p} : pc[q] \notin Reading
    BY <2>1, Sole
  <2>4. \A q \in Proc : pc'[q] \notin Reading
    BY <2>1, <2>3 DEF OnlyMoves, Reading
  <2>q. QED
    BY <1>p, <2>1, <2>2, <2>4 DEF Remembers, Minds
<1>3. CASE PrepareCount(p)
  <2>1. /\ OnlyMoves(p) /\ UNCHANGED <<status, queue, armed, tick>> /\ pc[p] = "prepCount"
        /\ pc'[p] = "prepSummary"
    BY <1>3, <1>p, <1>t DEF PrepareCount, OnlyMoves, Goto, Local, At, store, engine
  <2>2. loc'[p].flag = (CountAllJob({"RETRYING", "QUEUEING"}) > 0)
    BY <1>3, <1>p, <1>t DEF PrepareCount, Local, Locals
  <2>3. \A j \in Job : status[j] = "QUEUEING" => loc'[p].flag
    BY <2>2, CountsOne
  <2>4. \A j \in Job : status[j] = "QUEUEING" => Carries(p, j)'
    BY <2>1, <2>3 DEF Carries
  <2>5. Wakes(p)
    BY <1>p, <1>w, <2>1 DEF Drives, NextLabel, Loads
  <2>q. QED
    BY <1>n, <1>p, <2>1, <2>4, <2>5 DEF Remembers, Minds, Grows
<1>4. CASE PrepareSummary(p)
  <2>1. /\ OnlyMoves(p) /\ UNCHANGED <<status, queue, armed, tick>> /\ pc[p] = "prepSummary"
        /\ pc'[p] = IF loc[p].flag THEN "prepStream" ELSE "prepLoaded"
    BY <1>4, <1>p, <1>t DEF PrepareSummary, OnlyMoves, Goto, Local, At, engine
  <2>2. loc'[p].flag = loc[p].flag
    BY <1>4, <1>p, <1>t DEF PrepareSummary, Local, Locals
  <2>3. \A j \in Job : Carries(p, j) => Carries(p, j)'
    BY <2>1, <2>2 DEF Carries
  <2>4. Wakes(p)
    <3>1. CASE loc[p].flag
      BY <1>d, <2>1, <2>2, <3>1 DEF Drives, Loads
    <3>2. CASE ~loc[p].flag
      BY <1>p, <1>w, <2>1, <3>2 DEF Drives, NextLabel
    <3>q. QED
      BY <3>1, <3>2
  <2>q. QED
    BY <1>n, <1>p, <2>1, <2>3, <2>4 DEF Remembers, Minds, Grows
<1>5. CASE PrepareStream(p)
  <2>1. /\ OnlyMoves(p) /\ UNCHANGED <<status, queue>> /\ pc[p] = "prepStream"
        /\ pc'[p] = "prepNext"
    BY <1>5, <1>p, <1>t DEF PrepareStream, OnlyMoves, Goto, Local, At, store
  <2>2. loc'[p].todo = FindAllJob({"RETRYING", "QUEUEING"}) /\ loc'[p].flag = loc[p].flag
    BY <1>5, <1>p, <1>t DEF PrepareStream, Local, Locals
  <2>3. \A j \in Job : status[j] = "QUEUEING" => [id |-> j, st |-> "QUEUEING"] \in loc'[p].todo
    BY <2>2 DEF FindAllJob
  <2>4. \A j \in Job : status[j] = "QUEUEING" => Carries(p, j)'
    BY <2>1, <2>3 DEF Carries
  <2>5. Wakes(p)
    BY <1>d, <1>f, <2>1, <2>2 DEF Drives, Loads
  <2>q. QED
    BY <1>n, <1>p, <2>1, <2>4, <2>5 DEF Remembers, Minds, Grows
<1>6. CASE PrepareNext(p)
  <2>1. OnlyMoves(p) /\ UNCHANGED queue /\ pc[p] = "prepNext" /\ pc'[p] # "nextPop"
    <3>1. CASE loc[p].todo = {}
      BY <1>6, <3>1, <1>p, <1>t DEF PrepareNext, OnlyMoves, Goto, At
    <3>2. CASE loc[p].todo # {}
      BY <1>6, <3>2, <1>p, <1>t DEF PrepareNext, OnlyMoves, Goto, Local, At
    <3>q. QED
      BY <3>1, <3>2
  <2>2. \A j : Queued(j) => Queued(j)'
    BY <1>n, <2>1 DEF Grows
  <2>3. CASE loc[p].todo = {}
    <3>1. UNCHANGED <<status, loc>> /\ pc'[p] = "prepLoaded"
      BY <1>6, <1>p, <1>t, <2>3 DEF PrepareNext, Goto
    <3>2. \A j : ~Carries(p, j)
      BY <2>1, <2>3 DEF Carries
    <3>3. Wakes(p)
      BY <1>d, <1>f, <2>1, <3>1 DEF Drives, Loads
    <3>q. QED
      BY <1>p, <2>1, <2>2, <3>1, <3>2, <3>3 DEF Remembers, Minds, Grows
  <2>4. CASE loc[p].todo # {}
    <3>1. PICK it \in [id : Job, st : Status] :
            /\ it \in loc[p].todo
            /\ loc'[p].flag = loc[p].flag /\ loc'[p].job = it.id
            /\ loc'[p].todo = loc[p].todo \ {it}
            /\ pc'[p] \in {"prepPush", "incrPrepare"}
            /\ \/ UNCHANGED status
               \/ status' = [status EXCEPT ![it.id] = "QUEUEING"]
      BY <1>6, <2>4, PrepareTakes
    <3>4. \A j \in Job : status'[j] = "QUEUEING" => status[j] = "QUEUEING" \/ j = it.id
      BY <3>1, <1>t
    <3>5. \A j \in Job : j = it.id => Carries(p, j)'
      BY <3>1 DEF Carries
    <3>6. ASSUME NEW j \in Job, Carries(p, j)
          PROVE  Carries(p, j)'
      <4>1. [id |-> j, st |-> "QUEUEING"] \in loc[p].todo
        BY <2>1, <3>6 DEF Carries
      <4>2. CASE it = [id |-> j, st |-> "QUEUEING"]
        BY <3>5, <4>2
      <4>3. CASE it # [id |-> j, st |-> "QUEUEING"]
        BY <3>1, <4>1, <4>3 DEF Carries
      <4>q. QED
        BY <4>2, <4>3
    <3>7. Wakes(p)
      BY <1>d, <1>f, <2>1, <3>1 DEF Drives, Loads
    <3>q. QED
      BY <1>p, <2>1, <2>2, <3>1, <3>4, <3>5, <3>6, <3>7 DEF Remembers, Minds, Grows
  <2>q. QED
    BY <2>3, <2>4
<1>7. CASE PreparePush(p)
  <2>1. /\ OnlyMoves(p) /\ UNCHANGED <<status, loc>> /\ pc[p] = "prepPush" /\ pc'[p] = "prepNext"
        /\ loc[p].job \in Job /\ queue' = Append(queue, loc[p].job)
    BY <1>7, <1>j, <1>p, <1>t DEF PreparePush, OnlyMoves, Goto, At, HasJob
  <2>2. \A j \in Job : Carries(p, j) => j = loc[p].job \/ Carries(p, j)'
    BY <2>1 DEF Carries
  <2>3. Wakes(p)
    BY <1>d, <1>f, <2>1 DEF Drives, Loads
  <2>q. QED
    BY <1>n, <1>p, <2>1, <2>2, <2>3 DEF Remembers, Minds, Grows
<1>8. CASE PrepareLoaded(p)
  <2>1. /\ OnlyMoves(p) /\ UNCHANGED <<status, queue, armed, tick>> /\ pc[p] = "prepLoaded"
        /\ pc'[p] = IF loc[p].flag THEN "nextPeek" ELSE "idle"
    BY <1>8, <1>p, <1>t DEF PrepareLoaded, OnlyMoves, Goto, Local, Return, At, engine
  <2>2. \A j : ~Carries(p, j)
    BY <2>1 DEF Carries
  <2>3. Wakes(p)
    <3>1. CASE loc[p].flag
      BY <1>d, <2>1, <3>1 DEF Drives, NextLabel
    <3>2. CASE ~loc[p].flag
      BY <1>p, <1>w, <2>1, <3>2 DEF Drives, NextLabel
    <3>q. QED
      BY <3>1, <3>2
  <2>q. QED
    BY <1>n, <1>p, <2>1, <2>2, <2>3 DEF Remembers, Minds, Grows
<1>q. QED
  BY <1>1, <1>2, <1>3, <1>4, <1>5, <1>6, <1>7, <1>8 DEF BootStep

\* A tick wakes the task; a crash leaves every job to prepare.
LEMMA RuntimeKeepsQueue ==
    ASSUME OneRuntime, TypeOK, QueueInv, NEW r \in Runtime, TickerFires(r) \/ Crash(r)
    PROVE  QueueInv'
<1>1. CASE TickerFires(r)
  <2>1. UNCHANGED <<pc, loc, queue, status>>
    BY <1>1 DEF TickerFires, store
  <2>2. tick'[r]
    BY <1>1 DEF TickerFires, TypeOK, EngineOK
  <2>3. Awake'
    BY <2>2 DEF Awake, Ticking
  <2>q. QED
    BY <2>1, <2>3 DEF QueueInv, Tracked, HeadRead, Requeued, Queued, Carries
<1>2. CASE Crash(r)
  <2>1. PICK b \in Boot : Home[b] = r
    BY BootAssumption
  <2>2. \A p \in Proc : pc'[p] = IF p \in Boot THEN "prepReset" ELSE "idle"
    BY <1>2, AllHere DEF Crash
  <2>3. b \in Proc /\ pc'[b] = "prepReset"
    BY <2>1, <2>2 DEF Proc
  <2>4. Tracked' /\ Awake'
    BY <2>1, <2>3 DEF Tracked, Awake, Carries, Drives
  <2>5. HeadRead'
    BY <2>2 DEF HeadRead
  <2>6. Requeued'
    BY <2>2 DEF Requeued, Proc
  <2>q. QED
    BY <2>4, <2>5, <2>6 DEF QueueInv
<1>q. QED
  BY <1>1, <1>2

\* No job that is QUEUEING is out of reach.
LEMMA QueueHolds ==
    ASSUME OneRuntime, ~EarlyCalls, FollowedCalls
    PROVE  Spec /\ [](CancelsNoRun /\ PopsUndisturbed) => []QueueInv
<1>1. Init => QueueInv
  <2> SUFFICES ASSUME Init PROVE QueueInv
    OBVIOUS
  <2>1. \A p \in Proc : pc[p] = IF p \in Boot THEN "prepReset" ELSE "idle"
    BY DEF Init
  <2>2. queue = << >> /\ \A j \in Job : status[j] # "QUEUEING"
    BY DEF Init
  <2>3. HeadRead /\ Requeued
    BY <2>1 DEF HeadRead, Requeued, Proc
  <2>q. QED
    BY <2>2, <2>3 DEF QueueInv, Tracked, Awake
<1>2. TypeOK /\ OneRunPerRuntime /\ CancelInv /\ PlainInv /\ PopsUndisturbed /\ QueueInv
        /\ [Next]_vars => QueueInv'
  <2> SUFFICES ASSUME TypeOK, OneRunPerRuntime, CancelInv, PlainInv, PopsUndisturbed, QueueInv,
                      [Next]_vars
               PROVE  QueueInv'
    OBVIOUS
  <2>t. queue \in Seq(Job)
    BY DEF TypeOK, StoreOK
  <2>1. CASE UNCHANGED vars
    BY <2>1 DEF vars, store, engine, QueueInv, Tracked, HeadRead, Requeued, Awake, Queued, Carries,
       Drives, Ticking
  <2>2. ASSUME NEW p \in Worker, WorkerStep(p) PROVE QueueInv'
    BY <2>t, <2>2, WorkerRemembers, RemembersKeeps DEF Proc
  <2>3. ASSUME NEW p \in Client, ClientStep(p) \/ ClientCall(p) PROVE QueueInv'
    BY <2>t, <2>3, ClientRemembers, RemembersKeeps DEF Proc
  <2>4. ASSUME NEW p \in Boot, BootStep(p) PROVE QueueInv'
    BY <2>t, <2>4, BootRemembers, RemembersKeeps DEF Proc
  <2>5. ASSUME NEW p \in Proc, CommonStep(p) PROVE QueueInv'
    BY <2>t, <2>5, CommonRemembers, RemembersKeeps
  <2>6. ASSUME NEW r \in Runtime, TickerFires(r) \/ Crash(r) PROVE QueueInv'
    BY <2>6, RuntimeKeepsQueue
  <2>q. QED
    BY <2>1, <2>2, <2>3, <2>4, <2>5, <2>6 DEF Next
<1>q. QED
  BY <1>1, <1>2, TypeCorrect, OneRun, CancelHolds, PlainHolds, PTL DEF Spec

(***************************************************************************)
(* A job is forgotten only by an overlap of two runs.  Take one runtime    *)
(* whose clients wait for prepare and only add, retry and delete jobs and  *)
(* recalculate the summary.  Serve starts a goroutine per tick, and any    *)
(* number of them may be under way.  In a behaviour where task.cancel() of *)
(* a run that has ended does not meet the next run on its way to its       *)
(* handler, and where nobody else takes or removes the head of the queue,  *)
(* or ends with its job, while registerNextJob looks at it and removes it, *)
(* a task at rest has no pending job, for any number of jobs, clients and  *)
(* crashes.  The first overlap leaves a job RETRYING; in the second,       *)
(* PopJob of registerNextJob may remove a job that nobody has looked at.   *)
(* While a call on all jobs loads, AddJob leaves its job to a loader that  *)
(* may have read the table already: hence the restriction of the calls.    *)
(***************************************************************************)
THEOREM NothingForgotten ==
    ASSUME OneRuntime, ~EarlyCalls, FollowedCalls
    PROVE  Spec /\ [](CancelsNoRun /\ PopsUndisturbed) => []NothingPending
<1>1. ASSUME TypeOK, QueueInv, NoJobStranded, AtRest, NEW j \in Job
      PROVE  status[j] \notin {"QUEUEING", "RETRYING"}
  <2>1. \A p \in Proc : pc[p] = "idle"
    BY <1>1 DEF AtRest, Idle
  <2>2. ~Ticking
    BY <1>1 DEF AtRest, Ticking
  <2>3. \A p \in Proc : ~Drives(p) /\ ~Carries(p, j)
    BY <2>1 DEF Drives, Carries, NextLabel, Loads
  <2>4. queue = << >>
    BY <1>1, <2>2, <2>3 DEF QueueInv, Awake
  <2>5. ~Queued(j)
    BY <2>4 DEF Queued
  <2>6. status[j] # "QUEUEING"
    BY <1>1, <2>3, <2>5 DEF QueueInv, Tracked
  <2>q. QED
    BY <1>1, <2>6 DEF NoJobStranded
<1>2. TypeOK /\ QueueInv /\ NoJobStranded => NothingPending
  BY <1>1 DEF NothingPending
<1>3. Spec /\ []CancelsNoRun => []NoJobStranded
  BY StrandedOnlyByOverlap
<1>4. Spec /\ [](CancelsNoRun /\ PopsUndisturbed) => []QueueInv
  BY QueueHolds
<1>q. QED
  BY <1>2, <1>3, <1>4, TypeCorrect, PTL
=============================================================================
