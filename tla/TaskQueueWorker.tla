--------------------------- MODULE TaskQueueWorker ---------------------------
(***************************************************************************)
(* The task queue worker (src/codebase/app/task_queue_worker) for one      *)
(* task: its job table and summary row in the persistent store, its job    *)
(* queue, its distributed lock, and the goroutines of every runtime that   *)
(* serves it.                                                              *)
(*                                                                         *)
(* A goroutine takes one step per call that reads or writes state another  *)
(* goroutine can reach: a query or update of the store, an operation of    *)
(* the queue or of the locker, a channel operation, a write to the Task    *)
(* struct.  What it carries from one step to the next is its loc record.   *)
(* Dashboard broadcasts, traces, arguments, results and histories are left *)
(* out.  Intervals are positive, so that registerJobToWorker always starts *)
(* a ticker, and the handler group of the task is not empty.               *)
(***************************************************************************)
EXTENDS Integers, Sequences, FiniteSets

CONSTANTS Runtime,        \* processes that serve the task
          Worker,         \* slots for triggerTask goroutines: bounds how many live at once
          Client,         \* slots for API and dashboard calls: bounds how many live at once
          Boot,           \* one prepare goroutine for each runtime
          Home,           \* the runtime of each goroutine slot
          None,           \* no goroutine
          SQL,            \* the store is SQLPersistent, not MongoPersistent
          NumJobs,        \* bound: AddJob calls in a behaviour
          MaxCalls,       \* bound: the other API calls in a behaviour
          MaxCrashes,     \* bound: crashes of a runtime in a behaviour
          EarlyCalls,     \* clients call while prepare of their runtime is still running
          Api,            \* the API calls the clients make, names as in the code
          MaxRetry,       \* Job.MaxRetry of each job
          CronJob,        \* the jobs whose interval is a cron expression
          DeleteAfterSuccess  \* TaskOptionDeleteJobAfterSuccess

Job == 1..NumJobs         \* in the order of created_at
Proc == Worker \cup Client \cup Boot

Status == {"QUEUEING", "RETRYING", "SUCCESS", "FAILURE", "STOPPED", "HOLD"}

ASSUME BoundAssumption ==
    /\ NumJobs \in Nat /\ MaxCalls \in Nat /\ MaxCrashes \in Nat
    /\ MaxRetry \in [Job -> Nat] /\ CronJob \subseteq Job
    \* AddJobRequest.Validate: only a cron job may have no retry limit
    /\ \A j \in Job \ CronJob : MaxRetry[j] > 0
    /\ DeleteAfterSuccess \in BOOLEAN /\ EarlyCalls \in BOOLEAN /\ SQL \in BOOLEAN

ASSUME ProcAssumption ==
    /\ Worker \cap Client = {} /\ Worker \cap Boot = {} /\ Client \cap Boot = {}
    /\ None \notin Proc
    /\ Home \in [Proc -> Runtime]

ASSUME FiniteAssumption == IsFiniteSet(Proc)

\* NewTaskQueueWorker starts one goroutine that runs prepare.
ASSUME BootAssumption ==
    /\ \A r \in Runtime : \E b \in Boot : Home[b] = r
    /\ \A b, c \in Boot : Home[b] = Home[c] => b = c

VARIABLES
    \* the persistent store: the job table and the summary row
    status, retries,      \* per job; "NONE" before SaveJob, "DELETED" after DeleteJob
    total,                \* the count the summary keeps of each status
    hold, loading,        \* is_hold and is_loading of the summary
    \* shared by the runtimes
    queue,                \* the job ids queued
    locked,               \* the lock key of the task exists
    \* the engine of each runtime
    sem,                  \* semaphore of capacity 1 is taken
    armed,                \* activeInterval is running
    tick,                 \* a tick is waiting in the channel of activeInterval
    cancel,               \* the goroutine whose context Task.cancel cancels
    \* the goroutines
    done,                 \* its context was cancelled
    pc, loc,
    \* bounds
    added, calls, crashes

store == <<status, retries, total, hold, loading>>
engine == <<sem, armed, tick, cancel>>
bounds == <<added, calls, crashes>>
vars == <<store, queue, locked, engine, done, pc, loc, bounds>>

-----------------------------------------------------------------------------
\* The store

Exists(j) == status[j] \in Status

\* CountAllJob with a set of statuses
CountAllJob(sts) == Cardinality({j \in Job : status[j] \in sts})

\* The jobs with a status in sts, as StreamAllJob reads them: one page
FindAllJob(sts) == {it \in [id : Job, st : sts] : it.st = status[it.id]}

\* The jobs read are visited in the order of created_at.
Earliest(it, todo) == it \in todo /\ \A other \in todo : it.id <= other.id

NoIncr == [s \in Status |-> 0]

\* The map {to: affected, from: -matched} of one IncrementSummary call
Moved(from, to, matched, affected) ==
    [s \in Status |-> (IF s = to THEN affected ELSE 0) - (IF s = from THEN matched ELSE 0)]

\* UpdateJob has not counted yet
Uncounted == -1

NoLoc == [op |-> "none", job |-> 0, st |-> "NONE", rt |-> 0, flag |-> FALSE, todo |-> {},
          incr |-> NoIncr, matched |-> Uncounted]

-----------------------------------------------------------------------------
\* Control

\* The labels of a triggerTask goroutine, the ones where it owns the semaphore first
InRun == {"begin", "lock", "unlockCount", "unlockDel", "pop", "find", "mark", "incrMark",
          "handle", "requeue", "finish", "incrFinish", "unlock", "release"}
TriggerLabel == InRun \cup {"stopTicker", "readHold", "acquire", "cancel"}

NextLabel == {"nextPeek", "nextFind", "nextPop", "nextStream", "nextPush", "register"}

CallLabel ==
    {"addSummary", "addSave", "incrAdd", "addPush", "addSemaphore", "addHasLock",
     "retryUnlock", "retrySave", "incrRetry", "retryPush",
     "stopTask", "stopSave", "incrStop", "deleteRow", "incrDelete", "recalculate", "holdFlip",
     "unholdLoading", "unholdStream", "unholdPush", "unholdSave", "incrUnhold", "unholdLoaded",
     "stopAllLoading", "stopAllHold", "stopAllTask", "stopAllQueueing", "stopAllRetrying",
     "stopAllUnhold", "stopAllLoaded", "incrStopAll", "stopAllClear",
     "retryAllLoading", "retryAllStream", "retryAllPush", "retryAllFailure",
     "retryAllStopped", "retryAllLoaded", "incrRetryAll",
     "cleanLoading", "cleanFailure", "cleanStopped", "cleanLoaded"}

PrepareLabel == {"prepReset", "prepClear", "prepCount", "prepSummary", "prepStream", "prepNext",
                 "incrPrepare", "prepPush", "prepLoaded"}

Label == {"idle"} \cup TriggerLabel \cup NextLabel \cup CallLabel \cup PrepareLabel

At(p, l) == pc[p] = l
Goto(p, l) == pc' = [pc EXCEPT ![p] = l]
Local(p, r) == loc' = [loc EXCEPT ![p] = r]
Return(p) == Goto(p, "idle") /\ Local(p, NoLoc)

Init ==
    /\ status = [j \in Job |-> "NONE"] /\ retries = [j \in Job |-> 0]
    /\ total = NoIncr /\ hold = FALSE /\ loading = FALSE
    /\ queue = << >> /\ locked = FALSE
    /\ sem = [r \in Runtime |-> FALSE]
    /\ armed = [r \in Runtime |-> FALSE] /\ tick = [r \in Runtime |-> FALSE]
    /\ cancel = [r \in Runtime |-> None]
    /\ done = [p \in Proc |-> FALSE]
    /\ pc = [p \in Proc |-> IF p \in Boot THEN "prepReset" ELSE "idle"]
    /\ loc = [p \in Proc |-> NoLoc]
    /\ added = 0 /\ calls = 0 /\ crashes = 0

(***************************************************************************)
(* IncrementSummary: the second half of every change of a job's status.    *)
(***************************************************************************)
AfterIncrement(l) ==
    CASE l = "incrMark"    -> "handle"
      [] l = "incrFinish"  -> "unlock"
      [] l = "incrRetry"   -> "retryPush"
      [] l = "incrPrepare" -> "prepPush"
      [] l = "incrUnhold"  -> "unholdLoaded"
      [] l = "incrStopAll" -> "stopAllClear"
      [] l = "incrAdd"     -> "addPush"
      [] OTHER             -> "nextPeek"     \* StopJob, RetryAllJob

IncrementSummary(p) ==
    /\ pc[p] \in {"incrMark", "incrFinish", "incrRetry", "incrPrepare", "incrUnhold",
                  "incrStopAll", "incrStop", "incrRetryAll", "incrAdd", "incrDelete"}
    /\ total' = [s \in Status |-> total[s] + loc[p].incr[s]]
    /\ IF At(p, "incrDelete") \/ (At(p, "incrAdd") /\ loc[p].flag)
       THEN Return(p)
       ELSE /\ Goto(p, AfterIncrement(pc[p]))
            /\ Local(p, [loc[p] EXCEPT !.incr = NoIncr])
    /\ UNCHANGED <<status, retries, hold, loading, queue, locked, engine, done, bounds>>

(***************************************************************************)
(* UpdateJob.  MongoPersistent matches and changes the jobs in one         *)
(* command.  SQLPersistent counts the jobs its filter matches first, and   *)
(* changes what the same filter matches by then in a statement of its own: *)
(* the two numbers may differ.                                             *)
(***************************************************************************)

\* FINISH deletes the job instead of updating it.
Deletes(p) == DeleteAfterSuccess /\ loc[p].st = "SUCCESS"

\* The job prepare has come to
Reached(p, it) == pc[p] = "prepNext" /\ Earliest(it, loc[p].todo)

\* The goroutine is about to call UpdateJob.
UpdatesJob(p) ==
    \/ pc[p] \in {"mark", "retrySave", "stopSave", "unholdSave", "stopAllQueueing",
                  "stopAllRetrying", "retryAllFailure", "retryAllStopped"}
    \/ pc[p] = "finish" /\ ~Deletes(p)
    \/ \E it \in loc[p].todo : Reached(p, it) /\ it.st # "QUEUEING"

\* Mutant: the COUNT leaves out the WHERE of the filter
MatchesAll(p, j) == UpdatesJob(p) /\ Exists(j)

\* The filter of that call: an id, an id with a status, or a status of all jobs
Matches(p, j) ==
    \/ pc[p] \in {"mark", "finish", "retrySave"} /\ j = loc[p].job /\ Exists(j)
    \/ pc[p] = "stopSave" /\ j = loc[p].job /\ status[j] = loc[p].st
    \/ pc[p] = "prepNext" /\ Exists(j) /\ \E it \in loc[p].todo : Reached(p, it) /\ it.id = j
    \/ <<pc[p], status[j]>> \in
          {<<"unholdSave", "HOLD">>, <<"stopAllQueueing", "QUEUEING">>,
           <<"stopAllRetrying", "RETRYING">>, <<"retryAllFailure", "FAILURE">>,
           <<"retryAllStopped", "STOPPED">>}

\* SELECT COUNT(*) of SQLPersistent.UpdateJob
CountMatched(p) ==
    /\ SQL /\ UpdatesJob(p) /\ loc[p].matched = Uncounted
    /\ Local(p, [loc[p] EXCEPT !.matched = Cardinality({j \in Job : Matches(p, j)})])
    /\ UNCHANGED <<store, queue, locked, engine, done, pc, bounds>>

\* The UPDATE of SQLPersistent.UpdateJob comes after its COUNT.
Counted(p) == SQL => loc[p].matched # Uncounted

\* The matchedCount that UpdateJob returns when it changes n jobs
MatchedCount(p, n) == IF SQL THEN loc[p].matched ELSE n

\* The locals after UpdateJob: what the caller will pass to IncrementSummary
Updated(p, incr) == [loc[p] EXCEPT !.incr = incr, !.matched = Uncounted]

-----------------------------------------------------------------------------
\* registerNextJob and registerJobToWorker, called last by whoever changes the queue

NextPeek(p) ==
    /\ At(p, "nextPeek")
    /\ IF queue # << >>
       THEN /\ Local(p, [loc[p] EXCEPT !.job = Head(queue)])
            /\ Goto(p, "nextFind")
       ELSE IF loc[p].flag
            THEN Goto(p, "nextStream") /\ UNCHANGED loc
            ELSE Return(p)
    /\ UNCHANGED <<store, queue, locked, engine, done, bounds>>

NextFind(p) ==
    /\ At(p, "nextFind")
    /\ Goto(p, IF status[loc[p].job] = "QUEUEING" THEN "register" ELSE "nextPop")
    /\ UNCHANGED <<store, queue, locked, engine, done, loc, bounds>>

\* Removes the head of the queue, which another goroutine may have changed since NextPeek.
NextPop(p) ==
    /\ At(p, "nextPop")
    /\ queue' = IF queue = << >> THEN queue ELSE Tail(queue)
    /\ Local(p, [loc[p] EXCEPT !.flag = FALSE])
    /\ Goto(p, "nextPeek")
    /\ UNCHANGED <<store, locked, engine, done, bounds>>

NextStream(p) ==
    /\ At(p, "nextStream")
    /\ Local(p, [loc[p] EXCEPT !.todo = FindAllJob({"QUEUEING"}), !.flag = FALSE])
    /\ Goto(p, "nextPush")
    /\ UNCHANGED <<store, queue, locked, engine, done, bounds>>

\* The callback of StreamAllJob, for every job it read; the bulk calls also report progress.
StreamPush(p) ==
    /\ pc[p] \in {"nextPush", "unholdPush", "retryAllPush"}
    /\ IF loc[p].todo = {}
       THEN /\ Goto(p, CASE At(p, "nextPush")     -> "nextPeek"
                         [] At(p, "unholdPush")   -> "unholdSave"
                         [] At(p, "retryAllPush") -> "retryAllFailure")
            /\ UNCHANGED <<queue, loc, loading>>
       ELSE /\ \E it \in loc[p].todo :
                  /\ Earliest(it, loc[p].todo)
                  /\ queue' = Append(queue, it.id)
                  /\ Local(p, [loc[p] EXCEPT !.todo = @ \ {it}])
            /\ loading' = IF At(p, "nextPush") THEN loading ELSE TRUE
            /\ UNCHANGED pc
    /\ UNCHANGED <<status, retries, total, hold, locked, engine, done, bounds>>

(***************************************************************************)
(* registerJobToWorker: a new ticker replaces the one of the task, with an *)
(* empty channel, and Serve is told to select on it.                       *)
(***************************************************************************)
RegisterJobToWorker(p) ==
    /\ At(p, "register")
    /\ armed' = [armed EXCEPT ![Home[p]] = TRUE]
    /\ tick' = [tick EXCEPT ![Home[p]] = FALSE]
    /\ IF loc[p].op = "AddJob" THEN Goto(p, "addHasLock") /\ UNCHANGED loc ELSE Return(p)
    /\ UNCHANGED <<store, queue, locked, sem, cancel, done, bounds>>

\* unlockTask: deletes the lock key when no job of the task is RETRYING
UnlockTaskCount(p) ==
    /\ At(p, "unlockCount")
    /\ IF CountAllJob({"RETRYING"}) = 0
       THEN Goto(p, "unlockDel") /\ UNCHANGED loc
       ELSE CASE p \in Worker                -> Goto(p, "release") /\ UNCHANGED loc
              [] loc[p].op = "RunQueuedJob"  -> Goto(p, "nextPeek") /\ UNCHANGED loc
              [] OTHER                       -> Return(p)
    /\ UNCHANGED <<store, queue, locked, engine, done, bounds>>

UnlockTaskDel(p) ==
    /\ At(p, "unlockDel")
    /\ locked' = FALSE
    /\ CASE p \in Worker               -> Goto(p, "release") /\ UNCHANGED loc
         [] loc[p].op = "RunQueuedJob" -> Goto(p, "nextPeek") /\ UNCHANGED loc
         [] OTHER                      -> Return(p)
    /\ UNCHANGED <<store, queue, engine, done, bounds>>

-----------------------------------------------------------------------------
\* Serve and triggerTask

\* The ticker puts a tick in its channel, which holds one.
TickerFires(r) ==
    /\ armed[r] /\ ~tick[r]
    /\ tick' = [tick EXCEPT ![r] = TRUE]
    /\ UNCHANGED <<store, queue, locked, sem, armed, cancel, done, pc, loc, bounds>>

\* Serve receives the tick and starts triggerTask in a goroutine.
Serve(p) ==
    /\ At(p, "idle") /\ tick[Home[p]]
    /\ tick' = [tick EXCEPT ![Home[p]] = FALSE]
    /\ Goto(p, "stopTicker")
    /\ UNCHANGED <<store, queue, locked, sem, armed, cancel, done, loc, bounds>>

\* activeInterval.Stop() keeps the tick that is already in the channel.
TriggerStop(p) ==
    /\ At(p, "stopTicker")
    /\ armed' = [armed EXCEPT ![Home[p]] = FALSE]
    /\ Goto(p, "readHold")
    /\ UNCHANGED <<store, queue, locked, sem, tick, cancel, done, loc, bounds>>

TriggerHold(p) ==
    /\ At(p, "readHold")
    /\ IF hold THEN Return(p) ELSE Goto(p, "acquire") /\ UNCHANGED loc
    /\ UNCHANGED <<store, queue, locked, engine, done, bounds>>

\* Mutant: the semaphore has room for more than one run
TriggerAcquireAny(p) ==
    /\ At(p, "acquire")
    /\ sem' = [sem EXCEPT ![Home[p]] = TRUE]
    /\ Goto(p, "begin")
    /\ UNCHANGED <<store, queue, locked, armed, tick, cancel, done, loc, bounds>>

TriggerAcquire(p) ==
    /\ At(p, "acquire") /\ ~sem[Home[p]]
    /\ sem' = [sem EXCEPT ![Home[p]] = TRUE]
    /\ Goto(p, "begin")
    /\ UNCHANGED <<store, queue, locked, armed, tick, cancel, done, loc, bounds>>

\* The goroutine of the run: a context of its own, which Task.cancel now cancels
RunBegin(p) ==
    /\ At(p, "begin")
    /\ cancel' = [cancel EXCEPT ![Home[p]] = p]
    /\ done' = [done EXCEPT ![p] = FALSE]
    /\ Goto(p, "lock")
    /\ UNCHANGED <<store, queue, locked, sem, armed, tick, loc, bounds>>

\* IsLocked: INCR, and the lock is taken when the key did not exist
RunLock(p) ==
    /\ At(p, "lock")
    /\ locked' = TRUE
    /\ Goto(p, IF locked THEN "unlockCount" ELSE "pop")
    /\ UNCHANGED <<store, queue, engine, done, loc, bounds>>

-----------------------------------------------------------------------------
\* execJob

ExecPop(p) ==
    /\ At(p, "pop")
    /\ IF queue = << >>
       THEN Goto(p, "unlock") /\ UNCHANGED <<queue, loc>>
       ELSE /\ Local(p, [loc[p] EXCEPT !.job = Head(queue)])
            /\ queue' = Tail(queue)
            /\ Goto(p, "find")
    /\ UNCHANGED <<store, locked, engine, done, bounds>>

\* job.Retries++; the counter of a cron job without limit is not followed past 1.
Attempt(j) == IF MaxRetry[j] = 0 THEN 1 ELSE retries[j] + 1

\* Mutant: the status of the popped job is not looked at
ExecFindAny(p) ==
    /\ At(p, "find")
    /\ IF Exists(loc[p].job) /\ ~done[p]
       THEN /\ Local(p, [loc[p] EXCEPT !.rt = Attempt(loc[p].job)])
            /\ Goto(p, "mark")
       ELSE Goto(p, "unlock") /\ UNCHANGED loc
    /\ UNCHANGED <<store, queue, locked, engine, done, bounds>>

\* FindJobByID fails on a cancelled context.
ExecFind(p) ==
    /\ At(p, "find")
    /\ IF status[loc[p].job] = "QUEUEING" /\ ~done[p]
       THEN /\ Local(p, [loc[p] EXCEPT !.rt = Attempt(loc[p].job)])
            /\ Goto(p, "mark")
       ELSE Goto(p, "unlock") /\ UNCHANGED loc
    /\ UNCHANGED <<store, queue, locked, engine, done, bounds>>

\* UpdateJob to RETRYING, by id only: whatever the status is by now
ExecMark(p) ==
    LET j == loc[p].job
        n == IF Exists(j) THEN 1 ELSE 0
    IN
    /\ At(p, "mark") /\ Counted(p)
    /\ status' = IF Exists(j) THEN [status EXCEPT ![j] = "RETRYING"] ELSE status
    /\ Local(p, Updated(p, Moved("QUEUEING", "RETRYING", MatchedCount(p, n), n)))
    /\ Goto(p, "incrMark")
    /\ UNCHANGED <<retries, total, hold, loading, queue, locked, engine, done, bounds>>

(***************************************************************************)
(* The select on the cancelled context: only the error text and a history  *)
(* entry are written, neither the status nor the summary.                  *)
(***************************************************************************)
ExecCancelled(p) ==
    /\ At(p, "handle") /\ done[p]
    /\ Goto(p, "unlock")
    /\ UNCHANGED <<store, queue, locked, engine, done, loc, bounds>>

\* Whether a job that has run rt times is queued again
MayRetry(j, rt, res) ==
    \/ j \in CronJob /\ MaxRetry[j] = 0
    \/ (j \in CronJob \/ res = "ErrorRetrier") /\ rt < MaxRetry[j]

\* The select on the handler's result: nil, an error, or an ErrorRetrier
ExecResult(p) ==
    /\ At(p, "handle")
    /\ \E res \in {"nil", "error", "ErrorRetrier"} :
          IF MayRetry(loc[p].job, loc[p].rt, res)
          THEN /\ Local(p, [loc[p] EXCEPT !.st = "QUEUEING"])
               /\ Goto(p, "requeue")
          ELSE /\ Local(p, [loc[p] EXCEPT !.st = IF res = "nil" THEN "SUCCESS" ELSE "FAILURE"])
               /\ Goto(p, "finish")
    /\ UNCHANGED <<store, queue, locked, engine, done, bounds>>

ExecRequeue(p) ==
    /\ At(p, "requeue")
    /\ queue' = Append(queue, loc[p].job)
    /\ Goto(p, "finish")
    /\ UNCHANGED <<store, locked, engine, done, loc, bounds>>

\* FINISH: the job is deleted, or updated by id only
ExecFinish(p) ==
    LET j == loc[p].job
        n == IF Exists(j) THEN 1 ELSE 0
    IN
    /\ At(p, "finish") /\ (Deletes(p) \/ Counted(p))
    /\ status' = IF ~Exists(j) THEN status
                 ELSE [status EXCEPT ![j] = IF Deletes(p) THEN "DELETED" ELSE loc[p].st]
    /\ retries' = IF Deletes(p) \/ ~Exists(j) THEN retries
                  ELSE [retries EXCEPT ![j] = loc[p].rt]
    /\ Local(p, Updated(p, IF Deletes(p) THEN [NoIncr EXCEPT !["RETRYING"] = -1]
                           ELSE Moved("RETRYING", loc[p].st, MatchedCount(p, n), n)))
    /\ Goto(p, "incrFinish")
    /\ UNCHANGED <<total, hold, loading, queue, locked, engine, done, bounds>>

\* The deferred calls of the run, in their order
RunUnlock(p) ==
    /\ At(p, "unlock")
    /\ locked' = FALSE
    /\ Goto(p, "release")
    /\ UNCHANGED <<store, queue, engine, done, loc, bounds>>

RunRelease(p) ==
    /\ At(p, "release")
    /\ sem' = [sem EXCEPT ![Home[p]] = FALSE]
    /\ Goto(p, "cancel")
    /\ UNCHANGED <<store, queue, locked, armed, tick, cancel, done, loc, bounds>>

\* Mutant: the run ends without registerNextJob
RunCancelOnly(p) ==
    /\ At(p, "cancel")
    /\ done' = [q \in Proc |-> done[q] \/ q = cancel[Home[p]]]
    /\ Return(p)
    /\ UNCHANGED <<store, queue, locked, engine, bounds>>

\* task.cancel() reads the field after the semaphore is free: it may be another run's by now.
RunCancel(p) ==
    /\ At(p, "cancel")
    /\ done' = [q \in Proc |-> done[q] \/ q = cancel[Home[p]]]
    /\ Local(p, [NoLoc EXCEPT !.flag = TRUE])
    /\ Goto(p, "nextPeek")
    /\ UNCHANGED <<store, queue, locked, engine, bounds>>

-----------------------------------------------------------------------------
\* AddJob

\* A cron job is refused while one without retry limit is pending.
AddJob(p) ==
    LET j == added + 1 IN
    /\ At(p, "idle") /\ added < NumJobs
    /\ added' = j
    /\ IF j \in CronJob /\ \E k \in Job : /\ MaxRetry[k] = 0
                                          /\ status[k] \in {"QUEUEING", "RETRYING"}
       THEN UNCHANGED <<pc, loc>>
       ELSE /\ Local(p, [NoLoc EXCEPT !.op = "AddJob", !.job = j])
            /\ Goto(p, "addSummary")
    /\ UNCHANGED <<store, queue, locked, engine, done, calls, crashes>>

AddSummary(p) ==
    /\ At(p, "addSummary")
    /\ Local(p, [loc[p] EXCEPT !.st = IF hold THEN "HOLD" ELSE "QUEUEING",
                               !.flag = hold \/ loading])
    /\ Goto(p, "addSave")
    /\ UNCHANGED <<store, queue, locked, engine, done, bounds>>

AddSave(p) ==
    /\ At(p, "addSave")
    /\ status' = [status EXCEPT ![loc[p].job] = loc[p].st]
    /\ Local(p, [loc[p] EXCEPT !.incr = [NoIncr EXCEPT ![loc[p].st] = 1]])
    /\ Goto(p, "incrAdd")
    /\ UNCHANGED <<retries, total, hold, loading, queue, locked, engine, done, bounds>>

\* Mutant: off by one, the first job of the queue is not registered
AddPushSecond(p) ==
    /\ At(p, "addPush")
    /\ queue' = Append(queue, loc[p].job)
    /\ Local(p, [loc[p] EXCEPT !.flag = Len(queue') = 2])
    /\ Goto(p, "addSemaphore")
    /\ UNCHANGED <<store, locked, engine, done, bounds>>

AddPush(p) ==
    /\ At(p, "addPush")
    /\ queue' = Append(queue, loc[p].job)
    /\ Local(p, [loc[p] EXCEPT !.flag = Len(queue') <= 1])
    /\ Goto(p, "addSemaphore")
    /\ UNCHANGED <<store, locked, engine, done, bounds>>

AddSemaphore(p) ==
    /\ At(p, "addSemaphore")
    /\ Goto(p, IF loc[p].flag /\ ~sem[Home[p]] THEN "register" ELSE "addHasLock")
    /\ UNCHANGED <<store, queue, locked, engine, done, loc, bounds>>

AddHasBeenLocked(p) ==
    /\ At(p, "addHasLock")
    /\ IF locked THEN Goto(p, "unlockCount") /\ UNCHANGED loc ELSE Return(p)
    /\ UNCHANGED <<store, queue, locked, engine, done, bounds>>

-----------------------------------------------------------------------------
\* The calls on one job

\* A call other than AddJob starts at label l with these locals.
Call(p, op, l, locals) ==
    /\ At(p, "idle") /\ op \in Api /\ calls < MaxCalls
    /\ calls' = calls + 1
    /\ Local(p, [locals EXCEPT !.op = op])
    /\ Goto(p, l)
    /\ UNCHANGED <<added, crashes>>

\* The job as FindJobByID returns it
Found(j) == [NoLoc EXCEPT !.job = j, !.st = status[j], !.rt = retries[j]]

RetryJob(p, j) ==
    /\ Exists(j)
    /\ Call(p, "RetryJob", "retryUnlock", Found(j))
    /\ UNCHANGED <<store, queue, locked, engine, done>>

RetryUnlock(p) ==
    /\ At(p, "retryUnlock")
    /\ locked' = FALSE
    /\ Goto(p, "retrySave")
    /\ UNCHANGED <<store, queue, engine, done, loc, bounds>>

(***************************************************************************)
(* The status is set to QUEUEING before it is compared with FAILURE, so    *)
(* that only an exhausted counter is reset.  The two keys of the summary   *)
(* map are one when the job was QUEUEING: the later one, +affected, stays. *)
(***************************************************************************)
RetrySave(p) ==
    LET j == loc[p].job
        n == IF Exists(j) THEN 1 ELSE 0
    IN
    /\ At(p, "retrySave") /\ Counted(p)
    /\ status' = IF Exists(j) THEN [status EXCEPT ![j] = "QUEUEING"] ELSE status
    /\ retries' = IF ~Exists(j) THEN retries
                  ELSE [retries EXCEPT ![j] = IF loc[p].rt >= MaxRetry[j] THEN 0 ELSE loc[p].rt]
    /\ Local(p, Updated(p, IF loc[p].st = "QUEUEING" THEN [NoIncr EXCEPT !["QUEUEING"] = n]
                           ELSE Moved(loc[p].st, "QUEUEING", MatchedCount(p, n), n)))
    /\ Goto(p, "incrRetry")
    /\ UNCHANGED <<total, hold, loading, queue, locked, engine, done, bounds>>

RetryPush(p) ==
    /\ At(p, "retryPush")
    /\ queue' = Append(queue, loc[p].job)
    /\ Goto(p, "register")
    /\ UNCHANGED <<store, locked, engine, done, loc, bounds>>

StopJob(p, j) ==
    /\ Exists(j)
    /\ Call(p, "StopJob", IF status[j] = "RETRYING" THEN "stopTask" ELSE "stopSave", Found(j))
    /\ UNCHANGED <<store, queue, locked, engine, done>>

\* stopAllJobInTask: whichever job is running by now is cancelled.
StopTask(p) ==
    /\ pc[p] \in {"stopTask", "stopAllTask"}
    /\ armed' = [armed EXCEPT ![Home[p]] = FALSE]
    /\ done' = [q \in Proc |-> done[q] \/ q = cancel[Home[p]]]
    /\ Goto(p, IF At(p, "stopTask") THEN "stopSave" ELSE "stopAllQueueing")
    /\ UNCHANGED <<store, queue, locked, sem, tick, cancel, loc, bounds>>

\* UpdateJob filters on the status read before; of two equal keys -matched, the later, stays.
StopSave(p) ==
    LET j == loc[p].job
        n == IF status[j] = loc[p].st THEN 1 ELSE 0
    IN
    /\ At(p, "stopSave") /\ Counted(p)
    /\ status' = IF n = 1 THEN [status EXCEPT ![j] = "STOPPED"] ELSE status
    /\ Local(p, Updated(p, IF loc[p].st = "STOPPED"
                           THEN [NoIncr EXCEPT !["STOPPED"] = -MatchedCount(p, n)]
                           ELSE Moved(loc[p].st, "STOPPED", MatchedCount(p, n), n)))
    /\ Goto(p, "incrStop")
    /\ UNCHANGED <<retries, total, hold, loading, queue, locked, engine, done, bounds>>

(***************************************************************************)
(* The counter of the status that the deleted job had goes down.           *)
(* MongoPersistent finds and deletes the job in one command.               *)
(***************************************************************************)
DeleteJob(p, j) ==
    /\ ~SQL /\ Exists(j)
    /\ Call(p, "DeleteJob", "incrDelete",
            [NoLoc EXCEPT !.incr = [NoIncr EXCEPT ![status[j]] = -1]])
    /\ status' = [status EXCEPT ![j] = "DELETED"]
    /\ UNCHANGED <<retries, total, hold, loading, queue, locked, engine, done>>

\* SQLPersistent.DeleteJob selects the job, and deletes it by its id in a statement of its own.
DeleteSelect(p, j) ==
    /\ SQL /\ Exists(j)
    /\ Call(p, "DeleteJob", "deleteRow", [NoLoc EXCEPT !.job = j, !.st = status[j]])
    /\ UNCHANGED <<store, queue, locked, engine, done>>

\* The counter that goes down is the one of the status selected, whether or not the job is there.
DeleteRow(p) ==
    LET j == loc[p].job IN
    /\ At(p, "deleteRow")
    /\ status' = IF Exists(j) THEN [status EXCEPT ![j] = "DELETED"] ELSE status
    /\ Local(p, [loc[p] EXCEPT !.incr = [NoIncr EXCEPT ![loc[p].st] = -1]])
    /\ Goto(p, "incrDelete")
    /\ UNCHANGED <<retries, total, hold, loading, queue, locked, engine, done, bounds>>

-----------------------------------------------------------------------------
\* The calls on all jobs of the task

HoldJobTask(p) ==
    /\ Call(p, "HoldJobTask", "holdFlip", [NoLoc EXCEPT !.flag = hold])
    /\ UNCHANGED <<store, queue, locked, engine, done>>

HoldFlip(p) ==
    /\ At(p, "holdFlip")
    /\ hold' = ~loc[p].flag
    /\ IF loc[p].flag
       THEN /\ Goto(p, "unholdLoading")
            /\ Local(p, [loc[p] EXCEPT !.flag = FALSE])
       ELSE Return(p)
    /\ UNCHANGED <<status, retries, total, loading, queue, locked, engine, done, bounds>>

StopAllJob(p) ==
    /\ Call(p, "StopAllJob", "stopAllLoading", NoLoc)
    /\ UNCHANGED <<store, queue, locked, engine, done>>

RetryAllJob(p) ==
    /\ Call(p, "RetryAllJob", "retryAllLoading", NoLoc)
    /\ UNCHANGED <<store, queue, locked, engine, done>>

\* With the statuses FAILURE and STOPPED; without any, the loop of the code does nothing.
CleanJob(p) ==
    /\ Call(p, "CleanJob", "cleanLoading", NoLoc)
    /\ UNCHANGED <<store, queue, locked, engine, done>>

RunQueuedJob(p) ==
    /\ Call(p, "RunQueuedJob", "unlockCount", [NoLoc EXCEPT !.flag = TRUE])
    /\ UNCHANGED <<store, queue, locked, engine, done>>

\* The counts of AggregateAllTaskJob
Counts == [s \in Status |-> CountAllJob({s})]

RecalculateSummary(p) ==
    /\ Call(p, "RecalculateSummary", "recalculate", [NoLoc EXCEPT !.incr = Counts])
    /\ UNCHANGED <<store, queue, locked, engine, done>>

\* Every counter but hold is overwritten.
RecalculateSave(p) ==
    /\ At(p, "recalculate")
    /\ total' = [loc[p].incr EXCEPT !["HOLD"] = total["HOLD"]]
    /\ Return(p)
    /\ UNCHANGED <<status, retries, hold, loading, queue, locked, engine, done, bounds>>

\* The UpdateSummary calls that raise and lower is_loading and is_hold
UpdateSummary(p) ==
    /\ \/ /\ pc[p] \in {"unholdLoading", "retryAllLoading", "stopAllLoading", "cleanLoading"}
          /\ loading' = TRUE
          /\ Goto(p, CASE At(p, "unholdLoading")   -> "unholdStream"
                       [] At(p, "retryAllLoading") -> "retryAllStream"
                       [] At(p, "stopAllLoading")  -> "stopAllHold"
                       [] At(p, "cleanLoading")    -> "cleanFailure")
          /\ UNCHANGED hold
       \/ /\ pc[p] \in {"unholdLoaded", "retryAllLoaded", "stopAllLoaded", "cleanLoaded"}
          /\ loading' = FALSE
          /\ Goto(p, CASE At(p, "unholdLoaded")   -> "nextPeek"
                       [] At(p, "retryAllLoaded") -> "incrRetryAll"
                       [] At(p, "stopAllLoaded")  -> "incrStopAll"
                       [] At(p, "cleanLoaded")    -> "incrDelete")
          /\ UNCHANGED hold
       \/ At(p, "stopAllHold") /\ hold' = TRUE /\ Goto(p, "stopAllTask") /\ UNCHANGED loading
       \/ At(p, "stopAllUnhold") /\ hold' = FALSE /\ Goto(p, "stopAllLoaded") /\ UNCHANGED loading
    /\ UNCHANGED <<status, retries, total, queue, locked, engine, done, loc, bounds>>

BulkStream(p) ==
    /\ pc[p] \in {"unholdStream", "retryAllStream"}
    /\ LET sts == IF At(p, "unholdStream") THEN {"HOLD"} ELSE {"FAILURE", "STOPPED"}
       IN Local(p, [loc[p] EXCEPT !.todo = FindAllJob(sts)])
    /\ Goto(p, IF At(p, "unholdStream") THEN "unholdPush" ELSE "retryAllPush")
    /\ UNCHANGED <<store, queue, locked, engine, done, bounds>>

(***************************************************************************)
(* UpdateJob on every job with one status; back in the queue, retries      *)
(* restart at 0.  The end of a hold adds what was matched and takes off    *)
(* what was changed, the other calls do it the other way round.            *)
(***************************************************************************)
BulkUpdate(p, l, from, to, next) ==
    LET js == {j \in Job : status[j] = from}
        n == Cardinality(js)
        m == MatchedCount(p, n)
        moved == IF l = "unholdSave" THEN Moved(from, to, n, m) ELSE Moved(from, to, m, n)
    IN
    /\ At(p, l) /\ Counted(p)
    /\ status' = [j \in Job |-> IF j \in js THEN to ELSE status[j]]
    /\ retries' = [j \in Job |-> IF j \in js /\ to = "QUEUEING" THEN 0 ELSE retries[j]]
    /\ Local(p, Updated(p, [s \in Status |-> loc[p].incr[s] + moved[s]]))
    /\ Goto(p, next)
    /\ UNCHANGED <<total, hold, loading, queue, locked, engine, done, bounds>>

\* CleanJob of the store on every job with one status: one command in either store
BulkClean(p, l, from, next) ==
    LET js == {j \in Job : status[j] = from} IN
    /\ At(p, l)
    /\ status' = [j \in Job |-> IF j \in js THEN "DELETED" ELSE status[j]]
    /\ Local(p, [loc[p] EXCEPT !.incr[from] = @ - Cardinality(js)])
    /\ Goto(p, next)
    /\ UNCHANGED <<retries, total, hold, loading, queue, locked, engine, done, bounds>>

Bulk(p) ==
    \/ BulkUpdate(p, "stopAllQueueing", "QUEUEING", "STOPPED", "stopAllRetrying")
    \/ BulkUpdate(p, "stopAllRetrying", "RETRYING", "STOPPED", "stopAllUnhold")
    \/ BulkUpdate(p, "retryAllFailure", "FAILURE", "QUEUEING", "retryAllStopped")
    \/ BulkUpdate(p, "retryAllStopped", "STOPPED", "QUEUEING", "retryAllLoaded")
    \/ BulkUpdate(p, "unholdSave", "HOLD", "QUEUEING", "incrUnhold")
    \/ BulkClean(p, "cleanFailure", "FAILURE", "cleanStopped")
    \/ BulkClean(p, "cleanStopped", "STOPPED", "cleanLoaded")

StopAllClear(p) ==
    /\ At(p, "stopAllClear")
    /\ queue' = << >>
    /\ Return(p)
    /\ UNCHANGED <<store, locked, engine, done, bounds>>

-----------------------------------------------------------------------------
\* prepare, and the crash that makes it run again

\* Mutant: the locks a crashed runtime left are kept
PrepareNoReset(p) ==
    /\ At(p, "prepReset")
    /\ Goto(p, "prepClear")
    /\ UNCHANGED <<store, queue, locked, engine, done, loc, bounds>>

PrepareReset(p) ==
    /\ At(p, "prepReset")
    /\ locked' = FALSE
    /\ Goto(p, "prepClear")
    /\ UNCHANGED <<store, queue, engine, done, loc, bounds>>

PrepareClear(p) ==
    /\ At(p, "prepClear")
    /\ queue' = << >>
    /\ Goto(p, "prepCount")
    /\ UNCHANGED <<store, locked, engine, done, loc, bounds>>

\* Mutant: a restart looks only for the jobs that were interrupted
PrepareCountRunning(p) ==
    /\ At(p, "prepCount")
    /\ Local(p, [loc[p] EXCEPT !.incr = Counts,
                               !.flag = CountAllJob({"RETRYING"}) > 0])
    /\ Goto(p, "prepSummary")
    /\ UNCHANGED <<store, queue, locked, engine, done, bounds>>

PrepareCount(p) ==
    /\ At(p, "prepCount")
    /\ Local(p, [loc[p] EXCEPT !.incr = Counts,
                               !.flag = CountAllJob({"RETRYING", "QUEUEING"}) > 0])
    /\ Goto(p, "prepSummary")
    /\ UNCHANGED <<store, queue, locked, engine, done, bounds>>

\* Mutant: the counters a crashed runtime left are kept
PrepareNoSummary(p) ==
    /\ At(p, "prepSummary")
    /\ loading' = TRUE
    /\ Local(p, [loc[p] EXCEPT !.incr = NoIncr])
    /\ Goto(p, IF loc[p].flag THEN "prepStream" ELSE "prepLoaded")
    /\ UNCHANGED <<status, retries, total, hold, queue, locked, engine, done, bounds>>

PrepareSummary(p) ==
    /\ At(p, "prepSummary")
    /\ total' = loc[p].incr
    /\ loading' = TRUE
    /\ Local(p, [loc[p] EXCEPT !.incr = NoIncr])
    /\ Goto(p, IF loc[p].flag THEN "prepStream" ELSE "prepLoaded")
    /\ UNCHANGED <<status, retries, hold, queue, locked, engine, done, bounds>>

\* Mutant: only the jobs still QUEUEING are loaded
PrepareStreamQueued(p) ==
    /\ At(p, "prepStream")
    /\ Local(p, [loc[p] EXCEPT !.todo = FindAllJob({"QUEUEING"})])
    /\ Goto(p, "prepNext")
    /\ UNCHANGED <<store, queue, locked, engine, done, bounds>>

PrepareStream(p) ==
    /\ At(p, "prepStream")
    /\ Local(p, [loc[p] EXCEPT !.todo = FindAllJob({"RETRYING", "QUEUEING"})])
    /\ Goto(p, "prepNext")
    /\ UNCHANGED <<store, queue, locked, engine, done, bounds>>

\* Nothing locks a job id, so HasBeenLocked skips no job.
PrepareNext(p) ==
    /\ At(p, "prepNext")
    /\ IF loc[p].todo = {}
       THEN Goto(p, "prepLoaded") /\ UNCHANGED <<status, loc>>
       ELSE \E it \in loc[p].todo :
            /\ Earliest(it, loc[p].todo)
            /\ IF it.st = "QUEUEING"
               THEN /\ Goto(p, "prepPush")
                    /\ Local(p, [loc[p] EXCEPT !.job = it.id, !.todo = @ \ {it}])
                    /\ UNCHANGED status
               ELSE LET n == IF Exists(it.id) THEN 1 ELSE 0 IN
                    /\ Counted(p)
                    /\ status' = IF n = 1 THEN [status EXCEPT ![it.id] = "QUEUEING"] ELSE status
                    /\ Local(p, [Updated(p, Moved(it.st, "QUEUEING", MatchedCount(p, n), n))
                                   EXCEPT !.job = it.id, !.todo = @ \ {it}])
                    /\ Goto(p, "incrPrepare")
    /\ UNCHANGED <<retries, total, hold, loading, queue, locked, engine, done, bounds>>

PreparePush(p) ==
    /\ At(p, "prepPush")
    /\ queue' = Append(queue, loc[p].job)
    /\ loading' = TRUE
    /\ Goto(p, "prepNext")
    /\ UNCHANGED <<status, retries, total, hold, locked, engine, done, loc, bounds>>

PrepareLoaded(p) ==
    /\ At(p, "prepLoaded")
    /\ loading' = FALSE
    /\ IF loc[p].flag
       THEN /\ Local(p, [loc[p] EXCEPT !.flag = FALSE])
            /\ Goto(p, "nextPeek")
       ELSE Return(p)
    /\ UNCHANGED <<status, retries, total, hold, queue, locked, engine, done, bounds>>

\* The runtime dies and is started again: its goroutines and its engine are new.
Crash(r) ==
    LET here == {p \in Proc : Home[p] = r} IN
    /\ crashes < MaxCrashes
    /\ crashes' = crashes + 1
    /\ pc' = [p \in Proc |-> IF p \notin here THEN pc[p]
                             ELSE IF p \in Boot THEN "prepReset" ELSE "idle"]
    /\ loc' = [p \in Proc |-> IF p \in here THEN NoLoc ELSE loc[p]]
    /\ done' = [p \in Proc |-> IF p \in here THEN FALSE ELSE done[p]]
    /\ sem' = [sem EXCEPT ![r] = FALSE]
    /\ armed' = [armed EXCEPT ![r] = FALSE]
    /\ tick' = [tick EXCEPT ![r] = FALSE]
    /\ cancel' = [cancel EXCEPT ![r] = None]
    /\ UNCHANGED <<store, queue, locked, added, calls>>

-----------------------------------------------------------------------------

WorkerStep(p) ==
    \/ Serve(p) \/ TriggerStop(p) \/ TriggerHold(p) \/ TriggerAcquire(p)
    \/ RunBegin(p) \/ RunLock(p) \/ ExecPop(p) \/ ExecFind(p) \/ ExecMark(p)
    \/ ExecCancelled(p) \/ ExecResult(p) \/ ExecRequeue(p) \/ ExecFinish(p)
    \/ RunUnlock(p) \/ RunRelease(p) \/ RunCancel(p)

CommonStep(p) ==
    \/ IncrementSummary(p) \/ CountMatched(p)
    \/ NextPeek(p) \/ NextFind(p) \/ NextPop(p) \/ NextStream(p)
    \/ StreamPush(p) \/ RegisterJobToWorker(p) \/ UnlockTaskCount(p) \/ UnlockTaskDel(p)

ClientStep(p) ==
    \/ AddSummary(p) \/ AddSave(p) \/ AddPush(p) \/ AddSemaphore(p) \/ AddHasBeenLocked(p)
    \/ RetryUnlock(p) \/ RetrySave(p) \/ RetryPush(p) \/ StopTask(p) \/ StopSave(p)
    \/ DeleteRow(p) \/ HoldFlip(p) \/ RecalculateSave(p) \/ UpdateSummary(p)
    \/ BulkStream(p) \/ Bulk(p) \/ StopAllClear(p)

ClientCall(p) ==
    /\ EarlyCalls \/ \A b \in Boot : Home[b] = Home[p] => pc[b] = "idle"
    /\ \/ AddJob(p)
       \/ \E j \in Job : RetryJob(p, j) \/ StopJob(p, j) \/ DeleteJob(p, j) \/ DeleteSelect(p, j)
       \/ HoldJobTask(p) \/ StopAllJob(p) \/ RetryAllJob(p) \/ CleanJob(p)
       \/ RunQueuedJob(p) \/ RecalculateSummary(p)

BootStep(p) ==
    \/ PrepareReset(p) \/ PrepareClear(p) \/ PrepareCount(p) \/ PrepareSummary(p)
    \/ PrepareStream(p) \/ PrepareNext(p) \/ PreparePush(p) \/ PrepareLoaded(p)

Next ==
    \/ \E p \in Worker : WorkerStep(p)
    \/ \E p \in Client : ClientStep(p) \/ ClientCall(p)
    \/ \E p \in Boot : BootStep(p)
    \/ \E p \in Proc : CommonStep(p)
    \/ \E r \in Runtime : TickerFires(r) \/ Crash(r)

Spec == Init /\ [][Next]_vars

(***************************************************************************)
(* A goroutine that can run does, a started ticker ticks, and a handler    *)
(* returns.  Nothing makes a client call or a runtime crash.               *)
(***************************************************************************)
Fairness ==
    /\ \A p \in Worker : WF_vars(WorkerStep(p)) /\ WF_vars(CommonStep(p))
    /\ \A p \in Client : WF_vars(ClientStep(p)) /\ WF_vars(CommonStep(p))
    /\ \A p \in Boot : WF_vars(BootStep(p)) /\ WF_vars(CommonStep(p))
    /\ \A r \in Runtime : WF_vars(TickerFires(r))

FairSpec == Spec /\ Fairness

-----------------------------------------------------------------------------
\* Properties

\* The labels at which the job of a goroutine is known
HasJob == {"find", "mark", "incrMark", "handle", "requeue", "finish", "nextFind",
           "addSummary", "addSave", "incrAdd", "addPush", "retryUnlock", "retrySave",
           "incrRetry", "retryPush", "stopTask", "stopSave", "deleteRow", "incrPrepare",
           "prepPush"}

\* What a goroutine carries from one step to the next
Locals == [op : Api \cup {"none", "AddJob"}, job : Job \cup {0}, st : Status \cup {"NONE"},
           rt : Nat, flag : BOOLEAN, todo : SUBSET [id : Job, st : Status],
           incr : [Status -> Int], matched : Int]

StoreOK ==
    /\ status \in [Job -> Status \cup {"NONE", "DELETED"}]
    /\ retries \in [Job -> Nat]
    /\ total \in [Status -> Int]
    /\ hold \in BOOLEAN /\ loading \in BOOLEAN /\ locked \in BOOLEAN
    /\ queue \in Seq(Job)

EngineOK ==
    /\ sem \in [Runtime -> BOOLEAN] /\ armed \in [Runtime -> BOOLEAN]
    /\ tick \in [Runtime -> BOOLEAN] /\ cancel \in [Runtime -> Proc \cup {None}]
    /\ done \in [Proc -> BOOLEAN]

BoundsOK == added \in 0..NumJobs /\ calls \in 0..MaxCalls /\ crashes \in 0..MaxCrashes

ProcOK ==
    /\ pc \in [Proc -> Label]
    /\ loc \in [Proc -> Locals]
    /\ \A p \in Proc : pc[p] \in HasJob => loc[p].job \in Job

(***************************************************************************)
(* The types of the variables.  A goroutine that is about to use a job id  *)
(* (execJob after PopJob, the API calls after FindJobByID) has one: the    *)
(* empty id of a missing job never reaches the store or the queue.         *)
(***************************************************************************)
TypeOK == StoreOK /\ EngineOK /\ BoundsOK /\ ProcOK

(***************************************************************************)
(* Two ticks may start two triggerTask goroutines, and a retry may arm the *)
(* ticker while a job runs, but the semaphore of the task lets one of them *)
(* at a time take the lock, pop a job and run it in its runtime.           *)
(***************************************************************************)
OneRunPerRuntime ==
    \A p, q \in Worker :
        Home[p] = Home[q] /\ pc[p] \in InRun /\ pc[q] \in InRun => p = q

(***************************************************************************)
(* The handler of a task runs in one runtime at a time, which is what      *)
(* triggerTask takes the distributed lock for.                             *)
(***************************************************************************)
OneRunPerTask ==
    \A p, q \in Worker : pc[p] = "handle" /\ pc[q] = "handle" => p = q

Idle == \A p \in Proc : pc[p] = "idle"
AtRest == Idle /\ \A r \in Runtime : ~armed[r] /\ ~tick[r]

(***************************************************************************)
(* When nothing runs and no ticker will fire, no job is left RETRYING: no  *)
(* path would ever run or requeue it short of a restart.                   *)
(***************************************************************************)
NoJobStranded == AtRest => \A j \in Job : status[j] # "RETRYING"

(***************************************************************************)
(* When nothing runs and no ticker will fire, no job is pending at all: a  *)
(* goroutine that pushes a job and finds another one ahead of it relies on *)
(* a run or a ticker to register the next job, and that one is there.      *)
(***************************************************************************)
NothingPending == AtRest => \A j \in Job : status[j] \notin {"QUEUEING", "RETRYING"}

(***************************************************************************)
(* The counters IncrementSummary keeps with deltas agree with the job      *)
(* table whenever no goroutine is between UpdateJob and IncrementSummary,  *)
(* also after a crash between the two: prepare counts again.               *)
(***************************************************************************)
SummaryExact == Idle => total = Counts

(***************************************************************************)
(* The lock key of the task is gone when nothing runs, whoever deleted it  *)
(* and although IsLocked counts it up even when it fails.                  *)
(***************************************************************************)
LockReleased == Idle => ~locked

(***************************************************************************)
(* A job with a retry limit that AddJob accepted is run until it succeeds, *)
(* after which it may be deleted, or fails: one of AddJob, the run before  *)
(* it, or registerNextJob always arms the ticker for it, and a crash gives *)
(* it back to the queue.                                                   *)
(***************************************************************************)
EveryJobFinishes ==
    \A j \in Job : MaxRetry[j] # 0 =>
        (status[j] \in {"QUEUEING", "RETRYING"} ~> status[j] \in {"SUCCESS", "FAILURE", "DELETED"})

(***************************************************************************)
(* A cron job without limit is run again and again, whatever else is       *)
(* queued.                                                                 *)
(***************************************************************************)
CronKeepsRunning ==
    \A j \in Job : MaxRetry[j] = 0 => (status[j] = "QUEUEING" ~> status[j] = "RETRYING")

(***************************************************************************)
(* A job that succeeded is not run again, although the queue may hold its  *)
(* id more than once: only RetryJob and StopJob change its status.         *)
(***************************************************************************)
SuccessIsFinal ==
    [][\A j \in Job : status[j] = "SUCCESS" /\ status'[j] # status[j]
            => status'[j] = "DELETED" \/ \E p \in Client : pc[p] \in {"retrySave", "stopSave"}]_vars
=============================================================================
