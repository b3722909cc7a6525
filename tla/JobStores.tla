----------------------------- MODULE JobStores -----------------------------
(***************************************************************************)
(* The stores behind the task queue worker, side by side: the SQL store    *)
(* (persistent_sql.go), the Mongo store (persistent_mongo.go), and the     *)
(* Mongo store with its summary kept in memory (summary.go, SetSummary),   *)
(* each with a secondary store that takes what the first one refuses.      *)
(* Every operation of the engine is made on all three with the same        *)
(* arguments; what it does next depends on what its own store answered.    *)
(*                                                                         *)
(* The operations run one after the other here: TaskQueueWorker is about   *)
(* their interleaving, this module about what the calls mean in each       *)
(* store.  A job is its status; its task and its place in the order of     *)
(* created_at are given.  NULL is a value a column of a row can have.      *)
(***************************************************************************)
EXTENDS Integers, FiniteSets

CONSTANTS NumStoreJobs,   \* bound: jobs added in a behaviour
          Task,           \* the task names that jobs and summaries have
          TaskOf,         \* the task of each job
          MaxStoreOps,    \* bound: operations in a behaviour
          Null

StoreJob == 1..NumStoreJobs
Counted == {"QUEUEING", "RETRYING", "SUCCESS", "FAILURE", "STOPPED"}
JobStatus == Counted \cup {"HOLD"}
Kind == {"sql", "mongo", "memory"}

\* A row of the summary: the counters and the columns is_loading and is_hold
SummaryRow == [count : [JobStatus -> Int \cup {Null}], loading : BOOLEAN \cup {Null},
               hold : BOOLEAN \cup {Null}]

ASSUME StoreAssumption ==
    /\ NumStoreJobs \in Nat /\ MaxStoreOps \in Nat
    /\ TaskOf \in [StoreJob -> Task]
    /\ Null \notin Task \cup StoreJob \cup Int \cup BOOLEAN \cup SummaryRow

VARIABLES store,          \* of each kind: the jobs, the summary rows, the secondary's jobs
          tasks,          \* engine.tasks: the tasks this release has registered
          listed,         \* the tasks whose in-memory summary FindAllSummary has named
          ops,
          \* history
          accepted,       \* the jobs AddJob returned no error for
          removed,        \* the jobs that were deleted or cleaned
          restored,       \* the jobs RestoreFromSecondary saved in the first store
          refused,        \* the jobs whose SaveJob failed in RestoreFromSecondary
          drifted         \* the tasks with a summary that equal map keys have put wrong

history == <<accepted, removed, restored, refused>>
storeVars == <<store, tasks, listed, ops, history, drifted>>

-----------------------------------------------------------------------------
\* The job table.  toQueryFilter and toBsonFilter add a condition for each field that is set.

NoFilter == [task |-> Null, exclude |-> {}, id |-> Null, statuses |-> {}, before |-> Null]

Matches(f, jobs, j) ==
    /\ jobs[j] # "NONE"
    /\ f.task # Null => TaskOf[j] = f.task
    /\ f.task = Null /\ f.exclude # {} => TaskOf[j] \notin f.exclude
    /\ f.id # Null => j = f.id
    /\ f.statuses # {} => jobs[j] \in f.statuses
    /\ f.before # Null => j <= f.before

\* "empty filter", an error that only the SQL store has and only UpdateJob and CleanJob heed
EmptyFilter(k, f) == k = "sql" /\ f = NoFilter

\* Mutant: the SQL filter has no condition on created_at
MatchedAnyAge(k, f, jobs) ==
    LET sent == IF k = "sql" THEN [f EXCEPT !.before = Null] ELSE f
    IN IF EmptyFilter(k, f) THEN {} ELSE {j \in StoreJob : Matches(sent, jobs, j)}

Matched(k, f, jobs) ==
    IF EmptyFilter(k, f) THEN {} ELSE {j \in StoreJob : Matches(f, jobs, j)}

UpdateJob(k, f, jobs, status) ==
    [j \in StoreJob |-> IF j \in Matched(k, f, jobs) THEN status ELSE jobs[j]]

CleanJob(k, f, jobs) == UpdateJob(k, f, jobs, "NONE")

CountAllJob(f, jobs) == Cardinality({j \in StoreJob : Matches(f, jobs, j)})

\* AggregateAllTaskJob as RecalculateSummary uses it: without HOLD
AggregateAllTaskJob(jobs, t) ==
    [s \in Counted |-> CountAllJob([NoFilter EXCEPT !.task = t, !.statuses = {s}], jobs)]

(***************************************************************************)
(* SaveJob of a job that has an id.  Mongo upserts it; the SQL store sends *)
(* an UPDATE, which changes nothing and is no error when there is no row.  *)
(***************************************************************************)
SaveJob(k, jobs, j, status) ==
    IF k = "sql" /\ jobs[j] = "NONE" THEN jobs ELSE [jobs EXCEPT ![j] = status]

-----------------------------------------------------------------------------
\* The summary of a task

EmptyRow == [count |-> [s \in JobStatus |-> 0], loading |-> FALSE, hold |-> FALSE]

\* The map of an UpdateSummary, its counters and its other columns apart
NoCounts == [s \in {} |-> 0]
Flags(columns, b) == [c \in columns |-> b]
Message == Flags({"loading_message"}, TRUE)   \* its text plays no part
Loading(b) == Flags({"is_loading", "loading_message"}, b)

\* upd[c], or otherwise what the column holds
Column(upd, c, otherwise) == IF c \in DOMAIN upd THEN upd[c] ELSE otherwise

UpdatedRow(row, counts, flags) ==
    [count |-> [s \in JobStatus |-> Column(counts, s, row.count[s])],
     loading |-> Column(flags, "is_loading", row.loading),
     hold |-> Column(flags, "is_hold", row.hold)]

(***************************************************************************)
(* The INSERT of the SQL store when the UPDATE met no row: a counter that  *)
(* is not given is zero, another column NULL, and loading_message may not  *)
(* be NULL, so that a map without it inserts nothing.                      *)
(***************************************************************************)
InsertedRow(counts, flags) ==
    IF "loading_message" \notin DOMAIN flags THEN Null
    ELSE [count |-> [s \in JobStatus |-> Column(counts, s, IF s = "HOLD" THEN Null ELSE 0)],
          loading |-> Column(flags, "is_loading", Null),
          hold |-> Column(flags, "is_hold", Null)]

\* In memory every boolean of the map goes to IsLoading, and hold is no counter.
MemoryRow(row, counts, flags) ==
    [count |-> [s \in JobStatus |-> IF s = "HOLD" THEN 0 ELSE Column(counts, s, row.count[s])],
     loading |-> Column(flags, "is_loading", Column(flags, "is_hold", row.loading)),
     hold |-> row.hold]

UpdateSummary(k, row, counts, flags) ==
    LET known == IF row = Null THEN EmptyRow ELSE row
    IN CASE k = "sql" -> IF row = Null THEN InsertedRow(counts, flags)
                         ELSE UpdatedRow(row, counts, flags)
         [] k = "mongo" -> UpdatedRow(known, counts, flags)
         [] k = "memory" -> MemoryRow(known, counts, flags)

Plus(a, b) == IF a = Null THEN Null ELSE a + b

\* Mutant: in memory a job that stops is not counted
IncrementSummaryNoStop(k, row, incr) ==
    LET known == IF row = Null THEN EmptyRow ELSE row
        ignored == IF k = "memory" THEN {"HOLD", "STOPPED"} ELSE {}
    IN IF k = "sql" /\ row = Null THEN Null
       ELSE [known EXCEPT !.count = [s \in JobStatus |->
               IF s \in DOMAIN incr \ ignored THEN Plus(@[s], incr[s]) ELSE @[s]]]

\* IncrementSummary: the row the SQL store would insert has no loading_message
IncrementSummary(k, row, incr) ==
    LET known == IF row = Null THEN EmptyRow ELSE row
        ignored == IF k = "memory" THEN {"HOLD"} ELSE {}
    IN IF k = "sql" /\ row = Null THEN Null
       ELSE IF k = "mongo" /\ DOMAIN incr = {} THEN row
       ELSE [known EXCEPT !.count = [s \in JobStatus |->
               IF s \in DOMAIN incr \ ignored THEN Plus(@[s], incr[s]) ELSE @[s]]]

\* A Scan stops at the first NULL and leaves the fields from there on at zero.
FindDetailSummary(k, row, t) ==
    [found |-> row # Null /\ (k = "memory" => t \in listed),
     hold  |-> row # Null /\ row.loading # Null /\ row.hold = TRUE]

-----------------------------------------------------------------------------
StoreInit ==
    /\ store = [k \in Kind |-> [jobs |-> [j \in StoreJob |-> "NONE"],
                                rows |-> [t \in Task |-> Null],
                                second |-> [j \in StoreJob |-> "NONE"]]]
    /\ tasks = {} /\ listed = {} /\ ops = 0
    /\ accepted = {} /\ removed = {} /\ restored = {} /\ refused = {} /\ drifted = {}

Bounded == ops < MaxStoreOps /\ ops' = ops + 1

Running == tasks # {} /\ Bounded

Of(t) == [NoFilter EXCEPT !.task = t]
OfStatus(t, s) == [NoFilter EXCEPT !.task = t, !.statuses = {s}]

\* The increments of a map with one key, and of a job that goes from one status to another
One(s, n) == [x \in {s} |-> n]
Across(from, to, n) == [x \in {from, to} |-> IF x = to THEN n ELSE -n]

\* The jobs and the row of the task of j after from -> to, a map with one key when they are equal
MoveJob(k, s, j, to, lastWins) ==
    LET t == TaskOf[j]
        from == s.jobs[j]
        incr == IF from = to THEN One(to, lastWins) ELSE Across(from, to, 1)
    IN [s EXCEPT !.jobs = UpdateJob(k, [NoFilter EXCEPT !.id = j], s.jobs, to),
                 !.rows[t] = IncrementSummary(k, @, incr)]

\* Every store whose job j has a status in sts makes the move; the others find no such job.
Move(j, sts, to, lastWins) ==
    /\ store' = [k \in Kind |-> IF store[k].jobs[j] \in sts
                                THEN MoveJob(k, store[k], j, to, lastWins) ELSE store[k]]
    /\ drifted' = drifted \cup {TaskOf[j] : k \in {k \in Kind : store[k].jobs[j] = to /\ to \in sts}}

-----------------------------------------------------------------------------
\* The engine

\* prepare with the tasks ts: the jobs of other tasks are removed, and RETRYING ones made QUEUEING.
Cleaned(k, ts) == CleanJob(k, [NoFilter EXCEPT !.exclude = ts], store[k].jobs)

PreparedJobs(k, ts) ==
    [j \in StoreJob |-> IF Cleaned(k, ts)[j] = "RETRYING" THEN "QUEUEING" ELSE Cleaned(k, ts)[j]]

\* The counters are set to what CountAllJob says, and then follow the jobs that are requeued.
Counts(k, ts, t) == [s \in JobStatus |-> CountAllJob(OfStatus(t, s), Cleaned(k, ts))]

PreparedRow(k, ts, t) ==
    LET kept == IF k = "memory" THEN Null ELSE store[k].rows[t]
        counted == UpdateSummary(k, kept, Counts(k, ts, t), Loading(TRUE))
        retrying == Counts(k, ts, t)["RETRYING"]
    IN UpdateSummary(k, IncrementSummary(k, counted, Across("RETRYING", "QUEUEING", retrying)),
                     NoCounts, Loading(FALSE))

(***************************************************************************)
(* prepare, in a new process with the tasks ts: the summaries and the jobs *)
(* of other tasks go.  broadcastTaskList of the loaders, which run for a   *)
(* task with RETRYING or QUEUEING jobs, names some summaries in memory.    *)
(***************************************************************************)
Prepare(ts) ==
    /\ Bounded /\ tasks' = ts
    /\ store' = [k \in Kind |->
          [jobs |-> PreparedJobs(k, ts),
           rows |-> [t \in Task |-> IF t \in ts THEN PreparedRow(k, ts, t) ELSE Null],
           second |-> store[k].second]]
    /\ listed' \in IF \E k \in Kind, t \in ts, s \in {"RETRYING", "QUEUEING"} :
                         Counts(k, ts, t)[s] > 0
                   THEN SUBSET ts ELSE {{}}
    /\ removed' = removed \cup {j \in StoreJob : TaskOf[j] \notin ts
                                                  /\ \E k \in Kind : store[k].jobs[j] # "NONE"}
    /\ drifted' = {}
    /\ UNCHANGED <<accepted, restored, refused>>

AddedStatus(k, t) ==
    IF FindDetailSummary(k, store[k].rows[t], t).hold THEN "HOLD" ELSE "QUEUEING"

Added(k, s, j, status) ==
    [s EXCEPT !.jobs[j] = status,
              !.rows[TaskOf[j]] = IncrementSummary(k, @, One(status, 1))]

AddJob(j) ==
    /\ Running /\ j \notin accepted /\ TaskOf[j] \in tasks
    /\ store' = [k \in Kind |-> Added(k, store[k], j, AddedStatus(k, TaskOf[j]))]
    /\ accepted' = accepted \cup {j}
    /\ UNCHANGED <<tasks, listed, removed, restored, refused, drifted>>

\* The first store refuses the job, and the secondary takes it with its status.
AddJobSecondary(j) ==
    /\ Running /\ j \notin accepted /\ TaskOf[j] \in tasks
    /\ store' = [k \in Kind |-> [store[k] EXCEPT !.second[j] = AddedStatus(k, TaskOf[j])]]
    /\ accepted' = accepted \cup {j}
    /\ UNCHANGED <<tasks, listed, removed, restored, refused, drifted>>

\* execJob up to the handler, and after it
ExecJob(j) ==
    /\ Running /\ TaskOf[j] \in tasks /\ \E k \in Kind : store[k].jobs[j] = "QUEUEING"
    /\ Move(j, {"QUEUEING"}, "RETRYING", 0)
    /\ UNCHANGED <<tasks, listed, history>>

FinishJob(j, s) ==
    /\ Running /\ TaskOf[j] \in tasks /\ \E k \in Kind : store[k].jobs[j] = "RETRYING"
    /\ Move(j, {"RETRYING"}, s, 0)
    /\ UNCHANGED <<tasks, listed, history>>

\* StopJob and RetryJob take the job with any status; of two equal map keys the later one counts.
StopJob(j) ==
    /\ Running /\ \E k \in Kind : store[k].jobs[j] # "NONE"
    /\ Move(j, JobStatus, "STOPPED", -1)
    /\ UNCHANGED <<tasks, listed, history>>

RetryJob(j) ==
    /\ Running /\ \E k \in Kind : store[k].jobs[j] # "NONE"
    /\ Move(j, JobStatus, "QUEUEING", 1)
    /\ UNCHANGED <<tasks, listed, history>>

Deleted(k, s, j) ==
    IF s.jobs[j] = "NONE" THEN s
    ELSE [s EXCEPT !.jobs[j] = "NONE",
                   !.rows[TaskOf[j]] = IncrementSummary(k, @, One(s.jobs[j], -1))]

DeleteJob(j) ==
    /\ Running /\ \E k \in Kind : store[k].jobs[j] # "NONE"
    /\ store' = [k \in Kind |-> Deleted(k, store[k], j)]
    /\ removed' = removed \cup {j}
    /\ UNCHANGED <<tasks, listed, accepted, restored, refused, drifted>>

(***************************************************************************)
(* The dashboard's operations on all jobs of a task move the jobs with a   *)
(* status in from to the status to, or out of the table, and count them.   *)
(***************************************************************************)
Shift(k, s, t, from, to) ==
    LET Moving(sts) == Cardinality(Matched(k, [Of(t) EXCEPT !.statuses = sts], s.jobs))
    IN [jobs |-> UpdateJob(k, [Of(t) EXCEPT !.statuses = from], s.jobs, to),
        incr |-> [st \in (from \cup {to}) \ {"NONE"} |-> IF st = to THEN Moving(from)
                                                        ELSE -Moving({st})]]

\* broadcastWhenChangeAllJob(true), the map during, the jobs, broadcast...(false), the counts
Shifted(k, s, t, from, to, during) ==
    LET shift == Shift(k, s, t, from, to)
        loading == UpdateSummary(k, s.rows[t], NoCounts, Loading(TRUE))
        changed == UpdateSummary(k, loading, NoCounts, during)
        loaded == UpdateSummary(k, changed, NoCounts, Loading(FALSE))
    IN [s EXCEPT !.jobs = shift.jobs, !.rows[t] = IncrementSummary(k, loaded, shift.incr)]

\* FindAllSummary names every summary in memory.
ListAll == listed' = {t \in Task : store'["memory"].rows[t] # Null}

\* A dashboard client that shows the task list
BroadcastTaskList == Running /\ UNCHANGED <<store, tasks, history, drifted>> /\ ListAll

StopAllJob(t) ==
    /\ Running /\ t \in tasks
    /\ store' = [k \in Kind |-> Shifted(k, store[k], t, {"QUEUEING", "RETRYING"}, "STOPPED",
                                        Flags({"is_hold"}, FALSE))]
    /\ ListAll
    /\ UNCHANGED <<tasks, history, drifted>>

\* RetryAllJob asks for no registered task.
RetryAllJob(t) ==
    /\ Running
    /\ store' = [k \in Kind |-> Shifted(k, store[k], t, {"FAILURE", "STOPPED"}, "QUEUEING",
                                        Loading(TRUE))]
    /\ ListAll
    /\ UNCHANGED <<tasks, history, drifted>>

CleanJobs(t, sts) ==
    /\ Running
    /\ store' = [k \in Kind |-> Shifted(k, store[k], t, sts, "NONE", Loading(TRUE))]
    /\ removed' = removed \cup {j \in StoreJob : \E k \in Kind :
                                   Matches([Of(t) EXCEPT !.statuses = sts], store[k].jobs, j)}
    /\ ListAll
    /\ UNCHANGED <<tasks, accepted, restored, refused, drifted>>

\* The internal task: the SUCCESS jobs created up to the cut go, task by task.
Gone(k, cut) ==
    {j \in StoreJob : \E t \in tasks :
        j \in Matched(k, [OfStatus(t, "SUCCESS") EXCEPT !.before = cut], store[k].jobs)}

Retained(k, cut) ==
    LET Count(t) == Cardinality({j \in Gone(k, cut) : TaskOf[j] = t})
    IN [store[k] EXCEPT
          !.jobs = [j \in StoreJob |-> IF j \in Gone(k, cut) THEN "NONE" ELSE @[j]],
          !.rows = [t \in Task |-> IF t \in tasks
                                   THEN IncrementSummary(k, @[t], One("SUCCESS", -Count(t)))
                                   ELSE @[t]]]

Retention(cut) ==
    /\ Running
    /\ store' = [k \in Kind |-> Retained(k, cut)]
    /\ removed' = removed \cup UNION {Gone(k, cut) : k \in Kind}
    /\ UNCHANGED <<tasks, listed, accepted, restored, refused, drifted>>

RecalculateSummary ==
    /\ Running
    /\ store' = [k \in Kind |-> [store[k] EXCEPT !.rows = [t \in Task |->
          IF t \notin tasks THEN @[t]
          ELSE UpdateSummary(k, @[t], AggregateAllTaskJob(store[k].jobs, t),
                             Flags({}, FALSE))]]]
    /\ drifted' = drifted \ tasks
    /\ UNCHANGED <<tasks, listed, history>>

(***************************************************************************)
(* HoldJobTask turns is_hold over and, when the task was on hold, puts its *)
(* HOLD jobs back.  A summary without a name is "Task not found".          *)
(***************************************************************************)
Flipped(k, s, t) ==
    LET d == FindDetailSummary(k, s.rows[t], t)
        flip == [s EXCEPT !.rows[t] = UpdateSummary(k, @, NoCounts,
                                          Flags({"is_hold", "loading_message"}, ~d.hold))]
    IN IF ~d.found THEN s
       ELSE IF ~d.hold THEN flip ELSE Shifted(k, flip, t, {"HOLD"}, "QUEUEING", Message)

HoldJobTask(t) ==
    /\ Running
    /\ store' = [k \in Kind |-> Flipped(k, store[k], t)]
    /\ UNCHANGED <<tasks, listed, history, drifted>>

Restorable(k) == {j \in StoreJob : store[k].second[j] = "QUEUEING"}

\* Mutant: every job of the secondary goes
CleanedSecondaryAll(k) == StoreJob

\* The jobs CleanJob removes from the secondary: its filter is that of the stream.
CleanedSecondary(k) == Restorable(k)

(***************************************************************************)
(* RestoreFromSecondary: each QUEUEING job of the secondary is saved with  *)
(* its id, unless the first store fails again, counted, and then all of    *)
(* them are removed from the secondary.                                    *)
(***************************************************************************)
RestoredStore(k, s, failing) ==
    LET saved == Restorable(k) \ failing
        New(t) == {j \in saved : TaskOf[j] = t}
    IN [jobs |-> [j \in StoreJob |-> IF j \in saved THEN SaveJob(k, s.jobs, j, "QUEUEING")[j]
                                     ELSE s.jobs[j]],
        rows |-> [t \in Task |-> IF New(t) = {} THEN s.rows[t]
                     ELSE IncrementSummary(k, s.rows[t], One("QUEUEING", Cardinality(New(t))))],
        second |-> [j \in StoreJob |-> IF j \in CleanedSecondary(k) THEN "NONE" ELSE s.second[j]]]

RestoreFromSecondary(failing) ==
    /\ Running
    /\ \E k \in Kind : Restorable(k) # {} /\ failing \subseteq Restorable(k)
    /\ store' = [k \in Kind |-> RestoredStore(k, store[k], failing)]
    /\ restored' = restored \cup UNION {Restorable(k) \ failing : k \in Kind}
    /\ refused' = refused \cup failing
    /\ UNCHANGED <<tasks, listed, accepted, removed, drifted>>

-----------------------------------------------------------------------------
StoreNext ==
    \/ \E ts \in (SUBSET Task) \ {{}} : Prepare(ts)
    \/ \E j \in StoreJob :
          \/ AddJob(j) \/ AddJobSecondary(j) \/ ExecJob(j)
          \/ \E s \in {"SUCCESS", "FAILURE", "QUEUEING"} : FinishJob(j, s)
          \/ StopJob(j) \/ RetryJob(j) \/ DeleteJob(j) \/ Retention(j)
    \/ \E t \in Task :
          \/ StopAllJob(t) \/ RetryAllJob(t) \/ HoldJobTask(t)
          \/ \E sts \in {{"FAILURE", "STOPPED"}, {"SUCCESS"}} : CleanJobs(t, sts)
    \/ RecalculateSummary \/ BroadcastTaskList
    \/ \E failing \in SUBSET StoreJob : RestoreFromSecondary(failing)

StoreSpec == StoreInit /\ [][StoreNext]_storeVars

-----------------------------------------------------------------------------
\* Properties

Existing(k, t, s) == Cardinality({j \in StoreJob : TaskOf[j] = t /\ store[k].jobs[j] = s})

Restored(t) == \E j \in restored : TaskOf[j] = t

(***************************************************************************)
(* The SQL store and the Mongo store hold the same jobs with the same      *)
(* statuses after any sequence of operations, except for a task of which a *)
(* job was restored from the secondary: the SQL store never inserts it.    *)
(***************************************************************************)
StoresAgree ==
    \A j \in StoreJob : \/ Restored(TaskOf[j])
                        \/ store["sql"].jobs[j] = store["mongo"].jobs[j]

(***************************************************************************)
(* In each store the counters of a registered task are the numbers of its  *)
(* jobs, the summary in memory without HOLD.  Exceptions: two equal keys   *)
(* in one map (StopJob of a STOPPED job, RetryJob of a QUEUEING one), and  *)
(* in the SQL store a task of which a job was restored.                    *)
(***************************************************************************)
CountersExact ==
    \A k \in Kind, t \in tasks :
        \/ t \in drifted
        \/ k = "sql" /\ Restored(t)
        \/ /\ store[k].rows[t] # Null
           /\ \A s \in IF k = "memory" THEN Counted ELSE JobStatus :
                 store[k].rows[t].count[s] = Existing(k, t, s)

(***************************************************************************)
(* A job AddJob accepted is in its store or in the secondary until it is   *)
(* deleted or cleaned, except one whose SaveJob failed while the secondary *)
(* was restored, and in the SQL store one that was restored.               *)
(***************************************************************************)
AcceptedIsStored ==
    \A k \in Kind, j \in accepted \ (removed \cup refused) :
        \/ store[k].jobs[j] # "NONE"
        \/ store[k].second[j] # "NONE"
        \/ k = "sql" /\ j \in restored
=============================================================================
