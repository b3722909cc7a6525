-------------------------- MODULE JobStoresProofs --------------------------
(***************************************************************************)
(* Proofs about the stores of the task queue worker, for every number of   *)
(* jobs, every set of tasks and every sequence of operations: the SQL and  *)
(* the Mongo store stay alike, the counters exact and no accepted job is   *)
(* lost, up to the exceptions the properties name.                         *)
(*                                                                         *)
(* The operations fall into two families.  Those on one job (AddJob, the   *)
(* moves, DeleteJob) change one entry of a job table and one or two of the *)
(* counters; those on a table (the operations of the dashboard, retention, *)
(* RecalculateSummary) move a set of jobs.  For each family one lemma,     *)
(* JobAction and TableAction, says what has to be shown of a step, and the *)
(* lemmas on numbers of jobs, Recount and JobsShift, show it.              *)
(***************************************************************************)
EXTENDS JobStores, FiniteSetTheorems, TLAPS

-----------------------------------------------------------------------------
\* The inductive invariant

\* A table of jobs, by their statuses
JobTable == [StoreJob -> JobStatus \cup {"NONE"}]

\* A row that a behaviour can have: is_loading is never NULL.
LoadedRow == [count : [JobStatus -> Int \cup {Null}], loading : BOOLEAN,
              hold : BOOLEAN \cup {Null}]

StoreType == [jobs : JobTable, rows : [Task -> LoadedRow \cup {Null}], second : JobTable]

StoreTypeOK ==
    /\ store \in [Kind -> StoreType]
    /\ tasks \in SUBSET Task /\ drifted \in SUBSET Task /\ ops \in 0..MaxStoreOps
    /\ accepted \in SUBSET StoreJob /\ removed \in SUBSET StoreJob
    /\ restored \in SUBSET StoreJob /\ refused \in SUBSET StoreJob

\* A job is in the store, in its secondary or in neither, and in neither before AddJob.
Placed(s) ==
    \A j \in StoreJob : /\ s.jobs[j] = "NONE" \/ s.second[j] = "NONE"
                        /\ j \notin accepted => s.jobs[j] = "NONE" /\ s.second[j] = "NONE"

\* The jobs of task t with the status st
Number(jobs, t, st) == Cardinality({j \in StoreJob : TaskOf[j] = t /\ jobs[j] = st})

\* The counters a store of kind k keeps, and of them those that are exact for task t
Columns(k) == IF k = "memory" THEN Counted ELSE JobStatus

ExactColumns(k, t) ==
    IF k = "sql" /\ Restored(t) THEN {}
    ELSE Columns(k) \ (IF t \in drifted THEN {"QUEUEING", "STOPPED"} ELSE {})

Exact(s, t, cols) ==
    s.rows[t] # Null /\ \A st \in cols : s.rows[t].count[st] = Number(s.jobs, t, st)

\* FindDetailSummary says that the task is on hold.
Held(row) == row # Null /\ row.hold = TRUE

\* Of a task with no restored job: jobs are of a registered task, and the SQL and Mongo store agree
Alike(t) ==
    \/ Restored(t)
    \/ /\ t \notin tasks => \A k \in Kind, j \in StoreJob :
                               TaskOf[j] = t => store[k].jobs[j] = "NONE"
       /\ \A j \in StoreJob : TaskOf[j] = t => store["sql"].jobs[j] = store["mongo"].jobs[j]
       /\ store["sql"].rows[t] = Null <=> store["mongo"].rows[t] = Null
       /\ Held(store["sql"].rows[t]) <=> Held(store["mongo"].rows[t])

StoreInv ==
    /\ StoreTypeOK /\ AcceptedIsStored
    /\ \A k \in Kind : Placed(store[k])
    /\ \A k \in Kind, t \in tasks : Exact(store[k], t, ExactColumns(k, t))
    /\ \A t \in Task : Alike(t)

-----------------------------------------------------------------------------
\* What the filters select

\* The jobs of task t with a status in sts (Filter.TaskName and Filter.Statuses).
LEMMA TaskFilter ==
    ASSUME NEW k, k \in Kind, NEW t \in Task, NEW sts, sts # {}, "NONE" \notin sts, NEW jobs
    PROVE  /\ Matched(k, [Of(t) EXCEPT !.statuses = sts], jobs) =
                 {j \in StoreJob : TaskOf[j] = t /\ jobs[j] \in sts}
           /\ \A j \in StoreJob : Matches([Of(t) EXCEPT !.statuses = sts], jobs, j) <=>
                                     TaskOf[j] = t /\ jobs[j] \in sts
<1> DEFINE f == [Of(t) EXCEPT !.statuses = sts]
<1>1. f.task = t /\ f.exclude = {} /\ f.id = Null /\ f.statuses = sts /\ f.before = Null
  BY DEF Of, NoFilter
<1>2. t # Null
  BY StoreAssumption
<1>3. ~EmptyFilter(k, f)
  <2>1. f # NoFilter
    BY <1>1, <1>2 DEF NoFilter
  <2> QED BY <2>1 DEF EmptyFilter
<1> HIDE DEF f
<1>4. \A j \in StoreJob : Matches(f, jobs, j) <=> TaskOf[j] = t /\ jobs[j] \in sts
  BY <1>1, <1>2 DEF Matches
<1>5. Matched(k, f, jobs) = {j \in StoreJob : TaskOf[j] = t /\ jobs[j] \in sts}
  BY <1>3, <1>4 DEF Matched
<1> QED BY <1>4, <1>5 DEF f

\* The jobs of task t with the status st: what CountAllJob counts.
LEMMA StatusFilter ==
    ASSUME NEW t \in Task, NEW st \in JobStatus, NEW jobs
    PROVE  CountAllJob(OfStatus(t, st), jobs) = Number(jobs, t, st)
<1>1. OfStatus(t, st) = [Of(t) EXCEPT !.statuses = {st}]
  BY DEF OfStatus, Of, NoFilter
<1>2. {st} # {} /\ "NONE" \notin {st} /\ "sql" \in Kind
  BY DEF JobStatus, Counted, Kind
<1>3. \A j \in StoreJob : Matches(OfStatus(t, st), jobs, j) <=> TaskOf[j] = t /\ jobs[j] \in {st}
  <2> DEFINE sts == {st}
  <2>1. sts # {} /\ "NONE" \notin sts
    BY <1>2
  <2> HIDE DEF sts
  <2>2. \A j \in StoreJob : Matches([Of(t) EXCEPT !.statuses = sts], jobs, j) <=>
                               TaskOf[j] = t /\ jobs[j] \in sts
    BY <1>2, <2>1, TaskFilter
  <2> QED BY <1>1, <2>2 DEF sts
<1>4. {j \in StoreJob : Matches(OfStatus(t, st), jobs, j)}
        = {j \in StoreJob : TaskOf[j] = t /\ jobs[j] = st}
  BY <1>3
<1> QED BY <1>4 DEF CountAllJob, Number

\* One job by its id
LEMMA IdFilter ==
    ASSUME NEW k \in Kind, NEW j \in StoreJob, NEW jobs \in JobTable, jobs[j] # "NONE", NEW st
    PROVE  UpdateJob(k, [NoFilter EXCEPT !.id = j], jobs, st) = [jobs EXCEPT ![j] = st]
<1> DEFINE f == [NoFilter EXCEPT !.id = j]
<1>1. f.task = Null /\ f.exclude = {} /\ f.id = j /\ f.statuses = {} /\ f.before = Null
  BY DEF NoFilter
<1>2. j # Null
  BY StoreAssumption
<1>3. ~EmptyFilter(k, f)
  <2>1. f # NoFilter
    BY <1>1, <1>2 DEF NoFilter
  <2> QED BY <2>1 DEF EmptyFilter
<1> HIDE DEF f
<1>4. Matched(k, f, jobs) = {j}
  BY <1>1, <1>2, <1>3 DEF Matched, Matches
<1>5. UpdateJob(k, f, jobs, st) = [jobs EXCEPT ![j] = st]
  BY <1>4 DEF UpdateJob, JobTable
<1> QED BY <1>5 DEF f

\* The jobs of tasks that are not registered any more (Filter.ExcludeTaskNameList)
LEMMA ExcludeFilter ==
    ASSUME NEW k \in Kind, NEW ts \in SUBSET Task, ts # {}, NEW jobs \in JobTable
    PROVE  CleanJob(k, [NoFilter EXCEPT !.exclude = ts], jobs) =
              [j \in StoreJob |-> IF TaskOf[j] \in ts THEN jobs[j] ELSE "NONE"]
<1> DEFINE f == [NoFilter EXCEPT !.exclude = ts]
<1>1. f.task = Null /\ f.exclude = ts /\ f.id = Null /\ f.statuses = {} /\ f.before = Null
  BY DEF NoFilter
<1>2. ~EmptyFilter(k, f)
  <2>1. f # NoFilter
    BY <1>1 DEF NoFilter
  <2> QED BY <2>1 DEF EmptyFilter
<1> HIDE DEF f
<1>3. \A j \in StoreJob : j \in Matched(k, f, jobs) <=> jobs[j] # "NONE" /\ TaskOf[j] \notin ts
  BY <1>1, <1>2 DEF Matched, Matches
<1>4. \A j \in StoreJob : (IF j \in Matched(k, f, jobs) THEN "NONE" ELSE jobs[j])
                           = (IF TaskOf[j] \in ts THEN jobs[j] ELSE "NONE")
  BY <1>3
<1> QED BY <1>4 DEF f, CleanJob, UpdateJob

\* The SUCCESS jobs of the registered tasks up to the cut (Filter.BeforeCreatedAt)
LEMMA RetentionFilter ==
    ASSUME NEW k, k \in Kind, NEW cut \in StoreJob, tasks \in SUBSET Task
    PROVE  Gone(k, cut) = {j \in StoreJob : /\ TaskOf[j] \in tasks /\ j <= cut
                                            /\ store[k].jobs[j] = "SUCCESS"}
<1>1. ASSUME NEW j \in StoreJob, NEW t \in tasks
      PROVE  j \in Matched(k, [OfStatus(t, "SUCCESS") EXCEPT !.before = cut], store[k].jobs)
                <=> TaskOf[j] = t /\ store[k].jobs[j] = "SUCCESS" /\ j <= cut
  <2> DEFINE f == [OfStatus(t, "SUCCESS") EXCEPT !.before = cut]
  <2>1. /\ f.task = t /\ f.exclude = {} /\ f.id = Null /\ f.statuses = {"SUCCESS"}
        /\ f.before = cut
    BY DEF OfStatus, NoFilter
  <2>2. t # Null /\ cut # Null
    BY StoreAssumption
  <2>3. ~EmptyFilter(k, f)
    <3>1. f # NoFilter
      BY <2>1, <2>2 DEF NoFilter
    <3> QED BY <3>1 DEF EmptyFilter
  <2> HIDE DEF f
  <2>4. j \in Matched(k, f, store[k].jobs) <=> Matches(f, store[k].jobs, j)
    BY <2>3 DEF Matched
  <2>5. Matches(f, store[k].jobs, j) <=> TaskOf[j] = t /\ store[k].jobs[j] = "SUCCESS" /\ j <= cut
    BY <2>1, <2>2 DEF Matches
  <2> QED BY <2>4, <2>5 DEF f
<1> QED BY <1>1 DEF Gone

-----------------------------------------------------------------------------
\* How many jobs have a status

\* Every set of jobs is finite.
LEMMA JobsFinite ==
    ASSUME NEW S, S \subseteq StoreJob
    PROVE  IsFiniteSet(S) /\ Cardinality(S) \in Nat
<1>1. IsFiniteSet(StoreJob)
  BY FS_Interval, StoreAssumption DEF StoreJob
<1>2. IsFiniteSet(S)
  BY <1>1, FS_Subset
<1> QED BY <1>2, FS_CardinalityType

\* The number of jobs with a status is a natural number.
LEMMA NumberType ==
    ASSUME NEW jobs, NEW t, NEW st
    PROVE  Number(jobs, t, st) \in Nat
BY JobsFinite DEF Number

(***************************************************************************)
(* Between two job tables the number changes by the jobs that take the     *)
(* status and those that leave it.                                         *)
(***************************************************************************)
LEMMA Recount ==
    ASSUME NEW jobs, NEW after, NEW t, NEW st, NEW Won, NEW Lost,
           Won = {j \in StoreJob : TaskOf[j] = t /\ jobs[j] # st /\ after[j] = st},
           Lost = {j \in StoreJob : TaskOf[j] = t /\ jobs[j] = st /\ after[j] # st}
    PROVE  Number(after, t, st) = Number(jobs, t, st) + Cardinality(Won) - Cardinality(Lost)
<1> DEFINE A == {j \in StoreJob : TaskOf[j] = t /\ jobs[j] = st}
           B == {j \in StoreJob : TaskOf[j] = t /\ after[j] = st}
           C == {j \in StoreJob : TaskOf[j] = t /\ jobs[j] = st /\ after[j] = st}
<1>1. /\ A = C \cup Lost /\ C \cap Lost = {} /\ B = C \cup Won /\ C \cap Won = {}
      /\ C \subseteq StoreJob /\ Lost \subseteq StoreJob /\ Won \subseteq StoreJob
  OBVIOUS
<1>2. /\ IsFiniteSet(C) /\ IsFiniteSet(Lost) /\ IsFiniteSet(Won)
      /\ Cardinality(C) \in Nat /\ Cardinality(Lost) \in Nat /\ Cardinality(Won) \in Nat
  BY <1>1, JobsFinite
<1>3. Number(jobs, t, st) = Cardinality(A) /\ Number(after, t, st) = Cardinality(B)
  BY DEF Number
<1> HIDE DEF A, B, C
<1>4. Cardinality(A) = Cardinality(C) + Cardinality(Lost)
  <2>1. Cardinality(C \cup Lost) = Cardinality(C) + Cardinality(Lost) - Cardinality(C \cap Lost)
    BY <1>2, FS_Union
  <2>2. A = C \cup Lost /\ Cardinality(C \cap Lost) = 0
    BY <1>1, FS_EmptySet
  <2> QED BY <1>2, <2>1, <2>2
<1>5. Cardinality(B) = Cardinality(C) + Cardinality(Won)
  <2>1. Cardinality(C \cup Won) = Cardinality(C) + Cardinality(Won) - Cardinality(C \cap Won)
    BY <1>2, FS_Union
  <2>2. B = C \cup Won /\ Cardinality(C \cap Won) = 0
    BY <1>1, FS_EmptySet
  <2> QED BY <1>2, <2>1, <2>2
<1> QED BY <1>2, <1>3, <1>4, <1>5

-----------------------------------------------------------------------------
\* The rows of the summary

\* The store of kind k creates the row it has to increment, or has a column for the hold of a task.
Upserts(k) == k # "sql"
HasHold(k) == k # "memory"

Flag == {"is_loading", "is_hold", "loading_message"}

\* A row is not NULL, and the one an upsert starts from is empty and not on hold.
LEMMA RowFacts ==
    /\ \A row \in LoadedRow : row # Null
    /\ EmptyRow \in LoadedRow /\ EmptyRow.hold = FALSE
    /\ \A s \in JobStatus : EmptyRow.count[s] = 0
<1>1. LoadedRow \subseteq SummaryRow
  BY DEF LoadedRow, SummaryRow
<1>2. \A row \in LoadedRow : row # Null
  BY <1>1, StoreAssumption
<1>3. EmptyRow \in LoadedRow /\ EmptyRow.hold = FALSE /\ \A s \in JobStatus : EmptyRow.count[s] = 0
  BY DEF EmptyRow, LoadedRow
<1> QED BY <1>2, <1>3

\* IncrementSummary changes the counters of the map, and creates a row in all stores but SQL.
Incremented(k, row, D, incr, r) ==
    /\ r \in LoadedRow \cup {Null}
    /\ row = Null => IF Upserts(k) THEN r # Null /\ ~Held(r) ELSE r = Null
    /\ row # Null => r # Null /\ (Held(r) <=> Held(row))
    /\ row # Null => \A st \in Columns(k) : row.count[st] \in Int =>
          r.count[st] = row.count[st] + (IF st \in D THEN incr[st] ELSE 0)

\* IncrementSummary in the three stores
LEMMA IncrementedRow ==
    ASSUME NEW k, k \in Kind, NEW row, row \in LoadedRow \cup {Null},
           NEW D, D \in SUBSET JobStatus, D # {}, NEW incr, incr \in [D -> Int],
           NEW r, r = IncrementSummary(k, row, incr)
    PROVE  Incremented(k, row, D, incr, r)
<1> DEFINE known == IF row = Null THEN EmptyRow ELSE row
           ignored == IF k = "memory" THEN {"HOLD"} ELSE {}
           c == [s \in JobStatus |-> IF s \in DOMAIN incr \ ignored
                                     THEN Plus(known.count[s], incr[s]) ELSE known.count[s]]
<1>1. CASE k = "sql" /\ row = Null
  BY <1>1 DEF IncrementSummary, Upserts, Incremented
<1>2. CASE ~(k = "sql" /\ row = Null)
  <2>1. known \in LoadedRow
    BY RowFacts
  <2>2. known = [count |-> known.count, loading |-> known.loading, hold |-> known.hold]
        /\ known.count \in [JobStatus -> Int \cup {Null}] /\ known.loading \in BOOLEAN
        /\ known.hold \in BOOLEAN \cup {Null}
    BY <2>1 DEF LoadedRow
  <2>3. r = [known EXCEPT !.count = c]
    <3>1. DOMAIN incr # {}
      OBVIOUS
    <3> QED BY <1>2, <3>1 DEF IncrementSummary
  <2>4. c \in [JobStatus -> Int \cup {Null}]
    BY <2>2 DEF Plus
  <2>5. r = [count |-> c, loading |-> known.loading, hold |-> known.hold]
    <3> HIDE DEF c, known
    <3> QED BY <2>2, <2>3
  <2>6. r \in LoadedRow
    <3> HIDE DEF c, known
    <3> QED BY <2>2, <2>4, <2>5 DEF LoadedRow
  <2>7. r # Null
    BY <2>6, RowFacts
  <2>8. ASSUME row # Null, NEW st \in Columns(k), row.count[st] \in Int
        PROVE  r.count[st] = row.count[st] + (IF st \in D THEN incr[st] ELSE 0)
    <3>1. st \in JobStatus /\ st \notin ignored /\ known = row
      BY <2>8 DEF Columns, JobStatus, Counted
    <3>2. r.count[st] = IF st \in D THEN Plus(row.count[st], incr[st]) ELSE row.count[st]
      <4>1. r.count = c
        BY <2>5
      <4>2. DOMAIN incr = D
        OBVIOUS
      <4> QED BY <3>1, <4>1, <4>2
    <3>3. row.count[st] # Null
      BY <2>8, StoreAssumption
    <3> QED BY <2>8, <3>2, <3>3 DEF Plus
  <2>9. r.hold = known.hold
    BY <2>5
  <2>10. row = Null => ~Held(r) /\ Upserts(k)
    BY <1>2, <2>9, RowFacts DEF Held, Upserts
  <2>11. row # Null => (Held(r) <=> Held(row))
    BY <2>7, <2>9 DEF Held
  <2> QED BY <2>6, <2>7, <2>8, <2>10, <2>11 DEF Incremented
<1> QED BY <1>1, <1>2

\* UpdateSummary sets the columns of the map and keeps the others.
Updated(k, row, D, counts, E, flags, r) ==
    /\ r \in LoadedRow /\ r # Null
    /\ \A st \in Columns(k) : /\ st \in D => r.count[st] = counts[st]
                              /\ st \notin D /\ row # Null => r.count[st] = row.count[st]
    /\ HasHold(k) => (Held(r) <=> IF "is_hold" \in E THEN flags["is_hold"] ELSE Held(row))

\* UpdateSummary in the three stores, of a row that is there or with a map that can insert one
LEMMA UpdatedSummary ==
    ASSUME NEW k, k \in Kind, NEW row, row \in LoadedRow \cup {Null},
           NEW D, D \in SUBSET JobStatus, NEW counts, counts \in [D -> Int],
           NEW E, E \in SUBSET Flag, NEW flags, flags \in [E -> BOOLEAN],
           row # Null \/ {"is_loading", "loading_message"} \subseteq E,
           NEW r, r = UpdateSummary(k, row, counts, flags)
    PROVE  Updated(k, row, D, counts, E, flags, r)
<1> DEFINE known == IF row = Null THEN EmptyRow ELSE row
<1>1. known \in LoadedRow
  BY RowFacts
<1>2. /\ known.count \in [JobStatus -> Int \cup {Null}] /\ known.loading \in BOOLEAN
      /\ known.hold \in BOOLEAN \cup {Null} /\ (row # Null => known = row)
      /\ (row = Null => known.hold = FALSE)
  BY <1>1, RowFacts DEF LoadedRow
<1>3. DOMAIN counts = D /\ DOMAIN flags = E
  OBVIOUS
<1>4. Null # TRUE
  BY StoreAssumption
<1> HIDE DEF known
<1>5. CASE k = "sql" /\ row = Null
  <2> DEFINE c == [s \in JobStatus |-> Column(counts, s, IF s = "HOLD" THEN Null ELSE 0)]
             l == Column(flags, "is_loading", Null)
             h == Column(flags, "is_hold", Null)
  <2>1. r = [count |-> c, loading |-> l, hold |-> h]
    BY <1>3, <1>5 DEF UpdateSummary, InsertedRow
  <2>2. c \in [JobStatus -> Int \cup {Null}] /\ l \in BOOLEAN /\ h \in BOOLEAN \cup {Null}
    BY <1>3, <1>5 DEF Column
  <2>3. \A st \in Columns(k) : st \in D => c[st] = counts[st]
    BY <1>3, <1>5 DEF Columns, Column
  <2>4. IF "is_hold" \in E THEN h = flags["is_hold"] ELSE h # TRUE
    BY <1>3, <1>4 DEF Column
  <2> HIDE DEF c, l, h
  <2>5. r \in LoadedRow
    BY <2>1, <2>2 DEF LoadedRow
  <2>6. r.count = c /\ r.hold = h /\ r # Null
    BY <2>1, <2>5, RowFacts
  <2>7. Held(r) <=> IF "is_hold" \in E THEN flags["is_hold"] ELSE Held(row)
    BY <1>5, <2>4, <2>6 DEF Held
  <2> QED BY <1>5, <2>3, <2>5, <2>6, <2>7 DEF Updated
<1>6. CASE k # "memory" /\ ~(k = "sql" /\ row = Null)
  <2> DEFINE c == [s \in JobStatus |-> Column(counts, s, known.count[s])]
             l == Column(flags, "is_loading", known.loading)
             h == Column(flags, "is_hold", known.hold)
  <2>1. r = [count |-> c, loading |-> l, hold |-> h]
    <3>1. k = "sql" \/ k = "mongo"
      BY <1>6 DEF Kind
    <3> QED BY <1>2, <1>6, <3>1 DEF UpdateSummary, UpdatedRow, known
  <2>2. c \in [JobStatus -> Int \cup {Null}] /\ l \in BOOLEAN /\ h \in BOOLEAN \cup {Null}
    BY <1>2, <1>3 DEF Column
  <2>3. \A st \in Columns(k) : c[st] = IF st \in D THEN counts[st] ELSE known.count[st]
    BY <1>3, <1>6 DEF Columns, Column
  <2>4. h = IF "is_hold" \in E THEN flags["is_hold"] ELSE known.hold
    BY <1>3 DEF Column
  <2> HIDE DEF c, l, h
  <2>5. r \in LoadedRow
    BY <2>1, <2>2 DEF LoadedRow
  <2>6. r.count = c /\ r.hold = h /\ r # Null
    BY <2>1, <2>5, RowFacts
  <2>7. row # Null => known.count = row.count /\ known.hold = row.hold
    BY <1>2
  <2>8. row = Null => known.hold # TRUE
    BY <1>2
  <2>9. Held(r) <=> IF "is_hold" \in E THEN flags["is_hold"] ELSE Held(row)
    BY <2>4, <2>6, <2>7, <2>8 DEF Held
  <2> QED BY <2>3, <2>5, <2>6, <2>7, <2>9 DEF Updated
<1>7. CASE k = "memory"
  <2> DEFINE c == [s \in JobStatus |-> IF s = "HOLD" THEN 0 ELSE Column(counts, s, known.count[s])]
             l == Column(flags, "is_loading", Column(flags, "is_hold", known.loading))
  <2>1. r = [count |-> c, loading |-> l, hold |-> known.hold]
    BY <1>7 DEF UpdateSummary, MemoryRow, known
  <2>2. c \in [JobStatus -> Int \cup {Null}] /\ l \in BOOLEAN
    BY <1>2, <1>3 DEF Column
  <2>3. \A st \in Columns(k) : c[st] = IF st \in D THEN counts[st] ELSE known.count[st]
    BY <1>3, <1>7 DEF Columns, Column, JobStatus, Counted
  <2> HIDE DEF c, l
  <2>4. r \in LoadedRow
    BY <1>2, <2>1, <2>2 DEF LoadedRow
  <2>5. r.count = c /\ r # Null /\ ~HasHold(k)
    BY <1>7, <2>1, <2>4, RowFacts DEF HasHold
  <2> QED BY <1>2, <2>3, <2>4, <2>5 DEF Updated
<1> QED BY <1>5, <1>6, <1>7

\* The maps of the engine
LEMMA Maps ==
    /\ NoCounts \in [{} -> Int]
    /\ \A S, b : b \in BOOLEAN =>
          Flags(S, b) \in [S -> BOOLEAN] /\ \A c \in S : Flags(S, b)[c] = b
    /\ \A s \in JobStatus, n \in Int : One(s, n) \in [{s} -> Int] /\ One(s, n)[s] = n
    /\ \A s \in JobStatus, u \in JobStatus, n \in Int : Across(s, u, n) \in [{s, u} -> Int]
<1>1. NoCounts \in [{} -> Int]
  BY DEF NoCounts
<1>2. \A S, b : b \in BOOLEAN => Flags(S, b) \in [S -> BOOLEAN] /\ \A c \in S : Flags(S, b)[c] = b
  BY DEF Flags
<1>3. \A s \in JobStatus, n \in Int : One(s, n) \in [{s} -> Int] /\ One(s, n)[s] = n
  BY DEF One
<1>4. \A s \in JobStatus, u \in JobStatus, n \in Int : Across(s, u, n) \in [{s, u} -> Int]
  BY DEF Across
<1> QED BY <1>1, <1>2, <1>3, <1>4

-----------------------------------------------------------------------------
\* What an operation does to one store

\* Exact columns hold numbers.
LEMMA ExactIsInt ==
    ASSUME NEW s, NEW t, NEW cols, Exact(s, t, cols), NEW st \in cols
    PROVE  s.rows[t].count[st] \in Int
BY NumberType DEF Exact

(***************************************************************************)
(* A job j that gets the status st while its row is incremented: AddJob,   *)
(* the moves of one job, and DeleteJob.                                    *)
(***************************************************************************)
JobStep(k, s, j, st, incr) ==
    [s EXCEPT !.jobs[j] = st, !.rows[TaskOf[j]] = IncrementSummary(k, @, incr)]

\* The increments are those of a job that goes from one status to the other, in the column c.
Balanced(D, incr, from, to, c) ==
    (IF c \in D THEN incr[c] ELSE 0) =
        IF from = to THEN 0 ELSE IF c = to THEN 1 ELSE IF c = from THEN -1 ELSE 0

Delta(jobs, j, st, t, c) ==
    IF TaskOf[j] # t \/ st = jobs[j] THEN 0
    ELSE IF c = st THEN 1 ELSE IF c = jobs[j] THEN -1 ELSE 0

\* A job that changes its status changes two of the numbers by one.
LEMMA OneJobMoves ==
    ASSUME NEW jobs \in JobTable, NEW j \in StoreJob, NEW st, NEW t, NEW c
    PROVE  Number([jobs EXCEPT ![j] = st], t, c) =
             Number(jobs, t, c) + Delta(jobs, j, st, t, c)
<1> DEFINE after == [jobs EXCEPT ![j] = st]
           Won == {i \in StoreJob : TaskOf[i] = t /\ jobs[i] # c /\ after[i] = c}
           Lost == {i \in StoreJob : TaskOf[i] = t /\ jobs[i] = c /\ after[i] # c}
<1>1. after[j] = st /\ \A i \in StoreJob : i # j => after[i] = jobs[i]
  BY DEF JobTable
<1> HIDE DEF after
<1>2. /\ Won = IF TaskOf[j] = t /\ st # jobs[j] /\ c = st THEN {j} ELSE {}
      /\ Lost = IF TaskOf[j] = t /\ st # jobs[j] /\ c = jobs[j] THEN {j} ELSE {}
  BY <1>1
<1>3. Number(after, t, c) = Number(jobs, t, c) + Cardinality(Won) - Cardinality(Lost)
  BY Recount
<1>4. /\ Cardinality(Won) = IF TaskOf[j] = t /\ st # jobs[j] /\ c = st THEN 1 ELSE 0
      /\ Cardinality(Lost) = IF TaskOf[j] = t /\ st # jobs[j] /\ c = jobs[j] THEN 1 ELSE 0
  BY <1>2, FS_EmptySet, FS_Singleton
<1>5. Number(jobs, t, c) \in Nat
  BY NumberType
<1> HIDE DEF Won, Lost
<1>6. Number(after, t, c) = Number(jobs, t, c) + Delta(jobs, j, st, t, c)
  BY <1>3, <1>4, <1>5 DEF Delta
<1> QED BY <1>6 DEF after

JobStepped(k, s, j, st, D, incr, z) ==
    /\ z \in StoreType /\ z.jobs = [s.jobs EXCEPT ![j] = st] /\ z.second = s.second
    /\ \A t \in Task : t # TaskOf[j] => z.rows[t] = s.rows[t]
    /\ s.rows[TaskOf[j]] # Null =>
          z.rows[TaskOf[j]] # Null /\ (Held(z.rows[TaskOf[j]]) <=> Held(s.rows[TaskOf[j]]))
    /\ \A t \in Task, cols \in SUBSET Columns(k) :
          /\ Exact(s, t, cols)
          /\ t = TaskOf[j] => \A c \in cols : Balanced(D, incr, s.jobs[j], st, c)
          => Exact(z, t, cols)

\* A job that changes in one store, with a map that balances what it does to the numbers
LEMMA JobStepEffect ==
    ASSUME NEW k, k \in Kind, NEW s \in StoreType, NEW j \in StoreJob,
           NEW st, st \in JobStatus \cup {"NONE"},
           NEW D, D \in SUBSET JobStatus, D # {}, NEW incr, incr \in [D -> Int],
           NEW z, z = JobStep(k, s, j, st, incr)
    PROVE  JobStepped(k, s, j, st, D, incr, z)
<1> DEFINE u == TaskOf[j]
           r == IncrementSummary(k, s.rows[u], incr)
<1>1. /\ u \in Task /\ s.jobs \in JobTable /\ s.rows \in [Task -> LoadedRow \cup {Null}]
      /\ s.second \in JobTable /\ s = [jobs |-> s.jobs, rows |-> s.rows, second |-> s.second]
  BY StoreAssumption DEF StoreType
<1>2. Incremented(k, s.rows[u], D, incr, r)
  <2>1. s.rows[u] \in LoadedRow \cup {Null}
    BY <1>1
  <2> QED BY <2>1, IncrementedRow
<1>3. z = [jobs |-> [s.jobs EXCEPT ![j] = st], rows |-> [s.rows EXCEPT ![u] = r],
           second |-> s.second]
  BY <1>1 DEF JobStep
<1> HIDE DEF u, r
<1>4. /\ z.jobs = [s.jobs EXCEPT ![j] = st] /\ z.rows = [s.rows EXCEPT ![u] = r]
      /\ z.second = s.second
  BY <1>3
<1>5. z.jobs \in JobTable /\ z.rows \in [Task -> LoadedRow \cup {Null}]
  BY <1>1, <1>2, <1>4 DEF JobTable, Incremented
<1>6. z \in StoreType
  BY <1>1, <1>3, <1>4, <1>5 DEF StoreType
<1>7. z.rows[u] = r /\ \A t \in Task : t # u => z.rows[t] = s.rows[t]
  BY <1>1, <1>4
<1>8. ASSUME NEW t \in Task, NEW cols \in SUBSET Columns(k), Exact(s, t, cols),
             t = u => \A c \in cols : Balanced(D, incr, s.jobs[j], st, c)
      PROVE  Exact(z, t, cols)
  <2>1. \A c \in cols : s.rows[t].count[c] \in Int /\ Number(s.jobs, t, c) \in Int
    BY <1>8, ExactIsInt, NumberType
  <2>2. \A c \in cols : Number(z.jobs, t, c) = Number(s.jobs, t, c) + Delta(s.jobs, j, st, t, c)
    BY <1>1, <1>4, OneJobMoves
  <2>3. CASE t # u
    BY <1>7, <1>8, <2>1, <2>2, <2>3 DEF Exact, Delta, u
  <2>4. CASE t = u
    <3>1. z.rows[t] # Null
      BY <1>2, <1>7, <1>8, <2>4 DEF Exact, Incremented
    <3>2. ASSUME NEW c \in cols
          PROVE  z.rows[t].count[c] = Number(z.jobs, t, c)
      <4> DEFINE d == IF c \in D THEN incr[c] ELSE 0
                 e == IF st = s.jobs[j] THEN 0
                      ELSE IF c = st THEN 1 ELSE IF c = s.jobs[j] THEN -1 ELSE 0
      <4>1. d = e
        BY <1>8, <2>4 DEF Balanced
      <4>2. z.rows[t].count[c] = s.rows[t].count[c] + d
        BY <1>2, <1>7, <1>8, <2>1, <2>4 DEF Exact, Incremented
      <4>3. Number(z.jobs, t, c) = Number(s.jobs, t, c) + e
        BY <2>2, <2>4 DEF Delta, u
      <4>4. s.rows[t].count[c] = Number(s.jobs, t, c)
        BY <1>8 DEF Exact
      <4> HIDE DEF d, e
      <4> QED BY <4>1, <4>2, <4>3, <4>4
    <3> QED BY <3>1, <3>2 DEF Exact
  <2> QED BY <2>3, <2>4
<1> QED BY <1>2, <1>4, <1>6, <1>7, <1>8 DEF u, JobStepped, Incremented

-----------------------------------------------------------------------------
\* The operations on one job

\* ops stays in its bound.
LEMMA OpsBounded ==
    ASSUME StoreInv, Bounded
    PROVE  ops' \in 0..MaxStoreOps
BY StoreAssumption DEF StoreInv, StoreTypeOK, Bounded

(***************************************************************************)
(* A step that changes the job j and the row of its task, in each store,   *)
(* and leaves the counters right, keeps the invariant when the SQL and the *)
(* Mongo store give j the same status.                                     *)
(***************************************************************************)
JobActed(j) ==
    /\ Bounded /\ UNCHANGED <<tasks, restored, refused>>
    /\ \A k \in Kind :
          /\ store'[k] \in StoreType /\ store'[k].second = store[k].second
          /\ \A i \in StoreJob : i # j => store'[k].jobs[i] = store[k].jobs[i]
          /\ \A t \in Task : t # TaskOf[j] => store'[k].rows[t] = store[k].rows[t]
          /\ store[k].rows[TaskOf[j]] # Null =>
                /\ store'[k].rows[TaskOf[j]] # Null
                /\ Held(store'[k].rows[TaskOf[j]]) <=> Held(store[k].rows[TaskOf[j]])
          /\ store'[k].jobs[j] # "NONE" => store[k].second[j] = "NONE" /\ j \in accepted'
          /\ \/ j \in removed' \/ store'[k].jobs[j] # "NONE"
             \/ store'[k].jobs[j] = store[k].jobs[j] /\ accepted' = accepted

\* Such a step, made in all three stores, keeps the invariant.
LEMMA JobAction ==
    ASSUME StoreInv, NEW j \in StoreJob, store' = [k \in Kind |-> store'[k]], JobActed(j),
           TaskOf[j] \in tasks \/ Restored(TaskOf[j]),
           Restored(TaskOf[j]) \/ store'["sql"].jobs[j] = store'["mongo"].jobs[j],
           drifted' \in SUBSET Task,
           accepted' \in SUBSET StoreJob, accepted \subseteq accepted',
           accepted' \subseteq accepted \cup {j},
           removed' \in SUBSET StoreJob, removed \subseteq removed',
           \A k \in Kind, t \in tasks : Exact(store'[k], t, ExactColumns(k, t)')
    PROVE  StoreInv'
<1> DEFINE u == TaskOf[j]
<1>0. u \in Task /\ tasks' = tasks /\ restored' = restored /\ refused' = refused
  BY StoreAssumption DEF JobActed
<1>1. StoreTypeOK'
  <2>1. store' \in [Kind -> StoreType]
    BY DEF JobActed
  <2>2. ops' \in 0..MaxStoreOps
    BY OpsBounded DEF JobActed
  <2> QED BY <1>0, <2>1, <2>2 DEF StoreInv, StoreTypeOK
<1>2. \A k \in Kind : Placed(store[k])'
  <2> SUFFICES ASSUME NEW k \in Kind, NEW i \in StoreJob
               PROVE  /\ store'[k].jobs[i] = "NONE" \/ store'[k].second[i] = "NONE"
                      /\ i \notin accepted' =>
                            store'[k].jobs[i] = "NONE" /\ store'[k].second[i] = "NONE"
    BY DEF Placed
  <2>1. /\ store[k].jobs[i] = "NONE" \/ store[k].second[i] = "NONE"
        /\ i \notin accepted => store[k].jobs[i] = "NONE" /\ store[k].second[i] = "NONE"
    BY DEF StoreInv, Placed
  <2> QED BY <2>1 DEF JobActed
<1>3. AcceptedIsStored'
  <2> SUFFICES ASSUME NEW k \in Kind, NEW i, i \in accepted' \ (removed' \cup refused')
               PROVE  \/ store'[k].jobs[i] # "NONE"
                      \/ store'[k].second[i] # "NONE"
                      \/ k = "sql" /\ i \in restored'
    BY DEF AcceptedIsStored
  <2>1. i \in accepted \ (removed \cup refused) =>
           \/ store[k].jobs[i] # "NONE" \/ store[k].second[i] # "NONE"
           \/ k = "sql" /\ i \in restored
    BY DEF StoreInv, AcceptedIsStored
  <2> QED BY <1>0, <2>1 DEF JobActed
<1>4. \A t \in Task : Alike(t)'
  <2> SUFFICES ASSUME NEW t \in Task, ~Restored(t)
               PROVE  Alike(t)'
    BY <1>0 DEF Alike, Restored
  <2>1. /\ t \notin tasks => \A k \in Kind, i \in StoreJob :
                               TaskOf[i] = t => store[k].jobs[i] = "NONE"
        /\ \A i \in StoreJob : TaskOf[i] = t => store["sql"].jobs[i] = store["mongo"].jobs[i]
        /\ store["sql"].rows[t] = Null <=> store["mongo"].rows[t] = Null
        /\ Held(store["sql"].rows[t]) <=> Held(store["mongo"].rows[t])
    BY DEF StoreInv, Alike
  <2>2. "sql" \in Kind /\ "mongo" \in Kind
    BY DEF Kind
  <2>3. \A k \in Kind, i \in StoreJob : i # j => store'[k].jobs[i] = store[k].jobs[i]
    BY DEF JobActed
  <2>4. \A i \in StoreJob : TaskOf[i] = t => store'["sql"].jobs[i] = store'["mongo"].jobs[i]
    BY <2>1, <2>2, <2>3
  <2>5. t \notin tasks => \A k \in Kind, i \in StoreJob :
                             TaskOf[i] = t => store'[k].jobs[i] = "NONE"
    BY <2>1, <2>3
  <2>6. /\ store'["sql"].rows[t] = Null <=> store'["mongo"].rows[t] = Null
        /\ Held(store'["sql"].rows[t]) <=> Held(store'["mongo"].rows[t])
    <3>1. CASE t # u
      BY <2>1, <2>2, <3>1 DEF JobActed
    <3>2. CASE t = u
      <4>1. store["sql"].rows[t] # Null /\ store["mongo"].rows[t] # Null
        BY <2>2, <3>2 DEF StoreInv, Exact
      <4> QED BY <2>1, <2>2, <3>2, <4>1 DEF JobActed
    <3> QED BY <3>1, <3>2
  <2> QED BY <1>0, <2>4, <2>5, <2>6 DEF Alike
<1>5. \A k \in Kind, t \in tasks' : Exact(store[k], t, ExactColumns(k, t))'
  BY <1>0 DEF Exact
<1> QED BY <1>1, <1>2, <1>3, <1>4, <1>5 DEF StoreInv

\* What the invariant says of the types
LEMMA KindFacts ==
    ASSUME StoreInv
    PROVE  /\ "sql" \in Kind /\ "mongo" \in Kind
           /\ \A k \in Kind : store[k] \in StoreType /\ store[k].jobs \in JobTable
           /\ \A j \in StoreJob : TaskOf[j] \in Task
           /\ \A k \in Kind, j \in StoreJob : store[k].jobs[j] \in JobStatus \cup {"NONE"}
           /\ "NONE" \notin JobStatus /\ tasks \in SUBSET Task
BY StoreAssumption DEF StoreInv, StoreTypeOK, StoreType, JobTable, Kind, JobStatus, Counted

\* A job of a task that no restored job has is of a registered task.
LEMMA JobIsRegistered ==
    ASSUME StoreInv, NEW k \in Kind, NEW j \in StoreJob, store[k].jobs[j] # "NONE"
    PROVE  TaskOf[j] \in tasks \/ Restored(TaskOf[j])
BY KindFacts DEF StoreInv, Alike

\* The counters of a job that is added or deleted
LEMMA OneBalanced ==
    ASSUME NEW st \in JobStatus, NEW c \in JobStatus
    PROVE  Balanced({st}, One(st, 1), "NONE", st, c) /\ Balanced({st}, One(st, -1), st, "NONE", c)
BY DEF Balanced, One, JobStatus, Counted

\* The counters of a job that goes from one status to another
LEMMA AcrossBalanced ==
    ASSUME NEW from \in JobStatus, NEW to \in JobStatus, from # to, NEW c \in JobStatus
    PROVE  Balanced({from, to}, Across(from, to, 1), from, to, c)
BY DEF Balanced, Across

\* AddJob gives the job of a task on hold the status HOLD, in each store by its own row.
LEMMA AddJobStep ==
    ASSUME StoreInv, NEW j \in StoreJob, AddJob(j)
    PROVE  StoreInv'
<1> DEFINE u == TaskOf[j]
           st(k) == AddedStatus(k, u)
<1>1. /\ j \notin accepted /\ u \in tasks /\ accepted' = accepted \cup {j} /\ Bounded
      /\ store' = [k \in Kind |-> Added(k, store[k], j, st(k))]
      /\ UNCHANGED <<tasks, removed, restored, refused, drifted>>
  BY DEF AddJob, Running
<1>2. \A k \in Kind : /\ st(k) \in JobStatus /\ st(k) # "NONE"
                      /\ st(k) = IF Held(store[k].rows[u]) THEN "HOLD" ELSE "QUEUEING"
  <2> SUFFICES ASSUME NEW k \in Kind
               PROVE  st(k) = IF Held(store[k].rows[u]) THEN "HOLD" ELSE "QUEUEING"
    BY DEF JobStatus, Counted
  <2>1. store[k].rows[u] \in LoadedRow /\ store[k].rows[u] # Null
    BY <1>1, KindFacts DEF StoreInv, Exact, StoreType
  <2>2. store[k].rows[u].loading # Null
    BY <2>1, StoreAssumption DEF LoadedRow
  <2> QED BY <2>1, <2>2 DEF AddedStatus, FindDetailSummary, Held
<1> HIDE DEF st
<1>3. ASSUME NEW k \in Kind
      PROVE  JobStepped(k, store[k], j, st(k), {st(k)}, One(st(k), 1), store'[k])
  <2> DEFINE D == {st(k)}
             incr == One(st(k), 1)
             z == store'[k]
  <2>1. D \in SUBSET JobStatus /\ D # {} /\ incr \in [D -> Int] /\ st(k) \in JobStatus \cup {"NONE"}
    BY <1>2 DEF One
  <2>2. z = JobStep(k, store[k], j, st(k), incr)
    BY <1>1 DEF Added, JobStep
  <2> HIDE DEF D, incr, z
  <2>3. JobStepped(k, store[k], j, st(k), D, incr, z)
    BY <2>1, <2>2, KindFacts, JobStepEffect
  <2> QED BY <2>3 DEF D, incr, z
<1>4. \A k \in Kind : store[k].jobs[j] = "NONE" /\ store[k].second[j] = "NONE"
  BY <1>1 DEF StoreInv, Placed
<1>5. JobActed(j)
  <2>1. \A k \in Kind : /\ store'[k].jobs[j] = st(k)
                        /\ \A i \in StoreJob : i # j => store'[k].jobs[i] = store[k].jobs[i]
    BY <1>3, KindFacts DEF JobStepped, JobTable
  <2> QED BY <1>1, <1>2, <1>3, <1>4, <2>1 DEF JobActed, JobStepped
<1>6. ASSUME NEW k \in Kind, NEW t \in tasks
      PROVE  Exact(store'[k], t, ExactColumns(k, t)')
  <2>1. ExactColumns(k, t)' = ExactColumns(k, t) /\ ExactColumns(k, t) \in SUBSET Columns(k)
        /\ Columns(k) \subseteq JobStatus
    BY <1>1 DEF ExactColumns, Restored, Columns, JobStatus
  <2>2. Exact(store[k], t, ExactColumns(k, t)) /\ t \in Task
    BY KindFacts DEF StoreInv
  <2>3. \A c \in ExactColumns(k, t) : Balanced({st(k)}, One(st(k), 1), store[k].jobs[j], st(k), c)
    BY <1>2, <1>4, <2>1, OneBalanced
  <2> QED BY <1>3, <2>1, <2>2, <2>3 DEF JobStepped
<1>7. Restored(u) \/ store'["sql"].jobs[j] = store'["mongo"].jobs[j]
  <2>1. Restored(u) \/ (Held(store["sql"].rows[u]) <=> Held(store["mongo"].rows[u]))
    BY KindFacts DEF StoreInv, Alike
  <2>2. store'["sql"].jobs[j] = st("sql") /\ store'["mongo"].jobs[j] = st("mongo")
    BY <1>3, KindFacts DEF JobStepped, JobTable
  <2> QED BY <1>2, <2>1, <2>2, KindFacts
<1>8. store' = [k \in Kind |-> store'[k]]
  BY <1>1
<1>9. /\ drifted' \in SUBSET Task /\ accepted' \in SUBSET StoreJob /\ accepted \subseteq accepted'
      /\ accepted' \subseteq accepted \cup {j}
      /\ removed' \in SUBSET StoreJob /\ removed \subseteq removed'
  BY <1>1 DEF StoreInv, StoreTypeOK
<1> QED BY <1>1, <1>5, <1>6, <1>7, <1>8, <1>9, JobAction DEF u

(***************************************************************************)
(* A move of one job, in the stores that have it with a status in sts.  A  *)
(* task whose map has two equal keys is drifted from there on; the drift   *)
(* is in the column of the status the job has.                             *)
(***************************************************************************)
LEMMA MoveStep ==
    ASSUME StoreInv, NEW j \in StoreJob, NEW sts, sts \in SUBSET JobStatus,
           NEW to, to \in JobStatus, to \in sts => to \in {"QUEUEING", "STOPPED"},
           NEW w \in Int, Move(j, sts, to, w), Running,
           \E k \in Kind : store[k].jobs[j] \in sts,
           UNCHANGED <<tasks, listed, history>>
    PROVE  StoreInv'
<1> DEFINE u == TaskOf[j]
           incr(k) == IF store[k].jobs[j] = to THEN One(to, w) ELSE Across(store[k].jobs[j], to, 1)
           D(k) == {store[k].jobs[j], to}
<1>1. /\ store' = [k \in Kind |-> IF store[k].jobs[j] \in sts
                                  THEN MoveJob(k, store[k], j, to, w) ELSE store[k]]
      /\ drifted' = drifted \cup {u : k \in {k \in Kind : store[k].jobs[j] = to /\ to \in sts}}
      /\ Bounded /\ UNCHANGED <<tasks, accepted, removed, restored, refused>>
  BY DEF Move, Running, history
<1>2. ASSUME NEW k \in Kind, store[k].jobs[j] \in sts
      PROVE  JobStepped(k, store[k], j, to, D(k), incr(k), store'[k])
  <2> DEFINE s == store[k]
             from == store[k].jobs[j]
             E == D(k)
             f == incr(k)
             z == store'[k]
  <2>1. from \in JobStatus /\ from # "NONE" /\ s \in StoreType /\ s.jobs \in JobTable
    BY <1>2, KindFacts
  <2>2. E \in SUBSET JobStatus /\ E # {} /\ f \in [E -> Int]
    <3>1. CASE from = to
      BY <2>1, <3>1 DEF One
    <3>2. CASE from # to
      BY <2>1, <3>2 DEF Across
    <3> QED BY <3>1, <3>2
  <2>3. UpdateJob(k, [NoFilter EXCEPT !.id = j], s.jobs, to) = [s.jobs EXCEPT ![j] = to]
    BY <2>1, IdFilter
  <2>4. z = MoveJob(k, s, j, to, w)
    BY <1>1, <1>2
  <2>5. z = JobStep(k, s, j, to, f)
    <3>1. z = [s EXCEPT !.jobs = [s.jobs EXCEPT ![j] = to],
                        !.rows[u] = IncrementSummary(k, @, f)]
      BY <2>3, <2>4 DEF MoveJob
    <3> HIDE DEF f, z, s
    <3> QED BY <2>1, <3>1 DEF JobStep, StoreType
  <2> HIDE DEF E, f, z
  <2>6. JobStepped(k, s, j, to, E, f, z)
    BY <2>1, <2>2, <2>5, JobStepEffect
  <2> QED BY <2>6 DEF E, f, z
<1>3. \A k \in Kind : store[k].jobs[j] \notin sts => store'[k] = store[k]
  BY <1>1
<1>4. \A k \in Kind : store[k].jobs[j] \in sts =>
                         store[k].jobs[j] # "NONE" /\ store[k].second[j] = "NONE"
                                                  /\ j \in accepted
  BY KindFacts DEF StoreInv, Placed
<1>5. \A k \in Kind : store'[k].jobs[j] = IF store[k].jobs[j] \in sts THEN to ELSE store[k].jobs[j]
  BY <1>2, <1>3, KindFacts DEF JobStepped, JobTable
<1>6. JobActed(j)
  <2> SUFFICES ASSUME NEW k \in Kind
               PROVE  /\ store'[k] \in StoreType /\ store'[k].second = store[k].second
                      /\ \A i \in StoreJob : i # j => store'[k].jobs[i] = store[k].jobs[i]
                      /\ \A t \in Task : t # TaskOf[j] => store'[k].rows[t] = store[k].rows[t]
                      /\ store[k].rows[TaskOf[j]] # Null =>
                            /\ store'[k].rows[TaskOf[j]] # Null
                            /\ Held(store'[k].rows[TaskOf[j]]) <=> Held(store[k].rows[TaskOf[j]])
                      /\ store'[k].jobs[j] # "NONE" =>
                            store[k].second[j] = "NONE" /\ j \in accepted'
                      /\ \/ j \in removed' \/ store'[k].jobs[j] # "NONE"
                         \/ store'[k].jobs[j] = store[k].jobs[j] /\ accepted' = accepted
    BY <1>1 DEF JobActed
  <2>1. CASE store[k].jobs[j] \in sts
    <3>1. \A i \in StoreJob : i # j => store'[k].jobs[i] = store[k].jobs[i]
      BY <1>2, <2>1, KindFacts DEF JobStepped, JobTable
    <3>2. to # "NONE"
      BY KindFacts
    <3> HIDE DEF D, incr
    <3> QED BY <1>1, <1>2, <1>4, <1>5, <2>1, <3>1, <3>2 DEF JobStepped
  <2>2. CASE store[k].jobs[j] \notin sts
    <3>1. store[k].jobs[j] # "NONE" => store[k].second[j] = "NONE" /\ j \in accepted
      BY DEF StoreInv, Placed
    <3> QED BY <1>1, <1>3, <2>2, <3>1, KindFacts
  <2> QED BY <2>1, <2>2
<1>7. ASSUME NEW k \in Kind, NEW t \in tasks
      PROVE  Exact(store'[k], t, ExactColumns(k, t)')
  <2>1. /\ ExactColumns(k, t)' \subseteq ExactColumns(k, t)
        /\ ExactColumns(k, t) \in SUBSET Columns(k)
        /\ Columns(k) \subseteq JobStatus
        /\ t = u /\ store[k].jobs[j] = to /\ to \in sts => to \notin ExactColumns(k, t)'
    BY <1>1 DEF ExactColumns, Restored, Columns, JobStatus
  <2>2. Exact(store[k], t, ExactColumns(k, t)') /\ t \in Task
    BY <2>1, KindFacts DEF StoreInv, Exact
  <2>3. CASE store[k].jobs[j] \notin sts
    BY <1>3, <2>2, <2>3
  <2>4. CASE store[k].jobs[j] \in sts
    <3>1. ASSUME t = u, NEW c \in ExactColumns(k, t)'
          PROVE  Balanced(D(k), incr(k), store[k].jobs[j], to, c)
      <4>1. c \in JobStatus /\ store[k].jobs[j] \in JobStatus
        BY <2>1, <2>4, <3>1
      <4>2. CASE store[k].jobs[j] = to
        BY <2>1, <2>4, <3>1, <4>2 DEF Balanced, One
      <4>3. CASE store[k].jobs[j] # to
        BY <4>1, <4>3, AcrossBalanced
      <4> QED BY <4>2, <4>3
    <3> DEFINE cols == ExactColumns(k, t)'
    <3>2. cols \in SUBSET Columns(k) /\ Exact(store[k], t, cols)
      BY <2>1, <2>2
    <3> HIDE DEF cols, D, incr
    <3>3. t = u => \A c \in cols : Balanced(D(k), incr(k), store[k].jobs[j], to, c)
      BY <3>1 DEF cols
    <3>4. Exact(store'[k], t, cols)
      BY <1>2, <2>2, <2>4, <3>2, <3>3 DEF JobStepped
    <3> QED BY <3>4 DEF cols
  <2> QED BY <2>3, <2>4
<1>8. u \in tasks \/ Restored(u)
  BY <1>4, JobIsRegistered
<1>9. Restored(u) \/ store'["sql"].jobs[j] = store'["mongo"].jobs[j]
  <2>1. Restored(u) \/ store["sql"].jobs[j] = store["mongo"].jobs[j]
    BY KindFacts DEF StoreInv, Alike
  <2> QED BY <1>5, <2>1, KindFacts
<1>10. store' = [k \in Kind |-> store'[k]]
  BY <1>1
<1>11. /\ drifted' \in SUBSET Task /\ accepted' \in SUBSET StoreJob /\ accepted \subseteq accepted'
      /\ accepted' \subseteq accepted \cup {j} /\ removed' \in SUBSET StoreJob
      /\ removed \subseteq removed'
  BY <1>1, KindFacts DEF StoreInv, StoreTypeOK
<1> QED BY <1>6, <1>7, <1>8, <1>9, <1>10, <1>11, JobAction DEF u

\* execJob, the end of a job, StopJob and RetryJob are such moves.
LEMMA MoveSteps ==
    ASSUME StoreInv, NEW j \in StoreJob,
           \/ ExecJob(j)
           \/ \E s \in {"SUCCESS", "FAILURE", "QUEUEING"} : FinishJob(j, s)
           \/ StopJob(j) \/ RetryJob(j)
    PROVE  StoreInv'
<1>0. \A k \in Kind : store[k].jobs[j] # "NONE" => store[k].jobs[j] \in JobStatus
  BY KindFacts
<1>1. CASE ExecJob(j)
  <2> DEFINE sts == {"QUEUEING"}
             to == "RETRYING"
             w == 0
  <2>1. /\ sts \in SUBSET JobStatus /\ to \in JobStatus /\ to \notin sts /\ w \in Int
        /\ Running /\ Move(j, sts, to, w) /\ \E k \in Kind : store[k].jobs[j] \in sts
        /\ UNCHANGED <<tasks, listed, history>>
    BY <1>1 DEF ExecJob, JobStatus, Counted
  <2> HIDE DEF sts, to, w
  <2> QED BY <2>1, MoveStep
<1>2. ASSUME NEW s, s \in {"SUCCESS", "FAILURE", "QUEUEING"}, FinishJob(j, s)
      PROVE  StoreInv'
  <2> DEFINE sts == {"RETRYING"}
             w == 0
  <2>1. /\ sts \in SUBSET JobStatus /\ s \in JobStatus /\ s \notin sts /\ w \in Int
        /\ Running /\ Move(j, sts, s, w) /\ \E k \in Kind : store[k].jobs[j] \in sts
        /\ UNCHANGED <<tasks, listed, history>>
    BY <1>2 DEF FinishJob, JobStatus, Counted
  <2> HIDE DEF sts, w
  <2> QED BY <2>1, MoveStep
<1>3. CASE StopJob(j)
  <2> DEFINE to == "STOPPED"
             w == -1
  <2>1. /\ JobStatus \in SUBSET JobStatus /\ to \in JobStatus /\ to \in {"QUEUEING", "STOPPED"}
        /\ w \in Int /\ Running /\ Move(j, JobStatus, to, w)
        /\ UNCHANGED <<tasks, listed, history>>
    BY <1>3 DEF StopJob, JobStatus, Counted
  <2>2. \E k \in Kind : store[k].jobs[j] \in JobStatus
    BY <1>0, <1>3 DEF StopJob
  <2> HIDE DEF to, w
  <2> QED BY <2>1, <2>2, MoveStep
<1>4. CASE RetryJob(j)
  <2> DEFINE to == "QUEUEING"
             w == 1
  <2>1. /\ JobStatus \in SUBSET JobStatus /\ to \in JobStatus /\ to \in {"QUEUEING", "STOPPED"}
        /\ w \in Int /\ Running /\ Move(j, JobStatus, to, w)
        /\ UNCHANGED <<tasks, listed, history>>
    BY <1>4 DEF RetryJob, JobStatus, Counted
  <2>2. \E k \in Kind : store[k].jobs[j] \in JobStatus
    BY <1>0, <1>4 DEF RetryJob
  <2> HIDE DEF to, w
  <2> QED BY <2>1, <2>2, MoveStep
<1> QED BY <1>1, <1>2, <1>3, <1>4

\* DeleteJob counts the status the job had in that store.
LEMMA DeleteJobStep ==
    ASSUME StoreInv, NEW j \in StoreJob, DeleteJob(j)
    PROVE  StoreInv'
<1> DEFINE u == TaskOf[j]
           from(k) == store[k].jobs[j]
<1>1. /\ store' = [k \in Kind |-> Deleted(k, store[k], j)] /\ removed' = removed \cup {j}
      /\ Bounded /\ UNCHANGED <<tasks, accepted, restored, refused, drifted>>
  BY DEF DeleteJob, Running
<1>2. ASSUME NEW k \in Kind, from(k) # "NONE"
      PROVE  JobStepped(k, store[k], j, "NONE", {from(k)}, One(from(k), -1), store'[k])
  <2> DEFINE s == store[k]
             D == {from(k)}
             incr == One(from(k), -1)
             z == store'[k]
             st == "NONE"
  <2>1. /\ D \in SUBSET JobStatus /\ D # {} /\ incr \in [D -> Int] /\ s \in StoreType
        /\ st \in JobStatus \cup {"NONE"}
    BY <1>2, KindFacts DEF One
  <2>2. z = JobStep(k, s, j, st, incr)
    BY <1>1, <1>2 DEF Deleted, JobStep
  <2> HIDE DEF D, incr, z, st, s
  <2>3. JobStepped(k, s, j, st, D, incr, z)
    BY <2>1, <2>2, JobStepEffect
  <2> QED BY <2>3 DEF D, incr, z, st, s
<1>3. \A k \in Kind : from(k) = "NONE" => store'[k] = store[k]
  BY <1>1 DEF Deleted
<1> HIDE DEF from
<1>4. ASSUME NEW k \in Kind
      PROVE  /\ store'[k] \in StoreType /\ store'[k].jobs[j] = "NONE"
             /\ store'[k].second = store[k].second
             /\ \A i \in StoreJob : i # j => store'[k].jobs[i] = store[k].jobs[i]
             /\ \A t \in Task : t # TaskOf[j] => store'[k].rows[t] = store[k].rows[t]
             /\ store[k].rows[TaskOf[j]] # Null =>
                   /\ store'[k].rows[TaskOf[j]] # Null
                   /\ Held(store'[k].rows[TaskOf[j]]) <=> Held(store[k].rows[TaskOf[j]])
  <2>1. CASE from(k) = "NONE"
    BY <1>3, <2>1, KindFacts DEF from
  <2>2. CASE from(k) # "NONE"
    <3>1. /\ store'[k].jobs[j] = "NONE"
          /\ \A i \in StoreJob : i # j => store'[k].jobs[i] = store[k].jobs[i]
      BY <1>2, <2>2, KindFacts DEF JobStepped, JobTable
    <3> QED BY <1>2, <2>2, <3>1 DEF JobStepped
  <2> QED BY <2>1, <2>2
<1>5. JobActed(j)
  BY <1>1, <1>4 DEF JobActed
<1>6. ASSUME NEW k \in Kind, NEW t \in tasks
      PROVE  Exact(store'[k], t, ExactColumns(k, t)')
  <2>1. ExactColumns(k, t)' = ExactColumns(k, t) /\ ExactColumns(k, t) \in SUBSET Columns(k)
        /\ Columns(k) \subseteq JobStatus
    BY <1>1 DEF ExactColumns, Restored, Columns, JobStatus
  <2>2. Exact(store[k], t, ExactColumns(k, t)) /\ t \in Task
    BY KindFacts DEF StoreInv
  <2>3. CASE from(k) = "NONE"
    BY <1>3, <2>1, <2>2, <2>3
  <2>4. CASE from(k) # "NONE"
    <3>1. from(k) \in JobStatus
      BY <2>4, KindFacts DEF from
    <3>2. \A c \in ExactColumns(k, t) :
             Balanced({from(k)}, One(from(k), -1), store[k].jobs[j], "NONE", c)
      BY <2>1, <3>1, OneBalanced DEF from
    <3> QED BY <1>2, <2>1, <2>2, <2>4, <3>2 DEF JobStepped
  <2> QED BY <2>3, <2>4
<1>7. u \in tasks \/ Restored(u)
  BY JobIsRegistered DEF DeleteJob
<1>8. store'["sql"].jobs[j] = store'["mongo"].jobs[j] /\ store' = [k \in Kind |-> store'[k]]
  BY <1>1, <1>4, KindFacts
<1>9. /\ drifted' \in SUBSET Task /\ accepted' \in SUBSET StoreJob /\ accepted \subseteq accepted'
      /\ accepted' \subseteq accepted \cup {j} /\ removed' \in SUBSET StoreJob
      /\ removed \subseteq removed'
  BY <1>1 DEF StoreInv, StoreTypeOK
<1> QED BY <1>5, <1>6, <1>7, <1>8, <1>9, JobAction DEF u

\* The secondary takes the job: jobs and rows stay.
LEMMA AddJobSecondaryStep ==
    ASSUME StoreInv, NEW j \in StoreJob, AddJobSecondary(j)
    PROVE  StoreInv'
<1> DEFINE st(k) == AddedStatus(k, TaskOf[j])
<1>1. /\ j \notin accepted /\ accepted' = accepted \cup {j} /\ Bounded
      /\ store' = [k \in Kind |-> [store[k] EXCEPT !.second[j] = st(k)]]
      /\ UNCHANGED <<tasks, removed, restored, refused, drifted>>
  BY DEF AddJobSecondary, Running
<1>2. \A k : st(k) \in JobStatus /\ st(k) # "NONE"
  BY DEF AddedStatus, JobStatus, Counted
<1> HIDE DEF st
<1>3. ASSUME NEW k \in Kind
      PROVE  /\ store'[k] \in StoreType /\ store'[k].jobs = store[k].jobs
             /\ store'[k].rows = store[k].rows /\ store'[k].second[j] = st(k)
             /\ \A i \in StoreJob : i # j => store'[k].second[i] = store[k].second[i]
  <2>1. store'[k] = [store[k] EXCEPT !.second[j] = st(k)]
    BY <1>1
  <2> QED BY <1>2, <2>1, KindFacts DEF StoreType, JobTable
<1>4. StoreTypeOK'
  <2>1. ops' \in 0..MaxStoreOps
    BY <1>1, OpsBounded
  <2>2. store' \in [Kind -> StoreType]
    BY <1>1, <1>3
  <2> QED BY <1>1, <2>1, <2>2 DEF StoreInv, StoreTypeOK
<1>5. AcceptedIsStored' /\ \A k \in Kind : Placed(store[k])'
  <2>1. \A k \in Kind : Placed(store[k])'
    <3>1. \A k \in Kind : store[k].jobs[j] = "NONE" /\ Placed(store[k])
      BY <1>1 DEF StoreInv, Placed
    <3> SUFFICES ASSUME NEW k \in Kind, NEW i \in StoreJob
                 PROVE  /\ store'[k].jobs[i] = "NONE" \/ store'[k].second[i] = "NONE"
                        /\ i \notin accepted' =>
                              store'[k].jobs[i] = "NONE" /\ store'[k].second[i] = "NONE"
      BY DEF Placed
    <3>2. /\ store[k].jobs[i] = "NONE" \/ store[k].second[i] = "NONE"
          /\ i \notin accepted => store[k].jobs[i] = "NONE" /\ store[k].second[i] = "NONE"
      BY <3>1 DEF Placed
    <3> QED BY <1>1, <1>3, <3>1, <3>2
  <2>2. ASSUME NEW k \in Kind, NEW i, i \in accepted' \ (removed' \cup refused')
        PROVE  \/ store'[k].jobs[i] # "NONE" \/ store'[k].second[i] # "NONE"
               \/ k = "sql" /\ i \in restored'
    <3>1. CASE i = j
      BY <1>2, <1>3, <3>1
    <3>2. CASE i # j
      <4>1. i \in StoreJob /\ i \in accepted \ (removed \cup refused)
        BY <1>1, <2>2, <3>2 DEF StoreInv, StoreTypeOK
      <4>2. \/ store[k].jobs[i] # "NONE" \/ store[k].second[i] # "NONE"
            \/ k = "sql" /\ i \in restored
        BY <4>1 DEF StoreInv, AcceptedIsStored
      <4> QED BY <1>1, <1>3, <3>2, <4>1, <4>2
    <3> QED BY <3>1, <3>2
  <2> QED BY <2>1, <2>2 DEF AcceptedIsStored
<1>6. \A k \in Kind, t \in tasks' : Exact(store[k], t, ExactColumns(k, t))'
  BY <1>1, <1>3 DEF StoreInv, Exact, ExactColumns, Restored
<1>7. \A t \in Task : Alike(t)'
  <2> SUFFICES ASSUME NEW t \in Task, ~Restored(t)
               PROVE  Alike(t)'
    BY <1>1 DEF Alike, Restored
  <2>1. Alike(t)
    BY DEF StoreInv
  <2>2. /\ store'["sql"].rows = store["sql"].rows /\ store'["mongo"].rows = store["mongo"].rows
        /\ store'["sql"].jobs = store["sql"].jobs /\ store'["mongo"].jobs = store["mongo"].jobs
        /\ \A k \in Kind : store'[k].jobs = store[k].jobs
    BY <1>3, KindFacts
  <2> QED BY <1>1, <2>1, <2>2 DEF Alike
<1> QED BY <1>4, <1>5, <1>6, <1>7 DEF StoreInv

-----------------------------------------------------------------------------
\* The operations on the jobs of a task

\* The job table in which the jobs of task t with a status in from have the status to
ShiftedJobs(jobs, t, from, to) ==
    [j \in StoreJob |-> IF TaskOf[j] = t /\ jobs[j] \in from THEN to ELSE jobs[j]]

\* The number of jobs that a shift moves, by column
ShiftDelta(jobs, t, from, to, c) ==
    IF c = to THEN Cardinality({j \in StoreJob : TaskOf[j] = t /\ jobs[j] \in from})
    ELSE IF c \in from THEN -Number(jobs, t, c) ELSE 0

\* A shift moves a number of jobs.
LEMMA ShiftDeltaType ==
    ASSUME NEW jobs, NEW t, NEW from, NEW to, NEW c
    PROVE  ShiftDelta(jobs, t, from, to, c) \in Int
<1>1. Cardinality({j \in StoreJob : TaskOf[j] = t /\ jobs[j] \in from}) \in Nat
  BY JobsFinite
<1> QED BY <1>1, NumberType DEF ShiftDelta

\* A shift changes the numbers of its task by what it moves.
LEMMA JobsShift ==
    ASSUME NEW jobs \in JobTable, NEW t, NEW u, NEW from, NEW to, to \notin from, NEW c
    PROVE  Number(ShiftedJobs(jobs, t, from, to), u, c) =
             Number(jobs, u, c) + IF u = t THEN ShiftDelta(jobs, t, from, to, c) ELSE 0
<1> DEFINE after == ShiftedJobs(jobs, t, from, to)
           Won == {i \in StoreJob : TaskOf[i] = u /\ jobs[i] # c /\ after[i] = c}
           Lost == {i \in StoreJob : TaskOf[i] = u /\ jobs[i] = c /\ after[i] # c}
           A == {j \in StoreJob : TaskOf[j] = t /\ jobs[j] \in from}
           B == {j \in StoreJob : TaskOf[j] = t /\ jobs[j] = c}
<1>1. \A i \in StoreJob : after[i] = IF TaskOf[i] = t /\ jobs[i] \in from THEN to ELSE jobs[i]
  BY DEF ShiftedJobs
<1> HIDE DEF after
<1>2. Number(after, u, c) = Number(jobs, u, c) + Cardinality(Won) - Cardinality(Lost)
  BY Recount
<1>3. Number(jobs, u, c) \in Nat /\ Cardinality(A) \in Nat /\ Cardinality(B) \in Nat
  BY NumberType, JobsFinite
<1>4. Cardinality(B) = Number(jobs, t, c)
  BY DEF Number
<1>5. CASE u # t
  <2>1. Won = {} /\ Lost = {}
    BY <1>1, <1>5
  <2> HIDE DEF Won, Lost, A, B
  <2>2. Number(after, u, c) = Number(jobs, u, c) + 0
    BY <1>2, <1>3, <2>1, FS_EmptySet
  <2> QED BY <1>5, <2>2 DEF after
<1>6. CASE u = t /\ c = to
  <2>1. Won = A /\ Lost = {}
    BY <1>1, <1>6
  <2> HIDE DEF Won, Lost
  <2>2. Number(after, u, c) = Number(jobs, u, c) + Cardinality(A)
    BY <1>2, <1>3, <2>1, FS_EmptySet
  <2> QED BY <1>6, <2>2 DEF after, ShiftDelta
<1>7. CASE u = t /\ c # to /\ c \in from
  <2>1. Won = {} /\ Lost = B
    BY <1>1, <1>7
  <2> HIDE DEF Won, Lost, A, B
  <2>2. Number(after, u, c) = Number(jobs, u, c) - Cardinality(B)
    BY <1>2, <1>3, <2>1, FS_EmptySet
  <2>3. Number(after, u, c) = Number(jobs, u, c) + (-Cardinality(B))
    BY <1>3, <2>2
  <2> QED BY <1>4, <1>7, <2>3 DEF after, ShiftDelta
<1>8. CASE u = t /\ c # to /\ c \notin from
  <2>1. Won = {} /\ Lost = {}
    BY <1>1, <1>8
  <2> HIDE DEF Won, Lost
  <2> QED BY <1>2, <1>3, <1>8, <2>1, FS_EmptySet DEF after, ShiftDelta
<1> QED BY <1>5, <1>6, <1>7, <1>8

\* What Shift asks of the store
LEMMA ShiftFacts ==
    ASSUME NEW k, k \in Kind, NEW s \in StoreType, NEW t \in Task,
           NEW from, from \in SUBSET JobStatus, from # {},
           NEW to, to \in JobStatus \cup {"NONE"}, to \notin from
    PROVE  /\ Shift(k, s, t, from, to).jobs = ShiftedJobs(s.jobs, t, from, to)
           /\ Shift(k, s, t, from, to).incr =
                 [c \in (from \cup {to}) \ {"NONE"} |-> ShiftDelta(s.jobs, t, from, to, c)]
<1> DEFINE M(sts) == Matched(k, [Of(t) EXCEPT !.statuses = sts], s.jobs)
<1>0. "NONE" \notin JobStatus
  BY DEF JobStatus, Counted
<1>1. \A sts : sts \in SUBSET JobStatus /\ sts # {} =>
         M(sts) = {j \in StoreJob : TaskOf[j] = t /\ s.jobs[j] \in sts}
  BY <1>0, TaskFilter
<1>2. M(from) = {j \in StoreJob : TaskOf[j] = t /\ s.jobs[j] \in from}
  BY <1>1
<1>3. ASSUME NEW c \in from
      PROVE  Cardinality(M({c})) = Number(s.jobs, t, c)
  <2>1. M({c}) = {j \in StoreJob : TaskOf[j] = t /\ s.jobs[j] \in {c}}
    BY <1>1
  <2>2. M({c}) = {j \in StoreJob : TaskOf[j] = t /\ s.jobs[j] = c}
    BY <2>1
  <2> HIDE DEF M
  <2> QED BY <2>2 DEF Number
<1>4. Shift(k, s, t, from, to).jobs = ShiftedJobs(s.jobs, t, from, to)
  <2>1. Shift(k, s, t, from, to).jobs = [j \in StoreJob |-> IF j \in M(from) THEN to ELSE s.jobs[j]]
    BY DEF Shift, UpdateJob
  <2> HIDE DEF M
  <2> QED BY <1>2, <2>1 DEF ShiftedJobs
<1>5. Shift(k, s, t, from, to).incr =
        [c \in (from \cup {to}) \ {"NONE"} |-> IF c = to THEN Cardinality(M(from))
                                              ELSE -Cardinality(M({c}))]
  BY DEF Shift
<1> HIDE DEF M
<1>6. ASSUME NEW c, c \in (from \cup {to}) \ {"NONE"}
      PROVE  (IF c = to THEN Cardinality(M(from)) ELSE -Cardinality(M({c})))
                = ShiftDelta(s.jobs, t, from, to, c)
  BY <1>2, <1>3, <1>6 DEF ShiftDelta
<1> QED BY <1>4, <1>5, <1>6

(***************************************************************************)
(* The loading flag is set, the map during applied, the jobs moved, the    *)
(* flag lifted and the moves counted.                                      *)
(***************************************************************************)
ShiftedTo(k, s, t, from, to, E, during, z) ==
    /\ z \in StoreType /\ z.jobs = ShiftedJobs(s.jobs, t, from, to) /\ z.second = s.second
    /\ \A u \in Task : u # t => z.rows[u] = s.rows[u]
    /\ z.rows[t] # Null
    /\ HasHold(k) =>
          (Held(z.rows[t]) <=> IF "is_hold" \in E THEN during["is_hold"] ELSE Held(s.rows[t]))
    /\ \A u \in Task, cols \in SUBSET Columns(k) : Exact(s, u, cols) => Exact(z, u, cols)

\* An operation of the dashboard on all jobs of a task, on one store
LEMMA ShiftedEffect ==
    ASSUME NEW k, k \in Kind, NEW s \in StoreType, NEW t \in Task,
           NEW from, from \in SUBSET JobStatus, from # {},
           NEW to, to \in JobStatus \cup {"NONE"}, to \notin from,
           NEW E, E \in SUBSET Flag, NEW during, during \in [E -> BOOLEAN],
           NEW z, z = Shifted(k, s, t, from, to, during)
    PROVE  ShiftedTo(k, s, t, from, to, E, during, z)
<1> DEFINE row == s.rows[t]
           on == Loading(TRUE)
           off == Loading(FALSE)
           a == UpdateSummary(k, row, NoCounts, on)
           b == UpdateSummary(k, a, NoCounts, during)
           c == UpdateSummary(k, b, NoCounts, off)
           D == (from \cup {to}) \ {"NONE"}
           incr == [st \in D |-> ShiftDelta(s.jobs, t, from, to, st)]
           r == IncrementSummary(k, c, incr)
           L == {"is_loading", "loading_message"}
           N == {}
<1>1. /\ s.jobs \in JobTable /\ s.rows \in [Task -> LoadedRow \cup {Null}]
      /\ s.second \in JobTable /\ s = [jobs |-> s.jobs, rows |-> s.rows, second |-> s.second]
  BY DEF StoreType
<1>2. /\ NoCounts \in [N -> Int] /\ N \in SUBSET JobStatus /\ on \in [L -> BOOLEAN]
      /\ off \in [L -> BOOLEAN] /\ L \in SUBSET Flag
      /\ {"is_loading", "loading_message"} \subseteq L
      /\ "is_hold" \notin L
  BY Maps DEF Flag, Loading, Flags
<1>3. row \in LoadedRow \cup {Null}
  BY <1>1
<1>4. D \in SUBSET JobStatus /\ D # {} /\ incr \in [D -> Int]
  BY ShiftDeltaType DEF JobStatus, Counted
<1>5. z = [s EXCEPT !.jobs = ShiftedJobs(s.jobs, t, from, to), !.rows[t] = r]
  <2> DEFINE S == Shift(k, s, t, from, to)
  <2>0. /\ Shift(k, s, t, from, to).jobs = ShiftedJobs(s.jobs, t, from, to)
        /\ Shift(k, s, t, from, to).incr =
              [st \in (from \cup {to}) \ {"NONE"} |-> ShiftDelta(s.jobs, t, from, to, st)]
    <3> HIDE DEF S, a, b, c, r, row, incr, D, L, N, on, off
    <3> QED BY ShiftFacts
  <2>1. S.jobs = ShiftedJobs(s.jobs, t, from, to) /\ S.incr = incr
    BY <2>0
  <2>2. z = [s EXCEPT !.jobs = S.jobs, !.rows[t] = IncrementSummary(k, c, S.incr)]
    BY DEF Shifted
  <2> HIDE DEF S, c, incr
  <2> QED BY <2>1, <2>2
<1> HIDE DEF L, N, on, off, a, b, c, r, D, incr, row
<1>6. /\ a = UpdateSummary(k, row, NoCounts, on) /\ b = UpdateSummary(k, a, NoCounts, during)
      /\ c = UpdateSummary(k, b, NoCounts, off) /\ r = IncrementSummary(k, c, incr)
  BY DEF a, b, c, r
<1>7. Updated(k, row, N, NoCounts, L, on, a)
  BY <1>2, <1>3, <1>6, UpdatedSummary
<1>8. Updated(k, a, N, NoCounts, E, during, b)
  <2>1. a \in LoadedRow \cup {Null} /\ a # Null
    BY <1>7 DEF Updated
  <2> QED BY <1>2, <1>6, <2>1, UpdatedSummary
<1>9. Updated(k, b, N, NoCounts, L, off, c)
  <2>1. b \in LoadedRow \cup {Null} /\ b # Null
    BY <1>8 DEF Updated
  <2> QED BY <1>2, <1>6, <2>1, UpdatedSummary
<1>10. Incremented(k, c, D, incr, r) /\ c # Null
  <2>1. c \in LoadedRow \cup {Null} /\ c # Null
    BY <1>9 DEF Updated
  <2> QED BY <1>4, <1>6, <2>1, IncrementedRow
<1>11. r \in LoadedRow /\ r # Null
  BY <1>10 DEF Incremented
<1>12. HasHold(k) => (Held(r) <=> IF "is_hold" \in E THEN during["is_hold"] ELSE Held(row))
  <2>1. Held(r) <=> Held(c)
    BY <1>10 DEF Incremented
  <2>2. HasHold(k) => (Held(c) <=> Held(b))
    BY <1>2, <1>9 DEF Updated
  <2>3. HasHold(k) => (Held(b) <=> IF "is_hold" \in E THEN during["is_hold"] ELSE Held(a))
    BY <1>8 DEF Updated
  <2>4. HasHold(k) => (Held(a) <=> Held(row))
    BY <1>2, <1>7 DEF Updated
  <2> QED BY <2>1, <2>2, <2>3, <2>4
<1>13. ASSUME row # Null, NEW st \in Columns(k), row.count[st] \in Int
       PROVE  r.count[st] = row.count[st] + (IF st \in D THEN incr[st] ELSE 0)
  <2>1. st \notin N
    BY DEF N
  <2>2. a.count[st] = row.count[st] /\ a # Null
    BY <1>7, <1>13, <2>1 DEF Updated
  <2>3. b.count[st] = a.count[st] /\ b # Null
    BY <1>8, <2>1, <2>2 DEF Updated
  <2>4. c.count[st] = b.count[st]
    BY <1>9, <2>1, <2>3 DEF Updated
  <2> QED BY <1>10, <1>13, <2>2, <2>3, <2>4 DEF Incremented
<1>14. /\ z = [jobs |-> ShiftedJobs(s.jobs, t, from, to), rows |-> [s.rows EXCEPT ![t] = r],
               second |-> s.second]
  BY <1>1, <1>5
<1>15. /\ z.jobs = ShiftedJobs(s.jobs, t, from, to) /\ z.rows = [s.rows EXCEPT ![t] = r]
       /\ z.second = s.second
  BY <1>14
<1>16. z \in StoreType
  <2>1. z.jobs \in JobTable
    BY <1>1, <1>15 DEF ShiftedJobs, JobTable
  <2>2. z.rows \in [Task -> LoadedRow \cup {Null}]
    BY <1>1, <1>11, <1>15
  <2> QED BY <1>1, <1>14, <1>15, <2>1, <2>2 DEF StoreType
<1>17. z.rows[t] = r /\ \A u \in Task : u # t => z.rows[u] = s.rows[u]
  BY <1>1, <1>15
<1>18. ASSUME NEW u \in Task, NEW cols \in SUBSET Columns(k), Exact(s, u, cols)
       PROVE  Exact(z, u, cols)
  <2>1. z.rows[u] # Null
    BY <1>11, <1>17, <1>18 DEF Exact
  <2>2. ASSUME NEW st \in cols
        PROVE  z.rows[u].count[st] = Number(z.jobs, u, st)
    <3> DEFINE d == ShiftDelta(s.jobs, t, from, to, st)
    <3>1. s.rows[u].count[st] = Number(s.jobs, u, st) /\ s.rows[u].count[st] \in Int
      BY <1>18, ExactIsInt DEF Exact
    <3>2. Number(z.jobs, u, st) = Number(s.jobs, u, st) + IF u = t THEN d ELSE 0
      BY <1>1, <1>15, JobsShift
    <3>3. CASE u # t
      BY <1>17, <3>1, <3>2, <3>3
    <3>4. CASE u = t
      <4>1. (IF st \in D THEN incr[st] ELSE 0) = d
        <5>1. st \in JobStatus
          BY DEF Columns, JobStatus
        <5>2. CASE st \in D
          BY <5>2 DEF incr
        <5>3. CASE st \notin D
          BY <5>1, <5>3 DEF D, ShiftDelta, JobStatus, Counted
        <5> QED BY <5>2, <5>3
      <4>2. r.count[st] = s.rows[u].count[st] + d
        BY <1>13, <1>18, <3>1, <3>4, <4>1 DEF row, Exact
      <4> HIDE DEF d
      <4> QED BY <1>17, <3>1, <3>2, <3>4, <4>2
    <3> QED BY <3>3, <3>4
  <2> QED BY <2>1, <2>2 DEF Exact
<1> QED BY <1>11, <1>12, <1>15, <1>16, <1>17, <1>18 DEF ShiftedTo, row

(***************************************************************************)
(* A step that adds no job, removes only jobs it reports, and keeps the    *)
(* counters right and the SQL and the Mongo store alike.                   *)
(***************************************************************************)
TableActed ==
    /\ Bounded /\ UNCHANGED <<tasks, accepted, restored, refused>>
    /\ \A k \in Kind :
          /\ store'[k] \in StoreType /\ store'[k].second = store[k].second
          /\ \A i \in StoreJob :
                /\ store'[k].jobs[i] # "NONE" => store[k].jobs[i] # "NONE"
                /\ store'[k].jobs[i] = "NONE" => store[k].jobs[i] = "NONE" \/ i \in removed'
          /\ \A t \in tasks : Exact(store'[k], t, ExactColumns(k, t)')

\* The SQL and the Mongo store after the step, as far as task t goes
AlikeAfter(t) ==
    /\ \A i \in StoreJob : TaskOf[i] = t => store'["sql"].jobs[i] = store'["mongo"].jobs[i]
    /\ store'["sql"].rows[t] = Null <=> store'["mongo"].rows[t] = Null
    /\ Held(store'["sql"].rows[t]) <=> Held(store'["mongo"].rows[t])

\* Such a step keeps the invariant.
LEMMA TableAction ==
    ASSUME StoreInv, store' = [k \in Kind |-> store'[k]], TableActed, drifted' \in SUBSET Task,
           removed' \in SUBSET StoreJob, removed \subseteq removed',
           \A t \in Task : ~Restored(t) => AlikeAfter(t)
    PROVE  StoreInv'
<1>0. /\ tasks' = tasks /\ restored' = restored /\ refused' = refused /\ accepted' = accepted
  BY DEF TableActed
<1>1. StoreTypeOK'
  <2>1. store' \in [Kind -> StoreType]
    BY DEF TableActed
  <2>2. ops' \in 0..MaxStoreOps
    BY OpsBounded DEF TableActed
  <2> QED BY <1>0, <2>1, <2>2 DEF StoreInv, StoreTypeOK
<1>2. \A k \in Kind : Placed(store[k])'
  <2> SUFFICES ASSUME NEW k \in Kind, NEW i \in StoreJob
               PROVE  /\ store'[k].jobs[i] = "NONE" \/ store'[k].second[i] = "NONE"
                      /\ i \notin accepted' =>
                            store'[k].jobs[i] = "NONE" /\ store'[k].second[i] = "NONE"
    BY DEF Placed
  <2>1. /\ store[k].jobs[i] = "NONE" \/ store[k].second[i] = "NONE"
        /\ i \notin accepted => store[k].jobs[i] = "NONE" /\ store[k].second[i] = "NONE"
    BY DEF StoreInv, Placed
  <2> QED BY <1>0, <2>1 DEF TableActed
<1>3. AcceptedIsStored'
  <2> SUFFICES ASSUME NEW k \in Kind, NEW i, i \in accepted' \ (removed' \cup refused')
               PROVE  \/ store'[k].jobs[i] # "NONE"
                      \/ store'[k].second[i] # "NONE"
                      \/ k = "sql" /\ i \in restored'
    BY DEF AcceptedIsStored
  <2>1. \/ store[k].jobs[i] # "NONE" \/ store[k].second[i] # "NONE"
        \/ k = "sql" /\ i \in restored
    BY <1>0 DEF StoreInv, AcceptedIsStored
  <2>2. i \in StoreJob
    BY <1>0 DEF StoreInv, StoreTypeOK
  <2> QED BY <1>0, <2>1, <2>2 DEF TableActed
<1>4. \A t \in Task : Alike(t)'
  <2> SUFFICES ASSUME NEW t \in Task, ~Restored(t)
               PROVE  Alike(t)'
    BY <1>0 DEF Alike, Restored
  <2>1. t \notin tasks => \A k \in Kind, i \in StoreJob :
                             TaskOf[i] = t => store'[k].jobs[i] = "NONE"
    <3>1. t \notin tasks => \A k \in Kind, i \in StoreJob :
                               TaskOf[i] = t => store[k].jobs[i] = "NONE"
      BY DEF StoreInv, Alike
    <3> QED BY <3>1 DEF TableActed
  <2> QED BY <1>0, <2>1 DEF Alike, AlikeAfter
<1>5. \A k \in Kind, t \in tasks' : Exact(store[k], t, ExactColumns(k, t))'
  BY <1>0 DEF Exact, TableActed
<1> QED BY <1>1, <1>2, <1>3, <1>4, <1>5 DEF StoreInv

\* The columns that are exact do not change while restored and drifted do not.
LEMMA SameColumns ==
    ASSUME NEW k, NEW t, UNCHANGED <<restored, drifted>>
    PROVE  ExactColumns(k, t)' = ExactColumns(k, t) /\ ExactColumns(k, t) \in SUBSET Columns(k)
BY DEF ExactColumns, Restored

(***************************************************************************)
(* StopAllJob, RetryAllJob and CleanJob of the dashboard                   *)
(***************************************************************************)
LEMMA ShiftStep ==
    ASSUME StoreInv, NEW t \in Task, NEW from, from \in SUBSET JobStatus, from # {},
           NEW to, to \in JobStatus \cup {"NONE"}, to \notin from,
           NEW E, E \in SUBSET Flag, NEW during, during \in [E -> BOOLEAN],
           store' = [k \in Kind |-> Shifted(k, store[k], t, from, to, during)],
           Bounded, UNCHANGED <<tasks, accepted, restored, refused, drifted>>,
           removed' \in SUBSET StoreJob, removed \subseteq removed',
           \/ to \in JobStatus
           \/ \A k \in Kind, j \in StoreJob :
                 TaskOf[j] = t /\ store[k].jobs[j] \in from => j \in removed'
    PROVE  StoreInv'
<1>1. ASSUME NEW k \in Kind
      PROVE  ShiftedTo(k, store[k], t, from, to, E, during, store'[k])
  <2> DEFINE s == store[k]
             z == store'[k]
  <2>1. s \in StoreType /\ z = Shifted(k, s, t, from, to, during)
    BY KindFacts
  <2> HIDE DEF s, z
  <2>2. ShiftedTo(k, s, t, from, to, E, during, z)
    BY <2>1, ShiftedEffect
  <2> QED BY <2>2 DEF s, z
<1>2. \A k \in Kind, i \in StoreJob :
         store'[k].jobs[i] = IF TaskOf[i] = t /\ store[k].jobs[i] \in from THEN to
                             ELSE store[k].jobs[i]
  <2>1. \A k \in Kind : store'[k].jobs = ShiftedJobs(store[k].jobs, t, from, to)
    BY <1>1 DEF ShiftedTo
  <2> QED BY <2>1 DEF ShiftedJobs
<1>3. TableActed
  <2>1. ASSUME NEW k \in Kind, NEW i \in StoreJob
        PROVE  /\ store'[k].jobs[i] # "NONE" => store[k].jobs[i] # "NONE"
               /\ store'[k].jobs[i] = "NONE" => store[k].jobs[i] = "NONE" \/ i \in removed'
    BY <1>2, KindFacts
  <2>2. ASSUME NEW k \in Kind, NEW u \in tasks
        PROVE  Exact(store'[k], u, ExactColumns(k, u)')
    <3>1. ExactColumns(k, u)' = ExactColumns(k, u) /\ ExactColumns(k, u) \in SUBSET Columns(k)
      BY SameColumns
    <3>2. Exact(store[k], u, ExactColumns(k, u)) /\ u \in Task
      BY KindFacts DEF StoreInv
    <3> QED BY <1>1, <3>1, <3>2 DEF ShiftedTo
  <2> QED BY <1>1, <2>1, <2>2 DEF TableActed, ShiftedTo
<1>4. ASSUME NEW u \in Task, ~Restored(u)
      PROVE  AlikeAfter(u)
  <2>0. ShiftedTo("sql", store["sql"], t, from, to, E, during, store'["sql"])
        /\ ShiftedTo("mongo", store["mongo"], t, from, to, E, during, store'["mongo"])
        /\ HasHold("sql") /\ HasHold("mongo")
    BY <1>1, KindFacts DEF HasHold
  <2>1. /\ \A i \in StoreJob : TaskOf[i] = u => store["sql"].jobs[i] = store["mongo"].jobs[i]
        /\ store["sql"].rows[u] = Null <=> store["mongo"].rows[u] = Null
        /\ Held(store["sql"].rows[u]) <=> Held(store["mongo"].rows[u])
    BY <1>4 DEF StoreInv, Alike
  <2>2. \A i \in StoreJob : TaskOf[i] = u => store'["sql"].jobs[i] = store'["mongo"].jobs[i]
    BY <1>2, <2>1, KindFacts
  <2>3. CASE u # t
    BY <2>0, <2>1, <2>2, <2>3 DEF ShiftedTo, AlikeAfter
  <2>4. CASE u = t
    BY <2>0, <2>1, <2>2, <2>4 DEF ShiftedTo, AlikeAfter
  <2> QED BY <2>3, <2>4
<1>5. drifted' \in SUBSET Task /\ store' = [k \in Kind |-> store'[k]]
  BY DEF StoreInv, StoreTypeOK
<1> QED BY <1>3, <1>4, <1>5, TableAction

\* StopAllJob, RetryAllJob and CleanJob are shifts.
LEMMA ShiftSteps ==
    ASSUME StoreInv, NEW t \in Task,
           \/ StopAllJob(t) \/ RetryAllJob(t)
           \/ \E sts \in {{"FAILURE", "STOPPED"}, {"SUCCESS"}} : CleanJobs(t, sts)
    PROVE  StoreInv'
<1>0. removed \in SUBSET StoreJob /\ "NONE" \notin JobStatus
  BY KindFacts DEF StoreInv, StoreTypeOK
<1>1. CASE StopAllJob(t)
  <2> DEFINE from == {"QUEUEING", "RETRYING"}
             to == "STOPPED"
             E == {"is_hold"}
             during == Flags(E, FALSE)
  <2>1. /\ from \in SUBSET JobStatus /\ from # {} /\ to \in JobStatus \cup {"NONE"}
        /\ to \notin from /\ E \in SUBSET Flag /\ to \in JobStatus
    BY DEF JobStatus, Counted, Flag
  <2>2. during \in [E -> BOOLEAN]
    BY DEF Flags
  <2>3. /\ store' = [k \in Kind |-> Shifted(k, store[k], t, from, to, during)]
        /\ Bounded /\ UNCHANGED <<tasks, accepted, removed, restored, refused, drifted>>
    BY <1>1 DEF StopAllJob, Running, history
  <2>4. removed' \in SUBSET StoreJob /\ removed \subseteq removed'
    BY <1>0, <2>3
  <2> HIDE DEF from, to, E, during
  <2> QED BY <2>1, <2>2, <2>3, <2>4, ShiftStep
<1>2. CASE RetryAllJob(t)
  <2> DEFINE from == {"FAILURE", "STOPPED"}
             to == "QUEUEING"
             E == {"is_loading", "loading_message"}
             during == Loading(TRUE)
  <2>1. /\ from \in SUBSET JobStatus /\ from # {} /\ to \in JobStatus \cup {"NONE"}
        /\ to \notin from /\ E \in SUBSET Flag /\ to \in JobStatus
    BY DEF JobStatus, Counted, Flag
  <2>2. during \in [E -> BOOLEAN]
    BY DEF Flags, Loading
  <2>3. /\ store' = [k \in Kind |-> Shifted(k, store[k], t, from, to, during)]
        /\ Bounded /\ UNCHANGED <<tasks, accepted, removed, restored, refused, drifted>>
    BY <1>2 DEF RetryAllJob, Running, history
  <2>4. removed' \in SUBSET StoreJob /\ removed \subseteq removed'
    BY <1>0, <2>3
  <2> HIDE DEF from, to, E, during
  <2> QED BY <2>1, <2>2, <2>3, <2>4, ShiftStep
<1>3. ASSUME NEW from, from \in {{"FAILURE", "STOPPED"}, {"SUCCESS"}}, CleanJobs(t, from)
      PROVE  StoreInv'
  <2> DEFINE to == "NONE"
             E == {"is_loading", "loading_message"}
             during == Loading(TRUE)
  <2>1. /\ from \in SUBSET JobStatus /\ from # {} /\ to \in JobStatus \cup {"NONE"}
        /\ to \notin from /\ E \in SUBSET Flag
    BY <1>3 DEF JobStatus, Counted, Flag
  <2>2. during \in [E -> BOOLEAN]
    BY DEF Flags, Loading
  <2>3. /\ store' = [k \in Kind |-> Shifted(k, store[k], t, from, to, during)]
        /\ Bounded /\ UNCHANGED <<tasks, accepted, restored, refused, drifted>>
        /\ removed' = removed \cup {j \in StoreJob : \E k \in Kind :
                         Matches([Of(t) EXCEPT !.statuses = from], store[k].jobs, j)}
    BY <1>3 DEF CleanJobs, Running
  <2>4. \A k \in Kind, j \in StoreJob :
           TaskOf[j] = t /\ store[k].jobs[j] \in from => j \in removed'
    <3> SUFFICES ASSUME NEW k \in Kind, NEW j \in StoreJob, TaskOf[j] = t, store[k].jobs[j] \in from
                 PROVE  Matches([Of(t) EXCEPT !.statuses = from], store[k].jobs, j)
      BY <2>3
    <3> DEFINE jobs == store[k].jobs
    <3>1. jobs[j] \in from
      OBVIOUS
    <3> HIDE DEF jobs
    <3>2. Matches([Of(t) EXCEPT !.statuses = from], jobs, j)
      BY <2>1, <3>1, TaskFilter
    <3> QED BY <3>2 DEF jobs
  <2>5. removed' \in SUBSET StoreJob /\ removed \subseteq removed'
    BY <1>0, <2>3
  <2> HIDE DEF to, E, during
  <2>6. UNCHANGED <<tasks, accepted, restored, refused, drifted>> /\ Bounded
    BY <2>3
  <2>7. store' = [k \in Kind |-> Shifted(k, store[k], t, from, to, during)]
    BY <2>3
  <2>8. \/ to \in JobStatus
        \/ \A k \in Kind, j \in StoreJob :
              TaskOf[j] = t /\ store[k].jobs[j] \in from => j \in removed'
    BY <2>4
  <2> QED BY <2>1, <2>2, <2>5, <2>6, <2>7, <2>8, ShiftStep
<1> QED BY <1>1, <1>2, <1>3

(***************************************************************************)
(* HoldJobTask on one store                                                *)
(***************************************************************************)
FlippedTo(k, s, t, z) ==
    /\ z \in StoreType /\ z.second = s.second
    /\ z.jobs = s.jobs \/ z.jobs = ShiftedJobs(s.jobs, t, {"HOLD"}, "QUEUEING")
    /\ \A u \in Task : u # t => z.rows[u] = s.rows[u]
    /\ s.rows[t] = Null => z = s
    /\ HasHold(k) /\ s.rows[t] # Null =>
          /\ z.rows[t] # Null /\ (Held(z.rows[t]) <=> ~Held(s.rows[t]))
          /\ z.jobs = IF Held(s.rows[t]) THEN ShiftedJobs(s.jobs, t, {"HOLD"}, "QUEUEING")
                      ELSE s.jobs
    /\ \A u \in Task, cols \in SUBSET Columns(k) : Exact(s, u, cols) => Exact(z, u, cols)

\* HoldJobTask on one store
LEMMA FlippedEffect ==
    ASSUME NEW k, k \in Kind, NEW s \in StoreType, NEW t \in Task,
           NEW z, z = Flipped(k, s, t)
    PROVE  FlippedTo(k, s, t, z)
<1> DEFINE row == s.rows[t]
           d == FindDetailSummary(k, row, t)
           E == {"is_hold", "loading_message"}
           flags == Flags(E, ~d.hold)
           r == UpdateSummary(k, row, NoCounts, flags)
           flip == [s EXCEPT !.rows[t] = r]
           N == {}
<1>1. /\ s.jobs \in JobTable /\ s.rows \in [Task -> LoadedRow \cup {Null}]
      /\ s.second \in JobTable /\ s = [jobs |-> s.jobs, rows |-> s.rows, second |-> s.second]
  BY DEF StoreType
<1>2. row \in LoadedRow \cup {Null}
  BY <1>1
<1>3. /\ d.hold \in BOOLEAN /\ (d.hold <=> Held(row)) /\ (d.found => row # Null)
      /\ (HasHold(k) /\ row # Null => d.found)
  <2>1. row # Null => row.loading # Null
    BY <1>2, StoreAssumption DEF LoadedRow
  <2> QED BY <2>1 DEF FindDetailSummary, Held, HasHold
<1>4. z = IF ~d.found THEN s
          ELSE IF ~d.hold THEN flip ELSE Shifted(k, flip, t, {"HOLD"}, "QUEUEING", Message)
  BY DEF Flipped
<1>5. /\ NoCounts \in [N -> Int] /\ N \in SUBSET JobStatus /\ E \in SUBSET Flag /\ "is_hold" \in E
  BY DEF NoCounts, Flag
<1>6. flags \in [E -> BOOLEAN] /\ flags["is_hold"] = ~d.hold
  BY <1>3 DEF Flags
<1>7. CASE ~d.found
  BY <1>3, <1>4, <1>7 DEF FlippedTo
<1>8. CASE d.found
  <2> HIDE DEF row, flags, r, N, E, d
  <2>1. Updated(k, row, N, NoCounts, E, flags, r) /\ row # Null
    <3>1. r = UpdateSummary(k, row, NoCounts, flags) /\ row # Null
      BY <1>3, <1>8 DEF r
    <3> QED BY <1>2, <1>5, <1>6, <3>1, UpdatedSummary
  <2>2. /\ flip = [jobs |-> s.jobs, rows |-> [s.rows EXCEPT ![t] = r], second |-> s.second]
    BY <1>1
  <2>3. r \in LoadedRow /\ r # Null /\ (HasHold(k) => (Held(r) <=> ~Held(row)))
        /\ \A st \in Columns(k) : r.count[st] = row.count[st]
    <3>1. \A st \in Columns(k) : st \notin N
      BY DEF N
    <3> QED BY <1>3, <1>5, <1>6, <2>1, <3>1 DEF Updated
  <2>4. /\ flip \in StoreType /\ flip.jobs = s.jobs /\ flip.second = s.second
        /\ flip.rows = [s.rows EXCEPT ![t] = r]
    BY <1>1, <2>2, <2>3 DEF StoreType
  <2> HIDE DEF flip
  <2>5. flip.rows[t] = r /\ \A u \in Task : u # t => flip.rows[u] = s.rows[u]
    BY <1>1, <2>4
  <2>6. \A u \in Task, cols \in SUBSET Columns(k) : Exact(s, u, cols) => Exact(flip, u, cols)
    BY <2>3, <2>4, <2>5 DEF Exact, row
  <2>7. CASE ~d.hold
    <3>1. z = flip
      BY <1>4, <1>8, <2>7
    <3> QED BY <1>3, <2>1, <2>3, <2>4, <2>5, <2>6, <2>7, <3>1 DEF FlippedTo, row
  <2>8. CASE d.hold
    <3> DEFINE from == {"HOLD"}
               to == "QUEUEING"
               F == {"loading_message"}
    <3>1. /\ from \in SUBSET JobStatus /\ from # {} /\ to \in JobStatus \cup {"NONE"}
          /\ to \notin from /\ F \in SUBSET Flag /\ "is_hold" \notin F
      BY DEF JobStatus, Counted, Flag
    <3>2. Message \in [F -> BOOLEAN]
      BY DEF Message, Flags
    <3>3. z = Shifted(k, flip, t, from, to, Message)
      BY <1>4, <1>8, <2>8
    <3>4. ShiftedTo(k, flip, t, from, to, F, Message, z)
      <4> HIDE DEF from, to, F
      <4> QED BY <2>4, <3>1, <3>2, <3>3, ShiftedEffect
    <3>5. /\ z \in StoreType /\ z.second = s.second
          /\ z.jobs = ShiftedJobs(s.jobs, t, {"HOLD"}, "QUEUEING")
          /\ z.rows[t] # Null /\ \A u \in Task : u # t => z.rows[u] = s.rows[u]
      BY <2>4, <2>5, <3>4 DEF ShiftedTo
    <3>6. HasHold(k) => (Held(z.rows[t]) <=> ~Held(row))
      BY <2>3, <2>5, <3>1, <3>4 DEF ShiftedTo
    <3>7. \A u \in Task, cols \in SUBSET Columns(k) : Exact(s, u, cols) => Exact(z, u, cols)
      BY <2>6, <3>4 DEF ShiftedTo
    <3> QED BY <1>3, <2>1, <2>8, <3>5, <3>6, <3>7 DEF FlippedTo, row
  <2> QED BY <2>7, <2>8, <1>3
<1> QED BY <1>7, <1>8

\* HoldJobTask turns the hold over in the SQL and the Mongo store alike.
LEMMA HoldJobTaskStep ==
    ASSUME StoreInv, NEW t \in Task, HoldJobTask(t)
    PROVE  StoreInv'
<1>0. \A jobs : \A i \in StoreJob : ShiftedJobs(jobs, t, {"HOLD"}, "QUEUEING")[i] =
                   IF TaskOf[i] = t /\ jobs[i] = "HOLD" THEN "QUEUEING" ELSE jobs[i]
  BY DEF ShiftedJobs
<1>1. /\ store' = [k \in Kind |-> Flipped(k, store[k], t)]
      /\ Bounded /\ UNCHANGED <<tasks, accepted, removed, restored, refused, drifted>>
  BY DEF HoldJobTask, Running, history
<1>2. ASSUME NEW k \in Kind
      PROVE  FlippedTo(k, store[k], t, store'[k])
  <2> DEFINE s == store[k]
             z == store'[k]
  <2>1. s \in StoreType /\ z = Flipped(k, s, t)
    BY <1>1, KindFacts
  <2> HIDE DEF s, z
  <2>2. FlippedTo(k, s, t, z)
    BY <2>1, FlippedEffect
  <2> QED BY <2>2 DEF s, z
<1>3. TableActed
  <2>1. ASSUME NEW k \in Kind, NEW i \in StoreJob
        PROVE  /\ store'[k].jobs[i] # "NONE" => store[k].jobs[i] # "NONE"
               /\ store'[k].jobs[i] = "NONE" => store[k].jobs[i] = "NONE" \/ i \in removed'
    <3> DEFINE p == store'[k].jobs
               q == store[k].jobs
               after == ShiftedJobs(q, t, {"HOLD"}, "QUEUEING")
    <3>1. p = q \/ p = after
      BY <1>2 DEF FlippedTo
    <3> HIDE DEF p, q
    <3>2. after[i] = IF TaskOf[i] = t /\ q[i] = "HOLD" THEN "QUEUEING" ELSE q[i]
      BY <1>0
    <3> HIDE DEF after
    <3>3. (p[i] # "NONE" => q[i] # "NONE") /\ (p[i] = "NONE" => q[i] = "NONE" \/ i \in removed')
      BY <3>1, <3>2
    <3> QED BY <3>3 DEF p, q
  <2>2. ASSUME NEW k \in Kind, NEW u \in tasks
        PROVE  Exact(store'[k], u, ExactColumns(k, u)')
    <3>1. ExactColumns(k, u)' = ExactColumns(k, u) /\ ExactColumns(k, u) \in SUBSET Columns(k)
      BY <1>1, SameColumns
    <3>2. Exact(store[k], u, ExactColumns(k, u)) /\ u \in Task
      BY KindFacts DEF StoreInv
    <3> QED BY <1>2, <3>1, <3>2 DEF FlippedTo
  <2> QED BY <1>1, <1>2, <2>1, <2>2 DEF TableActed, FlippedTo
<1>4. ASSUME NEW u \in Task, ~Restored(u)
      PROVE  AlikeAfter(u)
  <2>0. FlippedTo("sql", store["sql"], t, store'["sql"])
        /\ FlippedTo("mongo", store["mongo"], t, store'["mongo"])
        /\ HasHold("sql") /\ HasHold("mongo")
    BY <1>2, KindFacts DEF HasHold
  <2>1. /\ \A i \in StoreJob : TaskOf[i] = u => store["sql"].jobs[i] = store["mongo"].jobs[i]
        /\ store["sql"].rows[u] = Null <=> store["mongo"].rows[u] = Null
        /\ Held(store["sql"].rows[u]) <=> Held(store["mongo"].rows[u])
    BY <1>4 DEF StoreInv, Alike
  <2>2. CASE u # t
    <3>1. \A k \in Kind, i \in StoreJob : TaskOf[i] = u => store'[k].jobs[i] = store[k].jobs[i]
      <4>1. \A k \in Kind : store'[k].jobs = store[k].jobs
               \/ store'[k].jobs = ShiftedJobs(store[k].jobs, t, {"HOLD"}, "QUEUEING")
        BY <1>2 DEF FlippedTo
      <4> QED BY <1>0, <2>2, <4>1
    <3> QED BY <2>0, <2>1, <2>2, <3>1, KindFacts DEF FlippedTo, AlikeAfter
  <2>3. CASE u = t /\ store["sql"].rows[t] = Null
    BY <2>0, <2>1, <2>3 DEF FlippedTo, AlikeAfter
  <2>4. CASE u = t /\ store["sql"].rows[t] # Null
    <3>1. \A i \in StoreJob : TaskOf[i] = u => store'["sql"].jobs[i] = store'["mongo"].jobs[i]
      BY <2>0, <2>1, <2>4 DEF FlippedTo, ShiftedJobs
    <3> QED BY <2>0, <2>1, <2>4, <3>1 DEF FlippedTo, AlikeAfter
  <2> QED BY <2>2, <2>3, <2>4
<1>5. /\ drifted' \in SUBSET Task /\ store' = [k \in Kind |-> store'[k]]
      /\ removed' \in SUBSET StoreJob /\ removed \subseteq removed'
  BY <1>1 DEF StoreInv, StoreTypeOK
<1> QED BY <1>3, <1>4, <1>5, TableAction

-----------------------------------------------------------------------------
\* The operations on all tasks

\* execInternalTask counts what it removes.
LEMMA RetentionStep ==
    ASSUME StoreInv, NEW cut \in StoreJob, Retention(cut)
    PROVE  StoreInv'
<1> DEFINE G(k) == Gone(k, cut)
           n(k, t) == Cardinality({j \in G(k) : TaskOf[j] = t})
<1>0. tasks \in SUBSET Task
  BY KindFacts
<1>1. /\ store' = [k \in Kind |-> Retained(k, cut)]
      /\ removed' = removed \cup UNION {G(k) : k \in Kind}
      /\ Bounded /\ UNCHANGED <<tasks, accepted, restored, refused, drifted>>
  BY DEF Retention, Running
<1>2. ASSUME NEW k, k \in Kind
      PROVE  G(k) = {j \in StoreJob : /\ TaskOf[j] \in tasks /\ j <= cut
                                      /\ store[k].jobs[j] = "SUCCESS"}
  BY <1>0, <1>2, RetentionFilter
<1> HIDE DEF G
<1>3. \A k \in Kind : G(k) \subseteq StoreJob /\ \A j \in G(k) : store[k].jobs[j] = "SUCCESS"
  BY <1>2
<1>4. \A k \in Kind, t \in Task : n(k, t) \in Nat
  <2> SUFFICES ASSUME NEW k \in Kind, NEW t \in Task
               PROVE  n(k, t) \in Nat
    OBVIOUS
  <2> DEFINE S == {j \in G(k) : TaskOf[j] = t}
  <2>1. S \subseteq StoreJob
    BY <1>3
  <2> HIDE DEF S
  <2>2. Cardinality(S) \in Nat
    BY <2>1, JobsFinite
  <2> QED BY <2>2 DEF S
<1>5. ASSUME NEW k \in Kind
      PROVE  /\ store'[k].jobs = [j \in StoreJob |-> IF j \in G(k) THEN "NONE"
                                                     ELSE store[k].jobs[j]]
             /\ store'[k].rows = [t \in Task |-> IF t \in tasks
                                     THEN IncrementSummary(k, store[k].rows[t],
                                                           One("SUCCESS", -n(k, t)))
                                     ELSE store[k].rows[t]]
             /\ store'[k].second = store[k].second
             /\ store'[k] = [jobs |-> store'[k].jobs, rows |-> store'[k].rows,
                             second |-> store'[k].second]
  <2> DEFINE s == store[k]
  <2>1. s = [jobs |-> s.jobs, rows |-> s.rows, second |-> s.second]
    BY KindFacts DEF StoreType
  <2>2. store'[k] =
          [s EXCEPT !.jobs = [j \in StoreJob |-> IF j \in G(k) THEN "NONE" ELSE s.jobs[j]],
                    !.rows = [t \in Task |-> IF t \in tasks
                                 THEN IncrementSummary(k, s.rows[t], One("SUCCESS", -n(k, t)))
                                 ELSE s.rows[t]]]
    BY <1>1 DEF Retained, G
  <2> HIDE DEF s, n
  <2>3. store'[k] =
          [jobs |-> [j \in StoreJob |-> IF j \in G(k) THEN "NONE" ELSE s.jobs[j]],
           rows |-> [t \in Task |-> IF t \in tasks
                                 THEN IncrementSummary(k, s.rows[t], One("SUCCESS", -n(k, t)))
                                 ELSE s.rows[t]],
           second |-> s.second]
    BY <2>1, <2>2
  <2> QED BY <2>3 DEF s
<1>6. ASSUME NEW k \in Kind, NEW t \in tasks
      PROVE  Incremented(k, store[k].rows[t], {"SUCCESS"}, One("SUCCESS", -n(k, t)),
                         store'[k].rows[t])
  <2> DEFINE D == {"SUCCESS"}
             incr == One("SUCCESS", -n(k, t))
             row == store[k].rows[t]
             r == store'[k].rows[t]
  <2>1. D \in SUBSET JobStatus /\ D # {} /\ incr \in [D -> Int]
    BY <1>0, <1>4 DEF One, JobStatus, Counted
  <2>2. row \in LoadedRow \cup {Null}
    BY <1>0, KindFacts DEF StoreType
  <2>3. r = IncrementSummary(k, row, incr)
    BY <1>0, <1>5
  <2> HIDE DEF D, incr, row, r
  <2>4. Incremented(k, row, D, incr, r)
    BY <2>1, <2>2, <2>3, IncrementedRow
  <2> QED BY <2>4 DEF D, incr, row, r
<1>7. ASSUME NEW k \in Kind
      PROVE  /\ store'[k] \in StoreType
             /\ \A i \in StoreJob :
                   store'[k].jobs[i] = IF i \in G(k) THEN "NONE" ELSE store[k].jobs[i]
             /\ \A t \in Task : t \notin tasks => store'[k].rows[t] = store[k].rows[t]
  <2> DEFINE z == store'[k]
             p == z.jobs
             q == store[k].jobs
             w == z.rows
             v == store[k].rows
  <2>1. /\ q \in JobTable /\ v \in [Task -> LoadedRow \cup {Null}]
        /\ store[k].second \in JobTable
    BY KindFacts DEF StoreType
  <2>2. p = [j \in StoreJob |-> IF j \in G(k) THEN "NONE" ELSE q[j]]
    BY <1>5
  <2>3. w = [t \in Task |-> IF t \in tasks
                 THEN IncrementSummary(k, v[t], One("SUCCESS", -n(k, t))) ELSE v[t]]
    BY <1>5
  <2>4. \A t \in tasks : w[t] \in LoadedRow \cup {Null}
    BY <1>6 DEF Incremented
  <2>5. z.second \in JobTable /\ z = [jobs |-> p, rows |-> w, second |-> z.second]
    BY <1>5, <2>1
  <2> HIDE DEF p, q, w, v, z, n
  <2>6. p \in JobTable /\ \A i \in StoreJob : p[i] = IF i \in G(k) THEN "NONE" ELSE q[i]
    BY <2>1, <2>2 DEF JobTable
  <2>7. \A t \in Task : t \notin tasks => w[t] = v[t]
    BY <2>3
  <2>8. w \in [Task -> LoadedRow \cup {Null}]
    <3>1. \A t \in Task : w[t] \in LoadedRow \cup {Null}
      BY <2>1, <2>4, <2>7
    <3> QED BY <2>3, <3>1
  <2>9. z \in StoreType
    BY <2>5, <2>6, <2>8 DEF StoreType
  <2> QED BY <2>6, <2>7, <2>9 DEF p, q, w, v, z
<1>8. ASSUME NEW k \in Kind, NEW t \in tasks
      PROVE  Exact(store'[k], t, ExactColumns(k, t)')
  <2> DEFINE cols == ExactColumns(k, t)
             jobs == store[k].jobs
             after == store'[k].jobs
             m == n(k, t)
  <2>1. ExactColumns(k, t)' = cols /\ cols \in SUBSET Columns(k)
    BY <1>1, SameColumns
  <2>2. Exact(store[k], t, cols)
    BY DEF StoreInv
  <2>3. store'[k].rows[t] # Null
    BY <1>6, <2>2 DEF Incremented, Exact
  <2>4. ASSUME NEW c \in cols
        PROVE  store'[k].rows[t].count[c] = Number(after, t, c)
    <3> DEFINE Won == {j \in StoreJob : TaskOf[j] = t /\ jobs[j] # c /\ after[j] = c}
               Lost == {j \in StoreJob : TaskOf[j] = t /\ jobs[j] = c /\ after[j] # c}
               e == IF c = "SUCCESS" THEN m ELSE 0
    <3>1. c \in JobStatus /\ c # "NONE"
      BY <2>1 DEF Columns, JobStatus, Counted
    <3>2. /\ Won = {} /\ Lost = IF c = "SUCCESS" THEN {j \in G(k) : TaskOf[j] = t} ELSE {}
      BY <1>3, <1>7, <3>1
    <3>3. Number(after, t, c) = Number(jobs, t, c) + Cardinality(Won) - Cardinality(Lost)
      BY Recount
    <3>4. Cardinality(Won) = 0 /\ Cardinality(Lost) = e
      BY <3>2, FS_EmptySet
    <3>5. e \in Int /\ -e = IF c = "SUCCESS" THEN -m ELSE 0
      BY <1>0, <1>4
    <3>6. Number(jobs, t, c) \in Nat /\ store[k].rows[t].count[c] = Number(jobs, t, c)
      BY <2>2, NumberType DEF Exact
    <3>7. store'[k].rows[t].count[c] = store[k].rows[t].count[c] + (-e)
      <4>1. (IF c \in {"SUCCESS"} THEN One("SUCCESS", -m)[c] ELSE 0) = -e
        BY <3>5 DEF One
      <4> HIDE DEF e, m, cols, n
      <4>2. store[k].rows[t].count[c] \in Int /\ c \in Columns(k) /\ store[k].rows[t] # Null
        BY <2>1, <2>2, <3>6 DEF Exact
      <4> QED BY <1>6, <4>1, <4>2 DEF Incremented, m
    <3> HIDE DEF Won, Lost, e, jobs, after, m
    <3> QED BY <3>3, <3>4, <3>5, <3>6, <3>7
  <2> QED BY <2>1, <2>3, <2>4 DEF Exact
<1>9. TableActed
  <2>1. ASSUME NEW k \in Kind, NEW i \in StoreJob
        PROVE  /\ store'[k].jobs[i] # "NONE" => store[k].jobs[i] # "NONE"
               /\ store'[k].jobs[i] = "NONE" => store[k].jobs[i] = "NONE" \/ i \in removed'
    BY <1>1, <1>3, <1>7
  <2> QED BY <1>1, <1>5, <1>7, <1>8, <2>1 DEF TableActed
<1>10. ASSUME NEW u \in Task, ~Restored(u)
       PROVE  AlikeAfter(u)
  <2>1. /\ \A i \in StoreJob : TaskOf[i] = u => store["sql"].jobs[i] = store["mongo"].jobs[i]
        /\ store["sql"].rows[u] = Null <=> store["mongo"].rows[u] = Null
        /\ Held(store["sql"].rows[u]) <=> Held(store["mongo"].rows[u])
    BY <1>10 DEF StoreInv, Alike
  <2>2. \A i \in StoreJob : TaskOf[i] = u => store'["sql"].jobs[i] = store'["mongo"].jobs[i]
    <3>1. \A i \in StoreJob : TaskOf[i] = u => (i \in G("sql") <=> i \in G("mongo"))
      BY <1>2, <2>1, KindFacts
    <3> QED BY <1>7, <2>1, <3>1, KindFacts
  <2>3. CASE u \notin tasks
    BY <1>7, <2>1, <2>2, <2>3, KindFacts DEF AlikeAfter
  <2>4. CASE u \in tasks
    <3>1. store["sql"].rows[u] # Null /\ store["mongo"].rows[u] # Null
      BY <2>4, KindFacts DEF StoreInv, Exact
    <3>2. \A k \in Kind : store[k].rows[u] # Null =>
             store'[k].rows[u] # Null /\ (Held(store'[k].rows[u]) <=> Held(store[k].rows[u]))
      BY <1>6, <2>4 DEF Incremented
    <3> QED BY <2>1, <2>2, <3>1, <3>2, KindFacts DEF AlikeAfter
  <2> QED BY <2>3, <2>4
<1>11. /\ drifted' \in SUBSET Task /\ store' = [k \in Kind |-> store'[k]]
       /\ removed' \in SUBSET StoreJob /\ removed \subseteq removed'
  BY <1>1, <1>3 DEF StoreInv, StoreTypeOK
<1> QED BY <1>9, <1>10, <1>11, TableAction

\* RecalculateSummary counts anew, all columns but HOLD, which no equal keys put wrong.
LEMMA RecalculateStep ==
    ASSUME StoreInv, RecalculateSummary
    PROVE  StoreInv'
<1> DEFINE new(k, t) == UpdateSummary(k, store[k].rows[t], AggregateAllTaskJob(store[k].jobs, t),
                                      Flags({}, FALSE))
<1>0. tasks \in SUBSET Task
  BY KindFacts
<1>1. /\ store' = [k \in Kind |-> [store[k] EXCEPT !.rows = [t \in Task |->
                      IF t \notin tasks THEN @[t] ELSE new(k, t)]]]
      /\ drifted' = drifted \ tasks /\ Bounded
      /\ UNCHANGED <<tasks, accepted, removed, restored, refused>>
  BY DEF RecalculateSummary, Running, history
<1>2. ASSUME NEW k \in Kind, NEW t \in tasks
      PROVE  Updated(k, store[k].rows[t], Counted, AggregateAllTaskJob(store[k].jobs, t),
                     {}, Flags({}, FALSE), new(k, t))
  <2> DEFINE row == store[k].rows[t]
             D == Counted
             counts == AggregateAllTaskJob(store[k].jobs, t)
             E == {}
             flags == Flags(E, FALSE)
             r == new(k, t)
  <2>1. row \in LoadedRow \cup {Null} /\ row # Null
    BY <1>0, KindFacts DEF StoreType, StoreInv, Exact
  <2>2. counts \in [D -> Int]
    <3>1. \A s \in Counted :
             CountAllJob([NoFilter EXCEPT !.task = t, !.statuses = {s}], store[k].jobs) \in Int
      BY JobsFinite DEF CountAllJob
    <3> QED BY <3>1 DEF AggregateAllTaskJob
  <2>3. D \in SUBSET JobStatus /\ E \in SUBSET Flag /\ flags \in [E -> BOOLEAN]
    BY DEF JobStatus, Flags
  <2>4. r = UpdateSummary(k, row, counts, flags)
    OBVIOUS
  <2> HIDE DEF row, D, counts, E, flags, r, new
  <2>5. Updated(k, row, D, counts, E, flags, r)
    BY <2>1, <2>2, <2>3, <2>4, UpdatedSummary
  <2> QED BY <2>5 DEF row, D, counts, E, flags, r
<1>3. ASSUME NEW k \in Kind, NEW t \in tasks, NEW c \in Counted
      PROVE  AggregateAllTaskJob(store[k].jobs, t)[c] = Number(store[k].jobs, t, c)
  <2>1. AggregateAllTaskJob(store[k].jobs, t)[c] = CountAllJob(OfStatus(t, c), store[k].jobs)
    BY DEF AggregateAllTaskJob, OfStatus
  <2>2. c \in JobStatus /\ t \in Task
    BY <1>0 DEF JobStatus
  <2> QED BY <2>1, <2>2, StatusFilter
<1> HIDE DEF new
<1>4. ASSUME NEW k \in Kind
      PROVE  /\ store'[k] \in StoreType /\ store'[k].jobs = store[k].jobs
             /\ store'[k].second = store[k].second
             /\ \A t \in Task :
                   store'[k].rows[t] = IF t \in tasks THEN new(k, t) ELSE store[k].rows[t]
  <2> DEFINE s == store[k]
             z == store'[k]
             w == [t \in Task |-> IF t \notin tasks THEN s.rows[t] ELSE new(k, t)]
  <2>1. /\ s = [jobs |-> s.jobs, rows |-> s.rows, second |-> s.second]
        /\ s.jobs \in JobTable /\ s.second \in JobTable
        /\ s.rows \in [Task -> LoadedRow \cup {Null}]
    BY KindFacts DEF StoreType
  <2>2. z = [s EXCEPT !.rows = w]
    BY <1>1
  <2>3. \A t \in tasks : new(k, t) \in LoadedRow \cup {Null}
    BY <1>2 DEF Updated
  <2> HIDE DEF s, z
  <2>4. w \in [Task -> LoadedRow \cup {Null}]
    BY <2>1, <2>3
  <2>5. \A t \in Task : w[t] = IF t \in tasks THEN new(k, t) ELSE s.rows[t]
    OBVIOUS
  <2> HIDE DEF w
  <2>6. z = [jobs |-> s.jobs, rows |-> w, second |-> s.second]
    BY <2>1, <2>2
  <2>7. z \in StoreType
    BY <2>1, <2>4, <2>6 DEF StoreType
  <2> QED BY <2>5, <2>6, <2>7 DEF s, z
<1>5. ASSUME NEW k \in Kind, NEW t \in tasks
      PROVE  Exact(store'[k], t, ExactColumns(k, t)')
  <2> DEFINE row == store[k].rows[t]
             r == store'[k].rows[t]
             jobs == store[k].jobs
             cols == ExactColumns(k, t)'
  <2>1. r = new(k, t) /\ store'[k].jobs = jobs
    BY <1>0, <1>4
  <2>2. row # Null /\ \A c \in ExactColumns(k, t) : row.count[c] = Number(jobs, t, c)
    BY DEF StoreInv, Exact
  <2>3. r # Null /\ \A c \in Columns(k) :
           /\ c \in Counted => r.count[c] = Number(jobs, t, c)
           /\ c \notin Counted => r.count[c] = row.count[c]
    BY <1>2, <1>3, <2>1, <2>2 DEF Updated
  <2>4. \A c \in cols : c \in Columns(k) /\ (c \notin Counted => c \in ExactColumns(k, t))
    BY <1>1 DEF ExactColumns, Columns, Restored, JobStatus, Counted
  <2> HIDE DEF row, r, jobs, cols
  <2>5. \A c \in cols : r.count[c] = Number(jobs, t, c)
    BY <2>2, <2>3, <2>4
  <2> QED BY <2>1, <2>3, <2>5 DEF Exact, r, jobs, cols
<1>6. TableActed
  <2>1. ASSUME NEW k \in Kind, NEW i \in StoreJob
        PROVE  /\ store'[k].jobs[i] # "NONE" => store[k].jobs[i] # "NONE"
               /\ store'[k].jobs[i] = "NONE" => store[k].jobs[i] = "NONE" \/ i \in removed'
    BY <1>4
  <2> QED BY <1>1, <1>4, <1>5, <2>1 DEF TableActed
<1>7. ASSUME NEW u \in Task, ~Restored(u)
      PROVE  AlikeAfter(u)
  <2>1. /\ \A i \in StoreJob : TaskOf[i] = u => store["sql"].jobs[i] = store["mongo"].jobs[i]
        /\ store["sql"].rows[u] = Null <=> store["mongo"].rows[u] = Null
        /\ Held(store["sql"].rows[u]) <=> Held(store["mongo"].rows[u])
    BY <1>7 DEF StoreInv, Alike
  <2>2. \A i \in StoreJob : TaskOf[i] = u => store'["sql"].jobs[i] = store'["mongo"].jobs[i]
    BY <1>4, <2>1, KindFacts
  <2>3. CASE u \notin tasks
    BY <1>4, <2>1, <2>2, <2>3, KindFacts DEF AlikeAfter
  <2>4. CASE u \in tasks
    <3>1. HasHold("sql") /\ HasHold("mongo")
      BY DEF HasHold
    <3>2. \A k \in Kind : HasHold(k) =>
             store'[k].rows[u] # Null /\ (Held(store'[k].rows[u]) <=> Held(store[k].rows[u]))
      BY <1>2, <1>4, <2>4 DEF Updated
    <3> QED BY <2>1, <2>2, <3>1, <3>2, KindFacts DEF AlikeAfter
  <2> QED BY <2>3, <2>4
<1>8. /\ drifted' \in SUBSET Task /\ store' = [k \in Kind |-> store'[k]]
      /\ removed' \in SUBSET StoreJob /\ removed \subseteq removed'
  BY <1>1 DEF StoreInv, StoreTypeOK
<1> QED BY <1>6, <1>7, <1>8, TableAction

\* What StoreInv is about
aspects == <<store, tasks, accepted, removed, restored, refused, drifted>>

\* A step that changes no job and no row, as FindAllSummary and a stuttering step
LEMMA IdleStep ==
    ASSUME StoreInv, UNCHANGED aspects, ops' = ops \/ Bounded
    PROVE  StoreInv'
<1>0. /\ store' = store /\ tasks' = tasks /\ accepted' = accepted /\ removed' = removed
      /\ restored' = restored /\ refused' = refused /\ drifted' = drifted
  BY DEF aspects
<1>1. ops' \in 0..MaxStoreOps
  BY OpsBounded DEF StoreInv, StoreTypeOK
<1>2. StoreTypeOK'
  BY <1>0, <1>1 DEF StoreInv, StoreTypeOK
<1>3. AcceptedIsStored' /\ \A k \in Kind : Placed(store[k])'
  BY <1>0 DEF StoreInv, AcceptedIsStored, Placed
<1>4. \A k \in Kind, t \in tasks' : Exact(store[k], t, ExactColumns(k, t))'
  <2> SUFFICES ASSUME NEW k \in Kind, NEW t \in tasks
               PROVE  Exact(store[k], t, ExactColumns(k, t))'
    BY <1>0
  <2>1. ExactColumns(k, t)' = ExactColumns(k, t)
    BY <1>0, SameColumns
  <2> QED BY <1>0, <2>1 DEF StoreInv, Exact
<1>5. \A t \in Task : Alike(t)'
  BY <1>0 DEF StoreInv, Alike, Restored
<1> QED BY <1>2, <1>3, <1>4, <1>5 DEF StoreInv

\* RestoreFromSecondary on one store: the SQL store counts the jobs and inserts none of them.
RestoredTo(k, s, saved, z) ==
    /\ z \in StoreType
    /\ \A i \in StoreJob :
          /\ z.jobs[i] = IF i \in saved /\ Upserts(k) THEN "QUEUEING" ELSE s.jobs[i]
          /\ z.second[i] = IF s.second[i] = "QUEUEING" THEN "NONE" ELSE s.second[i]
    /\ \A t \in Task :
          IF \E j \in saved : TaskOf[j] = t
          THEN Incremented(k, s.rows[t], {"QUEUEING"},
                           One("QUEUEING", Cardinality({j \in saved : TaskOf[j] = t})), z.rows[t])
          ELSE z.rows[t] = s.rows[t]

\* RestoreFromSecondary on one store
LEMMA RestoredEffect ==
    ASSUME NEW k, k \in Kind, store[k] \in StoreType, Placed(store[k]), NEW failing,
           NEW z, z = RestoredStore(k, store[k], failing)
    PROVE  RestoredTo(k, store[k], Restorable(k) \ failing, z)
<1> DEFINE s == store[k]
           saved == Restorable(k) \ failing
           New(t) == {j \in saved : TaskOf[j] = t}
           incr(t) == One("QUEUEING", Cardinality(New(t)))
           p == [j \in StoreJob |-> IF j \in saved THEN SaveJob(k, s.jobs, j, "QUEUEING")[j]
                                    ELSE s.jobs[j]]
           w == [t \in Task |-> IF New(t) = {} THEN s.rows[t]
                                ELSE IncrementSummary(k, s.rows[t], incr(t))]
           q == [j \in StoreJob |-> IF j \in CleanedSecondary(k) THEN "NONE" ELSE s.second[j]]
<1>1. /\ s.jobs \in JobTable /\ s.second \in JobTable /\ s.rows \in [Task -> LoadedRow \cup {Null}]
  BY DEF StoreType
<1>2. z = [jobs |-> p, rows |-> w, second |-> q]
  BY DEF RestoredStore
<1>3. saved \subseteq StoreJob /\ \A i \in saved : s.second[i] = "QUEUEING" /\ s.jobs[i] = "NONE"
  BY DEF Restorable, Placed
<1>4. \A i \in StoreJob : p[i] = IF i \in saved /\ Upserts(k) THEN "QUEUEING" ELSE s.jobs[i]
  <2> SUFFICES ASSUME NEW i \in StoreJob, i \in saved
               PROVE  SaveJob(k, s.jobs, i, "QUEUEING")[i] =
                         IF Upserts(k) THEN "QUEUEING" ELSE s.jobs[i]
    OBVIOUS
  <2> DEFINE jobs == s.jobs
  <2>1. jobs[i] = "NONE" /\ jobs \in JobTable
    BY <1>1, <1>3
  <2> HIDE DEF jobs, saved
  <2>2. SaveJob(k, jobs, i, "QUEUEING")[i] = IF Upserts(k) THEN "QUEUEING" ELSE jobs[i]
    BY <2>1 DEF SaveJob, Upserts, JobTable
  <2> QED BY <2>2 DEF jobs
<1>5. \A i \in StoreJob : q[i] = IF s.second[i] = "QUEUEING" THEN "NONE" ELSE s.second[i]
  BY DEF CleanedSecondary, Restorable
<1>6. \A t \in Task : New(t) # {} => Incremented(k, s.rows[t], {"QUEUEING"}, incr(t), w[t])
  <2> SUFFICES ASSUME NEW t \in Task, New(t) # {}
               PROVE  Incremented(k, s.rows[t], {"QUEUEING"}, incr(t), w[t])
    OBVIOUS
  <2> DEFINE D == {"QUEUEING"}
             row == s.rows[t]
             m == incr(t)
             r == w[t]
             S == New(t)
  <2>1. r = IncrementSummary(k, row, m)
    OBVIOUS
  <2>2. S \subseteq StoreJob
    BY <1>3
  <2>3. m = One("QUEUEING", Cardinality(S))
    OBVIOUS
  <2>4. row \in LoadedRow \cup {Null} /\ D \in SUBSET JobStatus /\ D # {}
    BY <1>1 DEF JobStatus, Counted
  <2> HIDE DEF S, m, row, r
  <2>5. Cardinality(S) \in Int
    BY <2>2, JobsFinite
  <2>6. m \in [D -> Int]
    BY <2>3, <2>5 DEF One
  <2> HIDE DEF D
  <2>7. Incremented(k, row, D, m, r)
    BY <2>1, <2>4, <2>6, IncrementedRow
  <2> QED BY <2>7 DEF D, m, row, r
<1>7. \A t \in Task : New(t) = {} => w[t] = s.rows[t]
  OBVIOUS
<1>8. DOMAIN p = StoreJob /\ DOMAIN q = StoreJob /\ p = [i \in StoreJob |-> p[i]]
      /\ q = [i \in StoreJob |-> q[i]] /\ w = [t \in Task |-> w[t]]
  OBVIOUS
<1>9. \A t \in Task : New(t) # {} <=> \E j \in saved : TaskOf[j] = t
  OBVIOUS
<1> HIDE DEF p, q, w, saved, s
<1>10. z.jobs = p /\ z.rows = w /\ z.second = q
  BY <1>2
<1>11. z \in StoreType
  <2>1. p \in JobTable /\ q \in JobTable
    BY <1>1, <1>4, <1>5, <1>8 DEF JobTable, JobStatus, Counted
  <2>2. w \in [Task -> LoadedRow \cup {Null}]
    <3>1. \A t \in Task : w[t] \in LoadedRow \cup {Null}
      BY <1>1, <1>6, <1>7 DEF Incremented
    <3> QED BY <1>8, <3>1
  <2> QED BY <1>2, <2>1, <2>2 DEF StoreType
<1>12. \A t \in Task :
          IF \E j \in saved : TaskOf[j] = t
          THEN Incremented(k, s.rows[t], {"QUEUEING"},
                           One("QUEUEING", Cardinality({j \in saved : TaskOf[j] = t})), w[t])
          ELSE w[t] = s.rows[t]
  BY <1>6, <1>7, <1>9
<1> QED BY <1>4, <1>5, <1>10, <1>11, <1>12 DEF RestoredTo, s, saved

\* A restored job makes its task an exception of the SQL store, and no other task.
LEMMA RestoreStep ==
    ASSUME StoreInv, NEW failing, failing \in SUBSET StoreJob, RestoreFromSecondary(failing)
    PROVE  StoreInv'
<1> DEFINE saved(k) == Restorable(k) \ failing
<1>1. /\ store' = [k \in Kind |-> RestoredStore(k, store[k], failing)]
      /\ restored' = restored \cup UNION {saved(k) : k \in Kind}
      /\ refused' = refused \cup failing /\ Bounded
      /\ UNCHANGED <<tasks, accepted, removed, drifted>>
  BY DEF RestoreFromSecondary, Running
<1>2. ASSUME NEW k \in Kind
      PROVE  RestoredTo(k, store[k], saved(k), store'[k])
  <2>1. /\ store[k] \in StoreType /\ Placed(store[k])
        /\ store'[k] = RestoredStore(k, store[k], failing)
    BY <1>1, KindFacts DEF StoreInv
  <2> QED BY <2>1, RestoredEffect
<1>3. ASSUME NEW k \in Kind, NEW i \in StoreJob
      PROVE  /\ i \in saved(k) <=> store[k].second[i] = "QUEUEING" /\ i \notin failing
             /\ store[k].second[i] = "QUEUEING" => store[k].jobs[i] = "NONE" /\ i \in accepted
             /\ i \in saved(k) => i \in restored'
             /\ store[k].jobs[i] = "NONE" \/ store[k].second[i] = "NONE"
             /\ i \notin accepted => store[k].jobs[i] = "NONE" /\ store[k].second[i] = "NONE"
  <2>1. /\ store[k].jobs[i] = "NONE" \/ store[k].second[i] = "NONE"
        /\ i \notin accepted => store[k].jobs[i] = "NONE" /\ store[k].second[i] = "NONE"
    BY DEF StoreInv, Placed
  <2>2. i \in saved(k) <=> store[k].second[i] = "QUEUEING" /\ i \notin failing
    BY DEF Restorable
  <2>3. i \in saved(k) => i \in restored'
    BY <1>1
  <2> HIDE DEF saved
  <2> QED BY <2>1, <2>2, <2>3
<1>4. ASSUME NEW k \in Kind
      PROVE  saved(k) \subseteq StoreJob
  BY DEF Restorable
<1>5. restored \subseteq restored' /\ restored' \in SUBSET StoreJob
  BY <1>1, <1>4 DEF StoreInv, StoreTypeOK
<1> HIDE DEF saved
<1>6. ASSUME NEW k \in Kind, NEW i \in StoreJob
      PROVE  /\ store'[k].jobs[i] = IF i \in saved(k) /\ Upserts(k) THEN "QUEUEING"
                                    ELSE store[k].jobs[i]
             /\ store'[k].second[i] = IF store[k].second[i] = "QUEUEING" THEN "NONE"
                                      ELSE store[k].second[i]
  BY <1>2 DEF RestoredTo
<1>7. StoreTypeOK'
  <2>1. store' \in [Kind -> StoreType]
    BY <1>1, <1>2 DEF RestoredTo
  <2>2. ops' \in 0..MaxStoreOps
    BY <1>1, OpsBounded
  <2>3. refused' \in SUBSET StoreJob
    BY <1>1 DEF StoreInv, StoreTypeOK
  <2> QED BY <1>1, <1>5, <2>1, <2>2, <2>3 DEF StoreInv, StoreTypeOK
<1>8. \A k \in Kind : Placed(store[k])'
  <2> SUFFICES ASSUME NEW k \in Kind, NEW i \in StoreJob
               PROVE  /\ store'[k].jobs[i] = "NONE" \/ store'[k].second[i] = "NONE"
                      /\ i \notin accepted' =>
                            store'[k].jobs[i] = "NONE" /\ store'[k].second[i] = "NONE"
    BY DEF Placed
  <2> DEFINE a == store[k].jobs[i]
             b == store[k].second[i]
             c == store'[k].jobs[i]
             d == store'[k].second[i]
             in == i \in saved(k)
  <2>1. /\ in => b = "QUEUEING"
        /\ b = "QUEUEING" => a = "NONE" /\ i \in accepted
        /\ a = "NONE" \/ b = "NONE"
        /\ i \notin accepted => a = "NONE" /\ b = "NONE"
    BY <1>3
  <2>2. /\ (c = "QUEUEING" /\ in) \/ c = a
        /\ d = IF b = "QUEUEING" THEN "NONE" ELSE b
    BY <1>6
  <2>3. accepted' = accepted
    BY <1>1
  <2> HIDE DEF a, b, c, d, in
  <2>4. (c = "NONE" \/ d = "NONE") /\ (i \notin accepted' => c = "NONE" /\ d = "NONE")
    BY <2>1, <2>2, <2>3
  <2> QED BY <2>4 DEF c, d
<1>9. AcceptedIsStored'
  <2> SUFFICES ASSUME NEW k \in Kind, NEW i, i \in accepted' \ (removed' \cup refused')
               PROVE  \/ store'[k].jobs[i] # "NONE"
                      \/ store'[k].second[i] # "NONE"
                      \/ k = "sql" /\ i \in restored'
    BY DEF AcceptedIsStored
  <2>1. i \in StoreJob /\ i \notin failing /\ i \in accepted \ (removed \cup refused)
    BY <1>1 DEF StoreInv, StoreTypeOK
  <2>2. \/ store[k].jobs[i] # "NONE" \/ store[k].second[i] # "NONE"
        \/ k = "sql" /\ i \in restored
    BY <2>1 DEF StoreInv, AcceptedIsStored
  <2>3. CASE i \in saved(k)
    BY <1>3, <1>6, <2>1, <2>3 DEF Upserts
  <2>4. CASE i \notin saved(k)
    <3>1. store'[k].jobs[i] = store[k].jobs[i] /\ store'[k].second[i] = store[k].second[i]
      BY <1>3, <1>6, <2>1, <2>4
    <3> QED BY <1>5, <2>2, <3>1
  <2> QED BY <2>3, <2>4
<1>10. ASSUME NEW t \in Task, ~Restored(t)'
       PROVE  /\ ~Restored(t)
              /\ \A k \in Kind : /\ store'[k].rows[t] = store[k].rows[t]
                                 /\ \A i \in StoreJob : TaskOf[i] = t =>
                                       store'[k].jobs[i] = store[k].jobs[i]
  <2>1. \A k \in Kind, i \in StoreJob : TaskOf[i] = t => i \notin saved(k)
    BY <1>3, <1>10 DEF Restored
  <2>2. ~Restored(t)
    BY <1>5, <1>10 DEF Restored
  <2>3. \A k \in Kind : store'[k].rows[t] = store[k].rows[t]
    BY <1>2, <1>4, <2>1 DEF RestoredTo
  <2>4. \A k \in Kind, i \in StoreJob : TaskOf[i] = t => store'[k].jobs[i] = store[k].jobs[i]
    BY <1>6, <2>1
  <2> QED BY <2>2, <2>3, <2>4
<1>11. \A t \in Task : Alike(t)'
  <2> SUFFICES ASSUME NEW t \in Task, ~Restored(t)'
               PROVE  Alike(t)'
    BY DEF Alike
  <2>1. Alike(t) /\ ~Restored(t) /\ tasks' = tasks
    BY <1>1, <1>10 DEF StoreInv
  <2>2. /\ t \notin tasks => \A k \in Kind, i \in StoreJob :
                               TaskOf[i] = t => store'[k].jobs[i] = "NONE"
        /\ \A i \in StoreJob : TaskOf[i] = t => store'["sql"].jobs[i] = store'["mongo"].jobs[i]
        /\ store'["sql"].rows[t] = Null <=> store'["mongo"].rows[t] = Null
        /\ Held(store'["sql"].rows[t]) <=> Held(store'["mongo"].rows[t])
    BY <1>10, <2>1, KindFacts DEF Alike
  <2> QED BY <2>1, <2>2 DEF Alike
<1>12. \A k \in Kind, t \in tasks' : Exact(store[k], t, ExactColumns(k, t))'
  <2> SUFFICES ASSUME NEW k \in Kind, NEW t \in tasks
               PROVE  Exact(store[k], t, ExactColumns(k, t))'
    BY <1>1
  <2> DEFINE row == store[k].rows[t]
             r == store'[k].rows[t]
             jobs == store[k].jobs
             after == store'[k].jobs
             cols == ExactColumns(k, t)'
             n == Cardinality({j \in saved(k) : TaskOf[j] = t})
             some == \E j \in saved(k) : TaskOf[j] = t
  <2>1. Exact(store[k], t, ExactColumns(k, t)) /\ t \in Task
    BY KindFacts DEF StoreInv
  <2>2. cols \subseteq ExactColumns(k, t)
    BY <1>1, <1>5 DEF ExactColumns, Restored
  <2>3. row # Null /\ \A c \in cols : c \in Columns(k) /\ row.count[c] = Number(jobs, t, c)
    BY <2>1, <2>2 DEF Exact, ExactColumns
  <2>4. IF some THEN Incremented(k, row, {"QUEUEING"}, One("QUEUEING", n), r) ELSE r = row
    BY <1>2, <2>1 DEF RestoredTo
  <2>5. r # Null
    BY <2>3, <2>4 DEF Incremented
  <2>6. CASE ~some
    <3>1. \A i \in StoreJob : TaskOf[i] = t => after[i] = jobs[i]
      BY <1>6, <2>6
    <3>2. \A c : Number(after, t, c) = Number(jobs, t, c)
      <4> SUFFICES ASSUME NEW c
                   PROVE  Number(after, t, c) = Number(jobs, t, c)
        OBVIOUS
      <4>1. {j \in StoreJob : TaskOf[j] = t /\ after[j] = c}
              = {j \in StoreJob : TaskOf[j] = t /\ jobs[j] = c}
        BY <3>1
      <4> QED BY <4>1 DEF Number
    <3>3. \A c \in cols : r.count[c] = Number(after, t, c)
      BY <2>3, <2>4, <2>6, <3>2
    <3> QED BY <2>5, <3>3 DEF Exact
  <2>7. CASE some /\ ~Upserts(k)
    <3>1. cols = {}
      BY <1>3, <1>4, <2>7 DEF ExactColumns, Restored, Upserts
    <3> QED BY <2>5, <3>1 DEF Exact
  <2>8. CASE some /\ Upserts(k)
    <3> DEFINE S == {j \in saved(k) : TaskOf[j] = t}
    <3>1. ASSUME NEW c \in cols
          PROVE  r.count[c] = Number(after, t, c)
      <4> DEFINE Won == {j \in StoreJob : TaskOf[j] = t /\ jobs[j] # c /\ after[j] = c}
                 Lost == {j \in StoreJob : TaskOf[j] = t /\ jobs[j] = c /\ after[j] # c}
                 e == IF c = "QUEUEING" THEN n ELSE 0
      <4>1. c \in Columns(k) /\ c # "NONE"
        BY <2>3 DEF Columns, JobStatus, Counted
      <4>2. \A i \in StoreJob : /\ i \in saved(k) => jobs[i] = "NONE" /\ after[i] = "QUEUEING"
                                /\ i \notin saved(k) => after[i] = jobs[i]
        BY <1>3, <1>6, <2>8
      <4>3. S \subseteq StoreJob /\ n = Cardinality(S) /\ saved(k) \subseteq StoreJob
        BY <1>4
      <4> HIDE DEF jobs, after, cols
      <4>4. Lost = {} /\ Won = IF c = "QUEUEING" THEN S ELSE {}
        BY <4>1, <4>2, <4>3
      <4>5. n \in Nat
        <5> HIDE DEF S, n
        <5> QED BY <4>3, JobsFinite
      <4>6. Number(after, t, c) = Number(jobs, t, c) + Cardinality(Won) - Cardinality(Lost)
        BY Recount
      <4>7. Cardinality(Won) = e /\ Cardinality(Lost) = 0 /\ e \in Nat
        BY <4>3, <4>4, <4>5, FS_EmptySet
      <4>8. Number(jobs, t, c) \in Nat /\ row.count[c] = Number(jobs, t, c)
        BY <2>3, NumberType
      <4> HIDE DEF Won, Lost, n
      <4>9. (IF c \in {"QUEUEING"} THEN One("QUEUEING", n)[c] ELSE 0) = e
        BY DEF One
      <4> HIDE DEF e, some
      <4>10. r.count[c] = row.count[c] + e
        <5>1. Incremented(k, row, {"QUEUEING"}, One("QUEUEING", n), r)
          BY <2>4, <2>8
        <5>2. row.count[c] \in Int
          BY <4>8
        <5> QED BY <2>3, <4>1, <4>9, <5>1, <5>2 DEF Incremented
      <4> QED BY <4>6, <4>7, <4>8, <4>10
    <3> HIDE DEF r, after, cols
    <3>2. r # Null /\ \A c \in cols : r.count[c] = Number(after, t, c)
      BY <2>5, <3>1
    <3> QED BY <3>2 DEF Exact, r, after, cols
  <2> QED BY <2>6, <2>7, <2>8
<1> QED BY <1>7, <1>8, <1>9, <1>11, <1>12 DEF StoreInv

-----------------------------------------------------------------------------
\* A new process

\* prepare removes the jobs of other tasks and requeues the RETRYING ones.
LEMMA PreparedTable ==
    ASSUME StoreInv, NEW k, k \in Kind, NEW ts, ts \in SUBSET Task, ts # {}
    PROVE  /\ Cleaned(k, ts) =
                 [j \in StoreJob |-> IF TaskOf[j] \in ts THEN store[k].jobs[j] ELSE "NONE"]
           /\ Cleaned(k, ts) \in JobTable /\ PreparedJobs(k, ts) \in JobTable
           /\ \A i \in StoreJob :
                 PreparedJobs(k, ts)[i] =
                    IF TaskOf[i] \notin ts THEN "NONE"
                    ELSE IF store[k].jobs[i] = "RETRYING" THEN "QUEUEING" ELSE store[k].jobs[i]
<1> DEFINE jobs == store[k].jobs
           cleaned == Cleaned(k, ts)
           after == PreparedJobs(k, ts)
<1>1. jobs \in JobTable
  BY KindFacts
<1>2. cleaned = CleanJob(k, [NoFilter EXCEPT !.exclude = ts], jobs)
  BY DEF Cleaned
<1>3. after = [j \in StoreJob |-> IF cleaned[j] = "RETRYING" THEN "QUEUEING" ELSE cleaned[j]]
  BY DEF PreparedJobs
<1> HIDE DEF jobs, cleaned, after
<1>4. cleaned = [j \in StoreJob |-> IF TaskOf[j] \in ts THEN jobs[j] ELSE "NONE"]
  BY <1>1, <1>2, ExcludeFilter
<1>5. cleaned \in JobTable
  BY <1>1, <1>4 DEF JobTable
<1>6. after \in JobTable
  BY <1>3, <1>5 DEF JobTable, JobStatus, Counted
<1>7. \A i \in StoreJob : after[i] = IF TaskOf[i] \notin ts THEN "NONE"
                                     ELSE IF jobs[i] = "RETRYING" THEN "QUEUEING" ELSE jobs[i]
  BY <1>3, <1>4
<1> QED BY <1>4, <1>5, <1>6, <1>7 DEF jobs, cleaned, after

\* The number of jobs after RETRYING ones are requeued, by the map prepare increments with
LEMMA Requeued ==
    ASSUME NEW cleaned \in JobTable, NEW after, NEW t, NEW n, n = Number(cleaned, t, "RETRYING"),
           \A i \in StoreJob :
              after[i] = IF cleaned[i] = "RETRYING" THEN "QUEUEING" ELSE cleaned[i],
           NEW c
    PROVE  Number(after, t, c) = Number(cleaned, t, c)
              + (IF c \in {"RETRYING", "QUEUEING"} THEN Across("RETRYING", "QUEUEING", n)[c] ELSE 0)
<1> DEFINE from == {"RETRYING"}
           to == "QUEUEING"
           moved == ShiftedJobs(cleaned, t, from, to)
           d == ShiftDelta(cleaned, t, from, to, c)
<1>1. {j \in StoreJob : TaskOf[j] = t /\ after[j] = c}
        = {j \in StoreJob : TaskOf[j] = t /\ moved[j] = c}
  BY DEF ShiftedJobs
<1>2. Number(after, t, c) = Number(moved, t, c)
  BY <1>1 DEF Number
<1>3. to \notin from
  OBVIOUS
<1>4. d = IF c \in {"RETRYING", "QUEUEING"} THEN Across("RETRYING", "QUEUEING", n)[c] ELSE 0
  <2>1. {j \in StoreJob : TaskOf[j] = t /\ cleaned[j] \in from}
          = {j \in StoreJob : TaskOf[j] = t /\ cleaned[j] = "RETRYING"}
    OBVIOUS
  <2>2. Cardinality({j \in StoreJob : TaskOf[j] = t /\ cleaned[j] \in from}) = n
    BY <2>1 DEF Number
  <2>3. d = IF c = "QUEUEING" THEN n ELSE IF c = "RETRYING" THEN -n ELSE 0
    BY <2>2 DEF ShiftDelta
  <2> QED BY <2>3 DEF Across
<1> HIDE DEF from, to, d
<1>5. Number(moved, t, c) = Number(cleaned, t, c) + d
  BY <1>3, JobsShift DEF d
<1> QED BY <1>2, <1>4, <1>5

\* The row of a registered task: counted, corrected by what is requeued, and with its hold kept
PreparedTo(k, ts, t) ==
    /\ PreparedRow(k, ts, t) \in LoadedRow
    /\ HasHold(k) => (Held(PreparedRow(k, ts, t)) <=> Held(store[k].rows[t]))
    /\ \A c \in Columns(k) : PreparedRow(k, ts, t).count[c] = Number(PreparedJobs(k, ts), t, c)

\* prepare on the row of one task
LEMMA PreparedRowEffect ==
    ASSUME StoreInv, NEW k, k \in Kind, NEW ts, ts \in SUBSET Task, ts # {}, NEW t \in ts
    PROVE  PreparedTo(k, ts, t)
<1> DEFINE row == store[k].rows[t]
           kept == IF k = "memory" THEN Null ELSE row
           counts == Counts(k, ts, t)
           n == counts["RETRYING"]
           on == Loading(TRUE)
           off == Loading(FALSE)
           across == Across("RETRYING", "QUEUEING", n)
           a == UpdateSummary(k, kept, counts, on)
           b == IncrementSummary(k, a, across)
           r == UpdateSummary(k, b, NoCounts, off)
           S == JobStatus
           D == {"RETRYING", "QUEUEING"}
           L == {"is_loading", "loading_message"}
           N == {}
           cleaned == Cleaned(k, ts)
           after == PreparedJobs(k, ts)
<1>0. t \in Task
  OBVIOUS
<1>1. row \in LoadedRow \cup {Null}
  BY <1>0, KindFacts DEF StoreType
<1>2. kept \in LoadedRow \cup {Null} /\ (HasHold(k) => kept = row)
  BY <1>1 DEF HasHold
<1>3. /\ cleaned \in JobTable
      /\ \A i \in StoreJob : after[i] = IF cleaned[i] = "RETRYING" THEN "QUEUEING" ELSE cleaned[i]
  <2>1. cleaned \in JobTable
    BY PreparedTable
  <2> QED BY <2>1 DEF PreparedJobs
<1>4. counts \in [S -> Int] /\ \A c \in S : counts[c] = Number(cleaned, t, c)
  <2>1. \A c \in S : CountAllJob(OfStatus(t, c), cleaned) = Number(cleaned, t, c)
    <3> HIDE DEF cleaned
    <3> QED BY <1>0, StatusFilter
  <2>2. counts = [c \in S |-> CountAllJob(OfStatus(t, c), cleaned)]
    BY DEF Counts
  <2> HIDE DEF counts, cleaned
  <2>3. \A c \in S : CountAllJob(OfStatus(t, c), cleaned) \in Int
    BY <2>1, NumberType
  <2> QED BY <2>1, <2>2, <2>3
<1>5. /\ NoCounts \in [N -> Int] /\ N \in SUBSET JobStatus /\ S \in SUBSET JobStatus
      /\ on \in [L -> BOOLEAN] /\ off \in [L -> BOOLEAN] /\ L \in SUBSET Flag
      /\ {"is_loading", "loading_message"} \subseteq L /\ "is_hold" \notin L
      /\ D \in SUBSET JobStatus /\ D # {} /\ "RETRYING" \in S
  BY Maps DEF Flag, Loading, Flags, JobStatus, Counted
<1>6. PreparedRow(k, ts, t) = r
  BY DEF PreparedRow
<1>7. across \in [D -> Int]
  <2>1. n \in Int
    BY <1>4, <1>5
  <2> HIDE DEF n
  <2> QED BY <2>1 DEF Across
<1>8. n = Number(cleaned, t, "RETRYING")
  BY <1>4, <1>5
<1>9. \A c : Number(after, t, c) = Number(cleaned, t, c)
                + (IF c \in D THEN across[c] ELSE 0)
  <2> HIDE DEF n, cleaned, after
  <2> QED BY <1>3, <1>8, Requeued
<1>10. Columns(k) \subseteq JobStatus
  BY DEF Columns, JobStatus
<1> HIDE DEF row, kept, counts, n, on, off, across, a, b, r, S, D, L, N, cleaned, after
<1>11. /\ a = UpdateSummary(k, kept, counts, on) /\ b = IncrementSummary(k, a, across)
       /\ r = UpdateSummary(k, b, NoCounts, off)
  BY DEF a, b, r
<1>12. Updated(k, kept, S, counts, L, on, a)
  BY <1>2, <1>4, <1>5, <1>11, UpdatedSummary
<1>13. Incremented(k, a, D, across, b) /\ a # Null
  <2>1. a \in LoadedRow \cup {Null} /\ a # Null
    BY <1>12 DEF Updated
  <2> QED BY <1>5, <1>7, <1>11, <2>1, IncrementedRow
<1>14. Updated(k, b, N, NoCounts, L, off, r) /\ b # Null
  <2>1. b \in LoadedRow \cup {Null} /\ b # Null
    BY <1>13 DEF Incremented
  <2> QED BY <1>5, <1>11, <2>1, UpdatedSummary
<1>15. r \in LoadedRow
  BY <1>14 DEF Updated
<1>16. HasHold(k) => (Held(r) <=> Held(row))
  <2>1. HasHold(k) => (Held(r) <=> Held(b))
    BY <1>5, <1>14 DEF Updated
  <2>2. Held(b) <=> Held(a)
    BY <1>13 DEF Incremented
  <2>3. HasHold(k) => (Held(a) <=> Held(kept))
    BY <1>5, <1>12 DEF Updated
  <2> QED BY <1>2, <2>1, <2>2, <2>3
<1>17. ASSUME NEW c \in Columns(k)
       PROVE  r.count[c] = Number(after, t, c)
  <2>1. c \in S /\ c \notin N
    BY <1>10 DEF S, N
  <2>2. a.count[c] = Number(cleaned, t, c) /\ a.count[c] \in Int
    BY <1>4, <1>12, <2>1, NumberType DEF Updated
  <2>3. b.count[c] = a.count[c] + (IF c \in D THEN across[c] ELSE 0)
    BY <1>13, <2>2 DEF Incremented
  <2>4. r.count[c] = b.count[c]
    BY <1>14, <2>1 DEF Updated
  <2> QED BY <1>9, <2>2, <2>3, <2>4
<1> QED BY <1>6, <1>15, <1>16, <1>17 DEF PreparedTo, row, after

\* prepare, whatever tasks the new release registers
LEMMA PrepareStep ==
    ASSUME StoreInv, NEW ts, ts \in SUBSET Task, ts # {}, Prepare(ts)
    PROVE  StoreInv'
<1>1. /\ Bounded /\ tasks' = ts /\ drifted' = {} /\ UNCHANGED <<accepted, restored, refused>>
      /\ store' = [k \in Kind |->
             [jobs |-> PreparedJobs(k, ts),
              rows |-> [t \in Task |-> IF t \in ts THEN PreparedRow(k, ts, t) ELSE Null],
              second |-> store[k].second]]
      /\ removed' = removed \cup {j \in StoreJob : TaskOf[j] \notin ts
                                                     /\ \E k \in Kind : store[k].jobs[j] # "NONE"}
  BY DEF Prepare
<1>2. \A k \in Kind, t \in ts : PreparedTo(k, ts, t)
  BY PreparedRowEffect
<1>3. \A k \in Kind : PreparedJobs(k, ts) \in JobTable /\ \A i \in StoreJob :
         PreparedJobs(k, ts)[i] = IF TaskOf[i] \notin ts THEN "NONE"
              ELSE IF store[k].jobs[i] = "RETRYING" THEN "QUEUEING" ELSE store[k].jobs[i]
  BY PreparedTable
<1>4. ASSUME NEW k \in Kind
      PROVE  /\ store'[k] \in StoreType /\ store'[k].jobs = PreparedJobs(k, ts)
             /\ store'[k].second = store[k].second
             /\ \A t \in Task : store'[k].rows[t] = IF t \in ts THEN PreparedRow(k, ts, t) ELSE Null
  <2> DEFINE z == store'[k]
             p == PreparedJobs(k, ts)
             q == store[k].second
             w == [t \in Task |-> IF t \in ts THEN PreparedRow(k, ts, t) ELSE Null]
  <2>1. z = [jobs |-> p, rows |-> w, second |-> q]
    BY <1>1
  <2>2. \A t \in ts : PreparedRow(k, ts, t) \in LoadedRow
    BY <1>2 DEF PreparedTo
  <2>3. w \in [Task -> LoadedRow \cup {Null}]
    BY <2>2
  <2>4. p \in JobTable /\ q \in JobTable
    BY <1>3, KindFacts DEF StoreType
  <2>5. \A t \in Task : w[t] = IF t \in ts THEN PreparedRow(k, ts, t) ELSE Null
    OBVIOUS
  <2> HIDE DEF z, p, q, w
  <2>6. z \in StoreType
    BY <2>1, <2>3, <2>4 DEF StoreType
  <2> QED BY <2>1, <2>5, <2>6 DEF z, p, q
<1>5. ASSUME NEW k \in Kind, NEW i \in StoreJob
      PROVE  store'[k].jobs[i] = IF TaskOf[i] \notin ts THEN "NONE"
                ELSE IF store[k].jobs[i] = "RETRYING" THEN "QUEUEING" ELSE store[k].jobs[i]
  BY <1>3, <1>4
<1>6. StoreTypeOK'
  <2>1. store' \in [Kind -> StoreType]
    BY <1>1, <1>4
  <2>2. ops' \in 0..MaxStoreOps
    BY <1>1, OpsBounded
  <2>3. removed' \in SUBSET StoreJob
    BY <1>1 DEF StoreInv, StoreTypeOK
  <2> QED BY <1>1, <2>1, <2>2, <2>3 DEF StoreInv, StoreTypeOK
<1>7. \A k \in Kind : Placed(store[k])'
  <2> SUFFICES ASSUME NEW k \in Kind, NEW i \in StoreJob
               PROVE  /\ store'[k].jobs[i] = "NONE" \/ store'[k].second[i] = "NONE"
                      /\ i \notin accepted' =>
                            store'[k].jobs[i] = "NONE" /\ store'[k].second[i] = "NONE"
    BY DEF Placed
  <2>1. /\ store[k].jobs[i] = "NONE" \/ store[k].second[i] = "NONE"
        /\ i \notin accepted => store[k].jobs[i] = "NONE" /\ store[k].second[i] = "NONE"
    BY DEF StoreInv, Placed
  <2> QED BY <1>1, <1>4, <1>5, <2>1
<1>8. AcceptedIsStored'
  <2> SUFFICES ASSUME NEW k \in Kind, NEW i, i \in accepted' \ (removed' \cup refused')
               PROVE  \/ store'[k].jobs[i] # "NONE"
                      \/ store'[k].second[i] # "NONE"
                      \/ k = "sql" /\ i \in restored'
    BY DEF AcceptedIsStored
  <2>1. /\ i \in StoreJob /\ i \in accepted \ (removed \cup refused)
        /\ TaskOf[i] \in ts \/ store[k].jobs[i] = "NONE"
    BY <1>1 DEF StoreInv, StoreTypeOK
  <2>2. \/ store[k].jobs[i] # "NONE" \/ store[k].second[i] # "NONE"
        \/ k = "sql" /\ i \in restored
    BY <2>1 DEF StoreInv, AcceptedIsStored
  <2>3. store[k].jobs[i] # "NONE" => store'[k].jobs[i] # "NONE"
    BY <1>5, <2>1
  <2> QED BY <1>1, <1>4, <2>2, <2>3
<1>9. \A t \in Task : Alike(t)'
  <2> SUFFICES ASSUME NEW t \in Task, ~Restored(t)
               PROVE  Alike(t)'
    BY <1>1 DEF Alike, Restored
  <2>1. /\ \A i \in StoreJob : TaskOf[i] = t => store["sql"].jobs[i] = store["mongo"].jobs[i]
        /\ Held(store["sql"].rows[t]) <=> Held(store["mongo"].rows[t])
    BY DEF StoreInv, Alike
  <2>2. t \notin ts => \A k \in Kind, i \in StoreJob : TaskOf[i] = t => store'[k].jobs[i] = "NONE"
    BY <1>5
  <2>3. \A i \in StoreJob : TaskOf[i] = t => store'["sql"].jobs[i] = store'["mongo"].jobs[i]
    BY <1>5, <2>1, KindFacts
  <2>4. /\ store'["sql"].rows[t] = Null <=> store'["mongo"].rows[t] = Null
        /\ Held(store'["sql"].rows[t]) <=> Held(store'["mongo"].rows[t])
    <3>1. CASE t \notin ts
      BY <1>4, <3>1, KindFacts
    <3>2. CASE t \in ts
      <4>1. HasHold("sql") /\ HasHold("mongo")
        BY DEF HasHold
      <4>2. \A k \in Kind : HasHold(k) =>
               store'[k].rows[t] # Null /\ (Held(store'[k].rows[t]) <=> Held(store[k].rows[t]))
        BY <1>2, <1>4, <3>2, RowFacts DEF PreparedTo
      <4> QED BY <2>1, <4>1, <4>2, KindFacts
    <3> QED BY <3>1, <3>2
  <2> QED BY <1>1, <2>2, <2>3, <2>4 DEF Alike
<1>10. \A k \in Kind, t \in tasks' : Exact(store[k], t, ExactColumns(k, t))'
  <2> SUFFICES ASSUME NEW k \in Kind, NEW t \in ts
               PROVE  Exact(store[k], t, ExactColumns(k, t))'
    BY <1>1
  <2> DEFINE r == store'[k].rows[t]
             after == store'[k].jobs
             cols == ExactColumns(k, t)'
  <2>1. r = PreparedRow(k, ts, t) /\ after = PreparedJobs(k, ts)
    BY <1>4
  <2>2. cols \subseteq Columns(k)
    BY DEF ExactColumns
  <2> HIDE DEF r, after, cols
  <2>3. r # Null /\ \A c \in cols : r.count[c] = Number(after, t, c)
    BY <1>2, <2>1, <2>2, RowFacts DEF PreparedTo
  <2> QED BY <2>3 DEF Exact, r, after, cols
<1> QED BY <1>6, <1>7, <1>8, <1>9, <1>10 DEF StoreInv

-----------------------------------------------------------------------------
\* The theorems

\* No job, no summary and no task at the start
LEMMA StoreInitInv == StoreInit => StoreInv
<1> SUFFICES ASSUME StoreInit
             PROVE  StoreInv
  OBVIOUS
<1>1. \A k \in Kind : store[k] = [jobs |-> [j \in StoreJob |-> "NONE"],
                                  rows |-> [t \in Task |-> Null],
                                  second |-> [j \in StoreJob |-> "NONE"]]
  BY DEF StoreInit
<1>2. \A k \in Kind : store[k] \in StoreType /\ \A j \in StoreJob :
                         store[k].jobs[j] = "NONE" /\ store[k].second[j] = "NONE"
  BY <1>1 DEF StoreType, JobTable
<1>3. \A k \in Kind, t \in Task : store[k].rows[t] = Null
  BY <1>1
<1>4. StoreTypeOK
  BY <1>2, StoreAssumption DEF StoreInit, StoreTypeOK
<1>5. AcceptedIsStored /\ \A k \in Kind : Placed(store[k])
  BY <1>2 DEF StoreInit, AcceptedIsStored, Placed
<1>6. \A k \in Kind, t \in tasks : Exact(store[k], t, ExactColumns(k, t))
  BY DEF StoreInit
<1>7. \A t \in Task : Alike(t)
  <2>1. "sql" \in Kind /\ "mongo" \in Kind
    BY DEF Kind
  <2> QED BY <1>2, <1>3, <2>1 DEF Alike, Held
<1> QED BY <1>4, <1>5, <1>6, <1>7 DEF StoreInv

\* Every operation of the engine, in all three stores, keeps the invariant.
LEMMA StoreNextInv == StoreInv /\ [StoreNext]_storeVars => StoreInv'
<1> SUFFICES ASSUME StoreInv, [StoreNext]_storeVars
             PROVE  StoreInv'
  OBVIOUS
<1>1. ASSUME NEW ts \in (SUBSET Task) \ {{}}, Prepare(ts)
      PROVE  StoreInv'
  <2>1. ts \in SUBSET Task /\ ts # {}
    OBVIOUS
  <2> QED BY <1>1, <2>1, PrepareStep
<1>2. ASSUME NEW j \in StoreJob, AddJob(j) \/ AddJobSecondary(j)
      PROVE  StoreInv'
  BY <1>2, AddJobStep, AddJobSecondaryStep
<1>3. ASSUME NEW j \in StoreJob,
             \/ ExecJob(j) \/ \E s \in {"SUCCESS", "FAILURE", "QUEUEING"} : FinishJob(j, s)
             \/ StopJob(j) \/ RetryJob(j)
      PROVE  StoreInv'
  BY <1>3, MoveSteps
<1>4. ASSUME NEW j \in StoreJob, DeleteJob(j) \/ Retention(j)
      PROVE  StoreInv'
  BY <1>4, DeleteJobStep, RetentionStep
<1>5. ASSUME NEW t \in Task,
             \/ StopAllJob(t) \/ RetryAllJob(t)
             \/ \E sts \in {{"FAILURE", "STOPPED"}, {"SUCCESS"}} : CleanJobs(t, sts)
      PROVE  StoreInv'
  BY <1>5, ShiftSteps
<1>6. ASSUME NEW t \in Task, HoldJobTask(t)
      PROVE  StoreInv'
  BY <1>6, HoldJobTaskStep
<1>7. CASE RecalculateSummary
  BY <1>7, RecalculateStep
<1>8. CASE BroadcastTaskList
  <2>1. UNCHANGED aspects /\ Bounded
    BY <1>8 DEF BroadcastTaskList, Running, history, aspects
  <2> QED BY <2>1, IdleStep
<1>9. ASSUME NEW failing \in SUBSET StoreJob, RestoreFromSecondary(failing)
      PROVE  StoreInv'
  BY <1>9, RestoreStep
<1>10. CASE UNCHANGED storeVars
  <2>1. UNCHANGED aspects /\ ops' = ops
    BY <1>10 DEF storeVars, history, aspects
  <2> QED BY <2>1, IdleStep
<1> QED BY <1>1, <1>2, <1>3, <1>4, <1>5, <1>6, <1>7, <1>8, <1>9, <1>10 DEF StoreNext

\* The inductive invariant of the three stores holds in every behaviour.
THEOREM StoreInvariant == StoreSpec => []StoreInv
<1>1. StoreInit => StoreInv
  BY StoreInitInv
<1>2. StoreInv /\ [StoreNext]_storeVars => StoreInv'
  BY StoreNextInv
<1> QED BY <1>1, <1>2, PTL DEF StoreSpec

(***************************************************************************)
(* The SQL store and the Mongo store hold the same jobs with the same      *)
(* statuses, as long as no job of the task was restored from a secondary:  *)
(* for every number of jobs and tasks and every sequence of operations.    *)
(***************************************************************************)
THEOREM StoresStayAlike == StoreSpec => []StoresAgree
<1>1. StoreInv => StoresAgree
  BY StoreAssumption DEF StoreInv, Alike, StoresAgree
<1> QED BY <1>1, StoreInvariant, PTL

(***************************************************************************)
(* The counters of a registered task are the numbers of its jobs, in each  *)
(* store and up to the two exceptions that CountersExact names, although   *)
(* all of the operations keep them by increments.                          *)
(***************************************************************************)
THEOREM CountersStayExact == StoreSpec => []CountersExact
<1>1. StoreInv => CountersExact
  <2> SUFFICES ASSUME StoreInv, NEW k \in Kind, NEW t \in tasks, t \notin drifted,
                      ~(k = "sql" /\ Restored(t))
               PROVE  /\ store[k].rows[t] # Null
                      /\ \A s \in IF k = "memory" THEN Counted ELSE JobStatus :
                            store[k].rows[t].count[s] = Existing(k, t, s)
    BY DEF CountersExact
  <2>1. Exact(store[k], t, ExactColumns(k, t)) /\ ExactColumns(k, t) = Columns(k)
    BY DEF StoreInv, ExactColumns
  <2>2. \A s : Existing(k, t, s) = Number(store[k].jobs, t, s)
    BY DEF Existing, Number
  <2> QED BY <2>1, <2>2 DEF Exact, Columns
<1> QED BY <1>1, StoreInvariant, PTL

(***************************************************************************)
(* AddJob loses nothing: a job it accepted is in the store or in the       *)
(* secondary until somebody removes it, except for the jobs that           *)
(* RestoreFromSecondary saves in the SQL store or fails to save.           *)
(***************************************************************************)
THEOREM AcceptedStaysStored == StoreSpec => []AcceptedIsStored
<1>1. StoreInv => AcceptedIsStored
  BY DEF StoreInv
<1> QED BY <1>1, StoreInvariant, PTL
=============================================================================
