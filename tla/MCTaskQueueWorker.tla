------------------------- MODULE MCTaskQueueWorker -------------------------
(***************************************************************************)
(* Small instances of TaskQueueWorker.  The goroutine slots with index 2   *)
(* live in the second runtime when there is one.                           *)
(***************************************************************************)
EXTENDS TaskQueueWorker, TLC

CONSTANTS r1, r2, w1, w2, c1, c2, b1, b2

MCHome == [p \in Proc |-> IF p \in {w2, c2, b2} /\ r2 \in Runtime THEN r2 ELSE r1]

\* A cron job without limit, a job that is retried once, and jobs that are not retried
MCMaxRetry == [j \in Job |-> IF j \in CronJob THEN 0 ELSE IF j = 1 THEN 2 ELSE 1]

\* No job is retried by the engine
MCOneAttempt == [j \in Job |-> 1]

\* Without a second runtime the workers differ in nothing.
WorkerSymmetry == Permutations(Worker)

\* The calls that stop a running job, take its lock away or count the jobs anew
RunCalls == {"RetryJob", "StopJob", "StopAllJob", "RecalculateSummary"}

\* The calls that leave a running job alone and move every job by the status it has
StatusCalls == {"DeleteJob", "HoldJobTask", "RetryAllJob", "CleanJob", "RunQueuedJob"}

AllCalls == RunCalls \cup StatusCalls
=============================================================================
