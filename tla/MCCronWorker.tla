---------------------------- MODULE MCCronWorker ----------------------------
(***************************************************************************)
(* The cron worker in two runtimes, with a job that has a start time and   *)
(* then a duration, so that both branches of registerNextInterval are met. *)
(***************************************************************************)
EXTENDS CronWorker

CONSTANTS r1, r2, j1, g1, g2

MCHome == [g \in Goroutine |-> IF g = g2 THEN r2 ELSE r1]
MCRepeat == [j \in Job |-> "once"]
=============================================================================
