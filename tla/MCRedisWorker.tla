---------------------------- MODULE MCRedisWorker ----------------------------
(***************************************************************************)
(* One delayed message in two runtimes with one slot each.                 *)
(***************************************************************************)
EXTENDS RedisWorker

CONSTANTS r1, r2, m1, k1, g1, g2

MCHome == [g \in Goroutine |-> IF g = g2 THEN r2 ELSE r1]
=============================================================================
