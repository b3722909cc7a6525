-------------------------- MODULE MCRabbitMQWorker --------------------------
(***************************************************************************)
(* Two runtimes that consume one queue, one of them with two slots.        *)
(***************************************************************************)
EXTENDS RabbitMQWorker

CONSTANTS r1, r2, m1, m2, q1, g1, g2, g3

MCHome == [g \in Goroutine |-> IF g = g2 THEN r2 ELSE r1]
MCQueueOf == [m \in Message |-> q1]
MCAutoACK == [q \in Queue |-> TRUE]
=============================================================================
