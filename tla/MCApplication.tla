--------------------------- MODULE MCApplication ---------------------------
(***************************************************************************)
(* Two processes of a service, each with one goroutine of the postgres     *)
(* listener, in seven deployments: a worker in one process or in two, the  *)
(* servers, a worker with a server, and a service without an application.  *)
(***************************************************************************)
EXTENDS Application

CONSTANTS p1, p2, g1, g2

MCPgHome == [g \in PgSlot |-> IF g = g2 THEN p2 ELSE p1]

MCDeployments ==
    {[flags |-> f, pods |-> {p1, p2}] : f \in {{"kafka"}, {"postgres"}}}
    \cup {[flags |-> f, pods |-> {p1}] :
              f \in {{}, {"kafka", "grpc"}, {"postgres"}, {"rest", "graphql"}, {"graphql"}}}
=============================================================================
