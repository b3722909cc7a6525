--------------------------- MODULE ServiceProcess ---------------------------
(***************************************************************************)
(* The processes that run a candi service: what the modules of their       *)
(* applications share.  A process ends when Run returns (src/codebase/app/ *)
(* app.go), when it calls os.Exit or log.Fatal, or by a panic that nobody  *)
(* recovers; its goroutines do not take another step then, and what they   *)
(* had done so far stays as it is.                                         *)
(***************************************************************************)
EXTENDS Integers, Sequences, FiniteSets

CONSTANTS Pod,    \* the processes
          None    \* no process, and no application

ASSUME ProcessAssumption == IsFiniteSet(Pod) /\ None \notin Pod \cup {"kafka", "postgres"}

VARIABLE exit     \* exit[p]: "none" while p runs, else how it ended ("absent": never started)

Alive(p) == exit[p] = "none"

\* What the bounds on inputs are shared out among.
Replicas == Cardinality({p \in Pod : exit[p] # "absent"})
=============================================================================
