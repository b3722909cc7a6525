---------------------------- MODULE MCLibraries ----------------------------
(***************************************************************************)
(* The parts of the library that do not share state with each other, each  *)
(* in behaviours of its own: focus is the part that takes steps.           *)
(*   queue      a smallest buffer of two slots, so that seven pushes take  *)
(*              it through two doublings                                   *)
(*   locker     two calls of Lock and one of each other method on one key, *)
(*              and one Reset                                              *)
(*   generator  every sequence of three commands over two module names,    *)
(*              one with a dash, and two use cases, one a prefix of the    *)
(*              other                                                      *)
(*   http       two requests, two URLs, one of them with a foreign value   *)
(*              in the cache, and two buffers in each pool                 *)
(*   stores     two jobs of one task, a second task without jobs           *)
(***************************************************************************)
EXTENDS RingQueue, RedisLocker, Generator, RestServer, JobStores
LOCAL INSTANCE Bitwise

CONSTANTS c1, c2, c3, c4, m1, m2, m2x, u1, u2, ta, tb

MCBitAnd(a, b) == a & b
MCCapacities == {2, 4, 8}

MCMethod == [c \in Call |-> CASE c = c3 -> "IsLocked"
                               [] c = c4 -> "IsLockedTTL"
                               [] OTHER  -> "Lock"]

MCClean == [m \in Module |-> IF m = m2 THEN m2x ELSE m]
MCUsecaseName == {<<"pay">>, <<"pay", "Late">>}
MCMenu == {{"rest"}, {"grpc"}, {"graphql", "kafka"}, {"redissubs", "mqtt"}, {"rabbitmq", "gcp"}}

Choice(deps, driver, gorm) == [deps |-> deps, driver |-> driver, gorm |-> gorm]
MCStack == {Choice({}, "", FALSE), Choice({"mongo", "redis"}, "", FALSE),
            Choice({"sql"}, "postgres", TRUE),
            Choice({"sql", "mongo", "arango", "redis"}, "sqlite3", FALSE)}

Asks(excluded, url, body, cacheable) ==
    [excluded |-> excluded, traced |-> TRUE, url |-> url, body |-> body, cacheable |-> cacheable]
MCProfile == {Asks(FALSE, u1, "small", TRUE), Asks(TRUE, u2, "absent", TRUE),
              Asks(TRUE, u2, "absent", FALSE)}

MCTaskOf == <<ta, ta>>

\* The names of the generator are ones the proofs speak of.
ASSUME DistinctNames

VARIABLE focus

librariesVars == <<focus, ringVars, vars, generatorVars, restVars, storeVars>>

LibrariesInit ==
    /\ focus \in {"queue", "locker", "generator", "http", "stores"}
    /\ RingInit /\ Init /\ GeneratorInit /\ RestInit /\ StoreInit
    /\ entry[u2] = None /\ (focus # "http" => entry[u1] = None)

Queue == focus = "queue" /\ RingNext /\ UNCHANGED <<vars, generatorVars, restVars, storeVars>>
Locker(A) == focus = "locker" /\ A /\ UNCHANGED <<ringVars, generatorVars, restVars, storeVars>>
Gen == focus = "generator" /\ GeneratorNext /\ UNCHANGED <<ringVars, vars, restVars, storeVars>>
Http == focus = "http" /\ RestNext /\ UNCHANGED <<ringVars, vars, generatorVars, storeVars>>
Stores == focus = "stores" /\ StoreNext /\ UNCHANGED <<ringVars, vars, generatorVars, restVars>>

LibrariesNext ==
    /\ UNCHANGED focus
    /\ Queue \/ Locker(Next) \/ Gen \/ Http \/ Stores

\* The fairness of FairSpec in RedisLocker, for the behaviours of the locker
LibrariesSpec ==
    /\ LibrariesInit /\ [][LibrariesNext]_librariesVars
    /\ \A c \in LockCalls :
          /\ WF_vars(focus = "locker" /\ Listener(c)) /\ WF_vars(focus = "locker" /\ PSubscribe(c))
          /\ WF_vars(focus = "locker" /\ (LockAcquired(c) \/ LockTimeout(c)))
          /\ WF_vars(focus = "locker" /\ LockClose(c))
=============================================================================
