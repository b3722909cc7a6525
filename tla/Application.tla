---------------------------- MODULE Application ----------------------------
(***************************************************************************)
(* A service built on App (src/codebase/app/app.go): Run starts the        *)
(* applications that the environment enables, waits for a signal, and      *)
(* shuts them down one after another in the order they were registered,    *)
(* for at most the shutdown timeout.  The Kafka consumer and the postgres  *)
(* listener are the modules extended here; the HTTP servers (REST, or      *)
(* GraphQL alone) and the gRPC server are modelled by their listener and   *)
(* the requests they have accepted and not answered.  The workers that     *)
(* have modules of their own elsewhere are left out of the instances.      *)
(***************************************************************************)
EXTENDS PostgresWorker, KafkaWorker

CONSTANTS Deployments,    \* the USE_ flags considered, each with the processes that run
          Signalled,      \* bound: the processes that may be told to stop
          MaxRequests,    \* bound: so many requests or streams arrive
          MaxSignals      \* bound: so many signals and calls of App.Shutdown, counted
                          \* once per process

ASSUME ApplicationAssumption ==
    /\ \A d \in Deployments : d.pods \subseteq Pod /\ d.pods # {}
    /\ MaxRequests \in Nat /\ MaxSignals \in Nat

VARIABLES apps,      \* the applications of the service, the same in every process
          app,       \* Run and shutdown of a process
          server,    \* its HTTP or gRPC server
          caller,    \* the goroutine that calls App.Shutdown
          requests, signals

appVars == <<apps, app, server, caller, requests, signals>>
vars == <<appVars, pgVars, kVars, exit>>

HTTP == {"rest", "graphql"}

\* The order in which the applications are registered; REST serves GraphQL too.
Use(f, a) == IF a \in f THEN <<a>> ELSE <<>>

NewAppFromEnvironmentConfig(f) ==
    Use(f, "kafka") \o Use(f, "cron") \o Use(f, "task_queue") \o Use(f, "redis")
        \o Use(f, "postgres") \o Use(f, "rabbitmq") \o Use(f, "rest") \o Use(f, "grpc")
        \o (IF "rest" \in f THEN <<>> ELSE Use(f, "graphql"))

Enabled(a) == \E i \in DOMAIN apps : apps[i] = a
Server == IF \E a \in HTTP \cup {"grpc"} : Enabled(a)
          THEN CHOOSE a \in HTTP \cup {"grpc"} : Enabled(a) ELSE None

Init ==
    /\ PgInit /\ KafkaInit
    /\ \E d \in Deployments :
          /\ apps = NewAppFromEnvironmentConfig(d.flags)
          /\ exit = [p \in Pod |-> IF p \in d.pods THEN "none" ELSE "absent"]
    /\ app = [p \in Pod |-> [run |-> "starting", quit |-> FALSE, stopping |-> 0,
                             timeout |-> FALSE]]
    /\ server = [p \in Pod |-> [serve |-> "off", stop |-> "no", open |-> 0]]
    /\ caller = [p \in Pod |-> "no"]
    /\ requests = 0 /\ signals = 0

-----------------------------------------------------------------------------
(***************************************************************************)
(* Run.  checkRequired panics when no application is registered.  A signal *)
(* that arrives before signal.Notify ends the process; afterwards one fits *)
(* in quitSignal and more are dropped.                                     *)
(***************************************************************************)
Run(p) ==
    /\ Alive(p) /\ app[p].run = "starting"
    /\ IF apps = <<>>
       THEN exit' = [exit EXCEPT ![p] = "panic"] /\ UNCHANGED app
       ELSE app' = [app EXCEPT ![p].run = "select"] /\ UNCHANGED exit
    /\ UNCHANGED <<apps, server, caller, requests, signals, pgVars, kVars>>

Signal(p) ==
    /\ Alive(p) /\ p \in Signalled /\ (signals + 1) * Replicas <= MaxSignals
    /\ apps # <<>>
    /\ signals' = signals + 1
    /\ IF app[p].run = "starting"
       THEN exit' = [exit EXCEPT ![p] = "killed"] /\ UNCHANGED app
       ELSE app' = [app EXCEPT ![p].quit = TRUE] /\ UNCHANGED exit
    /\ UNCHANGED <<apps, server, caller, requests, pgVars, kVars>>

\* App.Shutdown: it blocks until quitSignal has room, then waits for a.done.
CallShutdown(p) ==
    /\ Alive(p) /\ p \in Signalled /\ (signals + 1) * Replicas <= MaxSignals
    /\ apps # <<>> /\ caller[p] = "no" /\ ~app[p].quit
    /\ signals' = signals + 1
    /\ app' = [app EXCEPT ![p].quit = TRUE]
    /\ caller' = [caller EXCEPT ![p] = "waits"]
    /\ UNCHANGED <<apps, server, requests, pgVars, kVars, exit>>

BeginShutdown(p) ==
    /\ Alive(p) /\ app[p].run = "select" /\ app[p].quit
    /\ app' = [app EXCEPT ![p].run = "shutdown", ![p].quit = FALSE, ![p].stopping = 1]
    /\ UNCHANGED <<apps, server, caller, requests, signals, pgVars, kVars, exit>>

\* A panic of Serve reaches Run only while Run still waits; later nobody receives it.
ServePanics(p) ==
    /\ Alive(p) /\ app[p].run = "select" /\ server[p].serve = "panicked"
    /\ exit' = [exit EXCEPT ![p] = "panic"]
    /\ UNCHANGED <<appVars, pgVars, kVars>>

-----------------------------------------------------------------------------
(***************************************************************************)
(* shutdown: one goroutine calls Shutdown of the applications in turn.     *)
(* `stopping' is the one whose turn it is.                                 *)
(***************************************************************************)
Turn(p, a) == app[p].stopping \in DOMAIN apps /\ apps[app[p].stopping] = a

Stop(p) ==
    /\ Alive(p)
    /\ \/ Turn(p, "postgres") /\ PgStop(p) /\ UNCHANGED <<kVars, server>>
       \/ Turn(p, "kafka") /\ KafkaStop(p) /\ UNCHANGED <<pgVars, server>>
       \/ /\ Turn(p, Server) /\ server[p].stop = "no"
          /\ server' = [server EXCEPT ![p].stop = "drain",
                                      ![p].serve = IF @ = "panicked" THEN @ ELSE "closed"]
          /\ UNCHANGED <<pgVars, kVars, exit>>
    /\ UNCHANGED <<apps, app, caller, requests, signals>>

Stopped(p) ==
    \/ Turn(p, "postgres") /\ pg[p].stop = "done"
    \/ Turn(p, "kafka") /\ kafka[p].stop = "done"
    \/ Turn(p, Server) /\ server[p].stop = "done"

\* Mutant: the applications are not waited for
StopNextEarly(p) ==
    /\ Alive(p) /\ app[p].stopping \in DOMAIN apps
    /\ app' = [app EXCEPT ![p].stopping = @ + 1]
    /\ UNCHANGED <<apps, server, caller, requests, signals, pgVars, kVars, exit>>

StopNext(p) ==
    /\ Alive(p) /\ Stopped(p)
    /\ app' = [app EXCEPT ![p].stopping = @ + 1]
    /\ UNCHANGED <<apps, server, caller, requests, signals, pgVars, kVars, exit>>

\* All are down: afterShutdown, a.done, and Run returns to main, which ends.
ShutdownSucceeds(p) ==
    /\ Alive(p) /\ app[p].stopping = Len(apps) + 1
    /\ exit' = [exit EXCEPT ![p] = "success"]
    /\ caller' = [caller EXCEPT ![p] = IF @ = "waits" THEN "returned" ELSE @]
    /\ UNCHANGED <<apps, app, server, requests, signals, pgVars, kVars>>

ForceExit(p) ==
    /\ Alive(p) /\ app[p].run = "shutdown" /\ app[p].quit
    /\ exit' = [exit EXCEPT ![p] = "forced"]
    /\ UNCHANGED <<appVars, pgVars, kVars>>

\* The context given to the Shutdown methods expires ...
Timeout(p) ==
    /\ Alive(p) /\ app[p].run = "shutdown" /\ ~app[p].timeout
    /\ app' = [app EXCEPT ![p].timeout = TRUE]
    /\ UNCHANGED <<apps, server, caller, requests, signals, pgVars, kVars, exit>>

\* Mutant: the expired context is logged and nothing else
TimeoutExitLogged(p) ==
    /\ Alive(p) /\ app[p].timeout
    /\ UNCHANGED vars

\* ... and the select of shutdown sees it, unless done is ready and chosen.
TimeoutExit(p) ==
    /\ Alive(p) /\ app[p].timeout
    /\ exit' = [exit EXCEPT ![p] = "timeout"]
    /\ UNCHANGED <<appVars, pgVars, kVars>>

-----------------------------------------------------------------------------
(***************************************************************************)
(* The servers.  REST and GraphQL open their listener in Serve and panic   *)
(* when that fails; gRPC opened it in NewServer.  http.Server.Shutdown     *)
(* waits for the open requests or the context, GracefulStop for the open   *)
(* streams, however long.                                                  *)
(***************************************************************************)
ServerServe(p) ==
    /\ Alive(p) /\ Server # None /\ server[p].serve = "off"
    /\ \E s \in {"serving"} \cup (IF Server \in HTTP THEN {"panicked"} ELSE {}) :
          server' = [server EXCEPT ![p].serve = s]
    /\ UNCHANGED <<apps, app, caller, requests, signals, pgVars, kVars, exit>>

RequestArrives(p) ==
    /\ Alive(p) /\ server[p].serve = "serving" /\ requests < MaxRequests
    /\ requests' = requests + 1
    /\ server' = [server EXCEPT ![p].open = @ + 1]
    /\ UNCHANGED <<apps, app, caller, signals, pgVars, kVars, exit>>

RequestAnswered(p) ==
    /\ Alive(p) /\ server[p].open > 0
    /\ server' = [server EXCEPT ![p].open = @ - 1]
    /\ UNCHANGED <<apps, app, caller, requests, signals, pgVars, kVars, exit>>

ServerDrained(p) ==
    /\ Alive(p) /\ server[p].stop = "drain"
    /\ server[p].open = 0 \/ (Server \in HTTP /\ app[p].timeout)
    /\ server' = [server EXCEPT ![p].stop = "done"]
    /\ UNCHANGED <<apps, app, caller, requests, signals, pgVars, kVars, exit>>

-----------------------------------------------------------------------------
AppStep(p) ==
    \/ Run(p) \/ BeginShutdown(p) \/ ServePanics(p) \/ Stop(p) \/ StopNext(p)
    \/ ShutdownSucceeds(p) \/ ForceExit(p) \/ Timeout(p) \/ TimeoutExit(p)

Next ==
    \/ \E p \in Pod :
          \/ Run(p) \/ Signal(p) \/ CallShutdown(p) \/ BeginShutdown(p) \/ ServePanics(p)
          \/ Stop(p) \/ StopNext(p) \/ ShutdownSucceeds(p)
          \/ ForceExit(p) \/ Timeout(p) \/ TimeoutExit(p)
          \/ ServerServe(p) \/ RequestArrives(p) \/ RequestAnswered(p) \/ ServerDrained(p)
    \/ Enabled("postgres") /\ PgNext /\ UNCHANGED <<appVars, kVars>>
    \/ Enabled("kafka") /\ KafkaNext /\ UNCHANGED <<appVars, pgVars>>

(***************************************************************************)
(* A process that can take a step by itself takes one: its goroutines are  *)
(* scheduled, its timer runs, handlers return.  Clients and brokers owe    *)
(* nothing: a request may stay open, an event may never come.              *)
(***************************************************************************)
ProcessStep(p) ==
    \/ AppStep(p) \/ ServerServe(p) \/ ServerDrained(p)
    \/ /\ Enabled("postgres")
       /\ \/ PgServeStep(p) \/ PgStopStep(p)
          \/ \E g \in PgSlot : PgHome[g] = p /\ PgRunStep(g)
       /\ UNCHANGED <<appVars, kVars>>
    \/ /\ Enabled("kafka") /\ (KafkaServeStep(p) \/ KafkaClose(p))
       /\ UNCHANGED <<appVars, pgVars>>

Fairness == \A p \in Pod : WF_vars(ProcessStep(p))

Spec == Init /\ [][Next]_vars /\ Fairness

-----------------------------------------------------------------------------
AppTypeOK ==
    /\ apps \in {NewAppFromEnvironmentConfig(d.flags) : d \in Deployments}
    /\ exit \in [Pod -> {"none", "absent", "success", "forced", "timeout", "panic", "fatal", "crash",
                      "killed"}]
    /\ app \in [Pod -> [run : {"starting", "select", "shutdown"}, quit : BOOLEAN,
                        stopping : 0..10, timeout : BOOLEAN]]
    /\ server \in [Pod -> [serve : {"off", "serving", "panicked", "closed"},
                           stop : {"no", "drain", "done"}, open : 0..MaxRequests]]
    /\ caller \in [Pod -> {"no", "waits", "returned"}]
    /\ requests \in 0..MaxRequests /\ signals \in 0..MaxSignals

TypeOK == AppTypeOK /\ PgTypeOK /\ KafkaTypeOK

(***************************************************************************)
(* A process that reports "Success shutdown all application" had shut down *)
(* every application: no Kafka handler was running, at most the one event  *)
(* of OneStraggler, and unless the timeout came first no request was open. *)
(***************************************************************************)
SuccessIsClean ==
    \A p \in Pod : exit[p] = "success" =>
        /\ Enabled("kafka") => kafka[p].stop = "done" /\ ~kafka[p].handler
        /\ Enabled("postgres") => pg[p].stop = "done" /\ Cardinality(Running(p)) <= 1
        /\ Server # None => server[p].stop = "done" /\ (app[p].timeout \/ server[p].open = 0)
        /\ caller[p] # "waits"

(***************************************************************************)
(* The one way to crash: Shutdown of the Kafka worker before its Serve has *)
(* stored cancelFunc.  In particular the ready channel is never closed     *)
(* twice, however often Consume fails or the group rebalances.             *)
(***************************************************************************)
CrashOnlyBeforeServe == \A p \in Pod : exit[p] = "crash" => ~kafka[p].cancelFunc

(***************************************************************************)
(* A process that was told to stop ends, whatever the applications do: a   *)
(* Serve stuck on a table without handler, a stream that stays open, a     *)
(* handler of Kafka that holds up Close.                                   *)
(***************************************************************************)
SignalEnds == \A p \in Pod : app[p].quit ~> ~Alive(p)
=============================================================================
