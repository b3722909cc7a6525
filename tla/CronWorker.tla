----------------------------- MODULE CronWorker -----------------------------
(***************************************************************************)
(* The cron worker (src/codebase/app/cron_worker) in every runtime of a    *)
(* service: Serve and its select, the goroutine of each run, Shutdown, and *)
(* the lock keys the runtimes share in Redis.                              *)
(*                                                                         *)
(* A goroutine takes one step per operation on state another goroutine can *)
(* reach.  The semaphore of a job and the wait group are not variables:    *)
(* both count goroutines, so they follow from pc.  What a handler does,    *)
(* traces and logs are left out; a handler that fails or panics goes on to *)
(* the deferred calls like one that returns.  refreshWorker only makes     *)
(* Serve select once more, so it is left out too.                          *)
(***************************************************************************)
EXTENDS Integers, FiniteSets

CONSTANTS Runtime,        \* processes that run the cron worker of the service
          Job,            \* its jobs, by handler name
          Goroutine,      \* slots for runs: bounds how many live at once
          Home,           \* the runtime of each slot
          NoJob,          \* an idle slot
          Repeat,         \* how the ticker of a job goes on after a tick, see Renews
          MaxGoroutines,  \* SetMaxGoroutines
          MaxCrashes      \* bound: crashes of a runtime in a behaviour

\* "never": a plain duration; "once": a start time, then a duration; "always": a cron expression
Renews == {"never", "once", "always"}

ASSUME CronAssumption ==
    /\ Home \in [Goroutine -> Runtime]
    /\ Repeat \in [Job -> Renews] /\ Job # {} /\ NoJob \notin Job
    /\ MaxGoroutines \in Nat \ {0} /\ MaxCrashes \in Nat

VARIABLES keys,           \* the jobs whose lock key exists
          serve,          \* where the goroutine that starts and serves the worker is
          shutdown,       \* where the goroutine that shuts it down is
          todo,           \* what the loop of Reset or stopAllJob has left
          armed,          \* the ticker of the job is running
          tick,           \* a tick is waiting in the channel of that ticker
          renew,          \* whether the next tick replaces the ticker
          cancelled,      \* ctxCancelFunc was called
          pc, job,        \* of each run
          intruded,       \* history: Reset has deleted the key of a run that was going on
          crashes

ticker == <<armed, tick, renew>>
run == <<pc, job>>
vars == <<keys, serve, shutdown, todo, ticker, cancelled, run, intruded, crashes>>

Init ==
    /\ keys = {}
    /\ serve = [r \in Runtime |-> "off"] /\ shutdown = [r \in Runtime |-> "none"]
    /\ todo = [r \in Runtime |-> {}]
    /\ armed = [r \in Runtime |-> [j \in Job |-> FALSE]]
    /\ tick = [r \in Runtime |-> [j \in Job |-> FALSE]]
    /\ renew = [r \in Runtime |-> Repeat]
    /\ cancelled = [r \in Runtime |-> FALSE]
    /\ pc = [p \in Goroutine |-> "idle"] /\ job = [p \in Goroutine |-> NoJob]
    /\ intruded = FALSE /\ crashes = 0

\* The runs of job j that are in the semaphore, and the ones the wait group counts
InSemaphore(r, j) == {p \in Goroutine : Home[p] = r /\ job[p] = j}
InWaitGroup(r) == {p \in Goroutine : Home[p] = r /\ pc[p] \notin {"idle", "release"}}

\* The runs that have the lock of job j as far as they know
Holders(j) == {p \in Goroutine : job[p] = j /\ pc[p] = "handle"}

-----------------------------------------------------------------------------
\* NewWorker, and Reset, which it shares with Shutdown

\* Mutant: the worker starts without Reset
StartNoReset(r) ==
    /\ serve[r] = "off"
    /\ serve' = [serve EXCEPT ![r] = "reset"]
    /\ UNCHANGED <<keys, shutdown, todo, ticker, cancelled, run, intruded, crashes>>

\* NewWorker up to KEYS of Reset, which finds the keys of every runtime
Start(r) ==
    /\ serve[r] = "off"
    /\ serve' = [serve EXCEPT ![r] = "reset"]
    /\ todo' = [todo EXCEPT ![r] = keys]
    /\ UNCHANGED <<keys, shutdown, ticker, cancelled, run, intruded, crashes>>

\* One DEL of Reset: the key may be another one of the same name by now.
ResetKey(r, j) ==
    /\ serve[r] = "reset" \/ shutdown[r] = "reset"
    /\ j \in todo[r]
    /\ todo' = [todo EXCEPT ![r] = @ \ {j}]
    /\ keys' = keys \ {j}
    /\ intruded' = (intruded \/ Holders(j) # {})
    /\ UNCHANGED <<serve, shutdown, ticker, cancelled, run, crashes>>

\* addJob for every handler starts the tickers, and Serve selects on them.
StartJobs(r) ==
    /\ serve[r] = "reset" /\ todo[r] = {}
    /\ serve' = [serve EXCEPT ![r] = "select"]
    /\ armed' = [armed EXCEPT ![r] = [j \in Job |-> TRUE]]
    /\ tick' = [tick EXCEPT ![r] = [j \in Job |-> FALSE]]
    /\ renew' = [renew EXCEPT ![r] = Repeat]
    /\ UNCHANGED <<keys, shutdown, todo, cancelled, run, intruded, crashes>>

-----------------------------------------------------------------------------
\* Serve

TickerFires(r, j) ==
    /\ armed[r][j] /\ ~tick[r][j] /\ serve[r] = "select"
    /\ tick' = [tick EXCEPT ![r][j] = TRUE]
    /\ UNCHANGED <<keys, serve, shutdown, todo, armed, renew, cancelled, run,
                   intruded, crashes>>

\* Mutant: a fixed delay before a repeated interval replaces the ticker without starting it
RegisterNextIntervalStopped(r, j) ==
    /\ tick' = [tick EXCEPT ![r][j] = FALSE]
    /\ armed' = [armed EXCEPT ![r][j] = @ /\ renew[r][j] # "once"]
    /\ renew' = [renew EXCEPT ![r][j] = IF @ = "once" THEN "never" ELSE @]

(***************************************************************************)
(* registerNextInterval after the tick was received: a new ticker runs     *)
(* also when stopAllJob has just stopped the one it replaces.              *)
(***************************************************************************)
RegisterNextInterval(r, j) ==
    /\ tick' = [tick EXCEPT ![r][j] = FALSE]
    /\ armed' = [armed EXCEPT ![r][j] = @ \/ renew[r][j] # "never"]
    /\ renew' = [renew EXCEPT ![r][j] = IF @ = "once" THEN "never" ELSE @]

SemaphoreFull(r, j) == Cardinality(InSemaphore(r, j)) >= MaxGoroutines

\* Serve receives a tick and starts a run in a goroutine.
ServeRun(r, j, p) ==
    /\ serve[r] = "select" /\ tick[r][j]
    /\ RegisterNextInterval(r, j)
    /\ ~SemaphoreFull(r, j)
    /\ Home[p] = r /\ pc[p] = "idle"
    /\ pc' = [pc EXCEPT ![p] = "begin"] /\ job' = [job EXCEPT ![p] = j]
    /\ UNCHANGED <<keys, serve, shutdown, todo, cancelled, intruded, crashes>>

\* The tick is lost when the semaphore of the job is full.
ServeSkip(r, j) ==
    /\ serve[r] = "select" /\ tick[r][j]
    /\ RegisterNextInterval(r, j)
    /\ SemaphoreFull(r, j)
    /\ UNCHANGED <<keys, serve, shutdown, todo, cancelled, run, intruded, crashes>>

\* Shutdown and Serve meet on the shutdown channel.
ServeShutdown(r) ==
    /\ serve[r] = "select" /\ shutdown[r] = "send"
    /\ serve' = [serve EXCEPT ![r] = "returned"]
    /\ shutdown' = [shutdown EXCEPT ![r] = "wait"]
    /\ UNCHANGED <<keys, todo, ticker, cancelled, run, intruded, crashes>>

-----------------------------------------------------------------------------
\* The goroutine of a run, and processJob

Step(p, from, to) == pc[p] = from /\ pc' = [pc EXCEPT ![p] = to]

RunBegin(p) ==
    /\ Step(p, "begin", IF cancelled[Home[p]] THEN "done" ELSE "lock")
    /\ UNCHANGED <<keys, serve, shutdown, todo, ticker, cancelled, job, intruded, crashes>>

\* Mutant: a key that exists does not keep the run from the handler
RunLockAny(p) ==
    /\ Step(p, "lock", "handle")
    /\ keys' = keys \cup {job[p]}
    /\ UNCHANGED <<serve, shutdown, todo, ticker, cancelled, job, intruded, crashes>>

\* Mutant: a run that finds the key ends without its deferred calls
RunLockExits(p) ==
    /\ Step(p, "lock", IF job[p] \in keys THEN "exited" ELSE "handle")
    /\ keys' = keys \cup {job[p]}
    /\ UNCHANGED <<serve, shutdown, todo, ticker, cancelled, job, intruded, crashes>>

\* IsLocked: INCR, and the lock is taken when the key did not exist
RunLock(p) ==
    /\ Step(p, "lock", IF job[p] \in keys THEN "done" ELSE "handle")
    /\ keys' = keys \cup {job[p]}
    /\ UNCHANGED <<serve, shutdown, todo, ticker, cancelled, job, intruded, crashes>>

\* The handler returns and the deferred Unlock deletes the key, whoever made it.
RunHandler(p) ==
    /\ Step(p, "handle", "done")
    /\ keys' = keys \ {job[p]}
    /\ UNCHANGED <<serve, shutdown, todo, ticker, cancelled, job, intruded, crashes>>

RunDone(p) ==
    /\ Step(p, "done", "release")
    /\ UNCHANGED <<keys, serve, shutdown, todo, ticker, cancelled, job, intruded, crashes>>

RunRelease(p) ==
    /\ Step(p, "release", "idle")
    /\ job' = [job EXCEPT ![p] = NoJob]
    /\ UNCHANGED <<keys, serve, shutdown, todo, ticker, cancelled, intruded, crashes>>

-----------------------------------------------------------------------------
\* Shutdown

Shutdown(r) ==
    /\ serve[r] = "select" /\ shutdown[r] = "none"
    /\ shutdown' = [shutdown EXCEPT ![r] = "stop"]
    /\ todo' = [todo EXCEPT ![r] = Job]
    /\ UNCHANGED <<keys, serve, ticker, cancelled, run, intruded, crashes>>

\* stopAllJob stops the ticker a job has now; a tick in its channel stays.
StopTicker(r, j) ==
    /\ shutdown[r] = "stop" /\ j \in todo[r]
    /\ todo' = [todo EXCEPT ![r] = @ \ {j}]
    /\ armed' = [armed EXCEPT ![r][j] = FALSE]
    /\ UNCHANGED <<keys, serve, shutdown, tick, renew, cancelled, run, intruded, crashes>>

\* Mutant: Shutdown goes on without waiting for Serve to return
ShutdownSendAsync(r) ==
    /\ shutdown[r] = "stop" /\ todo[r] = {}
    /\ shutdown' = [shutdown EXCEPT ![r] = "wait"]
    /\ UNCHANGED <<keys, serve, todo, ticker, cancelled, run, intruded, crashes>>

ShutdownSend(r) ==
    /\ shutdown[r] = "stop" /\ todo[r] = {}
    /\ shutdown' = [shutdown EXCEPT ![r] = "send"]
    /\ UNCHANGED <<keys, serve, todo, ticker, cancelled, run, intruded, crashes>>

\* wg.Wait, ctxCancelFunc and KEYS of Reset
ShutdownWait(r) ==
    /\ shutdown[r] = "wait" /\ InWaitGroup(r) = {}
    /\ shutdown' = [shutdown EXCEPT ![r] = "reset"]
    /\ cancelled' = [cancelled EXCEPT ![r] = TRUE]
    /\ todo' = [todo EXCEPT ![r] = keys]
    /\ UNCHANGED <<keys, serve, ticker, run, intruded, crashes>>

ShutdownReturn(r) ==
    /\ shutdown[r] = "reset" /\ todo[r] = {}
    /\ shutdown' = [shutdown EXCEPT ![r] = "returned"]
    /\ UNCHANGED <<keys, serve, todo, ticker, cancelled, run, intruded, crashes>>

(***************************************************************************)
(* The process dies; a supervisor starts it again.  What it had in Redis   *)
(* stays.                                                                  *)
(***************************************************************************)
Crash(r) ==
    /\ crashes < MaxCrashes /\ crashes' = crashes + 1
    /\ serve[r] # "off" /\ shutdown[r] # "returned"
    /\ serve' = [serve EXCEPT ![r] = "off"]
    /\ shutdown' = [shutdown EXCEPT ![r] = "none"]
    /\ todo' = [todo EXCEPT ![r] = {}]
    /\ armed' = [armed EXCEPT ![r] = [j \in Job |-> FALSE]]
    /\ tick' = [tick EXCEPT ![r] = [j \in Job |-> FALSE]]
    /\ renew' = [renew EXCEPT ![r] = Repeat]
    /\ cancelled' = [cancelled EXCEPT ![r] = FALSE]
    /\ pc' = [p \in Goroutine |-> IF Home[p] = r THEN "idle" ELSE pc[p]]
    /\ job' = [p \in Goroutine |-> IF Home[p] = r THEN NoJob ELSE job[p]]
    /\ UNCHANGED <<keys, intruded>>

-----------------------------------------------------------------------------
Run(p) ==
    \/ RunBegin(p) \/ RunLock(p) \/ RunHandler(p) \/ RunDone(p) \/ RunRelease(p)

ServeTick(r, j) == ServeSkip(r, j) \/ \E p \in Goroutine : ServeRun(r, j, p)

ShutdownStep(r) ==
    \/ \E j \in Job : StopTicker(r, j)
    \/ ShutdownSend(r) \/ ShutdownWait(r) \/ ShutdownReturn(r)

Boot(r) == Start(r) \/ StartJobs(r) \/ \E j \in Job : ResetKey(r, j)

Next ==
    \/ \E p \in Goroutine : Run(p)
    \/ \E r \in Runtime :
          \/ Boot(r) \/ ServeShutdown(r) \/ Shutdown(r) \/ ShutdownStep(r)
          \/ Crash(r)
          \/ \E j \in Job : TickerFires(r, j) \/ ServeTick(r, j)

Spec == Init /\ [][Next]_vars

(***************************************************************************)
(* Goroutines and tickers go on; the supervisor starts what crashed.  The  *)
(* select of Serve picks at random among the channels that are ready, so a *)
(* channel that is ready again and again is picked: strong fairness.       *)
(***************************************************************************)
FairSpec ==
    /\ Spec
    /\ \A p \in Goroutine : WF_vars(Run(p))
    /\ \A r \in Runtime :
          /\ WF_vars(Boot(r)) /\ WF_vars(ShutdownStep(r)) /\ SF_vars(ServeShutdown(r))
          /\ \A j \in Job : WF_vars(TickerFires(r, j)) /\ SF_vars(ServeTick(r, j))

-----------------------------------------------------------------------------
\* Properties

RunLabel == {"begin", "lock", "handle", "done", "release"}

(***************************************************************************)
(* The types of the variables.  A slot has a job exactly while its         *)
(* goroutine is in the semaphore of that job, from the send of Serve to    *)
(* the receive of the deferred call.                                       *)
(***************************************************************************)
TypeOK ==
    /\ keys \subseteq Job
    /\ serve \in [Runtime -> {"off", "reset", "select", "returned"}]
    /\ shutdown \in [Runtime -> {"none", "stop", "send", "wait", "reset", "returned"}]
    /\ todo \in [Runtime -> SUBSET Job]
    /\ armed \in [Runtime -> [Job -> BOOLEAN]] /\ tick \in [Runtime -> [Job -> BOOLEAN]]
    /\ renew \in [Runtime -> [Job -> Renews]]
    /\ cancelled \in [Runtime -> BOOLEAN]
    /\ pc \in [Goroutine -> RunLabel \cup {"idle"}]
    /\ job \in [Goroutine -> Job \cup {NoJob}]
    /\ \A p \in Goroutine : pc[p] = "idle" <=> job[p] = NoJob
    /\ intruded \in BOOLEAN /\ crashes \in 0..MaxCrashes

(***************************************************************************)
(* "lock for multiple worker": the handler of a job runs once at a time in *)
(* all runtimes, until the Reset of a runtime that starts or stops deletes *)
(* the key of a run in another one.                                        *)
(***************************************************************************)
OneHandlerPerJob ==
    ~intruded => \A j \in Job : \A p, q \in Holders(j) : p = q

(***************************************************************************)
(* A lock key without a run that holds it, the trace of a crash, is gone   *)
(* when every runtime is up again: otherwise no runtime would ever run the *)
(* job.                                                                    *)
(***************************************************************************)
NoOrphanKey ==
    \A j \in keys :
        \/ Holders(j) # {}
        \/ \E r \in Runtime : serve[r] = "off" \/ (serve[r] = "reset" /\ j \in todo[r])

(***************************************************************************)
(* From the Reset of Shutdown on, no goroutine of the runtime is in a run: *)
(* Reset deletes no key of its own runs, and ctxCancelFunc interrupts no   *)
(* handler.                                                                *)
(***************************************************************************)
ShutdownDrains ==
    \A r \in Runtime : shutdown[r] \in {"reset", "returned"} => InWaitGroup(r) = {}

(***************************************************************************)
(* Every job is run again and again, in one runtime or another, whatever   *)
(* crashes there are, unless a runtime is shut down.                       *)
(***************************************************************************)
JobKeepsRunning ==
    \A j \in Job :
        []<>(Holders(j) # {} \/ \E r \in Runtime : shutdown[r] # "none")

\* Shutdown returns, also when ticks keep coming, or the process dies first.
ShutdownReturns ==
    \A r \in Runtime : shutdown[r] = "stop" ~> (shutdown[r] = "returned" \/ serve[r] = "off")
=============================================================================
