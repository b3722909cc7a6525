-------------------------- MODULE CronWorkerProofs --------------------------
(***************************************************************************)
(* Proofs about the cron worker, for any number of runtimes, jobs, runs    *)
(* and crashes.                                                            *)
(***************************************************************************)
EXTENDS CronWorker, TLAPS

RunTypes ==
    /\ pc \in [Goroutine -> RunLabel \cup {"idle"}]
    /\ job \in [Goroutine -> Job \cup {NoJob}]
    /\ \A p \in Goroutine : pc[p] = "idle" <=> job[p] = NoJob

TickerTypes ==
    /\ armed \in [Runtime -> [Job -> BOOLEAN]] /\ tick \in [Runtime -> [Job -> BOOLEAN]]
    /\ renew \in [Runtime -> [Job -> Renews]]

ServerTypes ==
    /\ keys \subseteq Job
    /\ serve \in [Runtime -> {"off", "reset", "select", "returned"}]
    /\ shutdown \in [Runtime -> {"none", "stop", "send", "wait", "reset", "returned"}]
    /\ todo \in [Runtime -> SUBSET Job]
    /\ cancelled \in [Runtime -> BOOLEAN]
    /\ intruded \in BOOLEAN /\ crashes \in 0..MaxCrashes

\* TypeOK in the three parts an action changes one by one
Parts == ServerTypes /\ TickerTypes /\ RunTypes

\* registerNextInterval keeps the types of the tickers.
LEMMA IntervalTypes ==
    ASSUME TickerTypes, NEW r \in Runtime, NEW j \in Job, RegisterNextInterval(r, j)
    PROVE  TickerTypes'
<1>1. tick' \in [Runtime -> [Job -> BOOLEAN]]
  BY DEF TickerTypes, RegisterNextInterval
<1>2. armed' \in [Runtime -> [Job -> BOOLEAN]]
  <2>1. (armed[r][j] \/ renew[r][j] # "never") \in BOOLEAN OBVIOUS
  <2>2. armed' = [armed EXCEPT ![r] = [armed[r] EXCEPT ![j] =
                                         armed[r][j] \/ renew[r][j] # "never"]]
    BY DEF RegisterNextInterval
  <2>3. [armed[r] EXCEPT ![j] = armed[r][j] \/ renew[r][j] # "never"] \in [Job -> BOOLEAN]
    BY <2>1 DEF TickerTypes
  <2> QED BY <2>2, <2>3 DEF TickerTypes
<1>3. renew' \in [Runtime -> [Job -> Renews]]
  BY DEF TickerTypes, RegisterNextInterval, Renews
<1> QED BY <1>1, <1>2, <1>3 DEF TickerTypes

\* A step of a run keeps the types.
LEMMA RunTypeStep ==
    ASSUME Parts, NEW p \in Goroutine, Run(p) PROVE Parts'
<1> USE CronAssumption DEF Parts
<1>0. ServerTypes /\ TickerTypes /\ RunTypes OBVIOUS
<1>1. CASE RunBegin(p)
  <2>1. RunTypes' BY <1>0, <1>1 DEF RunBegin, Step, RunTypes, RunLabel
  <2> QED BY <1>0, <2>1, <1>1 DEF RunBegin, ServerTypes, TickerTypes, ticker
<1>2. CASE RunLock(p)
  <2>1. RunTypes' BY <1>0, <1>2 DEF RunLock, Step, RunTypes, RunLabel
  <2>2. job[p] \in Job BY <1>0, <1>2 DEF RunLock, Step, RunTypes
  <2>3. ServerTypes' BY <1>0, <2>2, <1>2 DEF RunLock, ServerTypes
  <2> QED BY <1>0, <2>1, <2>3, <1>2 DEF RunLock, TickerTypes, ticker
<1>3. CASE RunHandler(p)
  <2>1. RunTypes' BY <1>0, <1>3 DEF RunHandler, Step, RunTypes, RunLabel
  <2>2. ServerTypes' BY <1>0, <1>3 DEF RunHandler, ServerTypes
  <2> QED BY <1>0, <2>1, <2>2, <1>3 DEF RunHandler, TickerTypes, ticker
<1>4. CASE RunDone(p)
  <2>1. RunTypes' BY <1>0, <1>4 DEF RunDone, Step, RunTypes, RunLabel
  <2> QED BY <1>0, <2>1, <1>4 DEF RunDone, ServerTypes, TickerTypes, ticker
<1>5. CASE RunRelease(p)
  <2>1. RunTypes' BY <1>0, <1>5 DEF RunRelease, Step, RunTypes, RunLabel
  <2> QED BY <1>0, <2>1, <1>5 DEF RunRelease, ServerTypes, TickerTypes, ticker
<1> QED BY <1>1, <1>2, <1>3, <1>4, <1>5 DEF Run

\* A step of Serve, of NewWorker or of Shutdown keeps the types.
LEMMA RuntimeTypeStep ==
    ASSUME Parts, NEW r \in Runtime,
           \/ Boot(r) \/ ServeShutdown(r) \/ Shutdown(r) \/ ShutdownStep(r) \/ Crash(r)
           \/ \E j \in Job : TickerFires(r, j) \/ ServeTick(r, j)
    PROVE  Parts'
<1> USE CronAssumption DEF Parts
<1>0. ServerTypes /\ TickerTypes /\ RunTypes OBVIOUS
<1>1. CASE Start(r)
  <2>1. ServerTypes' BY <1>0, <1>1 DEF Start, ServerTypes
  <2> QED BY <1>0, <2>1, <1>1 DEF Start, TickerTypes, RunTypes, ticker, run
<1>2. ASSUME NEW j \in Job, ResetKey(r, j) PROVE Parts'
  <2>1. intruded' \in BOOLEAN BY <1>2 DEF ResetKey
  <2>2. ServerTypes' BY <1>0, <2>1, <1>2 DEF ResetKey, ServerTypes
  <2> QED BY <1>0, <2>2, <1>2 DEF ResetKey, TickerTypes, RunTypes, ticker, run
<1>3. CASE StartJobs(r)
  <2>1. ServerTypes' BY <1>0, <1>3 DEF StartJobs, ServerTypes
  <2>2. TickerTypes' BY <1>0, <1>3 DEF StartJobs, TickerTypes
  <2> QED BY <1>0, <2>1, <2>2, <1>3 DEF StartJobs, RunTypes, run
<1>4. ASSUME NEW j \in Job, TickerFires(r, j) PROVE Parts'
  <2>1. TickerTypes' BY <1>0, <1>4 DEF TickerFires, TickerTypes
  <2> QED BY <1>0, <2>1, <1>4 DEF TickerFires, ServerTypes, RunTypes, run
<1>5. ASSUME NEW j \in Job, ServeTick(r, j) PROVE Parts'
  <2>1. CASE ServeSkip(r, j)
    <3>1. TickerTypes' BY <1>0, <2>1, IntervalTypes DEF ServeSkip
    <3> QED BY <1>0, <3>1, <2>1 DEF ServeSkip, ServerTypes, RunTypes, run
  <2>2. ASSUME NEW p \in Goroutine, ServeRun(r, j, p) PROVE Parts'
    <3>1. TickerTypes' BY <1>0, <2>2, IntervalTypes DEF ServeRun
    <3>2. RunTypes' BY <1>0, <2>2 DEF ServeRun, RunTypes, RunLabel
    <3> QED BY <1>0, <3>1, <3>2, <2>2 DEF ServeRun, ServerTypes
  <2> QED BY <1>5, <2>1, <2>2 DEF ServeTick
<1>6. CASE ServeShutdown(r)
  <2>1. ServerTypes' BY <1>0, <1>6 DEF ServeShutdown, ServerTypes
  <2> QED BY <1>0, <2>1, <1>6 DEF ServeShutdown, TickerTypes, RunTypes, ticker, run
<1>7. CASE Shutdown(r)
  <2>1. ServerTypes' BY <1>0, <1>7 DEF Shutdown, ServerTypes
  <2> QED BY <1>0, <2>1, <1>7 DEF Shutdown, TickerTypes, RunTypes, ticker, run
<1>8. ASSUME NEW j \in Job, StopTicker(r, j) PROVE Parts'
  <2>1. ServerTypes' BY <1>0, <1>8 DEF StopTicker, ServerTypes
  <2>2. TickerTypes' BY <1>0, <1>8 DEF StopTicker, TickerTypes
  <2> QED BY <1>0, <2>1, <2>2, <1>8 DEF StopTicker, RunTypes, run
<1>9. CASE ShutdownSend(r)
  <2>1. ServerTypes' BY <1>0, <1>9 DEF ShutdownSend, ServerTypes
  <2> QED BY <1>0, <2>1, <1>9 DEF ShutdownSend, TickerTypes, RunTypes, ticker, run
<1>10. CASE ShutdownWait(r)
  <2>1. ServerTypes' BY <1>0, <1>10 DEF ShutdownWait, ServerTypes
  <2> QED BY <1>0, <2>1, <1>10 DEF ShutdownWait, TickerTypes, RunTypes, ticker, run
<1>11. CASE ShutdownReturn(r)
  <2>1. ServerTypes' BY <1>0, <1>11 DEF ShutdownReturn, ServerTypes
  <2> QED BY <1>0, <2>1, <1>11 DEF ShutdownReturn, TickerTypes, RunTypes, ticker, run
<1>12. CASE Crash(r)
  <2>1. crashes' \in 0..MaxCrashes BY <1>0, <1>12 DEF Crash, ServerTypes
  <2>2. ServerTypes' BY <1>0, <2>1, <1>12 DEF Crash, ServerTypes
  <2>3. TickerTypes' BY <1>0, <1>12 DEF Crash, TickerTypes
  <2>4. RunTypes' BY <1>0, <1>12 DEF Crash, RunTypes
  <2> QED BY <2>2, <2>3, <2>4
<1> QED BY <1>1, <1>2, <1>3, <1>4, <1>5, <1>6, <1>7, <1>8, <1>9, <1>10, <1>11, <1>12
        DEF Boot, ShutdownStep

(***************************************************************************)
(* The types hold, and a slot has a job exactly while it is in use.        *)
(***************************************************************************)
THEOREM CronTypes == Spec => []TypeOK
<1>1. ASSUME Init PROVE Parts
  <2>1. crashes \in 0..MaxCrashes BY <1>1, CronAssumption DEF Init
  <2>2. ServerTypes BY <1>1, <2>1 DEF Init, ServerTypes
  <2>3. TickerTypes BY <1>1, CronAssumption DEF Init, TickerTypes
  <2>4. RunTypes BY <1>1, CronAssumption DEF Init, RunTypes
  <2> QED BY <2>2, <2>3, <2>4 DEF Parts
<1>2. Parts /\ [Next]_vars => Parts'
  <2> SUFFICES ASSUME Parts, [Next]_vars PROVE Parts' OBVIOUS
  <2>1. CASE UNCHANGED vars BY <2>1 DEF vars, ticker, run, Parts, ServerTypes, TickerTypes, RunTypes
  <2>2. CASE Next BY <2>2, RunTypeStep, RuntimeTypeStep DEF Next
  <2> QED BY <2>1, <2>2
<1>3. Parts => TypeOK BY DEF Parts, TypeOK, ServerTypes, TickerTypes, RunTypes
<1> QED BY <1>1, <1>2, <1>3, PTL DEF Spec

-----------------------------------------------------------------------------
(***************************************************************************)
(* While no key was deleted under a run, every run in the handler has its  *)
(* key: with it OneHandlerPerJob is inductive, for a run enters the        *)
(* handler only when the key does not exist.                               *)
(***************************************************************************)
ExclusionInv ==
    ~intruded => /\ \A p \in Goroutine : pc[p] = "handle" => job[p] \in keys
                 /\ \A p, q \in Goroutine :
                       pc[p] = "handle" /\ pc[q] = "handle" /\ job[p] = job[q] => p = q

\* ExclusionInv is kept by every step of the cron worker.
LEMMA ExclusionStep == TypeOK /\ ExclusionInv /\ [Next]_vars => ExclusionInv'
<1> SUFFICES ASSUME TypeOK, ExclusionInv, [Next]_vars, ~intruded'
             PROVE  /\ \A p \in Goroutine : pc'[p] = "handle" => job'[p] \in keys'
                    /\ \A p, q \in Goroutine :
                          pc'[p] = "handle" /\ pc'[q] = "handle" /\ job'[p] = job'[q] => p = q
  BY DEF ExclusionInv
<1> DEFINE Goal == /\ \A p \in Goroutine : pc'[p] = "handle" => job'[p] \in keys'
                   /\ \A p, q \in Goroutine :
                         pc'[p] = "handle" /\ pc'[q] = "handle" /\ job'[p] = job'[q] => p = q
\* A step that leaves the keys alone and lets no run into the handler
<1>1. ASSUME intruded' = intruded, keys' = keys,
             \A p \in Goroutine : pc'[p] = "handle" => pc[p] = "handle" /\ job'[p] = job[p]
      PROVE  Goal
  BY <1>1 DEF ExclusionInv
<1>2. CASE UNCHANGED vars BY <1>2, <1>1 DEF vars, run
<1>3. ASSUME NEW p \in Goroutine, Run(p) PROVE Goal
  <2>1. CASE RunBegin(p)
    <3>1. \A q \in Goroutine : pc'[q] = "handle" => pc[q] = "handle" /\ job'[q] = job[q]
      BY <2>1 DEF RunBegin, Step, TypeOK
    <3> QED BY <3>1, <2>1, <1>1 DEF RunBegin
  <2>2. CASE RunLock(p)
    <3>1. ~intruded /\ keys' = keys \cup {job[p]} /\ job' = job BY <2>2 DEF RunLock
    <3>2. \A q \in Goroutine \ {p} : pc'[q] = pc[q] BY <2>2 DEF RunLock, Step, TypeOK
    <3>3. pc'[p] = "handle" => job[p] \notin keys BY <2>2 DEF RunLock, Step, TypeOK
    <3> QED BY <3>1, <3>2, <3>3 DEF ExclusionInv
  <2>3. CASE RunHandler(p)
    <3>1. ~intruded /\ keys' = keys \ {job[p]} /\ job' = job BY <2>3 DEF RunHandler
    <3>2. pc[p] = "handle" /\ pc'[p] = "done" BY <2>3 DEF RunHandler, Step, TypeOK
    <3>3. \A q \in Goroutine \ {p} : pc'[q] = pc[q] BY <2>3 DEF RunHandler, Step, TypeOK
    <3>4. \A q \in Goroutine : pc'[q] = "handle" => job[q] # job[p]
      BY <3>1, <3>2, <3>3 DEF ExclusionInv
    <3> QED BY <3>1, <3>2, <3>3, <3>4 DEF ExclusionInv
  <2>4. CASE RunDone(p)
    <3>1. \A q \in Goroutine : pc'[q] = "handle" => pc[q] = "handle" /\ job'[q] = job[q]
      BY <2>4 DEF RunDone, Step, TypeOK
    <3> QED BY <3>1, <2>4, <1>1 DEF RunDone
  <2>5. CASE RunRelease(p)
    <3>1. \A q \in Goroutine : pc'[q] = "handle" => pc[q] = "handle" /\ job'[q] = job[q]
      BY <2>5 DEF RunRelease, Step, TypeOK
    <3> QED BY <3>1, <2>5, <1>1 DEF RunRelease
  <2> QED BY <1>3, <2>1, <2>2, <2>3, <2>4, <2>5 DEF Run
<1>4. ASSUME NEW r \in Runtime, NEW j \in Job, ResetKey(r, j) PROVE Goal
  <2>1. ~intruded /\ keys' = keys \ {j} /\ pc' = pc /\ job' = job BY <1>4 DEF ResetKey, run
  <2>2. \A q \in Goroutine : pc[q] = "handle" => job[q] # j BY <1>4 DEF ResetKey, Holders
  <2> QED BY <2>1, <2>2 DEF ExclusionInv
<1>5. ASSUME NEW r \in Runtime, NEW j \in Job, NEW p \in Goroutine, ServeRun(r, j, p)
      PROVE  Goal
  <2>1. \A q \in Goroutine : pc'[q] = "handle" => pc[q] = "handle" /\ job'[q] = job[q]
    BY <1>5 DEF ServeRun, TypeOK
  <2> QED BY <2>1, <1>5, <1>1 DEF ServeRun
<1>6. ASSUME NEW r \in Runtime, Crash(r) PROVE Goal
  <2>1. \A q \in Goroutine : pc'[q] = "handle" => pc[q] = "handle" /\ job'[q] = job[q]
    BY <1>6 DEF Crash
  <2> QED BY <2>1, <1>6, <1>1 DEF Crash
<1>7. ASSUME NEW r \in Runtime,
             \/ Start(r) \/ StartJobs(r) \/ ServeShutdown(r) \/ Shutdown(r)
             \/ ShutdownSend(r) \/ ShutdownWait(r) \/ ShutdownReturn(r)
             \/ \E j \in Job : StopTicker(r, j) \/ TickerFires(r, j) \/ ServeSkip(r, j)
      PROVE  Goal
  <2>1. intruded' = intruded /\ keys' = keys /\ pc' = pc /\ job' = job
    BY <1>7 DEF Start, StartJobs, ServeShutdown, Shutdown, ShutdownSend, ShutdownWait,
                ShutdownReturn, StopTicker, TickerFires, ServeSkip, run
  <2> QED BY <2>1, <1>1
<1> QED BY <1>2, <1>3, <1>4, <1>5, <1>6, <1>7 DEF Next, Boot, ShutdownStep, ServeTick

(***************************************************************************)
(* The handler of a job runs once at a time, in any number of runtimes,    *)
(* until a Reset deletes the key of a run that is going on.                *)
(***************************************************************************)
THEOREM CronExcludes == Spec => []OneHandlerPerJob
<1>1. Init => ExclusionInv BY DEF Init, ExclusionInv
<1>2. ExclusionInv => OneHandlerPerJob BY DEF ExclusionInv, OneHandlerPerJob, Holders
<1> QED BY <1>1, <1>2, ExclusionStep, CronTypes, PTL DEF Spec

-----------------------------------------------------------------------------
(***************************************************************************)
(* What makes ShutdownDrains inductive: once Shutdown waits, Serve has     *)
(* returned and starts no more runs.                                       *)
(***************************************************************************)
DrainInv ==
    \A r \in Runtime :
        /\ shutdown[r] \in {"wait", "reset", "returned"} => serve[r] = "returned"
        /\ shutdown[r] \in {"reset", "returned"} =>
              \A p \in Goroutine : Home[p] = r => pc[p] \in {"idle", "release"}

\* DrainInv is kept by every step of the cron worker.
LEMMA DrainStep == TypeOK /\ DrainInv /\ [Next]_vars => DrainInv'
<1> SUFFICES ASSUME TypeOK, DrainInv, [Next]_vars, NEW s \in Runtime
             PROVE  /\ shutdown'[s] \in {"wait", "reset", "returned"} => serve'[s] = "returned"
                    /\ shutdown'[s] \in {"reset", "returned"} =>
                          \A p \in Goroutine : Home[p] = s => pc'[p] \in {"idle", "release"}
  BY DEF DrainInv
<1> DEFINE Goal == /\ shutdown'[s] \in {"wait", "reset", "returned"} => serve'[s] = "returned"
                   /\ shutdown'[s] \in {"reset", "returned"} =>
                         \A p \in Goroutine : Home[p] = s => pc'[p] \in {"idle", "release"}
<1>0. ASSUME serve' = serve, shutdown' = shutdown,
             \A q \in Goroutine : pc[q] \in {"idle", "release"} => pc'[q] \in {"idle", "release"}
      PROVE  Goal
  BY <1>0 DEF DrainInv
<1>1. CASE UNCHANGED vars BY <1>1, <1>0 DEF vars, run
<1>2. ASSUME NEW p \in Goroutine, Run(p) PROVE Goal
  <2>1. serve' = serve /\ shutdown' = shutdown
    BY <1>2 DEF Run, RunBegin, RunLock, RunHandler, RunDone, RunRelease
  <2>2. \A q \in Goroutine : pc[q] \in {"idle", "release"} => pc'[q] \in {"idle", "release"}
    BY <1>2 DEF Run, RunBegin, RunLock, RunHandler, RunDone, RunRelease, Step, TypeOK
  <2> QED BY <2>1, <2>2, <1>0
<1>3. ASSUME NEW r \in Runtime, NEW j \in Job, NEW p \in Goroutine, ServeRun(r, j, p)
      PROVE  Goal
  <2>1. serve' = serve /\ shutdown' = shutdown /\ Home[p] = r /\ serve[r] = "select"
    BY <1>3 DEF ServeRun
  <2>2. \A q \in Goroutine \ {p} : pc'[q] = pc[q] BY <1>3 DEF ServeRun, TypeOK
  <2> QED BY <2>1, <2>2 DEF DrainInv
<1>4. ASSUME NEW r \in Runtime, Crash(r) PROVE Goal
  <2>1. CASE s = r BY <2>1, <1>4 DEF Crash, TypeOK
  <2>2. CASE s # r
    <3>1. serve'[s] = serve[s] /\ shutdown'[s] = shutdown[s] BY <2>2, <1>4 DEF Crash, TypeOK
    <3>2. \A q \in Goroutine : Home[q] = s => pc'[q] = pc[q] BY <2>2, <1>4 DEF Crash
    <3> QED BY <3>1, <3>2 DEF DrainInv
  <2> QED BY <2>1, <2>2
<1>5. ASSUME NEW r \in Runtime, ShutdownWait(r) PROVE Goal
  <2>1. serve' = serve /\ pc' = pc BY <1>5 DEF ShutdownWait, run
  <2>2. CASE s = r
    <3>1. \A p \in Goroutine : Home[p] = r => pc[p] \in {"idle", "release"}
      BY <1>5 DEF ShutdownWait, InWaitGroup
    <3> QED BY <3>1, <2>1, <2>2, <1>5 DEF ShutdownWait, DrainInv
  <2>3. CASE s # r BY <2>1, <2>3, <1>5 DEF ShutdownWait, DrainInv, TypeOK
  <2> QED BY <2>2, <2>3
<1>6. ASSUME NEW r \in Runtime, Start(r) \/ StartJobs(r) PROVE Goal
  <2>1. /\ shutdown' = shutdown /\ pc' = pc /\ serve[r] # "returned"
        /\ s # r => serve'[s] = serve[s]
    BY <1>6 DEF Start, StartJobs, run, TypeOK
  <2> QED BY <2>1 DEF DrainInv
<1>7. ASSUME NEW r \in Runtime,
             ServeShutdown(r) \/ Shutdown(r) \/ ShutdownSend(r) \/ ShutdownReturn(r)
      PROVE  Goal
  <2>1. pc' = pc /\ (s # r => serve'[s] = serve[s] /\ shutdown'[s] = shutdown[s])
    BY <1>7 DEF ServeShutdown, Shutdown, ShutdownSend, ShutdownReturn, run, TypeOK
  <2>2. CASE ServeShutdown(r) BY <2>1, <2>2 DEF ServeShutdown, TypeOK, DrainInv
  <2>3. CASE Shutdown(r) BY <2>1, <2>3 DEF Shutdown, TypeOK, DrainInv
  <2>4. CASE ShutdownSend(r) BY <2>1, <2>4 DEF ShutdownSend, TypeOK, DrainInv
  <2>5. CASE ShutdownReturn(r) BY <2>1, <2>5 DEF ShutdownReturn, TypeOK, DrainInv
  <2> QED BY <1>7, <2>2, <2>3, <2>4, <2>5
<1>8. ASSUME NEW r \in Runtime, NEW j \in Job,
             ResetKey(r, j) \/ StopTicker(r, j) \/ TickerFires(r, j) \/ ServeSkip(r, j)
      PROVE  Goal
  BY <1>8, <1>0 DEF ResetKey, StopTicker, TickerFires, ServeSkip, run
<1> QED BY <1>1, <1>2, <1>3, <1>4, <1>5, <1>6, <1>7, <1>8
        DEF Next, Boot, ShutdownStep, ServeTick

(***************************************************************************)
(* When Shutdown resets the locks and when it has returned, no goroutine   *)
(* of the runtime is in a run.                                             *)
(***************************************************************************)
THEOREM CronDrains == Spec => []ShutdownDrains
<1>1. Init => DrainInv BY DEF Init, DrainInv
<1>2. DrainInv => ShutdownDrains BY DEF DrainInv, ShutdownDrains, InWaitGroup
<1> QED BY <1>1, <1>2, DrainStep, CronTypes, PTL DEF Spec

-----------------------------------------------------------------------------
\* Shutdown is called on a worker that serves: its loops never overlap Reset of the start.
ServingInv == \A r \in Runtime : shutdown[r] # "none" => serve[r] \in {"select", "returned"}

\* ServingInv is kept by every step of the cron worker.
LEMMA ServingStep == TypeOK /\ ServingInv /\ [Next]_vars => ServingInv'
<1> SUFFICES ASSUME TypeOK, ServingInv, [Next]_vars,
                    NEW s \in Runtime, shutdown'[s] # "none"
             PROVE  serve'[s] \in {"select", "returned"}
  BY DEF ServingInv
<1> USE DEF TypeOK, ServingInv
<1>1. CASE serve' = serve /\ shutdown' = shutdown BY <1>1
<1>2. ASSUME NEW p \in Goroutine, Run(p) PROVE serve' = serve /\ shutdown' = shutdown
  BY <1>2 DEF Run, RunBegin, RunLock, RunHandler, RunDone, RunRelease
<1>3. ASSUME NEW r \in Runtime, Boot(r) PROVE serve'[s] \in {"select", "returned"}
  BY <1>3 DEF Boot, Start, StartJobs, ResetKey
<1>4. ASSUME NEW r \in Runtime, ServeShutdown(r) \/ Shutdown(r)
      PROVE  serve'[s] \in {"select", "returned"}
  BY <1>4 DEF ServeShutdown, Shutdown
<1>5. ASSUME NEW r \in Runtime, ShutdownStep(r) PROVE serve'[s] \in {"select", "returned"}
  BY <1>5 DEF ShutdownStep, ShutdownSend, ShutdownWait, ShutdownReturn, StopTicker
<1>6. ASSUME NEW r \in Runtime, Crash(r) PROVE serve'[s] \in {"select", "returned"}
  BY <1>6 DEF Crash
<1>7. ASSUME NEW r \in Runtime, NEW j \in Job, TickerFires(r, j) \/ ServeTick(r, j)
      PROVE  serve' = serve /\ shutdown' = shutdown
  BY <1>7 DEF TickerFires, ServeTick, ServeRun, ServeSkip
<1>8. CASE UNCHANGED vars BY <1>8, <1>1 DEF vars
<1> QED BY <1>1, <1>2, <1>3, <1>4, <1>5, <1>6, <1>7, <1>8 DEF Next

\* NoOrphanKey is kept by every step of the cron worker: Reset of a start finds every orphan.
LEMMA OrphanStep == TypeOK /\ ServingInv /\ NoOrphanKey /\ [Next]_vars => NoOrphanKey'
<1> SUFFICES ASSUME TypeOK, ServingInv, NoOrphanKey, [Next]_vars, NEW k \in keys'
             PROVE  \/ \E q \in Goroutine : job'[q] = k /\ pc'[q] = "handle"
                    \/ \E s \in Runtime :
                          serve'[s] = "off" \/ (serve'[s] = "reset" /\ k \in todo'[s])
  BY DEF NoOrphanKey, Holders
<1> DEFINE Goal == \/ \E q \in Goroutine : job'[q] = k /\ pc'[q] = "handle"
                   \/ \E s \in Runtime :
                         serve'[s] = "off" \/ (serve'[s] = "reset" /\ k \in todo'[s])
<1>0. k \in keys => \/ \E q \in Goroutine : job[q] = k /\ pc[q] = "handle"
                    \/ \E s \in Runtime :
                          serve[s] = "off" \/ (serve[s] = "reset" /\ k \in todo[s])
  BY DEF NoOrphanKey, Holders
\* A step that keeps the holders of k, and the runtimes that account for it
<1>1. ASSUME k \in keys,
             \A q \in Goroutine : job[q] = k /\ pc[q] = "handle" => job'[q] = k /\ pc'[q] = "handle",
             \A s \in Runtime : serve[s] = "off" \/ (serve[s] = "reset" /\ k \in todo[s]) =>
                                    serve'[s] = "off" \/ (serve'[s] = "reset" /\ k \in todo'[s])
      PROVE  Goal
  BY <1>0, <1>1
<1>2. CASE UNCHANGED vars BY <1>2, <1>1 DEF vars, run
<1>3. ASSUME NEW p \in Goroutine, Run(p) PROVE Goal
  <2>0. serve' = serve /\ todo' = todo
    BY <1>3 DEF Run, RunBegin, RunLock, RunHandler, RunDone, RunRelease
  <2>1. CASE RunLock(p)
    <3>1. CASE k \in keys
      <4>1. \A q \in Goroutine : job[q] = k /\ pc[q] = "handle" => job'[q] = k /\ pc'[q] = "handle"
        BY <2>1 DEF RunLock, Step, TypeOK
      <4> QED BY <4>1, <3>1, <2>0, <1>1
    <3>2. CASE k \notin keys
      <4>1. job[p] = k /\ job' = job BY <3>2, <2>1 DEF RunLock
      <4>2. pc'[p] = "handle" BY <4>1, <3>2, <2>1 DEF RunLock, Step, TypeOK
      <4> QED BY <4>1, <4>2
    <3> QED BY <3>1, <3>2
  <2>2. CASE RunHandler(p)
    <3>1. k \in keys /\ k # job[p] /\ job' = job BY <2>2 DEF RunHandler
    <3>2. \A q \in Goroutine : job[q] = k /\ pc[q] = "handle" => job'[q] = k /\ pc'[q] = "handle"
      BY <3>1, <2>2 DEF RunHandler, Step, TypeOK
    <3> QED BY <3>1, <3>2, <2>0, <1>1
  <2>3. CASE RunBegin(p) \/ RunDone(p) \/ RunRelease(p)
    <3>1. k \in keys BY <2>3 DEF RunBegin, RunDone, RunRelease
    <3>2. \A q \in Goroutine : job[q] = k /\ pc[q] = "handle" => job'[q] = k /\ pc'[q] = "handle"
      BY <2>3 DEF RunBegin, RunDone, RunRelease, Step, TypeOK
    <3> QED BY <3>1, <3>2, <2>0, <1>1
  <2> QED BY <1>3, <2>1, <2>2, <2>3 DEF Run
<1>4. ASSUME NEW r \in Runtime, NEW j \in Job, ResetKey(r, j) PROVE Goal
  <2>1. k \in keys /\ k # j /\ serve' = serve /\ pc' = pc /\ job' = job
    BY <1>4 DEF ResetKey, run
  <2>2. \A s \in Runtime : k \in todo[s] => k \in todo'[s] BY <2>1, <1>4 DEF ResetKey, TypeOK
  <2> QED BY <2>1, <2>2, <1>1
<1>5. ASSUME NEW r \in Runtime, NEW j \in Job, NEW p \in Goroutine, ServeRun(r, j, p)
      PROVE  Goal
  <2>1. k \in keys /\ serve' = serve /\ todo' = todo BY <1>5 DEF ServeRun
  <2>2. \A q \in Goroutine : job[q] = k /\ pc[q] = "handle" => job'[q] = k /\ pc'[q] = "handle"
    BY <1>5 DEF ServeRun, TypeOK
  <2> QED BY <2>1, <2>2, <1>1
<1>6. ASSUME NEW r \in Runtime, Crash(r) PROVE Goal
  <2>1. serve'[r] = "off" BY <1>6 DEF Crash, TypeOK
  <2> QED BY <2>1
<1>7. ASSUME NEW r \in Runtime, Start(r) PROVE Goal
  <2>1. serve'[r] = "reset" /\ k \in todo'[r] BY <1>7 DEF Start, TypeOK
  <2> QED BY <2>1
<1>8. ASSUME NEW r \in Runtime, StartJobs(r) PROVE Goal
  <2>1. k \in keys /\ todo' = todo /\ pc' = pc /\ job' = job BY <1>8 DEF StartJobs, run
  <2>2. \A s \in Runtime : serve[s] = "off" \/ (serve[s] = "reset" /\ k \in todo[s]) =>
                              s # r /\ serve'[s] = serve[s]
    BY <1>8 DEF StartJobs, TypeOK
  <2> QED BY <2>1, <2>2, <1>1
<1>9. ASSUME NEW r \in Runtime,
             \/ ServeShutdown(r) \/ Shutdown(r) \/ ShutdownSend(r) \/ ShutdownWait(r)
             \/ ShutdownReturn(r)
             \/ \E j \in Job : StopTicker(r, j) \/ TickerFires(r, j) \/ ServeSkip(r, j)
      PROVE  Goal
  <2>1. k \in keys /\ pc' = pc /\ job' = job
    BY <1>9 DEF ServeShutdown, Shutdown, ShutdownSend, ShutdownWait, ShutdownReturn, StopTicker,
                TickerFires, ServeSkip, run
  <2>2. /\ serve'[r] = serve[r] \/ serve[r] = "select"
        /\ \A s \in Runtime \ {r} : serve'[s] = serve[s] /\ todo'[s] = todo[s]
        /\ todo'[r] = todo[r] \/ shutdown[r] # "none" \/ serve[r] = "select"
    BY <1>9 DEF ServeShutdown, Shutdown, ShutdownSend, ShutdownWait, ShutdownReturn, StopTicker,
                TickerFires, ServeSkip, TypeOK
  <2>3. \A s \in Runtime : serve[s] = "off" \/ (serve[s] = "reset" /\ k \in todo[s]) =>
                              serve'[s] = "off" \/ (serve'[s] = "reset" /\ k \in todo'[s])
    BY <2>2 DEF ServingInv
  <2> QED BY <2>1, <2>3, <1>1
<1> QED BY <1>2, <1>3, <1>4, <1>5, <1>6, <1>7, <1>8, <1>9
        DEF Next, Boot, ShutdownStep, ServeTick

(***************************************************************************)
(* A lock key that a crash left behind is gone once every runtime is up:   *)
(* Reset of the start finds it.                                            *)
(***************************************************************************)
THEOREM CronKeysOwned == Spec => []NoOrphanKey
<1>1. Init => ServingInv /\ NoOrphanKey BY DEF Init, ServingInv, NoOrphanKey
<1> QED BY <1>1, ServingStep, OrphanStep, CronTypes, PTL DEF Spec
=============================================================================
