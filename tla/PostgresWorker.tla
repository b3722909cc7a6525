--------------------------- MODULE PostgresWorker ---------------------------
(***************************************************************************)
(* The postgres event listener (src/codebase/app/postgres_worker/).  The   *)
(* trigger notify_event turns every change of a row into a notification    *)
(* that each process listening at that moment hears once; Serve hands it   *)
(* to a goroutine, at most MaxGoroutines at a time, which runs the handler *)
(* when it finds the lock of the event free.                               *)
(*                                                                         *)
(* One source with one row of a table that has a handler, and a table that *)
(* has a trigger (an earlier release created it) but no handler any more.  *)
(* Versions of the row are numbers, 0 for no row.                          *)
(***************************************************************************)
EXTENDS ServiceProcess

CONSTANTS PgSlot,          \* goroutines of Serve: bounds how many live at once
          PgHome,          \* the process of a slot
          MaxGoroutines,   \* the capacity of the semaphore of a table
          MaxEvents        \* bound: so many changes of rows, counted once per process

ASSUME PostgresAssumption ==
    /\ PgHome \in [PgSlot -> Pod]
    /\ MaxGoroutines \in Nat /\ MaxEvents \in Nat

VARIABLES pgRow,       \* the version of the row in the database
          pgEvents,    \* the notifications sent so far
          pgInbox,     \* what waits in the Notify channel of a listener
          pgLocks,     \* the lock keys in Redis, by event
          pg,          \* Serve and Shutdown of a process
          pgRun        \* the goroutines of Serve

pgVars == <<pgRow, pgEvents, pgInbox, pgLocks, pg, pgRun>>

Idle == [pc |-> "idle", event |-> 0, seen |-> 0, lost |-> FALSE]

Running(p) == {g \in PgSlot : PgHome[g] = p /\ pgRun[g].pc # "idle"}
Holding == {g \in PgSlot : pgRun[g].pc \in {"read", "handler", "unlock"}}
Handling == {g \in PgSlot : pgRun[g].pc \in {"handler", "unlock"}}

(***************************************************************************)
(* The runs after the keys of `events' were deleted: `lost' remembers the  *)
(* runs that had set one of these keys and rely on it.                     *)
(***************************************************************************)
WithoutKeys(events) ==
    [g \in PgSlot |-> [pgRun[g] EXCEPT !.lost = @ \/ (g \in Holding /\ pgRun[g].event \in events)]]

PgInit ==
    /\ pgRow = 0 /\ pgEvents = <<>> /\ pgLocks = {}
    /\ pgInbox = [p \in Pod |-> <<>>]
    /\ pg = [p \in Pod |-> [serve |-> "off", event |-> 0, shutdown |-> FALSE,
                            closed |-> FALSE, ctx |-> TRUE, stop |-> "no"]]
    /\ pgRun = [g \in PgSlot |-> Idle]

-----------------------------------------------------------------------------
(***************************************************************************)
(* The database.  GetID takes the new id, or the old one of a DELETE; a    *)
(* payload too long for pg_notify carries ids only.  A process that is     *)
(* reconnecting at that moment never hears of the event.                   *)
(***************************************************************************)
Change(version) == CASE pgRow = 0 -> "INSERT"
                     [] pgRow > 0 /\ version = 0 -> "DELETE"
                     [] OTHER -> "UPDATE"

Notify(e) ==
    /\ pgEvents' = Append(pgEvents, e)
    /\ \E hears \in SUBSET {p \in Pod : pg[p].serve # "off" /\ ~pg[p].closed} :
          pgInbox' = [p \in Pod |-> IF p \in hears THEN Append(pgInbox[p], Len(pgEvents) + 1)
                                                   ELSE pgInbox[p]]

WriteRow ==
    /\ (Len(pgEvents) + 1) * Replicas <= MaxEvents
    /\ \E version \in {0, Len(pgEvents) + 1}, long \in BOOLEAN :
          /\ pgRow + version > 0
          /\ pgRow' = version
          /\ Notify([handled |-> TRUE, action |-> Change(version), version |-> version,
                     long |-> long])
    /\ UNCHANGED <<pgLocks, pg, pgRun, exit>>

WriteOrphan ==
    /\ (Len(pgEvents) + 1) * Replicas <= MaxEvents
    /\ Notify([handled |-> FALSE, action |-> "INSERT", version |-> 0, long |-> FALSE])
    /\ UNCHANGED <<pgRow, pgLocks, pg, pgRun, exit>>

-----------------------------------------------------------------------------
(***************************************************************************)
(* Reset deletes the locks of all processes, also the ones that guard a    *)
(* handler that is running.                                                *)
(***************************************************************************)
Reset ==
    /\ pgLocks' = {}
    /\ pgRun' = WithoutKeys(pgLocks)

\* NewWorker resets the locks; Serve listens.
PgServe(p) ==
    /\ Alive(p) /\ pg[p].serve = "off"
    /\ pg' = [pg EXCEPT ![p].serve = "top"]
    /\ Reset
    /\ UNCHANGED <<pgRow, pgEvents, pgInbox, exit>>

\* The poll of the shutdown channel at the top of the loop.
ServeTop(p) ==
    /\ Alive(p) /\ pg[p].serve = "top"
    /\ pg' = [pg EXCEPT ![p].serve = IF pg[p].shutdown THEN "returned" ELSE "select",
                        ![p].shutdown = FALSE]
    /\ UNCHANGED <<pgRow, pgEvents, pgInbox, pgLocks, pgRun, exit>>

(***************************************************************************)
(* reflect.Select takes a notification, or finds the channel closed and    *)
(* drained and polls again.  The semaphore of a table without handler is a *)
(* nil channel: the send to it blocks for ever.                            *)
(***************************************************************************)
ServeReceive(p) ==
    /\ Alive(p) /\ pg[p].serve = "select" /\ pgInbox[p] # <<>>
    /\ pgInbox' = [pgInbox EXCEPT ![p] = Tail(@)]
    /\ pg' = [pg EXCEPT ![p].event = Head(pgInbox[p]),
                        ![p].serve = IF pgEvents[Head(pgInbox[p])].handled
                                     THEN "acquire" ELSE "blocked"]
    /\ UNCHANGED <<pgRow, pgEvents, pgLocks, pgRun, exit>>

ServeClosed(p) ==
    /\ Alive(p) /\ pg[p].serve = "select" /\ pgInbox[p] = <<>> /\ pg[p].closed
    /\ pg' = [pg EXCEPT ![p].serve = "top"]
    /\ UNCHANGED <<pgRow, pgEvents, pgInbox, pgLocks, pgRun, exit>>

\* Takes the semaphore, counts the run in the wait group and starts it.
ServeStart(p, g) ==
    /\ Alive(p) /\ pg[p].serve = "acquire" /\ PgHome[g] = p /\ pgRun[g] = Idle
    /\ Cardinality(Running(p)) < MaxGoroutines
    /\ pgRun' = [pgRun EXCEPT ![g] = [Idle EXCEPT !.pc = "start", !.event = pg[p].event]]
    /\ pg' = [pg EXCEPT ![p].serve = "top", ![p].event = 0]
    /\ UNCHANGED <<pgRow, pgEvents, pgInbox, pgLocks, exit>>

-----------------------------------------------------------------------------
\* The goroutine looks at the root context first.
RunStart(g) ==
    /\ Alive(PgHome[g]) /\ pgRun[g].pc = "start"
    /\ pgRun' = [pgRun EXCEPT ![g] = IF pg[PgHome[g]].ctx THEN [@ EXCEPT !.pc = "lock"]
                                                          ELSE Idle]
    /\ UNCHANGED <<pgRow, pgEvents, pgInbox, pgLocks, pg, exit>>

\* Mutant: the lock is read and never taken
RunLockReadOnly(g) ==
    /\ Alive(PgHome[g]) /\ pgRun[g].pc = "lock"
    /\ pgRun' = [pgRun EXCEPT ![g] = IF pgRun[g].event \in pgLocks THEN Idle
                                     ELSE [@ EXCEPT !.pc = "read"]]
    /\ UNCHANGED <<pgRow, pgEvents, pgInbox, pgLocks, pg, exit>>

\* execEvent: IsLocked sets the key of the event, or says that it is there.
RunLock(g) ==
    /\ Alive(PgHome[g]) /\ pgRun[g].pc = "lock"
    /\ pgLocks' = pgLocks \cup {pgRun[g].event}
    /\ pgRun' = [pgRun EXCEPT ![g] = IF pgRun[g].event \in pgLocks THEN Idle
                                     ELSE [@ EXCEPT !.pc = "read"]]
    /\ UNCHANGED <<pgRow, pgEvents, pgInbox, pg, exit>>

\* Mutant: the detail comes from a copy the event carries of the row before it
PayloadBefore(e) == IF pgEvents[e].long /\ pgEvents[e].action # "DELETE"
                    THEN pgEvents[e].version - 1 ELSE pgEvents[e].version

\* What the handler is given as the row: the payload's, or what findDetailData reads now.
Payload(e) == IF pgEvents[e].long THEN pgRow ELSE pgEvents[e].version

RunRead(g) ==
    /\ Alive(PgHome[g]) /\ pgRun[g].pc = "read"
    /\ pgRun' = [pgRun EXCEPT ![g].pc = "handler", ![g].seen = Payload(pgRun[g].event)]
    /\ UNCHANGED <<pgRow, pgEvents, pgInbox, pgLocks, pg, exit>>

\* The handler functions return, or panic and are recovered: both end the same way.
RunHandler(g) ==
    /\ Alive(PgHome[g]) /\ pgRun[g].pc = "handler"
    /\ pgRun' = [pgRun EXCEPT ![g].pc = "unlock"]
    /\ UNCHANGED <<pgRow, pgEvents, pgInbox, pgLocks, pg, exit>>

\* The deferred Unlock deletes the key, whoever set it; wg.Done; the semaphore is released.
RunEnd(g) ==
    /\ Alive(PgHome[g]) /\ pgRun[g].pc = "unlock"
    /\ pgLocks' = pgLocks \ {pgRun[g].event}
    /\ pgRun' = [WithoutKeys({pgRun[g].event}) EXCEPT ![g] = Idle]
    /\ UNCHANGED <<pgRow, pgEvents, pgInbox, pg, exit>>

-----------------------------------------------------------------------------
(***************************************************************************)
(* Shutdown, called by the application: send on the shutdown channel,      *)
(* close the listener, wait for the wait group, cancel the root context,   *)
(* reset the locks.                                                        *)
(***************************************************************************)
PgStop(p) ==
    /\ pg[p].stop = "no"
    /\ pg' = [pg EXCEPT ![p].stop = "close", ![p].shutdown = TRUE]
    /\ UNCHANGED <<pgRow, pgEvents, pgInbox, pgLocks, pgRun, exit>>

PgClose(p) ==
    /\ Alive(p) /\ pg[p].stop = "close"
    /\ pg' = [pg EXCEPT ![p].stop = "wait", ![p].closed = TRUE]
    /\ UNCHANGED <<pgRow, pgEvents, pgInbox, pgLocks, pgRun, exit>>

\* Mutant: Shutdown does not wait for the runs
PgWaitSkipped(p) ==
    /\ Alive(p) /\ pg[p].stop = "wait"
    /\ pg' = [pg EXCEPT ![p].stop = "cancel"]
    /\ UNCHANGED <<pgRow, pgEvents, pgInbox, pgLocks, pgRun, exit>>

PgWait(p) ==
    /\ Alive(p) /\ pg[p].stop = "wait" /\ Running(p) = {}
    /\ pg' = [pg EXCEPT ![p].stop = "cancel"]
    /\ UNCHANGED <<pgRow, pgEvents, pgInbox, pgLocks, pgRun, exit>>

PgCancel(p) ==
    /\ Alive(p) /\ pg[p].stop = "cancel"
    /\ pg' = [pg EXCEPT ![p].stop = "reset", ![p].ctx = FALSE]
    /\ UNCHANGED <<pgRow, pgEvents, pgInbox, pgLocks, pgRun, exit>>

PgReset(p) ==
    /\ Alive(p) /\ pg[p].stop = "reset"
    /\ pg' = [pg EXCEPT ![p].stop = "done"]
    /\ Reset
    /\ UNCHANGED <<pgRow, pgEvents, pgInbox, exit>>

-----------------------------------------------------------------------------
PgRunStep(g) == RunStart(g) \/ RunLock(g) \/ RunRead(g) \/ RunHandler(g) \/ RunEnd(g)

PgServeStep(p) ==
    \/ PgServe(p) \/ ServeTop(p) \/ ServeReceive(p) \/ ServeClosed(p)
    \/ \E g \in PgSlot : ServeStart(p, g)

PgStopStep(p) == PgClose(p) \/ PgWait(p) \/ PgCancel(p) \/ PgReset(p)

PgNext ==
    \/ WriteRow \/ WriteOrphan
    \/ \E p \in Pod : PgServeStep(p) \/ PgStopStep(p)
    \/ \E g \in PgSlot : PgRunStep(g)

-----------------------------------------------------------------------------
PgTypeOK ==
    /\ pgRow \in 0..MaxEvents /\ pgLocks \subseteq 1..MaxEvents
    /\ pgEvents \in Seq([handled : BOOLEAN, action : {"INSERT", "UPDATE", "DELETE"},
                         version : 0..MaxEvents, long : BOOLEAN])
    /\ pgInbox \in [Pod -> Seq(1..MaxEvents)]
    /\ pg \in [Pod -> [serve : {"off", "top", "select", "acquire", "blocked", "returned"},
                       event : 0..MaxEvents, shutdown : BOOLEAN, closed : BOOLEAN, ctx : BOOLEAN,
                       stop : {"no", "close", "wait", "cancel", "reset", "done"}]]
    /\ pgRun \in [PgSlot -> [pc : {"idle", "start", "lock", "read", "handler", "unlock"},
                             event : 0..MaxEvents, seen : 0..MaxEvents, lost : BOOLEAN]]

(***************************************************************************)
(* execEvent, "lock for multiple worker (if running on multiple            *)
(* pods/instance)": the handler of an event runs in one process at a time, *)
(* unless the key of one of the runs was deleted under it: by a process    *)
(* that was starting or stopping, or by the end of a run that had lost its *)
(* own key before.  (The handler may run again later: the key is given     *)
(* back, and a process that is slower than the handler finds it free.)     *)
(***************************************************************************)
OneHandlerPerEvent ==
    \A g, h \in Handling :
        g # h /\ pgRun[g].event = pgRun[h].event => pgRun[g].lost \/ pgRun[h].lost

(***************************************************************************)
(* findDetailData reads the row of a long payload when the event is        *)
(* handled, not when it happened: what a handler gets is never older than  *)
(* its event (0: the row is gone by then).                                 *)
(***************************************************************************)
DetailNotOlder ==
    \A g \in Handling : pgRun[g].seen = 0 \/ pgRun[g].seen >= pgEvents[pgRun[g].event].version

(***************************************************************************)
(* Shutdown waits for the runs, but Serve may hold a notification that it  *)
(* has not counted in the wait group yet: when Shutdown has returned there *)
(* is at most this one left, in the hand of Serve or running.              *)
(***************************************************************************)
OneStraggler ==
    \A p \in Pod : pg[p].stop = "done" =>
        Cardinality(Running(p)) + (IF pg[p].serve \in {"select", "acquire"} THEN 1 ELSE 0) <= 1
=============================================================================
