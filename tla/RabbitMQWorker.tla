--------------------------- MODULE RabbitMQWorker ---------------------------
(***************************************************************************)
(* The RabbitMQ consumer (src/codebase/app/rabbitmq_worker) in every       *)
(* runtime of a service: Serve and its select over the queues, the         *)
(* goroutine of each message with its acknowledgement, Shutdown, and the   *)
(* broker as src/broker/rabbitmq.go sets it up.                            *)
(*                                                                         *)
(* The exchange delays messages, so the order in a queue is left open: the *)
(* ready messages are a set.  A message that a closed channel had not      *)
(* acknowledged is ready again.  What a handler does, headers, traces and  *)
(* logs are left out; a handler that fails or panics is followed by the    *)
(* same deferred calls as one that returns.                                *)
(***************************************************************************)
EXTENDS Integers, FiniteSets

CONSTANTS Runtime,        \* processes that run the consumer of the service
          Message, Queue,
          QueueOf,        \* the routing key of each message
          AutoACK,        \* WorkerHandler.AutoACK of each queue
          Prefetch,       \* Qos of the channel: unacknowledged messages per consumer
          Goroutine,      \* slots for runs
          Home,           \* the runtime of each slot
          None,           \* no message
          MaxStops        \* bound: shutdowns, crashes and lost connections

ASSUME RabbitMQAssumption ==
    /\ QueueOf \in [Message -> Queue] /\ AutoACK \in [Queue -> BOOLEAN]
    /\ Home \in [Goroutine -> Runtime] /\ None \notin Message
    /\ Prefetch \in Nat \ {0} /\ MaxStops \in Nat

VARIABLES published, ready, \* messages sent so far, and those that wait in their queue
          declared,       \* a consumer has declared the queues: they are durable
          unacked, inbox, \* messages the broker has delivered; those Serve has not received
          open,           \* the channel to the broker is open
          serve, current, \* where Serve is, and the message it has received
          sem,            \* the queues whose semaphore is taken
          token,          \* the shutdown channel holds its one element
          isShutdown,
          shutdown,       \* where Shutdown is
          cancelled,      \* ctxCancelFunc was called
          pc, msg,        \* of each run
          handled,        \* history: the messages whose handler has ended
          stops

broker == <<published, ready, declared, unacked, inbox, open>>
server == <<serve, current, sem>>
stopping == <<token, isShutdown, shutdown, cancelled>>
run == <<pc, msg>>
vars == <<broker, server, stopping, run, handled, stops>>

Init ==
    /\ published = {} /\ ready = {} /\ declared = FALSE /\ handled = {} /\ stops = 0
    /\ unacked = [r \in Runtime |-> {}] /\ inbox = [r \in Runtime |-> {}]
    /\ open = [r \in Runtime |-> FALSE]
    /\ serve = [r \in Runtime |-> "off"] /\ current = [r \in Runtime |-> None]
    /\ sem = [r \in Runtime |-> {}]
    /\ token = [r \in Runtime |-> FALSE] /\ isShutdown = [r \in Runtime |-> FALSE]
    /\ shutdown = [r \in Runtime |-> "none"] /\ cancelled = [r \in Runtime |-> FALSE]
    /\ pc = [p \in Goroutine |-> "idle"] /\ msg = [p \in Goroutine |-> None]

InWaitGroup(r) == {p \in Goroutine : Home[p] = r /\ pc[p] \notin {"idle", "release"}}

-----------------------------------------------------------------------------
\* The broker

\* The exchange drops a message whose queue no consumer has declared yet.
PublishMessage(m) ==
    /\ declared /\ m \notin published
    /\ published' = published \cup {m} /\ ready' = ready \cup {m}
    /\ UNCHANGED <<declared, unacked, inbox, open, server, stopping, run, handled,
                   stops>>

Deliver(r, m) ==
    /\ open[r] /\ m \in ready
    /\ Cardinality({n \in unacked[r] : QueueOf[n] = QueueOf[m]}) < Prefetch
    /\ ready' = ready \ {m}
    /\ unacked' = [unacked EXCEPT ![r] = @ \cup {m}]
    /\ inbox' = [inbox EXCEPT ![r] = @ \cup {m}]
    /\ UNCHANGED <<published, declared, open, server, stopping, run, handled, stops>>

\* The channel closes: the deliveries end, and what was not acknowledged is ready again.
CloseChannel(r) ==
    /\ open' = [open EXCEPT ![r] = FALSE]
    /\ ready' = ready \cup unacked[r]
    /\ unacked' = [unacked EXCEPT ![r] = {}]
    /\ inbox' = [inbox EXCEPT ![r] = {}]
    /\ UNCHANGED <<published, declared>>

-----------------------------------------------------------------------------
\* NewWorker and Serve

NewWorker(r) ==
    /\ serve[r] = "off"
    /\ serve' = [serve EXCEPT ![r] = "loop"]
    /\ open' = [open EXCEPT ![r] = TRUE] /\ declared' = TRUE
    /\ UNCHANGED <<published, ready, unacked, inbox, current, sem, stopping, run, handled,
                   stops>>

\* The select on the shutdown channel with its default
ServeLoop(r) ==
    /\ serve[r] = "loop"
    /\ serve' = [serve EXCEPT ![r] = IF token[r] THEN "returned" ELSE "select"]
    /\ token' = [token EXCEPT ![r] = FALSE]
    /\ UNCHANGED <<broker, current, sem, isShutdown, shutdown, cancelled, run, handled,
                   stops>>

ServeReceive(r, m) ==
    /\ serve[r] = "select" /\ m \in inbox[r]
    /\ inbox' = [inbox EXCEPT ![r] = @ \ {m}]
    /\ serve' = [serve EXCEPT ![r] = "semaphore"] /\ current' = [current EXCEPT ![r] = m]
    /\ UNCHANGED <<published, ready, declared, unacked, open, sem, stopping, run,
                   handled, stops>>

\* The select returns at once from a closed delivery channel.
ServeClosed(r) ==
    /\ serve[r] = "select" /\ ~open[r]
    /\ serve' = [serve EXCEPT ![r] = "loop"]
    /\ UNCHANGED <<broker, current, sem, stopping, run, handled, stops>>

\* Mutant: the semaphore of a queue has room for every message
ServeSemaphoreAny(r) ==
    /\ serve[r] = "semaphore"
    /\ sem' = [sem EXCEPT ![r] = @ \cup {QueueOf[current[r]]}]
    /\ serve' = [serve EXCEPT ![r] = "check"]
    /\ UNCHANGED <<broker, current, stopping, run, handled, stops>>

ServeSemaphore(r) ==
    /\ serve[r] = "semaphore" /\ QueueOf[current[r]] \notin sem[r]
    /\ sem' = [sem EXCEPT ![r] = @ \cup {QueueOf[current[r]]}]
    /\ serve' = [serve EXCEPT ![r] = "check"]
    /\ UNCHANGED <<broker, current, stopping, run, handled, stops>>

\* A message received while shutting down is left without an answer.
ServeCheck(r) ==
    /\ serve[r] = "check"
    /\ serve' = [serve EXCEPT ![r] = IF isShutdown[r] THEN "returned" ELSE "add"]
    /\ UNCHANGED <<broker, current, sem, stopping, run, handled, stops>>

\* Slots are interchangeable: a run takes any one that is free.
Free(r) == {p \in Goroutine : Home[p] = r /\ pc[p] = "idle"}

\* wg.Add and the start of the goroutine
ServeRun(r) ==
    /\ serve[r] = "add" /\ Free(r) # {}
    /\ serve' = [serve EXCEPT ![r] = "loop"] /\ current' = [current EXCEPT ![r] = None]
    /\ LET p == CHOOSE q \in Free(r) : TRUE
       IN /\ pc' = [pc EXCEPT ![p] = "begin"] /\ msg' = [msg EXCEPT ![p] = current[r]]
    /\ UNCHANGED <<broker, sem, stopping, handled, stops>>

-----------------------------------------------------------------------------
\* The goroutine of a message, and processMessage

Step(p, from, to) == pc[p] = from /\ pc' = [pc EXCEPT ![p] = to]

\* Ack on a channel that is closed has no effect.
Ack(p) ==
    unacked' = [unacked EXCEPT ![Home[p]] =
                   @ \ IF AutoACK[QueueOf[msg[p]]] THEN {msg[p]} ELSE {}]

\* Mutant: the message is acknowledged before its handler
RunBeginAcks(p) ==
    /\ Step(p, "begin", IF cancelled[Home[p]] THEN "done" ELSE "handle")
    /\ Ack(p)
    /\ UNCHANGED <<published, ready, declared, inbox, open, server, stopping, msg,
                   handled, stops>>

\* Mutant: the test of the context is inverted
RunBeginInverted(p) ==
    /\ Step(p, "begin", IF cancelled[Home[p]] THEN "handle" ELSE "done")
    /\ UNCHANGED <<broker, server, stopping, msg, handled, stops>>

RunBegin(p) ==
    /\ Step(p, "begin", IF cancelled[Home[p]] THEN "done" ELSE "handle")
    /\ UNCHANGED <<broker, server, stopping, msg, handled, stops>>

RunHandler(p) ==
    /\ Step(p, "handle", "ack")
    /\ handled' = handled \cup {msg[p]}
    /\ UNCHANGED <<broker, server, stopping, msg, stops>>

RunAck(p) ==
    /\ Step(p, "ack", "done")
    /\ Ack(p)
    /\ UNCHANGED <<published, ready, declared, inbox, open, server, stopping, msg,
                   handled, stops>>

RunDone(p) ==
    /\ Step(p, "done", "release")
    /\ UNCHANGED <<broker, server, stopping, msg, handled, stops>>

RunRelease(p) ==
    /\ Step(p, "release", "idle")
    /\ sem' = [sem EXCEPT ![Home[p]] = @ \ {QueueOf[msg[p]]}]
    /\ msg' = [msg EXCEPT ![p] = None]
    /\ UNCHANGED <<broker, serve, current, stopping, handled, stops>>

-----------------------------------------------------------------------------
\* Shutdown

Shutdown(r) ==
    /\ serve[r] # "off" /\ shutdown[r] = "none"
    /\ stops < MaxStops /\ stops' = stops + 1
    /\ token' = [token EXCEPT ![r] = TRUE]
    /\ shutdown' = [shutdown EXCEPT ![r] = "flag"]
    /\ UNCHANGED <<broker, server, isShutdown, cancelled, run, handled>>

ShutdownFlag(r) ==
    /\ shutdown[r] = "flag"
    /\ isShutdown' = [isShutdown EXCEPT ![r] = TRUE]
    /\ shutdown' = [shutdown EXCEPT ![r] = "wait"]
    /\ UNCHANGED <<broker, server, token, cancelled, run, handled, stops>>

ShutdownWait(r) ==
    /\ shutdown[r] = "wait" /\ InWaitGroup(r) = {}
    /\ shutdown' = [shutdown EXCEPT ![r] = "close"]
    /\ UNCHANGED <<broker, server, token, isShutdown, cancelled, run, handled, stops>>

\* The channel is closed and then the context cancelled; a run that begins between the two
\* does what it does when it begins before them.
ShutdownClose(r) ==
    /\ shutdown[r] = "close"
    /\ CloseChannel(r)
    /\ cancelled' = [cancelled EXCEPT ![r] = TRUE]
    /\ shutdown' = [shutdown EXCEPT ![r] = "returned"]
    /\ UNCHANGED <<server, token, isShutdown, run, handled, stops>>

-----------------------------------------------------------------------------
\* Failures

\* The process dies, or os.Exit ends it when its shutdown takes too long; it starts again.
Crash(r) ==
    /\ serve[r] # "off" /\ shutdown[r] # "returned"
    /\ stops < MaxStops /\ stops' = stops + 1
    /\ CloseChannel(r)
    /\ serve' = [serve EXCEPT ![r] = "off"] /\ current' = [current EXCEPT ![r] = None]
    /\ sem' = [sem EXCEPT ![r] = {}]
    /\ token' = [token EXCEPT ![r] = FALSE]
    /\ isShutdown' = [isShutdown EXCEPT ![r] = FALSE]
    /\ shutdown' = [shutdown EXCEPT ![r] = "none"]
    /\ cancelled' = [cancelled EXCEPT ![r] = FALSE]
    /\ pc' = [p \in Goroutine |-> IF Home[p] = r THEN "idle" ELSE pc[p]]
    /\ msg' = [p \in Goroutine |-> IF Home[p] = r THEN None ELSE msg[p]]
    /\ UNCHANGED handled

\* Nothing opens the channel again: Serve goes round on closed delivery channels.
ConnectionLost(r) ==
    /\ open[r]
    /\ stops < MaxStops /\ stops' = stops + 1
    /\ CloseChannel(r)
    /\ UNCHANGED <<server, stopping, run, handled>>

-----------------------------------------------------------------------------
Serve(r) ==
    \/ ServeLoop(r) \/ ServeClosed(r) \/ ServeSemaphore(r) \/ ServeCheck(r)
    \/ ServeRun(r) \/ \E m \in Message : ServeReceive(r, m)
Run(p) == RunBegin(p) \/ RunHandler(p) \/ RunAck(p) \/ RunDone(p) \/ RunRelease(p)
Stop(r) == ShutdownFlag(r) \/ ShutdownWait(r) \/ ShutdownClose(r)

Next ==
    \/ \E m \in Message : PublishMessage(m)
    \/ \E r \in Runtime :
          \/ NewWorker(r) \/ Serve(r) \/ Shutdown(r) \/ Stop(r)
          \/ Crash(r) \/ ConnectionLost(r)
          \/ \E m \in Message : Deliver(r, m)
    \/ \E p \in Goroutine : Run(p)

Spec == Init /\ [][Next]_vars

\* Goroutines go on, the broker delivers, and a supervisor starts what crashed.
FairSpec ==
    /\ Spec
    /\ \A r \in Runtime : /\ WF_vars(NewWorker(r)) /\ WF_vars(Serve(r)) /\ WF_vars(Stop(r))
                          /\ WF_vars(\E m \in Message : Deliver(r, m))
    /\ \A p \in Goroutine : WF_vars(Run(p))

-----------------------------------------------------------------------------
\* Properties

(***************************************************************************)
(* The types of the variables.  Serve has a message from the select to the *)
(* start of its goroutine, and a slot has one while it is used.            *)
(***************************************************************************)
TypeOK ==
    /\ published \subseteq Message /\ ready \subseteq published /\ declared \in BOOLEAN
    /\ unacked \in [Runtime -> SUBSET published]
    /\ inbox \in [Runtime -> SUBSET published] /\ open \in [Runtime -> BOOLEAN]
    /\ serve \in [Runtime -> {"off", "loop", "select", "semaphore", "check", "add",
                             "returned"}]
    /\ current \in [Runtime -> published \cup {None}] /\ sem \in [Runtime -> SUBSET Queue]
    /\ token \in [Runtime -> BOOLEAN] /\ isShutdown \in [Runtime -> BOOLEAN]
    /\ shutdown \in [Runtime -> {"none", "flag", "wait", "close", "returned"}]
    /\ cancelled \in [Runtime -> BOOLEAN]
    /\ pc \in [Goroutine -> {"idle", "begin", "handle", "ack", "done", "release"}]
    /\ msg \in [Goroutine -> published \cup {None}]
    /\ \A r \in Runtime :
          serve[r] \in {"semaphore", "check", "add"} => current[r] \in Message
    /\ \A p \in Goroutine : pc[p] # "idle" => msg[p] \in Message
    /\ handled \subseteq published /\ stops \in 0..MaxStops

(***************************************************************************)
(* A message leaves the broker only after a handler has ended for it, also *)
(* when a process dies, a connection is lost or Shutdown closes the        *)
(* channel while Serve or a run has the message.                           *)
(***************************************************************************)
NoMessageLost ==
    published \subseteq ready \cup handled \cup UNION {unacked[r] : r \in Runtime}

(***************************************************************************)
(* The handler of a queue runs once at a time in a runtime: the semaphore  *)
(* of a queue has one place, which the run of a message has until its last *)
(* deferred call.                                                          *)
(***************************************************************************)
OneRunPerQueue ==
    \A p, q \in Goroutine :
        /\ Home[p] = Home[q] /\ pc[p] # "idle" /\ pc[q] # "idle"
        /\ QueueOf[msg[p]] = QueueOf[msg[q]]
        => p = q

(***************************************************************************)
(* A message of a queue with AutoACK is handled, whatever crashes there    *)
(* are, as long as some runtime is neither shut down nor cut off.          *)
(***************************************************************************)
MessageHandled ==
    \A m \in {n \in Message : AutoACK[QueueOf[n]]} :
        m \in published ~>
            \/ m \in handled
            \/ \A r \in Runtime : shutdown[r] # "none" \/ (serve[r] # "off" /\ ~open[r])
=============================================================================
