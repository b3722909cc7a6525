------------------------ MODULE RabbitMQWorkerProofs ------------------------
(***************************************************************************)
(* Proofs about the RabbitMQ consumer, for every number of runtimes,       *)
(* messages, queues, slots and stops, and every prefetch count: its types, *)
(* that no message is lost and that a queue has one run at a time in a     *)
(* runtime.                                                                *)
(***************************************************************************)
EXTENDS RabbitMQWorker, TLAPS

-----------------------------------------------------------------------------
\* Types

\* The types hold at first, with every process stopped and nothing published.
LEMMA InitTypeOK == Init => TypeOK
<1> SUFFICES ASSUME Init
             PROVE  TypeOK
  OBVIOUS
<1>1. /\ published \subseteq Message /\ ready \subseteq published /\ declared \in BOOLEAN
      /\ unacked \in [Runtime -> SUBSET published]
      /\ inbox \in [Runtime -> SUBSET published] /\ open \in [Runtime -> BOOLEAN]
      /\ sem \in [Runtime -> SUBSET Queue]
  BY DEF Init
<1>2. /\ current \in [Runtime -> published \cup {None}]
      /\ msg \in [Goroutine -> published \cup {None}]
  BY DEF Init
<1> QED BY <1>1, <1>2, RabbitMQAssumption DEF Init, TypeOK

\* A delivery keeps the types.
LEMMA DeliverTypeOK ==
  ASSUME TypeOK, NEW r \in Runtime, NEW m \in Message, Deliver(r, m)
  PROVE  TypeOK'
  BY RabbitMQAssumption DEF TypeOK, Deliver, server, stopping, run

\* The start of a process and the steps of Serve keep the types.
LEMMA ServeTypeOK ==
  ASSUME TypeOK, NEW r \in Runtime, NewWorker(r) \/ Serve(r)
  PROVE  TypeOK'
<1>1. CASE NewWorker(r)
  BY <1>1, RabbitMQAssumption DEF TypeOK, NewWorker, stopping, run
<1>2. CASE ServeLoop(r)
  BY <1>2, RabbitMQAssumption DEF TypeOK, ServeLoop, broker, run
<1>3. CASE ServeClosed(r)
  BY <1>3, RabbitMQAssumption DEF TypeOK, ServeClosed, broker, stopping, run
<1>4. CASE ServeSemaphore(r)
  BY <1>4, RabbitMQAssumption DEF TypeOK, ServeSemaphore, broker, stopping, run
<1>5. CASE ServeCheck(r)
  BY <1>5, RabbitMQAssumption DEF TypeOK, ServeCheck, broker, stopping, run
<1>6. CASE ServeRun(r)
  BY <1>6, RabbitMQAssumption DEF TypeOK, ServeRun, Free, broker, stopping
<1>7. ASSUME NEW m \in Message, ServeReceive(r, m)
      PROVE  TypeOK'
  BY <1>7, RabbitMQAssumption DEF TypeOK, ServeReceive, stopping, run
<1> QED BY <1>1, <1>2, <1>3, <1>4, <1>5, <1>6, <1>7 DEF Serve

\* The steps of a run keep the types.
LEMMA RunTypeOK ==
  ASSUME TypeOK, NEW p \in Goroutine, Run(p)
  PROVE  TypeOK'
<1>1. CASE RunBegin(p)
  BY <1>1, RabbitMQAssumption DEF TypeOK, RunBegin, Step, broker, server, stopping
<1>2. CASE RunHandler(p)
  BY <1>2, RabbitMQAssumption DEF TypeOK, RunHandler, Step, broker, server, stopping
<1>3. CASE RunAck(p)
  BY <1>3, RabbitMQAssumption DEF TypeOK, RunAck, Ack, Step, server, stopping
<1>4. CASE RunDone(p)
  BY <1>4, RabbitMQAssumption DEF TypeOK, RunDone, Step, broker, server, stopping
<1>5. CASE RunRelease(p)
  BY <1>5, RabbitMQAssumption DEF TypeOK, RunRelease, Step, broker, stopping
<1> QED BY <1>1, <1>2, <1>3, <1>4, <1>5 DEF Run

\* A shutdown, a crash and a lost connection keep the types.
LEMMA StopTypeOK ==
  ASSUME TypeOK, NEW r \in Runtime, Shutdown(r) \/ Stop(r) \/ Crash(r) \/ ConnectionLost(r)
  PROVE  TypeOK'
<1>1. CASE Shutdown(r)
  BY <1>1, RabbitMQAssumption DEF TypeOK, Shutdown, broker, server, run
<1>2. CASE ShutdownFlag(r)
  BY <1>2, RabbitMQAssumption DEF TypeOK, ShutdownFlag, broker, server, run
<1>3. CASE ShutdownWait(r)
  BY <1>3, RabbitMQAssumption DEF TypeOK, ShutdownWait, broker, server, run
<1>4. CASE ShutdownClose(r)
  BY <1>4, RabbitMQAssumption DEF TypeOK, ShutdownClose, CloseChannel, server, run
<1>5. CASE Crash(r)
  BY <1>5, RabbitMQAssumption DEF TypeOK, Crash, CloseChannel
<1>6. CASE ConnectionLost(r)
  BY <1>6, RabbitMQAssumption DEF TypeOK, ConnectionLost, CloseChannel, server, stopping, run
<1> QED BY <1>1, <1>2, <1>3, <1>4, <1>5, <1>6 DEF Stop

\* Every step of the specification, or a stutter, keeps the types.
LEMMA NextTypeOK == TypeOK /\ [Next]_vars => TypeOK'
<1> SUFFICES ASSUME TypeOK, [Next]_vars
             PROVE  TypeOK'
  OBVIOUS
<1>1. ASSUME NEW m \in Message, PublishMessage(m)
      PROVE  TypeOK'
  BY <1>1, RabbitMQAssumption DEF TypeOK, PublishMessage, server, stopping, run
<1>2. CASE UNCHANGED vars
  BY <1>2 DEF TypeOK, vars, broker, server, stopping, run
<1> QED BY <1>1, <1>2, DeliverTypeOK, ServeTypeOK, RunTypeOK, StopTypeOK DEF Next

\* The variables keep their types, and every message held anywhere was published.
THEOREM RabbitMQTypes == Spec => []TypeOK
  BY InitTypeOK, NextTypeOK, PTL DEF Spec

-----------------------------------------------------------------------------
\* No message is lost

\* A run that acknowledges its message has ended its handler.
AckInv == \A p \in Goroutine : pc[p] = "ack" => msg[p] \in handled

\* Acknowledgement after the handler is kept by every step.
LEMMA NextAckInv == TypeOK /\ AckInv /\ [Next]_vars => AckInv'
<1> SUFFICES ASSUME TypeOK, AckInv, [Next]_vars
             PROVE  AckInv'
  OBVIOUS
<1> USE DEF AckInv
<1>1. ASSUME NEW m \in Message, PublishMessage(m)
      PROVE  AckInv'
  BY <1>1 DEF PublishMessage, run
<1>2. ASSUME NEW r \in Runtime, NewWorker(r) \/ Serve(r)
      PROVE  AckInv'
  <2>1. CASE ServeRun(r)
    BY <2>1 DEF TypeOK, ServeRun, Free
  <2> QED BY <1>2, <2>1 DEF NewWorker, Serve, ServeLoop, ServeClosed, ServeSemaphore,
                           ServeCheck, ServeReceive, run
<1>3. ASSUME NEW r \in Runtime, Shutdown(r) \/ Stop(r) \/ ConnectionLost(r)
      PROVE  AckInv'
  BY <1>3 DEF Shutdown, Stop, ShutdownFlag, ShutdownWait, ShutdownClose, ConnectionLost, run
<1>4. ASSUME NEW r \in Runtime, Crash(r)
      PROVE  AckInv'
  BY <1>4 DEF Crash
<1>5. ASSUME NEW r \in Runtime, NEW m \in Message, Deliver(r, m)
      PROVE  AckInv'
  BY <1>5 DEF Deliver, run
<1>6. ASSUME NEW p \in Goroutine, Run(p)
      PROVE  AckInv'
  BY <1>6 DEF TypeOK, Run, RunBegin, RunHandler, RunAck, RunDone, RunRelease, Step
<1>7. CASE UNCHANGED vars
  BY <1>7 DEF vars, run
<1> QED BY <1>1, <1>2, <1>3, <1>4, <1>5, <1>6, <1>7 DEF Next

\* A closed channel gives its messages back.
LEMMA CloseKeeps ==
  ASSUME TypeOK, NoMessageLost, NEW r \in Runtime, CloseChannel(r), UNCHANGED handled
  PROVE  NoMessageLost'
  BY DEF TypeOK, NoMessageLost, CloseChannel

\* Every published message stays in a queue, with a consumer or handled.
LEMMA NextKept ==
  TypeOK /\ AckInv /\ NoMessageLost /\ [Next]_vars => NoMessageLost'
<1> SUFFICES ASSUME TypeOK, AckInv, NoMessageLost, [Next]_vars
             PROVE  NoMessageLost'
  OBVIOUS
<1>1. ASSUME NEW m \in Message, PublishMessage(m)
      PROVE  NoMessageLost'
  BY <1>1 DEF NoMessageLost, PublishMessage
<1>2. ASSUME NEW r \in Runtime, NewWorker(r) \/ Serve(r)
      PROVE  NoMessageLost'
  BY <1>2 DEF NoMessageLost, NewWorker, Serve, ServeLoop, ServeClosed, ServeSemaphore,
              ServeCheck, ServeReceive, ServeRun, broker
<1>3. ASSUME NEW r \in Runtime, Shutdown(r) \/ ShutdownFlag(r) \/ ShutdownWait(r)
      PROVE  NoMessageLost'
  BY <1>3 DEF NoMessageLost, Shutdown, ShutdownFlag, ShutdownWait, broker
<1>4. ASSUME NEW r \in Runtime, ShutdownClose(r) \/ Crash(r) \/ ConnectionLost(r)
      PROVE  NoMessageLost'
  BY <1>4, CloseKeeps DEF ShutdownClose, Crash, ConnectionLost
<1>5. ASSUME NEW r \in Runtime, NEW m \in Message, Deliver(r, m)
      PROVE  NoMessageLost'
  BY <1>5 DEF TypeOK, NoMessageLost, Deliver
<1>6. ASSUME NEW p \in Goroutine, RunAck(p)
      PROVE  NoMessageLost'
  <2>1. msg[p] \in handled
    BY <1>6 DEF AckInv, RunAck, Step
  <2>2. \A m \in Message, r \in Runtime :
            m \in unacked[r] => m \in unacked'[r] \/ m = msg[p]
    BY <1>6, RabbitMQAssumption DEF TypeOK, RunAck, Ack
  <2> QED BY <1>6, <2>1, <2>2 DEF TypeOK, NoMessageLost, RunAck
<1>7. ASSUME NEW p \in Goroutine, RunBegin(p) \/ RunHandler(p) \/ RunDone(p) \/ RunRelease(p)
      PROVE  NoMessageLost'
  BY <1>7 DEF NoMessageLost, RunBegin, RunHandler, RunDone, RunRelease, broker
<1>8. CASE UNCHANGED vars
  BY <1>8 DEF NoMessageLost, vars, broker
<1> QED BY <1>1, <1>2, <1>3, <1>4, <1>5, <1>6, <1>7, <1>8 DEF Next, Stop, Run

(***************************************************************************)
(* No message is lost: it leaves the broker only after its handler, since  *)
(* the acknowledgement is a deferred call of processMessage and a channel  *)
(* that ends gives back what it had not acknowledged.                      *)
(***************************************************************************)
THEOREM RabbitMQKept == Spec => []NoMessageLost
<1>1. Init => AckInv /\ NoMessageLost
  BY DEF Init, AckInv, NoMessageLost
<1> QED BY <1>1, RabbitMQTypes, NextAckInv, NextKept, PTL DEF Spec

-----------------------------------------------------------------------------
\* One run of a queue at a time

\* A run has the semaphore of its queue.
RunSem == \A p \in Goroutine : pc[p] # "idle" => QueueOf[msg[p]] \in sem[Home[p]]

\* Serve has the semaphore before it starts a run, and no run of that queue is left.
ServeSem ==
    \A r \in Runtime : serve[r] \in {"check", "add"} =>
        /\ QueueOf[current[r]] \in sem[r]
        /\ \A p \in Goroutine :
              Home[p] = r /\ pc[p] # "idle" => QueueOf[msg[p]] # QueueOf[current[r]]

SemInv == RunSem /\ ServeSem /\ OneRunPerQueue

\* The steps of Serve keep the semaphores.
LEMMA ServeSemInv ==
  ASSUME TypeOK, SemInv, NEW r \in Runtime, Serve(r)
  PROVE  SemInv'
<1> USE DEF SemInv, RunSem, ServeSem, OneRunPerQueue
<1>1. CASE ServeLoop(r) \/ ServeClosed(r)
  BY <1>1 DEF TypeOK, ServeLoop, ServeClosed, run
<1>2. CASE ServeSemaphore(r)
  BY <1>2, RabbitMQAssumption DEF TypeOK, ServeSemaphore, run
<1>3. CASE ServeCheck(r)
  BY <1>3 DEF TypeOK, ServeCheck, run
<1>4. ASSUME NEW m \in Message, ServeReceive(r, m)
      PROVE  SemInv'
  BY <1>4, RabbitMQAssumption DEF TypeOK, ServeReceive, run
<1>5. CASE ServeRun(r)
  <2>1. PICK p \in Goroutine : /\ Home[p] = r /\ pc[p] = "idle"
                               /\ pc' = [pc EXCEPT ![p] = "begin"]
                               /\ msg' = [msg EXCEPT ![p] = current[r]]
    BY <1>5 DEF ServeRun, Free
  <2>2. /\ serve[r] = "add" /\ sem' = sem
        /\ serve' = [serve EXCEPT ![r] = "loop"]
        /\ current' = [current EXCEPT ![r] = None]
    BY <1>5 DEF ServeRun
  <2>3. RunSem'
    BY <2>1, <2>2 DEF TypeOK
  <2>4. ServeSem'
    BY <2>1, <2>2, RabbitMQAssumption DEF TypeOK
  <2>5. OneRunPerQueue'
    BY <2>1, <2>2 DEF TypeOK
  <2> QED BY <2>3, <2>4, <2>5
<1> QED BY <1>1, <1>2, <1>3, <1>4, <1>5 DEF Serve

\* The steps of a run keep the semaphores.
LEMMA RunSemInv ==
  ASSUME TypeOK, SemInv, NEW p \in Goroutine, Run(p)
  PROVE  SemInv'
<1> USE DEF SemInv, RunSem, ServeSem, OneRunPerQueue
<1>1. CASE RunBegin(p) \/ RunHandler(p) \/ RunAck(p) \/ RunDone(p)
  BY <1>1 DEF TypeOK, RunBegin, RunHandler, RunAck, RunDone, Step, server
<1>2. CASE RunRelease(p)
  BY <1>2, RabbitMQAssumption DEF TypeOK, RunRelease, Step
<1> QED BY <1>1, <1>2 DEF Run

\* Every step keeps the semaphores.
LEMMA NextSemInv == TypeOK /\ SemInv /\ [Next]_vars => SemInv'
<1> SUFFICES ASSUME TypeOK, SemInv, [Next]_vars
             PROVE  SemInv'
  OBVIOUS
<1> USE DEF SemInv, RunSem, ServeSem, OneRunPerQueue
<1>1. ASSUME NEW m \in Message, PublishMessage(m)
      PROVE  SemInv'
  BY <1>1 DEF PublishMessage, server, run
<1>2. ASSUME NEW r \in Runtime, NewWorker(r)
      PROVE  SemInv'
  BY <1>2 DEF TypeOK, NewWorker, run
<1>3. ASSUME NEW r \in Runtime, Shutdown(r) \/ Stop(r) \/ ConnectionLost(r)
      PROVE  SemInv'
  BY <1>3 DEF Shutdown, Stop, ShutdownFlag, ShutdownWait, ShutdownClose, ConnectionLost,
              server, run
<1>4. ASSUME NEW r \in Runtime, Crash(r)
      PROVE  SemInv'
  BY <1>4, RabbitMQAssumption DEF TypeOK, Crash
<1>5. ASSUME NEW r \in Runtime, NEW m \in Message, Deliver(r, m)
      PROVE  SemInv'
  BY <1>5 DEF Deliver, server, run
<1>6. CASE UNCHANGED vars
  BY <1>6 DEF vars, server, run
<1> QED BY <1>1, <1>2, <1>3, <1>4, <1>5, <1>6, ServeSemInv, RunSemInv DEF Next

(***************************************************************************)
(* The handler of a queue runs once at a time in a runtime: Serve takes    *)
(* the one place of the semaphore before the run that gives it back.       *)
(***************************************************************************)
THEOREM RabbitMQOneRun == Spec => []OneRunPerQueue
<1>1. Init => SemInv
  BY DEF Init, SemInv, RunSem, ServeSem, OneRunPerQueue
<1>2. SemInv => OneRunPerQueue
  BY DEF SemInv
<1> QED BY <1>1, <1>2, RabbitMQTypes, NextSemInv, PTL DEF Spec
=============================================================================
