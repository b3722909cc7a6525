---------------------------- MODULE KafkaWorker ----------------------------
(***************************************************************************)
(* The Kafka consumer (src/codebase/app/kafka_worker/) on one partition of *)
(* a topic, shared by the processes of a consumer group.  The group, its   *)
(* rebalances and the committed offset belong to sarama and the brokers:   *)
(* they are modelled by what the worker can see of them.  Of the processes *)
(* with a session one owns the partition; the broker may end a session     *)
(* (the handler in it still finishes, and is waited for) or give up on a   *)
(* process that does not answer in time and let another one own the        *)
(* partition; then what the first one commits is refused.                  *)
(***************************************************************************)
EXTENDS ServiceProcess

CONSTANTS AutoACK,      \* WorkerHandler.AutoACK of the topic
          MaxMessages,  \* bound: so many messages are published, counted once per process
          MaxTroubles   \* bound: so many failed Consume calls, rebalances and
                        \* expulsions, counted once per process

ASSUME KafkaAssumption == AutoACK \in BOOLEAN /\ MaxMessages \in Nat /\ MaxTroubles \in Nat

VARIABLES kLog,        \* how many messages the partition holds
          kCommitted,  \* the offset of the group
          kOwner,      \* the process that owns the partition
          kRan,        \* offsets some handler has returned from
          kTroubles,
          kafka        \* the worker of a process

kVars == <<kLog, kCommitted, kOwner, kRan, kTroubles, kafka>>

KafkaInit ==
    /\ kLog = 0 /\ kCommitted = 0 /\ kOwner = None /\ kRan = {} /\ kTroubles = 0
    /\ kafka = [p \in Pod |-> [serve |-> "off", cancelFunc |-> FALSE, cancelled |-> FALSE,
                               ready |-> FALSE, session |-> "none", claim |-> FALSE,
                               handler |-> FALSE,
                               position |-> 0, marked |-> 0, stop |-> "no"]]

Trouble == (kTroubles + 1) * Replicas <= MaxTroubles

-----------------------------------------------------------------------------
\* PublishMessage: SendMessage returned, or the message left the asynchronous producer.
PublishMessage ==
    /\ (kLog + 1) * Replicas <= MaxMessages
    /\ kLog' = kLog + 1
    /\ UNCHANGED <<kCommitted, kOwner, kRan, kTroubles, kafka, exit>>

\* Serve stores cancelFunc and starts the loop that consumes.
KafkaServe(p) ==
    /\ Alive(p) /\ kafka[p].serve = "off"
    /\ kafka' = [kafka EXCEPT ![p].serve = "consume", ![p].cancelFunc = TRUE]
    /\ UNCHANGED <<kLog, kCommitted, kOwner, kRan, kTroubles, exit>>

\* Mutant: the loop goes on with the channel of the last session
AfterConsumeStale(k) ==
    [k EXCEPT !.session = "none",
              !.serve = IF k.cancelled THEN "returned" ELSE "consume"]

\* After Consume: return when the context is done, else go on with a fresh channel.
AfterConsume(k) ==
    [k EXCEPT !.session = "none",
              !.serve = IF k.cancelled THEN "returned" ELSE "consume",
              !.ready = IF k.cancelled THEN @ ELSE FALSE]

\* Consume fails without a session; ErrInvalidTopic ends the process with log.Fatal.
ConsumeFails(p) ==
    /\ Alive(p) /\ kafka[p].serve = "consume" /\ kafka[p].session = "none"
    /\ Trouble \/ kafka[p].cancelled
    /\ kTroubles' = IF kafka[p].cancelled THEN kTroubles ELSE kTroubles + 1
    /\ \/ exit' = exit /\ kafka' = [kafka EXCEPT ![p] = AfterConsume(@)]
       \/ exit' = [exit EXCEPT ![p] = "fatal"] /\ UNCHANGED kafka
    /\ UNCHANGED <<kLog, kCommitted, kOwner, kRan>>

(***************************************************************************)
(* A session begins: Setup closes the ready channel (a second close of the *)
(* same channel panics), the process owns the partition if it is free and  *)
(* then reads from the committed offset.                                   *)
(***************************************************************************)
Setup(p) ==
    /\ Alive(p) /\ kafka[p].serve = "consume" /\ kafka[p].session = "none"
    /\ ~kafka[p].cancelled
    /\ IF kafka[p].ready
       THEN exit' = [exit EXCEPT ![p] = "crash"] /\ UNCHANGED <<kOwner, kafka>>
       ELSE /\ kafka' = [kafka EXCEPT ![p].ready = TRUE, ![p].session = "active",
                                      ![p].claim = kOwner = None,
                                      ![p].position = kCommitted, ![p].marked = kCommitted]
            /\ kOwner' = IF kOwner = None THEN p ELSE kOwner
            /\ UNCHANGED exit
    /\ UNCHANGED <<kLog, kCommitted, kRan, kTroubles>>

\* The broker ends the session, to rebalance or because Serve's context is done.
SessionEnds(p) ==
    /\ Alive(p) /\ kafka[p].session = "active"
    /\ Trouble \/ kafka[p].cancelled
    /\ kTroubles' = IF kafka[p].cancelled THEN kTroubles ELSE kTroubles + 1
    /\ kafka' = [kafka EXCEPT ![p].session = "ending"]
    /\ UNCHANGED <<kLog, kCommitted, kOwner, kRan, exit>>

\* The broker takes the partition from a process that does not answer, or is gone.
Expel(p) ==
    /\ kOwner = p /\ (Trouble \/ ~Alive(p))
    /\ kTroubles' = IF Alive(p) THEN kTroubles + 1 ELSE kTroubles
    /\ kOwner' = None
    /\ kafka' = [kafka EXCEPT ![p].session = IF Alive(p) THEN "ending" ELSE @]
    /\ UNCHANGED <<kLog, kCommitted, kRan, exit>>

\* Mutant: the offset is marked before the handlers run
ConsumeClaimMarks(p) ==
    /\ Alive(p) /\ kafka[p].session # "none" /\ ~kafka[p].handler
    /\ kafka[p].claim /\ kafka[p].position < kLog
    /\ kafka' = [kafka EXCEPT ![p].handler = TRUE, ![p].marked = kafka[p].position + 1]
    /\ UNCHANGED <<kLog, kCommitted, kOwner, kRan, kTroubles, exit>>

\* ConsumeClaim takes the next message, also when the session is already done or lost.
ConsumeClaim(p) ==
    /\ Alive(p) /\ kafka[p].session # "none" /\ ~kafka[p].handler
    /\ kafka[p].claim /\ kafka[p].position < kLog
    /\ kafka' = [kafka EXCEPT ![p].handler = TRUE]
    /\ UNCHANGED <<kLog, kCommitted, kOwner, kRan, kTroubles, exit>>

\* processMessage returns: with AutoACK the message is marked, also after an error or panic.
ProcessMessage(p) ==
    /\ Alive(p) /\ kafka[p].handler
    /\ kRan' = kRan \cup {kafka[p].position}
    /\ kafka' = [kafka EXCEPT ![p].handler = FALSE, ![p].position = @ + 1,
                              ![p].marked = IF AutoACK THEN kafka[p].position + 1 ELSE @]
    /\ UNCHANGED <<kLog, kCommitted, kOwner, kTroubles, exit>>

\* The offset manager commits what is marked, while the process still owns the partition.
Commit(p) ==
    /\ Alive(p) /\ kafka[p].session # "none" /\ kOwner = p /\ kafka[p].marked > kCommitted
    /\ kCommitted' = kafka[p].marked
    /\ UNCHANGED <<kLog, kOwner, kRan, kTroubles, kafka, exit>>

\* Cleanup: the last commit, the partition is released and Consume returns.
Cleanup(p) ==
    /\ Alive(p) /\ kafka[p].session = "ending" /\ ~kafka[p].handler
    /\ kCommitted' = IF kOwner = p /\ kafka[p].marked > kCommitted THEN kafka[p].marked
                                                                   ELSE kCommitted
    /\ kOwner' = IF kOwner = p THEN None ELSE kOwner
    /\ kafka' = [kafka EXCEPT ![p] = AfterConsume(@)]
    /\ UNCHANGED <<kLog, kRan, kTroubles, exit>>

-----------------------------------------------------------------------------
\* Shutdown calls cancelFunc, a nil function before Serve has run: that panics.
KafkaStop(p) ==
    /\ kafka[p].stop = "no"
    /\ IF kafka[p].cancelFunc
       THEN /\ kafka' = [kafka EXCEPT ![p].stop = "close", ![p].cancelled = TRUE]
            /\ UNCHANGED exit
       ELSE exit' = [exit EXCEPT ![p] = "crash"] /\ UNCHANGED kafka
    /\ UNCHANGED <<kLog, kCommitted, kOwner, kRan, kTroubles>>

\* engine.Close leaves the group; it needs the lock Consume holds while there is a session.
KafkaClose(p) ==
    /\ Alive(p) /\ kafka[p].stop = "close" /\ kafka[p].session = "none"
    /\ kafka' = [kafka EXCEPT ![p].stop = "done"]
    /\ UNCHANGED <<kLog, kCommitted, kOwner, kRan, kTroubles, exit>>

-----------------------------------------------------------------------------
KafkaServeStep(p) ==
    \/ KafkaServe(p) \/ Setup(p) \/ ConsumeClaim(p) \/ ProcessMessage(p) \/ Cleanup(p)
    \/ kafka[p].cancelled /\ (SessionEnds(p) \/ ConsumeFails(p))

KafkaNext ==
    \/ PublishMessage
    \/ \E p \in Pod :
          \/ KafkaServe(p) \/ ConsumeFails(p) \/ Setup(p) \/ SessionEnds(p) \/ Expel(p)
          \/ ConsumeClaim(p) \/ ProcessMessage(p) \/ Commit(p) \/ Cleanup(p)
          \/ KafkaClose(p)

-----------------------------------------------------------------------------
KafkaTypeOK ==
    /\ kLog \in 0..MaxMessages /\ kCommitted \in 0..kLog /\ kTroubles \in 0..MaxTroubles
    /\ kOwner \in Pod \cup {None} /\ kRan \subseteq 0..(MaxMessages - 1)
    /\ kafka \in [Pod -> [serve : {"off", "consume", "returned"}, cancelFunc : BOOLEAN,
                          cancelled : BOOLEAN, ready : BOOLEAN,
                          session : {"none", "active", "ending"}, claim : BOOLEAN, handler : BOOLEAN,
                          position : 0..MaxMessages, marked : 0..MaxMessages,
                          stop : {"no", "close", "done"}]]

(***************************************************************************)
(* The offset of the group passes a message only after a handler returned  *)
(* from it, whatever rebalances, expulsions and deaths happen on the way:  *)
(* processMessage marks in the deferred function, after the handlers, and  *)
(* ConsumeClaim takes the messages of a partition one after another.       *)
(***************************************************************************)
NoMessageSkipped == 0..(kCommitted - 1) \subseteq kRan
=============================================================================
