----------------------------- MODULE RedisWorker -----------------------------
(***************************************************************************)
(* Delayed messages over Redis: the publisher (src/broker/redis.go) and    *)
(* the subscriber (src/codebase/app/redis_worker) in every runtime of a    *)
(* service.                                                                *)
(*                                                                         *)
(* PublishMessage makes a key that names the event and expires after the   *)
(* delay, and stores the body in a hash under the caller's key.  Every     *)
(* runtime hears of the expiry; the lock of the event and the deletion of  *)
(* the body keep all but one of them from the handler.                     *)
(*                                                                         *)
(* A step is one Redis command or one operation on a channel or the wait   *)
(* group.  Events without a handler, traces and logs are left out, as is   *)
(* the body inside the key, which only the deprecated key format has.      *)
(***************************************************************************)
EXTENDS Integers, Sequences, FiniteSets

CONSTANTS Runtime,        \* processes that run the worker of the service
          Message,        \* calls of PublishMessage, each made once
          Key,            \* the values of PublisherArgument.Key
          Goroutine,      \* slots for runs: as many per runtime as SetMaxGoroutines allows
          Home,           \* the runtime of each slot
          None,           \* no message
          MaxDeletes,     \* bound: calls with IsDeleteMessage in a behaviour
          MaxLosses       \* bound: lost connections in a behaviour

ASSUME RedisAssumption ==
    /\ Home \in [Goroutine -> Runtime] /\ None \notin Message
    /\ MaxDeletes \in Nat /\ MaxLosses \in Nat

VARIABLES pub, key,       \* where PublishMessage is, and the key of its argument
          timer,          \* the events whose key exists; expiring: with an expiry
          expiring,
          hash,           \* the message whose body is stored under each key
          locks,          \* the events whose lock key exists
          del, delKey,    \* where deleteMessage is, its key, and what KEYS found
          delTodo,
          serve, inbox,   \* where Serve is, and the events its subscription holds
          current,        \* the event it has received
          shutdown,       \* where Shutdown is
          todo,           \* the lock keys that Reset has left
          pc, event,      \* of each run
          body,           \* the message whose body it has read
          early,          \* history: the messages whose key expired before the body was stored
          handled,        \* history: how often the body of a message reached a handler
          dropped,        \* history: messages that were published before a deletion that is over
          doomed,         \* history: the same for the deletion that is going on
          intruded,       \* history: Reset has deleted the lock of a run that was going on
          deletes, losses

publisher == <<pub, key, timer, expiring>>
deletion == <<del, delKey, delTodo, doomed, dropped, deletes>>
server == <<serve, inbox, current, losses, early>>
run == <<pc, event, body>>
vars == <<publisher, hash, locks, deletion, server, shutdown, todo, run, handled, intruded>>

Init ==
    /\ pub = [m \in Message |-> "new"] /\ key \in [Message -> Key]
    /\ timer = {} /\ expiring = {}
    /\ hash = [k \in Key |-> None] /\ locks = {}
    /\ del = "none" /\ delKey = None /\ delTodo = {} /\ doomed = {} /\ dropped = {}
    /\ serve = [r \in Runtime |-> "off"] /\ inbox = [r \in Runtime |-> <<>>]
    /\ current = [r \in Runtime |-> None]
    /\ shutdown = [r \in Runtime |-> "none"] /\ todo = [r \in Runtime |-> {}]
    /\ pc = [p \in Goroutine |-> "idle"] /\ event = [p \in Goroutine |-> None]
    /\ body = [p \in Goroutine |-> None]
    /\ handled = [m \in Message |-> 0]
    /\ intruded = FALSE /\ early = {} /\ deletes = 0 /\ losses = 0

\* The runs that have the lock of event m as far as they know
Holders(m) ==
    {p \in Goroutine : event[p] = m /\ pc[p] \in {"hget", "hdel", "handle", "unlock"}}

InWaitGroup(r) == {p \in Goroutine : Home[p] = r /\ pc[p] \notin {"idle", "release"}}

\* No other message has the key of message m.
Unshared(m) == \A n \in Message : key[n] = key[m] => n = m

-----------------------------------------------------------------------------
\* PublishMessage

PublishSet(m) ==
    /\ pub[m] = "new" /\ pub' = [pub EXCEPT ![m] = "expire"]
    /\ timer' = timer \cup {m}
    /\ UNCHANGED <<key, expiring, hash, locks, deletion, server, shutdown, todo, run,
                   handled, intruded>>

\* EXPIRE does nothing to a key that deleteMessage has removed by now.
PublishExpire(m) ==
    /\ pub[m] = "expire" /\ pub' = [pub EXCEPT ![m] = "hset"]
    /\ expiring' = expiring \cup ({m} \cap timer)
    /\ UNCHANGED <<key, timer, hash, locks, deletion, server, shutdown, todo, run,
                   handled, intruded>>

PublishHSet(m) ==
    /\ pub[m] = "hset" /\ pub' = [pub EXCEPT ![m] = "done"]
    /\ hash' = [hash EXCEPT ![key[m]] = m]
    /\ UNCHANGED <<key, timer, expiring, locks, deletion, server, shutdown, todo, run,
                   handled, intruded>>

-----------------------------------------------------------------------------
\* deleteMessage

DeleteHDel(k) ==
    /\ del = "none" /\ deletes < MaxDeletes /\ deletes' = deletes + 1
    /\ del' = "keys" /\ delKey' = k
    /\ hash' = [hash EXCEPT ![k] = None]
    /\ doomed' = {m \in Message : key[m] = k /\ pub[m] = "done"}
    /\ UNCHANGED <<publisher, locks, delTodo, dropped, server, shutdown, todo, run,
                   handled, intruded>>

DeleteKeys ==
    /\ del = "keys" /\ del' = "del"
    /\ delTodo' = {m \in timer : key[m] = delKey}
    /\ UNCHANGED <<publisher, hash, locks, delKey, doomed, dropped, deletes, server,
                   shutdown, todo, run, handled, intruded>>

DeleteDel(m) ==
    /\ del = "del" /\ m \in delTodo
    /\ delTodo' = delTodo \ {m}
    /\ timer' = timer \ {m} /\ expiring' = expiring \ {m}
    /\ UNCHANGED <<pub, key, hash, locks, del, delKey, doomed, dropped, deletes, server,
                   shutdown, todo, run, handled, intruded>>

DeleteReturn ==
    /\ del = "del" /\ delTodo = {}
    /\ del' = "none" /\ delKey' = None
    /\ dropped' = dropped \cup doomed /\ doomed' = {}
    /\ UNCHANGED <<publisher, hash, locks, delTodo, deletes, server,
                   shutdown, todo, run, handled, intruded>>

-----------------------------------------------------------------------------
\* Redis

\* The key of an event expires: every subscription hears of it.
Expire(m) ==
    /\ m \in expiring
    /\ timer' = timer \ {m} /\ expiring' = expiring \ {m}
    /\ early' = early \cup {n \in {m} : pub[n] # "done"}
    /\ inbox' = [r \in Runtime |-> IF serve[r] \in {"receive", "semaphore"}
                                      THEN Append(inbox[r], m) ELSE inbox[r]]
    /\ UNCHANGED <<pub, key, hash, locks, deletion, serve, current, losses, shutdown, todo,
                   run, handled, intruded>>

-----------------------------------------------------------------------------
\* NewWorker with its Reset, and Serve

Start(r) ==
    /\ serve[r] = "off"
    /\ serve' = [serve EXCEPT ![r] = "reset"]
    /\ todo' = [todo EXCEPT ![r] = locks]
    /\ UNCHANGED <<publisher, hash, locks, deletion, inbox, current, losses, early, shutdown, run,
                   handled, intruded>>

\* One DEL of the Reset of NewWorker or of Shutdown
ResetKey(r, m) ==
    /\ serve[r] = "reset" \/ shutdown[r] = "reset"
    /\ m \in todo[r]
    /\ todo' = [todo EXCEPT ![r] = @ \ {m}]
    /\ locks' = locks \ {m}
    /\ intruded' = (intruded \/ Holders(m) # {})
    /\ UNCHANGED <<publisher, hash, deletion, server, shutdown, run, handled>>

\* InitPubSubConn of Serve
InitPubSubConn(r) ==
    /\ \/ serve[r] = "reset" /\ todo[r] = {}
       \/ serve[r] = "lost"
    /\ serve' = [serve EXCEPT ![r] = "receive"]
    /\ UNCHANGED <<publisher, hash, locks, deletion, inbox, current, losses, early, shutdown, todo,
                   run, handled, intruded>>

\* Receive returns an error: what the subscription held is gone.
ConnectionLost(r) ==
    /\ serve[r] = "receive" /\ losses < MaxLosses /\ losses' = losses + 1
    /\ serve' = [serve EXCEPT ![r] = "lost"]
    /\ inbox' = [inbox EXCEPT ![r] = <<>>]
    /\ UNCHANGED <<publisher, hash, locks, deletion, current, early, shutdown, todo, run, handled,
                   intruded>>

ServeReceive(r) ==
    /\ serve[r] = "receive" /\ inbox[r] # <<>>
    /\ serve' = [serve EXCEPT ![r] = "semaphore"]
    /\ current' = [current EXCEPT ![r] = Head(inbox[r])]
    /\ inbox' = [inbox EXCEPT ![r] = Tail(@)]
    /\ UNCHANGED <<publisher, hash, locks, deletion, losses, early, shutdown, todo, run, handled,
                   intruded>>

\* A free slot is room in the semaphore; the wait group counts the goroutine from here on.
ServeRun(r, p) ==
    /\ serve[r] = "semaphore" /\ Home[p] = r /\ pc[p] = "idle"
    /\ serve' = [serve EXCEPT ![r] = "receive"]
    /\ current' = [current EXCEPT ![r] = None]
    /\ pc' = [pc EXCEPT ![p] = "begin"] /\ event' = [event EXCEPT ![p] = current[r]]
    /\ UNCHANGED <<publisher, hash, locks, deletion, inbox, losses, early, shutdown, todo, body,
                   handled, intruded>>

-----------------------------------------------------------------------------
\* The goroutine of an event, and processMessage

Step(p, from, to) == pc[p] = from /\ pc' = [pc EXCEPT ![p] = to]

Cancelled(r) == shutdown[r] \in {"reset", "returned"}

RunBegin(p) ==
    /\ Step(p, "begin", IF Cancelled(Home[p]) THEN "done" ELSE "lock")
    /\ UNCHANGED <<publisher, hash, locks, deletion, server, shutdown, todo, event, body,
                   handled, intruded>>

\* Mutant: IsLocked compares the counter after INCR with zero
RunLockNever(p) ==
    /\ Step(p, "lock", "done")
    /\ UNCHANGED <<publisher, hash, locks, deletion, server, shutdown, todo, event, body, handled,
                   intruded>>

\* IsLocked
RunLock(p) ==
    /\ Step(p, "lock", IF event[p] \in locks THEN "done" ELSE "hget")
    /\ locks' = locks \cup {event[p]}
    /\ UNCHANGED <<publisher, hash, deletion, server, shutdown, todo, event, body, handled,
                   intruded>>

\* Mutant: the return without a body skips the deferred Unlock
RunHGetReturns(p) ==
    LET stored == hash[key[event[p]]] IN
    /\ Step(p, "hget", IF stored = None THEN "done" ELSE "hdel")
    /\ body' = [body EXCEPT ![p] = stored]
    /\ UNCHANGED <<publisher, hash, locks, deletion, server, shutdown, todo, event, handled,
                   intruded>>

\* HGET: without a body the run is over, and its connection stays out of the pool
RunHGet(p) ==
    LET stored == hash[key[event[p]]] IN
    /\ Step(p, "hget", IF stored = None THEN "unlock" ELSE "hdel")
    /\ body' = [body EXCEPT ![p] = stored]
    /\ UNCHANGED <<publisher, hash, locks, deletion, server, shutdown, todo, event, handled,
                   intruded>>

\* Mutant: the body stays in the hash
RunHDelNot(p) ==
    /\ Step(p, "hdel", "handle")
    /\ handled' = [handled EXCEPT ![body[p]] = @ + 1]
    /\ UNCHANGED <<publisher, hash, locks, deletion, server, shutdown, todo, event, body,
                   intruded>>

\* HDEL, and the handler starts.
RunHDel(p) ==
    /\ Step(p, "hdel", "handle")
    /\ hash' = [hash EXCEPT ![key[event[p]]] = None]
    /\ handled' = [handled EXCEPT ![body[p]] = @ + 1]
    /\ UNCHANGED <<publisher, locks, deletion, server, shutdown, todo, event, body, intruded>>

\* The handler, or the return without a body, is followed by the deferred Unlock.
RunUnlock(p) ==
    /\ pc[p] \in {"handle", "unlock"} /\ pc' = [pc EXCEPT ![p] = "done"]
    /\ locks' = locks \ {event[p]}
    /\ body' = [body EXCEPT ![p] = None]
    /\ UNCHANGED <<publisher, hash, deletion, server, shutdown, todo, event, handled, intruded>>

RunDone(p) ==
    /\ Step(p, "done", "release")
    /\ UNCHANGED <<publisher, hash, locks, deletion, server, shutdown, todo, event, body,
                   handled, intruded>>

RunRelease(p) ==
    /\ Step(p, "release", "idle")
    /\ event' = [event EXCEPT ![p] = None]
    /\ UNCHANGED <<publisher, hash, locks, deletion, server, shutdown, todo, body, handled,
                   intruded>>

-----------------------------------------------------------------------------
\* Shutdown: Serve goes on meanwhile and afterwards.

Shutdown(r) ==
    /\ shutdown[r] = "none" /\ serve[r] \notin {"off", "reset"}
    /\ shutdown' = [shutdown EXCEPT ![r] = "wait"]
    /\ UNCHANGED <<publisher, hash, locks, deletion, server, todo, run, handled, intruded>>

ShutdownWait(r) ==
    /\ shutdown[r] = "wait" /\ InWaitGroup(r) = {}
    /\ shutdown' = [shutdown EXCEPT ![r] = "cancel"]
    /\ UNCHANGED <<publisher, hash, locks, deletion, server, todo, run, handled, intruded>>

\* ctxCancelFunc and KEYS of Reset
ShutdownCancel(r) ==
    /\ shutdown[r] = "cancel"
    /\ shutdown' = [shutdown EXCEPT ![r] = "reset"]
    /\ todo' = [todo EXCEPT ![r] = locks]
    /\ UNCHANGED <<publisher, hash, locks, deletion, server, run, handled, intruded>>

ShutdownReturn(r) ==
    /\ shutdown[r] = "reset" /\ todo[r] = {}
    /\ shutdown' = [shutdown EXCEPT ![r] = "returned"]
    /\ UNCHANGED <<publisher, hash, locks, deletion, server, todo, run, handled, intruded>>

-----------------------------------------------------------------------------
Publish(m) == PublishSet(m) \/ PublishExpire(m) \/ PublishHSet(m)
Delete ==
    \/ \E k \in Key : DeleteHDel(k)
    \/ DeleteKeys \/ DeleteReturn
    \/ \E m \in Message : DeleteDel(m)
Serve(r) ==
    \/ Start(r) \/ InitPubSubConn(r) \/ ServeReceive(r)
    \/ \E m \in Message : ResetKey(r, m)
    \/ \E p \in Goroutine : ServeRun(r, p)
Run(p) ==
    \/ RunBegin(p) \/ RunLock(p) \/ RunHGet(p) \/ RunHDel(p)
    \/ RunUnlock(p) \/ RunDone(p) \/ RunRelease(p)
Stop(r) == ShutdownWait(r) \/ ShutdownCancel(r) \/ ShutdownReturn(r)

Next ==
    \/ \E m \in Message : Publish(m) \/ Expire(m)
    \/ Delete
    \/ \E r \in Runtime : Serve(r) \/ ConnectionLost(r) \/ Shutdown(r) \/ Stop(r)
    \/ \E p \in Goroutine : Run(p)

Spec == Init /\ [][Next]_vars

\* The goroutines of the worker go on.
FairSpec ==
    /\ Spec
    /\ \A r \in Runtime : WF_vars(Serve(r)) /\ WF_vars(Stop(r))
    /\ \A p \in Goroutine : WF_vars(Run(p))

-----------------------------------------------------------------------------
\* Properties

(***************************************************************************)
(* The types of the variables.  A slot has an event while it is used, and  *)
(* a run that deletes the body or is in its handler has read one.          *)
(***************************************************************************)
TypeOK ==
    /\ pub \in [Message -> {"new", "expire", "hset", "done"}] /\ key \in [Message -> Key]
    /\ timer \subseteq Message /\ expiring \subseteq timer
    /\ hash \in [Key -> Message \cup {None}] /\ locks \subseteq Message
    /\ del \in {"none", "keys", "del"} /\ delKey \in Key \cup {None}
    /\ delTodo \subseteq Message /\ doomed \subseteq Message /\ dropped \subseteq Message
    /\ serve \in [Runtime -> {"off", "reset", "receive", "semaphore", "lost"}]
    /\ inbox \in [Runtime -> Seq(Message)] /\ current \in [Runtime -> Message \cup {None}]
    /\ shutdown \in [Runtime -> {"none", "wait", "cancel", "reset", "returned"}]
    /\ todo \in [Runtime -> SUBSET Message]
    /\ pc \in [Goroutine -> {"idle", "begin", "lock", "hget", "hdel", "handle", "unlock",
                             "done", "release"}]
    /\ event \in [Goroutine -> Message \cup {None}]
    /\ body \in [Goroutine -> Message \cup {None}]
    /\ \A r \in Runtime : serve[r] = "semaphore" => current[r] \in Message
    /\ \A p \in Goroutine : /\ pc[p] # "idle" => event[p] \in Message
                            /\ pc[p] \in {"hdel", "handle"} => body[p] \in Message
    /\ handled \in [Message -> Nat] /\ early \subseteq Message /\ intruded \in BOOLEAN
    /\ deletes \in 0..MaxDeletes /\ losses \in 0..MaxLosses

(***************************************************************************)
(* "lock for multiple worker": the body of a message reaches one handler   *)
(* in all runtimes, however late the other runtimes hear of the event, if  *)
(* no other message has its key and no Reset has deleted the lock of a run *)
(* that was going on.                                                      *)
(***************************************************************************)
HandledOnce ==
    \A m \in Message : Unshared(m) /\ ~intruded => handled[m] <= 1

(***************************************************************************)
(* A lock exists only while a run has it, on every way out of              *)
(* processMessage: no event stays locked.                                  *)
(***************************************************************************)
NoOrphanLock ==
    \A m \in locks : Holders(m) # {}

(***************************************************************************)
(* Once deleteMessage has returned, no run reads the body of a message     *)
(* that was published before it began, also when its key had expired and   *)
(* the event was under way.                                                *)
(***************************************************************************)
DeletedStaysUnread ==
    [][\A m \in dropped : \A p \in Goroutine : body'[p] = m => body[p] = m]_vars

(***************************************************************************)
(* An event that a runtime has received reaches the handler, in one        *)
(* runtime or another, if its body was stored before its key expired and   *)
(* no other message has its key, unless the message is deleted or a        *)
(* runtime is shut down.                                                   *)
(***************************************************************************)
EventHandled ==
    \A m \in Message :
        (Unshared(m) /\ m \notin early /\ \E r \in Runtime : current[r] = m)
            ~> (handled[m] > 0 \/ deletes > 0 \/ \E r \in Runtime : shutdown[r] # "none")
=============================================================================
