--------------------------- MODULE Subscriptions ---------------------------
(***************************************************************************)
(* Live views of the task queue dashboard: GraphQL subscriptions over      *)
(* websockets (src/codebase/app/graphql_server/ws/) that end in the        *)
(* registry of subscribers of the worker (task_queue_worker/subscribers.go *)
(* and the Listen resolvers of graphql_resolver.go).                       *)
(*                                                                         *)
(* An operation has a reader, the goroutine of readLoop (with the one of   *)
(* the GraphQL library before it) that forwards what arrives on the output *)
(* channel, and a listener, the goroutine of the resolver that waits for   *)
(* the end of the operation and closes the channel.  The channel has no    *)
(* buffer: who writes to it waits for the reader.  The registry keeps one  *)
(* channel per kind of view and connection (Sec-WebSocket-Key), whatever   *)
(* operation it belongs to.                                                *)
(***************************************************************************)
EXTENDS Integers, FiniteSets

CONSTANTS Conn,          \* websocket connections
          Op,            \* operations that may be started
          Views,         \* which view on which connection each of them is: [Op -> Key]s
          Id,            \* the ids clients give to operations
          MaxClient,     \* getMaxClientSubscriber
          Worker, Admin, \* who broadcasts besides listeners
          None

Kinds == {"task", "job", "detail"}
After == [none |-> {"task", "job", "detail"}, task |-> {"job", "detail"}, job |-> {"detail"},
          detail |-> {}]
Caster == Op \cup {Worker, Admin}
Key == Kinds \X Conn

ASSUME SubscriptionAssumption ==
    /\ IsFiniteSet(Conn) /\ IsFiniteSet(Op) /\ None \notin Op
    /\ Views \subseteq [Op -> Key]
    /\ MaxClient \in Nat

VARIABLES conn,      \* "open" or "closed"
          opDone,    \* opDone[c][id]: the operation whose cancel function is stored
          op,        \* connection, view, id, listener, context and reader of an operation
          entry,     \* the three maps of the registry
          cast,      \* broadcasts under way: by the worker, and by a listener that leaves
          admin,     \* ClearAllClientSubscriber and KillClientSubscriber
          dismissed  \* operations that listen, removed from the registry by others

vars == <<conn, opDone, op, entry, cast, admin, dismissed>>

KeyOf(o) == <<op[o].kind, op[o].conn>>
\* The first map after the one of kind that holds something for one of the connections.
NextMap(kind, conns, e) ==
    LET found == {k \in After[kind] : \E c \in conns : e[<<k, c>>] # None} IN
    IF found = {} THEN "end" ELSE CHOOSE k \in found : found \ {k} \subseteq After[k]
AdminAt(pc, kind, c, o) == [pc |-> pc, kind |-> kind, conn |-> c, target |-> o]
AdminDone == AdminAt("done", "none", None, None)
Resting == [pc |-> "idle", seen |-> {}, target |-> None]
Total == Cardinality({k \in Key : entry[k] # None})

Init ==
    /\ conn = [c \in Conn |-> "open"]
    /\ opDone = [c \in Conn |-> [i \in Id |-> None]]
    /\ \E v \in Views :
          op = [o \in Op |-> [kind |-> v[o][1], conn |-> v[o][2], id |-> None,
                              listener |-> "none", done |-> FALSE, reader |-> "none"]]
    /\ entry = [k \in Key |-> None]
    /\ cast = [b \in Caster |-> Resting]
    /\ admin = AdminAt("idle", "none", None, None)
    /\ dismissed = {}

-----------------------------------------------------------------------------
(***************************************************************************)
(* readLoop.  It handles one message after another: while a Subscribe call *)
(* is at work the connection reads nothing.  Messages that only cause an   *)
(* answer (init, keep alive, malformed ones) are left out.                 *)
(***************************************************************************)
Busy(c) == \E o \in Op : op[o].conn = c /\ op[o].listener = "register"

\* Mutant: one client too many passes
LimitPassedOff(n) == n <= MaxClient

\* The test at the head of the three register methods; it does not hold the mutex.
LimitPassed(n) == n < MaxClient

\* A start message up to the limit test; the job of a detail view may not exist.
Start(o, i) ==
    /\ conn[op[o].conn] = "open" /\ ~Busy(op[o].conn) /\ op[o].listener = "none"
    /\ \E found \in {TRUE, op[o].kind # "detail"} :
          op' = [op EXCEPT ![o].id = i,
                           ![o].listener = IF found /\ LimitPassed(Total) THEN "register"
                                                                          ELSE "refused"]
    /\ UNCHANGED <<conn, opDone, entry, cast, admin, dismissed>>

\* The locked half; then opDone takes the cancel function, over one with the same id.
Register(o) ==
    /\ op[o].listener = "register"
    /\ entry' = [entry EXCEPT ![KeyOf(o)] = o]
    /\ op' = [op EXCEPT ![o].listener = "listen", ![o].reader = "reads"]
    /\ opDone' = [opDone EXCEPT ![op[o].conn][op[o].id] = o]
    /\ UNCHANGED <<conn, cast, admin, dismissed>>

StopMessage(c, i) ==
    /\ conn[c] = "open" /\ ~Busy(c) /\ opDone[c][i] # None
    /\ op' = [op EXCEPT ![opDone[c][i]].done = TRUE]
    /\ opDone' = [opDone EXCEPT ![c][i] = None]
    /\ UNCHANGED <<conn, entry, cast, admin, dismissed>>

\* Terminate, a failed read or a failed write: the contexts of all operations are cancelled.
Close(c) ==
    /\ conn[c] = "open" /\ \E o \in Op : op[o].conn = c
    /\ conn' = [conn EXCEPT ![c] = "closed"]
    /\ op' = [o \in Op |-> IF op[o].conn = c /\ op[o].listener # "none"
                           THEN [op[o] EXCEPT !.done = TRUE] ELSE op[o]]
    /\ opDone' = [opDone EXCEPT ![c] = [i \in Id |-> None]]
    /\ UNCHANGED <<entry, cast, admin, dismissed>>

\* The reader leaves when its context is done, or when the channel is closed.
ReaderLeaves(o) ==
    /\ op[o].reader = "reads" /\ (op[o].done \/ op[o].listener = "closed")
    /\ op' = [op EXCEPT ![o].reader = "gone", ![o].done = TRUE]
    /\ UNCHANGED <<conn, opDone, entry, cast, admin, dismissed>>

-----------------------------------------------------------------------------
(***************************************************************************)
(* The listener: the select of the Listen resolvers, the close-session     *)
(* message, the removal and the deferred function.                         *)
(***************************************************************************)
\* Mutant: an operation that ends by its context stays in the registry
ListenDoneKept(o) ==
    /\ op[o].listener = "listen" /\ op[o].done
    /\ op' = [op EXCEPT ![o].listener = "leave"]
    /\ UNCHANGED <<conn, opDone, entry, cast, admin, dismissed>>

ListenDone(o) ==
    /\ op[o].listener = "listen" /\ op[o].done
    /\ op' = [op EXCEPT ![o].listener = "remove"]
    /\ UNCHANGED <<conn, opDone, entry, cast, admin, dismissed>>

ListenAge(o) ==
    /\ op[o].listener = "listen"
    /\ op' = [op EXCEPT ![o].listener = "session"]
    /\ UNCHANGED <<conn, opDone, entry, cast, admin, dismissed>>

\* The token of ClearAllClientSubscriber goes to any listener, of any kind of view.
ListenClear(o) ==
    /\ op[o].listener = "listen" /\ admin.pc = "token"
    /\ op' = [op EXCEPT ![o].listener = "session"]
    /\ admin' = [admin EXCEPT !.pc = "clear"]
    /\ UNCHANGED <<conn, opDone, entry, cast, dismissed>>

\* output <- IsCloseSession, which nobody takes any more once the reader is gone.
CloseSession(o) ==
    /\ op[o].listener = "session" /\ op[o].reader = "reads"
    /\ op' = [op EXCEPT ![o].listener = "remove"]
    /\ UNCHANGED <<conn, opDone, entry, cast, admin, dismissed>>

\* Mutant: a view that ends removes every view of its connection
RemoveSubscriberAll(o) ==
    /\ op[o].listener = "remove"
    /\ entry' = [k \in Key |-> IF k[2] = op[o].conn THEN None ELSE entry[k]]
    /\ op' = [op EXCEPT ![o].listener = "leave"]
    /\ cast' = [cast EXCEPT ![o].pc = IF op[o].kind = "task" THEN "next" ELSE "idle"]
    /\ UNCHANGED <<conn, opDone, admin, dismissed>>

\* Deletes by client id; a listener of a task view tells the others before it closes.
RemoveSubscriber(o) ==
    /\ op[o].listener = "remove"
    /\ entry' = [entry EXCEPT ![KeyOf(o)] = None]
    /\ dismissed' = (dismissed \cup {entry[KeyOf(o)]}) \ {o, None}
    /\ op' = [op EXCEPT ![o].listener = "leave"]
    /\ cast' = [cast EXCEPT ![o].pc = IF op[o].kind = "task" THEN "next" ELSE "idle"]
    /\ UNCHANGED <<conn, opDone, admin>>

CloseOutput(o) ==
    /\ op[o].listener = "leave" /\ cast[o].pc = "idle"
    /\ op' = [op EXCEPT ![o].listener = "closed"]
    /\ UNCHANGED <<conn, opDone, entry, cast, admin, dismissed>>

-----------------------------------------------------------------------------
(***************************************************************************)
(* Broadcasts.  They go over the maps without the mutex and write to one   *)
(* channel after another: tasks, then job lists, then details.  Those of   *)
(* the worker stand for the one every new listener starts, too.            *)
(***************************************************************************)
BroadcastAll ==
    /\ cast[Worker].pc = "idle" /\ Total # 0
    /\ cast' = [cast EXCEPT ![Worker].pc = "next"]
    /\ UNCHANGED <<conn, opDone, op, entry, admin, dismissed>>

Unseen(b, kind) == {k \in Key : k[1] = kind /\ k \notin cast[b].seen /\ entry[k] # None}

\* The worker goes on from tasks to job lists and details; a listener tells task views only.
NextKeys(b) ==
    CASE b # Worker \/ Unseen(b, "task") # {} -> Unseen(b, "task")
      [] b = Worker /\ Unseen(b, "task") = {} /\ Unseen(b, "job") # {} -> Unseen(b, "job")
      [] OTHER -> Unseen(b, "detail")

CastNext(b) ==
    /\ cast[b].pc = "next"
    /\ \/ /\ NextKeys(b) = {}
          /\ cast' = [cast EXCEPT ![b] = Resting]
          /\ UNCHANGED <<entry, dismissed>>
       \/ \E k \in NextKeys(b) :
             /\ cast' = [cast EXCEPT ![b] = [pc |-> "write", seen |-> @.seen \cup {k},
                                             target |-> entry[k]]]
             /\ UNCHANGED <<entry, dismissed>>
       \/ \E k \in NextKeys(b) :  \* the job of a detail view is gone: the client is removed
             /\ k[1] = "detail"
             /\ cast' = [cast EXCEPT ![b].seen = @ \cup {k}]
             /\ entry' = [entry EXCEPT ![k] = None]
             /\ dismissed' = dismissed \cup {entry[k]}
    /\ UNCHANGED <<conn, opDone, op, admin>>

\* Mutant: the panic of a send on a closed channel is not recovered, and ends the broadcast
CastWriteNoRecover(b) ==
    /\ cast[b].pc = "write" /\ op[cast[b].target].reader = "reads"
    /\ cast' = [cast EXCEPT ![b].pc = "next", ![b].target = None]
    /\ UNCHANGED <<conn, opDone, op, entry, admin, dismissed>>

\* writeDataToChannel: the reader takes it, or the channel is closed and recover ends it.
CastWrite(b) ==
    /\ cast[b].pc = "write"
    /\ op[cast[b].target].reader = "reads" \/ op[cast[b].target].listener = "closed"
    /\ cast' = [cast EXCEPT ![b].pc = "next", ![b].target = None]
    /\ UNCHANGED <<conn, opDone, op, entry, admin, dismissed>>

-----------------------------------------------------------------------------
(***************************************************************************)
(* ClearAllClientSubscriber removes an entry, hands out a token and goes   *)
(* on, map by map.  KillClientSubscriber looks a client up in the three    *)
(* maps, writes to each channel without recover (when it was closed the    *)
(* GraphQL library ends the call), removes the entry and broadcasts.       *)
(***************************************************************************)
ClearAll ==
    /\ admin.pc = "idle" /\ Total # 0
    /\ admin' = [admin EXCEPT !.pc = "clear", !.kind = NextMap("none", Conn, entry)]
    /\ UNCHANGED <<conn, opDone, op, entry, cast, dismissed>>

ClearNext ==
    /\ admin.pc = "clear"
    /\ LET found == {k \in Key : k[1] = admin.kind /\ entry[k] # None} IN
       \/ /\ found = {}
          /\ LET kind == NextMap(admin.kind, Conn, entry) IN
             admin' = IF kind = "end" THEN AdminDone ELSE AdminAt("clear", kind, None, None)
          /\ UNCHANGED <<entry, dismissed>>
       \/ \E k \in found :
             /\ entry' = [entry EXCEPT ![k] = None]
             /\ dismissed' = dismissed \cup {entry[k]}
             /\ admin' = [admin EXCEPT !.pc = "token"]
    /\ UNCHANGED <<conn, opDone, op, cast>>

\* To the first or to the following map that knows the client.
KillGo(c, e) ==
    LET kind == NextMap(admin.kind, {c}, e) IN
    admin' = IF kind = "end" THEN AdminDone ELSE AdminAt("kill", kind, c, e[<<kind, c>>])

Kill(c) ==
    /\ admin.pc = "idle" /\ \E kind \in Kinds : entry[<<kind, c>>] # None
    /\ KillGo(c, entry)
    /\ UNCHANGED <<conn, opDone, op, entry, cast, dismissed>>

KillSend ==
    /\ admin.pc = "kill"
    /\ LET k == <<admin.kind, admin.conn>>
           rest == [entry EXCEPT ![k] = None]
           last == NextMap(admin.kind, {admin.conn}, rest) = "end"
       IN \/ /\ op[admin.target].reader = "reads"
             /\ KillGo(admin.conn, rest) /\ entry' = rest
             /\ dismissed' = dismissed \cup ({entry[k]} \ {None})
             /\ cast' = [cast EXCEPT ![Admin].pc = IF last THEN "next" ELSE @]
          \/ /\ op[admin.target].listener = "closed"
             /\ admin' = AdminDone
             /\ UNCHANGED <<entry, cast, dismissed>>
    /\ UNCHANGED <<conn, opDone, op>>

-----------------------------------------------------------------------------
OpStep(o) ==
    \/ Register(o) \/ ReaderLeaves(o) \/ ListenDone(o) \/ CloseSession(o)
    \/ RemoveSubscriber(o) \/ CloseOutput(o)

Next ==
    \/ \E o \in Op :
          \/ OpStep(o) \/ ListenAge(o) \/ ListenClear(o)
          \/ \E i \in Id : Start(o, i)
    \/ \E c \in Conn : Close(c) \/ \E i \in Id : StopMessage(c, i)
    \/ BroadcastAll \/ \E b \in Caster : CastNext(b) \/ CastWrite(b)
    \/ ClearAll \/ ClearNext \/ KillSend \/ \E c \in Conn : Kill(c)

\* Goroutines that can go on do so; clients, timers and administrators owe nothing.
Fairness ==
    /\ \A o \in Op : WF_vars(OpStep(o))
    /\ \A b \in Caster : WF_vars(CastNext(b) \/ CastWrite(b))

Spec == Init /\ [][Next]_vars /\ Fairness

-----------------------------------------------------------------------------
TypeOK ==
    /\ conn \in [Conn -> {"open", "closed"}]
    /\ opDone \in [Conn -> [Id -> Op \cup {None}]]
    /\ op \in [Op -> [listener : {"none", "refused", "register", "listen", "session", "remove",
                                  "leave", "closed"},
                      conn : Conn, kind : Kinds, id : Id \cup {None},
                      done : BOOLEAN, reader : {"none", "reads", "gone"}]]
    /\ entry \in [Key -> Op \cup {None}] /\ dismissed \subseteq Op
    /\ cast \in [Caster -> [pc : {"idle", "next", "write"}, seen : SUBSET Key,
                                      target : Op \cup {None}]]
    /\ admin \in [pc : {"idle", "clear", "token", "kill", "done"}, kind : Kinds \cup {"none"},
                  conn : Conn \cup {None}, target : Op \cup {None}]

(***************************************************************************)
(* The register methods test the limit before they lock the mutex, so it   *)
(* can be passed: by as many clients as can be between the two at once,    *)
(* one for each other connection that ever started a view, and no more.    *)
(***************************************************************************)
SubscriberLimit ==
    LET users == {c \in Conn : \E o \in Op : op[o].conn = c /\ op[o].listener # "none"} IN
    Total # 0 => Total <= MaxClient + Cardinality(users) - 1

(***************************************************************************)
(* No channel in the registry is closed: a listener closes its output only *)
(* after it removed its client id, on every way out of the select, and a   *)
(* removal by somebody else does not bring it back.                        *)
(***************************************************************************)
NoClosedChannel == \A k \in Key : entry[k] # None => op[entry[k]].listener # "closed"

(***************************************************************************)
(* An operation that is the only one of its kind its connection ever had   *)
(* stays in the registry as long as it listens, and so gets every          *)
(* broadcast, unless an administrator or a deleted job removed it.  (A     *)
(* second one shares its client id: the end of either removes both.)       *)
(***************************************************************************)
LoneViewServed ==
    \A o \in Op :
        /\ op[o].listener = "listen" /\ o \notin dismissed
        /\ \A q \in Op \ {o} : KeyOf(q) = KeyOf(o) => op[q].listener \in {"none", "refused"}
        => entry[KeyOf(o)] = o

\* A listener that sends the close-session message to a reader that is gone never ends.
Lost(o) == op[o].listener = "session" /\ op[o].reader = "gone"

(***************************************************************************)
(* When a connection is closed its listeners end and leave the registry,   *)
(* and no broadcast hangs on them, except through the race of the age      *)
(* ticker (or a clear) with the end of an operation: then a listener waits *)
(* for ever, and whoever broadcasts to it.                                 *)
(***************************************************************************)
ClosedIsReleased ==
    \A c \in Conn : conn[c] = "closed" ~>
        \/ \A o \in Op : op[o].conn = c =>
              /\ op[o].listener \in {"none", "refused", "closed"}
              /\ \A b \in Caster : cast[b].target # o
        \/ \E o \in Op : Lost(o)
=============================================================================
