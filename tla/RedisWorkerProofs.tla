--------------------------- MODULE RedisWorkerProofs ---------------------------
(***************************************************************************)
(* Proofs about RedisWorker, for any number of runtimes, messages, keys,   *)
(* runs, deletions and lost connections.                                   *)
(***************************************************************************)
EXTENDS RedisWorker, TLAPS

-----------------------------------------------------------------------------
\* Types

\* The variables that the publisher, the deletion and Redis change
StoreTypes ==
    /\ pub \in [Message -> {"new", "expire", "hset", "done"}] /\ key \in [Message -> Key]
    /\ timer \subseteq Message /\ expiring \subseteq timer
    /\ hash \in [Key -> Message \cup {None}] /\ locks \subseteq Message
    /\ del \in {"none", "keys", "del"} /\ delKey \in Key \cup {None}
    /\ delTodo \subseteq Message /\ doomed \subseteq Message /\ dropped \subseteq Message
    /\ deletes \in 0..MaxDeletes

\* The variables of Serve and Shutdown
ServerTypes ==
    /\ serve \in [Runtime -> {"off", "reset", "receive", "semaphore", "lost"}]
    /\ inbox \in [Runtime -> Seq(Message)] /\ current \in [Runtime -> Message \cup {None}]
    /\ shutdown \in [Runtime -> {"none", "wait", "cancel", "reset", "returned"}]
    /\ todo \in [Runtime -> SUBSET Message]
    /\ \A r \in Runtime : serve[r] = "semaphore" => current[r] \in Message
    /\ early \subseteq Message /\ losses \in 0..MaxLosses

\* The variables of the runs
RunTypes ==
    /\ pc \in [Goroutine -> {"idle", "begin", "lock", "hget", "hdel", "handle", "unlock",
                             "done", "release"}]
    /\ event \in [Goroutine -> Message \cup {None}]
    /\ body \in [Goroutine -> Message \cup {None}]
    /\ \A p \in Goroutine : /\ pc[p] # "idle" => event[p] \in Message
                            /\ pc[p] \in {"hdel", "handle"} => body[p] \in Message
    /\ handled \in [Message -> Nat] /\ intruded \in BOOLEAN

\* The parts make up TypeOK.
LEMMA Parts == TypeOK <=> StoreTypes /\ ServerTypes /\ RunTypes
BY DEF TypeOK, StoreTypes, ServerTypes, RunTypes

\* The steps of the publisher and of the deletion keep the types.
LEMMA StoreStep ==
    ASSUME StoreTypes, ServerTypes, RunTypes,
           Delete \/ \E m \in Message : Publish(m) \/ Expire(m)
    PROVE  StoreTypes' /\ ServerTypes' /\ RunTypes'
<1>0. MaxDeletes \in Nat /\ None \notin Message BY RedisAssumption
<1>1. ASSUME NEW m \in Message, Publish(m) PROVE StoreTypes' /\ ServerTypes' /\ RunTypes'
  <2>1. StoreTypes'
    BY <1>0, <1>1 DEF Publish, PublishSet, PublishExpire, PublishHSet, StoreTypes, deletion
  <2>2. ServerTypes' /\ RunTypes'
    BY <1>1 DEF Publish, PublishSet, PublishExpire, PublishHSet, ServerTypes, RunTypes,
                server, run
  <2> QED BY <2>1, <2>2
<1>2. ASSUME NEW m \in Message, Expire(m) PROVE StoreTypes' /\ ServerTypes' /\ RunTypes'
  <2>1. StoreTypes' BY <1>2 DEF Expire, StoreTypes, deletion
  <2>2. inbox' \in [Runtime -> Seq(Message)] BY <1>2 DEF Expire, ServerTypes
  <2>3. ServerTypes' BY <1>2, <2>2 DEF Expire, ServerTypes
  <2>4. RunTypes' BY <1>2 DEF Expire, RunTypes, run
  <2> QED BY <2>1, <2>3, <2>4
<1>3. ASSUME Delete PROVE StoreTypes' /\ ServerTypes' /\ RunTypes'
  <2>1. ASSUME NEW k \in Key, DeleteHDel(k) PROVE StoreTypes'
    BY <1>0, <2>1 DEF DeleteHDel, StoreTypes, publisher
  <2>2. ASSUME DeleteKeys \/ DeleteReturn \/ \E m \in Message : DeleteDel(m) PROVE StoreTypes'
    BY <1>0, <2>2 DEF DeleteKeys, DeleteReturn, DeleteDel, StoreTypes, publisher
  <2>3. ServerTypes' /\ RunTypes'
    BY <1>3 DEF Delete, DeleteHDel, DeleteKeys, DeleteDel, DeleteReturn, ServerTypes, RunTypes,
                server, run
  <2> QED BY <1>3, <2>1, <2>2, <2>3 DEF Delete
<1> QED BY <1>1, <1>2, <1>3

\* The steps of Serve and Shutdown keep the types.
LEMMA ServerStep ==
    ASSUME StoreTypes, ServerTypes, RunTypes, NEW r \in Runtime,
           Serve(r) \/ ConnectionLost(r) \/ Shutdown(r) \/ Stop(r)
    PROVE  StoreTypes' /\ ServerTypes' /\ RunTypes'
<1>0. MaxLosses \in Nat BY RedisAssumption
<1>1. StoreTypes'
  BY DEF Serve, Start, ResetKey, InitPubSubConn, ServeReceive, ServeRun, ConnectionLost,
         Shutdown, Stop, ShutdownWait, ShutdownCancel, ShutdownReturn, StoreTypes,
         publisher, deletion
<1>2. ASSUME NEW p \in Goroutine, ServeRun(r, p) PROVE ServerTypes' /\ RunTypes'
  BY <1>2 DEF ServeRun, ServerTypes, RunTypes
<1>3. CASE ServeReceive(r)
  <2>1. Head(inbox[r]) \in Message /\ Tail(inbox[r]) \in Seq(Message)
    BY <1>3 DEF ServeReceive, ServerTypes
  <2>2. ServerTypes' BY <1>3, <2>1 DEF ServeReceive, ServerTypes
  <2>3. RunTypes' BY <1>3 DEF ServeReceive, RunTypes, run
  <2> QED BY <2>2, <2>3, <1>1
<1>4. CASE ConnectionLost(r)
  <2>1. ServerTypes' BY <1>0, <1>4 DEF ConnectionLost, ServerTypes
  <2>2. RunTypes' BY <1>4 DEF ConnectionLost, RunTypes, run
  <2> QED BY <2>1, <2>2, <1>1
<1>5. CASE Start(r) \/ InitPubSubConn(r) \/ Shutdown(r) \/ Stop(r)
  <2>1. ServerTypes'
    BY <1>5 DEF Start, InitPubSubConn, Shutdown, Stop, ShutdownWait, ShutdownCancel,
                ShutdownReturn, ServerTypes, StoreTypes, server
  <2>2. RunTypes'
    BY <1>5 DEF Start, InitPubSubConn, Shutdown, Stop, ShutdownWait, ShutdownCancel,
                ShutdownReturn, RunTypes, run
  <2> QED BY <2>1, <2>2, <1>1
<1>6. ASSUME NEW m \in Message, ResetKey(r, m) PROVE ServerTypes' /\ RunTypes'
  BY <1>6 DEF ResetKey, ServerTypes, RunTypes, server, run
<1> QED BY <1>1, <1>2, <1>3, <1>4, <1>5, <1>6 DEF Serve

\* The steps of a run keep the types.
LEMMA RunStep ==
    ASSUME StoreTypes, ServerTypes, RunTypes, NEW p \in Goroutine, Run(p)
    PROVE  StoreTypes' /\ ServerTypes' /\ RunTypes'
<1> USE DEF Run, RunBegin, RunLock, RunHGet, RunHDel, RunUnlock, RunDone, RunRelease, Step
<1>1. StoreTypes'
  <2>1. pc[p] # "idle" BY DEF RunTypes
  <2>2. event[p] \in Message BY <2>1 DEF RunTypes
  <2> QED BY <2>2 DEF StoreTypes, publisher, deletion
<1>2. ServerTypes' BY DEF ServerTypes, server
<1>3. RunTypes'
  <2>1. CASE RunHGet(p) BY <2>1 DEF RunTypes, StoreTypes
  <2>2. CASE RunHDel(p) BY <2>2 DEF RunTypes
  <2>3. CASE RunBegin(p) \/ RunLock(p) \/ RunUnlock(p) \/ RunDone(p) \/ RunRelease(p)
    BY <2>3 DEF RunTypes
  <2> QED BY <2>1, <2>2, <2>3
<1> QED BY <1>1, <1>2, <1>3

\* A stuttering step keeps the types.
LEMMA StutterStep ==
    ASSUME StoreTypes, ServerTypes, RunTypes, UNCHANGED vars
    PROVE  StoreTypes' /\ ServerTypes' /\ RunTypes'
BY DEF vars, publisher, deletion, server, run, StoreTypes, ServerTypes, RunTypes

(***************************************************************************)
(* The types hold, and a handler has a body, whatever was deleted or had   *)
(* expired before the body was stored.                                     *)
(***************************************************************************)
THEOREM RedisTypes == Spec => []TypeOK
<1> DEFINE T == StoreTypes /\ ServerTypes /\ RunTypes
<1>1. ASSUME Init PROVE T
  <2>1. 0 \in 0..MaxDeletes /\ 0 \in 0..MaxLosses BY RedisAssumption
  <2>2. StoreTypes BY <1>1, <2>1 DEF Init, StoreTypes
  <2>3. <<>> \in Seq(Message) OBVIOUS
  <2>4. ServerTypes BY <1>1, <2>1, <2>3 DEF Init, ServerTypes
  <2>5. RunTypes BY <1>1 DEF Init, RunTypes
  <2> QED BY <2>2, <2>4, <2>5
<1>2. T /\ [Next]_vars => T'
  BY StoreStep, ServerStep, RunStep, StutterStep DEF Next
<1>3. T => TypeOK BY Parts
<1> QED BY <1>1, <1>2, <1>3, PTL DEF Spec

-----------------------------------------------------------------------------
\* The locks of the events

\* The labels at which a run has the lock of its event
Locked == {"hget", "hdel", "handle", "unlock"}

(***************************************************************************)
(* What every step keeps: a lock has a run, and until a Reset intrudes a   *)
(* run that has passed IsLocked has the lock and has it alone.             *)
(***************************************************************************)
LockInv ==
    /\ \A m \in locks : \E p \in Goroutine : event[p] = m /\ pc[p] \in Locked
    /\ ~intruded => \A p \in Goroutine : pc[p] \in Locked => event[p] \in locks
    /\ ~intruded => \A p, q \in Goroutine :
          pc[p] \in Locked /\ pc[q] \in Locked /\ event[p] = event[q] => p = q

\* LockInv is kept by every step.
LEMMA LockStep == TypeOK /\ LockInv /\ [Next]_vars => LockInv'
<1> SUFFICES ASSUME TypeOK, LockInv, [Next]_vars PROVE LockInv' OBVIOUS
<1>0. /\ pc \in [Goroutine -> {"idle", "begin", "lock", "hget", "hdel", "handle", "unlock",
                               "done", "release"}]
      /\ event \in [Goroutine -> Message \cup {None}]
  BY DEF TypeOK
<1>1. CASE pc' = pc /\ event' = event /\ locks' = locks /\ intruded' = intruded
  BY <1>1 DEF LockInv
<1>2. ASSUME NEW m \in Message, Publish(m) \/ Expire(m)
      PROVE  pc' = pc /\ event' = event /\ locks' = locks /\ intruded' = intruded
  BY <1>2 DEF Publish, PublishSet, PublishExpire, PublishHSet, Expire, run
<1>3. ASSUME Delete
      PROVE  pc' = pc /\ event' = event /\ locks' = locks /\ intruded' = intruded
  BY <1>3 DEF Delete, DeleteHDel, DeleteKeys, DeleteDel, DeleteReturn, run
<1>4. ASSUME NEW r \in Runtime, \/ Start(r) \/ InitPubSubConn(r) \/ ServeReceive(r)
                                \/ ConnectionLost(r) \/ Shutdown(r) \/ Stop(r)
      PROVE  pc' = pc /\ event' = event /\ locks' = locks /\ intruded' = intruded
  BY <1>4 DEF Start, InitPubSubConn, ServeReceive, ConnectionLost, Shutdown, Stop,
              ShutdownWait, ShutdownCancel, ShutdownReturn, run
<1>5. ASSUME UNCHANGED vars
      PROVE  pc' = pc /\ event' = event /\ locks' = locks /\ intruded' = intruded
  BY <1>5 DEF vars, run
<1>6. ASSUME NEW r \in Runtime, NEW m \in Message, ResetKey(r, m) PROVE LockInv'
  <2>1. pc' = pc /\ event' = event /\ locks' = locks \ {m} BY <1>6 DEF ResetKey, run
  <2>2. ~intruded' => ~intruded /\ \A p \in Goroutine : event[p] = m => pc[p] \notin Locked
    BY <1>6 DEF ResetKey, Holders, Locked
  <2> QED BY <2>1, <2>2 DEF LockInv
<1>7. ASSUME NEW r \in Runtime, NEW p \in Goroutine, ServeRun(r, p) PROVE LockInv'
  <2>1. /\ pc[p] \notin Locked /\ pc'[p] \notin Locked
        /\ \A q \in Goroutine : q # p => pc'[q] = pc[q] /\ event'[q] = event[q]
    BY <1>0, <1>7 DEF ServeRun, Locked
  <2>2. locks' = locks /\ intruded' = intruded BY <1>7 DEF ServeRun
  <2> QED BY <2>1, <2>2 DEF LockInv
<1>8. ASSUME NEW p \in Goroutine, Run(p) PROVE LockInv'
  <2>0. /\ intruded' = intruded
        /\ \A q \in Goroutine : q # p => pc'[q] = pc[q] /\ event'[q] = event[q]
    BY <1>0, <1>8 DEF Run, RunBegin, RunLock, RunHGet, RunHDel, RunUnlock, RunDone, RunRelease,
                      Step
  <2>1. CASE RunBegin(p) \/ RunDone(p) \/ RunRelease(p)
    <3>1. pc[p] \notin Locked /\ pc'[p] \notin Locked /\ locks' = locks
      BY <1>0, <2>1 DEF RunBegin, RunDone, RunRelease, Step, Locked
    <3> QED BY <3>1, <2>0 DEF LockInv
  <2>2. CASE RunHGet(p) \/ RunHDel(p)
    <3>1. pc[p] \in Locked /\ pc'[p] \in Locked /\ locks' = locks /\ event' = event
      BY <1>0, <2>2 DEF RunHGet, RunHDel, Step, Locked
    <3> QED BY <3>1, <2>0 DEF LockInv
  <2>3. CASE RunLock(p)
    <3>1. pc[p] \notin Locked /\ locks' = locks \cup {event[p]} /\ event' = event
      BY <2>3 DEF RunLock, Step, Locked
    <3>2. pc'[p] \in Locked <=> event[p] \notin locks
      BY <1>0, <2>3 DEF RunLock, Step, Locked
    <3> QED BY <3>1, <3>2, <2>0 DEF LockInv
  <2>4. CASE RunUnlock(p)
    <3>1. /\ pc[p] \in Locked /\ pc'[p] \notin Locked
          /\ locks' = locks \ {event[p]} /\ event' = event
      BY <1>0, <2>4 DEF RunUnlock, Locked
    <3> QED BY <3>1, <2>0 DEF LockInv
  <2> QED BY <1>8, <2>1, <2>2, <2>3, <2>4 DEF Run
<1> QED BY <1>1, <1>2, <1>3, <1>4, <1>5, <1>6, <1>7, <1>8 DEF Next, Serve

(***************************************************************************)
(* Every lock of an event belongs to a run: all ways out of processMessage *)
(* give it back.                                                           *)
(***************************************************************************)
THEOREM RedisLocksOwned == Spec => []NoOrphanLock
<1>1. Init => LockInv BY DEF Init, LockInv, Locked
<1>2. LockInv => NoOrphanLock BY DEF LockInv, NoOrphanLock, Holders, Locked
<1> QED BY <1>1, <1>2, LockStep, RedisTypes, PTL DEF Spec

-----------------------------------------------------------------------------
\* Every body reaches one handler

(***************************************************************************)
(* Where the body of a message can be.  It is stored once, under its key,  *)
(* and only runs of events with that key read it.  As long as it is stored *)
(* or a run that has read it is about to delete it, no handler has it.     *)
(***************************************************************************)
BodyInv ==
    /\ \A k \in Key : hash[k] # None => key[hash[k]] = k /\ pub[hash[k]] = "done"
    /\ \A p \in Goroutine : body[p] # None =>
          key[body[p]] = key[event[p]] /\ pub[body[p]] = "done" /\ pc[p] \in {"hdel", "handle"}
    /\ \A m \in Message : pub[m] # "done" => handled[m] = 0
    /\ \A m \in Message : Unshared(m) /\ ~intruded =>
          /\ hash[key[m]] = m => handled[m] = 0
          /\ \A p \in Goroutine : pc[p] = "hdel" /\ body[p] = m => handled[m] = 0
          /\ handled[m] <= 1

\* BodyInv is kept by every step.
LEMMA BodyStep == TypeOK /\ LockInv /\ BodyInv /\ [Next]_vars => BodyInv'
<1> SUFFICES ASSUME TypeOK, LockInv, BodyInv, [Next]_vars PROVE BodyInv' OBVIOUS
<1>0. None \notin Message BY RedisAssumption
<1>1. CASE /\ UNCHANGED <<hash, key, pub, body, handled, pc, event>>
           /\ intruded => intruded'
  BY <1>1 DEF BodyInv, Unshared
<1>2. ASSUME NEW m \in Message, PublishSet(m) \/ PublishExpire(m) \/ Expire(m) PROVE BodyInv'
  <2>1. /\ UNCHANGED <<hash, key, body, handled, pc, event, intruded>>
        /\ \A n \in Message : pub'[n] = "done" <=> pub[n] = "done"
    BY <1>2 DEF PublishSet, PublishExpire, Expire, run, TypeOK
  <2>2. hash \in [Key -> Message \cup {None}] /\ body \in [Goroutine -> Message \cup {None}]
    BY DEF TypeOK
  <2> QED BY <2>1, <2>2 DEF BodyInv, Unshared
<1>3. ASSUME NEW m \in Message, PublishHSet(m) PROVE BodyInv'
  <2>1. UNCHANGED <<key, body, handled, pc, event, intruded>> BY <1>3 DEF PublishHSet, run
  <2>2. /\ hash' = [hash EXCEPT ![key[m]] = m] /\ pub' = [pub EXCEPT ![m] = "done"]
        /\ pub[m] # "done"
    BY <1>3 DEF PublishHSet
  <2>3. handled[m] = 0 BY <2>2 DEF BodyInv
  <2>4. /\ hash \in [Key -> Message \cup {None}] /\ body \in [Goroutine -> Message \cup {None}]
        /\ key \in [Message -> Key] /\ pub \in [Message -> {"new", "expire", "hset", "done"}]
    BY DEF TypeOK
  <2>5. \A n \in Message : pub[n] = "done" => pub'[n] = "done" BY <2>2, <2>4
  <2>6. \A k \in Key : hash'[k] # None => key[hash'[k]] = k /\ pub'[hash'[k]] = "done"
    BY <2>2, <2>4, <2>5 DEF BodyInv
  <2>7. \A n \in Message : hash'[key[n]] = n => hash[key[n]] = n \/ n = m
    BY <2>2, <2>4
  <2> QED BY <2>1, <2>3, <2>4, <2>5, <2>6, <2>7 DEF BodyInv, Unshared
<1>4. ASSUME NEW k \in Key, DeleteHDel(k) PROVE BodyInv'
  <2>1. /\ UNCHANGED <<key, pub, body, handled, pc, event, intruded>>
        /\ hash' = [hash EXCEPT ![k] = None]
    BY <1>4 DEF DeleteHDel, publisher, run
  <2>2. hash \in [Key -> Message \cup {None}] /\ key \in [Message -> Key] BY DEF TypeOK
  <2>3. \A l \in Key : hash'[l] # None => hash'[l] = hash[l] BY <2>1, <2>2
  <2>4. \A n \in Message : hash'[key[n]] = n => hash[key[n]] = n BY <1>0, <2>2, <2>3
  <2> QED BY <2>1, <2>3, <2>4 DEF BodyInv, Unshared
<1>5. ASSUME DeleteKeys \/ DeleteReturn \/ \E m \in Message : DeleteDel(m) PROVE BodyInv'
  BY <1>1, <1>5 DEF DeleteKeys, DeleteReturn, DeleteDel, publisher, run
<1>6. ASSUME NEW r \in Runtime, \/ Start(r) \/ InitPubSubConn(r) \/ ServeReceive(r)
                                \/ ConnectionLost(r) \/ Shutdown(r) \/ Stop(r)
      PROVE  BodyInv'
  BY <1>1, <1>6 DEF Start, InitPubSubConn, ServeReceive, ConnectionLost, Shutdown, Stop,
              ShutdownWait, ShutdownCancel, ShutdownReturn, run, publisher
<1>7. ASSUME NEW r \in Runtime, NEW m \in Message, ResetKey(r, m) PROVE BodyInv'
  BY <1>1, <1>7 DEF ResetKey, run, publisher
<1>8. ASSUME NEW r \in Runtime, NEW p \in Goroutine, ServeRun(r, p) PROVE BodyInv'
  <2>1. /\ UNCHANGED <<hash, key, pub, body, handled, intruded>>
        /\ pc[p] = "idle" /\ pc'[p] = "begin"
        /\ \A q \in Goroutine : q # p => pc'[q] = pc[q] /\ event'[q] = event[q]
    BY <1>8 DEF ServeRun, publisher, TypeOK
  <2>2. body[p] = None BY <2>1 DEF BodyInv
  <2> QED BY <2>1, <2>2 DEF BodyInv, Unshared
<1>9. ASSUME NEW p \in Goroutine, Run(p) PROVE BodyInv'
  <2>0. /\ UNCHANGED <<key, pub, intruded>>
        /\ \A q \in Goroutine : q # p =>
              pc'[q] = pc[q] /\ event'[q] = event[q] /\ body'[q] = body[q]
    BY <1>9 DEF Run, RunBegin, RunLock, RunHGet, RunHDel, RunUnlock, RunDone, RunRelease,
                Step, publisher, TypeOK
  <2>1. CASE RunBegin(p) \/ RunLock(p) \/ RunDone(p) \/ RunRelease(p)
    <3>1. /\ UNCHANGED <<hash, body, handled>>
          /\ pc[p] \notin {"hdel", "handle"} /\ pc'[p] \notin {"hdel", "handle"}
      BY <2>1 DEF RunBegin, RunLock, RunDone, RunRelease, Step, TypeOK
    <3>2. body[p] = None BY <3>1 DEF BodyInv
    <3> QED BY <2>0, <3>1, <3>2 DEF BodyInv, Unshared
  <2>2. CASE RunHGet(p)
    <3>1. /\ UNCHANGED <<hash, event, handled>> /\ pc[p] = "hget"
          /\ body' = [body EXCEPT ![p] = hash[key[event[p]]]]
          /\ hash[key[event[p]]] # None => pc'[p] = "hdel"
      BY <2>2 DEF RunHGet, Step, TypeOK
    <3>2. event[p] \in Message /\ key[event[p]] \in Key BY <3>1 DEF TypeOK
    <3>3. body'[p] = hash[key[event[p]]] BY <3>1 DEF TypeOK
    <3>4. hash[key[event[p]]] \in Message \cup {None} BY <3>2 DEF TypeOK
    <3>5. body'[p] # None =>
             key[body'[p]] = key[event[p]] /\ pub[body'[p]] = "done" /\ pc'[p] = "hdel"
      BY <3>1, <3>2, <3>3 DEF BodyInv
    <3>6. \A m \in Message : body'[p] = m => hash[key[m]] = m
      BY <1>0, <3>3, <3>5
    <3> QED BY <2>0, <3>1, <3>5, <3>6 DEF BodyInv, Unshared
  <2>3. CASE RunHDel(p)
    <3> DEFINE b == body[p]
    <3>1. /\ UNCHANGED <<event, body>> /\ pc[p] = "hdel" /\ pc'[p] = "handle"
          /\ hash' = [hash EXCEPT ![key[event[p]]] = None]
          /\ handled' = [handled EXCEPT ![b] = @ + 1]
      BY <2>3 DEF RunHDel, Step, TypeOK
    <3>2. /\ b \in Message /\ event[p] \in Message /\ key \in [Message -> Key]
          /\ hash \in [Key -> Message \cup {None}] /\ handled \in [Message -> Nat]
      BY <3>1 DEF TypeOK
    <3>3. key[b] = key[event[p]] /\ pub[b] = "done" BY <1>0, <3>1, <3>2 DEF BodyInv
    <3>4. \A k \in Key : hash'[k] # None => hash'[k] = hash[k] BY <3>1, <3>2
    <3>5. hash'[key[b]] = None BY <3>1, <3>2, <3>3
    <3>6. \A m \in Message : m # b => handled'[m] = handled[m] BY <3>1, <3>2
    <3>7. handled'[b] = handled[b] + 1 BY <3>1, <3>2
    <3>8. ASSUME Unshared(b), ~intruded
          PROVE  /\ handled[b] = 0
                 /\ \A q \in Goroutine : pc'[q] = "hdel" => body[q] # b
      <4>1. handled[b] = 0 BY <3>1, <3>2, <3>8 DEF BodyInv
      <4>2. event[p] = b BY <3>2, <3>3, <3>8 DEF Unshared
      <4>3. ASSUME NEW q \in Goroutine, pc'[q] = "hdel", body[q] = b PROVE FALSE
        <5>1. q # p /\ pc[q] = "hdel" BY <3>1, <4>3, <2>0
        <5>2. event[q] \in Message BY <5>1 DEF TypeOK
        <5>3. key[b] = key[event[q]] BY <1>0, <3>2, <4>3 DEF BodyInv
        <5>4. event[q] = b BY <5>2, <5>3, <3>2, <3>8 DEF Unshared
        <5> QED BY <3>1, <3>8, <4>2, <5>1, <5>4 DEF LockInv, Locked
      <4> QED BY <4>1, <4>3
    <3>9. \A k \in Key : hash'[k] # None => key[hash'[k]] = k /\ pub[hash'[k]] = "done"
      BY <3>4 DEF BodyInv
    <3>10. \A m \in Message : pub[m] # "done" => handled'[m] = 0
      BY <3>3, <3>6 DEF BodyInv
    <3>11. \A q \in Goroutine : body[q] # None =>
              /\ key[body[q]] = key[event[q]] /\ pub[body[q]] = "done"
              /\ pc'[q] \in {"hdel", "handle"}
      BY <2>0, <3>1 DEF BodyInv
    <3>12. ASSUME NEW m \in Message, Unshared(m), ~intruded
           PROVE  /\ hash'[key[m]] = m => handled'[m] = 0
                  /\ \A q \in Goroutine : pc'[q] = "hdel" /\ body[q] = m => handled'[m] = 0
                  /\ handled'[m] <= 1
      <4>1. CASE m = b BY <1>0, <3>2, <3>5, <3>7, <3>8, <3>12, <4>1
      <4>2. CASE m # b
        <5>1. hash'[key[m]] = m => hash[key[m]] = m BY <1>0, <3>2, <3>4
        <5>2. \A q \in Goroutine : pc'[q] = "hdel" => pc[q] = "hdel" BY <2>0, <3>1
        <5> QED BY <3>6, <3>12, <4>2, <5>1, <5>2 DEF BodyInv
      <4> QED BY <4>1, <4>2
    <3> QED BY <2>0, <3>1, <3>9, <3>10, <3>11, <3>12 DEF BodyInv, Unshared
  <2>4. CASE RunUnlock(p)
    <3>1. UNCHANGED <<hash, event, handled>> /\ body'[p] = None /\ pc'[p] = "done"
      BY <2>4 DEF RunUnlock, TypeOK
    <3> QED BY <2>0, <3>1 DEF BodyInv, Unshared
  <2> QED BY <1>9, <2>1, <2>2, <2>3, <2>4 DEF Run
<1>10. CASE UNCHANGED vars BY <1>1, <1>10 DEF vars, publisher, run
<1> QED BY <1>2, <1>3, <1>4, <1>5, <1>6, <1>7, <1>8, <1>9, <1>10
        DEF Next, Publish, Delete, Serve

(***************************************************************************)
(* The body of a message whose key no other message has reaches at most    *)
(* one handler in all runtimes, until a Reset deletes the lock of a run    *)
(* that is going on.                                                       *)
(***************************************************************************)
THEOREM RedisOnce == Spec => []HandledOnce
<1>1. Init => LockInv BY DEF Init, LockInv, Locked
<1>2. Init => BodyInv BY RedisAssumption DEF Init, BodyInv
<1>3. BodyInv => HandledOnce BY DEF BodyInv, HandledOnce
<1> QED BY <1>1, <1>2, <1>3, LockStep, BodyStep, RedisTypes, PTL DEF Spec

-----------------------------------------------------------------------------
\* Deletion

\* The body of a message that a deletion was in time for is stored nowhere.
DeletedInv ==
    \A m \in doomed \cup dropped : pub[m] = "done" /\ hash[key[m]] # m

\* DeletedInv is kept by every step.
LEMMA DeletedStep == TypeOK /\ BodyInv /\ DeletedInv /\ [Next]_vars => DeletedInv'
<1> SUFFICES ASSUME TypeOK, BodyInv, DeletedInv, [Next]_vars PROVE DeletedInv' OBVIOUS
<1>0. /\ None \notin Message /\ hash \in [Key -> Message \cup {None}] /\ key \in [Message -> Key]
      /\ doomed \subseteq Message /\ dropped \subseteq Message
      /\ pub \in [Message -> {"new", "expire", "hset", "done"}]
  BY RedisAssumption DEF TypeOK
<1>1. CASE UNCHANGED <<pub, hash, key, doomed, dropped>> BY <1>1 DEF DeletedInv
<1>2. ASSUME NEW m \in Message, PublishSet(m) \/ PublishExpire(m) \/ Expire(m) PROVE DeletedInv'
  <2>1. /\ UNCHANGED <<hash, key, doomed, dropped>>
        /\ \A n \in Message : pub[n] = "done" => pub'[n] = "done"
    BY <1>0, <1>2 DEF PublishSet, PublishExpire, Expire, deletion
  <2> QED BY <1>0, <2>1 DEF DeletedInv
<1>3. ASSUME NEW m \in Message, PublishHSet(m) PROVE DeletedInv'
  <2>1. /\ UNCHANGED <<key, doomed, dropped>> /\ pub[m] = "hset"
        /\ hash' = [hash EXCEPT ![key[m]] = m] /\ pub' = [pub EXCEPT ![m] = "done"]
    BY <1>3 DEF PublishHSet, deletion
  <2>2. \A n \in Message : pub[n] = "done" => n # m /\ pub'[n] = "done" BY <1>0, <2>1
  <2>3. \A n \in Message : n # m /\ hash[key[n]] # n => hash'[key[n]] # n BY <1>0, <2>1
  <2> QED BY <1>0, <2>1, <2>2, <2>3 DEF DeletedInv
<1>4. ASSUME NEW k \in Key, DeleteHDel(k) PROVE DeletedInv'
  <2>1. /\ UNCHANGED <<pub, key, dropped>> /\ hash' = [hash EXCEPT ![k] = None]
        /\ doomed' = {m \in Message : key[m] = k /\ pub[m] = "done"}
    BY <1>4 DEF DeleteHDel, publisher
  <2>2. \A n \in Message : hash'[key[n]] = n => hash[key[n]] = n /\ key[n] # k BY <1>0, <2>1
  <2> QED BY <1>0, <2>1, <2>2 DEF DeletedInv
<1>5. CASE DeleteReturn
  <2>1. UNCHANGED <<pub, hash, key>> /\ doomed' \cup dropped' = doomed \cup dropped
    BY <1>5 DEF DeleteReturn, publisher
  <2> QED BY <2>1 DEF DeletedInv
<1>6. ASSUME DeleteKeys \/ \E m \in Message : DeleteDel(m) PROVE DeletedInv'
  BY <1>1, <1>6 DEF DeleteKeys, DeleteDel, publisher
<1>7. ASSUME NEW r \in Runtime, Serve(r) \/ ConnectionLost(r) \/ Shutdown(r) \/ Stop(r)
      PROVE  DeletedInv'
  BY <1>1, <1>7 DEF Serve, Start, InitPubSubConn, ServeReceive, ResetKey, ServeRun,
                    ConnectionLost, Shutdown, Stop, ShutdownWait, ShutdownCancel,
                    ShutdownReturn, publisher, deletion
<1>8. ASSUME NEW p \in Goroutine, Run(p) PROVE DeletedInv'
  <2>1. UNCHANGED <<pub, key, doomed, dropped>>
    BY <1>8 DEF Run, RunBegin, RunLock, RunHGet, RunHDel, RunUnlock, RunDone, RunRelease,
                publisher, deletion
  <2>2. CASE hash' = hash BY <1>1, <2>1, <2>2
  <2>3. CASE RunHDel(p)
    <3>1. \A n \in Message : hash'[key[n]] = n => hash[key[n]] = n
      BY <1>0, <2>3 DEF RunHDel
    <3> QED BY <1>0, <2>1, <3>1 DEF DeletedInv
  <2> QED BY <1>8, <2>2, <2>3
          DEF Run, RunBegin, RunLock, RunHGet, RunUnlock, RunDone, RunRelease
<1>9. CASE UNCHANGED vars BY <1>1, <1>9 DEF vars, publisher, deletion
<1> QED BY <1>2, <1>3, <1>4, <1>5, <1>6, <1>7, <1>8, <1>9 DEF Next, Publish, Delete

\* A run reads a body only from the hash, under the key of its message.
LEMMA DeletedRead ==
    ASSUME TypeOK, BodyInv, DeletedInv, [Next]_vars,
           NEW m \in dropped, NEW p \in Goroutine, body'[p] = m
    PROVE  body[p] = m
<1>0. /\ m \in Message /\ m # None /\ body \in [Goroutine -> Message \cup {None}]
  BY RedisAssumption DEF TypeOK
<1>1. CASE body' = body BY <1>1
<1>2. ASSUME NEW q \in Goroutine, RunHGet(q) PROVE body[p] = m
  <2>1. body' = [body EXCEPT ![q] = hash[key[event[q]]]] /\ pc[q] = "hget"
    BY <1>2 DEF RunHGet, Step
  <2>2. event[q] \in Message /\ key[event[q]] \in Key BY <2>1 DEF TypeOK
  <2>3. hash[key[event[q]]] # m
    <3>1. ASSUME hash[key[event[q]]] = m PROVE FALSE
      <4>1. key[m] = key[event[q]] BY <1>0, <2>2, <3>1 DEF BodyInv
      <4> QED BY <3>1, <4>1 DEF DeletedInv
    <3> QED BY <3>1
  <2> QED BY <1>0, <2>1, <2>3
<1>3. ASSUME NEW q \in Goroutine, RunUnlock(q) PROVE body[p] = m
  BY <1>0, <1>3 DEF RunUnlock
<1>4. ASSUME NEW n \in Message, Publish(n) \/ Expire(n) PROVE body' = body
  BY <1>4 DEF Publish, PublishSet, PublishExpire, PublishHSet, Expire, run
<1>5. ASSUME Delete PROVE body' = body
  BY <1>5 DEF Delete, DeleteHDel, DeleteKeys, DeleteDel, DeleteReturn, run
<1>6. ASSUME NEW r \in Runtime, Serve(r) \/ ConnectionLost(r) \/ Shutdown(r) \/ Stop(r)
      PROVE  body' = body
  BY <1>6 DEF Serve, Start, InitPubSubConn, ServeReceive, ResetKey, ServeRun, ConnectionLost,
              Shutdown, Stop, ShutdownWait, ShutdownCancel, ShutdownReturn, run
<1>7. ASSUME NEW q \in Goroutine,
             \/ RunBegin(q) \/ RunLock(q) \/ RunHDel(q) \/ RunDone(q) \/ RunRelease(q)
      PROVE  body' = body
  BY <1>7 DEF RunBegin, RunLock, RunHDel, RunDone, RunRelease
<1>8. ASSUME UNCHANGED vars PROVE body' = body BY <1>8 DEF vars, run
<1> QED BY <1>1, <1>2, <1>3, <1>4, <1>5, <1>6, <1>7, <1>8 DEF Next, Run

(***************************************************************************)
(* No run reads the body of a message once deleteMessage has returned, if  *)
(* the message was published before the deletion began.                    *)
(***************************************************************************)
THEOREM RedisDeleted == Spec => DeletedStaysUnread
<1>1. Init => LockInv BY DEF Init, LockInv, Locked
<1>2. Init => BodyInv BY RedisAssumption DEF Init, BodyInv
<1>3. Init => DeletedInv BY DEF Init, DeletedInv
<1>4. TypeOK /\ BodyInv /\ DeletedInv /\ [Next]_vars
         => [\A m \in dropped : \A p \in Goroutine : body'[p] = m => body[p] = m]_vars
  BY DeletedRead
<1> QED BY <1>1, <1>2, <1>3, <1>4, LockStep, BodyStep, DeletedStep, RedisTypes, PTL
        DEF Spec, DeletedStaysUnread
=============================================================================
