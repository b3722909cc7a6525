----------------------------- MODULE RedisLocker -----------------------------
(***************************************************************************)
(* The distributed lock (src/candiutils/locker.go) on one key: calls of    *)
(* Lock with the goroutine that listens for the deletion of the key, calls *)
(* of IsLocked and IsLockedTTL by the workers, Reset, and the expiry of    *)
(* the key.                                                                *)
(*                                                                         *)
(* A step is one Redis command or one operation on the wait channel.  The  *)
(* counter in the key is reduced to whether the key exists, which is all   *)
(* that incr > 1 and incr > 0 look at.  Redis answers every command: the   *)
(* errors that IsLocked takes for "free" are left out.                     *)
(***************************************************************************)
EXTENDS Integers

CONSTANTS Call,           \* the calls made in a behaviour, each one once
          Method,         \* the method of each call
          MaxResets       \* bound: calls of Reset in a behaviour

Methods == {"Lock", "IsLocked", "IsLockedTTL"}

ASSUME LockerAssumption == Method \in [Call -> Methods] /\ MaxResets \in Nat

VARIABLES key,            \* the key exists
          ttl,            \* the key has an expiry
          pc,             \* of each call
          listener,       \* where the goroutine of Lock is
          events,         \* the del events its subscription has not delivered yet
          late,           \* history: the key was gone when the call subscribed, or expired
          stolen,         \* history: the key was deleted while another call had the lock
          resetting, resets

redis == <<key, ttl, events>>
vars == <<redis, pc, listener, late, stolen, resetting, resets>>

Init ==
    /\ key = FALSE /\ ttl = FALSE
    /\ pc = [c \in Call |-> "idle"] /\ listener = [c \in Call |-> "none"]
    /\ events = [c \in Call |-> 0] /\ late = [c \in Call |-> FALSE]
    /\ stolen = FALSE /\ resetting = FALSE /\ resets = 0

\* The call whose caller has the lock, or whose goroutine has taken it for the caller
Holds(c) == pc[c] \in {"expire", "held"} \/ listener[c] = "send"

Subscribed(c) == pc[c] \in {"wait", "timedOut"}

\* INCR: the lock is taken when the key did not exist
Incr ==
    /\ key' = TRUE
    /\ late' = IF key THEN late ELSE [c \in Call |-> FALSE]

\* DEL by the holders in by, or by somebody else: the subscribers hear of a key that existed
Del(by) ==
    /\ key' = FALSE /\ ttl' = FALSE
    /\ events' = [c \in Call |-> events[c] + IF key /\ Subscribed(c) THEN 1 ELSE 0]
    /\ stolen' = (stolen \/ \E c \in Call \ by : Holds(c))

-----------------------------------------------------------------------------
\* IsLocked, which Lock and IsLockedTTL begin with
IsLocked(c) ==
    /\ pc[c] = "idle"
    /\ Incr
    /\ pc' = [pc EXCEPT ![c] =
                CASE Method[c] = "IsLockedTTL" -> IF key THEN "expireLocked" ELSE "expire"
                  [] Method[c] = "IsLocked"    -> IF key THEN "locked" ELSE "held"
                  [] Method[c] = "Lock"        -> IF key THEN "subscribe" ELSE "held"]
    /\ UNCHANGED <<ttl, events, listener, stolen, resetting, resets>>

\* EXPIRE, also by a call that did not get the lock, and without effect on a missing key
IsLockedTTL(c) ==
    /\ pc[c] \in {"expire", "expireLocked"}
    /\ ttl' = key
    /\ pc' = [pc EXCEPT ![c] = IF @ = "expire" THEN "held" ELSE "locked"]
    /\ UNCHANGED <<key, events, listener, late, stolen, resetting, resets>>

Unlock(c) ==
    /\ pc[c] = "held"
    /\ Del({c})
    /\ pc' = [pc EXCEPT ![c] = "done"]
    /\ UNCHANGED <<listener, late, resetting, resets>>

-----------------------------------------------------------------------------
\* Lock, after IsLocked found the key

PSubscribe(c) ==
    /\ pc[c] = "subscribe"
    /\ pc' = [pc EXCEPT ![c] = "wait"]
    /\ listener' = [listener EXCEPT ![c] = "receive"]
    /\ late' = [late EXCEPT ![c] = ~key]
    /\ UNCHANGED <<redis, stolen, resetting, resets>>

Receive(c) ==
    /\ listener[c] = "receive" /\ events[c] > 0
    /\ events' = [events EXCEPT ![c] = @ - 1]
    /\ listener' = [listener EXCEPT ![c] = "try"]
    /\ UNCHANGED <<key, ttl, pc, late, stolen, resetting, resets>>

\* Mutant: the goroutine gives up when another call was faster
ListenerIsLockedOnce(c) ==
    /\ listener[c] = "try"
    /\ Incr
    /\ listener' = [listener EXCEPT ![c] = IF key THEN "ended" ELSE "send"]
    /\ UNCHANGED <<ttl, events, pc, stolen, resetting, resets>>

\* Mutant: the goroutine does not try the lock again before it reports
ListenerIsLockedNot(c) ==
    /\ listener[c] = "try"
    /\ listener' = [listener EXCEPT ![c] = "send"]
    /\ UNCHANGED <<redis, late, pc, stolen, resetting, resets>>

\* IsLocked in the goroutine, on a connection of its own
ListenerIsLocked(c) ==
    /\ listener[c] = "try"
    /\ Incr
    /\ listener' = [listener EXCEPT ![c] = IF key THEN "receive" ELSE "send"]
    /\ UNCHANGED <<ttl, events, pc, stolen, resetting, resets>>

\* The two sides meet on the wait channel, and Lock returns the unlock function.
LockAcquired(c) ==
    /\ pc[c] = "wait" /\ listener[c] = "send"
    /\ pc' = [pc EXCEPT ![c] = "held"]
    /\ listener' = [listener EXCEPT ![c] = "ended"]
    /\ UNCHANGED <<redis, late, stolen, resetting, resets>>

\* Mutant: Lock waits for the wait channel alone once the key is there
LockTimeoutFree(c) ==
    /\ pc[c] = "wait" /\ ~key
    /\ Del({c})
    /\ pc' = [pc EXCEPT ![c] = "timedOut"]
    /\ listener' = [listener EXCEPT ![c] = IF @ = "send" THEN "ended" ELSE @]
    /\ UNCHANGED <<late, resetting, resets>>

(***************************************************************************)
(* The timeout, and Unlock of a key that the call may not have.  Nobody    *)
(* takes the result of a goroutine that is sending it by now.              *)
(***************************************************************************)
LockTimeout(c) ==
    /\ pc[c] = "wait"
    /\ Del({c})
    /\ pc' = [pc EXCEPT ![c] = "timedOut"]
    /\ listener' = [listener EXCEPT ![c] = IF @ = "send" THEN "ended" ELSE @]
    /\ UNCHANGED <<late, resetting, resets>>

(***************************************************************************)
(* The deferred Unsubscribe and Close.  A goroutine in Receive gets an     *)
(* error, which nobody takes from it; one that has received an event goes  *)
(* on to IsLocked, and then nobody takes the lock from it.                 *)
(***************************************************************************)
LockClose(c) ==
    /\ pc[c] = "timedOut"
    /\ pc' = [pc EXCEPT ![c] = "error"]
    /\ listener' = [listener EXCEPT ![c] = IF @ = "receive" THEN "ended" ELSE @]
    /\ events' = [events EXCEPT ![c] = 0]
    /\ UNCHANGED <<key, ttl, late, stolen, resetting, resets>>

-----------------------------------------------------------------------------
\* Redis and Reset

\* The key expires, which is another event than its deletion.
Expire ==
    /\ key /\ ttl
    /\ key' = FALSE /\ ttl' = FALSE
    /\ late' = [c \in Call |-> TRUE]
    /\ stolen' = (stolen \/ \E c \in Call : Holds(c))
    /\ UNCHANGED <<events, pc, listener, resetting, resets>>

ResetKeys ==
    /\ ~resetting /\ resets < MaxResets
    /\ resets' = resets + 1 /\ resetting' = key
    /\ UNCHANGED <<redis, pc, listener, late, stolen>>

ResetDel ==
    /\ resetting /\ resetting' = FALSE
    /\ Del({})
    /\ UNCHANGED <<pc, listener, late, resets>>

-----------------------------------------------------------------------------
Listener(c) == Receive(c) \/ ListenerIsLocked(c)
Caller(c) ==
    \/ IsLocked(c) \/ IsLockedTTL(c) \/ Unlock(c)
    \/ PSubscribe(c) \/ LockAcquired(c) \/ LockTimeout(c) \/ LockClose(c)

Next ==
    \/ \E c \in Call : Caller(c) \/ Listener(c)
    \/ Expire \/ ResetKeys \/ ResetDel

Spec == Init /\ [][Next]_vars

LockCalls == {c \in Call : Method[c] = "Lock"}

\* Goroutines go on, and the time of time.After passes.
FairSpec ==
    /\ Spec
    /\ \A c \in LockCalls :
          /\ WF_vars(Listener(c)) /\ WF_vars(PSubscribe(c))
          /\ WF_vars(LockAcquired(c) \/ LockTimeout(c)) /\ WF_vars(LockClose(c))

-----------------------------------------------------------------------------
\* Properties

(***************************************************************************)
(* The types of the variables.  A goroutine of Lock exists only for a call *)
(* that has subscribed.                                                    *)
(***************************************************************************)
TypeOK ==
    /\ key \in BOOLEAN /\ ttl \in BOOLEAN
    /\ pc \in [Call -> {"idle", "expire", "expireLocked", "subscribe", "wait", "timedOut",
                        "held", "locked", "error", "done"}]
    /\ listener \in [Call -> {"none", "receive", "try", "send", "ended"}]
    /\ events \in [Call -> Nat] /\ late \in [Call -> BOOLEAN]
    /\ stolen \in BOOLEAN /\ resetting \in BOOLEAN /\ resets \in 0..MaxResets
    /\ \A c \in Call : listener[c] \in {"receive", "try", "send"} =>
                           pc[c] \in {"wait", "timedOut", "error"}

(***************************************************************************)
(* "lock concurrent process": one call has the lock, however many compete  *)
(* for it after a deletion, until the key is deleted under the one that    *)
(* has it: by Reset, by its expiry, or by a Lock that runs into its        *)
(* timeout.                                                                *)
(***************************************************************************)
OneHolder ==
    ~stolen => \A c, d \in Call : Holds(c) /\ Holds(d) => c = d

(***************************************************************************)
(* A Lock call that was subscribed when the key was deleted has the event  *)
(* before it or is trying the lock because of it: it does not sleep until  *)
(* its timeout while the lock is free.                                     *)
(***************************************************************************)
NoLostWakeup ==
    ~key => \A c \in Call :
        pc[c] = "wait" /\ ~late[c] => \/ listener[c] = "receive" /\ events[c] > 0
                                      \/ listener[c] \in {"try", "send"}

(***************************************************************************)
(* Every Lock call returns, with the lock or with an error, also when it   *)
(* subscribes too late, the key expires, or another call is always faster. *)
(***************************************************************************)
LockReturns ==
    \A c \in LockCalls :
        pc[c] = "subscribe" ~> pc[c] \in {"held", "error", "done"}
=============================================================================
