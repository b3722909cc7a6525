------------------------ MODULE SubscriptionsProofs ------------------------
(***************************************************************************)
(* Proofs about the live views of the dashboard, for any number of         *)
(* connections, operations and ids, and for any limit of subscribers.      *)
(***************************************************************************)
EXTENDS Subscriptions, FiniteSetTheorems, TLAPS

-----------------------------------------------------------------------------
\* The inductive invariant

\* A broadcast that writes, and a kill, have the channel of an operation.
Targets ==
    /\ \A b \in Caster : cast[b].pc = "write" => cast[b].target \in Op
    /\ admin.pc = "kill" => admin.kind \in Kinds /\ admin.conn \in Conn /\ admin.target \in Op

\* What the registry has under a key is an operation of that key, which will remove it.
EntryLive ==
    \A k \in Key : entry[k] # None =>
        KeyOf(entry[k]) = k /\ op[entry[k]].listener \in {"listen", "session", "remove"}

Registering == {o \in Op : op[o].listener = "register"}
Registered == {k \in Key : entry[k] # None}
Users == {c \in Conn : \E o \in Op : op[o].conn = c /\ op[o].listener # "none"}

\* readLoop is at one operation of its connection that passed the limit test.
OneAtATime == \A o, q \in Registering : op[o].conn = op[q].conn => o = q

\* The operations that passed the limit test count already.
Room ==
    LET n == Cardinality(Registered) + Cardinality(Registering)
    IN n # 0 => n <= MaxClient + Cardinality(Users) - 1

SubInv == TypeOK /\ Targets /\ EntryLive /\ LoneViewServed /\ OneAtATime /\ Room

-----------------------------------------------------------------------------
\* The values of the variables

ViewType == [listener : {"none", "refused", "register", "listen", "session", "remove",
                         "leave", "closed"},
             conn : Conn, kind : Kinds, id : Id \cup {None},
             done : BOOLEAN, reader : {"none", "reads", "gone"}]

CastType == [pc : {"idle", "next", "write"}, seen : SUBSET Key, target : Op \cup {None}]

AdminType == [pc : {"idle", "clear", "token", "kill", "done"}, kind : Kinds \cup {"none"},
              conn : Conn \cup {None}, target : Op \cup {None}]

\* The key of an operation is one of the registry's.
LEMMA KeyType ==
  ASSUME TypeOK, NEW o \in Op
  PROVE  KeyOf(o) \in Key
  BY DEF TypeOK, KeyOf, Key

\* The keys, the operations and the users are finitely many.
LEMMA Finite ==
  /\ IsFiniteSet(Key) /\ IsFiniteSet(Registered) /\ IsFiniteSet(Registering)
  /\ IsFiniteSet(Users)
  /\ Cardinality(Registered) \in Nat /\ Cardinality(Registering) \in Nat
  /\ Cardinality(Users) \in Nat
<1>1. IsFiniteSet(Kinds)
  <2>1. Kinds = (({} \cup {"task"}) \cup {"job"}) \cup {"detail"}
    BY DEF Kinds
  <2> QED BY <2>1, FS_EmptySet, FS_AddElement
<1>2. IsFiniteSet(Key)
  BY <1>1, FS_Product, SubscriptionAssumption DEF Key
<1>3. IsFiniteSet(Registered) /\ IsFiniteSet(Registering) /\ IsFiniteSet(Users)
  BY <1>2, FS_Subset, SubscriptionAssumption DEF Registered, Registering, Users
<1> QED BY <1>2, <1>3, FS_CardinalityType

\* Of different things, each on a connection of its own, there are no more than connections.
LEMMA OneEach ==
  ASSUME NEW R, NEW U, IsFiniteSet(R), IsFiniteSet(U), NEW f \in [R -> U],
         \A x, y \in R : f[x] = f[y] => x = y
  PROVE  Cardinality(R) <= Cardinality(U)
<1>1. ~(Cardinality(U) < Cardinality(R))
  BY FS_PigeonHole
<1> QED BY <1>1, FS_CardinalityType

\* When nobody is registered the count of the subscribers is zero.
LEMMA SomeRegistered ==
  /\ Total = Cardinality(Registered)
  /\ Total # 0 <=> \E k \in Key : entry[k] # None
<1>1. Total = Cardinality(Registered)
  BY DEF Total, Registered
<1>2. Cardinality(Registered) # 0 <=> Registered # {}
  BY Finite, FS_EmptySet
<1> QED BY <1>1, <1>2 DEF Registered

(***************************************************************************)
(* NextMap is one of the maps after the one of kind that knows a           *)
(* connection, or "end" when there is none.                                *)
(***************************************************************************)
LEMMA NextMapFound ==
  ASSUME NEW kind \in Kinds \cup {"none"}, NEW conns, NEW e
  PROVE  \/ /\ NextMap(kind, conns, e) = "end"
            /\ \A k \in After[kind], c \in conns : e[<<k, c>>] = None
         \/ /\ NextMap(kind, conns, e) \in After[kind] /\ NextMap(kind, conns, e) \in Kinds
            /\ \E c \in conns : e[<<NextMap(kind, conns, e), c>>] # None
<1> DEFINE found == {k \in After[kind] : \E c \in conns : e[<<k, c>>] # None}
<1>1. CASE found = {}
  BY <1>1 DEF NextMap
<1>2. CASE found # {}
  <2>1. After[kind] \subseteq Kinds
    BY DEF After, Kinds
  <2>2. \E k \in found : found \ {k} \subseteq After[k]
    <3>1. CASE "task" \in found
      BY <2>1, <3>1 DEF After, Kinds
    <3>2. CASE "task" \notin found /\ "job" \in found
      BY <2>1, <3>2 DEF After, Kinds
    <3>3. CASE "task" \notin found /\ "job" \notin found
      <4>1. found = {"detail"}
        BY <1>2, <2>1, <3>3 DEF Kinds
      <4> QED BY <4>1
    <3> QED BY <3>1, <3>2, <3>3
  <2>3. NextMap(kind, conns, e) = CHOOSE k \in found : found \ {k} \subseteq After[k]
    BY <1>2 DEF NextMap
  <2> HIDE DEF found
  <2>4. NextMap(kind, conns, e) \in found
    BY <2>2, <2>3
  <2> QED BY <2>1, <2>4 DEF found
<1> QED BY <1>1, <1>2

-----------------------------------------------------------------------------
\* Nothing is registered at first.
LEMMA InitSub ==
  ASSUME Init
  PROVE  SubInv
<1>1. PICK v \in Views :
          op = [o \in Op |-> [kind |-> v[o][1], conn |-> v[o][2], id |-> None,
                              listener |-> "none", done |-> FALSE, reader |-> "none"]]
  BY DEF Init
<1>2. \A o \in Op : v[o] \in Key
  BY SubscriptionAssumption
<1>3. op \in [Op -> ViewType] /\ \A o \in Op : op[o].listener = "none"
  BY <1>1, <1>2 DEF ViewType, Key
<1>4. TypeOK
  <2>1. cast \in [Caster -> CastType] /\ admin \in AdminType
    BY DEF Init, Resting, AdminAt, CastType, AdminType
  <2> QED BY <1>3, <2>1 DEF Init, TypeOK, ViewType, CastType, AdminType
<1>5. Targets /\ EntryLive
  BY DEF Init, Targets, EntryLive, Resting, AdminAt
<1>6. LoneViewServed /\ OneAtATime
  BY <1>3 DEF LoneViewServed, OneAtATime, Registering
<1>7. Room
  <2>1. Registered = {} /\ Registering = {}
    BY <1>3 DEF Registered, Registering, Init
  <2> QED BY <2>1, FS_EmptySet DEF Room
<1> QED BY <1>4, <1>5, <1>6, <1>7 DEF SubInv

(***************************************************************************)
(* What the registry keeps is a matter of the registry and of where the    *)
(* listeners are.  A step that leaves the registry alone keeps it when no  *)
(* listener comes to listen, or leaves, other than by closing its channel. *)
(***************************************************************************)
LEMMA ListenersMove ==
  ASSUME SubInv, op' \in [Op -> ViewType], UNCHANGED <<entry, dismissed>>,
         \A q \in Op :
            /\ op'[q].kind = op[q].kind /\ op'[q].conn = op[q].conn
            /\ \/ op'[q].listener = op[q].listener
               \/ /\ op[q].listener \in {"listen", "session"}
                  /\ op'[q].listener \in {"session", "remove"}
               \/ op[q].listener = "leave" /\ op'[q].listener = "closed"
  PROVE  EntryLive' /\ LoneViewServed' /\ OneAtATime' /\ Room'
<1>1. \A q \in Op : KeyOf(q)' = KeyOf(q)
  BY DEF KeyOf
<1>2. EntryLive'
  <2> SUFFICES ASSUME NEW k \in Key, entry[k] # None
               PROVE  KeyOf(entry[k])' = k /\ op'[entry[k]].listener \in {"listen", "session", "remove"}
    BY DEF EntryLive, KeyOf
  <2>1. entry[k] \in Op
    BY DEF SubInv, TypeOK
  <2>2. KeyOf(entry[k]) = k /\ op[entry[k]].listener \in {"listen", "session", "remove"}
    BY DEF SubInv, EntryLive
  <2> QED BY <1>1, <2>1, <2>2
<1>3. LoneViewServed'
  <2> SUFFICES ASSUME NEW o \in Op, op'[o].listener = "listen", o \notin dismissed,
                      \A q \in Op \ {o} : KeyOf(q)' = KeyOf(o)' => op'[q].listener \in {"none", "refused"}
               PROVE  entry[KeyOf(o)] = o
    BY <1>1 DEF LoneViewServed
  <2>1. op[o].listener = "listen"
    OBVIOUS
  <2>2. \A q \in Op \ {o} : KeyOf(q) = KeyOf(o) => op[q].listener \in {"none", "refused"}
    BY <1>1
  <2> QED BY <2>1, <2>2 DEF SubInv, LoneViewServed
<1>4. Registering' = Registering /\ Registered' = Registered
  BY DEF Registering, Registered
<1>5. Users' = Users
  <2>1. \A q \in Op : op'[q].conn = op[q].conn /\ (op'[q].listener # "none" <=> op[q].listener # "none")
    OBVIOUS
  <2> QED BY <2>1 DEF Users
<1>6. OneAtATime' /\ Room'
  <2>1. \A o \in Registering : op'[o].conn = op[o].conn
    BY DEF Registering
  <2> QED BY <1>4, <1>5, <2>1 DEF SubInv, OneAtATime, Room
<1> QED BY <1>2, <1>3, <1>6

(***************************************************************************)
(* A removal from the registry: of whoever has the key k.  The operation   *)
(* removed is noted, unless it removes itself and leaves.                  *)
(***************************************************************************)
LEMMA EntryRemoved ==
  ASSUME SubInv, NEW k \in Key, entry' = [entry EXCEPT ![k] = None],
         op' \in [Op -> ViewType],
         \A q \in Op :
            /\ op'[q].kind = op[q].kind /\ op'[q].conn = op[q].conn
            /\ \/ op'[q].listener = op[q].listener
               \/ op[q].listener = "remove" /\ op'[q].listener = "leave" /\ KeyOf(q) = k
            /\ q \in dismissed \/ q = entry[k] => q \in dismissed' \/ op'[q].listener # "listen"
  PROVE  /\ entry' \in [Key -> Op \cup {None}]
         /\ EntryLive' /\ LoneViewServed' /\ OneAtATime' /\ Room'
<1>0. entry \in [Key -> Op \cup {None}]
  BY DEF SubInv, TypeOK
<1>1. \A q \in Op : KeyOf(q)' = KeyOf(q)
  BY DEF KeyOf
<1>2. /\ entry' \in [Key -> Op \cup {None}] /\ entry'[k] = None
      /\ \A x \in Key : x # k => entry'[x] = entry[x]
  BY <1>0
<1>3. EntryLive'
  <2> SUFFICES ASSUME NEW x \in Key, entry'[x] # None
               PROVE  /\ <<op'[entry'[x]].kind, op'[entry'[x]].conn>> = x
                      /\ op'[entry'[x]].listener \in {"listen", "session", "remove"}
    BY DEF EntryLive, KeyOf
  <2>1. x # k /\ entry'[x] = entry[x] /\ entry[x] \in Op
    BY <1>0, <1>2
  <2>2. KeyOf(entry[x]) = x /\ op[entry[x]].listener \in {"listen", "session", "remove"}
    BY <2>1 DEF SubInv, EntryLive
  <2>3. op'[entry[x]].listener = op[entry[x]].listener
    BY <2>1, <2>2
  <2> QED BY <2>1, <2>2, <2>3 DEF KeyOf
<1>4. LoneViewServed'
  <2> SUFFICES ASSUME NEW o \in Op, op'[o].listener = "listen", o \notin dismissed',
                      \A q \in Op \ {o} : KeyOf(q)' = KeyOf(o)' => op'[q].listener \in {"none", "refused"}
               PROVE  entry'[KeyOf(o)] = o
    BY <1>1 DEF LoneViewServed
  <2>1. op[o].listener = "listen" /\ o \notin dismissed /\ o # entry[k]
    OBVIOUS
  <2>2. \A q \in Op \ {o} : KeyOf(q) = KeyOf(o) => op[q].listener \in {"none", "refused"}
    BY <1>1
  <2>3. entry[KeyOf(o)] = o
    BY <2>1, <2>2 DEF SubInv, LoneViewServed
  <2>4. KeyOf(o) \in Key /\ KeyOf(o) # k
    BY <2>1, <2>3, KeyType DEF SubInv
  <2> QED BY <1>2, <2>3, <2>4
<1>5. Registering' = Registering
  BY DEF Registering
<1>6. Users' = Users
  <2>1. \A q \in Op : op'[q].conn = op[q].conn /\ (op'[q].listener # "none" <=> op[q].listener # "none")
    OBVIOUS
  <2> QED BY <2>1 DEF Users
<1>7. Cardinality(Registered') <= Cardinality(Registered) /\ Cardinality(Registered') \in Nat
  <2>1. Registered' \subseteq Registered
    BY <1>0, <1>2 DEF Registered
  <2>2. IsFiniteSet(Registered') /\ Cardinality(Registered') <= Cardinality(Registered)
    BY <2>1, Finite, FS_Subset
  <2> QED BY <2>2, FS_CardinalityType
<1>8. OneAtATime'
  <2>1. \A o \in Registering : op'[o].conn = op[o].conn
    BY DEF Registering
  <2> QED BY <1>5, <2>1 DEF SubInv, OneAtATime
<1>9. Room'
  <2> DEFINE a == Cardinality(Registered)  b == Cardinality(Registered')
             r == Cardinality(Registering)  u == Cardinality(Users)
  <2>1. a \in Nat /\ b \in Nat /\ r \in Nat /\ u \in Nat /\ b <= a
    BY <1>7, Finite
  <2>2. a + r # 0 => a + r <= MaxClient + u - 1
    BY DEF SubInv, Room
  <2>3. Room' <=> (b + r # 0 => b + r <= MaxClient + u - 1)
    BY <1>5, <1>6 DEF Room
  <2> HIDE DEF a, b, r, u
  <2> QED BY <2>1, <2>2, <2>3, SubscriptionAssumption
<1> QED BY <1>2, <1>3, <1>4, <1>8, <1>9

-----------------------------------------------------------------------------
\* The steps of an operation

\* The record of one operation becomes r.
LEMMA ViewUpdate ==
  ASSUME TypeOK, NEW o \in Op, NEW r \in ViewType, op' = [op EXCEPT ![o] = r]
  PROVE  /\ op' \in [Op -> ViewType] /\ op'[o] = r
         /\ \A q \in Op : q # o => op'[q] = op[q]
  BY DEF TypeOK, ViewType

\* What TypeOK says of the variables that an operation does not change
Others == <<conn, opDone, entry, cast, admin, dismissed>>

\* Some actions only change the place of a listener or a reader.
LEMMA PlaceChange ==
  ASSUME SubInv, op' \in [Op -> ViewType], UNCHANGED <<entry, dismissed>>,
         conn' \in [Conn -> {"open", "closed"}], opDone' \in [Conn -> [Id -> Op \cup {None}]],
         cast' \in [Caster -> CastType], admin' \in AdminType,
         Targets',
         \A q \in Op :
            /\ op'[q].kind = op[q].kind /\ op'[q].conn = op[q].conn
            /\ \/ op'[q].listener = op[q].listener
               \/ /\ op[q].listener \in {"listen", "session"}
                  /\ op'[q].listener \in {"session", "remove"}
               \/ op[q].listener = "leave" /\ op'[q].listener = "closed"
  PROVE  SubInv'
<1>1. TypeOK'
  BY DEF SubInv, TypeOK, ViewType, CastType, AdminType
<1> QED BY <1>1, ListenersMove DEF SubInv

\* The types, from the invariant
LEMMA Types ==
  ASSUME SubInv
  PROVE  /\ op \in [Op -> ViewType] /\ cast \in [Caster -> CastType] /\ admin \in AdminType
         /\ entry \in [Key -> Op \cup {None}] /\ dismissed \subseteq Op
         /\ conn \in [Conn -> {"open", "closed"}] /\ opDone \in [Conn -> [Id -> Op \cup {None}]]
  BY DEF SubInv, TypeOK, ViewType, CastType, AdminType

\* The end of an operation by the client or the connection, and of its reader.
LEMMA EndsInv ==
  ASSUME SubInv,
         \/ \E c \in Conn, i \in Id : StopMessage(c, i)
         \/ \E c \in Conn : Close(c)
         \/ \E o \in Op : ReaderLeaves(o)
  PROVE  SubInv'
<1> USE Types
<1>1. ASSUME NEW c \in Conn, NEW i \in Id, StopMessage(c, i)
      PROVE  SubInv'
  <2> DEFINE o == opDone[c][i]
             r == [op[o] EXCEPT !.done = TRUE]
  <2>1. o \in Op /\ op[o] \in ViewType
    BY <1>1 DEF StopMessage
  <2> HIDE DEF o
  <2>2. /\ r \in ViewType /\ r.kind = op[o].kind /\ r.conn = op[o].conn
        /\ r.listener = op[o].listener
    BY <2>1 DEF ViewType
  <2>3. op' = [op EXCEPT ![o] = r]
    BY <1>1 DEF StopMessage, o
  <2> HIDE DEF r
  <2>4. opDone' \in [Conn -> [Id -> Op \cup {None}]] /\ UNCHANGED <<conn, entry, cast, admin, dismissed>>
    BY <1>1 DEF StopMessage
  <2>5. Targets'
    BY <2>4 DEF SubInv, Targets
  <2> QED BY <2>1, <2>2, <2>3, <2>4, <2>5, ViewUpdate, PlaceChange DEF SubInv
<1>2. ASSUME NEW c \in Conn, Close(c)
      PROVE  SubInv'
  <2>1. /\ op' = [o \in Op |-> IF op[o].conn = c /\ op[o].listener # "none"
                               THEN [op[o] EXCEPT !.done = TRUE] ELSE op[o]]
        /\ conn' = [conn EXCEPT ![c] = "closed"]
        /\ opDone' = [opDone EXCEPT ![c] = [i \in Id |-> None]]
        /\ UNCHANGED <<entry, cast, admin, dismissed>>
    BY <1>2 DEF Close
  <2>2. \A o \in Op : LET r == [op[o] EXCEPT !.done = TRUE]
                      IN  /\ r \in ViewType /\ r.kind = op[o].kind /\ r.conn = op[o].conn
                          /\ r.listener = op[o].listener
    BY DEF ViewType
  <2>3. op' \in [Op -> ViewType] /\ \A q \in Op : /\ op'[q].kind = op[q].kind /\ op'[q].conn = op[q].conn
                                                   /\ op'[q].listener = op[q].listener
    BY <2>1, <2>2
  <2>4. conn' \in [Conn -> {"open", "closed"}] /\ opDone' \in [Conn -> [Id -> Op \cup {None}]]
    BY <2>1
  <2>5. Targets'
    BY <2>1 DEF SubInv, Targets
  <2> QED BY <2>1, <2>3, <2>4, <2>5, PlaceChange
<1>3. ASSUME NEW o \in Op, ReaderLeaves(o)
      PROVE  SubInv'
  <2> DEFINE r == [op[o] EXCEPT !.reader = "gone", !.done = TRUE]
  <2>1. op[o] \in ViewType
    OBVIOUS
  <2>2. /\ r \in ViewType /\ r.kind = op[o].kind /\ r.conn = op[o].conn
        /\ r.listener = op[o].listener
    BY <2>1 DEF ViewType
  <2>3. op' = [op EXCEPT ![o] = r]
    BY <1>3 DEF ReaderLeaves
  <2> HIDE DEF r
  <2>4. UNCHANGED Others
    BY <1>3 DEF ReaderLeaves, Others
  <2>5. Targets'
    BY <2>4 DEF SubInv, Targets, Others
  <2> QED BY <2>2, <2>3, <2>4, <2>5, ViewUpdate, PlaceChange DEF SubInv, Others
<1> QED BY <1>1, <1>2, <1>3

\* The select of a listener, the close-session message and the end.
LEMMA ListenInv ==
  ASSUME SubInv, NEW o \in Op,
         ListenDone(o) \/ ListenAge(o) \/ ListenClear(o) \/ CloseSession(o) \/ CloseOutput(o)
  PROVE  SubInv'
<1> USE Types
<1> DEFINE r(l) == [op[o] EXCEPT !.listener = l]
<1>1. PICK l \in {"session", "remove", "closed"} :
          /\ op' = [op EXCEPT ![o] = r(l)]
          /\ \/ op[o].listener \in {"listen", "session"} /\ l # "closed"
             \/ op[o].listener = "leave" /\ l = "closed"
  <2>1. CASE ListenDone(o) \/ CloseSession(o)
    BY <2>1 DEF ListenDone, CloseSession
  <2>2. CASE ListenAge(o) \/ ListenClear(o)
    BY <2>2 DEF ListenAge, ListenClear
  <2>3. CASE CloseOutput(o)
    BY <2>3 DEF CloseOutput
  <2> QED BY <2>1, <2>2, <2>3
<1>2. /\ r(l) \in ViewType /\ r(l).kind = op[o].kind /\ r(l).conn = op[o].conn
      /\ r(l).listener = l
  <2>1. op[o] \in ViewType
    OBVIOUS
  <2> QED BY <2>1 DEF ViewType
<1> HIDE DEF r
<1>3. /\ UNCHANGED <<conn, opDone, entry, cast, dismissed>>
      /\ admin' = admin \/ admin' = [admin EXCEPT !.pc = "clear"]
  BY DEF ListenDone, ListenAge, ListenClear, CloseSession, CloseOutput
<1>4. admin' \in AdminType
  BY <1>3 DEF AdminType
<1>5. Targets'
  BY <1>3 DEF SubInv, Targets, AdminType
<1> QED BY <1>1, <1>2, <1>3, <1>4, <1>5, ViewUpdate, PlaceChange DEF SubInv

\* A listener that leaves removes whoever has its key.
LEMMA RemoveInv ==
  ASSUME SubInv, NEW o \in Op, RemoveSubscriber(o)
  PROVE  SubInv'
<1> USE Types
<1> DEFINE r == [op[o] EXCEPT !.listener = "leave"]
           k == KeyOf(o)
<1>1. /\ r \in ViewType /\ r.kind = op[o].kind /\ r.conn = op[o].conn /\ r.listener = "leave"
  <2>1. op[o] \in ViewType
    OBVIOUS
  <2> QED BY <2>1 DEF ViewType
<1>2. op' = [op EXCEPT ![o] = r] /\ op[o].listener = "remove"
  BY DEF RemoveSubscriber
<1> HIDE DEF r
<1>3. /\ op' \in [Op -> ViewType] /\ op'[o] = r
      /\ \A q \in Op : q # o => op'[q] = op[q]
  BY <1>1, <1>2, ViewUpdate DEF SubInv
<1>4. /\ k \in Key /\ entry' = [entry EXCEPT ![k] = None]
      /\ dismissed' = (dismissed \cup {entry[k]}) \ {o, None}
      /\ UNCHANGED <<conn, opDone, admin>>
  BY KeyType DEF RemoveSubscriber, SubInv
<1>5. cast' \in [Caster -> CastType] /\ Targets'
  <2> DEFINE n == IF op[o].kind = "task" THEN "next" ELSE "idle"
             s == [cast[o] EXCEPT !.pc = n]
  <2>1. cast' = [cast EXCEPT ![o] = s] /\ o \in Caster /\ n \in {"next", "idle"}
    BY DEF RemoveSubscriber, Caster
  <2> HIDE DEF n
  <2>2. s \in CastType /\ s.pc # "write"
    <3>1. cast[o] \in CastType
      BY <2>1
    <3> QED BY <2>1, <3>1 DEF CastType
  <2> HIDE DEF s
  <2>3. cast' \in [Caster -> CastType] /\ \A b \in Caster : cast'[b] = cast[b] \/ cast'[b].pc # "write"
    BY <2>1, <2>2
  <2> QED BY <1>4, <2>3 DEF SubInv, Targets
<1>6. /\ entry' \in [Key -> Op \cup {None}]
      /\ EntryLive' /\ LoneViewServed' /\ OneAtATime' /\ Room'
  <2>1. \A q \in Op : q \in dismissed \/ q = entry[k] => q \in dismissed' \/ op'[q].listener # "listen"
    BY <1>1, <1>3, <1>4, SubscriptionAssumption
  <2>2. \A q \in Op :
            /\ op'[q].kind = op[q].kind /\ op'[q].conn = op[q].conn
            /\ \/ op'[q].listener = op[q].listener
               \/ op[q].listener = "remove" /\ op'[q].listener = "leave" /\ KeyOf(q) = k
    BY <1>1, <1>2, <1>3
  <2> HIDE DEF k
  <2>3. \A q \in Op :
            /\ op'[q].kind = op[q].kind /\ op'[q].conn = op[q].conn
            /\ \/ op'[q].listener = op[q].listener
               \/ op[q].listener = "remove" /\ op'[q].listener = "leave" /\ KeyOf(q) = k
            /\ q \in dismissed \/ q = entry[k] => q \in dismissed' \/ op'[q].listener # "listen"
    BY <2>1, <2>2
  <2>4. op' \in [Op -> ViewType] /\ k \in Key /\ entry' = [entry EXCEPT ![k] = None]
    BY <1>3, <1>4
  <2> QED BY <2>3, <2>4, EntryRemoved
<1>7. TypeOK'
  <2>1. dismissed' \subseteq Op
    BY <1>4
  <2> QED BY <1>3, <1>4, <1>5, <1>6, <2>1 DEF TypeOK, ViewType, CastType, AdminType
<1> QED BY <1>5, <1>6, <1>7 DEF SubInv

\* A start message: the limit test is passed by one operation of a connection at a time.
LEMMA StartInv ==
  ASSUME SubInv, NEW o \in Op, NEW i \in Id, Start(o, i)
  PROVE  SubInv'
<1> USE Types
<1>1. PICK l \in {"register", "refused"} :
          /\ op' = [op EXCEPT ![o].id = i, ![o].listener = l]
          /\ l = "register" => Total < MaxClient
  BY DEF Start, LimitPassed
<1> DEFINE r == [op[o] EXCEPT !.id = i, !.listener = l]
<1>2. r \in ViewType /\ r.kind = op[o].kind /\ r.conn = op[o].conn /\ r.listener = l
  <2>1. op[o] \in ViewType
    OBVIOUS
  <2> QED BY <2>1 DEF ViewType
<1>3. op' = [op EXCEPT ![o] = r]
  BY <1>1
<1> HIDE DEF r
<1>4. /\ op' \in [Op -> ViewType] /\ op'[o] = r
      /\ \A q \in Op : q # o => op'[q] = op[q]
  BY <1>2, <1>3, ViewUpdate DEF SubInv
<1>5. /\ UNCHANGED <<conn, opDone, entry, cast, admin, dismissed>>
      /\ op[o].listener = "none" /\ \A q \in Registering : op[q].conn # op[o].conn
  BY DEF Start, Busy, Registering
<1>6. TypeOK' /\ Targets'
  BY <1>4, <1>5 DEF SubInv, TypeOK, ViewType, Targets
<1>7. \A q \in Op : op'[q].kind = op[q].kind /\ op'[q].conn = op[q].conn /\ KeyOf(q)' = KeyOf(q)
  BY <1>2, <1>4 DEF KeyOf
<1>8. EntryLive'
  <2> SUFFICES ASSUME NEW k \in Key, entry[k] # None
               PROVE  /\ <<op'[entry[k]].kind, op'[entry[k]].conn>> = k
                      /\ op'[entry[k]].listener \in {"listen", "session", "remove"}
    BY <1>5 DEF EntryLive, KeyOf
  <2>1. entry[k] \in Op /\ KeyOf(entry[k]) = k /\ op[entry[k]].listener \in {"listen", "session", "remove"}
    BY DEF SubInv, EntryLive
  <2>2. entry[k] # o
    BY <1>5, <2>1
  <2> QED BY <1>4, <2>1, <2>2 DEF KeyOf
<1>9. LoneViewServed'
  <2> SUFFICES ASSUME NEW x \in Op, op'[x].listener = "listen", x \notin dismissed,
                      \A q \in Op \ {x} : KeyOf(q)' = KeyOf(x)' => op'[q].listener \in {"none", "refused"}
               PROVE  entry[KeyOf(x)] = x
    BY <1>5, <1>7 DEF LoneViewServed
  <2>1. x # o /\ op[x].listener = "listen"
    BY <1>1, <1>2, <1>4
  <2>2. \A q \in Op \ {x} : KeyOf(q) = KeyOf(x) => op[q].listener \in {"none", "refused"}
    BY <1>4, <1>5, <1>7
  <2> QED BY <2>1, <2>2 DEF SubInv, LoneViewServed
<1>10. Registering' = IF l = "register" THEN Registering \cup {o} ELSE Registering
  BY <1>1, <1>2, <1>4, <1>5 DEF Registering
<1>11. OneAtATime'
  <2> SUFFICES ASSUME NEW x \in Registering', NEW q \in Registering', op'[x].conn = op'[q].conn
               PROVE  x = q
    BY DEF OneAtATime
  <2>1. x \in Op /\ q \in Op /\ op[x].conn = op[q].conn
    BY <1>7 DEF Registering
  <2>2. CASE x \in Registering /\ q \in Registering
    BY <2>1, <2>2 DEF SubInv, OneAtATime
  <2>3. CASE x \notin Registering \/ q \notin Registering
    BY <1>5, <1>10, <2>1, <2>3
  <2> QED BY <2>2, <2>3
<1>12. Users \subseteq Users' /\ Users' \subseteq Conn /\ IsFiniteSet(Users')
       /\ Cardinality(Users') \in Nat /\ Cardinality(Users) <= Cardinality(Users')
  <2>1. \A q \in Op : op'[q].conn = op[q].conn /\ (op[q].listener # "none" => op'[q].listener # "none")
    BY <1>4, <1>5, <1>7
  <2>2. Users \subseteq Users' /\ Users' \subseteq Conn
    BY <2>1 DEF Users
  <2>3. IsFiniteSet(Users')
    BY <2>2, FS_Subset, SubscriptionAssumption
  <2> QED BY <2>2, <2>3, FS_Subset, FS_CardinalityType
<1>13. Room'
  <2> DEFINE a == Cardinality(Registered)     r0 == Cardinality(Registering)
             r1 == Cardinality(Registering')  u0 == Cardinality(Users)
             u1 == Cardinality(Users')
  <2>1. a \in Nat /\ r0 \in Nat /\ u0 \in Nat /\ u1 \in Nat /\ u0 <= u1
    BY <1>12, Finite
  <2>2. a + r0 # 0 => a + r0 <= MaxClient + u0 - 1
    BY DEF SubInv, Room
  <2>3. r1 \in Nat /\ r1 <= u1
    <3> DEFINE f == [x \in Registering' |-> op'[x].conn]
    <3>1. f \in [Registering' -> Users'] /\ \A x, y \in Registering' : f[x] = f[y] => x = y
      BY <1>4, <1>11 DEF Registering, Users, OneAtATime, ViewType
    <3>2. IsFiniteSet(Registering')
      BY FS_Subset, SubscriptionAssumption DEF Registering
    <3> HIDE DEF f
    <3> QED BY <1>12, <3>1, <3>2, OneEach, FS_CardinalityType
  <2>4. l = "register" => a < MaxClient
    BY <1>1, SomeRegistered
  <2>5. l # "register" => r1 = r0
    BY <1>10
  <2>6. Registered' = Registered
    BY <1>5 DEF Registered
  <2>7. Room' <=> (a + r1 # 0 => a + r1 <= MaxClient + u1 - 1)
    BY <2>6 DEF Room
  <2> HIDE DEF a, r0, r1, u0, u1
  <2> QED BY <2>1, <2>2, <2>3, <2>4, <2>5, <2>7, SubscriptionAssumption
<1> QED BY <1>6, <1>8, <1>9, <1>11, <1>13 DEF SubInv

\* The locked half of the registration.
LEMMA RegisterInv ==
  ASSUME SubInv, NEW o \in Op, Register(o)
  PROVE  SubInv'
<1> USE Types
<1> DEFINE r == [op[o] EXCEPT !.listener = "listen", !.reader = "reads"]
           k == KeyOf(o)
<1>2. r \in ViewType /\ r.kind = op[o].kind /\ r.conn = op[o].conn /\ r.listener = "listen"
  <2>1. op[o] \in ViewType
    OBVIOUS
  <2> QED BY <2>1 DEF ViewType
<1>3. op' = [op EXCEPT ![o] = r]
  BY DEF Register
<1> HIDE DEF r
<1>4. /\ op' \in [Op -> ViewType] /\ op'[o] = r
      /\ \A q \in Op : q # o => op'[q] = op[q]
  BY <1>2, <1>3, ViewUpdate DEF SubInv
<1>5. /\ UNCHANGED <<conn, cast, admin, dismissed>>
      /\ op[o].listener = "register"
      /\ k \in Key /\ entry' = [entry EXCEPT ![k] = o]
      /\ opDone' \in [Conn -> [Id -> Op \cup {None}]]
  <2>1. opDone' = [opDone EXCEPT ![op[o].conn][op[o].id] = o]
    BY DEF Register
  <2>2. opDone' \in [Conn -> [Id -> Op \cup {None}]]
    BY <2>1
  <2> QED BY <2>2, KeyType DEF Register, SubInv
<1>6. /\ entry' \in [Key -> Op \cup {None}] /\ entry'[k] = o
      /\ \A x \in Key : x # k => entry'[x] = entry[x]
  BY <1>5
<1>7. TypeOK' /\ Targets'
  BY <1>4, <1>5, <1>6 DEF SubInv, TypeOK, ViewType, Targets
<1>8. \A q \in Op : op'[q].kind = op[q].kind /\ op'[q].conn = op[q].conn /\ KeyOf(q)' = KeyOf(q)
  BY <1>2, <1>4 DEF KeyOf
<1>9. EntryLive'
  <2> SUFFICES ASSUME NEW x \in Key, entry'[x] # None
               PROVE  /\ <<op'[entry'[x]].kind, op'[entry'[x]].conn>> = x
                      /\ op'[entry'[x]].listener \in {"listen", "session", "remove"}
    BY DEF EntryLive, KeyOf
  <2>1. CASE x = k
    BY <1>2, <1>4, <1>6, <2>1 DEF KeyOf
  <2>2. CASE x # k
    <3>1. /\ entry'[x] = entry[x] /\ entry[x] \in Op /\ KeyOf(entry[x]) = x
          /\ op[entry[x]].listener \in {"listen", "session", "remove"}
      BY <1>6, <2>2 DEF SubInv, EntryLive
    <3>2. entry[x] # o
      BY <1>5, <3>1
    <3> QED BY <1>4, <3>1, <3>2 DEF KeyOf
  <2> QED BY <2>1, <2>2
<1>10. LoneViewServed'
  <2> SUFFICES ASSUME NEW x \in Op, op'[x].listener = "listen", x \notin dismissed,
                      \A q \in Op \ {x} : KeyOf(q)' = KeyOf(x)' => op'[q].listener \in {"none", "refused"}
               PROVE  entry'[KeyOf(x)] = x
    BY <1>5, <1>8 DEF LoneViewServed
  <2>1. CASE x = o
    BY <1>6, <2>1
  <2>2. CASE x # o
    <3>1. KeyOf(x) # k /\ KeyOf(x) \in Key
      BY <1>2, <1>4, <1>8, <2>2, KeyType DEF SubInv
    <3>2. op[x].listener = "listen"
      BY <1>4, <2>2
    <3>3. \A q \in Op \ {x} : KeyOf(q) = KeyOf(x) => op[q].listener \in {"none", "refused"}
      BY <1>4, <1>8, <3>1
    <3>4. entry[KeyOf(x)] = x
      BY <1>5, <3>2, <3>3 DEF SubInv, LoneViewServed
    <3> QED BY <1>6, <3>1, <3>4
  <2> QED BY <2>1, <2>2
<1>11. Registering' = Registering \ {o} /\ o \in Registering
  BY <1>2, <1>4, <1>5 DEF Registering
<1>12. OneAtATime'
  <2>1. \A x \in Registering' : x \in Registering /\ op'[x].conn = op[x].conn
    BY <1>8, <1>11 DEF Registering
  <2> QED BY <2>1 DEF SubInv, OneAtATime
<1>13. Users' = Users
  <2>1. \A q \in Op : op'[q].conn = op[q].conn /\ (op[q].listener # "none" <=> op'[q].listener # "none")
    BY <1>2, <1>4, <1>5
  <2> QED BY <2>1 DEF Users
<1>14. Room'
  <2> DEFINE a == Cardinality(Registered)     b == Cardinality(Registered')
             r0 == Cardinality(Registering)   r1 == Cardinality(Registering')
             u == Cardinality(Users)
  <2>1. a \in Nat /\ r0 \in Nat /\ u \in Nat
    BY Finite
  <2>2. a + r0 # 0 => a + r0 <= MaxClient + u - 1
    BY DEF SubInv, Room
  <2>3. r1 = r0 - 1
    BY <1>11, Finite, FS_RemoveElement
  <2>4. b \in Nat /\ b <= a + 1
    <3>1. Registered' \subseteq Registered \cup {k}
      BY <1>6 DEF Registered
    <3>2. IsFiniteSet(Registered \cup {k}) /\ Cardinality(Registered \cup {k}) <= a + 1
      <4>1. /\ IsFiniteSet(Registered \cup {k})
            /\ \/ Cardinality(Registered \cup {k}) = a
               \/ Cardinality(Registered \cup {k}) = a + 1
        BY Finite, FS_AddElement
      <4> HIDE DEF a
      <4> QED BY <2>1, <4>1
    <3>3. IsFiniteSet(Registered') /\ b <= Cardinality(Registered \cup {k})
      BY <3>1, <3>2, FS_Subset
    <3> QED BY <2>1, <3>2, <3>3, FS_CardinalityType
  <2>5. Room' <=> (b + r1 # 0 => b + r1 <= MaxClient + u - 1)
    BY <1>13 DEF Room
  <2>6. r1 \in Nat
    BY <1>11, Finite, FS_RemoveElement, FS_CardinalityType
  <2> HIDE DEF a, b, r0, r1, u
  <2> QED BY <2>1, <2>2, <2>3, <2>4, <2>5, <2>6, SubscriptionAssumption
<1> QED BY <1>7, <1>9, <1>10, <1>12, <1>14 DEF SubInv

-----------------------------------------------------------------------------
\* Broadcasts

\* The keys a broadcast may write to are in use.
LEMMA NextKeysUsed ==
  ASSUME NEW b \in Caster, NEW k \in NextKeys(b)
  PROVE  k \in Key /\ entry[k] # None
<1>1. \A kind : Unseen(b, kind) \subseteq Registered
  BY DEF Unseen, Registered
<1> QED BY <1>1 DEF NextKeys, Registered

\* The record of one broadcast becomes r.
LEMMA CastUpdate ==
  ASSUME SubInv, NEW b \in Caster, NEW r \in CastType, cast' = [cast EXCEPT ![b] = r],
         UNCHANGED admin, r.pc = "write" => r.target \in Op
  PROVE  cast' \in [Caster -> CastType] /\ Targets'
<1>1. cast' \in [Caster -> CastType] /\ cast'[b] = r
      /\ \A x \in Caster : x # b => cast'[x] = cast[x]
  BY Types
<1> QED BY <1>1 DEF SubInv, Targets

\* A broadcast that goes on: only its own record changes.
LEMMA CastAlone ==
  ASSUME SubInv, NEW b \in Caster, NEW r \in CastType, cast' = [cast EXCEPT ![b] = r],
         r.pc = "write" => r.target \in Op,
         UNCHANGED <<conn, opDone, op, entry, admin, dismissed>>
  PROVE  SubInv'
<1>1. cast' \in [Caster -> CastType] /\ Targets'
  BY CastUpdate
<1> QED BY <1>1, Types, PlaceChange

\* The broadcasts of the worker and of the listeners that leave.
LEMMA BroadcastInv ==
  ASSUME SubInv, BroadcastAll \/ \E b \in Caster : CastNext(b) \/ CastWrite(b)
  PROVE  SubInv'
<1> USE Types
<1>1. CASE BroadcastAll
  <2> DEFINE r == [cast[Worker] EXCEPT !.pc = "next"]
  <2>1. Worker \in Caster
    BY DEF Caster
  <2>2. r \in CastType /\ r.pc = "next"
    <3>1. cast[Worker] \in CastType
      BY <2>1
    <3> QED BY <3>1 DEF CastType
  <2>3. cast' = [cast EXCEPT ![Worker] = r] /\ UNCHANGED <<conn, opDone, op, entry, admin, dismissed>>
    BY <1>1 DEF BroadcastAll
  <2> HIDE DEF r
  <2> QED BY <2>1, <2>2, <2>3, CastAlone
<1>2. ASSUME NEW b \in Caster, CastWrite(b)
      PROVE  SubInv'
  <2> DEFINE r == [cast[b] EXCEPT !.pc = "next", !.target = None]
  <2>1. r \in CastType /\ r.pc = "next"
    <3>1. cast[b] \in CastType
      OBVIOUS
    <3> QED BY <3>1 DEF CastType
  <2>2. cast' = [cast EXCEPT ![b] = r] /\ UNCHANGED <<conn, opDone, op, entry, admin, dismissed>>
    BY <1>2 DEF CastWrite
  <2> HIDE DEF r
  <2> QED BY <2>1, <2>2, CastAlone
<1>3. ASSUME NEW b \in Caster, CastNext(b), NextKeys(b) = {}
      PROVE  SubInv'
  <2>1. Resting \in CastType /\ Resting.pc = "idle"
    BY DEF Resting, CastType
  <2>2. cast' = [cast EXCEPT ![b] = Resting] /\ UNCHANGED <<conn, opDone, op, entry, admin, dismissed>>
    BY <1>3 DEF CastNext
  <2> QED BY <2>1, <2>2, CastAlone
<1>4. ASSUME NEW b \in Caster, CastNext(b), NEW k \in NextKeys(b),
             cast' = [cast EXCEPT ![b] = [pc |-> "write", seen |-> @.seen \cup {k}, target |-> entry[k]]],
             UNCHANGED <<entry, dismissed>>
      PROVE  SubInv'
  <2> DEFINE r == [pc |-> "write", seen |-> cast[b].seen \cup {k}, target |-> entry[k]]
  <2>1. k \in Key /\ entry[k] \in Op
    BY NextKeysUsed
  <2>2. r \in CastType /\ (r.pc = "write" => r.target \in Op)
    <3>1. cast[b].seen \subseteq Key
      BY DEF CastType
    <3> QED BY <2>1, <3>1 DEF CastType
  <2>3. cast' = [cast EXCEPT ![b] = r] /\ UNCHANGED <<conn, opDone, op, entry, admin, dismissed>>
    BY <1>4 DEF CastNext
  <2> HIDE DEF r
  <2> QED BY <2>2, <2>3, CastAlone
<1>5. ASSUME NEW b \in Caster, CastNext(b), NEW k \in NextKeys(b),
             cast' = [cast EXCEPT ![b].seen = @ \cup {k}],
             entry' = [entry EXCEPT ![k] = None], dismissed' = dismissed \cup {entry[k]}
      PROVE  SubInv'
  <2> DEFINE r == [cast[b] EXCEPT !.seen = @ \cup {k}]
  <2>1. k \in Key /\ entry[k] \in Op
    BY NextKeysUsed
  <2>2. r \in CastType /\ r.pc = cast[b].pc /\ r.pc # "write"
    <3>1. cast[b] \in CastType /\ cast[b].pc = "next"
      BY <1>5 DEF CastNext
    <3> QED BY <2>1, <3>1 DEF CastType
  <2>3. cast' = [cast EXCEPT ![b] = r] /\ UNCHANGED <<conn, opDone, op, admin>>
    BY <1>5 DEF CastNext
  <2> HIDE DEF r
  <2>4. cast' \in [Caster -> CastType] /\ Targets'
    BY <2>2, <2>3, CastUpdate
  <2>5. /\ entry' \in [Key -> Op \cup {None}]
        /\ EntryLive' /\ LoneViewServed' /\ OneAtATime' /\ Room'
    BY <1>5, <2>1, <2>3, EntryRemoved
  <2>6. TypeOK'
    <3>1. dismissed' \subseteq Op
      BY <1>5, <2>1
    <3> QED BY <2>3, <2>4, <2>5, <3>1 DEF SubInv, TypeOK, ViewType, CastType
  <2> QED BY <2>4, <2>5, <2>6 DEF SubInv
<1>6. ASSUME NEW b \in Caster, CastNext(b)
      PROVE  SubInv'
  BY <1>3, <1>4, <1>5, <1>6 DEF CastNext
<1> QED BY <1>1, <1>2, <1>6

-----------------------------------------------------------------------------
\* The administrators

\* An administrator goes on: only its own record changes.
LEMMA AdminAlone ==
  ASSUME SubInv, admin' \in AdminType,
         admin'.pc = "kill" => admin'.kind \in Kinds /\ admin'.conn \in Conn /\ admin'.target \in Op,
         UNCHANGED <<conn, opDone, op, entry, cast, dismissed>>
  PROVE  SubInv'
<1>1. Targets'
  BY DEF SubInv, Targets
<1> QED BY <1>1, Types, PlaceChange

\* The records an administrator can have
LEMMA AdminRecords ==
  /\ AdminDone \in AdminType /\ AdminDone.pc = "done"
  /\ \A kind \in Kinds : AdminAt("clear", kind, None, None) \in AdminType
  /\ \A kind : AdminAt("clear", kind, None, None).pc = "clear"
  /\ \A kind \in Kinds, c \in Conn, o \in Op \cup {None} :
        /\ AdminAt("kill", kind, c, o) \in AdminType
        /\ AdminAt("kill", kind, c, o).kind = kind
        /\ AdminAt("kill", kind, c, o).conn = c
        /\ AdminAt("kill", kind, c, o).target = o
  BY DEF AdminDone, AdminAt, AdminType

\* A removal by an administrator: the entry of k, whose operation is noted.
LEMMA AdminRemoves ==
  ASSUME SubInv, NEW k \in Key, entry' = [entry EXCEPT ![k] = None],
         dismissed' = dismissed \cup ({entry[k]} \ {None}),
         UNCHANGED <<conn, opDone, op>>,
         cast' \in [Caster -> CastType], admin' \in AdminType, Targets'
  PROVE  SubInv'
<1> USE Types
<1>1. dismissed' \subseteq Op /\ \A q \in Op : q \in dismissed \/ q = entry[k] => q \in dismissed'
  BY SubscriptionAssumption
<1>2. /\ entry' \in [Key -> Op \cup {None}]
      /\ EntryLive' /\ LoneViewServed' /\ OneAtATime' /\ Room'
  BY <1>1, EntryRemoved
<1>3. TypeOK'
  BY <1>1, <1>2 DEF SubInv, TypeOK, ViewType, CastType, AdminType
<1> QED BY <1>2, <1>3 DEF SubInv

\* ClearAllClientSubscriber.
LEMMA ClearInv ==
  ASSUME SubInv, ClearAll \/ ClearNext
  PROVE  SubInv'
<1> USE Types
<1>0. admin.kind \in Kinds \cup {"none"}
  BY DEF AdminType
<1>1. CASE ClearAll
  <2> DEFINE kind == NextMap("none", Conn, entry)
             r == [admin EXCEPT !.pc = "clear", !.kind = kind]
  <2>1. kind \in Kinds
    <3>1. PICK k \in Key : entry[k] # None
      BY <1>1, SomeRegistered DEF ClearAll
    <3>2. /\ k[1] \in After["none"] /\ k[2] \in Conn /\ k = <<k[1], k[2]>>
      BY DEF Key, After, Kinds
    <3>3. ~ \A kd \in After["none"], c \in Conn : entry[<<kd, c>>] = None
      BY <3>1, <3>2
    <3> QED BY <3>3, NextMapFound
  <2> HIDE DEF kind
  <2>2. r \in AdminType /\ r.pc = "clear"
    BY <2>1 DEF AdminType
  <2>3. admin' = r /\ UNCHANGED <<conn, opDone, op, entry, cast, dismissed>>
    BY <1>1 DEF ClearAll, kind
  <2> HIDE DEF r
  <2> QED BY <2>2, <2>3, AdminAlone
<1>2. ASSUME ClearNext, NEW k \in Key, entry[k] # None, entry' = [entry EXCEPT ![k] = None],
             dismissed' = dismissed \cup {entry[k]}, admin' = [admin EXCEPT !.pc = "token"]
      PROVE  SubInv'
  <2>1. UNCHANGED <<conn, opDone, op, cast>> /\ dismissed' = dismissed \cup ({entry[k]} \ {None})
    BY <1>2 DEF ClearNext
  <2>2. admin' \in AdminType /\ admin'.pc = "token"
    BY <1>2 DEF AdminType
  <2>3. Targets'
    BY <2>1, <2>2 DEF SubInv, Targets
  <2> QED BY <1>2, <2>1, <2>2, <2>3, AdminRemoves
<1>3. ASSUME ClearNext, UNCHANGED <<entry, dismissed>>,
             LET kind == NextMap(admin.kind, Conn, entry) IN
             admin' = IF kind = "end" THEN AdminDone ELSE AdminAt("clear", kind, None, None)
      PROVE  SubInv'
  <2> DEFINE kind == NextMap(admin.kind, Conn, entry)
  <2>1. kind = "end" \/ kind \in Kinds
    BY <1>0, NextMapFound
  <2>2. admin' = IF kind = "end" THEN AdminDone ELSE AdminAt("clear", kind, None, None)
    BY <1>3
  <2> HIDE DEF kind
  <2>3. admin' \in AdminType /\ admin'.pc # "kill"
    BY <2>1, <2>2, AdminRecords
  <2>4. UNCHANGED <<conn, opDone, op, entry, cast, dismissed>>
    BY <1>3 DEF ClearNext
  <2> QED BY <2>3, <2>4, AdminAlone
<1>4. CASE ClearNext
  <2>1. CASE \E k \in {x \in Key : x[1] = admin.kind /\ entry[x] # None} :
               /\ entry' = [entry EXCEPT ![k] = None]
               /\ dismissed' = dismissed \cup {entry[k]}
               /\ admin' = [admin EXCEPT !.pc = "token"]
    BY <1>2, <1>4, <2>1
  <2> QED BY <1>3, <1>4, <2>1 DEF ClearNext
<1> QED BY <1>1, <1>4

\* To the next map: e is the registry, of which something may have been removed.
LEMMA KillGoes ==
  ASSUME SubInv, NEW c \in Conn, NEW e \in [Key -> Op \cup {None}], KillGo(c, e)
  PROVE  /\ admin' \in AdminType
         /\ admin'.pc = "kill" =>
              admin'.kind \in Kinds /\ admin'.conn \in Conn /\ admin'.target \in Op
<1>0. admin.kind \in Kinds \cup {"none"}
  BY Types DEF AdminType
<1> DEFINE kind == NextMap(admin.kind, {c}, e)
<1>1. admin' = IF kind = "end" THEN AdminDone ELSE AdminAt("kill", kind, c, e[<<kind, c>>])
  BY DEF KillGo
<1>2. kind = "end" \/ (kind \in Kinds /\ e[<<kind, c>>] # None)
  <2> DEFINE only == {c}
  <2> HIDE DEF only
  <2>1. \/ NextMap(admin.kind, only, e) = "end"
        \/ /\ NextMap(admin.kind, only, e) \in Kinds
           /\ \E x \in only : e[<<NextMap(admin.kind, only, e), x>>] # None
    BY <1>0, NextMapFound
  <2> QED BY <2>1 DEF only
<1> HIDE DEF kind
<1>3. CASE kind = "end"
  BY <1>1, <1>3, AdminRecords
<1>4. CASE kind # "end"
  <2>1. <<kind, c>> \in Key /\ e[<<kind, c>>] \in Op
    BY <1>2, <1>4 DEF Key
  <2> QED BY <1>1, <1>2, <1>4, <2>1, AdminRecords
<1> QED BY <1>3, <1>4

\* KillClientSubscriber.
LEMMA KillInv ==
  ASSUME SubInv, KillSend \/ \E c \in Conn : Kill(c)
  PROVE  SubInv'
<1> USE Types
<1>1. ASSUME NEW c \in Conn, Kill(c)
      PROVE  SubInv'
  BY <1>1, KillGoes, AdminAlone DEF Kill
<1>2. ASSUME KillSend
      PROVE  SubInv'
  <2> DEFINE k == <<admin.kind, admin.conn>>
             rest == [entry EXCEPT ![k] = None]
             last == NextMap(admin.kind, {admin.conn}, rest) = "end"
  <2>1. k \in Key /\ admin.conn \in Conn /\ admin.pc = "kill" /\ UNCHANGED <<conn, opDone, op>>
    BY <1>2 DEF KillSend, SubInv, Targets, Key
  <2>2. CASE /\ KillGo(admin.conn, rest) /\ entry' = rest
             /\ dismissed' = dismissed \cup ({entry[k]} \ {None})
             /\ cast' = [cast EXCEPT ![Admin].pc = IF last THEN "next" ELSE @]
    <3>1. rest \in [Key -> Op \cup {None}]
      BY <2>1
    <3>2. /\ admin' \in AdminType
          /\ admin'.pc = "kill" =>
               admin'.kind \in Kinds /\ admin'.conn \in Conn /\ admin'.target \in Op
      BY <2>1, <2>2, <3>1, KillGoes
    <3> DEFINE r == [cast[Admin] EXCEPT !.pc = IF last THEN "next" ELSE @]
    <3>3. cast' = [cast EXCEPT ![Admin] = r] /\ Admin \in Caster
      BY <2>2 DEF Caster
    <3> HIDE DEF last
    <3>4. r \in CastType /\ (r.pc = "write" => cast[Admin].pc = "write" /\ r.target = cast[Admin].target)
      <4>1. cast[Admin] \in CastType
        BY <3>3
      <4> QED BY <4>1 DEF CastType
    <3> HIDE DEF r
    <3>5. /\ cast' \in [Caster -> CastType] /\ cast'[Admin] = r
          /\ \A x \in Caster : x # Admin => cast'[x] = cast[x]
      BY <3>3, <3>4
    <3>6. Targets'
      BY <3>2, <3>3, <3>4, <3>5 DEF SubInv, Targets
    <3> QED BY <2>1, <2>2, <3>2, <3>5, <3>6, AdminRemoves
  <2>3. CASE admin' = AdminDone /\ UNCHANGED <<entry, cast, dismissed>>
    BY <2>1, <2>3, AdminRecords, AdminAlone
  <2> QED BY <1>2, <2>2, <2>3 DEF KillSend
<1> QED BY <1>1, <1>2

-----------------------------------------------------------------------------
\* The theorems

\* Every step keeps the invariant.
LEMMA NextInv ==
  ASSUME SubInv, [Next]_vars
  PROVE  SubInv'
<1>1. CASE \E o \in Op : OpStep(o) \/ ListenAge(o) \/ ListenClear(o) \/ \E i \in Id : Start(o, i)
  BY <1>1, StartInv, RegisterInv, EndsInv, ListenInv, RemoveInv DEF OpStep
<1>2. CASE \E c \in Conn : Close(c) \/ \E i \in Id : StopMessage(c, i)
  BY <1>2, EndsInv
<1>3. CASE BroadcastAll \/ \E b \in Caster : CastNext(b) \/ CastWrite(b)
  BY <1>3, BroadcastInv
<1>4. CASE ClearAll \/ ClearNext
  BY <1>4, ClearInv
<1>5. CASE KillSend \/ \E c \in Conn : Kill(c)
  BY <1>5, KillInv
<1>6. CASE UNCHANGED vars
  <2>1. UNCHANGED <<conn, opDone, op, entry, cast, admin, dismissed>>
    BY <1>6 DEF vars
  <2>2. Targets'
    BY <2>1 DEF SubInv, Targets
  <2> QED BY <2>1, <2>2, Types, PlaceChange
<1> QED BY <1>1, <1>2, <1>3, <1>4, <1>5, <1>6 DEF Next

(***************************************************************************)
(* The registry, the operations and those who broadcast agree, in every    *)
(* reachable state of every instance (subscribers.go, graphql_resolver.go  *)
(* and the websocket transport).                                           *)
(***************************************************************************)
THEOREM Invariance == Spec => []SubInv
<1>1. Init => SubInv
  BY InitSub
<1>2. SubInv /\ [Next]_vars => SubInv'
  BY NextInv
<1> QED BY <1>1, <1>2, PTL DEF Spec

\* The variables keep their types: nothing but operations is registered or written to.
THEOREM TypeCorrect == Spec => []TypeOK
<1>1. SubInv => TypeOK
  BY DEF SubInv
<1> QED BY <1>1, Invariance, PTL

(***************************************************************************)
(* The registry never has the channel of a listener that closed it: the    *)
(* deferred close of a Listen resolver comes after removeTaskListSub-      *)
(* scriber and its like on every way out.                                  *)
(***************************************************************************)
THEOREM RegistryIsOpen == Spec => []NoClosedChannel
<1>1. SubInv => NoClosedChannel
  BY DEF SubInv, EntryLive, NoClosedChannel
<1> QED BY <1>1, Invariance, PTL

(***************************************************************************)
(* A view that shares its key with no other stays registered while it      *)
(* listens, whatever the others do, unless it was dismissed.               *)
(***************************************************************************)
THEOREM LoneViewStays == Spec => []LoneViewServed
<1>1. SubInv => LoneViewServed
  BY DEF SubInv
<1> QED BY <1>1, Invariance, PTL

(***************************************************************************)
(* How far the unlocked test of the limit lets the registry grow: past     *)
(* MaxClient by one for every further connection that ever started a view. *)
(***************************************************************************)
THEOREM LimitBound == Spec => []SubscriberLimit
<1>1. ASSUME SubInv
      PROVE  SubscriberLimit
  <2> DEFINE t == Cardinality(Registered)  r == Cardinality(Registering)  u == Cardinality(Users)
  <2>1. t \in Nat /\ r \in Nat /\ u \in Nat
    BY Finite
  <2>2. t + r # 0 => t + r <= MaxClient + u - 1
    BY <1>1 DEF SubInv, Room
  <2>3. SubscriberLimit <=> (t # 0 => t <= MaxClient + u - 1)
    BY SomeRegistered DEF SubscriberLimit, Users
  <2> HIDE DEF t, r, u
  <2> QED BY <2>1, <2>2, <2>3, SubscriptionAssumption
<1> QED BY <1>1, Invariance, PTL
=============================================================================
