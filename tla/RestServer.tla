----------------------------- MODULE RestServer -----------------------------
(***************************************************************************)
(* Concurrent requests of the REST server: the Tracer middleware           *)
(* (src/codebase/app/rest_server/middleware.go) around the HTTPCache       *)
(* middleware (src/middleware/cache.go) around a handler, with the two     *)
(* pools of buffers they take from candiutils.SyncPool and the Redis cache *)
(* (src/cache/cache.go).                                                   *)
(*                                                                         *)
(* A body is the tag of who wrote it: what an array of bytes holds is the  *)
(* last thing that was written to it.  Reset in Put sets the length of the *)
(* buffer to zero and leaves the array, so the tag stays.                  *)
(***************************************************************************)
EXTENDS Naturals

CONSTANTS Request,
          Url,            \* the cache keys: method and URL
          Buffer,         \* bound: the buffers a pool ever makes
          Profile,        \* the requests a client may send, see ProfileAssumption
          None

(***************************************************************************)
(* What the middlewares look at in a request: whether its path is in       *)
(* MiddlewareExcludeURLPath; whether it is traced; its body: absent,       *)
(* shorter than maxLogSize, or longer; and whether its Cache-Control       *)
(* leaves a positive maxAge (no "no-cache", no "max-age=0").               *)
(***************************************************************************)
ASSUME ProfileAssumption ==
    Profile \subseteq [excluded : BOOLEAN, traced : BOOLEAN, url : Url,
                       body : {"absent", "small", "large"}, cacheable : BOOLEAN]

ASSUME NoneAssumption == None \notin Buffer /\ None \notin {"small", "large"}

Pool == {"tracer", "cache"}

VARIABLES req,            \* each request: its profile, its place and its locals
          array,          \* of each pool and buffer: who wrote into it last
          held,           \* the buffers of a pool that Get gave out and Put has not taken back
          entry           \* the cache: the body, whether a TTL is set

restVars == <<req, array, held, entry>>

Fresh == [pc |-> "idle", profile |-> None, alias |-> None, resBody |-> None,
          cacheBody |-> None, read |-> None, written |-> None, status |-> 200,
          answer |-> None, sent |-> None, logged |-> None]

\* A value under the key that is no cacheData, from another program or another release
Foreign == [body |-> "corrupt", ttl |-> TRUE, status |-> 200]

RestInit ==
    /\ req = [r \in Request |-> Fresh]
    /\ array = [p \in Pool |-> [b \in Buffer |-> None]]
    /\ held = [p \in Pool |-> {}]
    /\ entry \in [Url -> {None, Foreign}]

At(r, l) == req[r].pc = l

\* SyncPool.Get returns a pooled or a new buffer: one that nobody has
Free(p) == Buffer \ held[p]

Tag(kind, r) == <<kind, r>>

Goto(r, l) == req' = [req EXCEPT ![r].pc = l]

\* The request is over, and what it answered, sent and logged is all that is left of it.
Done(r, sent, logged) ==
    req' = [req EXCEPT ![r] = [Fresh EXCEPT !.pc = "done", !.profile = req[r].profile,
                                            !.answer = req[r].answer, !.sent = sent,
                                            !.logged = logged]]

-----------------------------------------------------------------------------
\* Tracer, up to next.ServeHTTP

\* A path of MiddlewareExcludeURLPath goes to the next handler with the bare ResponseWriter.
Arrive(r, p) ==
    /\ At(r, "idle")
    /\ req' = [req EXCEPT ![r].profile = p,
                          ![r].pc = IF p.excluded THEN "cache"
                                    ELSE IF p.traced /\ p.body = "small" THEN "logBody"
                                    ELSE "resBody"]
    /\ UNCHANGED <<array, held, entry>>

(***************************************************************************)
(* The body of a traced request is read into a buffer, logged, and put     *)
(* before the handler again as a reader on the buffer's array; then the    *)
(* buffer goes back to the pool.                                           *)
(***************************************************************************)
LogBody(r) ==
    /\ At(r, "logBody")
    /\ \E b \in Free("tracer") :
          /\ array' = [array EXCEPT !["tracer"][b] = Tag("req", r)]
          /\ req' = [req EXCEPT ![r].pc = "resBody", ![r].alias = b]
    /\ UNCHANGED <<held, entry>>

\* Mutant: the buffer of the response goes back before the handler runs
ResBodyEarlyPut(r) ==
    /\ At(r, "resBody")
    /\ \E b \in Free("tracer") : req' = [req EXCEPT ![r].pc = "cache", ![r].resBody = b]
    /\ UNCHANGED <<array, held, entry>>

ResBody(r) ==
    /\ At(r, "resBody")
    /\ \E b \in Free("tracer") :
          /\ held' = [held EXCEPT !["tracer"] = @ \cup {b}]
          /\ req' = [req EXCEPT ![r].pc = "cache", ![r].resBody = b]
    /\ UNCHANGED <<array, entry>>

-----------------------------------------------------------------------------
\* HTTPCache, up to next.ServeHTTP

\* Body t goes into the buffer of HTTPCache, and into the one of Tracer while that counts few bytes.
Written(r, t, short) ==
    [p \in Pool |-> [b \in Buffer |->
        IF \/ p = "tracer" /\ b = req[r].resBody /\ short
           \/ p = "cache" /\ b = req[r].cacheBody
        THEN t ELSE array[p][b]]]

\* The bytes that were sent, which contentLength adds up, are fewer than maxLogSize or not.
ContentLength(size, got) ==
    IF got = "all" THEN {size} ELSE IF size = "small" THEN {"small"} ELSE {"small", "large"}

(***************************************************************************)
(* WrapHTTPResponseWriter.Write of body t: first to the client, of which   *)
(* it gets all or, when the connection breaks or the status allows no      *)
(* body, less ("cut"); then all of it to the buffers, also when the write  *)
(* failed, and to the one of Tracer by the bytes that were sent.           *)
(***************************************************************************)
Respond(r, t, size, status, next) ==
    \E got \in {"all", "cut"} : \E written \in ContentLength(size, got) :
        /\ array' = Written(r, t, written = "small")
        /\ req' = [req EXCEPT ![r] =
                     [@ EXCEPT !.pc = next, !.answer = t, !.written = written, !.status = status,
                               !.sent = IF got = "all" THEN t ELSE Tag("cut", r)]]

\* No cache, or a Cache-Control without a positive maxAge
Uncached(r) ==
    /\ At(r, "cache") /\ ~req[r].profile.cacheable
    /\ Goto(r, "handler")
    /\ UNCHANGED <<array, held, entry>>

\* A hit is answered from the cache, with the status 200 and a body of any size.
Hit(r) ==
    /\ At(r, "cache") /\ req[r].profile.cacheable
    /\ LET e == entry[req[r].profile.url] IN
          /\ e # None /\ e.body # "corrupt"
          /\ \E size \in {"small", "large"} : Respond(r, e.body, size, 200, "log")
    /\ UNCHANGED <<held, entry>>

\* A value that is no cacheData is deleted, and the answer to this request is not cached.
Corrupt(r) ==
    /\ At(r, "cache") /\ req[r].profile.cacheable
    /\ LET k == req[r].profile.url IN
          /\ entry[k] # None /\ entry[k].body = "corrupt"
          /\ entry' = [entry EXCEPT ![k] = None]
    /\ Goto(r, "handler")
    /\ UNCHANGED <<array, held>>

\* Mutant: the buffer of the copied response goes back before the handler runs
MissEarlyPut(r) ==
    /\ At(r, "cache") /\ req[r].profile.cacheable
    /\ \E b \in Free("cache") : req' = [req EXCEPT ![r].pc = "handler", ![r].cacheBody = b]
    /\ UNCHANGED <<array, held, entry>>

\* GET found nothing, or failed
Miss(r) ==
    /\ At(r, "cache") /\ req[r].profile.cacheable
    /\ \E b \in Free("cache") :
          /\ held' = [held EXCEPT !["cache"] = @ \cup {b}]
          /\ req' = [req EXCEPT ![r].pc = "handler", ![r].cacheBody = b]
    /\ UNCHANGED <<array, entry>>

-----------------------------------------------------------------------------
\* The handler reads its body and answers, in either order, or panics.

HandlerRead(r) ==
    /\ At(r, "handler") /\ req[r].profile.body # "absent" /\ req[r].read = None
    /\ req' = [req EXCEPT ![r].read = IF req[r].alias = None THEN Tag("req", r)
                                      ELSE array["tracer"][req[r].alias]]
    /\ UNCHANGED <<array, held, entry>>

HandlerWrite(r, status, size) ==
    /\ At(r, "handler") /\ req[r].written = None
    /\ Respond(r, Tag("res", r), size, status, "handler")
    /\ UNCHANGED <<held, entry>>

(***************************************************************************)
(* The deferred calls after a panic: both buffers go back, and Tracer      *)
(* answers 500, behind what the handler has written.  Nobody recovers on   *)
(* an excluded path: net/http drops the connection.                        *)
(***************************************************************************)
HandlerPanic(r) ==
    /\ At(r, "handler")
    /\ held' = [held EXCEPT !["tracer"] = @ \ {req[r].resBody},
                            !["cache"] = @ \ {req[r].cacheBody}]
    /\ Done(r, IF req[r].profile.excluded THEN "dropped"
               ELSE IF req[r].sent = None THEN "error" ELSE "mixed", None)
    /\ UNCHANGED <<array, entry>>

-----------------------------------------------------------------------------
\* HTTPCache after the handler: SET and EXPIRE are two commands, then the deferred Put

\* Put of the buffer HTTPCache took, if it took one, and back to Tracer
PutCache(r) ==
    /\ held' = [held EXCEPT !["cache"] = @ \ {req[r].cacheBody}]
    /\ req' = [req EXCEPT ![r] = [@ EXCEPT !.pc = "log", !.cacheBody = None, !.status = 200]]

\* HTTPCache has a copy of the answer, and its status is below StatusBadRequest
Cacheable(r) == req[r].cacheBody # None /\ req[r].status < 400

HandlerReturn(r) ==
    /\ At(r, "handler") /\ req[r].written # None
    /\ ~Cacheable(r) /\ PutCache(r)
    /\ UNCHANGED <<array, entry>>

\* The handler returns, and SET stores its answer, without a TTL.
Set(r) ==
    /\ At(r, "handler") /\ req[r].written # None /\ Cacheable(r)
    /\ entry' = [entry EXCEPT ![req[r].profile.url] =
                    [body |-> array["cache"][req[r].cacheBody],
                     ttl |-> FALSE, status |-> req[r].status]]
    /\ Goto(r, "expire")
    /\ UNCHANGED <<array, held>>

SetFails(r) ==
    /\ At(r, "handler") /\ req[r].written # None
    /\ Cacheable(r) /\ PutCache(r)
    /\ UNCHANGED <<array, entry>>

\* EXPIRE, of whatever entry the key has by now
SetExpire(r) ==
    /\ At(r, "expire")
    /\ LET k == req[r].profile.url IN
          entry' = IF entry[k] = None THEN entry ELSE [entry EXCEPT ![k].ttl = TRUE]
    /\ PutCache(r)
    /\ UNCHANGED array

SetExpireFails(r) ==
    /\ At(r, "expire")
    /\ PutCache(r)
    /\ UNCHANGED <<array, entry>>

-----------------------------------------------------------------------------
\* Tracer after the handler

\* Nothing is left to do on an excluded path.
LogExcluded(r) ==
    /\ At(r, "log") /\ req[r].profile.excluded
    /\ Done(r, req[r].sent, None)
    /\ UNCHANGED <<array, held, entry>>

(***************************************************************************)
(* The response is logged from its buffer when it is short.  When there    *)
(* are logResponseWriters, a line about the request is put together in a   *)
(* third buffer, of the pool or a new one.  Both go back.                  *)
(***************************************************************************)
Log(r) ==
    /\ At(r, "log") /\ ~req[r].profile.excluded
    /\ array' \in {array} \cup
                  {[array EXCEPT !["tracer"][b] = Tag("log", r)] : b \in Free("tracer")}
    /\ held' = [held EXCEPT !["tracer"] = @ \ {req[r].resBody}]
    /\ Done(r, req[r].sent, IF req[r].written = "small" THEN array["tracer"][req[r].resBody]
                            ELSE None)
    /\ UNCHANGED entry

-----------------------------------------------------------------------------
\* Redis

Expired(k) ==
    /\ entry[k] # None /\ entry[k].ttl
    /\ entry' = [entry EXCEPT ![k] = None]
    /\ UNCHANGED <<req, array, held>>

-----------------------------------------------------------------------------
RestNext ==
    \/ \E r \in Request :
          \/ \E p \in Profile : Arrive(r, p)
          \/ LogBody(r) \/ ResBody(r) \/ Uncached(r) \/ Hit(r) \/ Corrupt(r) \/ Miss(r)
          \/ HandlerRead(r) \/ HandlerReturn(r) \/ HandlerPanic(r)
          \/ \E status \in {200, 404}, size \in {"small", "large"} :
                HandlerWrite(r, status, size)
          \/ Set(r) \/ SetFails(r) \/ SetExpire(r) \/ SetExpireFails(r)
          \/ LogExcluded(r) \/ Log(r)
    \/ \E k \in Url : Expired(k)

RestSpec == RestInit /\ [][RestNext]_restVars

-----------------------------------------------------------------------------
\* Properties

(***************************************************************************)
(* "reuse body" (middleware.go:83): the handler of a request reads the     *)
(* body its client sent, after Tracer has read it for the log.             *)
(***************************************************************************)
BodyIntact == \A r \in Request : req[r].read \in {None, Tag("req", r)}

(***************************************************************************)
(* The response body Tracer logs is the one that the handler, or the       *)
(* cache, answered to this very request (middleware.go:113), and the       *)
(* client got it unless the write to it failed: while the handler runs and *)
(* HTTPCache stores its answer no other request gets the buffer, whatever  *)
(* is put back after a panic.                                              *)
(***************************************************************************)
LoggedIsAnswered ==
    \A r \in Request : req[r].logged # None =>
        req[r].logged = req[r].answer /\ req[r].sent \in {req[r].answer, Tag("cut", r)}

(***************************************************************************)
(* What HTTPCache keeps under a key is the answer, below 400, of a handler *)
(* to a request for that very key (cache.go:96), however the requests that *)
(* missed the key at the same time interleave.                             *)
(***************************************************************************)
CachedIsProduced ==
    \A k \in Url : entry[k] # None /\ entry[k].body # "corrupt" =>
        /\ entry[k].status < 400
        /\ \E r \in Request : entry[k].body = Tag("res", r) /\ req[r].profile.url = k

=============================================================================
