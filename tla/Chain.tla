-------------------------------- MODULE Chain --------------------------------
(***************************************************************************)
(* A request through the middleware chain that New installs and an app        *)
(* extends: Recover, SecurityHeaders, Cache and, where it is used, Timeout,    *)
(* around a handler that may answer, fail or panic.  fasthttp reuses the        *)
(* RequestCtx of a request for the next one on the same connection, while a     *)
(* handler that timed out is still running in the goroutine of Timeout.        *)
(*                                                                         *)
(* Time is a clock that moves only while the program waits: a due timer fires  *)
(* first, and the program's own steps take no time.  A body is the request      *)
(* that made it and the time at which its handler read its data.              *)
(***************************************************************************)
EXTENDS Naturals

CONSTANTS
    Reqs,       \* requests
    Ctxs,       \* RequestCtx objects
    TTL,        \* CacheConfig.TTL
    D,          \* the duration given to Timeout
    MaxTime,    \* bound on the clock
    Nobody      \* no request, no RequestCtx

VARIABLES
    timeout,    \* the chain has a Timeout
    now,
    cache,      \* the entry of the key that the requests share, or Empty
    req,        \* per request, its step in the chain
    keyed,      \* per request, Cache handles it
    ctx,        \* per request, its RequestCtx
    user,       \* per RequestCtx, the request it belongs to
    resp,       \* per RequestCtx, its response
    began,      \* per request, when Timeout started its timer (0: none runs)
    work,       \* per request, the goroutine of Timeout
    result,     \* per request, the response of that goroutine
    crashed     \* a panic has ended the process

flowVars == <<req, ctx, user, resp>>
workVars == <<began, work, result>>
vars == <<timeout, now, cache, flowVars, keyed, workVars, crashed>>

Empty == [body |-> [by |-> Nobody, at |-> 0], expires |-> 0, full |-> FALSE]

(* A response: who made the body, the status, the headers of SecurityHeaders. *)
Response(by, at, status, headers) ==
    [body |-> [by |-> by, at |-> at], status |-> status, headers |-> headers]
Blank == Response(Nobody, 0, 200, FALSE)

Init ==
    /\ timeout \in BOOLEAN
    /\ now = 0
    /\ cache = Empty
    /\ req = [r \in Reqs |-> "new"]
    /\ keyed \in [Reqs -> BOOLEAN]
    /\ ctx = [r \in Reqs |-> Nobody]
    /\ user = [w \in Ctxs |-> Nobody]
    /\ resp = [w \in Ctxs |-> Blank]
    /\ began = [r \in Reqs |-> 0]
    /\ work = [r \in Reqs |-> "none"]
    /\ result = [r \in Reqs |-> Blank]
    /\ crashed = FALSE

Goto(r, pc) == req' = [req EXCEPT ![r] = pc]
Reply(r, response) == resp' = [resp EXCEPT ![ctx[r]] = response]

-----------------------------------------------------------------------------
(* SecurityHeaders, then Cache: the entry is used up to and including its
   last moment. *)

(* Mutant of Fresh: only eviction ends an entry. *)
FreshAlways == cache.full

Fresh == cache.full /\ now <= cache.expires

(* The request gets a RequestCtx that is free, whose response is blank. *)
Begin(r, w) ==
    /\ req[r] = "new" /\ user[w] = Nobody
    /\ ctx' = [ctx EXCEPT ![r] = w]
    /\ user' = [user EXCEPT ![w] = r]
    /\ IF keyed[r] /\ Fresh
       THEN /\ resp' = [resp EXCEPT ![w] =
                          Response(cache.body.by, cache.body.at, 200, TRUE)]
            /\ Goto(r, "send")
            /\ UNCHANGED <<began, work>>
       ELSE /\ resp' = [resp EXCEPT ![w] = Response(Nobody, 0, 200, TRUE)]
            /\ Goto(r, "handler")
            /\ began' = IF timeout THEN [began EXCEPT ![r] = now] ELSE began
            /\ work' = IF timeout THEN [work EXCEPT ![r] = "spawned"] ELSE work
    /\ UNCHANGED <<timeout, now, cache, keyed, result, crashed>>

-----------------------------------------------------------------------------
(* Without Timeout the handler runs on the RequestCtx of the request; a panic
   unwinds to Recover, which answers 500, and past the store of Cache. *)
Handle(r) ==
    /\ req[r] = "handler" /\ ~timeout
    /\ \/ Reply(r, Response(r, now, 200, TRUE)) /\ Goto(r, "store")
       \/ Reply(r, Response(r, now, 404, TRUE)) /\ Goto(r, "send")
       \/ Reply(r, Response(r, now, 500, TRUE)) /\ Goto(r, "send")   \* a panic
    /\ UNCHANGED <<timeout, now, cache, keyed, ctx, user, workVars, crashed>>

-----------------------------------------------------------------------------
(* Timeout.  The goroutine runs the handler on a copy of the request and a
   response of its own.  (It reads the remote address from the RequestCtx when it
   starts, which after a time-out may be another request's by then.) *)

WorkStart(r) ==
    /\ work[r] = "spawned"
    /\ result' = [result EXCEPT ![r] = Response(r, now, 200, FALSE)]
    /\ work' = [work EXCEPT ![r] = "running"]
    /\ UNCHANGED <<timeout, now, cache, flowVars, keyed, began, crashed>>

(* Mutant of WorkDone: the handler writes to the RequestCtx it came with. *)
WorkDoneShared(r) ==
    /\ work[r] = "running"
    /\ Reply(r, result[r])
    /\ work' = [work EXCEPT ![r] = "done"]
    /\ UNCHANGED <<timeout, now, cache, req, ctx, user, keyed, began, result,
                   crashed>>

WorkDone(r) ==
    /\ work[r] = "running"
    /\ IF req[r] = "handler"
       THEN \E status \in {200, 404} : result' = [result EXCEPT ![r].status = status]
       ELSE result' = [result EXCEPT ![r] = Blank]    \* nobody will look at it
    /\ work' = [work EXCEPT ![r] = "done"]
    /\ UNCHANGED <<timeout, now, cache, flowVars, keyed, began, crashed>>

(* No function of the goroutine recovers: the panic ends the process. *)
WorkPanic(r) ==
    /\ work[r] = "running"
    /\ crashed' = TRUE
    /\ work' = [work EXCEPT ![r] = "done"]
    /\ UNCHANGED <<timeout, now, cache, flowVars, keyed, began, result>>

(* The handler was first: its response replaces the one of the request, with
   the headers that were set before. *)
Collect(r) ==
    /\ req[r] = "handler" /\ work[r] = "done"
    /\ Reply(r, result[r])
    /\ Goto(r, IF result[r].status = 200 THEN "store" ELSE "send")
    /\ result' = [result EXCEPT ![r] = Blank]
    /\ began' = [began EXCEPT ![r] = 0]
    /\ UNCHANGED <<timeout, now, cache, ctx, user, keyed, work, crashed>>

Due(r) == req[r] = "handler" /\ timeout /\ now >= began[r] + D

(* The timer was first; the goroutine is left to itself. *)
Expire(r) ==
    /\ Due(r)
    /\ Reply(r, Response(Nobody, 0, 503, TRUE))
    /\ Goto(r, "send")
    /\ began' = [began EXCEPT ![r] = 0]
    /\ UNCHANGED <<timeout, now, cache, ctx, user, keyed, work, result, crashed>>

-----------------------------------------------------------------------------
(* Back in Cache: a 2xx answer is stored, over whatever is there. *)
Store(r) ==
    /\ req[r] = "store"
    /\ cache' = IF keyed[r]
                THEN [body |-> resp[ctx[r]].body, expires |-> now + TTL, full |-> TRUE]
                ELSE cache
    /\ Goto(r, "send")
    /\ UNCHANGED <<timeout, now, ctx, user, resp, keyed, workVars, crashed>>

(* The response goes out and the RequestCtx is free again. *)
Send(r) ==
    /\ req[r] = "send"
    /\ user' = [user EXCEPT ![ctx[r]] = Nobody]
    /\ resp' = [resp EXCEPT ![ctx[r]] = Blank]
    /\ Goto(r, "sent")
    /\ UNCHANGED <<timeout, now, cache, ctx, keyed, workVars, crashed>>

(* evict, once a minute. *)
Evict ==
    /\ cache.full /\ now > cache.expires
    /\ cache' = Empty
    /\ UNCHANGED <<timeout, now, flowVars, keyed, workVars, crashed>>

(* Time passes while handlers run and nothing is due. *)
Tick ==
    /\ now < MaxTime
    /\ \A r \in Reqs : req[r] \in {"new", "handler", "sent"} /\ ~Due(r)
                       /\ ~(req[r] = "handler" /\ work[r] = "done")
    /\ now' = now + 1
    /\ UNCHANGED <<timeout, cache, flowVars, keyed, workVars, crashed>>

Step(r) ==
    \/ \E w \in Ctxs : Begin(r, w)
    \/ Handle(r) \/ WorkStart(r) \/ WorkDone(r) \/ WorkPanic(r)
    \/ Collect(r) \/ Expire(r) \/ Store(r) \/ Send(r)

Next ==
    /\ ~crashed
    /\ Tick \/ Evict \/ \E r \in Reqs : Step(r)

-----------------------------------------------------------------------------
(* Properties. *)

(* What a client gets was made for its own request, or came from the cache to
   a request that Cache handles; the work that a time-out has left behind
   reaches nobody (timeout.go:9-16). *)
AnswersIsolated ==
    \A r \in Reqs : req[r] = "send" =>
        LET answer == resp[ctx[r]]
        IN  \/ answer.body.by = r
            \/ answer.body.by = Nobody /\ answer.status = 503
            \/ keyed[r] /\ keyed[answer.body.by] /\ answer.status = 200

(* A cached answer is older than TTL by no more than the time its handler
   took, which Timeout bounds, even when a slow handler stores over a newer
   answer (cache.go:33-41, 110-125). *)
StalenessBounded ==
    timeout => \A r \in Reqs :
        req[r] = "send" /\ resp[ctx[r]].body.by \notin {r, Nobody} =>
            now <= resp[ctx[r]].body.at + D + TTL

(* "A panic in any handler no longer terminates the process" (CHANGELOG.md). *)
PanicContained == ~crashed

(* "panic recovery and security headers are installed for you" (README.md):
   every answer has them. *)
HeadersSent == \A r \in Reqs : req[r] = "send" => resp[ctx[r]].headers

=============================================================================
