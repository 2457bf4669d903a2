--------------------------- MODULE MiddlewareProofs ---------------------------
(***************************************************************************)
(* The answers of the middleware chain, for any number of requests and       *)
(* RequestCtx objects and all durations; and what the limits of RateLimit    *)
(* are worth, for any number of goroutines, limits and windows.              *)
(*                                                                         *)
(* Of the chain neither property is inductive: both speak of an answer that  *)
(* is about to be sent, and depend on how it came there.  Owner gives each   *)
(* request in the chain a RequestCtx of its own, Maker follows the body from *)
(* the handler to the answer, and Age says how old it is on the way;         *)
(* CacheInv says both of the entry.  Of the limiters, Budget counts what the *)
(* visitors in play may still let through.                                  *)
(***************************************************************************)
EXTENDS Middleware, FiniteSetTheorems, NaturalsInduction, WellFoundedInduction, TLAPS

Bodies == [by : Reqs \cup {Nobody}, at : Nat]
Responses == [body : Bodies, status : Nat, headers : BOOLEAN]
InChain == {"handler", "store", "send"}

TypeInv ==
    /\ timeout \in BOOLEAN /\ now \in Nat
    /\ keyed \in [Reqs -> BOOLEAN]
    /\ cache \in [body : Bodies, expires : Nat, full : BOOLEAN]
    /\ req \in [Reqs -> {"new", "sent"} \cup InChain]
    /\ ctx \in [Reqs -> Ctxs \cup {Nobody}]
    /\ user \in [Ctxs -> Reqs \cup {Nobody}]
    /\ resp \in [Ctxs -> Responses]
    /\ began \in [Reqs -> Nat]
    /\ work \in [Reqs -> {"none", "spawned", "running", "done"}]
    /\ result \in [Reqs -> Responses]

(* A request in the chain has a RequestCtx, which knows it. *)
Owner(r) == req[r] \in InChain => ctx[r] \in Ctxs /\ user[ctx[r]] = r

(* A handler has a result of its own, and what is stored is the request's own
   answer. *)
Maker(r) ==
    /\ req[r] = "new" => work[r] = "none"
    /\ req[r] = "handler" /\ work[r] \in {"running", "done"} => result[r].body.by = r
    /\ req[r] = "store" => resp[ctx[r]].body.by = r

(* With Timeout, a handler has been running for no longer than D, and its body
   is no older than that when it is stored. *)
Age(r) ==
    timeout =>
        /\ req[r] = "handler" =>
            /\ began[r] <= now /\ now <= began[r] + D
            /\ work[r] \in {"running", "done"} => began[r] <= result[r].body.at
        /\ req[r] = "store" => now <= resp[ctx[r]].body.at + D

(* AnswersIsolated and StalenessBounded, of one request. *)
Answer(r) ==
    req[r] = "send" =>
        LET body == resp[ctx[r]].body
        IN  /\ \/ body.by = r
               \/ body.by = Nobody /\ resp[ctx[r]].status = 503
               \/ keyed[r] /\ keyed[body.by] /\ resp[ctx[r]].status = 200
            /\ timeout /\ body.by \notin {r, Nobody} => now <= body.at + D + TTL

Fine(r) == Owner(r) /\ Maker(r) /\ Age(r) /\ Answer(r)

(* The entry is an answer to a request that Cache handles, and expires by TTL
   after it was stored. *)
CacheInv ==
    cache.full =>
        /\ cache.body.by \in Reqs /\ keyed[cache.body.by]
        /\ timeout => cache.expires <= cache.body.at + D + TTL

Inv == TypeInv /\ CacheInv /\ \A r \in Reqs : Fine(r)

-----------------------------------------------------------------------------
(* A request is as it was when nothing of its own has changed. *)
LEMMA Bystander ==
    ASSUME NEW q \in Reqs, Fine(q), UNCHANGED <<timeout, now, keyed>>,
           req'[q] = req[q], ctx'[q] = ctx[q], work'[q] = work[q],
           began'[q] = began[q], result'[q] = result[q],
           req[q] \in InChain =>
                user'[ctx[q]] = user[ctx[q]] /\ resp'[ctx[q]] = resp[ctx[q]]
    PROVE  Fine(q)'
BY DEF Fine, Owner, Maker, Age, Answer, InChain

(* No two requests in the chain have one RequestCtx: what is written to one's
   changes no other's. *)
LEMMA OwnContext ==
    ASSUME Inv, NEW r \in Reqs, req[r] \in InChain, NEW q \in Reqs \ {r},
           req[q] \in InChain
    PROVE  ctx[r] \in Ctxs /\ ctx[q] \in Ctxs /\ ctx[q] # ctx[r]
BY DEF Inv, Fine, Owner

(* A step of request r that writes to its own RequestCtx, if to any. *)
LEMMA StepOfOne ==
    ASSUME Inv, NEW r \in Reqs, req[r] \in InChain,
           UNCHANGED <<timeout, now, keyed, ctx>>,
           NEW pc, req' = [req EXCEPT ![r] = pc],
           work' = work \/ (\E p : work' = [work EXCEPT ![r] = p]),
           began' = began \/ (\E t : began' = [began EXCEPT ![r] = t]),
           result' = result \/ (\E a : result' = [result EXCEPT ![r] = a]),
           resp' = resp \/ (\E a : resp' = [resp EXCEPT ![ctx[r]] = a]),
           user' = user \/ (\E u : user' = [user EXCEPT ![ctx[r]] = u])
    PROVE  \A q \in Reqs \ {r} : Fine(q)'
<1> SUFFICES ASSUME NEW q \in Reqs \ {r} PROVE Fine(q)'
    OBVIOUS
<1>1. req'[q] = req[q] /\ ctx'[q] = ctx[q]
    BY DEF Inv, TypeInv
<1>2. work'[q] = work[q] /\ began'[q] = began[q] /\ result'[q] = result[q]
    BY DEF Inv, TypeInv
<1>3. req[q] \in InChain => user'[ctx[q]] = user[ctx[q]] /\ resp'[ctx[q]] = resp[ctx[q]]
    BY OwnContext DEF Inv, TypeInv
<1> QED
    BY <1>1, <1>2, <1>3, Bystander DEF Inv

-----------------------------------------------------------------------------
(* The steps of a request, one by one. *)

(* Begin: from the cache, where the entry is fresh, or on to the handler. *)
LEMMA BeginInv ==
    ASSUME Inv, NEW r \in Reqs, NEW w \in Ctxs, Flow!Begin(r, w) PROVE Inv'
<1>1. /\ req[r] = "new" /\ user[w] = Nobody
      /\ ctx' = [ctx EXCEPT ![r] = w] /\ user' = [user EXCEPT ![w] = r]
      /\ UNCHANGED <<timeout, now, cache, keyed, result>>
    BY DEF Flow!Begin
<1>2. PICK a \in Responses : resp' = [resp EXCEPT ![w] = a] /\
        \/ /\ keyed[r] /\ cache.full /\ now <= cache.expires
           /\ a.body.by = cache.body.by /\ a.body.at = cache.body.at /\ a.status = 200
           /\ req' = [req EXCEPT ![r] = "send"] /\ UNCHANGED <<began, work>>
        \/ /\ req' = [req EXCEPT ![r] = "handler"]
           /\ began' = (IF timeout THEN [began EXCEPT ![r] = now] ELSE began)
           /\ work' = (IF timeout THEN [work EXCEPT ![r] = "spawned"] ELSE work)
    <2>1. CASE keyed[r] /\ Flow!Fresh
        <3>1. cache.body.by \in Reqs \cup {Nobody} /\ cache.body.at \in Nat
            BY DEF Inv, TypeInv, Bodies
        <3> DEFINE hit == Flow!Response(cache.body.by, cache.body.at, 200, TRUE)
        <3>2. /\ hit \in Responses /\ hit.status = 200
              /\ hit.body.by = cache.body.by /\ hit.body.at = cache.body.at
            BY <3>1 DEF Flow!Response, Responses, Bodies
        <3>3. /\ resp' = [resp EXCEPT ![w] = hit] /\ req' = [req EXCEPT ![r] = "send"]
              /\ keyed[r] /\ cache.full /\ now <= cache.expires
              /\ UNCHANGED <<began, work>>
            BY <2>1 DEF Flow!Begin, Flow!Fresh, Flow!Goto
        <3> HIDE DEF hit
        <3> QED
            BY <3>2, <3>3
    <2>2. CASE ~(keyed[r] /\ Flow!Fresh)
        <3> DEFINE none == Flow!Response(Nobody, 0, 200, TRUE)
        <3>1. none \in Responses
            BY DEF Flow!Response, Responses, Bodies
        <3>2. /\ resp' = [resp EXCEPT ![w] = none] /\ req' = [req EXCEPT ![r] = "handler"]
              /\ began' = (IF timeout THEN [began EXCEPT ![r] = now] ELSE began)
              /\ work' = (IF timeout THEN [work EXCEPT ![r] = "spawned"] ELSE work)
            BY <2>2 DEF Flow!Begin, Flow!Goto
        <3> HIDE DEF none
        <3> QED
            BY <3>1, <3>2
    <2> QED
        BY <2>1, <2>2
<1>3. TypeInv'
    BY <1>1, <1>2 DEF Inv, TypeInv, InChain
<1>4. CacheInv'
    BY <1>1 DEF Inv, CacheInv
<1>5. ASSUME NEW q \in Reqs \ {r} PROVE Fine(q)'
    <2>1. req[q] \in InChain => ctx[q] \in Ctxs /\ ctx[q] # w
        BY <1>1, MiddlewareAssumption DEF Inv, Fine, Owner, MiddlewareAssumption
    <2>2. /\ req'[q] = req[q] /\ ctx'[q] = ctx[q] /\ work'[q] = work[q]
          /\ began'[q] = began[q] /\ result'[q] = result[q]
        BY <1>1, <1>2 DEF Inv, TypeInv
    <2>3. req[q] \in InChain =>
                user'[ctx[q]] = user[ctx[q]] /\ resp'[ctx[q]] = resp[ctx[q]]
        BY <1>1, <1>2, <2>1 DEF Inv, TypeInv
    <2> QED
        BY <1>1, <2>2, <2>3, Bystander DEF Inv
<1>6. ctx'[r] = w /\ user'[w] = r /\ resp'[w] = a /\ work[r] = "none"
    BY <1>1, <1>2 DEF Inv, TypeInv, Fine, Maker
<1>7. Owner(r)'
    BY <1>6 DEF Owner
<1>8. Maker(r)' /\ Age(r)'
    BY <1>1, <1>2, <1>6, MiddlewareAssumption
    DEF Inv, TypeInv, Maker, Age, MiddlewareAssumption
<1>9. Answer(r)'
    <2>1. CASE req'[r] = "send"
        <3>1. /\ keyed[r] /\ cache.full /\ now <= cache.expires
              /\ a.body.by = cache.body.by /\ a.body.at = cache.body.at /\ a.status = 200
            BY <1>2, <2>1 DEF Inv, TypeInv
        <3>2. cache.expires \in Nat /\ cache.body.at \in Nat /\ now \in Nat
            BY DEF Inv, TypeInv, Bodies
        <3>3. timeout => now <= a.body.at + D + TTL
            BY <3>1, <3>2, MiddlewareAssumption DEF Inv, CacheInv, MiddlewareAssumption
        <3>4. keyed[a.body.by]
            BY <3>1 DEF Inv, CacheInv
        <3> QED
            BY <1>1, <1>6, <3>1, <3>3, <3>4 DEF Answer
    <2>2. CASE req'[r] # "send"
        BY <2>2 DEF Answer
    <2> QED
        BY <2>1, <2>2
<1> QED
    BY <1>3, <1>4, <1>5, <1>7, <1>8, <1>9 DEF Inv, Fine

(* Handle: the answer is the request's own. *)
LEMMA HandleInv ==
    ASSUME Inv, NEW r \in Reqs, Flow!Handle(r) PROVE Inv'
<1>1. /\ req[r] = "handler" /\ ~timeout /\ now \in Nat
      /\ UNCHANGED <<timeout, now, cache, keyed, ctx, user, began, work, result>>
    BY DEF Flow!Handle, Flow!workVars, Inv, TypeInv
<1>2. PICK a \in Responses, pc \in {"store", "send"} :
        /\ a.body.by = r /\ resp' = [resp EXCEPT ![ctx[r]] = a]
        /\ req' = [req EXCEPT ![r] = pc]
    <2>1. PICK status \in {200, 404, 500}, pc \in {"store", "send"} :
            /\ resp' = [resp EXCEPT ![ctx[r]] = Flow!Response(r, now, status, TRUE)]
            /\ req' = [req EXCEPT ![r] = pc]
        <3>1. \E status \in {200, 404, 500}, pc \in {"store", "send"} :
                 Flow!Reply(r, Flow!Response(r, now, status, TRUE)) /\ Flow!Goto(r, pc)
            <4> DEFINE Done(status, pc) ==
                    Flow!Reply(r, Flow!Response(r, now, status, TRUE)) /\ Flow!Goto(r, pc)
            <4>1. Done(200, "store") \/ Done(404, "send") \/ Done(500, "send")
                BY DEF Flow!Handle
            <4> HIDE DEF Done
            <4>2. \E status \in {200, 404, 500}, pc \in {"store", "send"} : Done(status, pc)
                BY <4>1
            <4> QED
                BY <4>2 DEF Done
        <3> QED
            BY <3>1 DEF Flow!Reply, Flow!Goto
    <2> DEFINE own == Flow!Response(r, now, status, TRUE)
    <2>2. own \in Responses /\ own.body.by = r
        BY <1>1 DEF Flow!Response, Responses, Bodies
    <2>3. resp' = [resp EXCEPT ![ctx[r]] = own]
        BY <2>1
    <2> HIDE DEF own
    <2> QED
        BY <2>1, <2>2, <2>3
<1>3. ctx[r] \in Ctxs /\ user[ctx[r]] = r
    BY <1>1 DEF Inv, Fine, Owner, InChain
<1>4. TypeInv' /\ CacheInv'
    BY <1>1, <1>2, <1>3 DEF Inv, TypeInv, CacheInv, InChain
<1>5. \A q \in Reqs \ {r} : Fine(q)'
    BY <1>1, <1>2, StepOfOne DEF InChain
<1>6. resp'[ctx[r]] = a /\ req'[r] = pc
    BY <1>2, <1>3 DEF Inv, TypeInv
<1>7. Fine(r)'
    BY <1>1, <1>2, <1>3, <1>6 DEF Fine, Owner, Maker, Age, Answer
<1> QED
    BY <1>4, <1>5, <1>7 DEF Inv

(* The goroutine of Timeout: it writes its own result only. *)
LEMMA WorkInv ==
    ASSUME Inv, NEW r \in Reqs,
           Flow!WorkStart(r) \/ Flow!WorkDone(r) \/ Flow!WorkPanic(r)
    PROVE  Inv'
<1>1. UNCHANGED <<timeout, now, cache, req, ctx, user, resp, keyed, began>>
    BY DEF Flow!WorkStart, Flow!WorkDone, Flow!WorkPanic, Flow!flowVars
<1>2. PICK a \in Responses, p \in {"running", "done"} :
        /\ work' = [work EXCEPT ![r] = p] /\ result' = [result EXCEPT ![r] = a]
        /\ req[r] # "new"
        /\ req[r] = "handler" =>
            /\ a.body.by = r
            /\ timeout => began[r] <= a.body.at
    <2>0. /\ result[r] \in Responses /\ result = [result EXCEPT ![r] = result[r]]
          /\ req[r] # "new" /\ now \in Nat
        BY DEF Flow!WorkStart, Flow!WorkDone, Flow!WorkPanic, Inv, TypeInv, Fine, Maker
    <2>1. CASE Flow!WorkStart(r)
        <3> DEFINE own == Flow!Response(r, now, 200, FALSE)
        <3>1. own \in Responses /\ own.body.by = r /\ own.body.at = now
            BY <2>0 DEF Flow!Response, Responses, Bodies
        <3>2. work' = [work EXCEPT ![r] = "running"] /\ result' = [result EXCEPT ![r] = own]
            BY <2>1 DEF Flow!WorkStart
        <3>3. req[r] = "handler" /\ timeout => began[r] <= now
            BY DEF Inv, Fine, Age
        <3> HIDE DEF own
        <3> QED
            BY <2>0, <3>1, <3>2, <3>3
    <2>2. CASE Flow!WorkDone(r) /\ req[r] = "handler"
        <3>1. PICK status \in {200, 404} : result' = [result EXCEPT ![r].status = status]
            BY <2>2 DEF Flow!WorkDone
        <3> DEFINE own == [result[r] EXCEPT !.status = status]
        <3>2. own \in Responses /\ own.body = result[r].body
            BY <2>0 DEF Responses
        <3>3. result' = [result EXCEPT ![r] = own]
            BY <3>1
        <3>4. work[r] = "running" /\ work' = [work EXCEPT ![r] = "done"]
            BY <2>2 DEF Flow!WorkDone
        <3>5. result[r].body.by = r /\ (timeout => began[r] <= result[r].body.at)
            BY <2>2, <3>4 DEF Inv, Fine, Maker, Age
        <3>6. own.body.by = r /\ (timeout => began[r] <= own.body.at)
            BY <3>2, <3>5
        <3> HIDE DEF own
        <3> QED
            BY <2>0, <3>2, <3>3, <3>4, <3>6
    <2>3. CASE Flow!WorkDone(r) /\ req[r] # "handler"
        <3>1. Flow!Blank \in Responses
            BY DEF Flow!Blank, Flow!Response, Responses, Bodies
        <3>2. /\ work' = [work EXCEPT ![r] = "done"]
              /\ result' = [result EXCEPT ![r] = Flow!Blank]
            BY <2>3 DEF Flow!WorkDone
        <3> QED
            BY <2>0, <2>3, <3>1, <3>2
    <2>4. CASE Flow!WorkPanic(r)
        <3>1. work[r] = "running" /\ work' = [work EXCEPT ![r] = "done"] /\ result' = result
            BY <2>4 DEF Flow!WorkPanic
        <3>2. req[r] = "handler" =>
                 result[r].body.by = r /\ (timeout => began[r] <= result[r].body.at)
            BY <3>1 DEF Inv, Fine, Maker, Age
        <3> QED
            BY <2>0, <3>1, <3>2
    <2> QED
        BY <2>1, <2>2, <2>3, <2>4
<1>3. TypeInv' /\ CacheInv'
    BY <1>1, <1>2 DEF Inv, TypeInv, CacheInv
<1>4. ASSUME NEW q \in Reqs \ {r} PROVE Fine(q)'
    <2>1. work'[q] = work[q] /\ result'[q] = result[q]
        BY <1>2 DEF Inv, TypeInv
    <2> QED
        BY <1>1, <2>1, Bystander DEF Inv
<1>5. Fine(r)'
    <2>1. work'[r] = p /\ result'[r] = a
        BY <1>2 DEF Inv, TypeInv
    <2> QED
        BY <1>1, <1>2, <2>1 DEF Inv, Fine, Owner, Maker, Age, Answer
<1> QED
    BY <1>3, <1>4, <1>5 DEF Inv

(* Collect: the result of the goroutine is the request's own, and was begun
   within D. *)
LEMMA CollectInv ==
    ASSUME Inv, NEW r \in Reqs, Flow!Collect(r) PROVE Inv'
<1> DEFINE pc == IF result[r].status = 200 THEN "store" ELSE "send"
<1>1. /\ req[r] = "handler" /\ work[r] = "done"
      /\ UNCHANGED <<timeout, now, cache, ctx, user, keyed, work>>
      /\ resp' = [resp EXCEPT ![ctx[r]] = result[r]]
      /\ req' = [req EXCEPT ![r] = pc]
      /\ result' = [result EXCEPT ![r] = Flow!Blank]
      /\ began' = [began EXCEPT ![r] = 0]
    BY DEF Flow!Collect, Flow!Reply, Flow!Goto
<1>2. result[r] \in Responses /\ Flow!Blank \in Responses /\ pc \in {"store", "send"}
    BY DEF Inv, TypeInv, Flow!Blank, Flow!Response, Responses, Bodies
<1> HIDE DEF pc
<1>3. ctx[r] \in Ctxs /\ user[ctx[r]] = r
    BY <1>1 DEF Inv, Fine, Owner, InChain
<1>4. TypeInv' /\ CacheInv'
    BY <1>1, <1>2, <1>3 DEF Inv, TypeInv, CacheInv, InChain
<1>5. \A q \in Reqs \ {r} : Fine(q)'
    BY <1>1, StepOfOne DEF InChain
<1>6. resp'[ctx[r]] = result[r] /\ req'[r] = pc
    BY <1>1, <1>3 DEF Inv, TypeInv
<1>7. result[r].body.by = r
    BY <1>1 DEF Inv, Fine, Maker
<1>8. timeout => now <= result[r].body.at + D
    <2>1. /\ result[r].body.at \in Nat /\ began[r] \in Nat /\ now \in Nat /\ D \in Nat
        BY <1>2, MiddlewareAssumption DEF Responses, Bodies, Inv, TypeInv, MiddlewareAssumption
    <2>2. timeout => began[r] <= result[r].body.at /\ now <= began[r] + D
        BY <1>1 DEF Inv, Fine, Age
    <2> QED
        BY <2>1, <2>2
<1>9. Fine(r)'
    BY <1>1, <1>2, <1>3, <1>6, <1>7, <1>8 DEF Fine, Owner, Maker, Age, Answer
<1> QED
    BY <1>4, <1>5, <1>9 DEF Inv

(* Expire: the answer is nobody's. *)
LEMMA ExpireInv ==
    ASSUME Inv, NEW r \in Reqs, Flow!Expire(r) PROVE Inv'
<1> DEFINE a == Flow!Response(Nobody, 0, 503, TRUE)
<1>1. /\ req[r] = "handler"
      /\ UNCHANGED <<timeout, now, cache, ctx, user, keyed, work, result>>
      /\ resp' = [resp EXCEPT ![ctx[r]] = a]
      /\ req' = [req EXCEPT ![r] = "send"]
      /\ began' = [began EXCEPT ![r] = 0]
    BY DEF Flow!Expire, Flow!Due, Flow!Reply, Flow!Goto
<1>2. a \in Responses /\ a.body.by = Nobody /\ a.status = 503
    BY DEF Flow!Response, Responses, Bodies
<1> HIDE DEF a
<1>3. ctx[r] \in Ctxs /\ user[ctx[r]] = r
    BY <1>1 DEF Inv, Fine, Owner, InChain
<1>4. TypeInv' /\ CacheInv'
    BY <1>1, <1>2, <1>3 DEF Inv, TypeInv, CacheInv, InChain
<1>5. \A q \in Reqs \ {r} : Fine(q)'
    BY <1>1, StepOfOne DEF InChain
<1>6. resp'[ctx[r]] = a /\ req'[r] = "send"
    BY <1>1, <1>3 DEF Inv, TypeInv
<1>7. Fine(r)'
    BY <1>1, <1>2, <1>3, <1>6 DEF Fine, Owner, Maker, Age, Answer
<1> QED
    BY <1>4, <1>5, <1>7 DEF Inv

(* Store: the entry is the request's own answer, whatever was there. *)
LEMMA StoreInv ==
    ASSUME Inv, NEW r \in Reqs, Flow!Store(r) PROVE Inv'
<1>1. /\ req[r] = "store" /\ req' = [req EXCEPT ![r] = "send"]
      /\ UNCHANGED <<timeout, now, ctx, user, resp, keyed, began, work, result>>
    BY DEF Flow!Store, Flow!Goto, Flow!workVars
<1>2. ctx[r] \in Ctxs /\ user[ctx[r]] = r /\ resp[ctx[r]].body.by = r
    BY <1>1 DEF Inv, Fine, Owner, Maker, InChain
<1>3. /\ resp[ctx[r]].body \in Bodies /\ resp[ctx[r]].body.at \in Nat
      /\ now \in Nat /\ TTL \in Nat /\ D \in Nat
    BY <1>2, MiddlewareAssumption
    DEF Inv, TypeInv, Responses, Bodies, MiddlewareAssumption
<1>4. TypeInv'
    <2>1. cache' \in [body : Bodies, expires : Nat, full : BOOLEAN]
        BY <1>3 DEF Flow!Store, Inv, TypeInv
    <2> QED
        BY <1>1, <2>1 DEF Inv, TypeInv, InChain
<1>5. CacheInv'
    <2>1. CASE keyed[r]
        <3>1. cache' = [body |-> resp[ctx[r]].body, expires |-> now + TTL, full |-> TRUE]
            BY <2>1 DEF Flow!Store
        <3>2. timeout => now <= resp[ctx[r]].body.at + D
            BY <1>1 DEF Inv, Fine, Age
        <3>3. timeout => now + TTL <= resp[ctx[r]].body.at + D + TTL
            BY <1>3, <3>2
        <3> QED
            BY <1>1, <1>2, <2>1, <3>1, <3>3 DEF CacheInv
    <2>2. CASE ~keyed[r]
        BY <1>1, <2>2 DEF Flow!Store, Inv, CacheInv
    <2> QED
        BY <2>1, <2>2
<1>6. \A q \in Reqs \ {r} : Fine(q)'
    BY <1>1, StepOfOne DEF InChain
<1>7. Fine(r)'
    <2>1. req'[r] = "send"
        BY <1>1 DEF Inv, TypeInv
    <2> QED
        BY <1>1, <1>2, <2>1 DEF Fine, Owner, Maker, Age, Answer
<1> QED
    BY <1>4, <1>5, <1>6, <1>7 DEF Inv

(* Send: the RequestCtx is free again, and no other request's. *)
LEMMA SendInv ==
    ASSUME Inv, NEW r \in Reqs, Flow!Send(r) PROVE Inv'
<1>1. /\ req[r] = "send" /\ req' = [req EXCEPT ![r] = "sent"]
      /\ user' = [user EXCEPT ![ctx[r]] = Nobody]
      /\ resp' = [resp EXCEPT ![ctx[r]] = Flow!Blank]
      /\ UNCHANGED <<timeout, now, cache, ctx, keyed, began, work, result>>
    BY DEF Flow!Send, Flow!Goto, Flow!workVars
<1>2. Flow!Blank \in Responses
    BY DEF Flow!Blank, Flow!Response, Responses, Bodies
<1>3. TypeInv' /\ CacheInv'
    BY <1>1, <1>2 DEF Inv, TypeInv, CacheInv, InChain
<1>4. \A q \in Reqs \ {r} : Fine(q)'
    BY <1>1, StepOfOne DEF InChain
<1>5. req'[r] = "sent"
    BY <1>1 DEF Inv, TypeInv
<1>6. Fine(r)'
    BY <1>5 DEF Fine, Owner, Maker, Age, Answer, InChain
<1> QED
    BY <1>3, <1>4, <1>6 DEF Inv

(* Evict empties the entry; it changes no request. *)
LEMMA EvictInv == ASSUME Inv, Flow!Evict PROVE Inv'
<1>1. /\ UNCHANGED <<timeout, now, keyed, req, ctx, user, resp, began, work, result>>
      /\ cache' = Flow!Empty
    BY DEF Flow!Evict, Flow!flowVars, Flow!workVars
<1>2. TypeInv' /\ CacheInv'
    BY <1>1 DEF Inv, TypeInv, CacheInv, Flow!Empty, Bodies
<1>3. \A q \in Reqs : Fine(q)'
    BY <1>1, Bystander DEF Inv
<1> QED
    BY <1>2, <1>3 DEF Inv

(* Tick: no request is past its handler, and no timer is due. *)
LEMMA TickInv == ASSUME Inv, Flow!Tick PROVE Inv'
<1>1. /\ UNCHANGED <<timeout, cache, keyed, req, ctx, user, resp, began, work, result>>
      /\ now' = now + 1
      /\ \A r \in Reqs : req[r] \in {"new", "handler", "sent"} /\ ~Flow!Due(r)
    BY DEF Flow!Tick, Flow!flowVars, Flow!workVars
<1>2. TypeInv' /\ CacheInv'
    BY <1>1 DEF Inv, TypeInv, CacheInv
<1>3. ASSUME NEW r \in Reqs PROVE Fine(r)'
    <2>1. Owner(r)' /\ Maker(r)' /\ Answer(r)'
        BY <1>1 DEF Inv, Fine, Owner, Maker, Answer
    <2>2. Age(r)'
        <3>1. now \in Nat /\ began[r] \in Nat /\ D \in Nat
            BY MiddlewareAssumption DEF Inv, TypeInv, MiddlewareAssumption
        <3>2. timeout /\ req[r] = "handler" => ~(now >= began[r] + D)
            BY <1>1 DEF Flow!Due
        <3>3. timeout /\ req[r] = "handler" => began[r] <= now + 1 /\ now + 1 <= began[r] + D
            BY <3>1, <3>2 DEF Inv, Fine, Age
        <3>4. req[r] # "store"
            BY <1>1
        <3> QED
            BY <1>1, <3>3, <3>4 DEF Inv, Fine, Age
    <2> QED
        BY <2>1, <2>2 DEF Fine
<1> QED
    BY <1>2, <1>3 DEF Inv

-----------------------------------------------------------------------------
LEMMA InitInv == Init => Inv
<1> SUFFICES ASSUME Init PROVE Inv
    OBVIOUS
<1> USE DEF Init, Flow!Init
<1>1. Flow!Blank \in Responses /\ Flow!Empty.full = FALSE
    BY DEF Flow!Blank, Flow!Response, Responses, Bodies, Flow!Empty
<1>2. TypeInv
    BY <1>1 DEF TypeInv, Flow!Empty, Bodies, InChain
<1>3. CacheInv
    BY <1>1 DEF CacheInv
<1>4. \A r \in Reqs : Fine(r)
    BY DEF Fine, Owner, Maker, Age, Answer, InChain
<1> QED
    BY <1>2, <1>3, <1>4 DEF Inv

all == <<part, ofLimiter, ofChain>>

LEMMA NextInv == Inv /\ [Next]_all => Inv'
<1> SUFFICES ASSUME Inv, [Next]_all PROVE Inv'
    OBVIOUS
<1>1. CASE UNCHANGED ofChain
    <2>1. UNCHANGED <<timeout, now, cache, keyed, req, ctx, user, resp, began, work, result>>
        BY <1>1 DEF ofChain
    <2>2. TypeInv' /\ CacheInv'
        BY <2>1 DEF Inv, TypeInv, CacheInv
    <2>3. \A q \in Reqs : Fine(q)'
        BY <2>1, Bystander DEF Inv
    <2> QED
        BY <2>2, <2>3 DEF Inv
<1>2. CASE Flow!Next
    BY <1>2, BeginInv, HandleInv, WorkInv, CollectInv, ExpireInv, StoreInv, SendInv,
       EvictInv, TickInv
    DEF Flow!Next, Flow!Step
<1> QED
    BY <1>1, <1>2 DEF Next, all

(* AnswersIsolated holds for any number of requests: nobody gets what was made
   for another, but through the cache, and no abandoned handler writes into an
   answer (timeout.go:9-16, cache.go:110-125). *)
THEOREM AnswersCorrect == Spec => []AnswersIsolated
<1>1. Inv => AnswersIsolated
    BY DEF Inv, Fine, Answer, AnswersIsolated, Flow!AnswersIsolated
<1> QED
    BY <1>1, InitInv, NextInv, PTL DEF Spec, all

(* StalenessBounded holds for all durations: a cached answer is never older
   than TTL and the time Timeout allows its handler (cache.go:33-41, 110-125). *)
THEOREM StalenessCorrect == Spec => []StalenessBounded
<1>1. Inv => StalenessBounded
    BY DEF Inv, Fine, Answer, StalenessBounded, Flow!StalenessBounded
<1> QED
    BY <1>1, InitInv, NextInv, PTL DEF Spec, all

-----------------------------------------------------------------------------
(* RateLimit.  A stretch that began t ticks ago has Span - 1 - t ticks to come.
   What a limiter has let through in it and may yet let through in it is
   bounded; the second part is spelled out as a set of tokens, one for each
   request that a visitor in use may still let through. *)

Span == IF Window < Window2 THEN Window ELSE Window2

(* What is left of the visitor's window, and the whole limit if the window ends
   within the stretch.  Windows last longer than a stretch: there is no third. *)
Left(l, v) ==
    IF hits[v] < Limiter!LimitOf(l) THEN Limiter!LimitOf(l) - hits[v] ELSE 0
Allowance(l, t, v) ==
    IF v = 0 THEN Limiter!LimitOf(l)
    ELSE IF resetAt[v] < 0 THEN Limiter!LimitOf(l)
    ELSE Left(l, v) + (IF resetAt[v] + t < Span - 1 THEN Limiter!LimitOf(l) ELSE 0)

(* The visitors that requests hold and the map has lost. *)
Strays == {v \in Limiter!Visitors : Limiter!Held(v) /\ v # current}
InPlay == {current} \cup Strays
Tokens(l, t) ==
    {p \in InPlay \X (1..(2 * Limiter!LimitOf(l))) : p[2] <= Allowance(l, t, p[1])}

Calls == [limiter : 0..2, visitor : {0} \cup Limiter!Visitors]

LimiterType ==
    /\ current \in {0} \cup Limiter!Visitors
    /\ hits \in [Limiter!Visitors -> Nat]
    /\ resetAt \in [Limiter!Visitors -> Int]
    /\ goroutine \in [Goroutines -> Calls]
    /\ \A g \in Goroutines :
          goroutine[g] # Limiter!Idle =>
              goroutine[g].limiter \in 1..2 /\ goroutine[g].visitor \in Limiter!Visitors
    /\ passes \in [1..2 -> [Limiter!Recent -> Nat]]
    /\ dropped \in Nat

StraysDropped == Cardinality(Strays) <= dropped

Bound(l) == 2 * (1 + dropped) * Limiter!LimitOf(l)

Budget ==
    \A l \in 1..2, t \in Limiter!Recent :
        passes[l][t] + Cardinality(Tokens(l, t)) <= Bound(l)

LimiterInv == LimiterType /\ StraysDropped /\ Budget

(* The constants. *)
LEMMA LimiterFacts ==
    /\ Span \in Nat \ {0} /\ Limiter!Recent = 0..(Span - 1) /\ Limiter!Limiters = 1..2
    /\ \A l \in 1..2 : /\ Limiter!LimitOf(l) \in Nat
                       /\ Limiter!WindowOf(l) \in Nat /\ Limiter!WindowOf(l) >= Span
                       /\ Limiter!AllOver \in Nat /\ Limiter!AllOver > Limiter!LimitOf(l)
    /\ Cardinality(Goroutines) \in Nat
    /\ Limiter!Visitors = 1..(Cardinality(Goroutines) + 1) /\ IsFiniteSet(Limiter!Visitors)
<1> USE MiddlewareAssumption
<1>1. Limiter!Min({Window, Window2}) = Span
    BY DEF Limiter!Min, Span
<1>2. Limiter!Max({Limit, Limit2}) = IF Limit < Limit2 THEN Limit2 ELSE Limit
    BY DEF Limiter!Max
<1>3. Cardinality(Goroutines) \in Nat
    BY FS_CardinalityType
<1>4. IsFiniteSet(1..(Cardinality(Goroutines) + 1))
    BY <1>3, FS_Interval
<1>5. Span \in Nat \ {0} /\ Limiter!Recent = 0..(Span - 1) /\ Limiter!Limiters = 1..2
    BY <1>1 DEF Span, Limiter!Recent, Limiter!Limiters
<1>6. ASSUME NEW l \in 1..2
      PROVE  /\ Limiter!LimitOf(l) \in Nat
             /\ Limiter!WindowOf(l) \in Nat /\ Limiter!WindowOf(l) >= Span
             /\ Limiter!AllOver \in Nat /\ Limiter!AllOver > Limiter!LimitOf(l)
    BY <1>2 DEF Span, Limiter!LimitOf, Limiter!WindowOf, Limiter!AllOver
<1> QED
    BY <1>3, <1>4, <1>5, <1>6 DEF Limiter!Visitors, Limiter!Cardinality, Cardinality

(* Finitely many visitors are in use, and finitely many tokens are out: c stands
   for current, S for the strays and T for the tokens. *)
LEMMA TokenSets ==
    ASSUME NEW c, NEW S \in SUBSET Limiter!Visitors, c \notin S, NEW l \in 1..2,
           NEW T \in SUBSET (({c} \cup S) \X (1..(2 * Limiter!LimitOf(l))))
    PROVE  /\ IsFiniteSet(S) /\ Cardinality(S) \in Nat
           /\ IsFiniteSet(T) /\ Cardinality(T) \in Nat
           /\ Cardinality(T) <= (Cardinality(S) + 1) * (2 * Limiter!LimitOf(l))
<1>1. IsFiniteSet(S) /\ Cardinality(S) \in Nat
    BY LimiterFacts, FS_Subset, FS_CardinalityType
<1> DEFINE N == 2 * Limiter!LimitOf(l)
           I == 1..N
           P == S \cup {c}
<1>2. N \in Nat /\ {c} \cup S = P
    BY LimiterFacts
<1>3. IsFiniteSet(P) /\ Cardinality(P) = Cardinality(S) + 1
    BY <1>1, FS_AddElement
<1>4. IsFiniteSet(I) /\ Cardinality(I) = N
    BY <1>2, FS_Interval
<1>5. T \in SUBSET (P \X I)
    BY <1>2
<1> HIDE DEF P, I, N
<1>6. IsFiniteSet(P \X I) /\ Cardinality(P \X I) = Cardinality(P) * Cardinality(I)
    BY <1>3, <1>4, FS_Product
<1>7. IsFiniteSet(T) /\ Cardinality(T) <= Cardinality(P \X I)
    BY <1>5, <1>6, FS_Subset
<1>8. Cardinality(T) \in Nat
    BY <1>7, FS_CardinalityType
<1> QED
    BY <1>1, <1>3, <1>4, <1>6, <1>7, <1>8 DEF N

LEMMA Sizes ==
    ASSUME NEW l \in 1..2, NEW t \in Limiter!Recent
    PROVE  /\ IsFiniteSet(Strays) /\ Cardinality(Strays) \in Nat
           /\ IsFiniteSet(Tokens(l, t)) /\ Cardinality(Tokens(l, t)) \in Nat
           /\ IsFiniteSet(Strays') /\ Cardinality(Strays') \in Nat
           /\ IsFiniteSet(Tokens(l, t)') /\ Cardinality(Tokens(l, t)') \in Nat
           /\ Cardinality(Tokens(l, t)')
                 <= (Cardinality(Strays') + 1) * (2 * Limiter!LimitOf(l))
<1>1. /\ Strays \in SUBSET Limiter!Visitors /\ current \notin Strays
      /\ Tokens(l, t) \in SUBSET (({current} \cup Strays) \X (1..(2 * Limiter!LimitOf(l))))
    BY DEF Strays, Tokens, InPlay
<1>2. /\ Strays' \in SUBSET Limiter!Visitors /\ current' \notin Strays'
      /\ Tokens(l, t)' \in SUBSET (({current'} \cup Strays') \X (1..(2 * Limiter!LimitOf(l))))
    BY DEF Strays, Tokens, InPlay
<1>3. /\ IsFiniteSet(Strays) /\ Cardinality(Strays) \in Nat
      /\ IsFiniteSet(Tokens(l, t)) /\ Cardinality(Tokens(l, t)) \in Nat
    BY <1>1, TokenSets
<1>4. /\ IsFiniteSet(Strays') /\ Cardinality(Strays') \in Nat
      /\ IsFiniteSet(Tokens(l, t)') /\ Cardinality(Tokens(l, t)') \in Nat
      /\ Cardinality(Tokens(l, t)') <= (Cardinality(Strays') + 1) * (2 * Limiter!LimitOf(l))
    BY <1>2, TokenSets
<1> QED
    BY <1>3, <1>4

(* No token comes in when no visitor comes into use and no allowance grows. *)
LEMMA TokensShrink ==
    ASSUME NEW l \in 1..2, NEW t \in Limiter!Recent, NEW s \in Limiter!Recent,
           InPlay' \subseteq InPlay,
           \A v \in InPlay' : \A j \in Nat :
               j <= Allowance(l, s, v)' => j <= Allowance(l, t, v)
    PROVE  /\ Tokens(l, s)' \subseteq Tokens(l, t)
           /\ Cardinality(Tokens(l, s)') <= Cardinality(Tokens(l, t))
<1>1. Tokens(l, s)' \subseteq Tokens(l, t)
    BY LimiterFacts DEF Tokens
<1>2. IsFiniteSet(Tokens(l, t))
    BY Sizes
<1> QED
    BY <1>1, <1>2, FS_Subset

(* A visitor has at most two allowances in a stretch. *)
LEMMA AllowanceType ==
    ASSUME LimiterType, NEW l \in 1..2, NEW t \in Limiter!Recent,
           NEW v \in {0} \cup Limiter!Visitors
    PROVE  Allowance(l, t, v) \in 0..(2 * Limiter!LimitOf(l))
<1> DEFINE n == Limiter!LimitOf(l)
<1>1. n \in Nat
    BY LimiterFacts
<1> HIDE DEF n
<1>2. CASE v = 0
    BY <1>1, <1>2 DEF Allowance, n
<1>3. CASE v \in Limiter!Visitors
    <2>1. hits[v] \in Nat /\ resetAt[v] \in Int /\ v # 0
        BY <1>3, LimiterFacts DEF LimiterType
    <2>2. Left(l, v) \in 0..n
        BY <1>1, <2>1 DEF Left, n
    <2> QED
        BY <1>1, <2>1, <2>2 DEF Allowance, n
<1> QED
    BY <1>2, <1>3

(* The tokens of one visitor. *)
Row(v, n) == {v} \X (1..n)

LEMMA RowSize ==
    ASSUME NEW v, NEW n \in Nat
    PROVE  IsFiniteSet(Row(v, n)) /\ Cardinality(Row(v, n)) = n
<1>1. IsFiniteSet({v}) /\ Cardinality({v}) = 1
    BY FS_Singleton
<1>2. IsFiniteSet(1..n) /\ Cardinality(1..n) = n
    BY FS_Interval
<1> DEFINE I == 1..n
           V == {v}
<1> HIDE DEF I, V
<1>3. IsFiniteSet(V \X I) /\ Cardinality(V \X I) = Cardinality(V) * Cardinality(I)
    BY <1>1, <1>2, FS_Product DEF I, V
<1> QED
    BY <1>1, <1>2, <1>3 DEF Row, I, V

(* The bound grows by two limits with each visitor dropped. *)
LEMMA BoundGrows ==
    ASSUME NEW d \in Nat, NEW n \in Nat
    PROVE  /\ 2 * (1 + d) * n \in Nat
           /\ 2 * (1 + (d + 1)) * n = 2 * (1 + d) * n + 2 * n
           /\ \A c \in Nat : c <= 1 + d => c * (2 * n) <= 2 * (1 + d) * n
OBVIOUS

(* No limiter lets one more through, and no token comes in: the budget stands. *)
LEMMA Within ==
    ASSUME LimiterType, Budget, NEW l \in 1..2, NEW t \in Limiter!Recent,
           UNCHANGED <<passes, dropped>>,
           Cardinality(Tokens(l, t)') <= Cardinality(Tokens(l, t))
    PROVE  passes'[l][t] + Cardinality(Tokens(l, t)') <= Bound(l)'
<1>1. Bound(l) \in Nat /\ Bound(l)' = Bound(l)
    BY LimiterFacts, BoundGrows DEF Bound, LimiterType
<1>2. /\ passes[l][t] + Cardinality(Tokens(l, t)) <= Bound(l)
      /\ passes[l][t] \in Nat
    BY DEF Budget, LimiterType
<1>3. Cardinality(Tokens(l, t)) \in Nat /\ Cardinality(Tokens(l, t)') \in Nat
    BY Sizes
<1> QED
    BY <1>1, <1>2, <1>3

(* The clock. *)
LEMMA AdvanceInv == ASSUME LimiterInv, Limiter!Advance PROVE LimiterInv'
<1> USE DEF Limiter!Advance
<1>1. /\ LimiterType /\ UNCHANGED <<current, hits, goroutine, dropped>>
      /\ StraysDropped /\ Budget
    BY DEF LimiterInv
<1>2. \A x \in Int : Limiter!Max({x, -1}) = IF x < -1 THEN -1 ELSE x
    BY DEF Limiter!Max
<1>3. \A v \in Limiter!Visitors :
         resetAt'[v] = IF resetAt[v] - 1 < -1 THEN -1 ELSE resetAt[v] - 1
    BY <1>1, <1>2 DEF LimiterType
<1>4. resetAt' \in [Limiter!Visitors -> Int]
    BY <1>1, <1>2, <1>3 DEF LimiterType
<1>5. \A l \in 1..2, t \in Limiter!Recent :
         passes'[l][t] = IF t = 0 THEN 0 ELSE passes[l][t - 1]
    BY LimiterFacts
<1>6. passes' \in [1..2 -> [Limiter!Recent -> Nat]]
    <2>1. \A l \in 1..2, t \in Limiter!Recent : (IF t = 0 THEN 0 ELSE passes[l][t - 1]) \in Nat
        <3>1. \A t \in Limiter!Recent : t # 0 => t - 1 \in Limiter!Recent
            BY LimiterFacts
        <3> QED
            BY <1>1, <3>1 DEF LimiterType
    <2> QED
        BY <2>1, LimiterFacts
<1>7. LimiterType'
    BY <1>1, <1>4, <1>6 DEF LimiterType
<1>8. InPlay' = InPlay /\ Strays' = Strays
    BY <1>1 DEF InPlay, Strays, Limiter!Held
<1>9. StraysDropped'
    BY <1>1, <1>8 DEF StraysDropped
<1>10. ASSUME NEW l \in 1..2, NEW t \in Limiter!Recent
       PROVE  passes'[l][t] + Cardinality(Tokens(l, t)') <= Bound(l)'
    <2>0. Limiter!LimitOf(l) \in Nat /\ dropped \in Nat /\ Bound(l)' = Bound(l)
        BY <1>1, LimiterFacts DEF LimiterType, Bound
    <2>1. CASE t = 0
        <3>1. /\ Cardinality(Strays) \in Nat /\ Cardinality(Strays) + 1 <= 1 + dropped
              /\ Cardinality(Tokens(l, t)') \in Nat
              /\ Cardinality(Tokens(l, t)') <= (Cardinality(Strays) + 1) * (2 * Limiter!LimitOf(l))
            BY <1>1, <1>8, <2>0, Sizes DEF StraysDropped
        <3>2. (Cardinality(Strays) + 1) * (2 * Limiter!LimitOf(l)) <= Bound(l)
            BY <2>0, <3>1, BoundGrows DEF Bound
        <3>3. Bound(l) \in Nat /\ (Cardinality(Strays) + 1) * (2 * Limiter!LimitOf(l)) \in Nat
            BY <2>0, <3>1 DEF Bound
        <3> QED
            BY <1>5, <2>0, <2>1, <3>1, <3>2, <3>3
    <2>2. CASE t # 0
        <3>1. t - 1 \in Limiter!Recent /\ t \in Int
            BY <2>2, LimiterFacts
        <3>2. ASSUME NEW v \in InPlay', NEW j \in Nat, j <= Allowance(l, t, v)'
              PROVE  j <= Allowance(l, t - 1, v)
            <4>1. CASE v = 0
                BY <3>2, <4>1 DEF Allowance
            <4>2. CASE v # 0
                <5>1. v \in Limiter!Visitors
                    BY <1>1, <1>8, <4>2 DEF InPlay, Strays, LimiterType
                <5>2. Left(l, v)' = Left(l, v) /\ Left(l, v) \in Nat
                    BY <1>1, <2>0, <5>1 DEF Left, LimiterType
                <5>3. Span \in Nat /\ t <= Span - 1
                    BY LimiterFacts
                <5>4. resetAt[v] \in Int
                    BY <1>1, <5>1 DEF LimiterType
                <5>5. resetAt'[v] = IF resetAt[v] - 1 < -1 THEN -1 ELSE resetAt[v] - 1
                    BY <1>3, <5>1
                <5>6. CASE resetAt[v] < 0
                    BY <3>2, <4>2, <5>4, <5>5, <5>6 DEF Allowance
                <5>7. CASE resetAt[v] = 0
                    <6>1. Allowance(l, t, v)' = Limiter!LimitOf(l)
                        BY <4>2, <5>5, <5>7 DEF Allowance
                    <6>2. Allowance(l, t - 1, v) = Left(l, v) + Limiter!LimitOf(l)
                        BY <3>1, <4>2, <5>3, <5>7 DEF Allowance
                    <6> QED
                        BY <2>0, <3>2, <5>2, <6>1, <6>2
                <5>8. CASE resetAt[v] > 0
                    <6>1. resetAt'[v] >= 0 /\ resetAt'[v] + t = resetAt[v] + (t - 1)
                        BY <3>1, <5>4, <5>5, <5>8
                    <6>2. ~(resetAt[v] < 0) /\ ~(resetAt'[v] < 0)
                        BY <5>4, <5>5, <5>8
                    <6>3. Allowance(l, t, v)' = Allowance(l, t - 1, v)
                        BY <4>2, <5>2, <6>1, <6>2 DEF Allowance
                    <6> QED
                        BY <3>2, <6>3
                <5> QED
                    BY <5>4, <5>6, <5>7, <5>8
            <4> QED
                BY <4>1, <4>2
        <3>3. Cardinality(Tokens(l, t)') <= Cardinality(Tokens(l, t - 1))
            BY <1>8, <3>1, <3>2, TokensShrink
        <3>4. /\ passes'[l][t] = passes[l][t - 1] /\ passes[l][t - 1] \in Nat
              /\ passes[l][t - 1] + Cardinality(Tokens(l, t - 1)) <= Bound(l)
            BY <1>1, <1>5, <2>2, <3>1 DEF LimiterType, Budget
        <3>5. Cardinality(Tokens(l, t)') \in Nat /\ Cardinality(Tokens(l, t - 1)) \in Nat
            BY <3>1, Sizes
        <3>6. Bound(l) \in Nat
            BY <2>0, BoundGrows DEF Bound
        <3> QED
            BY <2>0, <3>3, <3>4, <3>5, <3>6
    <2> QED
        BY <2>1, <2>2
<1> QED
    BY <1>7, <1>9, <1>10 DEF LimiterInv, Budget

(* Counting tokens: one is spent, a visitor's worth comes in, a visitor's
   worth is exchanged for another's. *)
LEMMA Spend ==
    ASSUME NEW T, IsFiniteSet(T), NEW x \in T, NEW U \in SUBSET (T \ {x})
    PROVE  Cardinality(U) + 1 <= Cardinality(T)
<1>1. IsFiniteSet(T \ {x}) /\ Cardinality(T \ {x}) = Cardinality(T) - 1
    BY FS_RemoveElement
<1>2. Cardinality(U) <= Cardinality(T \ {x}) /\ IsFiniteSet(U)
    BY <1>1, FS_Subset
<1>3. Cardinality(U) \in Nat /\ Cardinality(T) \in Nat
    BY <1>2, FS_CardinalityType
<1> QED
    BY <1>1, <1>2, <1>3

LEMMA Grow ==
    ASSUME NEW T, IsFiniteSet(T), NEW b, NEW n \in Nat, NEW U \in SUBSET (T \cup Row(b, n))
    PROVE  Cardinality(U) <= Cardinality(T) + n
<1>1. IsFiniteSet(Row(b, n)) /\ Cardinality(Row(b, n)) = n
    BY RowSize
<1>2. /\ IsFiniteSet(T \cup Row(b, n))
      /\ Cardinality(T \cup Row(b, n)) = Cardinality(T) + n - Cardinality(T \cap Row(b, n))
    BY <1>1, FS_Union
<1>3. Cardinality(U) <= Cardinality(T \cup Row(b, n)) /\ IsFiniteSet(U)
    BY <1>2, FS_Subset
<1>4. IsFiniteSet(T \cap Row(b, n))
    BY FS_Intersection
<1>5. /\ Cardinality(U) \in Nat /\ Cardinality(T) \in Nat
      /\ Cardinality(T \cap Row(b, n)) \in Nat
    BY <1>3, <1>4, FS_CardinalityType
<1> QED
    BY <1>2, <1>3, <1>5

LEMMA Swap ==
    ASSUME NEW T, IsFiniteSet(T), NEW a, NEW b, NEW n \in Nat, Row(a, n) \subseteq T,
           NEW U \in SUBSET ((T \ Row(a, n)) \cup Row(b, n))
    PROVE  Cardinality(U) <= Cardinality(T)
<1>1. T \cap Row(a, n) = Row(a, n)
    OBVIOUS
<1>2. Cardinality(Row(a, n)) = n
    BY RowSize
<1>3. IsFiniteSet(T \ Row(a, n)) /\ Cardinality(T \ Row(a, n)) = Cardinality(T) - n
    BY <1>1, <1>2, FS_Difference
<1>4. Cardinality(U) <= Cardinality(T \ Row(a, n)) + n
    BY <1>3, Grow
<1>5. IsFiniteSet((T \ Row(a, n)) \cup Row(b, n))
    BY <1>3, RowSize, FS_Union
<1>6. IsFiniteSet(U)
    BY <1>5, FS_Subset
<1>7. Cardinality(U) \in Nat /\ Cardinality(T) \in Nat
    BY <1>6, FS_CardinalityType
<1> QED
    BY <1>3, <1>4, <1>7

(* At the start nobody is in use, and the visitor to come has one allowance. *)
LEMMA LimiterInit == Init => LimiterInv
<1> SUFFICES ASSUME Limiter!Init PROVE LimiterInv
    BY DEF Init
<1> USE DEF Limiter!Init
<1>1. LimiterType
    <2>1. Limiter!Idle \in Calls
        BY DEF Limiter!Idle, Calls
    <2> QED
        BY <2>1, LimiterFacts DEF LimiterType
<1>2. Strays = {} /\ InPlay = {0}
    BY LimiterFacts DEF Strays, InPlay, Limiter!Held, Limiter!Idle
<1>3. StraysDropped
    BY <1>2, FS_EmptySet DEF StraysDropped
<1>4. ASSUME NEW l \in 1..2, NEW t \in Limiter!Recent
      PROVE  passes[l][t] + Cardinality(Tokens(l, t)) <= Bound(l)
    <2>1. Limiter!LimitOf(l) \in Nat
        BY LimiterFacts
    <2>2. Tokens(l, t) \subseteq {} \cup Row(0, Limiter!LimitOf(l))
        BY <1>2, <2>1 DEF Tokens, Allowance, Row
    <2>3. Cardinality(Tokens(l, t)) <= 0 + Limiter!LimitOf(l)
        BY <2>1, <2>2, Grow, FS_EmptySet
    <2>4. passes[l][t] = 0 /\ Bound(l) = 2 * Limiter!LimitOf(l)
        BY <2>1, LimiterFacts DEF Bound
    <2>5. Cardinality(Tokens(l, t)) \in Nat
        BY Sizes
    <2> QED
        BY <2>1, <2>3, <2>4, <2>5
<1> QED
    BY <1>1, <1>3, <1>4 DEF LimiterInv, Budget

(* The verdict: a request that is let through spends a token of its visitor,
   and no other request gains one. *)
LEMMA CountInv ==
    ASSUME LimiterInv, NEW g \in Goroutines, Limiter!Count(g)
    PROVE  LimiterInv'
<1>0. LimiterType /\ StraysDropped /\ Budget /\ goroutine[g] # Limiter!Idle
    BY DEF LimiterInv, Limiter!Count
<1>p. PICK v \in Limiter!Visitors, l \in 1..2 :
              goroutine[g].visitor = v /\ goroutine[g].limiter = l
    BY <1>0 DEF LimiterType
<1> DEFINE fresh == resetAt[v] < 0
           x == IF fresh THEN 1 ELSE hits[v] + 1
           n == Limiter!Min({Limiter!AllOver, x})
           Passed == ~Limiter!Over(n, l)
<1>1. /\ LimiterType /\ StraysDropped /\ Budget
      /\ hits' = [hits EXCEPT ![v] = n]
      /\ resetAt' = [resetAt EXCEPT ![v] = IF fresh THEN Limiter!WindowOf(l) ELSE @]
      /\ passes' = IF Passed
                   THEN [passes EXCEPT ![l] = [t \in Limiter!Recent |-> passes[l][t] + 1]]
                   ELSE passes
      /\ goroutine' = [goroutine EXCEPT ![g] = Limiter!Idle]
      /\ UNCHANGED <<current, dropped>>
    BY <1>0, <1>p DEF Limiter!Count
<1>2. v \in Limiter!Visitors /\ l \in 1..2 /\ v # 0
    BY LimiterFacts
<1>3. hits[v] \in Nat /\ resetAt[v] \in Int /\ x \in Nat \ {0} /\ Limiter!AllOver \in Nat
    BY <1>1, <1>2, LimiterFacts DEF LimiterType
<1>4. n = IF x < Limiter!AllOver THEN x ELSE Limiter!AllOver
    BY <1>3 DEF Limiter!Min
<1>5. n \in Nat /\ Limiter!WindowOf(l) \in Int
    BY <1>2, <1>3, <1>4, LimiterFacts
<1> HIDE DEF n
<1>6. Passed <=> n <= Limiter!LimitOf(l)
    BY <1>2, <1>5, LimiterFacts DEF Limiter!Over
<1> HIDE DEF Passed
<1>7. LimiterType'
    <2>1. Limiter!Idle \in Calls
        BY DEF Limiter!Idle, Calls
    <2>2. passes' \in [1..2 -> [Limiter!Recent -> Nat]]
        BY <1>1, <1>2 DEF LimiterType
    <2>3. hits' \in [Limiter!Visitors -> Nat] /\ resetAt' \in [Limiter!Visitors -> Int]
        BY <1>1, <1>5 DEF LimiterType
    <2> QED
        BY <1>1, <2>1, <2>2, <2>3 DEF LimiterType
<1>8. Strays' \subseteq Strays /\ InPlay' \subseteq InPlay /\ v \in InPlay
    <2>1. \A w \in Limiter!Visitors : Limiter!Held(w)' => Limiter!Held(w)
        BY <1>1, LimiterFacts DEF Limiter!Held, Limiter!Idle, LimiterType
    <2>2. Limiter!Held(v)
        BY <1>p DEF Limiter!Held
    <2> QED
        BY <1>1, <1>2, <2>1, <2>2 DEF Strays, InPlay
<1>9. StraysDropped'
    <2>1. IsFiniteSet(Strays) /\ Cardinality(Strays) \in Nat
          /\ IsFiniteSet(Strays') /\ Cardinality(Strays') \in Nat
        BY LimiterFacts, Sizes
    <2>2. Cardinality(Strays') <= Cardinality(Strays)
        BY <1>8, <2>1, FS_Subset
    <2> QED
        BY <1>1, <2>1, <2>2 DEF StraysDropped, LimiterType
<1>10. ASSUME NEW k \in 1..2, NEW t \in Limiter!Recent
       PROVE  passes'[k][t] + Cardinality(Tokens(k, t)') <= Bound(k)'
    <2> DEFINE L == Limiter!LimitOf(k)
    <2>1. /\ L \in Nat /\ L < Limiter!AllOver /\ t \in Nat /\ Span \in Nat
          /\ Limiter!WindowOf(l) \in Nat /\ Limiter!WindowOf(l) >= Span
        BY <1>2, LimiterFacts
    <2> HIDE DEF L
    <2>2. hits'[v] = n /\ resetAt'[v] = IF fresh THEN Limiter!WindowOf(l) ELSE resetAt[v]
        BY <1>1, <1>2 DEF LimiterType
    <2>3. Left(k, v) = (IF hits[v] < L THEN L - hits[v] ELSE 0)
          /\ Left(k, v)' = (IF n < L THEN L - n ELSE 0)
        BY <2>2 DEF Left, L
    <2>4. /\ Allowance(k, t, v) \in Nat
          /\ Allowance(k, t, v)' <= Allowance(k, t, v)
          /\ n <= L => Allowance(k, t, v)' <= Allowance(k, t, v) - 1
          /\ n <= L => 1 <= Allowance(k, t, v)
        <3>1. CASE fresh
            <4>1. n = 1 /\ Allowance(k, t, v) = L
                BY <1>2, <1>4, <2>1, <3>1 DEF Allowance, L
            <4>2. resetAt'[v] \in Nat /\ ~(resetAt'[v] + t < Span - 1) /\ ~(resetAt'[v] < 0)
                BY <2>1, <2>2, <3>1
            <4>3. Allowance(k, t, v)' = Left(k, v)' + 0
                BY <1>2, <4>2 DEF Allowance
            <4> QED
                BY <2>1, <2>3, <4>1, <4>3
        <3>2. CASE ~fresh
            <4> DEFINE B == IF resetAt[v] + t < Span - 1 THEN L ELSE 0
            <4>1. B \in Nat
                BY <2>1
            <4>2. Allowance(k, t, v) = Left(k, v) + B
                BY <1>2, <3>2 DEF Allowance, L
            <4>3. Allowance(k, t, v)' = Left(k, v)' + B
                BY <1>2, <2>2, <3>2 DEF Allowance, L
            <4> HIDE DEF B
            <4>4. n = IF hits[v] + 1 < Limiter!AllOver THEN hits[v] + 1 ELSE Limiter!AllOver
                BY <1>4, <3>2
            <4> QED
                BY <1>3, <2>1, <2>3, <4>1, <4>2, <4>3, <4>4
        <3> QED
            BY <3>1, <3>2
    <2>5. \A w \in InPlay' : w # v => Allowance(k, t, w)' = Allowance(k, t, w)
        BY <1>1 DEF Allowance, Left, InPlay, Strays, LimiterType
    <2>6. Allowance(k, t, v)' \in Nat
        <3>1. Left(k, v)' \in Nat
            BY <1>5, <2>1, <2>3
        <3> QED
            BY <1>2, <2>1, <3>1 DEF Allowance, L
    <2>7. \A w \in InPlay' : \A j \in Nat :
              j <= Allowance(k, t, w)' => j <= Allowance(k, t, w)
        BY <2>4, <2>5, <2>6
    <2>8. /\ Tokens(k, t)' \subseteq Tokens(k, t)
          /\ Cardinality(Tokens(k, t)') <= Cardinality(Tokens(k, t))
        BY <1>8, <2>7, TokensShrink
    <2>9. /\ IsFiniteSet(Tokens(k, t)) /\ Cardinality(Tokens(k, t)) \in Nat
          /\ Cardinality(Tokens(k, t)') \in Nat
        BY Sizes
    <2>10. /\ passes[k][t] \in Nat
           /\ passes[k][t] + Cardinality(Tokens(k, t)) <= Bound(k)
           /\ Bound(k)' = Bound(k) /\ Bound(k) \in Nat
        <3>1. Bound(k) \in Nat /\ Bound(k)' = Bound(k)
            BY <1>1, <2>1, BoundGrows DEF Bound, LimiterType, L
        <3> QED
            BY <1>1, <3>1 DEF LimiterType, Budget
    <2>11. CASE Passed /\ k = l
        <3>1. n <= L
            BY <1>6, <2>11 DEF L
        <3> DEFINE a == Allowance(k, t, v)
        <3>2. a \in 1..(2 * L) /\ Allowance(k, t, v)' < a
            <4>1. a \in 0..(2 * L)
                BY <1>1, <1>2, AllowanceType DEF L
            <4> QED
                BY <2>4, <2>6, <3>1, <4>1
        <3> HIDE DEF a
        <3>3. <<v, a>> \in Tokens(k, t)
            BY <1>8, <2>1, <3>2 DEF Tokens, a, L
        <3>4. <<v, a>> \notin Tokens(k, t)'
            <4>1. ~(a <= Allowance(k, t, v)')
                BY <2>6, <3>2
            <4> QED
                BY <4>1 DEF Tokens
        <3>5. Cardinality(Tokens(k, t)') + 1 <= Cardinality(Tokens(k, t))
            BY <2>8, <2>9, <3>3, <3>4, Spend
        <3>6. passes'[k][t] = passes[k][t] + 1
            BY <1>1, <2>11 DEF LimiterType
        <3> QED
            BY <2>9, <2>10, <3>5, <3>6
    <2>12. CASE ~(Passed /\ k = l)
        <3>1. passes'[k][t] = passes[k][t]
            BY <1>1, <2>12 DEF LimiterType
        <3> QED
            BY <2>8, <2>9, <2>10, <3>1
    <2> QED
        BY <2>11, <2>12
<1> QED
    BY <1>7, <1>9, <1>10 DEF LimiterInv, Budget

(* A set of numbers has a least one. *)
LEMMA LeastNatural ==
      ASSUME NEW S \in SUBSET Nat, S # {}
      PROVE  \E m \in S : \A k \in S : m <= k
<1> DEFINE Less == OpToRel(<, Nat)
<1>1. IsWellFoundedOn(Less, Nat)
    BY NatLessThanWellFounded
<1>2. \A x, y \in Nat : <<y, x>> \in Less <=> y < x
    BY DEF OpToRel
<1> HIDE DEF Less
<1>3. PICK m \in S : \A k \in S : <<k, m>> \notin Less
    BY <1>1, WFMin
<1>4. ASSUME NEW k \in S PROVE m <= k
    <2>1. k \in Nat /\ m \in Nat /\ <<k, m>> \notin Less
      BY <1>3
    <2>2. ~(k < m)
      BY <1>2, <2>1
    <2> QED BY <2>1, <2>2
<1> QED BY <1>4

(* There are more visitors than goroutines to hold them: one is free. *)
LEMMA FreeVisitor ==
    LET free == {v \in Limiter!Visitors : ~Limiter!Held(v)}
    IN  Limiter!Min(free) \in free
<1> DEFINE free == {v \in Limiter!Visitors : ~Limiter!Held(v)}
<1>1. free # {}
    <2> SUFFICES ASSUME \A v \in Limiter!Visitors : Limiter!Held(v) PROVE FALSE
        OBVIOUS
    <2> DEFINE f == [v \in Limiter!Visitors |->
                        CHOOSE g \in Goroutines : goroutine[g].visitor = v]
    <2>1. \A v \in Limiter!Visitors : f[v] \in Goroutines /\ goroutine[f[v]].visitor = v
        BY DEF Limiter!Held
    <2>2. f \in [Limiter!Visitors -> Goroutines]
        BY <2>1
    <2> HIDE DEF f
    <2>3. Cardinality(Limiter!Visitors) = Cardinality(Goroutines) + 1
        <3>1. \A n \in Nat : Cardinality(1..n) = n
            BY FS_Interval
        <3> QED
            BY <3>1, LimiterFacts
    <2>4. Cardinality(Goroutines) < Cardinality(Limiter!Visitors)
        BY <2>3, LimiterFacts
    <2>5. \E v, w \in Limiter!Visitors : v # w /\ f[v] = f[w]
        BY <2>2, <2>4, LimiterFacts, MiddlewareAssumption, FS_PigeonHole
    <2> QED
        BY <2>1, <2>5
<1>2. free \in SUBSET Nat
    BY LimiterFacts
<1>3. \E m \in free : \A k \in free : m <= k
    BY <1>1, <1>2, LeastNatural
<1> QED
    BY <1>3 DEF Limiter!Min

(* getVisitor: a visitor that is stored takes the allowance of the one to come. *)
LEMMA GetVisitorInv ==
    ASSUME LimiterInv, NEW g \in Goroutines, NEW k \in 1..2, Limiter!GetVisitor(g, k)
    PROVE  LimiterInv'
<1>1. /\ LimiterType /\ StraysDropped /\ Budget /\ goroutine[g] = Limiter!Idle
      /\ UNCHANGED <<passes, dropped>>
    BY DEF LimiterInv, Limiter!GetVisitor
<1>2. PICK c \in Limiter!Visitors :
          /\ current' = c
          /\ goroutine' = [goroutine EXCEPT ![g] = [limiter |-> k, visitor |-> c]]
          /\ IF current # 0
             THEN current = c /\ UNCHANGED <<hits, resetAt>>
             ELSE /\ ~Limiter!Held(c)
                  /\ hits' = [hits EXCEPT ![c] = 0]
                  /\ resetAt' = [resetAt EXCEPT ![c] = Limiter!WindowOf(k)]
    <2>1. CASE current # 0
        BY <1>1, <2>1 DEF Limiter!GetVisitor, LimiterType, Limiter!visitVars
    <2>2. CASE current = 0
        BY <2>2, FreeVisitor DEF Limiter!GetVisitor
    <2> QED
        BY <2>1, <2>2
<1>3. c # 0 /\ Limiter!WindowOf(k) \in Nat /\ Limiter!WindowOf(k) >= Span
    BY LimiterFacts
<1>4. LimiterType'
    <2>1. [limiter |-> k, visitor |-> c] \in Calls
        BY DEF Calls
    <2>2. hits' \in [Limiter!Visitors -> Nat] /\ resetAt' \in [Limiter!Visitors -> Int]
        BY <1>1, <1>2, <1>3 DEF LimiterType
    <2> QED
        BY <1>1, <1>2, <2>1, <2>2 DEF LimiterType
<1>5. \A w \in Limiter!Visitors \ {c} : Limiter!Held(w)' <=> Limiter!Held(w)
    <2>1. goroutine[g].visitor = 0
        BY <1>1 DEF Limiter!Idle
    <2> QED
        BY <1>1, <1>2, <2>1, LimiterFacts DEF Limiter!Held, LimiterType
<1>6. Strays' = Strays
    <2>1. c \notin Strays'
        BY <1>2 DEF Strays
    <2>2. c \notin Strays
        BY <1>2 DEF Strays
    <2> QED
        BY <1>2, <1>5, <2>1, <2>2, LimiterFacts DEF Strays
<1>7. StraysDropped'
    BY <1>1, <1>6 DEF StraysDropped
<1>8. ASSUME NEW l \in 1..2, NEW t \in Limiter!Recent
      PROVE  Cardinality(Tokens(l, t)') <= Cardinality(Tokens(l, t))
    <2> DEFINE L == Limiter!LimitOf(l)
    <2>1. L \in Nat /\ t \in Nat /\ Span \in Nat
        BY LimiterFacts
    <2>2. CASE current # 0
        <3>1. InPlay' = InPlay
            BY <1>2, <1>6, <2>2 DEF InPlay
        <3>2. \A w \in InPlay' : Allowance(l, t, w)' = Allowance(l, t, w)
            BY <1>2, <2>2 DEF Allowance, Left
        <3> QED
            BY <3>1, <3>2, TokensShrink
    <2>3. CASE current = 0
        <3>1. \A w \in Strays : w \in Limiter!Visitors /\ w # c /\ w # 0
            BY <1>2, <2>3 DEF Strays
        <3>2. \A w \in Strays : Allowance(l, t, w)' = Allowance(l, t, w)
            BY <1>1, <1>2, <2>3, <3>1 DEF Allowance, Left, LimiterType
        <3>3. Allowance(l, t, c)' = L
            <4>1. hits'[c] = 0 /\ resetAt'[c] = Limiter!WindowOf(k)
                BY <1>1, <1>2, <2>3 DEF LimiterType
            <4>2. Left(l, c)' = L
                BY <2>1, <4>1 DEF Left
            <4>3. ~(resetAt'[c] < 0) /\ ~(resetAt'[c] + t < Span - 1)
                BY <1>3, <2>1, <4>1
            <4> QED
                BY <1>3, <2>1, <4>2, <4>3 DEF Allowance
        <3> HIDE DEF L
        <3>4. Row(0, L) \subseteq Tokens(l, t)
            BY <2>1, <2>3 DEF Row, Tokens, InPlay, Allowance, L
        <3>5. Tokens(l, t)' \subseteq (Tokens(l, t) \ Row(0, L)) \cup Row(c, L)
            <4> SUFFICES ASSUME NEW p \in Tokens(l, t)'
                         PROVE  p \in (Tokens(l, t) \ Row(0, L)) \cup Row(c, L)
                OBVIOUS
            <4>1. /\ p \in ({c} \cup Strays) \X (1..(2 * L))
                  /\ p[2] <= Allowance(l, t, p[1])'
                BY <1>2, <1>6 DEF Tokens, InPlay, L
            <4>2. CASE p[1] = c
                BY <2>1, <3>3, <4>1, <4>2 DEF Row
            <4>3. CASE p[1] \in Strays
                <5>1. p \in Tokens(l, t)
                    BY <3>2, <4>1, <4>3 DEF Tokens, InPlay, L
                <5>2. p \notin Row(0, L)
                    BY <3>1, <4>3 DEF Row
                <5> QED
                    BY <5>1, <5>2
            <4> QED
                BY <4>1, <4>2, <4>3
        <3>6. IsFiniteSet(Tokens(l, t))
            BY Sizes
        <3> QED
            BY <2>1, <3>4, <3>5, <3>6, Swap
    <2> QED
        BY <2>2, <2>3
<1>9. ASSUME NEW l \in 1..2, NEW t \in Limiter!Recent
      PROVE  passes'[l][t] + Cardinality(Tokens(l, t)') <= Bound(l)'
    BY <1>1, <1>8, Within
<1> QED
    BY <1>4, <1>7, <1>9 DEF LimiterInv, Budget

(* The test of a cleaner changes nothing that counts. *)
LEMMA CleanTestInv ==
    ASSUME LimiterInv, UNCHANGED <<current, hits, resetAt, goroutine, passes, dropped>>
    PROVE  LimiterInv'
<1>1. LimiterType' /\ Strays' = Strays /\ InPlay' = InPlay
    BY DEF LimiterInv, LimiterType, Strays, InPlay, Limiter!Held
<1>2. StraysDropped'
    BY <1>1 DEF LimiterInv, StraysDropped
<1>3. \A l \in 1..2, t \in Limiter!Recent :
          Tokens(l, t)' = Tokens(l, t) /\ Bound(l)' = Bound(l)
    BY <1>1 DEF Tokens, Allowance, Left, Bound
<1> QED
    BY <1>1, <1>2, <1>3 DEF LimiterInv, Budget

(* The cleaner's deletion.  An expired visitor that nobody holds gives its place
   to the one to come; any other stays in play beside that one, and is counted
   in dropped. *)
LEMMA CleanDeleteInv ==
    ASSUME LimiterInv, NEW k \in 1..2, Limiter!CleanDelete(k)
    PROVE  LimiterInv'
<1> DEFINE InUse == current # 0 /\ (resetAt[current] >= 0 \/ Limiter!Held(current))
<1>1. /\ LimiterType /\ StraysDropped /\ Budget
      /\ current' = 0 /\ UNCHANGED <<hits, resetAt, goroutine, passes>>
      /\ dropped' = IF InUse THEN dropped + 1 ELSE dropped
    BY DEF LimiterInv, Limiter!CleanDelete, Limiter!visitVars
<1>2. LimiterType'
    BY <1>1 DEF LimiterType
<1>3. Strays' \subseteq Strays \cup {current} /\ 0 \notin Limiter!Visitors
    BY <1>1, LimiterFacts DEF Strays, Limiter!Held
<1>4. ~InUse => Strays' = Strays
    BY <1>1, LimiterFacts DEF Strays, Limiter!Held
<1>5. \A l \in 1..2, t \in Limiter!Recent : \A w :
          Allowance(l, t, w)' = Allowance(l, t, w)
    BY <1>1 DEF Allowance, Left
<1>6. CASE InUse
    <2>1. StraysDropped'
        <3>1. /\ IsFiniteSet(Strays) /\ Cardinality(Strays) \in Nat
              /\ IsFiniteSet(Strays') /\ Cardinality(Strays') \in Nat
            BY LimiterFacts, Sizes
        <3>2. current \notin Strays
            BY DEF Strays
        <3>3. /\ IsFiniteSet(Strays \cup {current})
              /\ Cardinality(Strays \cup {current}) = Cardinality(Strays) + 1
            BY <3>1, <3>2, FS_AddElement
        <3>4. Cardinality(Strays') <= Cardinality(Strays) + 1
            BY <1>3, <3>3, FS_Subset
        <3> QED
            BY <1>1, <1>6, <3>1, <3>4 DEF StraysDropped, LimiterType
    <2>2. ASSUME NEW l \in 1..2, NEW t \in Limiter!Recent
          PROVE  passes'[l][t] + Cardinality(Tokens(l, t)') <= Bound(l)'
        <3> DEFINE L == Limiter!LimitOf(l)
        <3>1. L \in Nat /\ dropped \in Nat /\ passes[l][t] \in Nat
            BY <1>1, LimiterFacts DEF LimiterType
        <3>2. Tokens(l, t)' \subseteq Tokens(l, t) \cup Row(0, L)
            <4> SUFFICES ASSUME NEW p \in Tokens(l, t)', p[1] # 0
                         PROVE  p \in Tokens(l, t)
                BY <1>1, <3>1 DEF Tokens, InPlay, Allowance, Row
            <4>1. p[1] \in InPlay
                BY <1>1, <1>3 DEF Tokens, InPlay
            <4> QED
                BY <1>5, <4>1 DEF Tokens
        <3>3. Cardinality(Tokens(l, t)') <= Cardinality(Tokens(l, t)) + L
            BY <3>1, <3>2, Sizes, Grow
        <3>4. Bound(l)' = Bound(l) + 2 * L /\ Bound(l) \in Nat
            BY <1>1, <1>6, <3>1, BoundGrows DEF Bound
        <3>5. /\ passes[l][t] + Cardinality(Tokens(l, t)) <= Bound(l)
              /\ Cardinality(Tokens(l, t)) \in Nat /\ Cardinality(Tokens(l, t)') \in Nat
            BY <1>1, Sizes DEF Budget
        <3> QED
            BY <1>1, <3>1, <3>3, <3>4, <3>5
    <2> QED
        BY <1>2, <2>1, <2>2 DEF LimiterInv, Budget
<1>7. CASE ~InUse
    <2>1. StraysDropped'
        BY <1>1, <1>4, <1>7 DEF StraysDropped
    <2>2. ASSUME NEW l \in 1..2, NEW t \in Limiter!Recent
          PROVE  Cardinality(Tokens(l, t)') <= Cardinality(Tokens(l, t))
        <3> DEFINE L == Limiter!LimitOf(l)
        <3>1. L \in Nat
            BY LimiterFacts
        <3>2. Allowance(l, t, current) = L
            BY <1>1, <1>7, LimiterFacts DEF LimiterType, Allowance
        <3>3. Row(current, L) \subseteq Tokens(l, t)
            BY <3>1, <3>2 DEF Row, Tokens, InPlay
        <3>4. Tokens(l, t)' \subseteq (Tokens(l, t) \ Row(current, L)) \cup Row(0, L)
            <4> SUFFICES ASSUME NEW p \in Tokens(l, t)', p[1] # 0
                         PROVE  p \in Tokens(l, t) \ Row(current, L)
                BY <1>1, <3>1 DEF Tokens, InPlay, Allowance, Row
            <4>1. p[1] \in Strays
                BY <1>1, <1>4, <1>7 DEF Tokens, InPlay
            <4>2. p \notin Row(current, L)
                BY <4>1 DEF Row, Strays
            <4>3. p \in Tokens(l, t)
                BY <1>5, <4>1 DEF Tokens, InPlay
            <4> QED
                BY <4>2, <4>3
        <3>5. IsFiniteSet(Tokens(l, t))
            BY Sizes
        <3> QED
            BY <3>1, <3>3, <3>4, <3>5, Swap
    <2>3. ASSUME NEW l \in 1..2, NEW t \in Limiter!Recent
          PROVE  passes'[l][t] + Cardinality(Tokens(l, t)') <= Bound(l)'
        BY <1>1, <1>7, <2>2, Within
    <2> QED
        BY <1>2, <2>1, <2>3 DEF LimiterInv, Budget
<1> QED
    BY <1>6, <1>7

LEMMA LimiterNext == LimiterInv /\ [Next]_all => LimiterInv'
<1> SUFFICES ASSUME LimiterInv, [Next]_all PROVE LimiterInv'
    OBVIOUS
<1>1. CASE UNCHANGED ofLimiter
    BY <1>1, CleanTestInv DEF ofLimiter
<1>2. CASE Limiter!Next
    <2>1. ASSUME NEW l \in 1..2, Limiter!CleanTest(l) PROVE LimiterInv'
        BY <2>1, CleanTestInv DEF Limiter!CleanTest, Limiter!visitVars
    <2> QED
        BY <1>2, <2>1, AdvanceInv, CountInv, GetVisitorInv, CleanDeleteInv, LimiterFacts
        DEF Limiter!Next
<1> QED
    BY <1>1, <1>2 DEF Next, all

(* AllowanceBounded holds for any limits, windows and number of goroutines: the
   requests a limiter lets through in a stretch are bounded, and what a
   cleaner's late deletion adds is bounded for each (ratelimit.go:30-42, 50-58). *)
THEOREM AllowanceCorrect == Spec => []AllowanceBounded
<1>1. LimiterInv => AllowanceBounded
    <2> SUFFICES ASSUME LimiterInv, NEW l \in 1..2, NEW t \in Limiter!Recent
                 PROVE  passes[l][t] <= 2 * (1 + dropped) * Limiter!LimitOf(l)
        BY LimiterFacts DEF AllowanceBounded, Limiter!AllowanceBounded
    <2>1. /\ passes[l][t] + Cardinality(Tokens(l, t)) <= Bound(l)
          /\ passes[l][t] \in Nat /\ Cardinality(Tokens(l, t)) \in Nat
        BY Sizes DEF LimiterInv, LimiterType, Budget
    <2>2. Bound(l) \in Nat
        BY LimiterFacts, BoundGrows DEF Bound, LimiterInv, LimiterType
    <2> QED
        BY <2>1, <2>2 DEF Bound
<1> QED
    BY <1>1, LimiterInit, LimiterNext, PTL DEF Spec, all

=============================================================================
