------------------------------ MODULE Middleware ------------------------------
(***************************************************************************)
(* The middleware that keeps state between requests.  RateLimit shares none  *)
(* with the rest of the chain, so that a behaviour is one of the limiter or   *)
(* one of the chain, and part says which.                                   *)
(***************************************************************************)
EXTENDS Naturals, FiniteSets

CONSTANTS
    Goroutines, Limit, Window, Limit2, Window2, MaxDrops,   \* RateLimit
    Reqs, Ctxs, TTL, D, MaxTime, Nobody                     \* Chain

ASSUME MiddlewareAssumption ==
    /\ {Limit, Limit2, MaxDrops, TTL, MaxTime} \subseteq Nat
    /\ {Window, Window2, D} \subseteq Nat \ {0}
    /\ Nobody \notin Reqs \cup Ctxs
    /\ IsFiniteSet(Goroutines)

VARIABLES
    part,
    current, hits, resetAt, goroutine, cleaner, passes, dropped,
    timeout, now, cache, req, keyed, ctx, user, resp, began, work, result, crashed

Limiter == INSTANCE RateLimit
Flow == INSTANCE Chain

ofLimiter == <<current, hits, resetAt, goroutine, cleaner, passes, dropped>>
ofChain == <<timeout, now, cache, req, keyed, ctx, user, resp, began, work,
             result, crashed>>

(* Requests of a behaviour of the limiter do not enter the chain. *)
Init ==
    /\ part \in {"limiter", "chain"}
    /\ Limiter!Init /\ Flow!Init
    /\ part = "limiter" => ~timeout /\ \A r \in Reqs : ~keyed[r]

Next ==
    \/ part = "limiter" /\ Limiter!Next /\ UNCHANGED <<part, ofChain>>
    \/ part = "chain" /\ Flow!Next /\ UNCHANGED <<part, ofLimiter>>

Spec == Init /\ [][Next]_<<part, ofLimiter, ofChain>>

-----------------------------------------------------------------------------
(* Properties. *)

(* RateLimit!AllowanceBounded: what a limit is worth. *)
AllowanceBounded == Limiter!AllowanceBounded

(* Chain!AnswersIsolated: an answer belongs to its request. *)
AnswersIsolated == Flow!AnswersIsolated

(* Chain!StalenessBounded: how old a cached answer may be. *)
StalenessBounded == Flow!StalenessBounded

(* Chain!PanicContained: a panic in a handler leaves the process running. *)
PanicContained == Flow!PanicContained

(* Chain!HeadersSent: every answer has the security headers. *)
HeadersSent == Flow!HeadersSent

=============================================================================
