--------------------------- MODULE ProtocolServer ---------------------------
(***************************************************************************)
(* The servers that leave serving to a library: gRPC (grpc/server.go),      *)
(* Connect (grpc/connect_server.go) and GraphQL (graphql/server.go).  Each    *)
(* has the same parts, its Start, the goroutine that calls Serve, its Stop    *)
(* and the requests with their auth check, and puts them together             *)
(* differently: what is done under the lock, which listener is kept, who      *)
(* waits for whom.                                                          *)
(*                                                                         *)
(* External: Shutdown and GracefulStop close the listener that is served and  *)
(* wait for the requests in flight; a library that has been stopped before     *)
(* Serve refuses to serve, except fasthttp (GraphQL), whose Shutdown finds no  *)
(* listener and does nothing.  A port can be bound once at a time.            *)
(***************************************************************************)
EXTENDS Naturals

CONSTANTS
    Requests,
    MaxStarts    \* bound on the calls of Start

VARIABLES
    kind,       \* "grpc", "connect" or "graphql"
    required,   \* GraphQLConfig.RequireAuth
    secret,     \* authSecret # ""
    captured,   \* the secret that the interceptors of gRPC were built with
    isRunning,
    kept,       \* the field listener is set: injected, or left by Connect
    port,       \* the listener: "none", "open", "closed"
    serving,    \* a library loop accepts on it
    shut,       \* the current server object has been shut down
    pend,       \* goroutines of Start that have not called Serve
    start,      \* the Start call: "idle", "prepared", "bound"
    stop,       \* the Stop call: "idle", "draining", "mark"
    starts,
    missed,     \* ghost: a Stop came before Serve
    again,      \* ghost: Start was called after such a Stop
    leaked,     \* ghost: a Start failed with its listener open
    req,        \* per request, its step
    token,      \* per request, it carries a valid token
    endless     \* per request, its handler need not return

startVars == <<captured, kept, pend, start, starts, leaked, again>>
stopVars == <<stop, missed>>
reqVars == <<req, token, endless>>
setVars == <<kind, required>>
vars == <<setVars, secret, isRunning, port, serving, shut, startVars,
          stopVars, reqVars>>

Init ==
    /\ required \in BOOLEAN
    /\ secret = FALSE /\ captured = FALSE
    /\ isRunning = FALSE /\ serving = FALSE /\ shut = FALSE
    /\ kept \in BOOLEAN /\ (kept => kind # "graphql")   \* its SetListener does nothing
    /\ port = IF kept THEN "open" ELSE "none"
    /\ pend = 0 /\ starts = 0
    /\ start = "idle" /\ stop = "idle"
    /\ missed = FALSE /\ again = FALSE /\ leaked = FALSE
    /\ req = [r \in Requests |-> "new"]
    /\ token = [r \in Requests |-> FALSE]
    /\ endless = [r \in Requests |-> FALSE]

InFlight == {r \in Requests : req[r] \in {"auth", "handler"}}

(* Stop holds the lock from its first line to its return. *)
Unlocked == stop = "idle"

SetAuthSecret ==
    /\ Unlocked /\ ~secret
    /\ secret' = TRUE
    /\ UNCHANGED <<setVars, isRunning, port, serving, shut, startVars,
                   stopVars, reqVars>>

-----------------------------------------------------------------------------
(* Start.  gRPC and GraphQL test isRunning under the lock and go on without
   it; gRPC reads the secret and makes its interceptors once and for all. *)

startFrame == <<setVars, secret, stopVars, reqVars>>

StartPrepare ==
    /\ kind \in {"grpc", "graphql"}
    /\ start = "idle" /\ Unlocked /\ ~isRunning /\ starts < MaxStarts
    /\ starts' = starts + 1
    /\ again' = (again \/ missed)
    /\ captured' = (kind = "grpc" /\ secret)
    /\ shut' = FALSE
    /\ start' = "prepared"
    /\ UNCHANGED <<startFrame, isRunning, port, serving, kept, pend, leaked>>

(* The key pair does not load (gRPC, before it binds), or the port is taken. *)
StartErr ==
    /\ start = "prepared"
    /\ start' = "idle"
    /\ UNCHANGED <<startFrame, captured, kept, pend, starts, leaked, again, isRunning,
                   port, serving, shut>>

(* net.Listen, unless a listener was injected. *)
StartBind ==
    /\ start = "prepared"
    /\ kept \/ port # "open"
    /\ port' = IF kept THEN port ELSE "open"
    /\ start' = "bound"
    /\ UNCHANGED <<startFrame, captured, kept, pend, starts, leaked, again, isRunning,
                   serving, shut>>

(* GraphQL loads the key pair after it has bound, and returns without closing. *)
StartTLSErr ==
    /\ kind = "graphql" /\ start = "bound"
    /\ start' = "idle"
    /\ leaked' = TRUE
    /\ UNCHANGED <<startFrame, captured, kept, pend, starts, again, isRunning, port,
                   serving, shut>>

(* isRunning = true under the lock, then go Serve. *)
StartMark ==
    /\ start = "bound" /\ Unlocked
    /\ isRunning' = TRUE
    /\ pend' = pend + 1
    /\ start' = "idle"
    /\ UNCHANGED <<startFrame, captured, kept, starts, leaked, again, port, serving, shut>>

(* Connect does all of it in one critical section and keeps the listener in
   its field, so that a later Start takes the one that Stop has closed. *)
StartConnect ==
    /\ kind = "connect"
    /\ Unlocked /\ ~isRunning /\ starts < MaxStarts
    /\ kept \/ port # "open"
    /\ starts' = starts + 1
    /\ again' = (again \/ missed)
    /\ shut' = FALSE
    /\ port' = IF kept THEN port ELSE "open"
    /\ \/ kept' = TRUE /\ isRunning' = TRUE /\ pend' = pend + 1 /\ UNCHANGED leaked
       \/ leaked' = TRUE /\ UNCHANGED <<kept, isRunning, pend>>   \* the key pair
    /\ UNCHANGED <<startFrame, captured, start, serving>>

(* The goroutine calls Serve on the server of the moment. *)
Serve ==
    /\ pend > 0
    /\ pend' = pend - 1
    /\ \/ port = "closed" /\ UNCHANGED <<port, serving>>
       \/ /\ port = "open" /\ shut /\ kind # "graphql"
          /\ port' = "closed" /\ serving' = FALSE
       \/ /\ port = "open" /\ (~shut \/ kind = "graphql")
          /\ serving' = TRUE /\ UNCHANGED port
    /\ UNCHANGED <<startFrame, isRunning, shut, captured, kept, start, starts,
                   leaked, again>>

-----------------------------------------------------------------------------
(* Stop. *)

stopFrame == <<setVars, secret, startVars, reqVars>>

(* Connect has isRunning false before it shuts down; the lock hides it. *)
StopBegin ==
    /\ Unlocked /\ isRunning
    /\ shut' = TRUE
    /\ IF serving
       THEN port' = "closed" /\ serving' = FALSE /\ stop' = "draining"
       ELSE stop' = "mark" /\ UNCHANGED <<port, serving>>
    /\ missed' = (missed \/ ~serving)
    /\ isRunning' = (kind # "connect")
    /\ UNCHANGED stopFrame

(* Mutant of StopReturn: server.Stop() in the place of GracefulStop. *)
StopReturnAtOnce ==
    /\ stop \in {"draining", "mark"}
    /\ isRunning' = FALSE
    /\ stop' = "idle"
    /\ UNCHANGED <<stopFrame, missed, port, serving, shut>>

StopReturn ==
    /\ stop = "mark" \/ (stop = "draining" /\ InFlight = {})
    /\ isRunning' = FALSE
    /\ stop' = "idle"
    /\ UNCHANGED <<stopFrame, missed, port, serving, shut>>

(* Mutant of StopExpire: Shutdown gets a context that is never done. *)
StopExpireNever ==
    /\ FALSE
    /\ UNCHANGED vars

(* Only Connect passes the context on: Stop returns its error. *)
StopExpire ==
    /\ kind = "connect" /\ stop = "draining" /\ InFlight # {}
    /\ stop' = "idle"
    /\ UNCHANGED <<stopFrame, missed, isRunning, port, serving, shut>>

-----------------------------------------------------------------------------
(* Requests. *)

reqFrame == <<setVars, secret, isRunning, port, serving, shut, startVars,
              stopVars>>

Goto(r, pc) == req' = [req EXCEPT ![r] = pc]

Arrive(r) ==
    /\ req[r] = "new" /\ serving
    /\ Goto(r, "auth")
    /\ \E b, e \in BOOLEAN :
        /\ token' = [token EXCEPT ![r] = b]
        /\ endless' = [endless EXCEPT ![r] = e]
    /\ UNCHANGED reqFrame

(* Who passes: with a secret, a valid token; without, everyone, or no one
   where GraphQL requires a token that it has no secret to check by. *)
Admits(r) ==
    IF (IF kind = "grpc" THEN captured ELSE secret) THEN token[r] ELSE ~required

(* The interceptors of gRPC carry the secret they were built with ... *)
Intercept(r) ==
    /\ kind = "grpc" /\ req[r] = "auth"
    /\ Goto(r, IF Admits(r) THEN "handler" ELSE "refused")
    /\ UNCHANGED <<reqFrame, token, endless>>

(* ... the two others read it under the lock. *)
CheckAuth(r) ==
    /\ kind # "grpc" /\ req[r] = "auth" /\ Unlocked
    /\ Goto(r, IF Admits(r) THEN "handler" ELSE "refused")
    /\ UNCHANGED <<reqFrame, token, endless>>

Handled(r) ==
    /\ req[r] = "handler"
    /\ Goto(r, "answered")
    /\ UNCHANGED <<reqFrame, token, endless>>

-----------------------------------------------------------------------------
StarterStep == StartMark \/ Serve
StopperStep == StopReturn \/ StopExpire
RequestStep(r) == Intercept(r) \/ CheckAuth(r) \/ (~endless[r] /\ Handled(r))

Next ==
    \/ SetAuthSecret
    \/ StartPrepare \/ StartErr \/ StartBind \/ StartTLSErr \/ StartMark
    \/ StartConnect \/ Serve
    \/ StopBegin \/ StopReturn \/ StopExpire
    \/ \E r \in Requests :
        Arrive(r) \/ Intercept(r) \/ CheckAuth(r) \/ Handled(r)

=============================================================================
