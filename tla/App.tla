-------------------------------- MODULE App --------------------------------
(***************************************************************************)
(* The life of an application: SetJWTAuth and RegisterProtocol while it is  *)
(* set up, Listen or ListenGraceful (app.go), the goroutine that starts the *)
(* registered protocols and StopAllProtocols (protocol.go,                  *)
(* protocol/base.go), the main HTTP server and the shutdown hooks.          *)
(*                                                                         *)
(* The starting goroutine is never waited for: a signal may arrive while it *)
(* is still in the middle of the registry.  Both walks over the registry    *)
(* are in map order, that is, in any order.  Listen and ListenGraceful      *)
(* differ in their time-outs and in the cmux error channel only.            *)
(***************************************************************************)
EXTENDS Naturals

CONSTANTS
    Protocols,   \* protocol servers that may be registered
    AuthAware,   \* those that implement protocol.AuthAware
    Mountable,   \* those with an HTTP handler the main router can mount
    Named,       \* those that take a cmux listener: "grpc" and "mqtt"
    Unbounded    \* those whose Stop may wait for ever, ctx or no ctx

None == "none"   \* no protocol

ASSUME ProtocolsAssumption ==
    /\ None \notin Protocols
    /\ AuthAware \subseteq Protocols
    /\ Mountable \subseteq Protocols
    /\ Named \subseteq Protocols
    /\ Unbounded \subseteq Protocols

VARIABLES
    main,        \* the goroutine that called Listen
    why,         \* what ended the select: "running", "signal", "error"
    muxing,      \* Server.EnablePortMultiplexing
    muxOpen,     \* the cmux accepts connections
    http,        \* the main server: "none", "spawned" (its goroutine has not
                 \* called Serve yet), "serving", "closed"
    busy,        \* a request that does not end is being served
    jwt,         \* App.jwtConfig # nil
    registered,  \* App.Registry
    secret,      \* per protocol, SetAuthSecret has been called
    mounted,     \* protocols with routes on the main router
    injected,    \* per protocol, SetListener has been called
    running,     \* per protocol, IsRunning
    starter,     \* StartAllProtocols: pc, handlers left, the current one
    attempted,   \* protocols whose Start has been called
    stop,        \* StopAll: handlers left and the current one
    stopErr,     \* a Stop returned an error
    stuck,       \* the current Stop will not return
    late,        \* ghost: protocols not running when StopAll looked at them
    ctxDone,     \* the shutdown time-out has expired
    missed,      \* ghost: ShutdownWithContext came before Serve
    hooks        \* how often runShutdownHooks has run

setupVars == <<muxing, jwt, registered, secret, mounted>>
startVars == <<starter, attempted>>
stopVars  == <<stop, stopErr, stuck, late, missed>>
vars == <<main, why, muxing, muxOpen, http, busy, jwt, registered, secret,
          mounted, injected, running, starter, attempted, stop, stopErr, stuck,
          late, missed, ctxDone, hooks>>

Init ==
    /\ main = "setup" /\ why = "running"
    /\ muxing \in BOOLEAN /\ muxOpen = FALSE
    /\ http = "none" /\ busy = FALSE
    /\ jwt = FALSE
    /\ registered = {} /\ mounted = {}
    /\ secret = [p \in Protocols |-> FALSE]
    /\ injected = [p \in Protocols |-> FALSE]
    /\ running = [p \in Protocols |-> FALSE]
    /\ starter = [pc |-> "none", left |-> {}, cur |-> None]
    /\ attempted = {}
    /\ stop = [left |-> {}, cur |-> None]
    /\ stopErr = FALSE /\ stuck = FALSE /\ late = {} /\ missed = FALSE
    /\ ctxDone = FALSE
    /\ hooks = 0

-----------------------------------------------------------------------------
(* Set-up, in one goroutine. *)

setupFrame == <<main, why, muxing, muxOpen, http, busy, injected, running,
                startVars, stopVars, ctxDone, hooks>>

(* Mutant of SetJWTAuth: the protocols registered so far are forgotten. *)
SetJWTAuthRouterOnly ==
    /\ main = "setup" /\ ~jwt
    /\ jwt' = TRUE
    /\ UNCHANGED <<setupFrame, registered, mounted, secret>>

(* SetUnifiedAuth: every AuthAware handler registered so far. *)
SetUnifiedAuth ==
    secret' = [p \in Protocols |-> secret[p] \/ p \in registered \cap AuthAware]

SetJWTAuth ==
    /\ main = "setup" /\ ~jwt
    /\ jwt' = TRUE
    /\ SetUnifiedAuth
    /\ UNCHANGED <<setupFrame, registered, mounted>>

(* registerProtocolHooks: the protocols p is mounted with, if it can be. *)
WithHooks(p) == IF muxing /\ p \in Mountable THEN mounted \cup {p} ELSE mounted

RegisterProtocol(p) ==
    /\ main = "setup" /\ p \notin registered
    /\ registered' = registered \cup {p}
    /\ secret' = [secret EXCEPT ![p] = jwt /\ p \in AuthAware]
    /\ mounted' = WithHooks(p)
    /\ UNCHANGED <<setupFrame, jwt>>

(* prepare: ValidateConfig refuses multiplexing without a protocol. *)
Prepared == muxing => registered # {}

(* The listeners of the cmux, given to the protocols of those names. *)
Inject == [p \in Protocols |-> muxing /\ p \in registered \cap Named]

(* Listen up to the select: the port is bound and the goroutines that start
   the protocols and serve HTTP are spawned. *)
Listen ==
    /\ main = "setup" /\ Prepared
    /\ main' = "select"
    /\ muxOpen' = muxing
    /\ injected' = Inject
    /\ starter' = [pc |-> "walk", left |-> registered, cur |-> None]
    /\ http' = "spawned"
    /\ UNCHANGED <<why, busy, setupVars, running, attempted, stopVars,
                   ctxDone, hooks>>

-----------------------------------------------------------------------------
(* StartAllProtocols. *)

startFrame == <<main, why, muxOpen, http, busy, setupVars, injected,
                stopVars, ctxDone, hooks>>

(* Mutant of Skipped: mounted protocols are started on a port of their own. *)
SkippedNever(p) == FALSE

(* Protocols served by the main HTTP server are not started. *)
Skipped(p) == muxing /\ p \in Mountable

(* The next handler of the walk. *)
StartNext(p) ==
    /\ starter.pc = "walk" /\ p \in starter.left
    /\ IF Skipped(p)
       THEN /\ starter' = [starter EXCEPT !.left = @ \ {p}]
            /\ UNCHANGED attempted
       ELSE /\ starter' = [pc |-> "starting", left |-> starter.left \ {p},
                           cur |-> p]
            /\ attempted' = attempted \cup {p}
    /\ UNCHANGED <<startFrame, running>>

(* Start returns nil: the protocol runs, unless it is disabled. *)
StartOk ==
    /\ starter.pc = "starting"
    /\ \E enabled \in BOOLEAN :
          running' = [running EXCEPT ![starter.cur] = enabled]
    /\ starter' = [starter EXCEPT !.pc = "walk", !.cur = None]
    /\ UNCHANGED <<startFrame, attempted>>

(* Start returns an error: StartAllProtocols returns it, Listen logs it. *)
StartErr ==
    /\ starter.pc = "starting"
    /\ starter' = [starter EXCEPT !.pc = "over", !.cur = None]
    /\ UNCHANGED <<startFrame, running, attempted>>

StartOver ==
    /\ starter.pc = "walk" /\ starter.left = {}
    /\ starter' = [starter EXCEPT !.pc = "over"]
    /\ UNCHANGED <<startFrame, running, attempted>>

-----------------------------------------------------------------------------
(* The select of Listen and what follows it. *)

(* The spawned goroutine calls serve.  A listener of a closed cmux is refused
   at once; fasthttp knows nothing of a Shutdown that came before. *)
ServeBegin ==
    /\ http = "spawned"
    /\ http' = IF muxing /\ ~muxOpen THEN "closed" ELSE "serving"
    /\ UNCHANGED <<main, why, muxOpen, busy, setupVars, injected, running,
                   startVars, stopVars, ctxDone, hooks>>

(* A request that does not end on its own: a slow download, a stream. *)
LongRequest ==
    /\ http = "serving" /\ ~busy
    /\ busy' = TRUE
    /\ UNCHANGED <<main, why, muxOpen, http, setupVars, injected, running,
                   startVars, stopVars, ctxDone, hooks>>

(* serve reports an error: Listen returns it at once and leaves the cmux to
   itself; or the cmux does, and the listeners behind it end with it. *)
ServeErr ==
    /\ main = "select"
    /\ main' = "returned" /\ why' = "error"
    /\ http' = "closed" /\ muxOpen' \in {FALSE, muxOpen}
    /\ UNCHANGED <<busy, setupVars, injected, running, startVars, stopVars,
                   ctxDone, hooks>>

(* SIGINT or SIGTERM: m.Close(), then the time-out starts and StopAll walks
   the registry. *)
Signal ==
    /\ main = "select"
    /\ main' = "stopAll" /\ why' = "signal"
    /\ muxOpen' = FALSE
    /\ stop' = [left |-> registered, cur |-> None]
    /\ UNCHANGED <<http, busy, setupVars, injected, running, startVars,
                   stopErr, stuck, late, missed, ctxDone, hooks>>

Timeout ==
    /\ main \in {"stopAll", "shutdown"} /\ ~ctxDone
    /\ ctxDone' = TRUE
    /\ UNCHANGED <<main, why, muxOpen, http, busy, setupVars, injected,
                   running, startVars, stopVars, hooks>>

stopFrame == <<why, muxOpen, http, busy, setupVars, injected, startVars,
               ctxDone, hooks>>

(* Mutant of StopNext: the walk ends at the first handler that is not
   running. *)
StopNextBreaks(p) ==
    /\ main = "stopAll" /\ stop.cur = None /\ p \in stop.left
    /\ IF running[p]
       THEN /\ stop' = [left |-> stop.left \ {p}, cur |-> p]
            /\ UNCHANGED late
       ELSE /\ stop' = [stop EXCEPT !.left = {}]
            /\ late' = late \cup {p}
    /\ UNCHANGED <<stopFrame, main, running, stopErr, stuck, missed>>

(* StopAll: the next handler; one that is not running is passed over. *)
StopNext(p) ==
    /\ main = "stopAll" /\ stop.cur = None /\ p \in stop.left
    /\ IF running[p]
       THEN /\ stop' = [left |-> stop.left \ {p}, cur |-> p]
            /\ UNCHANGED late
       ELSE /\ stop' = [stop EXCEPT !.left = @ \ {p}]
            /\ late' = late \cup {p}
    /\ UNCHANGED <<stopFrame, main, running, stopErr, stuck, missed>>

(* Stop returns nil. *)
StopOk ==
    /\ stop.cur # None /\ ~stuck
    /\ running' = [running EXCEPT ![stop.cur] = FALSE]
    /\ stop' = [stop EXCEPT !.cur = None]
    /\ UNCHANGED <<stopFrame, main, stopErr, stuck, late, missed>>

(* Stop returns an error: StopAll returns it and the rest stays up; Listen
   drops the error. *)
StopErr ==
    /\ stop.cur # None /\ ~stuck
    /\ stopErr' = TRUE
    /\ stop' = [left |-> {}, cur |-> None]
    /\ UNCHANGED <<stopFrame, main, running, stuck, late, missed>>

(* Stop waits for a client that does not leave, which GracefulStop, mqtt's Close
   and the WebSocket server's lock do without a deadline. *)
StopHangs ==
    /\ stop.cur \in Unbounded /\ ~stuck
    /\ stuck' = TRUE
    /\ UNCHANGED <<stopFrame, main, running, stop, stopErr, late, missed>>

(* Mutant of StopOver: the hooks run before the server is shut down. *)
StopOverHooksFirst ==
    /\ main = "stopAll" /\ stop.cur = None /\ stop.left = {}
    /\ main' = "shutdown"
    /\ hooks' = hooks + 1
    /\ UNCHANGED <<why, muxOpen, http, busy, setupVars, injected, startVars,
                   ctxDone, running, stopVars>>

StopOver ==
    /\ main = "stopAll" /\ stop.cur = None /\ stop.left = {}
    /\ main' = "shutdown"
    /\ UNCHANGED <<stopFrame, running, stopVars>>

(* Mutant of Drained: Shutdown in place of ShutdownWithContext. *)
DrainedNoContext == ~busy

(* ShutdownWithContext returns when no request is left or ctx is done. *)
Drained == ~busy \/ ctxDone

(* server.ShutdownWithContext(ctx) closes the listener and drains; called before
   Serve it finds no listener and returns nil. *)
Shutdown ==
    /\ main = "shutdown" /\ Drained
    /\ http' = IF http = "serving" THEN "closed" ELSE http
    /\ missed' = (http = "spawned")
    /\ main' = "hooks"
    /\ UNCHANGED <<why, muxOpen, busy, setupVars, injected, running,
                   startVars, stop, stopErr, stuck, late, ctxDone, hooks>>

(* runShutdownHooks, then Listen returns. *)
RunHooks ==
    /\ main = "hooks"
    /\ hooks' = hooks + 1
    /\ main' = "returned"
    /\ UNCHANGED <<why, muxOpen, http, busy, setupVars, injected, running,
                   startVars, stopVars, ctxDone>>

StarterStep ==
    \/ \E p \in Protocols : StartNext(p)
    \/ StartOk
    \/ StartErr
    \/ StartOver

ShutdownStep ==
    \/ \E p \in Protocols : StopNext(p)
    \/ StopOk
    \/ StopErr
    \/ StopOver
    \/ Shutdown
    \/ RunHooks

Next ==
    \/ SetJWTAuth
    \/ \E p \in Protocols : RegisterProtocol(p)
    \/ Listen
    \/ StarterStep
    \/ ServeBegin
    \/ LongRequest
    \/ ServeErr
    \/ Signal
    \/ Timeout
    \/ StopHangs
    \/ ShutdownStep

Spec == Init /\ [][Next]_vars

-----------------------------------------------------------------------------
(* Properties. *)

(* "When config.JWT.Secret is set, unified JWT auth is enabled for every
   protocol" (app.go:124-125): in whatever order SetJWTAuth and
   RegisterProtocol were called, no protocol that supports it ever runs
   without the secret. *)
AuthEverywhere ==
    jwt => \A p \in AuthAware : running[p] => secret[p]

(* A protocol is served in one place: one with routes on the main router
   never runs a server of its own; under multiplexing one that takes a cmux
   listener was given it before its Start; and the walk over the registry that
   met no error leaves none out. *)
ServedOnce ==
    /\ \A p \in Protocols :
        running[p] => p \notin mounted /\ (muxing /\ p \in Named => injected[p])
    /\ starter.pc = "over" /\ starter.left = {} =>
        registered = mounted \cup attempted

(* The hooks run at most once, only on the signal path, when StopAll is through
   and the cmux is closed, and "after the server stops accepting connections"
   (app.go:295-296), short of one case: a signal that is handled before the
   spawned goroutine has called Serve on a listener of its own (app.go:375-377,
   405). *)
HooksAfterClose ==
    /\ hooks <= 1
    /\ hooks > 0 =>
        /\ why = "signal" /\ ~muxOpen
        /\ stop.left = {} /\ stop.cur = None
        /\ http = "serving" => missed /\ ~muxing

(* A protocol that is up when Listen returns from a signal either had not
   come up when StopAll looked at it, because the starting goroutine is not
   waited for, or comes after one whose Stop failed. *)
LeftoverExplained ==
    main = "returned" /\ why = "signal" =>
        \A p \in Protocols : running[p] => p \in late \/ stopErr

(* A signal ends Listen whatever the starting goroutine and the open requests
   are doing, unless it waits in the Stop of a protocol that heeds no deadline
   (app.go:396-409; grpc/server.go:201, mqtt/broker.go:260,
   websocket/server.go:327). *)
ShutdownCompletes ==
    (why = "signal") ~> (main = "returned" \/ (stuck /\ stop.cur \in Unbounded))

=============================================================================
