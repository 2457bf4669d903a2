------------------------------ MODULE TCPProxy ------------------------------
(***************************************************************************)
(* The life cycle of the layer-4 proxy of proxy/tcp.go: Start, Stop, the    *)
(* accept loop of each start (a "generation"), the connection handlers it   *)
(* spawns, the WaitGroup conns, the atomics active and Target.active, and   *)
(* the start and stop of the health checker's loop.  TCPProxy.total feeds   *)
(* Stats only and is left out.                                              *)
(*                                                                         *)
(* One goroutine calls Start and another calls Stop: App.Listen starts the  *)
(* protocols in a goroutine of its own and stops them from the signal       *)
(* handler, so the two may overlap.  A section under p.mu is one action;    *)
(* every step outside it is an action of its own.  checker.cancel is shared *)
(* without a lock; checker.start tests and sets it in one step, since it is  *)
(* the only one to set it and a Stop between the two would find it nil.     *)
(***************************************************************************)
EXTENDS Integers, FiniteSets

CONSTANTS
    Conns,            \* client connections, numbered as they are accepted
    Targets,          \* the upstream pool
    MaxConnections,   \* TCPConfig.MaxConnections; 0 is no limit
    Enabled,          \* TCPConfig.Enabled
    HealthCheck,      \* TCPConfig.HealthCheck.Enable
    Mux,              \* the app may inject a cmux listener
    MaxGen            \* bound: number of successful Start calls

ASSUME ProxyAssumption ==
    /\ MaxConnections \in Nat
    /\ Enabled \in BOOLEAN
    /\ HealthCheck \in BOOLEAN
    /\ Mux \in BOOLEAN
    /\ MaxGen \in Nat
    /\ IsFiniteSet(Conns) /\ Conns \subseteq Nat \ {0}

Gens == 1..MaxGen
NoGen == 0
None == "none"     \* no target
NoConn == 0

(* A listener is "nil", the injected one, or the one that Start bound in a
   generation; own listeners are named by that generation. *)
Nil == -1
Injected == 0
Listeners == Gens \cup {Nil, Injected}

VARIABLES
    isRunning, listener, injected,   \* fields of TCPProxy under p.mu
    gen,          \* generations started so far; p.cancel belongs to the last
    cancelled,    \* generations whose serveCtx is done
    open,         \* listeners that accept: own ones, and Injected
    starter,      \* the Start call: pc, and the generation it started
    stopper,      \* the Stop call: pc, and what it captured under p.mu
    chkCancel,    \* checker.cancel # nil
    chkLoop,      \* the checker's loop goroutine is alive
    loop,         \* per generation, the accept loop: pc, listener, connection
    conn,         \* per connection: pc, generation, target
    conns,        \* the WaitGroup's counter
    active,       \* TCPProxy.active
    tActive,      \* Target.active
    drained,      \* ghost: the last Stop returned because conns.Wait did
    overlapped    \* ghost: a Start and a Stop have overlapped

lockVars  == <<isRunning, listener, injected, gen>>
chkVars   == <<chkCancel, chkLoop>>
countVars == <<conns, active, tActive>>
ghostVars == <<drained, overlapped>>
vars == <<isRunning, listener, injected, gen, cancelled, open, starter,
          stopper, chkCancel, chkLoop, loop, conn, conns, active,
          tActive, drained, overlapped>>

IdleStart == [pc |-> "idle", gen |-> NoGen]
IdleStop == [pc |-> "idle", gen |-> NoGen, ln |-> Nil, injected |-> FALSE]

(* Handler states.  "held": Accept returned it, the loop has not yet spawned
   its handler. *)
Handling == {"hook", "dial", "open", "closing", "ret"}
ConnPC == {"new", "held", "done", "ret2"} \cup Handling

Init ==
    /\ isRunning = FALSE /\ listener = Nil /\ injected = FALSE
    /\ gen = 0
    /\ cancelled = {}
    /\ open = {}
    /\ starter = IdleStart
    /\ stopper = IdleStop
    /\ chkCancel = FALSE /\ chkLoop = FALSE
    /\ loop = [g \in Gens |-> [pc |-> "none", ln |-> Nil, cur |-> NoConn]]
    /\ conn = [c \in Conns |-> [pc |-> "new", gen |-> NoGen, target |-> None]]
    /\ conns = 0 /\ active = 0
    /\ tActive = [t \in Targets |-> 0]
    /\ drained = FALSE /\ overlapped = FALSE

-----------------------------------------------------------------------------
(* SetListener, called by the owner of an open listener before the first Start,
   at most once. *)
SetListener ==
    /\ Mux /\ gen = 0 /\ ~injected
    /\ listener' = Injected
    /\ injected' = TRUE
    /\ open' = {Injected}
    /\ UNCHANGED <<isRunning, gen, cancelled, starter, stopper, chkVars,
                   loop, conn, countVars, ghostVars>>

(* Start under p.mu.  With no listener set it binds the configured port,
   which fails while an own listener still holds it; every early return
   leaves the state alone and is not an action. *)
StartLocked ==
    LET g  == gen + 1
        ln == IF listener = Nil THEN g ELSE listener
    IN  /\ starter.pc = "idle" /\ gen < MaxGen
        /\ ~isRunning /\ Enabled /\ Targets # {}
        /\ listener = Nil => open \cap Gens = {}
        /\ open' = IF listener = Nil THEN open \cup {g} ELSE open
        /\ listener' = ln
        /\ gen' = g
        /\ isRunning' = TRUE
        /\ starter' = [pc |-> "checker", gen |-> g]
        /\ drained' = FALSE
        /\ overlapped' = (overlapped \/ stopper.pc # "idle")
        /\ loop' = [loop EXCEPT ![g].ln = ln]
        /\ UNCHANGED <<injected, cancelled, stopper, chkVars, conn, countVars>>

(* checker.start(): a no-op when disabled or when cancel is set. *)
StartChecker ==
    /\ starter.pc = "checker"
    /\ starter' = [starter EXCEPT !.pc = "spawn"]
    /\ IF HealthCheck /\ ~chkCancel
       THEN chkCancel' = TRUE /\ chkLoop' = TRUE
       ELSE UNCHANGED chkVars
    /\ UNCHANGED <<lockVars, cancelled, open, stopper, loop, conn, countVars,
                   ghostVars>>

(* go acceptLoop(serveCtx, ln); Start returns. *)
StartSpawn ==
    /\ starter.pc = "spawn"
    /\ loop' = [loop EXCEPT ![starter.gen].pc = "accept"]
    /\ starter' = IdleStart
    /\ UNCHANGED <<lockVars, cancelled, open, stopper, chkVars, conn,
                   countVars, ghostVars>>

-----------------------------------------------------------------------------
(* Stop under p.mu. *)
StopLocked ==
    /\ stopper.pc = "idle" /\ isRunning
    /\ isRunning' = FALSE
    /\ stopper' = [pc |-> "cancel", gen |-> gen, ln |-> listener,
                   injected |-> injected]
    /\ listener' = Nil
    /\ overlapped' = (overlapped \/ starter.pc # "idle")
    /\ UNCHANGED <<injected, gen, cancelled, open, starter, chkVars, loop,
                   conn, countVars, drained>>

(* Mutant of StopCancel: the serve context is not cancelled. *)
StopCancelMissing ==
    /\ stopper.pc = "cancel"
    /\ stopper' = [stopper EXCEPT !.pc = "checker"]
    /\ UNCHANGED <<lockVars, cancelled, open, starter, chkVars, loop, conn,
                   countVars, ghostVars>>

(* cancel() of the captured generation. *)
StopCancel ==
    /\ stopper.pc = "cancel"
    /\ cancelled' = cancelled \cup {stopper.gen}
    /\ stopper' = [stopper EXCEPT !.pc = "checker"]
    /\ UNCHANGED <<lockVars, open, starter, chkVars, loop, conn, countVars,
                   ghostVars>>

(* Mutant of StopChecker: the checker is left running. *)
StopCheckerMissing ==
    /\ stopper.pc = "checker"
    /\ stopper' = [stopper EXCEPT !.pc = "close"]
    /\ UNCHANGED <<lockVars, cancelled, open, starter, chkVars, loop, conn,
                   countVars, ghostVars>>

(* checker.stop(): nothing to do, or cancel the loop and wait for it. *)
StopChecker ==
    /\ stopper.pc = "checker"
    /\ stopper' = [stopper EXCEPT !.pc = IF chkCancel THEN "checkerWait"
                                                      ELSE "close"]
    /\ UNCHANGED <<lockVars, cancelled, open, starter, chkVars, loop, conn,
                   countVars, ghostVars>>

(* The loop has exited (HealthChecker!StopReturns), stopped.Wait() returns and
   checker.cancel = nil.  Until then a concurrent start is a no-op. *)
StopCheckerEnd ==
    /\ stopper.pc = "checkerWait"
    /\ chkLoop' = FALSE
    /\ chkCancel' = FALSE
    /\ stopper' = [stopper EXCEPT !.pc = "close"]
    /\ UNCHANGED <<lockVars, cancelled, open, starter, loop, conn, countVars,
                   ghostVars>>

(* Close the listener unless one was ever injected: injected is not reset. *)
StopClose ==
    /\ stopper.pc = "close"
    /\ open' = IF stopper.injected THEN open ELSE open \ {stopper.ln}
    /\ stopper' = [stopper EXCEPT !.pc = "wait"]
    /\ UNCHANGED <<lockVars, cancelled, starter, chkVars, loop, conn,
                   countVars, ghostVars>>

(* conns.Wait() returned. *)
StopDone ==
    /\ stopper.pc = "wait" /\ conns = 0
    /\ stopper' = IdleStop
    /\ drained' = ~isRunning
    /\ UNCHANGED <<lockVars, cancelled, open, starter, chkVars, loop, conn,
                   countVars, overlapped>>

(* Stop's own ctx is done first (or as well: the select may choose it). *)
StopTimeout ==
    /\ stopper.pc = "wait"
    /\ stopper' = IdleStop
    /\ UNCHANGED <<lockVars, cancelled, open, starter, chkVars, loop, conn,
                   countVars, ghostVars>>

(* The app closes the multiplexed listener. *)
MuxClose ==
    /\ Injected \in open
    /\ open' = open \ {Injected}
    /\ UNCHANGED <<lockVars, cancelled, starter, stopper, chkVars, loop, conn,
                   countVars, ghostVars>>

-----------------------------------------------------------------------------
(* acceptLoop. *)

(* Accept returns the next client connection. *)
Accept(g, c) ==
    /\ loop[g].pc = "accept" /\ loop[g].ln \in open
    /\ conn[c].pc = "new"
    /\ \A d \in Conns : d < c => conn[d].pc # "new"
    /\ loop' = [loop EXCEPT ![g].pc = "check", ![g].cur = c]
    /\ conn' = [conn EXCEPT ![c] = [@ EXCEPT !.pc = "held", !.gen = g]]
    /\ UNCHANGED <<lockVars, cancelled, open, starter, stopper, chkVars,
                   countVars, ghostVars>>

(* Accept fails because the listener is closed; both arms of the error path
   return (a listener here has no deadline, so Accept never times out). *)
AcceptErr(g) ==
    /\ loop[g].pc = "accept" /\ loop[g].ln \notin open
    /\ loop' = [loop EXCEPT ![g].pc = "exit", ![g].ln = Nil]
    /\ UNCHANGED <<lockVars, cancelled, open, starter, stopper, chkVars, conn,
                   countVars, ghostVars>>

(* Accept fails for another reason (no file descriptor left): the loop returns
   as well, although the proxy keeps running. *)
AcceptFails(g) ==
    /\ loop[g].pc = "accept" /\ loop[g].ln \in open
    /\ loop' = [loop EXCEPT ![g].pc = "exit", ![g].ln = Nil]
    /\ UNCHANGED <<lockVars, cancelled, open, starter, stopper, chkVars, conn,
                   countVars, ghostVars>>

(* Mutant of Full: an off-by-one in the limit. *)
FullOffByOne == MaxConnections > 0 /\ active > MaxConnections

(* The MaxConnections test. *)
Full == MaxConnections > 0 /\ active >= MaxConnections

(* A connection over the limit is closed at once. *)
CheckLimit(g) ==
    /\ loop[g].pc = "check"
    /\ IF Full
       THEN /\ conn' = [conn EXCEPT ![loop[g].cur].pc = "done",
                                    ![loop[g].cur].gen = NoGen]
            /\ loop' = [loop EXCEPT ![g].pc = "accept", ![g].cur = NoConn]
       ELSE /\ loop' = [loop EXCEPT ![g].pc = "add"]
            /\ UNCHANGED conn
    /\ UNCHANGED <<lockVars, cancelled, open, starter, stopper, chkVars,
                   countVars, ghostVars>>

(* conns.Add(1). *)
AddConn(g) ==
    /\ loop[g].pc = "add"
    /\ conns' = conns + 1
    /\ loop' = [loop EXCEPT ![g].pc = "count"]
    /\ UNCHANGED <<lockVars, cancelled, open, starter, stopper, chkVars, conn,
                   active, tActive, ghostVars>>

(* active.Add(1), go handle. *)
Spawn(g) ==
    /\ loop[g].pc = "count"
    /\ active' = active + 1
    /\ conn' = [conn EXCEPT ![loop[g].cur].pc = "hook"]
    /\ loop' = [loop EXCEPT ![g].pc = "accept", ![g].cur = NoConn]
    /\ UNCHANGED <<lockVars, cancelled, open, starter, stopper, chkVars,
                   conns, tActive, ghostVars>>

-----------------------------------------------------------------------------
(* handle. *)

connFrame == <<lockVars, cancelled, open, starter, stopper, chkVars, loop,
               ghostVars>>

(* OnConnect accepts the connection and Pick returns a target; or the hook
   returns an error, or Pick nil (ErrNoTarget), and handle returns. *)
Admit(c) ==
    /\ conn[c].pc = "hook"
    /\ \/ \E t \in Targets :
            conn' = [conn EXCEPT ![c].pc = "dial", ![c].target = t]
       \/ conn' = [conn EXCEPT ![c].pc = "ret"]
    /\ UNCHANGED <<connFrame, countVars>>

(* dialUpstream succeeds, target.active.Add(1), and the watcher is spawned. *)
DialOk(c) ==
    /\ conn[c].pc = "dial"
    /\ tActive' = [tActive EXCEPT ![conn[c].target] = @ + 1]
    /\ conn' = [conn EXCEPT ![c].pc = "open"]
    /\ UNCHANGED <<connFrame, conns, active>>

(* Mutant of DialErr: the error path gives back a slot it never took. *)
DialErrGivesBack(c) ==
    /\ conn[c].pc = "dial"
    /\ tActive' = [tActive EXCEPT ![conn[c].target] = @ - 1]
    /\ conn' = [conn EXCEPT ![c].pc = "ret", ![c].target = None]
    /\ UNCHANGED <<connFrame, conns, active>>

(* dialUpstream fails; the target is marked down (see HealthChecker). *)
DialErr(c) ==
    /\ conn[c].pc = "dial"
    /\ conn' = [conn EXCEPT ![c].pc = "ret", ![c].target = None]
    /\ UNCHANGED <<connFrame, countVars>>

(* One of the peers ends the relay. *)
PeerClose(c) ==
    /\ conn[c].pc = "open"
    /\ conn' = [conn EXCEPT ![c].pc = "closing"]
    /\ UNCHANGED <<connFrame, countVars>>

(* Mutant of WatcherClose: there is no watcher, only the peers end a relay. *)
WatcherCloseMissing(c) ==
    /\ conn[c].pc = "open" /\ conn[c].gen \in cancelled
    /\ conn[c].pc = "closing"
    /\ UNCHANGED vars

(* The watcher goroutine: ctx is done, so it closes both sides and the relay
   ends. *)
WatcherClose(c) ==
    /\ conn[c].pc = "open" /\ conn[c].gen \in cancelled
    /\ conn' = [conn EXCEPT ![c].pc = "closing"]
    /\ UNCHANGED <<connFrame, countVars>>

(* OnClose, then the deferred target.active.Add(-1). *)
Release(c) ==
    /\ conn[c].pc = "closing"
    /\ tActive' = [tActive EXCEPT ![conn[c].target] = @ - 1]
    /\ conn' = [conn EXCEPT ![c].pc = "ret", ![c].target = None]
    /\ UNCHANGED <<connFrame, conns, active>>

(* The deferred active.Add(-1) of the accept loop's goroutine. *)
Uncount(c) ==
    /\ conn[c].pc = "ret"
    /\ active' = active - 1
    /\ conn' = [conn EXCEPT ![c].pc = "ret2"]
    /\ UNCHANGED <<connFrame, conns, tActive>>

(* The deferred conns.Done(). *)
Done(c) ==
    /\ conn[c].pc = "ret2"
    /\ conns' = conns - 1
    /\ conn' = [conn EXCEPT ![c].pc = "done", ![c].gen = NoGen]
    /\ UNCHANGED <<connFrame, active, tActive>>

-----------------------------------------------------------------------------
StarterStep == StartChecker \/ StartSpawn
StopperStep == StopCancel \/ StopChecker \/ StopCheckerEnd \/ StopClose \/ StopDone
LoopStep(g) == AcceptErr(g) \/ CheckLimit(g) \/ AddConn(g) \/ Spawn(g)
HandlerStep(c) ==
    \/ Admit(c)
    \/ DialOk(c)
    \/ DialErr(c)
    \/ WatcherClose(c)
    \/ Release(c)
    \/ Uncount(c)
    \/ Done(c)

Next ==
    \/ SetListener
    \/ StartLocked
    \/ StarterStep
    \/ StopLocked
    \/ StopperStep
    \/ StopTimeout
    \/ MuxClose
    \/ \E g \in Gens : LoopStep(g) \/ AcceptFails(g) \/ \E c \in Conns : Accept(g, c)
    \/ \E c \in Conns : HandlerStep(c) \/ PeerClose(c)

Spec == Init /\ [][Next]_vars

(* Goroutines that can run do run, the OnConnect hook returns and a dial ends
   within DialTimeout.  No fairness on clients arriving or hanging up, on
   transient errors of Accept, on calls of Start and Stop, or on the expiry of
   Stop's context. *)
Fairness ==
    /\ WF_vars(StarterStep)
    /\ WF_vars(StopperStep)
    /\ \A g \in Gens : WF_vars(LoopStep(g))
    /\ \A c \in Conns : WF_vars(HandlerStep(c))

FairSpec == Spec /\ Fairness

-----------------------------------------------------------------------------
(* Properties. *)

(* The connections in one of the given steps of their handler; those that
   active, the WaitGroup and Target.active stand for; and the accept loops
   between two steps of spawning a handler. *)
In(S) == {c \in Conns : conn[c].pc \in S}
Handlers == In(Handling)
Unfinished == In(Handling \cup {"ret2"})
Relays(t) == {c \in In({"open", "closing"}) : conn[c].target = t}
Adding == {g \in Gens : loop[g].pc \in {"add", "count"}}
Added == {g \in Gens : loop[g].pc = "count"}

Starter == [pc : {"idle", "checker", "spawn"}, gen : Gens \cup {NoGen}]
Stopper == [pc : {"idle", "cancel", "checker", "checkerWait", "close", "wait"},
            gen : Gens \cup {NoGen}, ln : Listeners, injected : BOOLEAN]
Loop == [pc : {"none", "accept", "check", "add", "count", "exit"},
         ln : Listeners, cur : Conns \cup {NoConn}]
Conn == [pc : ConnPC, gen : Gens \cup {NoGen}, target : Targets \cup {None}]

(* The types of everything but the counters. *)
StateOK ==
    /\ isRunning \in BOOLEAN /\ listener \in Listeners /\ injected \in BOOLEAN
    /\ gen \in 0..MaxGen
    /\ cancelled \subseteq Gens
    /\ open \subseteq Gens \cup {Injected}
    /\ starter \in Starter
    /\ stopper \in Stopper
    /\ chkCancel \in BOOLEAN /\ chkLoop \in BOOLEAN
    /\ loop \in [Gens -> Loop]
    /\ conn \in [Conns -> Conn]
    /\ drained \in BOOLEAN /\ overlapped \in BOOLEAN

(* Type invariant.  The counters are decremented by deferred calls and never
   go below zero. *)
TypeOK ==
    /\ StateOK
    /\ conns \in Nat /\ active \in Nat 
    /\ tActive \in [Targets -> Nat]

(* The counters are exact on every path out of handle: active counts the
   handlers that have not run their deferred decrement, the WaitGroup those
   and the ones about to be spawned, Target.active the relays to that
   target.  LeastConn balances on the last, the limit on the first, Stop
   waits on the second. *)
CountersExact ==
    /\ active = Cardinality(Handlers)
    /\ conns = Cardinality(Unfinished) + Cardinality(Added)
    /\ \A t \in Targets : tActive[t] = Cardinality(Relays(t))

(* MaxConnections holds while there is one accept loop, and a restart that
   overlaps the old loop can exceed it by at most one connection per
   generation: the test and the increment are two steps. *)
CapHolds ==
    MaxConnections > 0 => active <= MaxConnections + (IF gen > 1 THEN gen - 1 ELSE 0)

Quiet == starter.pc = "idle" /\ stopper.pc = "idle" /\ ~overlapped

(* As long as Start and Stop have not overlapped, the health checker's loop
   runs exactly while the proxy does, and a stopped proxy holds no port: no own
   listener is left open (unless a listener was injected once, since injected
   is never reset). *)
RestMatchesState ==
    Quiet =>
        /\ chkLoop <=> isRunning /\ HealthCheck
        /\ ~isRunning /\ ~injected => open \cap Gens = {}

(* "Stop closes the listener and waits for in-flight connections to finish"
   (tcp.go:243-244), short of the connections that an accept loop had in hand
   when Wait returned, and of those it takes from an injected listener later:
   these meet a cancelled context (tcp.go:258-279, 304-311). *)
StragglersCancelled == drained => \A c \in Handlers : conn[c].gen \in cancelled

(* A connection whose generation has been cancelled is torn down, at whatever
   step of its handler the cancellation finds it: "a long-lived database
   session cannot hold Stop open" (tcp.go:348-349). *)
CancelledConnsEnd ==
    \A c \in Conns :
        (conn[c].pc \in Handling /\ conn[c].gen \in cancelled)
            ~> conn[c].pc = "done"

(* Stop returns without its context expiring, unless a later generation has
   been started meanwhile: the WaitGroup is shared between generations. *)
StopReturns ==
    stopper.pc # "idle" ~> stopper.pc = "idle" \/ gen > stopper.gen

=============================================================================
