--------------------------- MODULE WebSocketServer ---------------------------
(***************************************************************************)
(* The WebSocket server of protocol/websocket/server.go: Start and Stop,    *)
(* the request handler up to the upgrade, the hijacked connections, the map *)
(* of connections behind ws.mu and Broadcast.                               *)
(*                                                                         *)
(* ws.mu is held across other steps by Stop alone (exclusively, while it    *)
(* waits in Shutdown) and by Broadcast (shared, while it writes, which has  *)
(* no deadline); every other critical section is one action.  As with every *)
(* sync.RWMutex, a Stop that waits for the lock keeps new readers out.      *)
(* fasthttp is external: Shutdown closes the listener and waits for the     *)
(* requests being handled; a hijacked connection is no longer one of them.  *)
(***************************************************************************)
EXTENDS Naturals, FiniteSets

CONSTANTS
    Conns,            \* clients, numbered as they arrive
    MaxConnections    \* WebSocketConfig.MaxConnections after SetDefaults

VARIABLES
    isRunning,    \* WebSocketServer.isRunning
    done,         \* the channel done is closed
    srv,          \* the listener: "none", "bound", "serving", "closed"
    starter,      \* the Start call
    stopper,      \* the Stop call: "idle", "wait" (for ws.mu), "drain", "mark"
    bcast,        \* Broadcast holds the lock shared
    connections,  \* WebSocketServer.connections
    conn,         \* per client, the step of its request or connection
    gone,         \* environment: the connection has failed or the client left
    disconnects,  \* calls of OnDisconnect, per connection
    peak          \* ghost: most handshakes ever past the test at once

lifeVars == <<isRunning, done, srv, starter, stopper>>
vars == <<isRunning, done, srv, starter, stopper, bcast, connections, conn,
          gone, disconnects, peak>>

(* A request that fasthttp counts as open, and a handshake between the test
   of the limit and the entry in the map. *)
InRequest == {"auth", "cap", "upgrading"}
Pending == {"upgrading", "hijacked"}
ConnPC == {"new", "rejected", "connecting", "open", "leaving", "closing", "done"}
          \cup InRequest \cup Pending

In(S) == {c \in Conns : conn[c] \in S}

Init ==
    /\ isRunning = FALSE /\ done = FALSE
    /\ srv = "none" /\ starter = "idle" /\ stopper = "idle"
    /\ bcast = FALSE
    /\ connections = {}
    /\ conn = [c \in Conns |-> "new"]
    /\ gone = [c \in Conns |-> FALSE]
    /\ disconnects = [c \in Conns |-> 0]
    /\ peak = 0

(* Stop holds ws.mu until its return. *)
Locked == stopper \in {"drain", "mark"}
CanRLock == stopper = "idle"
CanLock == ~Locked /\ ~bcast

-----------------------------------------------------------------------------
(* Start, called once, as the app does. *)

startFrame == <<done, stopper, bcast, connections, conn, gone,
                disconnects, peak>>

(* net.Listen succeeds; an error leaves nothing behind. *)
StartBind ==
    /\ starter = "idle" /\ CanLock /\ ~isRunning
    /\ srv' = "bound"
    /\ starter' = "bound"
    /\ UNCHANGED <<startFrame, isRunning>>

(* The key pair does not load: Start returns and leaves the listener open. *)
StartTLSErr ==
    /\ starter = "bound"
    /\ starter' = "failed"
    /\ UNCHANGED <<startFrame, isRunning, srv>>

StartMark ==
    /\ starter = "bound" /\ CanLock
    /\ isRunning' = TRUE
    /\ starter' = "spawn"
    /\ UNCHANGED <<startFrame, srv>>

(* go server.Serve(ln); Start returns before the goroutine has run. *)
StartSpawn ==
    /\ starter = "spawn"
    /\ starter' = "returned"
    /\ UNCHANGED <<startFrame, isRunning, srv>>

ServeBegin ==
    /\ starter = "returned" /\ srv = "bound"
    /\ srv' = "serving"
    /\ UNCHANGED <<startFrame, isRunning, starter>>

-----------------------------------------------------------------------------
(* Stop. *)

stopFrame == <<starter, bcast, connections, conn, gone, disconnects,
               peak>>

(* Stop is called, and waits for the lock. *)
StopCall ==
    /\ stopper = "idle"
    /\ stopper' = "wait"
    /\ UNCHANGED <<stopFrame, isRunning, done, srv>>

(* Stop has the lock: a server that does not run is left alone, the others are
   shut down.  One that does not serve yet has no listener that Shutdown could
   close: it returns at once. *)
StopLock ==
    /\ stopper = "wait" /\ CanLock
    /\ \/ ~isRunning /\ stopper' = "idle" /\ UNCHANGED srv
       \/ isRunning /\ srv = "serving" /\ srv' = "closed" /\ stopper' = "drain"
       \/ isRunning /\ srv # "serving" /\ stopper' = "mark" /\ UNCHANGED srv
    /\ UNCHANGED <<stopFrame, isRunning, done>>

(* Shutdown returns: no request is being handled. *)
StopDrained ==
    /\ stopper = "drain" /\ In(InRequest) = {}
    /\ stopper' = "mark"
    /\ UNCHANGED <<stopFrame, isRunning, done, srv>>

(* isRunning = false, close(done), and the deferred Unlock. *)
StopMark ==
    /\ stopper = "mark"
    /\ isRunning' = FALSE /\ done' = TRUE
    /\ stopper' = "idle"
    /\ UNCHANGED <<stopFrame, srv>>

-----------------------------------------------------------------------------
(* handleRequest, in a goroutine per request. *)

Goto(c, pc) == conn' = [conn EXCEPT ![c] = pc]

reqFrame == <<lifeVars, bcast, connections, gone, disconnects>>

Arrive(c) ==
    /\ conn[c] = "new" /\ srv = "serving"
    /\ \A d \in Conns : d < c => conn[d] # "new"
    /\ Goto(c, "auth")
    /\ UNCHANGED <<reqFrame, peak>>

(* The path and checkAuth, which reads the secret under the lock. *)
CheckAuth(c) ==
    /\ conn[c] = "auth" /\ CanRLock
    /\ Goto(c, "cap") \/ Goto(c, "rejected")
    /\ UNCHANGED <<reqFrame, peak>>

(* Mutant of AtCapacity: an off-by-one in the limit. *)
AtCapacityOffByOne == Cardinality(connections) > MaxConnections

AtCapacity == Cardinality(connections) >= MaxConnections

(* The test of the limit, under a lock that is released before the upgrade. *)
CheckCapacity(c) ==
    /\ conn[c] = "cap" /\ CanRLock
    /\ IF AtCapacity
       THEN Goto(c, "rejected") /\ UNCHANGED peak
       ELSE /\ Goto(c, "upgrading")
            /\ LET n == Cardinality(In(Pending)) + 1
               IN  peak' = IF n > peak THEN n ELSE peak
    /\ UNCHANGED reqFrame

(* Upgrade answers 101 and hands the connection over, or refuses (a foreign
   Origin, a bad handshake). *)
Upgrade(c) ==
    /\ conn[c] = "upgrading"
    /\ Goto(c, "hijacked") \/ Goto(c, "rejected")
    /\ UNCHANGED <<reqFrame, peak>>

-----------------------------------------------------------------------------
(* The hijacked connection, in a goroutine of its own. *)

Register(c) ==
    /\ conn[c] = "hijacked" /\ CanLock
    /\ connections' = connections \cup {c}
    /\ Goto(c, "connecting")
    /\ UNCHANGED <<lifeVars, bcast, gone, disconnects, peak>>

(* OnConnect returns; the ping goroutine, which reads and writes nothing that the
   server keeps, is spawned, and the read loop begins. *)
OnConnect(c) ==
    /\ conn[c] = "connecting"
    /\ Goto(c, "open")
    /\ UNCHANGED <<lifeVars, bcast, connections, gone, disconnects, peak>>

(* ReadMessage fails: the client is gone, sent rubbish, or let the deadline
   pass.  OnDisconnect is told the error. *)
ReadErr(c) ==
    /\ conn[c] = "open"
    /\ gone' = [gone EXCEPT ![c] = TRUE]
    /\ disconnects' = [disconnects EXCEPT ![c] = @ + 1]
    /\ Goto(c, "leaving")
    /\ UNCHANGED <<lifeVars, bcast, connections, peak>>

(* Mutant of Delete: the connection is closed before its entry is deleted. *)
DeleteAfterClose(c) ==
    /\ conn[c] = "leaving"
    /\ Goto(c, "closing")
    /\ UNCHANGED <<lifeVars, bcast, connections, gone, disconnects, peak>>

(* The deferred function: connDone is closed, the entry deleted ... *)
Delete(c) ==
    /\ conn[c] = "leaving" /\ CanLock
    /\ connections' = connections \ {c}
    /\ Goto(c, "closing")
    /\ UNCHANGED <<lifeVars, bcast, gone, disconnects, peak>>

(* ... then conn.Close() and OnDisconnect once more, without an error. *)
CloseConn(c) ==
    /\ conn[c] = "closing"
    /\ disconnects' = [disconnects EXCEPT ![c] = @ + 1]
    /\ Goto(c, "done")
    /\ UNCHANGED <<lifeVars, bcast, connections, gone, peak>>

(* Broadcast writes to every registered connection under the shared lock. *)
BroadcastBegin ==
    /\ ~bcast /\ CanRLock /\ connections # {}
    /\ bcast' = TRUE
    /\ UNCHANGED <<lifeVars, connections, conn, gone, disconnects, peak>>

BroadcastEnd ==
    /\ bcast
    /\ bcast' = FALSE
    /\ UNCHANGED <<lifeVars, connections, conn, gone, disconnects, peak>>

(* Environment: a client hangs up. *)
HangUp(c) ==
    /\ conn[c] = "open" /\ ~gone[c]
    /\ gone' = [gone EXCEPT ![c] = TRUE]
    /\ UNCHANGED <<lifeVars, bcast, connections, conn, disconnects, peak>>

-----------------------------------------------------------------------------
StarterStep == StartMark \/ StartSpawn \/ ServeBegin
StopperStep == StopLock \/ StopDrained \/ StopMark
RequestStep(c) == CheckAuth(c) \/ CheckCapacity(c) \/ Upgrade(c)
ConnStep(c) == Register(c) \/ OnConnect(c) \/ Delete(c) \/ CloseConn(c)

Next ==
    \/ StartBind
    \/ StartTLSErr
    \/ StarterStep
    \/ StopCall
    \/ StopperStep
    \/ BroadcastBegin
    \/ BroadcastEnd
    \/ \E c \in Conns :
        \/ Arrive(c)
        \/ RequestStep(c)
        \/ ConnStep(c)
        \/ ReadErr(c)
        \/ HangUp(c)

-----------------------------------------------------------------------------
(* Properties. *)

(* The test of the limit and the entry in the map are two critical sections
   (server.go:239-257).  The limit is overshot by no more than the handshakes
   that raced, less the one that had room. *)
CapWithinPeak ==
    Cardinality(connections) <= MaxConnections + (IF peak > 1 THEN peak - 1 ELSE 0)

(* Broadcast, which walks the map under the shared lock, never meets a
   connection that its handler has closed: the entry goes first. *)
RegisteredIsOpen ==
    \A c \in connections : conn[c] \in {"connecting", "open", "leaving"}

(* The application hears of every connection that its client has left, even
   while Stop or a Broadcast keeps the entry in the map. *)
DisconnectReported ==
    \A c \in Conns : gone[c] ~> disconnects[c] > 0

=============================================================================
