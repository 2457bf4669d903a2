------------------------------ MODULE Protocols ------------------------------
(***************************************************************************)
(* The protocol servers behind one interface.  A behaviour is one of a       *)
(* server of one kind (or of one part of it that shares no state with the     *)
(* rest): kind says which, and only the variables of that kind's module        *)
(* change.  Variables that several servers have under one name, isRunning,     *)
(* authSecret, the listener, are shared.  Each kind is shown to implement      *)
(* Service.                                                                 *)
(***************************************************************************)
EXTENDS Naturals, FiniteSets

CONSTANTS
    Requests, MaxStarts,                                  \* ProtocolServer
    Conns, MaxConnections,                                \* WebSocketServer
    Clients,                                              \* MQTTBroker, MCPServer
    Addrs, Tools, MaxToolCount, NoClient, NoAddr,         \* MCPServer
    Callers, MaxOps,                                      \* MQTTSubscriptions
    Max, MaxSize, MaxCount                                \* MCPReader

ASSUME ProtocolsAssumption ==
    /\ MaxStarts \in Nat \ {0}
    /\ IsFiniteSet(Conns) /\ Conns \subseteq Nat /\ MaxConnections \in Nat \ {0}
    /\ MaxToolCount \in Nat /\ NoClient \notin Clients /\ NoAddr \notin Addrs
    /\ MaxOps \in Nat
    /\ Max \in Nat \ {0} /\ MaxSize \in Nat /\ MaxSize > 2 * Max
    /\ MaxCount \in Nat

VARIABLES
    kind,
    isRunning, secret, required, kept, port, start, stop,           \* of several
    done, loop, client,
    captured, serving, shut, pend, starts, missed, again, leaked,   \* ProtocolServer
    req, token, endless,
    srv, starter, stopper, bcast, connections, conn, gone,          \* WebSocketServer
    disconnects, peak,
    anonymous, password, behind,                                    \* MQTTBroker
    listener, raced, stopped, tools, sessions, addr, authed,        \* MCPServer
    closed, left, trace,
    valid, subs, subSeq, handlers, call, crossed, ops,              \* MQTTSubscriptions
    size, sent, buffer, n, count, outcome                           \* MCPReader

L == INSTANCE ProtocolServer
W == INSTANCE WebSocketServer
B == INSTANCE MQTTBroker
M == INSTANCE MCPServer
U == INSTANCE MQTTSubscriptions
R == INSTANCE MCPReader

LibraryKinds == {"grpc", "connect", "graphql"}
Kinds == LibraryKinds \cup {"websocket", "mqtt", "subscriptions", "mcp", "reader"}

-----------------------------------------------------------------------------
(* The variables that only one module has. *)
ofLibrary == <<captured, serving, shut, pend, starts, missed, again, leaked,
               req, token, endless>>
ofWebSocket == <<srv, starter, stopper, bcast, connections, conn, gone,
                 disconnects, peak>>
ofBroker == <<anonymous, password, behind>>
ofMCP == <<listener, raced, stopped, tools, sessions, addr, authed, closed,
           left, trace>>
ofSubs == <<valid, subs, subSeq, handlers, call, crossed, ops>>
ofReader == <<size, sent, buffer, n, count, outcome>>
ofServers == <<isRunning, secret, required, kept, port, start, stop, done, loop,
               client>>
all == <<kind, ofServers, ofLibrary, ofWebSocket, ofBroker, ofMCP, ofSubs,
         ofReader>>

(* A configuration that a kind does not have is left at its default. *)
Init ==
    /\ kind \in Kinds
    /\ L!Init /\ W!Init /\ B!Init /\ M!Init /\ U!Init /\ R!Init
    /\ required => kind \in {"graphql", "mcp"}
    /\ kept => kind \in {"grpc", "connect", "mqtt"}
    /\ anonymous => kind = "mqtt"
    /\ ~valid => kind = "subscriptions"

(* Which variables a kind leaves alone. *)
AsLibrary ==
    /\ kind \in LibraryKinds
    /\ UNCHANGED <<done, loop, client, ofWebSocket, ofBroker, ofMCP, ofSubs, ofReader>>
AsWebSocket ==
    /\ kind = "websocket"
    /\ UNCHANGED <<kind, secret, required, kept, port, start, stop, loop, client,
                   ofLibrary, ofBroker, ofMCP, ofSubs, ofReader>>
AsBroker ==
    /\ kind = "mqtt"
    /\ UNCHANGED <<kind, required, done, ofLibrary, ofWebSocket, ofMCP, ofSubs,
                   ofReader>>
AsMCP ==
    /\ kind = "mcp"
    /\ UNCHANGED <<kind, kept, ofLibrary, ofWebSocket, ofBroker, ofSubs, ofReader>>
AsSubs ==
    /\ kind = "subscriptions"
    /\ UNCHANGED <<kind, ofServers, ofLibrary, ofWebSocket, ofBroker, ofMCP, ofReader>>
AsReader ==
    /\ kind = "reader"
    /\ UNCHANGED <<kind, ofServers, ofLibrary, ofWebSocket, ofBroker, ofMCP, ofSubs>>

Next ==
    \/ L!Next /\ AsLibrary
    \/ W!Next /\ AsWebSocket
    \/ B!Next /\ AsBroker
    \/ M!Next /\ AsMCP
    \/ U!Next /\ AsSubs
    \/ R!Next /\ AsReader

(* Goroutines that can run do run; handlers that return do so; a read from a
   connection that is gone or closed fails; the context of Connect's Stop
   expires.  No fairness for calls of Start and Stop, for what clients do, for
   endless handlers and tools, or for the end of a Broadcast. *)
Fairness ==
    /\ WF_all(L!StarterStep /\ AsLibrary)
    /\ WF_all(L!StopperStep /\ AsLibrary)
    /\ \A r \in Requests : WF_all(L!RequestStep(r) /\ AsLibrary)
    /\ WF_all(W!StarterStep /\ AsWebSocket)
    /\ WF_all(W!StopperStep /\ AsWebSocket)
    /\ \A c \in Conns :
        /\ WF_all(W!RequestStep(c) /\ AsWebSocket)
        /\ WF_all(W!ConnStep(c) /\ AsWebSocket)
        /\ WF_all(gone[c] /\ W!ReadErr(c) /\ AsWebSocket)
    /\ WF_all(B!BrokerStep /\ AsBroker)
    /\ WF_all(M!ServerStep /\ AsMCP)
    /\ \A c \in Clients :
        /\ WF_all(B!ClientStep(c) /\ AsBroker)
        /\ WF_all(M!ConnStep(c) /\ AsMCP)

Spec == Init /\ [][Next]_all /\ Fairness

-----------------------------------------------------------------------------
(* The refinement mapping. *)

Starting ==
    CASE kind \in LibraryKinds -> start # "idle"
      [] kind = "websocket"    -> starter = "bound"
      [] kind = "mqtt"         -> start \in {"added", "spawned"}
      [] kind = "mcp"          -> start = "bound" /\ ~isRunning /\ ~stopped
      [] OTHER                 -> FALSE

(* Stop does its work from when it has the lock. *)
Stopping == IF kind = "websocket" THEN stopper \in {"drain", "mark"} ELSE stop # "idle"

Serving ==
    CASE kind \in LibraryKinds    -> serving
      [] kind = "websocket"       -> srv = "serving"
      [] kind \in {"mqtt", "mcp"} -> loop = "running" /\ port = "open"
      [] OTHER                    -> FALSE

Busy ==
    CASE kind \in LibraryKinds -> L!InFlight # {}
      [] kind = "websocket"    -> W!In(W!InRequest) # {}
      [] OTHER                 -> FALSE

(* fasthttp forgets a Stop that comes before Serve; the one of MCP that falls
   between the two writes of Start sees no listener to close. *)
Missed ==
    CASE kind \in LibraryKinds -> missed
      [] kind = "websocket"    -> (done \/ stopper = "mark") /\ srv \in {"bound", "serving"}
      [] kind = "mcp"          -> raced
      [] OTHER                 -> FALSE

Caps == [careful |-> kind \in {"grpc", "connect", "mqtt"},
         drains  |-> kind \in LibraryKinds \cup {"websocket"},
         bounded |-> kind = "connect"]

Contract == INSTANCE Service WITH
    starting <- Starting, running <- isRunning \/ Stopping, serving <- Serving,
    stopping <- Stopping, busy <- Busy, missed <- Missed, again <- again,
    caps <- Caps

-----------------------------------------------------------------------------
(* Properties. *)

(* Every server keeps the contract of Service: it serves between Start and
   Stop only, except where a Stop came too early to be noticed, and a Stop that
   drains returns when no request is left, except that of Connect with an
   error. *)
ServiceImplemented == Contract!Spec

(* What may hold Stop for ever: a handler that does not return, where the
   library ignores the context (gRPC, GraphQL); a request or a client that
   needs the lock Stop holds while it waits for it (GraphQL, WebSocket, MQTT);
   a Broadcast to a client that does not read, which holds the lock Stop needs
   (WebSocket); and a client that Close has not disconnected and that stays
   (MQTT). *)
Held ==
    \/ /\ kind \in {"grpc", "graphql"}
       /\ \E r \in L!InFlight : endless[r] /\ req[r] = "handler"
    \/ kind = "graphql" /\ \E r \in L!InFlight : req[r] = "auth"
    \/ kind = "websocket" /\ (bcast \/ W!In({"auth", "cap"}) # {})
    \/ kind = "mqtt" /\ B!In(B!Attached) # {}

(* Stop has been called and has not returned. *)
StopCalled == Stopping \/ stopper = "wait"

(* Stop returns unless one of the waits in Held lasts for ever: always for
   Connect and MCP (the Stop methods of the servers). *)
StopReturns == StopCalled ~> (~StopCalled \/ []Held)

(* Who is served after Stop: MQTT clients that were on their way to a session,
   MCP sessions that Stop could not know (MQTTBroker!LeftoverClientsExplained,
   MCPServer!LeftoverSessionsExplained). *)
LeftoversExplained ==
    /\ kind = "mqtt" => B!LeftoverClientsExplained
    /\ kind = "mcp" => M!LeftoverSessionsExplained

(* A client that is gone is noticed: OnDisconnect is called, the MCP session
   ends (WebSocketServer!DisconnectReported, MCPServer!SessionsEnd). *)
GoneNoticed == W!DisconnectReported /\ M!SessionsEnd

(* MQTTBroker!ConnectAnswered: a client is not kept waiting by the others. *)
ConnectAnswered == B!ConnectAnswered

(* MQTTSubscriptions!HandlersMatchSubs: the handlers agree with the entries. *)
HandlersMatchSubs == U!HandlersMatchSubs

(* MCPReader!SizeBounded: what the limit on a request is worth. *)
SizeBounded == R!SizeBounded

(* WebSocketServer!CapWithinPeak: how far the limit is overshot. *)
CapWithinPeak == W!CapWithinPeak

(* WebSocketServer!RegisteredIsOpen: Broadcast meets open connections only. *)
RegisteredIsOpen == W!RegisteredIsOpen

=============================================================================
