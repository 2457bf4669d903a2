------------------------------ MODULE MCPServer ------------------------------
(***************************************************************************)
(* The MCP server of protocol/mcp/server.go: Start, which publishes the     *)
(* listener and isRunning without the lock, the accept loop, Stop, and per    *)
(* connection the session in the map, the requests with their auth gate and   *)
(* the clean-up.                                                            *)
(*                                                                         *)
(* A session is known by the remote address of its connection.  The same      *)
(* address may come back once the server has closed the connection that had   *)
(* it, which its handler does before it deletes the session.                 *)
(***************************************************************************)
EXTENDS Naturals, FiniteSets

CONSTANTS
    Clients,        \* connections
    Addrs,          \* remote addresses
    Tools,
    MaxToolCount,   \* MCPConfig.MaxToolCount
    NoClient, NoAddr

VARIABLES
    isRunning,
    listener,    \* the field listener is set
    done,        \* the channel done is closed
    port,        \* the listener itself: "none", "open", "closed"
    loop,        \* acceptConnections: "none", "running", "over"
    start,       \* the Start call: "idle", "bound", "returned"
    stop,        \* Stop holds the lock: "idle", "closing"
    raced,       \* ghost: Stop saw isRunning and no listener
    stopped,     \* ghost: Stop has closed the sessions it knew
    tools,
    secret,      \* authSecret # ""
    required,    \* MCPConfig.RequireAuth
    sessions,    \* per address, the client whose session is registered
    client,        \* per client, the step of handleConnection
    addr,        \* per client, its remote address
    authed,      \* per client, session.authenticated
    closed,      \* per client, Stop has closed its connection
    left,        \* environment: per client, it has hung up
    trace        \* ghost, per client: why Stop may have missed its session

lifeVars == <<isRunning, listener, done, port, loop, start, stop, raced, stopped>>
regVars == <<tools, secret, required>>
connVars == <<sessions, client, addr, authed, closed, left, trace>>
vars == <<lifeVars, regVars, connVars>>

(* The states in which handleConnection still uses the connection. *)
Live == {"accepted", "reading", "calling"}
In(S) == {c \in Clients : client[c] \in S}

(* port is left to Protocols, where servers that are given a listener begin
   with an open one; this one always binds its own. *)
Init ==
    /\ isRunning = FALSE /\ listener = FALSE /\ done = FALSE
    /\ loop = "none" /\ start = "idle" /\ stop = "idle"
    /\ raced = FALSE /\ stopped = FALSE
    /\ tools = {} /\ secret = FALSE /\ required \in BOOLEAN
    /\ sessions = [a \in Addrs |-> NoClient]
    /\ client = [c \in Clients |-> "new"]
    /\ addr = [c \in Clients |-> NoAddr]
    /\ authed = [c \in Clients |-> FALSE]
    /\ closed = [c \in Clients |-> FALSE]
    /\ left = [c \in Clients |-> FALSE]
    /\ trace = [c \in Clients |-> "known"]

Unlocked == stop = "idle"

-----------------------------------------------------------------------------
(* The registries. *)

(* At the limit a tool is refused, also one that would replace another. *)
RegisterTool(t) ==
    /\ Unlocked
    /\ Cardinality(tools) < MaxToolCount
    /\ t \notin tools
    /\ tools' = tools \cup {t}
    /\ UNCHANGED <<lifeVars, secret, required, connVars>>

SetAuthSecret ==
    /\ Unlocked /\ ~secret
    /\ secret' = TRUE
    /\ UNCHANGED <<lifeVars, tools, required, connVars>>

-----------------------------------------------------------------------------
(* Start, called once. *)

(* A key pair that does not load closes the listener again: nothing is left. *)
StartBind ==
    /\ start = "idle" /\ Unlocked /\ ~isRunning
    /\ port' = "open"
    /\ start' = "bound"
    /\ UNCHANGED <<isRunning, listener, done, loop, stop, raced, stopped, regVars,
                   connVars>>

(* listener and isRunning are written without the lock: another goroutine may
   see either first. *)
StartPublish ==
    /\ start = "bound"
    /\ \/ ~listener /\ listener' = TRUE /\ UNCHANGED <<isRunning, start>>
       \/ ~isRunning /\ ~stopped /\ isRunning' = TRUE /\ UNCHANGED <<listener, start>>
       \/ listener /\ (isRunning \/ stopped) /\ start' = "returned"
          /\ UNCHANGED <<isRunning, listener>>
    /\ loop' = IF start' = "returned" THEN "running" ELSE loop
    /\ UNCHANGED <<done, port, stop, raced, stopped, regVars, connVars>>

-----------------------------------------------------------------------------
(* Stop, under the lock. *)

(* It closes the sessions of the map and the listener, if it sees one. *)
StopClose ==
    /\ Unlocked /\ isRunning
    /\ closed' = [c \in Clients |-> closed[c] \/ \E a \in Addrs : sessions[a] = c]
    /\ port' = IF listener THEN "closed" ELSE port
    /\ raced' = (raced \/ ~listener)
    /\ stopped' = TRUE
    /\ stop' = "closing"
    /\ UNCHANGED <<isRunning, listener, done, loop, start, regVars, sessions,
                   client, addr, authed, left, trace>>

StopMark ==
    /\ stop = "closing"
    /\ isRunning' = FALSE /\ done' = TRUE
    /\ stop' = "idle"
    /\ UNCHANGED <<listener, port, loop, start, raced, stopped, regVars, connVars>>

(* Accept fails: the loop goes on until done is closed. *)
AcceptErr ==
    /\ loop = "running" /\ port = "closed" /\ done
    /\ loop' = "over"
    /\ UNCHANGED <<isRunning, listener, done, port, start, stop, raced, stopped,
                   regVars, connVars>>

-----------------------------------------------------------------------------
(* handleConnection, in a goroutine per connection. *)

Goto(c, pc) == client' = [client EXCEPT ![c] = pc]

(* The address is free again once the server has closed its last user. *)
Accept(c) ==
    /\ loop = "running" /\ port = "open"
    /\ client[c] = "new"
    /\ \E a \in Addrs \ {addr[d] : d \in In(Live)} : addr' = [addr EXCEPT ![c] = a]
    /\ Goto(c, "accepted")
    /\ UNCHANGED <<lifeVars, regVars, sessions, authed, closed, left, trace>>

(* Mutant of Register: a session of an address that is still in the map is
   not entered. *)
RegisterFirstOnly(c) ==
    /\ client[c] = "accepted" /\ Unlocked
    /\ IF sessions[addr[c]] = NoClient
       THEN sessions' = [sessions EXCEPT ![addr[c]] = c]
       ELSE UNCHANGED sessions
    /\ trace' = IF stopped THEN [trace EXCEPT ![c] = "late"] ELSE trace
    /\ Goto(c, "reading")
    /\ UNCHANGED <<lifeVars, regVars, addr, authed, closed, left>>

Register(c) ==
    /\ client[c] = "accepted" /\ Unlocked
    /\ sessions' = [sessions EXCEPT ![addr[c]] = c]
    /\ trace' = IF stopped THEN [trace EXCEPT ![c] = "late"] ELSE trace
    /\ Goto(c, "reading")
    /\ UNCHANGED <<lifeVars, regVars, addr, authed, closed, left>>

authNeeded == secret \/ required

(* initialize with a valid token: accepted where there is a secret. *)
Initialize(c) ==
    /\ client[c] = "reading" /\ ~closed[c] /\ ~left[c] /\ Unlocked
    /\ secret
    /\ authed' = [authed EXCEPT ![c] = TRUE]
    /\ UNCHANGED <<lifeVars, regVars, sessions, client, addr, closed, left, trace>>

(* tools/call of a registered tool; the handler runs without the lock.  Every
   other request is answered in one step and changes nothing. *)
CallTool(c) ==
    /\ client[c] = "reading" /\ ~closed[c] /\ ~left[c] /\ Unlocked
    /\ authNeeded => authed[c]
    /\ tools # {}
    /\ Goto(c, "calling")
    /\ UNCHANGED <<lifeVars, regVars, sessions, addr, authed, closed, left, trace>>

(* The handler returns; the answer cannot be written to a closed connection. *)
CallReturn(c) ==
    /\ client[c] = "calling"
    /\ Goto(c, IF closed[c] \/ left[c] THEN "closing" ELSE "reading")
    /\ UNCHANGED <<lifeVars, regVars, sessions, addr, authed, closed, left, trace>>

(* Mutant of ReadErr: a failed Decode is tried again. *)
ReadErrRetries(c) ==
    /\ client[c] = "reading"
    /\ UNCHANGED vars

(* Decode fails: the client left, sent rubbish or too much, was idle for too
   long, or Stop has closed the connection.  The deferred conn.Close() follows. *)
ReadErr(c) ==
    /\ client[c] = "reading"
    /\ Goto(c, "closing")
    /\ UNCHANGED <<lifeVars, regVars, sessions, addr, authed, closed, left, trace>>

(* Then the entry of the address is deleted, whoever's it is; the connection
   and its session object are no more. *)
Delete(c) ==
    /\ client[c] = "closing" /\ Unlocked
    /\ LET d == sessions[addr[c]]
       IN  trace' = IF d \notin {NoClient, c}
                    THEN [trace EXCEPT ![d] = "deleted by another"] ELSE trace
    /\ sessions' = [sessions EXCEPT ![addr[c]] = NoClient]
    /\ Goto(c, "done")
    /\ addr' = [addr EXCEPT ![c] = NoAddr]
    /\ authed' = [authed EXCEPT ![c] = FALSE]
    /\ UNCHANGED <<lifeVars, regVars, closed, left>>

HangUp(c) ==
    /\ client[c] \in {"reading", "calling"} /\ ~left[c]
    /\ left' = [left EXCEPT ![c] = TRUE]
    /\ UNCHANGED <<lifeVars, regVars, sessions, client, addr, authed, closed, trace>>

-----------------------------------------------------------------------------
ServerStep == StartPublish \/ StopMark \/ AcceptErr
ConnStep(c) ==
    \/ Register(c) \/ Delete(c)
    \/ (closed[c] \/ left[c]) /\ ReadErr(c)

Next ==
    \/ StartBind \/ StartPublish
    \/ StopClose \/ StopMark \/ AcceptErr
    \/ SetAuthSecret
    \/ \E t \in Tools : RegisterTool(t)
    \/ \E c \in Clients :
        \/ Accept(c) \/ Register(c)
        \/ Initialize(c) \/ CallTool(c) \/ CallReturn(c)
        \/ ReadErr(c) \/ Delete(c) \/ HangUp(c)

-----------------------------------------------------------------------------
(* Properties. *)

(* A session that outlives Stop has a reason: its handler had not entered it
   in the map when Stop walked it, or the handler of the connection that had
   the address before has deleted its entry (server.go:281-292, 229-232). *)
LeftoverSessionsExplained ==
    stopped => \A c \in In(Live) :
        closed[c] \/ trace[c] # "known" \/ client[c] = "accepted"

(* A session that Stop has closed, or that its client has left, ends, once it
   is not in a tool (server.go:300-317). *)
SessionsEnd ==
    \A c \in Clients :
        (closed[c] \/ left[c]) /\ client[c] # "calling" ~> client[c] = "done"

=============================================================================
