----------------------------- MODULE MQTTBroker -----------------------------
(***************************************************************************)
(* The MQTT broker of protocol/mqtt/broker.go: Start, Stop, the auth hook,   *)
(* and the clients, on the broker's own listener or on an injected one.       *)
(*                                                                         *)
(* External, the broker library: onConnect attaches the client, asks the auth *)
(* hook, enters it among the sessions and returns when it has left; a         *)
(* listener of its own calls it in a goroutine per client, where              *)
(* injectedListener.Serve calls it in its loop.  Close closes the listener,    *)
(* disconnects the sessions it knows of and waits for every client that is     *)
(* attached, with mb.mu held by Stop throughout.                             *)
(***************************************************************************)

CONSTANT Clients

VARIABLES
    isRunning,
    kept,       \* the field listener was set before Start
    port,       \* the listener: "none", "open", "closed"
    loop,       \* the Serve loop: "none", "pending", "running", "over"
    start,      \* the Start call: "idle", "added", "spawned", "returned"
    stop,       \* the Stop call: "idle", "closing"
    secret,     \* authSecret # ""
    anonymous,  \* AllowAnonymous && !AuthEnabled
    client,     \* per client: its step
    password,   \* per client: its password is a valid JWT
    behind      \* ghost, per client: on its way to a session when Stop began

lifeVars == <<isRunning, kept, port, loop, start, stop>>
authVars == <<secret, anonymous, password>>
vars == <<lifeVars, authVars, client, behind>>

In(S) == {c \in Clients : client[c] \in S}

(* The clients that Close waits for, and those in onConnect. *)
Attached == {"auth", "admitted", "session"}
Connecting == Attached \cup {"taken"}

Init ==
    /\ isRunning = FALSE /\ kept \in BOOLEAN
    /\ port = IF kept THEN "open" ELSE "none"
    /\ loop = "none" /\ start = "idle" /\ stop = "idle"
    /\ secret = FALSE /\ anonymous \in BOOLEAN
    /\ client = [c \in Clients |-> "new"]
    /\ password = [c \in Clients |-> FALSE]
    /\ behind = [c \in Clients |-> "new"]

Unlocked == stop = "idle"

SetAuthSecret ==
    /\ Unlocked /\ ~secret
    /\ secret' = TRUE
    /\ UNCHANGED <<lifeVars, anonymous, password, client, behind>>

-----------------------------------------------------------------------------
(* Start, called once: AddListener refuses the second listener of one name. *)

(* The key pair is loaded before anything is bound: an error leaves nothing. *)
StartAdd ==
    /\ start = "idle" /\ Unlocked /\ ~isRunning
    /\ port' = "open"
    /\ start' = "added"
    /\ UNCHANGED <<isRunning, kept, loop, stop, authVars, client, behind>>

StartSpawn ==
    /\ start = "added"
    /\ loop' = "pending"
    /\ start' = "spawned"
    /\ UNCHANGED <<isRunning, kept, port, stop, authVars, client, behind>>

(* isRunning is set after the goroutine was spawned: the broker may already
   have clients, and a Stop before this point does nothing. *)
StartMark ==
    /\ start = "spawned" /\ Unlocked
    /\ isRunning' = TRUE
    /\ start' = "returned"
    /\ UNCHANGED <<kept, port, loop, stop, authVars, client, behind>>

ServeBegin ==
    /\ loop = "pending"
    /\ loop' = IF port = "open" THEN "running" ELSE "over"
    /\ UNCHANGED <<isRunning, kept, port, start, stop, authVars, client, behind>>

-----------------------------------------------------------------------------
(* Stop. *)

(* server.Close(): the listener, then the sessions. *)
StopBegin ==
    /\ Unlocked /\ isRunning
    /\ port' = "closed"
    /\ client' = [c \in Clients |-> IF client[c] \in {"queued", "session"}
                                  THEN "ended" ELSE client[c]]
    /\ behind' = [c \in Clients |->
                    IF client[c] \in {"taken", "auth", "admitted"} THEN client[c] ELSE "new"]
    /\ stop' = "closing"
    /\ UNCHANGED <<isRunning, kept, loop, start, authVars>>

(* Accept fails and the loop returns, unless it is in onConnect. *)
LoopExit ==
    /\ loop = "running" /\ port = "closed"
    /\ kept => In(Connecting) = {}
    /\ loop' = "over"
    /\ UNCHANGED <<isRunning, kept, port, start, stop, authVars, client, behind>>

(* The clients that were attached have left. *)
StopReturn ==
    /\ stop = "closing" /\ In(Attached) = {}
    /\ isRunning' = FALSE
    /\ stop' = "idle"
    /\ UNCHANGED <<kept, port, loop, start, authVars, client, behind>>

-----------------------------------------------------------------------------
(* Clients. *)

Goto(c, pc) == client' = [client EXCEPT ![c] = pc]

Connect(c) ==
    /\ client[c] = "new" /\ port = "open"
    /\ Goto(c, "queued")
    /\ \E b \in BOOLEAN : password' = [password EXCEPT ![c] = b]
    /\ UNCHANGED <<lifeVars, secret, anonymous, behind>>

(* Mutant of Accept: the loop of an injected listener returns after a client. *)
AcceptOnce(c) ==
    /\ client[c] = "queued" /\ loop = "running" /\ port = "open"
    /\ kept => In(Connecting) = {}
    /\ Goto(c, "taken")
    /\ loop' = IF kept THEN "over" ELSE loop
    /\ UNCHANGED <<isRunning, kept, port, start, stop, authVars, behind>>

(* An injected listener takes the next client when onConnect has returned. *)
Accept(c) ==
    /\ client[c] = "queued" /\ loop = "running" /\ port = "open"
    /\ kept => In(Connecting) = {}
    /\ Goto(c, "taken")
    /\ UNCHANGED <<lifeVars, authVars, behind>>

(* onConnect reads the CONNECT packet of a client it has attached. *)
Attach(c) ==
    /\ client[c] = "taken"
    /\ Goto(c, "auth")
    /\ UNCHANGED <<lifeVars, authVars, behind>>

Admits(c) == IF secret THEN password[c] ELSE anonymous

(* OnConnectAuthenticate reads the live secret under the lock. *)
Authenticate(c) ==
    /\ client[c] = "auth" /\ Unlocked
    /\ Goto(c, IF Admits(c) THEN "admitted" ELSE "ended")
    /\ UNCHANGED <<lifeVars, authVars, behind>>

(* The client is entered among the sessions. *)
Establish(c) ==
    /\ client[c] = "admitted"
    /\ Goto(c, "session")
    /\ UNCHANGED <<lifeVars, authVars, behind>>

Leave(c) ==
    /\ client[c] = "session"
    /\ Goto(c, "ended")
    /\ UNCHANGED <<lifeVars, authVars, behind>>

-----------------------------------------------------------------------------
BrokerStep == StartSpawn \/ StartMark \/ ServeBegin \/ LoopExit \/ StopReturn
ClientStep(c) == Accept(c) \/ Attach(c) \/ Authenticate(c) \/ Establish(c)

Next ==
    \/ SetAuthSecret
    \/ StartAdd \/ StartSpawn \/ StartMark \/ ServeBegin
    \/ StopBegin \/ LoopExit \/ StopReturn
    \/ \E c \in Clients :
        Connect(c) \/ ClientStep(c) \/ Leave(c)

-----------------------------------------------------------------------------
(* Properties. *)

(* A client that has connected is authenticated, whatever the others do; on an
   injected listener it has to wait for the client before it to leave
   (broker.go:39-47). *)
ConnectAnswered ==
    \A c \in Clients :
        client[c] = "queued" /\ loop = "running" ~>
            \/ client[c] # "queued"
            \/ kept /\ In({"session"}) # {}

(* A client is served behind a closed listener only if it was on its way to a
   session when Stop disconnected the others, and after Stop has returned only
   if the library had not even attached it then (broker.go:39-47, 77-88, 260). *)
LeftoverClientsExplained ==
    port = "closed" =>
        \A c \in In({"session"}) :
            /\ behind[c] \in {"taken", "auth", "admitted"}
            /\ stop = "idle" => behind[c] = "taken"

=============================================================================
