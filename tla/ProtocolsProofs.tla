--------------------------- MODULE ProtocolsProofs ---------------------------
(***************************************************************************)
(* What holds of every server behind the interface, for all values of the   *)
(* constants.  A step of Protocols is a step of one part and leaves the       *)
(* variables that the others do not share with it alone: an inductive         *)
(* invariant of a part is one of the composition.                            *)
(***************************************************************************)
EXTENDS Protocols, Integers, FiniteSetTheorems, TLAPS

-----------------------------------------------------------------------------
(* The MCP reader.  SizeBounded is not inductive: it speaks of a request that
   has been decoded or refused, and both depend on what the decoder had read
   ahead when the counter was reset.  ReadAhead bounds that: the bytes that n
   has not counted, buffer - n, stay below the limit, because the decoder asks
   for more only while its request is incomplete and gets at most Max. *)

ReaderType ==
    /\ size \in Nat /\ sent \in Nat /\ buffer \in Nat /\ n \in Nat /\ count \in Nat
    /\ outcome \in {"reading", "decoded", "refused"}

ReadAhead ==
    /\ outcome = "decoded" => buffer < Max
    /\ outcome # "decoded" =>
        /\ n <= Max
        /\ n <= buffer /\ buffer - n < Max
        /\ buffer - size < Max

ReaderInv == ReaderType /\ ReadAhead /\ SizeBounded

(* Every step of the client, the reader and the decoder preserves ReaderInv,
   and so does every step of another server. *)
LEMMA ReaderStep == ReaderInv /\ [Next]_all => ReaderInv'
<1> SUFFICES ASSUME ReaderInv, [Next]_all PROVE ReaderInv'
    OBVIOUS
<1> USE ProtocolsAssumption
    DEF ProtocolsAssumption, ReaderInv, ReaderType, ReadAhead, SizeBounded, R!SizeBounded
<1>1. ASSUME NEW k \in 1..MaxSize, R!Arrive(k) PROVE ReaderInv'
    BY <1>1 DEF R!Arrive
<1>2. ASSUME NEW k \in 1..MaxSize, R!Read(k) PROVE ReaderInv'
    BY <1>2 DEF R!Read, R!Allowed
<1>3. ASSUME NEW k \in 1..MaxSize, R!Reset(k) PROVE ReaderInv'
    BY <1>3 DEF R!Reset
<1>4. CASE R!Decode
    BY <1>4 DEF R!Decode
<1>5. CASE R!TooLarge
    BY <1>5 DEF R!TooLarge
<1>6. CASE UNCHANGED ofReader
    BY <1>6 DEF ofReader
<1>7. R!Next \/ UNCHANGED ofReader
    BY DEF Next, all, AsLibrary, AsWebSocket, AsBroker, AsMCP, AsSubs
<1> QED
    BY <1>1, <1>2, <1>3, <1>4, <1>5, <1>6, <1>7 DEF R!Next

(* SizeBounded holds of the MCP server for every MaxRequestBytes: no request of
   twice the limit is handled, none within it refused (mcp/server.go:80-92). *)
THEOREM SizeLimitKept == Spec => []SizeBounded
<1>1. Init => ReaderInv
    BY ProtocolsAssumption
    DEF ProtocolsAssumption, Init, R!Init, ReaderInv, ReaderType, ReadAhead,
        SizeBounded, R!SizeBounded
<1>2. ReaderInv /\ [Next]_all => ReaderInv'
    BY ReaderStep
<1>3. ReaderInv => SizeBounded
    BY DEF ReaderInv
<1> QED
    BY <1>1, <1>2, <1>3, PTL DEF Spec

-----------------------------------------------------------------------------
(* The subscriptions.  HandlersMatchSubs speaks of the moments between calls
   only.  SubsInv follows the ids through the calls: an entry has its handler or
   a Subscribe that will attach it, if the library takes the filter; a handler or a Subscribe without an entry
   was crossed by an Unsubscribe, or the Unsubscribe that will remove it is
   under way; and ids grow, so that an Unsubscribe never removes the handler of
   an entry younger than the one it took. *)

SubsType ==
    /\ subs \in Nat /\ subSeq \in Nat
    /\ handlers \subseteq [id : Nat, handler : Callers]
    /\ call \in [Callers -> [pc : {"idle", "detach", "attach", "remove"}, id : Nat]]

(* Ids in use have been given out; an idle caller has none. *)
IdsInv ==
    /\ subs <= subSeq
    /\ \A e \in handlers : e.id # 0 /\ e.id <= subSeq
    /\ \A p \in Callers :
        /\ call[p].id <= subSeq
        /\ call[p].id = 0 <=> call[p].pc = "idle"

EntryInv ==
    subs # 0 =>
        \/ \E e \in handlers : e.id = subs
        \/ \E p \in Callers : call[p].pc \in {"detach", "attach"} /\ call[p].id = subs
        \/ ~valid

OrphanInv ==
    /\ \A e \in handlers : e.id # subs =>
        e.id \in crossed \/ \E p \in Callers : call[p].pc = "remove" /\ call[p].id = e.id
    /\ \A p \in Callers :
        /\ call[p].pc = "remove" => call[p].id # subs
        /\ call[p].pc \in {"detach", "attach"} /\ call[p].id # subs =>
            call[p].id \in crossed

SubsInv == SubsType /\ IdsInv /\ EntryInv /\ OrphanInv

(* Subscribe preserves SubsInv: its id is that of the entry or a new one. *)
LEMMA SubscribeInv ==
    ASSUME SubsInv, NEW p \in Callers, U!Subscribe(p) PROVE SubsInv'
<1> USE DEF SubsInv, SubsType, IdsInv, U!Subscribe, U!Goto
<1>1. SubsType'
    OBVIOUS
<1>2. IdsInv'
    OBVIOUS
<1>3. EntryInv'
    BY DEF EntryInv
<1>4. OrphanInv'
    BY DEF OrphanInv
<1> QED
    BY <1>1, <1>2, <1>3, <1>4

(* Unsubscribe preserves SubsInv: who held the id of the entry is now crossed. *)
LEMMA UnsubscribeInv ==
    ASSUME SubsInv, NEW p \in Callers, U!Unsubscribe(p) PROVE SubsInv'
<1> USE DEF SubsInv, SubsType, IdsInv, U!Unsubscribe, U!Goto
<1>1. SubsType'
    OBVIOUS
<1>2. IdsInv'
    OBVIOUS
<1>3. EntryInv'
    BY DEF EntryInv
<1>4. OrphanInv'
    BY DEF OrphanInv
<1> QED
    BY <1>1, <1>2, <1>3, <1>4

(* The calls of the library, made after the lock is released, preserve SubsInv. *)
LEMMA CallerStepInv ==
    ASSUME SubsInv, NEW p \in Callers, U!CallerStep(p) PROVE SubsInv'
<1> USE DEF SubsInv, SubsType, IdsInv, U!Goto
<1>1. CASE U!Detach(p)
    <2> USE <1>1 DEF U!Detach, U!Detached
    <2>1. SubsType' /\ IdsInv'
        OBVIOUS
    <2>2. EntryInv'
        BY DEF EntryInv
    <2>3. OrphanInv'
        BY DEF OrphanInv
    <2> QED
        BY <2>1, <2>2, <2>3
<1>2. CASE U!Attach(p)
    <2> USE <1>2 DEF U!Attach, U!Attached
    <2>1. SubsType' /\ IdsInv'
        OBVIOUS
    <2>2. EntryInv'
        <3>1. \E e \in handlers' : e.id = call[p].id
            <4>1. [id |-> call[p].id, handler |-> p] \in handlers'
                OBVIOUS
            <4> QED
                BY <4>1
        <3>2. \A e \in handlers : e.id = call[p].id \/ e \in handlers'
            OBVIOUS
        <3>3. \A q \in Callers : q # p => call'[q] = call[q]
            OBVIOUS
        <3> QED
            BY <3>1, <3>2, <3>3 DEF EntryInv
    <2>3. OrphanInv'
        BY DEF OrphanInv
    <2> QED
        BY <2>1, <2>2, <2>3
<1>3. CASE U!Remove(p)
    <2> USE <1>3 DEF U!Remove, U!Detached
    <2>1. SubsType' /\ IdsInv'
        OBVIOUS
    <2>2. EntryInv'
        BY DEF EntryInv, OrphanInv
    <2>3. OrphanInv'
        BY DEF OrphanInv
    <2> QED
        BY <2>1, <2>2, <2>3
<1>4. CASE U!AttachErr(p)
    <2> USE <1>4 DEF U!AttachErr
    <2>1. SubsType' /\ IdsInv'
        OBVIOUS
    <2>2. EntryInv'
        BY DEF EntryInv
    <2>3. OrphanInv'
        BY DEF OrphanInv
    <2> QED
        BY <2>1, <2>2, <2>3
<1> QED
    BY <1>1, <1>2, <1>3, <1>4 DEF U!CallerStep

(* Every step of every caller preserves SubsInv, and so does every step of
   another server. *)
LEMMA SubsStep == SubsInv /\ [Next]_all => SubsInv'
<1> SUFFICES ASSUME SubsInv, [Next]_all PROVE SubsInv'
    OBVIOUS
<1>1. CASE U!Next
    BY <1>1, SubscribeInv, UnsubscribeInv, CallerStepInv DEF U!Next
<1>2. CASE UNCHANGED ofSubs
    BY <1>2 DEF ofSubs, SubsInv, SubsType, IdsInv, EntryInv, OrphanInv
<1>3. U!Next \/ UNCHANGED ofSubs
    BY DEF Next, all, AsLibrary, AsWebSocket, AsBroker, AsMCP, AsReader
<1> QED
    BY <1>1, <1>2, <1>3

(* HandlersMatchSubs holds of the broker for any number of goroutines and calls:
   between calls the entry of a filter that the library takes has its handler,
   and a handler without an entry is due to crossed calls (mqtt/broker.go:286-317). *)
THEOREM SubscriptionsKept == Spec => []HandlersMatchSubs
<1>1. Init => SubsInv
    BY DEF Init, U!Init, U!Idle, SubsInv, SubsType, IdsInv, EntryInv, OrphanInv
<1>2. SubsInv => HandlersMatchSubs
    BY DEF SubsInv, SubsType, IdsInv, EntryInv, OrphanInv, HandlersMatchSubs,
           U!HandlersMatchSubs, U!Idle
<1> QED
    BY <1>1, <1>2, SubsStep, PTL DEF Spec

-----------------------------------------------------------------------------
(* The WebSocket connections.  The map holds exactly the connections between
   Register and Delete, whatever Stop and Broadcast do with the lock; and a
   handshake that is past the test of the limit counts like an entry: the two
   together outnumber the limit only by handshakes that were pending at the
   same time.  Cardinality(connections) by itself is not inductive, since
   Register tests nothing. *)

Seated == {"connecting", "open", "leaving"}

WebSocketType ==
    /\ conn \in [Conns -> W!ConnPC]
    /\ peak \in Nat

MapIsSeated == connections = W!In(Seated)

Overshoot == IF peak > 1 THEN peak - 1 ELSE 0

SeatsBounded ==
    Cardinality(connections) + Cardinality(W!In(W!Pending)) <= MaxConnections + Overshoot

WebSocketInv == WebSocketType /\ MapIsSeated /\ SeatsBounded

(* The clients at given steps are finitely many. *)
LEMMA InFinite ==
    ASSUME NEW S
    PROVE  IsFiniteSet(W!In(S)) /\ Cardinality(W!In(S)) \in Nat
<1>1. W!In(S) \subseteq Conns
    BY DEF W!In
<1> QED
    BY <1>1, ProtocolsAssumption, FS_Subset, FS_CardinalityType DEF ProtocolsAssumption

(* What a step of one client makes of the clients at given steps. *)
LEMMA InMoves ==
    ASSUME WebSocketType, NEW c \in Conns, NEW pc \in W!ConnPC, NEW S,
           conn' = [conn EXCEPT ![c] = pc]
    PROVE  /\ pc \in S => W!In(S)' = W!In(S) \cup {c}
           /\ pc \notin S => W!In(S)' = W!In(S) \ {c}
           /\ WebSocketType' <=> peak' \in Nat
BY DEF WebSocketType, W!In

(* A step that leaves the seats alone: it moves its client neither into nor out
   of the map or the handshake. *)
LEMMA SeatsKept ==
    ASSUME WebSocketInv, NEW c \in Conns, NEW pc \in W!ConnPC,
           conn' = [conn EXCEPT ![c] = pc], UNCHANGED <<connections, peak>>,
           pc \in Seated <=> conn[c] \in Seated,
           pc \in W!Pending => conn[c] \in W!Pending
    PROVE  WebSocketInv'
<1> USE DEF WebSocketInv, WebSocketType, W!In
<1>1. WebSocketType'
    BY InMoves
<1>2. W!In(Seated)' = W!In(Seated)
    BY InMoves
<1>3. W!In(W!Pending)' \subseteq W!In(W!Pending)
    BY InMoves
<1>4. Cardinality(W!In(W!Pending)') <= Cardinality(W!In(W!Pending))
    <2> HIDE DEF W!In
    <2> QED
        BY <1>3, InFinite, FS_Subset
<1>5. /\ Cardinality(connections) \in Nat
      /\ Cardinality(W!In(W!Pending)) \in Nat
      /\ Cardinality(W!In(W!Pending)') \in Nat
    <2> HIDE DEF W!In
    <2> QED
        BY <1>3, InFinite, FS_Subset, FS_CardinalityType DEF MapIsSeated
<1>6. SeatsBounded'
    <2> HIDE DEF W!In
    <2> QED
        BY <1>4, <1>5, ProtocolsAssumption DEF SeatsBounded, Overshoot, ProtocolsAssumption
<1> QED
    BY <1>1, <1>2, <1>6 DEF MapIsSeated

(* The test of the limit reserves a place in the sum when it finds room. *)
LEMMA CapacityStep ==
    ASSUME WebSocketInv, NEW c \in Conns, W!CheckCapacity(c)
    PROVE  WebSocketInv'
<1> DEFINE P == W!In(W!Pending)
<1> USE DEF WebSocketInv
<1>1. conn[c] = "cap" /\ UNCHANGED connections
    BY DEF W!CheckCapacity, W!reqFrame
<1>2. CASE W!AtCapacity
    <2>1. conn' = [conn EXCEPT ![c] = "rejected"] /\ UNCHANGED peak
        BY <1>2 DEF W!CheckCapacity, W!Goto
    <2> QED
        BY <1>1, <2>1, SeatsKept DEF Seated, W!Pending, W!InRequest, W!ConnPC
<1>3. CASE ~W!AtCapacity
    <2>1. /\ conn' = [conn EXCEPT ![c] = "upgrading"]
          /\ peak' = IF Cardinality(P) + 1 > peak THEN Cardinality(P) + 1 ELSE peak
        BY <1>3 DEF W!CheckCapacity, W!Goto, W!Cardinality, Cardinality
    <2>2. /\ Cardinality(P) \in Nat /\ Cardinality(connections) \in Nat
          /\ IsFiniteSet(P)
        BY InFinite DEF MapIsSeated
    <2>3. Cardinality(connections) < MaxConnections
        BY <1>3, <2>2, ProtocolsAssumption
        DEF W!AtCapacity, ProtocolsAssumption, W!Cardinality, Cardinality
    <2>4. c \notin P /\ c \notin W!In(Seated)
        BY <1>1 DEF W!In, W!Pending, Seated
    <2>5. P' = P \cup {c} /\ W!In(Seated)' = W!In(Seated) \ {c}
        BY <2>1 DEF W!In, W!Pending, Seated, WebSocketType
    <2>6. Cardinality(P') = Cardinality(P) + 1
        BY <2>2, <2>4, <2>5, FS_AddElement
    <2>7. peak' \in Nat /\ peak' >= Cardinality(P')
        BY <2>1, <2>2, <2>6 DEF WebSocketType
    <2>8. WebSocketType'
        BY <2>1, <2>7, InMoves DEF W!ConnPC, W!Pending, W!InRequest
    <2>9. SeatsBounded'
        <3> HIDE DEF P
        <3>1. Cardinality(P') >= 1
            BY <2>2, <2>6
        <3>2. Cardinality(connections) + Cardinality(P')
                  <= MaxConnections + Overshoot'
            BY <2>2, <2>3, <2>6, <2>7, <3>1, ProtocolsAssumption
            DEF Overshoot, ProtocolsAssumption
        <3> QED
            BY <1>1, <3>2 DEF SeatsBounded, P
    <2> QED
        BY <1>1, <2>4, <2>5, <2>8, <2>9 DEF MapIsSeated
<1> QED
    BY <1>2, <1>3

(* Register moves its client from the handshake into the map. *)
LEMMA RegisterStep ==
    ASSUME WebSocketInv, NEW c \in Conns, W!Register(c)
    PROVE  WebSocketInv'
<1> DEFINE P == W!In(W!Pending)
<1> USE DEF WebSocketInv
<1>1. /\ conn[c] = "hijacked" /\ conn' = [conn EXCEPT ![c] = "connecting"]
      /\ connections' = connections \cup {c} /\ UNCHANGED peak
    BY DEF W!Register, W!Goto
<1>2. WebSocketType'
    BY <1>1, InMoves DEF W!ConnPC, WebSocketType
<1>3. W!In(Seated)' = W!In(Seated) \cup {c} /\ P' = P \ {c}
    BY <1>1 DEF W!In, W!Pending, Seated, WebSocketType
<1>4. c \in P /\ c \notin W!In(Seated)
    BY <1>1 DEF W!In, W!Pending, Seated
<1>5. /\ IsFiniteSet(P) /\ IsFiniteSet(connections)
      /\ Cardinality(P) \in Nat /\ Cardinality(connections) \in Nat
    BY InFinite DEF MapIsSeated
<1>6. Cardinality(P') = Cardinality(P) - 1
    BY <1>3, <1>4, <1>5, FS_RemoveElement
<1>7. Cardinality(connections') = Cardinality(connections) + 1
    BY <1>1, <1>4, <1>5, FS_AddElement DEF MapIsSeated
<1>8. SeatsBounded'
    BY <1>1, <1>5, <1>6, <1>7, ProtocolsAssumption
    DEF SeatsBounded, Overshoot, ProtocolsAssumption, WebSocketType
<1> QED
    BY <1>1, <1>2, <1>3, <1>8 DEF MapIsSeated

(* Delete takes its client out of the map. *)
LEMMA DeleteStep ==
    ASSUME WebSocketInv, NEW c \in Conns, W!Delete(c)
    PROVE  WebSocketInv'
<1> DEFINE P == W!In(W!Pending)
<1> USE DEF WebSocketInv
<1>1. /\ conn[c] = "leaving" /\ conn' = [conn EXCEPT ![c] = "closing"]
      /\ connections' = connections \ {c} /\ UNCHANGED peak
    BY DEF W!Delete, W!Goto
<1>2. WebSocketType'
    BY <1>1, InMoves DEF W!ConnPC, WebSocketType
<1>3. W!In(Seated)' = W!In(Seated) \ {c} /\ P' = P \ {c}
    BY <1>1 DEF W!In, W!Pending, Seated, WebSocketType
<1>4. c \notin P /\ c \in W!In(Seated)
    BY <1>1 DEF W!In, W!Pending, Seated
<1>5. /\ IsFiniteSet(connections)
      /\ Cardinality(P) \in Nat /\ Cardinality(connections) \in Nat
    BY InFinite DEF MapIsSeated
<1>6. P' = P
    BY <1>3, <1>4
<1>7. Cardinality(connections') = Cardinality(connections) - 1
    BY <1>1, <1>4, <1>5, FS_RemoveElement DEF MapIsSeated
<1>8. SeatsBounded'
    BY <1>1, <1>5, <1>6, <1>7, ProtocolsAssumption
    DEF SeatsBounded, Overshoot, ProtocolsAssumption, WebSocketType
<1> QED
    BY <1>1, <1>2, <1>3, <1>8 DEF MapIsSeated

(* Every step preserves WebSocketInv; those of Start, Stop and Broadcast leave
   all of it alone. *)
LEMMA WebSocketStep == WebSocketInv /\ [Next]_all => WebSocketInv'
<1> SUFFICES ASSUME WebSocketInv, [Next]_all PROVE WebSocketInv'
    OBVIOUS
<1> DEFINE same == UNCHANGED <<connections, conn, peak>>
<1>1. CASE same
    BY <1>1 DEF WebSocketInv, WebSocketType, MapIsSeated, SeatsBounded, Overshoot, W!In
<1>2. ASSUME NEW c \in Conns, NEW pc \in W!ConnPC,
             conn' = [conn EXCEPT ![c] = pc], UNCHANGED <<connections, peak>>,
             pc \in Seated <=> conn[c] \in Seated,
             pc \in W!Pending => conn[c] \in W!Pending
      PROVE  WebSocketInv'
    BY <1>2, SeatsKept
<1>3. ASSUME NEW c \in Conns,
             W!Arrive(c) \/ W!CheckAuth(c) \/ W!Upgrade(c) \/ W!OnConnect(c)
                \/ W!ReadErr(c) \/ W!CloseConn(c)
      PROVE  \E pc \in W!ConnPC :
                /\ conn' = [conn EXCEPT ![c] = pc] /\ UNCHANGED <<connections, peak>>
                /\ pc \in Seated <=> conn[c] \in Seated
                /\ pc \in W!Pending => conn[c] \in W!Pending
    BY <1>3 DEF W!Arrive, W!CheckAuth, W!Upgrade, W!OnConnect, W!ReadErr, W!CloseConn,
                W!Goto, W!reqFrame, W!ConnPC, W!Pending, W!InRequest, Seated
<1>4. ASSUME NEW c \in Conns, W!HangUp(c) PROVE same
    BY <1>4 DEF W!HangUp
<1>5. ASSUME W!StartBind \/ W!StartTLSErr \/ W!StarterStep \/ W!StopCall
                \/ W!StopperStep \/ W!BroadcastBegin \/ W!BroadcastEnd
      PROVE  same
    BY <1>5 DEF W!StartBind, W!StartTLSErr, W!StarterStep, W!StartMark, W!StartSpawn,
                W!ServeBegin, W!StopCall, W!StopperStep, W!StopLock, W!StopDrained, W!StopMark,
                W!BroadcastBegin, W!BroadcastEnd, W!startFrame, W!stopFrame
<1>6. CASE W!Next
    <2> HIDE DEF same
    <2> QED
        BY <1>1, <1>2, <1>3, <1>4, <1>5, <1>6, CapacityStep, RegisterStep, DeleteStep
        DEF W!Next, W!RequestStep, W!ConnStep
<1>7. W!Next \/ same
    BY DEF Next, all, AsLibrary, AsBroker, AsMCP, AsSubs, AsReader, ofWebSocket
<1> QED
    BY <1>1, <1>6, <1>7

(* No client is there to begin with. *)
LEMMA WebSocketInit == Init => WebSocketInv
<1> SUFFICES ASSUME Init PROVE WebSocketInv
    OBVIOUS
<1>1. /\ connections = {} /\ peak = 0 /\ conn = [c \in Conns |-> "new"]
    BY DEF Init, W!Init
<1>2. W!In(W!Pending) = {} /\ W!In(Seated) = {}
    BY <1>1 DEF W!In, W!Pending, Seated
<1> QED
    BY <1>1, <1>2, ProtocolsAssumption, FS_EmptySet
    DEF ProtocolsAssumption, WebSocketInv, WebSocketType, MapIsSeated, SeatsBounded,
        Overshoot, W!ConnPC

(* RegisteredIsOpen holds for any number of clients: the entry of a connection
   is deleted before the connection is closed (websocket/server.go:262-275). *)
THEOREM RegisteredCorrect == Spec => []RegisteredIsOpen
<1>1. WebSocketInv => RegisteredIsOpen
    BY DEF WebSocketInv, MapIsSeated, Seated, W!In, RegisteredIsOpen, W!RegisteredIsOpen
<1> QED
    BY <1>1, WebSocketInit, WebSocketStep, PTL DEF Spec

(* CapWithinPeak holds for any number of clients and every limit: the limit is
   overshot only by handshakes that raced (websocket/server.go:239-257). *)
THEOREM CapCorrect == Spec => []CapWithinPeak
<1>1. WebSocketInv => CapWithinPeak
    <2> SUFFICES ASSUME WebSocketInv PROVE CapWithinPeak
        OBVIOUS
    <2>1. Cardinality(connections) \in Nat /\ Cardinality(W!In(W!Pending)) \in Nat
        BY InFinite DEF WebSocketInv, MapIsSeated
    <2>2. Cardinality(connections) <= MaxConnections + Overshoot
        BY <2>1, ProtocolsAssumption
        DEF WebSocketInv, WebSocketType, SeatsBounded, Overshoot, ProtocolsAssumption
    <2>3. W!Cardinality(connections) = Cardinality(connections)
        BY DEF W!Cardinality, Cardinality
    <2> QED
        BY <2>2, <2>3 DEF CapWithinPeak, W!CapWithinPeak, Overshoot
<1> QED
    BY <1>1, WebSocketInit, WebSocketStep, PTL DEF Spec

-----------------------------------------------------------------------------
(* Who is served after Stop.  The invariants speak of one kind of server each,
   since the brokers and the MCP server share the names port and client. *)

(* The kind of the server is chosen once. *)
LEMMA KindFixed == [Next]_all => kind' = kind
BY DEF Next, all, AsWebSocket, AsBroker, AsMCP, AsSubs, AsReader,
       L!Next, L!SetAuthSecret, L!StartPrepare, L!StartErr, L!StartBind, L!StartTLSErr,
       L!StartMark, L!StartConnect, L!Serve, L!StopBegin, L!StopReturn, L!StopExpire,
       L!Arrive, L!Intercept, L!CheckAuth, L!Handled,
       L!setVars, L!startFrame, L!stopFrame, L!reqFrame

(* MQTT: a client that is on its way to a session behind a closed listener was
   so when Stop began.  It becomes a session only later, so that the statement
   about sessions alone is not inductive; and Close waits for those that were
   attached, so that afterwards only the others are left. *)
BrokerType ==
    /\ client \in [Clients -> {"new", "queued", "ended"} \cup B!Connecting]
    /\ behind \in [Clients -> {"new", "taken", "auth", "admitted"}]

UndecidedBehind ==
    port = "closed" =>
        \A c \in B!In(B!Connecting) :
            /\ behind[c] # "new"
            /\ client[c] = "taken" \/ stop = "idle" => behind[c] = "taken"

BrokerInv == kind = "mqtt" => BrokerType /\ UndecidedBehind

LEMMA BrokerKeeps == BrokerInv /\ [Next]_all => BrokerInv'
<1> SUFFICES ASSUME BrokerType, UndecidedBehind, [Next]_all, kind = "mqtt"
             PROVE  BrokerType' /\ UndecidedBehind'
    BY KindFixed DEF BrokerInv
<1> USE DEF BrokerType, UndecidedBehind, B!In, B!Connecting, B!Attached
<1>1. CASE UNCHANGED <<client, behind, port, stop>>
    BY <1>1
<1>2. CASE UNCHANGED <<client, behind>> /\ port' = "open"
    BY <1>2
<1>3. CASE B!StopBegin
    BY <1>3 DEF B!StopBegin
<1>4. ASSUME NEW c \in Clients, B!Connect(c) \/ B!ClientStep(c) \/ B!Leave(c)
      PROVE  BrokerType' /\ UndecidedBehind'
    BY <1>4 DEF B!Connect, B!ClientStep, B!Accept, B!Attach, B!Authenticate,
                B!Establish, B!Leave, B!Goto, B!lifeVars
<1>5. CASE B!SetAuthSecret \/ B!StartSpawn \/ B!StartMark \/ B!ServeBegin \/ B!LoopExit
    BY <1>1, <1>5 DEF B!SetAuthSecret, B!StartSpawn, B!StartMark, B!ServeBegin,
                      B!LoopExit, B!lifeVars
<1>6. CASE B!StartAdd
    BY <1>2, <1>6 DEF B!StartAdd
<1>8. CASE B!StopReturn
    BY <1>8 DEF B!StopReturn
<1>7. B!Next \/ UNCHANGED <<client, behind, port, stop>>
    BY DEF Next, all, AsLibrary, AsWebSocket, AsMCP, AsSubs, AsReader, LibraryKinds,
           ofServers, ofBroker
<1> QED
    BY <1>1, <1>3, <1>4, <1>5, <1>6, <1>7, <1>8 DEF B!Next

(* MCP: no two connections in use have one address, and the session of a
   connection in use is the entry of its address, until another handler
   deletes it.  Hence Stop, which walks the map, misses only those. *)
MCPType ==
    /\ client \in [Clients -> {"new", "closing", "done"} \cup M!Live]
    /\ addr \in [Clients -> Addrs \cup {NoAddr}]
    /\ sessions \in [Addrs -> Clients \cup {NoClient}]
    /\ closed \in [Clients -> BOOLEAN]
    /\ trace \in [Clients -> {"known", "late", "deleted by another"}]

Addressed ==
    /\ \A c \in M!In(M!Live \cup {"closing"}) : addr[c] \in Addrs
    /\ \A c, d \in M!In(M!Live) : addr[c] = addr[d] => c = d

Entered ==
    \A c \in M!In({"reading", "calling"}) :
        trace[c] = "known" => sessions[addr[c]] = c

MCPInv ==
    kind = "mcp" => MCPType /\ Addressed /\ Entered /\ M!LeftoverSessionsExplained

LEMMA MCPKeeps == MCPInv /\ [Next]_all => MCPInv'
<1> DEFINE Good == MCPType /\ Addressed /\ Entered /\ M!LeftoverSessionsExplained
<1> SUFFICES ASSUME Good, [Next]_all, kind = "mcp"
             PROVE  Good'
    BY KindFixed DEF MCPInv
<1> USE DEF MCPType, M!In, M!Live
<1>1. CASE UNCHANGED <<M!connVars, stopped>>
    BY <1>1 DEF M!connVars, Addressed, Entered, M!LeftoverSessionsExplained
<1>2. CASE M!StopClose
    <2>1. MCPType' /\ Addressed' /\ Entered'
        BY <1>2 DEF M!StopClose, Addressed, Entered
    <2>2. ASSUME NEW c \in Clients, client[c] \in {"reading", "calling"},
                 trace[c] = "known"
          PROVE  closed'[c]
        BY <1>2, <2>2 DEF M!StopClose, Addressed, Entered
    <2> QED
        BY <1>2, <2>1, <2>2 DEF M!StopClose, M!LeftoverSessionsExplained
<1>3. ASSUME NEW c \in Clients, M!Accept(c) PROVE Good'
    <2>1. MCPType'
        BY <1>3 DEF M!Accept, M!Goto
    <2>2. Addressed'
        <3>1. PICK a \in Addrs \ {addr[d] : d \in M!In(M!Live)} :
                    addr' = [addr EXCEPT ![c] = a]
            BY <1>3 DEF M!Accept
        <3>2. client' = [client EXCEPT ![c] = "accepted"] /\ client[c] = "new"
            BY <1>3 DEF M!Accept, M!Goto
        <3>3. \A d \in M!In(M!Live) : addr[d] # a
            BY <3>1
        <3> QED
            BY <3>1, <3>2, <3>3 DEF Addressed
    <2>3. Entered'
        BY <1>3 DEF M!Accept, M!Goto, Entered
    <2>4. M!LeftoverSessionsExplained'
        BY <1>3 DEF M!Accept, M!Goto, M!lifeVars, M!LeftoverSessionsExplained
    <2> QED
        BY <2>1, <2>2, <2>3, <2>4
<1>4. ASSUME NEW c \in Clients, M!Register(c) PROVE Good'
    <2>1. MCPType' /\ Addressed'
        BY <1>4 DEF M!Register, M!Goto, Addressed
    <2>2. Entered'
        BY <1>4 DEF M!Register, M!Goto, Addressed, Entered
    <2> QED
        BY <1>4, <2>1, <2>2 DEF M!Register, M!Goto, M!lifeVars, M!LeftoverSessionsExplained
<1>5. ASSUME NEW c \in Clients, M!Delete(c) PROVE Good'
    <2>1. addr[c] \in Addrs
        BY <1>5 DEF M!Delete, Addressed
    <2>2. MCPType'
        BY <1>5, <2>1 DEF M!Delete, M!Goto
    <2>3. Addressed'
        BY <1>5 DEF M!Delete, M!Goto, Addressed
    <2>4. Entered'
        BY <1>5, <2>1, ProtocolsAssumption
        DEF M!Delete, M!Goto, Addressed, Entered, ProtocolsAssumption
    <2>5. M!LeftoverSessionsExplained'
        BY <1>5, <2>1 DEF M!Delete, M!Goto, M!lifeVars, M!LeftoverSessionsExplained
    <2> QED
        BY <2>2, <2>3, <2>4, <2>5
<1>6. ASSUME NEW c \in Clients,
             M!Initialize(c) \/ M!CallTool(c) \/ M!CallReturn(c) \/ M!ReadErr(c)
                \/ M!HangUp(c)
      PROVE  Good'
    <2>1. /\ UNCHANGED <<addr, sessions, closed, trace, stopped>>
          /\ \/ UNCHANGED client
             \/ /\ client[c] \in {"reading", "calling"}
                /\ \E pc \in {"reading", "calling", "closing"} :
                        client' = [client EXCEPT ![c] = pc]
        BY <1>6 DEF M!Initialize, M!CallTool, M!CallReturn, M!ReadErr, M!HangUp, M!Goto,
                    M!lifeVars
    <2>2. CASE UNCHANGED client
        BY <2>1, <2>2 DEF Addressed, Entered, M!LeftoverSessionsExplained
    <2>3. ASSUME NEW pc \in {"reading", "calling", "closing"},
                 client[c] \in {"reading", "calling"},
                 client' = [client EXCEPT ![c] = pc]
          PROVE  Good'
        <3>1. MCPType'
            BY <2>1, <2>3
        <3>2. Addressed'
            BY <2>1, <2>3 DEF Addressed
        <3>3. Entered' /\ M!LeftoverSessionsExplained'
            BY <2>1, <2>3 DEF Entered, M!LeftoverSessionsExplained
        <3> QED
            BY <3>1, <3>2, <3>3
    <2> QED
        BY <2>1, <2>2, <2>3
<1>7. CASE M!StartBind \/ M!StartPublish \/ M!StopMark \/ M!AcceptErr
              \/ M!SetAuthSecret \/ \E t \in Tools : M!RegisterTool(t)
    BY <1>1, <1>7 DEF M!StartBind, M!StartPublish, M!StopMark, M!AcceptErr,
                      M!SetAuthSecret, M!RegisterTool, M!lifeVars
<1>8. M!Next \/ UNCHANGED <<M!connVars, stopped>>
    BY DEF Next, all, AsLibrary, AsWebSocket, AsBroker, AsSubs, AsReader, LibraryKinds,
           ofServers, ofMCP, M!connVars
<1> HIDE DEF Good
<1> QED
    BY <1>1, <1>2, <1>3, <1>4, <1>5, <1>6, <1>7, <1>8 DEF M!Next

(* LeftoversExplained holds for any number of clients and addresses: Stop
   misses only clients whose admission it overtook, and sessions that it could
   not find in the map (mqtt/broker.go:77-88, mcp/server.go:229-232). *)
THEOREM LeftoversCorrect == Spec => []LeftoversExplained
<1>1. Init => BrokerInv /\ MCPInv
    BY DEF Init, B!Init, M!Init, BrokerInv, BrokerType, UndecidedBehind, B!In,
           B!Connecting, B!Attached, MCPInv, MCPType, Addressed, Entered, M!In, M!Live, M!LeftoverSessionsExplained
<1>2. BrokerInv /\ MCPInv => LeftoversExplained
    BY DEF BrokerInv, BrokerType, UndecidedBehind, B!In, B!Connecting, B!Attached,
           MCPInv, LeftoversExplained, B!LeftoverClientsExplained
<1> QED
    BY <1>1, <1>2, BrokerKeeps, MCPKeeps, PTL DEF Spec

-----------------------------------------------------------------------------
(* Every protocol server implements Service.  Each kind has an invariant of its
   own about the order in which Start, Stop and the serving goroutine meet;
   under it, each action of the kind is an action of Service or leaves what
   Service sees alone. *)

(* A step of the contract, or none. *)
Kept == Contract!Next \/ UNCHANGED Contract!vars

-----------------------------------------------------------------------------
(* gRPC, Connect and GraphQL. *)

LibraryType ==
    /\ start \in {"idle", "prepared", "bound"}
    /\ stop \in {"idle", "draining", "mark"}
    /\ isRunning \in BOOLEAN /\ serving \in BOOLEAN /\ shut \in BOOLEAN
    /\ missed \in BOOLEAN /\ again \in BOOLEAN
    /\ pend \in Nat

(* Start and Stop exclude each other by isRunning alone: Start goes on without
   the lock.  Connect holds it throughout, and resets isRunning first. *)
StartAlone ==
    /\ start # "idle" => ~isRunning /\ stop = "idle" /\ kind # "connect"
    /\ kind = "connect" /\ stop # "idle" => ~isRunning

(* Unless a Stop was missed, there is one goroutine that has not called Serve,
   or one that serves, and only between Start and Stop. *)
OneServer ==
    ~missed =>
        /\ pend <= 1
        /\ pend = 1 => isRunning /\ stop = "idle" /\ ~serving
        /\ serving => isRunning /\ stop = "idle"

(* A library that has been shut down serves no more until the next Start. *)
ShutHolds ==
    /\ stop = "mark" => missed
    /\ kind # "graphql" => /\ shut => ~serving
                           /\ missed /\ ~again => shut

LibraryInv ==
    kind \in LibraryKinds => LibraryType /\ StartAlone /\ OneServer /\ ShutHolds

LEMMA LibraryKeeps == LibraryInv /\ [Next]_all => LibraryInv'
<1> SUFFICES ASSUME LibraryType, StartAlone, OneServer, ShutHolds,
                    [Next]_all, kind \in LibraryKinds
             PROVE  LibraryInv'
    BY KindFixed DEF LibraryInv
<1> USE KindFixed DEF LibraryInv, LibraryType, StartAlone, OneServer, ShutHolds
<1> DEFINE same == UNCHANGED <<start, stop, isRunning, serving, shut, missed, again, pend>>
<1>1. CASE same
    BY <1>1
<1>2. CASE L!StartPrepare
    BY <1>2 DEF L!StartPrepare, L!Unlocked, L!startFrame, L!stopVars
<1>3. CASE L!StartErr \/ L!StartBind \/ L!StartTLSErr
    BY <1>3 DEF L!StartErr, L!StartBind, L!StartTLSErr, L!startFrame, L!stopVars
<1>4. CASE L!StartMark
    BY <1>4 DEF L!StartMark, L!Unlocked, L!startFrame, L!stopVars
<1>5. CASE L!StartConnect
    <2> USE DEF L!StartConnect, L!Unlocked, L!startFrame, L!stopVars
    <2>1. /\ kind = "connect" /\ stop = "idle" /\ ~isRunning /\ start = "idle"
          /\ again' = (again \/ missed) /\ shut' = FALSE
          /\ UNCHANGED <<start, stop, missed, serving>>
        BY <1>5
    <2>2. \/ isRunning' = TRUE /\ pend' = pend + 1
          \/ UNCHANGED <<isRunning, pend>>
        BY <1>5
    <2> HIDE DEF L!StartConnect
    <2>3. LibraryType'
        <3>1. pend' \in Nat
            BY <2>1, <2>2
        <3>2. isRunning' \in BOOLEAN /\ serving' \in BOOLEAN
            BY <2>1, <2>2
        <3>3. start' \in {"idle", "prepared", "bound"}
            BY <2>1
        <3>4. stop' \in {"idle", "draining", "mark"}
            BY <2>1
        <3>5. shut' \in BOOLEAN /\ missed' \in BOOLEAN /\ again' \in BOOLEAN
            BY <2>1
        <3> QED
            BY <3>1, <3>2, <3>3, <3>4, <3>5
    <2>4. StartAlone'
        BY <2>1, <2>2
    <2>5. OneServer'
        BY <2>1, <2>2
    <2>6. ShutHolds'
        BY <2>1, <2>2
    <2> QED
        BY <2>3, <2>4, <2>5, <2>6
<1>6. CASE L!Serve
    <2>1. /\ pend > 0 /\ pend' = pend - 1
          /\ UNCHANGED <<start, stop, isRunning, shut, missed, again>>
        BY <1>6 DEF L!Serve, L!startFrame, L!stopVars
    <2>2. \/ UNCHANGED serving
          \/ serving' = FALSE
          \/ serving' = TRUE /\ (~shut \/ kind = "graphql")
        BY <1>6 DEF L!Serve
    <2>3. LibraryType'
        <3>1. pend' \in Nat
            BY <2>1, <2>2
        <3>2. isRunning' \in BOOLEAN /\ serving' \in BOOLEAN
            BY <2>1, <2>2
        <3>3. start' \in {"idle", "prepared", "bound"}
            BY <2>1
        <3>4. stop' \in {"idle", "draining", "mark"}
            BY <2>1
        <3>5. shut' \in BOOLEAN /\ missed' \in BOOLEAN /\ again' \in BOOLEAN
            BY <2>1
        <3> QED
            BY <3>1, <3>2, <3>3, <3>4, <3>5
    <2>4. StartAlone'
        BY <2>1
    <2>5. OneServer'
        BY <2>1, <2>2
    <2>6. ShutHolds'
        BY <2>1, <2>2
    <2> QED
        BY <2>3, <2>4, <2>5, <2>6
<1>7. CASE L!StopBegin
    BY <1>7 DEF L!StopBegin, L!Unlocked, L!stopFrame, L!startVars
<1>8. CASE L!StopReturn \/ L!StopExpire
    BY <1>8 DEF L!StopReturn, L!StopExpire, L!stopFrame, L!startVars
<1>9. ASSUME L!SetAuthSecret \/ \E r \in Requests :
                 L!Arrive(r) \/ L!Intercept(r) \/ L!CheckAuth(r) \/ L!Handled(r)
      PROVE  same
    BY <1>9 DEF L!SetAuthSecret, L!Arrive, L!Intercept, L!CheckAuth, L!Handled,
                L!reqFrame, L!startVars, L!stopVars
<1>10. L!Next \/ same
    BY DEF Next, all, AsWebSocket, AsBroker, AsMCP, AsSubs, AsReader, LibraryKinds,
           ofServers, ofLibrary
<1> HIDE DEF same
<1> QED
    BY <1>1, <1>2, <1>3, <1>4, <1>5, <1>6, <1>7, <1>8, <1>9, <1>10 DEF L!Next

(* What Service sees of these servers. *)
LibraryView ==
    /\ Starting = (start # "idle") /\ Stopping = (stop # "idle")
    /\ Serving = serving /\ Busy = (L!InFlight # {}) /\ Missed = missed
    /\ Caps.careful <=> kind # "graphql"
    /\ Caps.bounded <=> kind = "connect"

LEMMA LibrarySeen ==
    /\ kind \in LibraryKinds => LibraryView
    /\ [Next]_all /\ kind \in LibraryKinds => LibraryView' /\ Caps' = Caps
<1> USE DEF LibraryKinds
<1>1. ASSUME kind \in LibraryKinds PROVE LibraryView
    <2>1. Starting = (start # "idle") /\ Stopping = (stop # "idle")
        BY <1>1 DEF Starting, Stopping
    <2>2. Serving = serving /\ Missed = missed
        BY <1>1 DEF Serving, Missed
    <2>3. Busy = (L!InFlight # {})
        BY <1>1 DEF Busy
    <2>4. (Caps.careful <=> kind # "graphql") /\ (Caps.bounded <=> kind = "connect")
        BY <1>1 DEF Caps
    <2> QED
        BY <2>1, <2>2, <2>3, <2>4 DEF LibraryView
<1>2. ASSUME [Next]_all, kind \in LibraryKinds PROVE LibraryView' /\ Caps' = Caps
    <2>0. kind' = kind
        BY <1>2, KindFixed
    <2>1. Starting' = (start' # "idle") /\ Stopping' = (stop' # "idle")
        BY <1>2, <2>0 DEF Starting, Stopping
    <2>2. Serving' = serving' /\ Missed' = missed'
        BY <1>2, <2>0 DEF Serving, Missed
    <2>3. Busy' = (L!InFlight' # {})
        BY <1>2, <2>0 DEF Busy
    <2>4. (Caps'.careful <=> kind' # "graphql") /\ (Caps'.bounded <=> kind' = "connect")
        BY <1>2, <2>0 DEF Caps
    <2>5. Caps' = Caps
        BY <2>0 DEF Caps
    <2> QED
        BY <2>1, <2>2, <2>3, <2>4, <2>5 DEF LibraryView
<1> QED
    BY <1>1, <1>2

LEMMA LibraryImplements ==
    LibraryInv /\ kind \in LibraryKinds /\ [Next]_all => Kept
<1> SUFFICES ASSUME LibraryType, StartAlone, OneServer, ShutHolds,
                    [Next]_all, kind \in LibraryKinds
             PROVE  Kept
    BY DEF LibraryInv
<1>0. LibraryView /\ LibraryView' /\ Caps' = Caps
    BY LibrarySeen
<1> DEFINE same == UNCHANGED <<start, stop, isRunning, serving, missed, again>>
<1> USE DEF LibraryView, LibraryType, L!startFrame, L!stopFrame, L!stopVars, L!startVars,
            L!InFlight
<1>1. CASE L!StartPrepare
    <2>1. Contract!StartBegin
        BY <1>0, <1>1 DEF L!StartPrepare, L!reqVars, Contract!StartBegin
    <2> QED
        BY <2>1 DEF Kept, Contract!Next
<1>2. CASE L!StartErr \/ L!StartTLSErr
    <2>1. Contract!StartFail
        BY <1>0, <1>2 DEF L!StartErr, L!StartTLSErr, L!reqVars, Contract!StartFail
    <2> QED
        BY <2>1 DEF Kept, Contract!Next
<1>3. CASE L!StartMark
    <2>1. Contract!StartDone
        BY <1>0, <1>3 DEF L!StartMark, L!Unlocked, L!reqVars, StartAlone, Contract!StartDone
    <2> QED
        BY <2>1 DEF Kept, Contract!Next
<1>4. CASE L!StartConnect
    <2>1. /\ kind = "connect" /\ stop = "idle" /\ ~isRunning /\ start = "idle"
          /\ again' = (again \/ missed)
          /\ UNCHANGED <<start, stop, missed, serving, req>>
          /\ isRunning' = TRUE \/ UNCHANGED isRunning
        BY <1>4 DEF L!StartConnect, L!Unlocked, L!reqVars, StartAlone
    <2>2. CASE isRunning' = TRUE
        <3>1. Contract!StartDone
            BY <1>0, <2>1, <2>2 DEF Contract!StartDone
        <3> QED
            BY <3>1 DEF Kept, Contract!Next
    <2>3. CASE UNCHANGED isRunning
        <3>1. Contract!StartFail
            BY <1>0, <2>1, <2>3 DEF Contract!StartFail
        <3> QED
            BY <3>1 DEF Kept, Contract!Next
    <2> QED
        BY <2>1, <2>2, <2>3
<1>5. CASE UNCHANGED <<start, stop, isRunning, serving, missed, again, req>>
    BY <1>0, <1>5 DEF Kept, Contract!vars
<1>6. CASE L!Serve
    <2>1. UNCHANGED <<start, stop, isRunning, missed, again, req>> /\ pend > 0
        BY <1>6 DEF L!Serve, L!reqVars
    <2>2. CASE serving' = serving
        BY <1>5, <2>1, <2>2
    <2>3. CASE serving' # serving
        <3>1. serving' = TRUE /\ ~serving /\ (~shut \/ kind = "graphql")
            <4>1. \/ serving' = FALSE /\ shut /\ kind # "graphql"
                  \/ serving' = TRUE /\ (~shut \/ kind = "graphql")
                BY <1>6, <2>3 DEF L!Serve
            <4>2. shut /\ kind # "graphql" => ~serving
                BY DEF ShutHolds
            <4>3. CASE serving = TRUE
                BY <2>3, <4>1, <4>2, <4>3
            <4>4. CASE serving = FALSE
                BY <2>3, <4>1, <4>4
            <4> QED
                BY <4>3, <4>4
        <3>2. \/ isRunning /\ stop = "idle"
              \/ missed /\ (again \/ kind = "graphql")
            BY <2>1, <3>1 DEF OneServer, ShutHolds
        <3>3. Contract!Serve
            BY <1>0, <2>1, <3>1, <3>2 DEF Contract!Serve
        <3> QED
            BY <3>3 DEF Kept, Contract!Next
    <2> QED
        BY <2>2, <2>3
<1>7. CASE L!StopBegin
    <2>1. /\ stop = "idle" /\ isRunning /\ stop' \in {"draining", "mark"}
          /\ serving' = FALSE /\ missed' = (missed \/ ~serving)
          /\ UNCHANGED <<start, again, req>>
        BY <1>7 DEF L!StopBegin, L!Unlocked, L!reqVars
    <2>2. Contract!StopBegin
        BY <1>0, <2>1 DEF Contract!StopBegin
    <2> QED
        BY <2>2 DEF Kept, Contract!Next
<1>8. CASE L!StopReturn
    <2>1. /\ stop # "idle" /\ stop' = "idle" /\ isRunning' = FALSE
          /\ missed \/ L!InFlight = {}
          /\ UNCHANGED <<start, again, req, serving, missed>>
        BY <1>8 DEF L!StopReturn, L!reqVars, ShutHolds
    <2>2. Contract!StopReturn
        BY <1>0, <2>1 DEF Contract!StopReturn
    <2> QED
        BY <2>2 DEF Kept, Contract!Next
<1>9. CASE L!StopExpire
    <2>1. /\ kind = "connect" /\ stop # "idle" /\ stop' = "idle" /\ ~isRunning
          /\ UNCHANGED <<start, again, req, serving, missed, isRunning>>
        BY <1>9 DEF L!StopExpire, L!reqVars, StartAlone
    <2>2. Contract!StopReturn
        BY <1>0, <2>1 DEF Contract!StopReturn
    <2> QED
        BY <2>2 DEF Kept, Contract!Next
<1>10. ASSUME NEW r \in Requests,
              L!Arrive(r) \/ L!Intercept(r) \/ L!CheckAuth(r) \/ L!Handled(r)
       PROVE  Kept
    <2>1. same
        BY <1>10 DEF L!Arrive, L!Intercept, L!CheckAuth, L!Handled, L!reqFrame
    <2>2. (L!InFlight' # {}) => L!InFlight # {} \/ serving
        BY <1>10 DEF L!Arrive, L!Intercept, L!CheckAuth, L!Handled, L!Goto
    <2>3. CASE Busy' = Busy
        BY <1>0, <2>1, <2>3 DEF Kept, Contract!vars
    <2>4. CASE Busy' # Busy
        <3>1. Contract!Work
            BY <1>0, <2>1, <2>2, <2>4 DEF Contract!Work
        <3> QED
            BY <3>1 DEF Kept, Contract!Next
    <2> QED
        BY <2>3, <2>4
<1>11. CASE L!StartBind
    BY <1>0, <1>11 DEF L!StartBind, L!reqVars, Kept, Contract!vars
<1>12. CASE L!SetAuthSecret
    BY <1>5, <1>12 DEF L!SetAuthSecret, L!reqVars
<1>13. L!Next \/ UNCHANGED <<start, stop, isRunning, serving, missed, again, req>>
    BY DEF Next, all, AsWebSocket, AsBroker, AsMCP, AsSubs, AsReader, LibraryKinds,
           ofServers, ofLibrary
<1> QED
    BY <1>1, <1>2, <1>3, <1>4, <1>5, <1>6, <1>7, <1>8, <1>9, <1>10, <1>11, <1>12, <1>13
    DEF L!Next

-----------------------------------------------------------------------------
(* The WebSocket server.  Start is called once, and Stop holds the lock: what
   remains is a Stop that finds the goroutine of Start short of Serve. *)

WebSocketLife ==
    /\ starter \in {"idle", "bound", "failed", "spawn", "returned"}
    /\ stopper \in {"idle", "wait", "drain", "mark"}
    /\ srv \in {"none", "bound", "serving", "closed"}
    /\ isRunning \in BOOLEAN /\ done \in BOOLEAN /\ again = FALSE
    /\ conn \in [Conns -> W!ConnPC]

(* isRunning from StartMark to StopMark, done from then on. *)
Once ==
    /\ starter \in {"idle", "bound", "failed"} => ~isRunning /\ ~done /\ ~W!Locked
    /\ starter = "idle" => srv = "none"
    /\ starter \in {"bound", "failed"} => srv = "bound"
    /\ starter \in {"spawn", "returned"} => (isRunning <=> ~done) /\ srv # "none"
    /\ W!Locked => isRunning

(* Shutdown has waited for the requests when it returns from a server that
   it has closed. *)
Drained ==
    /\ stopper = "drain" => srv = "closed"
    /\ isRunning /\ srv = "closed" => W!Locked
    /\ stopper = "mark" /\ srv = "closed" => W!In(W!InRequest) = {}

WebSocketLifeInv == kind = "websocket" => WebSocketLife /\ Once /\ Drained

(* What a request or a connection does to itself and to the life cycle. *)
LEMMA ConnMoves ==
    ASSUME NEW c \in Conns,
           W!Arrive(c) \/ W!CheckAuth(c) \/ W!CheckCapacity(c) \/ W!Upgrade(c)
              \/ W!Register(c) \/ W!OnConnect(c) \/ W!ReadErr(c) \/ W!Delete(c)
              \/ W!CloseConn(c)
    PROVE  \E pc \in W!ConnPC :
              /\ conn' = [conn EXCEPT ![c] = pc] /\ UNCHANGED W!lifeVars
              /\ pc \in W!InRequest => srv = "serving" \/ conn[c] \in W!InRequest
BY DEF W!Arrive, W!CheckAuth, W!CheckCapacity, W!Upgrade, W!Register, W!OnConnect,
       W!ReadErr, W!Delete, W!CloseConn, W!Goto, W!reqFrame, W!ConnPC, W!Pending,
       W!InRequest

LEMMA WebSocketLifeKeeps == WebSocketLifeInv /\ [Next]_all => WebSocketLifeInv'
<1> SUFFICES ASSUME WebSocketLife, Once, Drained, [Next]_all, kind = "websocket"
             PROVE  WebSocketLife' /\ Once' /\ Drained'
    BY KindFixed DEF WebSocketLifeInv
<1>0. again' = FALSE
    BY DEF WebSocketLife, Next, all, AsLibrary, AsWebSocket, AsBroker, AsMCP, AsSubs,
           AsReader, ofLibrary, LibraryKinds
<1> USE <1>0 DEF WebSocketLife, Once, Drained, W!In, W!startFrame, W!stopFrame,
            W!CanLock, W!Locked
<1>1. CASE UNCHANGED <<W!lifeVars, conn>>
    BY <1>1 DEF W!lifeVars
<1>2. CASE W!StartBind
    BY <1>2 DEF W!StartBind
<1>3. CASE W!StartTLSErr
    BY <1>3 DEF W!StartTLSErr
<1>4. CASE W!StartMark
    BY <1>4 DEF W!StartMark
<1>5. CASE W!StartSpawn
    BY <1>5 DEF W!StartSpawn
<1>6. CASE W!ServeBegin
    BY <1>6 DEF W!ServeBegin
<1>7. CASE W!StopCall \/ W!StopLock
    BY <1>7 DEF W!StopCall, W!StopLock
<1>8. CASE W!StopDrained
    BY <1>8 DEF W!StopDrained
<1>9. CASE W!StopMark
    BY <1>9 DEF W!StopMark
<1>10. ASSUME NEW c \in Conns, NEW pc \in W!ConnPC, conn' = [conn EXCEPT ![c] = pc],
              pc \in W!InRequest => srv = "serving" \/ conn[c] \in W!InRequest,
              UNCHANGED W!lifeVars
       PROVE  WebSocketLife' /\ Once' /\ Drained'
    BY <1>10 DEF W!lifeVars
<1>11. ASSUME NEW c \in Conns,
              W!Arrive(c) \/ W!CheckAuth(c) \/ W!CheckCapacity(c) \/ W!Upgrade(c)
                 \/ W!Register(c) \/ W!OnConnect(c) \/ W!ReadErr(c) \/ W!Delete(c)
                 \/ W!CloseConn(c)
       PROVE  \E pc \in W!ConnPC :
                 /\ conn' = [conn EXCEPT ![c] = pc] /\ UNCHANGED W!lifeVars
                 /\ pc \in W!InRequest => srv = "serving" \/ conn[c] \in W!InRequest
    BY <1>11, ConnMoves
<1>12. CASE W!BroadcastBegin \/ W!BroadcastEnd
               \/ \E c \in Conns : W!HangUp(c)
    BY <1>1, <1>12 DEF W!BroadcastBegin, W!BroadcastEnd, W!HangUp
<1>13. W!Next \/ UNCHANGED <<W!lifeVars, conn>>
    BY DEF Next, all, AsLibrary, AsBroker, AsMCP, AsSubs, AsReader, LibraryKinds,
           ofServers, ofWebSocket, W!lifeVars
<1> HIDE DEF WebSocketLife, Once, Drained
<1> QED
    BY <1>1, <1>2, <1>3, <1>4, <1>5, <1>6, <1>7, <1>8, <1>9, <1>10, <1>11, <1>12, <1>13
    DEF W!Next, W!StarterStep, W!StopperStep, W!RequestStep, W!ConnStep

(* What Service sees of it. *)
WebSocketView ==
    /\ Starting = (starter = "bound") /\ Stopping = W!Locked
    /\ Serving = (srv = "serving") /\ Busy = (W!In(W!InRequest) # {})
    /\ Missed = ((done \/ stopper = "mark") /\ srv \in {"bound", "serving"})
    /\ ~Caps.careful

LEMMA WebSocketSeen ==
    /\ kind = "websocket" => WebSocketView
    /\ [Next]_all /\ kind = "websocket" => WebSocketView' /\ Caps' = Caps
<1> USE DEF LibraryKinds
<1>1. ASSUME kind = "websocket" PROVE WebSocketView
    BY <1>1 DEF WebSocketView, Starting, Stopping, W!Locked, Serving, Busy, Missed, Caps
<1>2. ASSUME [Next]_all, kind = "websocket" PROVE WebSocketView' /\ Caps' = Caps
    <2>1. kind' = "websocket" /\ kind' = kind
        BY <1>2, KindFixed
    <2>2. WebSocketView'
        BY <2>1 DEF WebSocketView, Starting, Stopping, W!Locked, Serving, Busy, Missed, Caps
    <2>3. Caps' = Caps
        BY <2>1 DEF Caps
    <2> QED
        BY <2>2, <2>3
<1> QED
    BY <1>1, <1>2

LEMMA WebSocketImplements ==
    WebSocketLifeInv /\ kind = "websocket" /\ [Next]_all => Kept
<1> SUFFICES ASSUME WebSocketLife, Once, Drained, [Next]_all, kind = "websocket"
             PROVE  Kept
    BY DEF WebSocketLifeInv
<1>0. WebSocketView /\ WebSocketView' /\ Caps' = Caps
    BY WebSocketSeen
<1>a. again = FALSE /\ again' = FALSE
    BY DEF WebSocketLife, Next, all, AsLibrary, AsWebSocket, AsBroker, AsMCP, AsSubs,
           AsReader, ofLibrary, LibraryKinds
<1> USE DEF WebSocketView, W!In, W!startFrame, W!stopFrame, W!CanLock, W!Locked
<1>1. CASE UNCHANGED <<W!lifeVars, conn>>
    BY <1>0, <1>a, <1>1 DEF W!lifeVars, Kept, Contract!vars
<1>2. CASE W!StartBind
    <2>1. Contract!StartBegin
        BY <1>0, <1>a, <1>2 DEF W!StartBind, Once, Contract!StartBegin
    <2> QED
        BY <2>1 DEF Kept, Contract!Next
<1>3. CASE W!StartTLSErr
    <2>1. Contract!StartFail
        BY <1>0, <1>a, <1>3 DEF W!StartTLSErr, Contract!StartFail
    <2> QED
        BY <2>1 DEF Kept, Contract!Next
<1>4. CASE W!StartMark
    <2>1. Contract!StartDone
        BY <1>0, <1>a, <1>4 DEF W!StartMark, Once, Contract!StartDone
    <2> QED
        BY <2>1 DEF Kept, Contract!Next
<1>5. CASE W!StartSpawn
    BY <1>0, <1>a, <1>5 DEF W!StartSpawn, Kept, Contract!vars
<1>15. CASE W!StopCall
    <2>1. ~W!Locked /\ ~W!Locked' /\ stopper # "mark" /\ stopper' # "mark"
        BY <1>15 DEF W!StopCall
    <2>2. Stopping' = Stopping /\ Missed' = Missed
        BY <1>0, <1>15, <2>1 DEF W!StopCall
    <2> QED
        BY <1>0, <1>a, <1>15, <2>2 DEF W!StopCall, Kept, Contract!vars
<1>6. CASE W!ServeBegin
    <2>1. (isRunning /\ ~W!Locked) \/ done \/ stopper = "mark"
        BY <1>6 DEF W!ServeBegin, WebSocketLife, Once, Drained
    <2>2. Contract!Serve
        BY <1>0, <1>a, <1>6, <2>1 DEF W!ServeBegin, Contract!Serve
    <2> QED
        BY <2>2 DEF Kept, Contract!Next
<1>7. CASE W!StopLock /\ isRunning
    <2>1. ~done /\ ~W!Locked
        BY <1>7 DEF W!StopLock, WebSocketLife, Once
    <2>2. Contract!StopBegin
        BY <1>0, <1>a, <1>7, <2>1 DEF W!StopLock, Contract!StopBegin
    <2> QED
        BY <2>2 DEF Kept, Contract!Next
<1>14. CASE W!StopLock /\ ~isRunning
    <2>1. ~W!Locked /\ ~W!Locked' /\ stopper # "mark" /\ stopper' # "mark"
        BY <1>14 DEF W!StopLock
    <2>2. Stopping' = Stopping /\ Missed' = Missed
        BY <1>0, <1>14, <2>1 DEF W!StopLock
    <2> QED
        BY <1>0, <1>a, <1>14, <2>2 DEF W!StopLock, Kept, Contract!vars
<1>8. CASE W!StopDrained
    <2>1. srv = "closed" /\ W!Locked /\ W!Locked'
        BY <1>8 DEF W!StopDrained, Drained
    <2>2. Stopping' = Stopping /\ Missed' = Missed
        BY <1>0, <1>8, <2>1 DEF W!StopDrained
    <2> QED
        BY <1>0, <1>a, <1>8, <2>2 DEF W!StopDrained, Kept, Contract!vars
<1>9. CASE W!StopMark
    <2>1. srv \notin {"bound", "serving"} => W!In(W!InRequest) = {}
        BY <1>9 DEF W!StopMark, WebSocketLife, Once, Drained
    <2>2. Contract!StopReturn
        BY <1>0, <1>a, <1>9, <2>1 DEF W!StopMark, Contract!StopReturn
    <2> QED
        BY <2>2 DEF Kept, Contract!Next
<1>10. ASSUME NEW c \in Conns, NEW pc \in W!ConnPC, conn' = [conn EXCEPT ![c] = pc],
              pc \in W!InRequest => srv = "serving" \/ conn[c] \in W!InRequest,
              UNCHANGED W!lifeVars
       PROVE  Kept
    <2>1. (W!In(W!InRequest)' # {}) => W!In(W!InRequest) # {} \/ srv = "serving"
        BY <1>10 DEF WebSocketLife
    <2>2. CASE Busy' = Busy
        BY <1>0, <1>a, <1>10, <2>2 DEF W!lifeVars, Kept, Contract!vars
    <2>3. CASE Busy' # Busy
        <3>1. Contract!Work
            BY <1>0, <1>a, <1>10, <2>1, <2>3 DEF W!lifeVars, Contract!Work
        <3> QED
            BY <3>1 DEF Kept, Contract!Next
    <2> QED
        BY <2>2, <2>3
<1>11. ASSUME NEW c \in Conns,
              W!Arrive(c) \/ W!CheckAuth(c) \/ W!CheckCapacity(c) \/ W!Upgrade(c)
                 \/ W!Register(c) \/ W!OnConnect(c) \/ W!ReadErr(c) \/ W!Delete(c)
                 \/ W!CloseConn(c)
       PROVE  \E pc \in W!ConnPC :
                 /\ conn' = [conn EXCEPT ![c] = pc] /\ UNCHANGED W!lifeVars
                 /\ pc \in W!InRequest => srv = "serving" \/ conn[c] \in W!InRequest
    BY <1>11, ConnMoves
<1>12. CASE W!BroadcastBegin \/ W!BroadcastEnd
               \/ \E c \in Conns : W!HangUp(c)
    BY <1>1, <1>12 DEF W!BroadcastBegin, W!BroadcastEnd, W!HangUp
<1>13. W!Next \/ UNCHANGED <<W!lifeVars, conn>>
    BY DEF Next, all, AsLibrary, AsBroker, AsMCP, AsSubs, AsReader, LibraryKinds,
           ofServers, ofWebSocket, W!lifeVars
<1> QED
    BY <1>1, <1>2, <1>3, <1>4, <1>5, <1>6, <1>7, <1>8, <1>9, <1>10, <1>11, <1>12, <1>13, <1>14,
       <1>15
    DEF W!Next, W!StarterStep, W!StopperStep, W!RequestStep, W!ConnStep

-----------------------------------------------------------------------------
(* The MQTT broker.  isRunning is set after the goroutine was spawned, which may
   serve before; Stop closes the port before it waits. *)

BrokerLife ==
    /\ start \in {"idle", "added", "spawned", "returned"}
    /\ stop \in {"idle", "closing"}
    /\ isRunning \in BOOLEAN /\ again = FALSE

BrokerOrder ==
    /\ start \in {"idle", "added"} => loop = "none"
    /\ start # "returned" => ~isRunning /\ stop = "idle"
    /\ start = "returned" => isRunning \/ port = "closed"
    /\ stop # "idle" => isRunning /\ port = "closed"

BrokerLifeInv == kind = "mqtt" => BrokerLife /\ BrokerOrder

(* Every step of a client leaves the life cycle alone. *)
LEMMA BrokerClients ==
    ASSUME B!SetAuthSecret \/ \E c \in Clients :
               B!Connect(c) \/ B!ClientStep(c) \/ B!Leave(c)
    PROVE  UNCHANGED B!lifeVars
BY DEF B!SetAuthSecret, B!Connect, B!ClientStep, B!Accept, B!Attach, B!Authenticate,
       B!Establish, B!Leave

(* Of the servers, only the ones that leave serving to a library can be started
   again. *)
LEMMA AgainFixed == kind \notin LibraryKinds /\ [Next]_all => again' = again
BY DEF Next, all, AsLibrary, AsWebSocket, AsBroker, AsMCP, AsSubs, AsReader, ofLibrary

LEMMA BrokerLifeKeeps == BrokerLifeInv /\ [Next]_all => BrokerLifeInv'
<1> SUFFICES ASSUME BrokerLife, BrokerOrder, [Next]_all, kind = "mqtt"
             PROVE  BrokerLife' /\ BrokerOrder'
    BY KindFixed DEF BrokerLifeInv
<1>0. again' = again
    BY AgainFixed DEF LibraryKinds
<1> USE <1>0 DEF BrokerLife, BrokerOrder, B!Unlocked
<1>1. CASE UNCHANGED B!lifeVars
    BY <1>1 DEF B!lifeVars
<1>2. CASE B!StartAdd
    BY <1>2 DEF B!StartAdd
<1>6. CASE B!StartSpawn
    BY <1>6 DEF B!StartSpawn
<1>7. CASE B!StartMark
    BY <1>7 DEF B!StartMark
<1>3. CASE B!ServeBegin \/ B!LoopExit
    BY <1>3 DEF B!ServeBegin, B!LoopExit
<1>4. CASE B!StopBegin \/ B!StopReturn
    BY <1>4 DEF B!StopBegin, B!StopReturn
<1>5. B!Next \/ UNCHANGED B!lifeVars
    BY DEF Next, all, AsLibrary, AsWebSocket, AsMCP, AsSubs, AsReader, LibraryKinds,
           ofServers, B!lifeVars
<1> HIDE DEF BrokerLife, BrokerOrder
<1> QED
    BY <1>1, <1>2, <1>3, <1>4, <1>5, <1>6, <1>7, BrokerClients DEF B!Next

(* What Service sees of it. *)
BrokerView ==
    /\ Starting = (start \in {"added", "spawned"}) /\ Stopping = (stop # "idle")
    /\ Serving = (loop = "running" /\ port = "open") /\ Busy = FALSE /\ Missed = FALSE
    /\ ~Caps.drains

LEMMA BrokerSeen ==
    /\ kind = "mqtt" => BrokerView
    /\ [Next]_all /\ kind = "mqtt" => BrokerView' /\ Caps' = Caps
<1> USE DEF LibraryKinds
<1>1. ASSUME kind = "mqtt" PROVE BrokerView
    BY <1>1 DEF BrokerView, Starting, Stopping, Serving, Busy, Missed, Caps
<1>2. ASSUME [Next]_all, kind = "mqtt" PROVE BrokerView' /\ Caps' = Caps
    <2>1. kind' = "mqtt" /\ kind' = kind
        BY <1>2, KindFixed
    <2>2. BrokerView'
        BY <2>1 DEF BrokerView, Starting, Stopping, Serving, Busy, Missed, Caps
    <2>3. Caps' = Caps
        BY <2>1 DEF Caps
    <2> QED
        BY <2>2, <2>3
<1> QED
    BY <1>1, <1>2

LEMMA BrokerImplements ==
    BrokerLifeInv /\ kind = "mqtt" /\ [Next]_all => Kept
<1> SUFFICES ASSUME BrokerLife, BrokerOrder, [Next]_all, kind = "mqtt"
             PROVE  Kept
    BY DEF BrokerLifeInv
<1>0. BrokerView /\ BrokerView' /\ Caps' = Caps
    BY BrokerSeen
<1>a. again = FALSE /\ again' = FALSE
    BY AgainFixed DEF LibraryKinds, BrokerLife
<1> USE <1>0, <1>a DEF BrokerView, BrokerLife, BrokerOrder, B!Unlocked
<1>1. CASE UNCHANGED B!lifeVars
    BY <1>1 DEF B!lifeVars, Kept, Contract!vars
<1>2. CASE B!StartAdd
    <2>1. Contract!StartBegin
        BY <1>2 DEF B!StartAdd, Contract!StartBegin
    <2> QED
        BY <2>1 DEF Kept, Contract!Next
<1>3. CASE B!StartSpawn
    <2>1. loop # "running" /\ loop' # "running" /\ start = "added" /\ start' = "spawned"
        BY <1>3 DEF B!StartSpawn
    <2>2. Serving' = Serving /\ Starting' = Starting
        BY <2>1
    <2> QED
        BY <1>3, <2>2 DEF B!StartSpawn, Kept, Contract!vars
<1>4. CASE B!StartMark
    <2>1. Contract!StartDone
        BY <1>4 DEF B!StartMark, Contract!StartDone
    <2> QED
        BY <2>1 DEF Kept, Contract!Next
<1>5. CASE B!ServeBegin /\ port = "open"
    <2>1. Contract!Serve
        BY <1>5 DEF B!ServeBegin, Contract!Serve
    <2> QED
        BY <2>1 DEF Kept, Contract!Next
<1>6. CASE B!ServeBegin /\ port # "open"
    BY <1>6 DEF B!ServeBegin, Kept, Contract!vars
<1>7. CASE B!StopBegin
    <2>1. Contract!StopBegin
        BY <1>7 DEF B!StopBegin, Contract!StopBegin
    <2> QED
        BY <2>1 DEF Kept, Contract!Next
<1>8. CASE B!LoopExit
    BY <1>8 DEF B!LoopExit, Kept, Contract!vars
<1>9. CASE B!StopReturn
    <2>1. Contract!StopReturn
        BY <1>9 DEF B!StopReturn, Contract!StopReturn
    <2> QED
        BY <2>1 DEF Kept, Contract!Next
<1>10. B!Next \/ UNCHANGED B!lifeVars
    BY DEF Next, all, AsLibrary, AsWebSocket, AsMCP, AsSubs, AsReader, LibraryKinds,
           ofServers, B!lifeVars
<1> QED
    BY <1>1, <1>2, <1>3, <1>4, <1>5, <1>6, <1>7, <1>8, <1>9, <1>10, BrokerClients
    DEF B!Next

-----------------------------------------------------------------------------
(* The MCP server.  listener and isRunning are published in any order, without
   the lock: a Stop between the two closes no port and is the missed one. *)

MCPLife ==
    /\ start \in {"idle", "bound", "returned"}
    /\ stop \in {"idle", "closing"}
    /\ isRunning \in BOOLEAN /\ raced \in BOOLEAN /\ again = FALSE

MCPOrder ==
    /\ start = "idle" => ~isRunning /\ ~stopped /\ ~raced
    /\ start # "returned" => loop # "running"
    /\ start = "returned" => listener
    /\ stop # "idle" => stopped
    /\ stopped /\ port = "open" => raced
    /\ start = "returned" => isRunning \/ stopped

MCPLifeInv == kind = "mcp" => MCPLife /\ MCPOrder

(* Every step of a connection or of a registry leaves the life cycle alone. *)
LEMMA MCPClients ==
    ASSUME \/ M!SetAuthSecret \/ \E t \in Tools : M!RegisterTool(t)
           \/ \E c \in Clients :
                M!Accept(c) \/ M!Register(c) \/ M!Initialize(c) \/ M!CallTool(c)
                   \/ M!CallReturn(c) \/ M!ReadErr(c) \/ M!Delete(c) \/ M!HangUp(c)
    PROVE  UNCHANGED M!lifeVars
BY DEF M!SetAuthSecret, M!RegisterTool, M!Accept, M!Register, M!Initialize, M!CallTool,
       M!CallReturn, M!ReadErr, M!Delete, M!HangUp

LEMMA MCPLifeKeeps == MCPLifeInv /\ [Next]_all => MCPLifeInv'
<1> SUFFICES ASSUME MCPLife, MCPOrder, [Next]_all, kind = "mcp"
             PROVE  MCPLife' /\ MCPOrder'
    BY KindFixed DEF MCPLifeInv
<1>0. again' = again
    BY AgainFixed DEF LibraryKinds
<1> USE <1>0 DEF MCPLife, MCPOrder, M!Unlocked
<1>1. CASE UNCHANGED M!lifeVars
    BY <1>1 DEF M!lifeVars
<1>2. CASE M!StartBind
    BY <1>2 DEF M!StartBind
<1>3. CASE M!StartPublish
    BY <1>3 DEF M!StartPublish
<1>4. CASE M!StopClose
    BY <1>4 DEF M!StopClose
<1>5. CASE M!StopMark \/ M!AcceptErr
    BY <1>5 DEF M!StopMark, M!AcceptErr
<1>6. M!Next \/ UNCHANGED M!lifeVars
    BY DEF Next, all, AsLibrary, AsWebSocket, AsBroker, AsSubs, AsReader, LibraryKinds,
           ofServers, ofMCP, M!lifeVars
<1> HIDE DEF MCPLife, MCPOrder
<1> QED
    BY <1>1, <1>2, <1>3, <1>4, <1>5, <1>6, MCPClients DEF M!Next

(* What Service sees of it. *)
MCPView ==
    /\ Starting = (start = "bound" /\ ~isRunning /\ ~stopped)
    /\ Stopping = (stop # "idle")
    /\ Serving = (loop = "running" /\ port = "open") /\ Busy = FALSE /\ Missed = raced
    /\ ~Caps.careful /\ ~Caps.drains

LEMMA MCPSeen ==
    /\ kind = "mcp" => MCPView
    /\ [Next]_all /\ kind = "mcp" => MCPView' /\ Caps' = Caps
<1> USE DEF LibraryKinds
<1>1. ASSUME kind = "mcp" PROVE MCPView
    BY <1>1 DEF MCPView, Starting, Stopping, Serving, Busy, Missed, Caps
<1>2. ASSUME [Next]_all, kind = "mcp" PROVE MCPView' /\ Caps' = Caps
    <2>1. kind' = "mcp" /\ kind' = kind
        BY <1>2, KindFixed
    <2>2. MCPView'
        BY <2>1 DEF MCPView, Starting, Stopping, Serving, Busy, Missed, Caps
    <2>3. Caps' = Caps
        BY <2>1 DEF Caps
    <2> QED
        BY <2>2, <2>3
<1> QED
    BY <1>1, <1>2

LEMMA MCPImplements ==
    MCPLifeInv /\ kind = "mcp" /\ [Next]_all => Kept
<1> SUFFICES ASSUME MCPLife, MCPOrder, [Next]_all, kind = "mcp"
             PROVE  Kept
    BY DEF MCPLifeInv
<1>0. MCPView /\ MCPView' /\ Caps' = Caps
    BY MCPSeen
<1>a. again = FALSE /\ again' = FALSE
    BY AgainFixed DEF LibraryKinds, MCPLife
<1> USE <1>0, <1>a DEF MCPView, MCPLife, MCPOrder, M!Unlocked
<1>1. CASE UNCHANGED M!lifeVars
    BY <1>1 DEF M!lifeVars, Kept, Contract!vars
<1>2. CASE M!StartBind
    <2>1. Contract!StartBegin
        BY <1>2 DEF M!StartBind, Contract!StartBegin
    <2> QED
        BY <2>1 DEF Kept, Contract!Next
<1>3. CASE M!StartPublish
    <2>1. start = "bound" /\ UNCHANGED <<port, stop, raced, stopped>>
        BY <1>3 DEF M!StartPublish
    <2>2. CASE UNCHANGED <<isRunning, start, loop>>
        BY <2>1, <2>2 DEF Kept, Contract!vars
    <2>3. CASE ~isRunning /\ ~stopped /\ isRunning' = TRUE /\ UNCHANGED <<start, loop>>
        <3>1. Contract!StartDone
            BY <2>1, <2>3 DEF Contract!StartDone
        <3> QED
            BY <3>1 DEF Kept, Contract!Next
    <2>4. CASE /\ isRunning \/ stopped
               /\ start' = "returned" /\ loop' = "running" /\ UNCHANGED isRunning
        <3>1. CASE port = "open"
            <4>1. Contract!Serve
                BY <2>1, <2>4, <3>1 DEF Contract!Serve
            <4> QED
                BY <4>1 DEF Kept, Contract!Next
        <3>2. CASE port # "open"
            BY <2>1, <2>4, <3>2 DEF Kept, Contract!vars
        <3> QED
            BY <3>1, <3>2
    <2> QED
        BY <1>3, <2>2, <2>3, <2>4 DEF M!StartPublish
<1>4. CASE M!StopClose
    <2>1. loop = "running" => listener
        BY DEF MCPOrder
    <2>2. Contract!StopBegin
        BY <1>4, <2>1 DEF M!StopClose, Contract!StopBegin
    <2> QED
        BY <2>2 DEF Kept, Contract!Next
<1>5. CASE M!StopMark
    <2>1. Contract!StopReturn
        BY <1>5 DEF M!StopMark, Contract!StopReturn
    <2> QED
        BY <2>1 DEF Kept, Contract!Next
<1>6. CASE M!AcceptErr
    BY <1>6 DEF M!AcceptErr, Kept, Contract!vars
<1>7. M!Next \/ UNCHANGED M!lifeVars
    BY DEF Next, all, AsLibrary, AsWebSocket, AsBroker, AsSubs, AsReader, LibraryKinds,
           ofServers, ofMCP, M!lifeVars
<1> QED
    BY <1>1, <1>2, <1>3, <1>4, <1>5, <1>6, <1>7, MCPClients DEF M!Next

-----------------------------------------------------------------------------
(* The parts that are no servers show Service nothing. *)
LEMMA PartsImplement ==
    kind \in {"subscriptions", "reader"} /\ [Next]_all => Kept
<1> SUFFICES ASSUME kind \in {"subscriptions", "reader"}, [Next]_all PROVE Kept
    OBVIOUS
<1>1. kind' = kind /\ UNCHANGED <<again, isRunning, stop>>
    BY KindFixed DEF Next, all, AsLibrary, AsWebSocket, AsBroker, AsMCP, AsSubs, AsReader,
                     ofLibrary, ofServers, LibraryKinds
<1>2. /\ Starting = FALSE /\ Serving = FALSE /\ Busy = FALSE /\ Missed = FALSE
      /\ Starting' = FALSE /\ Serving' = FALSE /\ Busy' = FALSE /\ Missed' = FALSE
    BY <1>1 DEF Starting, Serving, Busy, Missed, LibraryKinds
<1>3. UNCHANGED <<Stopping, Caps>>
    BY <1>1 DEF Stopping, Caps
<1> QED
    BY <1>1, <1>2, <1>3 DEF Kept, Contract!vars

LifeInv ==
    /\ kind \in Kinds
    /\ LibraryInv /\ WebSocketLifeInv /\ BrokerLifeInv /\ MCPLifeInv

LEMMA LifeInit == Init => LifeInv
<1> SUFFICES ASSUME Init PROVE LifeInv
    OBVIOUS
<1> USE DEF Init, LifeInv
<1>1. LibraryInv
    <2>1. LibraryType
        BY DEF L!Init, LibraryType
    <2> QED
        BY <2>1 DEF L!Init, LibraryInv, StartAlone, OneServer, ShutHolds
<1>2. WebSocketLifeInv
    BY DEF L!Init, W!Init, WebSocketLifeInv, WebSocketLife, Once, Drained, W!Locked,
           W!ConnPC
<1>3. BrokerLifeInv
    BY DEF L!Init, B!Init, BrokerLifeInv, BrokerLife, BrokerOrder
<1>4. MCPLifeInv
    BY DEF L!Init, M!Init, MCPLifeInv, MCPLife, MCPOrder
<1> QED
    BY <1>1, <1>2, <1>3, <1>4

LEMMA LifeKeeps == LifeInv /\ [Next]_all => LifeInv' /\ Kept
BY KindFixed, LibraryKeeps, LibraryImplements, WebSocketLifeKeeps, WebSocketImplements,
   BrokerLifeKeeps, BrokerImplements, MCPLifeKeeps, MCPImplements, PartsImplement
DEF LifeInv, Kinds

LEMMA ContractInit == Init => Contract!Init
<1> SUFFICES ASSUME Init PROVE Contract!Init
    OBVIOUS
<1>1. /\ start = "idle" /\ stop = "idle" /\ isRunning = FALSE /\ serving = FALSE
      /\ missed = FALSE /\ again = FALSE /\ req = [r \in Requests |-> "new"]
      /\ starter = "idle" /\ stopper = "idle" /\ done = FALSE /\ srv = "none"
      /\ conn = [c \in Conns |-> "new"] /\ loop = "none" /\ raced = FALSE
    BY DEF Init, L!Init, W!Init, B!Init, M!Init
<1>2. Starting = FALSE /\ Stopping = FALSE /\ Serving = FALSE
    BY <1>1 DEF Starting, Stopping, Serving, LibraryKinds
<1>3. Missed = FALSE
    BY <1>1 DEF Missed, LibraryKinds
<1>4. L!InFlight = {} /\ W!In(W!InRequest) = {}
    BY <1>1 DEF L!InFlight, W!In, W!InRequest
<1>5. Busy = FALSE
    BY <1>4 DEF Busy, LibraryKinds
<1>6. Caps \in Contract!Capabilities
    BY DEF Caps, Contract!Capabilities
<1> QED
    BY <1>1, <1>2, <1>3, <1>5, <1>6 DEF Contract!Init

(* Every server behind ProtocolHandler (protocol/base.go) implements Service:
   its Start, Stop and serving goroutine meet in no order that the contract
   does not allow, for any number of requests, clients and calls. *)
THEOREM ContractKept == Spec => ServiceImplemented
<1>1. Init => Contract!Init
    BY ContractInit
<1>2. Init => LifeInv
    BY LifeInit
<1>3. LifeInv /\ [Next]_all => LifeInv' /\ [Contract!Next]_(Contract!vars)
    BY LifeKeeps DEF Kept
<1> QED
    BY <1>1, <1>2, <1>3, PTL DEF Spec, ServiceImplemented, Contract!Spec

=============================================================================
