--------------------------- MODULE TCPProxyProofs ---------------------------
(***************************************************************************)
(* Proofs about TCPProxy for every finite set of connections, every pool,   *)
(* every limit and any number of restarts: the counters are exact, never    *)
(* negative, the connection limit holds up to one connection per            *)
(* generation, what Stop leaves behind is cancelled, and a proxy at rest     *)
(* has the checker and the port that its state calls for.                   *)
(*                                                                         *)
(* The invariant that makes the counters inductive is who owns what: a loop *)
(* past Accept holds a connection that no other loop or handler touches     *)
(* (Holding), a generation's loop is spawned once (OneLoop), and a handler   *)
(* past Pick knows its target (Targeted).                                   *)
(***************************************************************************)
EXTENDS TCPProxy, FiniteSetTheorems, TLAPS

(* A generation's accept loop is spawned once, by the Start that made it. *)
OneLoop ==
    /\ \A g \in Gens : g > gen => loop[g].pc = "none"
    /\ starter.pc # "idle" => /\ starter.gen \in 1..gen
                              /\ loop[starter.gen].pc = "none"
    /\ isRunning => gen > 0
    /\ stopper.pc # "idle" => stopper.gen \in Gens

(* Between Accept and go handle a connection belongs to its loop alone. *)
Holding ==
    \A g \in Gens : loop[g].pc \in {"check", "add", "count"} =>
        /\ loop[g].cur \in Conns
        /\ conn[loop[g].cur].pc = "held"
        /\ conn[loop[g].cur].gen = g

(* From Pick to the deferred decrement a handler has a target. *)
Targeted ==
    \A c \in Conns : conn[c].pc \in {"dial", "open", "closing"} =>
        conn[c].target \in Targets

StateInv == StateOK /\ OneLoop /\ Holding /\ Targeted

-----------------------------------------------------------------------------
(* The state invariant holds initially. *)
LEMMA StateInit == Init => StateInv
<1> SUFFICES ASSUME Init PROVE StateInv
  OBVIOUS
<1> USE ProxyAssumption DEF Init
<1>1. loop \in [Gens -> Loop]
  BY DEF Loop, Listeners
<1>2. conn \in [Conns -> Conn]
  BY DEF Conn, ConnPC
<1>3. starter \in Starter /\ stopper \in Stopper
  BY DEF Starter, Stopper, IdleStart, IdleStop, Listeners
<1>4. gen \in 0..MaxGen
  OBVIOUS
<1>a. listener \in Listeners /\ open \subseteq Gens \cup {Injected}
  BY DEF Listeners
<1>b. StateOK
  BY <1>1, <1>2, <1>3, <1>4, <1>a DEF StateOK
<1>5. OneLoop /\ Holding /\ Targeted
  BY DEF OneLoop, Holding, Targeted, IdleStart, IdleStop
<1> QED BY <1>b, <1>5 DEF StateInv

(* Every step preserves the state invariant. *)
LEMMA StateStep == StateInv /\ [Next]_vars => StateInv'
<1> SUFFICES ASSUME StateInv, [Next]_vars PROVE StateInv'
  OBVIOUS
<1> USE DEF StateInv
<1>0. starter.pc # "idle" => starter.gen \in Gens
  BY ProxyAssumption DEF StateOK, OneLoop, Gens
<1>1. CASE SetListener
  BY <1>1 DEF SetListener, StateOK, OneLoop, Holding, Targeted, Listeners, lockVars, chkVars, countVars, ghostVars
<1>2. CASE StartLocked
  <2>1. gen + 1 \in Gens
    BY <1>2, ProxyAssumption DEF StartLocked, StateOK, Gens
  <2>2. listener' \in Listeners /\ open' \subseteq Gens \cup {Injected}
    BY <1>2, <2>1 DEF StartLocked, StateOK, Listeners
  <2>3. starter' \in Starter
    BY <1>2, <2>1 DEF StartLocked, Starter
  <2>4. /\ loop' \in [Gens -> Loop]
        /\ \A g \in Gens : loop'[g].pc = loop[g].pc /\ loop'[g].cur = loop[g].cur
    BY <1>2, <2>1, <2>2 DEF StartLocked, StateOK, Loop
  <2>5. StateOK'
    <3>1. gen' \in 0..MaxGen /\ overlapped' \in BOOLEAN
      BY <1>2, <2>1, ProxyAssumption DEF StartLocked, StateOK, Gens
    <3> QED BY <1>2, <2>2, <2>3, <2>4, <3>1 DEF StartLocked, StateOK, chkVars
  <2>6. OneLoop'
    BY <1>2, <2>1, <2>4, ProxyAssumption DEF StartLocked, StateOK, OneLoop, Gens
  <2>7. Holding' /\ Targeted'
    BY <1>2, <2>4 DEF StartLocked, Holding, Targeted
  <2> QED BY <2>5, <2>6, <2>7
<1>3. CASE StartChecker
  <2>1. /\ starter' \in Starter /\ starter'.gen = starter.gen
        /\ chkCancel' \in BOOLEAN /\ chkLoop' \in BOOLEAN
    BY <1>3 DEF StartChecker, StateOK, Starter, chkVars
  <2> QED BY <1>3, <2>1 DEF StartChecker, StateOK, OneLoop, Holding, Targeted, lockVars, chkVars, countVars, ghostVars
<1>4. CASE StartSpawn
  <2>1. starter.gen \in Gens /\ starter.gen <= gen
    BY <1>4, ProxyAssumption DEF StartSpawn, OneLoop, StateOK, Gens
  <2>2. /\ loop' \in [Gens -> Loop]
        /\ \A g \in Gens : g # starter.gen => loop'[g] = loop[g]
        /\ loop'[starter.gen].pc = "accept"
    BY <1>4, <2>1 DEF StartSpawn, StateOK, Loop
  <2>3. starter' \in Starter /\ starter'.pc = "idle"
    BY <1>4 DEF StartSpawn, IdleStart, Starter
  <2>4. StateOK'
    BY <1>4, <2>2, <2>3 DEF StartSpawn, StateOK, lockVars, chkVars, countVars, ghostVars
  <2>5. OneLoop'
    BY <1>4, <2>1, <2>2, <2>3, ProxyAssumption DEF StartSpawn, StateOK, OneLoop, Gens, lockVars, chkVars, countVars, ghostVars
  <2>6. Holding' /\ Targeted'
    BY <1>4, <2>2 DEF StartSpawn, Holding, Targeted
  <2> QED BY <2>4, <2>5, <2>6
<1>5. CASE StopLocked
  <2>1. gen \in Gens
    BY <1>5, ProxyAssumption DEF StopLocked, StateOK, OneLoop, Gens
  <2>2. stopper' \in Stopper /\ stopper'.gen \in Gens
    BY <1>5, <2>1 DEF StopLocked, StateOK, Stopper
  <2> QED BY <1>5, <2>2 DEF StopLocked, StateOK, OneLoop, Holding, Targeted, Listeners, lockVars, chkVars, countVars, ghostVars
<1>6. CASE StopCancel
  <2>1. stopper' \in Stopper /\ stopper'.gen = stopper.gen
    BY <1>6 DEF StopCancel, StateOK, Stopper
  <2> QED BY <1>6, <2>1 DEF StopCancel, StateOK, OneLoop, Holding, Targeted, lockVars, chkVars, countVars, ghostVars
<1>7. CASE StopChecker
  <2>1. stopper' \in Stopper /\ stopper'.gen = stopper.gen
    BY <1>7 DEF StopChecker, StateOK, Stopper
  <2> QED BY <1>7, <2>1 DEF StopChecker, StateOK, OneLoop, Holding, Targeted, lockVars, chkVars, countVars, ghostVars
<1>8. CASE StopCheckerEnd
  <2>1. stopper' \in Stopper /\ stopper'.gen = stopper.gen
    BY <1>8 DEF StopCheckerEnd, StateOK, Stopper
  <2> QED BY <1>8, <2>1 DEF StopCheckerEnd, StateOK, OneLoop, Holding, Targeted, lockVars, chkVars, countVars, ghostVars
<1>9. CASE StopClose
  <2>1. stopper' \in Stopper /\ stopper'.gen = stopper.gen
    BY <1>9 DEF StopClose, StateOK, Stopper
  <2> QED BY <1>9, <2>1 DEF StopClose, StateOK, OneLoop, Holding, Targeted, lockVars, chkVars, countVars, ghostVars
<1>10. CASE StopDone
  <2>1. stopper' \in Stopper /\ stopper'.pc = "idle"
    BY <1>10 DEF StopDone, IdleStop, Stopper, Listeners
  <2> QED BY <1>10, <2>1 DEF StopDone, StateOK, OneLoop, Holding, Targeted, lockVars, chkVars, countVars, ghostVars
<1>11. CASE StopTimeout
  <2>1. stopper' \in Stopper /\ stopper'.pc = "idle"
    BY <1>11 DEF StopTimeout, IdleStop, Stopper, Listeners
  <2> QED BY <1>11, <2>1 DEF StopTimeout, StateOK, OneLoop, Holding, Targeted, lockVars, chkVars, countVars, ghostVars
<1>12. CASE MuxClose
  BY <1>12 DEF MuxClose, StateOK, OneLoop, Holding, Targeted, lockVars, chkVars, countVars, ghostVars
<1>13. ASSUME NEW g \in Gens, NEW c \in Conns, Accept(g, c) PROVE StateInv'
  <2>1. /\ loop' \in [Gens -> Loop]
        /\ \A h \in Gens : h # g => loop'[h] = loop[h]
        /\ loop[g].pc = "accept" /\ loop'[g].pc = "check" /\ loop'[g].cur = c
    BY <1>13 DEF Accept, StateOK, Loop
  <2>2. /\ conn' \in [Conns -> Conn]
        /\ \A d \in Conns : d # c => conn'[d] = conn[d]
        /\ conn[c].pc = "new" /\ conn'[c].pc = "held" /\ conn'[c].gen = g
    BY <1>13 DEF Accept, StateOK, Conn, ConnPC
  <2>3. StateOK'
    BY <1>13, <2>1, <2>2 DEF Accept, StateOK, lockVars, chkVars, countVars, ghostVars
  <2>4. OneLoop'
    BY <1>0, <1>13, <2>1 DEF Accept, OneLoop, lockVars, chkVars, countVars, ghostVars
  <2>5. Holding'
    BY <2>1, <2>2 DEF Holding
  <2>6. Targeted'
    BY <2>2 DEF Targeted
  <2> QED BY <2>3, <2>4, <2>5, <2>6
<1>14. ASSUME NEW g \in Gens, AcceptErr(g) PROVE StateInv'
  <2>1. /\ loop' \in [Gens -> Loop]
        /\ \A h \in Gens : h # g => loop'[h] = loop[h]
        /\ loop[g].pc = "accept" /\ loop'[g].pc = "exit"
    BY <1>14 DEF AcceptErr, StateOK, Loop, Listeners
  <2> QED BY <1>0, <1>14, <2>1 DEF AcceptErr, StateOK, OneLoop, Holding, Targeted, lockVars, chkVars, countVars, ghostVars
<1>15. ASSUME NEW g \in Gens, AcceptFails(g) PROVE StateInv'
  <2>1. /\ loop' \in [Gens -> Loop]
        /\ \A h \in Gens : h # g => loop'[h] = loop[h]
        /\ loop[g].pc = "accept" /\ loop'[g].pc = "exit"
    BY <1>15 DEF AcceptFails, StateOK, Loop, Listeners
  <2> QED BY <1>0, <1>15, <2>1 DEF AcceptFails, StateOK, OneLoop, Holding, Targeted, lockVars, chkVars, countVars, ghostVars
<1>16. ASSUME NEW g \in Gens, CheckLimit(g) PROVE StateInv'
  <2> DEFINE c == loop[g].cur
  <2>1. /\ c \in Conns /\ conn[c].pc = "held" /\ conn[c].gen = g
        /\ loop[g].pc = "check"
    BY <1>16 DEF CheckLimit, Holding
  <2>2. /\ loop' \in [Gens -> Loop]
        /\ \A h \in Gens : h # g => loop'[h] = loop[h]
        /\ \/ loop'[g].pc = "accept"
           \/ loop'[g].pc = "add" /\ loop'[g].cur = c /\ conn' = conn
    BY <1>16 DEF CheckLimit, StateOK, Loop
  <2>3. /\ conn' \in [Conns -> Conn]
        /\ \A d \in Conns : d # c => conn'[d] = conn[d]
        /\ conn'[c].pc \in {"held", "done"}
    BY <1>16, <2>1 DEF CheckLimit, StateOK, Conn, ConnPC
  <2> HIDE DEF c
  <2>4. StateOK' /\ OneLoop'
    BY <1>0, <1>16, <2>1, <2>2, <2>3 DEF CheckLimit, StateOK, OneLoop, lockVars, chkVars, countVars, ghostVars
  <2>5. Holding'
    BY <2>1, <2>2, <2>3 DEF Holding
  <2>6. Targeted'
    BY <2>1, <2>3 DEF Targeted
  <2> QED BY <2>4, <2>5, <2>6
<1>17. ASSUME NEW g \in Gens, AddConn(g) PROVE StateInv'
  <2>1. /\ loop' \in [Gens -> Loop]
        /\ \A h \in Gens : h # g => loop'[h] = loop[h]
        /\ loop[g].pc = "add" /\ loop'[g].pc = "count" /\ loop'[g].cur = loop[g].cur
    BY <1>17 DEF AddConn, StateOK, Loop
  <2> QED BY <1>0, <1>17, <2>1 DEF AddConn, StateOK, OneLoop, Holding, Targeted, lockVars, chkVars, countVars, ghostVars
<1>18. ASSUME NEW g \in Gens, Spawn(g) PROVE StateInv'
  <2> DEFINE c == loop[g].cur
  <2>1. /\ c \in Conns /\ conn[c].pc = "held" /\ conn[c].gen = g
        /\ loop[g].pc = "count"
    BY <1>18 DEF Spawn, Holding
  <2>2. /\ loop' \in [Gens -> Loop]
        /\ \A h \in Gens : h # g => loop'[h] = loop[h]
        /\ loop'[g].pc = "accept"
    BY <1>18 DEF Spawn, StateOK, Loop
  <2>3. /\ conn' \in [Conns -> Conn]
        /\ \A d \in Conns : d # c => conn'[d] = conn[d]
        /\ conn'[c].pc = "hook"
    BY <1>18, <2>1 DEF Spawn, StateOK, Conn, ConnPC, Handling
  <2> HIDE DEF c
  <2>4. StateOK' /\ OneLoop'
    BY <1>0, <1>18, <2>1, <2>2, <2>3 DEF Spawn, StateOK, OneLoop, lockVars, chkVars, countVars, ghostVars
  <2>5. Holding'
    BY <2>1, <2>2, <2>3 DEF Holding
  <2>6. Targeted'
    BY <2>1, <2>3 DEF Targeted
  <2> QED BY <2>4, <2>5, <2>6
<1>19. ASSUME NEW c \in Conns, Admit(c) PROVE StateInv'
  <2>1. /\ conn' \in [Conns -> Conn]
        /\ \A d \in Conns : d # c => conn'[d] = conn[d]
        /\ conn[c].pc # "held"
        /\ conn'[c].pc \in {"dial", "open", "closing"} => conn'[c].target \in Targets
    BY <1>19 DEF Admit, StateOK, Conn, ConnPC, Handling, Targeted
  <2> QED BY <1>19, <2>1 DEF Admit, StateOK, OneLoop, Holding, Targeted, connFrame, lockVars, chkVars, countVars, ghostVars
<1>20. ASSUME NEW c \in Conns, DialOk(c) PROVE StateInv'
  <2>1. /\ conn' \in [Conns -> Conn]
        /\ \A d \in Conns : d # c => conn'[d] = conn[d]
        /\ conn[c].pc # "held"
        /\ conn'[c].pc \in {"dial", "open", "closing"} => conn'[c].target \in Targets
    BY <1>20 DEF DialOk, StateOK, Conn, ConnPC, Handling, Targeted
  <2> QED BY <1>20, <2>1 DEF DialOk, StateOK, OneLoop, Holding, Targeted, connFrame, lockVars, chkVars, countVars, ghostVars
<1>21. ASSUME NEW c \in Conns, DialErr(c) PROVE StateInv'
  <2>1. /\ conn' \in [Conns -> Conn]
        /\ \A d \in Conns : d # c => conn'[d] = conn[d]
        /\ conn[c].pc # "held"
        /\ conn'[c].pc \in {"dial", "open", "closing"} => conn'[c].target \in Targets
    BY <1>21 DEF DialErr, StateOK, Conn, ConnPC, Handling, Targeted
  <2> QED BY <1>21, <2>1 DEF DialErr, StateOK, OneLoop, Holding, Targeted, connFrame, lockVars, chkVars, countVars, ghostVars
<1>22. ASSUME NEW c \in Conns, WatcherClose(c) PROVE StateInv'
  <2>1. /\ conn' \in [Conns -> Conn]
        /\ \A d \in Conns : d # c => conn'[d] = conn[d]
        /\ conn[c].pc # "held"
        /\ conn'[c].pc \in {"dial", "open", "closing"} => conn'[c].target \in Targets
    BY <1>22 DEF WatcherClose, StateOK, Conn, ConnPC, Handling, Targeted
  <2> QED BY <1>22, <2>1 DEF WatcherClose, StateOK, OneLoop, Holding, Targeted, connFrame, lockVars, chkVars, countVars, ghostVars
<1>23. ASSUME NEW c \in Conns, Release(c) PROVE StateInv'
  <2>1. /\ conn' \in [Conns -> Conn]
        /\ \A d \in Conns : d # c => conn'[d] = conn[d]
        /\ conn[c].pc # "held"
        /\ conn'[c].pc \in {"dial", "open", "closing"} => conn'[c].target \in Targets
    BY <1>23 DEF Release, StateOK, Conn, ConnPC, Handling, Targeted
  <2> QED BY <1>23, <2>1 DEF Release, StateOK, OneLoop, Holding, Targeted, connFrame, lockVars, chkVars, countVars, ghostVars
<1>24. ASSUME NEW c \in Conns, Uncount(c) PROVE StateInv'
  <2>1. /\ conn' \in [Conns -> Conn]
        /\ \A d \in Conns : d # c => conn'[d] = conn[d]
        /\ conn[c].pc # "held"
        /\ conn'[c].pc \in {"dial", "open", "closing"} => conn'[c].target \in Targets
    BY <1>24 DEF Uncount, StateOK, Conn, ConnPC, Handling, Targeted
  <2> QED BY <1>24, <2>1 DEF Uncount, StateOK, OneLoop, Holding, Targeted, connFrame, lockVars, chkVars, countVars, ghostVars
<1>25. ASSUME NEW c \in Conns, Done(c) PROVE StateInv'
  <2>1. /\ conn' \in [Conns -> Conn]
        /\ \A d \in Conns : d # c => conn'[d] = conn[d]
        /\ conn[c].pc # "held"
        /\ conn'[c].pc \in {"dial", "open", "closing"} => conn'[c].target \in Targets
    BY <1>25 DEF Done, StateOK, Conn, ConnPC, Handling, Targeted
  <2> QED BY <1>25, <2>1 DEF Done, StateOK, OneLoop, Holding, Targeted, connFrame, lockVars, chkVars, countVars, ghostVars
<1>26. ASSUME NEW c \in Conns, PeerClose(c) PROVE StateInv'
  <2>1. /\ conn' \in [Conns -> Conn]
        /\ \A d \in Conns : d # c => conn'[d] = conn[d]
        /\ conn[c].pc # "held"
        /\ conn'[c].pc \in {"dial", "open", "closing"} => conn'[c].target \in Targets
    BY <1>26 DEF PeerClose, StateOK, Conn, ConnPC, Handling, Targeted
  <2> QED BY <1>26, <2>1 DEF PeerClose, StateOK, OneLoop, Holding, Targeted, connFrame, lockVars, chkVars, countVars, ghostVars
<1>27. CASE UNCHANGED vars
  BY <1>27 DEF vars, StateOK, OneLoop, Holding, Targeted
<1> QED
  BY <1>1, <1>2, <1>3, <1>4, <1>5, <1>6, <1>7, <1>8, <1>9, <1>10, <1>11, <1>12,
     <1>13, <1>14, <1>15, <1>16, <1>17, <1>18, <1>19, <1>20, <1>21, <1>22, <1>23,
     <1>24, <1>25, <1>26, <1>27
  DEF Next, StarterStep, StopperStep, LoopStep, HandlerStep

-----------------------------------------------------------------------------
(* The counters, with the invariant that makes their exactness inductive. *)
ExactInv ==
    /\ StateInv
    /\ DOMAIN tActive = Targets
    /\ tActive = [t \in Targets |-> tActive[t]]
    /\ CountersExact

(* Every set that a counter stands for is finite. *)
LEMMA Finite ==
    /\ IsFiniteSet(Gens)
    /\ IsFiniteSet(Handlers) /\ Cardinality(Handlers) \in Nat
    /\ IsFiniteSet(Unfinished) /\ Cardinality(Unfinished) \in Nat
    /\ IsFiniteSet(Added) /\ Cardinality(Added) \in Nat
    /\ IsFiniteSet(Adding) /\ Cardinality(Adding) \in Nat
    /\ \A t \in Targets : IsFiniteSet(Relays(t)) /\ Cardinality(Relays(t)) \in Nat
<1>1. IsFiniteSet(Conns)
  BY ProxyAssumption
<1>2. IsFiniteSet(Gens)
  BY ProxyAssumption, FS_Interval DEF Gens
<1>3. ASSUME NEW S \in SUBSET Conns PROVE IsFiniteSet(S) /\ Cardinality(S) \in Nat
  BY <1>1, FS_Subset, FS_CardinalityType
<1>4. ASSUME NEW S \in SUBSET Gens PROVE IsFiniteSet(S) /\ Cardinality(S) \in Nat
  BY <1>2, FS_Subset, FS_CardinalityType
<1>5. Handlers \in SUBSET Conns /\ Unfinished \in SUBSET Conns
      /\ \A t \in Targets : Relays(t) \in SUBSET Conns
  BY DEF Handlers, Unfinished, Relays, In
<1>6. Added \in SUBSET Gens /\ Adding \in SUBSET Gens
  BY DEF Added, Adding
<1> QED BY <1>2, <1>3, <1>4, <1>5, <1>6

(* Exact counters are typed: none is ever negative. *)
LEMMA ExactTyped == ExactInv => TypeOK
<1> SUFFICES ASSUME ExactInv PROVE TypeOK
  OBVIOUS
<1>1. conns \in Nat /\ active \in Nat /\ \A t \in Targets : tActive[t] \in Nat
  BY Finite DEF ExactInv, CountersExact
<1>2. tActive \in [Targets -> Nat]
  BY <1>1 DEF ExactInv
<1> QED BY <1>1, <1>2 DEF ExactInv, StateInv, TypeOK

(* The counters start exact. *)
LEMMA ExactInit == Init => ExactInv
<1> SUFFICES ASSUME Init PROVE ExactInv
  OBVIOUS
<1>1. Handlers = {} /\ Unfinished = {} /\ Added = {} /\ \A t \in Targets : Relays(t) = {}
  BY DEF Init, Handlers, Unfinished, Added, Relays, In, Handling
<1>2. CountersExact
  <2>1. Cardinality({}) = 0
    BY FS_EmptySet
  <2>2. active = 0 /\ conns = 0 /\ \A t \in Targets : tActive[t] = 0
    BY DEF Init
  <2> QED BY <1>1, <2>1, <2>2 DEF CountersExact
<1> QED BY <1>2, StateInit DEF Init, ExactInv

(* A step that keeps the sets and the counters keeps them exact. *)
LEMMA ExactFrame ==
    ASSUME ExactInv, StateInv',
           Handlers' = Handlers, Unfinished' = Unfinished, Added' = Added,
           \A t \in Targets : Relays(t)' = Relays(t),
           conns' = conns, active' = active, tActive' = tActive
    PROVE  ExactInv'
BY DEF ExactInv, CountersExact

(* Handlers, Unfinished and Relays depend on the connections alone. *)
LEMMA SetsFrame ==
    ASSUME conn' = conn
    PROVE  /\ Handlers' = Handlers /\ Unfinished' = Unfinished
           /\ \A t \in Targets : Relays(t)' = Relays(t)
BY DEF Handlers, Unfinished, Relays, In, Handling

(* Each step keeps the counters exact: the loop's Add calls and the handler's
   deferred decrements move in step with the sets they stand for. *)
LEMMA ExactStep == ExactInv /\ [Next]_vars => ExactInv'
<1> SUFFICES ASSUME ExactInv, [Next]_vars PROVE ExactInv'
  OBVIOUS
<1>0. StateInv /\ StateInv' /\ StateOK
  BY StateStep DEF ExactInv, StateInv
<1>1. CASE SetListener \/ StartChecker \/ StopLocked \/ StopperStep \/ StopTimeout \/ MuxClose
  <2>1. conn' = conn /\ loop' = loop /\ UNCHANGED countVars
    BY <1>1 DEF SetListener, StartChecker, StopLocked, StopperStep, StopCancel,
       StopChecker, StopCheckerEnd, StopClose, StopDone, StopTimeout, MuxClose
  <2>2. Added' = Added
    BY <2>1 DEF Added
  <2> QED BY <1>0, <2>1, <2>2, SetsFrame, ExactFrame DEF countVars
<1>2. CASE StartLocked \/ StartSpawn
  <2>1. conn' = conn /\ UNCHANGED countVars
    BY <1>2 DEF StartLocked, StartSpawn
  <2>2. \A g \in Gens : loop'[g].pc = "count" <=> loop[g].pc = "count"
    BY <1>0, <1>2 DEF StartLocked, StartSpawn, StateInv, OneLoop, StateOK, Loop
  <2>3. Added' = Added
    BY <2>2 DEF Added
  <2> QED BY <1>0, <2>1, <2>3, SetsFrame, ExactFrame DEF countVars
<1>3. ASSUME NEW g \in Gens, NEW c \in Conns, Accept(g, c) PROVE ExactInv'
  <2>1. /\ UNCHANGED countVars
        /\ conn[c].pc = "new" /\ conn'[c].pc = "held"
        /\ \A d \in Conns : d # c => conn'[d] = conn[d]
    BY <1>0, <1>3 DEF Accept, StateOK, Conn
  <2>2. Added' = Added
    BY <1>0, <1>3 DEF Accept, Added, StateOK, Loop
  <2>3. Handlers' = Handlers /\ Unfinished' = Unfinished
        /\ \A t \in Targets : Relays(t)' = Relays(t)
    BY <2>1 DEF Handlers, Unfinished, Relays, In, Handling
  <2> QED BY <1>0, <2>1, <2>2, <2>3, ExactFrame DEF countVars
<1>4. ASSUME NEW g \in Gens, AcceptErr(g) \/ AcceptFails(g) PROVE ExactInv'
  <2>1. conn' = conn /\ UNCHANGED countVars
    BY <1>4 DEF AcceptErr, AcceptFails
  <2>2. Added' = Added
    BY <1>0, <1>4 DEF AcceptErr, AcceptFails, Added, StateOK, Loop
  <2> QED BY <1>0, <2>1, <2>2, SetsFrame, ExactFrame DEF countVars
<1>5. ASSUME NEW g \in Gens, CheckLimit(g) PROVE ExactInv'
  <2> DEFINE c == loop[g].cur
  <2>1. c \in Conns /\ conn[c].pc = "held"
    BY <1>0, <1>5 DEF CheckLimit, StateInv, Holding
  <2>2. /\ UNCHANGED countVars
        /\ conn'[c].pc \in {"held", "done"}
        /\ \A d \in Conns : d # c => conn'[d] = conn[d]
    BY <1>0, <1>5, <2>1 DEF CheckLimit, StateOK, Conn
  <2>3. Added' = Added
    BY <1>0, <1>5 DEF CheckLimit, Added, StateOK, Loop
  <2> HIDE DEF c
  <2>4. Handlers' = Handlers /\ Unfinished' = Unfinished
        /\ \A t \in Targets : Relays(t)' = Relays(t)
    BY <2>1, <2>2 DEF Handlers, Unfinished, Relays, In, Handling
  <2> QED BY <1>0, <2>2, <2>3, <2>4, ExactFrame DEF countVars
<1>6. ASSUME NEW g \in Gens, AddConn(g) PROVE ExactInv'
  <2>1. /\ conn' = conn /\ conns' = conns + 1
        /\ active' = active /\ tActive' = tActive
    BY <1>6 DEF AddConn
  <2>2. g \notin Added /\ Added' = Added \cup {g}
    BY <1>0, <1>6 DEF AddConn, Added, StateOK, Loop
  <2>3. Cardinality(Added') = Cardinality(Added) + 1
    BY <2>2, Finite, FS_AddElement
  <2> QED BY <1>0, <2>1, <2>3, SetsFrame, Finite DEF ExactInv, CountersExact
<1>7. ASSUME NEW g \in Gens, Spawn(g) PROVE ExactInv'
  <2> DEFINE c == loop[g].cur
  <2>1. c \in Conns /\ conn[c].pc = "held"
    BY <1>0, <1>7 DEF Spawn, StateInv, Holding
  <2>2. /\ conns' = conns /\ active' = active + 1
        /\ tActive' = tActive
        /\ conn'[c].pc = "hook" /\ \A d \in Conns : d # c => conn'[d] = conn[d]
    BY <1>0, <1>7, <2>1 DEF Spawn, StateOK, Conn
  <2>3. g \in Added /\ Added' = Added \ {g}
    BY <1>0, <1>7 DEF Spawn, Added, StateOK, Loop
  <2> HIDE DEF c
  <2>4. /\ c \notin Handlers /\ Handlers' = Handlers \cup {c}
        /\ c \notin Unfinished /\ Unfinished' = Unfinished \cup {c}
        /\ \A t \in Targets : Relays(t)' = Relays(t)
    BY <2>1, <2>2 DEF Handlers, Unfinished, Relays, In, Handling
  <2>5. /\ Cardinality(Handlers') = Cardinality(Handlers) + 1
        /\ Cardinality(Unfinished') = Cardinality(Unfinished) + 1
        /\ Cardinality(Added') = Cardinality(Added) - 1
    BY <2>3, <2>4, Finite, FS_AddElement, FS_RemoveElement
  <2> QED BY <1>0, <2>2, <2>4, <2>5, Finite DEF ExactInv, CountersExact
<1>8. ASSUME NEW c \in Conns, Admit(c) \/ DialErr(c) \/ WatcherClose(c) \/ PeerClose(c)
      PROVE  ExactInv'
  <2>1. /\ loop' = loop /\ UNCHANGED countVars
        /\ \A d \in Conns : d # c => conn'[d] = conn[d]
        /\ \/ conn[c].pc \in {"hook", "dial"} /\ conn'[c].pc \in {"dial", "ret"}
           \/ /\ conn[c].pc = "open" /\ conn'[c].pc = "closing"
              /\ conn'[c].target = conn[c].target
    BY <1>0, <1>8 DEF Admit, DialErr, WatcherClose, PeerClose, connFrame, StateOK, Conn
  <2>2. Added' = Added
    BY <2>1 DEF Added
  <2>3. Handlers' = Handlers /\ Unfinished' = Unfinished
        /\ \A t \in Targets : Relays(t)' = Relays(t)
    BY <2>1 DEF Handlers, Unfinished, Relays, In, Handling
  <2> QED BY <1>0, <2>1, <2>2, <2>3, ExactFrame DEF countVars
<1>9. ASSUME NEW c \in Conns, DialOk(c) \/ Release(c) PROVE ExactInv'
  <2>1. PICK u \in Targets : u = conn[c].target
    BY <1>0, <1>9 DEF DialOk, Release, StateInv, Targeted
  <2>2. /\ loop' = loop /\ conns' = conns /\ active' = active
        /\ \A d \in Conns : d # c => conn'[d] = conn[d]
        /\ \/ /\ conn[c].pc = "dial" /\ conn'[c].pc = "open" /\ conn'[c].target = u
              /\ tActive' = [tActive EXCEPT ![u] = @ + 1]
           \/ /\ conn[c].pc = "closing" /\ conn'[c].pc = "ret"
              /\ tActive' = [tActive EXCEPT ![u] = @ - 1]
    BY <1>0, <1>9, <2>1 DEF DialOk, Release, connFrame, StateOK, Conn
  <2>3. Added' = Added
    BY <2>2 DEF Added
  <2>4. /\ Handlers' = Handlers /\ Unfinished' = Unfinished
        /\ \A t \in Targets : t # u => Relays(t)' = Relays(t)
    BY <2>1, <2>2 DEF Handlers, Unfinished, Relays, In, Handling
  <2>5. /\ DOMAIN tActive' = Targets /\ tActive' = [t \in Targets |-> tActive'[t]]
        /\ \A t \in Targets : t # u => tActive'[t] = tActive[t]
    BY <2>1, <2>2 DEF ExactInv
  <2>6. tActive'[u] = Cardinality(Relays(u)')
    <3>1. tActive[u] = Cardinality(Relays(u)) /\ DOMAIN tActive = Targets
      BY <2>1 DEF ExactInv, CountersExact
    <3>2. CASE conn[c].pc = "dial"
      <4>1. c \notin Relays(u) /\ Relays(u)' = Relays(u) \cup {c}
        BY <2>1, <2>2, <3>2 DEF Relays, In
      <4>2. Cardinality(Relays(u)') = Cardinality(Relays(u)) + 1
        BY <4>1, Finite, FS_AddElement
      <4>3. tActive'[u] = tActive[u] + 1
        BY <2>2, <3>1, <3>2
      <4> QED BY <3>1, <4>2, <4>3
    <3>3. CASE conn[c].pc = "closing"
      <4>1. c \in Relays(u) /\ Relays(u)' = Relays(u) \ {c}
        BY <2>1, <2>2, <3>3 DEF Relays, In
      <4>2. Cardinality(Relays(u)') = Cardinality(Relays(u)) - 1
        BY <4>1, Finite, FS_RemoveElement
      <4>3. tActive'[u] = tActive[u] - 1
        BY <2>2, <3>1, <3>3
      <4> QED BY <3>1, <4>2, <4>3
    <3> QED BY <2>2, <3>2, <3>3
  <2> QED BY <1>0, <2>2, <2>3, <2>4, <2>5, <2>6 DEF ExactInv, CountersExact
<1>10. ASSUME NEW c \in Conns, Uncount(c) PROVE ExactInv'
  <2>1. /\ loop' = loop /\ conns' = conns /\ active' = active - 1
        /\ tActive' = tActive /\ \A d \in Conns : d # c => conn'[d] = conn[d]
        /\ conn[c].pc = "ret" /\ conn'[c].pc = "ret2"
    BY <1>0, <1>10 DEF Uncount, connFrame, StateOK, Conn
  <2>2. Added' = Added
    BY <2>1 DEF Added
  <2>3. /\ c \in Handlers /\ Handlers' = Handlers \ {c} /\ Unfinished' = Unfinished
        /\ \A t \in Targets : Relays(t)' = Relays(t)
    BY <2>1 DEF Handlers, Unfinished, Relays, In, Handling
  <2>4. Cardinality(Handlers') = Cardinality(Handlers) - 1
    BY <2>3, Finite, FS_RemoveElement
  <2> QED BY <1>0, <2>1, <2>2, <2>3, <2>4 DEF ExactInv, CountersExact
<1>11. ASSUME NEW c \in Conns, Done(c) PROVE ExactInv'
  <2>1. /\ loop' = loop /\ conns' = conns - 1 /\ active' = active
        /\ tActive' = tActive /\ \A d \in Conns : d # c => conn'[d] = conn[d]
        /\ conn[c].pc = "ret2" /\ conn'[c].pc = "done"
    BY <1>0, <1>11 DEF Done, connFrame, StateOK, Conn
  <2>2. Added' = Added
    BY <2>1 DEF Added
  <2>3. /\ c \in Unfinished /\ Unfinished' = Unfinished \ {c} /\ Handlers' = Handlers
        /\ \A t \in Targets : Relays(t)' = Relays(t)
    BY <2>1 DEF Handlers, Unfinished, Relays, In, Handling
  <2>4. Cardinality(Unfinished') = Cardinality(Unfinished) - 1
    BY <2>3, Finite, FS_RemoveElement
  <2> QED BY <1>0, <2>1, <2>2, <2>3, <2>4, Finite DEF ExactInv, CountersExact
<1>12. CASE UNCHANGED vars
  <2>1. conn' = conn /\ loop' = loop /\ UNCHANGED countVars
    BY <1>12 DEF vars, countVars
  <2>2. Added' = Added
    BY <2>1 DEF Added
  <2> QED BY <1>0, <2>1, <2>2, SetsFrame, ExactFrame DEF countVars
<1> QED
  BY <1>1, <1>2, <1>3, <1>4, <1>5, <1>6, <1>7, <1>8, <1>9, <1>10, <1>11, <1>12
  DEF Next, StarterStep, LoopStep, HandlerStep

(* The counters are exact, hence typed, in every state. *)
LEMMA Exact == Spec => []ExactInv
BY ExactInit, ExactStep, PTL DEF Spec

(* Type correctness of the proxy, for any number of connections and restarts:
   no deferred decrement takes a counter below zero. *)
THEOREM TypeCorrect == Spec => []TypeOK
BY Exact, ExactTyped, PTL

(* active, the WaitGroup and every Target.active are exact on every path
   through handle. *)
THEOREM CountersCorrect == Spec => []CountersExact
<1>1. ExactInv => CountersExact
  BY DEF ExactInv
<1> QED BY <1>1, Exact, PTL

-----------------------------------------------------------------------------
(* The connection limit.  A loop that has passed the test will add one to
   active, so those loops count as well; there is at most one per generation. *)
Slack == IF gen > 1 THEN gen - 1 ELSE 0
LimitInv ==
    MaxConnections > 0 => active + Cardinality(Adding) <= MaxConnections + Slack

(* Only started generations spawn, so at most gen loops are past the test. *)
LEMMA AddingBound == StateInv => Cardinality(Adding) <= gen
<1> SUFFICES ASSUME StateInv PROVE Cardinality(Adding) <= gen
  OBVIOUS
<1>1. gen \in Nat
  BY ProxyAssumption DEF StateInv, StateOK
<1>2. Adding \in SUBSET (1..gen)
  BY <1>1, ProxyAssumption DEF StateInv, OneLoop, Adding, Gens
<1>3. IsFiniteSet(1..gen) /\ Cardinality(1..gen) = gen
  BY <1>1, FS_Interval
<1> QED BY <1>1, <1>2, <1>3, FS_Subset

(* Each step keeps active plus the loops past the test within the limit. *)
LEMMA LimitStep == ExactInv /\ LimitInv /\ [Next]_vars => LimitInv'
<1> SUFFICES ASSUME ExactInv, LimitInv, [Next]_vars, MaxConnections > 0
    PROVE  active' + Cardinality(Adding') <= MaxConnections + Slack'
  BY DEF LimitInv
<1>0. /\ StateInv /\ StateInv' /\ StateOK /\ ExactInv'
      /\ active \in Nat /\ active' \in Nat /\ gen \in Nat /\ MaxConnections \in Nat
      /\ Cardinality(Adding) \in Nat /\ Slack \in Nat
  <2>1. StateInv /\ StateOK /\ TypeOK
    BY ExactTyped DEF ExactInv, StateInv
  <2>2. StateInv' /\ TypeOK' /\ ExactInv'
    BY ExactStep, ExactTyped, PTL DEF ExactInv
  <2> QED BY <2>1, <2>2, Finite, ProxyAssumption DEF TypeOK, StateOK, Slack
<1>a. active + Cardinality(Adding) <= MaxConnections + Slack
  BY DEF LimitInv
<1>1. ASSUME active' <= active, Adding' = Adding, gen' \in Nat, gen' >= gen
      PROVE  active' + Cardinality(Adding') <= MaxConnections + Slack'
  BY <1>0, <1>1, <1>a DEF Slack
<1>2. CASE SetListener \/ StartChecker \/ StopLocked \/ StopperStep \/ StopTimeout \/ MuxClose
           \/ UNCHANGED vars
  <2>1. loop' = loop /\ active' = active /\ gen' = gen
    BY <1>2 DEF SetListener, StartChecker, StopLocked, StopperStep, StopCancel,
       StopChecker, StopCheckerEnd, StopClose, StopDone, StopTimeout, MuxClose,
       vars, lockVars, countVars
  <2> QED BY <1>0, <1>1, <2>1 DEF Adding
<1>3. CASE StartLocked \/ StartSpawn
  <2>1. active' = active /\ gen' \in Nat /\ gen' >= gen
    BY <1>0, <1>3 DEF StartLocked, StartSpawn, lockVars, countVars
  <2>2. \A g \in Gens : loop'[g].pc \in {"add", "count"} <=> loop[g].pc \in {"add", "count"}
    BY <1>0, <1>3 DEF StartLocked, StartSpawn, StateInv, OneLoop, StateOK, Loop
  <2> QED BY <1>0, <1>1, <2>1, <2>2 DEF Adding
<1>4. ASSUME NEW g \in Gens, NEW c \in Conns, Accept(g, c)
      PROVE  active' + Cardinality(Adding') <= MaxConnections + Slack'
  <2>1. active' = active /\ gen' = gen
    BY <1>4 DEF Accept, lockVars, countVars
  <2>2. Adding' = Adding
    BY <1>0, <1>4 DEF Accept, Adding, StateOK, Loop
  <2> QED BY <1>0, <1>1, <2>1, <2>2
<1>5. ASSUME NEW g \in Gens, AcceptErr(g) \/ AcceptFails(g)
      PROVE  active' + Cardinality(Adding') <= MaxConnections + Slack'
  <2>1. active' = active /\ gen' = gen
    BY <1>5 DEF AcceptErr, AcceptFails, lockVars, countVars
  <2>2. Adding' = Adding
    BY <1>0, <1>5 DEF AcceptErr, AcceptFails, Adding, StateOK, Loop
  <2> QED BY <1>0, <1>1, <2>1, <2>2
<1>6. ASSUME NEW g \in Gens, CheckLimit(g)
      PROVE  active' + Cardinality(Adding') <= MaxConnections + Slack'
  <2>1. active' = active /\ gen' = gen
    BY <1>6 DEF CheckLimit, lockVars, countVars
  <2>2. CASE Full
    <3>1. Adding' = Adding
      BY <1>0, <1>6, <2>2 DEF CheckLimit, Adding, StateOK, Loop
    <3> QED BY <1>0, <1>1, <2>1, <3>1
  <2>3. CASE ~Full
    <3>1. active < MaxConnections
      BY <1>0, <2>3 DEF Full
    <3>2. Cardinality(Adding') \in Nat /\ Cardinality(Adding') <= gen'
      <4>1. StateInv'
        BY <1>0
      <4>2. (Cardinality(Adding) <= gen)'
        BY <4>1, AddingBound, PTL
      <4>3. Adding' \in SUBSET Gens
        BY DEF Adding
      <4> QED BY <4>2, <4>3, Finite, FS_Subset, FS_CardinalityType
    <3>3. gen >= 1
      BY <1>0, <1>6, ProxyAssumption DEF CheckLimit, StateInv, OneLoop, Gens
    <3> QED BY <1>0, <2>1, <3>1, <3>2, <3>3 DEF Slack
  <2> QED BY <2>2, <2>3
<1>7. ASSUME NEW g \in Gens, AddConn(g)
      PROVE  active' + Cardinality(Adding') <= MaxConnections + Slack'
  <2>1. active' = active /\ gen' = gen
    BY <1>7 DEF AddConn, lockVars
  <2>2. Adding' = Adding
    BY <1>0, <1>7 DEF AddConn, Adding, StateOK, Loop
  <2> QED BY <1>0, <1>1, <2>1, <2>2
<1>8. ASSUME NEW g \in Gens, Spawn(g)
      PROVE  active' + Cardinality(Adding') <= MaxConnections + Slack'
  <2>1. active' = active + 1 /\ gen' = gen
    BY <1>8 DEF Spawn, lockVars
  <2>2. g \in Adding /\ Adding' = Adding \ {g}
    BY <1>0, <1>8 DEF Spawn, Adding, StateOK, Loop
  <2>3. Cardinality(Adding') = Cardinality(Adding) - 1
    BY <2>2, Finite, FS_RemoveElement
  <2> QED BY <1>0, <1>a, <2>1, <2>3 DEF Slack
<1>9. ASSUME NEW c \in Conns, HandlerStep(c) \/ PeerClose(c)
      PROVE  active' + Cardinality(Adding') <= MaxConnections + Slack'
  <2>1. loop' = loop /\ gen' = gen /\ active' <= active
    BY <1>0, <1>9 DEF HandlerStep, PeerClose, Admit, DialOk, DialErr, WatcherClose,
       Release, Uncount, Done, connFrame, lockVars, countVars
  <2> QED BY <1>0, <1>1, <2>1 DEF Adding
<1> QED
  BY <1>2, <1>3, <1>4, <1>5, <1>6, <1>7, <1>8, <1>9
  DEF Next, StarterStep, LoopStep

(* MaxConnections is exceeded by at most one connection per earlier generation
   of the accept loop, however Start, Stop, Accept and the handlers interleave;
   a proxy that is started once never exceeds it. *)
THEOREM LimitCorrect == Spec => []CapHolds
<1>1. Init => LimitInv
  <2> SUFFICES ASSUME Init PROVE LimitInv
    OBVIOUS
  <2>1. Adding = {} /\ active = 0 /\ Slack = 0
    BY DEF Init, Adding, Slack
  <2>2. Cardinality({}) = 0
    BY FS_EmptySet
  <2> QED BY <2>1, <2>2, ProxyAssumption DEF LimitInv
<1>2. ExactInv /\ LimitInv => CapHolds
  <2> SUFFICES ASSUME ExactInv, LimitInv PROVE CapHolds
    OBVIOUS
  <2>1. active \in Nat /\ gen \in Nat
    BY ExactTyped DEF TypeOK, StateOK
  <2> QED BY <2>1, Finite, ProxyAssumption DEF LimitInv, CapHolds, Slack
<1> QED BY <1>1, <1>2, ExactInit, ExactStep, LimitStep, PTL DEF Spec

-----------------------------------------------------------------------------
(* What is left after Stop.  A generation that has been started is running, has
   been cancelled, or is about to be by the Stop that captured it. *)
Ended ==
    \A g \in Gens : g <= gen =>
        \/ g \in cancelled
        \/ isRunning /\ g = gen
        \/ stopper.pc = "cancel" /\ stopper.gen = g

(* A connection past Accept belongs to a generation that has been started. *)
Owned ==
    \A c \in Conns :
        conn[c].pc \in Handling \cup {"held", "ret2"} =>
            conn[c].gen \in Gens /\ conn[c].gen <= gen

(* Only a Stop that nothing has followed counts as drained. *)
DrainedIdle == drained => ~isRunning /\ stopper.pc = "idle"

StragglerInv == Ended /\ Owned /\ DrainedIdle

(* Each step keeps track of whose context is cancelled. *)
LEMMA StragglerStep == StateInv /\ StragglerInv /\ [Next]_vars => StragglerInv'
<1> SUFFICES ASSUME StateInv, StragglerInv, [Next]_vars PROVE StragglerInv'
  OBVIOUS
<1>0. StateOK /\ gen \in Nat /\ Gens \subseteq Nat
  BY ProxyAssumption DEF StateInv, StateOK, Gens
<1> USE DEF StragglerInv
<1>1. CASE SetListener \/ StartChecker \/ StartSpawn \/ MuxClose \/ UNCHANGED vars
  <2>1. UNCHANGED <<gen, isRunning, cancelled, stopper, conn, drained>>
    BY <1>1 DEF SetListener, StartChecker, StartSpawn, MuxClose, vars, lockVars, ghostVars
  <2> QED BY <2>1 DEF Ended, Owned, DrainedIdle
<1>2. CASE StartLocked
  <2>1. /\ gen' = gen + 1 /\ ~isRunning /\ isRunning' /\ ~drained'
        /\ UNCHANGED <<cancelled, stopper, conn>>
    BY <1>2 DEF StartLocked
  <2>2. \A g \in Gens : g \in Nat /\ (g <= gen' => g <= gen \/ g = gen') /\ (g <= gen => g <= gen')
    BY <1>0, <2>1
  <2>3. Ended'
    BY <2>1, <2>2 DEF Ended
  <2>4. Owned'
    BY <2>1, <2>2 DEF Owned
  <2> QED BY <2>1, <2>3, <2>4 DEF DrainedIdle
<1>3. CASE StopLocked
  <2>1. /\ isRunning /\ ~isRunning' /\ stopper.pc = "idle"
        /\ stopper'.pc = "cancel" /\ stopper'.gen = gen
        /\ UNCHANGED <<gen, cancelled, conn, drained>>
    BY <1>3 DEF StopLocked
  <2> QED BY <1>0, <2>1 DEF Ended, Owned, DrainedIdle
<1>4. CASE StopCancel
  <2>1. /\ cancelled' = cancelled \cup {stopper.gen} /\ stopper.pc = "cancel"
        /\ UNCHANGED <<gen, isRunning, conn, drained>>
    BY <1>4 DEF StopCancel, lockVars, ghostVars
  <2> QED BY <2>1 DEF Ended, Owned, DrainedIdle
<1>5. CASE StopChecker \/ StopCheckerEnd \/ StopClose \/ StopTimeout
  <2>1. /\ stopper.pc \notin {"idle", "cancel"}
        /\ UNCHANGED <<gen, isRunning, cancelled, conn, drained>>
    BY <1>5 DEF StopChecker, StopCheckerEnd, StopClose, StopTimeout, lockVars, ghostVars
  <2> QED BY <2>1 DEF Ended, Owned, DrainedIdle
<1>6. CASE StopDone
  <2>1. /\ stopper.pc = "wait" /\ stopper'.pc = "idle" /\ drained' = ~isRunning
        /\ UNCHANGED <<gen, isRunning, cancelled, conn>>
    BY <1>6 DEF StopDone, IdleStop, lockVars
  <2> QED BY <2>1 DEF Ended, Owned, DrainedIdle
<1>7. ASSUME UNCHANGED <<gen, isRunning, cancelled, stopper, drained>>,
             \A c \in Conns : conn'[c].pc \in Handling \cup {"held", "ret2"} =>
                 conn'[c].gen \in Gens /\ conn'[c].gen <= gen
      PROVE  StragglerInv'
  BY <1>7 DEF Ended, Owned, DrainedIdle
<1>8. ASSUME NEW g \in Gens, NEW c \in Conns, Accept(g, c) PROVE StragglerInv'
  <2>1. /\ UNCHANGED <<gen, isRunning, cancelled, stopper, drained>>
        /\ conn'[c].gen = g /\ \A d \in Conns : d # c => conn'[d] = conn[d]
    BY <1>0, <1>8 DEF Accept, lockVars, ghostVars, StateOK, Conn
  <2>2. g <= gen
    BY <1>0, <1>8 DEF Accept, StateInv, OneLoop
  <2> QED BY <1>7, <2>1, <2>2 DEF Owned
<1>9. ASSUME NEW g \in Gens, AcceptErr(g) \/ AcceptFails(g) \/ AddConn(g) PROVE StragglerInv'
  <2>1. UNCHANGED <<gen, isRunning, cancelled, stopper, drained, conn>>
    BY <1>9 DEF AcceptErr, AcceptFails, AddConn, lockVars, ghostVars
  <2> QED BY <1>7, <2>1 DEF Owned
<1>10. ASSUME NEW g \in Gens, CheckLimit(g) \/ Spawn(g) PROVE StragglerInv'
  <2> DEFINE c == loop[g].cur
  <2>1. c \in Conns /\ conn[c].pc = "held"
    BY <1>10 DEF CheckLimit, Spawn, StateInv, Holding
  <2>2. /\ UNCHANGED <<gen, isRunning, cancelled, stopper, drained>>
        /\ conn'[c].pc = "done" \/ conn'[c].gen = conn[c].gen
        /\ \A d \in Conns : d # c => conn'[d] = conn[d]
    BY <1>0, <1>10, <2>1 DEF CheckLimit, Spawn, lockVars, ghostVars, StateOK, Conn
  <2> HIDE DEF c
  <2> QED BY <1>7, <2>1, <2>2 DEF Owned, Handling
<1>11. ASSUME NEW c \in Conns, HandlerStep(c) \/ PeerClose(c) PROVE StragglerInv'
  <2>1. UNCHANGED <<gen, isRunning, cancelled, stopper, drained>>
    BY <1>11 DEF HandlerStep, PeerClose, Admit, DialOk, DialErr, WatcherClose, Release, Uncount,
       Done, connFrame, lockVars, ghostVars
  <2>2. /\ conn[c].pc \in Handling \cup {"ret2"}
        /\ conn'[c].pc = "done" \/ conn'[c].gen = conn[c].gen
        /\ \A d \in Conns : d # c => conn'[d] = conn[d]
    BY <1>0, <1>11 DEF HandlerStep, PeerClose, Admit, DialOk, DialErr, WatcherClose, Release,
       Uncount, Done, StateOK, Conn, Handling
  <2> QED BY <1>7, <2>1, <2>2 DEF Owned, Handling
<1> QED
  BY <1>1, <1>2, <1>3, <1>4, <1>5, <1>6, <1>8, <1>9, <1>10, <1>11
  DEF Next, StarterStep, StopperStep, LoopStep

(* A connection that is still being handled after a Stop that drained meets a
   cancelled context, for any number of restarts. *)
THEOREM StragglersCorrect == Spec => []StragglersCancelled
<1>1. Init => StragglerInv
  <2> SUFFICES ASSUME Init PROVE StragglerInv
    OBVIOUS
  <2>1. gen = 0 /\ ~drained /\ \A c \in Conns : conn[c].pc = "new"
    BY DEF Init
  <2> QED BY <2>1, ProxyAssumption DEF StragglerInv, Ended, Owned, DrainedIdle, Gens, Handling
<1>2. StragglerInv => StragglersCancelled
  BY DEF StragglerInv, Ended, Owned, DrainedIdle, StragglersCancelled, Handlers, In
<1> QED BY <1>1, <1>2, StateInit, StateStep, StragglerStep, PTL DEF Spec

-----------------------------------------------------------------------------
(* While Start and Stop have not overlapped, the checker's loop and the own
   listener follow the step that the one of them has reached. *)
CheckerFollows ==
    /\ chkCancel <=> chkLoop
    /\ starter.pc = "checker" => ~chkLoop
    /\ starter.pc = "spawn" \/ stopper.pc \in {"cancel", "checker"} =>
          (chkLoop <=> HealthCheck)
    /\ stopper.pc = "checkerWait" => HealthCheck
    /\ stopper.pc \in {"close", "wait"} => ~chkLoop
    /\ starter.pc = "idle" /\ stopper.pc = "idle" => (chkLoop <=> isRunning /\ HealthCheck)

PortFollows ==
    ~injected =>
        /\ isRunning => open \cap Gens \subseteq {listener}
        /\ stopper.pc \in {"cancel", "checker", "checkerWait", "close"} =>
              open \cap Gens \subseteq {stopper.ln}
        /\ ~isRunning /\ stopper.pc \in {"idle", "wait"} => open \cap Gens = {}

Apart ==
    /\ starter.pc # "idle" => isRunning /\ stopper.pc = "idle"
    /\ stopper.pc # "idle" => ~isRunning

RestInv ==
    /\ stopper.pc # "idle" => gen > 0 /\ (stopper.injected <=> injected)
    /\ ~overlapped => Apart /\ CheckerFollows /\ PortFollows

LEMMA RestStep == StateInv /\ RestInv /\ [Next]_vars => RestInv'
<1> SUFFICES ASSUME StateInv, RestInv, [Next]_vars PROVE RestInv'
  OBVIOUS
<1>0. /\ StateOK /\ gen \in Nat /\ isRunning \in BOOLEAN /\ injected \in BOOLEAN
      /\ chkCancel \in BOOLEAN /\ chkLoop \in BOOLEAN /\ overlapped \in BOOLEAN
      /\ HealthCheck \in BOOLEAN
      /\ starter.pc \in {"idle", "checker", "spawn"}
      /\ stopper.pc \in {"idle", "cancel", "checker", "checkerWait", "close", "wait"}
  BY ProxyAssumption DEF StateInv, StateOK, Starter, Stopper
<1>1. ASSUME UNCHANGED <<isRunning, listener, injected, gen, starter, stopper, chkVars, overlapped>>,
             open' \cap Gens \subseteq open \cap Gens
      PROVE  RestInv'
  BY <1>0, <1>1 DEF RestInv, Apart, CheckerFollows, PortFollows, chkVars
<1>2. CASE UNCHANGED vars \/ MuxClose
  <2>1. /\ UNCHANGED <<isRunning, listener, injected, gen, starter, stopper, chkVars, overlapped>>
        /\ open' \cap Gens \subseteq open \cap Gens
    BY <1>2 DEF vars, MuxClose, lockVars, chkVars, ghostVars
  <2> QED BY <1>1, <2>1
<1>3. ASSUME NEW g \in Gens,
             LoopStep(g) \/ AcceptFails(g) \/ \E c \in Conns : Accept(g, c)
      PROVE  RestInv'
  <2>1. UNCHANGED <<isRunning, listener, injected, gen, starter, stopper, chkVars, overlapped, open>>
    BY <1>3 DEF LoopStep, AcceptErr, CheckLimit, AddConn, Spawn, AcceptFails, Accept, lockVars,
       chkVars, ghostVars
  <2> QED BY <1>1, <2>1
<1>4. ASSUME NEW c \in Conns, HandlerStep(c) \/ PeerClose(c) PROVE RestInv'
  <2>1. UNCHANGED <<isRunning, listener, injected, gen, starter, stopper, chkVars, overlapped, open>>
    BY <1>4 DEF HandlerStep, PeerClose, Admit, DialOk, DialErr, WatcherClose, Release, Uncount,
       Done, connFrame, lockVars, chkVars, ghostVars
  <2> QED BY <1>1, <2>1
<1>5. CASE SetListener
  <2>1. /\ gen = 0 /\ injected' = TRUE
        /\ UNCHANGED <<isRunning, gen, starter, stopper, chkCancel, chkLoop, overlapped>>
    BY <1>5 DEF SetListener, chkVars, ghostVars
  <2> QED BY <1>0, <2>1 DEF RestInv, Apart, CheckerFollows, PortFollows
<1>6. CASE StartLocked
  <2>1. /\ starter.pc = "idle" /\ starter'.pc = "checker" /\ ~isRunning /\ isRunning' = TRUE
        /\ gen' = gen + 1 /\ overlapped' = (overlapped \/ stopper.pc # "idle")
        /\ UNCHANGED <<injected, stopper, chkCancel, chkLoop>>
        /\ open' \cap Gens \subseteq (open \cap Gens) \cup {listener'}
    BY <1>6 DEF StartLocked, chkVars
  <2>2. stopper.pc # "idle" => gen' > 0 /\ (stopper'.injected <=> injected')
    BY <1>0, <2>1 DEF RestInv
  <2>3. ASSUME ~overlapped' PROVE Apart' /\ CheckerFollows' /\ PortFollows'
    <3>1. ~overlapped /\ stopper.pc = "idle"
      BY <1>0, <2>1, <2>3
    <3>2. Apart' /\ CheckerFollows'
      BY <1>0, <2>1, <3>1 DEF RestInv, Apart, CheckerFollows
    <3>3. PortFollows'
      BY <1>0, <2>1, <3>1 DEF RestInv, PortFollows
    <3> QED BY <3>2, <3>3
  <2> QED BY <2>1, <2>2, <2>3 DEF RestInv
<1>7. CASE StartChecker
  <2>1. /\ starter.pc = "checker" /\ starter'.pc = "spawn"
        /\ UNCHANGED <<isRunning, listener, injected, gen, stopper, overlapped, open>>
        /\ IF HealthCheck /\ ~chkCancel THEN chkCancel' = TRUE /\ chkLoop' = TRUE
           ELSE chkCancel' = chkCancel /\ chkLoop' = chkLoop
    BY <1>7 DEF StartChecker, chkVars, lockVars, ghostVars
  <2>2. ASSUME ~overlapped PROVE Apart' /\ CheckerFollows' /\ PortFollows'
    <3>1. Apart' /\ CheckerFollows'
      BY <1>0, <2>1, <2>2 DEF RestInv, Apart, CheckerFollows
    <3>2. PortFollows'
      BY <1>0, <2>1, <2>2 DEF RestInv, PortFollows
    <3> QED BY <3>1, <3>2
  <2> QED BY <2>1, <2>2 DEF RestInv
<1>8. CASE StartSpawn
  <2>1. /\ starter.pc = "spawn" /\ starter'.pc = "idle"
        /\ UNCHANGED <<isRunning, listener, injected, gen, stopper, overlapped, open, chkCancel, chkLoop>>
    BY <1>8 DEF StartSpawn, IdleStart, chkVars, lockVars, ghostVars
  <2> QED BY <1>0, <2>1 DEF RestInv, Apart, CheckerFollows, PortFollows
<1>9. CASE StopLocked
  <2>1. /\ stopper.pc = "idle" /\ isRunning /\ isRunning' = FALSE /\ stopper'.pc = "cancel"
        /\ stopper'.ln = listener /\ stopper'.injected = injected
        /\ overlapped' = (overlapped \/ starter.pc # "idle")
        /\ UNCHANGED <<injected, gen, starter, open, chkCancel, chkLoop>>
    BY <1>9 DEF StopLocked, chkVars
  <2>2. gen > 0
    BY <1>9 DEF StopLocked, StateInv, OneLoop
  <2>3. ASSUME ~overlapped' PROVE Apart' /\ CheckerFollows' /\ PortFollows'
    <3>1. ~overlapped /\ starter.pc = "idle"
      BY <1>0, <2>1, <2>3
    <3>2. Apart' /\ CheckerFollows'
      BY <1>0, <2>1, <3>1 DEF RestInv, Apart, CheckerFollows
    <3>3. PortFollows'
      BY <1>0, <2>1, <3>1 DEF RestInv, PortFollows
    <3> QED BY <3>2, <3>3
  <2> QED BY <2>1, <2>2, <2>3 DEF RestInv
<1>10. CASE StopCancel
  <2>1. /\ stopper.pc = "cancel" /\ stopper' = [stopper EXCEPT !.pc = "checker"]
        /\ UNCHANGED <<isRunning, listener, injected, gen, starter, overlapped, open, chkCancel, chkLoop>>
    BY <1>10 DEF StopCancel, chkVars, lockVars, ghostVars
  <2>2. stopper'.pc = "checker" /\ stopper'.ln = stopper.ln /\ stopper'.injected = stopper.injected
    BY <1>0, <2>1 DEF StateOK, Stopper
  <2> QED BY <1>0, <2>1, <2>2 DEF RestInv, Apart, CheckerFollows, PortFollows
<1>11. CASE StopChecker
  <2>1. /\ stopper.pc = "checker"
        /\ stopper' = [stopper EXCEPT !.pc = IF chkCancel THEN "checkerWait" ELSE "close"]
        /\ UNCHANGED <<isRunning, listener, injected, gen, starter, overlapped, open, chkCancel, chkLoop>>
    BY <1>11 DEF StopChecker, chkVars, lockVars, ghostVars
  <2>2. /\ stopper'.pc = IF chkCancel THEN "checkerWait" ELSE "close"
        /\ stopper'.ln = stopper.ln /\ stopper'.injected = stopper.injected
    BY <1>0, <2>1 DEF StateOK, Stopper
  <2> QED BY <1>0, <2>1, <2>2 DEF RestInv, Apart, CheckerFollows, PortFollows
<1>12. CASE StopCheckerEnd
  <2>1. /\ stopper.pc = "checkerWait" /\ stopper' = [stopper EXCEPT !.pc = "close"]
        /\ chkCancel' = FALSE /\ chkLoop' = FALSE
        /\ UNCHANGED <<isRunning, listener, injected, gen, starter, overlapped, open>>
    BY <1>12 DEF StopCheckerEnd, lockVars, ghostVars
  <2>2. stopper'.pc = "close" /\ stopper'.ln = stopper.ln /\ stopper'.injected = stopper.injected
    BY <1>0, <2>1 DEF StateOK, Stopper
  <2> QED BY <1>0, <2>1, <2>2 DEF RestInv, Apart, CheckerFollows, PortFollows
<1>13. CASE StopClose
  <2>1. /\ stopper.pc = "close" /\ stopper' = [stopper EXCEPT !.pc = "wait"]
        /\ open' = IF stopper.injected THEN open ELSE open \ {stopper.ln}
        /\ UNCHANGED <<isRunning, listener, injected, gen, starter, overlapped, chkCancel, chkLoop>>
    BY <1>13 DEF StopClose, chkVars, lockVars, ghostVars
  <2>2. stopper'.pc = "wait" /\ stopper'.injected = stopper.injected
    BY <1>0, <2>1 DEF StateOK, Stopper
  <2>3. stopper.injected <=> injected
    BY <2>1 DEF RestInv
  <2> QED BY <1>0, <2>1, <2>2, <2>3 DEF RestInv, Apart, CheckerFollows, PortFollows
<1>14. CASE StopDone \/ StopTimeout
  <2>1. /\ stopper.pc = "wait" /\ stopper'.pc = "idle"
        /\ UNCHANGED <<isRunning, listener, injected, gen, starter, overlapped, open, chkCancel, chkLoop>>
    BY <1>14 DEF StopDone, StopTimeout, IdleStop, chkVars, lockVars, ghostVars
  <2> QED BY <1>0, <2>1 DEF RestInv, Apart, CheckerFollows, PortFollows
<1> QED
  BY <1>2, <1>3, <1>4, <1>5, <1>6, <1>7, <1>8, <1>9, <1>10, <1>11, <1>12, <1>13, <1>14
  DEF Next, StarterStep, StopperStep

(* As long as no Start has overlapped a Stop, the checker's loop runs exactly
   while the proxy does, and a stopped proxy holds no port of its own. *)
THEOREM RestCorrect == Spec => []RestMatchesState
<1>1. Init => RestInv
  <2> SUFFICES ASSUME Init PROVE RestInv
    OBVIOUS
  <2>1. /\ starter.pc = "idle" /\ stopper.pc = "idle" /\ isRunning = FALSE
        /\ chkCancel = FALSE /\ chkLoop = FALSE /\ open \cap Gens = {}
    BY DEF Init, IdleStart, IdleStop, Injected, Gens
  <2> QED BY <2>1 DEF RestInv, Apart, CheckerFollows, PortFollows
<1>2. RestInv => RestMatchesState
  BY DEF RestInv, CheckerFollows, PortFollows, RestMatchesState, Quiet
<1> QED BY <1>1, <1>2, StateInit, StateStep, RestStep, PTL DEF Spec

=============================================================================
