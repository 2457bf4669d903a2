------------------------ MODULE ListenGracefulProofs ------------------------
(***************************************************************************)
(* The safety of an application's life cycle for any set of protocols, any  *)
(* order of set-up and any interleaving of the starting goroutine with a     *)
(* shutdown.                                                                *)
(*                                                                         *)
(* None of the properties is inductive: they speak of protocols that run,    *)
(* and what makes them true was decided earlier, at registration or when      *)
(* StopAll passed by.  WalkInv follows a protocol through StartAllProtocols,  *)
(* StopInv follows it through StopAll.                                      *)
(***************************************************************************)
EXTENDS ListenGraceful, Integers, FiniteSetTheorems, TLAPS

Walk == [pc : {"none", "walk", "starting", "over"}, left : SUBSET Protocols,
         cur : Protocols \cup {None}]

TypeInv ==
    /\ main \in {"setup", "select", "stopAll", "shutdown", "hooks", "returned"}
    /\ why \in {"running", "signal", "error"}
    /\ muxing \in BOOLEAN /\ muxOpen \in BOOLEAN /\ jwt \in BOOLEAN
    /\ registered \subseteq Protocols /\ mounted \subseteq Protocols
    /\ secret \in [Protocols -> BOOLEAN]
    /\ injected \in [Protocols -> BOOLEAN]
    /\ running \in [Protocols -> BOOLEAN]
    /\ starter \in Walk
    /\ attempted \subseteq Protocols /\ late \subseteq Protocols
    /\ stop \in [left : SUBSET Protocols, cur : Protocols \cup {None}]
    /\ http \in {"none", "spawned", "serving", "closed"}
    /\ stopErr \in BOOLEAN /\ missed \in BOOLEAN
    /\ hooks \in Nat

(* What set-up establishes and nothing changes afterwards. *)
SetupInv ==
    /\ jwt => \A p \in registered \cap AuthAware : secret[p]
    /\ mounted = IF muxing THEN registered \cap Mountable ELSE {}
    /\ main # "setup" => injected = Inject

(* A registered protocol is ahead of the starting goroutine, skipped for its
   routes, or has had its one call of Start. *)
Started(p) == p \in attempted /\ p \notin starter.left /\ p # starter.cur

WalkInv ==
    /\ main = "setup" <=> starter.pc = "none"
    /\ starter.pc = "none" => starter.left = {} /\ attempted = {}
    /\ starter.pc # "none" => registered = starter.left \cup mounted \cup attempted
    /\ starter.pc = "starting" <=> starter.cur # None
    /\ starter.cur # None => starter.cur \in attempted
    /\ \A p \in attempted :
        p \notin starter.left /\ p \in registered /\ ~Skipped(p)
    /\ \A p \in Protocols : running[p] => Started(p)

(* Where the main goroutine is on its way out. *)
MainInv ==
    /\ main \in {"setup", "select"} => why = "running"
    /\ main \in {"stopAll", "shutdown", "hooks"} => why = "signal"
    /\ why = "signal" => ~muxOpen
    /\ why = "signal" /\ main # "stopAll" => stop.left = {} /\ stop.cur = None
    /\ main = "setup" <=> http = "none"
    /\ why = "signal" /\ main \in {"hooks", "returned"} /\ http # "closed" => missed
    /\ why = "signal" /\ main \in {"hooks", "returned"} /\ muxing => http # "serving"
    /\ hooks = IF why = "signal" /\ main = "returned" THEN 1 ELSE 0
    /\ why # "signal" => stop.cur = None

(* StopAll has yet to reach a registered protocol, is stopping it, found it
   down, or has stopped it for good: its Start is behind it. *)
StopInv ==
    /\ stop.cur # None => running[stop.cur]
    /\ why = "signal" /\ ~stopErr =>
        \A p \in registered :
            p \in stop.left \/ p = stop.cur \/ p \in late \/ (~running[p] /\ Started(p))

Inv == TypeInv /\ SetupInv /\ WalkInv /\ MainInv /\ StopInv

-----------------------------------------------------------------------------
(* Inv holds of a new application. *)
LEMMA InitInv == Init => Inv
<1> SUFFICES ASSUME Init PROVE Inv
    OBVIOUS
<1> USE DEF Init
<1>1. TypeInv
    <2>1. /\ secret \in [Protocols -> BOOLEAN]
          /\ injected \in [Protocols -> BOOLEAN]
          /\ running \in [Protocols -> BOOLEAN]
        OBVIOUS
    <2> QED
        BY <2>1 DEF TypeInv, Walk
<1>2. SetupInv /\ WalkInv /\ MainInv /\ StopInv
    BY ProtocolsAssumption DEF SetupInv, WalkInv, MainInv, StopInv, Started
<1> QED
    BY <1>1, <1>2 DEF Inv

(* Adding an element to one side of an intersection. *)
LEMMA AddCap ==
    ASSUME NEW A, NEW B, NEW x
    PROVE  /\ x \in B => (A \cup {x}) \cap B = (A \cap B) \cup {x}
           /\ x \notin B => (A \cup {x}) \cap B = A \cap B
OBVIOUS

(* Set-up: whichever of SetJWTAuth and RegisterProtocol comes first, a
   registered protocol has the secret once there is one. *)
LEMMA SetupStep ==
    ASSUME Inv, SetJWTAuth \/ Listen \/ \E p \in Protocols : RegisterProtocol(p)
    PROVE  Inv'
<1> USE ProtocolsAssumption DEF Inv, TypeInv, SetupInv, WalkInv, MainInv, StopInv,
        Walk, Started, Inject, Skipped, setupFrame, setupVars, startVars, stopVars
<1>1. CASE SetJWTAuth
    BY <1>1 DEF SetJWTAuth, SetUnifiedAuth
<1>2. CASE Listen
    BY <1>2 DEF Listen
<1>3. ASSUME NEW p \in Protocols, RegisterProtocol(p) PROVE Inv'
    <2> USE <1>3 DEF RegisterProtocol, WithHooks
    <2>1. secret' \in [Protocols -> BOOLEAN]
        BY Zenon
    <2>2. TypeInv'
        BY <2>1
    <2>3. SetupInv'
        <3>1. ASSUME jwt', NEW q \in registered' \cap AuthAware PROVE secret'[q]
            <4>1. CASE q = p
                BY <3>1, <4>1, Zenon
            <4>2. CASE q # p
                BY <3>1, <4>2
            <4> QED
                BY <4>1, <4>2
        <3>2. mounted' = IF muxing' THEN registered' \cap Mountable ELSE {}
            <4>1. CASE muxing /\ p \in Mountable
                BY <4>1, AddCap DEF WithHooks
            <4>2. CASE ~(muxing /\ p \in Mountable)
                BY <4>2, AddCap
            <4> QED
                BY <4>1, <4>2
        <3>3. main' = "setup"
            OBVIOUS
        <3> QED
            BY <3>1, <3>2, <3>3, Zenon
    <2>4. WalkInv'
        OBVIOUS
    <2>5. MainInv' /\ StopInv'
        OBVIOUS
    <2> QED
        BY <2>2, <2>3, <2>4, <2>5
<1> QED
    BY <1>1, <1>2, <1>3

(* The starting goroutine: a protocol that comes up has had its only Start. *)
LEMMA WalkStep == ASSUME Inv, StarterStep PROVE Inv'
<1> USE ProtocolsAssumption DEF Inv, startFrame, setupVars, stopVars
<1>1. ASSUME NEW p \in Protocols, StartNext(p) PROVE Inv'
    <2> USE <1>1 DEF StartNext
    <2>1. TypeInv'
        BY DEF TypeInv, Walk
    <2>5. SetupInv'
        BY DEF SetupInv, Inject
    <2>2. WalkInv'
        BY DEF TypeInv, Walk, SetupInv, WalkInv, Started, Skipped
    <2>3. MainInv'
        BY DEF MainInv
    <2>4. StopInv'
        BY DEF TypeInv, Walk, WalkInv, StopInv, Started
    <2> QED
        BY <2>1, <2>2, <2>3, <2>4, <2>5
<1>2. CASE StartOk
    <2> USE <1>2 DEF StartOk
    <2>6. running' \in [Protocols -> BOOLEAN]
        BY Zenon DEF TypeInv, Walk
    <2>7. starter' \in Walk
        BY DEF TypeInv, Walk
    <2>1. TypeInv'
        BY <2>6, <2>7 DEF TypeInv
    <2>5. SetupInv'
        BY DEF SetupInv, Inject
    <2>2. WalkInv'
        BY DEF TypeInv, Walk, WalkInv, Started, Skipped
    <2>3. MainInv'
        BY DEF MainInv
    <2>4. StopInv'
        BY DEF TypeInv, Walk, WalkInv, StopInv, Started
    <2> QED
        BY <2>1, <2>2, <2>3, <2>4, <2>5
<1>3. CASE StartErr
    <2> USE <1>3 DEF StartErr
    <2>7. starter' \in Walk
        BY DEF TypeInv, Walk
    <2>1. TypeInv'
        BY <2>7 DEF TypeInv
    <2>5. SetupInv'
        BY DEF SetupInv, Inject
    <2>2. WalkInv'
        BY DEF TypeInv, Walk, WalkInv, Started, Skipped
    <2>3. MainInv'
        BY DEF MainInv
    <2>4. StopInv'
        BY DEF TypeInv, Walk, WalkInv, StopInv, Started
    <2> QED
        BY <2>1, <2>2, <2>3, <2>4, <2>5
<1>4. CASE StartOver
    <2> USE <1>4 DEF StartOver
    <2>1. TypeInv'
        BY DEF TypeInv, Walk
    <2>5. SetupInv'
        BY DEF SetupInv, Inject
    <2>2. WalkInv'
        BY DEF TypeInv, Walk, WalkInv, Started, Skipped
    <2>3. MainInv'
        BY DEF MainInv
    <2>4. StopInv'
        BY DEF TypeInv, Walk, WalkInv, StopInv, Started
    <2> QED
        BY <2>1, <2>2, <2>3, <2>4, <2>5
<1> QED
    BY <1>1, <1>2, <1>3, <1>4 DEF StarterStep

(* StopAll: a protocol it has passed was down, or is down for good. *)
LEMMA StopStep ==
    ASSUME Inv, StopOk \/ StopErr \/ StopHangs \/ \E p \in Protocols : StopNext(p)
    PROVE  Inv'
<1> USE ProtocolsAssumption DEF Inv, stopFrame, setupVars, startVars
<1>1. ASSUME NEW p \in Protocols, StopNext(p) PROVE Inv'
    <2> USE <1>1 DEF StopNext
    <2>1. TypeInv' /\ SetupInv'
        BY DEF TypeInv, SetupInv, Walk, Inject
    <2>2. WalkInv'
        BY DEF TypeInv, Walk, WalkInv, Started, Skipped
    <2>3. MainInv'
        BY DEF TypeInv, MainInv
    <2>4. StopInv'
        BY DEF TypeInv, MainInv, StopInv, Started
    <2> QED
        BY <2>1, <2>2, <2>3, <2>4
<1>2. CASE StopOk
    <2> USE <1>2 DEF StopOk
    <2>1. TypeInv' /\ SetupInv'
        BY DEF TypeInv, SetupInv, Walk, Inject
    <2>2. WalkInv'
        BY DEF TypeInv, Walk, WalkInv, Started, Skipped
    <2>3. MainInv'
        BY DEF TypeInv, MainInv
    <2>4. StopInv'
        BY DEF TypeInv, WalkInv, MainInv, StopInv, Started
    <2> QED
        BY <2>1, <2>2, <2>3, <2>4
<1>3. CASE StopErr
    <2> USE <1>3 DEF StopErr
    <2>1. TypeInv' /\ SetupInv'
        BY DEF TypeInv, SetupInv, Walk, Inject
    <2>2. WalkInv'
        BY DEF TypeInv, Walk, WalkInv, Started, Skipped
    <2>3. MainInv'
        BY DEF TypeInv, MainInv
    <2>4. StopInv'
        BY DEF TypeInv, MainInv, StopInv, Started
    <2> QED
        BY <2>1, <2>2, <2>3, <2>4
<1>4. CASE StopHangs
    <2> USE <1>4 DEF StopHangs
    <2>1. TypeInv' /\ SetupInv'
        BY DEF TypeInv, SetupInv, Walk, Inject
    <2>2. WalkInv'
        BY DEF TypeInv, Walk, WalkInv, Started, Skipped
    <2>3. MainInv'
        BY DEF TypeInv, MainInv
    <2>4. StopInv'
        BY DEF TypeInv, MainInv, StopInv, Started
    <2> QED
        BY <2>1, <2>2, <2>3, <2>4
<1> QED
    BY <1>1, <1>2, <1>3, <1>4

(* The main goroutine from the select to its return. *)
LEMMA MainStep ==
    ASSUME Inv,
           \/ ServeBegin \/ LongRequest \/ ServeErr \/ Signal \/ Timeout
           \/ StopOver \/ Shutdown \/ RunHooks
    PROVE  Inv'
<1> USE ProtocolsAssumption DEF Inv, stopFrame, setupVars, startVars, stopVars
<1>0. CASE ServeBegin
    <2> USE <1>0 DEF ServeBegin
    <2>1. TypeInv' /\ SetupInv'
        BY DEF TypeInv, SetupInv, Walk, Inject
    <2>2. WalkInv'
        BY DEF TypeInv, Walk, WalkInv, Started, Skipped
    <2>3. MainInv'
        BY DEF TypeInv, MainInv
    <2>4. StopInv'
        BY DEF TypeInv, MainInv, StopInv, Started
    <2> QED
        BY <2>1, <2>2, <2>3, <2>4
<1>1. CASE LongRequest
    <2> USE <1>1 DEF LongRequest
    <2>1. TypeInv' /\ SetupInv'
        BY DEF TypeInv, SetupInv, Walk, Inject
    <2>2. WalkInv'
        BY DEF TypeInv, Walk, WalkInv, Started, Skipped
    <2>3. MainInv'
        BY DEF TypeInv, MainInv
    <2>4. StopInv'
        BY DEF TypeInv, MainInv, StopInv, Started
    <2> QED
        BY <2>1, <2>2, <2>3, <2>4
<1>2. CASE ServeErr
    <2> USE <1>2 DEF ServeErr
    <2>1. TypeInv' /\ SetupInv'
        BY DEF TypeInv, SetupInv, Walk, Inject
    <2>2. WalkInv'
        BY DEF TypeInv, Walk, WalkInv, Started, Skipped
    <2>3. MainInv'
        BY DEF TypeInv, MainInv
    <2>4. StopInv'
        BY DEF TypeInv, MainInv, StopInv, Started
    <2> QED
        BY <2>1, <2>2, <2>3, <2>4
<1>3. CASE Signal
    <2> USE <1>3 DEF Signal
    <2>1. TypeInv' /\ SetupInv'
        BY DEF TypeInv, SetupInv, Walk, Inject
    <2>2. WalkInv'
        BY DEF TypeInv, Walk, WalkInv, Started, Skipped
    <2>3. MainInv'
        BY DEF TypeInv, MainInv
    <2>4. StopInv'
        BY DEF TypeInv, MainInv, StopInv, Started
    <2> QED
        BY <2>1, <2>2, <2>3, <2>4
<1>4. CASE Timeout
    <2> USE <1>4 DEF Timeout
    <2>1. TypeInv' /\ SetupInv'
        BY DEF TypeInv, SetupInv, Walk, Inject
    <2>2. WalkInv'
        BY DEF TypeInv, Walk, WalkInv, Started, Skipped
    <2>3. MainInv'
        BY DEF TypeInv, MainInv
    <2>4. StopInv'
        BY DEF TypeInv, MainInv, StopInv, Started
    <2> QED
        BY <2>1, <2>2, <2>3, <2>4
<1>5. CASE StopOver
    <2> USE <1>5 DEF StopOver
    <2>1. TypeInv' /\ SetupInv'
        BY DEF TypeInv, SetupInv, Walk, Inject
    <2>2. WalkInv'
        BY DEF TypeInv, Walk, WalkInv, Started, Skipped
    <2>3. MainInv'
        BY DEF TypeInv, MainInv
    <2>4. StopInv'
        BY DEF TypeInv, MainInv, StopInv, Started
    <2> QED
        BY <2>1, <2>2, <2>3, <2>4
<1>6. CASE Shutdown
    <2> USE <1>6 DEF Shutdown
    <2>1. TypeInv' /\ SetupInv'
        BY DEF TypeInv, SetupInv, Walk, Inject
    <2>2. WalkInv'
        BY DEF TypeInv, Walk, WalkInv, Started, Skipped
    <2>3. MainInv'
        BY DEF TypeInv, MainInv
    <2>4. StopInv'
        BY DEF TypeInv, MainInv, StopInv, Started
    <2> QED
        BY <2>1, <2>2, <2>3, <2>4
<1>7. CASE RunHooks
    <2> USE <1>7 DEF RunHooks
    <2>1. TypeInv' /\ SetupInv'
        BY DEF TypeInv, SetupInv, Walk, Inject
    <2>2. WalkInv'
        BY DEF TypeInv, Walk, WalkInv, Started, Skipped
    <2>3. MainInv'
        BY DEF TypeInv, MainInv
    <2>4. StopInv'
        BY DEF TypeInv, MainInv, StopInv, Started
    <2> QED
        BY <2>1, <2>2, <2>3, <2>4
<1> QED
    BY <1>0, <1>1, <1>2, <1>3, <1>4, <1>5, <1>6, <1>7

(* As the master of a pool a process takes no step of App. *)
LEMMA InvInductive == Inv /\ [GNext]_all => Inv'
<1> SUFFICES ASSUME Inv, [GNext]_all PROVE Inv'
    OBVIOUS
<1>1. CASE Next
    BY <1>1, SetupStep, WalkStep, StopStep, MainStep DEF Next, ShutdownStep
<1>2. CASE UNCHANGED vars
    BY <1>2 DEF vars, Inv, TypeInv, SetupInv, WalkInv, MainInv, StopInv, Walk,
                Started, Inject, Skipped
<1> QED
    BY <1>1, <1>2 DEF GNext, AsApp, AsMaster, all

LEMMA InvHolds == GSpec => []Inv
<1>1. GInit => Inv
    BY InitInv DEF GInit
<1> QED
    BY <1>1, InvInductive, PTL DEF GSpec

-----------------------------------------------------------------------------
(* AuthEverywhere for any protocols and any order of set-up: the secret reaches
   a protocol at SetJWTAuth or at RegisterProtocol, and only a registered one is
   ever started (app.go:194-204, protocol/base.go SetUnifiedAuth). *)
THEOREM AuthCorrect == GSpec => []AuthEverywhere
<1>1. Inv => AuthEverywhere
    BY ProtocolsAssumption
       DEF Inv, TypeInv, SetupInv, WalkInv, Started, AuthEverywhere
<1> QED
    BY <1>1, InvHolds, PTL

(* ServedOnce for any protocols: mounted or started on its cmux listener, never
   both, and none left out of a walk without an error (protocol.go:12-29). *)
THEOREM ServedCorrect == GSpec => []ServedOnce
<1>1. Inv => ServedOnce
    BY ProtocolsAssumption
       DEF Inv, TypeInv, Walk, SetupInv, WalkInv, Started, Skipped, Inject, ServedOnce
<1> QED
    BY <1>1, InvHolds, PTL

(* HooksAfterClose, whatever the starting goroutine, the goroutine that serves
   HTTP and open requests do. *)
THEOREM HooksCorrect == GSpec => []HooksAfterClose
<1>1. Inv => HooksAfterClose
    BY DEF Inv, TypeInv, MainInv, HooksAfterClose
<1> QED
    BY <1>1, InvHolds, PTL

(* LeftoverExplained for any protocols: StopAll misses a protocol only if it came
   up after StopAll had passed it, or if another Stop failed. *)
THEOREM LeftoverCorrect == GSpec => []LeftoverExplained
<1>1. Inv => LeftoverExplained
    BY ProtocolsAssumption
       DEF Inv, TypeInv, WalkInv, MainInv, StopInv, Started, LeftoverExplained
<1> QED
    BY <1>1, InvHolds, PTL

-----------------------------------------------------------------------------
(* The master: the map of children is exactly the processes that run or wait to
   be reaped, and the pool is as large as it was, counting the child that the
   monitor is replacing and those it could not replace. *)
PoolInv ==
    /\ children = alive \cup zombie /\ alive \cap zombie = {}
    /\ IsFiniteSet(children)
    /\ lost \in Nat
    /\ master = "spawn" => monitor = "off"
    /\ monitor = "off" => lost = 0
    /\ monitor # "off" =>
        Cardinality(children) + lost + (IF monitor = "restart" THEN 1 ELSE 0) = S!Num

(* Supervisor counts as FiniteSets does. *)
LEMMA SameCardinality == S!Cardinality(children) = Cardinality(children)
BY DEF Cardinality, S!Cardinality

(* A child that starts is one more, whatever pid it is given. *)
LEMMA SpawnCounts ==
    ASSUME PoolInv, NEW p, S!Spawn(p)
    PROVE  /\ IsFiniteSet(children') /\ Cardinality(children') = Cardinality(children) + 1
           /\ children' = alive' \cup zombie /\ alive' \cap zombie = {}
BY FS_AddElement DEF PoolInv, S!Spawn

(* A child that is reaped is one less. *)
LEMMA ReapCounts ==
    ASSUME PoolInv, NEW p \in children
    PROVE  /\ IsFiniteSet(children \ {p})
           /\ Cardinality(children \ {p}) = Cardinality(children) - 1
BY FS_RemoveElement DEF PoolInv

(* Every step of the master, the monitor and the children preserves PoolInv. *)
LEMMA PoolStep == ASSUME PoolInv, S!Next PROVE PoolInv'
<1>0. Cardinality(children) \in Nat
    BY FS_CardinalityType DEF PoolInv
<1>00. S!Num' = S!Num
    BY DEF S!Num
<1> USE <1>0, <1>00 DEF PoolInv
<1>1. ASSUME NEW p \in Pids, S!SpawnChild(p) PROVE PoolInv'
    BY <1>1, SpawnCounts DEF S!SpawnChild
<1>2. ASSUME NEW p \in Pids, S!ChildExit(p) PROVE PoolInv'
    BY <1>2 DEF S!ChildExit
<1>3. CASE S!SpawnErr
    BY <1>3 DEF S!SpawnErr
<1>4. CASE S!StartMonitor
    BY <1>4, SameCardinality DEF S!StartMonitor
<1>5. CASE S!MasterSignal
    BY <1>5 DEF S!MasterSignal
<1>6. ASSUME NEW p \in Pids, S!Reap(p) PROVE PoolInv'
    <2> USE <1>6 DEF S!Reap
    <2>1. p \in children
        OBVIOUS
    <2>2. /\ IsFiniteSet(children')
          /\ Cardinality(children') = Cardinality(children) - 1
        BY <2>1, ReapCounts
    <2>3. monitor' = "restart" /\ monitor = "wait"
        BY <2>1
    <2>4. Cardinality(children') + lost' + 1 = S!Num
        BY <2>2, <2>3
    <2> QED
        BY <2>2, <2>3, <2>4
<1>7. ASSUME NEW p \in Pids, S!Restart(p) PROVE PoolInv'
    <2> USE <1>7 DEF S!Restart
    <2>1. /\ IsFiniteSet(children') /\ Cardinality(children') = Cardinality(children) + 1
          /\ children' = alive' \cup zombie /\ alive' \cap zombie = {}
        BY SpawnCounts
    <2>2. Cardinality(children') + lost' = S!Num
        BY <2>1
    <2> QED
        BY <2>1, <2>2
<1>8. CASE S!RestartErr
    BY <1>8 DEF S!RestartErr
<1>9. CASE S!NoChild
    BY <1>9 DEF S!NoChild
<1> QED
    BY <1>1, <1>2, <1>3, <1>4, <1>5, <1>6, <1>7, <1>8, <1>9 DEF S!Next, S!MonitorStep

(* For any number of children and any order of exits, no child is forgotten or
   replaced twice (app_unix.go:20-48): this is what PoolKept rests on. *)
THEOREM PoolAccounted == GSpec => []PoolInv
<1>1. GInit => PoolInv
    BY FS_EmptySet DEF GInit, S!Init, PoolInv
<1>2. PoolInv /\ [GNext]_all => PoolInv'
    <2> SUFFICES ASSUME PoolInv, [GNext]_all PROVE PoolInv'
        OBVIOUS
    <2>1. CASE S!Next
        BY <2>1, PoolStep
    <2>2. CASE UNCHANGED supVars
        BY <2>2 DEF supVars, PoolInv, S!Num
    <2> QED
        BY <2>1, <2>2 DEF GNext, AsApp, AsMaster, all
<1> QED
    BY <1>1, <1>2, PTL DEF GSpec

=============================================================================
