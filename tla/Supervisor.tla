----------------------------- MODULE Supervisor -----------------------------
(***************************************************************************)
(* The master of the multiprocess model: superviseChildren (app.go) and the *)
(* goroutine of startMonitor (app_unix.go), which waits for any child and   *)
(* replaces it.  A process that has exited keeps its pid until it has been  *)
(* waited for; after that the pid may be given to a new child.              *)
(***************************************************************************)
EXTENDS Integers, FiniteSets

CONSTANTS
    Pids,          \* process identifiers
    NumChildren,   \* ServerConfig.NumChildren
    NumCPU,        \* runtime.NumCPU()
    MaxExits       \* bound: children that exit

VARIABLES
    master,     \* superviseChildren: "spawn", "supervise", "failed", "returned"
    monitor,    \* the goroutine: "off", "wait", "restart", "ended"
    children,   \* the map: pids of children that are supervised
    alive,      \* running processes
    zombie,     \* processes that have exited and were not waited for
    lost,       \* ghost: children that could not be replaced
    exits       \* exits so far

supVars == <<master, monitor, children, alive, zombie, lost, exits>>

(* Without a configured number, one child per CPU. *)
Num == IF NumChildren <= 0 THEN NumCPU ELSE NumChildren

Init ==
    /\ master = "spawn" /\ monitor = "off"
    /\ children = {} /\ alive = {} /\ zombie = {}
    /\ lost = 0 /\ exits = 0

(* cmd.Start gives the child a pid that is not in use. *)
Spawn(p) ==
    /\ p \notin alive \cup zombie
    /\ alive' = alive \cup {p}
    /\ children' = children \cup {p}

-----------------------------------------------------------------------------
(* superviseChildren. *)

SpawnChild(p) ==
    /\ master = "spawn" /\ Cardinality(children) < Num
    /\ Spawn(p)
    /\ UNCHANGED <<master, monitor, zombie, lost, exits>>

(* A child cannot be started: return the error; those started go on. *)
SpawnErr ==
    /\ master = "spawn" /\ Cardinality(children) < Num
    /\ master' = "failed"
    /\ UNCHANGED <<monitor, children, alive, zombie, lost, exits>>

StartMonitor ==
    /\ master = "spawn" /\ Cardinality(children) = Num
    /\ master' = "supervise" /\ monitor' = "wait"
    /\ UNCHANGED <<children, alive, zombie, lost, exits>>

(* SIGINT or SIGTERM: superviseChildren returns; the children are not told. *)
MasterSignal ==
    /\ master = "supervise"
    /\ master' = "returned"
    /\ UNCHANGED <<monitor, children, alive, zombie, lost, exits>>

-----------------------------------------------------------------------------
(* The monitor. *)

(* Mutant of Reap: the child is forgotten, not replaced. *)
ReapOnly(p) ==
    /\ monitor = "wait" /\ p \in zombie
    /\ zombie' = zombie \ {p}
    /\ children' = children \ {p}
    /\ UNCHANGED <<master, monitor, alive, lost, exits>>

(* Wait4 returns p, which is deleted from the map. *)
Reap(p) ==
    /\ monitor = "wait" /\ p \in zombie
    /\ zombie' = zombie \ {p}
    /\ children' = children \ {p}
    /\ monitor' = IF p \in children THEN "restart" ELSE "wait"
    /\ UNCHANGED <<master, alive, lost, exits>>

Restart(p) ==
    /\ monitor = "restart"
    /\ Spawn(p)
    /\ monitor' = "wait"
    /\ UNCHANGED <<master, zombie, lost, exits>>

(* The new child cannot be started: logged, and the pool stays smaller. *)
RestartErr ==
    /\ monitor = "restart"
    /\ lost' = lost + 1
    /\ monitor' = "wait"
    /\ UNCHANGED <<master, children, alive, zombie, exits>>

(* Wait4 fails with ECHILD: the goroutine returns for good. *)
NoChild ==
    /\ monitor = "wait" /\ alive = {} /\ zombie = {}
    /\ monitor' = "ended"
    /\ UNCHANGED <<master, children, alive, zombie, lost, exits>>

(* Environment: a child exits or crashes. *)
ChildExit(p) ==
    /\ p \in alive /\ exits < MaxExits
    /\ exits' = exits + 1
    /\ alive' = alive \ {p}
    /\ zombie' = zombie \cup {p}
    /\ UNCHANGED <<master, monitor, children, lost>>

MonitorStep ==
    \/ \E p \in Pids : Reap(p) \/ Restart(p)
    \/ RestartErr
    \/ NoChild

Next ==
    \/ \E p \in Pids : SpawnChild(p) \/ ChildExit(p)
    \/ SpawnErr
    \/ StartMonitor
    \/ MasterSignal
    \/ MonitorStep

-----------------------------------------------------------------------------
(* Properties. *)

(* The master "only replaces children that exit" (app.go:425-426): the pool
   is brought back to its size again and again, whatever order children exit
   in and however early, short of the children that could not be started. *)
PoolKept ==
    (master = "supervise") ~>
        (master = "returned" \/ Cardinality(alive) + lost = Num)

=============================================================================
