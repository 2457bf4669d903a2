--------------------------- MODULE ListenGraceful ---------------------------
(***************************************************************************)
(* ListenGraceful as a whole: with Multiprocess set, the process that was   *)
(* not started as a child becomes the master of Supervisor; every other     *)
(* process, a child included, goes through App.                             *)
(***************************************************************************)
EXTENDS App

CONSTANTS Pids, NumChildren, NumCPU, MaxExits

VARIABLES
    role,   \* "app" or "master"
    master, monitor, children, alive, zombie, lost, exits

S == INSTANCE Supervisor

supVars == <<master, monitor, children, alive, zombie, lost, exits>>
all == <<vars, role, supVars>>

(* checkMultiprocess refuses the combination with port multiplexing. *)
GInit ==
    /\ Init /\ S!Init
    /\ role \in {"app", "master"}
    /\ role = "master" => ~muxing

AsApp == role = "app" /\ UNCHANGED <<role, supVars>>
AsMaster == role = "master" /\ UNCHANGED <<role, vars>>

GNext ==
    \/ Next /\ AsApp
    \/ S!Next /\ AsMaster

(* The main goroutine, the timer and the monitor run, and a Stop returns unless
   it is stuck.  No fairness for the start of a protocol, which may hang, nor for
   signals. *)
GSpec ==
    /\ GInit /\ [][GNext]_all
    /\ WF_all(ShutdownStep /\ AsApp) /\ WF_all(Timeout /\ AsApp)
    /\ WF_all(S!MonitorStep /\ AsMaster)

(* Supervisor!PoolKept for the master of this composition: every child that
   exits is replaced, short of those that could not be started. *)
PoolKept == S!PoolKept

=============================================================================
