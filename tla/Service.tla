------------------------------- MODULE Service -------------------------------
(***************************************************************************)
(* What App expects of a protocol server, whichever library serves it: the  *)
(* contract behind the interface ProtocolHandler of protocol/base.go.        *)
(*                                                                         *)
(* A server serves from some point of its Start on and until Stop; a Stop    *)
(* that drains returns without an error only when no request is left.  What  *)
(* the servers do not have in common is in caps.                            *)
(***************************************************************************)

VARIABLES
    starting,   \* Start has been called and has not returned
    running,    \* what IsRunning() reports, or would once Stop lets go of the lock
    serving,    \* connections are accepted
    stopping,   \* Stop has been called and has not returned
    busy,       \* a request is being handled
    missed,     \* some Stop came before Serve
    again,      \* Start was called after such a Stop
    caps        \* what kind of server this is

vars == <<starting, running, serving, stopping, busy, missed, again, caps>>

(* careful: a Serve that comes after Stop does not serve, unless a later Start
   has replaced the server by then; drains: Stop waits
   for the requests; bounded: it does so for no longer than its context. *)
Capabilities == [careful : BOOLEAN, drains : BOOLEAN, bounded : BOOLEAN]

Init ==
    /\ ~starting /\ ~running /\ ~serving /\ ~stopping /\ ~busy
    /\ ~missed /\ ~again
    /\ caps \in Capabilities

StartBegin ==
    /\ ~starting /\ starting'
    /\ again' = (again \/ missed)
    /\ UNCHANGED <<running, serving, stopping, busy, missed, caps>>

StartFail ==
    /\ ~starting'
    /\ again' \in {again, again \/ missed}
    /\ UNCHANGED <<running, serving, stopping, busy, missed, caps>>

StartDone ==
    /\ ~running /\ ~stopping
    /\ running' /\ ~starting'
    /\ again' \in {again, again \/ missed}
    /\ UNCHANGED <<serving, stopping, busy, missed, caps>>

(* The goroutine of Start reaches Serve. *)
Serve ==
    /\ ~serving /\ serving'
    /\ \/ (starting \/ running) /\ ~stopping
       \/ missed /\ (again \/ ~caps.careful)
    /\ UNCHANGED <<starting, running, stopping, busy, missed, again, caps>>

(* Requests come only while the server serves; the last one may end later. *)
Work ==
    /\ busy' # busy
    /\ busy' => serving
    /\ UNCHANGED <<starting, running, serving, stopping, missed, again, caps>>

StopBegin ==
    /\ running /\ ~stopping
    /\ stopping' /\ ~serving'
    /\ missed' \in (IF serving THEN {missed} ELSE {missed, TRUE})
    /\ UNCHANGED <<starting, running, busy, again, caps>>

StopReturn ==
    /\ stopping /\ ~stopping' /\ ~running'
    /\ caps.drains /\ ~caps.bounded /\ ~missed => ~busy
    /\ UNCHANGED <<starting, serving, busy, missed, again, caps>>

Next ==
    \/ StartBegin \/ StartFail \/ StartDone
    \/ Serve \/ Work
    \/ StopBegin \/ StopReturn

Spec == Init /\ [][Next]_vars

=============================================================================
