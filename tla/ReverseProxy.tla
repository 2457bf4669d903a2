---------------------------- MODULE ReverseProxy ----------------------------
(***************************************************************************)
(* Request forwarding by the HTTP reverse proxy: Do, pick and fail of       *)
(* proxy/proxy.go, doUpgrade of proxy/websocket.go and Pick of              *)
(* proxy/balancer.go, run by concurrent requests over one pool.             *)
(*                                                                         *)
(* Pick reads Target.healthy of one target after the other, so the health   *)
(* checker may change the pool while it is being read: each load is a step  *)
(* of its own.  Choosing from the pool, with the increment of the round     *)
(* robin counter, is one step.  HTTP messages, headers and paths are left   *)
(* out: no branch of this code depends on them.                             *)
(***************************************************************************)
EXTENDS Integers, Sequences, FiniteSets

CONSTANTS
    Pool,          \* the targets in configuration order: a sequence
    Weight,        \* Target.Weight as configured
    Configured,    \* the values of Config.Balancer to consider
    MaxRetries,    \* Config.MaxRetries
    Requests,      \* plain requests
    Upgrades,      \* Upgrade requests, with Config.WebSocket set
    Hash,          \* fnv1a of each client's address
    CounterMod,    \* width of Balancer.counter: 2^64 in the code
    MaxFlips       \* bound: health changes while requests run

Targets == {Pool[i] : i \in 1..Len(Pool)}
Algorithms == {"RoundRobin", "Random", "LeastConn", "IPHash"}
NoTarget == "nil"

ASSUME PoolAssumption ==
    /\ Pool \in Seq(Targets) /\ NoTarget \notin Targets
    /\ IsFiniteSet(Requests) /\ IsFiniteSet(Upgrades)
    /\ Weight \in [Targets -> Int]
    /\ MaxRetries \in Nat
    /\ Hash \in [Requests \cup Upgrades -> Nat]
    /\ CounterMod \in Nat \ {0}
    /\ MaxFlips \in Nat
    /\ Requests \cap Upgrades = {}

VARIABLES
    algo,       \* Balancer.algo, fixed by NewBalancer
    healthy,    \* Target.healthy
    active,     \* Target.active
    counter,    \* Balancer.counter
    req,        \* per client, the call of Do or doUpgrade
    flips,      \* health changes so far
    disturbed   \* ghost: per client, someone else moved while it was in pick

vars == <<algo, healthy, active, counter, req, flips, disturbed>>

Clients == Requests \cup Upgrades

(* weight: a non-positive weight counts as one. *)
weight(t) == IF Weight[t] <= 0 THEN 1 ELSE Weight[t]

(* NewBalancer: an unknown algorithm falls back to round robin. *)
Algo(a) == IF a \in Algorithms THEN a ELSE "RoundRobin"

(* A call: pc; attempt is the loop variable of Do, turn that of pick, scan the
   next target Pick will look at, pool what Pick has collected. *)
NewCall == [pc |-> "idle", attempt |-> 0, turn |-> 0, scan |-> 1,
            pool |-> <<>>, tried |-> {}, target |-> NoTarget, gaveUp |-> FALSE]

(* A running proxy: the counter may have any value. *)
Init ==
    /\ algo \in {Algo(a) : a \in Configured}
    /\ healthy = [t \in Targets |-> TRUE]
    /\ active = [t \in Targets |-> 0]
    /\ counter \in IF algo = "RoundRobin" THEN 0..(CounterMod - 1) ELSE {0}
    /\ req = [r \in Clients |-> NewCall]
    /\ flips = 0
    /\ disturbed = [r \in Clients |-> FALSE]

InPick(r) == req[r].pc \in {"scan", "choose", "nil"}

(* Ghost: r's step moves shared state, so every other call that is inside its
   pick is disturbed. *)
DisturbOthers(r) ==
    disturbed' = [q \in Clients |-> disturbed[q] \/ (q # r /\ InPick(q))]

-----------------------------------------------------------------------------
(* Pick of balancer.go. *)

(* One turn of the loop that expands the healthy targets by weight; after the
   last one an empty pool makes Pick return nil. *)
ScanTarget(r) ==
    LET t    == Pool[req[r].scan]
        pool == IF healthy[t] THEN req[r].pool \o [i \in 1..weight(t) |-> t]
                              ELSE req[r].pool
    IN  /\ req[r].pc = "scan"
        /\ req' = [req EXCEPT ![r] =
                     [@ EXCEPT !.scan = req[r].scan + 1, !.pool = pool,
                               !.pc = IF req[r].scan < Len(Pool) THEN "scan"
                                      ELSE IF pool = <<>> THEN "nil" ELSE "choose"]]
        /\ UNCHANGED <<algo, healthy, active, counter, flips, disturbed>>

(* LeastConn: the first of the pool with the fewest active requests. *)
LeastActive(pool) ==
    CHOOSE i \in 1..Len(pool) :
        /\ \A j \in 1..Len(pool) : active[pool[i]] <= active[pool[j]]
        /\ \A j \in 1..(i - 1) : active[pool[i]] < active[pool[j]]

(* The targets that Pick may return for r, given its pool. *)
Choices(r, pool) ==
    CASE algo = "Random"    -> {pool[i] : i \in 1..Len(pool)}
      [] algo = "LeastConn" -> {pool[LeastActive(pool)]}
      [] algo = "IPHash"    -> {pool[(Hash[r] % Len(pool)) + 1]}
      [] OTHER              -> {pool[(counter % Len(pool)) + 1]}

(* Only round robin advances the counter; it wraps at its width. *)
Advance == IF algo = "RoundRobin" THEN (counter + 1) % CounterMod ELSE counter

(* The state a Pick starts from. *)
StartPick(call) ==
    [call EXCEPT !.pc = IF Pool = <<>> THEN "nil" ELSE "scan",
                 !.scan = 1, !.pool = <<>>]

(* Mutant of PickTurns: without the extra turn of "i <= len(pool)". *)
PickTurnsShort == Len(Pool) - 1

(* The last value of i in pick's loop. *)
PickTurns == Len(Pool)

(* Mutant of Accepts: tried is not consulted. *)
AcceptsAny(r, t) == TRUE

(* pick and doUpgrade: a plain request refuses a target it has tried. *)
Accepts(r, t) == t \notin req[r].tried

(* Pick returns t to pick: use it if untried, otherwise ask again, at most
   len(pool) + 1 times.  Accepting is followed by tried[t] = true and
   active.Add(1) in the same call. *)
Choose(r) ==
    /\ req[r].pc = "choose"
    /\ counter' = Advance
    /\ \E t \in Choices(r, req[r].pool) :
          IF Accepts(r, t)
          THEN /\ req' = [req EXCEPT
                            ![r] = [@ EXCEPT !.pc = "sent", !.target = t,
                                             !.tried = req[r].tried \cup {t}, !.pool = <<>>,
                                             !.scan = 1, !.turn = 0]]
               /\ active' = [active EXCEPT ![t] = @ + 1]
          ELSE /\ req' = [req EXCEPT
                            ![r] = IF req[r].turn < PickTurns
                                   THEN [StartPick(@) EXCEPT !.turn = req[r].turn + 1]
                                   ELSE [@ EXCEPT !.pc = "nil", !.pool = <<>>]]
               /\ UNCHANGED active
    /\ DisturbOthers(r)
    /\ UNCHANGED <<algo, healthy, flips>>

-----------------------------------------------------------------------------
(* Do. *)

(* The request arrives and enters its first pick. *)
Arrive(r) ==
    /\ req[r].pc = "idle"
    /\ req' = [req EXCEPT ![r] = StartPick(@)]
    /\ disturbed' = [disturbed EXCEPT ![r] = FALSE]
    /\ UNCHANGED <<algo, healthy, active, counter, flips>>

(* pick returned nil: break, then fail with the last error or ErrNoTarget. *)
NoTargetLeft(r) ==
    /\ req[r].pc = "nil"
    /\ req' = [req EXCEPT ![r].pc = "failed", ![r].gaveUp = TRUE]
    /\ UNCHANGED <<algo, healthy, active, counter, flips, disturbed>>

(* DoTimeout returns a response: it is copied to the client. *)
Answer(r) ==
    /\ req[r].pc = "sent" /\ r \in Requests
    /\ active' = [active EXCEPT ![req[r].target] = @ - 1]
    /\ req' = [req EXCEPT ![r].pc = "ok"]
    /\ DisturbOthers(r)
    /\ UNCHANGED <<algo, healthy, counter, flips>>

(* Mutant of TransportErr: the error path keeps the target's slot. *)
TransportErrLeaks(r) ==
    /\ req[r].pc = "sent" /\ r \in Requests
    /\ req' = [req EXCEPT
                 ![r] = IF req[r].attempt < MaxRetries
                        THEN [StartPick(@) EXCEPT !.attempt = req[r].attempt + 1,
                                                  !.target = NoTarget]
                        ELSE [@ EXCEPT !.pc = "failed"]]
    /\ disturbed' = [disturbed EXCEPT ![r] = FALSE]
    /\ UNCHANGED <<algo, healthy, active, counter, flips>>

(* DoTimeout fails: the next attempt, or fail after the last one. *)
TransportErr(r) ==
    /\ req[r].pc = "sent" /\ r \in Requests
    /\ active' = [active EXCEPT ![req[r].target] = @ - 1]
    /\ req' = [req EXCEPT
                 ![r] = IF req[r].attempt < MaxRetries
                        THEN [StartPick(@) EXCEPT !.attempt = req[r].attempt + 1,
                                                  !.target = NoTarget]
                        ELSE [@ EXCEPT !.pc = "failed"]]
    /\ disturbed' = [q \in Clients |->
                        q # r /\ (disturbed[q] \/ InPick(q))]
    /\ UNCHANGED <<algo, healthy, counter, flips>>

-----------------------------------------------------------------------------
(* doUpgrade: one Pick, no retry.  active.Add(1) precedes the dial. *)

(* dialUpstream fails: active.Add(-1) and fail. *)
UpgradeDialErr(r) ==
    /\ req[r].pc = "sent" /\ r \in Upgrades
    /\ active' = [active EXCEPT ![req[r].target] = @ - 1]
    /\ req' = [req EXCEPT ![r].pc = "failed"]
    /\ DisturbOthers(r)
    /\ UNCHANGED <<algo, healthy, counter, flips>>

(* The handler returns with a hijack callback set; fasthttp calls it. *)
Hijack(r) ==
    /\ req[r].pc = "sent" /\ r \in Upgrades
    /\ req' = [req EXCEPT ![r].pc = "pipe"]
    /\ UNCHANGED <<algo, healthy, active, counter, flips, disturbed>>

(* The callback returns: the handshake failed, or both copies of pipe ended.
   Its deferred active.Add(-1) runs on every path. *)
HijackReturn(r) ==
    /\ req[r].pc = "pipe"
    /\ active' = [active EXCEPT ![req[r].target] = @ - 1]
    /\ req' = [req EXCEPT ![r].pc = "ok"]
    /\ DisturbOthers(r)
    /\ UNCHANGED <<algo, healthy, counter, flips>>

(* Environment: the health checker takes a target out or puts it back. *)
SetHealth(t) ==
    /\ flips < MaxFlips
    /\ flips' = flips + 1
    /\ healthy' = [healthy EXCEPT ![t] = ~@]
    /\ disturbed' = [q \in Clients |-> disturbed[q] \/ InPick(q)]
    /\ UNCHANGED <<algo, active, counter, req>>

CallStep(r) ==
    \/ ScanTarget(r)
    \/ Choose(r)
    \/ NoTargetLeft(r)
    \/ Answer(r)
    \/ TransportErr(r)
    \/ UpgradeDialErr(r)
    \/ Hijack(r)

Next ==
    \/ \E r \in Clients : CallStep(r) \/ Arrive(r) \/ HijackReturn(r)
    \/ \E t \in Targets : SetHealth(t)

Spec == Init /\ [][Next]_vars

-----------------------------------------------------------------------------
(* Properties. *)

(* Target.active is exactly the number of requests and upgraded connections
   the target is serving, on every path through Do, doUpgrade and the hijack
   callback: LeastConn balances on nothing else. *)
ActiveExact ==
    \A t \in Targets :
        active[t] = Cardinality({r \in Clients :
                        req[r].pc \in {"sent", "pipe"} /\ req[r].target = t})

(* A request is sent to a target at most once, however its retries interleave
   with other requests and with health changes, and to at most MaxRetries
   other targets. *)
OncePerTarget ==
    \A r \in Requests :
        req[r].pc \in {"sent", "ok"} =>
            /\ Cardinality(req[r].tried) = req[r].attempt + 1
            /\ req[r].attempt <= MaxRetries

(* "MaxRetries is how many other targets are tried after a transport failure"
   (proxy.go:51-53): a request whose pick nobody disturbed gives up only when
   no healthy target is left untried. *)
GivesUpOnlyWhenExhausted ==
    \A r \in Requests :
        req[r].pc = "nil" /\ ~disturbed[r] =>
            \A t \in Targets : healthy[t] => t \in req[r].tried

(* Every target has weight one, and the turns of pick make up for those that
   round robin loses where the counter wraps: it starts over at the first
   target, CounterMod % k places early among k healthy ones.  With 2^64 this
   holds up to a pool of five. *)
EvenPool ==
    /\ \A t \in Targets : weight(t) = 1
    /\ CounterMod > Len(Pool)
    /\ \A k \in 1..Len(Pool) : k + (CounterMod % k) <= Len(Pool) + 1

(* Round robin over such a pool keeps that promise, wherever the counter stands
   and whichever targets are healthy: the extra turn of pick is needed when the
   counter wraps (proxy.go:241-250, balancer.go:117-119). *)
RoundRobinExhausts ==
    algo = "RoundRobin" /\ EvenPool => GivesUpOnlyWhenExhausted

=============================================================================
