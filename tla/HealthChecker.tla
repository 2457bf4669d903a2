---------------------------- MODULE HealthChecker ----------------------------
(***************************************************************************)
(* The active health checker of proxy/health.go: one probe loop per        *)
(* balancer, one probe goroutine per target and round, and the shared      *)
(* atomics Target.healthy and Target.fails that the loop, the TCP proxy's   *)
(* connection handlers and the balancer read and write without a lock.     *)
(*                                                                         *)
(* TCPProxy.handle (proxy/tcp.go) also stores healthy = false when a dial   *)
(* fails; Conns is the set of its connection handlers.  The checker of the  *)
(* HTTP Proxy (proxy/proxy.go) is the instance Conns = {}: there nothing    *)
(* else writes healthy, and a sync.Once allows only the first Start.        *)
(*                                                                         *)
(* One action is one atomic load, add or store of the shared fields.        *)
(* fails is only ever touched by the target's own probe goroutine, so the   *)
(* two stores of a flip are one action.                                    *)
(***************************************************************************)
EXTENDS Integers

CONSTANTS
    Targets,            \* the upstream pool
    Conns,              \* connection handlers of the TCP proxy
    FailThreshold,      \* HealthCheck.FailThreshold as configured
    SuccessThreshold,   \* HealthCheck.SuccessThreshold as configured
    Enable              \* HealthCheck.Enable

ASSUME CheckerAssumption ==
    /\ FailThreshold \in Int
    /\ SuccessThreshold \in Int
    /\ Enable \in BOOLEAN

VARIABLES
    healthy,    \* Target.healthy
    fails,      \* Target.fails
    cancel,     \* checker.cancel # nil
    ctxDone,    \* the loop's context has been cancelled
    loop,       \* the probe loop: "none", "round" (in runOnce), "select"
    probe,      \* per target, the probe goroutine of the current round
    stopping,   \* a call of stop is between cancel() and its return
    dial,       \* per connection handler, its upstream dial
    up,         \* environment: the target currently answers
    okRun,      \* ghost: consecutive successful probes, capped
    failRun,    \* ghost: consecutive failed probes, capped
    marked      \* ghost: the target was taken out by a failed dial

poolVars  == <<healthy, fails>>
loopVars  == <<cancel, ctxDone, loop, stopping>>
ghostVars == <<okRun, failRun, marked>>
vars == <<healthy, fails, cancel, ctxDone, loop, probe, stopping, dial, up,
          okRun, failRun, marked>>

(* setDefaults: a threshold that is not positive takes its default. *)
FailLimit == IF FailThreshold <= 0 THEN 3 ELSE FailThreshold
SuccessLimit == IF SuccessThreshold <= 0 THEN 1 ELSE SuccessThreshold

ProbePC == {"idle", "probing", "returned", "reset", "count", "flip", "done"}
Probe == [pc : ProbePC, ok : BOOLEAN]

NoDial == [pc |-> "none"]
Dial == {NoDial} \cup [pc : {"dialing", "failed"}, target : Targets]

CapInc(n, cap) == IF n < cap THEN n + 1 ELSE n

(* Mutants of Limit: ">" in place of ">=", and the thresholds swapped. *)
LimitOffByOne(ok) == 1 + (IF ok THEN SuccessLimit ELSE FailLimit)
LimitSwapped(ok) == IF ok THEN FailLimit ELSE SuccessLimit

(* runOnce: the threshold that Add(1) is compared with depends on ok only. *)
Limit(ok) == IF ok THEN SuccessLimit ELSE FailLimit

-----------------------------------------------------------------------------
(* NewBalancer stores healthy = true on every target. *)
Init ==
    /\ healthy = [t \in Targets |-> TRUE]
    /\ fails = [t \in Targets |-> 0]
    /\ cancel = FALSE
    /\ ctxDone = FALSE
    /\ loop = "none"
    /\ probe = [t \in Targets |-> [pc |-> "idle", ok |-> FALSE]]
    /\ stopping = FALSE
    /\ dial = [c \in Conns |-> NoDial]
    /\ up \in [Targets -> BOOLEAN]
    /\ okRun = [t \in Targets |-> 0]
    /\ failRun = [t \in Targets |-> 0]
    /\ marked = [t \in Targets |-> FALSE]

(* checker.start; the new goroutine enters runOnce at once.  stop is not
   running meanwhile: the proxies call start and stop one after the other. *)
Start ==
    /\ ~stopping
    /\ Enable /\ ~cancel
    /\ cancel' = TRUE
    /\ ctxDone' = FALSE
    /\ loop' = "round"
    /\ probe' = [t \in Targets |-> [pc |-> "probing", ok |-> FALSE]]
    /\ UNCHANGED <<poolVars, stopping, dial, up, ghostVars>>

(* Mutant of StopBegin: cancel() is never called. *)
StopBeginNoCancel ==
    /\ cancel /\ ~stopping
    /\ stopping' = TRUE
    /\ UNCHANGED <<poolVars, cancel, ctxDone, loop, probe, dial, up, ghostVars>>

(* checker.stop up to stopped.Wait(). *)
StopBegin ==
    /\ cancel /\ ~stopping
    /\ stopping' = TRUE
    /\ ctxDone' = TRUE
    /\ UNCHANGED <<poolVars, cancel, loop, probe, dial, up, ghostVars>>

(* Mutant of StopEnd: the Wait is missing. *)
StopEndNoWait ==
    /\ stopping
    /\ stopping' = FALSE
    /\ cancel' = FALSE
    /\ UNCHANGED <<poolVars, ctxDone, loop, probe, dial, up, ghostVars>>

(* checker.stop after stopped.Wait(): the loop has exited. *)
StopEnd ==
    /\ stopping /\ loop = "none"
    /\ stopping' = FALSE
    /\ cancel' = FALSE
    /\ UNCHANGED <<poolVars, ctxDone, loop, probe, dial, up, ghostVars>>

-----------------------------------------------------------------------------
(* The probe loop. *)

(* The ticker case of the select: another round.  Go may choose it although
   ctx is already done. *)
Tick ==
    /\ loop = "select"
    /\ loop' = "round"
    /\ probe' = [t \in Targets |-> [pc |-> "probing", ok |-> FALSE]]
    /\ UNCHANGED <<poolVars, cancel, ctxDone, stopping, dial, up, ghostVars>>

(* The ctx.Done case of the select. *)
LoopExit ==
    /\ loop = "select" /\ ctxDone
    /\ loop' = "none"
    /\ UNCHANGED <<poolVars, cancel, ctxDone, probe, stopping, dial, up,
                   ghostVars>>

(* Mutant of RoundDone: the goroutine ends after one round, without a loop. *)
RoundDoneExits ==
    /\ loop = "round"
    /\ \A t \in Targets : probe[t].pc = "done"
    /\ loop' = "none"
    /\ probe' = [t \in Targets |-> [pc |-> "idle", ok |-> FALSE]]
    /\ UNCHANGED <<poolVars, cancel, ctxDone, stopping, dial, up, ghostVars>>

(* wg.Wait at the end of runOnce. *)
RoundDone ==
    /\ loop = "round"
    /\ \A t \in Targets : probe[t].pc = "done"
    /\ loop' = "select"
    /\ probe' = [t \in Targets |-> [pc |-> "idle", ok |-> FALSE]]
    /\ UNCHANGED <<poolVars, cancel, ctxDone, stopping, dial, up, ghostVars>>

(* httpProbe or tcpProbe returns: the answer the target gave (a time-out is a
   target that does not answer). *)
ProbeReturn(t) ==
    /\ probe[t].pc = "probing"
    /\ probe' = [probe EXCEPT ![t] = [pc |-> "returned", ok |-> up[t]]]
    /\ okRun' = [okRun EXCEPT ![t] =
                    IF up[t] THEN CapInc(@, SuccessLimit) ELSE 0]
    /\ failRun' = [failRun EXCEPT ![t] =
                    IF up[t] THEN 0 ELSE CapInc(@, FailLimit)]
    /\ UNCHANGED <<poolVars, loopVars, dial, up, marked>>

(* The switch of runOnce: exactly one healthy.Load() decides whether this
   result confirms the target's state (reset) or counts against it. *)
LoadHealthy(t) ==
    /\ probe[t].pc = "returned"
    /\ probe' = [probe EXCEPT ![t].pc =
                    IF probe[t].ok = healthy[t] THEN "reset" ELSE "count"]
    /\ UNCHANGED <<healthy, fails, loopVars, dial, up, ghostVars>>

(* Mutant of ResetFails: a confirming result does not end the run. *)
ResetFailsMissing(t) ==
    /\ probe[t].pc = "reset"
    /\ probe' = [probe EXCEPT ![t].pc = "done"]
    /\ UNCHANGED <<poolVars, loopVars, dial, up, ghostVars>>

(* ok && healthy, or !ok && !healthy: fails.Store(0). *)
ResetFails(t) ==
    /\ probe[t].pc = "reset"
    /\ fails' = [fails EXCEPT ![t] = 0]
    /\ probe' = [probe EXCEPT ![t].pc = "done"]
    /\ UNCHANGED <<healthy, loopVars, dial, up, ghostVars>>

(* fails.Add(1) compared with the threshold. *)
CountResult(t) ==
    /\ probe[t].pc = "count"
    /\ fails' = [fails EXCEPT ![t] = @ + 1]
    /\ probe' = [probe EXCEPT ![t].pc =
                    IF fails[t] + 1 >= Limit(probe[t].ok) THEN "flip"
                                                          ELSE "done"]
    /\ UNCHANGED <<healthy, loopVars, dial, up, ghostVars>>

(* The threshold is reached: fails.Store(0), healthy.Store(ok). *)
Flip(t) ==
    /\ probe[t].pc = "flip"
    /\ fails' = [fails EXCEPT ![t] = 0]
    /\ healthy' = [healthy EXCEPT ![t] = probe[t].ok]
    /\ marked' = [marked EXCEPT ![t] = FALSE]
    /\ probe' = [probe EXCEPT ![t].pc = "done"]
    /\ UNCHANGED <<loopVars, dial, up, okRun, failRun>>

-----------------------------------------------------------------------------
(* TCPProxy.handle: Pick a healthy target and dial it. *)
PickDial(c, t) ==
    /\ dial[c] = NoDial
    /\ healthy[t]
    /\ dial' = [dial EXCEPT ![c] = [pc |-> "dialing", target |-> t]]
    /\ UNCHANGED <<poolVars, loopVars, probe, up, ghostVars>>

(* dialUpstream returns. *)
DialReturn(c) ==
    /\ dial[c].pc = "dialing"
    /\ dial' = [dial EXCEPT ![c] = IF up[dial[c].target]
                                   THEN NoDial
                                   ELSE [@ EXCEPT !.pc = "failed"]]
    /\ UNCHANGED <<poolVars, loopVars, probe, up, ghostVars>>

(* The error path of handle: target.healthy.Store(false).  It leaves fails
   alone and does not ask whether health checking is enabled. *)
MarkDown(c) ==
    /\ dial[c].pc = "failed"
    /\ healthy' = [healthy EXCEPT ![dial[c].target] = FALSE]
    /\ marked' = [marked EXCEPT ![dial[c].target] = @ \/ healthy[dial[c].target]]
    /\ dial' = [dial EXCEPT ![c] = NoDial]
    /\ UNCHANGED <<fails, loopVars, probe, up, okRun, failRun>>

(* Environment: a target goes down or comes back. *)
EnvFlip(t) ==
    /\ up' = [up EXCEPT ![t] = ~@]
    /\ UNCHANGED <<poolVars, loopVars, probe, dial, ghostVars>>

ProbeStep(t) ==
    \/ ProbeReturn(t)
    \/ LoadHealthy(t)
    \/ ResetFails(t)
    \/ CountResult(t)
    \/ Flip(t)

Next ==
    \/ Start
    \/ StopBegin
    \/ StopEnd
    \/ Tick
    \/ LoopExit
    \/ RoundDone
    \/ \E t \in Targets : ProbeStep(t) \/ EnvFlip(t)
    \/ \E c \in Conns, t \in Targets : PickDial(c, t)
    \/ \E c \in Conns : DialReturn(c) \/ MarkDown(c)

Spec == Init /\ [][Next]_vars

(* Goroutines that can run do run; the ticker keeps firing; a probe and a
   dial return within their time-outs; a select whose ctx.Done case stays
   ready picks it eventually, because Go chooses among ready cases at
   random.  Nothing obliges anyone to call Start or StopBegin, to dial, or a
   target to change state. *)
Fairness ==
    /\ WF_vars(Tick)
    /\ SF_vars(LoopExit)
    /\ WF_vars(RoundDone)
    /\ WF_vars(StopEnd)
    /\ \A t \in Targets : WF_vars(ProbeStep(t))
    /\ \A c \in Conns : WF_vars(DialReturn(c)) /\ WF_vars(MarkDown(c))

FairSpec == Spec /\ Fairness

-----------------------------------------------------------------------------
(* Properties. *)

MaxLimit == IF FailLimit < SuccessLimit THEN SuccessLimit ELSE FailLimit

(* Type invariant of the checker's state.  fails is bounded by the larger
   threshold although a failed dial turns a count of failures into a count of
   successes under the probe's feet. *)
TypeOK ==
    /\ healthy \in [Targets -> BOOLEAN]
    /\ fails \in [Targets -> 0..MaxLimit]
    /\ cancel \in BOOLEAN
    /\ ctxDone \in BOOLEAN
    /\ loop \in {"none", "round", "select"}
    /\ probe \in [Targets -> Probe]
    /\ stopping \in BOOLEAN
    /\ dial \in [Conns -> Dial]
    /\ up \in [Targets -> BOOLEAN]
    /\ okRun \in [Targets -> 0..SuccessLimit]
    /\ failRun \in [Targets -> 0..FailLimit]
    /\ marked \in [Targets -> BOOLEAN]

(* A target that probes took out of rotation comes back only after
   SuccessThreshold consecutive successful probes (health.go:15-17), whatever
   Target.fails held when it went out. *)
RestoredAfterSuccesses ==
    [][\A t \in Targets :
         ~healthy[t] /\ healthy'[t] => marked[t] \/ okRun[t] >= SuccessLimit]_vars

(* A target leaves rotation only after FailThreshold consecutive failed
   probes (health.go:15-17) or because a connection failed to dial it
   (tcp.go:337-341); a count left over from before it was marked down or
   restored never takes it out early. *)
RemovedAfterFailures ==
    [][\A t \in Targets :
         healthy[t] /\ ~healthy'[t] => marked'[t] \/ failRun[t] >= FailLimit]_vars

(* The converse, between rounds: a target that has failed (succeeded) often
   enough in a row is out of (back in) rotation by the time its probe is
   done; the one shared counter never swallows a result. *)
RotationFollowsProbes ==
    \A t \in Targets :
        probe[t].pc \in {"idle", "probing", "done"} /\ ~marked[t] =>
            /\ healthy[t] => failRun[t] < FailLimit
            /\ ~healthy[t] => okRun[t] < SuccessLimit

(* After stop has returned no goroutine of the checker is left: neither the
   loop nor a probe that could still write healthy ("stop ends the probe loop
   and waits for it to exit", health.go:97). *)
StoppedIsQuiet ==
    ~cancel => /\ loop = "none"
               /\ \A t \in Targets : probe[t].pc = "idle"

(* "Without it every target stays in rotation" (health.go:19-20): with Enable
   off no target is ever taken out. *)
StaysInRotation == ~Enable => \A t \in Targets : healthy[t]

(* The checker is running for good. *)
Running == cancel /\ ~ctxDone

(* A target that stays up is eventually in rotation for good, and one that
   stays down is eventually out of it for good, whatever was counted, probed
   or dialled before, as long as the checker keeps running. *)
EventuallyAccurate ==
    \A t \in Targets :
        /\ <>[](Running /\ up[t]) => <>[]healthy[t]
        /\ <>[](Running /\ ~up[t]) => <>[](~healthy[t])

(* stop returns. *)
StopReturns == stopping ~> ~stopping

=============================================================================
