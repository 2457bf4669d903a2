------------------------- MODULE HealthCheckerProofs -------------------------
(***************************************************************************)
(* Proofs about HealthChecker for every pool, every set of connection       *)
(* handlers and every configured pair of thresholds.                        *)
(*                                                                         *)
(* The thresholds are compared with one counter, Target.fails, which counts *)
(* failures of a target in rotation and successes of one that is out of it. *)
(* The inductive invariant says what fails means at every step of a probe   *)
(* (Counted), which needs the target not to have been marked down by a dial *)
(* since the last flip, and how the loop and stop keep two rounds of probes  *)
(* from running at once (OneRound).                                         *)
(***************************************************************************)
EXTENDS HealthChecker, TLAPS

(* The life cycle: a probe exists only during a round, a round only while
   cancel is set, and stop runs only then. *)
OneRound ==
    /\ ~cancel => loop = "none"
    /\ loop # "round" => \A t \in Targets : probe[t].pc = "idle"

(* fails reaches the larger threshold only between Add(1) and the flip. *)
FailsBelow ==
    \A t \in Targets : probe[t].pc # "flip" => fails[t] < MaxLimit

(* The last result is what the ghost runs say it is. *)
RunsMatch(t) ==
    probe[t].pc \in {"returned", "reset", "count", "flip", "done"} =>
        IF probe[t].ok THEN failRun[t] = 0 ELSE okRun[t] = 0

(* What fails counts between probes ... *)
AtRest(t) ==
    probe[t].pc \in {"idle", "probing", "done"} =>
        IF healthy[t] THEN fails[t] = failRun[t] /\ fails[t] < FailLimit
                      ELSE fails[t] = okRun[t] /\ fails[t] < SuccessLimit

(* ... once the result is in and until it has been counted ... *)
InHand(t) ==
    /\ probe[t].pc \in {"returned", "count"} /\ healthy[t] /\ ~probe[t].ok =>
         failRun[t] = fails[t] + 1 /\ fails[t] < FailLimit
    /\ probe[t].pc \in {"returned", "count"} /\ ~healthy[t] /\ probe[t].ok =>
         okRun[t] = fails[t] + 1 /\ fails[t] < SuccessLimit

(* ... and what the branch that was taken knows about healthy. *)
Branch(t) ==
    /\ probe[t].pc = "reset" => probe[t].ok = healthy[t]
    /\ probe[t].pc \in {"count", "flip"} => probe[t].ok # healthy[t]
    /\ probe[t].pc = "flip" =>
         IF probe[t].ok THEN okRun[t] >= SuccessLimit
                        ELSE failRun[t] >= FailLimit

(* The meaning of fails, for a target that no dial has marked down. *)
Counted(t) ==
    /\ RunsMatch(t)
    /\ marked[t] => ~healthy[t]
    /\ ~marked[t] => AtRest(t) /\ InHand(t) /\ Branch(t)

TypeInv == TypeOK /\ OneRound /\ FailsBelow
IInv == TypeInv /\ \A t \in Targets : Counted(t)

-----------------------------------------------------------------------------
(* setDefaults leaves positive thresholds, whatever was configured. *)
LEMMA Limits ==
    /\ FailLimit \in Nat /\ FailLimit > 0
    /\ SuccessLimit \in Nat /\ SuccessLimit > 0
    /\ MaxLimit \in Nat /\ FailLimit <= MaxLimit /\ SuccessLimit <= MaxLimit
BY CheckerAssumption DEF FailLimit, SuccessLimit, MaxLimit

(* The type invariant holds initially. *)
LEMMA TypeInit == Init => TypeInv
<1> SUFFICES ASSUME Init PROVE TypeInv
  OBVIOUS
<1>1. TypeOK
  <2>1. fails \in [Targets -> 0..MaxLimit] /\ okRun \in [Targets -> 0..SuccessLimit]
        /\ failRun \in [Targets -> 0..FailLimit]
    BY Limits DEF Init
  <2>2. probe \in [Targets -> Probe]
    BY DEF Init, Probe, ProbePC
  <2>3. dial \in [Conns -> Dial]
    BY DEF Init, Dial
  <2> QED BY <2>1, <2>2, <2>3 DEF Init, TypeOK
<1>2. OneRound /\ FailsBelow
  BY Limits DEF Init, OneRound, FailsBelow
<1> QED BY <1>1, <1>2 DEF TypeInv

(* Every action of the checker, the handlers and the environment preserves the
   type invariant: fails stays below the larger threshold because rounds of
   probes never overlap. *)
LEMMA TypeStep == TypeInv /\ [Next]_vars => TypeInv'
<1> SUFFICES ASSUME TypeInv, [Next]_vars PROVE TypeInv'
  OBVIOUS
<1> USE Limits DEF TypeInv
<1>1. CASE Start
  BY <1>1 DEF Start, TypeOK, OneRound, FailsBelow, Probe, ProbePC, poolVars, ghostVars
<1>2. CASE StopBegin
  BY <1>2 DEF StopBegin, TypeOK, OneRound, FailsBelow, poolVars, ghostVars
<1>3. CASE StopEnd
  BY <1>3 DEF StopEnd, TypeOK, OneRound, FailsBelow, poolVars, ghostVars
<1>4. CASE Tick
  BY <1>4 DEF Tick, TypeOK, OneRound, FailsBelow, Probe, ProbePC, poolVars, ghostVars
<1>5. CASE LoopExit
  BY <1>5 DEF LoopExit, TypeOK, OneRound, FailsBelow, poolVars, ghostVars
<1>6. CASE RoundDone
  BY <1>6 DEF RoundDone, TypeOK, OneRound, FailsBelow, Probe, ProbePC, poolVars, ghostVars
<1>7. ASSUME NEW t \in Targets, ProbeReturn(t) PROVE TypeInv'
  BY <1>7 DEF ProbeReturn, TypeOK, OneRound, FailsBelow, Probe, ProbePC, CapInc, poolVars, loopVars
<1>8. ASSUME NEW t \in Targets, LoadHealthy(t) PROVE TypeInv'
  BY <1>8 DEF LoadHealthy, TypeOK, OneRound, FailsBelow, Probe, ProbePC, loopVars, ghostVars
<1>9. ASSUME NEW t \in Targets, ResetFails(t) PROVE TypeInv'
  BY <1>9 DEF ResetFails, TypeOK, OneRound, FailsBelow, Probe, ProbePC, loopVars, ghostVars
<1>10. ASSUME NEW t \in Targets, CountResult(t) PROVE TypeInv'
  BY <1>10 DEF CountResult, Limit, TypeOK, OneRound, FailsBelow, Probe, ProbePC, loopVars, ghostVars
<1>11. ASSUME NEW t \in Targets, Flip(t) PROVE TypeInv'
  BY <1>11 DEF Flip, TypeOK, OneRound, FailsBelow, Probe, ProbePC, loopVars
<1>12. ASSUME NEW c \in Conns, NEW t \in Targets, PickDial(c, t) PROVE TypeInv'
  BY <1>12 DEF PickDial, TypeOK, OneRound, FailsBelow, Dial, NoDial, poolVars, loopVars, ghostVars
<1>13. ASSUME NEW c \in Conns, DialReturn(c) PROVE TypeInv'
  BY <1>13 DEF DialReturn, TypeOK, OneRound, FailsBelow, Dial, NoDial, poolVars, loopVars, ghostVars
<1>14. ASSUME NEW c \in Conns, MarkDown(c) PROVE TypeInv'
  BY <1>14 DEF MarkDown, TypeOK, OneRound, FailsBelow, Dial, NoDial, loopVars
<1>15. ASSUME NEW t \in Targets, EnvFlip(t) PROVE TypeInv'
  BY <1>15 DEF EnvFlip, TypeOK, OneRound, FailsBelow, poolVars, loopVars, ghostVars
<1>16. CASE UNCHANGED vars
  BY <1>16 DEF vars, TypeOK, OneRound, FailsBelow
<1> QED
  BY <1>1, <1>2, <1>3, <1>4, <1>5, <1>6, <1>7, <1>8, <1>9, <1>10, <1>11,
     <1>12, <1>13, <1>14, <1>15, <1>16 DEF Next, ProbeStep

(* The type invariant of the checker holds for every pool and every pair of
   thresholds. *)
THEOREM TypeCorrect == Spec => []TypeOK
<1>1. TypeInv => TypeOK
  BY DEF TypeInv
<1> QED BY <1>1, TypeInit, TypeStep, PTL DEF Spec

(* After stop has returned neither the probe loop nor a probe is left, in every
   interleaving of start, stop, the ticker and the probes. *)
THEOREM StopQuiesces == Spec => []StoppedIsQuiet
<1>1. TypeInv => StoppedIsQuiet
  BY DEF TypeInv, OneRound, StoppedIsQuiet
<1> QED BY <1>1, TypeInit, TypeStep, PTL DEF Spec

-----------------------------------------------------------------------------
(* The meaning of fails is established by Init. *)
LEMMA CountedInit == Init => IInv
<1> SUFFICES ASSUME Init PROVE IInv
  OBVIOUS
<1>1. ASSUME NEW t \in Targets PROVE Counted(t)
  BY Limits DEF Init, Counted, RunsMatch, AtRest, InHand, Branch
<1> QED BY <1>1, TypeInit DEF IInv

(* A step that leaves the target's own fields alone leaves their meaning
   alone. *)
LEMMA CountedFrame ==
    ASSUME NEW t \in Targets, Counted(t),
           healthy'[t] = healthy[t], fails'[t] = fails[t],
           probe'[t] = probe[t], okRun'[t] = okRun[t],
           failRun'[t] = failRun[t], marked'[t] = marked[t]
    PROVE  Counted(t)'
BY DEF Counted, RunsMatch, AtRest, InHand, Branch

(* A new round finds the probes at rest. *)
LEMMA CountedRest ==
    ASSUME NEW t \in Targets, Counted(t),
           probe[t].pc \in {"idle", "done"}, probe'[t].pc \in {"idle", "probing"},
           healthy'[t] = healthy[t], fails'[t] = fails[t], okRun'[t] = okRun[t],
           failRun'[t] = failRun[t], marked'[t] = marked[t]
    PROVE  Counted(t)'
BY DEF Counted, RunsMatch, AtRest, InHand, Branch

(* Each action preserves the meaning of fails: the steps of the target's own
   probe move it from one clause to the next, and a failed dial either finds
   the target out of rotation or marks it. *)
LEMMA CountedStep == IInv /\ [Next]_vars => IInv'
<1> SUFFICES ASSUME IInv, [Next]_vars PROVE IInv'
  OBVIOUS
<1> USE DEF IInv
<1>0. TypeInv' /\ TypeOK
  BY TypeStep DEF TypeInv
<1> SUFFICES ASSUME NEW t \in Targets PROVE Counted(t)'
  BY <1>0
<1>a. Counted(t) /\ healthy[t] \in BOOLEAN /\ marked[t] \in BOOLEAN
      /\ probe[t] \in Probe /\ fails[t] \in Nat
      /\ okRun[t] \in 0..SuccessLimit /\ failRun[t] \in 0..FailLimit
  BY <1>0, Limits DEF TypeOK
<1>1. CASE Start \/ Tick
  <2>1. probe[t].pc = "idle"
    BY <1>1 DEF TypeInv, OneRound, Start, Tick
  <2>2. probe'[t].pc = "probing"
    BY <1>1 DEF Start, Tick
  <2> QED BY <1>1, <1>a, <2>1, <2>2, CountedRest DEF Start, Tick, poolVars, ghostVars
<1>2. CASE StopBegin \/ StopEnd \/ LoopExit
  BY <1>2, <1>a, CountedFrame DEF StopBegin, StopEnd, LoopExit, poolVars, ghostVars
<1>3. CASE RoundDone
  <2>1. probe[t].pc = "done" /\ probe'[t].pc = "idle"
    BY <1>3 DEF RoundDone
  <2> QED BY <1>3, <1>a, <2>1, CountedRest DEF RoundDone, poolVars, ghostVars
<1>4. ASSUME NEW u \in Targets, ProbeStep(u), u # t PROVE Counted(t)'
  BY <1>0, <1>4, <1>a, CountedFrame DEF TypeOK, ProbeStep, ProbeReturn, LoadHealthy, ResetFails,
     CountResult, Flip, poolVars, ghostVars
<1>5. CASE ProbeReturn(t)
  <2>1. /\ probe'[t] = [pc |-> "returned", ok |-> up[t]]
        /\ okRun'[t] = IF up[t] THEN CapInc(okRun[t], SuccessLimit) ELSE 0
        /\ failRun'[t] = IF up[t] THEN 0 ELSE CapInc(failRun[t], FailLimit)
        /\ healthy'[t] = healthy[t] /\ fails'[t] = fails[t] /\ marked'[t] = marked[t]
    BY <1>0, <1>5 DEF TypeOK, ProbeReturn, poolVars
  <2>2. probe[t].pc = "probing"
    BY <1>5 DEF ProbeReturn
  <2> QED BY <2>1, <2>2, <1>a, Limits DEF Counted, RunsMatch, AtRest, InHand, Branch, CapInc
<1>6. CASE LoadHealthy(t)
  <2>1. /\ probe'[t].ok = probe[t].ok
        /\ probe'[t].pc = IF probe[t].ok = healthy[t] THEN "reset" ELSE "count"
        /\ healthy'[t] = healthy[t] /\ fails'[t] = fails[t] /\ marked'[t] = marked[t]
        /\ okRun'[t] = okRun[t] /\ failRun'[t] = failRun[t]
    BY <1>0, <1>6 DEF TypeOK, Probe, LoadHealthy, ghostVars
  <2>2. probe[t].pc = "returned"
    BY <1>6 DEF LoadHealthy
  <2> QED BY <2>1, <2>2, <1>a, Limits DEF Counted, RunsMatch, AtRest, InHand, Branch, Probe
<1>7. CASE ResetFails(t)
  <2>1. /\ probe'[t].ok = probe[t].ok /\ probe'[t].pc = "done"
        /\ fails'[t] = 0
        /\ healthy'[t] = healthy[t] /\ marked'[t] = marked[t]
        /\ okRun'[t] = okRun[t] /\ failRun'[t] = failRun[t]
    BY <1>0, <1>7 DEF TypeOK, Probe, ResetFails, ghostVars
  <2>2. probe[t].pc = "reset"
    BY <1>7 DEF ResetFails
  <2> QED BY <2>1, <2>2, <1>a, Limits DEF Counted, RunsMatch, AtRest, InHand, Branch, Probe
<1>8. CASE CountResult(t)
  <2>1. /\ probe'[t].ok = probe[t].ok
        /\ probe'[t].pc = IF fails[t] + 1 >= Limit(probe[t].ok) THEN "flip" ELSE "done"
        /\ fails'[t] = fails[t] + 1
        /\ healthy'[t] = healthy[t] /\ marked'[t] = marked[t]
        /\ okRun'[t] = okRun[t] /\ failRun'[t] = failRun[t]
    BY <1>0, <1>8 DEF TypeOK, Probe, CountResult, ghostVars
  <2>2. probe[t].pc = "count"
    BY <1>8 DEF CountResult
  <2> QED BY <2>1, <2>2, <1>a, Limits DEF Counted, RunsMatch, AtRest, InHand, Branch, Probe, Limit
<1>9. CASE Flip(t)
  <2>1. /\ probe'[t].ok = probe[t].ok /\ probe'[t].pc = "done"
        /\ fails'[t] = 0 /\ healthy'[t] = probe[t].ok /\ ~marked'[t]
        /\ okRun'[t] = okRun[t] /\ failRun'[t] = failRun[t]
    BY <1>0, <1>9 DEF TypeOK, Probe, Flip
  <2>2. probe[t].pc = "flip"
    BY <1>9 DEF Flip
  <2> QED BY <2>1, <2>2, <1>a, Limits DEF Counted, RunsMatch, AtRest, InHand, Branch, Probe
<1>10. ASSUME NEW c \in Conns, NEW u \in Targets, PickDial(c, u) PROVE Counted(t)'
  BY <1>10, <1>a, CountedFrame DEF PickDial, poolVars, ghostVars
<1>11. ASSUME NEW c \in Conns, DialReturn(c) PROVE Counted(t)'
  BY <1>11, <1>a, CountedFrame DEF DialReturn, poolVars, ghostVars
<1>12. ASSUME NEW c \in Conns, MarkDown(c) PROVE Counted(t)'
  <2>1. CASE dial[c].target = t /\ healthy[t]
    <3>1. /\ ~healthy'[t] /\ marked'[t] /\ fails'[t] = fails[t]
          /\ probe'[t] = probe[t] /\ okRun'[t] = okRun[t] /\ failRun'[t] = failRun[t]
      BY <1>0, <1>12, <2>1 DEF TypeOK, MarkDown
    <3> QED BY <3>1, <1>a DEF Counted, RunsMatch, AtRest, InHand, Branch
  <2>2. CASE ~(dial[c].target = t /\ healthy[t])
    BY <1>0, <1>12, <1>a, <2>2, CountedFrame DEF TypeOK, MarkDown
  <2> QED BY <2>1, <2>2
<1>13. ASSUME NEW u \in Targets, EnvFlip(u) PROVE Counted(t)'
  BY <1>13, <1>a, CountedFrame DEF EnvFlip, poolVars, ghostVars
<1>14. CASE UNCHANGED vars
  BY <1>14, <1>a, CountedFrame DEF vars
<1> QED
  BY <1>1, <1>2, <1>3, <1>4, <1>5, <1>6, <1>7, <1>8, <1>9, <1>10, <1>11, <1>12,
     <1>13, <1>14 DEF Next, ProbeStep

(* IInv is an invariant. *)
LEMMA CountedInv == Spec => []IInv
BY CountedInit, CountedStep, PTL DEF Spec

(* The single counter swallows no result: a target whose probe has just failed
   (succeeded) often enough in a row is out of (in) rotation. *)
THEOREM RotationCorrect == Spec => []RotationFollowsProbes
<1>1. IInv => RotationFollowsProbes
  BY Limits DEF IInv, TypeInv, TypeOK, RotationFollowsProbes, Counted, AtRest
<1> QED BY <1>1, CountedInv, PTL

(* Only the target's own flip, or a dial to it, changes healthy. *)
LEMMA HealthyChanges ==
    ASSUME TypeInv, Next, NEW t \in Targets, healthy'[t] # healthy[t]
    PROVE  \/ Flip(t)
           \/ healthy[t] /\ ~healthy'[t] /\ marked'[t]
<1>1. ASSUME NEW u \in Targets, Flip(u), u # t PROVE FALSE
  BY <1>1 DEF TypeInv, TypeOK, Flip
<1>2. ASSUME NEW c \in Conns, MarkDown(c)
      PROVE  healthy[t] /\ ~healthy'[t] /\ marked'[t]
  BY <1>2 DEF TypeInv, TypeOK, MarkDown
<1>3. ASSUME NEW u \in Targets PROVE
        ProbeReturn(u) \/ LoadHealthy(u) \/ ResetFails(u) \/ CountResult(u) \/ EnvFlip(u)
          => FALSE
  BY DEF ProbeReturn, LoadHealthy, ResetFails, CountResult, EnvFlip, poolVars
<1>4. ~(Start \/ StopBegin \/ StopEnd \/ Tick \/ LoopExit \/ RoundDone)
  BY DEF Start, StopBegin, StopEnd, Tick, LoopExit, RoundDone, poolVars
<1>5. ASSUME NEW c \in Conns PROVE /\ ~DialReturn(c)
                                   /\ \A u \in Targets : ~PickDial(c, u)
  BY DEF DialReturn, PickDial, poolVars
<1> QED BY <1>1, <1>2, <1>3, <1>4, <1>5 DEF Next, ProbeStep

(* A target that probes took out returns only after SuccessThreshold successes
   in a row. *)
THEOREM RestoreCorrect == Spec => RestoredAfterSuccesses
<1>1. ASSUME IInv, Next, NEW t \in Targets, ~healthy[t], healthy'[t]
      PROVE  marked[t] \/ okRun[t] >= SuccessLimit
  <2>1. Flip(t)
    BY <1>1, HealthyChanges DEF IInv
  <2>2. probe[t].pc = "flip" /\ probe[t].ok
    BY <1>1, <2>1 DEF Flip, IInv, TypeInv, TypeOK
  <2> QED BY <1>1, <2>2 DEF IInv, Counted, Branch
<1>2. IInv /\ [Next]_vars =>
        [\A t \in Targets :
           ~healthy[t] /\ healthy'[t] => marked[t] \/ okRun[t] >= SuccessLimit]_vars
  BY <1>1
<1> QED BY <1>2, CountedInv, PTL DEF Spec, RestoredAfterSuccesses

(* A target leaves rotation only after FailThreshold failed probes in a row, or
   because a connection failed to dial it. *)
THEOREM RemovalCorrect == Spec => RemovedAfterFailures
<1>1. ASSUME IInv, Next, NEW t \in Targets, healthy[t], ~healthy'[t]
      PROVE  marked'[t] \/ failRun[t] >= FailLimit
  <2>1. CASE Flip(t)
    <3>1. probe[t].pc = "flip" /\ ~probe[t].ok
      BY <1>1, <2>1 DEF Flip, IInv, TypeInv, TypeOK
    <3> QED BY <1>1, <3>1 DEF IInv, Counted, Branch
  <2> QED BY <1>1, <2>1, HealthyChanges DEF IInv
<1>2. IInv /\ [Next]_vars =>
        [\A t \in Targets :
           healthy[t] /\ ~healthy'[t] => marked'[t] \/ failRun[t] >= FailLimit]_vars
  BY <1>1
<1> QED BY <1>2, CountedInv, PTL DEF Spec, RemovedAfterFailures
=============================================================================
