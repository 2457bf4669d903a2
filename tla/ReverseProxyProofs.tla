------------------------- MODULE ReverseProxyProofs -------------------------
(***************************************************************************)
(* Proofs about ReverseProxy for every pool, every weighting, every         *)
(* balancer, every MaxRetries, any finite number of clients and any number  *)
(* of health changes: Target.active is exact, a request goes to each        *)
(* target at most once and to at most MaxRetries others, and round robin    *)
(* gives up only when every healthy target has been tried.                  *)
(*                                                                         *)
(* The bookkeeping is inductive once each call is known to have as many     *)
(* tried targets as attempts behind it, counting the one in flight          *)
(* (Attempts), and Pick is known to return a member of the pool it          *)
(* collected (ChoicesInPool), so that the slot a call gives back is the     *)
(* slot it took (Served).  For round robin, RoundsInv follows the places    *)
(* that the counter has come by in the pick under way.                      *)
(***************************************************************************)
EXTENDS ReverseProxy, WellFoundedInduction, FiniteSetTheorems, SequenceTheorems, TLAPS

CallPC == {"idle", "scan", "choose", "nil", "sent", "pipe", "ok", "failed"}

Call == [pc : CallPC, attempt : 0..MaxRetries, turn : Nat, scan : Nat,
         pool : Seq(Targets), tried : SUBSET Targets,
         target : Targets \cup {NoTarget}, gaveUp : BOOLEAN]

(* The clients that hold a slot of target t. *)
Serving(t) == {r \in Clients : req[r].pc \in {"sent", "pipe"} /\ req[r].target = t}

TypeOK ==
    /\ req \in [Clients -> Call]
    /\ active \in [Targets -> Int]
    /\ counter \in Nat

(* A call has tried one target per attempt it has made. *)
AttemptsOf(call) ==
    /\ IsFiniteSet(call.tried)
    /\ call.pc = "idle" => call.tried = {} /\ call.attempt = 0
    /\ call.pc \in {"scan", "choose", "nil"} => Cardinality(call.tried) = call.attempt
    /\ call.pc \in {"sent", "pipe", "ok"} => Cardinality(call.tried) = call.attempt + 1

(* Pick never indexes past the pool, chooses from a pool that is not empty,
   and a call in flight knows its target. *)
PlaceOf(call) ==
    /\ call.pc = "scan" => call.scan \in 1..Len(Pool)
    /\ call.pc = "choose" => call.pool # <<>>
    /\ call.pc \in {"sent", "pipe"} => call.target \in Targets

Attempts == \A r \in Clients : AttemptsOf(req[r])
Places == \A r \in Clients : PlaceOf(req[r])
Served == \A t \in Targets : active[t] = Cardinality(Serving(t))

Inv == TypeOK /\ Attempts /\ Places /\ Served

-----------------------------------------------------------------------------
(* Facts about the pool and about Pick. *)

LEMMA PoolFacts ==
    /\ Len(Pool) \in Nat
    /\ Pool # <<>> => Len(Pool) \in Nat \ {0}
    /\ \A i \in 1..Len(Pool) : Pool[i] \in Targets
<1>1. Pool \in Seq(Targets)
  BY PoolAssumption
<1>2. Len(Pool) \in Nat
  BY <1>1, LenProperties
<1>3. Pool # <<>> => Len(Pool) \in Nat \ {0}
  BY <1>1, EmptySeq
<1>4. \A i \in 1..Len(Pool) : Pool[i] \in Targets
  BY DEF Targets
<1> QED BY <1>2, <1>3, <1>4

LEMMA ClientsFinite == IsFiniteSet(Clients)
BY PoolAssumption, FS_Union DEF Clients

LEMMA ServingFinite == \A t : IsFiniteSet(Serving(t)) /\ Cardinality(Serving(t)) \in Nat
<1> TAKE t
<1>1. Serving(t) \subseteq Clients
  BY DEF Serving
<1> QED BY <1>1, ClientsFinite, FS_Subset, FS_CardinalityType

(* A remainder is an index below the length. *)
LEMMA Remainder == ASSUME NEW a \in Nat, NEW n \in Nat \ {0} PROVE a % n \in 0..(n - 1)
OBVIOUS

(* A nonempty set of naturals has a least element. *)
LEMMA LeastNatural ==
    ASSUME NEW S \in SUBSET Nat, S # {}
    PROVE  \E m \in S : \A k \in S : m <= k
<1> DEFINE Less == OpToRel(<, Nat)
<1>1. IsWellFoundedOn(Less, Nat)
  BY NatLessThanWellFounded
<1>2. \A x, y \in Nat : <<y, x>> \in Less <=> y < x
  BY DEF OpToRel
<1> HIDE DEF Less
<1>3. PICK m \in S : \A k \in S : <<k, m>> \notin Less
  BY <1>1, WFMin
<1>4. ASSUME NEW k \in S PROVE m <= k
  <2>1. k \in Nat /\ m \in Nat /\ <<k, m>> \notin Less
    BY <1>3
  <2>2. ~(k < m)
    BY <1>2, <2>1
  <2> QED BY <2>1, <2>2
<1> QED BY <1>4

(* LeastConn finds a target: among the targets of the pool some have the
   fewest active requests, and one of those comes first. *)
LEMMA LeastActiveExists ==
    ASSUME NEW pool \in Seq(Targets), pool # <<>>, active \in [Targets -> Nat]
    PROVE  LeastActive(pool) \in 1..Len(pool)
<1> DEFINE I == 1..Len(pool)
           load(i) == active[pool[i]]
           Loads == {load(i) : i \in I}
<1>1. Len(pool) \in Nat \ {0} /\ \A i \in I : pool[i] \in Targets
  BY EmptySeq, ElementOfSeq
<1>2. \A i \in I : load(i) \in Nat
  BY <1>1
<1>3. Loads \in SUBSET Nat /\ Loads # {}
  BY <1>1, <1>2
<1> HIDE DEF Loads
<1>4. PICK m \in Loads : \A k \in Loads : m <= k
  BY <1>3, LeastNatural
<1> USE DEF Loads
<1> DEFINE F == {i \in I : load(i) = m}
<1>5. F \in SUBSET Nat /\ F # {}
  BY <1>1, <1>4
<1> HIDE DEF F
<1>6. PICK i \in F : \A k \in F : i <= k
  BY <1>5, LeastNatural
<1> USE DEF F
<1>7. i \in I /\ load(i) = m
  BY <1>6
<1>8. \A j \in I : load(i) <= load(j)
  BY <1>4, <1>7
<1>9. ASSUME NEW j \in 1..(i - 1) PROVE load(i) < load(j)
  <2>1. j \in I /\ j < i
    BY <1>1, <1>7
  <2>2. j \notin F
    BY <1>6, <2>1, <1>1, <1>7
  <2> QED BY <2>1, <2>2, <1>8, <1>2, <1>7
<1> QED BY <1>7, <1>8, <1>9 DEF LeastActive

(* Whatever the algorithm, Pick returns a target of the pool. *)
LEMMA ChoicesInPool ==
    ASSUME NEW r \in Clients, NEW pool \in Seq(Targets), pool # <<>>,
           active \in [Targets -> Nat], counter \in Nat
    PROVE  Choices(r, pool) \subseteq Targets
<1>1. Len(pool) \in Nat \ {0} /\ \A i \in 1..Len(pool) : pool[i] \in Targets
  BY EmptySeq, ElementOfSeq
<1>2. pool[LeastActive(pool)] \in Targets
  BY <1>1, LeastActiveExists
<1>3. \A a \in Nat : (a % Len(pool)) + 1 \in 1..Len(pool)
  BY <1>1, Remainder
<1>4. Hash[r] \in Nat
  BY PoolAssumption DEF Clients
<1>5. pool[(Hash[r] % Len(pool)) + 1] \in Targets /\ pool[(counter % Len(pool)) + 1] \in Targets
  BY <1>1, <1>3, <1>4
<1> QED BY <1>1, <1>2, <1>5 DEF Choices
-----------------------------------------------------------------------------
(* The invariant. *)

LEMMA InvInit == Init => Inv
<1> SUFFICES ASSUME Init PROVE Inv
  OBVIOUS
<1>1. NewCall \in Call
  <2>1. <<>> \in Seq(Targets)
    BY EmptySeq
  <2> QED BY <2>1, PoolAssumption DEF NewCall, Call, CallPC
<1>2. req \in [Clients -> Call] /\ \A r \in Clients : req[r] = NewCall
  BY <1>1 DEF Init
<1>3. TypeOK
  <2>1. counter \in Nat
    BY PoolAssumption DEF Init
  <2>2. active \in [Targets -> Int]
    BY DEF Init
  <2> QED BY <1>2, <2>1, <2>2 DEF TypeOK
<1>4. Attempts
  <2>1. NewCall.pc = "idle" /\ NewCall.tried = {} /\ NewCall.attempt = 0
    BY DEF NewCall
  <2> QED BY <1>2, <2>1, FS_EmptySet DEF Attempts, AttemptsOf
<1>5. Places
  BY <1>2 DEF Places, PlaceOf, NewCall
<1>6. Served
  <2>1. \A t : Serving(t) = {}
    BY <1>2 DEF Serving, NewCall
  <2> QED BY <2>1, FS_EmptySet DEF Init, Served
<1> QED BY <1>3, <1>4, <1>5, <1>6 DEF Inv

(* Only r's call changes, to a call that is in order. *)
Moves(r, call) ==
    /\ req' = [req EXCEPT ![r] = call]
    /\ call \in Call /\ AttemptsOf(call) /\ PlaceOf(call)

(* Slots follow calls: none taken or given back, one taken, one given back. *)
LEMMA SlotsSame ==
    ASSUME Inv, NEW r \in Clients, NEW call, Moves(r, call),
           req[r].pc \notin {"sent", "pipe"} \/ call.pc \in {"sent", "pipe"},
           call.pc \in {"sent", "pipe"} => /\ req[r].pc \in {"sent", "pipe"}
                                           /\ call.target = req[r].target,
           active' = active
    PROVE  Served'
<1>1. \A t : Serving(t)' = Serving(t)
  BY DEF Serving, Moves, Inv, TypeOK
<1> QED BY <1>1 DEF Served, Inv

LEMMA SlotTaken ==
    ASSUME Inv, NEW r \in Clients, NEW call, Moves(r, call),
           req[r].pc \notin {"sent", "pipe"}, call.pc = "sent",
           active' = [active EXCEPT ![call.target] = @ + 1]
    PROVE  Served'
<1> SUFFICES ASSUME NEW t \in Targets PROVE active'[t] = Cardinality(Serving(t)')
  BY DEF Served
<1>1. IsFiniteSet(Serving(t)) /\ active[t] = Cardinality(Serving(t)) /\ r \notin Serving(t)
  BY ServingFinite DEF Inv, Served, Serving
<1>2. CASE t = call.target
  <2>1. Serving(t)' = Serving(t) \cup {r}
    BY <1>2 DEF Serving, Moves, Inv, TypeOK
  <2>2. active'[t] = active[t] + 1
    BY <1>2 DEF Inv, TypeOK
  <2> QED BY <1>1, <2>1, <2>2, FS_AddElement
<1>3. CASE t # call.target
  <2>1. Serving(t)' = Serving(t)
    BY <1>3 DEF Serving, Moves, Inv, TypeOK
  <2>2. active'[t] = active[t]
    BY <1>3 DEF Inv, TypeOK
  <2> QED BY <1>1, <2>1, <2>2
<1> QED BY <1>2, <1>3

LEMMA SlotGivenBack ==
    ASSUME Inv, NEW r \in Clients, NEW call, Moves(r, call),
           req[r].pc \in {"sent", "pipe"}, call.pc \notin {"sent", "pipe"},
           active' = [active EXCEPT ![req[r].target] = @ - 1]
    PROVE  Served'
<1> SUFFICES ASSUME NEW t \in Targets PROVE active'[t] = Cardinality(Serving(t)')
  BY DEF Served
<1>1. IsFiniteSet(Serving(t)) /\ active[t] = Cardinality(Serving(t))
  BY ServingFinite DEF Inv, Served
<1>2. CASE t = req[r].target
  <2>1. Serving(t)' = Serving(t) \ {r} /\ r \in Serving(t)
    BY <1>2 DEF Serving, Moves, Inv, TypeOK
  <2>2. active'[t] = active[t] - 1
    BY <1>2 DEF Inv, TypeOK
  <2> QED BY <1>1, <2>1, <2>2, FS_RemoveElement
<1>3. CASE t # req[r].target
  <2>1. Serving(t)' = Serving(t)
    BY <1>3 DEF Serving, Moves, Inv, TypeOK
  <2>2. active'[t] = active[t]
    BY <1>3 DEF Inv, TypeOK
  <2> QED BY <1>1, <2>1, <2>2
<1> QED BY <1>2, <1>3

(* A step of one call that keeps its own call in order keeps the invariant. *)
LEMMA MovesInv ==
    ASSUME Inv, NEW r \in Clients, NEW call, Moves(r, call),
           active' \in [Targets -> Int], counter' \in Nat, Served'
    PROVE  Inv'
<1>1. req' \in [Clients -> Call] /\ \A q \in Clients : req'[q] = IF q = r THEN call ELSE req[q]
  BY DEF Moves, Inv, TypeOK
<1>2. TypeOK'
  BY <1>1 DEF TypeOK
<1>3. Attempts'
  BY <1>1 DEF Attempts, Inv, Moves, AttemptsOf
<1>4. Places'
  BY <1>1 DEF Places, Inv, Moves, PlaceOf
<1> QED BY <1>2, <1>3, <1>4 DEF Inv

(* Pick starts over for the same or the next attempt. *)
LEMMA StartPickOK ==
    ASSUME NEW call \in Call
    PROVE  /\ StartPick(call) \in Call
           /\ StartPick(call).pc \in {"scan", "nil"}
           /\ StartPick(call).tried = call.tried
           /\ StartPick(call).attempt = call.attempt
           /\ PlaceOf(StartPick(call))
<1>1. <<>> \in Seq(Targets)
  BY EmptySeq
<1>2. /\ StartPick(call) \in Call
      /\ StartPick(call).pc = IF Pool = <<>> THEN "nil" ELSE "scan"
      /\ StartPick(call).tried = call.tried
      /\ StartPick(call).attempt = call.attempt
      /\ StartPick(call).scan = 1
  BY <1>1 DEF StartPick, Call, CallPC
<1> QED BY <1>2, PoolFacts DEF PlaceOf

(* A turn of Pick, and of pick's loop, yields a call. *)
LEMMA ScannedCall ==
    ASSUME NEW call \in Call, NEW n \in Nat, NEW pool \in Seq(Targets), NEW pc \in CallPC
    PROVE  [call EXCEPT !.scan = n, !.pool = pool, !.pc = pc] \in Call
BY DEF Call

LEMMA TurnedCall ==
    ASSUME NEW call \in Call, NEW n \in Nat
    PROVE  LET next == [call EXCEPT !.turn = n]
           IN  /\ next \in Call /\ next.pc = call.pc /\ next.scan = call.scan
               /\ next.tried = call.tried /\ next.attempt = call.attempt
BY DEF Call

(* One target is looked at. *)
LEMMA ScanInv == ASSUME Inv, NEW r \in Clients, ScanTarget(r) PROVE Inv'
<1> DEFINE t == Pool[req[r].scan]
           copies == [i \in 1..weight(t) |-> t]
           pool == IF healthy[t] THEN req[r].pool \o copies ELSE req[r].pool
           pc == IF req[r].scan < Len(Pool) THEN "scan"
                 ELSE IF pool = <<>> THEN "nil" ELSE "choose"
           n == req[r].scan + 1
           call == [req[r] EXCEPT !.scan = n, !.pool = pool, !.pc = pc]
<1>1. req[r] \in Call /\ req[r].pc = "scan" /\ req[r].scan \in 1..Len(Pool)
  BY DEF ScanTarget, Inv, TypeOK, Places, PlaceOf
<1>2. pool \in Seq(Targets)
  <2>1. t \in Targets /\ weight(t) \in Nat
    BY <1>1, PoolFacts, PoolAssumption DEF weight
  <2>2. copies \in Seq(Targets)
    BY <2>1
  <2>3. req[r].pool \in Seq(Targets)
    BY <1>1 DEF Call
  <2> HIDE DEF copies
  <2> QED BY <2>2, <2>3, ConcatProperties
<1>3. pc \in {"scan", "nil", "choose"} /\ (pc = "scan" => req[r].scan < Len(Pool)) /\ (pc = "choose" => pool # <<>>)
  BY <1>1, PoolFacts
<1>4. req' = [req EXCEPT ![r] = call] /\ active' = active /\ counter' = counter
  BY <1>1, Zenon DEF ScanTarget
<1> HIDE DEF t, copies, pool, pc
<1>5. /\ call \in Call /\ call.pc = pc /\ call.pool = pool /\ call.scan = n
      /\ call.tried = req[r].tried /\ call.attempt = req[r].attempt
  <2>1. pc \in CallPC /\ n \in Nat
    BY <1>1, <1>3 DEF CallPC, Call
  <2> HIDE DEF n
  <2>2. req[r] \in Call
    BY <1>1
  <2>3. pool \in Seq(Targets)
    BY <1>2
  <2>4. call \in Call
    BY <2>1, <2>2, <2>3, ScannedCall
  <2>5. /\ call.pc = pc /\ call.pool = pool /\ call.scan = n
        /\ call.tried = req[r].tried /\ call.attempt = req[r].attempt
    BY <2>2 DEF Call
  <2> QED BY <2>4, <2>5
<1>6. AttemptsOf(call)
  BY <1>1, <1>3, <1>5 DEF AttemptsOf, Inv, Attempts
<1>7. PlaceOf(call)
  BY <1>1, <1>3, <1>5, PoolFacts DEF PlaceOf
<1> HIDE DEF call
<1>8. Moves(r, call)
  BY <1>4, <1>5, <1>6, <1>7 DEF Moves
<1>9. Served'
  BY <1>1, <1>3, <1>4, <1>5, <1>8, SlotsSame
<1> QED BY <1>4, <1>8, <1>9, MovesInv DEF Inv, TypeOK

(* Pick has chosen. *)
LEMMA ChooseInv == ASSUME Inv, NEW r \in Clients, Choose(r) PROVE Inv'
<1>1. /\ req[r] \in Call /\ req[r].pc = "choose" /\ req[r].pool \in Seq(Targets)
      /\ req[r].pool # <<>> /\ req[r].tried \subseteq Targets
      /\ AttemptsOf(req[r])
  BY DEF Choose, Inv, TypeOK, Places, PlaceOf, Attempts, Call
<1>2. counter' \in Nat
  <2>1. counter \in Nat /\ counter' = Advance
    BY DEF Choose, Inv, TypeOK
  <2>2. (counter + 1) % CounterMod \in Nat
    BY <2>1, PoolAssumption, Remainder
  <2> QED BY <2>1, <2>2 DEF Advance
<1>3. active \in [Targets -> Nat]
  BY ServingFinite DEF Inv, TypeOK, Served
<1>4. PICK t \in Choices(r, req[r].pool) :
          IF Accepts(r, t)
          THEN /\ req' = [req EXCEPT
                            ![r] = [@ EXCEPT !.pc = "sent", !.target = t,
                                             !.tried = req[r].tried \cup {t}, !.pool = <<>>,
                                             !.scan = 1, !.turn = 0]]
               /\ active' = [active EXCEPT ![t] = @ + 1]
          ELSE /\ req' = [req EXCEPT
                            ![r] = IF req[r].turn < PickTurns
                                   THEN [StartPick(@) EXCEPT !.turn = req[r].turn + 1]
                                   ELSE [@ EXCEPT !.pc = "nil", !.pool = <<>>]]
               /\ UNCHANGED active
  BY DEF Choose
<1>5. t \in Targets
  BY <1>1, <1>3, <1>4, ChoicesInPool DEF Inv, TypeOK
<1>6. <<>> \in Seq(Targets)
  BY EmptySeq
<1>7. CASE Accepts(r, t)
  <2> DEFINE call == [req[r] EXCEPT !.pc = "sent", !.target = t, !.tried = req[r].tried \cup {t},
                                    !.pool = <<>>, !.scan = 1, !.turn = 0]
  <2>1. req' = [req EXCEPT ![r] = call] /\ active' = [active EXCEPT ![t] = @ + 1]
    BY <1>4, <1>7, Zenon
  <2>2. /\ call \in Call /\ call.pc = "sent" /\ call.target = t
        /\ call.tried = req[r].tried \cup {t} /\ call.attempt = req[r].attempt
    BY <1>1, <1>5, <1>6 DEF Call, CallPC
  <2> HIDE DEF call
  <2>3. AttemptsOf(call)
    <3>1. IsFiniteSet(req[r].tried) /\ t \notin req[r].tried
      BY <1>1, <1>7 DEF Accepts, AttemptsOf
    <3>2. IsFiniteSet(call.tried) /\ Cardinality(call.tried) = Cardinality(req[r].tried) + 1
      <4>1. LET new == req[r].tried \cup {t}
            IN  IsFiniteSet(new) /\ Cardinality(new) = Cardinality(req[r].tried) + 1
        BY <3>1, FS_AddElement
      <4> QED BY <2>2, <4>1
    <3> QED BY <1>1, <2>2, <3>2 DEF AttemptsOf
  <2>4. Moves(r, call)
    BY <1>5, <2>1, <2>2, <2>3 DEF Moves, PlaceOf
  <2>5. Served'
    BY <1>1, <2>1, <2>2, <2>4, SlotTaken
  <2>6. active' \in [Targets -> Int]
    BY <1>5, <2>1 DEF Inv, TypeOK
  <2> QED BY <1>2, <2>4, <2>5, <2>6, MovesInv
<1>8. CASE ~Accepts(r, t)
  <2> DEFINE again == [StartPick(req[r]) EXCEPT !.turn = req[r].turn + 1]
             nil == [req[r] EXCEPT !.pc = "nil", !.pool = <<>>]
             call == IF req[r].turn < PickTurns THEN again ELSE nil
  <2>1. req' = [req EXCEPT ![r] = call] /\ active' = active
    BY <1>4, <1>8, Zenon
  <2>2. /\ again \in Call /\ again.pc = StartPick(req[r]).pc
        /\ again.tried = req[r].tried /\ again.attempt = req[r].attempt
        /\ again.scan = StartPick(req[r]).scan
    <3>1. /\ StartPick(req[r]) \in Call /\ StartPick(req[r]).tried = req[r].tried
          /\ StartPick(req[r]).attempt = req[r].attempt /\ req[r].turn + 1 \in Nat
      BY <1>1, StartPickOK DEF Call
    <3> QED BY <3>1, TurnedCall
  <2>3. nil \in Call /\ nil.pc = "nil" /\ nil.tried = req[r].tried /\ nil.attempt = req[r].attempt
    BY <1>1, <1>6 DEF Call, CallPC
  <2>4. PlaceOf(again) /\ again.pc \in {"scan", "nil"}
    BY <1>1, <2>2, StartPickOK DEF PlaceOf
  <2>5. PlaceOf(nil)
    BY <2>3 DEF PlaceOf
  <2> HIDE DEF again, nil
  <2>6. call \in Call /\ call.pc \in {"scan", "nil"} /\ call.tried = req[r].tried /\ call.attempt = req[r].attempt /\ PlaceOf(call)
    BY <2>2, <2>3, <2>4, <2>5
  <2> HIDE DEF call
  <2>7. Moves(r, call)
    BY <1>1, <2>1, <2>6 DEF Moves, AttemptsOf
  <2>8. Served'
    BY <1>1, <2>1, <2>6, <2>7, SlotsSame
  <2> QED BY <1>2, <2>1, <2>7, <2>8, MovesInv DEF Inv, TypeOK
<1> QED BY <1>7, <1>8

(* The request arrives. *)
LEMMA ArriveInv == ASSUME Inv, NEW r \in Clients, Arrive(r) PROVE Inv'
<1> DEFINE call == StartPick(req[r])
<1>1. req[r] \in Call /\ req[r].pc = "idle" /\ AttemptsOf(req[r])
  BY DEF Arrive, Inv, TypeOK, Attempts
<1>2. req' = [req EXCEPT ![r] = call] /\ active' = active /\ counter' = counter
  BY DEF Arrive
<1>3. /\ call \in Call /\ call.pc \in {"scan", "nil"} /\ PlaceOf(call)
      /\ call.tried = req[r].tried /\ call.attempt = req[r].attempt
  BY <1>1, StartPickOK
<1> HIDE DEF call
<1>4. AttemptsOf(call)
  BY <1>1, <1>3, FS_EmptySet DEF AttemptsOf
<1>5. Moves(r, call)
  BY <1>2, <1>3, <1>4 DEF Moves
<1>6. Served'
  BY <1>1, <1>2, <1>3, <1>5, SlotsSame
<1> QED BY <1>2, <1>5, <1>6, MovesInv DEF Inv, TypeOK

(* pick gave up. *)
LEMMA NoTargetLeftInv == ASSUME Inv, NEW r \in Clients, NoTargetLeft(r) PROVE Inv'
<1> DEFINE call == [req[r] EXCEPT !.pc = "failed", !.gaveUp = TRUE]
<1>1. req[r] \in Call /\ req[r].pc = "nil" /\ AttemptsOf(req[r])
  BY DEF NoTargetLeft, Inv, TypeOK, Attempts
<1>2. req' = [req EXCEPT ![r] = call] /\ active' = active /\ counter' = counter
  BY <1>1 DEF NoTargetLeft, Call, Inv, TypeOK
<1>3. call \in Call /\ call.pc = "failed" /\ call.tried = req[r].tried
  BY <1>1 DEF Call, CallPC
<1> HIDE DEF call
<1>4. Moves(r, call)
  BY <1>1, <1>2, <1>3 DEF Moves, AttemptsOf, PlaceOf
<1>5. Served'
  BY <1>1, <1>2, <1>3, <1>4, SlotsSame
<1> QED BY <1>2, <1>4, <1>5, MovesInv DEF Inv, TypeOK

(* A call in flight moves on without a retry: its slot is kept by the hijack
   and given back by every other outcome. *)
LEMMA OutcomeInv ==
    ASSUME Inv, NEW r \in Clients, NEW pc \in {"pipe", "ok", "failed"},
           req[r].pc \in {"sent", "pipe"},
           req' = [req EXCEPT ![r].pc = pc],
           active' = IF pc = "pipe" THEN active
                     ELSE [active EXCEPT ![req[r].target] = @ - 1],
           counter' = counter
    PROVE  Inv'
<1> DEFINE call == [req[r] EXCEPT !.pc = pc]
<1>1. req[r] \in Call /\ AttemptsOf(req[r]) /\ req[r].target \in Targets
  BY DEF Inv, TypeOK, Attempts, Places, PlaceOf
<1>2. req' = [req EXCEPT ![r] = call]
  BY <1>1 DEF Call, Inv, TypeOK
<1>3. /\ call \in Call /\ call.pc = pc /\ call.tried = req[r].tried
      /\ call.attempt = req[r].attempt /\ call.target = req[r].target
  BY <1>1 DEF Call, CallPC
<1> HIDE DEF call
<1>4. AttemptsOf(call) /\ PlaceOf(call)
  BY <1>1, <1>3 DEF AttemptsOf, PlaceOf
<1>5. Moves(r, call)
  BY <1>2, <1>3, <1>4 DEF Moves
<1>6. Served'
  <2>1. CASE pc = "pipe"
    BY <1>3, <1>5, <2>1, SlotsSame
  <2>2. CASE pc # "pipe"
    BY <1>3, <1>5, <2>2, SlotGivenBack
  <2> QED BY <2>1, <2>2
<1>7. active' \in [Targets -> Int]
  BY <1>1 DEF Inv, TypeOK
<1> QED BY <1>5, <1>6, <1>7, MovesInv DEF Inv, TypeOK

(* DoTimeout failed: the slot is given back, and the next attempt begins. *)
LEMMA TransportErrInv == ASSUME Inv, NEW r \in Clients, TransportErr(r) PROVE Inv'
<1> DEFINE fresh == StartPick(req[r])
           n == req[r].attempt + 1
           retry == [fresh EXCEPT !.attempt = n, !.target = NoTarget]
           failed == [req[r] EXCEPT !.pc = "failed"]
           call == IF req[r].attempt < MaxRetries THEN retry ELSE failed
<1>1. /\ req[r] \in Call /\ req[r].pc = "sent" /\ AttemptsOf(req[r])
      /\ req[r].target \in Targets
  BY DEF TransportErr, Inv, TypeOK, Attempts, Places, PlaceOf
<1>2. /\ req' = [req EXCEPT ![r] = call]
      /\ active' = [active EXCEPT ![req[r].target] = @ - 1] /\ counter' = counter
  BY DEF TransportErr
<1>3. failed \in Call /\ failed.pc = "failed" /\ failed.tried = req[r].tried
  BY <1>1 DEF Call, CallPC
<1>4. AttemptsOf(failed) /\ PlaceOf(failed)
  BY <1>1, <1>3 DEF AttemptsOf, PlaceOf
<1>5. ASSUME req[r].attempt < MaxRetries
      PROVE  retry \in Call /\ AttemptsOf(retry) /\ PlaceOf(retry) /\ retry.pc \in {"scan", "nil"}
  <2>1. n \in 0..MaxRetries /\ req[r].attempt \in Nat
    BY <1>1, <1>5, PoolAssumption DEF Call
  <2>2. fresh \in Call /\ fresh.pc \in {"scan", "nil"} /\ PlaceOf(fresh) /\ fresh.tried = req[r].tried
    BY <1>1, StartPickOK
  <2> HIDE DEF fresh, n
  <2>3. /\ retry \in Call /\ retry.pc = fresh.pc /\ retry.tried = fresh.tried
        /\ retry.attempt = n /\ retry.scan = fresh.scan
    BY <2>1, <2>2 DEF Call
  <2> HIDE DEF retry
  <2>4. PlaceOf(retry)
    BY <2>2, <2>3 DEF PlaceOf
  <2>5. AttemptsOf(retry)
    BY <1>1, <2>2, <2>3 DEF AttemptsOf, n
  <2> QED BY <2>2, <2>3, <2>4, <2>5
<1> HIDE DEF retry, failed
<1>6. call \in Call /\ AttemptsOf(call) /\ PlaceOf(call) /\ call.pc \in {"scan", "nil", "failed"}
  BY <1>3, <1>4, <1>5
<1> HIDE DEF call
<1>7. Moves(r, call)
  BY <1>2, <1>6 DEF Moves
<1>8. Served'
  BY <1>1, <1>2, <1>6, <1>7, SlotGivenBack
<1>9. active' \in [Targets -> Int]
  BY <1>1, <1>2 DEF Inv, TypeOK
<1> QED BY <1>2, <1>7, <1>8, <1>9, MovesInv DEF Inv, TypeOK

(* Every step preserves the invariant. *)
LEMMA InvStep == Inv /\ [Next]_vars => Inv'
<1> SUFFICES ASSUME Inv, [Next]_vars PROVE Inv'
  OBVIOUS
<1>1. CASE UNCHANGED <<req, active, counter>>
  BY <1>1 DEF Inv, TypeOK, Attempts, Places, Served, Serving
<1>2. ASSUME NEW t \in Targets, SetHealth(t) PROVE Inv'
  BY <1>1, <1>2 DEF SetHealth
<1>3. ASSUME NEW r \in Clients, Answer(r) PROVE Inv'
  BY <1>3, OutcomeInv DEF Answer
<1>4. ASSUME NEW r \in Clients, UpgradeDialErr(r) PROVE Inv'
  BY <1>4, OutcomeInv DEF UpgradeDialErr
<1>5. ASSUME NEW r \in Clients, Hijack(r) PROVE Inv'
  BY <1>5, OutcomeInv DEF Hijack
<1>6. ASSUME NEW r \in Clients, HijackReturn(r) PROVE Inv'
  BY <1>6, OutcomeInv DEF HijackReturn
<1>7. CASE UNCHANGED vars
  BY <1>1, <1>7 DEF vars
<1> QED
  BY <1>2, <1>3, <1>4, <1>5, <1>6, <1>7, ScanInv, ChooseInv, NoTargetLeftInv, ArriveInv,
     TransportErrInv DEF Next, CallStep

(* The invariant holds of every reachable state: in particular Pick returns a
   member of the pool, so every slot taken is a slot of a configured target. *)
THEOREM Invariance == Spec => []Inv
<1>1. Init => Inv
  BY InvInit
<1>2. Inv /\ [Next]_vars => Inv'
  BY InvStep
<1> QED BY <1>1, <1>2, PTL DEF Spec

(* Target.active is the number of requests and upgraded connections in flight
   to the target, on every path of Do, doUpgrade and the hijack callback. *)
THEOREM ActiveCorrect == Spec => []ActiveExact
<1>1. Inv => ActiveExact
  BY DEF Inv, Served, Serving, ActiveExact
<1> QED BY <1>1, Invariance, PTL

(* Do sends a request to a target at most once, and to at most MaxRetries
   targets after the first. *)
THEOREM RetriesCorrect == Spec => []OncePerTarget
<1>1. Inv => OncePerTarget
  <2> SUFFICES ASSUME Inv, NEW r \in Requests, req[r].pc \in {"sent", "ok"}
               PROVE  Cardinality(req[r].tried) = req[r].attempt + 1 /\ req[r].attempt <= MaxRetries
    BY DEF OncePerTarget
  <2>1. req[r] \in Call /\ AttemptsOf(req[r])
    BY DEF Inv, TypeOK, Attempts, Clients
  <2> QED BY <2>1, PoolAssumption DEF Call, AttemptsOf
<1> QED BY <1>1, Invariance, PTL

-----------------------------------------------------------------------------
(* Round robin.  Among k healthy targets Pick takes the places counter % k, one
   after the other, so that what pick has refused is an interval of places that
   ends at the latest one.  Where the counter wraps the place jumps to 0, and
   CounterMod % k of the places behind it no longer follow on. *)

LatestOf(c, k) == (IF c = 0 THEN CounterMod - 1 ELSE c - 1) % k

(* How many places q is behind the latest one, going round. *)
Behind(c, k, q) ==
    IF q <= LatestOf(c, k) THEN LatestOf(c, k) - q ELSE LatestOf(c, k) + k - q

(* After n turns of which the last brought the counter to c: the length of the
   interval that has certainly been refused. *)
Reach(c, k, n) == IF c \in 1..(n - 1) THEN n - (CounterMod % k) ELSE n

LEMMA SumRemainder ==
    ASSUME NEW q \in Int, NEW k \in Int, NEW r \in 0..(k - 1)
    PROVE  (k * q + r) % k = r
OBVIOUS

LEMMA NextRemainder ==
    ASSUME NEW a \in Int, NEW k \in Int, k > 0
    PROVE  (a + 1) % k = IF a % k = k - 1 THEN 0 ELSE (a % k) + 1
<1> DEFINE q == a \div k
           r == a % k
<1>1. q \in Int /\ r \in 0..(k - 1)
  OBVIOUS
<1>2. a = k * q + r
  OBVIOUS
<1> HIDE DEF q, r
<1>3. CASE r = k - 1
  <2>1. a + 1 = k * (q + 1) + 0
    <3>1. k * (q + 1) = k * q + k
      BY <1>1
    <3> DEFINE x == k * q
    <3>2. x \in Int
      BY <1>1
    <3> HIDE DEF x
    <3> QED BY <1>2, <1>3, <3>1, <3>2 DEF x
  <2>2. (k * (q + 1) + 0) % k = 0
    BY <1>1, SumRemainder
  <2> QED BY <1>3, <2>1, <2>2 DEF r
<1>4. CASE r # k - 1
  <2>1. a + 1 = k * q + (r + 1) /\ r + 1 \in 0..(k - 1)
    BY <1>1, <1>2, <1>4
  <2>2. (k * q + (r + 1)) % k = r + 1
    BY <1>1, <2>1, SumRemainder
  <2> QED BY <1>4, <2>1, <2>2 DEF r
<1> QED BY <1>3, <1>4

LEMMA LatestRange ==
    ASSUME NEW k \in Nat \ {0}, NEW c \in 0..(CounterMod - 1)
    PROVE  LatestOf(c, k) \in 0..(k - 1)
<1> DEFINE a == IF c = 0 THEN CounterMod - 1 ELSE c - 1
<1>1. a \in Nat
  BY PoolAssumption
<1>2. LatestOf(c, k) = a % k
  BY DEF LatestOf
<1> HIDE DEF a
<1> QED BY <1>1, <1>2, Remainder

(* The interval grows by the place just taken and by no other. *)
LEMMA OneMore ==
    ASSUME CounterMod > Len(Pool), NEW k \in 1..Len(Pool), NEW n \in 0..Len(Pool),
           NEW c \in 0..(CounterMod - 1), NEW d, d = (c + 1) % CounterMod,
           NEW q \in 0..(k - 1), q # c % k, Behind(d, k, q) < Reach(d, k, n + 1)
    PROVE  Behind(c, k, q) < Reach(c, k, n)
<1>1. /\ CounterMod \in Nat /\ CounterMod > 1 /\ Len(Pool) \in Nat
      /\ k \in Nat \ {0} /\ n \in Nat /\ c \in Nat /\ q \in Nat
  BY PoolFacts, PoolAssumption
<1>2. d = IF c = CounterMod - 1 THEN 0 ELSE c + 1
  <2>1. c % CounterMod = c
    BY <1>1
  <2> QED BY <1>1, <2>1, NextRemainder
<1>3. LatestOf(d, k) = c % k
  BY <1>1, <1>2 DEF LatestOf
<1> DEFINE p == LatestOf(c, k)
           m == CounterMod % k
           e == c % k
<1>4. p \in 0..(k - 1) /\ m \in 0..(k - 1) /\ e \in 0..(k - 1) /\ q # e
  BY <1>1, LatestRange, Remainder
<1>5. CASE c = 0
  <2>1. e = 0 /\ d = 1
    BY <1>1, <1>2, <1>5
  <2>2. m = IF p = k - 1 THEN 0 ELSE p + 1
    <3>1. p = (CounterMod - 1) % k
      BY <1>5 DEF LatestOf
    <3>2. ((CounterMod - 1) + 1) % k = IF (CounterMod - 1) % k = k - 1 THEN 0 ELSE ((CounterMod - 1) % k) + 1
      BY <1>1, NextRemainder
    <3>3. (CounterMod - 1) + 1 = CounterMod
      BY <1>1
    <3> QED BY <3>1, <3>2, <3>3
  <2>3. Behind(d, k, q) = k - q
    BY <1>3, <2>1 DEF Behind
  <2>4. Reach(c, k, n) = n
    BY <1>5 DEF Reach
  <2>5. Reach(d, k, n + 1) = IF n >= 1 THEN n + 1 - m ELSE n + 1
    BY <1>1, <2>1 DEF Reach
  <2>6. Behind(c, k, q) = IF q <= p THEN p - q ELSE p + k - q
    BY DEF Behind
  <2> HIDE DEF p, m, e
  <2> QED BY <1>1, <1>4, <2>1, <2>2, <2>3, <2>4, <2>5, <2>6
<1>6. CASE c # 0
  <2>1. e = IF p = k - 1 THEN 0 ELSE p + 1
    <3>1. p = (c - 1) % k
      BY <1>6 DEF LatestOf
    <3>2. ((c - 1) + 1) % k = IF (c - 1) % k = k - 1 THEN 0 ELSE ((c - 1) % k) + 1
      BY <1>1, NextRemainder
    <3>3. (c - 1) + 1 = c
      BY <1>1
    <3> QED BY <3>1, <3>2, <3>3
  <2>2. Reach(d, k, n + 1) = Reach(c, k, n) + 1 /\ Reach(c, k, n) \in Int
    <3>1. m \in Int
      BY <1>4
    <3> HIDE DEF m
    <3>2. Reach(d, k, n + 1) = IF d \in 1..n THEN n + 1 - m ELSE n + 1
      BY <1>1 DEF Reach, m
    <3>3. Reach(c, k, n) = IF c \in 1..(n - 1) THEN n - m ELSE n
      BY DEF Reach, m
    <3>4. d \in 1..n <=> c \in 1..(n - 1)
      BY <1>1, <1>2, <1>6
    <3> QED BY <3>1, <3>2, <3>3, <3>4
  <2>3. Behind(d, k, q) = IF q <= e THEN e - q ELSE e + k - q
    BY <1>3 DEF Behind
  <2>4. Behind(c, k, q) = IF q <= p THEN p - q ELSE p + k - q
    BY DEF Behind
  <2> HIDE DEF p, m, e
  <2> QED BY <1>1, <1>4, <2>1, <2>2, <2>3, <2>4
<1> QED BY <1>5, <1>6

(* Nothing has been refused before the first turn; after the last, everything. *)
LEMMA BehindRange ==
    ASSUME NEW k \in 1..Len(Pool), NEW c \in 0..(CounterMod - 1), NEW q \in 0..(k - 1)
    PROVE  Behind(c, k, q) \in 0..(k - 1)
<1>1. k \in Nat \ {0}
  BY PoolFacts
<1>2. LatestOf(c, k) \in 0..(k - 1)
  BY <1>1, LatestRange
<1> QED BY <1>1, <1>2 DEF Behind

LEMMA AllTurns ==
    ASSUME EvenPool, NEW k \in 1..Len(Pool), NEW c \in 0..(CounterMod - 1),
           NEW q \in 0..(k - 1)
    PROVE  Behind(c, k, q) < Reach(c, k, Len(Pool) + 1)
<1>1. Len(Pool) \in Nat /\ CounterMod % k \in Nat /\ k + (CounterMod % k) <= Len(Pool) + 1
  BY PoolFacts, PoolAssumption, Remainder DEF EvenPool
<1>2. Reach(c, k, Len(Pool) + 1) >= k
  BY <1>1 DEF Reach
<1>3. Reach(c, k, Len(Pool) + 1) \in Int
  BY <1>1 DEF Reach
<1> QED BY <1>2, <1>3, BehindRange

-----------------------------------------------------------------------------
(* The places.  Rank(i) is the number of healthy targets among the first i, and
   Rank(i) - 1 the place of target i, if it is healthy. *)

Rank(i) == Cardinality({j \in 1..i : healthy[Pool[j]]})
Total == Rank(Len(Pool))

LEMMA RankFacts ==
    /\ Rank(0) = 0
    /\ \A i \in Nat : Rank(i) \in 0..i
    /\ \A i \in Nat \ {0} : Rank(i) = IF healthy[Pool[i]] THEN Rank(i - 1) + 1 ELSE Rank(i - 1)
    /\ \A i, j \in Nat : i <= j => Rank(i) <= Rank(j)
<1> DEFINE S(i) == {j \in 1..i : healthy[Pool[j]]}
<1>1. \A i \in Nat : Rank(i) = Cardinality(S(i))
  BY DEF Rank
<1>2. \A i, j \in Nat : i <= j => S(i) \subseteq S(j)
  OBVIOUS
<1>3. S(0) = {}
  OBVIOUS
<1>4. \A i \in Nat \ {0} : /\ S(i) = IF healthy[Pool[i]] THEN S(i - 1) \cup {i} ELSE S(i - 1)
                           /\ i \notin S(i - 1)
  OBVIOUS
<1>5. \A i \in Nat : S(i) \subseteq 1..i
  OBVIOUS
<1> HIDE DEF S
<1>6. ASSUME NEW i \in Nat PROVE IsFiniteSet(S(i)) /\ Cardinality(S(i)) \in 0..i
  <2>1. IsFiniteSet(1..i) /\ Cardinality(1..i) = i
    BY FS_Interval
  <2>2. IsFiniteSet(S(i)) /\ Cardinality(S(i)) <= Cardinality(1..i)
    BY <1>5, <2>1, FS_Subset
  <2> QED BY <2>1, <2>2, FS_CardinalityType
<1>7. ASSUME NEW i \in Nat, NEW j \in Nat, i <= j PROVE Cardinality(S(i)) <= Cardinality(S(j))
  BY <1>2, <1>6, <1>7, FS_Subset
<1>8. ASSUME NEW i \in Nat \ {0}
      PROVE  Rank(i) = IF healthy[Pool[i]] THEN Rank(i - 1) + 1 ELSE Rank(i - 1)
  <2>1. i - 1 \in Nat /\ IsFiniteSet(S(i - 1)) /\ i \notin S(i - 1)
    BY <1>4, <1>6
  <2>2. Cardinality(S(i - 1) \cup {i}) = Cardinality(S(i - 1)) + 1
    BY <2>1, FS_AddElement
  <2> QED BY <1>1, <1>4, <2>1, <2>2
<1> QED BY <1>1, <1>3, <1>6, <1>7, <1>8, FS_EmptySet

(* The place of a healthy target. *)
LEMMA PlaceFacts ==
    ASSUME NEW i \in 1..Len(Pool), healthy[Pool[i]]
    PROVE  Total \in 1..Len(Pool) /\ Rank(i) \in 1..Total /\ Rank(i) - 1 \in 0..(Total - 1)
<1>1. i \in Nat \ {0} /\ i - 1 \in Nat /\ i <= Len(Pool) /\ Len(Pool) \in Nat
  BY PoolFacts
<1>2. Rank(i) = Rank(i - 1) + 1 /\ Rank(i - 1) \in Nat
  BY <1>1, RankFacts
<1>3. Rank(i) <= Total /\ Total \in 0..Len(Pool)
  BY <1>1, RankFacts DEF Total
<1> QED BY <1>1, <1>2, <1>3

-----------------------------------------------------------------------------
(* Calls whose pick nobody has disturbed. *)

(* Pick has collected the healthy targets it has looked at, each at its place. *)
ScannedOf(call) ==
    call.pc \in {"scan", "choose"} =>
        /\ call.scan \in 1..(Len(Pool) + 1)
        /\ call.pc = "choose" => call.scan = Len(Pool) + 1
        /\ Len(call.pool) = Rank(call.scan - 1)
        /\ \A i \in 1..(call.scan - 1) :
              healthy[Pool[i]] => call.pool[Rank(i)] = Pool[i]

(* What round robin has come by in this pick has been tried before. *)
RefusedOf(call) ==
    call.pc \in {"scan", "choose"} =>
        \A i \in 1..Len(Pool) :
            /\ healthy[Pool[i]]
            /\ Behind(counter, Total, Rank(i) - 1) < Reach(counter, Total, call.turn)
            => Pool[i] \in call.tried

ExhaustedOf(call) ==
    call.pc = "nil" =>
        \A i \in 1..Len(Pool) : healthy[Pool[i]] => Pool[i] \in call.tried

InOrder(call) == ScannedOf(call) /\ RefusedOf(call) /\ ExhaustedOf(call)

TurnOf(call) ==
    /\ call.turn \in 0..Len(Pool)
    /\ call.pc \in {"idle", "sent"} => call.turn = 0

RoundsInv ==
    /\ healthy \in [Targets -> BOOLEAN] /\ disturbed \in [Clients -> BOOLEAN]
    /\ counter < CounterMod
    /\ \A r \in Clients : TurnOf(req[r])
    /\ algo = "RoundRobin" /\ EvenPool =>
           \A r \in Clients : ~disturbed[r] => InOrder(req[r])

(* A call stays in order while nobody moves the counter or the pool, and one
   that is not in pick is always in order. *)
LEMMA RankKept == ASSUME healthy' = healthy PROVE (\A i : Rank(i)' = Rank(i)) /\ Total' = Total
BY DEF Rank, Total

LEMMA InOrderKept ==
    ASSUME UNCHANGED <<healthy, counter>>, NEW q, NEW call, req'[q] = call, InOrder(call)
    PROVE  InOrder(req[q])'
<1>1. (\A i : Rank(i)' = Rank(i)) /\ Total' = Total
  BY RankKept
<1>2. ScannedOf(req[q])'
  BY <1>1 DEF InOrder, ScannedOf
<1>3. RefusedOf(req[q])'
  BY <1>1 DEF InOrder, RefusedOf
<1>4. ExhaustedOf(req[q])'
  BY DEF InOrder, ExhaustedOf
<1> QED BY <1>2, <1>3, <1>4 DEF InOrder

LEMMA NotInPick ==
    ASSUME NEW q, req'[q].pc \notin {"scan", "choose", "nil"}
    PROVE  InOrder(req[q])'
BY DEF InOrder, ScannedOf, RefusedOf, ExhaustedOf

(* A step of r leaves the other calls in order, or disturbs them. *)
LEMMA OneStep ==
    ASSUME Inv, RoundsInv, NEW r \in Clients, NEW call,
           req' = [req EXCEPT ![r] = call], TurnOf(call),
           algo' = algo, healthy' = healthy, counter' < CounterMod,
           disturbed' \in [Clients -> BOOLEAN],
           \A q \in Clients \ {r} :
               ~disturbed'[q] => ~disturbed[q] /\ (InPick(q) => counter' = counter),
           algo = "RoundRobin" /\ EvenPool /\ ~disturbed'[r] => InOrder(req[r])'
    PROVE  RoundsInv'
<1>1. \A q \in Clients : req'[q] = IF q = r THEN call ELSE req[q]
  BY DEF Inv, TypeOK
<1>2. ASSUME NEW q \in Clients PROVE TurnOf(req[q])'
  BY <1>1 DEF RoundsInv, TurnOf
<1>3. ASSUME algo = "RoundRobin", EvenPool, NEW q \in Clients, q # r, ~disturbed'[q]
      PROVE  InOrder(req[q])'
  <2>1. req'[q] = req[q] /\ InOrder(req[q]) /\ (InPick(q) => counter' = counter)
    BY <1>1, <1>3 DEF RoundsInv
  <2>2. CASE InPick(q)
    BY <2>1, <2>2, InOrderKept
  <2>3. CASE ~InPick(q)
    BY <2>1, <2>3, NotInPick DEF InPick
  <2> QED BY <2>2, <2>3
<1>4. EvenPool' <=> EvenPool
  BY DEF EvenPool, weight
<1>5. algo' = "RoundRobin" /\ EvenPool' =>
          \A q \in Clients : ~disturbed'[q] => InOrder(req[q])'
  BY <1>3, <1>4
<1> QED BY <1>2, <1>5 DEF RoundsInv

(* A pick begins: nothing is collected and nothing has been refused in it. *)
LEMMA BeginInOrder ==
    ASSUME healthy \in [Targets -> BOOLEAN], counter \in 0..(CounterMod - 1), NEW call,
           call.pc = IF Pool = <<>> THEN "nil" ELSE "scan",
           call.scan = 1, call.pool = <<>>, call.turn = 0
    PROVE  InOrder(call)
<1>1. ScannedOf(call)
  BY RankFacts, PoolFacts DEF ScannedOf
<1>2. RefusedOf(call)
  <2> SUFFICES ASSUME NEW i \in 1..Len(Pool), healthy[Pool[i]]
               PROVE  ~(Behind(counter, Total, Rank(i) - 1) < Reach(counter, Total, 0))
    BY DEF RefusedOf
  <2>1. Reach(counter, Total, 0) = 0
    BY DEF Reach
  <2>2. Behind(counter, Total, Rank(i) - 1) \in Nat
    <3>1. Total \in 1..Len(Pool) /\ Rank(i) - 1 \in 0..(Total - 1)
      BY PlaceFacts
    <3>2. Behind(counter, Total, Rank(i) - 1) \in 0..(Total - 1)
      BY <3>1, BehindRange
    <3> QED BY <3>1, <3>2
  <2> QED BY <2>1, <2>2
<1>3. ExhaustedOf(call)
  BY DEF ExhaustedOf
<1> QED BY <1>1, <1>2, <1>3 DEF InOrder

LEMMA StartPickIs ==
    ASSUME NEW call \in Call
    PROVE  /\ StartPick(call).pc = IF Pool = <<>> THEN "nil" ELSE "scan"
           /\ StartPick(call).scan = 1 /\ StartPick(call).pool = <<>>
           /\ StartPick(call).turn = call.turn /\ StartPick(call).tried = call.tried
BY DEF StartPick, Call

(* One target is looked at: if healthy it takes the next place. *)
LEMMA ScanRounds == ASSUME Inv, RoundsInv, NEW r \in Clients, ScanTarget(r) PROVE RoundsInv'
<1> DEFINE n == req[r].scan
           t == Pool[n]
           copies == [i \in 1..weight(t) |-> t]
           old == req[r].pool
           pool == IF healthy[t] THEN old \o copies ELSE old
           pc == IF n < Len(Pool) THEN "scan" ELSE IF pool = <<>> THEN "nil" ELSE "choose"
           call == [req[r] EXCEPT !.scan = n + 1, !.pool = pool, !.pc = pc]
<1>1. /\ req[r] \in Call /\ req[r].pc = "scan" /\ n \in 1..Len(Pool)
      /\ old \in Seq(Targets) /\ Len(Pool) \in Nat
      /\ n \in Nat \ {0} /\ n - 1 \in Nat /\ Len(old) \in Nat
  BY PoolFacts DEF ScanTarget, Inv, TypeOK, Places, PlaceOf, Call
<1>2. /\ req' = [req EXCEPT ![r] = call]
      /\ UNCHANGED <<algo, healthy, counter, disturbed>>
  BY <1>1, Zenon DEF ScanTarget
<1> HIDE DEF pool
<1>3. /\ pc \in {"scan", "nil", "choose"}
      /\ pc = "scan" => n < Len(Pool)
      /\ pc # "scan" => ~(n < Len(Pool))
      /\ pc = "nil" => pool = <<>>
  OBVIOUS
<1> HIDE DEF pc
<1>4. /\ call.pc = pc /\ call.pool = pool /\ call.scan = n + 1
      /\ call.tried = req[r].tried /\ call.turn = req[r].turn
  BY <1>1 DEF Call
<1> HIDE DEF call
<1>5. TurnOf(call)
  BY <1>1, <1>3, <1>4 DEF TurnOf, RoundsInv
<1>6. ASSUME algo = "RoundRobin", EvenPool, ~disturbed[r] PROVE InOrder(call)
  <2>1. InOrder(req[r])
    BY <1>6 DEF RoundsInv
  <2>2. /\ Len(old) = Rank(n - 1)
        /\ \A i \in 1..(n - 1) : healthy[Pool[i]] => old[Rank(i)] = Pool[i]
    BY <1>1, <2>1 DEF InOrder, ScannedOf
  <2>3. \A i \in 1..n : /\ i \in Nat \ {0} /\ Rank(i) \in Nat /\ Rank(i - 1) \in Nat
                        /\ healthy[Pool[i]] => Rank(i) >= 1
                        /\ i # n => Rank(i) <= Rank(n - 1)
    <3>1. ASSUME NEW i \in 1..n
          PROVE  /\ i \in Nat \ {0} /\ Rank(i) \in Nat /\ Rank(i - 1) \in Nat
                 /\ healthy[Pool[i]] => Rank(i) >= 1
                 /\ i # n => Rank(i) <= Rank(n - 1)
      <4>1. i \in Nat \ {0} /\ i - 1 \in Nat /\ n - 1 \in Nat /\ (i # n => i <= n - 1)
        BY <1>1
      <4>2. Rank(i) \in Nat /\ Rank(i - 1) \in Nat
        BY <4>1, RankFacts
      <4>3. Rank(i) = IF healthy[Pool[i]] THEN Rank(i - 1) + 1 ELSE Rank(i - 1)
        BY <4>1, RankFacts
      <4>4. i # n => Rank(i) <= Rank(n - 1)
        BY <4>1, RankFacts
      <4> QED BY <4>1, <4>2, <4>3, <4>4
    <3> QED BY <3>1
  <2>4. Rank(n) = IF healthy[t] THEN Rank(n - 1) + 1 ELSE Rank(n - 1)
    BY <1>1, RankFacts
  <2>5. /\ Len(pool) = Rank(n)
        /\ \A i \in 1..n : healthy[Pool[i]] => pool[Rank(i)] = Pool[i]
    <3>1. CASE healthy[t]
      <4>1. t \in Targets /\ weight(t) = 1
        BY <1>1, <1>6, PoolFacts DEF EvenPool
      <4>2. copies \in Seq(Targets) /\ Len(copies) = 1 /\ copies[1] = t
        BY <4>1
      <4>3. pool = old \o copies
        BY <3>1 DEF pool
      <4> HIDE DEF copies, old, n
      <4>4. /\ Len(pool) = Len(old) + 1
            /\ \A x \in 1..(Len(old) + 1) :
                  pool[x] = IF x <= Len(old) THEN old[x] ELSE copies[x - Len(old)]
        <5>1. /\ Len(old \o copies) = Len(old) + Len(copies)
              /\ \A x \in 1..(Len(old) + Len(copies)) :
                    (old \o copies)[x] = IF x <= Len(old) THEN old[x] ELSE copies[x - Len(old)]
          BY <1>1, <4>2, ConcatProperties
        <5> QED BY <4>2, <4>3, <5>1
      <4>5. ASSUME NEW i \in 1..n, healthy[Pool[i]] PROVE pool[Rank(i)] = Pool[i]
        <5>1. CASE i = n
          <6>1. Rank(i) = Len(old) + 1 /\ Len(old) \in Nat
            BY <1>1, <2>2, <2>4, <3>1, <5>1
          <6>2. pool[Rank(i)] = copies[1]
            BY <4>4, <6>1
          <6> QED BY <4>2, <5>1, <6>2
        <5>2. CASE i # n
          <6>1. i \in 1..(n - 1) /\ Rank(i) \in 1..Len(old)
            BY <1>1, <2>2, <2>3, <4>5, <5>2
          <6>2. old[Rank(i)] = Pool[i] /\ pool[Rank(i)] = old[Rank(i)]
            BY <1>1, <2>2, <4>4, <4>5, <6>1
          <6> QED BY <6>2
        <5> QED BY <5>1, <5>2
      <4> QED BY <2>2, <2>4, <3>1, <4>4, <4>5
    <3>2. CASE ~healthy[t]
      <4>1. pool = old
        BY <3>2 DEF pool
      <4> QED BY <1>1, <2>2, <2>4, <3>2, <4>1
    <3> QED BY <3>1, <3>2
  <2>6. ScannedOf(call)
    BY <1>1, <1>3, <1>4, <2>5 DEF ScannedOf
  <2>7. RefusedOf(call)
    BY <1>1, <1>4, <2>1 DEF InOrder, RefusedOf
  <2>8. ExhaustedOf(call)
    <3> SUFFICES ASSUME pc = "nil", NEW i \in 1..Len(Pool), healthy[Pool[i]] PROVE FALSE
      BY <1>4 DEF ExhaustedOf
    <3>1. Len(pool) = 0 /\ n = Len(Pool)
      BY <1>1, <1>3
    <3>2. Rank(i) \in 1..Total /\ Total = 0
      BY <2>5, <3>1, PlaceFacts DEF Total
    <3> QED BY <3>2
  <2> QED BY <2>6, <2>7, <2>8 DEF InOrder
<1>7. req'[r] = call
  BY <1>2 DEF Inv, TypeOK
<1>8. algo = "RoundRobin" /\ EvenPool /\ ~disturbed'[r] => InOrder(req[r])'
  BY <1>2, <1>6, <1>7, InOrderKept
<1> QED BY <1>2, <1>5, <1>8, OneStep DEF RoundsInv

(* A turn of pick: the target is used, or has been tried, and the place it has
   joins the interval. *)
LEMMA ChooseRounds == ASSUME Inv, RoundsInv, NEW r \in Clients, Choose(r) PROVE RoundsInv'
<1>1. /\ req[r] \in Call /\ req[r].pc = "choose" /\ req[r].pool \in Seq(Targets)
      /\ req[r].pool # <<>> /\ Len(Pool) \in Nat /\ CounterMod \in Nat \ {0}
      /\ counter \in 0..(CounterMod - 1) /\ req[r].turn \in 0..Len(Pool)
  BY PoolFacts, PoolAssumption
  DEF Choose, Inv, TypeOK, Places, PlaceOf, Call, RoundsInv, TurnOf
<1>2. /\ algo' = algo /\ healthy' = healthy /\ counter' = Advance
      /\ disturbed' = [q \in Clients |-> disturbed[q] \/ (q # r /\ InPick(q))]
  BY DEF Choose, DisturbOthers
<1>3. counter' < CounterMod
  <2>1. counter + 1 \in Nat
    BY <1>1
  <2>2. (counter + 1) % CounterMod \in 0..(CounterMod - 1)
    BY <1>1, <2>1, Remainder
  <2> QED BY <1>1, <1>2, <2>2 DEF Advance
<1>4. /\ disturbed' \in [Clients -> BOOLEAN]
      /\ \A q \in Clients \ {r} : ~disturbed'[q] => ~disturbed[q] /\ ~InPick(q)
      /\ ~disturbed'[r] => ~disturbed[r]
  BY <1>2 DEF RoundsInv, InPick
<1>5. PICK t \in Choices(r, req[r].pool) :
          IF Accepts(r, t)
          THEN req' = [req EXCEPT
                         ![r] = [@ EXCEPT !.pc = "sent", !.target = t,
                                          !.tried = req[r].tried \cup {t}, !.pool = <<>>,
                                          !.scan = 1, !.turn = 0]]
          ELSE req' = [req EXCEPT
                         ![r] = IF req[r].turn < PickTurns
                                THEN [StartPick(@) EXCEPT !.turn = req[r].turn + 1]
                                ELSE [@ EXCEPT !.pc = "nil", !.pool = <<>>]]
  BY DEF Choose
<1>6. CASE Accepts(r, t)
  <2> DEFINE call == [req[r] EXCEPT !.pc = "sent", !.target = t,
                                    !.tried = req[r].tried \cup {t}, !.pool = <<>>,
                                    !.scan = 1, !.turn = 0]
  <2>1. req' = [req EXCEPT ![r] = call]
    BY <1>5, <1>6, Zenon
  <2>2. call.pc = "sent" /\ call.turn = 0
    BY <1>1 DEF Call
  <2> HIDE DEF call
  <2>3. TurnOf(call)
    BY <1>1, <2>2 DEF TurnOf
  <2>4. req'[r] = call
    BY <2>1 DEF Inv, TypeOK
  <2>5. InOrder(req[r])'
    BY <2>2, <2>4, NotInPick
  <2> QED BY <1>2, <1>3, <1>4, <2>1, <2>3, <2>5, OneStep
<1>7. CASE ~Accepts(r, t)
  <2> DEFINE j == req[r].turn
             start == StartPick(req[r])
             again == [start EXCEPT !.turn = j + 1]
             nil == [req[r] EXCEPT !.pc = "nil", !.pool = <<>>]
             call == IF j < PickTurns THEN again ELSE nil
  <2>1. req' = [req EXCEPT ![r] = call]
    BY <1>5, <1>7, Zenon
  <2>2. /\ nil.pc = "nil" /\ nil.tried = req[r].tried /\ nil.turn = j
    BY <1>1 DEF Call
  <2>3. /\ again.pc = (IF Pool = <<>> THEN "nil" ELSE "scan") /\ again.scan = 1
        /\ again.pool = <<>> /\ again.turn = j + 1 /\ again.tried = req[r].tried
    <3>1. /\ start \in Call /\ start.pc = (IF Pool = <<>> THEN "nil" ELSE "scan")
          /\ start.scan = 1 /\ start.pool = <<>> /\ start.tried = req[r].tried
      BY <1>1, StartPickOK, StartPickIs
    <3> HIDE DEF start
    <3> QED BY <3>1 DEF Call
  <2> HIDE DEF again, nil
  <2>4. TurnOf(call)
    BY <1>1, <2>2, <2>3 DEF TurnOf, PickTurns
  <2>5. req'[r] = call
    BY <2>1 DEF Inv, TypeOK
  <2>6. ASSUME algo = "RoundRobin", EvenPool, ~disturbed[r] PROVE InOrder(req[r])'
    <3>1. InOrder(req[r]) /\ counter' = (counter + 1) % CounterMod
      BY <1>2, <2>6 DEF RoundsInv, Advance
    <3>2. /\ Len(req[r].pool) = Total
          /\ \A i \in 1..Len(Pool) : healthy[Pool[i]] => req[r].pool[Rank(i)] = Pool[i]
      BY <1>1, <3>1 DEF InOrder, ScannedOf, Total
    <3>3. t = req[r].pool[(counter % Total) + 1] /\ t \in req[r].tried
      BY <1>5, <1>7, <2>6, <3>2 DEF Choices, Accepts
    <3>4. ASSUME NEW i \in 1..Len(Pool), healthy[Pool[i]],
                 Behind(counter', Total, Rank(i) - 1) < Reach(counter', Total, j + 1)
          PROVE  Pool[i] \in req[r].tried
      <4>1. Total \in 1..Len(Pool) /\ Rank(i) \in 1..Total /\ Rank(i) - 1 \in 0..(Total - 1)
        BY <3>4, PlaceFacts
      <4>2. CASE Rank(i) - 1 = counter % Total
        <5>1. Rank(i) = (counter % Total) + 1
          BY <4>1, <4>2
        <5> QED BY <3>2, <3>3, <3>4, <5>1
      <4>3. CASE Rank(i) - 1 # counter % Total
        <5>1. Behind(counter, Total, Rank(i) - 1) < Reach(counter, Total, j)
          BY <1>1, <2>6, <3>1, <3>4, <4>1, <4>3, OneMore DEF EvenPool
        <5> QED BY <1>1, <3>1, <3>4, <5>1 DEF InOrder, RefusedOf
      <4> QED BY <4>2, <4>3
    <3>5. (\A i : Rank(i)' = Rank(i)) /\ Total' = Total
      BY <1>2, RankKept
    <3>6. CASE j < PickTurns
      <4>1. Pool # <<>> => req'[r].pc = "scan" /\ req'[r].scan = 1 /\ req'[r].pool = <<>>
        BY <2>3, <2>5, <3>6
      <4>2. req'[r].turn = j + 1 /\ req'[r].tried = req[r].tried
        BY <2>3, <2>5, <3>6
      <4>3. Pool # <<>>
        BY <1>1, <3>6 DEF PickTurns
      <4>4. ScannedOf(req[r])'
        <5>1. Rank(0)' = 0 /\ Len(<<>>) = 0 /\ 1 - 1 = 0
          BY <3>5, RankFacts
        <5> QED BY <1>1, <4>1, <4>3, <5>1 DEF ScannedOf
      <4>5. RefusedOf(req[r])'
        BY <1>2, <3>4, <3>5, <4>2 DEF RefusedOf
      <4>6. ExhaustedOf(req[r])'
        BY <4>1, <4>3 DEF ExhaustedOf
      <4> QED BY <4>4, <4>5, <4>6 DEF InOrder
    <3>7. CASE ~(j < PickTurns)
      <4>1. req'[r].pc = "nil" /\ req'[r].tried = req[r].tried /\ j = Len(Pool)
        BY <1>1, <2>2, <2>5, <3>7 DEF PickTurns
      <4>2. counter' \in 0..(CounterMod - 1)
        BY <1>1, <3>1, Remainder
      <4>3. ASSUME NEW i \in 1..Len(Pool), healthy[Pool[i]] PROVE Pool[i] \in req[r].tried
        <5>1. Total \in 1..Len(Pool) /\ Rank(i) - 1 \in 0..(Total - 1)
          BY <4>3, PlaceFacts
        <5>2. Behind(counter', Total, Rank(i) - 1) < Reach(counter', Total, Len(Pool) + 1)
          BY <2>6, <4>2, <5>1, AllTurns
        <5> QED BY <3>4, <4>1, <4>3, <5>2
      <4> QED BY <1>2, <4>1, <4>3 DEF InOrder, ScannedOf, RefusedOf, ExhaustedOf
    <3> QED BY <3>6, <3>7
  <2> HIDE DEF call
  <2> QED BY <1>2, <1>3, <1>4, <2>1, <2>4, <2>6, OneStep
<1> QED BY <1>6, <1>7

(* The request arrives, or tries again after a transport failure: a new pick. *)
LEMMA ArriveRounds == ASSUME Inv, RoundsInv, NEW r \in Clients, Arrive(r) PROVE RoundsInv'
<1> DEFINE call == StartPick(req[r])
<1>1. req[r] \in Call /\ req[r].pc = "idle" /\ req[r].turn = 0 /\ Len(Pool) \in Nat
  BY PoolFacts DEF Arrive, Inv, TypeOK, RoundsInv, TurnOf
<1>2. /\ req' = [req EXCEPT ![r] = call] /\ UNCHANGED <<algo, healthy, counter>>
      /\ disturbed' = [disturbed EXCEPT ![r] = FALSE]
  BY DEF Arrive
<1>3. /\ call.pc = IF Pool = <<>> THEN "nil" ELSE "scan"
      /\ call.scan = 1 /\ call.pool = <<>> /\ call.turn = 0
  BY <1>1, StartPickIs
<1> HIDE DEF call
<1>4. counter \in 0..(CounterMod - 1) /\ healthy \in [Targets -> BOOLEAN]
  BY PoolAssumption DEF Inv, TypeOK, RoundsInv
<1>5. InOrder(call)
  BY <1>3, <1>4, BeginInOrder
<1>6. req'[r] = call
  BY <1>2 DEF Inv, TypeOK
<1>7. InOrder(req[r])'
  BY <1>2, <1>5, <1>6, InOrderKept
<1>8. TurnOf(call)
  BY <1>1, <1>3 DEF TurnOf
<1>9. disturbed' \in [Clients -> BOOLEAN] /\ \A q \in Clients \ {r} : disturbed'[q] = disturbed[q]
  BY <1>2 DEF RoundsInv
<1> QED BY <1>2, <1>7, <1>8, <1>9, OneStep DEF RoundsInv

LEMMA TransportErrRounds ==
    ASSUME Inv, RoundsInv, NEW r \in Clients, TransportErr(r)
    PROVE  RoundsInv'
<1> DEFINE fresh == StartPick(req[r])
           n == req[r].attempt + 1
           retry == [fresh EXCEPT !.attempt = n, !.target = NoTarget]
           failed == [req[r] EXCEPT !.pc = "failed"]
           call == IF req[r].attempt < MaxRetries THEN retry ELSE failed
<1>1. req[r] \in Call /\ req[r].pc = "sent" /\ req[r].turn = 0 /\ Len(Pool) \in Nat
  BY PoolFacts DEF TransportErr, Inv, TypeOK, RoundsInv, TurnOf
<1>2. /\ req' = [req EXCEPT ![r] = call] /\ UNCHANGED <<algo, healthy, counter>>
      /\ disturbed' = [q \in Clients |-> q # r /\ (disturbed[q] \/ InPick(q))]
  BY DEF TransportErr
<1>3. failed.pc = "failed" /\ failed.turn = 0
  BY <1>1 DEF Call
<1>4. /\ retry.pc = IF Pool = <<>> THEN "nil" ELSE "scan"
      /\ retry.scan = 1 /\ retry.pool = <<>> /\ retry.turn = 0
  <2>1. /\ fresh \in Call /\ fresh.pc = IF Pool = <<>> THEN "nil" ELSE "scan"
        /\ fresh.scan = 1 /\ fresh.pool = <<>> /\ fresh.turn = 0
    BY <1>1, StartPickIs, StartPickOK
  <2> HIDE DEF fresh, n
  <2> QED BY <2>1 DEF Call
<1> HIDE DEF retry, failed
<1>5. counter \in 0..(CounterMod - 1) /\ healthy \in [Targets -> BOOLEAN]
  BY PoolAssumption DEF Inv, TypeOK, RoundsInv
<1>6. InOrder(retry)
  BY <1>4, <1>5, BeginInOrder
<1>7. InOrder(failed)
  BY <1>3 DEF InOrder, ScannedOf, RefusedOf, ExhaustedOf
<1>8. TurnOf(call)
  BY <1>1, <1>3, <1>4 DEF TurnOf
<1>9. InOrder(call)
  BY <1>6, <1>7
<1> HIDE DEF call
<1>10. req'[r] = call
  BY <1>2 DEF Inv, TypeOK
<1>11. InOrder(req[r])'
  BY <1>2, <1>9, <1>10, InOrderKept
<1>12. /\ disturbed' \in [Clients -> BOOLEAN]
       /\ \A q \in Clients \ {r} : ~disturbed'[q] => ~disturbed[q]
  BY <1>2 DEF RoundsInv, InPick
<1> QED BY <1>2, <1>8, <1>11, <1>12, OneStep DEF RoundsInv

(* A call that leaves pick, or was not in it, only disturbs others. *)
LEMMA OutcomeRounds ==
    ASSUME Inv, RoundsInv, NEW r \in Clients, NEW call,
           req' = [req EXCEPT ![r] = call], call.pc \in {"pipe", "ok", "failed"},
           call.turn = req[r].turn, UNCHANGED <<algo, healthy, counter>>,
           disturbed' \in [Clients -> BOOLEAN],
           \A q \in Clients : ~disturbed'[q] => ~disturbed[q]
    PROVE  RoundsInv'
<1>1. req'[r] = call
  BY DEF Inv, TypeOK
<1>2. InOrder(req[r])'
  BY <1>1, NotInPick
<1>3. TurnOf(call)
  BY DEF RoundsInv, TurnOf
<1> QED BY <1>2, <1>3, OneStep DEF RoundsInv

LEMMA RoundsInit == Init => RoundsInv
<1> SUFFICES ASSUME Init PROVE RoundsInv
  OBVIOUS
<1>1. \A r \in Clients : req[r] = NewCall
  BY DEF Init
<1>2. NewCall.pc = "idle" /\ NewCall.turn = 0
  BY DEF NewCall
<1>3. \A r \in Clients : TurnOf(req[r])
  BY <1>1, <1>2, PoolFacts DEF TurnOf
<1>4. \A r \in Clients : InOrder(req[r])
  BY <1>1, <1>2 DEF InOrder, ScannedOf, RefusedOf, ExhaustedOf
<1>5. counter < CounterMod
  BY PoolAssumption DEF Init
<1>6. healthy \in [Targets -> BOOLEAN] /\ disturbed \in [Clients -> BOOLEAN]
  BY DEF Init
<1> QED BY <1>3, <1>4, <1>5, <1>6 DEF RoundsInv

LEMMA RoundsStep == Inv /\ RoundsInv /\ [Next]_vars => RoundsInv'
<1> SUFFICES ASSUME Inv, RoundsInv, [Next]_vars PROVE RoundsInv'
  OBVIOUS
<1>0. EvenPool' <=> EvenPool
  BY DEF EvenPool, weight
<1>1. ASSUME req' = req, algo' = algo,
             healthy' \in [Targets -> BOOLEAN], disturbed' \in [Clients -> BOOLEAN],
             counter' = counter,
             \A q \in Clients : ~disturbed'[q] =>
                 ~disturbed[q] /\ (InPick(q) => healthy' = healthy)
      PROVE  RoundsInv'
  <2>1. ASSUME algo = "RoundRobin", EvenPool, NEW q \in Clients, ~disturbed'[q]
        PROVE  InOrder(req[q])'
    <3>1. InOrder(req[q]) /\ req'[q] = req[q] /\ (InPick(q) => healthy' = healthy)
      BY <1>1, <2>1 DEF RoundsInv
    <3>2. CASE InPick(q)
      BY <1>1, <3>1, <3>2, InOrderKept
    <3>3. CASE ~InPick(q)
      BY <3>1, <3>3, NotInPick DEF InPick
    <3> QED BY <3>2, <3>3
  <2>2. \A q \in Clients : TurnOf(req[q])'
    BY <1>1 DEF RoundsInv, TurnOf
  <2>3. algo' = "RoundRobin" /\ EvenPool' =>
            \A q \in Clients : ~disturbed'[q] => InOrder(req[q])'
    BY <1>0, <1>1, <2>1
  <2>4. counter' < CounterMod
    BY <1>1 DEF RoundsInv
  <2> QED BY <1>1, <2>2, <2>3, <2>4 DEF RoundsInv
<1>2. ASSUME NEW t \in Targets, SetHealth(t) PROVE RoundsInv'
  <2>1. /\ healthy' \in [Targets -> BOOLEAN] /\ disturbed' \in [Clients -> BOOLEAN]
        /\ \A q \in Clients : ~disturbed'[q] => ~disturbed[q] /\ ~InPick(q)
    BY <1>2 DEF SetHealth, RoundsInv, InPick
  <2>2. req' = req /\ algo' = algo /\ counter' = counter
    BY <1>2 DEF SetHealth
  <2> QED BY <1>1, <2>1, <2>2
<1>3. CASE UNCHANGED vars
  <2>1. UNCHANGED <<algo, healthy, counter, req, disturbed>>
    BY <1>3 DEF vars
  <2>2. healthy' \in [Targets -> BOOLEAN] /\ disturbed' \in [Clients -> BOOLEAN]
    BY <2>1 DEF RoundsInv
  <2> QED BY <1>1, <2>1, <2>2
<1>4. ASSUME NEW r \in Clients, NEW pc \in {"pipe", "ok", "failed"},
             req' = [req EXCEPT ![r].pc = pc], UNCHANGED <<algo, healthy, counter>>,
             DisturbOthers(r) \/ UNCHANGED disturbed
      PROVE  RoundsInv'
  <2> DEFINE call == [req[r] EXCEPT !.pc = pc]
  <2>1. req[r] \in Call /\ req' = [req EXCEPT ![r] = call]
    BY <1>4 DEF Inv, TypeOK
  <2>2. call.pc = pc /\ call.turn = req[r].turn
    BY <2>1 DEF Call
  <2>3. /\ disturbed' \in [Clients -> BOOLEAN]
        /\ \A q \in Clients : ~disturbed'[q] => ~disturbed[q]
    BY <1>4 DEF DisturbOthers, RoundsInv, InPick
  <2> HIDE DEF call
  <2> QED BY <1>4, <2>1, <2>2, <2>3, OutcomeRounds
<1>5. ASSUME NEW r \in Clients, NoTargetLeft(r) PROVE RoundsInv'
  <2> DEFINE call == [req[r] EXCEPT !.pc = "failed", !.gaveUp = TRUE]
  <2>1. req[r] \in Call
    BY DEF Inv, TypeOK
  <2>2. req' = [req EXCEPT ![r] = call] /\ UNCHANGED <<algo, healthy, counter, disturbed>>
    BY <1>5, <2>1 DEF NoTargetLeft, Call, Inv, TypeOK
  <2>3. call.pc = "failed" /\ call.turn = req[r].turn
    BY <2>1 DEF Call
  <2> HIDE DEF call
  <2> QED BY <2>2, <2>3, OutcomeRounds DEF RoundsInv
<1>6. ASSUME NEW r \in Clients, Answer(r) \/ UpgradeDialErr(r) \/ Hijack(r) \/ HijackReturn(r)
      PROVE  RoundsInv'
  BY <1>4, <1>6 DEF Answer, UpgradeDialErr, Hijack, HijackReturn
<1> QED
  BY <1>2, <1>3, <1>5, <1>6, ScanRounds, ChooseRounds, ArriveRounds, TransportErrRounds
  DEF Next, CallStep

(* RoundRobinExhausts holds for every pool of weight one whose length and health
   the counter's wrap does not outrun: a retry under round robin gives up only
   when every healthy target has been tried (proxy.go:241-250). *)
THEOREM RoundRobinCorrect == Spec => []RoundRobinExhausts
<1>1. RoundsInv => RoundRobinExhausts
  <2> SUFFICES ASSUME RoundsInv, algo = "RoundRobin", EvenPool, NEW r \in Requests,
                      req[r].pc = "nil", ~disturbed[r], NEW t \in Targets, healthy[t]
               PROVE  t \in req[r].tried
    BY DEF RoundRobinExhausts, GivesUpOnlyWhenExhausted
  <2>1. ExhaustedOf(req[r])
    BY DEF RoundsInv, InOrder, Clients
  <2>2. PICK i \in 1..Len(Pool) : Pool[i] = t
    BY DEF Targets
  <2> QED BY <2>1, <2>2 DEF ExhaustedOf
<1>2. Inv /\ RoundsInv /\ [Next]_vars => (Inv /\ RoundsInv)'
  BY InvStep, RoundsStep
<1> QED BY <1>1, <1>2, InvInit, RoundsInit, PTL DEF Spec

=============================================================================
